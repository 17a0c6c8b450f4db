SPECIFICATION Spec
CONSTANTS
  vs = vs
  ps = ps
  cs = cs
  opaque = opaque
  downsample = downsample
  main = main
  other = other
  Shaders = {vs, ps, cs}
  Pipelines = {opaque, downsample}
  ShadersOf <- StagesOf
  Compute = {downsample}
  Clients = {main, other}
  Wants <- Sets
INVARIANTS
  CachesResolved
PROPERTIES
  PipelineResolves
