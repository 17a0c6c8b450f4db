SPECIFICATION Spec
CONSTANTS
  model = model
  buffer = buffer
  None = None
  MaxInFlight = 2
  DisposeDelay = 3
  Images = {1, 2}
  Objects = {model, buffer}
  Holder <- Model
  LastFrame = 5
INVARIANTS
  FrameResources
  PresentsPaired
  DisposedAfterUse
PROPERTIES
  EveryFrameCompletes
