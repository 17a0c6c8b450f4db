-------------------------- MODULE MCPipelineCaches --------------------------
EXTENDS PipelineCaches, TLC

CONSTANTS vs, ps, cs, opaque, downsample, main, other

\* Two clients share a graphics pipeline, and one wants a compute pipeline too.
StagesOf == (opaque :> <<vs, ps>> @@ downsample :> <<cs>>)
Sets == (main :> <<opaque, downsample>> @@ other :> <<opaque>>)
=============================================================================
