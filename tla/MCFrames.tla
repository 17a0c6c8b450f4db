------------------------------ MODULE MCFrames ------------------------------
EXTENDS Frames, TLC

CONSTANTS model, buffer

\* A model holds the last reference to its buffer.
Model == (model :> None @@ buffer :> model)
=============================================================================
