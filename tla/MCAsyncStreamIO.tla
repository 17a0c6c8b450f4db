--------------------------- MODULE MCAsyncStreamIO ---------------------------
EXTENDS AsyncStreamIO, TLC

CONSTANTS a, b, c

\* A request of two compressed blocks and of larger priority value beside a raw
\* request and a plain read of equal value.
ThreeKinds == (a :> "block" @@ b :> "raw" @@ c :> "read")
LargerFirst == (a :> 2 @@ b :> 1 @@ c :> 1)
TwoBlocksOfOne == (a :> 2 @@ b :> 1 @@ c :> 1)

\* A compressed and a raw request of two blocks each; the raw one has the larger
\* priority value.
BlockAndRaw == (a :> "block" @@ b :> "raw")
OneAndTwo == (a :> 1 @@ b :> 2)
TwoBlocks == (a :> 2 @@ b :> 2)
=============================================================================
