--------------------------- MODULE MCAssetLoading ---------------------------
EXTENDS AssetLoading, TLC

\* The first part may be in the header's block, the second has two blocks.
Blocks == (0 :> 1 @@ 1 :> 2)
BlocksOfThree == (0 :> 1 @@ 1 :> 2 @@ 2 :> 1)
=============================================================================
