-------------------------- MODULE MCAsyncCopyQueue --------------------------
EXTENDS AsyncCopyQueue, TLC

CONSTANTS l1, l2, l3, d1

TwoLists == {l1, l2}
MCLists == {l1, l2, l3}
\* Every list fits into the ring, no two of them together.
MCCommands == (l1 :> <<2, 0>> @@ l2 :> <<1, 1>> @@ l3 :> <<1>>)
TwoCommands == (l1 :> <<2, 0>> @@ l2 :> <<1, 1>>)
\* The second list alone needs more than the ring holds.
TooLarge == (l1 :> <<1>> @@ l2 :> <<1, 2>> @@ l3 :> <<1>>)
=============================================================================
