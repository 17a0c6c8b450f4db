SPECIFICATION Spec
CONSTANTS
  a = a
  b = b
  c = c
  Requests = {a, b, c}
  KindOf <- ThreeKinds
  PriorityOf <- LargerFirst
  BlockCount <- TwoBlocksOfOne
  Kept = {a}
INVARIANTS
  Bookkeeping
  ServedInOrder
  EntryOutlivesItsUsers
  AnsweredOnce
  CanceledIsNotRead
PROPERTIES
  RequestAnswered
  ReaderLeaves
