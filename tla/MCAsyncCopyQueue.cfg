SPECIFICATION Spec
CONSTANTS
  l1 = l1
  l2 = l2
  l3 = l3
  d1 = d1
  Lists <- MCLists
  Drains = {d1}
  Commands <- MCCommands
  StagingSize = 2
INVARIANTS
  Bookkeeping
  HandledInOrder
  SignaledWhenCompleted
  DrainMeansCompleted
PROPERTIES
  ListCompletes
  DrainReturns
