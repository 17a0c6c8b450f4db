SPECIFICATION Spec
CONSTANTS
  Threads = {t1, t2, t3, t4}
  ExclusiveBit = 5
INVARIANTS
  IInv
PROPERTIES
  ImplementsRWLock
