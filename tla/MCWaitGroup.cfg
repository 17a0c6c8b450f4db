SPECIFICATION Spec
CONSTANTS
  Tasks = {t1, t2, t3}
  Waiters = {w1, w2}
INVARIANTS
  IInv
  ReturnOnlyWhenSignaled
  NoLostWakeup
PROPERTIES
  ImplementsLatch
