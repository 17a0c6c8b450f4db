SPECIFICATION Spec
CONSTANTS
  w0 = w0
  w1 = w1
  f1 = f1
  f2 = f2
  f3 = f3
  f4 = f4
  root = root
  ja = ja
  jb = jb
  jc = jc
  g1 = g1
  g2 = g2
  None = None
  Workers <- Two
  MainWorker = w0
  PoolOf <- PoolsOfTwo
  ShiftOf <- ShiftOfTwo
  Fibers = {f1, f2, f3, f4}
  Jobs <- MixedJobs
  RootJob = root
  Groups = {g1, g2}
  Attempts = 2
  MaxPriority = 0
  Program <- LossProgram
  AffinityOf <- LossAffinity
  PriorityOf <- OnePriority
  CompletionOf <- LossCompletion
  CountOf <- LossCount
INVARIANTS
  NothingCutOff
