SPECIFICATION Spec
CONSTANTS
  j1 = j1
  j2 = j2
  w1 = w1
  w2 = w2
  t1 = t1
  t2 = t2
  t3 = t3
  None = None
  Job <- MCJob
  Worker <- MCWorker
  Token <- MCToken
  Required <- MCRequired
  Capabilities <- MCCapabilities
  MaxAttempts <- MCMaxAttempts
  LeaseSeconds = 1
  RenewSeconds = {1, 2}
  BackoffBase = 1
  MaxBackoff = 2
  ReapLimit = 2
SYMMETRY TokenSymmetry
INVARIANTS
    FenceExclusive
    CancelWins
    AttemptBudget
PROPERTIES
    LifecycleSpec
