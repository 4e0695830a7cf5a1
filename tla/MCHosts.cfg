SPECIFICATION MCSpec
CONSTANTS
  DkWorker = {k1, k2}
  DkInstance = {"i1"}
  Service = {1, 2}
  Subnet = {1, 2}
  Host <- MCHost
  Acknowledged = {"apparmor"}
  RequireRootless = TRUE
  MaxDkFaults = 1
  Migrator = {m1, m2}
  Targets = {0, 7, 17}
  MaxLedger = 2
  r1 = r1
  r2 = r2
  w1 = w1
  w2 = w2
  p1 = p1
  p2 = p2
  t1 = t1
  t2 = t2
  t3 = t3
  None = None
  Res <- MCRes
  Worker <- MCWorker
  Pool <- MCPool
  Order <- MCOrder
  Tx <- ThreeTx
  PoolUnits <- MCPoolUnits
  WorkerUnits <- MCWorkerUnits
  PoolLimit <- MCPoolLimit
  Capacity <- MCCapacity
  OverCeiling <- NoRes
SYMMETRY MCSymmetry
INVARIANTS
    DockerSafe
    MigrationsSafe
    NoWaitCycle
PROPERTIES
    PeersUntouched
    Atomic
CHECK_DEADLOCK FALSE
