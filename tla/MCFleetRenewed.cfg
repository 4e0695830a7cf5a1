SPECIFICATION MCSpec
CONSTANTS
  r1 = r1
  r2 = r2
  w1 = w1
  w2 = w2
  p1 = p1
  p2 = p2
  c1 = c1
  c2 = c2
  None = None
  Res <- TwoRes
  Worker <- BothWorkers
  Pool <- OnePool
  Caller <- OneCaller
  PoolUnits <- MCPoolUnits
  WorkerUnits <- MCWorkerUnits
  PoolLimit <- MCPoolLimit
  Capacity <- MCCapacity
  OverCeiling <- NoRes
  SweepLimit = 1
  Calls = {d1, d2}
  Creds = {k1, k2, k3}
  NoCall = NoCall
  NoCred = NoCred
  Transports = {"http", "local"}
  MaxAge = 1
  Focuses = {"placement"}
PROPERTIES
  RenewedHoldKept
