SPECIFICATION FairLoopSpec
CONSTANTS
  j1 = j1
  j2 = j2
  w1 = w1
  w2 = w2
  t1 = t1
  t2 = t2
  t3 = t3
  None = None
  Job <- OneJob
  BuildJob <- OneJob
  Worker <- BothWorkers
  Token <- ThreeTokens
  Required <- MCRequired
  Capabilities <- MCCapabilities
  MaxAttempts <- MCMaxAttempts
  LeaseSeconds = 1
  VerifySeconds = 2
  RenewSeconds = {1, 2}
  BackoffBase = 1
  MaxBackoff = 2
  ReapLimit = 2
PROPERTIES
    UsesQueue
    JobsSettle
