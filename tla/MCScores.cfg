SPECIFICATION MCSpec
CONSTANTS
  s1 = s1
  s2 = s2
  i1 = i1
  i2 = i2
  v1 = v1
  v2 = v2
  q1 = q1
  q2 = q2
  t1 = t1
  t2 = t2
  Sub <- MCSub
  Slot <- MCSlot
  Server <- MCServer
  Projector <- MCProjector
  MaxSeq = 2
  MaxAttempts = 2
  MaxUpsets = 1
  DThread <- MCThread
  MaxTok = 4
  MaxEvents = 2
  MaxDNow = 1
  Ttl = 1
  ScTeam = {1, 2}
  ScChallenge = {1, 2}
  ScTime = {1, 4}
  ScConfig <- MCConfig
  MaxLog = 3
  Focuses = {"submissions", "scores", "dashboard"}
INVARIANTS
    SubmissionsSafe
    NothingSkipped
    FoldSafe
    DashboardSafe
PROPERTIES
    PendingServed
CHECK_DEADLOCK FALSE
