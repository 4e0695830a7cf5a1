SPECIFICATION MCSpec
CONSTANTS
    Editor = {e1, e2}
    NoEditor = NoEditor
    MaxTime = 3
    NoTime = 0
    MaxVersions = 3
    Maker = {"m1", "m2"}
    Blob = {1, 2}
    MaxCrashes = 2
    Builder = {w1, w2}
    NoBuilder = NoBuilder
    SvcName = {1, 2, 3}
    ComposeFiles <- MCCompose
    MaxLeases = 3
    MaxDigests = 5
    MaxDelivery = 2
    Asker = {a1, a2}
    Drainer = {d1, d2}
    NoAsker = NoAsker
    MaxStamp = 2
    EvAttempts = 2
    Contest = {c1, c2}
    MaxSeq = 3
    MaxAudit = 1
    Content = {1}
    Scenarios <- MCScenarios
    SimCheckpoint <- MCCheckpoint
    MaxTicks = 4
    Jobs <- MCJobs
    SolvePlan <- MCPlan
    Touches <- MCTouches
    FlagPaths = {"dump"}
    MaxSteps = 4
    Render = {1, 2, 3}
    MaxIoFaults = 1
    MaxDeaths = 1
    CveInfo <- MCCveInfo
    Bundled = {1, 2}
    CveQuery <- MCCveQuery
    Sanitized <- MCSanitized
    CveCaller = {1, 2, 3}
    Ttl = 0
    MaxClock = 1
    Focuses = {"backup"}
INVARIANTS AuditLossCaught
CHECK_DEADLOCK FALSE
