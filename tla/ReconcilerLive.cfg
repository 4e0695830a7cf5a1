SPECIFICATION RecLiveSpec
CONSTANTS
  NoWorker = NoWorker
  Worker = {w1}
  Pass = {p1}
  MaxGen = 2
  Calls = {"reset", "delete"}
  MaxCalls = 1
  MaxFaults = 0
  MaxSpent = 1
  OtherReports = {"building"}
PROPERTIES
    LaunchNotLost
    DrainConverges
    LeaksSwept
CHECK_DEADLOCK FALSE
