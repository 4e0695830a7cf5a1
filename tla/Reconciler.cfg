SPECIFICATION RecSpec
CONSTANTS
  NoWorker = NoWorker
  Worker = {w1}
  Pass = {p1}
  MaxGen = 2
  Calls = {"stop", "reset", "delete", "expire"}
  MaxCalls = 1
  MaxFaults = 1
  MaxSpent = 1
  OtherReports = {"building"}

    
PROPERTIES
    ImplementsMatrix
CHECK_DEADLOCK FALSE
