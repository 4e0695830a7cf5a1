SPECIFICATION MCSpec
CONSTANTS
    e1 = e1
    e2 = e2
    c1 = c1
    c2 = c2
    Email = {e1, e2}
    Caller = {c1, c2}
    Password = {"p", "q", "short"}
    Strong = {"p", "q"}
    Competition = {"k1"}
    Role = {"player", "captain"}
    TeamName = {"red", "blue"}
    TeamsOf <- MCTeams
    SessionTtl = 2
    LoginTtl = 1
    AllowedEmail = {e2}
    AutoProvision = TRUE
    NoHash = NoHash
    NoMember = NoMember
    MaxSessions = 3
    MaxLogins = 2
    MaxClock = 3
    Contest = {"k1", "k2"}
    NoMembership = NoMembership
    Team = {"red", "blue"}
    Key = {"a"}
    NoKey = NoKey
    Body = {1, 2}
    Reuse = FALSE
    MaxCalls = 3
    MaxRestarts = 1
    Focuses = {"passwords", "sessions", "logins", "members", "roles", "single", "race", "faces", "patch", "limit", "list"}
    LimThread = {"h1", "h2"}
    Peer = {"p1"}
    Forwarded = {"f1"}
    Cost = 3
    Burst = 6
    Rate = 2
    MaxLimNow = 2
    ListKey = {1, 2, 3, 4, 5}
    MinLimit = 1
    MaxLimit = 3
    DefaultLimit = 2
    AskedLimit <- MCAskedLimit
    ListCap <- MCListCap
INVARIANTS
    AccountsSafe
    
    InterfacesAgree
    EdgeSafe
PROPERTIES
    PatchKeepsOthers
CHECK_DEADLOCK FALSE
