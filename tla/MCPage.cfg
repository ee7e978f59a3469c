SPECIFICATION PageSpec
CONSTANTS
    Pages <- MCPages
    MaxNodes = 8
    MaxCandidates = 6
    Nodes = {"n1","n2","n3"}
    NoId = "none"
    IdOf <- MCIdOf
    FirstPage <- MCFirst
    Hiding = {"n1","n3"}
    MaxMoves = 3
    MaxPlans = 2
    MaxRestores = 2
    Window = 4
    MaxRescans = 2
    Causes = {"asleep"}
    MaxChanges = 3
    Attempts = 12
    MaxReloads = 2
    Methods = {"GET","POST","PUT"}
    RequestHosts = {"h1","none"}
    NoHost = "none"
    Xhrs = {"x1"}
    MaxRequests = 3
    MaxInstant = 1
    Texts <- MCTexts
    HiddenPages <- MCHiddenPages
    MaxScored = 1
    AreaHashes = {"#queue", "#extensions"}
    Steps = {"s1","s2"}
    MaxHashMoves = 1
    Presses = {1,2,3}
CHECK_DEADLOCK FALSE
INVARIANTS
    ScanMissesNothing
    NothingIsLost
    ChangesAreExamined
    ReportsAreHeard
    RequestsAreOnRecord
    DetectionIsEarned
    ScreenIsCurrent
PROPERTIES
    RestoreIsHonest
    PageSettles
