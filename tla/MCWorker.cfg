SPECIFICATION WorkerSpec
CONSTANTS
    Extensions = {"e1", "e2"}
    Looks <- MCLooks
    Risky = {"tabs"}
    Everywhere = {"all"}
    Unrecorded = Unrecorded
    Gone = Gone
    NotTold = NotTold
    Readings = {r1, r2}
    MaxReadings = 2
    Profiles <- MCProfiles
    MaxUpdates = 1
    MaxStops = 1
    Unread = Unread
    Ids = {1}
    Files <- MCFiles
    Feeds <- MCFeeds
    MaxFeedMoves = 2
    MaxDlStops = 1
    Contexts = {"worker", "page", "old page"}
    Callers = {1, 2}
    Build <- MCBuild
    MaxOpens = 4
    Submissions = {1, 2}
    Passwords = {"common", "own", "fresh"}
    Hosts = {"h1", "h2"}
    Common = {"common"}
    Breached = {"own"}
    MaxWipes = 1
    MaxPwStops = 1
    MaxSubmitted = 2
    Requests = {r1, r2}
    Relics = {old}
    Room = 3
    LeakChecks = {1,2}
    Calls = {1, 2}
    Wants = {w1, w2}
    Managers = {m1, m2}
    ModelVersions = {"0", "1"}
    HostKind = {"none", "offscreen", "background"}
    Backends = {{}, {"wasm"}}
CHECK_DEADLOCK FALSE
INVARIANTS
    ChangesAreToldOnce
    FilesAreStoppedAndTold
    HandlesAreSound
    IndexIsHonest
    OutboundInOrder
    AnswerIsEverySources
    OnlyAgreedModels
PROPERTIES
    AgreedIsSilent
    KeepsTheLedger
    WorkerAnswers
