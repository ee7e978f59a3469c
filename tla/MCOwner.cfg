SPECIFICATION ScreensSpec
CONSTANTS
    Items = {1, 2}
    Weight <- WeightValue
    Ease <- EaseValue
    Shown = 1
    Entries = {e1}
    Loads = {1, 2}
    DeferFor = 1
    MaxClock = 1
    InFlight = 1
    Runs = {r1, r2}
    Exports = {x1}
    MaxSections = 2
    MaxWrites = 1
    VisitedHosts = {"worn", "mail worn", "country", "squat", "help", "typo", "idn", "mail idn"}
    LabelsOf <- LabelsOfValue
    NameLabels <- NameLabelsValue
    Watched = {"paypal", "mail"}
    PublicSuffixes <- SuffixesValue
    Look <- LookValue
    NearLabels <- NearLabelsValue
    NearEndings <- NearEndingsValue
    Short = {"mail"}
    Generic = {"mail"}
    LoginWords = {"help"}
    Forms = {"not-encrypted"}
    Visits = {v1, v2}
    Established = 1
    SeenKept = 1
    MaxSiteDay = 2
    Requests = {1,2,3}
    Submissions <- MCSubmissions
    AppealsPerDomain = 1
    AppealWindow = 1
    KeptFor = 1
    MaxHour = 2
    FeedEntries <- EntriesValue
    HostOf <- MCHostOf
    AskedHosts <- MCAsked
    AtOrBeneath <- MCAtOrBeneath
    SourceTexts <- MCTexts
    Refused = {"s"}
    HandUpdates <- MCHand
    RuleLimit = 2
    MaxVersion = 3
    MaxDay = 1
SYMMETRY VisitSymmetry
CHECK_DEADLOCK FALSE
INVARIANTS
    QueueIsCurrent
    WipeSaysWhatItDid
    SitesAreJudgedFairly
    AppealsAreOnFile
    StatusIsTrue
PROPERTIES
    NothingGoesEarly
