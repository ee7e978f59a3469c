SPECIFICATION Spec
CONSTANTS
    Hosts = {"shop", "www", "bank"}
    Paths = {"/", "pay"}
    NoPath = "/"
    SubdomainOf <- MCSubdomainOf
    PathPrefix <- MCPathPrefix
    PathBelow <- MCPathPrefix
    PathEnding <- MCPathPrefix
    Listings <- MCListings
    Rank <- MCRank
    RuleLimit = 2
    MaxVersion = 2
    Published <- MCPublished
    Unusable = Unusable
    NoFeed = NoFeed
    Nothing = Nothing
    Sites = {"www"}
    UserJobs = {"user"}
CHECK_DEADLOCK FALSE
CONSTRAINT FewUnderWay
INVARIANTS
    SignedOnly
    RequestsPerWindow
PROPERTIES
    LoweredOnlyByStaleRead
    NeverDisarmed
