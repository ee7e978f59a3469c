SPECIFICATION CalmSpec
CONSTANTS
    Hosts = {"shop", "www"}
    Paths = {"/"}
    NoPath = "/"
    SubdomainOf <- MCSubdomainOf
    PathPrefix <- MCPathPrefix
    PathBelow <- MCPathPrefix
    PathEnding <- MCPathPrefix
    Listings <- CalmListings
    Rank <- CalmRank
    RuleLimit = 2
    MaxVersion = 3
    Published <- CalmPublished
    Unusable = Unusable
    NoFeed = NoFeed
    Nothing = Nothing
    Sites = {"www"}
    UserJobs = {}
CHECK_DEADLOCK FALSE
PROPERTIES
    FeedConverges
