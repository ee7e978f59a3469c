SPECIFICATION Spec
CONSTANTS
    Hosts = {"shop", "www", "id", "else"}
    Paths = {"/", "pay", "pay/2", "paydesk", "x.shop"}
    NoPath = "/"
    SubdomainOf <- MCSubdomainOf
    PathPrefix <- MCPathPrefix
    PathBelow <- MCPathBelow
    PathEnding <- MCPathEnding
    Listings <- MCListings
    Rank <- MCRank
    RuleLimit = 3
INVARIANTS
    RulesMeanTheFeed
PROPERTIES
    TrustIsLocal
