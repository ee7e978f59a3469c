SPECIFICATION ScreenSpec
CONSTANTS
    Hosts = {"shop", "www"}
    Paths = {"/", "pay"}
    NoPath = "/"
    SubdomainOf <- MCSubdomainOf
    PathPrefix <- MCNone
    PathBelow <- MCNone
    PathEnding <- MCNone
    Rank <- MCRank
    RuleLimit = 3
    Tabs = {t1, t2}
    Others = {o}
    Listed <- MCListed
    Visited <- MCVisited
    Attempts = 1
    Blank = Blank
    Unknown = Unknown
CONSTRAINT TwoAtOnce
SYMMETRY TabSymmetry
PROPERTIES
    ScreenKeepsItsWord
