\* The bounds of the code, scaled: Distant = Limit + Advertised.
SPECIFICATION FairSpec
CONSTANTS
    StartTip = 4
    MaxTip = 6
    Limit = 1
    Advertised = 2
    Distant = 3
    Estimate = 4
    MaxConnections = 2
INVARIANTS
    NoStuckOrphan
PROPERTIES
    Downloads
    TipFollowed
