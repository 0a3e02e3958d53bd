\* One peer and two threads that connect; three addresses from two sources; two peers that send alerts; five clocks, two wrong.
SPECIFICATION Spec
CONSTANTS
    Peers = {1}
    Openers = {open, added}
    MaxNodes = 2
    MaxOutbound = 2
    MaxInbound = 1
    IPs = {1, 2, 3}
    Sources = {1, 2}
    NewBuckets = {1, 2}
    TriedBuckets = {1}
    NewBucketSize = 2
    TriedBucketSize = 1
    BucketsPerAddress = 2
    InspectOnEvict = 2
    GetAddrPercent = 50
    MaxId = 4
    MaxSuccess = 1
    Payloads <- PayloadsExamined
    MaxSize = 3
    SendBuffer = 2
    MaxItems = 3
    AlertsSent <- AlertsExamined
    AlertPeers = {"p", "q"}
    MaxInt = 9
    MaxTime = 2
    BanScore = 2
    Minute = 2
    Stall = 4
    Delay = 2
    MaxClock = 28
    TimePeers = {"p1", "p2", "p3", "p4", "p5"}
    Liars = {"p1", "p2"}
    TimeOffsets <- OffsetsSeen
    Honest = 1
    FilterSize = 6
    Hour = 24
    Processes = {"p", "q"}
    MaxHeight = 3
    Hardened = {1, 3}
    Releases = {"r1", "r2"}
    DaemonModes = {FALSE}
    Threads = {1}
    MaxTips = 3
    MaxBlocks = 2
    PoolSize = 1
    MaxKeys = 3
SYMMETRY OpenersAlike
INVARIANTS
    NodesAccounted
    TablesAgree
    StreamIntact
    AlertsStand
    PingsDecide
    TimeFollowsMajority
    StartsAgain
    MiningSound
PROPERTY TriedKept
\* the bounds on clocks and counters are used up
CHECK_DEADLOCK FALSE
