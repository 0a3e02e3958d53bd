\* Two threads on the environment, three on the wallet's handles, two RPC clients at shutdown.
SPECIFICATION Spec
CONSTANTS
    Threads = {"t1", "t2"}
    Keys = {"k1", "k2"}
    NoRecord = "absent"
    InitialMap = 1
    MaxMap = 3
    AutoGrow = TRUE
    MaxWrites = 2
    Stores = {"wallet", "chain"}
    MaxCommits = 4
    Faults = TRUE
    UnusableCopies = FALSE
    WalletThreads = {"t1", "t2", "t3"}
    Callers = {"SetBestChain", "KeepKey", "ReserveKeyFromKeyPool", "CloneWallet", "BackupWallet", "EncryptWallet"}
    MaxCalls = 1
    Clients = {1, 2}
INVARIANTS
    GrowthSafe
    FilesRecoverable
    QuietWhenClosed
PROPERTY WaitsEnd
