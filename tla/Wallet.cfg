\* Four transactions, four keys, two accounts, three addresses to group, two to show.
SPECIFICATION Spec
CONSTANTS
    MaxTips = 3
    AccountNames = {"", "s"}
    MaxAddresses = 2
    MaxTxs = 2
    MaxMoves = 1
    Maturity = 2
    MaxTime = 2
    Addrs = {1, 2, 3}
    MaxLinks = 3
    Tx <- TxExamples
    ShownAddresses = {"A", "B"}
    OwnAddresses = {"A"}
    Labels = {"k", "l"}
    MaxChanges = 4
    fund = fund
    pay = pay
    copy = copy
    spend = spend
    MaxChain = 2
    MaxZaps = 1
    MaxOrphans = 1
    Users = {"miner"}
    Passphrases = {passOne, passTwo}
    PoolSize = 0
    RefillSize = 1
    HybridTarget = 1
    HybridLow = 1
    HybridGrow = 1
    MaxWalletKeys = 4
    MaxFaults = 1
SYMMETRY PassphrasesAlike
INVARIANTS
    PaymentsAgree
    CoinsMarked
    KeysRecoverable
    WalletLoads
    IssuedOnce
    AccountsAddUp
    ViewFollows
\* the bounds are used up
CHECK_DEADLOCK FALSE
