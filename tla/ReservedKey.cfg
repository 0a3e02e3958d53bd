SPECIFICATION Spec
CONSTANTS
    Users = {"miner"}
    Passphrases = {}
    PoolSize = 1
    RefillSize = 1
    HybridTarget = 1
    HybridLow = 1
    HybridGrow = 1
    MaxKeys = 6
    MaxFaults = 0
INVARIANT
    ReservedKeyValid
