\* Callers that open a second handle, or take cs_wallet, while they have a handle.
SPECIFICATION FairSpec
CONSTANTS
    Threads = {"t1", "t2"}
    Callers = {"GetAccountAddress", "GetAllReserveKeys", "CloneWallet", "EncryptWallet"}
    MaxCalls = 1
PROPERTY HandlesDrain
CHECK_DEADLOCK FALSE
