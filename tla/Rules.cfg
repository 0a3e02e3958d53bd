\* Amounts and sizes are scaled down; the wallets, pools and inputs are those of MCRules.
SPECIFICATION Spec
CONSTANTS
    MaxOps = 6
    MaxStack = 20
    MaxElement = 5000
    MaxScriptLength = 30
    Alphabets <- MCAlphabets
    MaxProgram <- MCMaxProgram
    Wallets <- MCWallets
    SpentOutputs <- MCOutputs
    HashTypes = {"ALL", "SINGLE", "SINGLE_ALONE"}
    MaxSignings = 3
    MaxBlockSigOps = 6
    MaxMoney = 60
    BaseMaturity = 3
    MinTxFee = 2
    MinRelayTxFee = 1
    TxDust = 2
    MaxFee = 16
    Subsidy = 10
    Txs = {"a", "b", "c", "d", "e", "f", "g", "h", "i"}
    Confirmed = {"old", "cb1", "cb2"}
    Catalogue <- MCCatalogue
    Heights <- MCHeights
    BestHeight = 7
    BlockMaxSize = 7
    BlockPrioritySize = 4
    BlockMinSize = 2
    FreePriority = 15
    CoinbaseSize = 1
    CoinbaseSigOps = 1
    Purses <- MCPurses
    Payments = {1, 4, 7}
    TxFees = {0, 1}
    Cent = 2
    FreeThreshold = 2
    InputSize = 3
    HybridInputSize = 15
    OutputSize = 1
    Windows <- MCWindows
    TriedBytes = {0, 1, 57, 58, 127, 128, 255}
    MaxLen = 3
    CheckSize = 2
    IdSize = 2
    SecretSize = 3
    Decimals = 4
    MaxWhole = 10
    Amounts <- MCAmounts
    Sizes <- Edges
    Targets <- Edges
    Blake2sAnswers <- KnownBlake2sAnswers
    ScryptAnswers <- KnownScryptAnswers
    KdfInputs <- TriedKdfInputs
    MixInputs <- TriedMixInputs
INVARIANTS
    ScriptsRunRight
    SignaturesCombine
    TemplateConnects
    SupplyAndTarget
    CreatedAccepted
    CodesInverse
    HashesRight
\* programs, payments and windows come to their end
CHECK_DEADLOCK FALSE
