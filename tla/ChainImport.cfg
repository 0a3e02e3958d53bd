\* Import of a block file and blocks from peers, refused blocks, database errors and
\* crashes; no checkpoints, a sane clock.
SPECIFICATION ImportSpec
CONSTANTS
    Genesis = "g"
    Null = "null"
    Blocks <- MCBlocks
    Prev <- MCPrev
    Branch <- MCBranch
    ChainWork <- MCChainWork
    Unconnectable = {"b3"}
    Suspect = {}
    Master = {}
    Strict = FALSE
    Downloading = {TRUE, FALSE}
    Faults = TRUE
    MaxCrashes = 2
    MaxBatch = 2
    Estimate = 3
INVARIANTS
    MemoryIsDisk
    MainChainLinks
PROPERTY LedgerRefined
