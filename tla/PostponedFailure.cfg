\* A checkpoint sets the tip back below stored blocks, one of which does not connect.
SPECIFICATION FairSpec
CONSTANTS
    Genesis = "g"
    Null = "null"
    Blocks <- MCBlocks
    Prev <- MCPrev
    Branch <- MCBranch
    ChainWork <- MCChainWork
    Unconnectable = {"b3"}
    Suspect = {}
    Master = {"b1"}
    Strict = TRUE
    Downloading = {FALSE}
    Faults = FALSE
    MaxCrashes = 1
INVARIANT TipAgrees
