\* Everything at once: refused and doubtful blocks, checkpoints, errors, crashes.
SPECIFICATION FairSpec
CONSTANTS
    Genesis = "g"
    Null = "null"
    Blocks <- MCBlocks
    Prev <- MCPrev
    Branch <- MCBranch
    ChainWork <- MCChainWork
    Unconnectable = {"b3"}
    Suspect = {"b2"}
    Master = {"a2", "b1", "b4"}
    Strict = TRUE
    Downloading = {FALSE}
    Faults = TRUE
    MaxCrashes = 1
INVARIANTS
    IndexAgrees
    LinksAgree
    DiskIndexComplete
    SyncCheckpointIndexed
PROPERTIES
    CheckpointKept
    CheckpointMonotone
    HandlersEnd
