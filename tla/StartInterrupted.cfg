\* One release on a chain of four blocks; the node may be asked to stop while it starts.
SPECIFICATION StartSpec
CONSTANTS
    Processes = {"p"}
    MaxHeight = 3
    Hardened = {1, 3}
    Releases = {"r1"}
    DaemonModes = {FALSE}
INVARIANT ChainKept
