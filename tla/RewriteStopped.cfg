\* An encryption whose rewrite is stopped; no file system call fails.
SPECIFICATION Spec
CONSTANTS
    Stores = {"wallet"}
    MaxCommits = 3
    Faults = FALSE
    UnusableCopies = FALSE
INVARIANTS
    PlaintextGone
