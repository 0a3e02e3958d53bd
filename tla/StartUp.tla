------------------------------ MODULE StartUp ------------------------------
(***************************************************************************)
(* The start of the program up to a running node: the lock of the data     *)
(* directory, the daemon's fork, loading the block index, the genesis      *)
(* block of a first start, and the synchronised checkpoint with the public *)
(* key it is checked against (AppInit2, LoadBlockIndex).                   *)
(*                                                                         *)
(* The chain is a line of heights.  Every commit is one step; a crash may  *)
(* come between any two, and a request to stop (SIGTERM) at any time.      *)
(***************************************************************************)
EXTENDS Integers, FiniteSets, FiniteSetsExt

CONSTANTS
  Processes,     \* the program started several times on one data directory
  MaxHeight,     \* bound: height of the chain
  Hardened,      \* heights of the hardened checkpoints
  Releases,      \* master public keys of the releases that may be started
  DaemonModes    \* the values of -daemon to try

(* Heights are naturals; "none" is not a process. *)
StartAssumption == Hardened \subseteq Nat /\ "none" \notin Processes

None == -1

VARIABLES
  step,      \* step[p]: what the process does next, "off" when it is not there
  holder,    \* the process that holds the lock on .lock, or "none"
  stopping,  \* fRequestShutdown of each process
  mem,       \* [index, best, sync]: mapBlockIndex, pindexBest, hashSyncCheckpoint
  disk,      \* [index, best, sync, key]: the records
  release,   \* the release that is installed
  reached    \* the height the node has worked up to, for ChainKept

startVars == <<step, holder, stopping, mem, disk, release, reached>>

NoMemory == [index |-> {}, best |-> None, sync |-> None]

StartInit ==
  /\ step = [p \in Processes |-> "off"] /\ holder = "none"
  /\ stopping = [p \in Processes |-> FALSE]
  /\ mem = [p \in Processes |-> NoMemory]
  /\ disk = [index |-> {}, best |-> None, sync |-> None, key |-> "none"]
  /\ release \in Releases /\ reached = None

At(p, from, to) == step[p] = from /\ step' = [step EXCEPT ![p] = to]

\* The process ends, whichever way: the lock and its memory are gone.
End(p) ==
  /\ step' = [step EXCEPT ![p] = "off"]
  /\ holder' = IF holder = p THEN "none" ELSE holder
  /\ stopping' = [stopping EXCEPT ![p] = FALSE]
  /\ mem' = [mem EXCEPT ![p] = NoMemory]

Launch(p) == At(p, "off", "lock") /\ UNCHANGED <<holder, stopping, mem, disk, release, reached>>

\* The lock belongs to the process that took it: the child that a daemon
\* goes on in does not have it, and it is free when the parent has returned.
TakeLock(p) ==
  /\ step[p] = "lock"
  /\ \/ /\ holder = "none"
        /\ \E daemon \in DaemonModes: holder' = IF daemon THEN "none" ELSE p
        /\ At(p, "lock", "open") /\ UNCHANGED <<stopping, mem>>
     \/ holder # "none" /\ End(p)
  /\ UNCHANGED <<disk, release, reached>>

\* The wallet, the network and the databases are opened; each may fail.
Open(p) ==
  /\ step[p] = "open"
  /\ \/ At(p, "open", "guts") /\ UNCHANGED <<holder, stopping, mem>>
     \/ End(p)
  /\ UNCHANGED <<disk, release, reached>>

\* Records come in the order of their hashes; a request to stop ends the scan.
LoadBlockIndexRecord(p) ==
  /\ step[p] = "guts"
  /\ ~stopping[p]
  /\ \E h \in disk.index \ mem[p].index:
       mem' = [mem EXCEPT ![p].index = @ \union {h}]
  /\ UNCHANGED <<step, holder, stopping, disk, release, reached>>

GutsDone(p) ==
  /\ stopping[p] \/ disk.index \subseteq mem[p].index
  /\ At(p, "guts", IF stopping[p] THEN "genesis" ELSE "best")
  /\ UNCHANGED <<holder, stopping, mem, disk, release, reached>>

LoadBest(p) ==
  /\ step[p] = "best"
  /\ \/ /\ disk.best = None /\ 0 \notin mem[p].index
        /\ At(p, "best", "genesis") /\ UNCHANGED <<holder, stopping, mem>>
     \/ /\ disk.best \in mem[p].index
        /\ At(p, "best", "verify")
        /\ mem' = [mem EXCEPT ![p].best = disk.best, ![p].sync = disk.sync]
        /\ UNCHANGED <<holder, stopping>>
     \/ /\ disk.best \notin mem[p].index
        /\ ~(disk.best = None /\ 0 \notin mem[p].index)
        /\ End(p)
  /\ UNCHANGED <<disk, release, reached>>

\* A bad block takes the best chain back to the block before it, unless the
\* program is to stop; a block that cannot be read ends the start.
Verify(p) ==
  /\ step[p] = "verify"
  /\ \/ /\ At(p, "verify", "genesis")
        /\ UNCHANGED <<holder, stopping, mem, disk, reached>>
     \/ /\ ~stopping[p]
        /\ \E fork \in 0 .. mem[p].best - 1:
             /\ disk' = [disk EXCEPT !.best = fork]
             /\ mem' = [mem EXCEPT ![p].best = fork]
             /\ reached' = fork
        /\ At(p, "verify", "genesis") /\ UNCHANGED <<holder, stopping>>
     \/ End(p) /\ UNCHANGED <<disk, reached>>
  /\ UNCHANGED release

----------------------------------------------------------------------------
(* The genesis block and the checkpoint.                                   *)

\* The index record is committed before the best chain is set.
AddGenesisFirst(p) == [disk EXCEPT !.index = @ \union {0}]

AddGenesis(p) == [disk EXCEPT !.index = @ \union {0}, !.best = 0]

Genesis(p) ==
  /\ step[p] = "genesis"
  /\ IF mem[p].index # {}
     THEN At(p, "genesis", "key") /\ UNCHANGED <<mem, disk, reached>>
     ELSE /\ At(p, "genesis", "checkpoint")
          /\ disk' = AddGenesis(p)
          /\ mem' = [mem EXCEPT ![p] = [index |-> {0}, best |-> 0, sync |-> @.sync]]
          /\ reached' = IF reached = None THEN 0 ELSE reached
  /\ UNCHANGED <<holder, stopping, release>>

WriteSyncCheckpoint(height) == [disk EXCEPT !.sync = height]

FirstCheckpoint(p) ==
  /\ At(p, "checkpoint", "key")
  /\ disk' = WriteSyncCheckpoint(0)
  /\ mem' = [mem EXCEPT ![p].sync = disk'.sync]
  /\ UNCHANGED <<holder, stopping, release, reached>>

CheckKey(p) ==
  /\ At(p, "key", IF disk.key = release THEN "check" ELSE "reset")
  /\ disk' = [disk EXCEPT !.key = release]
  /\ UNCHANGED <<holder, stopping, mem, release, reached>>

\* The youngest one that is in the best chain.
LastHardened(p) == Max({0} \union {h \in Hardened \cap mem[p].index: h <= mem[p].best})

ResetSyncCheckpoint(p) ==
  /\ At(p, "reset", "check")
  /\ disk' = WriteSyncCheckpoint(LastHardened(p))
  /\ mem' = [mem EXCEPT ![p].sync = disk'.sync]
  /\ UNCHANGED <<holder, stopping, release, reached>>

CheckStop(p) ==
  /\ step[p] = "check"
  /\ IF stopping[p] THEN End(p)
     ELSE At(p, "check", "running") /\ UNCHANGED <<holder, stopping, mem>>
  /\ UNCHANGED <<disk, release, reached>>

----------------------------------------------------------------------------
(* A running node, as far as it touches these records.                     *)

Advance(p) ==
  /\ step[p] = "running" /\ mem[p].best < MaxHeight
  /\ LET h == mem[p].best + 1
     IN /\ mem' = [mem EXCEPT ![p] = [index |-> @.index \union {h}, best |-> h, sync |-> @.sync]]
        /\ disk' = [disk EXCEPT !.index = @ \union {h}, !.best = h]
        /\ reached' = h
  /\ UNCHANGED <<step, holder, stopping, release>>

AcceptCheckpoint(p) ==
  /\ step[p] = "running" /\ mem[p].best > mem[p].sync
  /\ mem' = [mem EXCEPT ![p].sync = mem[p].best]
  /\ disk' = [disk EXCEPT !.sync = mem[p].best]
  /\ UNCHANGED <<step, holder, stopping, release, reached>>

RequestShutdown(p) ==
  /\ step[p] # "off" /\ ~stopping[p]
  /\ stopping' = [stopping EXCEPT ![p] = TRUE]
  /\ UNCHANGED <<step, holder, mem, disk, release, reached>>

\* Also the end of a running node that was asked to stop.
Crash(p) == step[p] # "off" /\ End(p) /\ UNCHANGED <<disk, release, reached>>

Upgrade ==
  /\ \A p \in Processes: step[p] = "off"
  /\ release' \in Releases \ {release}
  /\ UNCHANGED <<step, holder, stopping, mem, disk, reached>>

StartNext ==
  \/ Upgrade
  \/ \E p \in Processes:
       \/ Launch(p) \/ TakeLock(p) \/ Open(p) \/ LoadBlockIndexRecord(p) \/ GutsDone(p)
       \/ LoadBest(p) \/ Verify(p) \/ Genesis(p) \/ FirstCheckpoint(p) \/ CheckKey(p)
       \/ ResetSyncCheckpoint(p) \/ CheckStop(p) \/ Advance(p) \/ AcceptCheckpoint(p)
       \/ RequestShutdown(p) \/ Crash(p)

StartSpec == StartInit /\ [][StartNext]_startVars

----------------------------------------------------------------------------
\* Wherever a first or a later start is cut off, what it leaves can be
\* loaded: a best chain is recorded as soon as one index record is, and it is
\* in the index (db.cpp:2688, which refuses to start otherwise).
StartsAgain ==
  disk.index # {} => disk.best \in disk.index

\* The synchronised checkpoint of a running node, if one is recorded, is the
\* recorded one and a block it has, however earlier starts were cut off
\* between the genesis block, the key and the reset and wherever a bad block
\* took the chain back to (main.cpp:2922, 2946).
CheckpointIndexed ==
  \A p \in Processes:
    step[p] = "running" /\ disk.sync # None
      => disk.sync = mem[p].sync /\ mem[p].sync \in mem[p].index

\* A start that is asked to stop leaves the chain as it was: "it's possible
\* the user requested to kill phoenixcoin-qt during the last operation.  If
\* so, exit." (init.cpp:861).  Only a bad block takes it back.
ChainKept == disk.best = reached
=============================================================================
