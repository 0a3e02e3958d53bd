---------------------------- MODULE ChainState ----------------------------
(***************************************************************************)
(* The block index and the best chain of one node: AcceptBlock,            *)
(* AddToBlockIndex, SetBestChain with Reorganize and the postponed         *)
(* connects, and the synchronised checkpoints (main.cpp, checkpoints.cpp), *)
(* against a database that commits transactions atomically and survives a  *)
(* crash at any point between them (db.cpp CTxDB::LoadBlockIndex).         *)
(*                                                                         *)
(* Every handler runs under cs_main, so handlers do not interleave with    *)
(* each other; pc says how far the running one has come, so that a crash,  *)
(* a refused block or a database error can hit it anywhere.                *)
(***************************************************************************)
EXTENDS BlockTree

CONSTANTS
    Unconnectable, \* blocks that ConnectBlock always refuses
    Suspect,       \* blocks whose CheckBlock may fail later (it reads the clock)
    Master,        \* blocks the checkpoint master may announce
    Strict,        \* CheckpointsMode = STRICT
    Downloading,   \* possible answers of IsInitialBlockDownload()
    Faults,        \* TRUE if reads, writes and commits may fail
    MaxCrashes     \* bound on crashes

ASSUME ConfigAssumption ==
    /\ Unconnectable \subseteq Blocks
    /\ Suspect \subseteq Blocks
    /\ Master \subseteq Blocks
    /\ Strict \in BOOLEAN
    /\ Downloading \subseteq BOOLEAN
    /\ Faults \in BOOLEAN
    /\ MaxCrashes \in Nat

VARIABLES
    \* in memory
    index,       \* keys of mapBlockIndex
    pnext,       \* CBlockIndex::pnext
    best,        \* pindexBest; hashBestChain, nBestHeight, bnBestChainWork follow
    sync,        \* hashSyncCheckpoint
    pending,     \* hashPendingCheckpoint
    invalidCp,   \* hashInvalidCheckpoint
    invalidWork, \* bnBestInvalidWork
    \* the database
    disk,        \* committed records
    txn,         \* the records as the open transaction sees them; disk if none
    \* the running handler
    pc, caller,
    cand,        \* pindexNew of SetBestChain
    goal,        \* pindexIntermediate
    at,          \* the block the transaction has reached
    crashes

memory == <<index, pnext, best, sync, pending, invalidCp, invalidWork>>
control == <<pc, caller, cand, goal, at>>
vars == <<memory, disk, txn, control, crashes>>

Links == [AllBlocks -> AllBlocks \cup {Null}]

(* The records of blkindex: "blockindex" records with their hashNext,       *)
(* "hashBestChain", the "tx" records of the connected blocks,               *)
(* "hashSyncCheckpoint" and "bnBestInvalidWork".                            *)
Records == [index : SUBSET AllBlocks, next : Links, best : AllBlocks,
            connected : SUBSET AllBlocks, sync : AllBlocks, invalidWork : Nat]

NoLinks == [b \in AllBlocks |-> Null]

(* The node after its first complete start: the genesis block alone. *)
Init ==
    /\ index = {Genesis} /\ pnext = NoLinks /\ best = Genesis
    /\ sync = Genesis /\ pending = Null /\ invalidCp = Null /\ invalidWork = 0
    /\ disk = [index |-> {Genesis}, next |-> NoLinks, best |-> Genesis,
               connected |-> {Genesis}, sync |-> Genesis, invalidWork |-> 0]
    /\ txn = disk
    /\ pc = "idle" /\ caller = "accept"
    /\ cand = Genesis /\ goal = Genesis /\ at = Genesis
    /\ crashes = 0

-----------------------------------------------------------------------------
(* Database transactions *)

TxnAbort == txn' = disk /\ disk' = disk

Commit(records) == disk' = records /\ txn' = records

(* CDiskBlockIndex of a block is written with the links memory has. *)
WriteBlockIndex(r, b, next) ==
    [r EXCEPT !.index = @ \cup {b}, !.next[b] = next]

-----------------------------------------------------------------------------
(* Chain selection *)

(* CBlockIndex::IsInMainChain *)
IsInMainChain(b) == pnext[b] # Null \/ b = best

(* The first block on the way to b whose predecessor has no more work than *)
(* the current best block: what Reorganize() is asked to switch to.        *)
Intermediate(b) ==
    CHOOSE y \in Branch[b] :
        /\ y # Genesis => ChainWork[Prev[y]] <= ChainWork[best]
        /\ \A z \in Branch[b] \ Branch[y] : ChainWork[Prev[z]] > ChainWork[best]

(* Mutant: the links of the shorter branch stay. *)
Relink_KeepsOldBranch(links, from, to) ==
    [x \in AllBlocks |->
        IF \E y \in Branch[to] \ Branch[from] : Prev[y] = x
          THEN StepTowards(x, to)
        ELSE links[x]]

(* pnext after the shorter branch is unlinked and the longer one linked. *)
Relink(links, from, to) ==
    [x \in AllBlocks |->
        IF \E y \in Branch[to] \ Branch[from] : Prev[y] = x
          THEN StepTowards(x, to)
        ELSE IF \E y \in Branch[from] \ Branch[to] : Prev[y] = x
          THEN Null
        ELSE links[x]]

(* ConnectBlock refuses b for good, or may refuse it: the clock moved, the  *)
(* tx records are not those of its predecessor, or the database fails.      *)
MustFail(b) == b \in Unconnectable
MayFail(b) == b \in Suspect \/ txn.connected # Branch[Prev[b]] \/ Faults

(* Mutant: the predecessor's record keeps its old next. *)
ConnectBlock_NoLink(r, b) == [r EXCEPT !.connected = @ \cup {b}]

(* CBlock::ConnectBlock: the tx records of b, and b as the next of its      *)
(* predecessor, in the open transaction only.                               *)
ConnectBlock(r, b) ==
    [WriteBlockIndex(r, Prev[b], b) EXCEPT !.connected = @ \cup {b}]

(* CBlock::DisconnectBlock *)
DisconnectBlock(r, b) ==
    [WriteBlockIndex(r, Prev[b], Null) EXCEPT !.connected = @ \ {b}]

(* InvalidChainFound: raises bnBestInvalidWork and saves it, outside of     *)
(* any transaction and without looking at the result.                       *)
InvalidChainFound(b) ==
    IF ChainWork[b] > invalidWork
      THEN /\ invalidWork' = ChainWork[b]
           /\ \/ Commit([disk EXCEPT !.invalidWork = ChainWork[b]])
              \/ Faults /\ TxnAbort
      ELSE invalidWork' = invalidWork /\ TxnAbort

(* Mutant: the link is undone, the entry stays. *)
RollbackBlockIndexEntry_KeepsEntry(b) ==
    /\ index' = index
    /\ pnext' = IF b # Genesis /\ pnext[Prev[b]] = b
                 THEN [pnext EXCEPT ![Prev[b]] = Null] ELSE pnext

(* RollbackBlockIndexEntry: unless b became chain state. *)
RollbackBlockIndexEntry(b) ==
    IF b = best \/ b = Genesis \/ pnext[b] # Null
      THEN UNCHANGED <<index, pnext>>
      ELSE /\ index' = index \ {b}
           /\ pnext' = IF pnext[Prev[b]] = b THEN [pnext EXCEPT ![Prev[b]] = Null]
                                             ELSE pnext

-----------------------------------------------------------------------------
(* Accepting a block *)

(* Mutant: a block of the checkpoint's height passes. *)
CheckSync_SameHeight(b) ==
    /\ nHeight(b) > nHeight(sync) + 1 => sync \in Branch[Prev[b]]
    /\ nHeight(b) < nHeight(sync) => b \in index

(* Checkpoints::CheckSync for a block that is not yet in the index *)
CheckSync(b) ==
    /\ nHeight(b) > nHeight(sync) => sync \in Branch[Prev[b]]
    /\ nHeight(b) = nHeight(sync) => b = sync
    /\ nHeight(b) < nHeight(sync) => b \in index

(* Mutant: the predecessor is not looked up. *)
AcceptBlock_NoPrev(b) ==
    /\ pc = "idle"
    /\ b \notin index
    /\ index' = index \cup {b}
    /\ txn' = WriteBlockIndex(txn, b, Null)
    /\ pc' = "indexed" /\ caller' = "accept" /\ cand' = b
    /\ UNCHANGED <<pnext, best, sync, pending, invalidCp, invalidWork, disk,
                   goal, at, crashes>>

(* AcceptBlock up to the open transaction of AddToBlockIndex: the block     *)
(* enters mapBlockIndex before its record is committed.                     *)
AcceptBlock(b) ==
    /\ pc = "idle"
    /\ b \notin index
    /\ Prev[b] \in index
    /\ \E ibd \in Downloading : ibd \/ CheckSync(b) \/ ~Strict
    /\ index' = index \cup {b}
    /\ txn' = WriteBlockIndex(txn, b, Null)
    /\ pc' = "indexed" /\ caller' = "accept" /\ cand' = b
    /\ UNCHANGED <<pnext, best, sync, pending, invalidCp, invalidWork, disk,
                   goal, at, crashes>>

(* AddToBlockIndex of a block with no more work than the best one *)
StoreSideBlock ==
    /\ pc = "indexed"
    /\ ChainWork[cand] <= ChainWork[best]
    /\ Commit(txn) /\ pc' = "accepted"
    /\ UNCHANGED <<memory, caller, cand, goal, at, crashes>>

(* TxnBegin or WriteBlockIndex of AddToBlockIndex fails, or its commit. *)
IndexWriteFails ==
    /\ pc = "indexed"
    /\ Faults
    /\ TxnAbort /\ pc' = "idle"
    /\ RollbackBlockIndexEntry(cand)
    /\ UNCHANGED <<best, sync, pending, invalidCp, invalidWork, caller, cand,
                   goal, at, crashes>>

(* SetBestChain on the transaction AddToBlockIndex opened *)
SwitchToNewBlock ==
    /\ pc = "indexed"
    /\ ChainWork[cand] > ChainWork[best]
    /\ pc' = "switch" /\ goal' = Intermediate(cand) /\ at' = best
    /\ UNCHANGED <<memory, disk, txn, caller, cand, crashes>>

-----------------------------------------------------------------------------
(* SetBestChain *)

(* What the caller of SetBestChain does when it fails: AddToBlockIndex      *)
(* removes its entry, the checkpoint code flags the checkpoint and keeps it *)
(* pending, start-up ignores the result.                                    *)
CallerFails ==
    /\ pc' = "idle"
    /\ IF caller = "accept" THEN RollbackBlockIndexEntry(cand)
                            ELSE UNCHANGED <<index, pnext>>
    /\ invalidCp' = IF caller \in {"sync", "pending"} THEN cand ELSE invalidCp
    /\ UNCHANGED <<best, sync, pending, caller, cand, goal, at, crashes>>

(* TxnBegin fails; AddToBlockIndex hands over a transaction it has begun. *)
BeginFails ==
    /\ pc = "switch"
    /\ at = best
    /\ Faults
    /\ caller # "accept"
    /\ TxnAbort /\ UNCHANGED invalidWork
    /\ CallerFails

(* Reorganize: undo the block the transaction stands on, unless it is on    *)
(* the way to the goal.                                                     *)
Disconnect ==
    /\ pc = "switch"
    /\ at \notin Branch[goal]
    /\ txn' = DisconnectBlock(txn, at)
    /\ at' = Prev[at]
    /\ UNCHANGED <<memory, disk, pc, caller, cand, goal, crashes>>

DisconnectFails ==
    /\ pc = "switch"
    /\ at \notin Branch[goal]
    /\ at \notin txn.connected \/ Faults
    /\ InvalidChainFound(cand)
    /\ CallerFails

(* Mutant: each connected block is committed on its own. *)
Connect_CommitsEach ==
    LET b == StepTowards(at, goal) IN
    /\ pc = "switch"
    /\ at \in Branch[goal] \ {goal}
    /\ ~MustFail(b)
    /\ Commit(ConnectBlock(txn, b))
    /\ at' = b
    /\ UNCHANGED <<memory, pc, caller, cand, goal, crashes>>

(* Reorganize or SetBestChainInner: connect the next block to the goal. *)
Connect ==
    LET b == StepTowards(at, goal) IN
    /\ pc = "switch"
    /\ at \in Branch[goal] \ {goal}
    /\ ~MustFail(b)
    /\ txn' = ConnectBlock(txn, b)
    /\ at' = b
    /\ UNCHANGED <<memory, disk, pc, caller, cand, goal, crashes>>

ConnectFails ==
    LET b == StepTowards(at, goal) IN
    /\ pc = "switch"
    /\ at \in Branch[goal] \ {goal}
    /\ MustFail(b) \/ MayFail(b)
    /\ InvalidChainFound(cand)
    /\ CallerFails

(* WriteHashBestChain, TxnCommit, and only then the links in memory *)
CommitSwitch ==
    /\ pc = "switch"
    /\ at = goal
    /\ Commit([txn EXCEPT !.best = goal])
    /\ pnext' = Relink(pnext, best, goal)
    /\ pc' = "postponed"
    /\ UNCHANGED <<index, best, sync, pending, invalidCp, invalidWork, caller,
                   cand, goal, at, crashes>>

(* The pointer or the commit cannot be written; SetBestChainInner does not  *)
(* count the branch as invalid when it was the commit.                      *)
CommitFails ==
    /\ pc = "switch"
    /\ at = goal
    /\ Faults
    /\ \/ InvalidChainFound(cand)
       \/ /\ cand # Genesis /\ Prev[cand] = best
          /\ TxnAbort /\ UNCHANGED invalidWork
    /\ CallerFails

(* The blocks above the goal, one transaction each (SetBestChainInner) *)
ConnectPostponed ==
    LET b == StepTowards(at, cand) IN
    /\ pc = "postponed"
    /\ at # cand
    /\ ~MustFail(b)
    /\ Commit([ConnectBlock(txn, b) EXCEPT !.best = b])
    /\ pnext' = [pnext EXCEPT ![at] = b]
    /\ at' = b
    /\ UNCHANGED <<index, best, sync, pending, invalidCp, invalidWork, pc,
                   caller, cand, goal, crashes>>

(* Mutant: the loop tries the same block again. *)
PostponedFails_Retries ==
    LET b == StepTowards(at, cand) IN
    /\ pc = "postponed"
    /\ at # cand
    /\ \/ (MustFail(b) \/ MayFail(b)) /\ InvalidChainFound(b)
       \/ Faults /\ TxnAbort /\ UNCHANGED invalidWork
    /\ UNCHANGED <<index, pnext, best, sync, pending, invalidCp, control, crashes>>

(* "errors now are not fatal": the loop ends, SetBestChain goes on. *)
PostponedFails ==
    LET b == StepTowards(at, cand) IN
    /\ pc = "postponed"
    /\ at # cand
    /\ \/ (MustFail(b) \/ MayFail(b)) /\ InvalidChainFound(b)
       \/ Faults /\ TxnAbort /\ UNCHANGED invalidWork
    /\ pc' = "newbest"
    /\ UNCHANGED <<index, pnext, best, sync, pending, invalidCp, caller, cand,
                   goal, at, crashes>>

(* The end of SetBestChain: pindexBest = pindexNew, whatever was connected. *)
NewBest ==
    /\ pc = "newbest" \/ (pc = "postponed" /\ at = cand)
    /\ best' = cand
    /\ pc' = CASE caller = "accept" -> "accepted"
               [] caller \in {"sync", "pending"} -> "checkpoint"
               [] caller = "startup" -> "idle"
    /\ UNCHANGED <<index, pnext, sync, pending, invalidCp, invalidWork, disk,
                   txn, caller, cand, goal, at, crashes>>

-----------------------------------------------------------------------------
(* Synchronised checkpoints *)

(* Mutant: any higher block is accepted as a checkpoint. *)
ValidateSyncCheckpoint_HeightOnly(h) == nHeight(h) > nHeight(sync)

(* Checkpoints::ValidateSyncCheckpoint for a block of the index *)
ValidateSyncCheckpoint(h) ==
    nHeight(h) > nHeight(sync) /\ sync \in Branch[h]

(* It flags a checkpoint that conflicts, but not an older one. *)
Conflicts(h) == h \notin Branch[sync] /\ sync \notin Branch[h]

(* A validated checkpoint h: switch to its branch unless it is already on   *)
(* the main chain.                                                          *)
EnforceCheckpoint(h, who) ==
    /\ cand' = h /\ caller' = who
    /\ IF IsInMainChain(h)
         THEN pc' = "checkpoint" /\ UNCHANGED <<goal, at>>
         ELSE pc' = "switch" /\ goal' = Intermediate(h) /\ at' = best

(* CSyncCheckpoint::ProcessSyncCheckpoint of a correctly signed message *)
ProcessSyncCheckpoint(h) ==
    /\ pc = "idle"
    /\ \/ /\ h \notin index
          /\ pending' = h
          /\ UNCHANGED <<invalidCp, control>>
       \/ /\ h \in index
          /\ ~ValidateSyncCheckpoint(h)
          /\ invalidCp' = IF Conflicts(h) THEN h ELSE invalidCp
          /\ UNCHANGED <<pending, control>>
       \/ /\ h \in index
          /\ ValidateSyncCheckpoint(h)
          /\ EnforceCheckpoint(h, "sync")
          /\ UNCHANGED <<pending, invalidCp>>
    /\ UNCHANGED <<index, pnext, best, sync, invalidWork, disk, txn, crashes>>

(* The end of AcceptBlock outside of the initial download:                  *)
(* AcceptPendingSyncCheckpoint                                              *)
AcceptPendingSyncCheckpoint ==
    /\ pc = "accepted"
    /\ \/ /\ TRUE \in Downloading \/ pending = Null \/ pending \notin index
          /\ pc' = "idle"
          /\ UNCHANGED <<pending, invalidCp, caller, cand, goal, at>>
       \/ /\ FALSE \in Downloading
          /\ pending \in index
          /\ ~ValidateSyncCheckpoint(pending)
          /\ pending' = Null
          /\ invalidCp' = IF Conflicts(pending) THEN pending ELSE invalidCp
          /\ pc' = "idle"
          /\ UNCHANGED <<caller, cand, goal, at>>
       \/ /\ FALSE \in Downloading
          /\ pending \in index
          /\ ValidateSyncCheckpoint(pending)
          /\ EnforceCheckpoint(pending, "pending")
          /\ UNCHANGED <<pending, invalidCp>>
    /\ UNCHANGED <<index, pnext, best, sync, invalidWork, disk, txn, crashes>>

(* Mutant: hashSyncCheckpoint is set although the write failed. *)
WriteSyncCheckpoint_MemoryFirst ==
    /\ pc = "checkpoint"
    /\ pc' = "idle"
    /\ sync' = cand /\ pending' = Null
    /\ \/ Commit([disk EXCEPT !.sync = cand])
       \/ Faults /\ UNCHANGED <<disk, txn>>
    /\ UNCHANGED <<index, pnext, best, invalidCp, invalidWork, caller, cand,
                   goal, at, crashes>>

(* WriteSyncCheckpoint, in a transaction of its own, and what both callers  *)
(* do after it.                                                             *)
WriteSyncCheckpoint ==
    /\ pc = "checkpoint"
    /\ pc' = "idle"
    /\ \/ /\ Commit([disk EXCEPT !.sync = cand])
          /\ sync' = cand /\ pending' = Null
       \/ /\ Faults
          /\ UNCHANGED <<sync, pending, disk, txn>>
    /\ UNCHANGED <<index, pnext, best, invalidCp, invalidWork, caller, cand,
                   goal, at, crashes>>

-----------------------------------------------------------------------------
(* Crash and restart *)

Crash ==
    /\ pc # "down"
    /\ crashes < MaxCrashes
    /\ crashes' = crashes + 1
    /\ pc' = "down" /\ txn' = disk
    /\ UNCHANGED <<memory, disk, caller, cand, goal, at>>

(* The entries LoadBlockIndexRecord makes: one for each record, and one for *)
(* each hash a record names as its predecessor or its next block.           *)
LoadedIndex ==
    disk.index \cup {Prev[b] : b \in disk.index \ {Genesis}}
               \cup ({disk.next[b] : b \in disk.index} \ {Null})

(* CTxDB::LoadBlockIndex.  Walking down from the best block, the lowest one *)
(* that fails CheckBlock decides the fork the best chain is moved back to.  *)
Restart ==
    /\ pc = "down"
    /\ disk.best \in LoadedIndex
    /\ index' = LoadedIndex
    /\ pnext' = [b \in AllBlocks |-> IF b \in disk.index THEN disk.next[b] ELSE Null]
    /\ best' = disk.best /\ sync' = disk.sync /\ invalidWork' = disk.invalidWork
    /\ pending' = Null /\ invalidCp' = Null
    /\ caller' = "startup"
    /\ \/ /\ pc' = "idle"
          /\ UNCHANGED <<cand, goal, at>>
       \/ \E bad \in Suspect \cap Branch[disk.best] :
             /\ pc' = "switch"
             /\ cand' = Prev[bad] /\ goal' = Prev[bad] /\ at' = disk.best
    /\ UNCHANGED <<disk, txn, crashes>>

-----------------------------------------------------------------------------
(* The steps of a handler that has begun *)
Step ==
    \/ StoreSideBlock \/ IndexWriteFails \/ SwitchToNewBlock
    \/ BeginFails
    \/ Disconnect \/ DisconnectFails \/ Connect \/ ConnectFails
    \/ CommitSwitch \/ CommitFails \/ ConnectPostponed \/ PostponedFails
    \/ NewBest
    \/ AcceptPendingSyncCheckpoint \/ WriteSyncCheckpoint
    \/ Restart

Next ==
    \/ \E b \in Blocks : AcceptBlock(b)
    \/ \E h \in Master : ProcessSyncCheckpoint(h)
    \/ Step
    \/ Crash

Spec == Init /\ [][Next]_vars

(* A handler that has begun runs on: it holds cs_main and waits for nobody. *)
FairSpec == Spec /\ WF_vars(Step)

-----------------------------------------------------------------------------
(* Properties *)

(* The variables have their types: what is on disk is blocks, maps and a tip of *)
(* the tree, whatever a handler was doing when it failed or the node crashed.   *)
TypeOK ==
    /\ index \subseteq AllBlocks
    /\ pnext \in Links
    /\ best \in AllBlocks
    /\ sync \in AllBlocks
    /\ pending \in AllBlocks \cup {Null}
    /\ invalidCp \in AllBlocks \cup {Null}
    /\ invalidWork \in Nat
    /\ disk \in Records
    /\ txn \in Records
    /\ pc \in {"idle", "indexed", "switch", "postponed", "newbest", "accepted",
               "checkpoint", "down"}
    /\ caller \in {"accept", "sync", "pending", "startup"}
    /\ cand \in AllBlocks
    /\ goal \in AllBlocks
    /\ at \in AllBlocks
    /\ crashes \in 0 .. MaxCrashes

(* doc/lmdb.md, Write consistency: between handlers the block index in       *)
(* memory is the one on disk, whatever failed or crashed; no entry lacks its *)
(* record and no record its entry.                                           *)
IndexAgrees == pc = "idle" => index = disk.index

(* The same for the links of the main chain: memory changes them only after  *)
(* the commit (DisconnectBlock, ConnectBlock), and undoes nothing else.      *)
LinksAgree == pc = "idle" => pnext = disk.next

(* At every instant a restart finds each record's predecessor and the best   *)
(* block among the records, so LoadBlockIndexRecord makes no empty entries.  *)
DiskIndexComplete ==
    /\ Genesis \in disk.index
    /\ disk.best \in disk.index
    /\ \A b \in disk.index \ {Genesis} : Prev[b] \in disk.index
    /\ \A b \in AllBlocks : disk.next[b] # Null => disk.next[b] \in disk.index

(* The assertion of CheckSync and IsSyncCheckpointTooOld: "Sync checkpoint   *)
(* should always be an accepted block", in memory and after any restart.     *)
SyncCheckpointIndexed ==
    /\ disk.sync \in disk.index
    /\ pc # "down" => sync \in index /\ sync = disk.sync

(* The tip in memory and the tip on disk are the same between handlers.      *)
TipAgrees == pc = "idle" => best = disk.best

(* The links on disk lead from the genesis block to the best one, and to no  *)
(* other block: IsInMainChain and the walks over pnext rely on it.           *)
MainChainLinks ==
    \A x, y \in AllBlocks :
        disk.next[x] = y <=> /\ y \in Branch[disk.best] \ {Genesis}
                             /\ Prev[y] = x

(* Checkpoints only move forward along one branch, across restarts too.      *)
CheckpointMonotone == [][disk.sync \in Branch[disk.sync']]_vars

(* A strict node out of the initial download that has the checkpoint on its  *)
(* best chain keeps it there: no block of another branch, no failed or       *)
(* half-made switch and no newer checkpoint takes it off.  Only start-up     *)
(* may, going back to the tip on disk or below a block that fails its checks *)
(* (LoadBlockIndex): the checkpoint was written for the tip in memory.       *)
CheckpointKept ==
    [][pc # "down" /\ caller' # "startup" /\ sync \in Branch[best]
          => sync' \in Branch[best']]_vars

(* Handlers end: the node comes back to serving messages for ever.           *)
HandlersEnd == []<>(pc = "idle")
=============================================================================
