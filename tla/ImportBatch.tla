---------------------------- MODULE ImportBatch ----------------------------
(***************************************************************************)
(* Importing a block file (main.cpp LoadExternalBlockFile): blocks that    *)
(* extend the tip below the last hardened checkpoint share one transaction *)
(* (CChainImportBatch), while memory follows block by block.  Any other    *)
(* block, and any block when no batch can be begun, goes the way of        *)
(* ChainState.  The file may hold any blocks in any order.                 *)
(***************************************************************************)
EXTENDS ChainState, Sequences, SequencesExt

CONSTANTS
    MaxBatch,  \* MAX_IMPORT_BATCH_BLOCKS; the limit on bytes is one more of its kind
    Estimate   \* GetTotalBlocksEstimate: height of the last hardened checkpoint

ASSUME ImportAssumption == MaxBatch \in Nat \ {0} /\ Estimate \in Nat

VARIABLES
    vEntries,  \* the blocks of the open batch
    saved      \* what Begin() saved: the tip and its next block

importVars == <<vEntries, saved>>
allVars == <<vars, importVars>>

ImportInit ==
    /\ Init
    /\ vEntries = <<>>
    /\ saved = [best |-> Genesis, next |-> Null]

fActive == pc = "import"

(* The orphan maps and the memory pool are empty in an initial download. *)
IsEligible(b) ==
    /\ TRUE \in Downloading
    /\ nHeight(best) < Estimate
    /\ b \in Blocks \ index
    /\ Prev[b] = best

Begin(b) ==
    /\ pc = "idle"
    /\ IsEligible(b)
    /\ saved' = [best |-> best, next |-> pnext[best]]
    /\ vEntries' = <<>>
    /\ pc' = "import"
    /\ UNCHANGED <<memory, disk, txn, caller, cand, goal, at, crashes>>

(* ProcessBlock with the batch: the records go into the open transaction,    *)
(* index, links and tip in memory change at once.                            *)
Append_(b) ==
    /\ fActive
    /\ Len(vEntries) < MaxBatch
    /\ IsEligible(b)
    /\ ~MustFail(b)
    /\ index' = index \cup {b}
    /\ txn' = [ConnectBlock(WriteBlockIndex(txn, b, Null), b) EXCEPT !.best = b]
    /\ pnext' = [pnext EXCEPT ![best] = b]
    /\ best' = b
    /\ vEntries' = Append(vEntries, b)
    /\ UNCHANGED <<sync, pending, invalidCp, invalidWork, disk, control, crashes, saved>>

(* CChainImportBatch::RollbackMemory *)
RollbackMemory ==
    /\ index' = index \ ToSet(vEntries)
    /\ pnext' = [x \in AllBlocks |-> IF x = saved.best THEN saved.next
                                     ELSE IF pnext[x] \in ToSet(vEntries) THEN Null
                                     ELSE pnext[x]]
    /\ best' = saved.best
    /\ vEntries' = <<>>

(* A block of the batch is rejected: its own checks fail before it is        *)
(* indexed, its record cannot be written, or ConnectBlock refuses it.  The   *)
(* whole batch is taken back and the import stops.                           *)
Abort(b) ==
    /\ fActive
    /\ Len(vEntries) < MaxBatch
    /\ IsEligible(b)
    /\ \/ /\ b \in Suspect \/ Faults
          /\ TxnAbort /\ UNCHANGED invalidWork
       \/ /\ MustFail(b) \/ MayFail(b)
          /\ InvalidChainFound(b)
    /\ RollbackMemory
    /\ pc' = "idle"
    /\ UNCHANGED <<sync, pending, invalidCp, caller, cand, goal, at, crashes, saved>>

(* An exception while the file is read *)
ReadFails ==
    /\ fActive
    /\ Faults
    /\ TxnAbort
    /\ RollbackMemory
    /\ pc' = "idle"
    /\ UNCHANGED <<sync, pending, invalidCp, invalidWork, caller, cand, goal, at, crashes,
                   saved>>

(* Mutant: a batch that does not commit keeps its blocks in memory. *)
CommitBatch_NoRollback ==
    /\ fActive
    /\ pc' = "idle"
    /\ \/ Commit(txn)
       \/ Faults /\ TxnAbort
    /\ vEntries' = <<>>
    /\ UNCHANGED <<memory, caller, cand, goal, at, crashes, saved>>

(* The batch is full, the next block does not fit it, or the file ends. *)
CommitBatch ==
    /\ fActive
    /\ pc' = "idle"
    /\ \/ /\ Commit(txn)
          /\ vEntries' = <<>>
          /\ UNCHANGED <<index, pnext, best>>
       \/ /\ Faults
          /\ TxnAbort
          /\ RollbackMemory
    /\ UNCHANGED <<sync, pending, invalidCp, invalidWork, caller, cand, goal, at, crashes,
                   saved>>

LoadExternalBlockFile ==
    \/ \E b \in Blocks : Begin(b) \/ Append_(b) \/ Abort(b)
    \/ ReadFails
    \/ CommitBatch

ImportNext ==
    \/ LoadExternalBlockFile
    \/ Next /\ UNCHANGED importVars

ImportSpec == ImportInit /\ [][ImportNext]_allVars

-----------------------------------------------------------------------------
(* Properties *)

(* Between handlers the block index, the links and the tip in memory are    *)
(* those on disk: a batch whose block is refused, whose file cannot be read *)
(* or whose commit fails takes back all it did to memory, block by block,   *)
(* and a failed switch of chains does the same.                             *)
MemoryIsDisk ==
    pc = "idle" => index = disk.index /\ pnext = disk.next /\ best = disk.best

L == INSTANCE Ledger WITH known <- disk.index, tip <- disk.best,
                          coins <- disk.connected

(* Every durable change of the chain state is one atomic step of the ledger: *)
(* no crash, refused block or database error shows a half-made switch or a   *)
(* part of a batch, and the tip never moves to a block of no more work.      *)
LedgerRefined == L!Spec
=============================================================================
