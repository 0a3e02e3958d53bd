------------------------------ MODULE LmdbEnv ------------------------------
(***************************************************************************)
(* One LMDB environment shared by the threads of the node: transactions    *)
(* with their resize leases, the single writer slot, and the growth of a   *)
(* full map in the middle of a write transaction, which is aborted and     *)
(* replayed (lmdbdb.cpp CLMDBEnv, lmdb_kv.cpp CLMDBTransaction,            *)
(* db.cpp BeginChainTransaction and BeginWalletTransaction).  LMDB itself  *)
(* is external: a transaction either commits whole or leaves no trace, and *)
(* the map may be resized only while no transaction is alive.              *)
(***************************************************************************)
EXTENDS Integers, Sequences, FiniteSets, SequencesExt

CONSTANTS
    Threads,
    Keys,
    NoRecord,     \* the value of a key that has no record
    InitialMap, \* map size, in pages, at Open
    MaxMap,     \* nMaxMapSize
    AutoGrow,   \* fAutoGrow
    MaxWrites   \* bound on the mutations of one transaction

ASSUME EnvAssumption ==
    /\ NoRecord \notin Threads
    /\ InitialMap \in Nat \ {0}
    /\ MaxMap \in Nat /\ MaxMap >= InitialMap
    /\ AutoGrow \in BOOLEAN
    /\ MaxWrites \in Nat
    /\ IsFiniteSet(Threads)

VARIABLES
    pc,       \* where each thread is
    kind,     \* read-only or read-write
    op,       \* the operation a full map interrupted
    nActiveTxns, fResizePending, fWriterActive, mutexEnv,
    held,     \* CLMDBTransaction::fWriterHeld
    leases,   \* the leases threads hold: fLeaseHeld
    live,     \* the MDB transactions alive
    iterating, \* nActiveIterators > 0
    mutations, \* CLMDBTransaction::mutations
    view,     \* what the thread's MDB write transaction would read
    asked,    \* what the writes that returned true amount to
    nMapSize,
    db        \* the committed records

gate == <<nActiveTxns, fResizePending, leases>>
slot == <<fWriterActive, held>>
data == <<mutations, view, asked, db>>
envVars == <<pc, kind, op, gate, slot, mutexEnv, live, iterating, nMapSize, data>>

Values == Threads \cup {NoRecord}
Store == [Keys -> Values]
Mutation == [key : Keys, value : Values]
None == [key |-> NoRecord, value |-> NoRecord]   \* no operation to retry: Commit()
Empty == [k \in Keys |-> NoRecord]

EnvInit ==
    /\ pc = [t \in Threads |-> "idle"]
    /\ kind = [t \in Threads |-> "read"]
    /\ op = [t \in Threads |-> None]
    /\ nActiveTxns = 0 /\ fResizePending = FALSE /\ leases = {}
    /\ fWriterActive = FALSE /\ held = {}
    /\ mutexEnv = {}
    /\ live = {} /\ iterating = {}
    /\ mutations = [t \in Threads |-> <<>>]
    /\ db = Empty
    /\ view = [t \in Threads |-> Empty] /\ asked = [t \in Threads |-> Empty]
    /\ nMapSize = InitialMap

Goto(t, l) == pc' = [pc EXCEPT ![t] = l]

-----------------------------------------------------------------------------
(* The resize gate and the writer slot *)

(* AcquireTransactionLease: waits on cvTxns while a resize is pending. *)
AcquireTransactionLease(t, which) ==
    /\ ~fResizePending
    /\ nActiveTxns' = nActiveTxns + 1
    /\ leases' = leases \cup {<<t, which>>}
    /\ UNCHANGED fResizePending

(* ReleaseTransactionLease, if fLeaseHeld *)
ReleaseTransactionLease(t, which) ==
    /\ IF <<t, which>> \in leases
         THEN /\ leases' = leases \ {<<t, which>>}
              /\ nActiveTxns' = nActiveTxns - 1
         ELSE UNCHANGED <<leases, nActiveTxns>>
    /\ UNCHANGED fResizePending

ReleaseWriter(t) ==
    /\ held' = held \ {t}
    /\ fWriterActive' = (fWriterActive /\ t \notin held)

-----------------------------------------------------------------------------
(* BeginTransaction *)

Request(t, k) ==
    /\ pc[t] = "idle"
    /\ kind' = [kind EXCEPT ![t] = k]
    /\ Goto(t, "lease")
    /\ UNCHANGED <<op, gate, slot, mutexEnv, live, iterating, nMapSize, data>>

TakeLease(t) ==
    /\ pc[t] = "lease"
    /\ AcquireTransactionLease(t, "own")
    /\ Goto(t, IF kind[t] = "read" THEN "begin" ELSE "slot")
    /\ UNCHANGED <<kind, op, slot, mutexEnv, live, iterating, nMapSize, data>>

TryAcquireWriter(t) ==
    /\ pc[t] = "slot"
    /\ ~fWriterActive
    /\ fWriterActive' = TRUE /\ held' = held \cup {t}
    /\ Goto(t, "begin")
    /\ UNCHANGED <<kind, op, gate, mutexEnv, live, iterating, nMapSize, data>>

(* The slot is taken: BeginChainTransaction sleeps and tries again, or gives *)
(* up (60000 attempts, or shutdown).                                         *)
WriterBusy(t) ==
    /\ pc[t] = "slot"
    /\ fWriterActive
    /\ ReleaseTransactionLease(t, "own")
    /\ \/ Goto(t, "lease")
       \/ Goto(t, "idle")
    /\ UNCHANGED <<kind, op, slot, mutexEnv, live, iterating, nMapSize, data>>

(* mdb_txn_begin.  A write transaction also waits for LMDB's own mutex.      *)
TxnBegin(t) ==
    /\ pc[t] = "begin"
    /\ live' = live \cup {<<t, kind[t]>>}
    /\ view' = [view EXCEPT ![t] = db]
    /\ asked' = [asked EXCEPT ![t] = db]
    /\ mutations' = [mutations EXCEPT ![t] = <<>>]
    /\ Goto(t, "open")
    /\ UNCHANGED <<kind, op, gate, slot, mutexEnv, iterating, nMapSize, db>>

TxnBeginFails(t) ==
    /\ pc[t] = "begin"
    /\ ReleaseTransactionLease(t, "own")
    /\ ReleaseWriter(t)
    /\ Goto(t, "idle")
    /\ UNCHANGED <<kind, op, mutexEnv, live, iterating, nMapSize, data>>

-----------------------------------------------------------------------------
(* Using a transaction *)

Writing(t) == pc[t] = "open" /\ <<t, "write">> \in live

Apply(store, m) == [store EXCEPT ![m.key] = m.value]

(* The mutations are written in their order: the last one of a key stays.    *)
Replayed(store, muts) ==
    [k \in Keys |->
        LET writes == {i \in DOMAIN muts : muts[i].key = k}
        IN IF writes = {} THEN store[k] ELSE muts[Max(writes)].value]

(* Pages a commit of the thread's transaction would use: the records there   *)
(* are and a copied page for each mutation.                                  *)
PagesNeeded(t) == Cardinality({k \in Keys : db[k] # NoRecord}) + Len(mutations[t])

(* mdb_put and mdb_del find room in the map, and so does mdb_txn_commit with *)
(* one page for the free list.                                               *)
Fits(t) == PagesNeeded(t) + 1 <= nMapSize

(* RecordWrite, RecordErase *)
RecordMutation(t, m) == mutations' = [mutations EXCEPT ![t] = Append(@, m)]

(* CLMDBTransaction::Write and Erase *)
Write(t, m) ==
    /\ Writing(t)
    /\ Len(mutations[t]) < MaxWrites
    /\ Fits(t)
    /\ view' = [view EXCEPT ![t] = Apply(@, m)]
    /\ RecordMutation(t, m)
    /\ asked' = [asked EXCEPT ![t] = Apply(@, m)]
    /\ UNCHANGED <<pc, kind, op, gate, slot, mutexEnv, live, iterating, nMapSize, db>>

(* The map is full.  With an open cursor the write just fails, and LMDB      *)
(* lets the transaction do nothing but abort.                                *)
WriteFull(t, m) ==
    /\ Writing(t)
    /\ Len(mutations[t]) < MaxWrites
    /\ ~Fits(t)
    /\ op' = [op EXCEPT ![t] = m]
    /\ Goto(t, IF t \in iterating THEN "broken" ELSE "full")
    /\ UNCHANGED <<kind, gate, slot, mutexEnv, live, iterating, nMapSize, data>>

NewIterator(t) ==
    /\ Writing(t) /\ t \notin iterating
    /\ iterating' = iterating \cup {t}
    /\ UNCHANGED <<pc, kind, op, gate, slot, mutexEnv, live, nMapSize, data>>

CloseIterator(t) ==
    /\ Writing(t) /\ t \in iterating
    /\ iterating' = iterating \ {t}
    /\ UNCHANGED <<pc, kind, op, gate, slot, mutexEnv, live, nMapSize, data>>

(* A thread inside a write transaction reads through another CDB handle,     *)
(* which needs a lease of its own.                                           *)
NestedRead(t) ==
    /\ Writing(t)
    /\ Goto(t, "nest")
    /\ UNCHANGED <<kind, op, gate, slot, mutexEnv, live, iterating, nMapSize, data>>

BeginNestedRead(t) ==
    /\ pc[t] = "nest"
    /\ AcquireTransactionLease(t, "nested")
    /\ live' = live \cup {<<t, "nested">>}
    /\ Goto(t, "nested")
    /\ UNCHANGED <<kind, op, slot, mutexEnv, iterating, nMapSize, data>>

EndNestedRead(t) ==
    /\ pc[t] = "nested"
    /\ ReleaseTransactionLease(t, "nested")
    /\ live' = live \ {<<t, "nested">>}
    /\ Goto(t, "open")
    /\ UNCHANGED <<kind, op, slot, mutexEnv, iterating, nMapSize, data>>

(* What Commit, Abort and the destructor do last. *)
Finish(t) ==
    /\ live' = live \ {<<t, kind[t]>>}
    /\ iterating' = iterating \ {t}
    /\ mutations' = [mutations EXCEPT ![t] = <<>>]
    /\ view' = [view EXCEPT ![t] = Empty]
    /\ asked' = [asked EXCEPT ![t] = Empty]
    /\ op' = [op EXCEPT ![t] = None]
    /\ ReleaseWriter(t)
    /\ ReleaseTransactionLease(t, "own")
    /\ Goto(t, "idle")
    /\ UNCHANGED <<kind, mutexEnv, nMapSize>>

Commit(t) ==
    /\ Writing(t)
    /\ Fits(t)
    /\ db' = view[t]
    /\ Finish(t)

(* mdb_txn_commit runs out of map: it has discarded the transaction.         *)
CommitFull(t) ==
    /\ Writing(t)
    /\ ~Fits(t)
    /\ live' = live \ {<<t, "write">>}
    /\ op' = [op EXCEPT ![t] = None]
    /\ Goto(t, IF t \in iterating THEN "broken" ELSE "full")
    /\ UNCHANGED <<kind, gate, slot, mutexEnv, iterating, nMapSize, data>>

(* Abort, an I/O error in mdb_txn_commit, or the end of a read transaction;  *)
(* all that is left to a transaction whose write failed.                     *)
Abort(t) ==
    /\ pc[t] \in {"open", "broken"}
    /\ UNCHANGED db
    /\ Finish(t)

-----------------------------------------------------------------------------
(* RecoverFromMapFull and GrowMap *)

(* The transaction and its lease are given up, the writer slot is not.       *)
(* GrowMap then closes the gate.                                             *)
DropTransaction(t) ==
    /\ pc[t] = "full"
    /\ live' = live \ {<<t, "write">>}
    /\ leases' = leases \ {<<t, "own">>}
    /\ nActiveTxns' = nActiveTxns - 1
    /\ Goto(t, IF AutoGrow THEN "drain" ELSE "broken")
    /\ fResizePending' = AutoGrow
    /\ UNCHANGED <<kind, op, slot, mutexEnv, iterating, nMapSize, data>>

(* Mutant: GrowMap does not wait for the transactions to drain. *)
Drained_NoWait(t) ==
    /\ pc[t] = "drain"
    /\ mutexEnv = {}
    /\ mutexEnv' = {t}
    /\ Goto(t, "resize")
    /\ UNCHANGED <<kind, op, gate, slot, live, iterating, nMapSize, data>>

(* No transaction holds a lease; the environment is locked for the resize.   *)
Drained(t) ==
    /\ pc[t] = "drain"
    /\ nActiveTxns = 0
    /\ mutexEnv = {}
    /\ mutexEnv' = {t}
    /\ Goto(t, "resize")
    /\ UNCHANGED <<kind, op, gate, slot, live, iterating, nMapSize, data>>

(* mdb_env_set_mapsize to twice the size, at most the maximum.  It fails at   *)
(* the maximum, and may fail before.                                          *)
Resize(t) ==
    /\ pc[t] = "resize"
    /\ \/ /\ nMapSize < MaxMap
          /\ nMapSize' = IF nMapSize > MaxMap \div 2 THEN MaxMap ELSE 2 * nMapSize
          /\ Goto(t, "regain")
       \/ /\ Goto(t, "broken")
          /\ UNCHANGED nMapSize
    /\ fResizePending' = FALSE
    /\ mutexEnv' = {}
    /\ UNCHANGED <<kind, op, nActiveTxns, leases, slot, live, iterating, data>>

(* ReplayMutations into a fresh transaction *)
ReplayMutations(t) == [view EXCEPT ![t] = Replayed(db, mutations[t])]

(* A new lease and a new transaction; when the grown map is still too small  *)
(* for the replay, round again.                                              *)
Replay(t) ==
    /\ pc[t] = "regain"
    /\ AcquireTransactionLease(t, "own")
    /\ live' = live \cup {<<t, "write">>}
    /\ IF PagesNeeded(t) <= nMapSize
         THEN Goto(t, "retry") /\ view' = ReplayMutations(t)
         ELSE Goto(t, "full") /\ UNCHANGED view
    /\ UNCHANGED <<kind, op, slot, mutexEnv, iterating, nMapSize, mutations, asked, db>>

(* mdb_txn_begin or the replay fails for another reason than the map: the    *)
(* transaction and its lease are gone, the slot is kept until Abort.         *)
ReplayFails(t) ==
    /\ pc[t] = "regain"
    /\ ~fResizePending
    /\ Goto(t, "broken")
    /\ UNCHANGED <<kind, op, gate, slot, mutexEnv, live, iterating, nMapSize, data>>

(* The interrupted write or commit is tried again. *)
Retry(t) ==
    /\ pc[t] = "retry"
    /\ \/ /\ ~Fits(t)
          /\ Goto(t, "full")
          /\ live' = IF op[t] = None THEN live \ {<<t, "write">>} ELSE live
          /\ UNCHANGED <<kind, op, gate, slot, mutexEnv, iterating, nMapSize, data>>
       \/ /\ Fits(t) /\ op[t] # None
          /\ view' = [view EXCEPT ![t] = Apply(@, op[t])]
          /\ RecordMutation(t, op[t])
          /\ asked' = [asked EXCEPT ![t] = Apply(@, op[t])]
          /\ op' = [op EXCEPT ![t] = None]
          /\ Goto(t, "open")
          /\ UNCHANGED <<kind, gate, slot, mutexEnv, live, iterating, nMapSize, db>>
       \/ /\ Fits(t) /\ op[t] = None
          /\ db' = view[t]
          /\ Finish(t)

-----------------------------------------------------------------------------
(* GetDbStats: a read transaction without a lease, under mutexEnv. *)

GetDbStats(t) ==
    /\ pc[t] = "idle"
    /\ mutexEnv = {}
    /\ mutexEnv' = {t}
    /\ live' = live \cup {<<t, "stats">>}
    /\ Goto(t, "stats")
    /\ UNCHANGED <<kind, op, gate, slot, iterating, nMapSize, data>>

EndDbStats(t) ==
    /\ pc[t] = "stats"
    /\ mutexEnv' = mutexEnv \ {t}
    /\ live' = live \ {<<t, "stats">>}
    /\ Goto(t, "idle")
    /\ UNCHANGED <<kind, op, gate, slot, iterating, nMapSize, data>>

-----------------------------------------------------------------------------
(* What a thread does on its own once it has asked for a transaction *)
Progress(t) ==
    \/ TakeLease(t) \/ TryAcquireWriter(t) \/ WriterBusy(t) \/ TxnBegin(t)
    \/ BeginNestedRead(t) \/ EndNestedRead(t) \/ Commit(t) \/ CommitFull(t) \/ Abort(t)
    \/ DropTransaction(t) \/ Drained(t) \/ Resize(t) \/ Replay(t) \/ Retry(t)
    \/ EndDbStats(t)

EnvNext ==
    \E t \in Threads :
        \/ \E k \in {"read", "write"} : Request(t, k)
        \/ TxnBeginFails(t) \/ ReplayFails(t)
        \/ \E m \in [key : Keys, value : {t, NoRecord}] : Write(t, m) \/ WriteFull(t, m)
        \/ NewIterator(t) \/ CloseIterator(t) \/ NestedRead(t) \/ GetDbStats(t)
        \/ Progress(t)

EnvSpec == EnvInit /\ [][EnvNext]_envVars

(* Transactions are scoped objects of straight-line code: a thread that has  *)
(* one goes on to end it.  mutexEnv is held briefly, by calls that come at    *)
(* the pace of RPC requests, so a thread waiting for it gets in.             *)
EnvFairSpec ==
    EnvSpec /\ \A t \in Threads : WF_envVars(Progress(t)) /\ SF_envVars(Drained(t))

-----------------------------------------------------------------------------
(* Properties *)

(* The variables have their types: the map never shrinks below its first size   *)
(* and never passes its largest, through every growth and failure.              *)
TypeOK ==
    /\ pc \in [Threads -> {"idle", "lease", "slot", "begin", "open", "nest", "nested", "full",
                           "drain", "resize", "regain", "retry", "broken", "stats"}]
    /\ kind \in [Threads -> {"read", "write"}]
    /\ op \in [Threads -> Mutation \cup {None}]
    /\ nActiveTxns \in Nat
    /\ fResizePending \in BOOLEAN
    /\ leases \subseteq Threads \X {"own", "nested"}
    /\ fWriterActive \in BOOLEAN
    /\ held \subseteq Threads
    /\ mutexEnv \subseteq Threads
    /\ live \subseteq Threads \X {"read", "write", "nested", "stats"}
    /\ iterating \subseteq Threads
    /\ mutations \in [Threads -> Seq(Mutation)]
    /\ view \in [Threads -> Store]
    /\ asked \in [Threads -> Store]
    /\ db \in Store
    /\ nMapSize \in InitialMap .. MaxMap

(* "LMDB explicitly requires that no transaction is active during a resize": *)
(* not a reader's, not the grower's own, not the one that reads statistics.  *)
ResizeAlone == \A t \in Threads : pc[t] = "resize" => live = {}

(* One write transaction at a time, through growth and replay: nobody writes *)
(* between the resize and the replay of the interrupted transaction.         *)
OneWriter ==
    \A t, u \in Threads :
        pc[t] \in {"drain", "resize", "regain", "retry"} \/ <<t, "write">> \in live
          => (<<u, "write">> \in live => t = u)

(* A transaction that grew the map still holds every write that returned     *)
(* true, on top of what is committed now: the commit loses nothing and       *)
(* resurrects nothing.                                                       *)
ReplayComplete ==
    \A t \in Threads :
        Writing(t) \/ pc[t] = "retry"
          => /\ view[t] = asked[t]
             /\ view[t] = Replayed(db, mutations[t])

(* A thread between transactions holds neither lease nor slot nor lock: no   *)
(* error path leaks what would block the next writer or resize for ever.     *)
NothingLeaks ==
    \A t \in Threads :
        pc[t] = "idle" => /\ t \notin held \cup mutexEnv
                          /\ \A l \in leases : l[1] # t

(* The map is resized with no transaction alive (lmdbdb.cpp, GrowMap),        *)
(* a transaction that grew it holds every write that returned true and no     *)
(* other, and no path out of a transaction leaks its lease or the writer slot. *)
GrowthSafe == ResizeAlone /\ ReplayComplete /\ OneWriter /\ NothingLeaks

(* A writer that waits for the others to leave does get to resize and go on. *)
GrowthEnds == \A t \in Threads : pc[t] = "drain" ~> pc[t] \in {"open", "broken", "idle"}
=============================================================================
