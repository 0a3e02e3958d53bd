--------------------------- MODULE LmdbEnvProofs ---------------------------
(***************************************************************************)
(* The growth of a full map is safe for any number of threads, any keys,   *)
(* any map sizes and transactions of any length: the theorems about        *)
(* LmdbEnv.  The inductive invariant says who holds a lease, the writer    *)
(* slot and mutexEnv at each point of the code, which transactions are     *)
(* alive there, and that what a write transaction was asked to write is    *)
(* its mutations replayed on what is committed.                            *)
(***************************************************************************)
EXTENDS LmdbEnv, OrderLemmas, FiniteSetTheorems

(* Where a thread has its own lease, and where it has none.  A transaction   *)
(* whose write failed ("broken") may have either.                            *)
WithLease == {"slot", "begin", "open", "nest", "nested", "full", "retry"}
NoLease == {"idle", "lease", "drain", "resize", "regain", "stats"}

(* A write transaction at work, and one whose map was full. *)
Working == {"open", "nest", "nested"}
Recovering == {"full", "drain", "resize", "regain", "retry", "broken"}

(* nActiveTxns counts the leases; from the moment a grower closes the gate   *)
(* none is added, and when it resizes there is none.                         *)
GateInv ==
    /\ IsFiniteSet(leases) /\ nActiveTxns = Cardinality(leases)
    /\ \A t \in Threads :
         /\ pc[t] \in WithLease => <<t, "own">> \in leases
         /\ pc[t] \in NoLease => <<t, "own">> \notin leases
         /\ <<t, "nested">> \in leases <=> pc[t] = "nested"
         /\ pc[t] \in {"drain", "resize"} => fResizePending
         /\ pc[t] = "resize" => leases = {}

(* One thread has the writer slot: the one whose write transaction is at     *)
(* work or being recovered.                                                  *)
SlotInv ==
    /\ fWriterActive <=> held # {}
    /\ \A t, u \in held : t = u
    /\ \A t \in Threads :
         /\ t \in held <=> kind[t] = "write" /\ pc[t] \in {"begin"} \cup Working \cup Recovering
         /\ pc[t] \in {"slot", "nest", "nested"} \cup Recovering => kind[t] = "write"

(* mutexEnv is held by one thread, to resize or to read the statistics. *)
LockInv ==
    /\ \A t, u \in mutexEnv : t = u
    /\ \A t \in Threads : t \in mutexEnv <=> pc[t] \in {"resize", "stats"}

(* Every transaction alive is under a lease, or under mutexEnv. *)
LiveInv ==
    \A t \in Threads :
        /\ <<t, "nested">> \in live <=> pc[t] = "nested"
        /\ <<t, "stats">> \in live <=> pc[t] = "stats"
        /\ <<t, "read">> \in live <=> pc[t] = "open" /\ kind[t] = "read"
        /\ <<t, "write">> \in live =>
             /\ kind[t] = "write" /\ <<t, "own">> \in leases
             /\ pc[t] \in Working \cup {"full", "retry", "broken"}
        /\ kind[t] = "write" /\ pc[t] \in Working \cup {"retry"} => <<t, "write">> \in live

(* The mutations are the writes that returned true, and a transaction that   *)
(* can commit reads them.                                                    *)
DataInv ==
    \A t \in Threads : kind[t] = "write" =>
        /\ pc[t] \in Working \cup {"retry"} => view[t] = asked[t]
        /\ pc[t] \in Working \cup Recovering => asked[t] = Replayed(db, mutations[t])

Inv == TypeOK /\ GateInv /\ SlotInv /\ LockInv /\ LiveInv /\ DataInv

-----------------------------------------------------------------------------
(* Operators *)

(* Replaying nothing leaves the store. *)
LEMMA ReplayedNone == \A store \in Store : Replayed(store, <<>>) = store
  BY DEF Replayed, Store

(* A replay yields a store. *)
LEMMA ReplayedType ==
    ASSUME NEW store \in Store, NEW muts \in Seq(Mutation)
    PROVE  Replayed(store, muts) \in Store
<1> SUFFICES ASSUME NEW k \in Keys PROVE Replayed(store, muts)[k] \in Values
  BY DEF Replayed, Store
<1> DEFINE writes == {i \in DOMAIN muts : muts[i].key = k}
<1>1. CASE writes = {}
  BY <1>1 DEF Replayed, Store
<1>2. CASE writes # {}
  <2>1. writes \subseteq 1 .. Len(muts) /\ Len(muts) \in Nat
    OBVIOUS
  <2>2. Max(writes) \in 1 .. Len(muts)
    <3> HIDE DEF writes
    <3> QED BY <2>1, <1>2, GreatestIndex
  <2>3. muts[Max(writes)].value \in Values
    <3> HIDE DEF writes
    <3>1. muts[Max(writes)] \in Mutation
      BY <2>2
    <3> QED BY <3>1 DEF Mutation
  <2>4. Replayed(store, muts)[k] = muts[Max(writes)].value
    BY <1>2 DEF Replayed
  <2> QED BY <2>3, <2>4
<1> QED BY <1>1, <1>2

(* One more mutation is applied to what the others replay to. *)
LEMMA ReplayedAppend ==
    ASSUME NEW store \in Store, NEW muts \in Seq(Mutation), NEW m \in Mutation
    PROVE  Replayed(store, Append(muts, m)) = Apply(Replayed(store, muts), m)
<1> DEFINE more == Append(muts, m)
<1>1. /\ Len(muts) \in Nat /\ DOMAIN muts = 1 .. Len(muts)
      /\ DOMAIN more = 1 .. Len(muts) + 1
      /\ more[Len(muts) + 1] = m
      /\ \A i \in 1 .. Len(muts) : more[i] = muts[i]
  OBVIOUS
<1> SUFFICES ASSUME NEW k \in Keys
             PROVE  Replayed(store, more)[k] = Apply(Replayed(store, muts), m)[k]
  BY DEF Replayed, Apply
<1> DEFINE writes == {i \in DOMAIN muts : muts[i].key = k}
           after == {i \in DOMAIN more : more[i].key = k}
<1>2. Replayed(store, more)[k] = IF after = {} THEN store[k] ELSE more[Max(after)].value
  BY DEF Replayed
<1>3. Replayed(store, muts)[k] = IF writes = {} THEN store[k] ELSE muts[Max(writes)].value
  BY DEF Replayed
<1> HIDE DEF more
<1>4. CASE m.key = k
  <2>1. Len(muts) + 1 \in after /\ after \subseteq 1 .. Len(muts) + 1
    BY <1>1, <1>4
  <2>2. Max(after) \in after /\ \A i \in after : i <= Max(after)
    <3>1. Len(muts) + 1 \in Nat /\ after # {}
      BY <1>1, <2>1
    <3> HIDE DEF after
    <3> QED BY <3>1, <2>1, GreatestIndex
  <2>3. Max(after) = Len(muts) + 1
    BY <1>1, <2>1, <2>2
  <2>4. Apply(Replayed(store, muts), m)[k] = m.value
    BY <1>4 DEF Apply, Replayed
  <2> QED BY <1>1, <1>2, <2>1, <2>3, <2>4
<1>5. CASE m.key # k
  <2>1. after = writes
    BY <1>1, <1>5
  <2>2. Apply(Replayed(store, muts), m)[k] = Replayed(store, muts)[k]
    BY <1>5 DEF Apply, Replayed
  <2>3. ASSUME writes # {} PROVE more[Max(writes)] = muts[Max(writes)]
    <3>1. Max(writes) \in writes
      <4>1. writes \subseteq 1 .. Len(muts)
        BY <1>1
      <4> HIDE DEF writes
      <4> QED BY <1>1, <2>3, <4>1, GreatestIndex
    <3> QED BY <1>1, <3>1
  <2> QED BY <1>2, <1>3, <2>1, <2>2, <2>3
<1> QED BY <1>4, <1>5
-----------------------------------------------------------------------------
(* The resize gate *)

(* A lease that is taken is counted, and only while no resize is pending. *)
LEMMA AcquireFact ==
    ASSUME NEW t \in Threads, NEW which \in {"own", "nested"}, TypeOK, GateInv,
           <<t, which>> \notin leases, AcquireTransactionLease(t, which)
    PROVE  /\ ~fResizePending /\ ~fResizePending'
           /\ leases' = leases \cup {<<t, which>>}
           /\ IsFiniteSet(leases') /\ nActiveTxns' = Cardinality(leases') /\ nActiveTxns' \in Nat
<1>1. leases' = leases \cup {<<t, which>>} /\ nActiveTxns' = nActiveTxns + 1
  BY DEF AcquireTransactionLease
<1>2. IsFiniteSet(leases') /\ Cardinality(leases') = Cardinality(leases) + 1
  BY <1>1, FS_AddElement DEF GateInv
<1> QED BY <1>1, <1>2 DEF GateInv, TypeOK, AcquireTransactionLease

(* A lease is given back once, whether the thread still has it or not. *)
LEMMA ReleaseFact ==
    ASSUME NEW t \in Threads, NEW which \in {"own", "nested"}, TypeOK, GateInv,
           ReleaseTransactionLease(t, which)
    PROVE  /\ fResizePending' = fResizePending
           /\ leases' = leases \ {<<t, which>>}
           /\ IsFiniteSet(leases') /\ nActiveTxns' = Cardinality(leases') /\ nActiveTxns' \in Nat
<1>1. leases' = leases \ {<<t, which>>}
  BY DEF ReleaseTransactionLease
<1>2. IsFiniteSet(leases') /\ Cardinality(leases') \in Nat
  BY <1>1, FS_RemoveElement, FS_CardinalityType DEF GateInv
<1>3. nActiveTxns' = Cardinality(leases')
  BY <1>1, FS_RemoveElement DEF GateInv, TypeOK, ReleaseTransactionLease
<1> QED BY <1>1, <1>2, <1>3 DEF ReleaseTransactionLease

-----------------------------------------------------------------------------
(* The actions *)

LEMMA RequestInv ==
    ASSUME NEW t \in Threads, NEW k \in {"read", "write"}, Inv, Request(t, k)
    PROVE  Inv'
<1>1. pc[t] = "idle" /\ pc'[t] = "lease" /\ \A u \in Threads \ {t} : pc'[u] = pc[u]
  BY DEF Inv, TypeOK, Request, Goto
<1>2. UNCHANGED <<leases, nActiveTxns, fResizePending, held, fWriterActive, mutexEnv,
                  live, mutations, view, asked, db>>
  BY DEF Request, gate, slot, data
<1>3. k \in {"read", "write"} /\ kind'[t] = k /\ \A u \in Threads \ {t} : kind'[u] = kind[u]
  BY DEF Inv, TypeOK, Request
<1>4. TypeOK'
  BY <1>2 DEF Inv, TypeOK, Request, Goto, gate, slot, data
<1>5. GateInv'
  BY <1>1, <1>2, <1>3 DEF Inv, GateInv, WithLease, NoLease
<1>6. SlotInv'
  BY <1>1, <1>2, <1>3 DEF Inv, SlotInv, Working, Recovering
<1>7. LockInv'
  BY <1>1, <1>2, <1>3 DEF Inv, LockInv
<1>8. LiveInv'
  BY <1>1, <1>2, <1>3 DEF Inv, LiveInv, Working
<1>9. DataInv'
  BY <1>1, <1>2, <1>3 DEF Inv, DataInv, Working, Recovering
<1> QED BY <1>4, <1>5, <1>6, <1>7, <1>8, <1>9 DEF Inv

LEMMA TakeLeaseInv ==
    ASSUME NEW t \in Threads, Inv, TakeLease(t)
    PROVE  Inv'
<1>1. pc[t] = "lease" /\ pc'[t] \in {"begin", "slot"} /\ \A u \in Threads \ {t} : pc'[u] = pc[u]
  BY DEF Inv, TypeOK, TakeLease, Goto
<1>2. UNCHANGED <<kind, held, fWriterActive, mutexEnv, live, mutations, view, asked, db>>
  BY DEF TakeLease, gate, slot, data
<1>3. /\ ~fResizePending /\ ~fResizePending' /\ leases' = leases \cup {<<t, "own">>}
      /\ IsFiniteSet(leases') /\ nActiveTxns' = Cardinality(leases') /\ nActiveTxns' \in Nat
  BY AcquireFact DEF Inv, GateInv, NoLease, TakeLease
<1>4. pc'[t] = IF kind[t] = "read" THEN "begin" ELSE "slot"
  BY DEF Inv, TypeOK, TakeLease, Goto
<1>5. kind[t] \in {"read", "write"}
  BY DEF Inv, TypeOK
<1>6. \A u \in Threads : \A w \in {"own", "nested"} :
         u # t => (<<u, w>> \in leases' <=> <<u, w>> \in leases)
  BY <1>3
<1>7. TypeOK'
  <2>1. leases' \subseteq Threads \X {"own", "nested"}
    BY <1>3 DEF Inv, TypeOK
  <2>2. nActiveTxns' \in Nat /\ fResizePending' \in BOOLEAN
    BY <1>3 DEF Inv, TypeOK, TakeLease, AcquireTransactionLease
  <2> QED BY <1>2, <2>1, <2>2 DEF Inv, TypeOK, TakeLease, Goto, gate, slot, data
<1>8. GateInv'
  BY <1>1, <1>2, <1>3, <1>4, <1>5, <1>6 DEF Inv, GateInv, WithLease, NoLease
<1>9. SlotInv'
  BY <1>1, <1>2, <1>3, <1>4, <1>5, <1>6 DEF Inv, SlotInv, Working, Recovering
<1>10. LockInv'
  BY <1>1, <1>2, <1>3, <1>4, <1>5, <1>6 DEF Inv, LockInv
<1>11. LiveInv'
  BY <1>1, <1>2, <1>3, <1>4, <1>5, <1>6 DEF Inv, LiveInv, Working
<1>12. DataInv'
  BY <1>1, <1>2, <1>3, <1>4, <1>5, <1>6 DEF Inv, DataInv, Working, Recovering
<1> QED BY <1>7, <1>8, <1>9, <1>10, <1>11, <1>12 DEF Inv

LEMMA TryAcquireWriterInv ==
    ASSUME NEW t \in Threads, Inv, TryAcquireWriter(t)
    PROVE  Inv'
<1>1. pc[t] = "slot" /\ pc'[t] = "begin" /\ \A u \in Threads \ {t} : pc'[u] = pc[u]
  BY DEF Inv, TypeOK, TryAcquireWriter, Goto
<1>2. UNCHANGED <<kind, leases, nActiveTxns, fResizePending, mutexEnv, live, mutations,
                  view, asked, db>>
  BY DEF TryAcquireWriter, gate, slot, data
<1>3. ~fWriterActive /\ fWriterActive' /\ held' = held \cup {t}
  BY DEF TryAcquireWriter
<1>4. held = {}
  BY <1>3 DEF Inv, SlotInv
<1>5. TypeOK'
  BY <1>2 DEF Inv, TypeOK, TryAcquireWriter, Goto, gate, slot, data
<1>6. GateInv'
  BY <1>1, <1>2, <1>3, <1>4 DEF Inv, GateInv, WithLease, NoLease
<1>7. SlotInv'
  BY <1>1, <1>2, <1>3, <1>4 DEF Inv, SlotInv, Working, Recovering
<1>8. LockInv'
  BY <1>1, <1>2, <1>3, <1>4 DEF Inv, LockInv
<1>9. LiveInv'
  BY <1>1, <1>2, <1>3, <1>4 DEF Inv, LiveInv, Working
<1>10. DataInv'
  BY <1>1, <1>2, <1>3, <1>4 DEF Inv, DataInv, Working, Recovering
<1> QED BY <1>5, <1>6, <1>7, <1>8, <1>9, <1>10 DEF Inv

LEMMA WriterBusyInv ==
    ASSUME NEW t \in Threads, Inv, WriterBusy(t)
    PROVE  Inv'
<1>1. pc[t] = "slot" /\ pc'[t] \in {"lease", "idle"} /\ \A u \in Threads \ {t} : pc'[u] = pc[u]
  BY DEF Inv, TypeOK, WriterBusy, Goto
<1>2. UNCHANGED <<kind, held, fWriterActive, mutexEnv, live, mutations, view, asked, db>>
  BY DEF WriterBusy, gate, slot, data
<1>3. /\ fResizePending' = fResizePending /\ leases' = leases \ {<<t, "own">>}
      /\ IsFiniteSet(leases') /\ nActiveTxns' = Cardinality(leases') /\ nActiveTxns' \in Nat
  BY ReleaseFact DEF Inv, WriterBusy
<1>4. \A u \in Threads : \A w \in {"own", "nested"} :
         u # t => (<<u, w>> \in leases' <=> <<u, w>> \in leases)
  BY <1>3
<1>5. TypeOK'
  <2>1. leases' \subseteq Threads \X {"own", "nested"}
    BY <1>3 DEF Inv, TypeOK
  <2>2. nActiveTxns' \in Nat /\ fResizePending' \in BOOLEAN
    BY <1>3 DEF Inv, TypeOK, WriterBusy, ReleaseTransactionLease
  <2> QED BY <1>2, <2>1, <2>2 DEF Inv, TypeOK, WriterBusy, Goto, gate, slot, data
<1>6. GateInv'
  BY <1>1, <1>2, <1>3, <1>4 DEF Inv, GateInv, WithLease, NoLease
<1>7. SlotInv'
  BY <1>1, <1>2, <1>3, <1>4 DEF Inv, SlotInv, Working, Recovering
<1>8. LockInv'
  BY <1>1, <1>2, <1>3, <1>4 DEF Inv, LockInv
<1>9. LiveInv'
  BY <1>1, <1>2, <1>3, <1>4 DEF Inv, LiveInv, Working
<1>10. DataInv'
  BY <1>1, <1>2, <1>3, <1>4 DEF Inv, DataInv, Working, Recovering
<1> QED BY <1>5, <1>6, <1>7, <1>8, <1>9, <1>10 DEF Inv

LEMMA TxnBeginInv ==
    ASSUME NEW t \in Threads, Inv, TxnBegin(t)
    PROVE  Inv'
<1>1. pc[t] = "begin" /\ pc'[t] = "open" /\ \A u \in Threads \ {t} : pc'[u] = pc[u]
  BY DEF Inv, TypeOK, TxnBegin, Goto
<1>2. UNCHANGED <<kind, leases, nActiveTxns, fResizePending, held, fWriterActive,
                  mutexEnv, db>>
  BY DEF TxnBegin, gate, slot, data
<1>3. live' = live \cup {<<t, kind[t]>>} /\ kind[t] \in {"read", "write"}
  BY DEF Inv, TypeOK, TxnBegin
<1>4. <<t, "own">> \in leases
  BY <1>1 DEF Inv, GateInv, WithLease
<1>5. \A u \in Threads : \A w \in {"read", "write", "nested", "stats"} :
         u # t => (<<u, w>> \in live' <=> <<u, w>> \in live)
  BY <1>3
<1>6. TypeOK'
  <2>1. live' \subseteq Threads \X {"read", "write", "nested", "stats"}
    BY DEF Inv, TypeOK, TxnBegin
  <2>2. view' \in [Threads -> Store] /\ asked' \in [Threads -> Store]
    BY DEF Inv, TypeOK, TxnBegin
  <2>3. mutations' \in [Threads -> Seq(Mutation)]
    BY DEF Inv, TypeOK, TxnBegin
  <2> QED BY <1>2, <2>1, <2>2, <2>3 DEF Inv, TypeOK, TxnBegin, Goto, gate, slot, data
<1>7. GateInv'
  BY <1>1, <1>2, <1>3, <1>4, <1>5 DEF Inv, GateInv, WithLease, NoLease
<1>8. SlotInv'
  BY <1>1, <1>2, <1>3, <1>4, <1>5 DEF Inv, SlotInv, Working, Recovering
<1>9. LockInv'
  BY <1>1, <1>2, <1>3, <1>4, <1>5 DEF Inv, LockInv
<1>10. LiveInv'
  BY <1>1, <1>2, <1>3, <1>4, <1>5 DEF Inv, LiveInv, Working
<1>11. DataInv'
  <2>1. asked'[t] = db /\ view'[t] = db /\ mutations'[t] = <<>>
    BY DEF Inv, TypeOK, TxnBegin
  <2>2. Replayed(db, <<>>) = db
    BY ReplayedNone DEF Inv, TypeOK
  <2>3. ASSUME NEW u \in Threads \ {t}
        PROVE  view'[u] = view[u] /\ asked'[u] = asked[u] /\ mutations'[u] = mutations[u]
    BY DEF Inv, TypeOK, TxnBegin
  <2> QED BY <1>1, <1>2, <2>1, <2>2, <2>3 DEF Inv, DataInv
<1> QED BY <1>6, <1>7, <1>8, <1>9, <1>10, <1>11 DEF Inv

LEMMA TxnBeginFailsInv ==
    ASSUME NEW t \in Threads, Inv, TxnBeginFails(t)
    PROVE  Inv'
<1>1. pc[t] = "begin" /\ pc'[t] = "idle" /\ \A u \in Threads \ {t} : pc'[u] = pc[u]
  BY DEF Inv, TypeOK, TxnBeginFails, Goto
<1>2. UNCHANGED <<kind, mutexEnv, live, mutations, view, asked, db>>
  BY DEF TxnBeginFails, gate, slot, data
<1>3. /\ fResizePending' = fResizePending /\ leases' = leases \ {<<t, "own">>}
      /\ IsFiniteSet(leases') /\ nActiveTxns' = Cardinality(leases') /\ nActiveTxns' \in Nat
  BY ReleaseFact DEF Inv, TxnBeginFails
<1>4. held' = held \ {t} /\ fWriterActive' = (fWriterActive /\ t \notin held)
  BY DEF TxnBeginFails, ReleaseWriter
<1>5. fWriterActive' <=> held' # {}
  BY <1>4 DEF Inv, SlotInv, TypeOK
<1>6. \A u \in Threads : \A w \in {"own", "nested"} :
         u # t => (<<u, w>> \in leases' <=> <<u, w>> \in leases)
  BY <1>3
<1>7. TypeOK'
  <2>1. leases' \subseteq Threads \X {"own", "nested"}
    BY <1>3 DEF Inv, TypeOK
  <2>2. nActiveTxns' \in Nat /\ fResizePending' \in BOOLEAN
    BY <1>3 DEF Inv, TypeOK, TxnBeginFails, ReleaseTransactionLease
  <2>3. fWriterActive' \in BOOLEAN /\ held' \subseteq Threads
    BY <1>4 DEF Inv, TypeOK
  <2> QED BY <1>2, <2>1, <2>2, <2>3 DEF Inv, TypeOK, TxnBeginFails, Goto, gate, slot, data
<1>8. GateInv'
  BY <1>1, <1>2, <1>3, <1>4, <1>5, <1>6 DEF Inv, GateInv, WithLease, NoLease
<1>9. SlotInv'
  BY <1>1, <1>2, <1>3, <1>4, <1>5, <1>6 DEF Inv, SlotInv, Working, Recovering
<1>10. LockInv'
  BY <1>1, <1>2, <1>3, <1>4, <1>5, <1>6 DEF Inv, LockInv
<1>11. LiveInv'
  BY <1>1, <1>2, <1>3, <1>4, <1>5, <1>6 DEF Inv, LiveInv, Working
<1>12. DataInv'
  BY <1>1, <1>2, <1>3, <1>4, <1>5, <1>6 DEF Inv, DataInv, Working, Recovering
<1> QED BY <1>7, <1>8, <1>9, <1>10, <1>11, <1>12 DEF Inv

LEMMA WriteInv ==
    ASSUME NEW t \in Threads, NEW m \in Mutation, Inv, Write(t, m)
    PROVE  Inv'
<1>1. pc[t] = "open" /\ pc'[t] = "open" /\ \A u \in Threads \ {t} : pc'[u] = pc[u]
  BY DEF Inv, TypeOK, Write, Goto, Writing
<1>2. UNCHANGED <<kind, leases, nActiveTxns, fResizePending, held, fWriterActive,
                  mutexEnv, live, db>>
  BY DEF Write, gate, slot, data
<1>3. kind[t] = "write"
  BY DEF Inv, LiveInv, Write, Writing
<1>4. TypeOK'
  <2>1. Apply(view[t], m) \in Store /\ Apply(asked[t], m) \in Store
    BY DEF Inv, TypeOK, Apply, Store, Mutation
  <2>2. view' \in [Threads -> Store] /\ asked' \in [Threads -> Store]
    BY <2>1 DEF Inv, TypeOK, Write
  <2>3. mutations' \in [Threads -> Seq(Mutation)]
    BY DEF Inv, TypeOK, Write, RecordMutation
  <2> QED BY <1>2, <2>1, <2>2, <2>3 DEF Inv, TypeOK, Write, Goto, gate, slot, data
<1>5. GateInv'
  BY <1>1, <1>2, <1>3 DEF Inv, GateInv, WithLease, NoLease
<1>6. SlotInv'
  BY <1>1, <1>2, <1>3 DEF Inv, SlotInv, Working, Recovering
<1>7. LockInv'
  BY <1>1, <1>2, <1>3 DEF Inv, LockInv
<1>8. LiveInv'
  BY <1>1, <1>2, <1>3 DEF Inv, LiveInv, Working
<1>9. DataInv'
  <2>1. view[t] = asked[t] /\ asked[t] = Replayed(db, mutations[t])
    BY <1>1, <1>3 DEF Inv, DataInv, Working
  <2>2. mutations'[t] = Append(mutations[t], m) /\ mutations[t] \in Seq(Mutation)
    BY DEF Inv, TypeOK, Write, RecordMutation
  <2>3. view'[t] = Apply(view[t], m) /\ asked'[t] = Apply(asked[t], m)
    BY DEF Inv, TypeOK, Write
  <2>4. asked'[t] = Replayed(db, mutations'[t])
    BY <2>1, <2>2, <2>3, ReplayedAppend DEF Inv, TypeOK
  <2>5. ASSUME NEW u \in Threads \ {t}
        PROVE  view'[u] = view[u] /\ asked'[u] = asked[u] /\ mutations'[u] = mutations[u]
    BY DEF Inv, TypeOK, Write, RecordMutation
  <2> QED BY <1>1, <1>2, <1>3, <2>1, <2>3, <2>4, <2>5 DEF Inv, DataInv
<1> QED BY <1>4, <1>5, <1>6, <1>7, <1>8, <1>9 DEF Inv

LEMMA WriteFullInv ==
    ASSUME NEW t \in Threads, NEW m \in Mutation, Inv, WriteFull(t, m)
    PROVE  Inv'
<1>1. pc[t] = "open" /\ pc'[t] \in {"broken", "full"} /\ \A u \in Threads \ {t} : pc'[u] = pc[u]
  BY DEF Inv, TypeOK, WriteFull, Goto, Writing
<1>2. UNCHANGED <<kind, leases, nActiveTxns, fResizePending, held, fWriterActive,
                  mutexEnv, live, mutations, view, asked, db>>
  BY DEF WriteFull, gate, slot, data
<1>3. <<t, "write">> \in live /\ kind[t] = "write"
  BY DEF Inv, LiveInv, WriteFull, Writing
<1>4. <<t, "own">> \in leases
  BY <1>1 DEF Inv, GateInv, WithLease
<1>5. TypeOK'
  BY <1>2 DEF Inv, TypeOK, WriteFull, Goto, gate, slot, data
<1>6. GateInv'
  BY <1>1, <1>2, <1>3, <1>4 DEF Inv, GateInv, WithLease, NoLease
<1>7. SlotInv'
  BY <1>1, <1>2, <1>3, <1>4 DEF Inv, SlotInv, Working, Recovering
<1>8. LockInv'
  BY <1>1, <1>2, <1>3, <1>4 DEF Inv, LockInv
<1>9. LiveInv'
  BY <1>1, <1>2, <1>3, <1>4 DEF Inv, LiveInv, Working
<1>10. DataInv'
  BY <1>1, <1>2, <1>3, <1>4 DEF Inv, DataInv, Working, Recovering
<1> QED BY <1>5, <1>6, <1>7, <1>8, <1>9, <1>10 DEF Inv

LEMMA NewIteratorInv ==
    ASSUME NEW t \in Threads, Inv, NewIterator(t)
    PROVE  Inv'
<1>1. pc[t] = "open" /\ pc'[t] = "open" /\ \A u \in Threads \ {t} : pc'[u] = pc[u]
  BY DEF Inv, TypeOK, NewIterator, Goto, Writing
<1>2. UNCHANGED <<kind, leases, nActiveTxns, fResizePending, held, fWriterActive,
                  mutexEnv, live, mutations, view, asked, db>>
  BY DEF NewIterator, gate, slot, data
<1>3. TypeOK'
  BY <1>2 DEF Inv, TypeOK, NewIterator, Goto, gate, slot, data
<1>4. GateInv'
  BY <1>1, <1>2 DEF Inv, GateInv, WithLease, NoLease
<1>5. SlotInv'
  BY <1>1, <1>2 DEF Inv, SlotInv, Working, Recovering
<1>6. LockInv'
  BY <1>1, <1>2 DEF Inv, LockInv
<1>7. LiveInv'
  BY <1>1, <1>2 DEF Inv, LiveInv, Working
<1>8. DataInv'
  BY <1>1, <1>2 DEF Inv, DataInv, Working, Recovering
<1> QED BY <1>3, <1>4, <1>5, <1>6, <1>7, <1>8 DEF Inv

LEMMA CloseIteratorInv ==
    ASSUME NEW t \in Threads, Inv, CloseIterator(t)
    PROVE  Inv'
<1>1. pc[t] = "open" /\ pc'[t] = "open" /\ \A u \in Threads \ {t} : pc'[u] = pc[u]
  BY DEF Inv, TypeOK, CloseIterator, Goto, Writing
<1>2. UNCHANGED <<kind, leases, nActiveTxns, fResizePending, held, fWriterActive,
                  mutexEnv, live, mutations, view, asked, db>>
  BY DEF CloseIterator, gate, slot, data
<1>3. TypeOK'
  BY <1>2 DEF Inv, TypeOK, CloseIterator, Goto, gate, slot, data
<1>4. GateInv'
  BY <1>1, <1>2 DEF Inv, GateInv, WithLease, NoLease
<1>5. SlotInv'
  BY <1>1, <1>2 DEF Inv, SlotInv, Working, Recovering
<1>6. LockInv'
  BY <1>1, <1>2 DEF Inv, LockInv
<1>7. LiveInv'
  BY <1>1, <1>2 DEF Inv, LiveInv, Working
<1>8. DataInv'
  BY <1>1, <1>2 DEF Inv, DataInv, Working, Recovering
<1> QED BY <1>3, <1>4, <1>5, <1>6, <1>7, <1>8 DEF Inv

LEMMA NestedReadInv ==
    ASSUME NEW t \in Threads, Inv, NestedRead(t)
    PROVE  Inv'
<1>1. pc[t] = "open" /\ pc'[t] = "nest" /\ \A u \in Threads \ {t} : pc'[u] = pc[u]
  BY DEF Inv, TypeOK, NestedRead, Goto, Writing
<1>2. UNCHANGED <<kind, leases, nActiveTxns, fResizePending, held, fWriterActive,
                  mutexEnv, live, mutations, view, asked, db>>
  BY DEF NestedRead, gate, slot, data
<1>3. <<t, "write">> \in live /\ kind[t] = "write"
  BY DEF Inv, LiveInv, NestedRead, Writing
<1>4. TypeOK'
  BY <1>2 DEF Inv, TypeOK, NestedRead, Goto, gate, slot, data
<1>5. GateInv'
  BY <1>1, <1>2, <1>3 DEF Inv, GateInv, WithLease, NoLease
<1>6. SlotInv'
  BY <1>1, <1>2, <1>3 DEF Inv, SlotInv, Working, Recovering
<1>7. LockInv'
  BY <1>1, <1>2, <1>3 DEF Inv, LockInv
<1>8. LiveInv'
  BY <1>1, <1>2, <1>3 DEF Inv, LiveInv, Working
<1>9. DataInv'
  BY <1>1, <1>2, <1>3 DEF Inv, DataInv, Working, Recovering
<1> QED BY <1>4, <1>5, <1>6, <1>7, <1>8, <1>9 DEF Inv

LEMMA BeginNestedReadInv ==
    ASSUME NEW t \in Threads, Inv, BeginNestedRead(t)
    PROVE  Inv'
<1>1. pc[t] = "nest" /\ pc'[t] = "nested" /\ \A u \in Threads \ {t} : pc'[u] = pc[u]
  BY DEF Inv, TypeOK, BeginNestedRead, Goto
<1>2. UNCHANGED <<kind, held, fWriterActive, mutexEnv, mutations, view, asked, db>>
  BY DEF BeginNestedRead, gate, slot, data
<1>3. /\ ~fResizePending /\ ~fResizePending' /\ leases' = leases \cup {<<t, "nested">>}
      /\ IsFiniteSet(leases') /\ nActiveTxns' = Cardinality(leases') /\ nActiveTxns' \in Nat
  BY AcquireFact DEF Inv, GateInv, NoLease, BeginNestedRead
<1>4. live' = live \cup {<<t, "nested">>}
  BY DEF BeginNestedRead
<1>5. \A u \in Threads : \A w \in {"own", "nested"} :
         u # t => (<<u, w>> \in leases' <=> <<u, w>> \in leases)
  BY <1>3
<1>6. \A u \in Threads : \A w \in {"read", "write", "nested", "stats"} :
         u # t => (<<u, w>> \in live' <=> <<u, w>> \in live)
  BY <1>4
<1>7. kind[t] = "write" /\ <<t, "own">> \in leases
  BY <1>1 DEF Inv, SlotInv, GateInv, WithLease
<1>8. TypeOK'
  <2>1. leases' \subseteq Threads \X {"own", "nested"}
    BY <1>3 DEF Inv, TypeOK
  <2>2. live' \subseteq Threads \X {"read", "write", "nested", "stats"}
    BY DEF Inv, TypeOK, BeginNestedRead
  <2>3. nActiveTxns' \in Nat /\ fResizePending' \in BOOLEAN
    BY <1>3 DEF Inv, TypeOK, BeginNestedRead, AcquireTransactionLease
  <2> QED BY <1>2, <2>1, <2>2, <2>3 DEF Inv, TypeOK, BeginNestedRead, Goto, gate, slot, data
<1>9. GateInv'
  BY <1>1, <1>2, <1>3, <1>4, <1>5, <1>6, <1>7 DEF Inv, GateInv, WithLease, NoLease
<1>10. SlotInv'
  BY <1>1, <1>2, <1>3, <1>4, <1>5, <1>6, <1>7 DEF Inv, SlotInv, Working, Recovering
<1>11. LockInv'
  BY <1>1, <1>2, <1>3, <1>4, <1>5, <1>6, <1>7 DEF Inv, LockInv
<1>12. LiveInv'
  BY <1>1, <1>2, <1>3, <1>4, <1>5, <1>6, <1>7 DEF Inv, LiveInv, Working
<1>13. DataInv'
  BY <1>1, <1>2, <1>3, <1>4, <1>5, <1>6, <1>7 DEF Inv, DataInv, Working, Recovering
<1> QED BY <1>8, <1>9, <1>10, <1>11, <1>12, <1>13 DEF Inv

LEMMA EndNestedReadInv ==
    ASSUME NEW t \in Threads, Inv, EndNestedRead(t)
    PROVE  Inv'
<1>1. pc[t] = "nested" /\ pc'[t] = "open" /\ \A u \in Threads \ {t} : pc'[u] = pc[u]
  BY DEF Inv, TypeOK, EndNestedRead, Goto
<1>2. UNCHANGED <<kind, held, fWriterActive, mutexEnv, mutations, view, asked, db>>
  BY DEF EndNestedRead, gate, slot, data
<1>3. /\ fResizePending' = fResizePending /\ leases' = leases \ {<<t, "nested">>}
      /\ IsFiniteSet(leases') /\ nActiveTxns' = Cardinality(leases') /\ nActiveTxns' \in Nat
  BY ReleaseFact DEF Inv, EndNestedRead
<1>4. live' = live \ {<<t, "nested">>}
  BY DEF EndNestedRead
<1>5. \A u \in Threads : \A w \in {"own", "nested"} :
         u # t => (<<u, w>> \in leases' <=> <<u, w>> \in leases)
  BY <1>3
<1>6. \A u \in Threads : \A w \in {"read", "write", "nested", "stats"} :
         u # t => (<<u, w>> \in live' <=> <<u, w>> \in live)
  BY <1>4
<1>7. kind[t] = "write" /\ <<t, "own">> \in leases
  BY <1>1 DEF Inv, SlotInv, GateInv, WithLease
<1>8. TypeOK'
  <2>1. leases' \subseteq Threads \X {"own", "nested"}
    BY <1>3 DEF Inv, TypeOK
  <2>2. live' \subseteq Threads \X {"read", "write", "nested", "stats"}
    BY DEF Inv, TypeOK, EndNestedRead
  <2>3. nActiveTxns' \in Nat /\ fResizePending' \in BOOLEAN
    BY <1>3 DEF Inv, TypeOK, EndNestedRead, ReleaseTransactionLease
  <2> QED BY <1>2, <2>1, <2>2, <2>3 DEF Inv, TypeOK, EndNestedRead, Goto, gate, slot, data
<1>9. GateInv'
  BY <1>1, <1>2, <1>3, <1>4, <1>5, <1>6, <1>7 DEF Inv, GateInv, WithLease, NoLease
<1>10. SlotInv'
  BY <1>1, <1>2, <1>3, <1>4, <1>5, <1>6, <1>7 DEF Inv, SlotInv, Working, Recovering
<1>11. LockInv'
  BY <1>1, <1>2, <1>3, <1>4, <1>5, <1>6, <1>7 DEF Inv, LockInv
<1>12. LiveInv'
  BY <1>1, <1>2, <1>3, <1>4, <1>5, <1>6, <1>7 DEF Inv, LiveInv, Working
<1>13. DataInv'
  BY <1>1, <1>2, <1>3, <1>4, <1>5, <1>6, <1>7 DEF Inv, DataInv, Working, Recovering
<1> QED BY <1>8, <1>9, <1>10, <1>11, <1>12, <1>13 DEF Inv

LEMMA CommitFullInv ==
    ASSUME NEW t \in Threads, Inv, CommitFull(t)
    PROVE  Inv'
<1>1. pc[t] = "open" /\ pc'[t] \in {"broken", "full"} /\ \A u \in Threads \ {t} : pc'[u] = pc[u]
  BY DEF Inv, TypeOK, CommitFull, Goto, Writing
<1>2. UNCHANGED <<kind, leases, nActiveTxns, fResizePending, held, fWriterActive,
                  mutexEnv, mutations, view, asked, db>>
  BY DEF CommitFull, gate, slot, data
<1>3. <<t, "write">> \in live /\ kind[t] = "write"
  BY DEF Inv, LiveInv, CommitFull, Writing
<1>4. live' = live \ {<<t, "write">>}
  BY DEF CommitFull
<1>5. \A u \in Threads : \A w \in {"read", "write", "nested", "stats"} :
         u # t => (<<u, w>> \in live' <=> <<u, w>> \in live)
  BY <1>4
<1>6. <<t, "own">> \in leases
  BY <1>1 DEF Inv, GateInv, WithLease
<1>7. TypeOK'
  <2>1. live' \subseteq Threads \X {"read", "write", "nested", "stats"}
    BY DEF Inv, TypeOK, CommitFull
  <2> QED BY <1>2, <2>1 DEF Inv, TypeOK, CommitFull, Goto, gate, slot, data
<1>8. GateInv'
  BY <1>1, <1>2, <1>3, <1>4, <1>5, <1>6 DEF Inv, GateInv, WithLease, NoLease
<1>9. SlotInv'
  BY <1>1, <1>2, <1>3, <1>4, <1>5, <1>6 DEF Inv, SlotInv, Working, Recovering
<1>10. LockInv'
  BY <1>1, <1>2, <1>3, <1>4, <1>5, <1>6 DEF Inv, LockInv
<1>11. LiveInv'
  BY <1>1, <1>2, <1>3, <1>4, <1>5, <1>6 DEF Inv, LiveInv, Working
<1>12. DataInv'
  BY <1>1, <1>2, <1>3, <1>4, <1>5, <1>6 DEF Inv, DataInv, Working, Recovering
<1> QED BY <1>7, <1>8, <1>9, <1>10, <1>11, <1>12 DEF Inv

LEMMA DropTransactionInv ==
    ASSUME NEW t \in Threads, Inv, DropTransaction(t)
    PROVE  Inv'
<1>1. pc[t] = "full" /\ pc'[t] \in {"drain", "broken"} /\ \A u \in Threads \ {t} : pc'[u] = pc[u]
  BY DEF Inv, TypeOK, DropTransaction, Goto
<1>2. UNCHANGED <<kind, held, fWriterActive, mutexEnv, mutations, view, asked, db>>
  BY DEF DropTransaction, gate, slot, data
<1>3. /\ leases' = leases \ {<<t, "own">>}
      /\ IsFiniteSet(leases') /\ nActiveTxns' = Cardinality(leases') /\ nActiveTxns' \in Nat
  <2>1. <<t, "own">> \in leases /\ IsFiniteSet(leases)
    BY <1>1 DEF Inv, GateInv, WithLease
  <2>2. leases' = leases \ {<<t, "own">>} /\ nActiveTxns' = nActiveTxns - 1
    BY DEF DropTransaction
  <2>3. IsFiniteSet(leases') /\ Cardinality(leases') = Cardinality(leases) - 1
    BY <2>1, <2>2, FS_RemoveElement
  <2>4. Cardinality(leases') \in Nat
    BY <2>3, FS_CardinalityType
  <2> QED BY <2>2, <2>3, <2>4 DEF Inv, GateInv
<1>4. live' = live \ {<<t, "write">>}
  BY DEF DropTransaction
<1>5. \A u \in Threads : \A w \in {"own", "nested"} :
         u # t => (<<u, w>> \in leases' <=> <<u, w>> \in leases)
  BY <1>3
<1>6. \A u \in Threads : \A w \in {"read", "write", "nested", "stats"} :
         u # t => (<<u, w>> \in live' <=> <<u, w>> \in live)
  BY <1>4
<1>7. kind[t] = "write" /\ t \in held /\ fResizePending' = AutoGrow
      /\ (pc'[t] = "drain" <=> AutoGrow)
  BY <1>1 DEF Inv, SlotInv, Recovering, TypeOK, Goto, DropTransaction
<1>8. \A u \in Threads \ {t} : pc[u] \notin {"drain", "resize"}
  BY <1>7 DEF Inv, SlotInv, Recovering
<1>9. TypeOK'
  <2>1. leases' \subseteq Threads \X {"own", "nested"}
    BY <1>3 DEF Inv, TypeOK
  <2>2. live' \subseteq Threads \X {"read", "write", "nested", "stats"}
    BY DEF Inv, TypeOK, DropTransaction
  <2>3. fResizePending' \in BOOLEAN
    BY EnvAssumption DEF DropTransaction
  <2> QED BY <1>2, <1>3, <2>1, <2>2, <2>3 DEF Inv, TypeOK, DropTransaction, Goto, gate, slot, data
<1>10. GateInv'
  BY <1>1, <1>2, <1>3, <1>4, <1>5, <1>6, <1>7, <1>8 DEF Inv, GateInv, WithLease, NoLease
<1>11. SlotInv'
  BY <1>1, <1>2, <1>3, <1>4, <1>5, <1>6, <1>7, <1>8 DEF Inv, SlotInv, Working, Recovering
<1>12. LockInv'
  BY <1>1, <1>2, <1>3, <1>4, <1>5, <1>6, <1>7, <1>8 DEF Inv, LockInv
<1>13. LiveInv'
  BY <1>1, <1>2, <1>3, <1>4, <1>5, <1>6, <1>7, <1>8 DEF Inv, LiveInv, Working
<1>14. DataInv'
  BY <1>1, <1>2, <1>3, <1>4, <1>5, <1>6, <1>7, <1>8 DEF Inv, DataInv, Working, Recovering
<1> QED BY <1>9, <1>10, <1>11, <1>12, <1>13, <1>14 DEF Inv

LEMMA DrainedInv ==
    ASSUME NEW t \in Threads, Inv, Drained(t)
    PROVE  Inv'
<1>1. pc[t] = "drain" /\ pc'[t] = "resize" /\ \A u \in Threads \ {t} : pc'[u] = pc[u]
  BY DEF Inv, TypeOK, Drained, Goto
<1>2. UNCHANGED <<kind, leases, nActiveTxns, fResizePending, held, fWriterActive, live,
                  mutations, view, asked, db>>
  BY DEF Drained, gate, slot, data
<1>3. mutexEnv = {} /\ mutexEnv' = {t}
  BY DEF Drained
<1>4. leases = {}
  BY FS_EmptySet DEF Inv, GateInv, Drained
<1>5. TypeOK'
  BY <1>2 DEF Inv, TypeOK, Drained, Goto, gate, slot, data
<1>6. GateInv'
  BY <1>1, <1>2, <1>3, <1>4 DEF Inv, GateInv, WithLease, NoLease
<1>7. SlotInv'
  BY <1>1, <1>2, <1>3, <1>4 DEF Inv, SlotInv, Working, Recovering
<1>8. LockInv'
  BY <1>1, <1>2, <1>3, <1>4 DEF Inv, LockInv
<1>9. LiveInv'
  BY <1>1, <1>2, <1>3, <1>4 DEF Inv, LiveInv, Working
<1>10. DataInv'
  BY <1>1, <1>2, <1>3, <1>4 DEF Inv, DataInv, Working, Recovering
<1> QED BY <1>5, <1>6, <1>7, <1>8, <1>9, <1>10 DEF Inv

LEMMA ResizeInv ==
    ASSUME NEW t \in Threads, Inv, Resize(t)
    PROVE  Inv'
<1>1. pc[t] = "resize" /\ pc'[t] \in {"regain", "broken"} /\ \A u \in Threads \ {t} : pc'[u] = pc[u]
  BY DEF Inv, TypeOK, Resize, Goto
<1>2. UNCHANGED <<kind, leases, nActiveTxns, held, fWriterActive, live, mutations,
                  view, asked, db>>
  BY DEF Resize, gate, slot, data
<1>3. mutexEnv' = {} /\ ~fResizePending'
  BY DEF Resize
<1>4. mutexEnv = {t}
  BY <1>1 DEF Inv, TypeOK, LockInv
<1>5. \A u \in Threads \ {t} : pc[u] \notin {"drain", "resize"}
  BY <1>1 DEF Inv, SlotInv, Recovering
<1>6. kind[t] = "write" /\ <<t, "write">> \notin live
  BY <1>1 DEF Inv, SlotInv, LiveInv, Working, Recovering
<1>7. TypeOK'
  <2>1. nMapSize' \in InitialMap .. MaxMap
    BY EnvAssumption DEF Inv, TypeOK, Resize
  <2>2. pc' = [pc EXCEPT ![t] = "regain"] \/ pc' = [pc EXCEPT ![t] = "broken"]
    BY DEF Resize, Goto
  <2> QED BY <1>2, <2>1, <2>2 DEF Inv, TypeOK, Resize
<1>8. GateInv'
  BY <1>1, <1>2, <1>3, <1>4, <1>5, <1>6 DEF Inv, GateInv, WithLease, NoLease
<1>9. SlotInv'
  BY <1>1, <1>2, <1>3, <1>4, <1>5, <1>6 DEF Inv, SlotInv, Working, Recovering
<1>10. LockInv'
  BY <1>1, <1>2, <1>3, <1>4, <1>5, <1>6 DEF Inv, LockInv
<1>11. LiveInv'
  BY <1>1, <1>2, <1>3, <1>4, <1>5, <1>6 DEF Inv, LiveInv, Working
<1>12. DataInv'
  BY <1>1, <1>2, <1>3, <1>4, <1>5, <1>6 DEF Inv, DataInv, Working, Recovering
<1> QED BY <1>7, <1>8, <1>9, <1>10, <1>11, <1>12 DEF Inv

LEMMA ReplayInv ==
    ASSUME NEW t \in Threads, Inv, Replay(t)
    PROVE  Inv'
<1>1. pc[t] = "regain" /\ pc'[t] \in {"retry", "full"} /\ \A u \in Threads \ {t} : pc'[u] = pc[u]
  BY DEF Inv, TypeOK, Replay, Goto
<1>2. UNCHANGED <<kind, held, fWriterActive, mutexEnv, mutations, asked, db>>
  BY DEF Replay, gate, slot, data
<1>3. /\ ~fResizePending /\ ~fResizePending' /\ leases' = leases \cup {<<t, "own">>}
      /\ IsFiniteSet(leases') /\ nActiveTxns' = Cardinality(leases') /\ nActiveTxns' \in Nat
  BY AcquireFact DEF Inv, GateInv, NoLease, Replay
<1>4. live' = live \cup {<<t, "write">>}
  BY DEF Replay
<1>5. \A u \in Threads : \A w \in {"own", "nested"} :
         u # t => (<<u, w>> \in leases' <=> <<u, w>> \in leases)
  BY <1>3
<1>6. \A u \in Threads : \A w \in {"read", "write", "nested", "stats"} :
         u # t => (<<u, w>> \in live' <=> <<u, w>> \in live)
  BY <1>4
<1>7. kind[t] = "write"
  BY <1>1 DEF Inv, SlotInv, Recovering
<1>8. TypeOK'
  <2>1. leases' \subseteq Threads \X {"own", "nested"}
    BY <1>3 DEF Inv, TypeOK
  <2>2. live' \subseteq Threads \X {"read", "write", "nested", "stats"}
    BY DEF Inv, TypeOK, Replay
  <2>3. nActiveTxns' \in Nat /\ fResizePending' \in BOOLEAN
    BY <1>3 DEF Inv, TypeOK, Replay, AcquireTransactionLease
  <2>4. Replayed(db, mutations[t]) \in Store
    BY ReplayedType DEF Inv, TypeOK
  <2>5. view' \in [Threads -> Store]
    BY <2>4 DEF Inv, TypeOK, Replay, ReplayMutations
  <2> QED BY <1>2, <2>1, <2>2, <2>3, <2>4, <2>5 DEF Inv, TypeOK, Replay, Goto, slot
<1>9. GateInv'
  BY <1>1, <1>2, <1>3, <1>4, <1>5, <1>6, <1>7 DEF Inv, GateInv, WithLease, NoLease
<1>10. SlotInv'
  BY <1>1, <1>2, <1>3, <1>4, <1>5, <1>6, <1>7 DEF Inv, SlotInv, Working, Recovering
<1>11. LockInv'
  BY <1>1, <1>2, <1>3, <1>4, <1>5, <1>6, <1>7 DEF Inv, LockInv
<1>12. LiveInv'
  BY <1>1, <1>2, <1>3, <1>4, <1>5, <1>6, <1>7 DEF Inv, LiveInv, Working
<1>13. DataInv'
  <2>1. pc'[t] = "retry" => view'[t] = Replayed(db, mutations[t])
    BY DEF Inv, TypeOK, Replay, ReplayMutations, Goto
  <2>2. \A u \in Threads \ {t} : view'[u] = view[u]
    BY DEF Inv, TypeOK, Replay, ReplayMutations
  <2>3. asked[t] = Replayed(db, mutations[t])
    BY <1>1, <1>7 DEF Inv, DataInv, Recovering
  <2> QED BY <1>1, <1>2, <1>7, <2>1, <2>2, <2>3 DEF Inv, DataInv, Working, Recovering
<1> QED BY <1>8, <1>9, <1>10, <1>11, <1>12, <1>13 DEF Inv

LEMMA ReplayFailsInv ==
    ASSUME NEW t \in Threads, Inv, ReplayFails(t)
    PROVE  Inv'
<1>1. pc[t] = "regain" /\ pc'[t] = "broken" /\ \A u \in Threads \ {t} : pc'[u] = pc[u]
  BY DEF Inv, TypeOK, ReplayFails, Goto
<1>2. UNCHANGED <<kind, leases, nActiveTxns, fResizePending, held, fWriterActive,
                  mutexEnv, live, mutations, view, asked, db>>
  BY DEF ReplayFails, gate, slot, data
<1>3. TypeOK'
  BY <1>2 DEF Inv, TypeOK, ReplayFails, Goto, gate, slot, data
<1>4. GateInv'
  BY <1>1, <1>2 DEF Inv, GateInv, WithLease, NoLease
<1>5. SlotInv'
  BY <1>1, <1>2 DEF Inv, SlotInv, Working, Recovering
<1>6. LockInv'
  BY <1>1, <1>2 DEF Inv, LockInv
<1>7. LiveInv'
  BY <1>1, <1>2 DEF Inv, LiveInv, Working
<1>8. DataInv'
  BY <1>1, <1>2 DEF Inv, DataInv, Working, Recovering
<1> QED BY <1>3, <1>4, <1>5, <1>6, <1>7, <1>8 DEF Inv

LEMMA GetDbStatsInv ==
    ASSUME NEW t \in Threads, Inv, GetDbStats(t)
    PROVE  Inv'
<1>1. pc[t] = "idle" /\ pc'[t] = "stats" /\ \A u \in Threads \ {t} : pc'[u] = pc[u]
  BY DEF Inv, TypeOK, GetDbStats, Goto
<1>2. UNCHANGED <<kind, leases, nActiveTxns, fResizePending, held, fWriterActive,
                  mutations, view, asked, db>>
  BY DEF GetDbStats, gate, slot, data
<1>3. mutexEnv = {} /\ mutexEnv' = {t} /\ live' = live \cup {<<t, "stats">>}
  BY DEF GetDbStats
<1>4. \A u \in Threads : \A w \in {"read", "write", "nested", "stats"} :
         u # t => (<<u, w>> \in live' <=> <<u, w>> \in live)
  BY <1>3
<1>5. TypeOK'
  <2>1. live' \subseteq Threads \X {"read", "write", "nested", "stats"}
    BY DEF Inv, TypeOK, GetDbStats
  <2> QED BY <1>2, <2>1 DEF Inv, TypeOK, GetDbStats, Goto, gate, slot, data
<1>6. GateInv'
  BY <1>1, <1>2, <1>3, <1>4 DEF Inv, GateInv, WithLease, NoLease
<1>7. SlotInv'
  BY <1>1, <1>2, <1>3, <1>4 DEF Inv, SlotInv, Working, Recovering
<1>8. LockInv'
  BY <1>1, <1>2, <1>3, <1>4 DEF Inv, LockInv
<1>9. LiveInv'
  BY <1>1, <1>2, <1>3, <1>4 DEF Inv, LiveInv, Working
<1>10. DataInv'
  BY <1>1, <1>2, <1>3, <1>4 DEF Inv, DataInv, Working, Recovering
<1> QED BY <1>5, <1>6, <1>7, <1>8, <1>9, <1>10 DEF Inv

LEMMA EndDbStatsInv ==
    ASSUME NEW t \in Threads, Inv, EndDbStats(t)
    PROVE  Inv'
<1>1. pc[t] = "stats" /\ pc'[t] = "idle" /\ \A u \in Threads \ {t} : pc'[u] = pc[u]
  BY DEF Inv, TypeOK, EndDbStats, Goto
<1>2. UNCHANGED <<kind, leases, nActiveTxns, fResizePending, held, fWriterActive,
                  mutations, view, asked, db>>
  BY DEF EndDbStats, gate, slot, data
<1>3. mutexEnv' = mutexEnv \ {t} /\ live' = live \ {<<t, "stats">>}
  BY DEF EndDbStats
<1>4. \A u \in Threads : \A w \in {"read", "write", "nested", "stats"} :
         u # t => (<<u, w>> \in live' <=> <<u, w>> \in live)
  BY <1>3
<1>5. TypeOK'
  <2>1. live' \subseteq Threads \X {"read", "write", "nested", "stats"}
    BY DEF Inv, TypeOK, EndDbStats
  <2> QED BY <1>2, <2>1 DEF Inv, TypeOK, EndDbStats, Goto, gate, slot, data
<1>6. GateInv'
  BY <1>1, <1>2, <1>3, <1>4 DEF Inv, GateInv, WithLease, NoLease
<1>7. SlotInv'
  BY <1>1, <1>2, <1>3, <1>4 DEF Inv, SlotInv, Working, Recovering
<1>8. LockInv'
  BY <1>1, <1>2, <1>3, <1>4 DEF Inv, LockInv
<1>9. LiveInv'
  BY <1>1, <1>2, <1>3, <1>4 DEF Inv, LiveInv, Working
<1>10. DataInv'
  BY <1>1, <1>2, <1>3, <1>4 DEF Inv, DataInv, Working, Recovering
<1> QED BY <1>5, <1>6, <1>7, <1>8, <1>9, <1>10 DEF Inv

(* Commit, Abort and the destructor give back what the transaction has. *)
LEMMA FinishInv ==
    ASSUME NEW t \in Threads, Inv, pc[t] \in {"open", "broken", "retry"},
           Finish(t), db' \in Store, \A u \in held \ {t} : db' = db
    PROVE  Inv'
<1>1. /\ fResizePending' = fResizePending /\ leases' = leases \ {<<t, "own">>}
      /\ IsFiniteSet(leases') /\ nActiveTxns' = Cardinality(leases') /\ nActiveTxns' \in Nat
  BY ReleaseFact DEF Inv, Finish
<1>2. /\ pc'[t] = "idle" /\ kind' = kind /\ mutexEnv' = mutexEnv
      /\ live' = live \ {<<t, kind[t]>>} /\ held' = held \ {t}
      /\ \A u \in Threads \ {t} : /\ pc'[u] = pc[u] /\ view'[u] = view[u]
                                  /\ asked'[u] = asked[u] /\ mutations'[u] = mutations[u]
  BY DEF Inv, TypeOK, Finish, Goto, ReleaseWriter
<1>3. TypeOK'
  <2>1. leases' \subseteq Threads \X {"own", "nested"}
    BY <1>1 DEF Inv, TypeOK
  <2>2. live' \subseteq Threads \X {"read", "write", "nested", "stats"}
    BY <1>2 DEF Inv, TypeOK
  <2>3. Empty \in Store
    BY DEF Empty, Store, Values
  <2>4. view' \in [Threads -> Store] /\ asked' \in [Threads -> Store]
    BY <2>3 DEF Inv, TypeOK, Finish
  <2>5. mutations' \in [Threads -> Seq(Mutation)] /\ op' \in [Threads -> Mutation \cup {None}]
    BY DEF Inv, TypeOK, Finish
  <2>6. fWriterActive' \in BOOLEAN /\ held' \subseteq Threads /\ iterating' \subseteq Threads
    BY DEF Inv, TypeOK, Finish, ReleaseWriter
  <2> QED BY <1>1, <2>1, <2>2, <2>4, <2>5, <2>6 DEF Inv, TypeOK, Finish, Goto
<1>4. GateInv'
  <2>1. <<t, "nested">> \notin leases /\ leases' \subseteq leases
    BY <1>1 DEF Inv, GateInv
  <2>2. \A u \in Threads \ {t} : \A w \in {"own", "nested"} : <<u, w>> \in leases' <=> <<u, w>> \in leases
    BY <1>1
  <2> QED BY <1>1, <1>2, <2>1, <2>2 DEF Inv, GateInv, WithLease, NoLease
<1>5. SlotInv'
  <2>1. fWriterActive' = (fWriterActive /\ t \notin held)
    BY DEF Finish, ReleaseWriter
  <2>2. fWriterActive' <=> held' # {}
    BY <1>2, <2>1 DEF Inv, SlotInv, TypeOK
  <2> QED BY <1>2, <2>2 DEF Inv, SlotInv, Working, Recovering
<1>6. LockInv'
  BY <1>2 DEF Inv, LockInv
<1>7. LiveInv'
  <2>1. <<t, "nested">> \notin live' /\ <<t, "stats">> \notin live'
    BY <1>2 DEF Inv, LiveInv
  <2>2. <<t, "read">> \notin live' /\ <<t, "write">> \notin live'
    BY <1>2 DEF Inv, LiveInv
  <2>3. ASSUME NEW u \in Threads \ {t}
        PROVE  /\ \A w \in {"read", "write", "nested", "stats"} : <<u, w>> \in live' <=> <<u, w>> \in live
               /\ <<u, "own">> \in leases' <=> <<u, "own">> \in leases
    BY <1>1, <1>2
  <2> QED BY <1>2, <2>1, <2>2, <2>3 DEF Inv, LiveInv, Working
<1>8. DataInv'
  <2>1. ASSUME NEW u \in Threads \ {t}, kind[u] = "write", pc[u] \in Working \cup Recovering
        PROVE  db' = db
    BY <2>1 DEF Inv, SlotInv
  <2> QED BY <1>2, <2>1 DEF Inv, DataInv, Working, Recovering
<1> QED BY <1>3, <1>4, <1>5, <1>6, <1>7, <1>8 DEF Inv

LEMMA CommitInv ==
    ASSUME NEW t \in Threads, Inv, Commit(t)
    PROVE  Inv'
<1>1. pc[t] = "open" /\ kind[t] = "write" /\ t \in held
  BY DEF Inv, LiveInv, SlotInv, Working, Commit, Writing
<1>2. db' \in Store
  BY DEF Inv, TypeOK, Commit
<1>3. \A u \in held \ {t} : db' = db
  BY <1>1 DEF Inv, SlotInv
<1> QED BY <1>1, <1>2, <1>3, FinishInv DEF Commit

LEMMA AbortInv ==
    ASSUME NEW t \in Threads, Inv, Abort(t)
    PROVE  Inv'
<1>1. pc[t] \in {"open", "broken", "retry"} /\ db' \in Store /\ \A u \in held \ {t} : db' = db
  BY DEF Inv, TypeOK, Abort
<1> QED BY <1>1, FinishInv DEF Abort

(* The interrupted operation tried again: it does not fit, it is a write, or *)
(* it is the commit.                                                         *)
LEMMA RetryInv ==
    ASSUME NEW t \in Threads, Inv, Retry(t)
    PROVE  Inv'
<1>1. pc[t] = "retry" /\ kind[t] = "write" /\ t \in held
  BY DEF Inv, SlotInv, Recovering, Retry
<1>2. CASE /\ ~Fits(t)
           /\ Goto(t, "full")
           /\ live' = IF op[t] = None THEN live \ {<<t, "write">>} ELSE live
           /\ UNCHANGED <<kind, op, gate, slot, mutexEnv, iterating, nMapSize, data>>
  <2>1. pc'[t] = "full" /\ \A u \in Threads \ {t} : pc'[u] = pc[u]
    BY <1>2 DEF Inv, TypeOK, Goto
  <2>2. \A u \in Threads : \A w \in {"read", "nested", "stats"} : <<u, w>> \in live' <=> <<u, w>> \in live
    BY <1>2
  <2>3. live' \subseteq live
        /\ \A u \in Threads \ {t} : <<u, "write">> \in live => <<u, "write">> \in live'
    BY <1>2
  <2>4. UNCHANGED <<kind, leases, nActiveTxns, fResizePending, held, fWriterActive, mutexEnv>>
    BY <1>2 DEF gate, slot
  <2>5. UNCHANGED <<mutations, view, asked, db>>
    BY <1>2 DEF data
  <2>6. TypeOK'
    BY <1>2, <2>3, <2>4, <2>5 DEF Inv, TypeOK, Goto
  <2>7. GateInv'
    BY <1>1, <2>1, <2>4 DEF Inv, GateInv, WithLease, NoLease
  <2>8. SlotInv'
    BY <1>1, <2>1, <2>4 DEF Inv, SlotInv, Working, Recovering
  <2>9. LockInv'
    BY <1>1, <2>1, <2>4 DEF Inv, LockInv
  <2>10. LiveInv'
    BY <1>1, <2>1, <2>2, <2>3, <2>4 DEF Inv, LiveInv, Working
  <2>11. DataInv'
    BY <1>1, <2>1, <2>4, <2>5 DEF Inv, DataInv, Working, Recovering
  <2> QED BY <2>6, <2>7, <2>8, <2>9, <2>10, <2>11 DEF Inv
<1>3. CASE /\ Fits(t) /\ op[t] # None
           /\ view' = [view EXCEPT ![t] = Apply(@, op[t])]
           /\ RecordMutation(t, op[t])
           /\ asked' = [asked EXCEPT ![t] = Apply(@, op[t])]
           /\ op' = [op EXCEPT ![t] = None]
           /\ Goto(t, "open")
           /\ UNCHANGED <<kind, gate, slot, mutexEnv, live, iterating, nMapSize, db>>
  <2>1. pc'[t] = "open" /\ \A u \in Threads \ {t} : pc'[u] = pc[u]
    BY <1>3 DEF Inv, TypeOK, Goto
  <2>2. op[t] \in Mutation
    BY <1>3 DEF Inv, TypeOK
  <2>3. UNCHANGED <<kind, leases, nActiveTxns, fResizePending, held, fWriterActive,
                    mutexEnv, live, db>>
    BY <1>3 DEF gate, slot
  <2>4. TypeOK'
    <3>1. Apply(view[t], op[t]) \in Store /\ Apply(asked[t], op[t]) \in Store
      BY <2>2 DEF Inv, TypeOK, Apply, Store, Mutation
    <3>2. view' \in [Threads -> Store] /\ asked' \in [Threads -> Store]
      BY <1>3, <3>1 DEF Inv, TypeOK
    <3>3. mutations' \in [Threads -> Seq(Mutation)] /\ op' \in [Threads -> Mutation \cup {None}]
      BY <1>3, <2>2 DEF Inv, TypeOK, RecordMutation
    <3> QED BY <1>3, <2>3, <3>2, <3>3 DEF Inv, TypeOK, Goto
  <2>5. GateInv'
    BY <1>1, <2>1, <2>3 DEF Inv, GateInv, WithLease, NoLease
  <2>6. SlotInv'
    BY <1>1, <2>1, <2>3 DEF Inv, SlotInv, Working, Recovering
  <2>7. LockInv'
    BY <1>1, <2>1, <2>3 DEF Inv, LockInv
  <2>8. LiveInv'
    BY <1>1, <2>1, <2>3 DEF Inv, LiveInv, Working
  <2>9. DataInv'
    <3>1. view[t] = asked[t] /\ asked[t] = Replayed(db, mutations[t])
      BY <1>1 DEF Inv, DataInv, Recovering
    <3>2. mutations'[t] = Append(mutations[t], op[t]) /\ mutations[t] \in Seq(Mutation)
      BY <1>3 DEF Inv, TypeOK, RecordMutation
    <3>3. view'[t] = Apply(view[t], op[t]) /\ asked'[t] = Apply(asked[t], op[t])
      BY <1>3 DEF Inv, TypeOK
    <3>4. asked'[t] = Replayed(db, mutations'[t])
      BY <2>2, <3>1, <3>2, <3>3, ReplayedAppend DEF Inv, TypeOK
    <3>5. ASSUME NEW u \in Threads \ {t}
          PROVE  view'[u] = view[u] /\ asked'[u] = asked[u] /\ mutations'[u] = mutations[u]
      BY <1>3 DEF Inv, TypeOK, RecordMutation
    <3> QED BY <2>1, <2>3, <3>1, <3>3, <3>4, <3>5 DEF Inv, DataInv
  <2> QED BY <2>4, <2>5, <2>6, <2>7, <2>8, <2>9 DEF Inv
<1>4. CASE Fits(t) /\ op[t] = None /\ db' = view[t] /\ Finish(t)
  <2>1. db' \in Store
    BY <1>4 DEF Inv, TypeOK
  <2>2. \A u \in held \ {t} : db' = db
    BY <1>1 DEF Inv, SlotInv
  <2> QED BY <1>1, <1>4, <2>1, <2>2, FinishInv
<1> QED BY <1>2, <1>3, <1>4 DEF Retry

-----------------------------------------------------------------------------
(* The theorems *)

LEMMA InitInv ==
    ASSUME EnvInit
    PROVE  Inv
<1>1. Empty \in Store
  BY DEF Empty, Store, Values
<1>2. TypeOK
  <2>1. <<>> \in Seq(Mutation)
    OBVIOUS
  <2>2. mutations \in [Threads -> Seq(Mutation)] /\ op \in [Threads -> Mutation \cup {None}]
    BY <2>1 DEF EnvInit
  <2>3. nMapSize \in InitialMap .. MaxMap
    BY EnvAssumption DEF EnvInit
  <2> QED BY <1>1, <2>2, <2>3 DEF EnvInit, TypeOK
<1>3. GateInv
  BY FS_EmptySet DEF EnvInit, GateInv, WithLease, NoLease
<1>4. SlotInv /\ LockInv /\ LiveInv /\ DataInv
  BY DEF EnvInit, SlotInv, LockInv, LiveInv, DataInv, Working, Recovering
<1> QED BY <1>2, <1>3, <1>4 DEF Inv

LEMMA NextInv ==
    ASSUME Inv, [EnvNext]_envVars
    PROVE  Inv'
<1>1. CASE UNCHANGED envVars
  BY <1>1 DEF envVars, gate, slot, data, Inv, TypeOK, GateInv, SlotInv, LockInv, LiveInv, DataInv
<1>2. ASSUME NEW t \in Threads, \E k \in {"read", "write"} : Request(t, k) PROVE Inv'
  BY <1>2, RequestInv
<1>3. ASSUME NEW t \in Threads,
             \E m \in [key : Keys, value : {t, NoRecord}] : Write(t, m) \/ WriteFull(t, m)
      PROVE  Inv'
  <2>1. PICK m \in [key : Keys, value : {t, NoRecord}] : Write(t, m) \/ WriteFull(t, m)
    BY <1>3
  <2>2. m \in Mutation
    BY DEF Mutation, Values
  <2> QED BY <2>1, <2>2, WriteInv, WriteFullInv
<1>4. ASSUME NEW t \in Threads,
             \/ TxnBeginFails(t) \/ ReplayFails(t)
             \/ NewIterator(t) \/ CloseIterator(t) \/ NestedRead(t) \/ GetDbStats(t)
      PROVE  Inv'
  BY <1>4, TxnBeginFailsInv, ReplayFailsInv, NewIteratorInv, CloseIteratorInv, NestedReadInv,
     GetDbStatsInv
<1>5. ASSUME NEW t \in Threads, Progress(t) PROVE Inv'
  BY <1>5, TakeLeaseInv, TryAcquireWriterInv, WriterBusyInv, TxnBeginInv, BeginNestedReadInv,
     EndNestedReadInv, CommitInv, CommitFullInv, AbortInv, DropTransactionInv, DrainedInv,
     ResizeInv, ReplayInv, RetryInv, EndDbStatsInv DEF Progress
<1> QED BY <1>1, <1>2, <1>3, <1>4, <1>5 DEF EnvNext

(* The invariant contains what the runs check. *)
LEMMA InvImplies ==
    ASSUME Inv
    PROVE  GrowthSafe
<1>1. ResizeAlone
  <2> SUFFICES ASSUME NEW t \in Threads, pc[t] = "resize", NEW l \in live PROVE FALSE
    BY DEF ResizeAlone
  <2>1. PICK u \in Threads, w \in {"read", "write", "nested", "stats"} : l = <<u, w>>
    BY DEF Inv, TypeOK
  <2>2. leases = {}
    BY DEF Inv, GateInv
  <2>3. CASE w = "stats"
    BY <2>1, <2>3 DEF Inv, LiveInv, LockInv
  <2>4. CASE w \in {"read", "write", "nested"}
    BY <2>1, <2>2, <2>4 DEF Inv, LiveInv, GateInv, WithLease
  <2> QED BY <2>3, <2>4
<1>2. ReplayComplete
  BY DEF Inv, LiveInv, SlotInv, DataInv, Working, Recovering, ReplayComplete, Writing
<1>3. OneWriter
  <2>1. \A t \in Threads : pc[t] \in {"drain", "resize", "regain", "retry"} \/ <<t, "write">> \in live
                           => t \in held
    BY DEF Inv, LiveInv, SlotInv, Working, Recovering
  <2> QED BY <2>1 DEF Inv, SlotInv, OneWriter
<1>4. NothingLeaks
  <2> SUFFICES ASSUME NEW t \in Threads, pc[t] = "idle"
               PROVE  t \notin held \cup mutexEnv /\ \A l \in leases : l[1] # t
    BY DEF NothingLeaks
  <2>1. t \notin held \cup mutexEnv
    BY DEF Inv, SlotInv, LockInv, Working, Recovering
  <2>2. <<t, "own">> \notin leases /\ <<t, "nested">> \notin leases
    BY DEF Inv, GateInv, NoLease
  <2>3. ASSUME NEW l \in leases PROVE l[1] # t
    <3>1. PICK u \in Threads, w \in {"own", "nested"} : l = <<u, w>>
      BY DEF Inv, TypeOK
    <3> QED BY <2>2, <3>1
  <2> QED BY <2>1, <2>3
<1> QED BY <1>1, <1>2, <1>3, <1>4 DEF GrowthSafe

LEMMA Invariance == EnvSpec => []Inv
<1>1. EnvInit => Inv
  BY InitInv
<1>2. Inv /\ [EnvNext]_envVars => Inv'
  BY NextInv
<1> QED BY <1>1, <1>2, PTL DEF EnvSpec

(* Every variable of the environment keeps its type: the map stays between   *)
(* its first and its largest size (lmdbdb.cpp, CLMDBEnv::GrowMap).           *)
THEOREM EnvTypeCorrect == EnvSpec => []TypeOK
<1>1. EnvSpec => []Inv
  BY Invariance
<1>2. Inv => TypeOK
  BY DEF Inv
<1> QED BY <1>1, <1>2, PTL

(* The map is resized with no transaction alive, the transaction that grew   *)
(* it is replayed whole, with no other writer in between, and no path out of *)
(* a transaction leaks its lease or the slot (lmdbdb.cpp, GrowMap;           *)
(* lmdb_kv.cpp, RecoverFromMapFull): for any number of threads.              *)
THEOREM SafeGrowth == EnvSpec => []GrowthSafe
<1>1. EnvSpec => []Inv
  BY Invariance
<1>2. Inv => GrowthSafe
  BY InvImplies
<1> QED BY <1>1, <1>2, PTL
=============================================================================
