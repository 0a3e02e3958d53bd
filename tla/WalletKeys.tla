----------------------------- MODULE WalletKeys -----------------------------
(***************************************************************************)
(* The keys of the wallet: the pool of legacy keys and its reservations,   *)
(* hybrid keys (an ECDSA and an ML-DSA half that must be stored together), *)
(* encryption, locking, change of passphrase, import, and what a restart   *)
(* finds.  The commands run under cs_main and cs_wallet, so that a command *)
(* is interrupted only by the end of the process; it is split into actions *)
(* where its database transactions are.  Every write may fail.             *)
(* Keys are numbered in the order of their generation; a hybrid key has    *)
(* the number of its ECDSA half.                                           *)
(***************************************************************************)
EXTENDS Naturals, FiniteSets, FiniteSetsExt

CONSTANTS
    Users,          \* owners of a CReserveKey: the miner, a payment
    Passphrases,
    PoolSize,       \* -keypool
    RefillSize,     \* the size given to keypoolrefill
    HybridTarget,   \* EnsureHybridKeyPool's default target (20)
    HybridLow,      \* GetUnusedHybridKey tops up below it (5)
    HybridGrow,     \* ... by so many keys (20)
    MaxKeys,        \* bound: keys generated or imported in a behaviour
    MaxFaults       \* bound: writes that fail in a behaviour

VARIABLES
    pc,     \* where the process is
    mem,    \* CWallet and its key store
    disk,   \* wallet.dat
    next,   \* the next key to be generated
    faults, \* writes that failed so far
    hist    \* owed: keys handed to the user; issued: hybrid addresses given out

vars == <<pc, mem, disk, next, faults, hist>>

\* What the sizes are, and that no passphrase is the mark of having none.
KeysAssumption ==
    /\ {PoolSize, RefillSize, HybridTarget, HybridGrow} \subseteq Nat
    /\ "none" \notin Passphrases

NoKey == 0
NoIndex == 0
Keys == 1 .. MaxKeys
NoReserve == [i |-> NoIndex, k |-> NoKey]
NoPass == "none"

Empty == [crypted |-> FALSE, unlocked |-> FALSE, keys |-> {}, mkeys |-> {}, decoys |-> {},
          pool |-> {}, held |-> [u \in Users |-> NoReserve], dflt |-> NoKey,
          hyb |-> {}, rest |-> {}, unused |-> {}, used |-> {}, book |-> {},
          index |-> [ids |-> {}, nMem |-> 0, nRest |-> 0, dirty |-> TRUE]]

(* A wallet of an older version has hybrid keys in clear, also when it is  *)
(* encrypted, and no record of the used ones: key 1 has a label, key 2 was *)
(* paid by a transaction of the wallet.                                    *)
NewDisk == [clear |-> {}, crypt |-> {}, pass |-> NoPass, pool |-> <<>>, dflt |-> NoKey,
            hybClear |-> {}, hybCrypt |-> {}, used |-> {}, book |-> {}, paid |-> {}]
OldDisk == [NewDisk EXCEPT !.clear = {1, 2}, !.hybClear = {1, 2}, !.dflt = 1, !.book = {1}, !.paid = {2}]
OldCrypted(p) == [OldDisk EXCEPT !.clear = {}, !.crypt = {1, 2}, !.pass = p]

Init ==
    /\ pc = "off"
    /\ mem = Empty
    /\ faults = 0
    /\ \/ /\ disk = NewDisk
          /\ next = 1
          /\ hist = [owed |-> {}, issued |-> {}]
       \/ /\ disk \in {OldDisk} \cup {OldCrypted(p) : p \in Passphrases}
          /\ next = 3
          /\ hist = [owed |-> {1, 2}, issued |-> {1, 2}]

(* What a call leaves: memory, disk, the number of keys it generated, and  *)
(* whether one of its writes failed.                                       *)
Result(m, d, n) == [m |-> m, d |-> d, n |-> n, f |-> 0]
Same(m, d) == Result(m, d, 0)
Failing(r) == [r EXCEPT !.f = 1]

Install(r, where) ==
    /\ faults + r.f <= MaxFaults
    /\ faults' = faults + r.f
    /\ pc' = where
    /\ mem' = r.m
    /\ disk' = r.d
    /\ next' = next + r.n

IsLocked(m) == m.crypted /\ ~m.unlocked
Stored(d) == d.clear \cup d.crypt
HybridStored(d) == d.hybClear \cup d.hybCrypt
Fresh(n) == next .. next + n - 1
Room(n) == next + n - 1 <= MaxKeys

(***************************************************************************)
(* Records.  A key record is written in the form the wallet has.           *)
(***************************************************************************)
WriteKey(d, ks) == [d EXCEPT !.clear = @ \cup ks]
WriteCryptedKey(d, ks) == [d EXCEPT !.crypt = @ \cup ks, !.clear = @ \ ks]

StageKeyRecord(m, d, ks) == IF m.crypted THEN WriteCryptedKey(d, ks) ELSE WriteKey(d, ks)

(* A hybrid record replaces the one of the same key, whatever its form.    *)
WriteHybridKey(d, ks, encrypted) ==
    IF encrypted THEN [d EXCEPT !.hybCrypt = @ \cup ks, !.hybClear = @ \ ks]
                 ELSE [d EXCEPT !.hybClear = @ \cup ks, !.hybCrypt = @ \ ks]

StageHybridKey(m, d, ks) == WriteHybridKey(StageKeyRecord(m, d, ks), ks, m.crypted)

(* AddKey changes memory first, and leaves the key there when its record   *)
(* cannot be written.                                                      *)
AddKey(m, d) ==
    LET g == [m EXCEPT !.keys = @ \cup {next}]
    IN  [done |-> Result(g, StageKeyRecord(m, d, {next}), 1), failed |-> Failing(Result(g, d, 1))]

AddHybridToMemory(m, ks) ==
    [m EXCEPT !.keys = @ \cup ks, !.hyb = @ \cup ks, !.rest = IF m.crypted THEN @ \cup ks ELSE @]

(***************************************************************************)
(* The key pool.  A top-up fills the indices above the highest one that is *)
(* in the set, or from 1; an index out of the set is not seen.             *)
(***************************************************************************)
Want(m) == IF IsLocked(m) THEN 0 ELSE Max({0, PoolSize + 1 - Cardinality(m.pool)})

Refilled(m, d, first, n) ==
    LET ix == first .. first + n - 1
        key(i) == next + i - first
    IN  Result([m EXCEPT !.pool = @ \cup ix, !.keys = @ \cup Fresh(n)],
               [StageKeyRecord(m, d, Fresh(n)) EXCEPT
                   !.pool = [i \in DOMAIN @ \cup ix |-> IF i \in ix THEN key(i) ELSE @[i]]],
               n)

TopUpKeyPool(m, d) == Refilled(m, d, IF m.pool = {} THEN 1 ELSE Max(m.pool) + 1, Want(m))

(* What a call that tops up first goes on with: the commit of the top-up   *)
(* may fail.  (When a write before the commit fails the call throws with   *)
(* nothing changed.)                                                       *)
ToppedUp(m, d) ==
    IF Want(m) = 0 THEN {Same(m, d)} ELSE {TopUpKeyPool(m, d), Failing(Same(m, d))}

TopUp ==
    /\ pc = "idle" /\ ~IsLocked(mem) /\ Want(mem) > 0 /\ Room(Want(mem))
    /\ Install(TopUpKeyPool(mem, disk), "idle")
    /\ UNCHANGED hist

(* The lowest index leaves the set before its record is read; the read and *)
(* the look for the key throw when they fail.                              *)
Oldest(m) == Min(m.pool)
Readable(m, d) == Oldest(m) \in DOMAIN d.pool /\ d.pool[Oldest(m)] \in m.keys
Taken(m) == [m EXCEPT !.pool = @ \ {Oldest(m)}]

(* GetReservedKey: the index is stored in the reservation even when the    *)
(* call throws; without a pool the default key is used.                    *)
GetReservedKey(u) ==
    /\ pc = "idle" /\ mem.held[u].i = NoIndex /\ Room(Want(mem))
    /\ \E r \in ToppedUp(mem, disk) :
         IF r.m.pool = {}
         THEN Install([r EXCEPT !.m.held[u] = [i |-> NoIndex, k |-> mem.dflt]],
                      IF mem.dflt = NoKey THEN "aborted" ELSE "idle")
         ELSE LET i == Oldest(r.m)
                  k == IF Readable(r.m, r.d) THEN r.d.pool[i] ELSE NoKey
              IN  Install([r EXCEPT !.m = [Taken(r.m) EXCEPT !.held[u] = [i |-> i, k |-> k]]], "idle")
    /\ UNCHANGED hist

(* A reservation that holds an index is used as it is, or the assertion    *)
(* that its key is valid ends the process.                                 *)
GetReservedKeyAgain(u) ==
    /\ pc = "idle" /\ mem.held[u].i # NoIndex /\ mem.held[u].k = NoKey
    /\ pc' = "aborted"
    /\ UNCHANGED <<mem, disk, next, faults, hist>>

Kept(d, i) == [d EXCEPT !.pool = [j \in DOMAIN @ \ {i} |-> @[j]]]

(* The key is used and its record erased; nobody looks whether the erasure *)
(* worked.                                                                 *)
KeepKey(u) ==
    /\ pc = "idle" /\ mem.held[u].k # NoKey
    /\ LET m == [mem EXCEPT !.held[u] = NoReserve]
       IN  \/ Install(Same(m, Kept(disk, mem.held[u].i)), "idle")
           \/ Install(Failing(Same(m, disk)), "idle")
    /\ hist' = [hist EXCEPT !.owed = @ \cup {mem.held[u].k}]

ReturnKey(u) ==
    /\ pc = "idle" /\ mem.held[u] # NoReserve
    /\ mem' = [mem EXCEPT !.held[u] = NoReserve,
                          !.pool = IF mem.held[u].i = NoIndex THEN @ ELSE @ \cup {mem.held[u].i}]
    /\ UNCHANGED <<pc, disk, next, faults, hist>>

(* GetKeyFromPool: reserve and keep in one; a thrown read loses the index. *)
(* Each result has the key it gives, or none.  With an empty pool a key is *)
(* generated, in memory first.                                             *)
Given(r, k) == [r |-> r, k |-> k]
GetKeyFromPool(m, d, reuse) ==
    UNION {
      IF r.m.pool # {}
      THEN IF Readable(r.m, r.d)
           THEN LET t == [r EXCEPT !.m = Taken(r.m)]
                    k == r.d.pool[Oldest(r.m)]
                IN  {Given([t EXCEPT !.d = Kept(r.d, Oldest(r.m))], k), Given(Failing(t), k)}
           ELSE {Given([r EXCEPT !.m = Taken(r.m)], NoKey)}
      ELSE IF reuse /\ m.dflt # NoKey THEN {Given(r, m.dflt)}
      ELSE IF IsLocked(m) THEN {Given(r, NoKey)}
      ELSE {Given([AddKey(m, d).done EXCEPT !.f = r.f], next), Given(AddKey(m, d).failed, NoKey)}
      : r \in ToppedUp(m, d)}

(* getnewaddress, getaccountaddress, and the address table of the user     *)
(* interface, which accepts the default key.                               *)
GetNewAddress(reuse) ==
    /\ pc = "idle" /\ Room(Max({1, Want(mem)}))
    /\ \E g \in GetKeyFromPool(mem, disk, reuse) :
         /\ Install(g.r, "idle")
         /\ hist' = [hist EXCEPT !.owed = @ \cup ({g.k} \ {NoKey})]

(* A payment to the default key replaces it (ReplaceDefaultKeyIfUsed).     *)
ReplaceDefaultKey ==
    /\ pc = "idle" /\ mem.dflt # NoKey /\ Room(Max({1, Want(mem)}))
    /\ \E g \in GetKeyFromPool(mem, disk, FALSE), saved \in BOOLEAN :
         IF g.k = NoKey \/ ~saved
         THEN Install(IF saved THEN g.r ELSE Failing(g.r), "idle") /\ UNCHANGED hist
         ELSE /\ Install([g.r EXCEPT !.m.dflt = g.k, !.d.dflt = g.k], "idle")
              /\ hist' = [hist EXCEPT !.owed = @ \cup {g.k}]

(* NewKeyPool: the old records are erased in one transaction, the new ones *)
(* written from index 1 in the next.                                       *)
ErasedPool(m, d) ==
    Same([m EXCEPT !.pool = {}], [d EXCEPT !.pool = [i \in DOMAIN @ \ m.pool |-> @[i]]])

KeyPoolRefill ==
    /\ pc = "idle" /\ ~IsLocked(mem) /\ Room(RefillSize)
    /\ Install(ErasedPool(mem, disk), "refill")
    /\ UNCHANGED hist

Refill ==
    /\ pc = "refill"
    /\ Install(Refilled(mem, disk, 1, RefillSize), "topup") \/ Install(Failing(Same(mem, disk)), "topup")
    /\ UNCHANGED hist

(* keypoolrefill then tops up to the configured size.                      *)
RefillTopUp ==
    /\ pc = "topup"
    /\ \E r \in IF Room(Want(mem)) THEN ToppedUp(mem, disk) ELSE {Same(mem, disk)} : Install(r, "idle")
    /\ UNCHANGED hist

(***************************************************************************)
(* Hybrid keys.                                                            *)
(***************************************************************************)
(* Both halves of all new keys are committed together, then registered.    *)
EnsureHybridKeyPool(m, d, target) ==
    LET n == target - Cardinality(m.hyb)
    IN  IF target <= Cardinality(m.hyb) \/ IsLocked(m) \/ ~Room(n)
        THEN Same(m, d)
        ELSE Result([AddHybridToMemory(m, Fresh(n)) EXCEPT !.unused = @ \cup Fresh(n)],
                    StageHybridKey(m, d, Fresh(n)),
                    n)

(* Mutant: the set of used keys is not written.                            *)
AllocatedInMemory(r) ==
    LET id == Min(r.m.unused)
    IN  [r EXCEPT !.m.unused = @ \ {id}, !.m.used = @ \cup {id}]

(* GetUnusedHybridKey: the set of used keys is on disk before the key is   *)
(* given; when that write fails the key goes back.                         *)
Allocated(r) ==
    LET id == Min(r.m.unused)
        m == [r.m EXCEPT !.unused = @ \ {id}, !.used = @ \cup {id}]
    IN  [r EXCEPT !.m = m, !.d.used = m.used]

GetUnusedHybridKey(m, d) ==
    LET low  == Cardinality(m.unused) < HybridLow
        full == EnsureHybridKeyPool(m, d, Cardinality(m.hyb) + HybridGrow)
    IN  UNION {IF r.m.unused = {} THEN {}
               ELSE {[r |-> Allocated(r), id |-> Min(r.m.unused)], [r |-> Failing(r), id |-> NoKey]}
               : r \in IF low THEN {full} ELSE {Same(m, d)}}

(* gethybridaddress with or without a label, and the change of a payment.  *)
(* The label is written twice, each time on its own; memory has it first.  *)
GetHybridAddress(label) ==
    /\ pc = "idle" /\ (label => ~IsLocked(mem))
    /\ Cardinality(mem.unused) < HybridLow => ~IsLocked(mem) /\ Room(HybridGrow)
    /\ \E a \in GetUnusedHybridKey(mem, disk) :
         LET ids == {a.id} \ {NoKey}
             named == label /\ a.id \in a.r.m.hyb
             r == [a.r EXCEPT !.m.book = IF named THEN @ \cup ids ELSE @]
         IN  /\ \/ Install([r EXCEPT !.d.book = IF label THEN @ \cup ids ELSE @], "idle")
                \/ label /\ ids # {} /\ Install(Failing(r), "idle")
             /\ hist' = [hist EXCEPT !.issued = @ \cup ids, !.owed = @ \cup ids]

(* importhybridkey: pair and label in one transaction, memory after it.    *)
ImportHybridKey(label) ==
    /\ pc = "idle" /\ ~IsLocked(mem) /\ Room(1)
    /\ LET named == IF label THEN {next} ELSE {}
       IN  Install(Result([AddHybridToMemory(mem, {next}) EXCEPT !.book = @ \cup named],
                          [StageHybridKey(mem, disk, {next}) EXCEPT
                              !.book = @ \cup named],
                          1), "idle")
    /\ hist' = [hist EXCEPT !.owed = @ \cup {next}]

(* importprivkey.                                                          *)
ImportPrivKey ==
    /\ pc = "idle" /\ ~IsLocked(mem) /\ Room(1)
    /\ \/ /\ Install(AddKey(mem, disk).done, "idle")
          /\ hist' = [hist EXCEPT !.owed = @ \cup {next}]
       \/ /\ Install(AddKey(mem, disk).failed, "idle")
          /\ UNCHANGED hist

(* FindHybridKeyByLegacyID: the reverse index is rebuilt when it is marked *)
(* or a map has another size.                                              *)
IndexStale(m) ==
    \/ m.index.dirty
    \/ m.index.nMem # Cardinality(m.hyb)
    \/ m.index.nRest # Cardinality(m.rest)

FindHybridKeyByLegacyID ==
    /\ pc = "idle" /\ IndexStale(mem)
    /\ mem' = [mem EXCEPT !.index = [ids |-> mem.hyb \cup mem.rest, nMem |-> Cardinality(mem.hyb),
                                     nRest |-> Cardinality(mem.rest), dirty |-> FALSE]]
    /\ UNCHANGED <<pc, disk, next, faults, hist>>

(* CheckHybridKeys: the hybrid keys it reports, as it finds them in        *)
(* memory, in the form of their record, and between memory and database.   *)
LoadedIssues(m) == {k \in m.hyb : k \notin m.keys \/ IsLocked(m)}

RecordIssues(m, d) ==
    {k \in HybridStored(d) : k \notin m.keys \/ (k \in d.hybCrypt) # m.crypted}

DatabaseIssues(m, d) ==
    (HybridStored(d) \ (m.hyb \cup m.rest))
        \cup ((m.hyb \cup m.rest) \ HybridStored(d))
        \cup (IF m.crypted THEN {} ELSE m.rest)

CheckHybridKeys(m, d) == LoadedIssues(m) \cup RecordIssues(m, d) \cup DatabaseIssues(m, d)

(***************************************************************************)
(* Locking and encryption.                                                 *)
(***************************************************************************)
Locked(m) == [m EXCEPT !.unlocked = FALSE, !.hyb = {}, !.unused = {}, !.index.dirty = TRUE]

Lock ==
    /\ pc = "idle" /\ mem.crypted
    /\ mem' = Locked(mem)
    /\ UNCHANGED <<pc, disk, next, faults, hist>>

(* DecryptHybridKeys: every record in memory becomes a key; one still in   *)
(* clear is written again encrypted.                                       *)
Decrypted(m) ==
    [m EXCEPT !.unlocked = TRUE, !.hyb = @ \cup m.rest, !.unused = @ \cup ((m.rest \ m.hyb) \ m.used)]

(* A master key whose transaction never began stays in the map and is      *)
(* tried first: under another passphrase its decryption usually fails, and *)
(* Unlock gives up.                                                        *)
Opens(m, p) == p \in m.mkeys
GivesUp(m, p) == m.decoys \ {p} # {}

Unlock(p) ==
    /\ pc = "idle" /\ IsLocked(mem) /\ Opens(mem, p)
    /\ \E done \in SUBSET disk.hybClear :
         LET d == WriteHybridKey(disk, done, TRUE)
         IN  Install(IF d.hybClear = {} THEN Same(Decrypted(mem), d) ELSE Failing(Same(Locked(mem), d)), "idle")
    /\ UNCHANGED hist

(* The hybrid keys are dropped by Lock and not decrypted again; the result *)
(* of writing the master key is not looked at.  A wrong passphrase leaves  *)
(* the wallet locked.                                                      *)
ChangeWalletPassphrase(p, q) ==
    /\ pc = "idle" /\ mem.crypted
    /\ \/ LET m == [Locked(mem) EXCEPT !.unlocked = ~IsLocked(mem), !.mkeys = (@ \ {p}) \cup {q}]
          IN  /\ Opens(mem, p)
              /\ \/ Install(Same(m, [disk EXCEPT !.pass = q]), "idle")
                 \/ Install(Failing(Same(m, disk)), "idle")
       \/ /\ ~Opens(mem, p) \/ GivesUp(mem, p)
          /\ Install(Same(Locked(mem), disk), "idle")
    /\ UNCHANGED hist

(* Mutant: the master key is not written.                                  *)
EncryptCommitNoMasterKey(m, d, p) ==
    Same([Locked(m) EXCEPT !.crypted = TRUE, !.mkeys = @ \cup {p}, !.rest = @ \cup m.hyb],
         WriteHybridKey(WriteCryptedKey(d, m.keys), m.hyb, TRUE))

(* EncryptWallet: one transaction for the master key, all keys and all     *)
(* hybrid keys.  When it cannot begin, only memory has the master key;     *)
(* after that every failure ends the process.                              *)
EncryptCommit(m, d, p) ==
    Same([Locked(m) EXCEPT !.crypted = TRUE, !.mkeys = @ \cup {p}, !.rest = @ \cup m.hyb],
         [WriteHybridKey(WriteCryptedKey(d, m.keys), m.hyb, TRUE) EXCEPT !.pass = p])

EncryptWallet(p) ==
    /\ pc = "idle" /\ ~mem.crypted /\ CheckHybridKeys(mem, disk) = {}
    /\ Install(EncryptCommit(mem, disk, p), "encrypted")
    /\ UNCHANGED hist

(* Mutant: the process goes on after a commit that failed.                 *)
EncryptWalletFailsGoesOn(p) ==
    /\ pc = "idle" /\ ~mem.crypted
    /\ Install(Failing(Same(EncryptCommit(mem, disk, p).m, disk)), "encrypted")
    /\ UNCHANGED hist

EncryptWalletFails(p) ==
    /\ pc = "idle" /\ ~mem.crypted
    /\ \/ Install(Failing(Same([mem EXCEPT !.decoys = @ \cup {p}], disk)), "idle")
       \/ Install(Failing(Same(Empty, disk)), "off")
    /\ UNCHANGED hist

(* After the commit: unlock, new key pool in two transactions, lock.       *)
EncryptedPool(p) ==
    /\ pc = "encrypted" /\ Opens(mem, p)
    /\ \/ Install(ErasedPool(Decrypted(mem), disk), "encrefill")
       \/ Install(Failing(Same(Locked(mem), disk)), "idle")
       \/ GivesUp(mem, p) /\ Install(ErasedPool(mem, disk), "idle")
    /\ UNCHANGED hist

EncryptedRefill ==
    /\ pc = "encrefill"
    /\ \/ Room(PoolSize) /\ LET r == Refilled(mem, disk, 1, PoolSize)
                            IN  Install([r EXCEPT !.m = Locked(r.m)], "idle")
       \/ Install(Failing(Same(Locked(mem), disk)), "idle")
    /\ UNCHANGED hist

(***************************************************************************)
(* Start and stop.                                                         *)
(***************************************************************************)
(* LoadWallet refuses clear keys beside encrypted ones.                    *)
LoadFails(d) == d.clear # {} /\ d.crypt # {}

BackfillHybridUsedKeys(d) == d.used \cup d.book \cup (d.paid \cap HybridStored(d))

LoadedRecords(d) ==
    [Empty EXCEPT !.crypted = d.crypt # {}, !.keys = Stored(d), !.mkeys = {d.pass} \ {NoPass},
                  !.pool = DOMAIN d.pool, !.dflt = d.dflt, !.book = d.book]

LoadHybridKeys(m, d) ==
    IF m.crypted THEN [m EXCEPT !.rest = HybridStored(d)] ELSE [m EXCEPT !.hyb = d.hybClear]

LoadWallet ==
    /\ pc \in {"off", "aborted"} /\ ~LoadFails(disk)
    /\ LET used == BackfillHybridUsedKeys(disk)
           m == [LoadHybridKeys(LoadedRecords(disk), disk) EXCEPT !.used = used]
       IN  \/ Install(Same(m, [disk EXCEPT !.used = used]), "loaded")
           \/ used # disk.used /\ Install(Failing(Same(m, disk)), "loaded")
    /\ UNCHANGED hist

RebuildUnusedHybridKeySet(m) == [m EXCEPT !.unused = (m.hyb \cup m.rest) \ m.used]

LoadHybridPool ==
    /\ pc = "loaded"
    /\ \E r \in {EnsureHybridKeyPool(mem, disk, HybridTarget), Failing(Same(mem, disk))} :
         Install([r EXCEPT !.m = RebuildUnusedHybridKeySet(r.m)], "default")
    /\ UNCHANGED hist

(* A wallet without a default key takes one from the pool.                 *)
FirstRun ==
    /\ pc = "default"
    /\ IF mem.dflt # NoKey \/ ~Room(Max({1, Want(mem)}))
       THEN Install(Same(mem, disk), "idle") /\ UNCHANGED hist
       ELSE \E g \in GetKeyFromPool(mem, disk, FALSE), saved \in BOOLEAN :
              /\ Install(IF saved THEN [g.r EXCEPT !.m.dflt = g.k, !.d.dflt = g.k] ELSE Failing(g.r), "idle")
              /\ hist' = [hist EXCEPT !.owed = @ \cup (IF saved THEN {g.k} \ {NoKey} ELSE {})]

(* The process ends, orderly or not: only the disk is left.                *)
Stop ==
    /\ pc \notin {"off", "aborted"}
    /\ pc' = "off"
    /\ mem' = Empty
    /\ UNCHANGED <<disk, next, faults, hist>>

Next ==
    \/ \E u \in Users : GetReservedKey(u) \/ GetReservedKeyAgain(u) \/ KeepKey(u) \/ ReturnKey(u)
    \/ \E b \in BOOLEAN : GetNewAddress(b) \/ GetHybridAddress(b) \/ ImportHybridKey(b)
    \/ \E p \in Passphrases : Unlock(p) \/ EncryptWallet(p) \/ EncryptWalletFails(p) \/ EncryptedPool(p)
    \/ \E p, q \in Passphrases : ChangeWalletPassphrase(p, q)
    \/ TopUp \/ ReplaceDefaultKey \/ KeyPoolRefill \/ Refill \/ RefillTopUp \/ EncryptedRefill
    \/ ImportPrivKey \/ FindHybridKeyByLegacyID \/ Lock
    \/ LoadWallet \/ LoadHybridPool \/ FirstRun \/ Stop

Spec == Init /\ [][Next]_vars

-----------------------------------------------------------------------------
(* Whatever the user relies on (addresses given out, keys imported, a      *)
(* reserved or default key) can be recovered from the disk at every        *)
(* instant: in clear, or under a master key that is there too; a hybrid    *)
(* address with both halves in the same form (EncryptWallet, StageHybrid-  *)
(* Key, TopUpKeyPool and AddKey against failures and the end of the        *)
(* process).                                                               *)
Recoverable(k) == k \in disk.clear \/ (k \in disk.crypt /\ disk.pass # NoPass)

KeysRecoverable ==
    /\ \A k \in hist.owed \cup {mem.held[u].k : u \in Users} \cup {disk.dflt} : k = NoKey \/ Recoverable(k)
    /\ hist.issued \subseteq HybridStored(disk)

(* What is on disk always loads: clear and encrypted keys never stand      *)
(* beside each other, every pool record names a stored key, every hybrid   *)
(* record has its ECDSA half and no encrypted one is in a clear wallet     *)
(* (the conditions LoadWallet, ReserveKeyFromKeyPool and LoadHybridKey     *)
(* fail on).                                                               *)
WalletLoads ==
    /\ ~LoadFails(disk)
    /\ \A i \in DOMAIN disk.pool : disk.pool[i] \in Stored(disk)
    /\ HybridStored(disk) \subseteq Stored(disk)
    /\ disk.hybCrypt \subseteq disk.crypt

(* A hybrid address is given out once: whatever was issued, by this        *)
(* process or an earlier one, is never among the keys on offer             *)
(* (GetUnusedHybridKey, BackfillHybridUsedKeys, DecryptHybridKeys).        *)
IssuedOnce == pc = "idle" => mem.unused \cap hist.issued = {}

(* Memory and disk agree on the hybrid keys while the wallet serves        *)
(* commands: CheckHybridKeys has nothing to report but the records in      *)
(* clear that an encrypted wallet of an older version waits to migrate,    *)
(* and none of those once it was unlocked.                                 *)
HybridConsistent ==
    pc = "idle" =>
        /\ CheckHybridKeys(mem, disk) \subseteq disk.hybClear
        /\ mem.crypted /\ mem.unlocked => disk.hybClear = {}

(* A reverse index that FindHybridKeyByLegacyID would use as it is answers *)
(* what a scan of both maps would.                                         *)
LegacyIndexFresh == IndexStale(mem) \/ mem.index.ids = mem.hyb \cup mem.rest

(* The assertion of CReserveKey::GetReservedKey never ends the process.    *)
ReservedKeyValid == pc # "aborted"
=============================================================================
