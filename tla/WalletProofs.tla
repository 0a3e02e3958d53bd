----------------------------- MODULE WalletProofs -----------------------------
(***************************************************************************)
(* Theorems about the keys of the wallet (WalletKeys), for any sizes of    *)
(* the pools, passphrases, holders of reservations, failing writes and     *)
(* ends of the process: what was handed out is recoverable, what is on     *)
(* disk loads, and a hybrid address is given out once; and about what the  *)
(* interface shows (WalletView).                                           *)
(***************************************************************************)
EXTENDS MCWallet, OrderLemmas, Sequences, FiniteSetTheorems

Numbers(n) == {k \in Nat \ {0} : k < n}
Bounded(S) == \E b \in Nat : S \subseteq 0 .. b

DiskShape(d) ==
    d = [clear |-> d.clear, crypt |-> d.crypt, pass |-> d.pass, pool |-> d.pool, dflt |-> d.dflt,
         hybClear |-> d.hybClear, hybCrypt |-> d.hybCrypt, used |-> d.used, book |-> d.book,
         paid |-> d.paid]
MemShape(m) ==
    m = [crypted |-> m.crypted, unlocked |-> m.unlocked, keys |-> m.keys, mkeys |-> m.mkeys,
         decoys |-> m.decoys, pool |-> m.pool, held |-> m.held, dflt |-> m.dflt, hyb |-> m.hyb,
         rest |-> m.rest, unused |-> m.unused, used |-> m.used, book |-> m.book, index |-> m.index]

(* The records of the keys and of their pool. *)
KeyDisk(d, n) ==
    /\ DiskShape(d)
    /\ d.clear = {} \/ d.crypt = {}
    /\ d.crypt # {} => d.pass # "none"
    /\ Keys!Stored(d) \subseteq Numbers(n)
    /\ d.dflt \in Keys!Stored(d) \cup {0}
    /\ d.pool = [i \in DOMAIN d.pool |-> d.pool[i]]
    /\ Bounded(DOMAIN d.pool)
    /\ \A i \in DOMAIN d.pool : d.pool[i] \in Keys!Stored(d)

(* The hybrid records: each with its ECDSA half. *)
HybridDisk(d) ==
    Keys!HybridStored(d) \subseteq Keys!Stored(d) /\ d.hybCrypt \subseteq d.crypt

(* The records have the form of the wallet. *)
FormKept(m, d) ==
    /\ m.crypted => d.clear = {} /\ d.pass # "none"
    /\ ~m.crypted => d.crypt = {}

(* The keys in memory are those on disk and some whose record failed; what is *)
(* held, and the default key, are on disk.                                    *)
KeyMem(m, d, n) ==
    /\ MemShape(m)
    /\ FormKept(m, d)
    /\ Keys!Stored(d) \subseteq m.keys /\ m.keys \subseteq Numbers(n)
    /\ Bounded(m.pool)
    /\ m.held = [u \in Users |-> m.held[u]]
    /\ \A u \in Users : m.held[u].i \in Nat /\ m.held[u].k \in Keys!Stored(d) \cup {0}
    /\ m.dflt \in Keys!Stored(d) \cup {0}

(* A clear wallet has all hybrid keys in one map, an encrypted one in the     *)
(* other, and while it is unlocked no record is in clear.                     *)
HybridMem(m, d) ==
    /\ m.hyb \subseteq Keys!HybridStored(d) /\ m.unused \subseteq Keys!HybridStored(d)
    /\ m.crypted => m.rest = Keys!HybridStored(d)
    /\ ~m.crypted => m.rest = {} /\ m.hyb = Keys!HybridStored(d)
    /\ m.crypted /\ ~m.unlocked => m.hyb = {}
    /\ m.crypted /\ m.unlocked => d.hybClear = {}

(* Since the reverse index was built both maps only grew. *)
IndexMem(m) ==
    /\ m.index = [ids |-> m.index.ids, nMem |-> m.index.nMem, nRest |-> m.index.nRest,
                  dirty |-> m.index.dirty]
    /\ ~m.index.dirty => \E H \in SUBSET m.hyb, R \in SUBSET m.rest :
        /\ m.index.ids = H \cup R
        /\ m.index.nMem = Cardinality(H) /\ m.index.nRest = Cardinality(R)

Good(m, d, n) ==
    KeyDisk(d, n) /\ HybridDisk(d) /\ KeyMem(m, d, n) /\ HybridMem(m, d) /\ IndexMem(m)

(* What was handed out is on disk, and what was issued is among the used keys *)
(* of the disk, or of the memory.                                             *)
Handed(h, d) ==
    /\ h = [owed |-> h.owed, issued |-> h.issued]
    /\ h.owed \subseteq Keys!Stored(d)
    /\ h.issued \subseteq Keys!HybridStored(d) \cap Keys!BackfillHybridUsedKeys(d)
Offered(m, h) == h.issued \subseteq m.used /\ m.unused \cap h.issued = {}

KeysInv ==
    /\ next \in Nat \ {0}
    /\ KeyDisk(keyRecords, next) /\ HybridDisk(keyRecords) /\ Handed(handedOut, keyRecords)
    /\ pc = "off" => keyStore = Keys!Empty
    /\ pc # "off" => Good(keyStore, keyRecords, next) /\ Offered(keyStore, handedOut)
    /\ pc \in {"encrypted", "encrefill"} => keyStore.crypted /\ keyRecords.hybClear = {}

-----------------------------------------------------------------------------
(* Helpers *)

LEMMA SameCardinality ==
    ASSUME NEW S PROVE Keys!Cardinality(S) = Cardinality(S)
BY Zenon DEF Keys!Cardinality, Cardinality

LEMMA BoundedFacts ==
    ASSUME NEW S, Bounded(S)
    PROVE  /\ S \subseteq Nat /\ IsFiniteSet(S) /\ Cardinality(S) \in Nat
           /\ S # {} => /\ Keys!Max(S) \in S /\ Keys!Min(S) \in S
<1>1. PICK b \in Nat : S \subseteq 0 .. b
  BY DEF Bounded
<1>2. IsFiniteSet(0 .. b)
  BY FS_Interval
<1>3. IsFiniteSet(S) /\ Cardinality(S) \in Nat
  BY <1>1, <1>2, FS_Subset, FS_CardinalityType
<1>4. S \subseteq Nat /\ S \subseteq Int /\ \A i \in S : i <= b
  BY <1>1
<1>5. S # {} => Max(S) \in S
  <2>1. b \in Int
    BY <1>1
  <2> QED BY <1>4, <2>1, GreatestInteger
<1>6. S # {} => Min(S) \in S
  BY <1>4, LeastInteger
<1> QED BY <1>3, <1>4, <1>5, <1>6 DEF Keys!Max, Keys!Min, Max, Min

LEMMA NumbersFinite ==
    ASSUME NEW n \in Nat, NEW S, S \subseteq Numbers(n)
    PROVE  IsFiniteSet(S) /\ Cardinality(S) \in Nat
<1>1. S \subseteq 0 .. n
  BY DEF Numbers
<1> QED BY <1>1, BoundedFacts DEF Bounded

LEMMA BoundedMore ==
    ASSUME NEW S, Bounded(S), NEW T, Bounded(T)
    PROVE  Bounded(S \cup T) /\ \A U : U \subseteq S => Bounded(U)
<1>1. PICK b \in Nat : S \subseteq 0 .. b
  BY DEF Bounded
<1>2. PICK c \in Nat : T \subseteq 0 .. c
  BY DEF Bounded
<1>3. CASE b <= c
  <2>1. S \cup T \subseteq 0 .. c
    BY <1>1, <1>2, <1>3
  <2> QED BY <1>1, <2>1 DEF Bounded
<1>4. CASE c <= b
  <2>1. S \cup T \subseteq 0 .. b
    BY <1>1, <1>2, <1>4
  <2> QED BY <1>1, <2>1 DEF Bounded
<1> QED BY <1>3, <1>4

LEMMA WantNatural ==
    ASSUME NEW m, Bounded(m.pool)
    PROVE  Keys!Want(m) \in Nat
<1>1. Cardinality(m.pool) \in Nat /\ PoolSize \in Nat
  BY BoundedFacts, WalletAssumption DEF Keys!KeysAssumption
<1> DEFINE x == PoolSize + 1 - Cardinality(m.pool)
           S == {0, x}
<1>2. S \subseteq Int /\ S # {} /\ \A i \in S : i <= PoolSize + 1
  BY <1>1
<1>3. PoolSize + 1 \in Int
  BY <1>1
<1>4. Max(S) \in S /\ \A i \in S : i <= Max(S)
  <2> HIDE DEF S
  <2> QED BY <1>2, <1>3, GreatestInteger
<1>5. Max(S) \in Nat
  <2>1. Max(S) \in Int /\ 0 <= Max(S)
    BY <1>2, <1>4
  <2> HIDE DEF S
  <2> QED BY <2>1
<1> QED BY <1>5, SameCardinality DEF Keys!Want, Keys!Max, Max

-----------------------------------------------------------------------------
(* What changes only the keys and their pool *)

(* Nothing of the hybrid keys changes, and no record of a key goes. *)
KeysOnly(m, d, m2, d2) ==
    /\ m2.crypted = m.crypted /\ m2.unlocked = m.unlocked
    /\ m2.hyb = m.hyb /\ m2.rest = m.rest /\ m2.index = m.index
    /\ m2.unused = m.unused /\ m2.used = m.used
    /\ d2.hybClear = d.hybClear /\ d2.hybCrypt = d.hybCrypt /\ d2.pass = d.pass
    /\ d2.used = d.used /\ d2.book = d.book /\ d2.paid = d.paid
    /\ d.crypt \subseteq d2.crypt /\ Keys!Stored(d) \subseteq Keys!Stored(d2)

(* A result from which the keys can go on. *)
ResultShape(r) == r = [m |-> r.m, d |-> r.d, n |-> r.n, f |-> r.f]
Sound(m, d, r) ==
    /\ ResultShape(r) /\ r.n \in Nat
    /\ KeyDisk(r.d, next + r.n) /\ KeyMem(r.m, r.d, next + r.n) /\ KeysOnly(m, d, r.m, r.d)

LEMMA HybridStays ==
    ASSUME NEW m, NEW d, NEW m2, NEW d2, KeysOnly(m, d, m2, d2),
           HybridDisk(d), HybridMem(m, d), IndexMem(m)
    PROVE  /\ HybridDisk(d2) /\ HybridMem(m2, d2) /\ IndexMem(m2)
           /\ \A h : Handed(h, d) => Handed(h, d2)
           /\ \A h : Offered(m, h) => Offered(m2, h)
<1>1. /\ Keys!HybridStored(d2) = Keys!HybridStored(d)
      /\ Keys!BackfillHybridUsedKeys(d2) = Keys!BackfillHybridUsedKeys(d)
  BY DEF KeysOnly, Keys!HybridStored, Keys!BackfillHybridUsedKeys
<1>2. HybridDisk(d2)
  BY <1>1 DEF HybridDisk, KeysOnly
<1>3. HybridMem(m2, d2)
  BY <1>1 DEF HybridMem, KeysOnly
<1>4. IndexMem(m2)
  BY DEF IndexMem, KeysOnly
<1>5. ASSUME NEW h, Handed(h, d) PROVE Handed(h, d2)
  BY <1>1, <1>5 DEF Handed, KeysOnly
<1>6. ASSUME NEW h, Offered(m, h) PROVE Offered(m2, h)
  BY <1>6 DEF Offered, KeysOnly
<1> QED BY <1>2, <1>3, <1>4, <1>5, <1>6

LEMMA KeysOnlyMore ==
    ASSUME NEW m, NEW d, NEW m2, NEW d2, NEW m3, NEW d3,
           KeysOnly(m, d, m2, d2), KeysOnly(m2, d2, m3, d3)
    PROVE  KeysOnly(m, d, m3, d3)
BY DEF KeysOnly

(* Records of keys in the form the wallet has. *)
Staged(m, d, ks, e) ==
    /\ DiskShape(e) /\ Keys!Stored(e) = Keys!Stored(d) \cup ks
    /\ m.crypted => e.crypt = d.crypt \cup ks /\ e.clear = d.clear \ ks
    /\ ~m.crypted => e.clear = d.clear \cup ks /\ e.crypt = d.crypt
    /\ e.pass = d.pass /\ e.pool = d.pool /\ e.dflt = d.dflt
    /\ e.hybClear = d.hybClear /\ e.hybCrypt = d.hybCrypt
    /\ e.used = d.used /\ e.book = d.book /\ e.paid = d.paid

LEMMA StageFacts ==
    ASSUME NEW m, NEW d, DiskShape(d), NEW ks, NEW e, e = Keys!StageKeyRecord(m, d, ks)
    PROVE  Staged(m, d, ks, e)
<1>1. CASE m.crypted
  <2>1. e = [d EXCEPT !.crypt = d.crypt \cup ks, !.clear = d.clear \ ks]
    BY <1>1 DEF Keys!StageKeyRecord, Keys!WriteCryptedKey
  <2>2. e = [clear |-> d.clear \ ks, crypt |-> d.crypt \cup ks, pass |-> d.pass, pool |-> d.pool,
             dflt |-> d.dflt, hybClear |-> d.hybClear, hybCrypt |-> d.hybCrypt,
             used |-> d.used, book |-> d.book, paid |-> d.paid]
    BY <2>1 DEF DiskShape
  <2> QED BY <1>1, <2>2 DEF Staged, DiskShape, Keys!Stored
<1>2. CASE ~m.crypted
  <2>1. e = [d EXCEPT !.clear = d.clear \cup ks]
    BY <1>2 DEF Keys!StageKeyRecord, Keys!WriteKey
  <2>2. e = [clear |-> d.clear \cup ks, crypt |-> d.crypt, pass |-> d.pass, pool |-> d.pool,
             dflt |-> d.dflt, hybClear |-> d.hybClear, hybCrypt |-> d.hybCrypt,
             used |-> d.used, book |-> d.book, paid |-> d.paid]
    BY <2>1 DEF DiskShape
  <2> QED BY <1>2, <2>2 DEF Staged, DiskShape, Keys!Stored
<1> QED BY <1>1, <1>2

(* The form of the records stays that of the wallet, and the new keys are new. *)
LEMMA StageKeeps ==
    ASSUME NEW m, NEW d, NEW n \in Nat, KeyDisk(d, n), KeyMem(m, d, n), NEW l \in Nat, n <= l,
           NEW ks, ks \subseteq Numbers(l), NEW e, e = Keys!StageKeyRecord(m, d, ks)
    PROVE  KeyDisk(e, l) /\ KeysOnly(m, d, m, e) /\ FormKept(m, e)
<1>1. DiskShape(d)
  BY DEF KeyDisk
<1>2. Staged(m, d, ks, e)
  BY <1>1, StageFacts
<1>3. FormKept(m, e)
  BY <1>2 DEF Staged, KeyMem, FormKept
<1>4. Numbers(n) \subseteq Numbers(l)
  BY DEF Numbers
<1>5. KeyDisk(e, l)
  BY <1>2, <1>3, <1>4 DEF Staged, KeyDisk, FormKept
<1>6. KeysOnly(m, d, m, e)
  BY <1>2, <1>3 DEF Staged, KeysOnly, KeyMem, FormKept
<1> QED BY <1>3, <1>5, <1>6

LEMMA FreshNumbers ==
    ASSUME NEW k \in Nat, next \in Nat \ {0}
    PROVE  /\ Keys!Fresh(k) \subseteq Numbers(next + k) /\ next + k \in Nat /\ next <= next + k
           /\ Keys!Fresh(k) \cap Numbers(next) = {} /\ (k = 1 => Keys!Fresh(k) = {next})
BY DEF Keys!Fresh, Numbers

(* Another pool of stored keys. *)
LEMMA PoolReplaced ==
    ASSUME NEW l \in Nat, NEW d, KeyDisk(d, l), NEW P, P = [i \in DOMAIN P |-> P[i]],
           Bounded(DOMAIN P), \A i \in DOMAIN P : P[i] \in Keys!Stored(d),
           NEW e, e = [d EXCEPT !.pool = P], NEW m
    PROVE  KeyDisk(e, l) /\ KeysOnly(m, d, m, e) /\ Keys!Stored(e) = Keys!Stored(d)
           /\ e.clear = d.clear /\ e.crypt = d.crypt /\ e.pool = P /\ e.dflt = d.dflt
<1>1. e = [clear |-> d.clear, crypt |-> d.crypt, pass |-> d.pass, pool |-> P,
           dflt |-> d.dflt, hybClear |-> d.hybClear, hybCrypt |-> d.hybCrypt,
           used |-> d.used, book |-> d.book, paid |-> d.paid]
  BY DEF KeyDisk, DiskShape
<1>2. /\ e.clear = d.clear /\ e.crypt = d.crypt /\ e.pool = P /\ e.dflt = d.dflt
      /\ e.pass = d.pass /\ e.hybClear = d.hybClear /\ e.hybCrypt = d.hybCrypt
      /\ e.used = d.used /\ e.book = d.book /\ e.paid = d.paid /\ DiskShape(e)
  BY <1>1 DEF DiskShape
<1>3. Keys!Stored(e) = Keys!Stored(d)
  BY <1>2 DEF Keys!Stored
<1>4. KeyDisk(e, l)
  BY <1>2, <1>3 DEF KeyDisk
<1>5. KeysOnly(m, d, m, e)
  BY <1>2, <1>3 DEF KeysOnly
<1> QED BY <1>2, <1>3, <1>4, <1>5

(* Memory with another pool and other keys. *)
WithKeys(m, S, ks, g) ==
    /\ MemShape(g) /\ g.pool = S /\ g.keys = ks
    /\ g.crypted = m.crypted /\ g.unlocked = m.unlocked /\ g.held = m.held /\ g.dflt = m.dflt
    /\ g.hyb = m.hyb /\ g.rest = m.rest /\ g.unused = m.unused /\ g.used = m.used
    /\ g.index = m.index

LEMMA WithKeysFact ==
    ASSUME NEW m, MemShape(m), NEW S, NEW ks, NEW g, g = [m EXCEPT !.pool = S, !.keys = ks]
    PROVE  WithKeys(m, S, ks, g)
<1>1. g = [crypted |-> m.crypted, unlocked |-> m.unlocked, keys |-> ks, mkeys |-> m.mkeys,
           decoys |-> m.decoys, pool |-> S, held |-> m.held, dflt |-> m.dflt, hyb |-> m.hyb,
           rest |-> m.rest, unused |-> m.unused, used |-> m.used, book |-> m.book,
           index |-> m.index]
  BY DEF MemShape
<1> QED BY <1>1 DEF WithKeys, MemShape

LEMMA KeysReplaced ==
    ASSUME NEW l \in Nat, NEW n, NEW m, NEW d, KeyMem(m, d, n), NEW d2,
           Keys!Stored(d) \subseteq Keys!Stored(d2), FormKept(m, d2),
           NEW S, Bounded(S), NEW ks, Keys!Stored(d2) \subseteq ks, ks \subseteq Numbers(l),
           NEW g, WithKeys(m, S, ks, g)
    PROVE  KeyMem(g, d2, l) /\ KeysOnly(m, d, g, d) /\ g.pool = S
<1>1. FormKept(g, d2)
  BY DEF FormKept, WithKeys
<1>2. KeyMem(g, d2, l)
  BY <1>1 DEF KeyMem, WithKeys
<1>3. KeysOnly(m, d, g, d)
  BY DEF KeysOnly, WithKeys
<1> QED BY <1>2, <1>3 DEF WithKeys

LEMMA RefilledSound ==
    ASSUME next \in Nat \ {0}, NEW m, NEW d, KeyDisk(d, next), KeyMem(m, d, next),
           NEW first \in Nat, NEW k \in Nat, NEW r, r = Keys!Refilled(m, d, first, k)
    PROVE  Sound(m, d, r) /\ (k > 0 => r.m.pool # {})
<1> DEFINE ix == first .. first + k - 1
           ks == Keys!Fresh(k)
           P == [i \in DOMAIN d.pool \cup ix |-> IF i \in ix THEN next + i - first ELSE d.pool[i]]
           e == Keys!StageKeyRecord(m, d, ks)
           e2 == [e EXCEPT !.pool = P]
           S == m.pool \cup ix
           g == [m EXCEPT !.pool = S, !.keys = m.keys \cup ks]
<1>1. ks \subseteq Numbers(next + k) /\ next + k \in Nat /\ next <= next + k
  BY FreshNumbers
<1>2. Staged(m, d, ks, e)
  BY StageFacts DEF KeyDisk
<1>3. KeyDisk(e, next + k) /\ KeysOnly(m, d, m, e) /\ FormKept(m, e)
  <2> HIDE DEF e, ks
  <2>1. e = Keys!StageKeyRecord(m, d, ks)
    BY DEF e
  <2> QED BY <1>1, <2>1, StageKeeps
<1>4. r = [m |-> g, d |-> e2, n |-> k, f |-> 0]
  <2>1. e.pool = d.pool
    BY <1>2 DEF Staged
  <2> HIDE DEF e, ks
  <2> QED BY <2>1 DEF Keys!Refilled, Keys!Result, e, ks
<1>5. Bounded(ix)
  <2>1. ix \subseteq 0 .. first + k
    OBVIOUS
  <2> HIDE DEF ix
  <2> QED BY <2>1 DEF Bounded
<1>6. /\ P = [i \in DOMAIN P |-> P[i]] /\ Bounded(DOMAIN P)
      /\ \A i \in DOMAIN P : P[i] \in Keys!Stored(e)
  <2>1. DOMAIN P = DOMAIN d.pool \cup ix /\ Bounded(DOMAIN d.pool)
    BY DEF KeyDisk
  <2>2. Bounded(DOMAIN P)
    <3> HIDE DEF P, ix
    <3> QED BY <1>5, <2>1, BoundedMore
  <2>3. \A i \in ix : P[i] \in ks
    BY DEF Keys!Fresh
  <2>4. \A i \in DOMAIN d.pool \ ix : P[i] \in Keys!Stored(d)
    BY DEF KeyDisk
  <2>5. Keys!Stored(e) = Keys!Stored(d) \cup ks
    BY <1>2 DEF Staged
  <2> HIDE DEF ix, ks, e
  <2> QED BY <2>1, <2>2, <2>3, <2>4, <2>5
<1>7. Keys!Stored(e) = Keys!Stored(d) \cup ks
  BY <1>2 DEF Staged
<1> HIDE DEF e, ks, P
<1>8. /\ KeyDisk(e2, next + k) /\ KeysOnly(m, e, m, e2) /\ Keys!Stored(e2) = Keys!Stored(e)
      /\ e2.clear = e.clear /\ e2.crypt = e.crypt
  BY <1>1, <1>3, <1>6, PoolReplaced
<1> HIDE DEF e2, ix
<1>9. KeyMem(g, e2, next + k) /\ KeysOnly(m, d, g, d) /\ g.pool = S
  <2>1. Bounded(S)
    BY <1>5, BoundedMore DEF KeyMem
  <2>2. Numbers(next) \subseteq Numbers(next + k)
    BY <1>1 DEF Numbers
  <2>3. /\ Keys!Stored(e2) \subseteq m.keys \cup ks /\ m.keys \cup ks \subseteq Numbers(next + k)
        /\ Keys!Stored(d) \subseteq Keys!Stored(e2)
    BY <1>1, <1>7, <1>8, <2>2 DEF KeyMem
  <2>4. FormKept(m, e2)
    BY <1>3, <1>8 DEF KeysOnly, FormKept
  <2> HIDE DEF S
  <2>5. WithKeys(m, S, m.keys \cup ks, g)
    BY WithKeysFact DEF KeyMem
  <2> HIDE DEF g
  <2> QED BY <1>1, <2>1, <2>3, <2>4, <2>5, KeysReplaced
<1>10. KeysOnly(m, d, g, e2)
  <2> HIDE DEF g
  <2>1. KeysOnly(m, d, m, e2)
    BY <1>3, <1>8, KeysOnlyMore
  <2> QED BY <1>9, <2>1 DEF KeysOnly
<1>11. k > 0 => S # {}
  BY DEF ix
<1> HIDE DEF g, S
<1> QED BY <1>1, <1>4, <1>8, <1>9, <1>10, <1>11 DEF Sound, ResultShape

LEMMA SameSound ==
    ASSUME next \in Nat \ {0}, NEW m, NEW d, KeyDisk(d, next), KeyMem(m, d, next), NEW f
    PROVE  Sound(m, d, [m |-> m, d |-> d, n |-> 0, f |-> f])
BY DEF Sound, ResultShape, KeysOnly

(* The top-up that precedes a call may have failed. *)
LEMMA ToppedUpSound ==
    ASSUME next \in Nat \ {0}, NEW m, NEW d, KeyDisk(d, next), KeyMem(m, d, next),
           NEW r \in Keys!ToppedUp(m, d)
    PROVE  Sound(m, d, r)
<1>1. /\ Keys!Same(m, d) = [m |-> m, d |-> d, n |-> 0, f |-> 0]
      /\ Keys!Failing(Keys!Same(m, d)) = [m |-> m, d |-> d, n |-> 0, f |-> 1]
  BY DEF Keys!Same, Keys!Result, Keys!Failing
<1>2. CASE r \in {Keys!Same(m, d), Keys!Failing(Keys!Same(m, d))}
  BY <1>1, <1>2, SameSound
<1>3. CASE r = Keys!TopUpKeyPool(m, d)
  <2> DEFINE first == IF m.pool = {} THEN 1 ELSE Keys!Max(m.pool) + 1
  <2>1. first \in Nat
    BY BoundedFacts DEF KeyMem
  <2>2. Keys!Want(m) \in Nat
    BY WantNatural DEF KeyMem
  <2>3. r = Keys!Refilled(m, d, first, Keys!Want(m))
    BY <1>3 DEF Keys!TopUpKeyPool
  <2> HIDE DEF first
  <2> QED BY <2>1, <2>2, <2>3, RefilledSound
<1> QED BY <1>2, <1>3 DEF Keys!ToppedUp

LEMMA AddKeySound ==
    ASSUME next \in Nat \ {0}, NEW m, NEW d, KeyDisk(d, next), KeyMem(m, d, next), NEW f,
           NEW r, r \in {[Keys!AddKey(m, d).done EXCEPT !.f = f], Keys!AddKey(m, d).failed}
    PROVE  /\ Sound(m, d, r)
           /\ r = [Keys!AddKey(m, d).done EXCEPT !.f = f] => next \in Keys!Stored(r.d)
<1> DEFINE ks == m.keys \cup {next}
           g == [m EXCEPT !.keys = ks]
           e == Keys!StageKeyRecord(m, d, {next})
<1>1. WithKeys(m, m.pool, ks, g)
  <2>1. g = [m EXCEPT !.pool = m.pool, !.keys = ks]
    <3> HIDE DEF ks
    <3> QED BY DEF KeyMem, MemShape
  <2> HIDE DEF g, ks
  <2> QED BY <2>1, WithKeysFact DEF KeyMem
<1>2. {next} \subseteq Numbers(next + 1) /\ Numbers(next) \subseteq Numbers(next + 1)
      /\ next + 1 \in Nat /\ next <= next + 1
  BY DEF Numbers
<1>3. Staged(m, d, {next}, e)
  BY StageFacts DEF KeyDisk
<1>4. KeyDisk(e, next + 1) /\ KeysOnly(m, d, m, e) /\ FormKept(m, e)
  <2> HIDE DEF e
  <2>1. e = Keys!StageKeyRecord(m, d, {next})
    BY DEF e
  <2> QED BY <1>2, <2>1, StageKeeps
<1>5. KeyDisk(d, next + 1)
  BY <1>2 DEF KeyDisk
<1>6. Keys!Stored(e) = Keys!Stored(d) \cup {next}
  BY <1>3 DEF Staged
<1>7. r = [m |-> g, d |-> e, n |-> 1, f |-> f] \/ r = [m |-> g, d |-> d, n |-> 1, f |-> 1]
  <2> HIDE DEF e
  <2> QED BY DEF Keys!AddKey, Keys!Failing, Keys!Result, e
<1> HIDE DEF g, e
<1>8. KeyMem(g, e, next + 1) /\ KeyMem(g, d, next + 1) /\ KeysOnly(m, d, g, d)
  <2>1. /\ Bounded(m.pool) /\ ks \subseteq Numbers(next + 1) /\ FormKept(m, d)
        /\ Keys!Stored(d) \subseteq ks /\ Keys!Stored(e) \subseteq ks
        /\ Keys!Stored(d) \subseteq Keys!Stored(e)
    BY <1>2, <1>6 DEF KeyMem
  <2> HIDE DEF ks
  <2>2. KeyMem(g, e, next + 1) /\ KeysOnly(m, d, g, d)
    BY <1>1, <1>2, <1>4, <2>1, KeysReplaced
  <2>3. KeyMem(g, d, next + 1)
    BY <1>1, <1>2, <2>1, KeysReplaced
  <2> QED BY <2>2, <2>3
<1>9. KeysOnly(m, d, g, e)
  BY <1>4, <1>8 DEF KeysOnly
<1>10. CASE r = [m |-> g, d |-> e, n |-> 1, f |-> f]
  <2>1. Sound(m, d, r)
    BY <1>2, <1>4, <1>8, <1>9, <1>10 DEF Sound, ResultShape
  <2> QED BY <1>6, <1>10, <2>1
<1>11. CASE r = [m |-> g, d |-> d, n |-> 1, f |-> 1]
  <2>1. Sound(m, d, r)
    BY <1>2, <1>5, <1>8, <1>11 DEF Sound, ResultShape
  <2>2. r = [Keys!AddKey(m, d).done EXCEPT !.f = f] => r.d = e
    BY DEF Keys!AddKey, Keys!Result, e
  <2> QED BY <1>6, <2>1, <2>2
<1> QED BY <1>7, <1>10, <1>11

(* A pool of fewer indices, and maybe fewer records. *)
Erased(d, D, e) == e = [d EXCEPT !.pool = [j \in DOMAIN d.pool \ D |-> d.pool[j]]]
Shrunk(r, S, t) ==
    /\ ResultShape(t) /\ t.n = r.n
    /\ WithKeys(r.m, S, r.m.keys, t.m)
    /\ t.d = r.d \/ \E D : Erased(r.d, D, t.d)

LEMMA ShrinkSound ==
    ASSUME next \in Nat \ {0}, NEW m, NEW d, NEW r, Sound(m, d, r), NEW S, Bounded(S),
           NEW t, Shrunk(r, S, t)
    PROVE  Sound(m, d, t) /\ Keys!Stored(t.d) = Keys!Stored(r.d)
<1>1. KeyDisk(r.d, next + r.n) /\ KeyMem(r.m, r.d, next + r.n) /\ KeysOnly(m, d, r.m, r.d)
      /\ next + r.n \in Nat /\ r.n \in Nat
  BY DEF Sound
<1>2. ResultShape(t) /\ t.n = r.n /\ WithKeys(r.m, S, r.m.keys, t.m)
  BY DEF Shrunk
<1>3. /\ KeyDisk(t.d, next + r.n) /\ KeysOnly(r.m, r.d, r.m, t.d)
      /\ Keys!Stored(t.d) = Keys!Stored(r.d)
      /\ t.d.clear = r.d.clear /\ t.d.crypt = r.d.crypt
  <2>1. CASE t.d = r.d
    BY <1>1, <2>1 DEF KeysOnly
  <2>2. CASE \E D : Erased(r.d, D, t.d)
    <3>1. PICK D : Erased(r.d, D, t.d)
      BY <2>2
    <3> DEFINE P == [j \in DOMAIN r.d.pool \ D |-> r.d.pool[j]]
    <3>2. P = [j \in DOMAIN P |-> P[j]] /\ DOMAIN P \subseteq DOMAIN r.d.pool
          /\ \A i \in DOMAIN P : P[i] \in Keys!Stored(r.d)
      BY <1>1 DEF KeyDisk
    <3>3. Bounded(DOMAIN P)
      <4> HIDE DEF P
      <4> QED BY <1>1, <3>2, BoundedMore DEF KeyDisk
    <3>4. t.d = [r.d EXCEPT !.pool = P]
      BY <3>1 DEF Erased
    <3> HIDE DEF P
    <3> QED BY <1>1, <3>2, <3>3, <3>4, PoolReplaced
  <2> QED BY <2>1, <2>2 DEF Shrunk
<1>4. KeyMem(t.m, t.d, next + r.n) /\ KeysOnly(r.m, r.d, t.m, r.d)
  <2>1. FormKept(r.m, t.d)
    BY <1>1, <1>3 DEF KeyMem, FormKept, KeysOnly
  <2>2. /\ Keys!Stored(t.d) \subseteq r.m.keys /\ r.m.keys \subseteq Numbers(next + r.n)
        /\ Keys!Stored(r.d) \subseteq Keys!Stored(t.d)
    BY <1>1, <1>3 DEF KeyMem
  <2> QED BY <1>1, <1>2, <2>1, <2>2, KeysReplaced
<1>5. KeysOnly(m, d, t.m, t.d)
  BY <1>1, <1>3, <1>4 DEF KeysOnly
<1> QED BY <1>1, <1>2, <1>3, <1>4, <1>5 DEF Sound

(* Only the pool of the memory changes. *)
LEMMA OtherPool ==
    ASSUME NEW m, MemShape(m), NEW S, NEW g, g = [m EXCEPT !.pool = S]
    PROVE  WithKeys(m, S, m.keys, g)
<1>1. g = [m EXCEPT !.pool = S, !.keys = m.keys]
  BY DEF MemShape
<1> QED BY <1>1, WithKeysFact

LEMMA ErasedSound ==
    ASSUME next \in Nat \ {0}, NEW m, NEW d, KeyDisk(d, next), KeyMem(m, d, next)
    PROVE  Sound(m, d, Keys!ErasedPool(m, d))
<1> DEFINE r == [m |-> m, d |-> d, n |-> 0, f |-> 0]
           t == Keys!ErasedPool(m, d)
<1>1. Sound(m, d, r)
  BY SameSound
<1>2. Bounded({})
  <2>1. {} \subseteq 0 .. 0
    OBVIOUS
  <2> QED BY <2>1 DEF Bounded
<1>3. /\ t = [m |-> [m EXCEPT !.pool = {}], n |-> 0, f |-> 0,
              d |-> [d EXCEPT !.pool = [j \in DOMAIN d.pool \ m.pool |-> d.pool[j]]]]
  BY DEF Keys!ErasedPool, Keys!Same, Keys!Result
<1>4. t.m = [m EXCEPT !.pool = {}] /\ t.n = 0 /\ ResultShape(t) /\ Erased(d, m.pool, t.d)
  <2> HIDE DEF t
  <2> QED BY <1>3 DEF ResultShape, Erased
<1>5. WithKeys(m, {}, m.keys, t.m)
  <2> HIDE DEF t
  <2> QED BY <1>4, OtherPool DEF KeyMem
<1>6. r.m = m /\ r.d = d /\ r.n = 0
  OBVIOUS
<1> HIDE DEF t, r
<1>7. Shrunk(r, {}, t)
  BY <1>4, <1>5, <1>6 DEF Shrunk
<1> QED BY <1>1, <1>2, <1>7, ShrinkSound DEF t

(* The oldest index leaves the set; its record is erased, or stays. *)
LEMMA TakenSound ==
    ASSUME next \in Nat \ {0}, NEW m, NEW d, NEW r, Sound(m, d, r),
           NEW t, ResultShape(t), t.n = r.n, t.m = Keys!Taken(r.m),
           t.d = r.d \/ t.d = Keys!Kept(r.d, Keys!Oldest(r.m))
    PROVE  /\ Sound(m, d, t) /\ Keys!Stored(t.d) = Keys!Stored(r.d)
           /\ Keys!Readable(r.m, r.d) => r.d.pool[Keys!Oldest(r.m)] \in Keys!Stored(t.d)
<1> DEFINE o == Keys!Oldest(r.m)
           S == r.m.pool \ {o}
<1>1. Bounded(S)
  <2>1. S \subseteq r.m.pool /\ Bounded(r.m.pool)
    BY DEF Sound, KeyMem
  <2> HIDE DEF S
  <2> QED BY <2>1, BoundedMore
<1>2. KeyDisk(r.d, next + r.n) /\ MemShape(r.m)
  BY DEF Sound, KeyMem
<1>3. WithKeys(r.m, S, r.m.keys, t.m)
  <2>1. t.m = [r.m EXCEPT !.pool = S]
    BY DEF Keys!Taken
  <2> HIDE DEF S
  <2> QED BY <1>2, <2>1, OtherPool
<1>4. t.d = r.d \/ Erased(r.d, {o}, t.d)
  BY DEF Keys!Kept, Erased
<1>5. Keys!Readable(r.m, r.d) => r.d.pool[o] \in Keys!Stored(r.d)
  BY <1>2 DEF KeyDisk, Keys!Readable
<1> HIDE DEF S, o
<1>6. Shrunk(r, S, t)
  BY <1>3, <1>4 DEF Shrunk
<1>7. Sound(m, d, t) /\ Keys!Stored(t.d) = Keys!Stored(r.d)
  BY <1>1, <1>6, ShrinkSound
<1> QED BY <1>5, <1>7 DEF o

(* A key that is given is on disk. *)
LEMMA KeyFromPoolSound ==
    ASSUME next \in Nat \ {0}, NEW m, NEW d, KeyDisk(d, next), KeyMem(m, d, next),
           NEW reuse, NEW g \in Keys!GetKeyFromPool(m, d, reuse)
    PROVE  Sound(m, d, g.r) /\ g.k \in Keys!Stored(g.r.d) \cup {0}
<1>1. PICK r \in Keys!ToppedUp(m, d) :
        \/ /\ r.m.pool # {} /\ Keys!Readable(r.m, r.d)
           /\ \E t \in {Keys!Failing([r EXCEPT !.m = Keys!Taken(r.m)]),
                        [[r EXCEPT !.m = Keys!Taken(r.m)] EXCEPT
                             !.d = Keys!Kept(r.d, Keys!Oldest(r.m))]} :
                 g = [r |-> t, k |-> r.d.pool[Keys!Oldest(r.m)]]
        \/ r.m.pool # {} /\ g = [r |-> [r EXCEPT !.m = Keys!Taken(r.m)], k |-> 0]
        \/ g = [r |-> r, k |-> m.dflt] \/ g = [r |-> r, k |-> 0]
        \/ g = [r |-> [Keys!AddKey(m, d).done EXCEPT !.f = r.f], k |-> next]
        \/ g = [r |-> Keys!AddKey(m, d).failed, k |-> 0]
  BY DEF Keys!GetKeyFromPool, Keys!Given, Keys!NoKey
<1>2. Sound(m, d, r)
  BY ToppedUpSound
<1>3. CASE /\ r.m.pool # {} /\ Keys!Readable(r.m, r.d)
           /\ \E t \in {Keys!Failing([r EXCEPT !.m = Keys!Taken(r.m)]),
                        [[r EXCEPT !.m = Keys!Taken(r.m)] EXCEPT
                             !.d = Keys!Kept(r.d, Keys!Oldest(r.m))]} :
                 g = [r |-> t, k |-> r.d.pool[Keys!Oldest(r.m)]]
  <2>1. PICK t \in {Keys!Failing([r EXCEPT !.m = Keys!Taken(r.m)]),
                    [[r EXCEPT !.m = Keys!Taken(r.m)] EXCEPT
                        !.d = Keys!Kept(r.d, Keys!Oldest(r.m))]} :
             g = [r |-> t, k |-> r.d.pool[Keys!Oldest(r.m)]]
    BY <1>3
  <2>2. \/ t = [m |-> Keys!Taken(r.m), d |-> r.d, n |-> r.n, f |-> 1]
        \/ t = [m |-> Keys!Taken(r.m), d |-> Keys!Kept(r.d, Keys!Oldest(r.m)), n |-> r.n,
                f |-> r.f]
    BY <1>2, <2>1 DEF Keys!Failing, Sound, ResultShape
  <2>3. /\ ResultShape(t) /\ t.n = r.n /\ t.m = Keys!Taken(r.m)
        /\ t.d = r.d \/ t.d = Keys!Kept(r.d, Keys!Oldest(r.m))
    BY <2>2 DEF ResultShape
  <2>4. Sound(m, d, t) /\ r.d.pool[Keys!Oldest(r.m)] \in Keys!Stored(t.d)
    BY <1>2, <1>3, <2>3, TakenSound
  <2> QED BY <2>1, <2>4
<1>4. CASE r.m.pool # {} /\ g = [r |-> [r EXCEPT !.m = Keys!Taken(r.m)], k |-> 0]
  <2>1. g.r = [m |-> Keys!Taken(r.m), d |-> r.d, n |-> r.n, f |-> r.f]
    BY <1>2, <1>4 DEF Sound, ResultShape
  <2>2. ResultShape(g.r) /\ g.r.n = r.n /\ g.r.m = Keys!Taken(r.m) /\ g.r.d = r.d
    BY <2>1 DEF ResultShape
  <2>3. Sound(m, d, g.r)
    BY <1>2, <2>2, TakenSound
  <2> QED BY <1>4, <2>3
<1>5. CASE g = [r |-> r, k |-> m.dflt] \/ g = [r |-> r, k |-> 0]
  <2>1. m.dflt \in Keys!Stored(d) \cup {0} /\ Keys!Stored(d) \subseteq Keys!Stored(r.d)
    BY <1>2 DEF KeyMem, Sound, KeysOnly
  <2> QED BY <1>2, <1>5, <2>1
<1>6. CASE g = [r |-> [Keys!AddKey(m, d).done EXCEPT !.f = r.f], k |-> next]
  <2> DEFINE q == [Keys!AddKey(m, d).done EXCEPT !.f = r.f]
  <2>1. q \in {[Keys!AddKey(m, d).done EXCEPT !.f = r.f], Keys!AddKey(m, d).failed}
    OBVIOUS
  <2>2. Sound(m, d, q) /\ next \in Keys!Stored(q.d)
    BY <2>1, AddKeySound
  <2> QED BY <1>6, <2>2
<1>7. CASE g = [r |-> Keys!AddKey(m, d).failed, k |-> 0]
  <2> DEFINE q == Keys!AddKey(m, d).failed
  <2>1. q \in {[Keys!AddKey(m, d).done EXCEPT !.f = r.f], Keys!AddKey(m, d).failed}
    OBVIOUS
  <2>2. Sound(m, d, q)
    BY <2>1, AddKeySound
  <2> QED BY <1>7, <2>2
<1> QED BY <1>1, <1>3, <1>4, <1>5, <1>6, <1>7

(* A reservation changes, or the default key. *)
WithHeld(m, S, u, x, g) == g = [m EXCEPT !.pool = S, !.held = [m.held EXCEPT ![u] = x]]
WithDefault(r, k, t) ==
    t = [m |-> [r.m EXCEPT !.dflt = k], d |-> [r.d EXCEPT !.dflt = k], n |-> r.n, f |-> r.f]

LEMMA HeldSound ==
    ASSUME next \in Nat \ {0}, NEW m, NEW d, NEW r, Sound(m, d, r), NEW S, Bounded(S),
           NEW u \in Users, NEW x, x.i \in Nat, x.k \in Keys!Stored(r.d) \cup {0},
           NEW t, ResultShape(t), t.n = r.n, t.d = r.d, WithHeld(r.m, S, u, x, t.m)
    PROVE  Sound(m, d, t)
<1>1. KeyDisk(r.d, next + r.n) /\ KeyMem(r.m, r.d, next + r.n) /\ KeysOnly(m, d, r.m, r.d)
  BY DEF Sound
<1> DEFINE h == [r.m.held EXCEPT ![u] = x]
<1>2. /\ h = [v \in Users |-> h[v]]
      /\ \A v \in Users : h[v].i \in Nat /\ h[v].k \in Keys!Stored(r.d) \cup {0}
  BY <1>1 DEF KeyMem
<1> HIDE DEF h
<1>3. t.m = [crypted |-> r.m.crypted, unlocked |-> r.m.unlocked, keys |-> r.m.keys,
             mkeys |-> r.m.mkeys, decoys |-> r.m.decoys, pool |-> S, held |-> h,
             dflt |-> r.m.dflt, hyb |-> r.m.hyb, rest |-> r.m.rest, unused |-> r.m.unused,
             used |-> r.m.used, book |-> r.m.book, index |-> r.m.index]
  BY <1>1 DEF WithHeld, KeyMem, MemShape, h
<1>4. /\ MemShape(t.m) /\ t.m.held = h /\ t.m.pool = S /\ t.m.keys = r.m.keys
      /\ t.m.crypted = r.m.crypted /\ t.m.unlocked = r.m.unlocked /\ t.m.dflt = r.m.dflt
      /\ t.m.hyb = r.m.hyb /\ t.m.rest = r.m.rest /\ t.m.unused = r.m.unused
      /\ t.m.used = r.m.used /\ t.m.index = r.m.index
  BY <1>3 DEF MemShape
<1>5. KeyMem(t.m, t.d, next + t.n)
  BY <1>1, <1>2, <1>4 DEF KeyMem, FormKept
<1>6. KeysOnly(m, d, t.m, t.d)
  BY <1>1, <1>4 DEF KeysOnly
<1> QED BY <1>1, <1>5, <1>6 DEF Sound

LEMMA DefaultSound ==
    ASSUME next \in Nat \ {0}, NEW m, NEW d, NEW r, Sound(m, d, r),
           NEW k, k \in Keys!Stored(r.d) \cup {0}, NEW t, WithDefault(r, k, t)
    PROVE  Sound(m, d, t) /\ Keys!Stored(t.d) = Keys!Stored(r.d)
<1>1. KeyDisk(r.d, next + r.n) /\ KeyMem(r.m, r.d, next + r.n) /\ KeysOnly(m, d, r.m, r.d)
  BY DEF Sound
<1>2. /\ ResultShape(t) /\ t.n = r.n /\ t.m = [r.m EXCEPT !.dflt = k]
      /\ t.d = [r.d EXCEPT !.dflt = k]
  BY DEF WithDefault, ResultShape
<1>3. t.m = [crypted |-> r.m.crypted, unlocked |-> r.m.unlocked, keys |-> r.m.keys,
             mkeys |-> r.m.mkeys, decoys |-> r.m.decoys, pool |-> r.m.pool, held |-> r.m.held,
             dflt |-> k, hyb |-> r.m.hyb, rest |-> r.m.rest, unused |-> r.m.unused,
             used |-> r.m.used, book |-> r.m.book, index |-> r.m.index]
  BY <1>1, <1>2 DEF KeyMem, MemShape
<1>4. t.d = [clear |-> r.d.clear, crypt |-> r.d.crypt, pass |-> r.d.pass, pool |-> r.d.pool,
             dflt |-> k, hybClear |-> r.d.hybClear, hybCrypt |-> r.d.hybCrypt,
             used |-> r.d.used, book |-> r.d.book, paid |-> r.d.paid]
  BY <1>1, <1>2 DEF KeyDisk, DiskShape
<1>5. /\ MemShape(t.m) /\ t.m.dflt = k /\ t.m.pool = r.m.pool /\ t.m.keys = r.m.keys
      /\ t.m.crypted = r.m.crypted /\ t.m.unlocked = r.m.unlocked /\ t.m.held = r.m.held
      /\ t.m.hyb = r.m.hyb /\ t.m.rest = r.m.rest /\ t.m.unused = r.m.unused
      /\ t.m.used = r.m.used /\ t.m.index = r.m.index
  BY <1>3 DEF MemShape
<1>6. /\ DiskShape(t.d) /\ t.d.clear = r.d.clear /\ t.d.crypt = r.d.crypt /\ t.d.pass = r.d.pass
      /\ t.d.pool = r.d.pool /\ t.d.dflt = k /\ t.d.hybClear = r.d.hybClear
      /\ t.d.hybCrypt = r.d.hybCrypt /\ t.d.used = r.d.used /\ t.d.book = r.d.book
      /\ t.d.paid = r.d.paid
  BY <1>4 DEF DiskShape
<1>7. Keys!Stored(t.d) = Keys!Stored(r.d)
  BY <1>6 DEF Keys!Stored
<1>8. KeyDisk(t.d, next + t.n)
  BY <1>1, <1>2, <1>6, <1>7 DEF KeyDisk
<1>9. KeyMem(t.m, t.d, next + t.n)
  BY <1>1, <1>2, <1>5, <1>6, <1>7 DEF KeyMem, FormKept
<1>10. KeysOnly(m, d, t.m, t.d)
  BY <1>1, <1>5, <1>6, <1>7 DEF KeysOnly
<1>11. t.n \in Nat
  BY <1>2 DEF Sound
<1> QED BY <1>2, <1>7, <1>8, <1>9, <1>10, <1>11 DEF Sound

-----------------------------------------------------------------------------
(* The commands of the keys and their pool *)

Moves(r, where) ==
    pc' = where /\ keyStore' = r.m /\ keyRecords' = r.d /\ next' = next + r.n
OwedMore(new) == handedOut' = [owed |-> handedOut.owed \cup new, issued |-> handedOut.issued]
Running(where) ==
    where # "off" /\ (where \in {"encrypted", "encrefill"} => pc \in {"encrypted", "encrefill"})

LEMMA KeysMove ==
    ASSUME KeysInv, pc # "off", NEW r, Sound(keyStore, keyRecords, r), NEW where, Running(where),
           Moves(r, where), NEW new, new \subseteq Keys!Stored(r.d), OwedMore(new)
    PROVE  KeysInv'
<1>1. /\ Good(keyStore, keyRecords, next) /\ Offered(keyStore, handedOut)
      /\ Handed(handedOut, keyRecords) /\ next \in Nat \ {0}
  BY DEF KeysInv
<1>2. /\ KeyDisk(r.d, next') /\ KeyMem(r.m, r.d, next') /\ r.n \in Nat
      /\ KeysOnly(keyStore, keyRecords, r.m, r.d)
  BY DEF Sound, Moves
<1>3. /\ HybridDisk(r.d) /\ HybridMem(r.m, r.d) /\ IndexMem(r.m)
      /\ Handed(handedOut, r.d) /\ Offered(r.m, handedOut)
  BY <1>1, <1>2, HybridStays DEF Good
<1>4. Handed(handedOut', r.d)
  BY <1>3 DEF Handed, OwedMore
<1>5. Offered(r.m, handedOut')
  BY <1>3 DEF Offered, OwedMore
<1>6. next' \in Nat \ {0}
  BY <1>1, <1>2 DEF Moves
<1>7. pc \in {"encrypted", "encrefill"} => r.m.crypted /\ r.d.hybClear = {}
  BY <1>2 DEF KeysInv, KeysOnly
<1>8. pc' = where /\ keyStore' = r.m /\ keyRecords' = r.d
  BY DEF Moves
<1>9. KeyDisk(keyRecords', next') /\ HybridDisk(keyRecords') /\ Handed(handedOut', keyRecords')
  BY <1>2, <1>3, <1>4, <1>8
<1>10. Good(keyStore', keyRecords', next') /\ Offered(keyStore', handedOut')
  BY <1>2, <1>3, <1>5, <1>8 DEF Good
<1>11. pc' # "off"
       /\ (pc' \in {"encrypted", "encrefill"} => keyStore'.crypted /\ keyRecords'.hybClear = {})
  BY <1>7, <1>8 DEF Running
<1> QED BY <1>6, <1>9, <1>10, <1>11 DEF KeysInv

LEMMA NothingOwed ==
    ASSUME KeysInv
    PROVE  handedOut' = handedOut => OwedMore({})
BY DEF KeysInv, Handed, OwedMore

LEMMA OwedNow ==
    ASSUME KeysInv, NEW new, handedOut' = [handedOut EXCEPT !.owed = @ \cup new]
    PROVE  OwedMore(new)
BY DEF KeysInv, Handed, OwedMore

(* What a command finds. *)
LEMMA KeysFound ==
    ASSUME KeysInv, pc # "off"
    PROVE  /\ next \in Nat \ {0} /\ KeyDisk(keyRecords, next) /\ KeyMem(keyStore, keyRecords, next)
           /\ \A f : Sound(keyStore, keyRecords,
                           [m |-> keyStore, d |-> keyRecords, n |-> 0, f |-> f])
<1>1. next \in Nat \ {0} /\ KeyDisk(keyRecords, next) /\ KeyMem(keyStore, keyRecords, next)
  BY DEF KeysInv, Good
<1> QED BY <1>1, SameSound

LEMMA InstallMoves ==
    ASSUME NEW r, NEW where, Keys!Install(r, where)
    PROVE  Moves(r, where)
BY DEF Keys!Install, Moves

LEMMA TopUpKeeps ==
    ASSUME KeysInv, Keys!TopUp
    PROVE  KeysInv'
<1> DEFINE r == Keys!TopUpKeyPool(keyStore, keyRecords)
<1>1. pc # "off" /\ Keys!Install(r, "idle") /\ handedOut' = handedOut /\ Keys!Want(keyStore) # 0
  <2>1. Keys!Want(keyStore) \in Nat
    BY WantNatural DEF Keys!TopUp, KeysInv, Good, KeyMem
  <2> QED BY <2>1 DEF Keys!TopUp
<1>2. r \in Keys!ToppedUp(keyStore, keyRecords)
  BY <1>1 DEF Keys!ToppedUp
<1> HIDE DEF r
<1>3. Sound(keyStore, keyRecords, r)
  BY <1>1, <1>2, KeysFound, ToppedUpSound
<1> QED BY <1>1, <1>3, InstallMoves, NothingOwed, KeysMove DEF Running

LEMMA GetReservedKeyKeeps ==
    ASSUME KeysInv, NEW u \in Users, Keys!GetReservedKey(u)
    PROVE  KeysInv'
<1>1. /\ pc # "off" /\ handedOut' = handedOut
  BY DEF Keys!GetReservedKey
<1>2. PICK r \in Keys!ToppedUp(keyStore, keyRecords) :
        IF r.m.pool = {}
        THEN Keys!Install([r EXCEPT !.m.held[u] = [i |-> 0, k |-> keyStore.dflt]],
                          IF keyStore.dflt = 0 THEN "aborted" ELSE "idle")
        ELSE Keys!Install([r EXCEPT !.m = [Keys!Taken(r.m) EXCEPT
                             !.held[u] = [i |-> Keys!Oldest(r.m),
                                          k |-> IF Keys!Readable(r.m, r.d)
                                                THEN r.d.pool[Keys!Oldest(r.m)] ELSE 0]]], "idle")
  BY DEF Keys!GetReservedKey, Keys!NoIndex, Keys!NoKey
<1>3. Sound(keyStore, keyRecords, r) /\ next \in Nat \ {0}
  BY <1>1, KeysFound, ToppedUpSound
<1>4. MemShape(r.m) /\ Bounded(r.m.pool) /\ KeyDisk(r.d, next + r.n) /\ ResultShape(r)
      /\ Keys!Stored(keyRecords) \subseteq Keys!Stored(r.d)
  BY <1>3 DEF Sound, KeyMem, KeysOnly
<1>5. CASE r.m.pool = {}
  <2> DEFINE x == [i |-> 0, k |-> keyStore.dflt]
             t == [r EXCEPT !.m.held[u] = x]
             where == IF keyStore.dflt = 0 THEN "aborted" ELSE "idle"
  <2>1. Keys!Install(t, where)
    BY <1>2, <1>5
  <2>2. t.m = [r.m EXCEPT !.held = [r.m.held EXCEPT ![u] = x]] /\ t.n = r.n /\ t.d = r.d
        /\ ResultShape(t)
    <3>1. t = [m |-> [r.m EXCEPT !.held = [r.m.held EXCEPT ![u] = x]], d |-> r.d, n |-> r.n,
               f |-> r.f]
      BY <1>4 DEF ResultShape
    <3> HIDE DEF t
    <3> QED BY <3>1 DEF ResultShape
  <2>3. x.i \in Nat /\ x.k \in Keys!Stored(r.d) \cup {0}
    BY <1>1, <1>4 DEF KeysInv, Good, KeyMem
  <2>4. Running(where)
    BY DEF Running
  <2> HIDE DEF t, x, where
  <2>5. WithHeld(r.m, r.m.pool, u, x, t.m)
    BY <1>4, <2>2 DEF WithHeld, MemShape
  <2>6. Sound(keyStore, keyRecords, t)
    BY <1>3, <1>4, <2>2, <2>3, <2>5, HeldSound
  <2>7. Moves(t, where)
    BY <2>1, InstallMoves
  <2> QED BY <1>1, <2>4, <2>6, <2>7, NothingOwed, KeysMove
<1>6. CASE r.m.pool # {}
  <2> DEFINE o == Keys!Oldest(r.m)
             k == IF Keys!Readable(r.m, r.d) THEN r.d.pool[o] ELSE 0
             x == [i |-> o, k |-> k]
             S == r.m.pool \ {o}
             t == [r EXCEPT !.m = [Keys!Taken(r.m) EXCEPT !.held[u] = x]]
  <2>1. Keys!Install(t, "idle")
    BY <1>2, <1>6
  <2>2. Bounded(S)
    <3>1. S \subseteq r.m.pool
      OBVIOUS
    <3> HIDE DEF S
    <3> QED BY <1>4, <3>1, BoundedMore
  <2>3. x.i \in Nat /\ x.k \in Keys!Stored(r.d) \cup {0}
    <3>1. o \in Nat
      BY <1>4, <1>6, BoundedFacts DEF Keys!Oldest
    <3>2. k \in Keys!Stored(r.d) \cup {0}
      BY <1>4 DEF KeyDisk, Keys!Readable
    <3> QED BY <3>1, <3>2
  <2>4. Keys!Taken(r.m) = [r.m EXCEPT !.pool = S]
    BY DEF Keys!Taken
  <2> HIDE DEF x, S
  <2>5. t.m = [r.m EXCEPT !.pool = S, !.held = [r.m.held EXCEPT ![u] = x]] /\ t.n = r.n
        /\ t.d = r.d /\ ResultShape(t)
    <3>1. [Keys!Taken(r.m) EXCEPT !.held[u] = x]
            = [r.m EXCEPT !.pool = S, !.held = [r.m.held EXCEPT ![u] = x]]
      BY <1>4, <2>4 DEF MemShape
    <3>2. t = [m |-> [r.m EXCEPT !.pool = S, !.held = [r.m.held EXCEPT ![u] = x]], d |-> r.d,
               n |-> r.n, f |-> r.f]
      BY <1>4, <3>1 DEF ResultShape
    <3> HIDE DEF t
    <3> QED BY <3>2 DEF ResultShape
  <2> HIDE DEF t
  <2>6. WithHeld(r.m, S, u, x, t.m)
    BY <2>5 DEF WithHeld
  <2>7. Sound(keyStore, keyRecords, t)
    BY <1>3, <2>2, <2>3, <2>5, <2>6, HeldSound
  <2> QED BY <1>1, <2>1, <2>7, InstallMoves, NothingOwed, KeysMove DEF Running
<1> QED BY <1>5, <1>6

LEMMA GetReservedKeyAgainKeeps ==
    ASSUME KeysInv, NEW u \in Users, Keys!GetReservedKeyAgain(u)
    PROVE  KeysInv'
<1> DEFINE r == [m |-> keyStore, d |-> keyRecords, n |-> 0, f |-> 0]
<1>1. /\ pc # "off" /\ handedOut' = handedOut /\ pc' = "aborted"
      /\ keyStore' = keyStore /\ keyRecords' = keyRecords /\ next' = next
  BY DEF Keys!GetReservedKeyAgain
<1>2. Sound(keyStore, keyRecords, r) /\ next \in Nat
  BY <1>1, KeysFound
<1>3. Moves(r, "aborted")
  BY <1>1, <1>2 DEF Moves
<1> HIDE DEF r
<1> QED BY <1>1, <1>2, <1>3, NothingOwed, KeysMove DEF Running

LEMMA KeepKeyKeeps ==
    ASSUME KeysInv, NEW u \in Users, Keys!KeepKey(u)
    PROVE  KeysInv'
<1> DEFINE k == keyStore.held[u].k
           i == keyStore.held[u].i
           r == [m |-> keyStore, d |-> keyRecords, n |-> 0, f |-> 0]
           q == [m |-> keyStore, d |-> Keys!Kept(keyRecords, i), n |-> 0, f |-> 0]
           m == [keyStore EXCEPT !.held[u] = Keys!NoReserve]
           t1 == [m |-> m, d |-> Keys!Kept(keyRecords, i), n |-> 0, f |-> 0]
           t2 == [m |-> m, d |-> keyRecords, n |-> 0, f |-> 1]
<1>1. /\ pc # "off" /\ k # 0 /\ handedOut' = [handedOut EXCEPT !.owed = @ \cup {k}]
      /\ Keys!Install(t1, "idle") \/ Keys!Install(t2, "idle")
  BY DEF Keys!KeepKey, Keys!NoKey, Keys!Same, Keys!Result, Keys!Failing
<1>2. /\ next \in Nat \ {0} /\ Sound(keyStore, keyRecords, r) /\ MemShape(keyStore)
      /\ Bounded(keyStore.pool) /\ k \in Keys!Stored(keyRecords)
  BY <1>1, KeysFound DEF KeyMem
<1>3. Sound(keyStore, keyRecords, q) /\ Keys!Stored(q.d) = Keys!Stored(keyRecords)
  <2>1. WithKeys(keyStore, keyStore.pool, keyStore.keys, keyStore)
    BY <1>2 DEF WithKeys
  <2>2. Erased(keyRecords, {i}, q.d)
    BY DEF Erased, Keys!Kept
  <2>3. ResultShape(q) /\ q.n = r.n /\ q.m = keyStore /\ r.m = keyStore /\ r.d = keyRecords
    BY DEF ResultShape
  <2> HIDE DEF q, r
  <2>4. Shrunk(r, keyStore.pool, q)
    BY <2>1, <2>2, <2>3 DEF Shrunk
  <2> QED BY <1>2, <2>3, <2>4, ShrinkSound
<1>4. WithHeld(keyStore, keyStore.pool, u, Keys!NoReserve, m)
  BY <1>2 DEF WithHeld, MemShape
<1>5. /\ ResultShape(t1) /\ t1.n = q.n /\ t1.d = q.d /\ q.m = keyStore /\ t1.m = m
      /\ ResultShape(t2) /\ t2.n = r.n /\ t2.d = r.d /\ r.m = keyStore /\ t2.m = m
      /\ r.d = keyRecords /\ Keys!NoReserve.k = 0 /\ Keys!NoReserve.i = 0
  BY DEF ResultShape, Keys!NoReserve, Keys!NoKey, Keys!NoIndex
<1>6. OwedMore({k})
  BY <1>1, OwedNow
<1> HIDE DEF q, r, t1, t2, m, k
<1>7. CASE Keys!Install(t1, "idle")
  <2>1. Sound(keyStore, keyRecords, t1)
    BY <1>2, <1>3, <1>4, <1>5, HeldSound
  <2>2. {k} \subseteq Keys!Stored(t1.d)
    BY <1>2, <1>3, <1>5
  <2> QED BY <1>1, <1>6, <1>7, <2>1, <2>2, InstallMoves, KeysMove DEF Running
<1>8. CASE Keys!Install(t2, "idle")
  <2>1. Sound(keyStore, keyRecords, t2)
    BY <1>2, <1>4, <1>5, HeldSound
  <2>2. {k} \subseteq Keys!Stored(t2.d)
    BY <1>2, <1>5
  <2> QED BY <1>1, <1>6, <1>8, <2>1, <2>2, InstallMoves, KeysMove DEF Running
<1> QED BY <1>1, <1>7, <1>8

LEMMA ReturnKeyKeeps ==
    ASSUME KeysInv, NEW u \in Users, Keys!ReturnKey(u)
    PROVE  KeysInv'
<1> DEFINE i == keyStore.held[u].i
           S == IF i = 0 THEN keyStore.pool ELSE keyStore.pool \cup {i}
           r == [m |-> keyStore, d |-> keyRecords, n |-> 0, f |-> 0]
           g == [keyStore EXCEPT !.pool = S, !.held = [keyStore.held EXCEPT ![u] = Keys!NoReserve]]
           t == [m |-> g, d |-> keyRecords, n |-> 0, f |-> 0]
<1>1. /\ pc # "off" /\ pc' = pc /\ handedOut' = handedOut /\ keyRecords' = keyRecords
      /\ next' = next /\ pc = "idle"
  BY DEF Keys!ReturnKey
<1>2. /\ next \in Nat \ {0} /\ Sound(keyStore, keyRecords, r) /\ MemShape(keyStore)
      /\ Bounded(keyStore.pool) /\ i \in Nat
  BY <1>1, KeysFound DEF KeyMem
<1>3. keyStore' = g
  <2>1. keyStore' = [keyStore EXCEPT !.held[u] = Keys!NoReserve, !.pool = S]
    BY DEF Keys!ReturnKey, Keys!NoIndex
  <2> HIDE DEF S
  <2> QED BY <1>2, <2>1 DEF MemShape
<1>4. Bounded(S)
  <2>1. {i} \subseteq 0 .. i
    BY <1>2
  <2>2. Bounded({i})
    BY <1>2, <2>1 DEF Bounded
  <2> HIDE DEF i
  <2> QED BY <1>2, <2>2, BoundedMore
<1>5. WithHeld(keyStore, S, u, Keys!NoReserve, g)
  BY DEF WithHeld
<1>6. /\ ResultShape(t) /\ t.n = r.n /\ t.d = r.d /\ r.m = keyStore /\ t.m = g
      /\ r.d = keyRecords /\ Keys!NoReserve.k = 0 /\ Keys!NoReserve.i = 0
  BY DEF ResultShape, Keys!NoReserve, Keys!NoKey, Keys!NoIndex
<1>7. Moves(t, "idle")
  BY <1>1, <1>2, <1>3 DEF Moves
<1> HIDE DEF r, t, g, S, i
<1>8. Sound(keyStore, keyRecords, t)
  BY <1>2, <1>4, <1>5, <1>6, HeldSound
<1> QED BY <1>1, <1>7, <1>8, NothingOwed, KeysMove DEF Running

LEMMA GetNewAddressKeeps ==
    ASSUME KeysInv, NEW reuse \in BOOLEAN, Keys!GetNewAddress(reuse)
    PROVE  KeysInv'
<1>1. pc # "off"
  BY DEF Keys!GetNewAddress
<1>2. PICK g \in Keys!GetKeyFromPool(keyStore, keyRecords, reuse) :
        /\ Keys!Install(g.r, "idle")
        /\ handedOut' = [handedOut EXCEPT !.owed = @ \cup ({g.k} \ {0})]
  BY DEF Keys!GetNewAddress, Keys!NoKey
<1>3. Sound(keyStore, keyRecords, g.r) /\ g.k \in Keys!Stored(g.r.d) \cup {0}
  BY <1>1, KeysFound, KeyFromPoolSound
<1>4. OwedMore({g.k} \ {0})
  BY <1>2, OwedNow
<1>5. {g.k} \ {0} \subseteq Keys!Stored(g.r.d)
  BY <1>3
<1> QED BY <1>1, <1>2, <1>3, <1>4, <1>5, InstallMoves, KeysMove DEF Running

LEMMA WithDefaultFact ==
    ASSUME NEW r, ResultShape(r), NEW k, NEW t, t = [r EXCEPT !.m.dflt = k, !.d.dflt = k]
    PROVE  WithDefault(r, k, t)
<1>1. ASSUME NEW m, NEW d, NEW n, NEW f, r = [m |-> m, d |-> d, n |-> n, f |-> f]
      PROVE  t = [m |-> [m EXCEPT !.dflt = k], d |-> [d EXCEPT !.dflt = k], n |-> n, f |-> f]
  BY <1>1
<1>2. r = [m |-> r.m, d |-> r.d, n |-> r.n, f |-> r.f]
  BY DEF ResultShape
<1>3. t = [m |-> [r.m EXCEPT !.dflt = k], d |-> [r.d EXCEPT !.dflt = k], n |-> r.n, f |-> r.f]
  BY <1>1, <1>2
<1> QED BY <1>3 DEF WithDefault

(* A key of the pool becomes the default key, or its record fails. *)
LEMMA DefaultTaken ==
    ASSUME KeysInv, pc # "off", NEW g \in Keys!GetKeyFromPool(keyStore, keyRecords, FALSE),
           \/ /\ Keys!Install(g.r, "idle") \/ Keys!Install(Keys!Failing(g.r), "idle")
              /\ handedOut' = handedOut
           \/ /\ Keys!Install([g.r EXCEPT !.m.dflt = g.k, !.d.dflt = g.k], "idle")
              /\ handedOut' = [handedOut EXCEPT !.owed = @ \cup ({g.k} \ {0})]
    PROVE  KeysInv'
<1>1. /\ Sound(keyStore, keyRecords, g.r) /\ g.k \in Keys!Stored(g.r.d) \cup {0}
      /\ next \in Nat \ {0}
  BY KeysFound, KeyFromPoolSound
<1>2. ResultShape(g.r)
  BY <1>1 DEF Sound
<1>3. CASE Keys!Install(g.r, "idle") /\ handedOut' = handedOut
  BY <1>1, <1>3, InstallMoves, NothingOwed, KeysMove DEF Running
<1>4. CASE Keys!Install(Keys!Failing(g.r), "idle") /\ handedOut' = handedOut
  <2> DEFINE t == Keys!Failing(g.r)
  <2>1. t.m = g.r.m /\ t.d = g.r.d /\ t.n = g.r.n /\ ResultShape(t)
    <3>1. t = [m |-> g.r.m, d |-> g.r.d, n |-> g.r.n, f |-> 1]
      BY <1>2 DEF Keys!Failing, ResultShape
    <3> HIDE DEF t
    <3> QED BY <3>1 DEF ResultShape
  <2>2. Keys!Install(t, "idle")
    BY <1>4
  <2> HIDE DEF t
  <2>3. Sound(keyStore, keyRecords, t)
    BY <1>1, <2>1 DEF Sound
  <2> QED BY <1>4, <2>2, <2>3, InstallMoves, NothingOwed, KeysMove DEF Running
<1>5. CASE /\ Keys!Install([g.r EXCEPT !.m.dflt = g.k, !.d.dflt = g.k], "idle")
           /\ handedOut' = [handedOut EXCEPT !.owed = @ \cup ({g.k} \ {0})]
  <2> DEFINE t == [g.r EXCEPT !.m.dflt = g.k, !.d.dflt = g.k]
  <2>1. WithDefault(g.r, g.k, t)
    BY <1>2, WithDefaultFact
  <2>2. Keys!Install(t, "idle")
    BY <1>5
  <2> HIDE DEF t
  <2>3. Sound(keyStore, keyRecords, t) /\ Keys!Stored(t.d) = Keys!Stored(g.r.d)
    BY <1>1, <2>1, DefaultSound
  <2>4. OwedMore({g.k} \ {0}) /\ {g.k} \ {0} \subseteq Keys!Stored(t.d)
    BY <1>1, <1>5, <2>3, OwedNow
  <2> QED BY <2>2, <2>3, <2>4, InstallMoves, KeysMove DEF Running
<1> QED BY <1>3, <1>4, <1>5

LEMMA ReplaceDefaultKeyKeeps ==
    ASSUME KeysInv, Keys!ReplaceDefaultKey
    PROVE  KeysInv'
<1>1. pc # "off"
  BY DEF Keys!ReplaceDefaultKey
<1>2. PICK g \in Keys!GetKeyFromPool(keyStore, keyRecords, FALSE), saved \in BOOLEAN :
        IF g.k = 0 \/ ~saved
        THEN Keys!Install(IF saved THEN g.r ELSE Keys!Failing(g.r), "idle") /\ handedOut' = handedOut
        ELSE /\ Keys!Install([g.r EXCEPT !.m.dflt = g.k, !.d.dflt = g.k], "idle")
             /\ handedOut' = [handedOut EXCEPT !.owed = @ \cup {g.k}]
  BY DEF Keys!ReplaceDefaultKey, Keys!NoKey
<1>3. CASE g.k = 0 \/ ~saved
  <2>1. Keys!Install(IF saved THEN g.r ELSE Keys!Failing(g.r), "idle") /\ handedOut' = handedOut
    BY <1>2, <1>3
  <2>2. Keys!Install(g.r, "idle") \/ Keys!Install(Keys!Failing(g.r), "idle")
    BY <2>1
  <2> QED BY <1>1, <2>1, <2>2, DefaultTaken
<1>4. CASE ~(g.k = 0 \/ ~saved)
  <2>1. {g.k} \ {0} = {g.k}
    BY <1>4
  <2>2. /\ Keys!Install([g.r EXCEPT !.m.dflt = g.k, !.d.dflt = g.k], "idle")
        /\ handedOut' = [handedOut EXCEPT !.owed = @ \cup ({g.k} \ {0})]
    BY <1>2, <1>4, <2>1
  <2> QED BY <1>1, <2>2, DefaultTaken
<1> QED BY <1>3, <1>4

LEMMA FirstRunKeeps ==
    ASSUME KeysInv, Keys!FirstRun
    PROVE  KeysInv'
<1>1. pc # "off"
  BY DEF Keys!FirstRun
<1>2. CASE Keys!Install(Keys!Same(keyStore, keyRecords), "idle") /\ handedOut' = handedOut
  <2>1. Sound(keyStore, keyRecords, Keys!Same(keyStore, keyRecords))
    BY <1>1, KeysFound DEF Keys!Same, Keys!Result
  <2> QED BY <1>1, <1>2, <2>1, InstallMoves, NothingOwed, KeysMove DEF Running
<1>3. ASSUME NEW g \in Keys!GetKeyFromPool(keyStore, keyRecords, FALSE), NEW saved \in BOOLEAN,
             Keys!Install(IF saved THEN [g.r EXCEPT !.m.dflt = g.k, !.d.dflt = g.k]
                          ELSE Keys!Failing(g.r), "idle"),
             handedOut' = [handedOut EXCEPT !.owed = @ \cup (IF saved THEN {g.k} \ {0} ELSE {})]
      PROVE  KeysInv'
  <2>1. CASE saved
    <3>1. /\ Keys!Install([g.r EXCEPT !.m.dflt = g.k, !.d.dflt = g.k], "idle")
          /\ handedOut' = [handedOut EXCEPT !.owed = @ \cup ({g.k} \ {0})]
      BY <1>3, <2>1
    <3> QED BY <1>1, <3>1, DefaultTaken
  <2>2. CASE ~saved
    <3>1. Keys!Install(Keys!Failing(g.r), "idle")
      BY <1>3, <2>2
    <3>2. handedOut' = [handedOut EXCEPT !.owed = @ \cup {}]
      BY <1>3, <2>2
    <3>3. handedOut' = handedOut
      BY <3>2 DEF KeysInv, Handed
    <3> QED BY <1>1, <3>1, <3>3, DefaultTaken
  <2> QED BY <2>1, <2>2
<1> QED BY <1>2, <1>3 DEF Keys!FirstRun, Keys!NoKey

LEMMA KeyPoolRefillKeeps ==
    ASSUME KeysInv, Keys!KeyPoolRefill
    PROVE  KeysInv'
<1>1. /\ pc # "off" /\ handedOut' = handedOut
      /\ Keys!Install(Keys!ErasedPool(keyStore, keyRecords), "refill")
  BY DEF Keys!KeyPoolRefill
<1>2. Sound(keyStore, keyRecords, Keys!ErasedPool(keyStore, keyRecords))
  BY <1>1, KeysFound, ErasedSound
<1> QED BY <1>1, <1>2, InstallMoves, NothingOwed, KeysMove DEF Running

LEMMA RefillKeeps ==
    ASSUME KeysInv, Keys!Refill
    PROVE  KeysInv'
<1>1. /\ pc # "off" /\ handedOut' = handedOut
      /\ \/ Keys!Install(Keys!Refilled(keyStore, keyRecords, 1, RefillSize), "topup")
         \/ Keys!Install(Keys!Failing(Keys!Same(keyStore, keyRecords)), "topup")
  BY DEF Keys!Refill
<1>2. Sound(keyStore, keyRecords, Keys!Refilled(keyStore, keyRecords, 1, RefillSize))
  <2>1. RefillSize \in Nat /\ 1 \in Nat
    BY WalletAssumption DEF Keys!KeysAssumption
  <2> QED BY <1>1, <2>1, KeysFound, RefilledSound
<1>3. Sound(keyStore, keyRecords, Keys!Failing(Keys!Same(keyStore, keyRecords)))
  BY <1>1, KeysFound DEF Keys!Same, Keys!Result, Keys!Failing
<1> QED BY <1>1, <1>2, <1>3, InstallMoves, NothingOwed, KeysMove DEF Running

LEMMA RefillTopUpKeeps ==
    ASSUME KeysInv, Keys!RefillTopUp
    PROVE  KeysInv'
<1>1. pc # "off" /\ handedOut' = handedOut
  BY DEF Keys!RefillTopUp
<1>2. PICK r \in Keys!ToppedUp(keyStore, keyRecords) \cup {Keys!Same(keyStore, keyRecords)} :
        Keys!Install(r, "idle")
  BY DEF Keys!RefillTopUp
<1>3. Sound(keyStore, keyRecords, Keys!Same(keyStore, keyRecords))
  BY <1>1, KeysFound DEF Keys!Same, Keys!Result
<1>4. Sound(keyStore, keyRecords, r)
  BY <1>1, <1>2, <1>3, KeysFound, ToppedUpSound
<1> QED BY <1>1, <1>2, <1>4, InstallMoves, NothingOwed, KeysMove DEF Running

LEMMA ImportPrivKeyKeeps ==
    ASSUME KeysInv, Keys!ImportPrivKey
    PROVE  KeysInv'
<1>1. pc # "off"
  BY DEF Keys!ImportPrivKey
<1> DEFINE a == Keys!AddKey(keyStore, keyRecords)
           q == [a.done EXCEPT !.f = 0]
<1>2. a.done = q
  BY DEF Keys!AddKey, Keys!Result
<1>3. Sound(keyStore, keyRecords, q) /\ next \in Keys!Stored(q.d)
  <2>1. q \in {[Keys!AddKey(keyStore, keyRecords).done EXCEPT !.f = 0],
               Keys!AddKey(keyStore, keyRecords).failed}
    OBVIOUS
  <2> QED BY <1>1, <2>1, KeysFound, AddKeySound
<1>4. Sound(keyStore, keyRecords, a.failed)
  <2>1. a.failed \in {[Keys!AddKey(keyStore, keyRecords).done EXCEPT !.f = 0],
                      Keys!AddKey(keyStore, keyRecords).failed}
    OBVIOUS
  <2> QED BY <1>1, <2>1, KeysFound, AddKeySound
<1>5. \/ Keys!Install(q, "idle") /\ handedOut' = [handedOut EXCEPT !.owed = @ \cup {next}]
      \/ Keys!Install(a.failed, "idle") /\ handedOut' = handedOut
  BY <1>2 DEF Keys!ImportPrivKey
<1> HIDE DEF q, a
<1>6. CASE Keys!Install(q, "idle") /\ handedOut' = [handedOut EXCEPT !.owed = @ \cup {next}]
  <2>1. OwedMore({next}) /\ {next} \subseteq Keys!Stored(q.d)
    BY <1>3, <1>6, OwedNow
  <2> QED BY <1>1, <1>3, <1>6, <2>1, InstallMoves, KeysMove DEF Running
<1>7. CASE Keys!Install(a.failed, "idle") /\ handedOut' = handedOut
  BY <1>1, <1>4, <1>7, InstallMoves, NothingOwed, KeysMove DEF Running
<1> QED BY <1>5, <1>6, <1>7

-----------------------------------------------------------------------------
(* The hybrid keys *)

(* A result, and what was handed out when it is installed. *)
Fine(r, h) ==
    /\ ResultShape(r) /\ r.n \in Nat
    /\ Good(r.m, r.d, next + r.n) /\ Handed(h, r.d) /\ Offered(r.m, h)

LEMMA FineMove ==
    ASSUME next \in Nat \ {0}, NEW r, Fine(r, handedOut'), NEW where, where # "off",
           Moves(r, where),
           where \in {"encrypted", "encrefill"} => r.m.crypted /\ r.d.hybClear = {}
    PROVE  KeysInv'
<1>1. pc' = where /\ keyStore' = r.m /\ keyRecords' = r.d /\ next' = next + r.n
  BY DEF Moves
<1>2. next' \in Nat \ {0}
  BY <1>1 DEF Fine
<1>3. Good(keyStore', keyRecords', next') /\ Offered(keyStore', handedOut')
  BY <1>1 DEF Fine
<1>4. KeyDisk(keyRecords', next') /\ HybridDisk(keyRecords') /\ Handed(handedOut', keyRecords')
  BY <1>1, <1>3 DEF Fine, Good
<1>5. pc' # "off"
      /\ (pc' \in {"encrypted", "encrefill"} => keyStore'.crypted /\ keyRecords'.hybClear = {})
  BY <1>1
<1> QED BY <1>2, <1>3, <1>4, <1>5 DEF KeysInv

LEMMA FineFound ==
    ASSUME KeysInv, pc # "off"
    PROVE  /\ next \in Nat \ {0} /\ Good(keyStore, keyRecords, next)
           /\ Handed(handedOut, keyRecords) /\ Offered(keyStore, handedOut)
           /\ \A f : Fine([m |-> keyStore, d |-> keyRecords, n |-> 0, f |-> f], handedOut)
<1>1. /\ next \in Nat \ {0} /\ Good(keyStore, keyRecords, next)
      /\ Handed(handedOut, keyRecords) /\ Offered(keyStore, handedOut)
  BY DEF KeysInv
<1>2. ASSUME NEW f, NEW t, t = [m |-> keyStore, d |-> keyRecords, n |-> 0, f |-> f]
      PROVE  Fine(t, handedOut)
  <2>1. t.m = keyStore /\ t.d = keyRecords /\ t.n = 0 /\ ResultShape(t) /\ next + t.n = next
    BY <1>1, <1>2 DEF ResultShape
  <2> QED BY <1>1, <2>1 DEF Fine
<1> QED BY <1>1, <1>2

(* New labels, in memory and on disk. *)
Relabelled(m, g) == \E X : g = [m EXCEPT !.book = X]
Labelled(d, e) == \E Y : d.book \subseteq Y /\ e = [d EXCEPT !.book = Y]

LEMMA LabelledFine ==
    ASSUME NEW r, NEW h, Fine(r, h), NEW t, ResultShape(t), t.n = r.n,
           Relabelled(r.m, t.m), Labelled(r.d, t.d)
    PROVE  Fine(t, h)
<1>1. /\ KeyDisk(r.d, next + r.n) /\ HybridDisk(r.d) /\ KeyMem(r.m, r.d, next + r.n)
      /\ HybridMem(r.m, r.d) /\ IndexMem(r.m) /\ Handed(h, r.d) /\ Offered(r.m, h)
  BY DEF Fine, Good
<1>2. PICK X : t.m = [r.m EXCEPT !.book = X]
  BY DEF Relabelled
<1>3. PICK Y : r.d.book \subseteq Y /\ t.d = [r.d EXCEPT !.book = Y]
  BY DEF Labelled
<1>4. t.m = [crypted |-> r.m.crypted, unlocked |-> r.m.unlocked, keys |-> r.m.keys,
             mkeys |-> r.m.mkeys, decoys |-> r.m.decoys, pool |-> r.m.pool, held |-> r.m.held,
             dflt |-> r.m.dflt, hyb |-> r.m.hyb, rest |-> r.m.rest, unused |-> r.m.unused,
             used |-> r.m.used, book |-> X, index |-> r.m.index]
  BY <1>1, <1>2 DEF KeyMem, MemShape
<1>5. t.d = [clear |-> r.d.clear, crypt |-> r.d.crypt, pass |-> r.d.pass, pool |-> r.d.pool,
             dflt |-> r.d.dflt, hybClear |-> r.d.hybClear, hybCrypt |-> r.d.hybCrypt,
             used |-> r.d.used, book |-> Y, paid |-> r.d.paid]
  BY <1>1, <1>3 DEF KeyDisk, DiskShape
<1>6. /\ MemShape(t.m) /\ t.m.dflt = r.m.dflt /\ t.m.pool = r.m.pool /\ t.m.keys = r.m.keys
      /\ t.m.crypted = r.m.crypted /\ t.m.unlocked = r.m.unlocked /\ t.m.held = r.m.held
      /\ t.m.hyb = r.m.hyb /\ t.m.rest = r.m.rest /\ t.m.unused = r.m.unused
      /\ t.m.used = r.m.used /\ t.m.index = r.m.index
  BY <1>4 DEF MemShape
<1>7. /\ DiskShape(t.d) /\ t.d.clear = r.d.clear /\ t.d.crypt = r.d.crypt /\ t.d.pass = r.d.pass
      /\ t.d.pool = r.d.pool /\ t.d.dflt = r.d.dflt /\ t.d.hybClear = r.d.hybClear
      /\ t.d.hybCrypt = r.d.hybCrypt /\ t.d.used = r.d.used /\ t.d.book = Y
      /\ t.d.paid = r.d.paid
  BY <1>5 DEF DiskShape
<1>8. /\ Keys!Stored(t.d) = Keys!Stored(r.d) /\ Keys!HybridStored(t.d) = Keys!HybridStored(r.d)
      /\ Keys!BackfillHybridUsedKeys(r.d) \subseteq Keys!BackfillHybridUsedKeys(t.d)
  BY <1>3, <1>7 DEF Keys!Stored, Keys!HybridStored, Keys!BackfillHybridUsedKeys
<1>9. KeyDisk(t.d, next + r.n)
  BY <1>1, <1>7, <1>8 DEF KeyDisk
<1>10. KeyMem(t.m, t.d, next + r.n)
  BY <1>1, <1>6, <1>7, <1>8 DEF KeyMem, FormKept
<1>11. HybridDisk(t.d)
  BY <1>1, <1>7, <1>8 DEF HybridDisk
<1>12. HybridMem(t.m, t.d)
  BY <1>1, <1>6, <1>7, <1>8 DEF HybridMem
<1>13. IndexMem(t.m)
  BY <1>1, <1>6 DEF IndexMem
<1>14. Handed(h, t.d)
  BY <1>1, <1>8 DEF Handed
<1>15. Offered(t.m, h)
  BY <1>1, <1>6 DEF Offered
<1> QED BY <1>9, <1>10, <1>11, <1>12, <1>13, <1>14, <1>15 DEF Fine, Good

(* New hybrid keys, both halves in the form the wallet has. *)
GrownMem(m, ks, g) ==
    /\ MemShape(g) /\ g.keys = m.keys \cup ks
    /\ g.hyb = m.hyb \cup ks
    /\ g.unused = m.unused \/ g.unused = m.unused \cup ks
    /\ m.crypted => g.rest = m.rest \cup ks
    /\ ~m.crypted => g.rest = m.rest
    /\ g.crypted = m.crypted /\ g.unlocked = m.unlocked /\ g.pool = m.pool /\ g.held = m.held
    /\ g.dflt = m.dflt /\ g.used = m.used /\ g.index = m.index
GrownDisk(m, d, ks, e) ==
    /\ DiskShape(e)
    /\ m.crypted => /\ e.crypt = d.crypt \cup ks /\ e.clear = d.clear \ ks
                    /\ e.hybCrypt = d.hybCrypt \cup ks /\ e.hybClear = d.hybClear \ ks
    /\ ~m.crypted => /\ e.clear = d.clear \cup ks /\ e.crypt = d.crypt
                     /\ e.hybClear = d.hybClear \cup ks /\ e.hybCrypt = d.hybCrypt \ ks
    /\ e.pass = d.pass /\ e.pool = d.pool /\ e.dflt = d.dflt
    /\ e.used = d.used /\ e.book = d.book /\ e.paid = d.paid

LEMMA StageHybridFacts ==
    ASSUME NEW m, NEW d, DiskShape(d), NEW ks, NEW e, e = Keys!StageHybridKey(m, d, ks)
    PROVE  GrownDisk(m, d, ks, e)
<1> DEFINE s == Keys!StageKeyRecord(m, d, ks)
<1>1. Staged(m, d, ks, s)
  BY StageFacts
<1>2. e = Keys!WriteHybridKey(s, ks, m.crypted)
  BY DEF Keys!StageHybridKey
<1> HIDE DEF s
<1>3. CASE m.crypted
  <2>1. e = [s EXCEPT !.hybCrypt = s.hybCrypt \cup ks, !.hybClear = s.hybClear \ ks]
    BY <1>2, <1>3 DEF Keys!WriteHybridKey
  <2>2. e = [clear |-> s.clear, crypt |-> s.crypt, pass |-> s.pass, pool |-> s.pool,
             dflt |-> s.dflt, hybClear |-> s.hybClear \ ks, hybCrypt |-> s.hybCrypt \cup ks,
             used |-> s.used, book |-> s.book, paid |-> s.paid]
    BY <1>1, <2>1 DEF Staged, DiskShape
  <2> QED BY <1>1, <1>3, <2>2 DEF GrownDisk, Staged, DiskShape
<1>4. CASE ~m.crypted
  <2>1. e = [s EXCEPT !.hybClear = s.hybClear \cup ks, !.hybCrypt = s.hybCrypt \ ks]
    BY <1>2, <1>4 DEF Keys!WriteHybridKey
  <2>2. e = [clear |-> s.clear, crypt |-> s.crypt, pass |-> s.pass, pool |-> s.pool,
             dflt |-> s.dflt, hybClear |-> s.hybClear \cup ks, hybCrypt |-> s.hybCrypt \ ks,
             used |-> s.used, book |-> s.book, paid |-> s.paid]
    BY <1>1, <2>1 DEF Staged, DiskShape
  <2> QED BY <1>1, <1>4, <2>2 DEF GrownDisk, Staged, DiskShape
<1> QED BY <1>3, <1>4

LEMMA GrownFine ==
    ASSUME next \in Nat \ {0}, NEW m, NEW d, Good(m, d, next), ~Keys!IsLocked(m), NEW h,
           Handed(h, d), Offered(m, h), NEW n \in Nat, NEW r, ResultShape(r), r.n = n,
           GrownMem(m, Keys!Fresh(n), r.m), GrownDisk(m, d, Keys!Fresh(n), r.d)
    PROVE  Fine(r, h) /\ Keys!Stored(r.d) = Keys!Stored(d) \cup Keys!Fresh(n)
<1> DEFINE ks == Keys!Fresh(n)
           e == r.d
           g == r.m
<1>1. /\ KeyDisk(d, next) /\ HybridDisk(d) /\ KeyMem(m, d, next)
      /\ HybridMem(m, d) /\ IndexMem(m)
  BY DEF Good
<1>2. /\ ks \subseteq Numbers(next + n) /\ ks \cap Numbers(next) = {}
      /\ Numbers(next) \subseteq Numbers(next + n)
  BY FreshNumbers DEF Numbers
<1>3. GrownMem(m, ks, g) /\ GrownDisk(m, d, ks, e)
  OBVIOUS
<1> HIDE DEF ks, e, g
<1>4. FormKept(m, d)
  BY <1>1 DEF KeyMem
<1>5. /\ Keys!Stored(e) = Keys!Stored(d) \cup ks
      /\ m.crypted => e.clear = {} /\ e.pass # "none"
      /\ ~m.crypted => e.crypt = {}
  BY <1>3, <1>4 DEF Keys!Stored, GrownDisk, FormKept
<1>6. Keys!HybridStored(e) = Keys!HybridStored(d) \cup ks
      /\ Keys!HybridStored(d) \subseteq Keys!Stored(d) /\ d.hybCrypt \subseteq d.crypt
  BY <1>1, <1>3, <1>4 DEF Keys!HybridStored, GrownDisk, FormKept, HybridDisk
<1>7. KeyDisk(e, next + n)
  BY <1>1, <1>2, <1>3, <1>5 DEF KeyDisk, GrownDisk
<1>8. HybridDisk(e)
  BY <1>3, <1>5, <1>6 DEF HybridDisk, GrownDisk
<1>9. KeyMem(g, e, next + n)
  <2>1. FormKept(g, e)
    BY <1>3, <1>5 DEF FormKept, GrownMem
  <2> QED BY <1>1, <1>2, <1>3, <1>5, <2>1 DEF KeyMem, GrownMem
<1>10. HybridMem(g, e)
  <2>1. m.hyb \subseteq Keys!HybridStored(d) /\ m.unused \subseteq Keys!HybridStored(d)
    BY <1>1 DEF HybridMem
  <2>2. g.hyb \subseteq Keys!HybridStored(e) /\ g.unused \subseteq Keys!HybridStored(e)
    BY <1>3, <1>6, <2>1 DEF GrownMem
  <2>3. CASE m.crypted
    <3>1. m.unlocked /\ d.hybClear = {} /\ m.rest = Keys!HybridStored(d)
      BY <1>1, <2>3 DEF HybridMem, Keys!IsLocked
    <3>2. e.hybClear = {} /\ g.rest = Keys!HybridStored(e) /\ g.crypted /\ g.unlocked
      BY <1>3, <1>6, <2>3, <3>1 DEF GrownMem, GrownDisk
    <3> QED BY <2>2, <3>2 DEF HybridMem
  <2>4. CASE ~m.crypted
    <3>1. m.rest = {} /\ m.hyb = Keys!HybridStored(d)
      BY <1>1, <2>4 DEF HybridMem
    <3>2. ~g.crypted /\ g.rest = {} /\ g.hyb = Keys!HybridStored(e)
      BY <1>3, <1>6, <2>4, <3>1 DEF GrownMem
    <3> QED BY <2>2, <3>2 DEF HybridMem
  <2> QED BY <2>3, <2>4
<1>11. IndexMem(g)
  <2>1. m.hyb \subseteq g.hyb /\ m.rest \subseteq g.rest /\ g.index = m.index
    BY <1>3 DEF GrownMem
  <2> QED BY <1>1, <2>1 DEF IndexMem
<1>12. Handed(h, e)
  <2>1. Keys!BackfillHybridUsedKeys(d) \subseteq Keys!BackfillHybridUsedKeys(e)
    BY <1>3, <1>6 DEF Keys!BackfillHybridUsedKeys, GrownDisk
  <2> QED BY <1>5, <1>6, <2>1 DEF Handed
<1>13. Offered(g, h)
  <2>1. h.issued \subseteq Numbers(next)
    BY <1>1, <1>6 DEF Handed, KeyDisk
  <2> QED BY <1>2, <1>3, <2>1 DEF Offered, GrownMem
<1> QED BY <1>5, <1>7, <1>8, <1>9, <1>10, <1>11, <1>12, <1>13 DEF Fine, Good, e, g, ks

LEMMA GrownMemFact ==
    ASSUME NEW m, MemShape(m), NEW ks, NEW g,
           \/ g = Keys!AddHybridToMemory(m, ks)
           \/ g = [Keys!AddHybridToMemory(m, ks) EXCEPT !.unused = @ \cup ks]
    PROVE  GrownMem(m, ks, g)
<1> DEFINE rest == IF m.crypted THEN m.rest \cup ks ELSE m.rest
           a == Keys!AddHybridToMemory(m, ks)
<1>1. a = [m EXCEPT !.keys = m.keys \cup ks, !.hyb = m.hyb \cup ks, !.rest = rest]
  BY DEF Keys!AddHybridToMemory
<1> HIDE DEF a
<1>2. m.crypted => rest = m.rest \cup ks
  OBVIOUS
<1>3. ~m.crypted => rest = m.rest
  OBVIOUS
<1> HIDE DEF rest
<1>4. a = [crypted |-> m.crypted, unlocked |-> m.unlocked, keys |-> m.keys \cup ks,
           mkeys |-> m.mkeys, decoys |-> m.decoys, pool |-> m.pool, held |-> m.held,
           dflt |-> m.dflt, hyb |-> m.hyb \cup ks, rest |-> rest, unused |-> m.unused,
           used |-> m.used, book |-> m.book, index |-> m.index]
  BY <1>1 DEF MemShape
<1>5. GrownMem(m, ks, a)
  BY <1>2, <1>3, <1>4 DEF GrownMem, MemShape
<1>6. ASSUME NEW b, b = [a EXCEPT !.unused = a.unused \cup ks] PROVE GrownMem(m, ks, b)
  <2>1. b = [crypted |-> m.crypted, unlocked |-> m.unlocked, keys |-> m.keys \cup ks,
             mkeys |-> m.mkeys, decoys |-> m.decoys, pool |-> m.pool, held |-> m.held,
             dflt |-> m.dflt, hyb |-> m.hyb \cup ks, rest |-> rest,
             unused |-> m.unused \cup ks, used |-> m.used, book |-> m.book,
             index |-> m.index]
    BY <1>4, <1>6
  <2> QED BY <1>2, <1>3, <2>1 DEF GrownMem, MemShape
<1>7. g = a \/ g = [a EXCEPT !.unused = a.unused \cup ks]
  BY DEF a
<1> QED BY <1>5, <1>6, <1>7

LEMMA EnsureFine ==
    ASSUME next \in Nat \ {0}, NEW m, NEW d, Good(m, d, next), NEW h, Handed(h, d),
           Offered(m, h), NEW target \in Nat, NEW r, r = Keys!EnsureHybridKeyPool(m, d, target)
    PROVE  Fine(r, h)
<1> DEFINE n == target - Keys!Cardinality(m.hyb)
<1>1. CASE r = Keys!Same(m, d)
  <2>1. r = [m |-> m, d |-> d, n |-> 0, f |-> 0]
    BY <1>1 DEF Keys!Same, Keys!Result
  <2>2. r.m = m /\ r.d = d /\ r.n = 0 /\ ResultShape(r) /\ next + r.n = next
    BY <2>1 DEF ResultShape
  <2> QED BY <2>2 DEF Fine
<1>2. CASE /\ ~(target <= Keys!Cardinality(m.hyb)) /\ ~Keys!IsLocked(m)
           /\ r = Keys!Result([Keys!AddHybridToMemory(m, Keys!Fresh(n)) EXCEPT
                                  !.unused = @ \cup Keys!Fresh(n)],
                              Keys!StageHybridKey(m, d, Keys!Fresh(n)), n)
  <2>1. m.hyb \subseteq Numbers(next)
    BY DEF Good, HybridMem, HybridDisk, KeyDisk
  <2>2. Keys!Cardinality(m.hyb) \in Nat
    BY <2>1, NumbersFinite, SameCardinality
  <2>3. n \in Nat
    BY <1>2, <2>2
  <2>4. /\ ResultShape(r) /\ r.n = n /\ r.d = Keys!StageHybridKey(m, d, Keys!Fresh(n))
        /\ r.m = [Keys!AddHybridToMemory(m, Keys!Fresh(n)) EXCEPT !.unused = @ \cup Keys!Fresh(n)]
    BY <1>2 DEF ResultShape, Keys!Result
  <2> HIDE DEF n
  <2>5. GrownMem(m, Keys!Fresh(n), r.m) /\ GrownDisk(m, d, Keys!Fresh(n), r.d)
    BY <2>4, GrownMemFact, StageHybridFacts DEF Good, KeyMem, KeyDisk
  <2> QED BY <1>2, <2>3, <2>4, <2>5, GrownFine
<1> QED BY <1>1, <1>2 DEF Keys!EnsureHybridKeyPool

LEMMA FailingFine ==
    ASSUME NEW r, NEW h, Fine(r, h)
    PROVE  Fine(Keys!Failing(r), h)
<1> DEFINE t == Keys!Failing(r)
<1>1. t = [m |-> r.m, d |-> r.d, n |-> r.n, f |-> 1]
  BY DEF Keys!Failing, Fine, ResultShape
<1>2. t.m = r.m /\ t.d = r.d /\ t.n = r.n /\ ResultShape(t)
  BY <1>1 DEF ResultShape
<1> HIDE DEF t
<1>3. Fine(t, h)
  BY <1>2 DEF Fine
<1> QED BY <1>3 DEF t

(* The key that is given out leaves those on offer and joins the used ones. *)
LEMMA AllocatedFine ==
    ASSUME next \in Nat \ {0}, NEW r, NEW h, Fine(r, h), r.m.unused # {},
           NEW id, id = Keys!Min(r.m.unused), NEW h2,
           h2 = [owed |-> h.owed \cup {id}, issued |-> h.issued \cup {id}]
    PROVE  Fine(Keys!Allocated(r), h2) /\ id # 0
<1> DEFINE t == Keys!Allocated(r)
<1>1. /\ KeyDisk(r.d, next + r.n) /\ HybridDisk(r.d) /\ KeyMem(r.m, r.d, next + r.n)
      /\ HybridMem(r.m, r.d) /\ IndexMem(r.m) /\ Handed(h, r.d) /\ Offered(r.m, h)
      /\ ResultShape(r)
  BY DEF Fine, Good
<1>2. id \in r.m.unused /\ id \in Keys!HybridStored(r.d) /\ id \in Keys!Stored(r.d) /\ id # 0
  <2>1. r.m.unused \subseteq Numbers(next + r.n) /\ next + r.n \in Nat
    BY <1>1 DEF HybridMem, HybridDisk, KeyDisk, Fine
  <2>2. r.m.unused \subseteq 0 .. next + r.n
    BY <2>1 DEF Numbers
  <2>3. Bounded(r.m.unused)
    BY <2>1, <2>2 DEF Bounded
  <2>4. id \in r.m.unused
    BY <2>3, BoundedFacts
  <2>5. id # 0
    BY <2>1, <2>4 DEF Numbers
  <2> QED BY <1>1, <2>4, <2>5 DEF HybridMem, HybridDisk
<1>3. /\ t = [m |-> [r.m EXCEPT !.unused = r.m.unused \ {id}, !.used = r.m.used \cup {id}],
              d |-> [r.d EXCEPT !.used = r.m.used \cup {id}], n |-> r.n, f |-> r.f]
  <2> DEFINE m == [r.m EXCEPT !.unused = r.m.unused \ {id}, !.used = r.m.used \cup {id}]
  <2>1. m.used = r.m.used \cup {id}
    BY <1>1 DEF KeyMem, MemShape
  <2>2. t = [r EXCEPT !.m = m, !.d.used = m.used]
    BY DEF Keys!Allocated
  <2> HIDE DEF m, t
  <2>3. t = [m |-> m, d |-> [r.d EXCEPT !.used = m.used], n |-> r.n, f |-> r.f]
    BY <1>1, <2>2 DEF ResultShape
  <2> QED BY <2>1, <2>3 DEF m
<1>4. /\ ResultShape(t) /\ t.n = r.n
      /\ t.m = [r.m EXCEPT !.unused = r.m.unused \ {id}, !.used = r.m.used \cup {id}]
      /\ t.d = [r.d EXCEPT !.used = r.m.used \cup {id}]
  <2> HIDE DEF t
  <2> QED BY <1>3 DEF ResultShape
<1> HIDE DEF t
<1>5. t.m = [crypted |-> r.m.crypted, unlocked |-> r.m.unlocked, keys |-> r.m.keys,
             mkeys |-> r.m.mkeys, decoys |-> r.m.decoys, pool |-> r.m.pool, held |-> r.m.held,
             dflt |-> r.m.dflt, hyb |-> r.m.hyb, rest |-> r.m.rest,
             unused |-> r.m.unused \ {id}, used |-> r.m.used \cup {id}, book |-> r.m.book,
             index |-> r.m.index]
  BY <1>1, <1>4 DEF KeyMem, MemShape
<1>6. t.d = [clear |-> r.d.clear, crypt |-> r.d.crypt, pass |-> r.d.pass, pool |-> r.d.pool,
             dflt |-> r.d.dflt, hybClear |-> r.d.hybClear, hybCrypt |-> r.d.hybCrypt,
             used |-> r.m.used \cup {id}, book |-> r.d.book, paid |-> r.d.paid]
  BY <1>1, <1>4 DEF KeyDisk, DiskShape
<1>7. /\ MemShape(t.m) /\ t.m.dflt = r.m.dflt /\ t.m.pool = r.m.pool /\ t.m.keys = r.m.keys
      /\ t.m.crypted = r.m.crypted /\ t.m.unlocked = r.m.unlocked /\ t.m.held = r.m.held
      /\ t.m.hyb = r.m.hyb /\ t.m.rest = r.m.rest /\ t.m.unused = r.m.unused \ {id}
      /\ t.m.used = r.m.used \cup {id} /\ t.m.index = r.m.index
  BY <1>5 DEF MemShape
<1>8. /\ DiskShape(t.d) /\ t.d.clear = r.d.clear /\ t.d.crypt = r.d.crypt /\ t.d.pass = r.d.pass
      /\ t.d.pool = r.d.pool /\ t.d.dflt = r.d.dflt /\ t.d.hybClear = r.d.hybClear
      /\ t.d.hybCrypt = r.d.hybCrypt /\ t.d.used = r.m.used \cup {id}
      /\ t.d.book = r.d.book /\ t.d.paid = r.d.paid
  BY <1>6 DEF DiskShape
<1>9. Keys!Stored(t.d) = Keys!Stored(r.d) /\ Keys!HybridStored(t.d) = Keys!HybridStored(r.d)
  BY <1>8 DEF Keys!Stored, Keys!HybridStored
<1>10. KeyDisk(t.d, next + r.n)
  BY <1>1, <1>8, <1>9 DEF KeyDisk
<1>11. KeyMem(t.m, t.d, next + r.n)
  BY <1>1, <1>7, <1>8, <1>9 DEF KeyMem, FormKept
<1>12. HybridDisk(t.d)
  BY <1>1, <1>8, <1>9 DEF HybridDisk
<1>13. HybridMem(t.m, t.d)
  BY <1>1, <1>7, <1>8, <1>9 DEF HybridMem
<1>14. IndexMem(t.m)
  BY <1>1, <1>7 DEF IndexMem
<1>15. Handed(h2, t.d)
  <2>1. h.issued \subseteq r.m.used
    BY <1>1 DEF Offered
  <2>2. h2.issued \subseteq Keys!BackfillHybridUsedKeys(t.d)
    BY <1>8, <2>1 DEF Keys!BackfillHybridUsedKeys
  <2> QED BY <1>1, <1>2, <1>9, <2>2 DEF Handed
<1>16. Offered(t.m, h2)
  BY <1>1, <1>7 DEF Offered
<1>17. Fine(t, h2)
  BY <1>4, <1>10, <1>11, <1>12, <1>13, <1>14, <1>15, <1>16 DEF Fine, Good
<1> QED BY <1>2, <1>17 DEF t

LEMMA WithBook ==
    ASSUME NEW r, ResultShape(r), NEW X
    PROVE  [r EXCEPT !.m.book = X]
             = [m |-> [r.m EXCEPT !.book = X], d |-> r.d, n |-> r.n, f |-> r.f]
<1>1. ASSUME NEW m, NEW d, NEW n, NEW f, NEW q, q = [m |-> m, d |-> d, n |-> n, f |-> f]
      PROVE  [q EXCEPT !.m.book = X] = [m |-> [m EXCEPT !.book = X], d |-> d, n |-> n, f |-> f]
  BY <1>1
<1> QED BY <1>1 DEF ResultShape

LEMMA GetHybridAddressKeeps ==
    ASSUME KeysInv, NEW label \in BOOLEAN, Keys!GetHybridAddress(label)
    PROVE  KeysInv'
<1>1. pc # "off"
  BY DEF Keys!GetHybridAddress
<1>2. PICK a \in Keys!GetUnusedHybridKey(keyStore, keyRecords) : \E X, Y :
        /\ \/ Keys!Install([[a.r EXCEPT !.m.book = X] EXCEPT !.d.book = @ \cup Y], "idle")
           \/ Keys!Install([[a.r EXCEPT !.m.book = X] EXCEPT !.d.book = @], "idle")
           \/ Keys!Install(Keys!Failing([a.r EXCEPT !.m.book = X]), "idle")
        /\ handedOut' = [handedOut EXCEPT !.issued = @ \cup ({a.id} \ {0}),
                                          !.owed = @ \cup ({a.id} \ {0})]
  <2>1. PICK a \in Keys!GetUnusedHybridKey(keyStore, keyRecords) :
          LET ids == {a.id} \ {0}
              named == label /\ a.id \in a.r.m.hyb
              r == [a.r EXCEPT !.m.book = IF named THEN @ \cup ids ELSE @]
          IN  /\ \/ Keys!Install([r EXCEPT !.d.book = IF label THEN @ \cup ids ELSE @], "idle")
                 \/ label /\ ids # {} /\ Keys!Install(Keys!Failing(r), "idle")
              /\ handedOut' = [handedOut EXCEPT !.issued = @ \cup ids, !.owed = @ \cup ids]
    BY DEF Keys!GetHybridAddress, Keys!NoKey
  <2> DEFINE ids == {a.id} \ {0}
             X == IF label /\ a.id \in a.r.m.hyb THEN a.r.m.book \cup ids ELSE a.r.m.book
             r == [a.r EXCEPT !.m.book = X]
  <2>2. \/ Keys!Install([r EXCEPT !.d.book = IF label THEN @ \cup ids ELSE @], "idle")
        \/ Keys!Install(Keys!Failing(r), "idle")
    BY <2>1
  <2>3. \/ Keys!Install([r EXCEPT !.d.book = @ \cup ids], "idle")
        \/ Keys!Install([r EXCEPT !.d.book = @], "idle")
        \/ Keys!Install(Keys!Failing(r), "idle")
    <3> HIDE DEF r
    <3> QED BY <2>2
  <2>4. handedOut' = [handedOut EXCEPT !.issued = @ \cup ids, !.owed = @ \cup ids]
    BY <2>1
  <2> HIDE DEF X, ids
  <2> QED BY <2>3, <2>4 DEF ids
<1>3. PICK X, Y :
        /\ \/ Keys!Install([[a.r EXCEPT !.m.book = X] EXCEPT !.d.book = @ \cup Y], "idle")
           \/ Keys!Install([[a.r EXCEPT !.m.book = X] EXCEPT !.d.book = @], "idle")
           \/ Keys!Install(Keys!Failing([a.r EXCEPT !.m.book = X]), "idle")
        /\ handedOut' = [handedOut EXCEPT !.issued = @ \cup ({a.id} \ {0}),
                                          !.owed = @ \cup ({a.id} \ {0})]
  BY <1>2
<1>4. PICK r : /\ Fine(r, handedOut) /\ r.m.unused # {}
               /\ \/ a = [r |-> Keys!Allocated(r), id |-> Keys!Min(r.m.unused)]
                  \/ a = [r |-> Keys!Failing(r), id |-> 0]
  <2> DEFINE target == Keys!Cardinality(keyStore.hyb) + HybridGrow
             full == Keys!EnsureHybridKeyPool(keyStore, keyRecords, target)
             same == Keys!Same(keyStore, keyRecords)
  <2>1. PICK r \in {full, same} :
          /\ r.m.unused # {}
          /\ \/ a = [r |-> Keys!Allocated(r), id |-> Keys!Min(r.m.unused)]
             \/ a = [r |-> Keys!Failing(r), id |-> 0]
    <3> HIDE DEF full, same
    <3> QED BY DEF Keys!GetUnusedHybridKey, Keys!NoKey, full, same
  <2>2. target \in Nat
    <3>1. keyStore.hyb \subseteq Numbers(next) /\ next \in Nat
      BY <1>1, FineFound DEF Good, HybridMem, HybridDisk, KeyDisk
    <3> QED BY <3>1, NumbersFinite, SameCardinality, WalletAssumption DEF Keys!KeysAssumption
  <2>3. Fine(same, handedOut)
    BY <1>1, FineFound DEF Keys!Same, Keys!Result
  <2> HIDE DEF target, same
  <2>4. Fine(full, handedOut)
    BY <1>1, <2>2, FineFound, EnsureFine
  <2> QED BY <2>1, <2>3, <2>4
<1>5. Fine(a.r, handedOut')
  <2>1. handedOut = [owed |-> handedOut.owed, issued |-> handedOut.issued]
    BY DEF KeysInv, Handed
  <2>2. CASE a = [r |-> Keys!Allocated(r), id |-> Keys!Min(r.m.unused)]
    <3> DEFINE id == Keys!Min(r.m.unused)
               h2 == [owed |-> handedOut.owed \cup {id}, issued |-> handedOut.issued \cup {id}]
    <3>1. Fine(Keys!Allocated(r), h2) /\ id # 0
      BY <1>1, <1>4, FineFound, AllocatedFine
    <3>2. handedOut' = h2
      <4>1. {a.id} \ {0} = {id}
        BY <2>2, <3>1
      <4> HIDE DEF id
      <4> QED BY <1>3, <2>1, <4>1
    <3> QED BY <2>2, <3>1, <3>2
  <2>3. CASE a = [r |-> Keys!Failing(r), id |-> 0]
    <3>1. {a.id} \ {0} = {}
      BY <2>3
    <3>2. handedOut' = handedOut
      BY <1>3, <2>1, <3>1
    <3> QED BY <1>4, <2>3, <3>2, FailingFine
  <2> QED BY <1>4, <2>2, <2>3
<1>6. ASSUME NEW t, ResultShape(t), t.n = a.r.n, Relabelled(a.r.m, t.m), Labelled(a.r.d, t.d),
             Keys!Install(t, "idle")
      PROVE  KeysInv'
  <2>1. Fine(t, handedOut')
    BY <1>5, <1>6, LabelledFine
  <2> QED BY <1>1, <1>6, <2>1, FineFound, InstallMoves, FineMove
<1>7. ResultShape(a.r) /\ DiskShape(a.r.d)
  BY <1>5 DEF Fine, Good, KeyDisk
<1>8. ASSUME NEW Z, a.r.d.book \subseteq Z,
             Keys!Install([[a.r EXCEPT !.m.book = X] EXCEPT !.d.book = Z], "idle")
      PROVE  KeysInv'
  <2> DEFINE t == [[a.r EXCEPT !.m.book = X] EXCEPT !.d.book = Z]
  <2>1. t = [m |-> [a.r.m EXCEPT !.book = X], d |-> [a.r.d EXCEPT !.book = Z], n |-> a.r.n,
             f |-> a.r.f]
    <3> DEFINE q == [a.r EXCEPT !.m.book = X]
    <3>1. q = [m |-> [a.r.m EXCEPT !.book = X], d |-> a.r.d, n |-> a.r.n, f |-> a.r.f]
      BY <1>7, WithBook
    <3> HIDE DEF q
    <3>2. t = [q EXCEPT !.d.book = Z]
      BY DEF q
    <3> QED BY <3>1, <3>2
  <2>2. /\ ResultShape(t) /\ t.n = a.r.n /\ t.m = [a.r.m EXCEPT !.book = X]
        /\ t.d = [a.r.d EXCEPT !.book = Z]
    <3> HIDE DEF t
    <3> QED BY <2>1 DEF ResultShape
  <2>3. Relabelled(a.r.m, t.m) /\ Labelled(a.r.d, t.d)
    BY <1>8, <2>2 DEF Relabelled, Labelled
  <2>4. Keys!Install(t, "idle")
    BY <1>8
  <2> HIDE DEF t
  <2> QED BY <1>6, <2>2, <2>3, <2>4
<1>9. CASE Keys!Install([[a.r EXCEPT !.m.book = X] EXCEPT !.d.book = @ \cup Y], "idle")
  <2>1. [a.r EXCEPT !.m.book = X].d.book = a.r.d.book
    BY <1>7 DEF ResultShape
  <2>2. Keys!Install([[a.r EXCEPT !.m.book = X] EXCEPT !.d.book = a.r.d.book \cup Y], "idle")
    BY <1>9, <2>1
  <2>3. a.r.d.book \subseteq a.r.d.book \cup Y
    OBVIOUS
  <2> QED BY <1>8, <2>2, <2>3
<1>10. CASE Keys!Install([[a.r EXCEPT !.m.book = X] EXCEPT !.d.book = @], "idle")
  <2>1. [a.r EXCEPT !.m.book = X].d.book = a.r.d.book
    BY <1>7 DEF ResultShape
  <2>2. Keys!Install([[a.r EXCEPT !.m.book = X] EXCEPT !.d.book = a.r.d.book], "idle")
    BY <1>10, <2>1
  <2> QED BY <1>8, <2>2
<1>11. CASE Keys!Install(Keys!Failing([a.r EXCEPT !.m.book = X]), "idle")
  <2> DEFINE t == Keys!Failing([a.r EXCEPT !.m.book = X])
  <2>1. t = [m |-> [a.r.m EXCEPT !.book = X], d |-> a.r.d, n |-> a.r.n, f |-> 1]
    <3> DEFINE q == [a.r EXCEPT !.m.book = X]
    <3>1. q = [m |-> [a.r.m EXCEPT !.book = X], d |-> a.r.d, n |-> a.r.n, f |-> a.r.f]
      BY <1>7, WithBook
    <3> HIDE DEF q
    <3>2. t = [q EXCEPT !.f = 1]
      BY DEF q, Keys!Failing
    <3> QED BY <3>1, <3>2
  <2>2. /\ ResultShape(t) /\ t.n = a.r.n /\ t.m = [a.r.m EXCEPT !.book = X] /\ t.d = a.r.d
    <3> HIDE DEF t
    <3> QED BY <2>1 DEF ResultShape
  <2> HIDE DEF t
  <2>3. t.d = [a.r.d EXCEPT !.book = a.r.d.book]
    BY <1>7, <2>2 DEF DiskShape
  <2>4. Relabelled(a.r.m, t.m) /\ Labelled(a.r.d, t.d)
    BY <2>2, <2>3 DEF Relabelled, Labelled
  <2> QED BY <1>6, <1>11, <2>2, <2>4 DEF t
<1> QED BY <1>3, <1>9, <1>10, <1>11

LEMMA ImportHybridKeyKeeps ==
    ASSUME KeysInv, NEW label \in BOOLEAN, Keys!ImportHybridKey(label)
    PROVE  KeysInv'
<1> DEFINE ks == Keys!Fresh(1)
           named == IF label THEN {next} ELSE {}
           a == Keys!AddHybridToMemory(keyStore, ks)
           e == Keys!StageHybridKey(keyStore, keyRecords, ks)
           r == [m |-> a, d |-> e, n |-> 1, f |-> 0]
           t == [m |-> [a EXCEPT !.book = @ \cup named], d |-> [e EXCEPT !.book = @ \cup named],
                 n |-> 1, f |-> 0]
<1>1. pc # "off" /\ ~Keys!IsLocked(keyStore)
  BY DEF Keys!ImportHybridKey
<1>2. /\ next \in Nat \ {0} /\ Good(keyStore, keyRecords, next)
      /\ Handed(handedOut, keyRecords) /\ Offered(keyStore, handedOut)
  BY <1>1, FineFound
<1>3. ks = {next}
  BY <1>2, FreshNumbers
<1>4. Keys!Install(t, "idle") /\ handedOut' = [handedOut EXCEPT !.owed = @ \cup {next}]
  <2> HIDE DEF ks
  <2> QED BY <1>3 DEF Keys!ImportHybridKey, Keys!Result
<1>5. Fine(r, handedOut) /\ Keys!Stored(r.d) = Keys!Stored(keyRecords) \cup ks
  <2>1. GrownMem(keyStore, ks, a) /\ GrownDisk(keyStore, keyRecords, ks, e)
    <3>1. MemShape(keyStore) /\ DiskShape(keyRecords)
      BY <1>2 DEF Good, KeyMem, KeyDisk
    <3> HIDE DEF ks
    <3> QED BY <3>1, GrownMemFact, StageHybridFacts
  <2>2. r.m = a /\ r.d = e /\ r.n = 1 /\ ResultShape(r)
    <3> HIDE DEF a, e
    <3> QED BY DEF ResultShape
  <2> HIDE DEF a, e, r
  <2> QED BY <1>1, <1>2, <2>1, <2>2, GrownFine
<1>6. /\ ResultShape(t) /\ t.n = r.n /\ t.m = [r.m EXCEPT !.book = r.m.book \cup named]
      /\ t.d = [r.d EXCEPT !.book = r.d.book \cup named]
  <2> HIDE DEF a, e, named
  <2> QED BY DEF ResultShape
<1>7. Relabelled(r.m, t.m) /\ Labelled(r.d, t.d)
  <2> HIDE DEF r, t, named
  <2>1. r.d.book \subseteq r.d.book \cup named
    OBVIOUS
  <2> QED BY <1>6, <2>1 DEF Relabelled, Labelled
<1> HIDE DEF r, t
<1>8. Fine(t, handedOut)
  BY <1>5, <1>6, <1>7, LabelledFine
<1>9. Fine(t, handedOut')
  <2>1. Keys!Stored(t.d) = Keys!Stored(r.d)
    <3>1. t.d.clear = r.d.clear /\ t.d.crypt = r.d.crypt
      <4> HIDE DEF named
      <4> QED BY <1>5, <1>6 DEF Fine, Good, KeyDisk, DiskShape
    <3> QED BY <3>1 DEF Keys!Stored
  <2>2. next \in Keys!Stored(t.d)
    BY <1>3, <1>5, <2>1
  <2>3. Handed(handedOut', t.d) /\ Offered(t.m, handedOut')
    BY <1>4, <1>8, <2>2 DEF Fine, Handed, Offered
  <2> QED BY <1>8, <2>3 DEF Fine
<1> QED BY <1>2, <1>4, <1>9, InstallMoves, FineMove

LEMMA LoadHybridPoolKeeps ==
    ASSUME KeysInv, Keys!LoadHybridPool
    PROVE  KeysInv'
<1>1. pc # "off" /\ handedOut' = handedOut
  BY DEF Keys!LoadHybridPool
<1>2. PICK r \in {Keys!EnsureHybridKeyPool(keyStore, keyRecords, HybridTarget),
                  Keys!Failing(Keys!Same(keyStore, keyRecords))} :
        Keys!Install([r EXCEPT !.m = Keys!RebuildUnusedHybridKeySet(r.m)], "default")
  BY DEF Keys!LoadHybridPool
<1>3. Fine(r, handedOut)
  <2>1. Fine(Keys!Failing(Keys!Same(keyStore, keyRecords)), handedOut)
    BY <1>1, FineFound DEF Keys!Same, Keys!Result, Keys!Failing
  <2>2. HybridTarget \in Nat
    BY WalletAssumption DEF Keys!KeysAssumption
  <2>3. Fine(Keys!EnsureHybridKeyPool(keyStore, keyRecords, HybridTarget), handedOut)
    BY <1>1, <2>2, FineFound, EnsureFine
  <2> QED BY <1>2, <2>1, <2>3
<1> DEFINE S == (r.m.hyb \cup r.m.rest) \ r.m.used
           t == [r EXCEPT !.m = Keys!RebuildUnusedHybridKeySet(r.m)]
<1>4. t.m = [r.m EXCEPT !.unused = S] /\ t.d = r.d /\ t.n = r.n /\ ResultShape(t)
  <2>1. t = [m |-> [r.m EXCEPT !.unused = S], d |-> r.d, n |-> r.n, f |-> r.f]
    BY <1>3 DEF Fine, ResultShape, Keys!RebuildUnusedHybridKeySet
  <2> HIDE DEF t, S
  <2> QED BY <2>1 DEF ResultShape
<1>5. Keys!Install(t, "default")
  BY <1>2
<1> HIDE DEF t, S
<1>6. /\ KeyDisk(r.d, next + r.n) /\ HybridDisk(r.d) /\ KeyMem(r.m, r.d, next + r.n)
      /\ HybridMem(r.m, r.d) /\ IndexMem(r.m) /\ Handed(handedOut, r.d)
      /\ Offered(r.m, handedOut)
  BY <1>3 DEF Fine, Good
<1>7. t.m = [crypted |-> r.m.crypted, unlocked |-> r.m.unlocked, keys |-> r.m.keys,
             mkeys |-> r.m.mkeys, decoys |-> r.m.decoys, pool |-> r.m.pool, held |-> r.m.held,
             dflt |-> r.m.dflt, hyb |-> r.m.hyb, rest |-> r.m.rest, unused |-> S,
             used |-> r.m.used, book |-> r.m.book, index |-> r.m.index]
  BY <1>4, <1>6 DEF KeyMem, MemShape
<1>8. /\ MemShape(t.m) /\ t.m.dflt = r.m.dflt /\ t.m.pool = r.m.pool /\ t.m.keys = r.m.keys
      /\ t.m.crypted = r.m.crypted /\ t.m.unlocked = r.m.unlocked /\ t.m.held = r.m.held
      /\ t.m.hyb = r.m.hyb /\ t.m.rest = r.m.rest /\ t.m.unused = S
      /\ t.m.used = r.m.used /\ t.m.index = r.m.index
  BY <1>7 DEF MemShape
<1>9. KeyMem(t.m, r.d, next + r.n)
  BY <1>6, <1>8 DEF KeyMem, FormKept
<1>10. S \subseteq Keys!HybridStored(r.d) /\ S \cap r.m.used = {}
  BY <1>6 DEF HybridMem, S
<1>11. HybridMem(t.m, r.d)
  BY <1>6, <1>8, <1>10 DEF HybridMem
<1>12. IndexMem(t.m)
  BY <1>6, <1>8 DEF IndexMem
<1>13. Offered(t.m, handedOut)
  BY <1>6, <1>8, <1>10 DEF Offered
<1>14. Fine(t, handedOut)
  BY <1>3, <1>4, <1>6, <1>9, <1>11, <1>12, <1>13 DEF Fine, Good
<1> QED BY <1>1, <1>5, <1>14, FineFound, InstallMoves, FineMove

-----------------------------------------------------------------------------
(* Locking and encryption *)

(* The same keys and pool, and in the records the same hybrid keys. *)
SameKeys(m, g) ==
    /\ MemShape(g) /\ g.crypted = m.crypted /\ g.keys = m.keys /\ g.pool = m.pool
    /\ g.held = m.held /\ g.dflt = m.dflt
SameRecords(d, e) ==
    /\ DiskShape(e) /\ e.clear = d.clear /\ e.crypt = d.crypt /\ e.pool = d.pool
    /\ e.dflt = d.dflt /\ e.used = d.used /\ e.book = d.book /\ e.paid = d.paid
    /\ e.pass = d.pass \/ e.pass # "none"
    /\ Keys!HybridStored(e) = Keys!HybridStored(d) /\ e.hybCrypt \subseteq e.crypt

LEMMA SwapFine ==
    ASSUME NEW r, NEW h, Fine(r, h), NEW t, ResultShape(t), t.n = r.n,
           SameKeys(r.m, t.m), SameRecords(r.d, t.d),
           HybridMem(t.m, t.d), IndexMem(t.m), Offered(t.m, h)
    PROVE  Fine(t, h)
<1>1. /\ KeyDisk(r.d, next + r.n) /\ HybridDisk(r.d) /\ KeyMem(r.m, r.d, next + r.n)
      /\ Handed(h, r.d) /\ r.n \in Nat
  BY DEF Fine, Good
<1>2. /\ Keys!Stored(t.d) = Keys!Stored(r.d) /\ Keys!HybridStored(t.d) = Keys!HybridStored(r.d)
      /\ Keys!BackfillHybridUsedKeys(t.d) = Keys!BackfillHybridUsedKeys(r.d)
  BY DEF Keys!Stored, Keys!BackfillHybridUsedKeys, SameRecords
<1>3. KeyDisk(t.d, next + r.n)
  BY <1>1, <1>2 DEF KeyDisk, SameRecords
<1>4. KeyMem(t.m, t.d, next + r.n)
  <2>1. FormKept(t.m, t.d)
    BY <1>1 DEF KeyMem, FormKept, SameKeys, SameRecords
  <2> QED BY <1>1, <1>2, <2>1 DEF KeyMem, SameKeys
<1>5. HybridDisk(t.d)
  BY <1>1, <1>2 DEF HybridDisk, SameRecords
<1>6. Handed(h, t.d)
  BY <1>1, <1>2 DEF Handed
<1> QED BY <1>1, <1>3, <1>4, <1>5, <1>6 DEF Fine, Good

LEMMA SoundFine ==
    ASSUME NEW m, NEW d, Good(m, d, next), NEW h, Handed(h, d), Offered(m, h),
           NEW r, Sound(m, d, r)
    PROVE  Fine(r, h) /\ r.m.crypted = m.crypted /\ r.d.hybClear = d.hybClear
<1>1. KeysOnly(m, d, r.m, r.d) /\ HybridDisk(d) /\ HybridMem(m, d) /\ IndexMem(m)
  BY DEF Sound, Good
<1>2. /\ HybridDisk(r.d) /\ HybridMem(r.m, r.d) /\ IndexMem(r.m)
      /\ Handed(h, r.d) /\ Offered(r.m, h)
  BY <1>1, HybridStays
<1> QED BY <1>1, <1>2 DEF Fine, Good, Sound, KeysOnly

LEMMA SameRecordsFact ==
    ASSUME NEW m, NEW d, NEW n, Good(m, d, n)
    PROVE  SameRecords(d, d)
BY DEF Good, KeyDisk, HybridDisk, SameRecords

(* A locked wallet has no hybrid key in clear. *)
LockedForm(m, g) ==
    /\ MemShape(g) /\ ~g.unlocked /\ g.hyb = {} /\ g.unused = {}
    /\ g.index = [m.index EXCEPT !.dirty = TRUE]
    /\ g.crypted = m.crypted /\ g.keys = m.keys /\ g.pool = m.pool /\ g.held = m.held
    /\ g.dflt = m.dflt /\ g.rest = m.rest /\ g.used = m.used

LEMMA LockedFacts ==
    ASSUME NEW m, MemShape(m), NEW g, g = Keys!Locked(m)
    PROVE  LockedForm(m, g)
<1> DEFINE x == [m.index EXCEPT !.dirty = TRUE]
<1>1. g = [m EXCEPT !.unlocked = FALSE, !.hyb = {}, !.unused = {}, !.index = x]
  BY DEF Keys!Locked
<1> HIDE DEF x
<1>2. g = [crypted |-> m.crypted, unlocked |-> FALSE, keys |-> m.keys, mkeys |-> m.mkeys,
           decoys |-> m.decoys, pool |-> m.pool, held |-> m.held, dflt |-> m.dflt,
           hyb |-> {}, rest |-> m.rest, unused |-> {}, used |-> m.used, book |-> m.book,
           index |-> x]
  BY <1>1 DEF MemShape
<1> QED BY <1>2 DEF LockedForm, MemShape, x

LEMMA LockedIndex ==
    ASSUME NEW m, IndexMem(m), NEW g, g.index = [m.index EXCEPT !.dirty = TRUE]
    PROVE  IndexMem(g)
<1> DEFINE x == m.index
<1>1. x = [ids |-> x.ids, nMem |-> x.nMem, nRest |-> x.nRest, dirty |-> x.dirty]
  BY DEF IndexMem
<1>2. g.index = [x EXCEPT !.dirty = TRUE]
  OBVIOUS
<1> HIDE DEF x
<1>3. g.index = [ids |-> x.ids, nMem |-> x.nMem, nRest |-> x.nRest, dirty |-> TRUE]
  BY <1>1, <1>2
<1> QED BY <1>3 DEF IndexMem

LEMMA LockedFine ==
    ASSUME NEW r, NEW h, Fine(r, h), r.m.crypted, NEW t, ResultShape(t), t.n = r.n,
           t.d = r.d, t.m = Keys!Locked(r.m)
    PROVE  Fine(t, h)
<1>1. MemShape(r.m) /\ HybridMem(r.m, r.d) /\ IndexMem(r.m) /\ Offered(r.m, h)
  BY DEF Fine, Good, KeyMem
<1>2. SameKeys(r.m, t.m) /\ HybridMem(t.m, t.d) /\ Offered(t.m, h)
  BY <1>1, LockedFacts DEF LockedForm, SameKeys, HybridMem, Offered
<1>3. t.m.index = [r.m.index EXCEPT !.dirty = TRUE]
  BY <1>1, LockedFacts DEF LockedForm
<1>4. IndexMem(t.m)
  BY <1>1, <1>3, LockedIndex
<1>5. SameRecords(r.d, t.d)
  BY SameRecordsFact DEF Fine
<1> QED BY <1>2, <1>4, <1>5, SwapFine

LEMMA FineInstalled ==
    ASSUME KeysInv, pc # "off", handedOut' = handedOut, NEW t, Fine(t, handedOut),
           NEW where, Keys!Install(t, where), where \in {"idle", "refill"}
    PROVE  KeysInv'
<1>1. Fine(t, handedOut')
  OBVIOUS
<1>2. next \in Nat \ {0} /\ Moves(t, where)
  BY FineFound, InstallMoves
<1> QED BY <1>1, <1>2, FineMove

LEMMA LockKeeps ==
    ASSUME KeysInv, Keys!Lock
    PROVE  KeysInv'
<1> DEFINE r == [m |-> keyStore, d |-> keyRecords, n |-> 0, f |-> 0]
           t == [m |-> Keys!Locked(keyStore), d |-> keyRecords, n |-> 0, f |-> 0]
<1>1. /\ pc = "idle" /\ pc' = pc /\ keyStore.crypted /\ keyStore' = Keys!Locked(keyStore)
      /\ keyRecords' = keyRecords /\ next' = next /\ handedOut' = handedOut
  BY DEF Keys!Lock
<1>2. Fine(r, handedOut) /\ next \in Nat \ {0}
  BY <1>1, FineFound
<1>3. /\ ResultShape(t) /\ t.n = r.n /\ t.d = r.d /\ t.m = Keys!Locked(r.m)
      /\ r.m.crypted
  BY <1>1 DEF ResultShape
<1>4. Moves(t, "idle")
  BY <1>1, <1>2 DEF Moves
<1> HIDE DEF r, t
<1>5. Fine(t, handedOut')
  BY <1>1, <1>2, <1>3, LockedFine
<1> QED BY <1>2, <1>4, <1>5, FineMove

LEMMA FindHybridKeyKeeps ==
    ASSUME KeysInv, Keys!FindHybridKeyByLegacyID
    PROVE  KeysInv'
<1> DEFINE x == [ids |-> keyStore.hyb \cup keyStore.rest, nMem |-> Keys!Cardinality(keyStore.hyb),
                 nRest |-> Keys!Cardinality(keyStore.rest), dirty |-> FALSE]
           g == [keyStore EXCEPT !.index = x]
           r == [m |-> keyStore, d |-> keyRecords, n |-> 0, f |-> 0]
           t == [m |-> g, d |-> keyRecords, n |-> 0, f |-> 0]
<1>1. /\ pc = "idle" /\ pc' = pc /\ keyStore' = g /\ keyRecords' = keyRecords /\ next' = next
      /\ handedOut' = handedOut
  BY DEF Keys!FindHybridKeyByLegacyID
<1>2. Fine(r, handedOut) /\ next \in Nat \ {0} /\ Good(keyStore, keyRecords, next)
  BY <1>1, FineFound
<1>3. /\ x.ids = keyStore.hyb \cup keyStore.rest /\ x.nMem = Cardinality(keyStore.hyb)
      /\ x.nRest = Cardinality(keyStore.rest)
      /\ x = [ids |-> x.ids, nMem |-> x.nMem, nRest |-> x.nRest, dirty |-> x.dirty]
  BY SameCardinality
<1> HIDE DEF x
<1>4. g = [crypted |-> keyStore.crypted, unlocked |-> keyStore.unlocked, keys |-> keyStore.keys,
           mkeys |-> keyStore.mkeys, decoys |-> keyStore.decoys, pool |-> keyStore.pool,
           held |-> keyStore.held, dflt |-> keyStore.dflt, hyb |-> keyStore.hyb,
           rest |-> keyStore.rest, unused |-> keyStore.unused, used |-> keyStore.used,
           book |-> keyStore.book, index |-> x]
  BY <1>2 DEF Good, KeyMem, MemShape
<1> HIDE DEF g
<1>5. /\ SameKeys(keyStore, g) /\ g.hyb = keyStore.hyb /\ g.rest = keyStore.rest /\ g.index = x
      /\ g.unused = keyStore.unused /\ g.used = keyStore.used /\ g.unlocked = keyStore.unlocked
      /\ g.crypted = keyStore.crypted
  BY <1>4 DEF SameKeys, MemShape
<1>6. IndexMem(g)
  BY <1>3, <1>5 DEF IndexMem
<1>7. HybridMem(g, keyRecords) /\ Offered(g, handedOut)
  BY <1>1, <1>2, <1>5, FineFound DEF Good, HybridMem, Offered
<1>8. SameRecords(keyRecords, keyRecords)
  BY <1>2, SameRecordsFact
<1>9. /\ ResultShape(t) /\ t.n = r.n /\ t.d = keyRecords /\ t.m = g /\ r.m = keyStore
      /\ r.d = keyRecords
  BY DEF ResultShape
<1>10. Moves(t, "idle")
  BY <1>1, <1>2 DEF Moves
<1> HIDE DEF r, t
<1>11. Fine(t, handedOut')
  BY <1>1, <1>2, <1>5, <1>6, <1>7, <1>8, <1>9, SwapFine
<1> QED BY <1>2, <1>10, <1>11, FineMove

(* An unlocked wallet has all of them. *)
LEMMA DecryptedFine ==
    ASSUME NEW r, NEW h, Fine(r, h), r.m.crypted, r.d.hybClear = {}, NEW t, ResultShape(t),
           t.n = r.n, t.d = r.d, t.m = Keys!Decrypted(r.m)
    PROVE  Fine(t, h) /\ t.m.crypted
<1>1. MemShape(r.m) /\ HybridMem(r.m, r.d) /\ IndexMem(r.m) /\ Offered(r.m, h)
  BY DEF Fine, Good, KeyMem
<1> DEFINE U == r.m.unused \cup ((r.m.rest \ r.m.hyb) \ r.m.used)
           H == r.m.hyb \cup r.m.rest
<1>2. t.m = [r.m EXCEPT !.unlocked = TRUE, !.hyb = H, !.unused = U]
  BY DEF Keys!Decrypted
<1>3. U \subseteq Keys!HybridStored(r.d) /\ H = Keys!HybridStored(r.d) /\ U \cap h.issued = {}
  BY <1>1 DEF HybridMem, Offered
<1>4. r.m.hyb \subseteq H
  OBVIOUS
<1> HIDE DEF U, H
<1>5. t.m = [crypted |-> r.m.crypted, unlocked |-> TRUE, keys |-> r.m.keys,
             mkeys |-> r.m.mkeys, decoys |-> r.m.decoys, pool |-> r.m.pool, held |-> r.m.held,
             dflt |-> r.m.dflt, hyb |-> H, rest |-> r.m.rest, unused |-> U,
             used |-> r.m.used, book |-> r.m.book, index |-> r.m.index]
  BY <1>1, <1>2 DEF MemShape
<1>6. /\ SameKeys(r.m, t.m) /\ t.m.hyb = H /\ t.m.rest = r.m.rest /\ t.m.unused = U
      /\ t.m.used = r.m.used /\ t.m.index = r.m.index /\ t.m.crypted /\ t.m.unlocked
  BY <1>5 DEF SameKeys, MemShape
<1>7. HybridMem(t.m, t.d)
  BY <1>1, <1>3, <1>6 DEF HybridMem
<1>8. IndexMem(t.m)
  BY <1>1, <1>4, <1>6 DEF IndexMem
<1>9. Offered(t.m, h)
  BY <1>1, <1>3, <1>6 DEF Offered
<1>10. SameRecords(r.d, t.d)
  BY SameRecordsFact DEF Fine
<1> QED BY <1>6, <1>7, <1>8, <1>9, <1>10, SwapFine

(* Other hybrid records. *)
Rewritten(d, A, B, e) ==
    /\ DiskShape(e) /\ e.clear = d.clear /\ e.crypt = d.crypt /\ e.pool = d.pool
    /\ e.dflt = d.dflt /\ e.used = d.used /\ e.book = d.book /\ e.paid = d.paid
    /\ e.pass = d.pass /\ e.hybClear = A /\ e.hybCrypt = B

LEMMA RewrittenFact ==
    ASSUME NEW d, DiskShape(d), NEW A, NEW B, NEW e, e = [d EXCEPT !.hybCrypt = B, !.hybClear = A]
    PROVE  Rewritten(d, A, B, e)
<1>1. e = [clear |-> d.clear, crypt |-> d.crypt, pass |-> d.pass, pool |-> d.pool,
           dflt |-> d.dflt, hybClear |-> A, hybCrypt |-> B, used |-> d.used,
           book |-> d.book, paid |-> d.paid]
  BY DEF DiskShape
<1> QED BY <1>1 DEF Rewritten, DiskShape

(* Hybrid records of an encrypted wallet are written again, encrypted. *)
LEMMA MigratedFine ==
    ASSUME NEW r, NEW h, Fine(r, h), r.m.crypted, ~r.m.unlocked, NEW done \in SUBSET r.d.hybClear,
           NEW t, ResultShape(t), t.n = r.n, t.m = r.m,
           t.d = Keys!WriteHybridKey(r.d, done, TRUE)
    PROVE  Fine(t, h)
<1>1. /\ MemShape(r.m) /\ HybridMem(r.m, r.d) /\ IndexMem(r.m) /\ Offered(r.m, h)
      /\ FormKept(r.m, r.d) /\ DiskShape(r.d) /\ HybridDisk(r.d)
  BY DEF Fine, Good, KeyMem, KeyDisk
<1> DEFINE A == r.d.hybClear \ done
           B == r.d.hybCrypt \cup done
<1>2. t.d = [r.d EXCEPT !.hybCrypt = B, !.hybClear = A]
  BY DEF Keys!WriteHybridKey
<1> HIDE DEF A, B
<1>3. Rewritten(r.d, A, B, t.d)
  BY <1>1, <1>2, RewrittenFact
<1>4. /\ DiskShape(t.d) /\ t.d.clear = r.d.clear /\ t.d.crypt = r.d.crypt /\ t.d.pool = r.d.pool
      /\ t.d.dflt = r.d.dflt /\ t.d.used = r.d.used /\ t.d.book = r.d.book
      /\ t.d.paid = r.d.paid /\ t.d.pass = r.d.pass /\ t.d.hybClear = A /\ t.d.hybCrypt = B
  BY <1>3 DEF Rewritten
<1>5. Keys!HybridStored(t.d) = Keys!HybridStored(r.d)
  BY <1>4 DEF Keys!HybridStored, A, B
<1>6. t.d.hybCrypt \subseteq t.d.crypt
  BY <1>1, <1>4 DEF HybridDisk, FormKept, Keys!Stored, Keys!HybridStored, B
<1>7. SameRecords(r.d, t.d)
  BY <1>4, <1>5, <1>6 DEF SameRecords
<1>8. HybridMem(t.m, t.d)
  BY <1>1, <1>5 DEF HybridMem
<1>9. SameKeys(r.m, t.m)
  BY <1>1 DEF SameKeys
<1> QED BY <1>1, <1>7, <1>8, <1>9, SwapFine

LEMMA UnlockKeeps ==
    ASSUME KeysInv, NEW p \in Passphrases, Keys!Unlock(p)
    PROVE  KeysInv'
<1>1. pc = "idle" /\ keyStore.crypted /\ ~keyStore.unlocked /\ handedOut' = handedOut
  BY DEF Keys!Unlock, Keys!IsLocked
<1>2. PICK done \in SUBSET keyRecords.hybClear :
        Keys!Install(IF Keys!WriteHybridKey(keyRecords, done, TRUE).hybClear = {}
                     THEN Keys!Same(Keys!Decrypted(keyStore),
                                    Keys!WriteHybridKey(keyRecords, done, TRUE))
                     ELSE Keys!Failing(Keys!Same(Keys!Locked(keyStore),
                                                 Keys!WriteHybridKey(keyRecords, done, TRUE))),
                     "idle")
  BY DEF Keys!Unlock
<1> DEFINE d == Keys!WriteHybridKey(keyRecords, done, TRUE)
           r == [m |-> keyStore, d |-> keyRecords, n |-> 0, f |-> 0]
           q == [m |-> keyStore, d |-> d, n |-> 0, f |-> 0]
<1>3. Fine(r, handedOut)
  BY <1>1, FineFound
<1>4. /\ r.m = keyStore /\ r.d = keyRecords /\ r.n = 0
      /\ ResultShape(q) /\ q.n = 0 /\ q.m = keyStore /\ q.d = d
  <2> HIDE DEF d
  <2> QED BY DEF ResultShape
<1>5. d = Keys!WriteHybridKey(keyRecords, done, TRUE)
  OBVIOUS
<1> HIDE DEF r, q, d
<1>6. Fine(q, handedOut)
  BY <1>1, <1>2, <1>3, <1>4, <1>5, MigratedFine
<1>7. CASE d.hybClear = {}
  <2> DEFINE t == Keys!Same(Keys!Decrypted(keyStore), d)
  <2>1. Keys!Install(t, "idle")
    BY <1>2, <1>7 DEF d
  <2>2. ResultShape(t) /\ t.n = 0 /\ t.d = d /\ t.m = Keys!Decrypted(keyStore)
    BY DEF ResultShape, Keys!Same, Keys!Result
  <2> HIDE DEF t
  <2>3. Fine(t, handedOut)
    BY <1>1, <1>4, <1>6, <1>7, <2>2, DecryptedFine
  <2> QED BY <1>1, <2>1, <2>3, FineInstalled
<1>8. CASE d.hybClear # {}
  <2> DEFINE t == Keys!Failing(Keys!Same(Keys!Locked(keyStore), d))
  <2>1. Keys!Install(t, "idle")
    BY <1>2, <1>8 DEF d
  <2>2. ResultShape(t) /\ t.n = 0 /\ t.d = d /\ t.m = Keys!Locked(keyStore)
    BY DEF ResultShape, Keys!Same, Keys!Result, Keys!Failing
  <2> HIDE DEF t
  <2>3. Fine(t, handedOut)
    BY <1>1, <1>4, <1>6, <2>2, LockedFine
  <2> QED BY <1>1, <2>1, <2>3, FineInstalled
<1> QED BY <1>7, <1>8

(* The wallet stays as locked as it was, with other master keys. *)
Repassed(d, q, e) == e = d \/ e = [d EXCEPT !.pass = q]
Relocked(m, K, g) == g = [Keys!Locked(m) EXCEPT !.unlocked = ~Keys!IsLocked(m), !.mkeys = K]

LEMMA PassChanged ==
    ASSUME NEW r, NEW h, Fine(r, h), r.m.crypted, NEW K, NEW t, ResultShape(t), t.n = r.n,
           Relocked(r.m, K, t.m),
           NEW q \in Passphrases, Repassed(r.d, q, t.d)
    PROVE  Fine(t, h)
<1>1. /\ MemShape(r.m) /\ HybridMem(r.m, r.d) /\ IndexMem(r.m) /\ Offered(r.m, h)
      /\ DiskShape(r.d) /\ HybridDisk(r.d)
  BY DEF Fine, Good, KeyMem, KeyDisk
<1> DEFINE l == Keys!Locked(r.m)
           b == ~Keys!IsLocked(r.m)
<1>2. l = Keys!Locked(r.m)
  OBVIOUS
<1>3. b => r.m.unlocked
  BY DEF Keys!IsLocked
<1>4. t.m = [l EXCEPT !.unlocked = b, !.mkeys = K]
  BY DEF Relocked
<1> HIDE DEF l, b
<1>5. LockedForm(r.m, l)
  BY <1>1, <1>2, LockedFacts
<1>6. t.m = [crypted |-> l.crypted, unlocked |-> b, keys |-> l.keys,
             mkeys |-> K, decoys |-> l.decoys, pool |-> l.pool, held |-> l.held,
             dflt |-> l.dflt, hyb |-> l.hyb, rest |-> l.rest, unused |-> l.unused,
             used |-> l.used, book |-> l.book, index |-> l.index]
  BY <1>4, <1>5 DEF MemShape, LockedForm
<1>7. /\ MemShape(t.m) /\ t.m.crypted = l.crypted /\ t.m.unlocked = b
      /\ t.m.keys = l.keys /\ t.m.pool = l.pool /\ t.m.held = l.held /\ t.m.dflt = l.dflt
      /\ t.m.hyb = l.hyb /\ t.m.rest = l.rest /\ t.m.unused = l.unused /\ t.m.used = l.used
      /\ t.m.index = l.index
  BY <1>6 DEF MemShape
<1>8. SameKeys(r.m, t.m) /\ Offered(t.m, h)
  BY <1>1, <1>5, <1>7 DEF SameKeys, Offered, LockedForm
<1>9. t.m.index = [r.m.index EXCEPT !.dirty = TRUE]
  BY <1>5, <1>7 DEF LockedForm
<1>10. IndexMem(t.m)
  BY <1>1, <1>9, LockedIndex
<1>11. SameRecords(r.d, t.d) /\ t.d.hybClear = r.d.hybClear
  <2>1. CASE t.d = r.d
    BY <1>1, <2>1 DEF SameRecords, HybridDisk
  <2>2. CASE t.d = [r.d EXCEPT !.pass = q]
    <3>1. t.d = [clear |-> r.d.clear, crypt |-> r.d.crypt, pass |-> q, pool |-> r.d.pool,
                 dflt |-> r.d.dflt, hybClear |-> r.d.hybClear, hybCrypt |-> r.d.hybCrypt,
                 used |-> r.d.used, book |-> r.d.book, paid |-> r.d.paid]
      BY <1>1, <2>2 DEF DiskShape
    <3>2. q # "none"
      BY WalletAssumption DEF Keys!KeysAssumption
    <3> QED BY <1>1, <3>1, <3>2 DEF SameRecords, HybridDisk, Keys!HybridStored, DiskShape
  <2> QED BY <2>1, <2>2 DEF Repassed
<1>12. HybridMem(t.m, t.d)
  BY <1>1, <1>5, <1>7, <1>11, <1>3 DEF HybridMem, SameRecords, LockedForm
<1> QED BY <1>8, <1>10, <1>11, <1>12, SwapFine

LEMMA ChangePassphraseKeeps ==
    ASSUME KeysInv, NEW p \in Passphrases, NEW q \in Passphrases,
           Keys!ChangeWalletPassphrase(p, q)
    PROVE  KeysInv'
<1> DEFINE K == (Keys!Locked(keyStore).mkeys \ {p}) \cup {q}
           m == [Keys!Locked(keyStore) EXCEPT !.unlocked = ~Keys!IsLocked(keyStore), !.mkeys = K]
           r == [m |-> keyStore, d |-> keyRecords, n |-> 0, f |-> 0]
           t1 == [m |-> m, d |-> [keyRecords EXCEPT !.pass = q], n |-> 0, f |-> 0]
           t2 == [m |-> m, d |-> keyRecords, n |-> 0, f |-> 1]
           t3 == [m |-> Keys!Locked(keyStore), d |-> keyRecords, n |-> 0, f |-> 0]
<1>1. /\ pc = "idle" /\ keyStore.crypted /\ handedOut' = handedOut
      /\ Keys!Install(t1, "idle") \/ Keys!Install(t2, "idle") \/ Keys!Install(t3, "idle")
  BY DEF Keys!ChangeWalletPassphrase, Keys!Same, Keys!Result, Keys!Failing
<1>2. Fine(r, handedOut) /\ r.m = keyStore /\ r.d = keyRecords /\ r.n = 0
  BY <1>1, FineFound
<1>3. Relocked(keyStore, K, m)
  BY DEF Relocked
<1>4. /\ ResultShape(t1) /\ t1.n = 0 /\ t1.m = m /\ t1.d = [keyRecords EXCEPT !.pass = q]
      /\ ResultShape(t2) /\ t2.n = 0 /\ t2.m = m /\ t2.d = keyRecords
      /\ ResultShape(t3) /\ t3.n = 0 /\ t3.m = Keys!Locked(keyStore) /\ t3.d = keyRecords
  <2> HIDE DEF m
  <2> QED BY DEF ResultShape
<1> HIDE DEF K, m, r, t1, t2, t3
<1>5. /\ Repassed(r.d, q, t1.d) /\ Relocked(r.m, K, t1.m) /\ t1.n = r.n /\ r.m.crypted
      /\ Repassed(r.d, q, t2.d) /\ Relocked(r.m, K, t2.m) /\ t2.n = r.n
  BY <1>1, <1>2, <1>3, <1>4 DEF Repassed
<1>6. Fine(t1, handedOut) /\ Fine(t2, handedOut)
  <2>1. Fine(t1, handedOut)
    BY <1>2, <1>4, <1>5, PassChanged
  <2>2. Fine(t2, handedOut)
    BY <1>2, <1>4, <1>5, PassChanged
  <2> QED BY <2>1, <2>2
<1>7. Fine(t3, handedOut)
  BY <1>1, <1>2, <1>4, LockedFine
<1> QED BY <1>1, <1>6, <1>7, FineInstalled

(* All records are written again in the other form, with the master key. *)
EncryptedMem(m, g) ==
    /\ MemShape(g) /\ g.crypted /\ ~g.unlocked /\ g.hyb = {} /\ g.unused = {}
    /\ g.rest = m.rest \cup m.hyb /\ g.index = [m.index EXCEPT !.dirty = TRUE]
    /\ g.keys = m.keys /\ g.pool = m.pool /\ g.held = m.held /\ g.dflt = m.dflt
    /\ g.used = m.used
EncryptedDisk(m, d, p, e) ==
    /\ DiskShape(e) /\ e.clear = d.clear \ m.keys /\ e.crypt = d.crypt \cup m.keys
    /\ e.hybClear = d.hybClear \ m.hyb /\ e.hybCrypt = d.hybCrypt \cup m.hyb
    /\ e.pass = p /\ e.pool = d.pool /\ e.dflt = d.dflt
    /\ e.used = d.used /\ e.book = d.book /\ e.paid = d.paid

LEMMA EncryptedDiskFact ==
    ASSUME NEW m, NEW d, DiskShape(d), NEW w, w = Keys!WriteCryptedKey(d, m.keys),
           NEW v, v = Keys!WriteHybridKey(w, m.hyb, TRUE), NEW p, NEW e, e = [v EXCEPT !.pass = p]
    PROVE  EncryptedDisk(m, d, p, e)
<1>1. w = [clear |-> d.clear \ m.keys, crypt |-> d.crypt \cup m.keys, pass |-> d.pass,
           pool |-> d.pool, dflt |-> d.dflt, hybClear |-> d.hybClear, hybCrypt |-> d.hybCrypt,
           used |-> d.used, book |-> d.book, paid |-> d.paid]
  BY DEF DiskShape, Keys!WriteCryptedKey
<1>2. Rewritten(w, w.hybClear \ m.hyb, w.hybCrypt \cup m.hyb, v)
  <2>1. v = [w EXCEPT !.hybCrypt = w.hybCrypt \cup m.hyb, !.hybClear = w.hybClear \ m.hyb]
    BY DEF Keys!WriteHybridKey
  <2>2. DiskShape(w)
    BY <1>1 DEF DiskShape
  <2> QED BY <2>1, <2>2, RewrittenFact
<1>3. e = [clear |-> v.clear, crypt |-> v.crypt, pass |-> p, pool |-> v.pool, dflt |-> v.dflt,
           hybClear |-> v.hybClear, hybCrypt |-> v.hybCrypt, used |-> v.used,
           book |-> v.book, paid |-> v.paid]
  <2>1. DiskShape(v)
    BY <1>2 DEF Rewritten
  <2> QED BY <2>1 DEF DiskShape
<1>4. /\ w.clear = d.clear \ m.keys /\ w.crypt = d.crypt \cup m.keys /\ w.pool = d.pool
      /\ w.dflt = d.dflt /\ w.hybClear = d.hybClear /\ w.hybCrypt = d.hybCrypt
      /\ w.used = d.used /\ w.book = d.book /\ w.paid = d.paid
  BY <1>1
<1>5. /\ v.clear = w.clear /\ v.crypt = w.crypt /\ v.pool = w.pool /\ v.dflt = w.dflt
      /\ v.hybClear = w.hybClear \ m.hyb /\ v.hybCrypt = w.hybCrypt \cup m.hyb
      /\ v.used = w.used /\ v.book = w.book /\ v.paid = w.paid
  BY <1>2 DEF Rewritten
<1>6. /\ DiskShape(e) /\ e.clear = v.clear /\ e.crypt = v.crypt /\ e.pass = p /\ e.pool = v.pool
      /\ e.dflt = v.dflt /\ e.hybClear = v.hybClear /\ e.hybCrypt = v.hybCrypt
      /\ e.used = v.used /\ e.book = v.book /\ e.paid = v.paid
  BY <1>3 DEF DiskShape
<1> QED BY <1>4, <1>5, <1>6 DEF EncryptedDisk

LEMMA EncryptedMemFact ==
    ASSUME NEW m, NEW l, LockedForm(m, l), NEW K, NEW g,
           g = [l EXCEPT !.crypted = TRUE, !.mkeys = K, !.rest = l.rest \cup m.hyb]
    PROVE  EncryptedMem(m, g)
<1>1. g = [crypted |-> TRUE, unlocked |-> l.unlocked, keys |-> l.keys, mkeys |-> K,
           decoys |-> l.decoys, pool |-> l.pool, held |-> l.held, dflt |-> l.dflt,
           hyb |-> l.hyb, rest |-> l.rest \cup m.hyb, unused |-> l.unused, used |-> l.used,
           book |-> l.book, index |-> l.index]
  BY DEF LockedForm, MemShape
<1>2. /\ MemShape(g) /\ g.crypted /\ g.unlocked = l.unlocked /\ g.keys = l.keys
      /\ g.pool = l.pool /\ g.held = l.held /\ g.dflt = l.dflt /\ g.hyb = l.hyb
      /\ g.rest = l.rest \cup m.hyb /\ g.unused = l.unused /\ g.used = l.used
      /\ g.index = l.index
  BY <1>1 DEF MemShape
<1> QED BY <1>2 DEF EncryptedMem, LockedForm

LEMMA EncryptedFacts ==
    ASSUME NEW m, MemShape(m), NEW d, DiskShape(d), NEW p,
           NEW r, r = Keys!EncryptCommit(m, d, p)
    PROVE  EncryptedMem(m, r.m) /\ EncryptedDisk(m, d, p, r.d) /\ r.n = 0 /\ ResultShape(r)
<1> DEFINE l == Keys!Locked(m)
           K == l.mkeys \cup {p}
           g == [l EXCEPT !.crypted = TRUE, !.mkeys = K, !.rest = l.rest \cup m.hyb]
           w == Keys!WriteCryptedKey(d, m.keys)
           v == Keys!WriteHybridKey(w, m.hyb, TRUE)
           e == [v EXCEPT !.pass = p]
<1>1. r = [m |-> g, d |-> e, n |-> 0, f |-> 0]
  BY DEF Keys!EncryptCommit, Keys!Same, Keys!Result
<1>2. EncryptedDisk(m, d, p, e)
  <2>1. w = Keys!WriteCryptedKey(d, m.keys)
    OBVIOUS
  <2> HIDE DEF w
  <2>2. v = Keys!WriteHybridKey(w, m.hyb, TRUE)
    OBVIOUS
  <2> HIDE DEF v
  <2>3. e = [v EXCEPT !.pass = p]
    OBVIOUS
  <2> HIDE DEF e
  <2> QED BY <2>1, <2>2, <2>3, EncryptedDiskFact
<1>3. EncryptedMem(m, g)
  <2>1. LockedForm(m, l)
    BY LockedFacts
  <2> HIDE DEF l, K
  <2>2. g = [l EXCEPT !.crypted = TRUE, !.mkeys = K, !.rest = l.rest \cup m.hyb]
    OBVIOUS
  <2> HIDE DEF g
  <2> QED BY <2>1, <2>2, EncryptedMemFact
<1> HIDE DEF g, e
<1> QED BY <1>1, <1>2, <1>3 DEF ResultShape

LEMMA EncryptWalletKeeps ==
    ASSUME KeysInv, NEW p \in Passphrases, Keys!EncryptWallet(p)
    PROVE  KeysInv'
<1> DEFINE m == keyStore
           d == keyRecords
           r == Keys!EncryptCommit(keyStore, keyRecords, p)
<1>1. /\ pc = "idle" /\ ~m.crypted /\ Keys!Install(r, "encrypted") /\ handedOut' = handedOut
  BY DEF Keys!EncryptWallet
<1>2. /\ next \in Nat \ {0} /\ Good(m, d, next) /\ Handed(handedOut, d) /\ Offered(m, handedOut)
  BY <1>1, FineFound
<1>3. /\ KeyDisk(d, next) /\ HybridDisk(d) /\ KeyMem(m, d, next) /\ HybridMem(m, d)
      /\ IndexMem(m) /\ MemShape(m) /\ DiskShape(d)
  BY <1>2 DEF Good, KeyMem, KeyDisk
<1>4. EncryptedMem(m, r.m) /\ EncryptedDisk(m, d, p, r.d) /\ r.n = 0 /\ ResultShape(r)
  BY <1>3, EncryptedFacts
<1> HIDE DEF r, m, d
<1>5. /\ d.crypt = {} /\ d.hybCrypt = {} /\ Keys!Stored(d) = d.clear /\ d.clear \subseteq m.keys
      /\ Keys!HybridStored(d) = d.hybClear /\ m.hyb = d.hybClear /\ m.rest = {}
      /\ d.hybClear \subseteq d.clear
  BY <1>1, <1>3 DEF KeyMem, FormKept, HybridDisk, HybridMem, Keys!Stored, Keys!HybridStored
<1>6. /\ r.d.clear = {} /\ r.d.crypt = m.keys /\ Keys!Stored(r.d) = m.keys
      /\ r.d.hybClear = {} /\ r.d.hybCrypt = m.hyb /\ Keys!HybridStored(r.d) = m.hyb
      /\ Keys!HybridStored(d) = m.hyb /\ r.m.rest = m.hyb /\ Keys!Stored(d) \subseteq m.keys
  BY <1>4, <1>5 DEF EncryptedMem, EncryptedDisk, Keys!Stored, Keys!HybridStored
<1>7. p # "none"
  BY WalletAssumption DEF Keys!KeysAssumption
<1>8. KeyDisk(r.d, next)
  BY <1>3, <1>4, <1>6, <1>7 DEF KeyDisk, KeyMem, EncryptedDisk
<1>9. HybridDisk(r.d)
  BY <1>5, <1>6 DEF HybridDisk
<1>10. KeyMem(r.m, r.d, next)
  <2>1. FormKept(r.m, r.d)
    BY <1>4, <1>6, <1>7 DEF FormKept, EncryptedMem, EncryptedDisk
  <2> QED BY <1>3, <1>4, <1>6, <2>1 DEF KeyMem, EncryptedMem
<1>11. HybridMem(r.m, r.d)
  BY <1>4, <1>6 DEF HybridMem, EncryptedMem
<1>12. IndexMem(r.m)
  <2>1. r.m.index = [m.index EXCEPT !.dirty = TRUE]
    BY <1>4 DEF EncryptedMem
  <2> QED BY <1>3, <2>1, LockedIndex
<1>13. Handed(handedOut, r.d)
  <2>1. Keys!BackfillHybridUsedKeys(r.d) = Keys!BackfillHybridUsedKeys(d)
    BY <1>4, <1>6 DEF EncryptedDisk, Keys!BackfillHybridUsedKeys
  <2> QED BY <1>2, <1>6, <2>1 DEF Handed
<1>14. Offered(r.m, handedOut)
  BY <1>2, <1>4 DEF Offered, EncryptedMem
<1>15. Fine(r, handedOut')
  <2>1. next + r.n = next
    BY <1>2, <1>4
  <2> QED BY <1>1, <1>4, <1>8, <1>9, <1>10, <1>11, <1>12, <1>13, <1>14, <2>1 DEF Fine, Good
<1>16. Moves(r, "encrypted")
  BY <1>1, InstallMoves
<1>17. r.m.crypted /\ r.d.hybClear = {}
  BY <1>4, <1>6 DEF EncryptedMem
<1> QED BY <1>2, <1>15, <1>16, <1>17, FineMove

LEMMA EncryptWalletFailsKeeps ==
    ASSUME KeysInv, NEW p \in Passphrases, Keys!EncryptWalletFails(p)
    PROVE  KeysInv'
<1>1. /\ pc = "idle" /\ handedOut' = handedOut
      /\ \/ Keys!Install([m |-> [keyStore EXCEPT !.decoys = keyStore.decoys \cup {p}],
                          d |-> keyRecords, n |-> 0, f |-> 1], "idle")
         \/ Keys!Install([m |-> Keys!Empty, d |-> keyRecords, n |-> 0, f |-> 1], "off")
  BY DEF Keys!EncryptWalletFails, Keys!Failing, Keys!Same, Keys!Result
<1>2. /\ next \in Nat \ {0} /\ Good(keyStore, keyRecords, next)
      /\ Handed(handedOut, keyRecords) /\ Offered(keyStore, handedOut)
  BY <1>1, FineFound
<1>3. CASE Keys!Install([m |-> [keyStore EXCEPT !.decoys = keyStore.decoys \cup {p}],
                         d |-> keyRecords, n |-> 0, f |-> 1], "idle")
  <2> DEFINE D == keyStore.decoys \cup {p}
             g == [keyStore EXCEPT !.decoys = D]
             r == [m |-> keyStore, d |-> keyRecords, n |-> 0, f |-> 0]
             t == [m |-> g, d |-> keyRecords, n |-> 0, f |-> 1]
  <2>1. Fine(r, handedOut) /\ r.m = keyStore /\ r.d = keyRecords /\ r.n = 0
    BY <1>1, FineFound
  <2>2. Keys!Install(t, "idle")
    BY <1>3
  <2> HIDE DEF D
  <2>3. g = [crypted |-> keyStore.crypted, unlocked |-> keyStore.unlocked,
             keys |-> keyStore.keys, mkeys |-> keyStore.mkeys, decoys |-> D,
             pool |-> keyStore.pool, held |-> keyStore.held, dflt |-> keyStore.dflt,
             hyb |-> keyStore.hyb, rest |-> keyStore.rest, unused |-> keyStore.unused,
             used |-> keyStore.used, book |-> keyStore.book, index |-> keyStore.index]
    BY <1>2 DEF Good, KeyMem, MemShape
  <2>4. t.m = g /\ t.d = keyRecords /\ t.n = 0 /\ ResultShape(t)
    <3> HIDE DEF g
    <3> QED BY DEF ResultShape
  <2> HIDE DEF g, t, r
  <2>5. /\ SameKeys(keyStore, g) /\ g.hyb = keyStore.hyb /\ g.rest = keyStore.rest
        /\ g.index = keyStore.index /\ g.unused = keyStore.unused /\ g.used = keyStore.used
        /\ g.unlocked = keyStore.unlocked /\ g.crypted = keyStore.crypted
    BY <2>3 DEF SameKeys, MemShape
  <2>6. HybridMem(g, keyRecords) /\ Offered(g, handedOut) /\ IndexMem(g)
    BY <1>2, <2>5 DEF Good, HybridMem, Offered, IndexMem
  <2>7. SameRecords(keyRecords, keyRecords)
    BY <1>2, SameRecordsFact
  <2>8. Fine(t, handedOut)
    BY <2>1, <2>4, <2>5, <2>6, <2>7, SwapFine
  <2> QED BY <1>1, <2>2, <2>8, FineInstalled
<1>4. CASE Keys!Install([m |-> Keys!Empty, d |-> keyRecords, n |-> 0, f |-> 1], "off")
  <2>1. /\ pc' = "off" /\ keyStore' = Keys!Empty /\ keyRecords' = keyRecords /\ next' = next
    BY <1>2, <1>4 DEF Keys!Install
  <2> QED BY <1>1, <1>2, <2>1 DEF KeysInv, Good
<1> QED BY <1>1, <1>3, <1>4

LEMMA EncryptedPoolKeeps ==
    ASSUME KeysInv, NEW p \in Passphrases, Keys!EncryptedPool(p)
    PROVE  KeysInv'
<1> DEFINE m == Keys!Decrypted(keyStore)
           r == [m |-> keyStore, d |-> keyRecords, n |-> 0, f |-> 0]
           q == [m |-> m, d |-> keyRecords, n |-> 0, f |-> 0]
           t1 == Keys!ErasedPool(m, keyRecords)
           t2 == [m |-> Keys!Locked(keyStore), d |-> keyRecords, n |-> 0, f |-> 1]
           t3 == Keys!ErasedPool(keyStore, keyRecords)
<1>1. /\ pc = "encrypted" /\ handedOut' = handedOut
      /\ Keys!Install(t1, "encrefill") \/ Keys!Install(t2, "idle") \/ Keys!Install(t3, "idle")
  BY DEF Keys!EncryptedPool, Keys!Same, Keys!Result, Keys!Failing
<1>2. /\ next \in Nat \ {0} /\ Good(keyStore, keyRecords, next)
      /\ Handed(handedOut, keyRecords) /\ Offered(keyStore, handedOut)
      /\ keyStore.crypted /\ keyRecords.hybClear = {}
  BY <1>1, FineFound DEF KeysInv
<1>3. Fine(r, handedOut) /\ r.m = keyStore /\ r.d = keyRecords /\ r.n = 0
  BY <1>1, FineFound
<1>4. /\ q.m = m /\ q.d = keyRecords /\ q.n = 0 /\ ResultShape(q)
      /\ t2.m = Keys!Locked(keyStore) /\ t2.d = keyRecords /\ t2.n = 0 /\ ResultShape(t2)
  <2> HIDE DEF m
  <2> QED BY DEF ResultShape
<1>5. m = Keys!Decrypted(keyStore) /\ t1 = Keys!ErasedPool(m, keyRecords)
  OBVIOUS
<1> HIDE DEF m, r, q, t1, t2, t3
<1>6. Fine(q, handedOut) /\ m.crypted
  BY <1>2, <1>3, <1>4, <1>5, DecryptedFine
<1>7. Good(m, keyRecords, next) /\ Offered(m, handedOut)
  <2>1. next + q.n = next
    BY <1>2, <1>4
  <2> QED BY <1>4, <1>6, <2>1 DEF Fine
<1>8. CASE Keys!Install(t1, "encrefill")
  <2>1. Sound(m, keyRecords, t1)
    BY <1>2, <1>5, <1>7, ErasedSound DEF Good
  <2>2. Fine(t1, handedOut) /\ t1.m.crypted = m.crypted /\ t1.d.hybClear = keyRecords.hybClear
    BY <1>2, <1>7, <2>1, SoundFine
  <2>3. Fine(t1, handedOut') /\ t1.m.crypted /\ t1.d.hybClear = {}
    BY <1>1, <1>2, <1>6, <2>2
  <2>4. Moves(t1, "encrefill")
    BY <1>8, InstallMoves
  <2> QED BY <1>2, <2>3, <2>4, FineMove
<1>9. CASE Keys!Install(t2, "idle")
  <2>1. Fine(t2, handedOut)
    BY <1>2, <1>3, <1>4, LockedFine
  <2> QED BY <1>1, <1>9, <2>1, FineInstalled
<1>10. CASE Keys!Install(t3, "idle")
  <2>1. Sound(keyStore, keyRecords, t3)
    BY <1>2, ErasedSound DEF Good, t3
  <2>2. Fine(t3, handedOut)
    BY <1>2, <2>1, SoundFine
  <2> QED BY <1>1, <1>10, <2>2, FineInstalled
<1> QED BY <1>1, <1>8, <1>9, <1>10

LEMMA EncryptedRefillKeeps ==
    ASSUME KeysInv, Keys!EncryptedRefill
    PROVE  KeysInv'
<1> DEFINE r == Keys!Refilled(keyStore, keyRecords, 1, PoolSize)
           s == [m |-> keyStore, d |-> keyRecords, n |-> 0, f |-> 0]
           t1 == [r EXCEPT !.m = Keys!Locked(r.m)]
           t2 == [m |-> Keys!Locked(keyStore), d |-> keyRecords, n |-> 0, f |-> 1]
<1>1. /\ pc = "encrefill" /\ handedOut' = handedOut
      /\ Keys!Install(t1, "idle") \/ Keys!Install(t2, "idle")
  BY DEF Keys!EncryptedRefill, Keys!Same, Keys!Result, Keys!Failing
<1>2. /\ next \in Nat \ {0} /\ Good(keyStore, keyRecords, next)
      /\ Handed(handedOut, keyRecords) /\ Offered(keyStore, handedOut) /\ keyStore.crypted
  BY <1>1, FineFound DEF KeysInv
<1>3. Fine(s, handedOut) /\ s.m = keyStore /\ s.d = keyRecords /\ s.n = 0
  BY <1>1, FineFound
<1>4. Fine(r, handedOut) /\ r.m.crypted
  <2>1. PoolSize \in Nat /\ 1 \in Nat
    BY WalletAssumption DEF Keys!KeysAssumption
  <2>2. Sound(keyStore, keyRecords, r)
    BY <1>2, <2>1, RefilledSound DEF Good
  <2> HIDE DEF r
  <2> QED BY <1>2, <2>2, SoundFine
<1> HIDE DEF r, s
<1>5. ResultShape(t1) /\ t1.n = r.n /\ t1.d = r.d /\ t1.m = Keys!Locked(r.m)
  <2>1. t1 = [m |-> Keys!Locked(r.m), d |-> r.d, n |-> r.n, f |-> r.f]
    BY <1>4 DEF Fine, ResultShape
  <2> HIDE DEF t1
  <2> QED BY <2>1 DEF ResultShape
<1>6. ResultShape(t2) /\ t2.n = s.n /\ t2.d = s.d /\ t2.m = Keys!Locked(s.m)
  BY <1>3 DEF ResultShape
<1> HIDE DEF t1, t2
<1>7. Fine(t1, handedOut)
  BY <1>4, <1>5, LockedFine
<1>8. Fine(t2, handedOut)
  BY <1>2, <1>3, <1>6, LockedFine
<1> QED BY <1>1, <1>7, <1>8, FineInstalled

-----------------------------------------------------------------------------
(* Start and stop *)

LEMMA StopKeeps ==
    ASSUME KeysInv, Keys!Stop
    PROVE  KeysInv'
<1>1. /\ pc' = "off" /\ keyStore' = Keys!Empty /\ keyRecords' = keyRecords /\ next' = next
      /\ handedOut' = handedOut
  BY DEF Keys!Stop
<1> QED BY <1>1 DEF KeysInv

(* What was loaded agrees with the disk, and the used keys are those it names. *)
LoadedForm(d, U, g) ==
    /\ MemShape(g) /\ (g.crypted <=> d.crypt # {}) /\ ~g.unlocked /\ g.keys = Keys!Stored(d)
    /\ g.pool = DOMAIN d.pool /\ g.held = [u \in Users |-> Keys!NoReserve] /\ g.dflt = d.dflt
    /\ d.crypt # {} => g.hyb = {} /\ g.rest = Keys!HybridStored(d)
    /\ d.crypt = {} => g.hyb = d.hybClear /\ g.rest = {}
    /\ g.unused = {} /\ g.used = U
    /\ g.index = [ids |-> {}, nMem |-> 0, nRest |-> 0, dirty |-> TRUE]

(* One field of the memory changes. *)
SameBut(a, b) ==
    /\ MemShape(b) /\ (b.crypted <=> a.crypted) /\ (b.unlocked <=> a.unlocked)
    /\ b.keys = a.keys /\ b.pool = a.pool /\ b.held = a.held /\ b.dflt = a.dflt
    /\ b.unused = a.unused /\ b.index = a.index

LEMMA WithUsed ==
    ASSUME NEW b, MemShape(b), NEW U
    PROVE  LET g == [b EXCEPT !.used = U]
           IN  SameBut(b, g) /\ g.hyb = b.hyb /\ g.rest = b.rest /\ g.used = U
<1> DEFINE g == [b EXCEPT !.used = U]
<1>1. g = [crypted |-> b.crypted, unlocked |-> b.unlocked, keys |-> b.keys, mkeys |-> b.mkeys,
           decoys |-> b.decoys, pool |-> b.pool, held |-> b.held, dflt |-> b.dflt,
           hyb |-> b.hyb, rest |-> b.rest, unused |-> b.unused, used |-> U, book |-> b.book,
           index |-> b.index]
  BY DEF MemShape
<1> HIDE DEF g
<1> QED BY <1>1 DEF SameBut, MemShape

LEMMA WithRest ==
    ASSUME NEW a, MemShape(a), NEW R
    PROVE  LET b == [a EXCEPT !.rest = R]
           IN  SameBut(a, b) /\ b.hyb = a.hyb /\ b.rest = R
<1> DEFINE b == [a EXCEPT !.rest = R]
<1>1. b = [crypted |-> a.crypted, unlocked |-> a.unlocked, keys |-> a.keys, mkeys |-> a.mkeys,
           decoys |-> a.decoys, pool |-> a.pool, held |-> a.held, dflt |-> a.dflt,
           hyb |-> a.hyb, rest |-> R, unused |-> a.unused, used |-> a.used, book |-> a.book,
           index |-> a.index]
  BY DEF MemShape
<1> HIDE DEF b
<1> QED BY <1>1 DEF SameBut, MemShape

LEMMA WithHyb ==
    ASSUME NEW a, MemShape(a), NEW H
    PROVE  LET b == [a EXCEPT !.hyb = H]
           IN  SameBut(a, b) /\ b.hyb = H /\ b.rest = a.rest
<1> DEFINE b == [a EXCEPT !.hyb = H]
<1>1. b = [crypted |-> a.crypted, unlocked |-> a.unlocked, keys |-> a.keys, mkeys |-> a.mkeys,
           decoys |-> a.decoys, pool |-> a.pool, held |-> a.held, dflt |-> a.dflt,
           hyb |-> H, rest |-> a.rest, unused |-> a.unused, used |-> a.used, book |-> a.book,
           index |-> a.index]
  BY DEF MemShape
<1> HIDE DEF b
<1> QED BY <1>1 DEF SameBut, MemShape

LEMMA RecordsForm ==
    ASSUME NEW c, NEW S, NEW K, NEW P, NEW h, NEW D, NEW B, NEW x, NEW a,
           a = [crypted |-> c, unlocked |-> FALSE, keys |-> S, mkeys |-> K, decoys |-> {},
                pool |-> P, held |-> h, dflt |-> D, hyb |-> {}, rest |-> {}, unused |-> {},
                used |-> {}, book |-> B, index |-> x]
    PROVE  /\ MemShape(a) /\ a.crypted = c /\ ~a.unlocked /\ a.keys = S /\ a.pool = P
           /\ a.held = h /\ a.dflt = D /\ a.hyb = {} /\ a.rest = {} /\ a.unused = {}
           /\ a.index = x
BY DEF MemShape

(* What the records alone give. *)
RecordsLoaded(d, a) ==
    /\ MemShape(a) /\ (a.crypted <=> d.crypt # {}) /\ ~a.unlocked /\ a.keys = Keys!Stored(d)
    /\ a.pool = DOMAIN d.pool /\ a.held = [u \in Users |-> Keys!NoReserve] /\ a.dflt = d.dflt
    /\ a.hyb = {} /\ a.rest = {} /\ a.unused = {}
    /\ a.index = [ids |-> {}, nMem |-> 0, nRest |-> 0, dirty |-> TRUE]

LEMMA RecordsFacts ==
    ASSUME NEW d
    PROVE  RecordsLoaded(d, Keys!LoadedRecords(d))
<1> DEFINE x == [ids |-> {}, nMem |-> 0, nRest |-> 0, dirty |-> TRUE]
           held == [u \in Users |-> Keys!NoReserve]
           c == d.crypt # {}
           K == {d.pass} \ {"none"}
           S == Keys!Stored(d)
           P == DOMAIN d.pool
           E == Keys!Empty
           a == Keys!LoadedRecords(d)
<1>1. E = [crypted |-> FALSE, unlocked |-> FALSE, keys |-> {}, mkeys |-> {}, decoys |-> {},
           pool |-> {}, held |-> held, dflt |-> 0, hyb |-> {}, rest |-> {}, unused |-> {},
           used |-> {}, book |-> {}, index |-> x]
  BY DEF Keys!Empty, Keys!NoKey
<1>2. a = [E EXCEPT !.crypted = c, !.keys = S, !.mkeys = K, !.pool = P, !.dflt = d.dflt,
                    !.book = d.book]
  BY DEF Keys!LoadedRecords, Keys!NoPass
<1>3. c <=> d.crypt # {}
  OBVIOUS
<1> HIDE DEF x, held, c, K, S, P, E, a
<1>4. a = [crypted |-> c, unlocked |-> FALSE, keys |-> S, mkeys |-> K, decoys |-> {},
           pool |-> P, held |-> held, dflt |-> d.dflt, hyb |-> {}, rest |-> {}, unused |-> {},
           used |-> {}, book |-> d.book, index |-> x]
  BY <1>1, <1>2
<1>5. /\ MemShape(a) /\ a.crypted = c /\ ~a.unlocked /\ a.keys = S /\ a.pool = P
      /\ a.held = held /\ a.dflt = d.dflt /\ a.hyb = {} /\ a.rest = {} /\ a.unused = {}
      /\ a.index = x
  BY <1>4, RecordsForm
<1>6. a.crypted <=> d.crypt # {}
  BY <1>3, <1>5
<1>7. RecordsLoaded(d, a)
  BY <1>5, <1>6 DEF RecordsLoaded, S, P, held, x
<1> QED BY <1>7 DEF a

LEMMA LoadedFacts ==
    ASSUME NEW d, NEW U
    PROVE  LoadedForm(d, U, [Keys!LoadHybridKeys(Keys!LoadedRecords(d), d) EXCEPT !.used = U])
<1> DEFINE a == Keys!LoadedRecords(d)
           b == Keys!LoadHybridKeys(a, d)
           g == [b EXCEPT !.used = U]
<1>1. RecordsLoaded(d, a)
  BY RecordsFacts
<1>2. b = IF a.crypted THEN [a EXCEPT !.rest = Keys!HybridStored(d)]
                       ELSE [a EXCEPT !.hyb = d.hybClear]
  BY DEF Keys!LoadHybridKeys
<1> HIDE DEF a, b
<1>3. MemShape(a)
  BY <1>1 DEF RecordsLoaded
<1>4. CASE a.crypted
  <2>1. SameBut(a, b) /\ b.hyb = a.hyb /\ b.rest = Keys!HybridStored(d)
    BY <1>2, <1>3, <1>4, WithRest
  <2>2. SameBut(b, g) /\ g.hyb = b.hyb /\ g.rest = b.rest /\ g.used = U
    BY <2>1, WithUsed DEF SameBut
  <2> HIDE DEF g
  <2>3. LoadedForm(d, U, g)
    BY <1>1, <1>4, <2>1, <2>2 DEF SameBut, RecordsLoaded, LoadedForm
  <2> QED BY <2>3 DEF a, b, g
<1>5. CASE ~a.crypted
  <2>1. SameBut(a, b) /\ b.hyb = d.hybClear /\ b.rest = a.rest
    BY <1>2, <1>3, <1>5, WithHyb
  <2>2. SameBut(b, g) /\ g.hyb = b.hyb /\ g.rest = b.rest /\ g.used = U
    BY <2>1, WithUsed DEF SameBut
  <2> HIDE DEF g
  <2>3. LoadedForm(d, U, g)
    BY <1>1, <1>5, <2>1, <2>2 DEF SameBut, RecordsLoaded, LoadedForm
  <2> QED BY <2>3 DEF a, b, g
<1> QED BY <1>4, <1>5

LEMMA LoadedFine ==
    ASSUME next \in Nat \ {0}, NEW d, KeyDisk(d, next), HybridDisk(d), NEW h, Handed(h, d),
           NEW U, U = Keys!BackfillHybridUsedKeys(d),
           NEW r, ResultShape(r), r.n = 0, LoadedForm(d, U, r.m),
           r.d = d \/ r.d = [d EXCEPT !.used = U]
    PROVE  Fine(r, h)
<1> DEFINE e == r.d
           g == r.m
<1>1. LoadedForm(d, U, g)
  OBVIOUS
<1>2. /\ DiskShape(e) /\ e.clear = d.clear /\ e.crypt = d.crypt /\ e.pass = d.pass
      /\ e.pool = d.pool /\ e.dflt = d.dflt /\ e.hybClear = d.hybClear
      /\ e.hybCrypt = d.hybCrypt /\ e.book = d.book /\ e.paid = d.paid
      /\ e.used = d.used \/ e.used = U
  <2>1. CASE e = d
    BY <2>1 DEF KeyDisk
  <2>2. CASE e = [d EXCEPT !.used = U]
    <3>1. e = [clear |-> d.clear, crypt |-> d.crypt, pass |-> d.pass, pool |-> d.pool,
               dflt |-> d.dflt, hybClear |-> d.hybClear, hybCrypt |-> d.hybCrypt,
               used |-> U, book |-> d.book, paid |-> d.paid]
      BY <2>2 DEF KeyDisk, DiskShape
    <3> HIDE DEF e
    <3> QED BY <3>1 DEF DiskShape
  <2> QED BY <2>1, <2>2
<1> HIDE DEF e, g
<1>3. /\ Keys!Stored(e) = Keys!Stored(d) /\ Keys!HybridStored(e) = Keys!HybridStored(d)
      /\ U \subseteq Keys!BackfillHybridUsedKeys(e)
  BY <1>2 DEF Keys!Stored, Keys!HybridStored, Keys!BackfillHybridUsedKeys
<1>4. KeyDisk(e, next)
  BY <1>2, <1>3 DEF KeyDisk
<1>5. HybridDisk(e)
  BY <1>2, <1>3 DEF HybridDisk
<1>6. KeyMem(g, e, next)
  <2>1. FormKept(g, e)
    BY <1>1, <1>2 DEF FormKept, LoadedForm, KeyDisk
  <2>2. Bounded(g.pool) /\ g.dflt \in Keys!Stored(d) \cup {0} /\ g.keys = Keys!Stored(d)
        /\ Keys!Stored(d) \subseteq Numbers(next) /\ MemShape(g)
    BY <1>1 DEF LoadedForm, KeyDisk
  <2>3. /\ g.held = [u \in Users |-> g.held[u]]
        /\ \A u \in Users : g.held[u].i \in Nat /\ g.held[u].k = 0
    BY <1>1 DEF LoadedForm, Keys!NoReserve, Keys!NoIndex, Keys!NoKey
  <2> QED BY <1>3, <2>1, <2>2, <2>3 DEF KeyMem
<1>7. HybridMem(g, e)
  <2>1. CASE d.crypt # {}
    BY <1>1, <1>3, <2>1 DEF HybridMem, LoadedForm
  <2>2. CASE d.crypt = {}
    <3>1. d.hybClear = Keys!HybridStored(d)
      BY <2>2 DEF HybridDisk, Keys!HybridStored
    <3> QED BY <1>1, <1>3, <2>2, <3>1 DEF HybridMem, LoadedForm
  <2> QED BY <2>1, <2>2
<1>8. IndexMem(g)
  <2> DEFINE x == [ids |-> {}, nMem |-> 0, nRest |-> 0, dirty |-> TRUE]
  <2>1. x = [ids |-> x.ids, nMem |-> x.nMem, nRest |-> x.nRest, dirty |-> x.dirty] /\ x.dirty
    OBVIOUS
  <2>2. g.index = x
    BY <1>1 DEF LoadedForm
  <2> HIDE DEF x
  <2> QED BY <2>1, <2>2 DEF IndexMem
<1>9. Handed(h, e)
  BY <1>3 DEF Handed
<1>10. Offered(g, h)
  BY <1>1 DEF Offered, Handed, LoadedForm
<1>11. next + r.n = next
  OBVIOUS
<1> QED BY <1>4, <1>5, <1>6, <1>7, <1>8, <1>9, <1>10, <1>11 DEF Fine, Good, e, g

LEMMA LoadWalletKeeps ==
    ASSUME KeysInv, Keys!LoadWallet
    PROVE  KeysInv'
<1> DEFINE U == Keys!BackfillHybridUsedKeys(keyRecords)
           a == Keys!LoadedRecords(keyRecords)
           b == Keys!LoadHybridKeys(a, keyRecords)
           g == [b EXCEPT !.used = U]
           r1 == [m |-> g, d |-> [keyRecords EXCEPT !.used = U], n |-> 0, f |-> 0]
           r2 == [m |-> g, d |-> keyRecords, n |-> 0, f |-> 1]
<1>1. handedOut' = handedOut /\ (Keys!Install(r1, "loaded") \/ Keys!Install(r2, "loaded"))
  BY DEF Keys!LoadWallet, Keys!Same, Keys!Result, Keys!Failing
<1>2. U = Keys!BackfillHybridUsedKeys(keyRecords)
  OBVIOUS
<1>3. LoadedForm(keyRecords, U, g)
  <2> HIDE DEF U
  <2> QED BY LoadedFacts
<1> HIDE DEF U, a, b, g
<1>4. /\ ResultShape(r1) /\ r1.n = 0 /\ r1.m = g /\ r1.d = [keyRecords EXCEPT !.used = U]
      /\ ResultShape(r2) /\ r2.n = 0 /\ r2.m = g /\ r2.d = keyRecords
  BY DEF ResultShape
<1>5. /\ next \in Nat \ {0} /\ KeyDisk(keyRecords, next) /\ HybridDisk(keyRecords)
      /\ Handed(handedOut', keyRecords)
  BY <1>1 DEF KeysInv
<1> HIDE DEF r1, r2
<1>6. Fine(r1, handedOut')
  BY <1>2, <1>3, <1>4, <1>5, LoadedFine
<1>7. Fine(r2, handedOut')
  BY <1>2, <1>3, <1>4, <1>5, LoadedFine
<1> QED BY <1>1, <1>5, <1>6, <1>7, InstallMoves, FineMove

-----------------------------------------------------------------------------
(* The invariant *)

LEMMA NoPoolShape == <<>> = [i \in DOMAIN <<>> |-> <<>>[i]] /\ DOMAIN <<>> = {}
OBVIOUS

LEMMA DiskStarts ==
    ASSUME NEW n \in Nat \ {0}, NEW C, NEW E, NEW p, NEW D, NEW H, NEW B, NEW A, NEW d,
           d = [clear |-> C, crypt |-> E, pass |-> p, pool |-> <<>>, dflt |-> D, hybClear |-> H,
                hybCrypt |-> {}, used |-> {}, book |-> B, paid |-> A],
           C = {} \/ E = {}, E # {} => p # "none", C \cup E \subseteq Numbers(n),
           D \in C \cup E \cup {0}, H \subseteq C \cup E
    PROVE  KeyDisk(d, n) /\ HybridDisk(d) /\ Keys!Stored(d) = C \cup E
           /\ Keys!HybridStored(d) = H /\ Keys!BackfillHybridUsedKeys(d) = B \cup (A \cap H)
<1>1. /\ DiskShape(d) /\ d.clear = C /\ d.crypt = E /\ d.pass = p /\ d.pool = <<>> /\ d.dflt = D
      /\ d.hybClear = H /\ d.hybCrypt = {} /\ d.used = {} /\ d.book = B /\ d.paid = A
  BY DEF DiskShape
<1>2. /\ Keys!Stored(d) = C \cup E /\ Keys!HybridStored(d) = H
      /\ Keys!BackfillHybridUsedKeys(d) = B \cup (A \cap H)
  BY <1>1 DEF Keys!Stored, Keys!HybridStored, Keys!BackfillHybridUsedKeys
<1>3. DOMAIN d.pool = {} /\ d.pool = [i \in DOMAIN d.pool |-> d.pool[i]]
  BY <1>1, NoPoolShape
<1>4. Bounded({})
  BY DEF Bounded
<1>5. KeyDisk(d, n)
  BY <1>1, <1>2, <1>3, <1>4 DEF KeyDisk
<1>6. HybridDisk(d)
  BY <1>1, <1>2 DEF HybridDisk
<1> QED BY <1>2, <1>5, <1>6

LEMMA OldForm ==
    ASSUME NEW Z, NEW Q, NEW C, NEW H, NEW B, NEW A, NEW n, NEW p, NEW a, NEW b,
           a = [clear |-> Z, crypt |-> Z, pass |-> p, pool |-> Q, dflt |-> n, hybClear |-> Z,
                hybCrypt |-> Z, used |-> Z, book |-> Z, paid |-> Z],
           b = [a EXCEPT !.clear = C, !.hybClear = H, !.dflt = 1, !.book = B, !.paid = A]
    PROVE  b = [clear |-> C, crypt |-> Z, pass |-> p, pool |-> Q, dflt |-> 1, hybClear |-> H,
                hybCrypt |-> Z, used |-> Z, book |-> B, paid |-> A]
OBVIOUS

LEMMA OldCryptedForm ==
    ASSUME NEW Z, NEW Q, NEW C, NEW H, NEW B, NEW A, NEW p, NEW q, NEW a, NEW b,
           a = [clear |-> C, crypt |-> Z, pass |-> p, pool |-> Q, dflt |-> 1, hybClear |-> H,
                hybCrypt |-> Z, used |-> Z, book |-> B, paid |-> A],
           b = [a EXCEPT !.clear = Z, !.crypt = C, !.pass = q]
    PROVE  b = [clear |-> Z, crypt |-> C, pass |-> q, pool |-> Q, dflt |-> 1, hybClear |-> H,
                hybCrypt |-> Z, used |-> Z, book |-> B, paid |-> A]
OBVIOUS

LEMMA KeysStart ==
    ASSUME Keys!Init
    PROVE  KeysInv
<1> DEFINE d == keyRecords
<1>1. pc = "off" /\ keyStore = Keys!Empty
  BY DEF Keys!Init
<1> SUFFICES next \in Nat \ {0} /\ KeyDisk(d, next) /\ HybridDisk(d) /\ Handed(handedOut, d)
  BY <1>1 DEF KeysInv
<1>2. Keys!NewDisk = [clear |-> {}, crypt |-> {}, pass |-> "none", pool |-> <<>>, dflt |-> 0,
                      hybClear |-> {}, hybCrypt |-> {}, used |-> {}, book |-> {}, paid |-> {}]
  BY DEF Keys!NewDisk, Keys!NoPass, Keys!NoKey
<1>3. Keys!OldDisk = [clear |-> {1, 2}, crypt |-> {}, pass |-> "none", pool |-> <<>>, dflt |-> 1,
                      hybClear |-> {1, 2}, hybCrypt |-> {}, used |-> {}, book |-> {1}, paid |-> {2}]
  <2>1. Keys!OldDisk = [Keys!NewDisk EXCEPT !.clear = {1, 2}, !.hybClear = {1, 2}, !.dflt = 1,
                                            !.book = {1}, !.paid = {2}]
    BY DEF Keys!OldDisk
  <2> QED BY ONLY <1>2, <2>1, OldForm
<1>4. ASSUME NEW p
      PROVE  Keys!OldCrypted(p) =
        [clear |-> {}, crypt |-> {1, 2}, pass |-> p, pool |-> <<>>, dflt |-> 1,
         hybClear |-> {1, 2}, hybCrypt |-> {}, used |-> {}, book |-> {1}, paid |-> {2}]
  <2>1. Keys!OldCrypted(p) = [Keys!OldDisk EXCEPT !.clear = {}, !.crypt = {1, 2}, !.pass = p]
    BY DEF Keys!OldCrypted
  <2> QED BY ONLY <1>3, <2>1, OldCryptedForm
<1>5. CASE d = Keys!NewDisk /\ next = 1 /\ handedOut = [owed |-> {}, issued |-> {}]
  <2>1. 1 \in Nat \ {0} /\ {} \cup {} \subseteq Numbers(1)
    OBVIOUS
  <2>2. KeyDisk(d, 1) /\ HybridDisk(d)
    BY <1>2, <1>5, <2>1, DiskStarts
  <2> QED BY <1>5, <2>1, <2>2 DEF Handed
<1>6. ASSUME NEW C, NEW E, NEW p, C \cup E = {1, 2}, C = {} \/ E = {}, E # {} => p # "none",
             d = [clear |-> C, crypt |-> E, pass |-> p, pool |-> <<>>, dflt |-> 1,
                  hybClear |-> {1, 2}, hybCrypt |-> {}, used |-> {}, book |-> {1}, paid |-> {2}],
             next = 3, handedOut = [owed |-> {1, 2}, issued |-> {1, 2}]
      PROVE  next \in Nat \ {0} /\ KeyDisk(d, next) /\ HybridDisk(d) /\ Handed(handedOut, d)
  <2>1. 3 \in Nat \ {0} /\ C \cup E \subseteq Numbers(3) /\ 1 \in C \cup E \cup {0}
        /\ {1, 2} \subseteq C \cup E
    BY <1>6 DEF Numbers
  <2>2. KeyDisk(d, 3) /\ HybridDisk(d) /\ Keys!Stored(d) = C \cup E
        /\ Keys!HybridStored(d) = {1, 2}
        /\ Keys!BackfillHybridUsedKeys(d) = {1} \cup ({2} \cap {1, 2})
    BY <1>6, <2>1, DiskStarts
  <2> QED BY <1>6, <2>1, <2>2 DEF Handed
<1>7. CASE d = Keys!OldDisk /\ next = 3 /\ handedOut = [owed |-> {1, 2}, issued |-> {1, 2}]
  BY <1>3, <1>6, <1>7
<1>8. ASSUME NEW p \in Passphrases, d = Keys!OldCrypted(p), next = 3,
             handedOut = [owed |-> {1, 2}, issued |-> {1, 2}]
      PROVE  next \in Nat \ {0} /\ KeyDisk(d, next) /\ HybridDisk(d) /\ Handed(handedOut, d)
  <2>1. p # "none"
    BY WalletAssumption DEF Keys!KeysAssumption
  <2> QED BY <1>4, <1>6, <1>8, <2>1
<1> QED BY <1>5, <1>7, <1>8 DEF Keys!Init

LEMMA KeysInvInit ==
    ASSUME Init
    PROVE  KeysInv
BY KeysStart DEF Init

LEMMA KeysStepKeeps ==
    ASSUME KeysInv, Keys!Next
    PROVE  KeysInv'
<1>1. ASSUME NEW u \in Users,
             Keys!GetReservedKey(u) \/ Keys!GetReservedKeyAgain(u) \/ Keys!KeepKey(u)
               \/ Keys!ReturnKey(u)
      PROVE  KeysInv'
  BY <1>1, GetReservedKeyKeeps, GetReservedKeyAgainKeeps, KeepKeyKeeps, ReturnKeyKeeps
<1>2. ASSUME NEW b \in BOOLEAN,
             Keys!GetNewAddress(b) \/ Keys!GetHybridAddress(b) \/ Keys!ImportHybridKey(b)
      PROVE  KeysInv'
  BY <1>2, GetNewAddressKeeps, GetHybridAddressKeeps, ImportHybridKeyKeeps
<1>3. ASSUME NEW p \in Passphrases,
             Keys!Unlock(p) \/ Keys!EncryptWallet(p) \/ Keys!EncryptWalletFails(p)
               \/ Keys!EncryptedPool(p)
      PROVE  KeysInv'
  BY <1>3, UnlockKeeps, EncryptWalletKeeps, EncryptWalletFailsKeeps, EncryptedPoolKeeps
<1>4. ASSUME NEW p \in Passphrases, NEW q \in Passphrases, Keys!ChangeWalletPassphrase(p, q)
      PROVE  KeysInv'
  BY <1>4, ChangePassphraseKeeps
<1>5. CASE Keys!TopUp
  BY <1>5, TopUpKeeps
<1>6. CASE Keys!ReplaceDefaultKey
  BY <1>6, ReplaceDefaultKeyKeeps
<1>7. CASE Keys!KeyPoolRefill
  BY <1>7, KeyPoolRefillKeeps
<1>8. CASE Keys!Refill
  BY <1>8, RefillKeeps
<1>9. CASE Keys!RefillTopUp
  BY <1>9, RefillTopUpKeeps
<1>10. CASE Keys!EncryptedRefill
  BY <1>10, EncryptedRefillKeeps
<1>11. CASE Keys!ImportPrivKey
  BY <1>11, ImportPrivKeyKeeps
<1>12. CASE Keys!FindHybridKeyByLegacyID
  BY <1>12, FindHybridKeyKeeps
<1>13. CASE Keys!Lock
  BY <1>13, LockKeeps
<1>14. CASE Keys!LoadWallet
  BY <1>14, LoadWalletKeeps
<1>15. CASE Keys!LoadHybridPool
  BY <1>15, LoadHybridPoolKeeps
<1>16. CASE Keys!FirstRun
  BY <1>16, FirstRunKeeps
<1>17. CASE Keys!Stop
  BY <1>17, StopKeeps
<1> QED BY <1>1, <1>2, <1>3, <1>4, <1>5, <1>6, <1>7, <1>8, <1>9, <1>10, <1>11, <1>12, <1>13,
           <1>14, <1>15, <1>16, <1>17 DEF Keys!Next

LEMMA KeysInvKept ==
    ASSUME KeysInv, [Next]_<<part, txVars, keyVars, accountVars, groupVars, viewVars>>
    PROVE  KeysInv'
<1>1. CASE KeysStep
  BY <1>1, KeysStepKeeps DEF KeysStep
<1>2. CASE UNCHANGED keyVars
  BY <1>2 DEF KeysInv, keyVars
<1>3. PaymentsStep \/ AccountsStep \/ GroupStep \/ ViewStep => UNCHANGED keyVars
  BY DEF PaymentsStep, AccountsStep, GroupStep, ViewStep
<1> QED BY <1>1, <1>2, <1>3 DEF Next

LEMMA KeysInvHolds == Spec => []KeysInv
<1>1. Init => KeysInv
  BY KeysInvInit
<1>2. KeysInv /\ [Next]_<<part, txVars, keyVars, accountVars, groupVars, viewVars>> => KeysInv'
  BY KeysInvKept
<1> QED BY <1>1, <1>2, PTL DEF Spec

-----------------------------------------------------------------------------
(* What it says of the wallet *)

LEMMA RecoverableFromInv ==
    ASSUME KeysInv
    PROVE  KeysRecoverable
<1>1. ASSUME NEW k \in Keys!Stored(keyRecords)
      PROVE  Keys!Recoverable(k)
  BY <1>1 DEF KeysInv, KeyDisk, Keys!Stored, Keys!Recoverable, Keys!NoPass
<1>2. \A u \in Users : keyStore.held[u].k \in Keys!Stored(keyRecords) \cup {0}
  <2>1. CASE pc # "off"
    BY <2>1 DEF KeysInv, Good, KeyMem
  <2>2. CASE pc = "off"
    <3>1. keyStore.held = [u \in Users |-> Keys!NoReserve]
      BY <2>2 DEF KeysInv, Keys!Empty
    <3> QED BY <3>1 DEF Keys!NoReserve, Keys!NoKey
  <2> QED BY <2>1, <2>2
<1>3. /\ handedOut.owed \subseteq Keys!Stored(keyRecords)
      /\ keyRecords.dflt \in Keys!Stored(keyRecords) \cup {0}
      /\ handedOut.issued \subseteq Keys!HybridStored(keyRecords)
  BY DEF KeysInv, Handed, KeyDisk
<1> QED BY <1>1, <1>2, <1>3 DEF KeysRecoverable, Keys!KeysRecoverable, Keys!NoKey

LEMMA ConsistentFromInv ==
    ASSUME KeysInv
    PROVE  Keys!HybridConsistent
<1> SUFFICES ASSUME pc = "idle"
             PROVE  /\ Keys!CheckHybridKeys(keyStore, keyRecords) \subseteq keyRecords.hybClear
                    /\ keyStore.crypted /\ keyStore.unlocked => keyRecords.hybClear = {}
  BY DEF Keys!HybridConsistent
<1>1. KeyDisk(keyRecords, next) /\ HybridDisk(keyRecords) /\ KeyMem(keyStore, keyRecords, next)
      /\ HybridMem(keyStore, keyRecords)
  BY DEF KeysInv, Good
<1>2. Keys!LoadedIssues(keyStore) = {}
  BY <1>1 DEF KeyMem, HybridMem, HybridDisk, Keys!LoadedIssues, Keys!IsLocked
<1>3. Keys!DatabaseIssues(keyStore, keyRecords) = {}
  BY <1>1 DEF HybridMem, Keys!DatabaseIssues
<1>4. Keys!RecordIssues(keyStore, keyRecords) \subseteq keyRecords.hybClear
  <2>1. CASE keyStore.crypted
    BY <1>1, <2>1 DEF KeyMem, HybridDisk, Keys!RecordIssues, Keys!HybridStored
  <2>2. CASE ~keyStore.crypted
    <3>1. keyRecords.hybCrypt = {}
      BY <1>1, <2>2 DEF KeyMem, FormKept, HybridDisk
    <3> QED BY <3>1 DEF Keys!RecordIssues, Keys!HybridStored
  <2> QED BY <2>1, <2>2
<1> QED BY <1>1, <1>2, <1>3, <1>4 DEF HybridMem, Keys!CheckHybridKeys

LEMMA FreshFromInv ==
    ASSUME KeysInv
    PROVE  Keys!LegacyIndexFresh
<1>1. CASE pc = "off"
  <2>1. keyStore.index.dirty
    BY <1>1 DEF KeysInv, Keys!Empty
  <2> QED BY <2>1 DEF Keys!LegacyIndexFresh, Keys!IndexStale
<1>2. CASE pc # "off"
  <2> SUFFICES ASSUME ~Keys!IndexStale(keyStore)
               PROVE  keyStore.index.ids = keyStore.hyb \cup keyStore.rest
    BY DEF Keys!LegacyIndexFresh
  <2>1. /\ ~keyStore.index.dirty
        /\ keyStore.index.nMem = Cardinality(keyStore.hyb)
        /\ keyStore.index.nRest = Cardinality(keyStore.rest)
    BY SameCardinality DEF Keys!IndexStale
  <2>2. PICK H \in SUBSET keyStore.hyb, R \in SUBSET keyStore.rest :
           /\ keyStore.index.ids = H \cup R
           /\ keyStore.index.nMem = Cardinality(H) /\ keyStore.index.nRest = Cardinality(R)
    BY <1>2, <2>1 DEF KeysInv, Good, IndexMem
  <2>3. keyStore.hyb \subseteq Numbers(next) /\ keyStore.rest \subseteq Numbers(next)
        /\ next \in Nat
    BY <1>2 DEF KeysInv, Good, KeyDisk, HybridDisk, HybridMem
  <2>4. IsFiniteSet(keyStore.hyb) /\ IsFiniteSet(keyStore.rest)
    BY <2>3, NumbersFinite
  <2>5. H = keyStore.hyb
    BY <2>1, <2>2, <2>4, FS_Subset
  <2>6. R = keyStore.rest
    BY <2>1, <2>2, <2>4, FS_Subset
  <2> QED BY <2>2, <2>5, <2>6
<1> QED BY <1>1, <1>2

LEMMA LoadsFromInv ==
    ASSUME KeysInv
    PROVE  WalletLoads
<1>1. Keys!WalletLoads
  BY DEF KeysInv, KeyDisk, HybridDisk, Keys!WalletLoads, Keys!LoadFails
<1> QED BY <1>1, ConsistentFromInv, FreshFromInv DEF WalletLoads

-----------------------------------------------------------------------------
(* What the interface shows.  Every notification that waits is about a change  *)
(* that the wallet has made.                                                   *)

Names == Labels \cup {""}
Statuses == {"CT_NEW", "CT_UPDATED", "CT_DELETED"}
Notes == [kind : {"tx"}, of : DOMAIN Tx, status : Statuses]
         \cup [kind : {"address"}, of : ShownAddresses, label : Names, status : Statuses]
IsTx(e, t) == e.kind = "tx" /\ e.of = t

(* The last notification of a transaction says whether the wallet has it; of  *)
(* the others the list is right.                                              *)
TxTold(E, R, W, A, M) ==
    /\ \A i \in 1 .. Len(E), t \in DOMAIN Tx :
          IsTx(E[i], t) /\ (\A j \in 1 .. Len(E) : j > i => ~IsTx(E[j], t))
             => (t \in W <=> E[i].status # "CT_DELETED")
    /\ \A t \in DOMAIN Tx \ M :
          (\A j \in 1 .. Len(E) : ~IsTx(E[j], t)) =>
             /\ t \notin View!CoinBases => (t \in DOMAIN R <=> t \in W)
             /\ t \in A => t \in DOMAIN R

(* What a notification says of the book before and after the change. *)
BookMoves(b, e, c) ==
    \/ e.kind = "tx" /\ c = b
    \/ /\ e.kind = "address"
       /\ \/ e.status = "CT_NEW" /\ e.of \notin DOMAIN b /\ c = View!With(b, e.of, e.label)
          \/ e.status = "CT_UPDATED" /\ e.of \in DOMAIN b /\ c = View!With(b, e.of, e.label)
          \/ e.status = "CT_DELETED" /\ c = View!Without(b, e.of)

Agree(T, b, M) ==
    \A a \in ShownAddresses \ M :
        (a \in DOMAIN T <=> a \in DOMAIN b) /\ (a \in DOMAIN T => T[a] = b[a])

(* The table is an earlier state of the book, and what waits leads from there *)
(* to the present one.                                                        *)
BooksLead(h, E, T, B, M) ==
    /\ Agree(T, h[0], M) /\ h[Len(E)] = B
    /\ \A i \in 1 .. Len(E) : BookMoves(h[i - 1], E[i], h[i])
BookTold(E, T, B, M) == \E h : BooksLead(h, E, T, B, M)

ViewTyped ==
    /\ events \in Seq(Notes)
    /\ shownWallet \subseteq DOMAIN Tx
    /\ inMain \subseteq shownWallet \cap View!CoinBases /\ announced \subseteq inMain
    /\ prevBest \in inMain \cup {"none"}
    /\ \A a \in DOMAIN addressBook : addressBook[a] \in Names
    /\ \A a \in DOMAIN table : table[a] \in Names
    /\ stage \in {"start", "addresses", "transactions", "subscribed"}
    /\ stage # "subscribed" => events = <<>>

ViewInv ==
    /\ ViewTyped
    /\ stage # "start" => BookTold(events, table, addressBook, missed)
    /\ stage \in {"transactions", "subscribed"} =>
         TxTold(events, rows, shownWallet, announced, missed)

LEMMA AppendFacts ==
    ASSUME NEW S, NEW E \in Seq(S), NEW n \in S
    PROVE  /\ Append(E, n) \in Seq(S) /\ Len(E) \in Nat /\ Len(Append(E, n)) = Len(E) + 1
           /\ \A i \in 1 .. Len(E) : Append(E, n)[i] = E[i]
           /\ Append(E, n)[Len(E) + 1] = n
OBVIOUS

LEMMA TailFacts ==
    ASSUME NEW S, NEW E \in Seq(S), E # <<>>
    PROVE  /\ Tail(E) \in Seq(S) /\ Len(E) \in Nat \ {0} /\ Len(Tail(E)) = Len(E) - 1
           /\ Head(E) = E[1] /\ E[1] \in S
           /\ \A i \in 1 .. Len(E) - 1 : Tail(E)[i] = E[i + 1]
OBVIOUS

(* A change of the wallet and its notification. *)
LEMMA TxAppended ==
    ASSUME NEW E \in Seq(Notes), NEW n \in Notes, NEW R, NEW W, NEW A, NEW M, NEW V, NEW B,
           TxTold(E, R, W, A, M),
           \A t \in DOMAIN Tx : ~IsTx(n, t) => (t \in V <=> t \in W) /\ (t \in B => t \in A),
           \A t \in DOMAIN Tx : IsTx(n, t) => (t \in V <=> n.status # "CT_DELETED")
    PROVE  TxTold(Append(E, n), R, V, B, M)
<1> DEFINE F == Append(E, n)
<1>1. /\ Len(E) \in Nat /\ Len(F) = Len(E) + 1
      /\ \A i \in 1 .. Len(E) : F[i] = E[i]
      /\ F[Len(E) + 1] = n
  BY AppendFacts
<1> HIDE DEF F
<1>2. ASSUME NEW i \in 1 .. Len(F), NEW t \in DOMAIN Tx, IsTx(F[i], t),
             \A j \in 1 .. Len(F) : j > i => ~IsTx(F[j], t)
      PROVE  t \in V <=> F[i].status # "CT_DELETED"
  <2>1. CASE i = Len(E) + 1
    BY <1>1, <1>2, <2>1
  <2>2. CASE i # Len(E) + 1
    <3>1. i \in 1 .. Len(E) /\ F[i] = E[i]
      BY <1>1, <2>2
    <3>2. ~IsTx(n, t)
      BY <1>1, <1>2, <3>1
    <3>3. \A j \in 1 .. Len(E) : j > i => ~IsTx(E[j], t)
      BY <1>1, <1>2
    <3>4. t \in W <=> E[i].status # "CT_DELETED"
      BY <1>2, <3>1, <3>3 DEF TxTold
    <3> QED BY <3>1, <3>2, <3>4
  <2> QED BY <2>1, <2>2
<1>3. ASSUME NEW t \in DOMAIN Tx \ M, \A j \in 1 .. Len(F) : ~IsTx(F[j], t)
      PROVE  /\ t \notin View!CoinBases => (t \in DOMAIN R <=> t \in V)
             /\ t \in B => t \in DOMAIN R
  <2>1. ~IsTx(n, t) /\ \A j \in 1 .. Len(E) : ~IsTx(E[j], t)
    BY <1>1, <1>3
  <2> QED BY <2>1 DEF TxTold
<1> QED BY <1>2, <1>3 DEF TxTold, F

(* What the interface does with the oldest notification of a transaction. *)
LEMMA TxHandled ==
    ASSUME NEW M, ViewTyped, events # <<>>, Head(events).kind = "tx",
           TxTold(events, rows, shownWallet, announced, M)
    PROVE  TxTold(Tail(events), View!updateWallet(Head(events)), shownWallet, announced, M)
<1> DEFINE F == Tail(events)
           e == Head(events)
           R == View!updateWallet(Head(events))
<1>1. /\ Len(events) \in Nat \ {0} /\ Len(F) = Len(events) - 1
      /\ e = events[1] /\ e \in Notes
      /\ \A i \in 1 .. Len(events) - 1 : F[i] = events[i + 1]
  BY TailFacts DEF ViewTyped
<1>2. e.of \in DOMAIN Tx /\ e.status \in Statuses
  BY <1>1 DEF Notes
<1>3. \A t \in DOMAIN Tx : t # e.of => (t \in DOMAIN R <=> t \in DOMAIN rows)
  BY DEF View!updateWallet, View!With, View!Without
<1>4. ASSUME \A j \in 1 .. Len(F) : ~IsTx(F[j], e.of)
      PROVE  /\ e.of \notin View!CoinBases => (e.of \in DOMAIN R <=> e.of \in shownWallet)
             /\ e.of \in announced => e.of \in DOMAIN R
  <2>1. \A j \in 1 .. Len(events) : j > 1 => ~IsTx(events[j], e.of)
    <3> SUFFICES ASSUME NEW j \in 1 .. Len(events), j > 1 PROVE ~IsTx(events[j], e.of)
      OBVIOUS
    <3>1. j - 1 \in 1 .. Len(F) /\ F[j - 1] = events[j]
      BY <1>1
    <3> QED BY <1>4, <3>1
  <2>2. e.of \in shownWallet <=> e.status # "CT_DELETED"
    BY <1>1, <1>2, <2>1 DEF TxTold, IsTx
  <2>3. e.of \notin View!CoinBases \/ e.of \in announced =>
           ((e.of \in shownWallet /\ View!showTransaction(e.of)) <=> e.status # "CT_DELETED")
    BY <2>2 DEF ViewTyped, View!showTransaction
  <2>4. e.status # "CT_DELETED" /\ e.of \in shownWallet /\ View!showTransaction(e.of)
          => e.of \in DOMAIN R
    BY <1>2 DEF Statuses, View!updateWallet, View!DerivedStatus, View!With
  <2>5. e.status = "CT_DELETED" => e.of \notin DOMAIN R
    BY DEF View!updateWallet, View!DerivedStatus, View!Without
  <2> QED BY <2>2, <2>3, <2>4, <2>5 DEF ViewTyped
<1> HIDE DEF F, e, R
<1>5. ASSUME NEW i \in 1 .. Len(F), NEW t \in DOMAIN Tx, IsTx(F[i], t),
             \A j \in 1 .. Len(F) : j > i => ~IsTx(F[j], t)
      PROVE  t \in shownWallet <=> F[i].status # "CT_DELETED"
  <2>1. i + 1 \in 1 .. Len(events) /\ F[i] = events[i + 1]
    BY <1>1
  <2>2. \A j \in 1 .. Len(events) : j > i + 1 => ~IsTx(events[j], t)
    <3> SUFFICES ASSUME NEW j \in 1 .. Len(events), j > i + 1 PROVE ~IsTx(events[j], t)
      OBVIOUS
    <3>1. j - 1 \in 1 .. Len(F) /\ F[j - 1] = events[j] /\ j - 1 > i
      BY <1>1
    <3> QED BY <1>5, <3>1
  <2> QED BY <1>5, <2>1, <2>2 DEF TxTold
<1>6. ASSUME NEW t \in DOMAIN Tx \ M, \A j \in 1 .. Len(F) : ~IsTx(F[j], t)
      PROVE  /\ t \notin View!CoinBases => (t \in DOMAIN R <=> t \in shownWallet)
             /\ t \in announced => t \in DOMAIN R
  <2>1. CASE t = e.of
    BY <1>4, <1>6, <2>1
  <2>2. CASE t # e.of
    <3>1. \A j \in 1 .. Len(events) : ~IsTx(events[j], t)
      <4> SUFFICES ASSUME NEW j \in 1 .. Len(events) PROVE ~IsTx(events[j], t)
        OBVIOUS
      <4>1. CASE j = 1
        BY <1>1, <2>2, <4>1 DEF IsTx
      <4>2. CASE j # 1
        <5>1. j - 1 \in 1 .. Len(F) /\ F[j - 1] = events[j]
          BY <1>1, <4>2
        <5> QED BY <1>6, <5>1
      <4> QED BY <4>1, <4>2
    <3> QED BY <1>3, <2>2, <3>1 DEF TxTold
  <2> QED BY <2>1, <2>2
<1> QED BY <1>5, <1>6 DEF TxTold, F, R

(* A notification of an address leaves the transactions alone. *)
LEMMA TxPassed ==
    ASSUME NEW E \in Seq(Notes), E # <<>>, Head(E).kind = "address",
           NEW R, NEW W, NEW A, NEW M, TxTold(E, R, W, A, M)
    PROVE  TxTold(Tail(E), R, W, A, M)
<1> DEFINE F == Tail(E)
<1>1. /\ Len(E) \in Nat \ {0} /\ Len(F) = Len(E) - 1 /\ Head(E) = E[1]
      /\ \A i \in 1 .. Len(E) - 1 : F[i] = E[i + 1]
  BY TailFacts
<1> HIDE DEF F
<1>2. \A t : ~IsTx(E[1], t)
  BY <1>1 DEF IsTx
<1>3. \A j \in 1 .. Len(E) : j # 1 => j - 1 \in 1 .. Len(F) /\ F[j - 1] = E[j]
  BY <1>1
<1>4. ASSUME NEW i \in 1 .. Len(F), NEW t \in DOMAIN Tx, IsTx(F[i], t),
             \A j \in 1 .. Len(F) : j > i => ~IsTx(F[j], t)
      PROVE  t \in W <=> F[i].status # "CT_DELETED"
  <2>1. i + 1 \in 1 .. Len(E) /\ F[i] = E[i + 1]
    BY <1>1
  <2>2. \A j \in 1 .. Len(E) : j > i + 1 => ~IsTx(E[j], t)
    <3> SUFFICES ASSUME NEW j \in 1 .. Len(E), j > i + 1 PROVE ~IsTx(E[j], t)
      OBVIOUS
    <3>1. j - 1 \in 1 .. Len(F) /\ F[j - 1] = E[j] /\ j - 1 > i
      BY <1>1
    <3> QED BY <1>4, <3>1
  <2> QED BY <1>4, <2>1, <2>2 DEF TxTold
<1>5. ASSUME NEW t \in DOMAIN Tx \ M, \A j \in 1 .. Len(F) : ~IsTx(F[j], t)
      PROVE  /\ t \notin View!CoinBases => (t \in DOMAIN R <=> t \in W)
             /\ t \in A => t \in DOMAIN R
  <2>1. \A j \in 1 .. Len(E) : ~IsTx(E[j], t)
    BY <1>2, <1>3, <1>5
  <2> QED BY <2>1 DEF TxTold
<1> QED BY <1>4, <1>5 DEF TxTold, F

(* A change of the book and its notification. *)
LEMMA BookAppended ==
    ASSUME NEW E \in Seq(Notes), NEW n \in Notes, NEW T, NEW B, NEW C, NEW M,
           BookTold(E, T, B, M), BookMoves(B, n, C)
    PROVE  BookTold(Append(E, n), T, C, M)
<1> DEFINE F == Append(E, n)
<1>1. /\ Len(E) \in Nat /\ Len(F) = Len(E) + 1
      /\ \A i \in 1 .. Len(E) : F[i] = E[i]
      /\ F[Len(E) + 1] = n
  BY AppendFacts
<1> HIDE DEF F
<1>2. PICK h : BooksLead(h, E, T, B, M)
  BY DEF BookTold
<1> DEFINE g == [i \in 0 .. Len(E) + 1 |-> IF i = Len(E) + 1 THEN C ELSE h[i]]
<1>3. g[Len(F)] = C /\ \A i \in 0 .. Len(E) : g[i] = h[i]
  BY <1>1
<1> HIDE DEF g
<1>4. ASSUME NEW i \in 1 .. Len(F) PROVE BookMoves(g[i - 1], F[i], g[i])
  <2>1. CASE i = Len(F)
    <3>1. g[i - 1] = h[Len(E)] /\ F[i] = n /\ g[i] = C
      BY <1>1, <1>3, <2>1
    <3>2. h[Len(E)] = B
      BY <1>2 DEF BooksLead
    <3> QED BY <3>1, <3>2
  <2>2. CASE i # Len(F)
    <3>1. i \in 1 .. Len(E) /\ i - 1 \in 0 .. Len(E) /\ i \in 0 .. Len(E)
      BY <1>1, <2>2
    <3>2. BookMoves(h[i - 1], E[i], h[i])
      BY <1>2, <3>1 DEF BooksLead
    <3> QED BY <1>1, <1>3, <3>1, <3>2
  <2> QED BY <2>1, <2>2
<1>5. Agree(T, g[0], M)
  <2>1. g[0] = h[0]
    BY <1>1, <1>3
  <2> QED BY <1>2, <2>1 DEF BooksLead
<1>6. BooksLead(g, F, T, C, M)
  BY <1>3, <1>4, <1>5 DEF BooksLead
<1> QED BY <1>6 DEF BookTold, F

(* The table after an entry moves as the book did then. *)
LEMMA EntryAgrees ==
    ASSUME NEW b, NEW c, NEW M, NEW n \in Notes, Agree(table, b, M), BookMoves(b, n, c)
    PROVE  Agree(IF n.kind = "address" THEN View!updateEntry(n) ELSE table, c, M)
<1> DEFINE S == IF n.kind = "address" THEN View!updateEntry(n) ELSE table
<1> SUFFICES ASSUME NEW a \in ShownAddresses \ M
             PROVE  /\ a \in DOMAIN S <=> a \in DOMAIN c
                    /\ a \in DOMAIN S => S[a] = c[a]
  BY DEF Agree
<1>1. /\ a \in DOMAIN table <=> a \in DOMAIN b
      /\ a \in DOMAIN table => table[a] = b[a]
  BY DEF Agree
<1>2. CASE n.kind = "tx"
  BY <1>1, <1>2 DEF BookMoves
<1>3. CASE n.kind = "address" /\ n.status = "CT_NEW"
  <2>1. n.of \notin DOMAIN b /\ c = View!With(b, n.of, n.label)
    BY <1>3 DEF BookMoves
  <2>2. CASE n.of \in DOMAIN table
    <3>1. S = table /\ a # n.of
      BY <1>1, <1>3, <2>1, <2>2 DEF View!updateEntry
    <3> QED BY <1>1, <2>1, <3>1 DEF View!With
  <2>3. CASE n.of \notin DOMAIN table
    <3>1. S = View!With(table, n.of, n.label)
      BY <1>3, <2>3 DEF View!updateEntry
    <3> QED BY <1>1, <2>1, <3>1 DEF View!With
  <2> QED BY <2>2, <2>3
<1>4. CASE n.kind = "address" /\ n.status = "CT_UPDATED"
  <2>1. n.of \in DOMAIN b /\ c = View!With(b, n.of, n.label)
    BY <1>4 DEF BookMoves
  <2>2. CASE n.of \notin DOMAIN table
    <3>1. S = table /\ a # n.of
      BY <1>1, <1>4, <2>1, <2>2 DEF View!updateEntry
    <3> QED BY <1>1, <2>1, <3>1 DEF View!With
  <2>3. CASE n.of \in DOMAIN table
    <3>1. S = View!With(table, n.of, n.label)
      BY <1>4, <2>3 DEF View!updateEntry
    <3> QED BY <1>1, <2>1, <3>1 DEF View!With
  <2> QED BY <2>2, <2>3
<1>5. CASE n.kind = "address" /\ n.status = "CT_DELETED"
  <2>1. c = View!Without(b, n.of)
    BY <1>5 DEF BookMoves
  <2>2. CASE n.of \notin DOMAIN table
    <3>1. S = table
      BY <1>5, <2>2 DEF View!updateEntry
    <3> QED BY <1>1, <2>1, <2>2, <3>1 DEF View!Without
  <2>3. CASE n.of \in DOMAIN table
    <3>1. S = View!Without(table, n.of)
      BY <1>5, <2>3 DEF View!updateEntry
    <3> QED BY <1>1, <2>1, <3>1 DEF View!Without
  <2> QED BY <2>2, <2>3
<1>6. n.kind \in {"tx", "address"} /\ (n.kind = "address" => n.status \in Statuses)
  BY DEF Notes
<1> QED BY <1>2, <1>3, <1>4, <1>5, <1>6 DEF Statuses

LEMMA BookHandled ==
    ASSUME NEW M, NEW B, events \in Seq(Notes), events # <<>>, BookTold(events, table, B, M)
    PROVE  BookTold(Tail(events),
                    IF Head(events).kind = "address" THEN View!updateEntry(Head(events)) ELSE table,
                    B, M)
<1> DEFINE F == Tail(events)
           S == IF Head(events).kind = "address" THEN View!updateEntry(Head(events)) ELSE table
<1>1. /\ Len(events) \in Nat \ {0} /\ Len(F) = Len(events) - 1
      /\ Head(events) = events[1] /\ events[1] \in Notes
      /\ \A i \in 1 .. Len(events) - 1 : F[i] = events[i + 1]
  BY TailFacts
<1>2. PICK h : BooksLead(h, events, table, B, M)
  BY DEF BookTold
<1>3. BookMoves(h[0], events[1], h[1])
  BY <1>1, <1>2, 1 - 1 = 0 DEF BooksLead
<1>4. Agree(S, h[1], M)
  BY <1>1, <1>2, <1>3, EntryAgrees DEF BooksLead
<1> DEFINE g == [i \in 0 .. Len(events) - 1 |-> h[i + 1]]
<1> HIDE DEF F, S
<1>5. g[0] = h[1] /\ g[Len(F)] = B
  <2>1. 0 \in 0 .. Len(events) - 1 /\ Len(F) \in 0 .. Len(events) - 1
    BY <1>1
  <2>2. g[0] = h[0 + 1] /\ g[Len(F)] = h[Len(F) + 1]
    BY <2>1
  <2>3. 0 + 1 = 1 /\ Len(F) + 1 = Len(events)
    BY <1>1
  <2>4. h[Len(events)] = B
    BY <1>2 DEF BooksLead
  <2> QED BY <2>2, <2>3, <2>4
<1>6. ASSUME NEW i \in 1 .. Len(F) PROVE BookMoves(g[i - 1], F[i], g[i])
  <2>1. /\ i + 1 \in 1 .. Len(events) /\ (i + 1) - 1 = i /\ (i - 1) + 1 = i
        /\ i - 1 \in 0 .. Len(events) - 1 /\ i \in 0 .. Len(events) - 1
        /\ F[i] = events[i + 1]
    BY <1>1
  <2>2. BookMoves(h[(i + 1) - 1], events[i + 1], h[i + 1])
    BY <1>2, <2>1 DEF BooksLead
  <2>3. g[i - 1] = h[i] /\ g[i] = h[i + 1]
    BY <2>1
  <2> QED BY <2>1, <2>2, <2>3
<1> HIDE DEF g
<1>7. BooksLead(g, F, S, B, M)
  BY <1>4, <1>5, <1>6 DEF BooksLead
<1> QED BY <1>7 DEF BookTold, F, S

(* With nothing in the queue the table and the book agree. *)
LEMMA NothingWaits ==
    ASSUME NEW T, NEW B, NEW M
    PROVE  BookTold(<<>>, T, B, M) <=> Agree(T, B, M)
<1>1. Len(<<>>) = 0 /\ 1 .. 0 = {}
  OBVIOUS
<1>2. ASSUME Agree(T, B, M) PROVE BookTold(<<>>, T, B, M)
  <2> DEFINE h == [i \in {0} |-> B]
  <2>1. h[0] = B
    OBVIOUS
  <2> HIDE DEF h
  <2>2. BooksLead(h, <<>>, T, B, M)
    BY <1>1, <1>2, <2>1 DEF BooksLead
  <2> QED BY <2>2 DEF BookTold
<1>3. ASSUME BookTold(<<>>, T, B, M) PROVE Agree(T, B, M)
  BY <1>1, <1>3 DEF BookTold, BooksLead
<1> QED BY <1>2, <1>3

LEMMA NoTxWaits ==
    ASSUME NEW R, NEW W, NEW A, NEW M
    PROVE  TxTold(<<>>, R, W, A, M) <=>
             \A t \in DOMAIN Tx \ M :
                /\ t \notin View!CoinBases => (t \in DOMAIN R <=> t \in W)
                /\ t \in A => t \in DOMAIN R
<1>1. Len(<<>>) = 0 /\ 1 .. 0 = {}
  OBVIOUS
<1> QED BY <1>1 DEF TxTold

(* The three parts of the invariant about what waits. *)
Followed ==
    /\ events \in Seq(Notes)
    /\ stage # "subscribed" => events = <<>>
    /\ stage # "start" => BookTold(events, table, addressBook, missed)
    /\ stage \in {"transactions", "subscribed"} =>
         TxTold(events, rows, shownWallet, announced, missed)

LEMMA MoreMissed ==
    ASSUME NEW T, NEW b, NEW n \in Notes, NEW c, NEW M, Agree(T, b, M), BookMoves(b, n, c)
    PROVE  Agree(T, c, M \cup {n.of})
<1> SUFFICES ASSUME NEW a \in ShownAddresses \ (M \cup {n.of})
             PROVE  (a \in DOMAIN T <=> a \in DOMAIN c) /\ (a \in DOMAIN T => T[a] = c[a])
  BY DEF Agree
<1>1. (a \in DOMAIN b <=> a \in DOMAIN c) /\ (a \in DOMAIN b => b[a] = c[a])
  BY DEF BookMoves, View!With, View!Without
<1> QED BY <1>1 DEF Agree

LEMMA TxNotified ==
    ASSUME ViewInv, NEW n \in Notes, n.kind = "tx", View!Tell(<<n>>, {n.of}),
           UNCHANGED <<addressBook, rows, table, stage>>,
           \A t \in DOMAIN Tx : t # n.of => /\ t \in shownWallet' <=> t \in shownWallet
                                            /\ t \in announced' => t \in announced,
           n.of \in shownWallet' <=> n.status # "CT_DELETED"
    PROVE  Followed'
<1>1. events \in Seq(Notes)
  BY DEF ViewInv, ViewTyped
<1>2. CASE stage = "subscribed"
  <2>1. events' = Append(events, n) /\ missed' = missed
    BY <1>1, <1>2 DEF View!Tell
  <2>2. BookMoves(addressBook, n, addressBook)
    BY DEF BookMoves
  <2>3. BookTold(Append(events, n), table, addressBook, missed)
    BY <1>1, <1>2, <2>2, BookAppended DEF ViewInv
  <2>4. TxTold(Append(events, n), rows, shownWallet', announced', missed)
    <3>1. TxTold(events, rows, shownWallet, announced, missed)
      BY <1>2 DEF ViewInv
    <3> QED BY <1>1, <3>1, TxAppended DEF IsTx
  <2>5. Append(events, n) \in Seq(Notes)
    BY <1>1
  <2> QED BY <1>2, <2>1, <2>3, <2>4, <2>5 DEF Followed
<1>3. CASE stage # "subscribed"
  <2>1. events = <<>> /\ events' = events /\ missed' = missed \cup {n.of}
    BY <1>3 DEF View!Tell, ViewInv, ViewTyped
  <2>2. ASSUME stage # "start" PROVE BookTold(<<>>, table, addressBook, missed \cup {n.of})
    <3>1. Agree(table, addressBook, missed)
      BY <2>1, <2>2, NothingWaits DEF ViewInv
    <3>2. Agree(table, addressBook, missed \cup {n.of})
      BY <3>1 DEF Agree
    <3> QED BY <3>2, NothingWaits
  <2>3. ASSUME stage = "transactions"
        PROVE  TxTold(<<>>, rows, shownWallet', announced', missed \cup {n.of})
    <3>1. TxTold(<<>>, rows, shownWallet, announced, missed)
      BY <2>1, <2>3 DEF ViewInv
    <3> QED BY <3>1, NoTxWaits
  <2> QED BY <1>1, <1>3, <2>1, <2>2, <2>3 DEF Followed
<1> QED BY <1>2, <1>3

LEMMA AddressNotified ==
    ASSUME ViewInv, NEW n \in Notes, n.kind = "address", View!Tell(<<n>>, {n.of}),
           BookMoves(addressBook, n, addressBook'),
           UNCHANGED <<shownWallet, announced, rows, table, stage>>
    PROVE  Followed'
<1>1. events \in Seq(Notes)
  BY DEF ViewInv, ViewTyped
<1>2. CASE stage = "subscribed"
  <2>1. events' = Append(events, n) /\ missed' = missed
    BY <1>1, <1>2 DEF View!Tell
  <2>2. BookTold(Append(events, n), table, addressBook', missed)
    BY <1>1, <1>2, BookAppended DEF ViewInv
  <2>3. TxTold(Append(events, n), rows, shownWallet, announced, missed)
    <3>1. TxTold(events, rows, shownWallet, announced, missed)
      BY <1>2 DEF ViewInv
    <3> QED BY <1>1, <3>1, TxAppended DEF IsTx
  <2>4. Append(events, n) \in Seq(Notes)
    BY <1>1
  <2> QED BY <1>2, <2>1, <2>2, <2>3, <2>4 DEF Followed
<1>3. CASE stage # "subscribed"
  <2>1. events = <<>> /\ events' = events /\ missed' = missed \cup {n.of}
    BY <1>3 DEF View!Tell, ViewInv, ViewTyped
  <2>2. ASSUME stage # "start" PROVE BookTold(<<>>, table, addressBook', missed \cup {n.of})
    <3>1. Agree(table, addressBook, missed)
      BY <2>1, <2>2, NothingWaits DEF ViewInv
    <3> QED BY <3>1, MoreMissed, NothingWaits
  <2>3. ASSUME stage = "transactions"
        PROVE  TxTold(<<>>, rows, shownWallet, announced, missed \cup {n.of})
    <3>1. TxTold(<<>>, rows, shownWallet, announced, missed)
      BY <2>1, <2>3 DEF ViewInv
    <3> QED BY <3>1, NoTxWaits
  <2> QED BY <1>1, <1>3, <2>1, <2>2, <2>3 DEF Followed
<1> QED BY <1>2, <1>3

LEMMA ViewInvParts ==
    ASSUME Followed, ViewTyped
    PROVE  ViewInv
BY DEF Followed, ViewInv

LEMMA AddToWalletShown ==
    ASSUME ViewInv, NEW t \in DOMAIN Tx, View!AddToWallet(t)
    PROVE  ViewInv'
<1> DEFINE n == View!TxEvent(t, IF t \in shownWallet THEN "CT_UPDATED" ELSE "CT_NEW")
<1>1. n \in Notes /\ n.kind = "tx" /\ n.of = t /\ n.status # "CT_DELETED"
  BY DEF Notes, Statuses, View!TxEvent
<1>2. View!Tell(<<n>>, {n.of}) /\ UNCHANGED <<addressBook, rows, table, stage>>
  BY <1>1 DEF View!AddToWallet, View!ViewUnchanged
<1> HIDE DEF n
<1>3. Followed'
  BY <1>1, <1>2, TxNotified DEF View!AddToWallet
<1>4. ViewTyped'
  BY <1>3, <1>2 DEF Followed, ViewInv, ViewTyped, View!AddToWallet
<1> QED BY <1>3, <1>4, PTL, ViewInvParts

LEMMA ZapShown ==
    ASSUME ViewInv, NEW t \in DOMAIN Tx, View!ZapWalletTransaction(t)
    PROVE  ViewInv'
<1> DEFINE n == View!TxEvent(t, "CT_DELETED")
<1>1. n \in Notes /\ n.kind = "tx" /\ n.of = t /\ n.status = "CT_DELETED"
  BY DEF Notes, Statuses, View!TxEvent
<1>2. View!Tell(<<n>>, {n.of}) /\ UNCHANGED <<addressBook, rows, table, stage>>
  BY <1>1 DEF View!ZapWalletTransaction, View!ViewUnchanged
<1> HIDE DEF n
<1>3. Followed'
  BY <1>1, <1>2, TxNotified DEF View!ZapWalletTransaction
<1>4. ViewTyped'
  BY <1>3, <1>2 DEF Followed, ViewInv, ViewTyped, View!ZapWalletTransaction
<1> QED BY <1>3, <1>4, PTL, ViewInvParts

LEMMA SetBestChainShown ==
    ASSUME ViewInv, NEW main \in SUBSET (View!CoinBases \cap shownWallet),
           NEW best \in main \cup {"none"}, View!SetBestChain(main, best)
    PROVE  ViewInv'
<1>1. /\ inMain' = main /\ prevBest' = best
      /\ announced' = (announced \cup ({prevBest} \cap inMain)) \cap main
      /\ UNCHANGED <<shownWallet, addressBook, rows, table, stage>>
  BY DEF View!SetBestChain, View!ViewUnchanged
<1>2. Followed'
  <2>1. CASE prevBest \in shownWallet
    <3> DEFINE n == View!TxEvent(prevBest, "CT_UPDATED")
    <3>1. n \in Notes /\ n.kind = "tx" /\ n.of = prevBest /\ n.status # "CT_DELETED"
      BY <2>1 DEF Notes, Statuses, View!TxEvent, ViewInv, ViewTyped
    <3>2. View!Tell(<<n>>, {n.of})
      BY <2>1, <3>1 DEF View!SetBestChain
    <3> HIDE DEF n
    <3> QED BY <1>1, <2>1, <3>1, <3>2, TxNotified
  <2>2. CASE prevBest \notin shownWallet
    <3>1. UNCHANGED <<events, missed>>
      BY <2>2 DEF View!SetBestChain
    <3>2. announced' \subseteq announced
      BY <1>1, <2>2 DEF ViewInv, ViewTyped
    <3>3. ASSUME stage \in {"transactions", "subscribed"}
          PROVE  TxTold(events, rows, shownWallet, announced', missed)
      BY <3>2, <3>3 DEF ViewInv, TxTold
    <3> QED BY <1>1, <3>1, <3>3 DEF Followed, ViewInv, ViewTyped
  <2> QED BY <2>1, <2>2
<1>3. ViewTyped'
  BY <1>1, <1>2 DEF Followed, ViewInv, ViewTyped
<1> QED BY <1>2, <1>3, PTL, ViewInvParts

(* A label is set, by whomever. *)
LEMMA LabelShown ==
    ASSUME ViewInv, NEW a \in ShownAddresses, NEW label \in Names,
           View!SetAddressBookName(a, label), View!ViewUnchanged,
           UNCHANGED <<shownWallet, inMain, prevBest, announced>>
    PROVE  ViewInv'
<1> DEFINE n == View!AddressEvent(a, label,
                    IF a \in DOMAIN addressBook THEN "CT_UPDATED" ELSE "CT_NEW")
<1>1. /\ n \in Notes /\ n.kind = "address" /\ n.of = a /\ n.label = label
      /\ n.status = IF a \in DOMAIN addressBook THEN "CT_UPDATED" ELSE "CT_NEW"
  BY DEF Notes, Statuses, View!AddressEvent
<1>2. View!Tell(<<n>>, {n.of}) /\ addressBook' = View!With(addressBook, a, label)
  BY <1>1 DEF View!SetAddressBookName
<1> HIDE DEF n
<1>3. BookMoves(addressBook, n, addressBook')
  BY <1>1, <1>2 DEF BookMoves
<1>4. UNCHANGED <<rows, table, stage>>
  BY DEF View!ViewUnchanged
<1>5. Followed'
  BY <1>1, <1>2, <1>3, <1>4, AddressNotified
<1>6. ViewTyped'
  BY <1>2, <1>4, <1>5 DEF Followed, ViewInv, ViewTyped, View!With
<1> QED BY <1>5, <1>6, PTL, ViewInvParts

LEMMA RemoveRowShown ==
    ASSUME ViewInv, NEW a \in ShownAddresses, View!removeRow(a)
    PROVE  ViewInv'
<1> DEFINE n == View!AddressEvent(a, "", "CT_DELETED")
<1>1. /\ n \in Notes /\ n.kind = "address" /\ n.of = a /\ n.status = "CT_DELETED"
  BY DEF Notes, Names, Statuses, View!AddressEvent
<1>2. View!Tell(<<n>>, {n.of}) /\ addressBook' = View!Without(addressBook, a)
  BY <1>1 DEF View!removeRow, View!DelAddressBookName
<1> HIDE DEF n
<1>3. BookMoves(addressBook, n, addressBook')
  BY <1>1, <1>2 DEF BookMoves
<1>4. UNCHANGED <<shownWallet, inMain, prevBest, announced, rows, table, stage>>
  BY DEF View!removeRow, View!ViewUnchanged
<1>5. Followed'
  BY <1>1, <1>2, <1>3, <1>4, AddressNotified
<1>6. ViewTyped'
  BY <1>2, <1>4, <1>5 DEF Followed, ViewInv, ViewTyped, View!Without
<1> QED BY <1>5, <1>6, PTL, ViewInvParts

(* An address is edited: two notifications at once. *)
LEMMA EditAddressShown ==
    ASSUME ViewInv, NEW a \in ShownAddresses, NEW b \in ShownAddresses,
           stage = "subscribed", View!setDataAddress(a, b)
    PROVE  ViewInv'
<1> DEFINE m == View!AddressEvent(a, "", "CT_DELETED")
           n == View!AddressEvent(b, table[a], "CT_NEW")
<1>1. a \in DOMAIN table /\ b \notin DOMAIN addressBook /\ table[a] \in Names
  BY DEF View!setDataAddress, ViewInv, ViewTyped
<1>2. /\ m \in Notes /\ m.kind = "address" /\ m.of = a /\ m.status = "CT_DELETED"
      /\ n \in Notes /\ n.kind = "address" /\ n.of = b /\ n.status = "CT_NEW"
      /\ n.label = table[a]
  BY <1>1 DEF Notes, Names, Statuses, View!AddressEvent
<1>3. /\ events' = events \o <<m, n>> /\ missed' = missed
      /\ addressBook' = View!With(View!Without(addressBook, a), b, table[a])
      /\ UNCHANGED <<shownWallet, inMain, prevBest, announced, rows, table, stage>>
  BY DEF View!setDataAddress, View!Tell, View!ViewUnchanged
<1> HIDE DEF m, n
<1> DEFINE E == Append(events, m)
<1>4. events \in Seq(Notes) /\ E \in Seq(Notes) /\ events' = Append(E, n)
  BY <1>2, <1>3 DEF ViewInv, ViewTyped
<1>5. BookMoves(addressBook, m, View!Without(addressBook, a))
  BY <1>2 DEF BookMoves
<1>6. b \notin DOMAIN View!Without(addressBook, a)
  BY <1>1 DEF View!Without
<1>7. BookMoves(View!Without(addressBook, a), n, addressBook')
  BY <1>2, <1>3, <1>6 DEF BookMoves
<1>8. BookTold(E, table, View!Without(addressBook, a), missed)
  BY <1>2, <1>4, <1>5, BookAppended DEF ViewInv
<1>9. TxTold(E, rows, shownWallet, announced, missed)
  BY <1>2, <1>4, TxAppended DEF ViewInv, IsTx
<1> HIDE DEF E
<1>10. BookTold(Append(E, n), table, addressBook', missed)
  BY <1>2, <1>4, <1>7, <1>8, BookAppended
<1>11. TxTold(Append(E, n), rows, shownWallet, announced, missed)
  BY <1>2, <1>4, <1>9, TxAppended DEF IsTx
<1>12. Append(E, n) \in Seq(Notes)
  BY <1>2, <1>4
<1>13. Followed'
  BY <1>3, <1>4, <1>10, <1>11, <1>12 DEF Followed
<1>14. \A x \in DOMAIN addressBook' : addressBook'[x] \in Names
  BY <1>1, <1>3 DEF ViewInv, ViewTyped, View!With, View!Without
<1>15. ViewTyped'
  BY <1>3, <1>13, <1>14 DEF Followed, ViewInv, ViewTyped
<1> QED BY <1>13, <1>15, PTL, ViewInvParts

LEMMA RefreshAddressesShown ==
    ASSUME ViewInv, View!refreshAddressTable
    PROVE  ViewInv'
<1>1. /\ stage = "start" /\ stage' = "addresses" /\ table' = addressBook
      /\ UNCHANGED <<shownWallet, inMain, prevBest, addressBook, events, rows, announced>>
  BY DEF View!refreshAddressTable
<1>2. events = <<>>
  BY <1>1 DEF ViewInv, ViewTyped
<1>3. BookTold(<<>>, addressBook, addressBook, missed')
  BY NothingWaits DEF Agree
<1> QED BY <1>1, <1>2, <1>3 DEF ViewInv, ViewTyped

LEMMA RefreshWalletShown ==
    ASSUME ViewInv, View!refreshWallet
    PROVE  ViewInv'
<1>1. /\ stage = "addresses" /\ stage' = "transactions" /\ missed' = missed \ DOMAIN Tx
      /\ DOMAIN rows' = {t \in shownWallet : View!showTransaction(t)}
      /\ UNCHANGED <<shownWallet, inMain, prevBest, addressBook, events, table, announced>>
  BY DEF View!refreshWallet
<1>2. events = <<>>
  BY <1>1 DEF ViewInv, ViewTyped
<1>3. BookTold(<<>>, table, addressBook, missed')
  <2>1. Agree(table, addressBook, missed)
    BY <1>1, <1>2, NothingWaits DEF ViewInv
  <2>2. Agree(table, addressBook, missed')
    BY <1>1, <2>1, WalletAssumption DEF Agree, View!ViewAssumption
  <2> QED BY <2>2, NothingWaits
<1>4. TxTold(<<>>, rows', shownWallet, announced, missed')
  <2>1. announced \subseteq inMain /\ inMain \subseteq shownWallet
    BY DEF ViewInv, ViewTyped
  <2> QED BY <1>1, <2>1, NoTxWaits DEF View!showTransaction
<1> QED BY <1>1, <1>2, <1>3, <1>4 DEF ViewInv, ViewTyped

LEMMA SubscribeShown ==
    ASSUME ViewInv, View!subscribeToCoreSignals
    PROVE  ViewInv'
BY DEF ViewInv, ViewTyped, View!subscribeToCoreSignals

LEMMA HandleEventShown ==
    ASSUME ViewInv, View!HandleEvent
    PROVE  ViewInv'
<1> DEFINE e == Head(events)
<1>1. /\ events # <<>> /\ events' = Tail(events)
      /\ rows' = IF e.kind = "tx" THEN View!updateWallet(e) ELSE rows
      /\ table' = IF e.kind = "address" THEN View!updateEntry(e) ELSE table
      /\ UNCHANGED <<shownWallet, inMain, prevBest, addressBook, stage, missed, announced>>
  BY DEF View!HandleEvent
<1>2. /\ stage = "subscribed" /\ events \in Seq(Notes)
      /\ Tail(events) \in Seq(Notes) /\ e \in Notes
  BY <1>1, TailFacts DEF ViewInv, ViewTyped
<1> HIDE DEF e
<1>3. BookTold(Tail(events), table', addressBook, missed)
  BY <1>1, <1>2, BookHandled DEF ViewInv, e
<1>4. TxTold(Tail(events), rows', shownWallet, announced, missed)
  <2>1. TxTold(events, rows, shownWallet, announced, missed) /\ ViewTyped
    BY <1>2 DEF ViewInv
  <2>2. CASE e.kind = "tx"
    BY <1>1, <2>1, <2>2, TxHandled DEF e
  <2>3. CASE e.kind = "address"
    <3>1. rows' = rows
      BY <1>1, <2>3
    <3> QED BY <1>1, <1>2, <2>1, <2>3, <3>1, TxPassed DEF e
  <2>4. e.kind \in {"tx", "address"}
    BY <1>2 DEF Notes
  <2> QED BY <2>2, <2>3, <2>4
<1>5. \A a \in DOMAIN table' : table'[a] \in Names
  <2>1. CASE e.kind # "address"
    BY <1>1, <2>1 DEF ViewInv, ViewTyped
  <2>2. CASE e.kind = "address"
    <3>1. e.label \in Names
      BY <1>2, <2>2 DEF Notes
    <3>2. table' \in {table, View!With(table, e.of, e.label), View!Without(table, e.of)}
      BY <1>1, <2>2 DEF View!updateEntry
    <3> QED BY <3>1, <3>2 DEF ViewInv, ViewTyped, View!With, View!Without
  <2> QED BY <2>1, <2>2
<1> QED BY <1>1, <1>2, <1>3, <1>4, <1>5 DEF ViewInv, ViewTyped

LEMMA ViewInvKept ==
    ASSUME ViewInv, [Next]_<<part, txVars, keyVars, accountVars, groupVars, viewVars>>
    PROVE  ViewInv'
<1>1. CASE View!ViewNext
  <2>1. CASE \E t \in DOMAIN Tx : View!AddToWallet(t) \/ View!ZapWalletTransaction(t)
    BY <2>1, AddToWalletShown, ZapShown
  <2>2. CASE \E main \in SUBSET (View!CoinBases \cap shownWallet) :
               \E best \in main \cup {"none"} : View!SetBestChain(main, best)
    BY <2>2, SetBestChainShown
  <2>3. CASE \E a \in ShownAddresses, label \in Labels : View!CoreLabel(a, label)
    <3>1. PICK a \in ShownAddresses, label \in Labels : View!CoreLabel(a, label)
      BY <2>3
    <3> QED BY <3>1, LabelShown DEF View!CoreLabel, Names
  <2>4. ASSUME stage = "subscribed", NEW a \in ShownAddresses,
               \/ View!removeRow(a)
               \/ \E label \in Labels : View!setDataLabel(a, label) \/ View!addRow(a, label)
               \/ \E b \in ShownAddresses : View!setDataAddress(a, b)
        PROVE  ViewInv'
    <3>1. CASE View!removeRow(a)
      BY <3>1, RemoveRowShown
    <3>2. CASE \E label \in Labels : View!setDataLabel(a, label) \/ View!addRow(a, label)
      BY <3>2, LabelShown DEF View!setDataLabel, View!addRow, Names
    <3>3. CASE \E b \in ShownAddresses : View!setDataAddress(a, b)
      BY <2>4, <3>3, EditAddressShown
    <3> QED BY <2>4, <3>1, <3>2, <3>3
  <2> QED BY <1>1, <2>1, <2>2, <2>3, <2>4, RefreshAddressesShown, RefreshWalletShown,
             SubscribeShown, HandleEventShown DEF View!ViewNext
<1>2. CASE UNCHANGED viewVars
  BY <1>2 DEF ViewInv, ViewTyped, viewVars
<1> QED BY <1>1, <1>2 DEF Next, PaymentsStep, KeysStep, AccountsStep, GroupStep, ViewStep

LEMMA ViewInvHolds == Spec => []ViewInv
<1>1. Init => ViewInv
  BY DEF Init, View!ViewInit, View!NoFunction, ViewInv, ViewTyped
<1>2. ViewInv /\ [Next]_<<part, txVars, keyVars, accountVars, groupVars, viewVars>> => ViewInv'
  BY ViewInvKept
<1> QED BY <1>1, <1>2, PTL DEF Spec

-----------------------------------------------------------------------------
(* The theorems *)

(* Whatever the user relies on - an address or a change key given out, a key *)
(* imported, a reserved or the default key - can be recovered from the disk  *)
(* at every instant, through failed writes, encryption and the end of the    *)
(* process in between (wallet.cpp:448, 2584).                                *)
THEOREM OwedKeysRecoverable == Spec => []KeysRecoverable
<1>1. KeysInv => KeysRecoverable
  BY RecoverableFromInv
<1> QED BY <1>1, KeysInvHolds, PTL

(* What is on disk always loads, CheckHybridKeys has nothing to report that   *)
(* an unlock would not repair, and the reverse index that is taken as fresh   *)
(* is what a scan would find (wallet.cpp:448, wallethybrid.cpp:340).          *)
THEOREM WalletAlwaysLoads == Spec => []WalletLoads
<1>1. KeysInv => WalletLoads
  BY LoadsFromInv
<1> QED BY <1>1, KeysInvHolds, PTL

(* A hybrid address that was issued, by this process or an earlier one, is    *)
(* never on offer again (wallethybrid.cpp:1604).                              *)
THEOREM HybridAddressIssuedOnce == Spec => []IssuedOnce
<1>1. KeysInv => IssuedOnce
  BY DEF KeysInv, Offered, IssuedOnce, Keys!IssuedOnce
<1> QED BY <1>1, KeysInvHolds, PTL

(* When no notification waits, the interface shows the transactions and the   *)
(* addresses that the wallet has, whatever order changes, edits and           *)
(* notifications came in; it may lack what changed before it had subscribed   *)
(* (transactiontablemodel.cpp:81, main.cpp:2385).                             *)
THEOREM ViewKeepsUp == Spec => []ViewFollows
<1>1. ViewInv => ViewFollows
  <2> SUFFICES ASSUME ViewInv, stage = "subscribed", events = <<>>
               PROVE  /\ \A t \in DOMAIN Tx \ (View!CoinBases \cup missed) :
                            t \in DOMAIN rows <=> t \in shownWallet
                      /\ (announced \cap shownWallet) \ missed \subseteq DOMAIN rows
                      /\ \A a \in ShownAddresses \ missed :
                           /\ a \in DOMAIN table <=> a \in DOMAIN addressBook
                           /\ a \in DOMAIN table => table[a] = addressBook[a]
    BY DEF ViewFollows, View!ViewFollows
  <2>1. Agree(table, addressBook, missed)
    BY NothingWaits DEF ViewInv
  <2>2. TxTold(<<>>, rows, shownWallet, announced, missed)
    BY DEF ViewInv
  <2> QED BY <2>1, <2>2, NoTxWaits DEF Agree, ViewInv, ViewTyped
<1> QED BY <1>1, ViewInvHolds, PTL
=============================================================================
