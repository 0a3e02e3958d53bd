------------------------------ MODULE AddrMan ------------------------------
(***************************************************************************)
(* The address manager (addrman.cpp, addrman.h): entries by id, the new    *)
(* and tried buckets, the random order, the counters, and peers.dat, which *)
(* stores some of these and rebuilds the rest.                             *)
(*                                                                         *)
(* An address is an IP.  The times and failures of an entry only decide    *)
(* which entry is replaced and whether an update has news, so both are     *)
(* left open; the time of the last success is kept, because the tried      *)
(* table sorts by it.  Bucket numbers come from a keyed hash: any function *)
(* will do.                                                                *)
(***************************************************************************)
EXTENDS Integers, Sequences, FiniteSets, SequencesExt, FiniteSetsExt

CONSTANTS
    IPs, Sources,          \* network addresses, and the peers that report them
    NewBuckets, TriedBuckets,
    NewBucketOf,           \* [IPs -> [Sources -> NewBuckets]]
    TriedBucketOf,         \* [IPs -> TriedBuckets]
    NewBucketSize,         \* ADDRMAN_NEW_BUCKET_SIZE
    TriedBucketSize,       \* ADDRMAN_TRIED_BUCKET_SIZE
    BucketsPerAddress,     \* ADDRMAN_NEW_BUCKETS_PER_ADDRESS
    InspectOnEvict,        \* ADDRMAN_TRIED_ENTRIES_INSPECT_ON_EVICT
    GetAddrPercent,        \* ADDRMAN_GETADDR_MAX_PCT
    MaxId,                 \* bound on nIdCount
    MaxSuccess             \* bound on the times of a success

VARIABLE am      \* the CAddrMan object

addrVars == <<am>>

BucketsAssumption ==
    /\ NewBucketOf \in [IPs -> [Sources -> NewBuckets]]
    /\ TriedBucketOf \in [IPs -> TriedBuckets]

(* CAddrMan(): empty tables. *)
AddrInit ==
    am = [ids |-> 0, info |-> <<>>, random |-> <<>>, nNew |-> 0, nTried |-> 0,
          new |-> [b \in NewBuckets |-> {}],
          tried |-> [b \in TriedBuckets |-> <<>>]]

(* Lookup by network address, which the code does through mapAddr. *)
Find(a, ip) == {i \in DOMAIN a.info : a.info[i].ip = ip}

(* GetNewBucket: from the reported address and the group of the source. *)
GetNewBucket(ip, src) == NewBucketOf[ip][src]

(* GetTriedBucket: from the address alone. *)
GetTriedBucket(ip) == TriedBucketOf[ip]

(* A new id, at the end of the random order, in no bucket yet. *)
Create(a, ip, src) ==
    [a EXCEPT !.ids = @ + 1,
              !.info = (a.ids :> [ip |-> ip, src |-> src, refs |-> 0, tried |-> FALSE,
                                  pos |-> Len(a.random), success |-> 0]) @@ @,
              !.random = Append(@, a.ids),
              !.nNew = @ + 1]

(* Mutant: the positions stored in the entries stay behind. *)
SwapRandomForgetful(a, p, q) ==
    [a EXCEPT !.random = [@ EXCEPT ![p + 1] = a.random[q + 1], ![q + 1] = a.random[p + 1]]]

(* Positions count from zero. *)
SwapRandom(a, p, q) ==
    LET i == a.random[p + 1]  j == a.random[q + 1] IN
    [a EXCEPT !.info = [@ EXCEPT ![i].pos = q, ![j].pos = p],
              !.random = [@ EXCEPT ![p + 1] = j, ![q + 1] = i]]

(* The last reference went: the entry moves to the end of the order and is deleted. *)
Delete(a, i) ==
    LET s == SwapRandom(a, a.info[i].pos, Len(a.random) - 1) IN
    [s EXCEPT !.random = Front(@),
              !.info = [j \in DOMAIN @ \ {i} |-> @[j]],
              !.nNew = @ - 1]

(* One entry leaves a bucket.  It is the first terrible one, or else the   *)
(* oldest of four drawn at random, the same one perhaps four times: any.   *)
ShrinkNew(a, b) ==
    {LET u == [a EXCEPT !.new[b] = @ \ {i}, !.info[i].refs = @ - 1] IN
     IF u.info[i].refs = 0 THEN Delete(u, i) ELSE u : i \in a.new[b]}

(* Entry i gets one more reference in bucket b, which is shrunk when full. *)
Insert(a, i, b) ==
    LET r == [a EXCEPT !.info[i].refs = @ + 1] IN
    {[s EXCEPT !.new[b] = @ \cup {i}] :
        s \in IF Cardinality(a.new[b]) = NewBucketSize THEN ShrinkNew(r, b) ELSE {r}}

(* Add_: a new entry, or one more bucket for a known one.  Whether a known *)
(* one has news and passes the stochastic test is open.                    *)
AddAddress(ip, src) ==
    LET known == Find(am, ip)
        a == IF known = {} THEN Create(am, ip, src) ELSE am
        i == CHOOSE j \in Find(a, ip) : TRUE
        b == GetNewBucket(ip, src) IN
    /\ known = {} => am.ids < MaxId
    /\ ~a.info[i].tried
    /\ a.info[i].refs # BucketsPerAddress
    /\ i \notin a.new[b]
    /\ am' \in Insert(a, i, b)

(* SelectTried shuffles the first entries of a bucket and returns the      *)
(* position the least recent of them was drawn from: not, after the swap,  *)
(* the place where it now is.                                              *)
SelectTried(a, k) ==
    LET n == Min({InspectOnEvict, Len(a.tried[k])})
        Drawn(x, i, p) ==
            LET t == x.seq[p] IN
            [seq |-> [x.seq EXCEPT ![p] = x.seq[i], ![i] = t],
             oldest |-> IF x.oldest = {} \/ \E o \in x.oldest : a.info[t].success < a.info[o].success
                        THEN {t} ELSE x.oldest,
             pos |-> IF x.oldest = {} \/ \E o \in x.oldest : a.info[t].success < a.info[o].success
                     THEN p ELSE x.pos]
        draws[i \in 0 .. n] ==
            IF i = 0 THEN {[seq |-> a.tried[k], oldest |-> {}, pos |-> 0]}
            ELSE {Drawn(x, i, p) : x \in draws[i - 1], p \in i .. Len(a.tried[k])}
    IN draws[n]

(* Mutant: the entry that makes room is forgotten instead of moved. *)
ReplaceDeletes(a, k, x, i, origin) ==
    LET old == x.seq[x.pos]
        s == SwapRandom([a EXCEPT !.tried[k] = [x.seq EXCEPT ![x.pos] = i],
                                  !.info[i].tried = TRUE],
                        a.info[old].pos, Len(a.random) - 1) IN
    [s EXCEPT !.random = Front(@), !.info = [j \in DOMAIN @ \ {old} |-> @[j]]]

(* The entry at the chosen place goes back to the new bucket of its own    *)
(* source, or, when that is full, to the bucket the good entry came from.  *)
Replace(a, k, x, i, origin) ==
    LET old == x.seq[x.pos]
        u == GetNewBucket(a.info[old].ip, a.info[old].src)
        b == IF Cardinality(a.new[u]) < NewBucketSize THEN u ELSE origin IN
    [a EXCEPT !.info = [@ EXCEPT ![old].tried = FALSE, ![old].refs = 1, ![i].tried = TRUE],
              !.new[b] = @ \cup {old},
              !.nNew = @ + 1,
              !.tried[k] = [x.seq EXCEPT ![x.pos] = i]]

(* MakeTried: out of every new bucket, into the tried one. *)
MakeTried(a, i, origin) ==
    LET in == {b \in NewBuckets : i \in a.new[b]}
        out == [a EXCEPT !.new = [b \in NewBuckets |-> @[b] \ {i}],
                         !.info[i].refs = @ - Cardinality(in),
                         !.nNew = @ - 1]
        k == GetTriedBucket(a.info[i].ip) IN
    IF Len(a.tried[k]) < TriedBucketSize
    THEN {[out EXCEPT !.tried[k] = Append(@, i), !.nTried = @ + 1, !.info[i].tried = TRUE]}
    ELSE {Replace(out, k, x, i, origin) : x \in SelectTried(out, k)}

(* Good_: a version message came.  The code would put an entry that is in  *)
(* no new bucket into one first; TablesAgree says there is no such entry.   *)
Good(ip, t) ==
    \E i \in Find(am, ip) :
        LET a == [am EXCEPT !.info[i].success = t] IN
        \/ a.info[i].tried /\ am' = a
        \/ /\ ~a.info[i].tried
           /\ \E b \in {n \in NewBuckets : i \in a.new[n]} : am' \in MakeTried(a, i, b)

(* GetAddr_ shuffles the first entries of the random order. *)
GetAddr ==
    LET n == (GetAddrPercent * Len(am.random)) \div 100
        shuffled[m \in 0 .. n] ==
            IF m = 0 THEN {am}
            ELSE {SwapRandom(s, m - 1, p) : s \in shuffled[m - 1], p \in (m - 1) .. (Len(am.random) - 1)} IN
    /\ n > 0
    /\ am' \in shuffled[n]

(* The entries that have a property, in the order of their ids. *)
InOrder(a, P(_)) == SetToSortSeq({i \in DOMAIN a.info : P(i)}, <)

(* Writing peers.dat: new entries, tried entries, and each bucket as indices into the new ones. *)
Written(a) ==
    LET news == InOrder(a, LAMBDA i : a.info[i].refs # 0)
        trieds == InOrder(a, LAMBDA i : a.info[i].tried)
        Stored(i) == [ip |-> a.info[i].ip, src |-> a.info[i].src, success |-> a.info[i].success] IN
    [new |-> [n \in 1 .. a.nNew |-> Stored(news[n])],
     tried |-> [n \in 1 .. a.nTried |-> Stored(trieds[n])],
     buckets |-> [b \in NewBuckets |-> {CHOOSE n \in 1 .. Len(news) : news[n] = i : i \in a.new[b]}]]

(* The new entries of the file.  When the number of buckets has changed    *)
(* since, each goes to the bucket of its own source.                       *)
ReadNew(f, same) ==
    LET n == Len(f.new)
        Buckets(i) == {b \in NewBuckets : IF same THEN i + 1 \in f.buckets[b]
                                          ELSE b = GetNewBucket(f.new[i + 1].ip, f.new[i + 1].src)} IN
    [ids |-> n,
     info |-> [i \in 0 .. n - 1 |->
                  [ip |-> f.new[i + 1].ip, src |-> f.new[i + 1].src, refs |-> Cardinality(Buckets(i)),
                   tried |-> FALSE, pos |-> i, success |-> f.new[i + 1].success]],
     random |-> [i \in 1 .. n |-> i - 1],
     nNew |-> n,
     nTried |-> 0,
     new |-> [b \in NewBuckets |-> {i \in 0 .. n - 1 : b \in Buckets(i)}],
     tried |-> [b \in TriedBuckets |-> <<>>]]

(* One tried entry of the file; one that finds its bucket full is lost. *)
ReadTried(a, e) ==
    LET k == GetTriedBucket(e.ip) IN
    IF Len(a.tried[k]) < TriedBucketSize
    THEN [a EXCEPT !.ids = @ + 1,
                   !.info = (a.ids :> [ip |-> e.ip, src |-> e.src, refs |-> 0, tried |-> TRUE,
                                       pos |-> Len(a.random), success |-> e.success]) @@ @,
                   !.random = Append(@, a.ids),
                   !.nTried = @ + 1,
                   !.tried[k] = Append(@, a.ids)]
    ELSE a

(* DumpAddresses and a start that reads the file again. *)
Reload(same) ==
    LET f == Written(am) IN am' = FoldLeft(ReadTried, ReadNew(f, same), f.tried)

AddrNext ==
    \/ \E ip \in IPs, src \in Sources : AddAddress(ip, src)
    \/ \E ip \in IPs, t \in 1 .. MaxSuccess : Good(ip, t)
    \/ GetAddr
    \/ \E same \in BOOLEAN : Reload(same)

AddrSpec == AddrInit /\ [][AddrNext]_addrVars

-----------------------------------------------------------------------------

(* The ids in the tried buckets, with repetition. *)
TriedIds(a) == FoldSet(LAMBDA b, s : s \o a.tried[b], <<>>, TriedBuckets)

(* CAddrMan::Check_ finds nothing wrong. *)
Check(a) ==
    LET ids == DOMAIN a.info
        trieds == {i \in ids : a.info[i].tried} IN
    /\ Len(a.random) = a.nTried + a.nNew
    /\ \A i \in ids : LET p == a.info[i].pos + 1 IN p \in DOMAIN a.random /\ a.random[p] = i
    /\ \A i, j \in ids : a.info[i].ip = a.info[j].ip => i = j
    /\ \A i \in trieds : a.info[i].success # 0 /\ a.info[i].refs = 0
    /\ \A i \in ids \ trieds :
          /\ a.info[i].refs \in 1 .. BucketsPerAddress
          /\ a.info[i].refs = Cardinality({b \in NewBuckets : i \in a.new[b]})
    /\ Cardinality(trieds) = a.nTried
    /\ Cardinality(ids \ trieds) = a.nNew
    /\ ToSet(TriedIds(a)) = trieds /\ Len(TriedIds(a)) = a.nTried
    /\ UNION {a.new[b] : b \in NewBuckets} \subseteq ids

(* What CAddrMan::Check_ asks of the tables, which the release build never *)
(* runs: every entry is either tried, in exactly one tried bucket, or new, *)
(* in as many new buckets as it has references, at least one; the random   *)
(* order and the positions are inverse; both counters are right, which is  *)
(* what makes the endless loops of Select_ end.  It must survive eviction  *)
(* between the tables, deletion in the middle of an insertion, and the     *)
(* tables that a start rebuilds.                                           *)
TablesAgree == Check(am)

(* Addresses that were reached once "are never deleted while in the tried  *)
(* table, only possibly evicted back" (addrman.h:215): no single operation *)
(* loses one, a restart included.                                          *)
TriedKept ==
    [][\A i \in DOMAIN am.info :
          am.info[i].tried => \E j \in DOMAIN am'.info : am'.info[j].ip = am.info[i].ip]_addrVars
=============================================================================
