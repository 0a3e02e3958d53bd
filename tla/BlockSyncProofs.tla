--------------------------- MODULE BlockSyncProofs ---------------------------
(***************************************************************************)
(* No block is stuck behind a parent the node has, for chains of any       *)
(* length, any limits and any number of connections: the theorems about    *)
(* BlockSync.  The inductive invariant types the messages in the sockets,  *)
(* and every handler is shown to take a well-formed node to another.       *)
(***************************************************************************)
EXTENDS BlockSync, OrderLemmas, FiniteSetTheorems

NodeMessage == [kind : {"inv"}, hashes : Seq(Heights)] \cup [kind : {"block"}, hash : Heights]

PeerMessage ==
    [kind : {"getblocks"}, from : 0 .. MaxTip, stop : 0 .. MaxTip]
        \cup [kind : {"getdata"}, hashes : Seq(Heights)]

(* The node a handler works on: typed, and with no orphan the best block     *)
(* could connect.                                                            *)
NodeRecord ==
    [best : 0 .. MaxTip, orphans : SUBSET Heights, asked : SUBSET Heights, due : Seq(Heights),
     later : SUBSET Heights, mayAsk : BOOLEAN, out : Seq(PeerMessage)]

GoodNode == {n \in NodeRecord : \A h \in n.orphans : h - 1 > n.best}

SocketsOK == toNode \in Seq(NodeMessage) /\ toPeer \in Seq(PeerMessage)

IInv == TypeOK /\ SocketsOK /\ NoStuckOrphan

-----------------------------------------------------------------------------
(* Sequences *)

(* Among finitely many positions there is one with k - 1 of them before it. *)
LEMMA KthExists ==
    ASSUME NEW n \in Nat, NEW I, I \subseteq 1 .. n, NEW k \in 1 .. Cardinality(I)
    PROVE  \E i \in I : Cardinality({j \in I : j < i}) = k - 1
<1> DEFINE before(i) == {j \in I : j < i}
           T == {i \in I : Cardinality(before(i)) >= k - 1}
<1>1. IsFiniteSet(I) /\ Cardinality(I) \in Nat
  <2>1. IsFiniteSet(1 .. n)
    BY FS_Interval
  <2> QED BY <2>1, FS_Subset, FS_CardinalityType
<1>2. \A i : IsFiniteSet(before(i)) /\ Cardinality(before(i)) \in Nat
  BY <1>1, FS_Subset, FS_CardinalityType
<1>3. I # {} /\ k \in Nat
  BY <1>1, FS_EmptySet
<1>4. Max(I) \in I /\ \A i \in I : i <= Max(I)
  BY <1>3, GreatestIndex
<1>5. before(Max(I)) = I \ {Max(I)}
  <2>1. \A j \in I : j < Max(I) <=> j # Max(I)
    <3> DEFINE m == Max(I)
    <3>1. m \in I /\ \A j \in I : j <= m
      BY <1>4
    <3> HIDE DEF m, T
    <3>2. \A j \in I : j < m <=> j # m
      BY <3>1
    <3> QED BY <3>2 DEF m
  <2> HIDE DEF T
  <2> QED BY <2>1, Zenon
<1>6. Cardinality(before(Max(I))) = Cardinality(I) - 1
  BY <1>1, <1>4, <1>5, FS_RemoveElement
<1>7. Max(I) \in T
  BY <1>1, <1>4, <1>6
<1>8. T \subseteq Nat /\ T # {}
  <2>1. T \subseteq I
    OBVIOUS
  <2> HIDE DEF T
  <2> QED BY <1>7, <2>1
<1>9. PICK i \in T : \A j \in T : i <= j
  <2> HIDE DEF T
  <2> QED BY <1>8, LeastNatural
<1>10. SUFFICES ASSUME Cardinality(before(i)) # k - 1 PROVE FALSE
  BY <1>9
<1>11. Cardinality(before(i)) >= k
  BY <1>2, <1>3, <1>9, <1>10
<1>12. before(i) # {}
  BY <1>3, <1>11, FS_EmptySet
<1> DEFINE p == Max(before(i))
<1>13. p \in before(i) /\ \A j \in before(i) : j <= p
  <2>1. before(i) \subseteq 1 .. n
    OBVIOUS
  <2> HIDE DEF before
  <2> QED BY <2>1, <1>12, GreatestIndex
<1> HIDE DEF p
<1>14. p \in I /\ p < i /\ i \in I
  BY <1>9, <1>13
<1>15. before(p) = before(i) \ {p}
  <2>1. \A j \in I : j < p <=> j < i /\ j # p
    BY <1>13, <1>14
  <2> HIDE DEF T
  <2> QED BY <2>1, Zenon
<1>16. Cardinality(before(p)) = Cardinality(before(i)) - 1
  <2> HIDE DEF before
  <2> QED BY <1>2, <1>13, <1>15, FS_RemoveElement
<1>17. Cardinality(before(p)) >= k - 1
  <2> HIDE DEF before
  <2> QED BY <1>2, <1>3, <1>11, <1>16
<1>18. p \in T
  BY <1>14, <1>17
<1>19. i <= p
  <2> HIDE DEF T
  <2> QED BY <1>9, <1>18
<1> QED BY <1>14, <1>19

(* The entries of a sequence are of its type. *)
LEMMA EntriesType ==
    ASSUME NEW S, NEW s \in Seq(S), NEW I, I \subseteq DOMAIN s
    PROVE  Entries(s, I) \in Seq(S)
<1>1. Len(s) \in Nat /\ I \subseteq 1 .. Len(s)
  OBVIOUS
<1>2. Cardinality(I) \in Nat
  <2>1. IsFiniteSet(1 .. Len(s))
    BY <1>1, FS_Interval
  <2> QED BY <1>1, <2>1, FS_Subset, FS_CardinalityType
<1>3. ASSUME NEW k \in 1 .. Cardinality(I)
      PROVE  s[CHOOSE i \in I : Cardinality({j \in I : j < i}) = k - 1] \in S
  <2> DEFINE P(i) == Cardinality({j \in I : j < i}) = k - 1
  <2>1. \E i \in I : P(i)
    BY <1>1, KthExists
  <2>2. (CHOOSE i \in I : P(i)) \in I
    <3> HIDE DEF P
    <3> QED BY <2>1, Zenon
  <2> QED BY <2>2
<1>4. Entries(s, I) \in [1 .. Cardinality(I) -> S]
  BY <1>3, Zenon DEF Entries
<1>5. \A m \in Nat : [1 .. m -> S] \subseteq Seq(S)
  OBVIOUS
<1> QED BY <1>2, <1>4, <1>5

-----------------------------------------------------------------------------
(* The node's handlers *)

LEMMA GoodNodeFields ==
    ASSUME NEW n \in GoodNode
    PROVE  /\ n.best \in 0 .. MaxTip /\ n.orphans \subseteq Heights /\ n.asked \subseteq Heights
           /\ n.due \in Seq(Heights) /\ n.later \subseteq Heights /\ n.mayAsk \in BOOLEAN
           /\ n.out \in Seq(PeerMessage) /\ \A h \in n.orphans : h - 1 > n.best
           /\ MaxTip \in Nat /\ Estimate \in Nat
BY SyncAssumption DEF GoodNode, NodeRecord

(* A question to the peer changes nothing but what is asked. *)
LEMMA PushGetBlocksGood ==
    ASSUME NEW n \in GoodNode, NEW from \in 0 .. MaxTip, NEW stop \in 0 .. MaxTip
    PROVE  PushGetBlocks(n, from, stop) \in GoodNode
<1>1. GetBlocks(from, stop) \in PeerMessage
  BY DEF GetBlocks, PeerMessage
<1>2. Append(n.out, GetBlocks(from, stop)) \in Seq(PeerMessage)
  BY <1>1, GoodNodeFields
<1> QED BY <1>2 DEF PushGetBlocks, GoodNode, NodeRecord

LEMMA AskForGood ==
    ASSUME NEW n \in GoodNode, NEW h \in Heights
    PROVE  AskFor(n, h) \in GoodNode
<1>1. Append(n.due, h) \in Seq(Heights)
  BY GoodNodeFields
<1> QED BY <1>1 DEF AskFor, GoodNode, NodeRecord

(* The root of an orphan chain is an orphan, so its parent is not the best   *)
(* block and is a block one can ask for.                                     *)
LEMMA OrphanRoot ==
    ASSUME NEW n \in GoodNode, NEW h \in n.orphans
    PROVE  /\ GetOrphanRoot(n, h) \in 0 .. MaxTip
           /\ WantedByOrphan(n, h) \in Heights
<1> DEFINE S == {r \in n.orphans : r <= h /\ r .. h \subseteq n.orphans}
<1>1. h \in Nat /\ n.orphans \subseteq Nat
  BY GoodNodeFields DEF Heights
<1>2. h \in S
  BY <1>1
<1>3. S \subseteq n.orphans
  OBVIOUS
<1>4. Min(S) \in S
  <2> HIDE DEF S
  <2> QED BY <1>1, <1>2, <1>3, LeastInteger
<1>5. GetOrphanRoot(n, h) \in n.orphans
  BY <1>3, <1>4 DEF GetOrphanRoot
<1> QED BY <1>5, GoodNodeFields DEF WantedByOrphan, Heights

(* ProcessBlock, with the parent missing. *)
LEMMA KeepOrphanGood ==
    ASSUME NEW n \in GoodNode, NEW h \in Heights, h - 1 > n.best
    PROVE  KeepOrphan(n, h) \in GoodNode
<1> DEFINE kept == [n EXCEPT !.orphans = @ \cup {h}]
           asking == PushGetBlocks(kept, kept.best, GetOrphanRoot(kept, h))
<1>1. kept \in GoodNode /\ h \in kept.orphans
  BY GoodNodeFields DEF GoodNode, NodeRecord
<1>2. GetOrphanRoot(kept, h) \in 0 .. MaxTip /\ WantedByOrphan(kept, h) \in Heights
  BY <1>1, OrphanRoot
<1>3. asking \in GoodNode
  <2> HIDE DEF kept
  <2> QED BY <1>1, <1>2, GoodNodeFields, PushGetBlocksGood
<1>4. AskFor(asking, WantedByOrphan(kept, h)) \in GoodNode
  BY <1>2, <1>3, AskForGood
<1> QED BY <1>3, <1>4 DEF KeepOrphan

(* An accepted block takes every orphan it connects along: the next one up   *)
(* is missing.                                                               *)
LEMMA AcceptWithOrphansGood ==
    ASSUME NEW n \in GoodNode, NEW h \in Heights, h - 1 = n.best
    PROVE  AcceptWithOrphans(n, h) \in GoodNode
<1> DEFINE S == {t \in h .. MaxTip : (h + 1) .. t \subseteq n.orphans}
           reached == Max(S)
<1>1. h \in Nat /\ MaxTip \in Nat /\ h <= MaxTip /\ n.orphans \subseteq Heights
  BY GoodNodeFields DEF Heights
<1>2. h \in S
  BY <1>1
<1>3. S \subseteq Int /\ \A t \in S : t <= MaxTip
  BY <1>1
<1>4. reached \in S /\ \A t \in S : t <= reached
  <2>1. MaxTip \in Int /\ S # {}
    BY <1>1, <1>2
  <2> HIDE DEF S
  <2> QED BY <1>3, <2>1, GreatestInteger
<1>5. reached \in h .. MaxTip /\ (h + 1) .. reached \subseteq n.orphans
  BY <1>4
<1> HIDE DEF reached
<1>6. ASSUME NEW o \in n.orphans, o \notin h .. reached PROVE o - 1 > reached
  <2>1. o \in Nat /\ o <= MaxTip /\ o - 1 > n.best
    BY GoodNodeFields DEF Heights
  <2>2. o > reached
    BY <1>1, <1>5, <1>6, <2>1
  <2>3. o # reached + 1
    <3> SUFFICES ASSUME o = reached + 1 PROVE FALSE
      OBVIOUS
    <3>1. (h + 1) .. o \subseteq n.orphans
      BY <1>1, <1>5
    <3>2. o \in h .. MaxTip
      BY <1>1, <1>5, <2>1
    <3>3. o <= reached
      BY <3>1, <3>2, <1>4
    <3> QED BY <3>3, <2>1, <2>2, <1>5
  <2> QED BY <2>1, <2>2, <2>3, <1>5
<1>7. AcceptWithOrphans(n, h) = [n EXCEPT !.best = reached, !.orphans = @ \ (h .. reached)]
  BY DEF AcceptWithOrphans, reached
<1>8. reached \in 0 .. MaxTip
  BY <1>1, <1>5
<1> QED BY <1>6, <1>7, <1>8 DEF GoodNode, NodeRecord

LEMMA ProcessBlockGood ==
    ASSUME NEW n \in GoodNode, NEW h \in Heights
    PROVE  ProcessBlock(n, h) \in GoodNode
<1>1. CASE AlreadyHave(n, h)
  BY <1>1 DEF ProcessBlock
<1>2. CASE ~AlreadyHave(n, h) /\ h - 1 > n.best
  BY <1>2, KeepOrphanGood DEF ProcessBlock, GoodNode, NodeRecord
<1>3. CASE ~AlreadyHave(n, h) /\ ~(h - 1 > n.best)
  <2>1. h - 1 = n.best
    BY <1>3, GoodNodeFields DEF AlreadyHave, Heights
  <2>2. AcceptWithOrphans(n, h) \in GoodNode
    BY <2>1, AcceptWithOrphansGood
  <2> QED BY <1>3, <2>2 DEF ProcessBlock, GoodNode, NodeRecord
<1> QED BY <1>1, <1>2, <1>3

LEMMA GotInventoryGood ==
    ASSUME NEW n \in GoodNode, NEW h \in Heights, NEW fLast \in BOOLEAN
    PROVE  GotInventory(n, h, fLast) \in GoodNode
<1>1. n.best \in 0 .. MaxTip /\ h \in 0 .. MaxTip /\ NoStop \in 0 .. MaxTip
  BY GoodNodeFields DEF Heights, NoStop
<1>2. h \in n.orphans => PushGetBlocks(n, n.best, GetOrphanRoot(n, h)) \in GoodNode
  BY <1>1, OrphanRoot, PushGetBlocksGood
<1>3. PushGetBlocks(n, h, NoStop) \in GoodNode
  BY <1>1, PushGetBlocksGood
<1> QED BY <1>2, <1>3, AskForGood DEF GotInventory

(* An inv message is read entry by entry. *)
LEMMA InvEntriesGood ==
    ASSUME NEW n \in GoodNode, NEW hashes \in Seq(Heights)
    PROVE  LET After[i \in 0 .. Len(hashes)] ==
                   IF i = 0 THEN n
                   ELSE GotInventory(After[i - 1], hashes[i], i = Len(hashes))
           IN  After[Len(hashes)] \in GoodNode
<1> DEFINE last == Len(hashes)
           read(f, i) == IF i = 0 THEN n ELSE GotInventory(f[i - 1], hashes[i], i = last)
           Reads(f, m) == f = [i \in 0 .. m |-> read(f, i)]
<1>1. last \in Nat
  OBVIOUS
<1>2. ASSUME NEW m \in 0 .. last PROVE \E f : Reads(f, m)
  <2> DEFINE T == {k \in 0 .. last : ~ \E f : Reads(f, k)}
  <2>1. SUFFICES ASSUME T # {} PROVE FALSE
    OBVIOUS
  <2>2. T \subseteq Nat
    BY <1>1
  <2>3. PICK k \in T : \A j \in T : k <= j
    <3> HIDE DEF T
    <3> QED BY <2>1, <2>2, LeastNatural
  <2>4. k # 0
    <3> DEFINE f == [i \in 0 .. 0 |-> n]
    <3>1. f = [i \in 0 .. 0 |-> read(f, i)]
      OBVIOUS
    <3>2. Reads(f, 0)
      BY <3>1
    <3> HIDE DEF Reads
    <3> QED BY <3>2
  <2>5. k \in 1 .. last /\ k - 1 \in 0 .. last /\ k - 1 \notin T
    <3>1. k \in 0 .. last
      OBVIOUS
    <3>2. k - 1 < k
      BY <1>1, <3>1
    <3> HIDE DEF T
    <3> QED BY <1>1, <2>3, <2>4, <3>1, <3>2
  <2>6. PICK f : Reads(f, k - 1)
    <3> HIDE DEF Reads
    <3> QED BY <2>5
  <2> DEFINE g == [i \in 0 .. k |-> IF i = k THEN read(f, k) ELSE f[i]]
  <2>7. \A i \in 0 .. k - 1 : f[i] = read(f, i)
    BY <2>6
  <2>8. \A i \in 0 .. k : i # 0 => i - 1 \in 0 .. k - 1 /\ g[i - 1] = f[i - 1]
    BY <2>5
  <2>9. \A i \in 0 .. k : read(g, i) = read(f, i)
    <3> HIDE DEF g
    <3> QED BY <2>8
  <2>10. \A i \in 0 .. k : i # k => i \in 0 .. k - 1
    BY <2>5
  <2>11. \A i \in 0 .. k : g[i] = read(g, i)
    <3> HIDE DEF read
    <3> QED BY <2>7, <2>9, <2>10
  <2>12. Reads(g, k)
    <3> HIDE DEF read
    <3> QED BY <2>11
  <2> HIDE DEF Reads, g
  <2> QED BY <2>3, <2>12
<1>3. ASSUME NEW F, Reads(F, last) PROVE F[last] \in GoodNode
  <2> DEFINE T == {k \in 0 .. last : F[k] \notin GoodNode}
  <2>1. SUFFICES ASSUME T # {} PROVE FALSE
    BY <1>1
  <2>2. T \subseteq Nat
    BY <1>1
  <2>3. PICK k \in T : \A j \in T : k <= j
    <3> HIDE DEF T
    <3> QED BY <2>1, <2>2, LeastNatural
  <2>4. \A i \in 0 .. last : F[i] = read(F, i)
    BY <1>3
  <2>5. k # 0
    BY <2>4
  <2>6. k - 1 \in 0 .. last /\ k \in 1 .. last /\ k - 1 \notin T
    <3>1. k \in 0 .. last
      OBVIOUS
    <3>2. k - 1 < k
      BY <1>1, <3>1
    <3> HIDE DEF T
    <3> QED BY <1>1, <2>3, <2>5, <3>1, <3>2
  <2>7. F[k - 1] \in GoodNode
    BY <2>6
  <2>8. hashes[k] \in Heights
    BY <2>6
  <2>9. F[k] = GotInventory(F[k - 1], hashes[k], k = last)
    BY <2>4, <2>5, <2>6
  <2>10. F[k] \in GoodNode
    BY <2>7, <2>8, <2>9, GotInventoryGood
  <2> QED BY <2>10
<1>4. \E F : Reads(F, last)
  BY <1>1, <1>2
<1>5. Reads(CHOOSE F : Reads(F, last), last)
  <2> HIDE DEF Reads
  <2> QED BY <1>4, Zenon
<1> QED BY <1>3, <1>5

LEMMA PollGood ==
    ASSUME NEW n \in GoodNode
    PROVE  Poll(n) \in GoodNode
BY PushGetBlocksGood, GoodNodeFields DEF Poll, NoStop

LEMMA RequestGood ==
    ASSUME NEW n \in GoodNode
    PROVE  Request(n) \in GoodNode
<1> DEFINE missing == {i \in DOMAIN n.due : ~AlreadyHave(n, n.due[i])}
           wanted == Entries(n.due, missing)
           asked == {n.due[i] : i \in missing}
<1>1. wanted \in Seq(Heights)
  BY EntriesType, GoodNodeFields
<1>2. asked \subseteq Heights
  BY GoodNodeFields
<1> HIDE DEF missing, wanted, asked
<1>3. GetData(wanted) \in PeerMessage
  BY <1>1 DEF GetData, PeerMessage
<1>4. Append(n.out, GetData(wanted)) \in Seq(PeerMessage) /\ <<>> \in Seq(Heights)
  BY <1>3, GoodNodeFields
<1>5. Request(n) = [n EXCEPT !.due = <<>>, !.asked = @ \cup asked,
                             !.out = IF missing = {} THEN @ ELSE Append(@, GetData(wanted))]
  BY DEF Request, missing, wanted, asked
<1> QED BY <1>2, <1>4, <1>5 DEF GoodNode, NodeRecord

LEMMA VersionGood ==
    ASSUME NEW n \in GoodNode
    PROVE  Version(n) \in GoodNode
BY PushGetBlocksGood, GoodNodeFields DEF Version, NoStop

LEMMA NodeGood ==
    ASSUME IInv
    PROVE  Node \in GoodNode /\ Fresh \in GoodNode
<1>1. Node \in NodeRecord /\ <<>> \in Seq(Heights)
  BY DEF Node, NodeRecord, IInv, TypeOK
<1>2. Node \in GoodNode
  BY <1>1 DEF Node, GoodNode, IInv, NoStuckOrphan
<1> QED BY <1>1, <1>2 DEF Fresh, GoodNode, NodeRecord

(* What a handler leaves behind. *)
LEMMA BecomesFact ==
    ASSUME IInv, NEW n \in GoodNode, Becomes(n)
    PROVE  /\ best' \in 0 .. MaxTip /\ orphans' \subseteq Heights
           /\ mapAlreadyAskedFor' \subseteq Heights /\ due' \in Seq(Heights)
           /\ later' \subseteq Heights /\ fMayAsk' \in BOOLEAN
           /\ toPeer' \in Seq(PeerMessage) /\ NoStuckOrphan'
BY GoodNodeFields DEF Becomes, IInv, SocketsOK, NoStuckOrphan

-----------------------------------------------------------------------------
(* The peer *)

LEMMA FlushFact ==
    ASSUME IInv, NEW hashes \in Seq(Heights), Flush(hashes)
    PROVE  /\ toNode' \in Seq(NodeMessage) /\ setInventoryKnown' \subseteq Heights
           /\ vInventoryToSend' \in Seq(Heights)
<1> DEFINE queue == vInventoryToSend \o hashes
           first == {i \in DOMAIN queue : queue[i] \notin setInventoryKnown \cup
                                                         {queue[j] : j \in 1 .. i - 1}}
           new == Entries(queue, first)
<1>1. queue \in Seq(Heights)
  BY DEF IInv, TypeOK
<1>2. first \subseteq DOMAIN queue
  OBVIOUS
<1>3. new \in Seq(Heights)
  <2> HIDE DEF queue, first
  <2> QED BY <1>1, <1>2, EntriesType
<1>4. /\ toNode' = IF first = {} THEN toNode ELSE Append(toNode, Inv(new))
      /\ setInventoryKnown' = setInventoryKnown \cup {queue[i] : i \in first}
      /\ vInventoryToSend' = <<>>
  BY DEF Flush
<1> HIDE DEF new
<1>5. Inv(new) \in NodeMessage
  BY <1>3 DEF Inv, NodeMessage
<1> HIDE DEF queue, first
<1>6. {queue[i] : i \in first} \subseteq Heights
  BY <1>1, <1>2
<1> QED BY <1>4, <1>5, <1>6 DEF IInv, TypeOK, SocketsOK

(* The peer answers with heights it has. *)
LEMMA AnswerType ==
    ASSUME IInv, NEW from \in 0 .. MaxTip, NEW stop \in 0 .. MaxTip, from < tip
    PROVE  Answer(from, stop) \in Seq(Heights)
<1> DEFINE S == {tip, from + Limit} \cup {s - 1 : s \in {stop} \ (0 .. from)}
           last == Min(S)
<1>1. tip \in Heights /\ tip \in Nat /\ from \in Nat /\ stop \in Nat /\ Limit \in Nat
      /\ MaxTip \in Nat
  BY SyncAssumption DEF IInv, TypeOK, Heights
<1>2. S \subseteq Nat /\ tip \in S
  BY <1>1
<1>3. last \in Nat /\ last <= tip
  <2> HIDE DEF S
  <2> QED BY <1>2, LeastInteger
<1>4. last >= from
  <2>1. \A s \in S : s >= from
    BY <1>1
  <2>2. last \in S
    <3> HIDE DEF S
    <3> QED BY <1>2, LeastInteger
  <2> QED BY <2>1, <2>2
<1>5. Answer(from, stop) =
          [i \in 1 .. last - from |-> from + i] \o
              IF tip - Min({tip, last + 1}) < Advertised /\ Min({tip, last + 1}) # tip
                THEN <<tip>> ELSE <<>>
  BY DEF Answer
<1> HIDE DEF last
<1>6. last - from \in Nat
  BY <1>1, <1>3, <1>4
<1>7. \A i \in 1 .. last - from : from + i \in Heights
  BY <1>1, <1>3, <1>4 DEF Heights
<1>8. [i \in 1 .. last - from |-> from + i] \in Seq(Heights)
  BY <1>6, <1>7
<1>9. <<tip>> \in Seq(Heights) /\ <<>> \in Seq(Heights)
  BY <1>1
<1> QED BY <1>5, <1>8, <1>9

-----------------------------------------------------------------------------
(* The actions *)

LEMMA ReceiveInvInv ==
    ASSUME IInv, ReceiveInv
    PROVE  IInv'
<1> DEFINE hashes == Head(toNode).hashes
<1>1. toNode # <<>> /\ Head(toNode) \in NodeMessage /\ Head(toNode).kind = "inv"
      /\ toNode' = Tail(toNode) /\ Tail(toNode) \in Seq(NodeMessage)
  BY DEF IInv, SocketsOK, ReceiveInv
<1>2. hashes \in Seq(Heights)
  BY <1>1 DEF NodeMessage
<1>3. PICK n \in GoodNode : Becomes(n)
  BY <1>2, NodeGood, InvEntriesGood DEF ReceiveInv
<1> QED BY <1>1, <1>3, BecomesFact DEF IInv, TypeOK, SocketsOK, ReceiveInv, peer

LEMMA ReceiveBlockInv ==
    ASSUME IInv, ReceiveBlock
    PROVE  IInv'
<1> DEFINE h == Head(toNode).hash
<1>1. toNode # <<>> /\ Head(toNode) \in NodeMessage /\ Head(toNode).kind = "block"
      /\ toNode' = Tail(toNode) /\ Tail(toNode) \in Seq(NodeMessage)
  BY DEF IInv, SocketsOK, ReceiveBlock
<1>2. h \in Heights
  BY <1>1 DEF NodeMessage
<1>3. PICK n \in GoodNode : Becomes(n)
  BY <1>2, NodeGood, ProcessBlockGood DEF ReceiveBlock
<1> QED BY <1>1, <1>3, BecomesFact DEF IInv, TypeOK, SocketsOK, ReceiveBlock, peer

LEMMA SendMessagesInv ==
    ASSUME IInv, SendMessages
    PROVE  IInv'
<1>1. Request(Poll(Node)) \in GoodNode
  BY NodeGood, PollGood, RequestGood
<1>2. Becomes(Request(Poll(Node)))
  BY DEF SendMessages
<1> HIDE DEF Node
<1> QED BY <1>1, <1>2, BecomesFact DEF IInv, TypeOK, SocketsOK, SendMessages, peer

LEMMA IgnoreGetBlocksInv ==
    ASSUME IInv, IgnoreGetBlocks
    PROVE  IInv'
BY DEF IInv, TypeOK, SocketsOK, NoStuckOrphan, IgnoreGetBlocks, node, peer

LEMMA AnswerGetBlocksInv ==
    ASSUME IInv, AnswerGetBlocks
    PROVE  IInv'
<1>1. toPeer # <<>> /\ Head(toPeer) \in PeerMessage /\ Head(toPeer).kind = "getblocks"
      /\ toPeer' = Tail(toPeer) /\ Tail(toPeer) \in Seq(PeerMessage)
  BY DEF IInv, SocketsOK, AnswerGetBlocks
<1>2. Head(toPeer).from \in 0 .. MaxTip /\ Head(toPeer).stop \in 0 .. MaxTip
  BY <1>1 DEF PeerMessage
<1>3. PICK hashes \in Seq(Heights) : Flush(hashes)
  <2> DEFINE from == Head(toPeer).from
             reply == IF from < tip THEN Answer(from, Head(toPeer).stop) ELSE <<>>
  <2>1. reply \in Seq(Heights)
    <3>1. CASE from < tip
      BY <1>2, <3>1, AnswerType
    <3>2. CASE ~(from < tip)
      BY <3>2
    <3> QED BY <3>1, <3>2
  <2>2. Flush(reply)
    BY DEF AnswerGetBlocks
  <2> QED BY <2>1, <2>2
<1> QED BY <1>1, <1>3, FlushFact DEF IInv, TypeOK, SocketsOK, NoStuckOrphan, AnswerGetBlocks, node

LEMMA AnswerGetDataInv ==
    ASSUME IInv, AnswerGetData
    PROVE  IInv'
<1> DEFINE hashes == Head(toPeer).hashes
           blocks == [i \in DOMAIN hashes |-> Block(hashes[i])]
<1>1. toPeer # <<>> /\ Head(toPeer) \in PeerMessage /\ Head(toPeer).kind = "getdata"
      /\ toPeer' = Tail(toPeer) /\ Tail(toPeer) \in Seq(PeerMessage)
  BY DEF IInv, SocketsOK, AnswerGetData
<1>2. hashes \in Seq(Heights)
  BY <1>1 DEF PeerMessage
<1>3. \A i \in DOMAIN hashes : Block(hashes[i]) \in NodeMessage
  BY <1>2 DEF Block, NodeMessage
<1>4. blocks \in Seq(NodeMessage)
  BY <1>2, <1>3
<1>5. toNode' = toNode \o blocks
  BY DEF AnswerGetData
<1>6. toNode' \in Seq(NodeMessage)
  <2> HIDE DEF blocks
  <2> QED BY <1>4, <1>5 DEF IInv, SocketsOK
<1> QED BY <1>1, <1>6 DEF IInv, TypeOK, SocketsOK, NoStuckOrphan, AnswerGetData, node, peer

LEMMA SendInventoryInv ==
    ASSUME IInv, SendInventory
    PROVE  IInv'
<1>1. <<>> \in Seq(Heights) /\ Flush(<<>>)
  BY DEF SendInventory
<1> QED BY <1>1, FlushFact DEF IInv, TypeOK, SocketsOK, NoStuckOrphan, SendInventory, node

LEMMA NewBlockInv ==
    ASSUME IInv, NewBlock
    PROVE  IInv'
<1>1. tip + 1 \in Heights /\ tip' \in StartTip .. MaxTip
  BY SyncAssumption DEF IInv, TypeOK, NewBlock, Heights
<1> QED BY <1>1 DEF IInv, TypeOK, SocketsOK, NoStuckOrphan, NewBlock, node

LEMMA ConnectInv ==
    ASSUME IInv, Connect
    PROVE  IInv'
<1>1. Version(Fresh) \in GoodNode
  BY NodeGood, VersionGood
<1>2. /\ best' \in 0 .. MaxTip /\ orphans' \subseteq Heights
      /\ mapAlreadyAskedFor' \subseteq Heights /\ due' \in Seq(Heights)
      /\ later' \subseteq Heights /\ fMayAsk' \in BOOLEAN
      /\ toPeer' \in Seq(PeerMessage) /\ NoStuckOrphan'
  BY <1>1, GoodNodeFields DEF Connect, NoStuckOrphan
<1>3. tip' = tip /\ tip \in -1 .. MaxTip /\ nConnections' \in 0 .. MaxConnections
  BY SyncAssumption DEF IInv, TypeOK, Connect
<1> QED BY <1>2, <1>3 DEF IInv, TypeOK, SocketsOK, Connect

LEMMA TimeInv ==
    ASSUME IInv, MayAsk \/ MayAnswer \/ \E h \in later : TwoMinutes(h)
    PROVE  IInv'
<1>1. CASE MayAsk
  BY <1>1 DEF IInv, TypeOK, SocketsOK, NoStuckOrphan, MayAsk, peer
<1>2. CASE MayAnswer
  BY <1>2 DEF IInv, TypeOK, SocketsOK, NoStuckOrphan, MayAnswer, node
<1>3. ASSUME NEW h \in later, TwoMinutes(h) PROVE IInv'
  <2>1. h \in Heights
    BY DEF IInv, TypeOK
  <2> QED BY <1>3, <2>1 DEF IInv, TypeOK, SocketsOK, NoStuckOrphan, TwoMinutes, peer
<1> QED BY <1>1, <1>2, <1>3

-----------------------------------------------------------------------------
(* The theorems *)

LEMMA Invariance == Spec => []IInv
<1>1. Init => IInv
  <2> SUFFICES ASSUME Init PROVE IInv
    OBVIOUS
  <2>1. /\ <<>> \in Seq(Heights) /\ <<>> \in Seq(NodeMessage) /\ <<>> \in Seq(PeerMessage)
        /\ -1 \in -1 .. MaxTip /\ 0 \in 0 .. MaxTip /\ 0 \in 0 .. MaxConnections
        /\ StartTip \in StartTip .. MaxTip
    BY SyncAssumption
  <2> QED BY <2>1 DEF Init, IInv, TypeOK, SocketsOK, NoStuckOrphan
<1>2. IInv /\ [Next]_vars => IInv'
  <2> SUFFICES ASSUME IInv, [Next]_vars PROVE IInv'
    OBVIOUS
  <2>1. CASE UNCHANGED vars
    BY <2>1 DEF vars, node, peer, IInv, TypeOK, SocketsOK, NoStuckOrphan
  <2>2. CASE Next
    BY <2>2, ReceiveInvInv, ReceiveBlockInv, SendMessagesInv, IgnoreGetBlocksInv,
       AnswerGetBlocksInv, AnswerGetDataInv, SendInventoryInv, NewBlockInv, ConnectInv, TimeInv
       DEF Next, Receive, Serve
  <2> QED BY <2>1, <2>2
<1> QED BY <1>1, <1>2, PTL DEF Spec

(* What the node holds, asked for and was told of are heights the peer has   *)
(* or will have mined, on any number of connections (main.cpp, ProcessBlock  *)
(* and ProcessMessage).                                                      *)
THEOREM SyncTypeCorrect == Spec => []TypeOK
<1>1. IInv => TypeOK
  BY DEF IInv
<1> QED BY <1>1, Invariance, PTL

(* No orphan waits for a parent the node has, whatever order the blocks come *)
(* in and however long the orphan chains are (main.cpp, ProcessBlock and     *)
(* mapOrphanBlocksByPrev).                                                   *)
THEOREM OrphansConnect == Spec => []NoStuckOrphan
<1>1. IInv => NoStuckOrphan
  BY DEF IInv
<1> QED BY <1>1, Invariance, PTL
=============================================================================
