---------------------------- MODULE NetworkProofs ----------------------------
(***************************************************************************)
(* Theorems about the parts of a node that MCNetwork examines, for any     *)
(* values of its constants: messages arrive whole and in order however     *)
(* they are cut (Messages), the pings tell a peer that answers from one    *)
(* that does not (KeepAlive), alerts that cancel each other are never kept *)
(* together and the reserved one stands (Alerts), a start can go on from   *)
(* whatever an earlier one left (StartUp), the blocks of a node pay keys   *)
(* of its pool, each once (Miner), and its time is that of the majority of *)
(* its peers (NetTime).                                                    *)
(***************************************************************************)
EXTENDS MCNetwork, OrderLemmas, Sequences, SequenceTheorems, FiniteSetTheorems

-----------------------------------------------------------------------------
(* The stream of messages *)

HeadOf(d) == [kind |-> "head", size |-> Len(d), sum |-> d, valid |-> TRUE]
StartToken == [kind |-> "start"]
HeadTokens == [kind : {"head"}, size : Int, sum : Seq({Stream!Data, Stream!Noise}), valid : BOOLEAN]
Tokens == {StartToken, Stream!Data, Stream!Noise} \cup HeadTokens

(* A whole message with the payload d begins at i. *)
MessageAt(s, i, d) ==
    /\ i \in 1 .. Len(s) /\ i + 1 + Len(d) <= Len(s)
    /\ s[i] = StartToken /\ s[i + 1] = HeadOf(d)
    /\ \A k \in 1 .. Len(d) : s[i + 1 + k] = d[k]

(* What looks like a message at i is refused once its data is there. *)
JunkAt(s, i) ==
    /\ i + 1 <= Len(s) /\ s[i + 1] \in HeadTokens
    /\ \/ ~s[i + 1].valid \/ s[i + 1].size > MaxSize
       \/ /\ i + 2 <= Len(s) /\ s[i + 2] = Stream!Data
          /\ s[i + 1].sum = <<Stream!Noise>> /\ s[i + 1].size \in 1 .. 2

(* The messages that were sent and not yet handled stand in s in their order, *)
(* at the places f, and every other start is refused.                         *)
Placed(s, h, p, f) ==
    /\ \A k \in h + 1 .. Len(p) : MessageAt(s, f[k], p[k])
    /\ \A j, k \in h + 1 .. Len(p) : j < k => f[j] + 1 + Len(p[j]) < f[k]
    /\ \A i \in 1 .. Len(s) : s[i] = StartToken =>
          (\E k \in h + 1 .. Len(p) : f[k] = i) \/ JunkAt(s, i)

(* t is what is left of s without its first n tokens. *)
Rest(t, s, n) ==
    /\ n \in Nat /\ Len(t) \in Nat /\ Len(s) = n + Len(t)
    /\ \A i \in 1 .. Len(t) : t[i] = s[i + n]

Waiting == vRecv \o out.vSend

StreamInv ==
    /\ vRecv \in Seq(Tokens) /\ out.vSend \in Seq(Tokens)
    /\ out = [vSend |-> out.vSend, headerStart |-> -1, messageStart |-> -1]
    /\ pushed \in Seq(Payloads) /\ handled \in Seq(Payloads) /\ Len(handled) <= Len(pushed)
    /\ \A k \in 1 .. Len(handled) : handled[k] = pushed[k]
    /\ \E f : Placed(Waiting, Len(handled), pushed, f)

LEMMA TokenFacts ==
    /\ StartToken \notin HeadTokens
    /\ Stream!Data \notin HeadTokens /\ Stream!Noise \notin HeadTokens
    /\ StartToken # Stream!Data /\ StartToken # Stream!Noise /\ Stream!Data # Stream!Noise
    /\ \A x \in Tokens : /\ Stream!IsStart(x) <=> x = StartToken
                         /\ Stream!IsHeader(x) <=> x \in HeadTokens
BY DEF StartToken, HeadTokens, Tokens, Stream!Data, Stream!Noise, Stream!IsStart, Stream!IsHeader

LEMMA HeadFacts ==
    ASSUME NEW d \in Payloads
    PROVE  /\ HeadOf(d) \in HeadTokens /\ HeadOf(d).size = Len(d) /\ HeadOf(d).sum = d
           /\ HeadOf(d).valid /\ Len(d) \in Nat /\ Len(d) <= MaxSize
           /\ \A k \in 1 .. Len(d) : d[k] = Stream!Data
           /\ d \in Seq({Stream!Data}) /\ d \in Seq(Tokens)
<1>1. d \in Seq({Stream!Data}) /\ Len(d) <= MaxSize
  BY NetworkAssumption DEF Stream!StreamAssumption
<1>2. Len(d) \in Nat /\ \A k \in 1 .. Len(d) : d[k] = Stream!Data
  BY <1>1
<1>3. d \in Seq({Stream!Data, Stream!Noise}) /\ d \in Seq(Tokens)
  BY <1>1 DEF Tokens
<1> QED BY <1>1, <1>2, <1>3 DEF HeadOf, HeadTokens

(* The first n tokens hold the messages after the h-th up to the g-th. *)
Taken(f, h, g, p, n) ==
    /\ h <= g
    /\ \A k \in g + 1 .. Len(p) : f[k] > n
    /\ \A k \in h + 1 .. Len(p) : k <= g => f[k] <= n

(* The front of the stream goes, and the messages in it. *)
LEMMA PlacedShift ==
    ASSUME NEW s, NEW t, NEW n, Rest(t, s, n),
           NEW h \in Nat, NEW p \in Seq(Payloads), NEW f, Placed(s, h, p, f),
           NEW g \in Nat, Taken(f, h, g, p, n)
    PROVE  \E e : Placed(t, g, p, e)
<1>0. h <= g /\ (\A k \in g + 1 .. Len(p) : f[k] > n)
      /\ \A k \in h + 1 .. Len(p) : k <= g => f[k] <= n
  BY DEF Taken
<1>1. n \in Nat /\ Len(t) \in Nat /\ Len(s) = n + Len(t) /\ Len(p) \in Nat
  BY DEF Rest
<1>2. \A k \in g + 1 .. Len(p) : /\ k \in h + 1 .. Len(p) /\ f[k] \in Nat /\ f[k] > n
                                 /\ MessageAt(s, f[k], p[k]) /\ Len(p[k]) \in Nat
  <2> TAKE k \in g + 1 .. Len(p)
  <2>1. k \in h + 1 .. Len(p) /\ k \in 1 .. Len(p)
    BY <1>0, <1>1
  <2>2. MessageAt(s, f[k], p[k])
    BY <2>1 DEF Placed
  <2>3. Len(p[k]) \in Nat
    BY <2>1, HeadFacts
  <2> QED BY <1>0, <1>1, <2>1, <2>2, <2>3 DEF MessageAt
<1> DEFINE e == [k \in g + 1 .. Len(p) |-> f[k] - n]
<1>3. \A k \in g + 1 .. Len(p) : e[k] = f[k] - n
  OBVIOUS
<1> HIDE DEF e
<1>4. ASSUME NEW k \in g + 1 .. Len(p)
      PROVE  MessageAt(t, e[k], p[k])
  <2> DEFINE x == f[k]
             d == p[k]
  <2>1. /\ x \in Nat /\ x > n /\ Len(d) \in Nat /\ MessageAt(s, x, d) /\ e[k] = x - n
    BY <1>2, <1>3
  <2> HIDE DEF x, d
  <2>2. x - n \in 1 .. Len(t) /\ (x - n) + 1 + Len(d) <= Len(t)
    BY <1>1, <2>1 DEF MessageAt
  <2>3. t[x - n] = s[x] /\ t[(x - n) + 1] = s[x + 1]
    <3>1. (x - n) + n = x /\ ((x - n) + 1) + n = x + 1 /\ (x - n) + 1 \in 1 .. Len(t)
      BY <1>1, <2>1, <2>2
    <3>2. \A i \in 1 .. Len(t) : t[i] = s[i + n]
      BY DEF Rest
    <3>3. t[x - n] = s[(x - n) + n] /\ t[(x - n) + 1] = s[((x - n) + 1) + n]
      BY <2>2, <3>1, <3>2
    <3> QED BY <3>1, <3>3
  <2>4. ASSUME NEW j \in 1 .. Len(d)
        PROVE  t[(x - n) + 1 + j] = d[j]
    <3>1. ((x - n) + 1 + j) + n = x + 1 + j /\ (x - n) + 1 + j \in 1 .. Len(t)
      BY <1>1, <2>1, <2>2
    <3>2. s[x + 1 + j] = d[j]
      BY <2>1 DEF MessageAt
    <3> QED BY <3>1, <3>2 DEF Rest
  <2>5. MessageAt(t, x - n, d)
    BY <2>1, <2>2, <2>3, <2>4 DEF MessageAt
  <2> QED BY <2>1, <2>5 DEF d
<1>5. ASSUME NEW j \in g + 1 .. Len(p), NEW k \in g + 1 .. Len(p), j < k
      PROVE  e[j] + 1 + Len(p[j]) < e[k]
  <2>1. f[j] + 1 + Len(p[j]) < f[k]
    BY <1>2, <1>5 DEF Placed
  <2>2. e[j] = f[j] - n /\ e[k] = f[k] - n
    BY <1>3
  <2>3. f[j] \in Nat /\ f[k] \in Nat /\ Len(p[j]) \in Nat
    BY <1>2
  <2>4. (f[j] - n) + 1 + Len(p[j]) < f[k] - n
    <3> DEFINE x == f[j]
               y == f[k]
               l == Len(p[j])
    <3>1. x \in Nat /\ y \in Nat /\ l \in Nat /\ n \in Nat /\ x + 1 + l < y
      BY <1>1, <2>1, <2>3
    <3> HIDE DEF x, y, l
    <3>2. (x - n) + 1 + l < y - n
      BY <3>1
    <3> QED BY <3>2 DEF x, y, l
  <2> QED BY <2>2, <2>4
<1>6. ASSUME NEW i \in 1 .. Len(t), t[i] = StartToken
      PROVE  (\E k \in g + 1 .. Len(p) : e[k] = i) \/ JunkAt(t, i)
  <2>1. i + n \in 1 .. Len(s) /\ s[i + n] = StartToken
    BY <1>1, <1>6 DEF Rest
  <2>2. CASE \E k \in h + 1 .. Len(p) : f[k] = i + n
    <3>1. PICK k \in h + 1 .. Len(p) : f[k] = i + n
      BY <2>2
    <3>2. k \in g + 1 .. Len(p)
      BY <1>0, <1>1, <3>1
    <3>3. e[k] = i
      BY <1>1, <1>3, <3>1, <3>2
    <3> QED BY <3>2, <3>3
  <2>3. CASE JunkAt(s, i + n)
    <3>1. t[i + 1] = s[i + n + 1] /\ i + 1 <= Len(t)
      <4>1. i + 1 \in 1 .. Len(t) /\ (i + 1) + n = i + n + 1
        <5>1. (i + n) + 1 <= Len(s)
          BY <2>3 DEF JunkAt
        <5> QED BY <1>1, <5>1
      <4> QED BY <4>1 DEF Rest
    <3>2. i + n + 2 <= Len(s) => t[i + 2] = s[i + n + 2] /\ i + 2 <= Len(t)
      <4>1. i + n + 2 <= Len(s) => i + 2 \in 1 .. Len(t) /\ (i + 2) + n = i + n + 2
        BY <1>1
      <4> QED BY <4>1 DEF Rest
    <3> QED BY <2>3, <3>1, <3>2 DEF JunkAt
  <2> QED BY <2>1, <2>2, <2>3 DEF Placed
<1>7. Placed(t, g, p, e)
  BY <1>4, <1>5, <1>6 DEF Placed
<1> QED BY <1>7

(* A message stays where more is added behind it. *)
LEMMA MessageStays ==
    ASSUME NEW s \in Seq(Tokens), NEW t \in Seq(Tokens),
           Len(s) <= Len(t), \A i \in 1 .. Len(s) : t[i] = s[i],
           NEW x, NEW d \in Payloads, MessageAt(s, x, d)
    PROVE  MessageAt(t, x, d)
<1>1. Len(s) \in Nat /\ Len(t) \in Nat /\ Len(d) \in Nat
  BY HeadFacts
<1>2. x \in 1 .. Len(s) /\ x + 1 + Len(d) <= Len(s)
  BY DEF MessageAt
<1>3. x \in 1 .. Len(t) /\ x + 1 \in 1 .. Len(s) /\ x + 1 + Len(d) <= Len(t)
  BY <1>1, <1>2
<1>4. t[x] = s[x] /\ t[x + 1] = s[x + 1]
  BY <1>2, <1>3
<1>5. ASSUME NEW j \in 1 .. Len(d)
      PROVE  t[x + 1 + j] = d[j]
  <2>1. x + 1 + j \in 1 .. Len(s)
    BY <1>1, <1>2
  <2>2. t[x + 1 + j] = s[x + 1 + j]
    BY <2>1
  <2> QED BY <2>2 DEF MessageAt
<1> QED BY <1>3, <1>4, <1>5 DEF MessageAt

LEMMA JunkStays ==
    ASSUME NEW s \in Seq(Tokens), NEW t \in Seq(Tokens),
           Len(s) <= Len(t), \A i \in 1 .. Len(s) : t[i] = s[i],
           NEW i \in 1 .. Len(s), JunkAt(s, i)
    PROVE  JunkAt(t, i)
<1>1. Len(s) \in Nat /\ Len(t) \in Nat
  OBVIOUS
<1>2. i + 1 <= Len(s)
  BY DEF JunkAt
<1>3. i + 1 <= Len(t) /\ t[i + 1] = s[i + 1]
  <2>1. i + 1 \in 1 .. Len(s)
    BY <1>1, <1>2
  <2> QED BY <1>1, <2>1
<1>4. i + 2 <= Len(s) => i + 2 <= Len(t) /\ t[i + 2] = s[i + 2]
  <2>1. i + 2 <= Len(s) => i + 2 \in 1 .. Len(s)
    BY <1>1
  <2> QED BY <1>1, <2>1
<1> QED BY <1>3, <1>4 DEF JunkAt

(* Something without a message is added. *)
LEMMA PlacedJunk ==
    ASSUME NEW s \in Seq(Tokens), NEW t \in Seq(Tokens),
           Len(s) <= Len(t), \A i \in 1 .. Len(s) : t[i] = s[i],
           \A i \in Len(s) + 1 .. Len(t) : t[i] = StartToken => JunkAt(t, i),
           NEW h \in Nat, NEW p \in Seq(Payloads), NEW f, Placed(s, h, p, f)
    PROVE  Placed(t, h, p, f)
<1>1. Len(s) \in Nat /\ Len(t) \in Nat /\ Len(p) \in Nat
  OBVIOUS
<1>2. ASSUME NEW k \in h + 1 .. Len(p)
      PROVE  MessageAt(t, f[k], p[k])
  <2>1. MessageAt(s, f[k], p[k])
    BY <1>2 DEF Placed
  <2>2. k \in 1 .. Len(p)
    BY <1>1, <1>2
  <2> QED BY <2>1, <2>2, MessageStays
<1>3. ASSUME NEW i \in 1 .. Len(t), t[i] = StartToken
      PROVE  (\E k \in h + 1 .. Len(p) : f[k] = i) \/ JunkAt(t, i)
  <2>1. CASE i <= Len(s)
    <3>1. i \in 1 .. Len(s) /\ s[i] = StartToken
      BY <1>1, <1>3, <2>1
    <3>2. JunkAt(s, i) => JunkAt(t, i)
      BY <3>1, JunkStays
    <3> QED BY <3>1, <3>2 DEF Placed
  <2>2. CASE i > Len(s)
    BY <1>1, <1>3, <2>2
  <2> QED BY <1>1, <2>1, <2>2
<1> QED BY <1>2, <1>3 DEF Placed

(* A message is added. *)
LEMMA PlacedMessage ==
    ASSUME NEW s \in Seq(Tokens), NEW t \in Seq(Tokens), NEW d \in Payloads,
           Len(t) = Len(s) + 2 + Len(d), \A i \in 1 .. Len(s) : t[i] = s[i],
           MessageAt(t, Len(s) + 1, d),
           NEW h \in Nat, NEW p \in Seq(Payloads), h <= Len(p), NEW f, Placed(s, h, p, f)
    PROVE  \E e : Placed(t, h, Append(p, d), e)
<1> DEFINE q == Append(p, d)
           e == [k \in h + 1 .. Len(q) |-> IF k = Len(q) THEN Len(s) + 1 ELSE f[k]]
<1>1. Len(s) \in Nat /\ Len(t) \in Nat /\ Len(p) \in Nat /\ Len(d) \in Nat
  BY HeadFacts
<1>2. Len(q) = Len(p) + 1 /\ q[Len(q)] = d /\ \A k \in 1 .. Len(p) : q[k] = p[k]
  BY <1>1
<1>3. e[Len(q)] = Len(s) + 1 /\ \A k \in h + 1 .. Len(p) : e[k] = f[k]
  BY <1>1, <1>2
<1> HIDE DEF e, q
<1>4. \A k \in h + 1 .. Len(p) : /\ MessageAt(s, f[k], p[k]) /\ q[k] = p[k] /\ f[k] \in Nat
                                 /\ Len(p[k]) \in Nat /\ f[k] + 1 + Len(p[k]) <= Len(s)
  <2> TAKE k \in h + 1 .. Len(p)
  <2>1. MessageAt(s, f[k], p[k]) /\ k \in 1 .. Len(p)
    BY <1>1 DEF Placed
  <2>2. Len(p[k]) \in Nat
    BY <2>1, HeadFacts
  <2> QED BY <1>1, <1>2, <2>1, <2>2 DEF MessageAt
<1>5. ASSUME NEW k \in h + 1 .. Len(q)
      PROVE  MessageAt(t, e[k], q[k])
  <2>1. CASE k = Len(q)
    BY <1>2, <1>3, <2>1
  <2>2. CASE k # Len(q)
    <3>1. k \in h + 1 .. Len(p) /\ k \in 1 .. Len(p)
      BY <1>1, <1>2, <1>5, <2>2
    <3>2. MessageAt(t, f[k], p[k])
      BY <1>1, <1>4, <3>1, MessageStays
    <3> QED BY <1>3, <1>4, <3>1, <3>2
  <2> QED BY <2>1, <2>2
<1>6. ASSUME NEW j \in h + 1 .. Len(q), NEW k \in h + 1 .. Len(q), j < k
      PROVE  e[j] + 1 + Len(q[j]) < e[k]
  <2>1. j \in h + 1 .. Len(p) /\ e[j] = f[j] /\ q[j] = p[j]
    <3>1. j \in h + 1 .. Len(p)
      BY <1>1, <1>2, <1>6
    <3> QED BY <1>3, <1>4, <3>1
  <2>2. CASE k = Len(q)
    BY <1>1, <1>3, <1>4, <2>1, <2>2
  <2>3. CASE k # Len(q)
    <3>1. k \in h + 1 .. Len(p)
      BY <1>1, <1>2, <1>6, <2>3
    <3> QED BY <1>3, <1>6, <2>1, <3>1 DEF Placed
  <2> QED BY <2>2, <2>3
<1>7. ASSUME NEW i \in 1 .. Len(t), t[i] = StartToken
      PROVE  (\E k \in h + 1 .. Len(q) : e[k] = i) \/ JunkAt(t, i)
  <2>1. CASE i <= Len(s)
    <3>1. i \in 1 .. Len(s) /\ s[i] = StartToken
      BY <1>1, <1>7, <2>1
    <3>2. JunkAt(s, i) => JunkAt(t, i)
      BY <1>1, <3>1, JunkStays
    <3>3. \A k \in h + 1 .. Len(p) : k \in h + 1 .. Len(q)
      BY <1>1, <1>2
    <3> QED BY <1>3, <3>1, <3>2, <3>3 DEF Placed
  <2>2. CASE i = Len(s) + 1
    <3>1. Len(q) \in h + 1 .. Len(q)
      BY <1>1, <1>2
    <3> QED BY <1>3, <2>2, <3>1
  <2>3. CASE i = Len(s) + 2
    BY <1>7, <2>3, HeadFacts, TokenFacts DEF MessageAt
  <2>4. CASE i > Len(s) + 2
    <3> DEFINE j == i - (Len(s) + 2)
    <3>1. j \in 1 .. Len(d) /\ i = (Len(s) + 1) + 1 + j
      BY <1>1, <1>7, <2>4
    <3>2. t[i] = d[j]
      BY <3>1 DEF MessageAt
    <3> HIDE DEF j
    <3> QED BY <1>7, <3>1, <3>2, HeadFacts, TokenFacts
  <2> QED BY <1>1, <2>1, <2>2, <2>3, <2>4
<1>8. Placed(t, h, q, e)
  BY <1>5, <1>6, <1>7 DEF Placed
<1> QED BY <1>8 DEF q
LEMMA JoinFacts ==
    ASSUME NEW x \in Seq(Tokens), NEW y \in Seq(Tokens)
    PROVE  /\ x \o y \in Seq(Tokens) /\ Len(x \o y) = Len(x) + Len(y)
           /\ \A i \in 1 .. Len(x) : (x \o y)[i] = x[i]
           /\ \A i \in 1 .. Len(y) : (x \o y)[Len(x) + i] = y[i]
OBVIOUS

LEMMA PartFacts ==
    ASSUME NEW x \in Seq(Tokens), NEW m \in 1 .. Len(x) + 1, NEW n \in m - 1 .. Len(x)
    PROVE  /\ SubSeq(x, m, n) \in Seq(Tokens) /\ Len(SubSeq(x, m, n)) = n - m + 1
           /\ \A i \in 1 .. n - m + 1 : SubSeq(x, m, n)[i] = x[m - 1 + i]
OBVIOUS

LEMMA HeaderFacts ==
    LET b == Stream!Header(0, <<>>, TRUE)
    IN  b \in Seq(Tokens) /\ Len(b) = 2 /\ b[1] = StartToken
BY DEF Stream!Header, Tokens, HeadTokens, StartToken

(* What EndMessage leaves: the message behind what was there. *)
Ended(v, d, w) ==
    /\ w \in Seq(Tokens) /\ Len(w) = Len(v) + 2 + Len(d)
    /\ \A i \in 1 .. Len(v) : w[i] = v[i]
    /\ w[Len(v) + 1] = StartToken /\ w[Len(v) + 2] = HeadOf(d)
    /\ \A k \in 1 .. Len(d) : w[Len(v) + 2 + k] = d[k]

Built(v, b, d, w) == w = (v \o b) \o d

LEMMA EndedMessage ==
    ASSUME NEW v \in Seq(Tokens), NEW d \in Payloads,
           NEW b \in Seq(Tokens), Len(b) = 2, b[1] = StartToken,
           NEW w, Built(v, b, d, w)
    PROVE  /\ SubSeq(w, Len(v) + 2 + 1, Len(w)) = d
           /\ Ended(v, d, [w EXCEPT ![Len(v) + 2] = HeadOf(d)])
<1> DEFINE a == v \o b
<1> DEFINE u == [w EXCEPT ![Len(v) + 2] = HeadOf(d)]
<1>1. /\ HeadOf(d) \in Tokens /\ Len(d) \in Nat /\ d \in Seq(Tokens)
  BY HeadFacts DEF Tokens
<1>2. b \in Seq(Tokens) /\ Len(b) = 2 /\ b[1] = StartToken
  OBVIOUS
<1>3. /\ a \in Seq(Tokens) /\ Len(v) \in Nat /\ Len(a) = Len(v) + 2
      /\ \A i \in 1 .. Len(v) : a[i] = v[i]
      /\ a[Len(v) + 1] = StartToken
  <2>1. /\ a \in Seq(Tokens) /\ Len(a) = Len(v) + Len(b)
        /\ \A i \in 1 .. Len(v) : a[i] = v[i]
        /\ \A i \in 1 .. Len(b) : a[Len(v) + i] = b[i]
    BY JoinFacts, Zenon
  <2> HIDE DEF a
  <2>2. 1 \in 1 .. Len(b) /\ Len(v) \in Nat
    BY <1>2
  <2> QED BY <1>2, <2>1, <2>2
<1>4. w = a \o d
  BY DEF Built
<1> HIDE DEF a
<1>5. /\ w \in Seq(Tokens) /\ Len(w) = Len(v) + 2 + Len(d)
      /\ \A i \in 1 .. Len(v) + 2 : w[i] = a[i]
      /\ \A k \in 1 .. Len(d) : w[Len(v) + 2 + k] = d[k]
  <2> DEFINE c == a \o d
  <2>1. /\ c \in Seq(Tokens) /\ Len(c) = Len(a) + Len(d)
        /\ \A i \in 1 .. Len(a) : c[i] = a[i]
        /\ \A i \in 1 .. Len(d) : c[Len(a) + i] = d[i]
    BY <1>1, <1>3, JoinFacts, Zenon
  <2>2. w = c
    BY <1>4
  <2> HIDE DEF c
  <2> QED BY <1>3, <2>1, <2>2
<1>6. SubSeq(w, Len(v) + 2 + 1, Len(w)) = d
  <2> DEFINE z == SubSeq(w, Len(v) + 2 + 1, Len(w))
  <2>1. z \in Seq(Tokens) /\ Len(z) = Len(d)
    BY <1>1, <1>3, <1>5
  <2>2. ASSUME NEW k \in 1 .. Len(d)
        PROVE  z[k] = d[k]
    <3>1. z[k] = w[Len(v) + 2 + k]
      BY <1>1, <1>3, <1>5
    <3> QED BY <1>5, <3>1
  <2> HIDE DEF z
  <2>3. z = d
    BY <1>1, <2>1, <2>2
  <2> QED BY <2>3 DEF z
<1>7. u \in Seq(Tokens) /\ Len(u) = Len(w)
  <2>1. DOMAIN w = 1 .. Len(w) /\ Len(v) + 2 \in 1 .. Len(w)
    BY <1>1, <1>3, <1>5
  <2> QED BY <1>1, <1>5, <2>1
<1>8. /\ u[Len(v) + 2] = HeadOf(d)
      /\ \A i \in 1 .. Len(w) : i # Len(v) + 2 => u[i] = w[i]
  <2>1. DOMAIN w = 1 .. Len(w) /\ Len(v) + 2 \in 1 .. Len(w)
    BY <1>1, <1>3, <1>5
  <2> QED BY <2>1
<1> HIDE DEF u
<1>9. /\ \A i \in 1 .. Len(v) : u[i] = v[i]
      /\ u[Len(v) + 1] = StartToken
  <2>1. ASSUME NEW i \in 1 .. Len(v)
        PROVE  u[i] = v[i]
    <3>1. i \in 1 .. Len(w) /\ i # Len(v) + 2 /\ i \in 1 .. Len(v) + 2
      BY <1>1, <1>3, <1>5
    <3> QED BY <1>3, <1>5, <1>8, <3>1
  <2>2. Len(v) + 1 \in 1 .. Len(w) /\ Len(v) + 1 # Len(v) + 2 /\ Len(v) + 1 \in 1 .. Len(v) + 2
    BY <1>1, <1>3, <1>5
  <2> QED BY <1>3, <1>5, <1>8, <2>1, <2>2
<1>10. ASSUME NEW k \in 1 .. Len(d)
       PROVE  u[Len(v) + 2 + k] = d[k]
  <2>1. Len(v) + 2 + k \in 1 .. Len(w) /\ Len(v) + 2 + k # Len(v) + 2
    BY <1>1, <1>3, <1>5
  <2> QED BY <1>5, <1>8, <2>1
<1>11. Ended(v, d, u)
  BY <1>5, <1>7, <1>8, <1>9, <1>10 DEF Ended
<1> QED BY <1>6, <1>11 DEF u

(* The buffers of both ends, one behind the other. *)
LEMMA Joined ==
    ASSUME NEW r \in Seq(Tokens), NEW v \in Seq(Tokens), NEW d \in Payloads,
           NEW w, Ended(v, d, w)
    PROVE  /\ r \o v \in Seq(Tokens) /\ r \o w \in Seq(Tokens)
           /\ Len(r \o w) = Len(r \o v) + 2 + Len(d)
           /\ \A i \in 1 .. Len(r \o v) : (r \o w)[i] = (r \o v)[i]
           /\ MessageAt(r \o w, Len(r \o v) + 1, d)
<1> DEFINE s == r \o v
           t == r \o w
<1>1. /\ Len(r) \in Nat /\ Len(v) \in Nat /\ Len(d) \in Nat /\ w \in Seq(Tokens)
      /\ Len(w) = Len(v) + 2 + Len(d)
  BY HeadFacts DEF Ended
<1>2. s \in Seq(Tokens) /\ Len(s) = Len(r) + Len(v) /\ t \in Seq(Tokens) /\ Len(t) = Len(r) + Len(w)
  BY <1>1
<1>3. ASSUME NEW i \in 1 .. Len(v)
      PROVE  s[Len(r) + i] = v[i]
  BY <1>1
<1>4. ASSUME NEW i \in 1 .. Len(w)
      PROVE  t[Len(r) + i] = w[i]
  BY <1>1
<1>5. \A i \in 1 .. Len(r) : s[i] = r[i] /\ t[i] = r[i]
  BY <1>1
<1> HIDE DEF s, t
<1>6. ASSUME NEW i \in 1 .. Len(s)
      PROVE  t[i] = s[i]
  <2>1. CASE i <= Len(r)
    BY <1>1, <1>2, <1>5, <2>1
  <2>2. CASE i > Len(r)
    <3> DEFINE j == i - Len(r)
    <3>1. j \in 1 .. Len(v) /\ j \in 1 .. Len(w) /\ i = Len(r) + j
      BY <1>1, <1>2, <2>2
    <3> HIDE DEF j
    <3>2. w[j] = v[j]
      BY <3>1 DEF Ended
    <3> QED BY <1>3, <1>4, <3>1, <3>2
  <2> QED BY <1>1, <1>2, <2>1, <2>2
<1>7. MessageAt(t, Len(s) + 1, d)
  <2>1. Len(s) + 1 \in 1 .. Len(t) /\ Len(s) + 1 + 1 + Len(d) <= Len(t)
    BY <1>1, <1>2
  <2>2. t[Len(s) + 1] = StartToken
    <3>1. Len(v) + 1 \in 1 .. Len(w) /\ Len(r) + (Len(v) + 1) = Len(s) + 1
      BY <1>1, <1>2
    <3>2. t[Len(r) + (Len(v) + 1)] = w[Len(v) + 1]
      BY <1>4, <3>1
    <3> QED BY <3>1, <3>2 DEF Ended
  <2>3. t[Len(s) + 1 + 1] = HeadOf(d)
    <3>1. Len(v) + 2 \in 1 .. Len(w) /\ Len(r) + (Len(v) + 2) = Len(s) + 1 + 1
      BY <1>1, <1>2
    <3>2. t[Len(r) + (Len(v) + 2)] = w[Len(v) + 2]
      BY <1>4, <3>1
    <3> QED BY <3>1, <3>2 DEF Ended
  <2>4. ASSUME NEW k \in 1 .. Len(d)
        PROVE  t[Len(s) + 1 + 1 + k] = d[k]
    <3>1. Len(v) + 2 + k \in 1 .. Len(w) /\ Len(r) + (Len(v) + 2 + k) = Len(s) + 1 + 1 + k
      BY <1>1, <1>2
    <3>2. t[Len(r) + (Len(v) + 2 + k)] = w[Len(v) + 2 + k]
      BY <1>4, <3>1
    <3> QED BY <3>1, <3>2 DEF Ended
  <2> QED BY <2>1, <2>2, <2>3, <2>4 DEF MessageAt
<1>8. Len(t) = Len(s) + 2 + Len(d)
  BY <1>1, <1>2
<1> QED BY <1>2, <1>6, <1>7, <1>8 DEF s, t

Open(v, b) == [vSend |-> v \o b, headerStart |-> Len(v), messageStart |-> Len(v) + 2]
AtRest(v) == [vSend |-> v, headerStart |-> -1, messageStart |-> -1]

Filled(v, b, x) ==
    [vSend |-> (v \o b) \o x, headerStart |-> Len(v), messageStart |-> Len(v) + 2]

LEMMA Extended ==
    ASSUME NEW v, NEW b, NEW x
    PROVE  [Open(v, b) EXCEPT !.vSend = @ \o x] = Filled(v, b, x)
<1> DEFINE y == (v \o b) \o x
           r == Open(v, b)
<1>1. r.vSend \o x = y
  BY DEF Open
<1> HIDE DEF y
<1>2. [r EXCEPT !.vSend = y] = [vSend |-> y, headerStart |-> Len(v), messageStart |-> Len(v) + 2]
  BY DEF Open
<1> HIDE DEF r
<1>3. [r EXCEPT !.vSend = @ \o x] = [r EXCEPT !.vSend = y]
  BY <1>1, Zenon
<1> QED BY <1>2, <1>3, Zenon DEF y, r, Filled

LEMMA Begun ==
    ASSUME NEW v \in Seq(Tokens)
    PROVE  Stream!BeginMessage(AtRest(v)) = Open(v, Stream!Header(0, <<>>, TRUE))
<1>1. Stream!AbortMessage(AtRest(v)) = AtRest(v) /\ AtRest(v).vSend = v
  BY DEF Stream!AbortMessage, AtRest
<1> QED BY <1>1 DEF Stream!BeginMessage, Stream!HeaderSize, Open

LEMMA Aborted ==
    ASSUME NEW v \in Seq(Tokens), NEW b \in Seq(Tokens), Len(b) = 2, NEW d \in Payloads,
           NEW n \in 0 .. Len(d)
    PROVE  Stream!AbortMessage([Open(v, b) EXCEPT !.vSend = @ \o SubSeq(d, 1, n)]) = AtRest(v)
<1> DEFINE x == SubSeq(d, 1, n)
           a == v \o b
           w == a \o x
<1>1. d \in Seq(Tokens) /\ Len(d) \in Nat /\ Len(v) \in Nat
  BY HeadFacts
<1>2. x \in Seq(Tokens)
  BY <1>1
<1> HIDE DEF x
<1>3. a \in Seq(Tokens) /\ Len(a) = Len(v) + Len(b) /\ \A i \in 1 .. Len(v) : a[i] = v[i]
  BY JoinFacts, Zenon
<1> HIDE DEF a
<1>4. w \in Seq(Tokens) /\ Len(w) = Len(a) + Len(x) /\ \A i \in 1 .. Len(a) : w[i] = a[i]
  BY <1>2, <1>3, JoinFacts, Zenon
<1>5. Filled(v, b, x) = [vSend |-> w, headerStart |-> Len(v), messageStart |-> Len(v) + 2]
  BY DEF Filled, a
<1> HIDE DEF w
<1>6. SubSeq(w, 1, Len(v)) = v
  <2> DEFINE z == SubSeq(w, 1, Len(v))
  <2>1. Len(x) \in Nat
    BY <1>2
  <2>2. Len(v) <= Len(w) /\ Len(w) \in Nat
    BY <1>1, <1>3, <1>4, <2>1
  <2>3. z \in Seq(Tokens) /\ Len(z) = Len(v) /\ \A i \in 1 .. Len(v) : z[i] = w[i]
    BY <1>1, <1>4, <2>2
  <2> HIDE DEF z
  <2>4. \A i \in 1 .. Len(v) : w[i] = v[i]
    BY <1>1, <1>3, <1>4
  <2>5. z = v
    BY <2>3, <2>4
  <2> QED BY <2>5 DEF z
<1>7. Stream!AbortMessage([vSend |-> w, headerStart |-> Len(v), messageStart |-> Len(v) + 2]) =
         AtRest(v)
  BY <1>1, <1>6 DEF Stream!AbortMessage, AtRest
<1>8. [Open(v, b) EXCEPT !.vSend = @ \o x] = Filled(v, b, x)
  BY Extended
<1> QED BY <1>5, <1>7, <1>8 DEF x

LEMMA EndedWhole ==
    ASSUME NEW v \in Seq(Tokens), NEW d \in Payloads,
           NEW b \in Seq(Tokens), Len(b) = 2, b[1] = StartToken
    PROVE  \E w : /\ Ended(v, d, w)
                  /\ Stream!EndMessage([Open(v, b) EXCEPT !.vSend = @ \o d]) = AtRest(w)
<1> DEFINE w == (v \o b) \o d
           u == [w EXCEPT ![Len(v) + 2] = HeadOf(d)]
           o == [vSend |-> w, headerStart |-> Len(v), messageStart |-> Len(v) + 2]
<1>1. [Open(v, b) EXCEPT !.vSend = @ \o d] = o
  BY Extended DEF Filled
<1>2. Built(v, b, d, w)
  BY DEF Built
<1> HIDE DEF w
<1>3. SubSeq(w, Len(v) + 2 + 1, Len(w)) = d /\ Ended(v, d, u)
  BY <1>2, EndedMessage
<1>4. Stream!Header(Len(d), d, TRUE)[2] = HeadOf(d)
  BY DEF Stream!Header, HeadOf
<1>5. Stream!EndMessage(o) = AtRest(u)
  BY <1>3, <1>4 DEF Stream!EndMessage, AtRest
<1> QED BY <1>1, <1>3, <1>5

LEMMA StreamPush ==
    ASSUME StreamInv, NEW d \in Payloads, Stream!PushMessage(d), UNCHANGED <<vRecv, handled>>
    PROVE  StreamInv'
<1> DEFINE v == out.vSend
           b == Stream!Header(0, <<>>, TRUE)
           h == Len(handled)
<1>1. /\ vRecv \in Seq(Tokens) /\ v \in Seq(Tokens) /\ out = AtRest(v)
      /\ pushed \in Seq(Payloads) /\ handled \in Seq(Payloads) /\ h <= Len(pushed)
      /\ h \in Nat /\ Len(pushed) \in Nat
  BY DEF StreamInv, AtRest
<1>2. b \in Seq(Tokens) /\ Len(b) = 2 /\ b[1] = StartToken
  BY HeaderFacts
<1>3. Stream!BeginMessage(out) = Open(v, b)
  BY <1>1, Begun
<1> HIDE DEF b, v
<1>4. CASE /\ out' = Stream!EndMessage([Open(v, b) EXCEPT !.vSend = @ \o d])
           /\ pushed' = Append(pushed, d)
  <2>1. PICK w : Ended(v, d, w) /\ out' = AtRest(w)
    BY <1>1, <1>2, <1>4, EndedWhole
  <2>2. /\ w \in Seq(Tokens) /\ out'.vSend = w
        /\ out' = [vSend |-> out'.vSend, headerStart |-> -1, messageStart |-> -1]
    BY <2>1 DEF Ended, AtRest
  <2>3. Waiting = vRecv \o v /\ Waiting' = vRecv \o w
    BY <2>2 DEF Waiting, v
  <2>4. PICK f : Placed(vRecv \o v, h, pushed, f)
    BY <2>3 DEF StreamInv
  <2>5. \E e : Placed(vRecv \o w, h, Append(pushed, d), e)
    <3> DEFINE s == vRecv \o v
               t == vRecv \o w
    <3>1. /\ s \in Seq(Tokens) /\ t \in Seq(Tokens)
          /\ Len(t) = Len(s) + 2 + Len(d)
          /\ \A i \in 1 .. Len(s) : t[i] = s[i]
          /\ MessageAt(t, Len(s) + 1, d)
      BY <1>1, <2>1, Joined
    <3>2. Placed(s, h, pushed, f)
      BY <2>4
    <3> HIDE DEF s, t
    <3>3. \E e : Placed(t, h, Append(pushed, d), e)
      BY <1>1, <3>1, <3>2, PlacedMessage
    <3> QED BY <3>3 DEF t
  <2>6. /\ Append(pushed, d) \in Seq(Payloads) /\ Len(Append(pushed, d)) = Len(pushed) + 1
        /\ \A k \in 1 .. Len(pushed) : Append(pushed, d)[k] = pushed[k]
    BY <1>1
  <2>7. \A k \in 1 .. h : Append(pushed, d)[k] = handled[k]
    <3>1. \A k \in 1 .. h : k \in 1 .. Len(pushed) /\ handled[k] = pushed[k]
      BY <1>1 DEF StreamInv
    <3> QED BY <2>6, <3>1
  <2>8. h <= Len(Append(pushed, d))
    BY <1>1, <2>6
  <2>9. \E e : Placed(Waiting', h', pushed', e)
    BY <1>4, <2>3, <2>5
  <2> QED BY <1>1, <1>4, <2>2, <2>6, <2>7, <2>8, <2>9 DEF StreamInv
<1>5. CASE \E n \in 0 .. Len(d) :
                out' = Stream!AbortMessage([Open(v, b) EXCEPT !.vSend = @ \o SubSeq(d, 1, n)])
             /\ UNCHANGED pushed
  <2>1. out' = out /\ pushed' = pushed
    BY <1>1, <1>2, <1>5, Aborted
  <2> QED BY <2>1 DEF StreamInv, Waiting
<1>6. \/ /\ out' = Stream!EndMessage([Open(v, b) EXCEPT !.vSend = @ \o d])
         /\ pushed' = Append(pushed, d)
      \/ \E n \in 0 .. Len(d) :
                out' = Stream!AbortMessage([Open(v, b) EXCEPT !.vSend = @ \o SubSeq(d, 1, n)])
             /\ UNCHANGED pushed
  BY <1>3 DEF Stream!PushMessage
<1> QED BY <1>4, <1>5, <1>6

(* A header that is refused, and noise. *)
LEMMA GarbageFacts ==
    ASSUME NEW g \in Stream!Garbage
    PROVE  g \in Seq(Tokens) /\ \A i \in 1 .. Len(g) : g[i] = StartToken => JunkAt(g, i)
<1>1. MaxSize \in Nat
  BY NetworkAssumption DEF Stream!StreamAssumption
<1>2. CASE g = <<Stream!Noise>>
  <2>1. g \in Seq(Tokens) /\ Len(g) = 1 /\ g[1] = Stream!Noise
    BY <1>2 DEF Tokens
  <2> QED BY <2>1, TokenFacts
<1>3. ASSUME NEW n \in Int, NEW ok \in BOOLEAN, g = Stream!Header(n, <<>>, ok), ~ok \/ n > MaxSize
      PROVE  g \in Seq(Tokens) /\ \A i \in 1 .. Len(g) : g[i] = StartToken => JunkAt(g, i)
  <2> DEFINE x == [kind |-> "head", size |-> n, sum |-> <<>>, valid |-> ok]
  <2>1. x \in HeadTokens /\ x.size = n /\ x.valid = ok
    BY DEF HeadTokens
  <2>2. g = <<StartToken, x>>
    BY <1>3 DEF Stream!Header, StartToken
  <2> HIDE DEF x
  <2>3. g \in Seq(Tokens) /\ Len(g) = 2 /\ g[2] = x
    BY <2>1, <2>2 DEF Tokens
  <2>4. JunkAt(g, 1)
    BY <1>3, <2>1, <2>3 DEF JunkAt
  <2> QED BY <2>1, <2>3, <2>4, TokenFacts
<1>4. ASSUME NEW n \in 1 .. 2, g = Stream!Header(n, <<Stream!Noise>>, TRUE) \o <<Stream!Data>>
      PROVE  g \in Seq(Tokens) /\ \A i \in 1 .. Len(g) : g[i] = StartToken => JunkAt(g, i)
  <2> DEFINE x == [kind |-> "head", size |-> n, sum |-> <<Stream!Noise>>, valid |-> TRUE]
  <2>1. x \in HeadTokens /\ x.size = n /\ x.sum = <<Stream!Noise>> /\ x.valid
    BY DEF HeadTokens
  <2>2. g = <<StartToken, x>> \o <<Stream!Data>>
    BY <1>4 DEF Stream!Header, StartToken
  <2> HIDE DEF x
  <2> DEFINE a == <<StartToken, x>>
             b == <<Stream!Data>>
  <2>3. /\ a \in Seq(Tokens) /\ Len(a) = 2 /\ a[2] = x
        /\ b \in Seq(Tokens) /\ Len(b) = 1 /\ b[1] = Stream!Data
    BY <2>1 DEF Tokens
  <2> HIDE DEF a, b
  <2>4. g \in Seq(Tokens) /\ Len(g) = 3 /\ g[2] = x /\ g[3] = Stream!Data
    <3>1. /\ a \o b \in Seq(Tokens) /\ Len(a \o b) = Len(a) + Len(b)
          /\ \A i \in 1 .. Len(a) : (a \o b)[i] = a[i]
          /\ \A i \in 1 .. Len(b) : (a \o b)[Len(a) + i] = b[i]
      BY <2>3, JoinFacts, Zenon
    <3>2. g = a \o b
      BY <2>2 DEF a, b
    <3>3. 2 \in 1 .. Len(a) /\ 1 \in 1 .. Len(b) /\ Len(a) + 1 = 3
      BY <2>3
    <3> QED BY <2>3, <3>1, <3>2, <3>3
  <2>5. JunkAt(g, 1)
    BY <2>1, <2>4 DEF JunkAt
  <2> QED BY <2>1, <2>4, <2>5, TokenFacts
<1>5. \/ g = <<Stream!Noise>>
      \/ g = Stream!Header(1, <<>>, FALSE)
      \/ g = Stream!Header(MaxSize + 1, <<>>, TRUE)
      \/ \E n \in 1 .. 2 : g = Stream!Header(n, <<Stream!Noise>>, TRUE) \o <<Stream!Data>>
  BY DEF Stream!Garbage
<1>6. CASE g = Stream!Header(1, <<>>, FALSE)
  <2>1. 1 \in Int /\ FALSE \in BOOLEAN /\ ~FALSE
    OBVIOUS
  <2> QED BY <1>3, <1>6, <2>1, Zenon
<1>7. CASE g = Stream!Header(MaxSize + 1, <<>>, TRUE)
  <2>1. MaxSize + 1 \in Int /\ MaxSize + 1 > MaxSize
    BY <1>1
  <2> QED BY <1>3, <1>7, <2>1
<1>8. CASE \E n \in 1 .. 2 : g = Stream!Header(n, <<Stream!Noise>>, TRUE) \o <<Stream!Data>>
  BY <1>4, <1>8
<1> QED BY <1>2, <1>5, <1>6, <1>7, <1>8

LEMMA JunkBehind ==
    ASSUME NEW s \in Seq(Tokens), NEW g \in Seq(Tokens),
           \A i \in 1 .. Len(g) : g[i] = StartToken => JunkAt(g, i)
    PROVE  \A i \in Len(s) + 1 .. Len(s \o g) : (s \o g)[i] = StartToken => JunkAt(s \o g, i)
<1> DEFINE t == s \o g
<1>1. /\ t \in Seq(Tokens) /\ Len(t) = Len(s) + Len(g)
      /\ \A i \in 1 .. Len(g) : t[Len(s) + i] = g[i]
  BY JoinFacts, Zenon
<1>2. Len(s) \in Nat /\ Len(g) \in Nat
  OBVIOUS
<1> HIDE DEF t
<1>3. ASSUME NEW i \in Len(s) + 1 .. Len(t), t[i] = StartToken
      PROVE  JunkAt(t, i)
  <2> DEFINE j == i - Len(s)
  <2>1. j \in 1 .. Len(g) /\ i = Len(s) + j
    BY <1>1, <1>2
  <2> HIDE DEF j
  <2>2. JunkAt(g, j)
    BY <1>1, <1>3, <2>1
  <2>3. j + 1 <= Len(g)
    BY <2>2 DEF JunkAt
  <2>4. i + 1 <= Len(t) /\ t[i + 1] = g[j + 1]
    <3>1. j + 1 \in 1 .. Len(g) /\ Len(s) + (j + 1) = i + 1
      BY <1>2, <2>1, <2>3
    <3> QED BY <1>1, <1>2, <3>1
  <2>5. j + 2 <= Len(g) => i + 2 <= Len(t) /\ t[i + 2] = g[j + 2]
    <3>1. j + 2 <= Len(g) => j + 2 \in 1 .. Len(g) /\ Len(s) + (j + 2) = i + 2
      BY <1>2, <2>1
    <3> QED BY <1>1, <1>2, <3>1
  <2> QED BY <2>2, <2>4, <2>5 DEF JunkAt
<1> QED BY <1>3 DEF t

LEMMA StreamGarbage ==
    ASSUME StreamInv, Stream!PushGarbage, UNCHANGED <<vRecv, handled>>
    PROVE  StreamInv'
<1> DEFINE v == out.vSend
           h == Len(handled)
<1>1. /\ vRecv \in Seq(Tokens) /\ v \in Seq(Tokens) /\ out = AtRest(v)
      /\ pushed \in Seq(Payloads) /\ handled \in Seq(Payloads) /\ h <= Len(pushed)
      /\ h \in Nat /\ Len(pushed) \in Nat
  BY DEF StreamInv, AtRest
<1>2. PICK g \in Stream!Garbage : out' = [out EXCEPT !.vSend = @ \o g] /\ pushed' = pushed
  BY DEF Stream!PushGarbage
<1>3. g \in Seq(Tokens) /\ \A i \in 1 .. Len(g) : g[i] = StartToken => JunkAt(g, i)
  BY GarbageFacts
<1>4. out' = AtRest(v \o g)
  <2> DEFINE y == v \o g
  <2>1. out.vSend \o g = y
    OBVIOUS
  <2> HIDE DEF y, v
  <2>2. [AtRest(v) EXCEPT !.vSend = y] = AtRest(y)
    BY DEF AtRest
  <2>3. [out EXCEPT !.vSend = @ \o g] = [out EXCEPT !.vSend = y]
    BY <2>1, Zenon
  <2> QED BY <1>1, <1>2, <2>2, <2>3, Zenon DEF y
<1> DEFINE s == vRecv \o v
           t == s \o g
<1>5. v \o g \in Seq(Tokens) /\ s \in Seq(Tokens)
  BY <1>1, <1>3, JoinFacts
<1> HIDE DEF v
<1>6. /\ out'.vSend = v \o g
      /\ out' = [vSend |-> out'.vSend, headerStart |-> -1, messageStart |-> -1]
  BY <1>4 DEF AtRest
<1>7. Waiting = s /\ Waiting' = t
  <2>1. Waiting = s /\ Waiting' = vRecv \o (v \o g)
    BY <1>6 DEF Waiting, v
  <2> HIDE DEF s
  <2>2. (vRecv \o v) \o g = vRecv \o (v \o g)
    BY <1>1, <1>3, ConcatAssociative
  <2> QED BY <2>1, <2>2 DEF s
<1>8. /\ t \in Seq(Tokens) /\ Len(t) = Len(s) + Len(g) /\ \A i \in 1 .. Len(s) : t[i] = s[i]
  <2> HIDE DEF s
  <2> QED BY <1>3, <1>5, JoinFacts
<1>9. \A i \in Len(s) + 1 .. Len(t) : t[i] = StartToken => JunkAt(t, i)
  <2> HIDE DEF s
  <2> QED BY <1>3, <1>5, JunkBehind
<1>10. PICK f : Placed(s, h, pushed, f)
  BY <1>7 DEF StreamInv
<1> HIDE DEF s, t
<1>11. Placed(t, h, pushed, f)
  <2>1. Len(s) <= Len(t)
    BY <1>3, <1>5, <1>8
  <2> QED BY <1>1, <1>5, <1>8, <1>9, <1>10, <2>1, PlacedJunk
<1>12. \E e : Placed(Waiting', h', pushed', e)
  BY <1>2, <1>7, <1>11
<1> QED BY <1>1, <1>2, <1>5, <1>6, <1>12 DEF StreamInv

LEMMA DropFront ==
    ASSUME NEW r \in Seq(Tokens), NEW v \in Seq(Tokens), NEW n \in 0 .. Len(r)
    PROVE  /\ SubSeq(r, n + 1, Len(r)) \in Seq(Tokens)
           /\ Rest(SubSeq(r, n + 1, Len(r)) \o v, r \o v, n)
<1> DEFINE q == SubSeq(r, n + 1, Len(r))
           s == r \o v
           t == q \o v
<1>1. Len(r) \in Nat /\ Len(v) \in Nat /\ n \in Nat /\ n <= Len(r)
  OBVIOUS
<1>2. /\ q \in Seq(Tokens) /\ Len(q) = Len(r) - n
      /\ \A i \in 1 .. Len(r) - n : q[i] = r[n + i]
  <2>1. n + 1 \in 1 .. Len(r) + 1 /\ Len(r) \in (n + 1) - 1 .. Len(r)
    BY <1>1
  <2>2. /\ q \in Seq(Tokens) /\ Len(q) = Len(r) - (n + 1) + 1
        /\ \A i \in 1 .. Len(r) - (n + 1) + 1 : q[i] = r[(n + 1) - 1 + i]
    BY <2>1, PartFacts, Zenon
  <2> HIDE DEF q
  <2>3. Len(r) - (n + 1) + 1 = Len(r) - n /\ \A i \in Nat : (n + 1) - 1 + i = n + i
    BY <1>1
  <2> QED BY <1>1, <2>2, <2>3
<1> HIDE DEF q
<1>3. /\ s \in Seq(Tokens) /\ Len(s) = Len(r) + Len(v)
      /\ \A i \in 1 .. Len(r) : s[i] = r[i]
      /\ \A i \in 1 .. Len(v) : s[Len(r) + i] = v[i]
  BY JoinFacts, Zenon
<1>4. /\ t \in Seq(Tokens) /\ Len(t) = Len(q) + Len(v)
      /\ \A i \in 1 .. Len(q) : t[i] = q[i]
      /\ \A i \in 1 .. Len(v) : t[Len(q) + i] = v[i]
  BY <1>2, JoinFacts, Zenon
<1> HIDE DEF s, t
<1>5. Len(t) \in Nat /\ Len(s) = n + Len(t)
  BY <1>1, <1>2, <1>3, <1>4
<1>6. ASSUME NEW i \in 1 .. Len(t)
      PROVE  t[i] = s[i + n]
  <2>1. CASE i <= Len(q)
    <3>1. i \in 1 .. Len(q) /\ i \in 1 .. Len(r) - n /\ n + i \in 1 .. Len(r) /\ n + i = i + n
      BY <1>1, <1>2, <1>4, <2>1
    <3> QED BY <1>2, <1>3, <1>4, <3>1
  <2>2. CASE i > Len(q)
    <3> DEFINE j == i - Len(q)
    <3>1. j \in 1 .. Len(v) /\ i = Len(q) + j /\ i + n = Len(r) + j
      BY <1>1, <1>2, <1>4, <2>2
    <3> HIDE DEF j
    <3> QED BY <1>3, <1>4, <3>1
  <2> QED BY <1>1, <1>2, <1>4, <2>1, <2>2
<1>7. Rest(t, s, n)
  BY <1>1, <1>5, <1>6 DEF Rest
<1> QED BY <1>2, <1>7 DEF q, s, t

LEMMA StreamSocket ==
    ASSUME StreamInv, Stream!SocketSend
    PROVE  StreamInv'
<1> DEFINE v == out.vSend
<1>1. vRecv \in Seq(Tokens) /\ v \in Seq(Tokens) /\ out = AtRest(v) /\ Len(v) \in Nat
  BY DEF StreamInv, AtRest
<1>2. PICK n \in 1 .. Len(v) : /\ vRecv' = vRecv \o SubSeq(v, 1, n)
                               /\ out' = [out EXCEPT !.vSend = SubSeq(@, n + 1, Len(@))]
                               /\ pushed' = pushed /\ handled' = handled
  BY DEF Stream!SocketSend
<1> DEFINE a == SubSeq(v, 1, n)
           b == SubSeq(v, n + 1, Len(v))
<1>3. out' = AtRest(b)
  <2>1. out.vSend = v
    OBVIOUS
  <2> HIDE DEF v, b
  <2>2. [AtRest(v) EXCEPT !.vSend = b] = AtRest(b)
    BY DEF AtRest
  <2>3. [out EXCEPT !.vSend = SubSeq(@, n + 1, Len(@))] = [out EXCEPT !.vSend = b]
    BY <2>1, Zenon DEF b
  <2> QED BY <1>1, <1>2, <2>2, <2>3, Zenon DEF b
<1> HIDE DEF v
<1>4. a \in Seq(Tokens) /\ b \in Seq(Tokens) /\ a \o b = v
  <2>1. /\ 1 \in 1 .. Len(v) + 1 /\ n \in 1 - 1 .. Len(v) /\ Len(v) \in n .. Len(v)
        /\ n + 1 \in 1 .. Len(v) + 1 /\ Len(v) \in n + 1 - 1 .. Len(v)
    BY <1>1
  <2>2. a \in Seq(Tokens) /\ b \in Seq(Tokens)
    BY <1>1, <2>1, PartFacts
  <2>3. a \o b = SubSeq(v, 1, Len(v))
    BY <1>1, <2>1, ConcatAdjacentSubSeq
  <2>4. SubSeq(v, 1, Len(v)) = v
    BY <1>1, SubSeqFull
  <2> QED BY <2>2, <2>3, <2>4
<1> HIDE DEF a, b
<1>5. (vRecv \o a) \o b = vRecv \o v
  <2>1. vRecv \in Seq(Tokens) /\ a \in Seq(Tokens) /\ b \in Seq(Tokens)
    BY <1>1, <1>4
  <2>2. (vRecv \o a) \o b = vRecv \o (a \o b)
    BY <2>1, ConcatAssociative
  <2> QED BY <1>4, <2>2
<1>6. vRecv' = vRecv \o a /\ vRecv \o a \in Seq(Tokens)
  <2>1. vRecv \o a \in Seq(Tokens)
    BY <1>1, <1>4, JoinFacts
  <2> QED BY <1>2, <2>1 DEF a
<1>7. /\ out'.vSend = b
      /\ out' = [vSend |-> out'.vSend, headerStart |-> -1, messageStart |-> -1]
  BY <1>3 DEF AtRest
<1>8. Waiting' = Waiting
  BY <1>5, <1>6, <1>7 DEF Waiting, v
<1> QED BY <1>2, <1>4, <1>6, <1>7, <1>8 DEF StreamInv

(* Some of the front has been taken from the buffer, and with it the         *)
(* messages that are now handled.                                           *)
LEMMA StreamTaken ==
    ASSUME StreamInv, out' = out, pushed' = pushed,
           NEW n \in 0 .. Len(vRecv), vRecv' = SubSeq(vRecv, n + 1, Len(vRecv)),
           handled' \in Seq(Payloads), Len(handled') <= Len(pushed),
           \A k \in 1 .. Len(handled') : handled'[k] = pushed[k],
           NEW f, Placed(Waiting, Len(handled), pushed, f),
           Taken(f, Len(handled), Len(handled'), pushed, n)
    PROVE  StreamInv'
<1> DEFINE v == out.vSend
           q == SubSeq(vRecv, n + 1, Len(vRecv))
           g == Len(handled')
           h == Len(handled)
<1>1. /\ vRecv \in Seq(Tokens) /\ v \in Seq(Tokens) /\ pushed \in Seq(Payloads)
      /\ g \in Nat /\ h \in Nat
  BY DEF StreamInv
<1>2. q \in Seq(Tokens) /\ Rest(q \o v, vRecv \o v, n)
  <2> HIDE DEF v
  <2> QED BY <1>1, DropFront
<1> HIDE DEF q
<1>3. vRecv' = q
  BY DEF q
<1>4. Waiting = vRecv \o v /\ Waiting' = q \o v
  BY <1>3 DEF Waiting
<1> DEFINE s == Waiting
           t == q \o v
<1>5. Rest(t, s, n) /\ Placed(s, h, pushed, f)
  BY <1>2, <1>4
<1>6. Taken(f, h, g, pushed, n)
  OBVIOUS
<1> HIDE DEF s, t, g, h, v
<1>7. \E e : Placed(t, g, pushed, e)
  BY <1>1, <1>5, <1>6, PlacedShift, Zenon
<1>8. \E e : Placed(Waiting', Len(handled'), pushed', e)
  BY <1>4, <1>7 DEF t, g
<1> QED BY <1>2, <1>3, <1>8 DEF StreamInv

(* The receiver looks for the first message start. *)
LEMMA StartFacts ==
    ASSUME vRecv \in Seq(Tokens)
    PROVE  /\ Stream!Start \in 1 .. Len(vRecv) + 1
           /\ \A i \in 1 .. Len(vRecv) : i < Stream!Start => vRecv[i] # StartToken
           /\ Stream!Start <= Len(vRecv) => vRecv[Stream!Start] = StartToken
<1> DEFINE T == {i \in 1 .. Len(vRecv) : Stream!IsStart(vRecv[i])}
<1>1. \A i \in 1 .. Len(vRecv) : Stream!IsStart(vRecv[i]) <=> vRecv[i] = StartToken
  BY TokenFacts
<1>2. Len(vRecv) \in Nat /\ DOMAIN vRecv = 1 .. Len(vRecv)
  OBVIOUS
<1>3. CASE \E i \in DOMAIN vRecv : Stream!IsStart(vRecv[i])
  <2>1. T # {} /\ T \subseteq Int /\ T \subseteq Nat
    BY <1>2, <1>3
  <2>2. Stream!Start = Min(T)
    BY <1>3, <2>1 DEF Stream!Start, Stream!SelectInSeq, Stream!Min, Min
  <2>3. Min(T) \in T /\ \A i \in T : Min(T) <= i
    <3> HIDE DEF T
    <3> QED BY <2>1, LeastInteger
  <2> DEFINE m == Stream!Start
  <2>4. m \in T /\ \A i \in T : m <= i
    BY <2>2, <2>3
  <2> HIDE DEF m
  <2>5. m \in 1 .. Len(vRecv) /\ vRecv[m] = StartToken
    BY <1>1, <2>4
  <2>6. ASSUME NEW i \in 1 .. Len(vRecv), i < m
        PROVE  vRecv[i] # StartToken
    <3>1. i \notin T
      <4> HIDE DEF T
      <4> QED BY <1>2, <2>4, <2>5, <2>6
    <3> QED BY <1>1, <3>1
  <2>7. m \in 1 .. Len(vRecv) + 1
    BY <1>2, <2>5
  <2> QED BY <2>5, <2>6, <2>7 DEF m
<1>4. CASE ~\E i \in DOMAIN vRecv : Stream!IsStart(vRecv[i])
  BY <1>1, <1>2, <1>4 DEF Stream!Start
<1> QED BY <1>3, <1>4

(* No message is lost with n tokens that are no starts. *)
LEMMA NoneTaken ==
    ASSUME NEW s, NEW h \in Nat, NEW p \in Seq(Payloads), NEW f, Placed(s, h, p, f),
           NEW n \in Nat, \A k \in h + 1 .. Len(p) : f[k] \in 1 .. n => s[f[k]] # StartToken
    PROVE  Taken(f, h, h, p, n)
<1>1. ASSUME NEW k \in h + 1 .. Len(p)
      PROVE  f[k] > n
  <2>1. MessageAt(s, f[k], p[k])
    BY <1>1 DEF Placed
  <2> DEFINE x == f[k]
  <2>2. x \in 1 .. Len(s) /\ s[x] = StartToken /\ ~(x \in 1 .. n)
    BY <1>1, <2>1 DEF MessageAt
  <2>3. x \in Int /\ x >= 1
    BY <2>2
  <2> HIDE DEF x
  <2>4. x > n
    BY <2>2, <2>3
  <2> QED BY <2>4 DEF x
<1>2. Len(p) \in Nat
  OBVIOUS
<1>3. \A k \in h + 1 .. Len(p) : ~(k <= h)
  BY <1>2
<1> QED BY <1>1, <1>3 DEF Taken

(* The buffer of the receiver is the front of what waits. *)
LEMMA FrontFacts ==
    ASSUME StreamInv
    PROVE  /\ vRecv \in Seq(Tokens) /\ out.vSend \in Seq(Tokens) /\ Len(vRecv) \in Nat
           /\ Waiting \in Seq(Tokens) /\ Len(Waiting) = Len(vRecv) + Len(out.vSend)
           /\ \A i \in 1 .. Len(vRecv) : Waiting[i] = vRecv[i]
           /\ pushed \in Seq(Payloads) /\ handled \in Seq(Payloads)
           /\ Len(handled) \in Nat /\ Len(pushed) \in Nat /\ Len(handled) <= Len(pushed)
           /\ \A k \in 1 .. Len(handled) : handled[k] = pushed[k]
<1>1. /\ vRecv \in Seq(Tokens) /\ out.vSend \in Seq(Tokens) /\ Len(vRecv) \in Nat
      /\ pushed \in Seq(Payloads) /\ handled \in Seq(Payloads)
      /\ Len(handled) \in Nat /\ Len(pushed) \in Nat /\ Len(handled) <= Len(pushed)
      /\ \A k \in 1 .. Len(handled) : handled[k] = pushed[k]
  BY DEF StreamInv
<1>2. /\ Waiting \in Seq(Tokens) /\ Len(Waiting) = Len(vRecv) + Len(out.vSend)
      /\ \A i \in 1 .. Len(vRecv) : Waiting[i] = vRecv[i]
  BY <1>1, JoinFacts, Zenon DEF Waiting
<1> QED BY <1>1, <1>2

LEMMA StreamDropped ==
    ASSUME StreamInv, UNCHANGED <<out, pushed, handled>>,
           NEW n \in 0 .. Len(vRecv), vRecv' = SubSeq(vRecv, n + 1, Len(vRecv)),
           NEW f, Placed(Waiting, Len(handled), pushed, f),
           \A k \in Len(handled) + 1 .. Len(pushed) : f[k] \in 1 .. n => Waiting[f[k]] # StartToken
    PROVE  StreamInv'
<1>1. Taken(f, Len(handled), Len(handled'), pushed, n)
  <2>1. n \in Nat /\ Len(handled) \in Nat /\ pushed \in Seq(Payloads)
    BY FrontFacts
  <2>2. Taken(f, Len(handled), Len(handled), pushed, n)
    BY <2>1, NoneTaken
  <2> QED BY <2>2
<1>2. /\ handled' \in Seq(Payloads) /\ Len(handled') <= Len(pushed)
      /\ \A k \in 1 .. Len(handled') : handled'[k] = pushed[k]
  BY FrontFacts
<1> QED BY <1>1, <1>2, StreamTaken

LEMMA StreamSkip ==
    ASSUME StreamInv, UNCHANGED <<out, pushed, handled>>,
           Len(vRecv) - Stream!Start + 1 < Stream!HeaderSize, Stream!Skip
    PROVE  StreamInv'
<1>1. CASE Len(vRecv) > 2
  <2> DEFINE n == Len(vRecv) - 2
             b == Stream!Start
  <2>1. Len(vRecv) \in Nat /\ vRecv \in Seq(Tokens)
    BY FrontFacts
  <2>2. n \in 0 .. Len(vRecv) /\ n \in Nat /\ n + 1 = Len(vRecv) - 2 + 1
    BY <1>1, <2>1
  <2>3. vRecv' = SubSeq(vRecv, n + 1, Len(vRecv))
    BY <1>1, <2>2 DEF Stream!Skip, Stream!HeaderSize
  <2>4. PICK f : Placed(Waiting, Len(handled), pushed, f)
    BY DEF StreamInv
  <2>5. b \in 1 .. Len(vRecv) + 1 /\ \A i \in 1 .. Len(vRecv) : i < b => vRecv[i] # StartToken
    BY <2>1, StartFacts
  <2>6. n < b
    <3>1. Len(vRecv) - b + 1 < 2
      BY DEF Stream!HeaderSize
    <3> HIDE DEF b
    <3> QED BY <2>1, <2>5, <3>1
  <2> HIDE DEF b, n
  <2>7. \A i \in 1 .. n : Waiting[i] # StartToken
    <3> TAKE i \in 1 .. n
    <3>1. i \in 1 .. Len(vRecv) /\ i < b
      BY <2>1, <2>2, <2>5, <2>6
    <3>2. Waiting[i] = vRecv[i]
      BY <3>1, FrontFacts
    <3> QED BY <2>5, <3>1, <3>2
  <2> QED BY <2>2, <2>3, <2>4, <2>7, StreamDropped
<1>2. CASE ~(Len(vRecv) > 2)
  <2>1. vRecv' = vRecv
    BY <1>2 DEF Stream!Skip, Stream!HeaderSize
  <2> QED BY <2>1 DEF StreamInv, Waiting
<1> QED BY <1>1, <1>2

(* What stands behind the first start of the buffer. *)
LEMMA FirstStart ==
    ASSUME StreamInv, NEW f, Placed(Waiting, Len(handled), pushed, f),
           NEW i, i = Stream!Start, i + 1 <= Len(vRecv)
    PROVE  /\ i \in 1 .. Len(vRecv) /\ i + 1 \in 1 .. Len(vRecv)
           /\ \A j \in 1 .. i - 1 : Waiting[j] # StartToken
           /\ vRecv[i] = StartToken /\ vRecv[i + 1] \in HeadTokens
           /\ Waiting[i] = vRecv[i] /\ Waiting[i + 1] = vRecv[i + 1]
           /\ \A k \in Len(handled) + 1 .. Len(pushed) : f[k] = i =>
                 k = Len(handled) + 1 /\ vRecv[i + 1] = HeadOf(pushed[k])
           /\ (\A k \in Len(handled) + 1 .. Len(pushed) : f[k] # i) => JunkAt(Waiting, i)
<1> DEFINE h == Len(handled)
<1>1. /\ i \in 1 .. Len(vRecv) /\ i + 1 \in 1 .. Len(vRecv) /\ vRecv[i] = StartToken
      /\ \A j \in 1 .. Len(vRecv) : j < i => vRecv[j] # StartToken
  <2>1. Len(vRecv) \in Nat
    BY FrontFacts
  <2>2. /\ i \in 1 .. Len(vRecv) + 1
        /\ i <= Len(vRecv) => vRecv[i] = StartToken
        /\ \A j \in 1 .. Len(vRecv) : j < i => vRecv[j] # StartToken
    BY FrontFacts, StartFacts
  <2> QED BY <2>1, <2>2
<1>2. Waiting[i] = vRecv[i] /\ Waiting[i + 1] = vRecv[i + 1] /\ i \in 1 .. Len(Waiting)
  <2>1. Len(vRecv) \in Nat /\ Len(out.vSend) \in Nat /\ Len(Waiting) = Len(vRecv) + Len(out.vSend)
    BY FrontFacts
  <2>2. i \in 1 .. Len(Waiting)
    BY <1>1, <2>1
  <2> QED BY <1>1, <2>2, FrontFacts
<1>3. \A j \in 1 .. i - 1 : Waiting[j] # StartToken
  <2> TAKE j \in 1 .. i - 1
  <2>1. j \in 1 .. Len(vRecv) /\ j < i
    BY <1>1
  <2>2. Waiting[j] = vRecv[j]
    BY <2>1, FrontFacts
  <2> QED BY <1>1, <2>1, <2>2
<1>4. h \in Nat /\ Len(pushed) \in Nat /\ h <= Len(pushed)
  BY FrontFacts
<1>5. ASSUME NEW k \in h + 1 .. Len(pushed), f[k] = i
      PROVE  k = h + 1 /\ vRecv[i + 1] = HeadOf(pushed[k]) /\ HeadOf(pushed[k]) \in HeadTokens
  <2>1. MessageAt(Waiting, f[k], pushed[k])
    BY <1>5 DEF Placed
  <2>2. pushed[k] \in Payloads
    <3>1. k \in 1 .. Len(pushed) /\ pushed \in Seq(Payloads)
      BY <1>4, FrontFacts
    <3> QED BY <3>1
  <2>3. vRecv[i + 1] = HeadOf(pushed[k])
    BY <1>2, <1>5, <2>1 DEF MessageAt
  <2>4. ASSUME k # h + 1
        PROVE  FALSE
    <3> DEFINE m == h + 1
    <3>1. m \in h + 1 .. Len(pushed) /\ m < k /\ m \in 1 .. Len(pushed)
      BY <1>4, <2>4
    <3> HIDE DEF m
    <3>2. MessageAt(Waiting, f[m], pushed[m]) /\ f[m] + 1 + Len(pushed[m]) < f[k]
      BY <3>1 DEF Placed
    <3>3. Len(pushed[m]) \in Nat
      <4>1. pushed[m] \in Payloads
        BY <3>1, FrontFacts
      <4> QED BY <4>1, HeadFacts
    <3> DEFINE x == f[m]
               l == Len(pushed[m])
    <3>4. x \in 1 .. Len(Waiting) /\ Waiting[x] = StartToken /\ x + 1 + l < i /\ l \in Nat
      BY <1>5, <3>2, <3>3 DEF MessageAt
    <3> HIDE DEF x, l
    <3>5. x \in 1 .. i - 1
      BY <1>1, <3>4
    <3> QED BY <1>3, <3>4, <3>5
  <2> QED BY <2>2, <2>3, <2>4, HeadFacts
<1>6. (\E k \in h + 1 .. Len(pushed) : f[k] = i) \/ JunkAt(Waiting, i)
  BY <1>1, <1>2 DEF Placed
<1>7. vRecv[i + 1] \in HeadTokens
  <2>1. JunkAt(Waiting, i) => vRecv[i + 1] \in HeadTokens
    BY <1>2 DEF JunkAt
  <2> QED BY <1>5, <1>6, <2>1
<1> QED BY <1>1, <1>2, <1>3, <1>5, <1>6, <1>7

LEMMA StreamRefused ==
    ASSUME StreamInv, UNCHANGED <<out, pushed, handled>>,
           NEW f, Placed(Waiting, Len(handled), pushed, f),
           NEW i, i = Stream!Start, i + 1 <= Len(vRecv),
           \A k \in Len(handled) + 1 .. Len(pushed) : f[k] # i,
           vRecv' = SubSeq(vRecv, i + 2, Len(vRecv))
    PROVE  StreamInv'
<1> DEFINE n == i + 1
<1>1. i \in 1 .. Len(vRecv) /\ n \in 1 .. Len(vRecv) /\ Len(vRecv) \in Nat
  BY FirstStart, FrontFacts
<1>2. n \in 0 .. Len(vRecv) /\ n + 1 = i + 2 /\ n = i + 1
  BY <1>1
<1>3. vRecv' = SubSeq(vRecv, n + 1, Len(vRecv))
  BY <1>2
<1>4. Waiting[n] # StartToken /\ \A j \in 1 .. i - 1 : Waiting[j] # StartToken
  BY FirstStart, TokenFacts
<1> HIDE DEF n
<1>5. ASSUME NEW k \in Len(handled) + 1 .. Len(pushed), f[k] \in 1 .. n
      PROVE  Waiting[f[k]] # StartToken
  <2> DEFINE x == f[k]
  <2>1. x # i /\ x \in 1 .. n
    BY <1>5
  <2> HIDE DEF x
  <2>2. x = n \/ x \in 1 .. i - 1
    BY <1>1, <1>2, <2>1
  <2>3. Waiting[x] # StartToken
    BY <1>4, <2>2
  <2> QED BY <2>3 DEF x
<1> QED BY <1>2, <1>3, <1>5, StreamDropped

LEMMA StreamRewound ==
    ASSUME StreamInv, UNCHANGED <<out, pushed, handled>>,
           NEW f, Placed(Waiting, Len(handled), pushed, f),
           NEW i, i = Stream!Start, i + 1 <= Len(vRecv),
           vRecv' = Stream!Rewind(vRecv[i + 1], SubSeq(vRecv, i + 2, Len(vRecv)))
    PROVE  StreamInv'
<1>1. /\ i \in 1 .. Len(vRecv) /\ i + 1 \in 1 .. Len(vRecv) /\ Len(vRecv) \in Nat
      /\ vRecv \in Seq(Tokens) /\ vRecv[i] = StartToken
  BY FirstStart, FrontFacts
<1>2. vRecv' = SubSeq(vRecv, i, Len(vRecv))
  <2> DEFINE a == SubSeq(vRecv, i, i + 1)
             b == SubSeq(vRecv, i + 2, Len(vRecv))
             c == <<StartToken, vRecv[i + 1]>>
  <2>1. /\ i \in 1 .. Len(vRecv) + 1 /\ i + 1 \in i - 1 .. Len(vRecv)
        /\ Len(vRecv) \in i + 1 .. Len(vRecv)
    BY <1>1
  <2>2. a \o b = SubSeq(vRecv, i, Len(vRecv))
    <3>1. a \o SubSeq(vRecv, (i + 1) + 1, Len(vRecv)) = SubSeq(vRecv, i, Len(vRecv))
      BY <1>1, <2>1, ConcatAdjacentSubSeq
    <3>2. (i + 1) + 1 = i + 2
      BY <1>1
    <3> QED BY <3>1, <3>2
  <2>3. a = c
    <3>1. /\ a \in Seq(Tokens) /\ Len(a) = (i + 1) - i + 1
          /\ \A j \in 1 .. (i + 1) - i + 1 : a[j] = vRecv[i - 1 + j]
      BY <1>1, <2>1, PartFacts, Zenon
    <3>2. (i + 1) - i + 1 = 2 /\ i - 1 + 1 = i /\ i - 1 + 2 = i + 1
      BY <1>1
    <3> HIDE DEF a
    <3>3. Len(a) = 2 /\ \A j \in 1 .. 2 : a[j] = vRecv[i - 1 + j]
      BY <3>1, <3>2
    <3>4. a[1] = vRecv[i - 1 + 1] /\ a[2] = vRecv[i - 1 + 2]
      BY <3>3
    <3>5. a[1] = StartToken /\ a[2] = vRecv[i + 1]
      BY <1>1, <3>2, <3>4
    <3>6. a \in Seq(Tokens) /\ Len(a) = 2
      BY <3>1, <3>3
    <3> QED BY <3>5, <3>6
  <2>4. vRecv' = c \o b
    BY DEF Stream!Rewind, StartToken
  <2> HIDE DEF a, b, c
  <2> QED BY <2>2, <2>3, <2>4
<1> DEFINE n == i - 1
<1>3. n \in 0 .. Len(vRecv) /\ n + 1 = i
  BY <1>1
<1>4. vRecv' = SubSeq(vRecv, n + 1, Len(vRecv))
  BY <1>2, <1>3
<1>5. \A j \in 1 .. n : Waiting[j] # StartToken
  BY FirstStart
<1> HIDE DEF n
<1> QED BY <1>3, <1>4, <1>5, StreamDropped

LEMMA Suffix ==
    ASSUME NEW r \in Seq(Tokens), NEW n \in 0 .. Len(r)
    PROVE  /\ SubSeq(r, n + 1, Len(r)) \in Seq(Tokens)
           /\ Len(SubSeq(r, n + 1, Len(r))) = Len(r) - n
           /\ \A i \in 1 .. Len(r) - n : SubSeq(r, n + 1, Len(r))[i] = r[n + i]
<1> DEFINE q == SubSeq(r, n + 1, Len(r))
<1>1. Len(r) \in Nat /\ n + 1 \in 1 .. Len(r) + 1 /\ Len(r) \in (n + 1) - 1 .. Len(r)
  OBVIOUS
<1>2. /\ q \in Seq(Tokens) /\ Len(q) = Len(r) - (n + 1) + 1
      /\ \A i \in 1 .. Len(r) - (n + 1) + 1 : q[i] = r[(n + 1) - 1 + i]
  BY <1>1, PartFacts, Zenon
<1> HIDE DEF q
<1>3. Len(r) - (n + 1) + 1 = Len(r) - n /\ \A i \in Nat : (n + 1) - 1 + i = n + i
  BY <1>1
<1>4. /\ q \in Seq(Tokens) /\ Len(q) = Len(r) - n
      /\ \A i \in 1 .. Len(r) - n : q[i] = r[n + i]
  BY <1>1, <1>2, <1>3
<1> QED BY <1>4 DEF q

LEMMA SuffixOfSuffix ==
    ASSUME NEW r \in Seq(Tokens), NEW a \in 0 .. Len(r),
           NEW b \in 0 .. Len(r) - a
    PROVE  LET q == SubSeq(r, a + 1, Len(r))
           IN  a + b \in 0 .. Len(r) /\ SubSeq(q, b + 1, Len(q)) = SubSeq(r, a + b + 1, Len(r))
<1> DEFINE q == SubSeq(r, a + 1, Len(r))
<1>1. /\ q \in Seq(Tokens) /\ Len(q) = Len(r) - a
      /\ \A i \in 1 .. Len(r) - a : q[i] = r[a + i]
  BY Suffix
<1> HIDE DEF q
<1>2. Len(r) \in Nat /\ a \in Nat /\ b \in Nat /\ a + b \in 0 .. Len(r) /\ b \in 0 .. Len(q)
  BY <1>1
<1> DEFINE x == SubSeq(q, b + 1, Len(q))
           y == SubSeq(r, a + b + 1, Len(r))
<1>3. /\ x \in Seq(Tokens) /\ Len(x) = Len(q) - b
      /\ \A i \in 1 .. Len(q) - b : x[i] = q[b + i]
  BY <1>1, <1>2, Suffix, Zenon
<1>4. /\ y \in Seq(Tokens) /\ Len(y) = Len(r) - (a + b)
      /\ \A i \in 1 .. Len(r) - (a + b) : y[i] = r[(a + b) + i]
  BY <1>2, Suffix, Zenon
<1> HIDE DEF x, y
<1>5. Len(x) = Len(y)
  BY <1>1, <1>2, <1>3, <1>4
<1>6. ASSUME NEW i \in 1 .. Len(x)
      PROVE  x[i] = y[i]
  <2>1. /\ i \in 1 .. Len(q) - b /\ b + i \in 1 .. Len(r) - a
        /\ i \in 1 .. Len(r) - (a + b) /\ a + (b + i) = (a + b) + i
    BY <1>1, <1>2, <1>3
  <2>2. x[i] = q[b + i] /\ q[b + i] = r[a + (b + i)] /\ y[i] = r[(a + b) + i]
    BY <1>1, <1>3, <1>4, <2>1
  <2> QED BY <2>1, <2>2, Zenon
<1>7. x = y
  <2>1. x \in Seq(Tokens) /\ y \in Seq(Tokens)
    BY <1>3, <1>4
  <2> QED BY <1>5, <1>6, <2>1
<1> QED BY <1>2, <1>7 DEF x, y, q

(* The message at the first start is whole: it is the next one. *)
LEMMA StreamHandled ==
    ASSUME StreamInv, UNCHANGED <<out, pushed>>,
           NEW f, Placed(Waiting, Len(handled), pushed, f),
           NEW i, i = Stream!Start, i + 1 <= Len(vRecv),
           NEW k \in Len(handled) + 1 .. Len(pushed), f[k] = i,
           NEW rest, rest = SubSeq(vRecv, i + 2, Len(vRecv)), Len(pushed[k]) <= Len(rest)
    PROVE  /\ SubSeq(rest, 1, Len(pushed[k])) = pushed[k]
           /\ /\ vRecv' = SubSeq(rest, Len(pushed[k]) + 1, Len(rest))
              /\ handled' = Append(handled, pushed[k])
              => StreamInv'
<1> DEFINE d == pushed[k]
           l == Len(d)
           h == Len(handled)
<1>1. /\ i \in 1 .. Len(vRecv) /\ i + 1 \in 1 .. Len(vRecv) /\ Len(vRecv) \in Nat
      /\ vRecv \in Seq(Tokens) /\ k = h + 1 /\ vRecv[i + 1] = HeadOf(d)
  BY FirstStart, FrontFacts
<1>2. /\ pushed \in Seq(Payloads) /\ handled \in Seq(Payloads) /\ h \in Nat /\ Len(pushed) \in Nat
      /\ h <= Len(pushed) /\ \A j \in 1 .. h : handled[j] = pushed[j]
  BY FrontFacts
<1>3. d \in Payloads /\ l \in Nat /\ d \in Seq(Tokens) /\ d = SubSeq(d, 1, l)
  <2>1. k \in 1 .. Len(pushed)
    BY <1>2
  <2>2. d \in Payloads
    BY <1>2, <2>1
  <2> HIDE DEF d
  <2>3. l \in Nat /\ d \in Seq(Tokens)
    BY <2>2, HeadFacts
  <2> QED BY <2>2, <2>3, SubSeqFull
<1>4. MessageAt(Waiting, i, d) /\ l <= Len(rest)
  BY DEF Placed
<1> HIDE DEF d
<1>5. /\ rest \in Seq(Tokens) /\ Len(rest) = Len(vRecv) - (i + 1)
      /\ \A j \in 1 .. Len(vRecv) - (i + 1) : rest[j] = vRecv[i + 1 + j]
  <2>1. i + 1 \in 0 .. Len(vRecv) /\ (i + 1) + 1 = i + 2
    BY <1>1
  <2>2. rest = SubSeq(vRecv, (i + 1) + 1, Len(vRecv))
    BY <2>1
  <2> QED BY <1>1, <2>1, <2>2, Suffix
<1>6. SubSeq(rest, 1, l) = d
  <2> DEFINE x == SubSeq(rest, 1, l)
  <2>0. 1 \in 1 .. Len(rest) + 1 /\ l \in 1 - 1 .. Len(rest) /\ l - 1 + 1 = l
    BY <1>3, <1>4, <1>5
  <2>1. x \in Seq(Tokens) /\ Len(x) = l /\ \A j \in 1 .. l : x[j] = rest[j]
    <3>1. /\ x \in Seq(Tokens) /\ Len(x) = l - 1 + 1
          /\ \A j \in 1 .. l - 1 + 1 : x[j] = rest[1 - 1 + j]
      BY <1>5, <2>0, PartFacts, Zenon
    <3> HIDE DEF x, l
    <3>2. ASSUME NEW j \in 1 .. l
          PROVE  x[j] = rest[j]
      <4>1. j \in 1 .. l - 1 + 1 /\ 1 - 1 + j = j
        BY <1>3
      <4>2. x[j] = rest[1 - 1 + j]
        BY <3>1, <4>1
      <4> QED BY <4>1, <4>2, Zenon
    <3>3. x \in Seq(Tokens) /\ Len(x) = l
      BY <1>3, <3>1
    <3> QED BY <3>2, <3>3
  <2> HIDE DEF x
  <2>2. ASSUME NEW j \in 1 .. l
        PROVE  x[j] = d[j]
    <3>0. l <= Len(vRecv) - (i + 1)
      BY <1>4, <1>5
    <3>1. j \in 1 .. Len(vRecv) - (i + 1) /\ i + 1 + j \in 1 .. Len(vRecv)
      <4> HIDE DEF l
      <4> QED BY <1>1, <1>3, <3>0
    <3>2. rest[j] = vRecv[i + 1 + j] /\ Waiting[i + 1 + j] = vRecv[i + 1 + j]
      BY <1>5, <3>1, FrontFacts
    <3>3. Waiting[i + 1 + j] = d[j]
      BY <1>4 DEF MessageAt
    <3> QED BY <2>1, <3>2, <3>3
  <2>3. x = d
    BY <1>3, <2>1, <2>2
  <2> QED BY <2>3 DEF x
<1>7. ASSUME vRecv' = SubSeq(rest, l + 1, Len(rest)), handled' = Append(handled, d)
      PROVE  StreamInv'
  <2> DEFINE n == (i + 1) + l
  <2>1. n \in 0 .. Len(vRecv) /\ vRecv' = SubSeq(vRecv, n + 1, Len(vRecv))
    <3>1. i + 1 \in 0 .. Len(vRecv) /\ l \in 0 .. Len(rest) /\ (i + 1) + 1 = i + 2
      BY <1>1, <1>3, <1>4, <1>5
    <3>2. rest = SubSeq(vRecv, (i + 1) + 1, Len(vRecv))
      BY <3>1
    <3>3. l \in 0 .. Len(vRecv) - (i + 1)
      BY <1>5, <3>1
    <3> QED BY <1>1, <1>7, <3>1, <3>2, <3>3, SuffixOfSuffix
  <2>2. /\ handled' \in Seq(Payloads) /\ Len(handled') = h + 1
        /\ \A j \in 1 .. h : handled'[j] = handled[j]
        /\ handled'[h + 1] = d
    BY <1>2, <1>3, <1>7
  <2>3. Len(handled') <= Len(pushed) /\ \A j \in 1 .. Len(handled') : handled'[j] = pushed[j]
    <3>1. h + 1 <= Len(pushed) /\ handled'[h + 1] = pushed[h + 1]
      BY <1>1, <1>2, <2>2 DEF d
    <3>2. ASSUME NEW j \in 1 .. h + 1
          PROVE  handled'[j] = pushed[j]
      <4>1. CASE j = h + 1
        BY <3>1, <4>1
      <4>2. CASE j # h + 1
        <5>1. j \in 1 .. h
          BY <1>2, <4>2
        <5> QED BY <1>2, <2>2, <5>1
      <4> QED BY <4>1, <4>2
    <3> QED BY <2>2, <3>1, <3>2
  <2>4. Taken(f, h, h + 1, pushed, n)
    <3>1. ASSUME NEW m \in (h + 1) + 1 .. Len(pushed)
          PROVE  f[m] > n
      <4>1. m \in h + 1 .. Len(pushed) /\ k < m
        BY <1>1, <1>2
      <4>2. f[k] + 1 + Len(pushed[k]) < f[m] /\ MessageAt(Waiting, f[m], pushed[m])
        BY <4>1 DEF Placed
      <4> DEFINE x == f[m]
      <4>3. i + 1 + l < x /\ x \in Int
        BY <4>2 DEF MessageAt, d
      <4> HIDE DEF x
      <4>4. x > n
        BY <1>1, <1>3, <4>3
      <4> QED BY <4>4 DEF x
    <3>2. ASSUME NEW m \in h + 1 .. Len(pushed), m <= h + 1
          PROVE  f[m] <= n
      <4>1. m = k
        BY <1>1, <1>2, <3>2
      <4>2. i <= n
        BY <1>1, <1>3
      <4> QED BY <4>1, <4>2
    <3>3. h <= h + 1
      BY <1>2
    <3> QED BY <3>1, <3>2, <3>3 DEF Taken
  <2> HIDE DEF n, h
  <2>5. Taken(f, Len(handled), Len(handled'), pushed, n)
    BY <2>2, <2>4 DEF h
  <2> QED BY <2>1, <2>2, <2>3, <2>5, StreamTaken
<1> QED BY <1>6, <1>7 DEF d

LEMMA StreamTake ==
    ASSUME StreamInv, UNCHANGED <<out, pushed>>,
           NEW i, i = Stream!Start, i + 1 <= Len(vRecv),
           Stream!TakeMessage(vRecv[i + 1], SubSeq(vRecv, i + 2, Len(vRecv)))
    PROVE  StreamInv'
<1> DEFINE hdr == vRecv[i + 1]
           rest == SubSeq(vRecv, i + 2, Len(vRecv))
           h == Len(handled)
<1>1. PICK f : Placed(Waiting, h, pushed, f)
  BY DEF StreamInv
<1>2. /\ i \in 1 .. Len(vRecv) /\ i + 1 \in 1 .. Len(vRecv) /\ hdr \in HeadTokens
      /\ Waiting[i + 1] = hdr
      /\ \A k \in h + 1 .. Len(pushed) : f[k] = i => hdr = HeadOf(pushed[k])
      /\ (\A k \in h + 1 .. Len(pushed) : f[k] # i) => JunkAt(Waiting, i)
  BY <1>1, FirstStart
<1>3. hdr.size \in Int /\ hdr.valid \in BOOLEAN /\ Stream!IsHeader(hdr) /\ MaxSize \in Nat
  <2>1. hdr \in Tokens
    BY <1>2 DEF Tokens
  <2>2. hdr.size \in Int /\ hdr.valid \in BOOLEAN
    BY <1>2 DEF HeadTokens
  <2> QED BY <1>2, <2>1, <2>2, TokenFacts, NetworkAssumption DEF Stream!StreamAssumption
<1>4. \/ vRecv' = rest /\ handled' = handled /\ (~hdr.valid \/ hdr.size > MaxSize)
      \/ vRecv' = Stream!Rewind(hdr, rest) /\ handled' = handled
      \/ /\ hdr.valid /\ hdr.size <= MaxSize /\ hdr.size <= Len(rest)
         /\ SubSeq(rest, 1, hdr.size) # hdr.sum
         /\ vRecv' = rest /\ handled' = handled
      \/ /\ hdr.valid /\ hdr.size <= MaxSize /\ hdr.size <= Len(rest)
         /\ SubSeq(rest, 1, hdr.size) = hdr.sum
         /\ vRecv' = SubSeq(rest, hdr.size + 1, Len(rest))
         /\ handled' = Append(handled, SubSeq(rest, 1, hdr.size))
  <2>1. Len(rest) \in Nat
    <3>1. i + 1 \in 0 .. Len(vRecv) /\ (i + 1) + 1 = i + 2 /\ vRecv \in Seq(Tokens)
      BY <1>2, FrontFacts
    <3>2. SubSeq(vRecv, (i + 1) + 1, Len(vRecv)) \in Seq(Tokens)
      BY <3>1, Suffix
    <3>3. rest \in Seq(Tokens)
      BY <3>1, <3>2
    <3> QED BY <3>3
  <2>2. Stream!TakeMessage(hdr, rest)
    OBVIOUS
  <2> HIDE DEF hdr, rest
  <2> QED BY <1>3, <2>1, <2>2 DEF Stream!TakeMessage
<1>5. CASE \E k \in h + 1 .. Len(pushed) : f[k] = i
  <2>1. PICK k \in h + 1 .. Len(pushed) : f[k] = i
    BY <1>5
  <2> DEFINE d == pushed[k]
  <2>2. hdr = HeadOf(d) /\ d \in Payloads
    <3>1. k \in 1 .. Len(pushed) /\ pushed \in Seq(Payloads)
      BY <2>1, FrontFacts
    <3>2. d \in Payloads
      BY <3>1
    <3> QED BY <1>2, <2>1, <3>2
  <2>3. hdr.valid /\ hdr.size = Len(d) /\ hdr.sum = d /\ Len(d) \in Nat /\ Len(d) <= MaxSize
    <3> HIDE DEF d, hdr
    <3> QED BY <2>2, HeadFacts
  <2>4. CASE vRecv' = Stream!Rewind(hdr, rest) /\ handled' = handled
    BY <1>1, <2>4, StreamRewound
  <2>5. CASE ~(vRecv' = Stream!Rewind(hdr, rest) /\ handled' = handled)
    <3> HIDE DEF hdr, rest, d, h
    <3>1. /\ Len(d) <= Len(rest)
          /\ \/ SubSeq(rest, 1, Len(d)) # d
             \/ /\ vRecv' = SubSeq(rest, Len(d) + 1, Len(rest))
                /\ handled' = Append(handled, SubSeq(rest, 1, Len(d)))
      BY <1>3, <1>4, <2>3, <2>5
    <3>2. /\ SubSeq(rest, 1, Len(d)) = d
          /\ /\ vRecv' = SubSeq(rest, Len(d) + 1, Len(rest))
             /\ handled' = Append(handled, d)
             => StreamInv'
      BY <1>1, <2>1, <3>1, StreamHandled DEF rest, d, h
    <3> QED BY <3>1, <3>2
  <2> QED BY <2>4, <2>5
<1>6. CASE \A k \in h + 1 .. Len(pushed) : f[k] # i
  <2>1. JunkAt(Waiting, i)
    BY <1>2, <1>6
  <2>2. CASE vRecv' = rest /\ handled' = handled
    BY <1>1, <1>6, <2>2, StreamRefused
  <2>3. CASE vRecv' = Stream!Rewind(hdr, rest) /\ handled' = handled
    BY <1>1, <2>3, StreamRewound
  <2>4. CASE /\ hdr.valid /\ hdr.size <= MaxSize /\ hdr.size <= Len(rest)
             /\ SubSeq(rest, 1, hdr.size) = hdr.sum
    <3>1. Waiting[i + 2] = Stream!Data /\ hdr.sum = <<Stream!Noise>> /\ hdr.size \in 1 .. 2
      <4> HIDE DEF hdr, rest
      <4> QED BY <1>2, <1>3, <2>1, <2>4 DEF JunkAt
    <3>2. /\ i + 1 \in 0 .. Len(vRecv) /\ (i + 1) + 1 = i + 2
          /\ vRecv \in Seq(Tokens) /\ Len(vRecv) \in Nat
      BY <1>2, FrontFacts
    <3>3. /\ rest \in Seq(Tokens) /\ Len(rest) = Len(vRecv) - (i + 1)
          /\ \A j \in 1 .. Len(vRecv) - (i + 1) : rest[j] = vRecv[i + 1 + j]
      <4>1. rest = SubSeq(vRecv, (i + 1) + 1, Len(vRecv))
        BY <3>2
      <4> QED BY <3>2, <4>1, Suffix
    <3> HIDE DEF rest, hdr
    <3>4. rest[1] = Stream!Data
      <4>1. 1 \in 1 .. Len(vRecv) - (i + 1) /\ i + 1 + 1 = i + 2 /\ i + 2 \in 1 .. Len(vRecv)
        BY <1>2, <2>4, <3>1, <3>2, <3>3
      <4>2. rest[1] = vRecv[i + 1 + 1]
        BY <3>3, <4>1
      <4>3. Waiting[i + 2] = vRecv[i + 2]
        BY <4>1, FrontFacts
      <4> QED BY <3>1, <4>1, <4>2, <4>3
    <3>5. SubSeq(rest, 1, hdr.size)[1] = rest[1]
      BY <2>4, <3>1, <3>3
    <3>6. hdr.sum[1] = Stream!Noise
      BY <3>1
    <3> QED BY <2>4, <3>4, <3>5, <3>6, TokenFacts
  <2> HIDE DEF hdr, rest
  <2> QED BY <1>4, <2>2, <2>3, <2>4
<1> QED BY <1>5, <1>6

LEMMA StreamProcess ==
    ASSUME StreamInv, Stream!ProcessMessages
    PROVE  StreamInv'
<1> DEFINE i == Stream!Start
<1>1. UNCHANGED <<out, pushed>>
  BY DEF Stream!ProcessMessages
<1>2. Len(vRecv) \in Nat /\ i \in 1 .. Len(vRecv) + 1
  BY FrontFacts, StartFacts
<1>3. CASE Len(vRecv) - i + 1 < Stream!HeaderSize
  <2>1. Stream!Skip /\ handled' = handled
    BY <1>3 DEF Stream!ProcessMessages
  <2> QED BY <1>1, <1>3, <2>1, StreamSkip
<1>4. CASE ~(Len(vRecv) - i + 1 < Stream!HeaderSize)
  <2>1. Stream!TakeMessage(vRecv[i + 1], SubSeq(vRecv, i + 2, Len(vRecv)))
    BY <1>4 DEF Stream!ProcessMessages
  <2>2. ~(Len(vRecv) - i + 1 < 2)
    BY <1>4 DEF Stream!HeaderSize
  <2> HIDE DEF i
  <2>3. i + 1 <= Len(vRecv)
    BY <1>2, <2>2
  <2> QED BY <1>1, <2>1, <2>3, StreamTake DEF i
<1> QED BY <1>3, <1>4

LEMMA StreamStarts == Init => StreamInv
<1> SUFFICES ASSUME Init
             PROVE  StreamInv
  OBVIOUS
<1>1. /\ out = [vSend |-> <<>>, headerStart |-> -1, messageStart |-> -1]
      /\ vRecv = <<>> /\ pushed = <<>> /\ handled = <<>>
  BY DEF Init, Stream!MessageInit
<1>2. Waiting = <<>>
  BY <1>1 DEF Waiting
<1>3. Placed(<<>>, 0, <<>>, <<>>)
  BY DEF Placed
<1>4. \E f : Placed(Waiting, Len(handled), pushed, f)
  <2>1. Len(handled) = 0
    BY <1>1
  <2> QED BY <1>1, <1>2, <1>3, <2>1
<1> QED BY <1>1, <1>4 DEF StreamInv

LEMMA StreamKept == StreamInv /\ [Next]_vars => StreamInv'
<1> SUFFICES ASSUME StreamInv, [Next]_vars
             PROVE  StreamInv'
  OBVIOUS
<1>1. CASE UNCHANGED streamVars
  BY <1>1 DEF StreamInv, Waiting, streamVars
<1>2. CASE Stream!MessageNext
  <2>1. CASE Stream!Push
    <3>1. /\ UNCHANGED <<vRecv, handled>>
          /\ Stream!PushGarbage \/ \E d \in Payloads : Stream!PushMessage(d)
      BY <2>1 DEF Stream!Push
    <3> QED BY <3>1, StreamGarbage, StreamPush
  <2>2. CASE Stream!SendAnswers
    BY <2>2 DEF StreamInv, Waiting, Stream!SendAnswers
  <2> QED BY <1>2, <2>1, <2>2, StreamSocket, StreamProcess DEF Stream!MessageNext
<1> QED
  BY <1>1, <1>2 DEF Next, vars, ConnectionStep, AddressStep, StreamStep, AlertStep, PingStep,
                    TimeStep, StartStep, MinerStep

LEMMA StreamDelivers == StreamInv => Stream!StreamIntact
<1> SUFFICES ASSUME StreamInv
             PROVE  Stream!StreamIntact
  OBVIOUS
<1>1. PICK f : Placed(Waiting, Len(handled), pushed, f)
  BY DEF StreamInv
<1>2. /\ handled \in Seq(Payloads) /\ pushed \in Seq(Payloads) /\ Len(handled) <= Len(pushed)
      /\ Len(handled) \in Nat /\ Len(pushed) \in Nat
      /\ \A k \in 1 .. Len(handled) : handled[k] = pushed[k]
  BY FrontFacts
<1>3. Stream!IsPrefix(handled, pushed)
  <2> DEFINE a == SubSeq(handled, 1, Len(handled))
             b == SubSeq(pushed, 1, Len(handled))
  <2>1. /\ a \in Seq(Payloads) /\ Len(a) = Len(handled)
        /\ \A k \in 1 .. Len(handled) : a[k] = handled[k]
    BY <1>2
  <2>2. /\ b \in Seq(Payloads) /\ Len(b) = Len(handled)
        /\ \A k \in 1 .. Len(handled) : b[k] = pushed[k]
    BY <1>2
  <2> HIDE DEF a, b
  <2>3. a = b
    BY <1>2, <2>1, <2>2
  <2> QED BY <1>2, <2>3 DEF Stream!IsPrefix, a, b
<1>4. ASSUME out.vSend = <<>>, \A i \in DOMAIN vRecv : ~Stream!IsStart(vRecv[i])
      PROVE  handled = pushed
  <2>1. ASSUME Len(handled) # Len(pushed)
        PROVE  FALSE
    <3> DEFINE k == Len(handled) + 1
               x == f[k]
    <3>1. k \in Len(handled) + 1 .. Len(pushed)
      BY <1>2, <2>1
    <3>2. MessageAt(Waiting, x, pushed[k])
      BY <1>1, <3>1 DEF Placed
    <3> HIDE DEF k, x
    <3>3. x \in 1 .. Len(Waiting) /\ Waiting[x] = StartToken
      BY <3>2 DEF MessageAt
    <3>4. x \in 1 .. Len(vRecv) /\ vRecv \in Seq(Tokens) /\ vRecv[x] = StartToken
      <4>1. Len(out.vSend) = 0
        BY <1>4
      <4>2. x \in 1 .. Len(vRecv)
        BY <3>3, <4>1, FrontFacts
      <4> QED BY <3>3, <4>2, FrontFacts
    <3>5. Stream!IsStart(vRecv[x])
      BY <3>4, TokenFacts
    <3> QED BY <1>4, <3>4, <3>5
  <2> QED BY <1>2, <2>1
<1> QED BY <1>3, <1>4 DEF Stream!StreamIntact

(* However the stream is cut, whatever stands between the messages and        *)
(* whichever are taken back while they are written (net.h:370-420): those     *)
(* that were sent whole are handled in their order, none twice and none left  *)
(* out, and all of them once no start of a message is waiting                 *)
(* (main.cpp:3983-4046).                                                      *)
THEOREM MessagesArriveWhole == Spec => []StreamIntact
<1>1. Init => StreamInv
  BY StreamStarts
<1>2. StreamInv /\ [Next]_vars => StreamInv'
  BY StreamKept
<1>3. StreamInv => StreamIntact
  BY StreamDelivers DEF StreamIntact
<1> QED BY <1>1, <1>2, <1>3, PTL DEF Spec

-----------------------------------------------------------------------------
(* Pings *)

PingTypeOK ==
    /\ clock \in Int /\ pingStamp \in Int /\ pongStamp \in Int /\ polled \in Int
    /\ measured \in BOOLEAN /\ answering \in BOOLEAN /\ dropped \in BOOLEAN
    /\ pings \in Seq(Int)

(* SendMessages has run not long ago, and the first time it runs it pings.   *)
PolledInv ==
    /\ clock >= 2 * Minute /\ pingStamp >= 0
    /\ 0 <= clock - polled /\ clock - polled <= Stall
    /\ pingStamp > 0 => polled - pingStamp <= Minute /\ pingStamp <= polled
    /\ measured \/ pings # <<>> => pingStamp > 0

(* The last ping is not far ahead of the last pong that counted. *)
PongInv == ~dropped /\ measured => pingStamp - pongStamp <= 5 * Minute

(* A peer that answers has at most the latest ping to answer, and its last   *)
(* pong is for that ping or the one before.                                  *)
AnswerInv ==
    answering =>
        /\ ~dropped
        /\ pings = <<>> \/ (pings = <<pingStamp>> /\ clock - pingStamp <= Delay)
        /\ pings = <<>> /\ pingStamp > 0 => measured /\ pongStamp = pingStamp
        /\ measured => pingStamp - pongStamp <= Stall + Minute

PingsInv == PingTypeOK /\ PolledInv /\ PongInv /\ AnswerInv

LEMMA PingsStart ==
    ASSUME Init PROVE PingsInv
<1>1. Pings!KeepInit
  BY DEF Init
<1>2. Minute \in Nat \ {0} /\ Stall \in Nat
  BY NetworkAssumption DEF Pings!KeepAssumption
<1>3. /\ clock = 2 * Minute /\ pingStamp = 0 /\ pongStamp = 0 /\ pings = <<>> /\ polled = clock
      /\ ~measured /\ answering /\ ~dropped
  BY <1>1 DEF Pings!KeepInit
<1>4. measured \in BOOLEAN /\ answering \in BOOLEAN /\ dropped \in BOOLEAN
  BY <1>1, Zenon DEF Pings!KeepInit
<1>5. PingTypeOK
  BY <1>2, <1>3, <1>4, SMT DEF PingTypeOK
<1>6. PolledInv
  BY <1>2, <1>3, SMT DEF PolledInv
<1> QED BY <1>3, <1>5, <1>6, SMT DEF PingsInv, PongInv, AnswerInv

LEMMA SendPingKeeps ==
    ASSUME PingsInv, Pings!SendPing PROVE PingsInv'
<1>1. Minute \in Nat \ {0} /\ Stall \in Nat /\ Delay \in Nat /\ Delay <= Minute /\ Stall <= 4 * Minute
  BY NetworkAssumption DEF Pings!KeepAssumption
<1>2. PICK empty \in BOOLEAN :
        /\ pingStamp' = IF Pings!PingDue /\ empty THEN clock ELSE pingStamp
        /\ pings' = IF Pings!PingDue /\ empty THEN Append(pings, clock) ELSE pings
        /\ polled' = IF empty THEN clock ELSE polled
  BY DEF Pings!SendPing
<1>3. /\ ~dropped
      /\ dropped' = (measured /\ pingStamp' - pongStamp > 5 * Minute)
      /\ clock' = clock /\ pongStamp' = pongStamp /\ measured' = measured /\ answering' = answering
  BY DEF Pings!SendPing, Pings!TimedOut
<1>4. Pings!PingDue <=> clock - pingStamp > Minute
  BY DEF Pings!PingDue
<1> USE <1>1, <1>3
<1>5. CASE clock - pingStamp > Minute /\ empty
  <2>1. pingStamp' = clock /\ pings' = Append(pings, clock) /\ polled' = clock
    BY <1>2, <1>4, <1>5
  <2>2. PingTypeOK'
    BY <2>1, SMT DEF PingsInv, PingTypeOK
  <2>3. PolledInv'
    BY <2>1, SMT DEF PingsInv, PingTypeOK, PolledInv
  <2>4. PongInv'
    <3>1. ~dropped' /\ measured' => ~(pingStamp' - pongStamp > 5 * Minute)
      OBVIOUS
    <3> QED BY <3>1, <2>1, SMT DEF PingsInv, PingTypeOK, PongInv
  <2>5. AnswerInv'
    <3> SUFFICES ASSUME answering PROVE AnswerInv'
      BY DEF AnswerInv
    <3>1. pings = <<>>
      BY <1>5, SMT DEF PingsInv, PingTypeOK, AnswerInv
    <3>2. pings' = <<pingStamp'>> /\ clock' - pingStamp' <= Delay
      BY <2>1, <3>1, SMT DEF PingsInv, PingTypeOK
    <3>3. measured => pingStamp' - pongStamp' <= Stall + Minute
      <4> HAVE measured
      <4>1. pingStamp > 0 /\ pongStamp = pingStamp
        BY <3>1 DEF PingsInv, PolledInv, AnswerInv
      <4> QED BY <4>1, <2>1, SMT DEF PingsInv, PingTypeOK, PolledInv
    <3>4. ~dropped'
      BY <3>3, <2>1, SMT DEF PingsInv, PingTypeOK
    <3> QED BY <3>2, <3>3, <3>4, SMT DEF AnswerInv
  <2> QED BY <2>2, <2>3, <2>4, <2>5 DEF PingsInv
<1>6. CASE ~(clock - pingStamp > Minute /\ empty)
  <2>1. pingStamp' = pingStamp /\ pings' = pings
    BY <1>2, <1>4, <1>6
  <2>2. PingTypeOK'
    BY <2>1, <1>2 DEF PingsInv, PingTypeOK
  <2>3. PolledInv'
    <3>1. polled' = polled \/ (polled' = clock /\ clock - pingStamp <= Minute)
      BY <1>2, <1>6, SMT DEF PingsInv, PingTypeOK
    <3> QED BY <3>1, <2>1, SMT DEF PingsInv, PingTypeOK, PolledInv
  <2>4. PongInv'
    BY <2>1, SMT DEF PingsInv, PingTypeOK, PongInv
  <2>5. AnswerInv'
    BY <2>1, SMT DEF PingsInv, PingTypeOK, AnswerInv
  <2> QED BY <2>2, <2>3, <2>4, <2>5 DEF PingsInv
<1> QED BY <1>5, <1>6

LEMMA PongKeeps ==
    ASSUME PingsInv, Pings!Pong PROVE PingsInv'
<1>1. Minute \in Nat \ {0} /\ Stall \in Nat /\ Delay \in Nat
  BY NetworkAssumption DEF Pings!KeepAssumption
<1>2. /\ pings # <<>> /\ answering /\ ~dropped /\ pings' = Tail(pings)
      /\ clock' = clock /\ pingStamp' = pingStamp /\ polled' = polled
      /\ answering' = answering /\ dropped' = dropped
  BY DEF Pings!Pong
<1>3. pings = <<pingStamp>> /\ clock - pingStamp <= Delay
  BY <1>2 DEF PingsInv, AnswerInv
<1>4. Head(pings) = pingStamp /\ Tail(pings) = <<>>
  BY <1>3, SMT DEF PingsInv, PingTypeOK
<1>5. pongStamp' = pingStamp /\ measured' = TRUE
  BY <1>4 DEF Pings!Pong, Pings!PongCounts
<1>6. PingTypeOK'
  BY <1>2, <1>4, <1>5, SMT DEF PingsInv, PingTypeOK
<1>7. PolledInv'
  BY <1>2, <1>4, <1>5, <1>1, SMT DEF PingsInv, PingTypeOK, PolledInv
<1>8. PongInv'
  BY <1>2, <1>5, <1>1, SMT DEF PingsInv, PingTypeOK, PongInv
<1>9. AnswerInv'
  BY <1>2, <1>4, <1>5, <1>1, SMT DEF PingsInv, PingTypeOK, AnswerInv
<1> QED BY <1>6, <1>7, <1>8, <1>9 DEF PingsInv

LEMMA OtherPingsKeep ==
    ASSUME PingsInv, Pings!FallSilent \/ Pings!PassTime PROVE PingsInv'
<1>1. Minute \in Nat \ {0} /\ Stall \in Nat /\ Delay \in Nat
  BY NetworkAssumption DEF Pings!KeepAssumption
<1>2. CASE Pings!FallSilent
  BY <1>2 DEF Pings!FallSilent, PingsInv, PingTypeOK, PolledInv, PongInv, AnswerInv
<1>3. CASE Pings!PassTime
  <2>1. /\ clock - polled < Stall /\ clock' = clock + 1
        /\ answering /\ pings # <<>> => clock - Head(pings) < Delay
        /\ pingStamp' = pingStamp /\ pongStamp' = pongStamp /\ measured' = measured
        /\ pings' = pings /\ polled' = polled /\ answering' = answering /\ dropped' = dropped
    BY <1>3 DEF Pings!PassTime
  <2>2. PingTypeOK' /\ PolledInv' /\ PongInv'
    BY <1>1, <2>1, SMT DEF PingsInv, PingTypeOK, PolledInv, PongInv
  <2>3. answering /\ pings = <<pingStamp>> => clock' - pingStamp' <= Delay
    BY <1>1, <2>1, SMT DEF PingsInv, PingTypeOK
  <2>4. AnswerInv'
    BY <2>1, <2>3 DEF PingsInv, AnswerInv
  <2> QED BY <2>2, <2>4 DEF PingsInv
<1> QED BY <1>2, <1>3

(* A step of another part leaves the pings alone. *)
LEMMA PingsKept ==
    ASSUME PingsInv, [Next]_vars PROVE PingsInv'
<1>1. CASE PingStep
  <2>1. Pings!SendPing \/ Pings!Pong \/ Pings!FallSilent \/ Pings!PassTime
    BY <1>1 DEF PingStep, Pings!KeepNext
  <2> QED BY <2>1, SendPingKeeps, PongKeeps, OtherPingsKeep
<1>2. CASE ~PingStep
  <2>1. UNCHANGED pingVars
    BY <1>2 DEF Next, ConnectionStep, AddressStep, StreamStep, AlertStep, TimeStep, StartStep,
       MinerStep, vars
  <2> QED BY <2>1 DEF pingVars, PingsInv, PingTypeOK, PolledInv, PongInv, AnswerInv
<1> QED BY <1>1, <1>2

(* A peer that falls silent is disconnected in time, and one that answers    *)
(* every ping never is (main.cpp:4087-4101), whatever the delays, as long as *)
(* SendMessages runs for the peer every Stall and the peer answers before    *)
(* the next ping is due.                                                     *)
THEOREM PingsTellSilence == Spec => []PingsDecide
<1>1. Init => PingsInv
  BY PingsStart
<1>2. PingsInv /\ [Next]_vars => PingsInv'
  BY PingsKept
<1>3. PingsInv => PingsDecide
  <2> SUFFICES ASSUME PingsInv PROVE Pings!SilentPeerDropped /\ Pings!AnsweringPeerKept
    BY DEF PingsDecide
  <2>1. Minute \in Nat /\ Stall \in Nat
    BY NetworkAssumption DEF Pings!KeepAssumption
  <2>2. Pings!AnsweringPeerKept
    BY DEF PingsInv, AnswerInv, Pings!AnsweringPeerKept
  <2>3. Pings!SilentPeerDropped
    BY <2>1, SMT DEF PingsInv, PingTypeOK, PolledInv, PongInv, Pings!SilentPeerDropped
  <2> QED BY <2>2, <2>3
<1> QED BY <1>1, <1>2, <1>3, PTL DEF Spec

-----------------------------------------------------------------------------
(* Alerts *)

AlertTypeOK ==
    /\ mapAlerts \subseteq AlertsSent
    /\ alertsKnown \in [AlertPeers -> SUBSET AlertsSent]
    /\ phase \in [AlertPeers -> {"off", "connected", "ready"}]
    /\ now \in Int /\ latest \in Int /\ now <= latest /\ latest <= MaxTime

(* Only an alert of the prescribed form has the reserved id. *)
ReservedInv == \A a \in mapAlerts : Alarm!ReservedId(a)

AlertsInv == AlertTypeOK /\ ReservedInv /\ Alarm!AlertsCurrent

(* What has not expired later has not expired earlier. *)
LEMMA EffectEnds ==
    ASSUME latest \in Int, latest' \in Int, latest <= latest', NEW a \in AlertsSent
    PROVE  latest' < a.expires => latest < a.expires
<1>1. a.expires \in Int
  BY NetworkAssumption DEF Alarm!AlertsAssumption
<1> QED BY <1>1, SMT

(* An invariant of fewer alerts, later, known to more peers. *)
LEMMA FewerAlerts ==
    ASSUME AlertsInv, now' \in Int, now' <= latest', latest' \in Int, latest <= latest', latest' <= MaxTime,
           mapAlerts' \subseteq mapAlerts,
           alertsKnown' \in [AlertPeers -> SUBSET AlertsSent],
           phase' \in [AlertPeers -> {"off", "connected", "ready"}],
           \A p \in AlertPeers : phase'[p] = "ready" =>
               phase[p] = "ready" /\ alertsKnown[p] \subseteq alertsKnown'[p]
    PROVE  AlertsInv'
<1>1. AlertTypeOK'
  BY DEF AlertsInv, AlertTypeOK
<1>2. ReservedInv'
  BY DEF AlertsInv, ReservedInv, Alarm!ReservedId
<1>3. \A a \in mapAlerts : latest' < a.expires => latest < a.expires
  BY EffectEnds DEF AlertsInv, AlertTypeOK
<1>4. \A a, b \in mapAlerts' : a # b => ~Alarm!Names(a, b)
  BY DEF AlertsInv, Alarm!AlertsCurrent
<1>5. \A p \in AlertPeers, a \in mapAlerts' :
        phase'[p] = "ready" /\ latest' < a.expires => a \in alertsKnown'[p]
  BY <1>3 DEF AlertsInv, Alarm!AlertsCurrent
<1>6. Alarm!AlertsCurrent'
  BY <1>4, <1>5 DEF Alarm!AlertsCurrent, Alarm!Names
<1> QED BY <1>1, <1>2, <1>6 DEF AlertsInv

(* A connection that ends, alone or with others that stay as they are. *)
LEMMA DropKeeps ==
    ASSUME AlertsInv, NEW p \in AlertPeers, Alarm!Drop(p), mapAlerts' \subseteq mapAlerts,
           now' = now, latest' = latest
    PROVE  AlertsInv'
<1>1. /\ phase' = [phase EXCEPT ![p] = "off"] /\ alertsKnown' = [alertsKnown EXCEPT ![p] = {}]
  BY DEF Alarm!Drop
<1>2. /\ phase' \in [AlertPeers -> {"off", "connected", "ready"}]
      /\ alertsKnown' \in [AlertPeers -> SUBSET AlertsSent]
      /\ \A q \in AlertPeers : phase'[q] = "ready" =>
            phase[q] = "ready" /\ alertsKnown[q] \subseteq alertsKnown'[q]
  BY <1>1 DEF AlertsInv, AlertTypeOK
<1>3. now' \in Int /\ now' <= latest' /\ latest' \in Int /\ latest <= latest' /\ latest' <= MaxTime
  BY SMT DEF AlertsInv, AlertTypeOK
<1> QED BY <1>2, <1>3, FewerAlerts

LEMMA ReceiveAlertKeeps ==
    ASSUME AlertsInv, NEW p \in AlertPeers, NEW a \in AlertsSent, Alarm!ReceiveAlert(p, a)
    PROVE  AlertsInv'
<1>1. /\ now' = now /\ latest' = latest /\ now' \in Int /\ now' <= latest'
      /\ latest' \in Int /\ latest <= latest' /\ latest' <= MaxTime
  BY SMT DEF AlertsInv, AlertTypeOK, Alarm!ReceiveAlert
<1>2. Alarm!Remaining(a) \subseteq mapAlerts
  BY DEF Alarm!Remaining
<1>3. CASE ~Alarm!Accepted(a)
  <2>1. mapAlerts' \subseteq mapAlerts
    BY <1>2, <1>3 DEF Alarm!ReceiveAlert, Alarm!ProcessAlert, Alarm!Accepted
  <2>2. Alarm!Misbehaving(p)
    BY <1>3 DEF Alarm!ReceiveAlert
  <2>3. CASE Alarm!Drop(p)
    BY <2>1, <2>3, <1>1, DropKeeps
  <2>4. CASE UNCHANGED <<phase, alertsKnown>>
    BY <2>1, <2>4, <1>1, FewerAlerts DEF AlertsInv, AlertTypeOK
  <2> QED BY <2>2, <2>3, <2>4 DEF Alarm!Misbehaving
<1>4. CASE Alarm!Accepted(a)
  <2>1. Alarm!IsInEffect(a) /\ Alarm!ReservedId(a) /\ ~Alarm!AlreadyCancelled(a)
        /\ mapAlerts' = Alarm!Remaining(a) \cup {a}
    BY <1>4 DEF Alarm!ReceiveAlert, Alarm!ProcessAlert, Alarm!Accepted, Alarm!WorthProcessing
  <2>2. /\ phase' = phase
        /\ alertsKnown' = [q \in AlertPeers |->
              [alertsKnown EXCEPT ![p] = @ \cup {a}][q] \cup Alarm!Offered(a, q)]
    BY <1>4 DEF Alarm!ReceiveAlert
  <2>3. \A q \in AlertPeers : Alarm!Offered(a, q) = IF phase[q] # "off" THEN {a} ELSE {}
    BY <2>1 DEF Alarm!Offered
  <2>4. \A q \in AlertPeers :
          /\ alertsKnown'[q] \in SUBSET AlertsSent /\ alertsKnown[q] \subseteq alertsKnown'[q]
          /\ phase[q] # "off" => a \in alertsKnown'[q]
    BY <2>2, <2>3 DEF AlertsInv, AlertTypeOK
  <2>5. alertsKnown' \in [AlertPeers -> SUBSET AlertsSent]
    BY <2>2, <2>4
  <2>6. AlertTypeOK'
    BY <1>1, <1>2, <2>1, <2>2, <2>5 DEF AlertsInv, AlertTypeOK
  <2>7. ReservedInv'
    BY <1>2, <2>1 DEF AlertsInv, ReservedInv, Alarm!ReservedId
  <2>8. \A b, c \in mapAlerts' : b # c => ~Alarm!Names(b, c)
    BY <2>1 DEF AlertsInv, Alarm!AlertsCurrent, Alarm!Remaining, Alarm!AlreadyCancelled, Alarm!Cancels
  <2>9. \A q \in AlertPeers, b \in mapAlerts' :
          phase'[q] = "ready" /\ latest < b.expires => b \in alertsKnown'[q]
    BY <1>2, <2>1, <2>2, <2>4 DEF AlertsInv, Alarm!AlertsCurrent
  <2>10. Alarm!AlertsCurrent'
    BY <1>1, <2>8, <2>9 DEF Alarm!AlertsCurrent, Alarm!Names
  <2> QED BY <2>6, <2>7, <2>10 DEF AlertsInv
<1> QED BY <1>3, <1>4

LEMMA ReceiveVersionKeeps ==
    ASSUME AlertsInv, NEW p \in AlertPeers, Alarm!ReceiveVersion(p)
    PROVE  AlertsInv'
<1> DEFINE current == {a \in mapAlerts : Alarm!IsInEffect(a)}
<1>1. /\ mapAlerts' = mapAlerts /\ now' = now /\ latest' = latest
      /\ phase' = [phase EXCEPT ![p] = "ready"]
      /\ alertsKnown' = [alertsKnown EXCEPT ![p] = @ \cup current]
  BY DEF Alarm!ReceiveVersion
<1>2. AlertTypeOK'
  BY <1>1 DEF AlertsInv, AlertTypeOK
<1>3. ReservedInv'
  BY <1>1 DEF AlertsInv, ReservedInv, Alarm!ReservedId
<1>4. \A a \in mapAlerts : latest < a.expires => a \in alertsKnown'[p]
  <2>1. \A a \in mapAlerts : latest < a.expires => Alarm!IsInEffect(a)
    <3>1. \A a \in mapAlerts : a.expires \in Int
      BY NetworkAssumption DEF Alarm!AlertsAssumption, AlertsInv, AlertTypeOK
    <3> QED BY <3>1, SMT DEF AlertsInv, AlertTypeOK, Alarm!IsInEffect
  <2> QED BY <1>1, <2>1 DEF AlertsInv, AlertTypeOK
<1>5. \A q \in AlertPeers \ {p} : phase'[q] = phase[q] /\ alertsKnown'[q] = alertsKnown[q]
  BY <1>1 DEF AlertsInv, AlertTypeOK
<1>6. \A a, b \in mapAlerts : a # b => ~Alarm!Names(a, b)
  BY DEF AlertsInv, Alarm!AlertsCurrent
<1>7. \A q \in AlertPeers, a \in mapAlerts :
        phase'[q] = "ready" /\ latest < a.expires => a \in alertsKnown'[q]
  <2> SUFFICES ASSUME NEW q \in AlertPeers, NEW a \in mapAlerts,
                      phase'[q] = "ready", latest < a.expires
               PROVE  a \in alertsKnown'[q]
    OBVIOUS
  <2>1. CASE q = p
    BY <2>1, <1>4
  <2>2. CASE q # p
    BY <2>2, <1>5 DEF AlertsInv, Alarm!AlertsCurrent
  <2> QED BY <2>1, <2>2
<1>8. Alarm!AlertsCurrent'
  BY <1>1, <1>6, <1>7 DEF Alarm!AlertsCurrent, Alarm!Names
<1> QED BY <1>2, <1>3, <1>8 DEF AlertsInv

LEMMA AlertsStart ==
    ASSUME Init PROVE AlertsInv
<1>1. Alarm!AlertInit
  BY DEF Init
<1>2. MaxTime \in Nat
  BY NetworkAssumption DEF Alarm!AlertsAssumption
<1> QED BY <1>1, <1>2
        DEF Alarm!AlertInit, AlertsInv, AlertTypeOK, ReservedInv, Alarm!AlertsCurrent

(* A step of another part leaves the alerts alone. *)
LEMMA AlertsKept ==
    ASSUME AlertsInv, [Next]_vars PROVE AlertsInv'
<1>1. CASE AlertStep
  <2> USE <1>1 DEF AlertStep
  <2>1. CASE Alarm!AlertTick
    <3>1. /\ now' \in {now - 1, now + 1} \cap (0 .. MaxTime)
          /\ latest' = IF now' > latest THEN now' ELSE latest
          /\ mapAlerts' = mapAlerts /\ alertsKnown' = alertsKnown /\ phase' = phase
      BY <2>1 DEF Alarm!AlertTick
    <3>2. latest \in Int /\ latest <= MaxTime /\ MaxTime \in Nat
      BY NetworkAssumption DEF Alarm!AlertsAssumption, AlertsInv, AlertTypeOK
    <3>3. now' \in Int /\ now' <= latest' /\ latest' \in Int /\ latest <= latest' /\ latest' <= MaxTime
      BY <3>1, <3>2, SMT
    <3> QED BY <3>1, <3>3, FewerAlerts DEF AlertsInv, AlertTypeOK
  <2>2. ASSUME NEW p \in AlertPeers, Alarm!Connect(p) PROVE AlertsInv'
    <3>1. /\ now' = now /\ latest' = latest /\ mapAlerts' = mapAlerts /\ alertsKnown' = alertsKnown
          /\ phase' = [phase EXCEPT ![p] = "connected"]
      BY <2>2 DEF Alarm!Connect
    <3>2. /\ phase' \in [AlertPeers -> {"off", "connected", "ready"}]
          /\ \A q \in AlertPeers : phase'[q] = "ready" => phase[q] = "ready"
      BY <3>1 DEF AlertsInv, AlertTypeOK
    <3>3. now' \in Int /\ now' <= latest' /\ latest' \in Int /\ latest <= latest' /\ latest' <= MaxTime
      BY <3>1, SMT DEF AlertsInv, AlertTypeOK
    <3> QED BY <3>1, <3>2, <3>3, FewerAlerts DEF AlertsInv, AlertTypeOK
  <2>3. ASSUME NEW p \in AlertPeers, Alarm!Disconnect(p) PROVE AlertsInv'
    BY <2>3, DropKeeps DEF Alarm!Disconnect
  <2> QED BY <2>1, <2>2, <2>3, ReceiveVersionKeeps, ReceiveAlertKeeps DEF Alarm!AlertNext
<1>2. CASE ~AlertStep
  <2>1. /\ now' = now /\ latest' = latest /\ mapAlerts' = mapAlerts
        /\ alertsKnown' = alertsKnown /\ phase' = phase
    BY <1>2
    DEF Next, ConnectionStep, AddressStep, StreamStep, PingStep, TimeStep, StartStep, MinerStep, vars, alertVars
  <2>2. now' \in Int /\ now' <= latest' /\ latest' \in Int /\ latest <= latest' /\ latest' <= MaxTime
    BY <2>1, SMT DEF AlertsInv, AlertTypeOK
  <2> QED BY <2>1, <2>2, FewerAlerts DEF AlertsInv, AlertTypeOK
<1> QED BY <1>1, <1>2

(* An alert with the reserved id cancels all that have another, never        *)
(* expires, applies here and has the highest priority.                       *)
LEMMA ReservedStands ==
    ASSUME AlertsInv, NEW u \in mapAlerts, u.id = MaxInt
    PROVE  Alarm!GetWarnings # {} /\ \A a \in Alarm!GetWarnings : a.final /\ a.id = MaxInt
<1>1. /\ MaxInt \in Nat /\ MaxTime \in Nat /\ MaxTime < MaxInt
      /\ \A a \in mapAlerts : /\ a.id \in Int /\ a.id <= MaxInt
                              /\ a.priority \in Int /\ a.priority <= MaxInt
                              /\ a.final => "me" \in a.applies
  BY NetworkAssumption DEF Alarm!AlertsAssumption, AlertsInv, AlertTypeOK
<1>2. /\ u.expires = MaxInt /\ u.cancel = MaxInt - 1 /\ u.final /\ u.priority = MaxInt
      /\ "me" \in u.applies
  BY <1>1 DEF AlertsInv, ReservedInv, Alarm!ReservedId
<1>3. Alarm!IsInEffect(u)
  BY <1>1, <1>2, SMT DEF AlertsInv, AlertTypeOK, Alarm!IsInEffect
<1>4. u \in Alarm!GetWarnings
  BY <1>1, <1>2, <1>3 DEF Alarm!GetWarnings, Alarm!AppliesTo
<1>5. ASSUME NEW a \in mapAlerts PROVE a.final /\ a.id = MaxInt
  <2>1. a # u => ~(a.id <= u.cancel)
    BY DEF AlertsInv, Alarm!AlertsCurrent, Alarm!Names
  <2>2. a.id = MaxInt
    BY <2>1, <1>1, <1>2, SMT
  <2> QED BY <2>2 DEF AlertsInv, ReservedInv, Alarm!ReservedId
<1> QED BY <1>4, <1>5 DEF Alarm!GetWarnings

(* Whatever alerts there are, in whatever order they arrive, are cancelled   *)
(* and expire, and however peers come and go: none is kept beside one that   *)
(* cancels it (alert.cpp:197-229), every ready peer was offered those that   *)
(* have not expired, and the reserved one decides the warning                *)
(* (alert.cpp:180).                                                          *)
THEOREM AlertsStandTogether == Spec => []AlertsStand
<1>1. Init => AlertsInv
  BY AlertsStart
<1>2. AlertsInv /\ [Next]_vars => AlertsInv'
  BY AlertsKept
<1>3. AlertsInv => AlertsStand
  BY ReservedStands DEF AlertsStand, AlertsInv, Alarm!UrgentStands
<1> QED BY <1>1, <1>2, <1>3, PTL DEF Spec

-----------------------------------------------------------------------------
(* The start *)

Before == {"off", "lock"}
Late == {"verify", "genesis", "checkpoint", "key", "reset", "check"}
Steps == Before \cup {"open", "guts", "best", "running"} \cup Late
MemoryType == [index : SUBSET Nat, best : Int, sync : Int]

StartTypeOK ==
    /\ step \in [Processes -> Steps]
    /\ stopping \in [Processes -> BOOLEAN]
    /\ mem \in [Processes -> MemoryType]
    /\ disk.index \in SUBSET Nat /\ disk.best \in Int /\ disk.sync \in Int
    /\ disk = [index |-> disk.index, best |-> disk.best, sync |-> disk.sync, key |-> disk.key]

(* The index on the disk has no gaps below any of its records, and what is   *)
(* recorded beside it is in it.                                              *)
DiskInv ==
    /\ \A h \in disk.index : \A g \in 0 .. h : g \in disk.index
    /\ disk.index # {} => disk.best \in disk.index
    /\ disk.index = {} => disk.best = -1 /\ disk.sync = -1
    /\ disk.sync # -1 => disk.sync \in disk.index

Same(p) == mem[p].index = disk.index /\ mem[p].best = disk.best /\ mem[p].sync = disk.sync

(* What a process knows at each step: nothing, a part of the index, or,       *)
(* unless it has been asked to stop on the way, all that is on the disk.      *)
ProcessInv(p) ==
    /\ step[p] \in Before \cup {"open"} =>
          mem[p].index = {} /\ mem[p].best = -1 /\ mem[p].sync = -1
    /\ mem[p].index \subseteq disk.index
    /\ step[p] \in {"guts", "best"} => mem[p].best = -1 /\ mem[p].sync = -1
    /\ step[p] = "best" => mem[p].index = disk.index
    /\ step[p] \in Late /\ ~stopping[p] => Same(p)
    /\ step[p] = "running" => Same(p)
    /\ step[p] \in {"checkpoint", "key", "reset", "check", "running"} => 0 \in disk.index

(* Only the process with the lock goes on. *)
LockInv == \A p \in Processes : step[p] \notin Before => holder = p

StartInv == StartTypeOK /\ DiskInv /\ LockInv /\ \A p \in Processes : ProcessInv(p)

(* While one process is past the lock the others have nothing in memory that  *)
(* the disk could contradict.                                                 *)
LEMMA OthersWait ==
    ASSUME StartInv, NEW p \in Processes, step[p] \notin Before,
           StartTypeOK', DiskInv', ProcessInv(p)', holder' = holder \/ step'[p] \in Before,
           \A q \in Processes \ {p} : step'[q] = step[q] /\ mem'[q] = mem[q]
    PROVE  StartInv'
<1>1. \A q \in Processes \ {p} : step[q] \in Before
  BY DEF StartInv, LockInv
<1>2. LockInv'
  BY <1>1 DEF StartInv, LockInv
<1>3. ASSUME NEW q \in Processes \ {p} PROVE ProcessInv(q)'
  <2>1. step'[q] \in Before /\ step[q] \in Before /\ mem'[q] = mem[q]
    BY <1>1
  <2>2. mem'[q].index = {} /\ mem'[q].best = -1 /\ mem'[q].sync = -1
    BY <2>1 DEF StartInv, ProcessInv
  <2>3. step'[q] \in {"off", "lock"}
    BY <2>1 DEF Before
  <2> QED BY <2>2, <2>3 DEF ProcessInv, Late
<1> QED BY <1>2, <1>3 DEF StartInv

(* A step that leaves the disk alone and moves one process. *)
LEMMA OneMoves ==
    ASSUME StartInv, NEW p \in Processes, disk' = disk, StartTypeOK', ProcessInv(p)',
           \A q \in Processes \ {p} :
               step'[q] = step[q] /\ mem'[q] = mem[q] /\ stopping'[q] = stopping[q],
           LockInv'
    PROVE  StartInv'
<1>1. DiskInv'
  BY DEF StartInv, DiskInv
<1>2. ASSUME NEW q \in Processes \ {p} PROVE ProcessInv(q)'
  BY DEF StartInv, ProcessInv, Same
<1> QED BY <1>1, <1>2 DEF StartInv

LEMMA EndKeeps ==
    ASSUME StartInv, NEW p \in Processes, Start!End(p), disk' = disk
    PROVE  StartInv'
<1>1. /\ step' = [step EXCEPT ![p] = "off"] /\ stopping' = [stopping EXCEPT ![p] = FALSE]
      /\ mem' = [mem EXCEPT ![p] = [index |-> {}, best |-> -1, sync |-> -1]]
      /\ holder' = IF holder = p THEN "none" ELSE holder
  BY DEF Start!End, Start!NoMemory, Start!None
<1>2. StartTypeOK'
  <2>1. step' \in [Processes -> Steps] /\ stopping' \in [Processes -> BOOLEAN]
    BY <1>1 DEF StartInv, StartTypeOK, Steps, Before
  <2>2. [index |-> {}, best |-> -1, sync |-> -1] \in MemoryType
    BY DEF MemoryType
  <2>3. mem' \in [Processes -> MemoryType]
    BY <1>1, <2>2 DEF StartInv, StartTypeOK
  <2> QED BY <2>1, <2>3 DEF StartInv, StartTypeOK
<1>3. ProcessInv(p)'
  BY <1>1 DEF StartInv, StartTypeOK, ProcessInv, Late
<1>4. LockInv'
  BY <1>1 DEF StartInv, StartTypeOK, LockInv, Before
<1>5. \A q \in Processes \ {p} :
        step'[q] = step[q] /\ mem'[q] = mem[q] /\ stopping'[q] = stopping[q]
  BY <1>1 DEF StartInv, StartTypeOK
<1> QED BY <1>2, <1>3, <1>4, <1>5, OneMoves

(* The process goes on to another step with its memory as it is. *)
LEMMA GoesOn ==
    ASSUME StartInv, NEW p \in Processes, NEW to \in Steps, Start!At(p, step[p], to),
           mem' = mem, disk' = disk, stopping' = stopping, LockInv', ProcessInv(p)'
    PROVE  StartInv'
<1>1. step' = [step EXCEPT ![p] = to]
  BY DEF Start!At
<1>2. StartTypeOK'
  BY <1>1 DEF StartInv, StartTypeOK
<1>3. \A q \in Processes \ {p} :
        step'[q] = step[q] /\ mem'[q] = mem[q] /\ stopping'[q] = stopping[q]
  BY <1>1 DEF StartInv, StartTypeOK
<1> QED BY <1>2, <1>3, OneMoves

(* The steps up to the lock and the databases. *)
LEMMA OpeningKeeps ==
    ASSUME DaemonModes \subseteq {FALSE}, StartInv, NEW p \in Processes,
           Start!Launch(p) \/ Start!TakeLock(p) \/ Start!Open(p)
    PROVE  StartInv'
<1>1. disk' = disk
  BY DEF Start!Launch, Start!TakeLock, Start!Open
<1>2. CASE Start!End(p)
  BY <1>1, <1>2, EndKeeps
<1>3. CASE Start!Launch(p)
  <2>1. /\ step[p] = "off" /\ Start!At(p, step[p], "lock") /\ step' = [step EXCEPT ![p] = "lock"]
        /\ mem' = mem /\ stopping' = stopping /\ holder' = holder
    BY <1>3 DEF Start!Launch, Start!At
  <2>2. LockInv'
    BY <2>1 DEF StartInv, StartTypeOK, LockInv, Before
  <2>3. ProcessInv(p)'
    BY <1>1, <2>1 DEF StartInv, StartTypeOK, ProcessInv, Before, Late
  <2>4. "lock" \in Steps
    BY DEF Steps, Before
  <2> QED BY <1>1, <2>1, <2>2, <2>3, <2>4, GoesOn
<1>4. CASE Start!TakeLock(p) /\ ~Start!End(p)
  <2>1. /\ step[p] = "lock" /\ Start!At(p, step[p], "open") /\ step' = [step EXCEPT ![p] = "open"]
        /\ mem' = mem /\ stopping' = stopping /\ holder = "none" /\ holder' = p
    BY <1>4 DEF Start!TakeLock, Start!At
  <2>2. LockInv'
    <3>1. \A q \in Processes : step[q] \in Before
      BY <2>1, NetworkAssumption DEF Start!StartAssumption, StartInv, LockInv
    <3> QED BY <2>1, <3>1 DEF StartInv, StartTypeOK, LockInv
  <2>3. ProcessInv(p)'
    BY <1>1, <2>1 DEF StartInv, StartTypeOK, ProcessInv, Before, Late
  <2>4. "open" \in Steps
    BY DEF Steps
  <2> QED BY <1>1, <2>1, <2>2, <2>3, <2>4, GoesOn
<1>5. CASE Start!Open(p) /\ ~Start!End(p)
  <2>1. /\ step[p] = "open" /\ Start!At(p, step[p], "guts") /\ step' = [step EXCEPT ![p] = "guts"]
        /\ mem' = mem /\ stopping' = stopping /\ holder' = holder
    BY <1>5 DEF Start!Open, Start!At
  <2>2. LockInv'
    BY <2>1 DEF StartInv, StartTypeOK, LockInv, Before
  <2>3. ProcessInv(p)'
    BY <1>1, <2>1 DEF StartInv, StartTypeOK, ProcessInv, Before, Late
  <2>4. "guts" \in Steps
    BY DEF Steps
  <2> QED BY <1>1, <2>1, <2>2, <2>3, <2>4, GoesOn
<1> QED BY <1>2, <1>3, <1>4, <1>5

(* A process past the lock that stays past it keeps it. *)
LEMMA LockKept ==
    ASSUME StartInv, NEW p \in Processes, step[p] \notin Before, holder' = holder,
           \A q \in Processes \ {p} : step'[q] = step[q]
    PROVE  LockInv'
BY DEF StartInv, LockInv

(* The memory of one process changes, in one field or in two. *)
LEMMA MemoryFields ==
    ASSUME StartInv, NEW p \in Processes, NEW index \in SUBSET Nat, NEW best \in Int, NEW sync \in Int,
           \/ /\ mem' = [mem EXCEPT ![p].index = index]
              /\ best = mem[p].best /\ sync = mem[p].sync
           \/ /\ mem' = [mem EXCEPT ![p].sync = sync]
              /\ index = mem[p].index /\ best = mem[p].best
           \/ /\ mem' = [mem EXCEPT ![p].best = best]
              /\ index = mem[p].index /\ sync = mem[p].sync
           \/ mem' = [mem EXCEPT ![p] = [index |-> index, best |-> best, sync |-> sync]]
           \/ mem' = [mem EXCEPT ![p].best = best, ![p].sync = sync] /\ index = mem[p].index
    PROVE  /\ mem' \in [Processes -> MemoryType]
           /\ mem'[p] = [index |-> index, best |-> best, sync |-> sync]
           /\ \A q \in Processes \ {p} : mem'[q] = mem[q]
<1>1. mem \in [Processes -> MemoryType]
  BY DEF StartInv, StartTypeOK
<1>2. mem'[p] = [index |-> index, best |-> best, sync |-> sync]
  <2>1. CASE mem' = [mem EXCEPT ![p].index = index] /\ best = mem[p].best /\ sync = mem[p].sync
    BY <1>1, <2>1 DEF MemoryType
  <2>2. CASE mem' = [mem EXCEPT ![p].sync = sync] /\ index = mem[p].index /\ best = mem[p].best
    BY <1>1, <2>2 DEF MemoryType
  <2>3. CASE mem' = [mem EXCEPT ![p].best = best] /\ index = mem[p].index /\ sync = mem[p].sync
    BY <1>1, <2>3 DEF MemoryType
  <2>4. CASE mem' = [mem EXCEPT ![p] = [index |-> index, best |-> best, sync |-> sync]]
    BY <1>1, <2>4
  <2>5. CASE mem' = [mem EXCEPT ![p].best = best, ![p].sync = sync] /\ index = mem[p].index
    BY <1>1, <2>5 DEF MemoryType
  <2> QED BY <2>1, <2>2, <2>3, <2>4, <2>5
<1>3. \A q \in Processes \ {p} : mem'[q] = mem[q]
  BY <1>1
<1>4. DOMAIN mem' = Processes /\ mem' = [q \in Processes |-> mem'[q]]
  BY <1>1
<1>5. mem'[p] \in MemoryType
  BY <1>2 DEF MemoryType
<1>6. mem' \in [Processes -> MemoryType]
  <2>1. \A q \in Processes : mem'[q] \in MemoryType
    BY <1>1, <1>3, <1>5
  <2> QED BY <2>1, <1>4
<1> QED BY <1>2, <1>3, <1>6

LEMMA FieldsTyped ==
    ASSUME StartInv, NEW p \in Processes
    PROVE  mem[p].index \in SUBSET Nat /\ mem[p].best \in Int /\ mem[p].sync \in Int
<1>1. mem[p] \in MemoryType
  BY DEF StartInv, StartTypeOK
<1> QED BY <1>1 DEF MemoryType

LEMMA LoadingKeeps ==
    ASSUME StartInv, NEW p \in Processes,
           Start!LoadBlockIndexRecord(p) \/ Start!GutsDone(p) \/ Start!LoadBest(p)
    PROVE  StartInv'
<1>1. disk' = disk
  BY DEF Start!LoadBlockIndexRecord, Start!GutsDone, Start!LoadBest
<1>2. CASE Start!End(p)
  BY <1>1, <1>2, EndKeeps
<1>3. CASE Start!LoadBlockIndexRecord(p)
  <2>1. PICK h \in disk.index : mem' = [mem EXCEPT ![p].index = mem[p].index \cup {h}]
    BY <1>3 DEF Start!LoadBlockIndexRecord
  <2>2. /\ step[p] = "guts" /\ step' = step /\ stopping' = stopping /\ holder' = holder
    BY <1>3 DEF Start!LoadBlockIndexRecord
  <2>3. mem[p].index \cup {h} \in SUBSET Nat
    BY FieldsTyped DEF StartInv, StartTypeOK
  <2>4. /\ mem' \in [Processes -> MemoryType]
        /\ mem'[p] = [index |-> mem[p].index \cup {h}, best |-> mem[p].best, sync |-> mem[p].sync]
        /\ \A q \in Processes \ {p} : mem'[q] = mem[q]
    BY <2>1, <2>3, FieldsTyped, MemoryFields
  <2>5. StartTypeOK'
    BY <1>1, <2>2, <2>4 DEF StartInv, StartTypeOK
  <2>6. ProcessInv(p)'
    BY <1>1, <2>2, <2>4 DEF StartInv, ProcessInv, Before, Late
  <2>7. LockInv'
    BY <2>2, LockKept DEF Before
  <2> QED BY <1>1, <2>2, <2>4, <2>5, <2>6, <2>7, OneMoves
<1>4. CASE Start!GutsDone(p)
  <2>1. PICK to \in {"genesis", "best"} :
          /\ to = "genesis" => stopping[p]
          /\ to = "best" => disk.index \subseteq mem[p].index
          /\ step[p] = "guts" /\ Start!At(p, step[p], to) /\ step' = [step EXCEPT ![p] = to]
          /\ mem' = mem /\ stopping' = stopping /\ holder' = holder
    BY <1>4 DEF Start!GutsDone, Start!At
  <2>2. step'[p] = to /\ \A q \in Processes \ {p} : step'[q] = step[q]
    BY <2>1 DEF StartInv, StartTypeOK
  <2>3. ProcessInv(p)'
    BY <1>1, <2>1, <2>2 DEF StartInv, ProcessInv, Before, Late
  <2>4. LockInv'
    BY <2>1, <2>2, LockKept DEF Before
  <2>5. to \in Steps
    BY DEF Steps, Late
  <2> QED BY <1>1, <2>1, <2>3, <2>4, <2>5, GoesOn
<1>5. CASE Start!LoadBest(p) /\ disk.best = -1 /\ 0 \notin mem[p].index
  <2>1. /\ step[p] = "best" /\ mem[p].index = disk.index /\ mem[p].best = -1 /\ mem[p].sync = -1
    BY <1>5 DEF Start!LoadBest, StartInv, ProcessInv
  <2>2. disk.index = {} /\ disk.sync = -1
    BY <1>5, <2>1 DEF StartInv, StartTypeOK, DiskInv
  <2>3. CASE step' # [step EXCEPT ![p] = "genesis"]
    BY <1>5, <2>1, <2>2, <2>3 DEF Start!LoadBest, Start!At, Start!None
  <2>4. CASE step' = [step EXCEPT ![p] = "genesis"] /\ ~Start!End(p)
    <3>1. /\ Start!At(p, step[p], "genesis")
          /\ mem' = mem /\ stopping' = stopping /\ holder' = holder
      BY <1>5, <2>1, <2>2, <2>4 DEF Start!LoadBest, Start!At, Start!None, StartInv, StartTypeOK
    <3>2. step'[p] = "genesis" /\ \A q \in Processes \ {p} : step'[q] = step[q]
      BY <2>4 DEF StartInv, StartTypeOK
    <3>3. ProcessInv(p)'
      BY <1>1, <1>5, <2>1, <2>2, <3>1, <3>2 DEF StartInv, ProcessInv, Same, Before, Late
    <3>4. LockInv'
      BY <2>1, <3>1, <3>2, LockKept DEF Before
    <3>5. "genesis" \in Steps
      BY DEF Steps, Late
    <3> QED BY <1>1, <3>1, <3>3, <3>4, <3>5, GoesOn
  <2> QED BY <1>2, <2>3, <2>4
<1>6. CASE Start!LoadBest(p) /\ ~(disk.best = -1 /\ 0 \notin mem[p].index) /\ ~Start!End(p)
  <2>1. /\ step[p] = "best" /\ step' = [step EXCEPT ![p] = "verify"]
        /\ mem' = [mem EXCEPT ![p].best = disk.best, ![p].sync = disk.sync]
        /\ stopping' = stopping /\ holder' = holder
    BY <1>6 DEF Start!LoadBest, Start!At, Start!None
  <2>2. mem[p].index \in SUBSET Nat /\ disk.best \in Int /\ disk.sync \in Int
    BY FieldsTyped DEF StartInv, StartTypeOK
  <2>3. /\ mem' \in [Processes -> MemoryType]
        /\ mem'[p] = [index |-> mem[p].index, best |-> disk.best, sync |-> disk.sync]
        /\ \A q \in Processes \ {p} : mem'[q] = mem[q]
    BY <2>1, <2>2, MemoryFields
  <2>4. /\ step' \in [Processes -> Steps] /\ step'[p] = "verify"
        /\ \A q \in Processes \ {p} : step'[q] = step[q]
    BY <2>1 DEF StartInv, StartTypeOK, Steps, Late
  <2>5. StartTypeOK'
    BY <1>1, <2>1, <2>3, <2>4 DEF StartInv, StartTypeOK
  <2>6. ProcessInv(p)'
    BY <1>1, <2>1, <2>3, <2>4 DEF StartInv, ProcessInv, Same, Before, Late
  <2>7. LockInv'
    BY <2>1, <2>4, LockKept DEF Before
  <2> QED BY <1>1, <2>1, <2>3, <2>4, <2>5, <2>6, <2>7, OneMoves
<1> QED BY <1>2, <1>3, <1>4, <1>5, <1>6

(* The synchronised checkpoint is set back to one that is in the index. *)
LEMMA LastHardenedIndexed ==
    ASSUME StartInv, NEW p \in Processes, 0 \in disk.index
    PROVE  Start!LastHardened(p) \in disk.index
<1> DEFINE H == {h \in Hardened \cap mem[p].index : h <= mem[p].best}
           n == IF mem[p].best > 0 THEN mem[p].best ELSE 0
<1>1. mem[p].best \in Int /\ H \subseteq Nat
  BY FieldsTyped
<1>2. n \in Int /\ {0} \cup H \subseteq Int /\ \A i \in {0} \cup H : i <= n
  BY <1>1
<1>3. Max({0} \cup H) \in {0} \cup H
  <2> HIDE DEF H, n
  <2> QED BY <1>2, GreatestInteger
<1>4. H \subseteq disk.index
  BY DEF StartInv, ProcessInv
<1>5. Start!LastHardened(p) = Max({0} \cup H)
  BY DEF Start!LastHardened, Start!Max, Max
<1> QED BY <1>3, <1>4, <1>5

(* A bad block takes the chain back. *)
LEMMA VerifyKeeps ==
    ASSUME StartInv, NEW p \in Processes, Start!Verify(p)
    PROVE  StartInv'
<1>1. CASE Start!End(p)
  <2>1. step'[p] = "off"
    BY <1>1 DEF Start!End, StartInv, StartTypeOK
  <2>2. ~Start!At(p, "verify", "genesis")
    BY <2>1 DEF Start!At, StartInv, StartTypeOK
  <2>3. disk' = disk
    BY <2>2 DEF Start!Verify
  <2> QED BY <1>1, <2>3, EndKeeps
<1>2. CASE Start!At(p, "verify", "genesis") /\ UNCHANGED <<holder, stopping, mem, disk>>
  <2>1. /\ step[p] = "verify" /\ step' = [step EXCEPT ![p] = "genesis"]
    BY <1>2 DEF Start!At
  <2>2. step'[p] = "genesis" /\ \A q \in Processes \ {p} : step'[q] = step[q]
    BY <2>1 DEF StartInv, StartTypeOK
  <2>3. ProcessInv(p)'
    BY <1>2, <2>1, <2>2 DEF StartInv, ProcessInv, Same, Before, Late
  <2>4. LockInv'
    BY <1>2, <2>1, <2>2, LockKept DEF Before
  <2>5. "genesis" \in Steps
    BY DEF Steps, Late
  <2> QED BY <1>2, <2>1, <2>3, <2>4, <2>5, GoesOn
<1>3. CASE ~Start!End(p) /\ ~UNCHANGED <<holder, stopping, mem, disk>>
  <2>1. PICK fork \in 0 .. mem[p].best - 1 :
          /\ disk' = [disk EXCEPT !.best = fork]
          /\ mem' = [mem EXCEPT ![p].best = fork]
    BY <1>3 DEF Start!Verify
  <2>2. /\ step[p] = "verify" /\ ~stopping[p] /\ step' = [step EXCEPT ![p] = "genesis"]
        /\ holder' = holder /\ stopping' = stopping
    BY <1>3 DEF Start!Verify, Start!At
  <2>3. /\ mem' \in [Processes -> MemoryType]
        /\ mem'[p] = [index |-> mem[p].index, best |-> fork, sync |-> mem[p].sync]
        /\ \A q \in Processes \ {p} : mem'[q] = mem[q]
    <3>1. fork \in Int
      BY FieldsTyped
    <3> QED BY <2>1, <3>1, FieldsTyped, MemoryFields
  <2>4. disk' = [index |-> disk.index, best |-> fork, sync |-> disk.sync, key |-> disk.key]
    BY <2>1 DEF StartInv, StartTypeOK
  <2>5. /\ step' \in [Processes -> Steps] /\ step'[p] = "genesis"
        /\ \A q \in Processes \ {p} : step'[q] = step[q]
    BY <2>2 DEF StartInv, StartTypeOK, Steps, Late
  <2>6. StartTypeOK'
    BY <2>2, <2>3, <2>4, <2>5 DEF StartInv, StartTypeOK
  <2>7. Same(p)
    BY <2>2 DEF StartInv, ProcessInv, Late
  <2>8. fork \in disk.index
    <3>1. mem[p].best = disk.best /\ disk.best \in Int /\ disk.best >= 1
      BY <2>7, FieldsTyped DEF Same
    <3>2. disk.best \in disk.index
      BY <3>1 DEF StartInv, DiskInv
    <3>3. fork \in 0 .. disk.best
      BY <3>1
    <3> QED BY <3>2, <3>3 DEF StartInv, DiskInv
  <2>9. DiskInv'
    BY <2>4, <2>8 DEF StartInv, DiskInv
  <2>10. ProcessInv(p)'
    BY <2>2, <2>3, <2>4, <2>5, <2>7 DEF StartInv, ProcessInv, Same, Before, Late
  <2> QED BY <2>2, <2>3, <2>5, <2>6, <2>9, <2>10, OthersWait DEF Before
<1> QED BY <1>1, <1>2, <1>3 DEF Start!Verify

LEMMA GenesisKeeps ==
    ASSUME StartInv, NEW p \in Processes, Start!Genesis(p)
    PROVE  StartInv'
<1>1. step[p] = "genesis" /\ holder' = holder /\ stopping' = stopping
  BY DEF Start!Genesis
<1>2. CASE mem[p].index # {}
  <2>1. step' = [step EXCEPT ![p] = "key"] /\ mem' = mem /\ disk' = disk
        /\ Start!At(p, step[p], "key")
    BY <1>2 DEF Start!Genesis, Start!At
  <2>2. step'[p] = "key" /\ \A q \in Processes \ {p} : step'[q] = step[q]
    BY <2>1 DEF StartInv, StartTypeOK
  <2>3. 0 \in disk.index
    <3>1. PICK h \in disk.index : TRUE
      BY <1>2 DEF StartInv, ProcessInv
    <3>2. h \in Nat /\ 0 \in 0 .. h
      BY <3>1 DEF StartInv, StartTypeOK
    <3> QED BY <3>1, <3>2 DEF StartInv, DiskInv
  <2>4. ProcessInv(p)'
    BY <1>1, <2>1, <2>2, <2>3 DEF StartInv, ProcessInv, Same, Before, Late
  <2>5. LockInv'
    BY <1>1, <2>1, <2>2, LockKept DEF Before
  <2>6. "key" \in Steps
    BY DEF Steps, Late
  <2> QED BY <1>1, <2>1, <2>4, <2>5, <2>6, GoesOn
<1>3. CASE mem[p].index = {}
  <2>1. /\ step' = [step EXCEPT ![p] = "checkpoint"]
        /\ disk' = [disk EXCEPT !.index = disk.index \cup {0}, !.best = 0]
        /\ mem' = [mem EXCEPT ![p] = [index |-> {0}, best |-> 0, sync |-> mem[p].sync]]
    BY <1>3 DEF Start!Genesis, Start!At, Start!AddGenesis
  <2>2. /\ mem' \in [Processes -> MemoryType]
        /\ mem'[p] = [index |-> {0}, best |-> 0, sync |-> mem[p].sync]
        /\ \A q \in Processes \ {p} : mem'[q] = mem[q]
    <3>1. {0} \in SUBSET Nat /\ 0 \in Int
      OBVIOUS
    <3> QED BY <2>1, <3>1, FieldsTyped, MemoryFields
  <2>3. disk' = [index |-> disk.index \cup {0}, best |-> 0, sync |-> disk.sync, key |-> disk.key]
    BY <2>1 DEF StartInv, StartTypeOK
  <2>4. /\ step' \in [Processes -> Steps] /\ step'[p] = "checkpoint"
        /\ \A q \in Processes \ {p} : step'[q] = step[q]
    BY <2>1 DEF StartInv, StartTypeOK, Steps, Late
  <2>5. disk.index \cup {0} \in SUBSET Nat
    BY DEF StartInv, StartTypeOK
  <2>6. StartTypeOK'
    BY <1>1, <2>2, <2>3, <2>4, <2>5 DEF StartInv, StartTypeOK
  <2>7. DiskInv'
    BY <2>3 DEF StartInv, StartTypeOK, DiskInv
  <2>8. ~stopping[p] => Same(p)
    BY <1>1 DEF StartInv, ProcessInv, Late
  <2>9. ProcessInv(p)'
    BY <1>1, <1>3, <2>2, <2>3, <2>4, <2>8 DEF StartInv, ProcessInv, Same, Before, Late
  <2> QED BY <1>1, <2>2, <2>4, <2>6, <2>7, <2>9, OthersWait DEF Before
<1> QED BY <1>2, <1>3

(* The checkpoint and its key are written. *)
LEMMA CheckpointKeeps ==
    ASSUME StartInv, NEW p \in Processes, NEW sync \in disk.index,
           step[p] \in {"checkpoint", "reset", "running"},
           NEW to \in {"key", "check", "running"}, to = "running" <=> step[p] = "running",
           step' = [step EXCEPT ![p] = to], holder' = holder, stopping' = stopping,
           disk' = [disk EXCEPT !.sync = sync], mem' = [mem EXCEPT ![p].sync = sync]
    PROVE  StartInv'
<1>1. sync \in Int
  BY DEF StartInv, StartTypeOK
<1>2. /\ mem' \in [Processes -> MemoryType]
      /\ mem'[p] = [index |-> mem[p].index, best |-> mem[p].best, sync |-> sync]
      /\ \A q \in Processes \ {p} : mem'[q] = mem[q]
  BY <1>1, FieldsTyped, MemoryFields
<1>3. disk' = [index |-> disk.index, best |-> disk.best, sync |-> sync, key |-> disk.key]
  BY DEF StartInv, StartTypeOK
<1>4. /\ step' \in [Processes -> Steps] /\ step'[p] = to
      /\ \A q \in Processes \ {p} : step'[q] = step[q]
  BY DEF StartInv, StartTypeOK, Steps, Late
<1>5. StartTypeOK'
  BY <1>1, <1>2, <1>3, <1>4 DEF StartInv, StartTypeOK
<1>6. DiskInv'
  BY <1>3 DEF StartInv, DiskInv
<1>7. ProcessInv(p)'
  <2>1. /\ mem[p].index \subseteq disk.index /\ 0 \in disk.index
        /\ ~stopping[p] \/ step[p] = "running" => Same(p)
    BY DEF StartInv, ProcessInv, Late
  <2>2. ~stopping'[p] \/ to = "running" => Same(p)'
    BY <1>2, <1>3, <2>1 DEF Same
  <2>3. mem'[p].index \subseteq disk'.index /\ 0 \in disk'.index
    BY <1>2, <1>3, <2>1
  <2>4. step'[p] = "key" \/ step'[p] = "check" \/ step'[p] = "running"
    BY <1>4
  <2> QED BY <1>4, <2>2, <2>3, <2>4 DEF ProcessInv, Before, Late
<1> QED BY <1>2, <1>4, <1>5, <1>6, <1>7, OthersWait DEF Before

LEMMA CheckingKeeps ==
    ASSUME StartInv, NEW p \in Processes,
           \/ Start!FirstCheckpoint(p) \/ Start!CheckKey(p) \/ Start!ResetSyncCheckpoint(p)
           \/ Start!CheckStop(p)
    PROVE  StartInv'
<1>1. CASE Start!FirstCheckpoint(p)
  <2>1. /\ step[p] = "checkpoint" /\ step' = [step EXCEPT ![p] = "key"]
        /\ disk' = [disk EXCEPT !.sync = 0] /\ mem' = [mem EXCEPT ![p].sync = disk'.sync]
        /\ holder' = holder /\ stopping' = stopping
    BY <1>1 DEF Start!FirstCheckpoint, Start!At, Start!WriteSyncCheckpoint
  <2>2. 0 \in disk.index
    BY <2>1 DEF StartInv, ProcessInv
  <2>3. disk'.sync = 0
    BY <2>1 DEF StartInv, StartTypeOK
  <2> QED BY <2>1, <2>2, <2>3, CheckpointKeeps
<1>2. CASE Start!ResetSyncCheckpoint(p)
  <2>1. /\ step[p] = "reset" /\ step' = [step EXCEPT ![p] = "check"]
        /\ disk' = [disk EXCEPT !.sync = Start!LastHardened(p)]
        /\ mem' = [mem EXCEPT ![p].sync = disk'.sync]
        /\ holder' = holder /\ stopping' = stopping
    BY <1>2 DEF Start!ResetSyncCheckpoint, Start!At, Start!WriteSyncCheckpoint
  <2>2. Start!LastHardened(p) \in disk.index
    BY <2>1, LastHardenedIndexed DEF StartInv, ProcessInv
  <2>3. disk'.sync = Start!LastHardened(p)
    BY <2>1 DEF StartInv, StartTypeOK
  <2> QED BY <2>1, <2>2, <2>3, CheckpointKeeps
<1>3. CASE Start!CheckKey(p)
  <2>1. PICK to \in {"check", "reset"} :
          /\ step[p] = "key" /\ step' = [step EXCEPT ![p] = to]
          /\ disk' = [disk EXCEPT !.key = release]
          /\ mem' = mem /\ holder' = holder /\ stopping' = stopping
    BY <1>3 DEF Start!CheckKey, Start!At
  <2>2. disk' = [index |-> disk.index, best |-> disk.best, sync |-> disk.sync, key |-> release]
    BY <2>1 DEF StartInv, StartTypeOK
  <2>3. /\ step' \in [Processes -> Steps] /\ step'[p] = to
        /\ \A q \in Processes \ {p} : step'[q] = step[q]
    BY <2>1 DEF StartInv, StartTypeOK, Steps, Late
  <2>4. StartTypeOK'
    BY <2>1, <2>2, <2>3 DEF StartInv, StartTypeOK
  <2>5. DiskInv'
    BY <2>2 DEF StartInv, DiskInv
  <2>6. ProcessInv(p)'
    BY <2>1, <2>2, <2>3 DEF StartInv, ProcessInv, Same, Before, Late
  <2> QED BY <2>1, <2>3, <2>4, <2>5, <2>6, OthersWait DEF Before
<1>4. CASE Start!CheckStop(p) /\ stopping[p]
  BY <1>4, EndKeeps DEF Start!CheckStop
<1>5. CASE Start!CheckStop(p) /\ ~stopping[p]
  <2>1. /\ step[p] = "check" /\ step' = [step EXCEPT ![p] = "running"]
        /\ Start!At(p, step[p], "running")
        /\ mem' = mem /\ disk' = disk /\ holder' = holder /\ stopping' = stopping
    BY <1>5 DEF Start!CheckStop, Start!At
  <2>2. step'[p] = "running" /\ \A q \in Processes \ {p} : step'[q] = step[q]
    BY <2>1 DEF StartInv, StartTypeOK
  <2>3. ProcessInv(p)'
    BY <1>5, <2>1, <2>2 DEF StartInv, ProcessInv, Same, Before, Late
  <2>4. LockInv'
    BY <2>1, <2>2, LockKept DEF Before
  <2>5. "running" \in Steps
    BY DEF Steps
  <2> QED BY <2>1, <2>3, <2>4, <2>5, GoesOn
<1> QED BY <1>1, <1>2, <1>3, <1>4, <1>5

LEMMA RunningKeeps ==
    ASSUME StartInv, NEW p \in Processes,
           \/ Start!Advance(p) \/ Start!AcceptCheckpoint(p) \/ Start!RequestShutdown(p)
           \/ Start!Crash(p)
    PROVE  StartInv'
<1>1. CASE Start!Advance(p)
  <2> DEFINE h == mem[p].best + 1
  <2>1. /\ step[p] = "running" /\ step' = step /\ holder' = holder /\ stopping' = stopping
        /\ mem' = [mem EXCEPT ![p] = [index |-> mem[p].index \cup {h}, best |-> h, sync |-> mem[p].sync]]
        /\ disk' = [disk EXCEPT !.index = disk.index \cup {h}, !.best = h]
    BY <1>1 DEF Start!Advance
  <2>2. Same(p) /\ 0 \in disk.index
    BY <2>1 DEF StartInv, ProcessInv
  <2>3. mem[p].best \in disk.index /\ mem[p].best \in Nat /\ h \in Nat
    BY <2>2 DEF StartInv, StartTypeOK, DiskInv, Same
  <2>4. mem[p].index \cup {h} \in SUBSET Nat /\ disk.index \cup {h} \in SUBSET Nat /\ h \in Int
    BY <2>3, FieldsTyped DEF StartInv, StartTypeOK
  <2>5. /\ mem' \in [Processes -> MemoryType]
        /\ mem'[p] = [index |-> mem[p].index \cup {h}, best |-> h, sync |-> mem[p].sync]
        /\ \A q \in Processes \ {p} : mem'[q] = mem[q]
    <3> HIDE DEF h
    <3> QED BY <2>1, <2>4, FieldsTyped, MemoryFields
  <2>6. disk' = [index |-> disk.index \cup {h}, best |-> h, sync |-> disk.sync, key |-> disk.key]
    BY <2>1 DEF StartInv, StartTypeOK
  <2>7. StartTypeOK'
    BY <2>1, <2>4, <2>5, <2>6 DEF StartInv, StartTypeOK
  <2>8. DiskInv'
    <3>1. \A g \in 0 .. h : g = h \/ g \in 0 .. mem[p].best
      BY <2>3
    <3>2. \A g \in 0 .. h : g \in disk.index \cup {h}
      BY <2>3, <3>1 DEF StartInv, DiskInv
    <3> HIDE DEF h
    <3> QED BY <2>2, <2>6, <3>2 DEF StartInv, DiskInv
  <2>9. ProcessInv(p)'
    <3> HIDE DEF h
    <3> QED BY <2>1, <2>2, <2>5, <2>6 DEF StartInv, ProcessInv, Same, Before, Late
  <2> QED BY <2>1, <2>5, <2>7, <2>8, <2>9, OthersWait DEF Before
<1>2. CASE Start!AcceptCheckpoint(p)
  <2>1. /\ step[p] = "running" /\ step' = step /\ holder' = holder /\ stopping' = stopping
        /\ mem' = [mem EXCEPT ![p].sync = mem[p].best]
        /\ disk' = [disk EXCEPT !.sync = mem[p].best]
    BY <1>2 DEF Start!AcceptCheckpoint
  <2>2. mem[p].best \in disk.index
    BY <2>1 DEF StartInv, ProcessInv, DiskInv, Same
  <2>3. step' = [step EXCEPT ![p] = "running"]
    BY <2>1 DEF StartInv, StartTypeOK
  <2> QED BY <2>1, <2>2, <2>3, CheckpointKeeps
<1>3. CASE Start!RequestShutdown(p)
  <2>1. /\ stopping' = [stopping EXCEPT ![p] = TRUE]
        /\ step' = step /\ holder' = holder /\ mem' = mem /\ disk' = disk
    BY <1>3 DEF Start!RequestShutdown
  <2>2. stopping'[p] = TRUE /\ \A q \in Processes \ {p} : stopping'[q] = stopping[q]
    BY <2>1 DEF StartInv, StartTypeOK
  <2>3. StartTypeOK'
    BY <2>1 DEF StartInv, StartTypeOK
  <2>4. ProcessInv(p)'
    BY <2>1, <2>2 DEF StartInv, ProcessInv, Same
  <2>5. LockInv'
    BY <2>1 DEF StartInv, LockInv
  <2> QED BY <2>1, <2>2, <2>3, <2>4, <2>5, OneMoves
<1>4. CASE Start!Crash(p)
  BY <1>4, EndKeeps DEF Start!Crash
<1> QED BY <1>1, <1>2, <1>3, <1>4

LEMMA StartBegins ==
    ASSUME Init PROVE StartInv
<1>1. Start!StartInit
  BY DEF Init
<1> USE <1>1 DEF Start!StartInit, Start!NoMemory, Start!None
<1>2. [index |-> {}, best |-> -1, sync |-> -1] \in MemoryType
  BY DEF MemoryType
<1>3. mem \in [Processes -> MemoryType]
  BY <1>2
<1>4. StartTypeOK
  BY <1>3 DEF StartTypeOK, Steps, Before
<1>5. DiskInv /\ LockInv
  BY DEF DiskInv, LockInv, Before
<1>6. \A p \in Processes : ProcessInv(p)
  BY DEF ProcessInv, Late
<1> QED BY <1>4, <1>5, <1>6 DEF StartInv

(* A step of another part leaves the start alone. *)
LEMMA StartKept ==
    ASSUME DaemonModes \subseteq {FALSE}, StartInv, [Next]_vars PROVE StartInv'
<1>1. CASE StartStep /\ Start!Upgrade
  <2>1. UNCHANGED <<step, holder, stopping, mem, disk>>
    BY <1>1 DEF Start!Upgrade
  <2> QED BY <2>1 DEF StartInv, StartTypeOK, DiskInv, LockInv, ProcessInv, Same
<1>2. CASE StartStep /\ ~Start!Upgrade
  BY <1>2, OpeningKeeps, LoadingKeeps, VerifyKeeps, GenesisKeeps, CheckingKeeps, RunningKeeps
  DEF StartStep, Start!StartNext
<1>3. CASE ~StartStep
  <2>1. UNCHANGED startVars
    BY <1>3 DEF Next, ConnectionStep, AddressStep, StreamStep, AlertStep, PingStep, TimeStep,
       MinerStep, vars
  <2> QED BY <2>1 DEF startVars, StartInv, StartTypeOK, DiskInv, LockInv, ProcessInv, Same
<1> QED BY <1>1, <1>2, <1>3

(* Wherever a first or a later start is cut off, by a crash or a request to  *)
(* stop, and whichever release is started next, the next start can load what *)
(* is left, and the synchronised checkpoint of a running node is a block it  *)
(* has (main.cpp:2910-2960, db.cpp:2688).  The lock must outlive the start:  *)
(* the child of a daemon does not have it (init.cpp).                        *)
THEOREM StartsCompose ==
    ASSUME DaemonModes \subseteq {FALSE}
    PROVE  Spec => []StartsAgain
<1>1. Init => StartInv
  BY StartBegins
<1>2. StartInv /\ [Next]_vars => StartInv'
  BY StartKept
<1>3. StartInv => StartsAgain
  BY DEF StartInv, DiskInv, ProcessInv, Same, StartsAgain, Start!StartsAgain,
         Start!CheckpointIndexed, Start!None
<1> QED BY <1>1, <1>2, <1>3, PTL DEF Spec

-----------------------------------------------------------------------------
(* Mining: who has which key *)

Height == Nat \X Nat      \* a tip: number and height
BlockType == [parent : Height, key : Nat, height : Int]
Reservation == {r \in [index : Nat, key : Nat] : r.index # 0 => r.key # 0}
ThreadType == [at : {"off", "idle", "read", "search"}, prev : Height, block : BlockType,
               reserved : Reservation]

Bounded(S) == \E n \in Nat : \A i \in S : i <= n
PoolTyped(p) ==
    /\ p = [free |-> p.free, keys |-> p.keys, next |-> p.next, overwritten |-> p.overwritten]
    /\ p.free \subseteq Nat \ {0} /\ Bounded(p.free)
    /\ DOMAIN p.keys \subseteq Nat \ {0} /\ p.keys \in [DOMAIN p.keys -> Nat \ {0}]
    /\ p.next \in Nat \ {0}

MinerTypeOK ==
    /\ tip \in Height /\ tip[1] >= 1
    /\ miner \in [Threads -> ThreadType]
    /\ work = [prev |-> work.prev, current |-> work.current, blocks |-> work.blocks,
               freed |-> work.freed, roots |-> work.roots, reserved |-> work.reserved,
               making |-> work.making]
    /\ work.prev \in Height /\ work.blocks \in Seq(BlockType) /\ work.reserved \in Reservation
    /\ gbt \in Reservation
    /\ PoolTyped(pool) /\ mined \in Seq(Nat)

(* A block is built on a tip there was. *)
BlocksInv ==
    /\ \A t \in Threads : miner[t].block.parent[1] <= tip[1]
    /\ \A b \in DOMAIN work.blocks : work.blocks[b].parent[1] <= tip[1]

(* The entries of getwork and its current block lead to blocks it has. *)
WorkInv ==
    /\ work.freed \subseteq DOMAIN work.blocks
    /\ work.roots \subseteq DOMAIN work.blocks \ work.freed
    /\ ~work.making /\ work.prev # <<0, 0>> => work.current \in DOMAIN work.blocks \ work.freed

(* The keys a user may still have in a block of the chain: the one it has     *)
(* reserved and those of its blocks that extend the tip.                      *)
Users == ({"miner"} \X Threads) \cup {<<"work", 0>>, <<"gbt", 0>>}
ThreadKeys(t) ==
    {k \in Nat \ {0} : \/ k = miner[t].reserved.key
                       \/ miner[t].block.parent = tip /\ k = miner[t].block.key}
WorkKeys ==
    {k \in Nat \ {0} : \/ k = work.reserved.key
                       \/ \E b \in DOMAIN work.blocks :
                             work.blocks[b].parent = tip /\ k = work.blocks[b].key}
GbtKeys == {k \in Nat \ {0} : k = gbt.key}
Owned == [u \in Users |-> IF u[1] = "miner" THEN ThreadKeys(u[2])
                          ELSE IF u[1] = "work" THEN WorkKeys ELSE GbtKeys]
Reserved == [u \in Users |-> IF u[1] = "miner" THEN miner[u[2]].reserved
                             ELSE IF u[1] = "work" THEN work.reserved ELSE gbt]
Mined == {mined[i] : i \in DOMAIN mined} \ {0}
PoolKeys(p) == {p.keys[i] : i \in p.free}

(* A key is in one place: the pool, one user, the blocks that were mined, or  *)
(* not made yet.                                                              *)
Apart(K, keys, done, n) ==
    /\ \A u \in Users : K[u] \cap (keys \cup done) = {} /\ \A k \in K[u] : k < n
    /\ \A u, v \in Users : u # v => K[u] \cap K[v] = {}
    /\ keys \cap done = {} /\ \A k \in keys \cup done : k < n

(* And every entry of the pool, and every index that is reserved, has a       *)
(* record with a key of its own.                                              *)
Keys(K, R, p, done) ==
    /\ Apart(K, PoolKeys(p), done, p.next)
    /\ p.free \subseteq DOMAIN p.keys
    /\ \A i, j \in DOMAIN p.keys : p.keys[i] = p.keys[j] => i = j
    /\ \A i \in DOMAIN p.keys : p.keys[i] < p.next
    /\ \A u \in Users : R[u].index # 0 =>
         R[u].index \in DOMAIN p.keys /\ p.keys[R[u].index] = R[u].key

Distinct(m) == \A i, j \in DOMAIN m : m[i] = m[j] => i = j \/ m[i] = 0

KeysInv == ~pool.overwritten => Keys(Owned, Reserved, pool, Mined) /\ Distinct(mined)

MinerInv == MinerTypeOK /\ BlocksInv /\ WorkInv /\ KeysInv

(* Everyone but one keeps the reservation and gets no key; a reserved key is  *)
(* its holder's.                                                              *)
OnlyUser(K, R, L, S, u) == \A v \in Users \ {u} : L[v] \subseteq K[v] /\ S[v] = R[v]
Holders(K, R) == \A v \in Users : R[v].index # 0 => R[v].key \in K[v]

(* Records without one. *)
Without(keys, i) == [j \in DOMAIN keys \ {i} |-> keys[j]]

(* Users that only lose keys. *)
LEMMA KeysShrink ==
    ASSUME NEW K, NEW R, NEW p, NEW done, Keys(K, R, p, done),
           NEW L, \A v \in Users : L[v] \subseteq K[v],
           NEW S, \A v \in Users : S[v] = R[v] \/ S[v].index = 0
    PROVE  Keys(L, S, p, done)
<1>1. Apart(L, PoolKeys(p), done, p.next)
  BY DEF Keys, Apart
<1>2. \A u \in Users : S[u].index # 0 =>
        S[u].index \in DOMAIN p.keys /\ p.keys[S[u].index] = S[u].key
  BY DEF Keys
<1> QED BY <1>1, <1>2 DEF Keys

(* A key passes from the pool to a user. *)
LEMMA KeyToUser ==
    ASSUME NEW K, NEW R, NEW p, PoolTyped(p), NEW done, Keys(K, R, p, done),
           NEW i, i \in p.free, NEW q, q.free = p.free \ {i}, q.keys = p.keys, q.next = p.next,
           NEW L, NEW S, NEW u \in Users,
           OnlyUser(K, R, L, S, u),
           L[u] \subseteq K[u] \cup {p.keys[i]},
           S[u].index = i, S[u].key = p.keys[i]
    PROVE  Keys(L, S, q, done)
<1> USE DEF OnlyUser
<1> DEFINE k == p.keys[i]
<1>1. i \in DOMAIN p.keys /\ k \in PoolKeys(p)
  BY DEF Keys, PoolKeys
<1>2. PoolKeys(q) \subseteq PoolKeys(p) \ {k}
  BY <1>1 DEF PoolKeys, Keys
<1>3. k < p.next /\ k \notin done /\ \A v \in Users : k \notin K[v]
  BY <1>1 DEF Keys, Apart
<1> HIDE DEF k
<1>4. \A v \in Users : L[v] \cap (PoolKeys(q) \cup done) = {} /\ \A j \in L[v] : j < q.next
  <2>1. \A v \in Users : L[v] \subseteq K[v] \cup {k}
    BY DEF k
  <2> QED BY <1>2, <1>3, <2>1 DEF Keys, Apart
<1>5. \A v, w \in Users : v # w => L[v] \cap L[w] = {}
  BY <1>3 DEF Keys, Apart, k
<1>6. PoolKeys(q) \cap done = {} /\ \A j \in PoolKeys(q) \cup done : j < q.next
  BY <1>2 DEF Keys, Apart
<1>7. \A v \in Users : S[v].index # 0 =>
        S[v].index \in DOMAIN q.keys /\ q.keys[S[v].index] = S[v].key
  BY <1>1 DEF Keys
<1>8. Apart(L, PoolKeys(q), done, q.next)
  BY <1>4, <1>5, <1>6 DEF Apart
<1> QED BY <1>7, <1>8 DEF Keys

(* The index a user has reserved is not in the pool and no one else's. *)
LEMMA IndexApart ==
    ASSUME NEW K, NEW R, NEW p, NEW done, Keys(K, R, p, done),
           Holders(K, R),
           NEW u \in Users, R[u].index # 0
    PROVE  /\ R[u].index \notin p.free /\ R[u].index \in DOMAIN p.keys
           /\ p.keys[R[u].index] = R[u].key
           /\ \A v \in Users \ {u} : R[v].index # R[u].index
<1> USE DEF Holders
<1>1. R[u].index \in DOMAIN p.keys /\ p.keys[R[u].index] = R[u].key
  BY DEF Keys
<1>2. R[u].index \notin p.free
  <2>1. R[u].key \notin PoolKeys(p)
    BY DEF Keys, Apart
  <2> QED BY <1>1, <2>1 DEF PoolKeys
<1>3. ASSUME NEW v \in Users \ {u}, R[v].index = R[u].index
      PROVE  FALSE
  <2>1. R[v].key = R[u].key
    BY <1>1, <1>3 DEF Keys
  <2>2. R[v].key \in K[v] /\ R[u].key \in K[u]
    BY <1>3
  <2> QED BY <2>1, <2>2 DEF Keys, Apart
<1> QED BY <1>1, <1>2, <1>3

(* Keys a user gives up are in the pool again, without a record, or in the    *)
(* blocks that were mined.                                                    *)
LEMMA KeyToPool ==
    ASSUME NEW K, NEW R, NEW p, NEW done, Keys(K, R, p, done),
           Holders(K, R),
           NEW L, NEW S, NEW u \in Users,
           OnlyUser(K, R, L, S, u),
           L[u] = {}, S[u].index = 0,
           NEW q, q.free = p.free \cup ({R[u].index} \ {0}), q.keys = p.keys, q.next = p.next
    PROVE  Keys(L, S, q, done)
<1> USE DEF OnlyUser
<1>1. \A v \in Users : L[v] \subseteq K[v] /\ (S[v] = R[v] \/ S[v].index = 0)
  OBVIOUS
<1>2. CASE R[u].index = 0
  <2>1. q.free = p.free
    BY <1>2
  <2>2. Keys(L, S, p, done)
    BY <1>1, KeysShrink
  <2>3. PoolKeys(q) = PoolKeys(p)
    BY <2>1 DEF PoolKeys
  <2> QED BY <2>1, <2>2, <2>3 DEF Keys
<1>3. CASE R[u].index # 0
  <2> DEFINE k == R[u].key
  <2>1. /\ R[u].index \in DOMAIN p.keys /\ p.keys[R[u].index] = k /\ k \in K[u]
    BY <1>3, IndexApart DEF Holders
  <2>2. q.free = p.free \cup {R[u].index}
    BY <1>3
  <2>3. PoolKeys(q) = PoolKeys(p) \cup {k}
    BY <2>1, <2>2 DEF PoolKeys
  <2>4. k \notin done /\ k < p.next /\ \A v \in Users : k \notin L[v]
    BY <2>1 DEF Keys, Apart
  <2> HIDE DEF k
  <2>5. Apart(L, PoolKeys(q), done, q.next)
    BY <1>1, <2>3, <2>4 DEF Keys, Apart
  <2>6. q.free \subseteq DOMAIN q.keys
    BY <2>1, <2>2 DEF Keys
  <2>7. \A v \in Users : S[v].index # 0 =>
          S[v].index \in DOMAIN q.keys /\ q.keys[S[v].index] = S[v].key
    BY <1>1 DEF Keys
  <2> QED BY <2>5, <2>6, <2>7 DEF Keys
<1> QED BY <1>2, <1>3

LEMMA KeyErased ==
    ASSUME NEW K, NEW R, NEW p, NEW done, Keys(K, R, p, done), PoolTyped(p),
           Holders(K, R),
           NEW L, NEW S, NEW u \in Users,
           OnlyUser(K, R, L, S, u),
           L[u] \subseteq K[u], S[u].index = 0,
           NEW q, q.free = p.free, q.next = p.next,
           q.keys = Without(p.keys, R[u].index)
    PROVE  Keys(L, S, q, done)
<1> USE DEF OnlyUser, Without
<1>1. /\ p.free \subseteq DOMAIN q.keys
      /\ \A v \in Users : S[v].index # 0 => S[v].index # R[u].index /\ S[v] = R[v]
  <2>1. CASE R[u].index = 0
    <3>1. 0 \notin p.free
      BY DEF PoolTyped
    <3> QED BY <2>1, <3>1 DEF Keys
  <2>2. CASE R[u].index # 0
    <3>1. R[u].index \notin p.free /\ \A v \in Users \ {u} : R[v].index # R[u].index
      BY <2>2, IndexApart
    <3> QED BY <3>1 DEF Keys
  <2> QED BY <2>1, <2>2
<1>2. PoolKeys(q) = PoolKeys(p)
  BY <1>1 DEF PoolKeys
<1>3. Apart(L, PoolKeys(q), done, q.next)
  <2>1. \A v \in Users : L[v] \subseteq K[v]
    OBVIOUS
  <2> QED BY <1>2, <2>1 DEF Keys, Apart
<1>4. \A v \in Users : S[v].index # 0 =>
        S[v].index \in DOMAIN q.keys /\ q.keys[S[v].index] = S[v].key
  BY <1>1 DEF Keys
<1> QED BY <1>1, <1>3, <1>4 DEF Keys

LEMMA KeyToBlocks ==
    ASSUME NEW K, NEW R, NEW p, NEW done, Keys(K, R, p, done),
           NEW L, \A v \in Users : L[v] \subseteq K[v],
           NEW u \in Users, NEW k, k \in K[u], k \notin L[u]
    PROVE  Keys(L, R, p, done \cup {k})
<1>1. \A v \in Users : k \notin L[v]
  BY DEF Keys, Apart
<1>2. Apart(L, PoolKeys(p), done \cup {k}, p.next)
  BY <1>1 DEF Keys, Apart
<1> QED BY <1>2 DEF Keys

(* A refill of the pool: new entries after the largest there is. *)
LEMMA RefillTyped ==
    ASSUME PoolTyped(pool)
    PROVE  /\ Mining!First \in Nat \ {0} /\ Mining!Missing \in Nat
           /\ PoolTyped(Mining!TopUpKeyPool)
<1>1. PICK n \in Nat : \A i \in pool.free : i <= n
  BY DEF PoolTyped, Bounded
<1>2. pool.free \in SUBSET Nat /\ pool.free \subseteq Int
  BY DEF PoolTyped
<1>3. Mining!First \in Nat \ {0}
  <2>1. CASE pool.free = {}
    BY <2>1 DEF Mining!First
  <2>2. CASE pool.free # {}
    <3>1. Max(pool.free) \in pool.free
      BY <1>1, <1>2, <2>2, GreatestInteger
    <3>2. Mining!Max(pool.free) \in Nat
      BY <1>2, <3>1 DEF Mining!Max, Max
    <3> QED BY <2>2, <3>2 DEF Mining!First
  <2> QED BY <2>1, <2>2
<1>4. Mining!Missing \in Nat
  <2>1. IsFiniteSet(pool.free)
    BY <1>1, <1>2, FS_BoundedSetOfNaturals
  <2>2. Cardinality(pool.free) \in Nat
    BY <2>1, FS_CardinalityType
  <2>3. Mining!Cardinality(pool.free) \in Nat
    BY <2>2 DEF Mining!Cardinality, Cardinality
  <2> QED BY <2>3, NetworkAssumption DEF Mining!Missing, Mining!MinerAssumption
<1> DEFINE new == Mining!NewIndices
           first == Mining!First
           last == Mining!First + Mining!Missing
           key == [i \in DOMAIN pool.keys \cup new |->
                     IF i \in new THEN pool.next + (i - first) ELSE pool.keys[i]]
<1>5. new \subseteq Nat \ {0} /\ \A i \in new : first <= i /\ i <= last
  BY <1>3, <1>4 DEF Mining!NewIndices
<1>6. first \in Nat \ {0} /\ last \in Nat
  BY <1>3, <1>4
<1>7. Bounded(pool.free \cup new)
  <2>1. CASE n <= last
    <3>1. \A i \in pool.free \cup new : i <= last
      BY <1>1, <1>2, <1>5, <1>6, <2>1
    <3> QED BY <1>6, <3>1 DEF Bounded
  <2>2. CASE last <= n
    <3>1. \A i \in pool.free \cup new : i <= n
      BY <1>1, <1>2, <1>5, <1>6, <2>2
    <3> QED BY <1>1, <3>1 DEF Bounded
  <2> QED BY <1>1, <1>6, <2>1, <2>2
<1>8. Mining!TopUpKeyPool =
        [free |-> pool.free \cup new, keys |-> key, next |-> pool.next + Mining!Missing,
         overwritten |-> pool.overwritten \/ new \cap DOMAIN pool.keys # {}]
  BY DEF Mining!TopUpKeyPool
<1> HIDE DEF new, first, last
<1>9. key \in [DOMAIN pool.keys \cup new -> Nat \ {0}]
  <2> SUFFICES ASSUME NEW i \in DOMAIN pool.keys \cup new
               PROVE  key[i] \in Nat \ {0}
    OBVIOUS
  <2>1. CASE i \in new
    <3>1. i \in Nat /\ first <= i /\ pool.next \in Nat \ {0}
      BY <1>5, <2>1 DEF PoolTyped
    <3>2. pool.next + (i - first) \in Nat \ {0}
      BY <1>6, <3>1
    <3> QED BY <2>1, <3>2
  <2>2. CASE i \notin new
    BY <2>2 DEF PoolTyped
  <2> QED BY <2>1, <2>2
<1>10. DOMAIN key = DOMAIN pool.keys \cup new
  OBVIOUS
<1>11. pool.free \cup new \subseteq Nat \ {0} /\ DOMAIN key \subseteq Nat \ {0}
      /\ pool.next + Mining!Missing \in Nat \ {0}
  BY <1>4, <1>5 DEF PoolTyped
<1> HIDE DEF key
<1>12. PoolTyped(Mining!TopUpKeyPool)
  BY <1>7, <1>8, <1>9, <1>10, <1>11 DEF PoolTyped
<1> QED BY <1>3, <1>4, <1>12

LEMMA RefillKeeps ==
    ASSUME PoolTyped(pool), ~Mining!TopUpKeyPool.overwritten,
           NEW K, NEW R, NEW done, Keys(K, R, pool, done), done \subseteq Nat,
           \A u \in Users : K[u] \subseteq Nat
    PROVE  Keys(K, R, Mining!TopUpKeyPool, done)
<1> DEFINE new == Mining!NewIndices
           q == Mining!TopUpKeyPool
           made(i) == pool.next + (i - Mining!First)
<1>1. Mining!First \in Nat /\ Mining!Missing \in Nat /\ pool.next \in Nat
  BY RefillTyped DEF PoolTyped
<1>2. \A i \in new : i \in Nat /\ Mining!First <= i /\ i < Mining!First + Mining!Missing
  BY <1>1 DEF Mining!NewIndices
<1>3. /\ q.free = pool.free \cup new /\ q.next = pool.next + Mining!Missing
      /\ DOMAIN q.keys = DOMAIN pool.keys \cup new
      /\ \A i \in DOMAIN q.keys : q.keys[i] = IF i \in new THEN made(i) ELSE pool.keys[i]
      /\ new \cap DOMAIN pool.keys = {}
  BY DEF Mining!TopUpKeyPool
<1>4. \A i \in new : made(i) \in Nat /\ pool.next <= made(i) /\ made(i) < q.next
  BY <1>1, <1>2, <1>3
<1>5. \A i, j \in new : made(i) = made(j) => i = j
  BY <1>1, <1>2
<1> HIDE DEF made, q, new
<1>6. /\ \A i \in DOMAIN pool.keys : pool.keys[i] \in Nat /\ pool.keys[i] < pool.next
      /\ pool.next <= q.next /\ q.next \in Nat
  BY <1>1, <1>3 DEF PoolTyped, Keys
<1>7. \A i, j \in DOMAIN q.keys : q.keys[i] = q.keys[j] => i = j
  <2> SUFFICES ASSUME NEW i \in DOMAIN q.keys, NEW j \in DOMAIN q.keys, q.keys[i] = q.keys[j]
               PROVE  i = j
    OBVIOUS
  <2>1. CASE i \in new /\ j \in new
    BY <1>3, <1>5, <2>1
  <2>2. CASE i \notin new /\ j \notin new
    BY <1>3, <2>2 DEF Keys
  <2>3. CASE i \in new /\ j \notin new
    <3>1. q.keys[i] = made(i) /\ q.keys[j] = pool.keys[j] /\ j \in DOMAIN pool.keys
      BY <1>3, <2>3
    <3>2. made(i) \in Nat /\ pool.next <= made(i)
      BY <1>4, <2>3
    <3>3. pool.keys[j] \in Nat /\ pool.keys[j] < pool.next
      BY <1>6, <3>1
    <3>4. made(i) # pool.keys[j]
      BY <1>1, <3>2, <3>3
    <3> QED BY <3>1, <3>4
  <2>4. CASE i \notin new /\ j \in new
    <3>1. q.keys[j] = made(j) /\ q.keys[i] = pool.keys[i] /\ i \in DOMAIN pool.keys
      BY <1>3, <2>4
    <3>2. made(j) \in Nat /\ pool.next <= made(j)
      BY <1>4, <2>4
    <3>3. pool.keys[i] \in Nat /\ pool.keys[i] < pool.next
      BY <1>6, <3>1
    <3>4. made(j) # pool.keys[i]
      BY <1>1, <3>2, <3>3
    <3> QED BY <3>1, <3>4
  <2> QED BY <2>1, <2>2, <2>3, <2>4
<1>8. \A i \in DOMAIN q.keys : q.keys[i] < q.next
  <2> TAKE i \in DOMAIN q.keys
  <2>1. CASE i \in new
    BY <1>3, <1>4, <2>1
  <2>2. CASE i \notin new
    BY <1>1, <1>3, <1>6, <2>2
  <2> QED BY <2>1, <2>2
<1>9. \A k \in PoolKeys(q) : k \in PoolKeys(pool) \/ (k \in Nat /\ pool.next <= k /\ k < q.next)
  BY <1>3, <1>4 DEF PoolKeys, Keys
<1>10. Apart(K, PoolKeys(q), done, q.next)
  <2>1. \A u \in Users : \A k \in K[u] : k \in Nat /\ k < pool.next /\ k < q.next
    <3> SUFFICES ASSUME NEW u \in Users, NEW k \in K[u]
                 PROVE  k \in Nat /\ k < pool.next /\ k < q.next
      OBVIOUS
    <3>1. k \in Nat /\ k < pool.next
      BY DEF Keys, Apart
    <3> QED BY <1>1, <1>6, <3>1
  <2>2. \A k \in done : k \in Nat /\ k < pool.next /\ k < q.next
    <3> TAKE k \in done
    <3>1. k \in Nat /\ k < pool.next
      BY DEF Keys, Apart
    <3> QED BY <1>1, <1>6, <3>1
  <2>3. \A k \in PoolKeys(pool) : k < q.next
    BY <1>1, <1>6 DEF PoolKeys, Keys
  <2>4. \A u \in Users : K[u] \cap (PoolKeys(q) \cup done) = {}
    BY <1>1, <1>9, <2>1 DEF Keys, Apart
  <2>5. PoolKeys(q) \cap done = {}
    BY <1>1, <1>9, <2>2 DEF Keys, Apart
  <2>6. \A k \in PoolKeys(q) \cup done : k < q.next
    BY <1>9, <2>2, <2>3
  <2> QED BY <2>1, <2>4, <2>5, <2>6 DEF Keys, Apart
<1>11. /\ q.free \subseteq DOMAIN q.keys
       /\ \A u \in Users : R[u].index # 0 =>
            R[u].index \in DOMAIN q.keys /\ q.keys[R[u].index] = R[u].key
  BY <1>3 DEF Keys
<1> QED BY <1>7, <1>8, <1>10, <1>11 DEF Keys, q

(* The pools a reservation may be taken from. *)
LEMMA PoolsTyped ==
    ASSUME PoolTyped(pool), NEW p \in Mining!Pools
    PROVE  /\ PoolTyped(p) /\ p \in {pool, Mining!TopUpKeyPool}
           /\ ~p.overwritten => ~pool.overwritten
           /\ p.free # {} => Mining!Min(p.free) \in p.free \cap DOMAIN p.keys
<1>1. p \in {pool, Mining!TopUpKeyPool} /\ (p.free # {} => Mining!Min(p.free) \in DOMAIN p.keys)
  BY DEF Mining!Pools
<1>2. PoolTyped(p)
  BY <1>1, RefillTyped
<1>3. ~p.overwritten => ~pool.overwritten
  <2>1. Mining!TopUpKeyPool.overwritten =
          (pool.overwritten \/ Mining!NewIndices \cap DOMAIN pool.keys # {})
    BY DEF Mining!TopUpKeyPool
  <2> QED BY <1>1, <2>1
<1>4. p.free # {} => Mining!Min(p.free) \in p.free
  <2>1. p.free \subseteq Nat
    BY <1>2 DEF PoolTyped
  <2>2. p.free # {} => Min(p.free) \in p.free
    BY <2>1, LeastInteger
  <2> QED BY <2>2 DEF Mining!Min, Min
<1> QED BY <1>1, <1>2, <1>3, <1>4

(* What a user has reserved when it needs a key, and the pool then. *)
LEMMA Reserves ==
    ASSUME PoolTyped(pool), NEW held \in Reservation, NEW g \in Mining!GetReservedKey(held)
    PROVE  /\ g.reserved \in Reservation /\ PoolTyped(g.pool)
           /\ ~g.pool.overwritten => ~pool.overwritten
           /\ \/ held.index # 0 /\ g.reserved = held /\ g.pool = pool
              \/ /\ held.index = 0
                 /\ \E p \in Mining!Pools :
                      /\ g.pool.keys = p.keys /\ g.pool.next = p.next
                      /\ g.pool.overwritten = p.overwritten
                      /\ \/ /\ g.reserved.index \in p.free \cap DOMAIN p.keys
                            /\ g.reserved.key = p.keys[g.reserved.index]
                            /\ g.pool.free = p.free \ {g.reserved.index}
                         \/ /\ g.reserved = [index |-> 0, key |-> 0]
                            /\ g.pool.free = p.free
<1>1. CASE held.index # 0
  <2>1. g = [reserved |-> held, pool |-> pool]
    BY <1>1 DEF Mining!GetReservedKey
  <2> QED BY <1>1, <2>1
<1>2. CASE held.index = 0
  <2>1. PICK p \in Mining!Pools :
          g = [reserved |-> Mining!OldestKey(p),
               pool |-> [p EXCEPT !.free = @ \ {Mining!OldestKey(p).index}]]
    BY <1>2 DEF Mining!GetReservedKey
  <2> DEFINE r == Mining!OldestKey(p)
  <2>2. PoolTyped(p) /\ (~p.overwritten => ~pool.overwritten)
        /\ (p.free # {} => Mining!Min(p.free) \in p.free \cap DOMAIN p.keys)
    BY PoolsTyped
  <2>3. \/ /\ r.index \in p.free \cap DOMAIN p.keys /\ r.key = p.keys[r.index]
           /\ r.index \in Nat \ {0} /\ r.key \in Nat \ {0}
           /\ r = [index |-> r.index, key |-> r.key]
        \/ r = [index |-> 0, key |-> 0] /\ p.free = {}
    <3>1. CASE p.free = {}
      BY <3>1 DEF Mining!OldestKey, Mining!NoKey
    <3>2. CASE p.free # {}
      <4>1. r = [index |-> Mining!Min(p.free), key |-> p.keys[Mining!Min(p.free)]]
        BY <3>2 DEF Mining!OldestKey
      <4>2. Mining!Min(p.free) \in Nat \ {0} /\ p.keys[Mining!Min(p.free)] \in Nat \ {0}
        BY <2>2, <3>2 DEF PoolTyped
      <4> QED BY <2>2, <3>2, <4>1, <4>2
    <3> QED BY <3>1, <3>2
  <2> HIDE DEF r
  <2>4. r \in Reservation
    BY <2>3 DEF Reservation
  <2>5. /\ g.reserved = r
        /\ g.pool = [free |-> p.free \ {r.index}, keys |-> p.keys, next |-> p.next,
                     overwritten |-> p.overwritten]
    BY <2>1, <2>2 DEF PoolTyped, r
  <2>6. PoolTyped(g.pool)
    BY <2>2, <2>5 DEF PoolTyped, Bounded
  <2>7. p.free = {} => g.pool.free = p.free
    BY <2>5
  <2> QED BY <1>2, <2>2, <2>3, <2>4, <2>5, <2>6, <2>7
<1> QED BY <1>1, <1>2

LEMMA KeyTaken ==
    ASSUME PoolTyped(pool), NEW held \in Reservation, NEW g \in Mining!GetReservedKey(held),
           ~g.pool.overwritten,
           NEW K, NEW R, NEW done, Keys(K, R, pool, done), done \subseteq Nat,
           \A v \in Users : K[v] \subseteq Nat,
           NEW L, NEW S, NEW u \in Users,
           OnlyUser(K, R, L, S, u),
           L[u] \subseteq K[u] \cup ({g.reserved.key} \ {0}), S[u] = g.reserved,
           held.index # 0 => R[u] = held /\ held.key \in K[u]
    PROVE  Keys(L, S, g.pool, done)
<1>1. CASE held.index # 0 /\ g.reserved = held /\ g.pool = pool
  <2>1. \A v \in Users : L[v] \subseteq K[v] /\ S[v] = R[v]
    BY <1>1 DEF OnlyUser
  <2> QED BY <1>1, <2>1, KeysShrink
<1>2. CASE held.index = 0
  <2>1. PICK p \in Mining!Pools :
          /\ g.pool.keys = p.keys /\ g.pool.next = p.next /\ g.pool.overwritten = p.overwritten
          /\ \/ /\ g.reserved.index \in p.free \cap DOMAIN p.keys
                /\ g.reserved.key = p.keys[g.reserved.index]
                /\ g.pool.free = p.free \ {g.reserved.index}
             \/ g.reserved = [index |-> 0, key |-> 0] /\ g.pool.free = p.free
    BY <1>2, Reserves
  <2>2. PoolTyped(p) /\ p \in {pool, Mining!TopUpKeyPool}
    BY PoolsTyped
  <2>3. Keys(K, R, p, done)
    <3>1. CASE p = pool
      BY <3>1
    <3>2. CASE p = Mining!TopUpKeyPool
      <4>1. ~Mining!TopUpKeyPool.overwritten
        BY <2>1, <3>2
      <4> QED BY <3>2, <4>1, RefillKeeps
    <3> QED BY <2>2, <3>1, <3>2
  <2>4. CASE /\ g.reserved.index \in p.free /\ g.reserved.key = p.keys[g.reserved.index]
             /\ g.pool.free = p.free \ {g.reserved.index}
    <3> DEFINE i == g.reserved.index
    <3>1. L[u] \subseteq K[u] \cup {p.keys[i]} /\ S[u].index = i /\ S[u].key = p.keys[i]
      BY <2>4
    <3>2. /\ i \in p.free /\ g.pool.free = p.free \ {i}
          /\ g.pool.keys = p.keys /\ g.pool.next = p.next
      BY <2>1, <2>4
    <3> HIDE DEF i
    <3> QED BY <2>2, <2>3, <3>1, <3>2, KeyToUser
  <2>5. CASE g.reserved = [index |-> 0, key |-> 0] /\ g.pool.free = p.free
    <3>1. g.reserved.index = 0 /\ g.reserved.key = 0
      BY <2>5
    <3>2. \A v \in Users : L[v] \subseteq K[v] /\ (S[v] = R[v] \/ S[v].index = 0)
      BY <3>1 DEF OnlyUser
    <3>3. Keys(L, S, p, done)
      BY <2>3, <3>2, KeysShrink
    <3>4. PoolKeys(g.pool) = PoolKeys(p)
      BY <2>1, <2>5 DEF PoolKeys
    <3> QED BY <2>1, <2>5, <3>3, <3>4 DEF Keys
  <2> QED BY <2>1, <2>4, <2>5
<1> QED BY <1>1, <1>2, Reserves

(* A key leaves the pool and the records for an address. *)
LEMMA KeyGiven ==
    ASSUME NEW K, NEW R, NEW p, NEW done, Keys(K, R, p, done),
           Holders(K, R),
           NEW i, i \in p.free, NEW q, q.free = p.free \ {i}, q.next = p.next,
           q.keys = Without(p.keys, i)
    PROVE  Keys(K, R, q, done)
<1> USE DEF Without
<1>1. i \in DOMAIN p.keys /\ p.keys[i] \in PoolKeys(p)
  BY DEF Keys, PoolKeys
<1>2. PoolKeys(q) \subseteq PoolKeys(p)
  BY DEF Keys, PoolKeys
<1>3. Apart(K, PoolKeys(q), done, q.next)
  BY <1>2 DEF Keys, Apart
<1>4. \A v \in Users : R[v].index # 0 =>
        R[v].index \in DOMAIN q.keys /\ q.keys[R[v].index] = R[v].key
  <2> SUFFICES ASSUME NEW v \in Users, R[v].index # 0
               PROVE  R[v].index \in DOMAIN q.keys /\ q.keys[R[v].index] = R[v].key
    OBVIOUS
  <2>1. R[v].index \in DOMAIN p.keys /\ p.keys[R[v].index] = R[v].key /\ R[v].key \in K[v]
    BY DEF Keys, Holders
  <2>2. K[v] \cap PoolKeys(p) = {}
    BY DEF Keys, Apart
  <2>3. R[v].index # i
    <3>1. R[v].index = i => p.keys[i] \in K[v] \cap PoolKeys(p)
      BY <1>1, <2>1
    <3> QED BY <2>2, <3>1
  <2> QED BY <2>1, <2>3
<1> QED BY <1>3, <1>4 DEF Keys

LEMMA ErasedTyped ==
    ASSUME NEW p, PoolTyped(p), NEW held
    PROVE  /\ PoolTyped(Mining!Erased(p, held))
           /\ Mining!Erased(p, held).free = p.free /\ Mining!Erased(p, held).next = p.next
           /\ Mining!Erased(p, held).overwritten = p.overwritten
           /\ Mining!Erased(p, held).keys = Without(p.keys, held.index)
<1> DEFINE keys == [i \in DOMAIN p.keys \ {held.index} |-> p.keys[i]]
<1>1. DOMAIN keys \subseteq Nat \ {0} /\ keys \in [DOMAIN keys -> Nat \ {0}]
  BY DEF PoolTyped
<1>2. Mining!Erased(p, held) =
        [free |-> p.free, keys |-> keys, next |-> p.next, overwritten |-> p.overwritten]
  BY DEF Mining!Erased, PoolTyped
<1> HIDE DEF keys
<1>3. PoolTyped(Mining!Erased(p, held))
  BY <1>1, <1>2 DEF PoolTyped
<1> QED BY <1>2, <1>3 DEF keys, Without

(* The users of a key. *)
LEMMA OwnedFacts ==
    /\ \A t \in Threads : /\ <<"miner", t>> \in Users /\ Owned[<<"miner", t>>] = ThreadKeys(t)
                          /\ Reserved[<<"miner", t>>] = miner[t].reserved
    /\ <<"work", 0>> \in Users /\ Owned[<<"work", 0>>] = WorkKeys
    /\ Reserved[<<"work", 0>>] = work.reserved
    /\ <<"gbt", 0>> \in Users /\ Owned[<<"gbt", 0>>] = GbtKeys /\ Reserved[<<"gbt", 0>>] = gbt
    /\ \A u \in Users : \/ \E t \in Threads : u = <<"miner", t>>
                        \/ u = <<"work", 0>> \/ u = <<"gbt", 0>>
    /\ \A u \in Users : Owned[u] \in SUBSET Nat
BY DEF Users, Owned, Reserved, ThreadKeys, WorkKeys, GbtKeys

LEMMA HeldOwned ==
    ASSUME MinerTypeOK
    PROVE  /\ \A u \in Users : /\ Reserved[u] \in Reservation
                               /\ Reserved[u].index # 0 => Reserved[u].key \in Owned[u]
           /\ Mined \subseteq Nat /\ (\A u \in Users : Owned[u] \subseteq Nat)
           /\ Holders(Owned, Reserved)
<1>1. ASSUME NEW u \in Users
      PROVE  Reserved[u] \in Reservation /\ (Reserved[u].index # 0 => Reserved[u].key \in Owned[u])
  <2>1. CASE \E t \in Threads : u = <<"miner", t>>
    <3>1. PICK t \in Threads : u = <<"miner", t>>
      BY <2>1
    <3>2. miner[t].reserved \in Reservation
      BY DEF MinerTypeOK, ThreadType
    <3>3. miner[t].reserved.index # 0 => miner[t].reserved.key \in ThreadKeys(t)
      BY <3>2 DEF Reservation, ThreadKeys
    <3> QED BY <3>1, <3>2, <3>3, OwnedFacts
  <2>2. CASE u = <<"work", 0>>
    <3>1. work.reserved \in Reservation
      BY DEF MinerTypeOK
    <3>2. work.reserved.index # 0 => work.reserved.key \in WorkKeys
      BY <3>1 DEF Reservation, WorkKeys
    <3> QED BY <2>2, <3>1, <3>2, OwnedFacts
  <2>3. CASE u = <<"gbt", 0>>
    <3>1. gbt \in Reservation
      BY DEF MinerTypeOK
    <3>2. gbt.index # 0 => gbt.key \in GbtKeys
      BY <3>1 DEF Reservation, GbtKeys
    <3> QED BY <2>3, <3>1, <3>2, OwnedFacts
  <2> QED BY <2>1, <2>2, <2>3, OwnedFacts
<1>2. Mined \subseteq Nat
  BY DEF MinerTypeOK, Mined
<1> QED BY <1>1, <1>2, OwnedFacts DEF Holders

Others(u) == OnlyUser(Owned, Reserved, Owned', Reserved', u)

LEMMA OthersKeep ==
    ASSUME NEW u \in Users,
           \A s \in Threads : u # <<"miner", s>> =>
             ThreadKeys(s)' \subseteq ThreadKeys(s) /\ miner'[s].reserved = miner[s].reserved,
           u # <<"work", 0>> => WorkKeys' \subseteq WorkKeys /\ work'.reserved = work.reserved,
           u # <<"gbt", 0>> => gbt' = gbt
    PROVE  Others(u)
<1> SUFFICES ASSUME NEW v \in Users \ {u}
             PROVE  Owned'[v] \subseteq Owned[v] /\ Reserved'[v] = Reserved[v]
  BY DEF Others, OnlyUser
<1>1. CASE \E s \in Threads : v = <<"miner", s>>
  <2>1. PICK s \in Threads : v = <<"miner", s>>
    BY <1>1
  <2>2. /\ Owned[v] = ThreadKeys(s) /\ Owned'[v] = ThreadKeys(s)'
        /\ Reserved[v] = miner[s].reserved /\ Reserved'[v] = miner'[s].reserved
    BY <2>1 DEF Owned, Reserved, Users
  <2> QED BY <2>1, <2>2
<1>2. CASE v = <<"work", 0>>
  <2>1. /\ Owned[v] = WorkKeys /\ Owned'[v] = WorkKeys'
        /\ Reserved[v] = work.reserved /\ Reserved'[v] = work'.reserved
    BY <1>2 DEF Owned, Reserved, Users
  <2> QED BY <1>2, <2>1
<1>3. CASE v = <<"gbt", 0>>
  <2>1. /\ Owned[v] = GbtKeys /\ Owned'[v] = GbtKeys'
        /\ Reserved[v] = gbt /\ Reserved'[v] = gbt'
    BY <1>3 DEF Owned, Reserved, Users
  <2> QED BY <1>3, <2>1 DEF GbtKeys
<1> QED BY <1>1, <1>2, <1>3 DEF Users

(* Users that only lose keys. *)
LEMMA AllShrink ==
    ASSUME KeysInv, pool' = pool, mined' = mined,
           \A s \in Threads :
             /\ ThreadKeys(s)' \subseteq ThreadKeys(s)
             /\ miner'[s].reserved = miner[s].reserved \/ miner'[s].reserved.index = 0,
           WorkKeys' \subseteq WorkKeys, work'.reserved = work.reserved, gbt' = gbt
    PROVE  KeysInv'
<1> SUFFICES ASSUME ~pool.overwritten
             PROVE  Keys(Owned, Reserved, pool, Mined)' /\ Distinct(mined)
  BY DEF KeysInv, Distinct
<1>1. ASSUME NEW v \in Users
      PROVE  /\ Owned'[v] \subseteq Owned[v]
             /\ Reserved'[v] = Reserved[v] \/ Reserved'[v].index = 0
  <2>1. CASE \E s \in Threads : v = <<"miner", s>>
    <3>1. PICK s \in Threads : v = <<"miner", s>>
      BY <2>1
    <3>2. /\ Owned[v] = ThreadKeys(s) /\ Owned'[v] = ThreadKeys(s)'
          /\ Reserved[v] = miner[s].reserved /\ Reserved'[v] = miner'[s].reserved
      BY <3>1 DEF Owned, Reserved, Users
    <3> QED BY <3>1, <3>2
  <2>2. CASE v = <<"work", 0>>
    BY <2>2 DEF Owned, Reserved, Users
  <2>3. CASE v = <<"gbt", 0>>
    BY <2>3 DEF Owned, Reserved, Users, GbtKeys
  <2> QED BY <2>1, <2>2, <2>3 DEF Users
<1>2. Keys(Owned, Reserved, pool, Mined) /\ Distinct(mined) /\ Mined' = Mined
  BY DEF KeysInv, Mined
<1>3. Keys(Owned', Reserved', pool, Mined)
  BY <1>1, <1>2, KeysShrink
<1> QED BY <1>2, <1>3 DEF Keys, Apart, PoolKeys

(* One user takes a key if it has none. *)
LEMMA TakesKey ==
    ASSUME MinerInv, NEW u \in Users, Others(u), NEW g \in Mining!GetReservedKey(Reserved[u]),
           pool' = g.pool, mined' = mined,
           Owned'[u] \subseteq Owned[u] \cup ({g.reserved.key} \ {0}), Reserved'[u] = g.reserved
    PROVE  KeysInv'
<1>1. PoolTyped(pool) /\ Reserved[u] \in Reservation /\ Mined \subseteq Nat
      /\ \A v \in Users : /\ Owned[v] \subseteq Nat
                          /\ Reserved[v].index # 0 => Reserved[v].key \in Owned[v]
  BY HeldOwned DEF MinerInv, MinerTypeOK
<1>2. Distinct(mined)' <=> Distinct(mined)
  BY DEF Distinct
<1> SUFFICES ASSUME ~g.pool.overwritten
             PROVE  Keys(Owned, Reserved, pool, Mined)' /\ Distinct(mined)
  BY <1>2 DEF KeysInv
<1>3. ~pool.overwritten
  BY <1>1, Reserves
<1>4. Keys(Owned, Reserved, pool, Mined) /\ Distinct(mined) /\ Mined' = Mined
  BY <1>3 DEF MinerInv, KeysInv, Mined
<1>5. Keys(Owned', Reserved', g.pool, Mined)
  <2> DEFINE held == Reserved[u]
  <2>1. held \in Reservation /\ g \in Mining!GetReservedKey(held)
        /\ (held.index # 0 => Reserved[u] = held /\ held.key \in Owned[u])
    BY <1>1
  <2>2. OnlyUser(Owned, Reserved, Owned', Reserved', u)
    BY DEF Others
  <2> HIDE DEF held
  <2> QED BY <1>1, <1>4, <2>1, <2>2, KeyTaken
<1> QED BY <1>4, <1>5 DEF Keys, Apart, PoolKeys

(* A user keeps its key and the block that pays it is refused or becomes part *)
(* of the chain; the default key is no one's. *)
LEMMA KeyPaid ==
    ASSUME MinerInv, NEW u \in Users, Others(u), pool' = Mining!Erased(pool, Reserved[u]),
           Owned'[u] \subseteq Owned[u], Reserved'[u].index = 0,
           NEW k \in Nat,
           \/ mined' = mined
           \/ mined' = Append(mined, k) /\ (k = 0 \/ (k \in Owned[u] /\ k \notin Owned'[u]))
    PROVE  KeysInv' /\ mined' \in Seq(Nat) /\ PoolTyped(pool')
<1>1. PoolTyped(pool) /\ mined \in Seq(Nat) /\ Holders(Owned, Reserved)
  BY HeldOwned DEF MinerInv, MinerTypeOK
<1>2. /\ PoolTyped(pool') /\ pool'.free = pool.free /\ pool'.next = pool.next
      /\ pool'.overwritten = pool.overwritten
      /\ pool'.keys = Without(pool.keys, Reserved[u].index)
  BY <1>1, ErasedTyped
<1>3. mined' \in Seq(Nat)
  BY <1>1
<1>4. ASSUME ~pool.overwritten
      PROVE  Keys(Owned, Reserved, pool, Mined)' /\ Distinct(mined)'
  <2>1. Keys(Owned, Reserved, pool, Mined) /\ Distinct(mined)
    BY <1>4 DEF MinerInv, KeysInv
  <2>2. Keys(Owned, Reserved', pool', Mined)
    <3>1. OnlyUser(Owned, Reserved, Owned, Reserved', u) /\ Owned[u] \subseteq Owned[u]
      BY DEF Others, OnlyUser
    <3> QED BY <1>1, <1>2, <2>1, <3>1, KeyErased
  <2>3. \A v \in Users : Owned'[v] \subseteq Owned[v]
    BY DEF Others, OnlyUser
  <2>4. Keys(Owned', Reserved', pool', Mined)
    BY <2>2, <2>3, KeysShrink
  <2>5. CASE mined' = mined
    <3>1. Mined' = Mined
      BY <2>5 DEF Mined
    <3>2. Distinct(mined)'
      BY <2>1, <2>5 DEF Distinct
    <3> QED BY <2>4, <3>1, <3>2 DEF Keys, Apart, PoolKeys
  <2>6. CASE mined' = Append(mined, k)
    <3>1. /\ DOMAIN mined' = DOMAIN mined \cup {Len(mined) + 1}
          /\ \A i \in DOMAIN mined : mined'[i] = mined[i] /\ i # Len(mined) + 1
          /\ mined'[Len(mined) + 1] = k
      BY <1>1, <2>6
    <3>2. Mined' = (Mined \cup {k}) \ {0}
      BY <3>1 DEF Mined
    <3>3. CASE k = 0
      <4>1. Mined' = Mined
        BY <3>2, <3>3 DEF Mined
      <4>2. Distinct(mined)'
        BY <2>1, <3>1, <3>3 DEF Distinct
      <4> QED BY <2>4, <4>1, <4>2 DEF Keys, Apart, PoolKeys
    <3>4. CASE k # 0
      <4>1. k \in Owned[u] /\ k \notin Owned'[u]
        BY <1>1, <2>6, <3>1, <3>4
      <4>2. Mined' = Mined \cup {k}
        BY <3>2, <3>4 DEF Mined
      <4>3. Keys(Owned', Reserved', pool', Mined \cup {k})
        BY <2>2, <2>3, <4>1, KeyToBlocks
      <4>4. \A i \in DOMAIN mined : mined[i] # k
        <5>1. k \notin Mined
          BY <2>1, <4>1 DEF Keys, Apart
        <5> QED BY <3>4, <5>1 DEF Mined
      <4>5. Distinct(mined)'
        BY <2>1, <3>1, <4>4 DEF Distinct
      <4> QED BY <4>2, <4>3, <4>5 DEF Keys, Apart, PoolKeys
    <3> QED BY <3>3, <3>4
  <2> QED BY <2>5, <2>6
<1> QED BY <1>2, <1>3, <1>4 DEF KeysInv

TipStays == tip' = tip \/ (tip' \in Height /\ tip'[1] = tip[1] + 1)

(* The keys of a user that keeps its blocks while the tip stays or moves. *)
LEMMA SameThread ==
    ASSUME MinerInv, NEW t \in Threads, TipStays,
           miner'[t].reserved \in {miner[t].reserved, [index |-> 0, key |-> 0]},
           miner'[t].block = miner[t].block
    PROVE  ThreadKeys(t)' \subseteq ThreadKeys(t)
<1>1. miner'[t].reserved.key \in {miner[t].reserved.key, 0}
  OBVIOUS
<1>2. CASE tip' = tip
  BY <1>1, <1>2 DEF ThreadKeys
<1>3. CASE tip' \in Height /\ tip'[1] = tip[1] + 1
  <2>1. miner[t].block.parent[1] <= tip[1] /\ miner[t].block.parent[1] \in Nat /\ tip[1] \in Nat
    BY DEF MinerInv, MinerTypeOK, BlocksInv, ThreadType, BlockType, Height
  <2>2. miner'[t].block.parent # tip'
    BY <1>3, <2>1
  <2> QED BY <1>1, <2>2 DEF ThreadKeys
<1> QED BY <1>2, <1>3 DEF TipStays

LEMMA BlocksTyped ==
    ASSUME MinerInv, NEW b \in DOMAIN work.blocks
    PROVE  /\ work.blocks[b] \in BlockType /\ work.blocks[b].parent[1] \in Nat
           /\ work.blocks[b].key \in Nat
<1>1. work.blocks \in Seq(BlockType)
  BY DEF MinerInv, MinerTypeOK
<1>2. work.blocks[b] \in BlockType
  BY <1>1
<1> QED BY <1>2 DEF BlockType, Height

(* Blocks of getwork that are as they were, but for the height, or gone. *)
SameBlocks ==
    /\ DOMAIN work'.blocks = DOMAIN work.blocks
    /\ \A b \in DOMAIN work.blocks :
         \/ work'.blocks[b].parent = <<0, 0>>
         \/ /\ work'.blocks[b].parent = work.blocks[b].parent
            /\ work'.blocks[b].key = work.blocks[b].key

LEMMA SameWork ==
    ASSUME MinerInv, TipStays, SameBlocks,
           work'.reserved \in {work.reserved, [index |-> 0, key |-> 0]}
    PROVE  WorkKeys' \subseteq WorkKeys
<1>1. work'.reserved.key \in {work.reserved.key, 0}
  OBVIOUS
<1>2. \A b \in DOMAIN work.blocks : work'.blocks[b].parent # tip' \/
        (tip' = tip /\ work'.blocks[b].parent = work.blocks[b].parent
         /\ work'.blocks[b].key = work.blocks[b].key)
  <2> SUFFICES ASSUME NEW b \in DOMAIN work.blocks, work'.blocks[b].parent = tip'
               PROVE  /\ tip' = tip /\ work'.blocks[b].parent = work.blocks[b].parent
                      /\ work'.blocks[b].key = work.blocks[b].key
    OBVIOUS
  <2>1. tip \in Height /\ tip[1] >= 1 /\ tip[1] \in Nat
    BY DEF MinerInv, MinerTypeOK, Height
  <2>2. tip' # <<0, 0>>
    BY <2>1 DEF TipStays
  <2>3. /\ work'.blocks[b].parent = work.blocks[b].parent
        /\ work'.blocks[b].key = work.blocks[b].key
    BY <2>2 DEF SameBlocks
  <2>4. work.blocks[b].parent[1] <= tip[1]
    BY DEF MinerInv, BlocksInv
  <2>5. tip' = tip
    BY <2>1, <2>3, <2>4 DEF TipStays
  <2> QED BY <2>3, <2>5
<1> QED BY <1>1, <1>2 DEF WorkKeys, SameBlocks

LEMMA TipMoves ==
    ASSUME MinerInv, Mining!OthersBlock \/ Mining!SubmitBlock
    PROVE  MinerInv'
<1>1. TipStays
  BY DEF Mining!OthersBlock, Mining!SubmitBlock, Mining!Advance, MinerInv, MinerTypeOK, Height,
         TipStays
<1>2. miner' = miner /\ work' = work /\ gbt' = gbt /\ pool' = pool /\ mined' = mined
  BY DEF Mining!OthersBlock, Mining!SubmitBlock
<1>3. tip' \in Height /\ tip'[1] >= tip[1] /\ tip[1] \in Nat /\ tip'[1] \in Nat
  BY <1>1 DEF MinerInv, MinerTypeOK, Height, TipStays
<1>4. MinerTypeOK'
  BY <1>2, <1>3 DEF MinerInv, MinerTypeOK, PoolTyped
<1>5. BlocksInv'
  <2>1. \A t \in Threads : miner[t].block.parent[1] \in Nat
    BY DEF MinerInv, MinerTypeOK, ThreadType, BlockType, Height
  <2>2. \A b \in DOMAIN work.blocks : work.blocks[b].parent[1] \in Nat
    BY BlocksTyped
  <2> QED BY <1>2, <1>3, <2>1, <2>2 DEF MinerInv, BlocksInv
<1>6. WorkInv'
  BY <1>2 DEF MinerInv, WorkInv
<1>7. KeysInv'
  <2>1. \A s \in Threads : ThreadKeys(s)' \subseteq ThreadKeys(s)
    BY <1>1, <1>2, SameThread
  <2>2. WorkKeys' \subseteq WorkKeys
    BY <1>1, <1>2, SameWork DEF SameBlocks
  <2> QED BY <1>2, <2>1, <2>2, AllShrink DEF MinerInv
<1> QED BY <1>4, <1>5, <1>6, <1>7 DEF MinerInv

(* A thread's step that keeps its keys or drops some. *)
LEMMA ThreadShrinks ==
    ASSUME MinerInv, NEW t \in Threads, NEW r \in ThreadType,
           DOMAIN miner' = Threads, miner'[t] = r, \A s \in Threads \ {t} : miner'[s] = miner[s],
           miner' = [s \in Threads |-> miner'[s]], r.reserved = miner[t].reserved,
           r.block \in {miner[t].block, [parent |-> <<0, 0>>, key |-> 0, height |-> 0]},
           UNCHANGED <<tip, work, gbt, pool, mined>>
    PROVE  MinerInv'
<1>1. miner' \in [Threads -> ThreadType]
  <2>1. \A s \in Threads : miner'[s] \in ThreadType
    BY DEF MinerInv, MinerTypeOK
  <2> QED BY <2>1
<1>2. MinerTypeOK'
  BY <1>1 DEF MinerInv, MinerTypeOK, PoolTyped
<1>3. BlocksInv'
  <2>1. miner'[t].block.parent[1] <= tip[1]
    BY DEF MinerInv, MinerTypeOK, BlocksInv, Height
  <2> QED BY <2>1 DEF MinerInv, BlocksInv
<1>4. WorkInv'
  BY DEF MinerInv, WorkInv
<1>5. KeysInv'
  <2>1. ThreadKeys(t)' \subseteq ThreadKeys(t)
    <3>1. <<0, 0>> # tip
      BY DEF MinerInv, MinerTypeOK, Height
    <3> QED BY <3>1 DEF ThreadKeys
  <2>2. \A s \in Threads : /\ ThreadKeys(s)' \subseteq ThreadKeys(s)
                           /\ miner'[s].reserved = miner[s].reserved
    BY <2>1, SameThread DEF TipStays
  <2>3. WorkKeys' \subseteq WorkKeys
    BY DEF WorkKeys
  <2> QED BY <2>2, <2>3, AllShrink DEF MinerInv
<1> QED BY <1>2, <1>3, <1>4, <1>5 DEF MinerInv

(* The block nobody has is a block, and a thread that is off is a thread. *)
LEMMA NothingTyped ==
    /\ [parent |-> <<0, 0>>, key |-> 0, height |-> 0] \in BlockType
    /\ [index |-> 0, key |-> 0] \in Reservation
    /\ \A at \in {"off", "idle", "read", "search"} :
         [at |-> at, prev |-> <<0, 0>>, block |-> [parent |-> <<0, 0>>, key |-> 0, height |-> 0],
          reserved |-> [index |-> 0, key |-> 0]] \in ThreadType
<1>1. <<0, 0>> \in Height
  BY DEF Height
<1>2. [parent |-> <<0, 0>>, key |-> 0, height |-> 0] \in BlockType
  BY <1>1 DEF BlockType
<1>3. [index |-> 0, key |-> 0] \in Reservation
  BY DEF Reservation
<1> QED BY <1>1, <1>2, <1>3 DEF ThreadType

LEMMA ThreadTyped ==
    ASSUME MinerInv, NEW t \in Threads
    PROVE  /\ miner[t] \in ThreadType /\ miner[t].prev \in Height
           /\ miner[t].reserved \in Reservation
           /\ miner[t].block \in BlockType /\ miner[t].at \in {"off", "idle", "read", "search"}
           /\ DOMAIN miner = Threads
<1>1. miner \in [Threads -> ThreadType] /\ miner[t] \in ThreadType
  BY DEF MinerInv, MinerTypeOK
<1> QED BY <1>1 DEF ThreadType

LEMMA GenerateKeeps ==
    ASSUME MinerInv, NEW on, Mining!GenerateCoins(on)
    PROVE  MinerInv'
<1> DEFINE idle == [at |-> "idle", prev |-> <<0, 0>>,
                    block |-> [parent |-> <<0, 0>>, key |-> 0, height |-> 0],
                    reserved |-> [index |-> 0, key |-> 0]]
<1>1. UNCHANGED <<tip, work, gbt, pool, mined>>
  BY DEF Mining!GenerateCoins
<1>2. \A s \in Threads : miner'[s] = miner[s] \/ miner'[s] = idle
  BY DEF Mining!GenerateCoins, Mining!Off, Mining!NoTip, Mining!NoBlock, Mining!NoKey
<1>3. miner' = [s \in Threads |-> miner'[s]]
  BY DEF Mining!GenerateCoins
<1>4. miner' \in [Threads -> ThreadType]
  <2>1. \A s \in Threads : miner'[s] \in ThreadType
    BY <1>2, NothingTyped, ThreadTyped
  <2> QED BY <1>3, <2>1
<1>5. MinerTypeOK'
  BY <1>1, <1>4 DEF MinerInv, MinerTypeOK, PoolTyped
<1>6. BlocksInv'
  <2>1. \A s \in Threads : miner'[s].block.parent[1] <= tip[1]
    <3>1. idle.block.parent[1] = 0 /\ 0 <= tip[1]
      BY DEF MinerInv, MinerTypeOK, Height
    <3> HIDE DEF idle
    <3> QED BY <1>2, <3>1 DEF MinerInv, BlocksInv
  <2> HIDE DEF idle
  <2> QED BY <1>1, <2>1 DEF MinerInv, BlocksInv
<1>7. WorkInv'
  BY <1>1 DEF MinerInv, WorkInv
<1>8. KeysInv'
  <2>1. <<0, 0>> # tip
    BY DEF MinerInv, MinerTypeOK, Height
  <2>2. \A s \in Threads : ThreadKeys(s)' \subseteq ThreadKeys(s)
    BY <1>1, <1>2, <2>1 DEF ThreadKeys
  <2>3. WorkKeys' \subseteq WorkKeys
    BY <1>1 DEF WorkKeys
  <2>4. \A s \in Threads :
          miner'[s].reserved = miner[s].reserved \/ miner'[s].reserved.index = 0
    BY <1>2
  <2> QED BY <1>1, <2>2, <2>3, <2>4, AllShrink DEF MinerInv
<1> QED BY <1>5, <1>6, <1>7, <1>8 DEF MinerInv

LEMMA RoundKeeps ==
    ASSUME MinerInv, NEW t \in Threads, Mining!ReadBest(t) \/ Mining!NextRound(t)
    PROVE  MinerInv'
<1>1. UNCHANGED <<tip, work, gbt, pool, mined>>
  BY DEF Mining!ReadBest, Mining!NextRound
<1>2. miner \in [Threads -> ThreadType]
  BY DEF MinerInv, MinerTypeOK
<1>3. CASE Mining!ReadBest(t)
  <2> DEFINE r == [at |-> "read", prev |-> tip, block |-> miner[t].block,
                   reserved |-> miner[t].reserved]
  <2>1. miner' = [miner EXCEPT ![t].at = "read", ![t].prev = tip]
    BY <1>3 DEF Mining!ReadBest
  <2>2. miner'[t] = r
    BY <1>2, <2>1 DEF ThreadType
  <2>3. /\ \A s \in Threads \ {t} : miner'[s] = miner[s]
        /\ DOMAIN miner' = Threads /\ miner' = [s \in Threads |-> miner'[s]]
    BY <1>2, <2>1
  <2>4. r \in ThreadType
    BY ThreadTyped DEF ThreadType, MinerInv, MinerTypeOK
  <2> HIDE DEF r
  <2>5. r.reserved = miner[t].reserved /\ r.block = miner[t].block
    BY DEF r
  <2> QED BY <1>1, <2>2, <2>3, <2>4, <2>5, ThreadShrinks
<1>4. CASE Mining!NextRound(t)
  <2> DEFINE nothing == [parent |-> <<0, 0>>, key |-> 0, height |-> 0]
             r == [at |-> "idle", prev |-> miner[t].prev, block |-> nothing,
                   reserved |-> miner[t].reserved]
  <2>1. miner' = [miner EXCEPT ![t].at = "idle", ![t].block = nothing]
    BY <1>4 DEF Mining!NextRound, Mining!NoBlock
  <2>2. miner'[t] = r
    <3> HIDE DEF nothing
    <3> QED BY <1>2, <2>1 DEF ThreadType
  <2>3. /\ \A s \in Threads \ {t} : miner'[s] = miner[s]
        /\ DOMAIN miner' = Threads /\ miner' = [s \in Threads |-> miner'[s]]
    BY <1>2, <2>1
  <2>4. r \in ThreadType
    BY ThreadTyped, NothingTyped DEF ThreadType
  <2>5. r.reserved = miner[t].reserved /\ r.block = nothing
    OBVIOUS
  <2> HIDE DEF r
  <2> QED BY <1>1, <2>2, <2>3, <2>4, <2>5, ThreadShrinks
<1> QED BY <1>3, <1>4

LEMMA LeaveKeeps ==
    ASSUME MinerInv, NEW t \in Threads, Mining!Leave(t)
    PROVE  MinerInv'
<1> DEFINE held == miner[t].reserved
           off == [at |-> "off", prev |-> <<0, 0>>,
                   block |-> [parent |-> <<0, 0>>, key |-> 0, height |-> 0],
                   reserved |-> [index |-> 0, key |-> 0]]
           back == {held.index} \ {0}
<1>1. /\ UNCHANGED <<tip, work, gbt, mined>> /\ pool' = [pool EXCEPT !.free = @ \cup back]
      /\ miner' = [miner EXCEPT ![t] = off]
  BY DEF Mining!Leave, Mining!ReturnKey, Mining!Off, Mining!NoTip, Mining!NoBlock, Mining!NoKey
<1>2. /\ miner \in [Threads -> ThreadType] /\ off \in ThreadType /\ held.index \in Nat
      /\ PoolTyped(pool)
  BY NothingTyped, ThreadTyped DEF MinerInv, MinerTypeOK, Reservation
<1>3. miner'[t] = off /\ \A s \in Threads \ {t} : miner'[s] = miner[s]
  BY <1>1, <1>2
<1>4. pool' = [free |-> pool.free \cup back, keys |-> pool.keys, next |-> pool.next,
               overwritten |-> pool.overwritten]
  BY <1>1, <1>2 DEF PoolTyped
<1>5. PoolTyped(pool')
  <2>1. Bounded(pool.free \cup back)
    <3>1. PICK n \in Nat : \A i \in pool.free : i <= n
      BY <1>2 DEF PoolTyped, Bounded
    <3>2. pool.free \subseteq Nat
      BY <1>2 DEF PoolTyped
    <3>3. CASE held.index <= n
      BY <3>1, <3>3 DEF Bounded
    <3>4. CASE n <= held.index
      <4>1. \A i \in pool.free \cup back : i <= held.index
        BY <1>2, <3>1, <3>2, <3>4
      <4> QED BY <1>2, <4>1 DEF Bounded
    <3> QED BY <1>2, <3>1, <3>3, <3>4
  <2>2. pool.free \cup back \subseteq Nat \ {0}
    BY <1>2 DEF PoolTyped
  <2> HIDE DEF back
  <2> QED BY <1>2, <1>4, <2>1, <2>2 DEF PoolTyped
<1>6. MinerTypeOK'
  <2>1. miner' \in [Threads -> ThreadType]
    <3> HIDE DEF off
    <3> QED BY <1>1, <1>2
  <2> QED BY <1>1, <1>5, <2>1 DEF MinerInv, MinerTypeOK, PoolTyped
<1>7. BlocksInv'
  <2>1. off.block.parent[1] <= tip[1]
    BY DEF MinerInv, MinerTypeOK, Height
  <2> HIDE DEF off
  <2> QED BY <1>1, <1>3, <2>1 DEF MinerInv, BlocksInv
<1>8. WorkInv'
  BY <1>1 DEF MinerInv, WorkInv
<1>9. KeysInv'
  <2> SUFFICES ASSUME ~pool.overwritten
               PROVE  Keys(Owned, Reserved, pool, Mined)' /\ Distinct(mined)'
    BY <1>4 DEF KeysInv
  <2>1. ThreadKeys(t)' = {}
    <3>1. <<0, 0>> # tip
      BY DEF MinerInv, MinerTypeOK, Height
    <3> QED BY <1>1, <1>3, <3>1 DEF ThreadKeys
  <2>2. \A s \in Threads \ {t} : ThreadKeys(s)' \subseteq ThreadKeys(s)
    BY <1>1, <1>3, SameThread DEF TipStays
  <2>3. WorkKeys' \subseteq WorkKeys
    BY <1>1 DEF WorkKeys
  <2> DEFINE u == <<"miner", t>>
  <2>4. u \in Users /\ Owned'[u] = {} /\ Reserved'[u].index = 0 /\ Reserved[u] = held
    <3>1. u \in Users /\ Owned'[u] = ThreadKeys(t)' /\ Reserved'[u] = miner'[t].reserved
          /\ Reserved[u] = held
      BY DEF Owned, Reserved, Users
    <3> QED BY <1>3, <2>1, <3>1
  <2>5. Others(u)
    <3>1. \A s \in Threads : u # <<"miner", s>> =>
            ThreadKeys(s)' \subseteq ThreadKeys(s) /\ miner'[s].reserved = miner[s].reserved
      BY <1>3, <2>2
    <3> HIDE DEF u
    <3> QED BY <1>1, <2>3, <2>4, <3>1, OthersKeep
  <2> HIDE DEF u
  <2>6. Keys(Owned, Reserved, pool, Mined) /\ Distinct(mined) /\ Holders(Owned, Reserved)
    BY HeldOwned DEF MinerInv, KeysInv
  <2>7. /\ pool'.free = pool.free \cup ({Reserved[u].index} \ {0})
        /\ pool'.keys = pool.keys /\ pool'.next = pool.next
    BY <1>4, <2>4
  <2>8. Keys(Owned', Reserved', pool', Mined)
    BY <2>4, <2>5, <2>6, <2>7, KeyToPool DEF Others
  <2>9. Mined' = Mined /\ Distinct(mined)'
    BY <1>1, <2>6 DEF Mined, Distinct
  <2> QED BY <2>8, <2>9 DEF Keys, Apart, PoolKeys
<1> QED BY <1>6, <1>7, <1>8, <1>9 DEF MinerInv

LEMMA SearchKeeps ==
    ASSUME MinerInv, NEW t \in Threads, Mining!StartSearch(t)
    PROVE  MinerInv'
<1>1. PICK g \in Mining!GetReservedKey(miner[t].reserved) :
        /\ miner' = [miner EXCEPT ![t] =
             [at |-> "search", prev |-> <<0, 0>>, reserved |-> g.reserved,
              block |-> [parent |-> tip, key |-> g.reserved.key,
                         height |-> miner[t].prev[2] + 1]]]
        /\ pool' = g.pool /\ UNCHANGED <<tip, work, gbt, mined>>
  BY DEF Mining!StartSearch, Mining!IncrementExtraNonce, Mining!CreateNewBlock, Mining!NoTip
<1> DEFINE k == g.reserved.key
           block == [parent |-> tip, key |-> k, height |-> miner[t].prev[2] + 1]
           r == [at |-> "search", prev |-> <<0, 0>>, reserved |-> g.reserved, block |-> block]
<1>2. /\ miner \in [Threads -> ThreadType] /\ miner[t].prev \in Height
      /\ PoolTyped(pool) /\ miner[t].reserved \in Reservation
  BY ThreadTyped DEF MinerInv, MinerTypeOK
<1>3. g.reserved \in Reservation /\ PoolTyped(g.pool)
  BY <1>2, Reserves
<1>4. r \in ThreadType
  <2>1. tip \in Height /\ miner[t].prev[2] + 1 \in Int /\ <<0, 0>> \in Height
    <3>1. miner[t].prev \in Nat \X Nat /\ <<0, 0>> \in Nat \X Nat
      BY <1>2 DEF Height
    <3>2. miner[t].prev[2] \in Nat
      BY <3>1
    <3> QED BY <3>1, <3>2 DEF MinerInv, MinerTypeOK, Height
  <2>3. k \in Nat
    BY <1>3 DEF Reservation
  <2>2. block \in BlockType
    BY <2>1, <2>3 DEF BlockType
  <2> HIDE DEF block
  <2> QED BY <1>3, <2>1, <2>2 DEF ThreadType
<1>5. r.reserved = g.reserved /\ r.block.parent = tip /\ r.block.key = k
  OBVIOUS
<1>6. miner' = [miner EXCEPT ![t] = r]
  BY <1>1
<1> HIDE DEF r, block
<1>7. miner'[t] = r /\ \A s \in Threads \ {t} : miner'[s] = miner[s]
  BY <1>2, <1>6
<1>8. MinerTypeOK'
  <2>1. miner' \in [Threads -> ThreadType]
    BY <1>2, <1>4, <1>6
  <2> QED BY <1>1, <1>3, <2>1 DEF MinerInv, MinerTypeOK, PoolTyped
<1>9. BlocksInv'
  <2>1. r.block.parent[1] <= tip[1]
    BY <1>5 DEF MinerInv, MinerTypeOK, Height
  <2> QED BY <1>1, <1>7, <2>1 DEF MinerInv, BlocksInv
<1>10. WorkInv'
  BY <1>1 DEF MinerInv, WorkInv
<1>11. KeysInv'
  <2> DEFINE u == <<"miner", t>>
  <2>1. ThreadKeys(t)' \subseteq {k} \ {0}
    BY <1>5, <1>7 DEF ThreadKeys
  <2>2. \A s \in Threads \ {t} : ThreadKeys(s)' \subseteq ThreadKeys(s)
    BY <1>1, <1>7, SameThread DEF TipStays
  <2>3. WorkKeys' \subseteq WorkKeys
    BY <1>1 DEF WorkKeys
  <2>4. /\ u \in Users /\ Reserved'[u] = g.reserved
        /\ Owned'[u] \subseteq Owned[u] \cup ({g.reserved.key} \ {0})
        /\ g \in Mining!GetReservedKey(Reserved[u])
    <3>1. u \in Users /\ Owned'[u] = ThreadKeys(t)' /\ Reserved'[u] = miner'[t].reserved
          /\ Reserved[u] = miner[t].reserved
      BY DEF Owned, Reserved, Users
    <3> QED BY <1>5, <1>7, <2>1, <3>1
  <2>5. Others(u)
    <3>1. \A s \in Threads : u # <<"miner", s>> =>
            ThreadKeys(s)' \subseteq ThreadKeys(s) /\ miner'[s].reserved = miner[s].reserved
      BY <1>7, <2>2
    <3> HIDE DEF u
    <3> QED BY <1>1, <2>3, <2>4, <3>1, OthersKeep
  <2> HIDE DEF u, k
  <2> QED BY <1>1, <2>4, <2>5, TakesKey
<1> QED BY <1>8, <1>9, <1>10, <1>11 DEF MinerInv

(* A step of getblocktemplate. *)
LEMMA TemplateKeeps ==
    ASSUME MinerInv, Mining!GetBlockTemplate
    PROVE  MinerInv'
<1>1. UNCHANGED <<tip, miner, work, mined>>
  BY DEF Mining!GetBlockTemplate
<1>2. BlocksInv' /\ WorkInv'
  BY <1>1 DEF MinerInv, BlocksInv, WorkInv
<1>3. /\ \A s \in Threads : ThreadKeys(s)' \subseteq ThreadKeys(s)
      /\ WorkKeys' \subseteq WorkKeys
  BY <1>1 DEF ThreadKeys, WorkKeys
<1>4. CASE UNCHANGED <<gbt, pool>>
  <2>1. MinerTypeOK'
    BY <1>1, <1>4 DEF MinerInv, MinerTypeOK, PoolTyped
  <2>2. KeysInv'
    BY <1>1, <1>3, <1>4, AllShrink DEF MinerInv
  <2> QED BY <1>2, <2>1, <2>2 DEF MinerInv
<1>5. CASE \E g \in Mining!GetReservedKey(gbt) : gbt' = g.reserved /\ pool' = g.pool
  <2>1. PICK g \in Mining!GetReservedKey(gbt) : gbt' = g.reserved /\ pool' = g.pool
    BY <1>5
  <2>2. g.reserved \in Reservation /\ PoolTyped(g.pool)
    BY Reserves DEF MinerInv, MinerTypeOK
  <2>3. MinerTypeOK'
    BY <1>1, <2>1, <2>2 DEF MinerInv, MinerTypeOK, PoolTyped
  <2> DEFINE u == <<"gbt", 0>>
  <2>4. /\ u \in Users /\ Reserved'[u] = g.reserved
        /\ Owned'[u] \subseteq Owned[u] \cup ({g.reserved.key} \ {0})
        /\ g \in Mining!GetReservedKey(Reserved[u])
    <3>1. u \in Users /\ Owned'[u] = GbtKeys' /\ Reserved'[u] = gbt' /\ Reserved[u] = gbt
      BY DEF Owned, Reserved, Users
    <3>2. GbtKeys' \subseteq {g.reserved.key} \ {0}
      BY <2>1 DEF GbtKeys
    <3> QED BY <2>1, <3>1, <3>2
  <2>5. Others(u)
    <3> HIDE DEF u
    <3>1. u = <<"gbt", 0>>
      BY DEF u
    <3> QED BY <1>1, <1>3, <2>4, <3>1, OthersKeep
  <2> HIDE DEF u
  <2>6. KeysInv'
    BY <1>1, <2>1, <2>4, <2>5, TakesKey
  <2> QED BY <1>2, <2>3, <2>6 DEF MinerInv
<1> QED BY <1>4, <1>5 DEF Mining!GetBlockTemplate

(* A key given to an address. *)
LEMMA AddressKeeps ==
    ASSUME MinerInv, Mining!AddressTaken
    PROVE  MinerInv'
<1> DEFINE none == [index |-> 0, key |-> 0]
<1>1. PICK g \in Mining!GetReservedKey(none) :
        /\ pool' = Mining!Erased(g.pool, g.reserved)
        /\ UNCHANGED <<tip, miner, work, gbt, mined>>
  BY DEF Mining!AddressTaken, Mining!NoKey
<1>2. none \in Reservation /\ none.index = 0
  BY NothingTyped
<1> HIDE DEF none
<1>3. /\ PoolTyped(g.pool) /\ (~g.pool.overwritten => ~pool.overwritten)
      /\ \E p \in Mining!Pools :
           /\ g.pool.keys = p.keys /\ g.pool.next = p.next /\ g.pool.overwritten = p.overwritten
           /\ \/ /\ g.reserved.index \in p.free
                 /\ g.pool.free = p.free \ {g.reserved.index}
              \/ g.reserved = [index |-> 0, key |-> 0] /\ g.pool.free = p.free
  BY <1>2, Reserves DEF MinerInv, MinerTypeOK
<1>4. PICK p \in Mining!Pools :
        /\ g.pool.keys = p.keys /\ g.pool.next = p.next /\ g.pool.overwritten = p.overwritten
        /\ \/ g.reserved.index \in p.free /\ g.pool.free = p.free \ {g.reserved.index}
           \/ g.reserved = [index |-> 0, key |-> 0] /\ g.pool.free = p.free
  BY <1>3
<1>5. /\ PoolTyped(pool') /\ pool'.free = g.pool.free /\ pool'.next = p.next
      /\ pool'.overwritten = p.overwritten /\ pool'.keys = Without(p.keys, g.reserved.index)
  <2> DEFINE q == Mining!Erased(g.pool, g.reserved)
  <2>1. /\ PoolTyped(q) /\ q.free = g.pool.free /\ q.next = g.pool.next
        /\ q.overwritten = g.pool.overwritten
        /\ q.keys = Without(g.pool.keys, g.reserved.index)
    BY <1>3, ErasedTyped
  <2>2. pool' = q
    BY <1>1
  <2> HIDE DEF q
  <2> QED BY <1>4, <2>1, <2>2
<1>6. MinerTypeOK' /\ BlocksInv' /\ WorkInv'
  BY <1>1, <1>5 DEF MinerInv, MinerTypeOK, BlocksInv, WorkInv, PoolTyped
<1>7. KeysInv'
  <2> SUFFICES ASSUME ~p.overwritten
               PROVE  Keys(Owned, Reserved, pool, Mined)' /\ Distinct(mined)'
    BY <1>5 DEF KeysInv
  <2>1. /\ Owned' = Owned /\ Reserved' = Reserved /\ Mined' = Mined /\ mined' = mined
    BY <1>1 DEF Owned, Reserved, ThreadKeys, WorkKeys, GbtKeys, Mined
  <2>2. Keys(Owned, Reserved, pool, Mined) /\ Distinct(mined) /\ PoolTyped(pool)
    BY <1>3, <1>4 DEF MinerInv, MinerTypeOK, KeysInv
  <2>3. Keys(Owned, Reserved, p, Mined)
    <3>1. p \in {pool, Mining!TopUpKeyPool}
      BY <2>2, PoolsTyped
    <3>2. CASE p = Mining!TopUpKeyPool
      <4>1. Mined \subseteq Nat /\ \A v \in Users : Owned[v] \subseteq Nat
        BY HeldOwned DEF MinerInv
      <4>2. ~Mining!TopUpKeyPool.overwritten
        BY <3>2
      <4> QED BY <2>2, <3>2, <4>1, <4>2, RefillKeeps
    <3> QED BY <2>2, <3>1, <3>2
  <2>4. Holders(Owned, Reserved)
    BY HeldOwned DEF MinerInv
  <2>5. Keys(Owned, Reserved, pool', Mined)
    <3>1. CASE g.reserved.index \in p.free /\ g.pool.free = p.free \ {g.reserved.index}
      <4> DEFINE i == g.reserved.index
      <4>1. /\ i \in p.free /\ pool'.free = p.free \ {i} /\ pool'.next = p.next
            /\ pool'.keys = Without(p.keys, i)
        BY <1>5, <3>1
      <4> HIDE DEF i
      <4> QED BY <2>3, <2>4, <4>1, KeyGiven
    <3>2. CASE g.reserved = [index |-> 0, key |-> 0] /\ g.pool.free = p.free
      <4>1. PoolTyped(p)
        BY <2>2, PoolsTyped
      <4>2. 0 \notin DOMAIN p.keys
        BY <4>1 DEF PoolTyped
      <4>3. pool'.keys = p.keys
        <5>1. pool'.keys = [j \in DOMAIN p.keys |-> p.keys[j]]
          BY <1>5, <3>2, <4>2 DEF Without
        <5>2. p.keys = [j \in DOMAIN p.keys |-> p.keys[j]]
          BY <4>1 DEF PoolTyped
        <5> QED BY <5>1, <5>2
      <4>4. pool'.free = p.free /\ pool'.next = p.next
        BY <1>5, <3>2
      <4>5. PoolKeys(pool') = PoolKeys(p)
        BY <4>3, <4>4 DEF PoolKeys
      <4> QED BY <2>3, <4>3, <4>4, <4>5 DEF Keys
    <3> QED BY <1>4, <3>1, <3>2
  <2>6. Distinct(mined)'
    BY <2>1, <2>2 DEF Distinct
  <2> QED BY <2>1, <2>5, <2>6 DEF Keys, Apart, PoolKeys
<1> QED BY <1>6, <1>7 DEF MinerInv

(* A block of ours is refused, or it is the new tip. *)
LEMMA BlockProcessed ==
    ASSUME MinerInv, NEW block \in BlockType, block.parent = tip, Mining!ProcessBlock(block)
    PROVE  /\ TipStays
           /\ \/ mined' = mined
              \/ tip' # tip /\ mined' = Append(mined, block.key)
<1>1. tip \in Height /\ block.parent[2] + 1 \in Nat
  BY DEF MinerInv, MinerTypeOK, Height
<1>2. CASE UNCHANGED <<tip, mined>>
  BY <1>2 DEF TipStays
<1>3. CASE /\ block.height = block.parent[2] + 1
           /\ tip' = <<tip[1] + 1, block.height>> /\ mined' = Append(mined, block.key)
  <2>1. tip[1] \in Nat /\ tip' \in Height /\ tip'[1] = tip[1] + 1
    BY <1>1, <1>3 DEF Height
  <2>2. tip' # tip
    BY <2>1
  <2> QED BY <1>3, <2>1, <2>2 DEF TipStays
<1> QED BY <1>2, <1>3 DEF Mining!ProcessBlock

LEMMA FoundKeeps ==
    ASSUME MinerInv, NEW t \in Threads, Mining!Found(t)
    PROVE  MinerInv'
<1> DEFINE block == miner[t].block
           k == block.key
           none == [index |-> 0, key |-> 0]
           r == [at |-> miner[t].at, prev |-> miner[t].prev, block |-> block, reserved |-> none]
<1>1. /\ UNCHANGED <<work, gbt>>
      /\ \/ miner' = miner /\ UNCHANGED <<tip, pool, mined>>
         \/ /\ miner' = [miner EXCEPT ![t].reserved = none] /\ block.parent = tip
            /\ pool' = Mining!Erased(pool, miner[t].reserved) /\ Mining!ProcessBlock(block)
  BY DEF Mining!Found, Mining!Stale, Mining!KeepKey, Mining!NoKey
<1>2. /\ miner \in [Threads -> ThreadType] /\ block \in BlockType /\ k \in Nat
  BY ThreadTyped DEF MinerInv, MinerTypeOK, BlockType
<1>3. CASE miner' = miner /\ UNCHANGED <<tip, pool, mined>>
  <2>1. MinerTypeOK' /\ BlocksInv' /\ WorkInv'
    BY <1>1, <1>3 DEF MinerInv, MinerTypeOK, BlocksInv, WorkInv, PoolTyped
  <2>2. KeysInv'
    <3>1. \A s \in Threads : ThreadKeys(s)' \subseteq ThreadKeys(s)
      BY <1>3 DEF ThreadKeys
    <3>2. WorkKeys' \subseteq WorkKeys
      BY <1>1, <1>3 DEF WorkKeys
    <3> QED BY <1>1, <1>3, <3>1, <3>2, AllShrink DEF MinerInv
  <2> QED BY <2>1, <2>2 DEF MinerInv
<1>4. CASE /\ miner' = [miner EXCEPT ![t].reserved = none] /\ block.parent = tip
           /\ pool' = Mining!Erased(pool, miner[t].reserved) /\ Mining!ProcessBlock(block)
  <2>1. miner'[t] = r /\ \A s \in Threads \ {t} : miner'[s] = miner[s]
    BY <1>2, <1>4 DEF ThreadType
  <2>2. DOMAIN miner' = Threads /\ miner' = [s \in Threads |-> miner'[s]]
    BY <1>2, <1>4
  <2>3. r \in ThreadType /\ r.reserved = none /\ r.block = block
    BY <1>2, ThreadTyped, NothingTyped DEF ThreadType
  <2>4. TipStays /\ (mined' = mined \/ (tip' # tip /\ mined' = Append(mined, k)))
    BY <1>2, <1>4, BlockProcessed
  <2>5. tip[1] \in Nat /\ tip'[1] \in Nat /\ tip'[1] >= tip[1] /\ tip'[1] >= 1 /\ tip' \in Height
    BY <2>4 DEF MinerInv, MinerTypeOK, Height, TipStays
  <2> HIDE DEF r
  <2>6. miner' \in [Threads -> ThreadType]
    <3>1. \A s \in Threads : miner'[s] \in ThreadType
      BY <1>2, <2>1, <2>3
    <3> QED BY <2>2, <3>1
  <2>7. \A s \in Threads : ThreadKeys(s)' \subseteq ThreadKeys(s)
    BY <2>1, <2>3, <2>4, SameThread
  <2>8. WorkKeys' \subseteq WorkKeys
    BY <1>1, <2>4, SameWork DEF SameBlocks
  <2> DEFINE u == <<"miner", t>>
  <2>9. /\ u \in Users /\ Reserved[u] = miner[t].reserved /\ Reserved'[u].index = 0
        /\ Owned[u] = ThreadKeys(t) /\ Owned'[u] = ThreadKeys(t)'
    <3>1. u \in Users /\ Reserved[u] = miner[t].reserved /\ Reserved'[u] = miner'[t].reserved
          /\ Owned[u] = ThreadKeys(t) /\ Owned'[u] = ThreadKeys(t)'
      BY DEF Owned, Reserved, Users
    <3> QED BY <2>1, <2>3, <3>1
  <2>10. Others(u)
    <3>1. \A s \in Threads : u # <<"miner", s>> =>
            ThreadKeys(s)' \subseteq ThreadKeys(s) /\ miner'[s].reserved = miner[s].reserved
      BY <2>1, <2>7
    <3> HIDE DEF u
    <3> QED BY <1>1, <2>8, <2>9, <3>1, OthersKeep
  <2>11. tip' # tip /\ k # 0 => k \in ThreadKeys(t) /\ k \notin ThreadKeys(t)'
    BY <1>2, <1>4, <2>1, <2>3 DEF ThreadKeys
  <2>12. \/ mined' = mined
         \/ mined' = Append(mined, k) /\ (k = 0 \/ (k \in Owned[u] /\ k \notin Owned'[u]))
    BY <2>4, <2>9, <2>11
  <2>13. pool' = Mining!Erased(pool, Reserved[u]) /\ Owned'[u] \subseteq Owned[u]
    BY <1>4, <2>7, <2>9
  <2> HIDE DEF u, k
  <2>14. KeysInv' /\ mined' \in Seq(Nat) /\ PoolTyped(pool')
    BY <1>2, <2>9, <2>10, <2>12, <2>13, KeyPaid
  <2>15. MinerTypeOK'
    BY <1>1, <2>5, <2>6, <2>14 DEF MinerInv, MinerTypeOK, PoolTyped
  <2>16. BlocksInv'
    <3>1. \A s \in Threads : miner'[s].block = miner[s].block /\ miner[s].block.parent[1] \in Nat
      BY <2>1, <2>3, ThreadTyped DEF BlockType, Height
    <3>2. \A b \in DOMAIN work.blocks : work.blocks[b].parent[1] \in Nat
      BY BlocksTyped
    <3> QED BY <1>1, <2>5, <3>1, <3>2 DEF MinerInv, BlocksInv
  <2>17. WorkInv'
    BY <1>1 DEF MinerInv, WorkInv
  <2> QED BY <2>14, <2>15, <2>16, <2>17 DEF MinerInv
<1> QED BY <1>1, <1>3, <1>4

(* getwork: what the fields of its statics are. *)
WorkShape == work = [prev |-> work.prev, current |-> work.current, blocks |-> work.blocks,
                     freed |-> work.freed, roots |-> work.roots, reserved |-> work.reserved,
                     making |-> work.making]

LEMMA WorkTyped ==
    ASSUME MinerInv
    PROVE  /\ WorkShape /\ work.prev \in Height /\ work.prev[2] + 1 \in Int
           /\ work.blocks \in Seq(BlockType) /\ work.reserved \in Reservation
           /\ DOMAIN work.blocks = 1..Len(work.blocks) /\ Len(work.blocks) \in Nat
           /\ tip \in Height /\ <<0, 0>> # tip
<1>1. /\ work.blocks \in Seq(BlockType) /\ work.prev \in Height
      /\ work.reserved \in Reservation /\ WorkShape
  BY DEF MinerInv, MinerTypeOK, WorkShape
<1>2. tip \in Height /\ <<0, 0>> # tip
  BY DEF MinerInv, MinerTypeOK, Height
<1> QED BY <1>1, <1>2 DEF Height

(* A step of getwork that neither takes a key nor mines a block. *)
LEMMA WorkShrinks ==
    ASSUME MinerInv, UNCHANGED <<tip, miner, gbt, pool, mined>>,
           WorkShape', work'.prev \in Height, work'.reserved = work.reserved,
           work'.blocks \in Seq(BlockType), SameBlocks, WorkInv'
    PROVE  MinerInv'
<1>1. MinerTypeOK'
  BY WorkTyped DEF MinerInv, MinerTypeOK, WorkShape, PoolTyped
<1>2. BlocksInv'
  <2>1. \A b \in DOMAIN work'.blocks : work'.blocks[b].parent[1] <= tip[1]
    <3> TAKE b \in DOMAIN work'.blocks
    <3>1. 0 <= tip[1] /\ work.blocks[b].parent[1] <= tip[1]
      BY DEF MinerInv, MinerTypeOK, BlocksInv, Height, SameBlocks
    <3> QED BY <3>1 DEF SameBlocks
  <2> QED BY <2>1 DEF MinerInv, BlocksInv
<1>3. KeysInv'
  <2>1. \A s \in Threads : ThreadKeys(s)' \subseteq ThreadKeys(s)
    BY DEF ThreadKeys
  <2>2. WorkKeys' \subseteq WorkKeys
    BY SameWork DEF TipStays
  <2> QED BY <2>1, <2>2, AllShrink DEF MinerInv
<1> QED BY <1>1, <1>2, <1>3 DEF MinerInv

LEMMA ReadsKeep ==
    ASSUME MinerInv, Mining!GetWorkReads
    PROVE  MinerInv'
<1> DEFINE nothing == [parent |-> <<0, 0>>, key |-> 0, height |-> 0]
           blanks == [b \in DOMAIN work.blocks |-> nothing]
<1>1. UNCHANGED <<tip, miner, gbt, pool, mined>> /\ WorkShape
  BY WorkTyped DEF Mining!GetWorkReads
<1>2. PICK F, R, B :
        /\ work' = [prev |-> tip, current |-> work.current, blocks |-> B, freed |-> F,
                    roots |-> R, reserved |-> work.reserved, making |-> TRUE]
        /\ \/ F = DOMAIN work.blocks /\ R = {} /\ B = blanks
           \/ F = work.freed /\ R = work.roots /\ B = work.blocks
  <2>1. CASE work.prev # tip
    <3>1. work' = [prev |-> tip, current |-> work.current, blocks |-> blanks,
                   freed |-> DOMAIN work.blocks, roots |-> {}, reserved |-> work.reserved,
                   making |-> TRUE]
      BY <1>1, <2>1 DEF Mining!GetWorkReads, Mining!Dropped, Mining!NoBlock, WorkShape
    <3> HIDE DEF blanks
    <3> QED BY <3>1
  <2>2. CASE work.prev = tip
    <3>1. work' = [prev |-> tip, current |-> work.current, blocks |-> work.blocks,
                   freed |-> work.freed, roots |-> work.roots, reserved |-> work.reserved,
                   making |-> TRUE]
      BY <1>1, <2>2 DEF Mining!GetWorkReads, WorkShape
    <3> HIDE DEF blanks
    <3> QED BY <3>1
  <2> QED BY <2>1, <2>2
<1>3. /\ WorkShape' /\ work'.prev = tip /\ work'.reserved = work.reserved /\ work'.blocks = B
      /\ work'.making = TRUE /\ work'.freed = F /\ work'.roots = R
  BY <1>2 DEF WorkShape
<1>4. /\ B \in Seq(BlockType) /\ DOMAIN B = DOMAIN work.blocks
      /\ \A b \in DOMAIN work.blocks : B[b] = work.blocks[b] \/ B[b].parent = <<0, 0>>
  <2>1. nothing \in BlockType /\ nothing.parent = <<0, 0>>
    BY NothingTyped
  <2> HIDE DEF nothing
  <2>2. DOMAIN work.blocks = 1..Len(work.blocks) /\ Len(work.blocks) \in Nat
    BY WorkTyped
  <2>3. /\ blanks \in Seq(BlockType) /\ DOMAIN blanks = DOMAIN work.blocks
        /\ \A b \in DOMAIN work.blocks : blanks[b].parent = <<0, 0>>
    BY <2>1, <2>2
  <2> HIDE DEF blanks
  <2> QED BY <1>2, <2>3, WorkTyped
<1>5. SameBlocks
  BY <1>3, <1>4 DEF SameBlocks
<1>6. WorkInv'
  BY <1>2, <1>3, <1>4 DEF MinerInv, WorkInv
<1> QED BY <1>1, <1>3, <1>4, <1>5, <1>6, WorkTyped, WorkShrinks

(* The block at hand, with another extra nonce. *)
LEMMA AgainKeeps ==
    ASSUME MinerInv, Mining!GetWorkAgain
    PROVE  MinerInv'
<1> DEFINE b == work.current
           block == [parent |-> work.blocks[b].parent, key |-> work.blocks[b].key,
                     height |-> work.prev[2] + 1]
           blocks == [work.blocks EXCEPT ![b] = block]
<1>1. /\ UNCHANGED <<tip, miner, gbt, pool, mined>> /\ WorkShape
      /\ ~work.making /\ work.prev = tip /\ b \in DOMAIN work.blocks \ work.freed
  BY WorkTyped DEF Mining!GetWorkAgain, MinerInv, WorkInv
<1>2. work' = [prev |-> work.prev, current |-> b, blocks |-> blocks,
               freed |-> work.freed, roots |-> work.roots \cup {b},
               reserved |-> work.reserved, making |-> work.making]
  <2>1. work' = [work EXCEPT !.roots = @ \cup {b}, !.blocks = blocks]
    BY <1>1 DEF Mining!GetWorkAgain, Mining!HandOut, Mining!IncrementExtraNonce
  <2> HIDE DEF blocks
  <2> QED BY <1>1, <2>1 DEF WorkShape
<1>3. block \in BlockType
  BY <1>1, BlocksTyped, WorkTyped DEF BlockType
<1>4. /\ blocks \in Seq(BlockType) /\ DOMAIN blocks = DOMAIN work.blocks
      /\ \A c \in DOMAIN work.blocks : /\ blocks[c].parent = work.blocks[c].parent
                                       /\ blocks[c].key = work.blocks[c].key
  <2>1. block.parent = work.blocks[b].parent /\ block.key = work.blocks[b].key
    OBVIOUS
  <2> HIDE DEF block
  <2> QED BY <1>1, <1>3, <2>1, WorkTyped
<1> HIDE DEF blocks
<1>5. /\ WorkShape' /\ work'.prev = tip /\ work'.reserved = work.reserved /\ work'.blocks = blocks
      /\ work'.making = work.making /\ work'.freed = work.freed
      /\ work'.roots = work.roots \cup {b} /\ work'.current = b
  BY <1>1, <1>2 DEF WorkShape
<1>6. WorkInv'
  BY <1>1, <1>4, <1>5 DEF MinerInv, WorkInv
<1>7. SameBlocks
  BY <1>4, <1>5 DEF SameBlocks
<1> QED BY <1>1, <1>4, <1>5, <1>6, <1>7, WorkTyped, WorkShrinks

(* The outcomes of making a block: one more block and its entry, or nothing   *)
(* but the reservation.                                                       *)
LEMMA CreatesWork ==
    ASSUME MinerInv, NEW g, g.reserved \in Reservation,
           NEW b, b = Len(work.blocks) + 1, work' \in Mining!Created(g),
           NEW block,
           block = [parent |-> tip, key |-> g.reserved.key, height |-> work.prev[2] + 1]
    PROVE  /\ WorkShape' /\ work'.reserved = g.reserved /\ ~work'.making
           /\ work'.freed = work.freed
           /\ \/ /\ work'.blocks \in Seq(BlockType) /\ DOMAIN work'.blocks = 1..b
                 /\ \A c \in 1..Len(work.blocks) : work'.blocks[c] = work.blocks[c]
                 /\ work'.blocks[b] = block
                 /\ work'.prev = work.prev /\ work'.current = b
                 /\ work'.roots = work.roots \cup {b}
              \/ /\ work'.blocks = work.blocks
                 /\ work'.prev = <<0, 0>> /\ work'.roots = work.roots
<1> DEFINE r == g.reserved
           fresh == [parent |-> tip, key |-> r.key, height |-> 0]
           seq == Append(work.blocks, fresh)
           blocks == [seq EXCEPT ![b] = block]
           done == [prev |-> work.prev, current |-> work.current, blocks |-> work.blocks,
                    freed |-> work.freed, roots |-> work.roots, reserved |-> r, making |-> FALSE]
           w == [prev |-> work.prev, current |-> b, blocks |-> seq, freed |-> work.freed,
                 roots |-> work.roots, reserved |-> r, making |-> FALSE]
           none == [prev |-> <<0, 0>>, current |-> work.current, blocks |-> work.blocks,
                    freed |-> work.freed, roots |-> work.roots, reserved |-> r, making |-> FALSE]
<1>1. WorkShape /\ work.blocks \in Seq(BlockType) /\ Len(work.blocks) \in Nat
  BY WorkTyped
<1>2. Mining!CreateNewBlock(r) = fresh
  BY DEF Mining!CreateNewBlock
<1>3. fresh \in BlockType /\ block \in BlockType
  <2>1. r.key \in Nat
    BY DEF Reservation
  <2> QED BY <2>1, WorkTyped DEF BlockType
<1>4. fresh.parent = tip /\ fresh.key = r.key
  OBVIOUS
<1> HIDE DEF fresh
<1>5. /\ seq \in Seq(BlockType) /\ DOMAIN seq = 1..b /\ seq[b] = fresh
      /\ \A c \in 1..Len(work.blocks) : seq[c] = work.blocks[c]
  BY <1>1, <1>3
<1> HIDE DEF seq, r
<1>6. ASSUME NEW x, x = [work EXCEPT !.making = FALSE, !.reserved = r]
      PROVE  x = done
  BY <1>1, <1>6 DEF WorkShape
<1>7. ASSUME NEW x, x = [done EXCEPT !.current = b, !.blocks = Append(@, fresh)]
      PROVE  x = w
  BY <1>7 DEF seq
<1>8. ASSUME NEW x, x = [done EXCEPT !.prev = <<0, 0>>]
      PROVE  x = none
  BY <1>8
<1>9. w.prev = work.prev /\ w.blocks = seq /\ w.roots = work.roots
  OBVIOUS
<1> HIDE DEF done, w, none
<1>10. work' = Mining!HandOut(w, b) \/ work' = none
  <2>1. Mining!Created(g) = {Mining!HandOut(w, b), none}
    BY <1>2, <1>6, <1>7, <1>8 DEF Mining!Created, Mining!NoTip, r
  <2> QED BY <2>1
<1>11. CASE work' = none
  BY <1>11 DEF WorkShape, none, r
<1>12. CASE work' = Mining!HandOut(w, b)
  <2>1. work' = [w EXCEPT !.roots = @ \cup {b},
                          !.blocks[b] = [parent |-> @.parent, key |-> @.key,
                                         height |-> w.prev[2] + 1]]
    BY <1>12 DEF Mining!HandOut, Mining!IncrementExtraNonce
  <2>3. block = [parent |-> seq[b].parent, key |-> seq[b].key, height |-> w.prev[2] + 1]
    BY <1>4, <1>5, <1>9 DEF r
  <2>4. work' = [w EXCEPT !.roots = work.roots \cup {b}, !.blocks = blocks]
    BY <1>9, <2>1, <2>3
  <2>5. b \in DOMAIN seq /\ b \notin 1..Len(work.blocks)
    BY <1>1, <1>5
  <2>6. /\ blocks \in Seq(BlockType) /\ DOMAIN blocks = 1..b /\ blocks[b] = block
        /\ \A c \in 1..Len(work.blocks) : blocks[c] = work.blocks[c]
    BY <1>3, <1>5, <2>5
  <2> HIDE DEF blocks
  <2>7. work' = [prev |-> work.prev, current |-> b, blocks |-> blocks, freed |-> work.freed,
                 roots |-> work.roots \cup {b}, reserved |-> r, making |-> FALSE]
    BY <2>4 DEF w
  <2> QED BY <2>6, <2>7 DEF WorkShape, r
<1> QED BY <1>10, <1>11, <1>12

LEMMA CreatesKeep ==
    ASSUME MinerInv, Mining!GetWorkCreates
    PROVE  MinerInv'
<1>1. PICK g \in Mining!GetReservedKey(work.reserved) :
        work' \in Mining!Created(g) /\ pool' = g.pool /\ UNCHANGED <<tip, miner, gbt, mined>>
  BY DEF Mining!GetWorkCreates
<1> DEFINE k == g.reserved.key
           b == Len(work.blocks) + 1
           block == [parent |-> tip, key |-> k, height |-> work.prev[2] + 1]
<1>2. g.reserved \in Reservation /\ PoolTyped(g.pool)
  BY WorkTyped, Reserves DEF MinerInv, MinerTypeOK
<1>3. k \in Nat
  BY <1>2 DEF Reservation
<1>4. /\ WorkShape' /\ work'.reserved = g.reserved /\ ~work'.making /\ work'.freed = work.freed
      /\ \/ /\ work'.blocks \in Seq(BlockType) /\ DOMAIN work'.blocks = 1..b
            /\ \A c \in 1..Len(work.blocks) : work'.blocks[c] = work.blocks[c]
            /\ work'.blocks[b] = block
            /\ work'.prev = work.prev /\ work'.current = b
            /\ work'.roots = work.roots \cup {b}
         \/ /\ work'.blocks = work.blocks
            /\ work'.prev = <<0, 0>> /\ work'.roots = work.roots
  BY <1>1, <1>2, CreatesWork
<1>5. block \in BlockType /\ block.parent = tip /\ block.key = k
  BY <1>3, WorkTyped DEF BlockType
<1> HIDE DEF block
<1>6. /\ work.blocks \in Seq(BlockType) /\ DOMAIN work.blocks = 1..Len(work.blocks)
      /\ Len(work.blocks) \in Nat /\ work.prev \in Height /\ tip[1] \in Nat
  BY WorkTyped DEF Height
<1>7. /\ work'.blocks \in Seq(BlockType) /\ DOMAIN work.blocks \subseteq DOMAIN work'.blocks
      /\ \A c \in DOMAIN work'.blocks :
           \/ c \in DOMAIN work.blocks /\ work'.blocks[c] = work.blocks[c]
           \/ work'.blocks[c] = block
  BY <1>4, <1>5, <1>6
<1>8. MinerTypeOK'
  <2>1. work'.prev \in Height
    BY <1>4, <1>6 DEF Height
  <2> QED BY <1>1, <1>2, <1>4, <1>7, <2>1 DEF MinerInv, MinerTypeOK, WorkShape, PoolTyped
<1>9. BlocksInv'
  <2>1. \A c \in DOMAIN work'.blocks : work'.blocks[c].parent[1] <= tip[1]
    BY <1>5, <1>6, <1>7 DEF MinerInv, BlocksInv
  <2> QED BY <1>1, <2>1 DEF MinerInv, BlocksInv
<1>10. WorkInv'
  <2>1. CASE work'.blocks = work.blocks /\ work'.prev = <<0, 0>> /\ work'.roots = work.roots
    BY <1>4, <2>1 DEF MinerInv, WorkInv
  <2>2. CASE /\ DOMAIN work'.blocks = 1..b /\ work'.current = b
             /\ work'.roots = work.roots \cup {b}
    <3>1. b \in DOMAIN work'.blocks /\ b \notin work.freed
      BY <1>6, <2>2 DEF MinerInv, WorkInv
    <3> HIDE DEF b
    <3> QED BY <1>4, <1>7, <2>2, <3>1 DEF MinerInv, WorkInv
  <2> QED BY <1>4, <2>1, <2>2
<1>11. KeysInv'
  <2> DEFINE u == <<"work", 0>>
  <2>1. WorkKeys' \subseteq WorkKeys \cup ({k} \ {0})
    BY <1>1, <1>4, <1>5, <1>7 DEF WorkKeys
  <2>2. \A s \in Threads : ThreadKeys(s)' \subseteq ThreadKeys(s)
    BY <1>1 DEF ThreadKeys
  <2>3. /\ u \in Users /\ Reserved'[u] = g.reserved
        /\ Owned'[u] \subseteq Owned[u] \cup ({g.reserved.key} \ {0})
        /\ g \in Mining!GetReservedKey(Reserved[u])
    <3>1. u \in Users /\ Owned'[u] = WorkKeys' /\ Owned[u] = WorkKeys
          /\ Reserved'[u] = work'.reserved /\ Reserved[u] = work.reserved
      BY DEF Owned, Reserved, Users
    <3> QED BY <1>4, <2>1, <3>1
  <2>4. Others(u)
    <3> HIDE DEF u
    <3>1. u = <<"work", 0>>
      BY DEF u
    <3> QED BY <1>1, <2>2, <2>3, <3>1, OthersKeep
  <2> HIDE DEF u, k
  <2> QED BY <1>1, <2>3, <2>4, TakesKey
<1> QED BY <1>8, <1>9, <1>10, <1>11 DEF MinerInv

LEMMA SubmitKeeps ==
    ASSUME MinerInv, Mining!GetWorkSubmit
    PROVE  MinerInv'
<1> DEFINE none == [index |-> 0, key |-> 0]
<1>1. UNCHANGED <<miner, gbt>> /\ WorkShape
  BY WorkTyped DEF Mining!GetWorkSubmit
<1>2. PICK b \in DOMAIN work.blocks :
        \/ work' = work /\ UNCHANGED <<tip, pool, mined>>
        \/ /\ work' = [work EXCEPT !.reserved = none] /\ work.blocks[b].parent = tip
           /\ pool' = Mining!Erased(pool, work.reserved)
           /\ Mining!ProcessBlock(work.blocks[b])
  BY DEF Mining!GetWorkSubmit, Mining!Stale, Mining!KeepKey, Mining!NoKey, MinerInv, WorkInv
<1>3. CASE work' = work /\ UNCHANGED <<tip, pool, mined>>
  <2>1. MinerTypeOK' /\ BlocksInv' /\ WorkInv'
    BY <1>1, <1>3 DEF MinerInv, MinerTypeOK, BlocksInv, WorkInv, PoolTyped
  <2>2. KeysInv'
    <3>1. \A s \in Threads : ThreadKeys(s)' \subseteq ThreadKeys(s)
      BY <1>1, <1>3 DEF ThreadKeys
    <3>2. WorkKeys' \subseteq WorkKeys
      BY <1>3 DEF WorkKeys
    <3> QED BY <1>1, <1>3, <3>1, <3>2, AllShrink DEF MinerInv
  <2> QED BY <2>1, <2>2 DEF MinerInv
<1>4. CASE /\ work' = [work EXCEPT !.reserved = none] /\ work.blocks[b].parent = tip
           /\ pool' = Mining!Erased(pool, work.reserved)
           /\ Mining!ProcessBlock(work.blocks[b])
  <2> DEFINE k == work.blocks[b].key
             u == <<"work", 0>>
  <2>1. work' = [prev |-> work.prev, current |-> work.current, blocks |-> work.blocks,
                 freed |-> work.freed, roots |-> work.roots, reserved |-> none,
                 making |-> work.making]
    BY <1>1, <1>4 DEF WorkShape
  <2>2. /\ WorkShape' /\ work'.prev = work.prev /\ work'.reserved = none
        /\ work'.blocks = work.blocks /\ work'.making = work.making
        /\ work'.freed = work.freed /\ work'.roots = work.roots /\ work'.current = work.current
    BY <2>1 DEF WorkShape
  <2>3. WorkInv'
    BY <2>2 DEF MinerInv, WorkInv
  <2>4. work.blocks[b] \in BlockType /\ k \in Nat
    BY BlocksTyped
  <2>5. TipStays /\ (mined' = mined \/ (tip' # tip /\ mined' = Append(mined, k)))
    BY <1>4, <2>4, BlockProcessed
  <2>6. tip[1] \in Nat /\ tip'[1] \in Nat /\ tip'[1] >= tip[1] /\ tip'[1] >= 1 /\ tip' \in Height
    BY <2>5 DEF MinerInv, MinerTypeOK, Height, TipStays
  <2>7. \A s \in Threads : ThreadKeys(s)' \subseteq ThreadKeys(s)
    BY <1>1, <2>5, SameThread
  <2>8. WorkKeys' \subseteq WorkKeys
    BY <2>2, <2>5, SameWork DEF SameBlocks
  <2>9. /\ u \in Users /\ Reserved[u] = work.reserved /\ Reserved'[u].index = 0
        /\ Owned[u] = WorkKeys /\ Owned'[u] = WorkKeys'
    <3>1. u \in Users /\ Reserved[u] = work.reserved /\ Reserved'[u] = work'.reserved
          /\ Owned[u] = WorkKeys /\ Owned'[u] = WorkKeys'
      BY DEF Owned, Reserved, Users
    <3> QED BY <2>2, <3>1
  <2>10. Others(u)
    <3> HIDE DEF u
    <3>1. u = <<"work", 0>>
      BY DEF u
    <3> QED BY <1>1, <2>7, <2>9, <3>1, OthersKeep
  <2>11. tip' # tip /\ k # 0 => k \in WorkKeys /\ k \notin WorkKeys'
    <3> SUFFICES ASSUME tip' # tip, k # 0
                 PROVE  k \in WorkKeys /\ k \notin WorkKeys'
      OBVIOUS
    <3>1. \A c \in DOMAIN work.blocks : work.blocks[c].parent # tip'
      <4>1. \A c \in DOMAIN work.blocks : /\ work.blocks[c].parent[1] \in Nat
                                          /\ work.blocks[c].parent[1] <= tip[1]
        BY BlocksTyped DEF MinerInv, BlocksInv
      <4>2. tip'[1] = tip[1] + 1
        BY <2>5 DEF TipStays
      <4> QED BY <2>6, <4>1, <4>2
    <3>2. k \in WorkKeys
      BY <1>4, <2>4 DEF WorkKeys
    <3>3. WorkKeys' = {}
      BY <2>2, <3>1 DEF WorkKeys
    <3> QED BY <3>2, <3>3
  <2>12. \/ mined' = mined
         \/ mined' = Append(mined, k) /\ (k = 0 \/ (k \in Owned[u] /\ k \notin Owned'[u]))
    BY <2>5, <2>9, <2>11
  <2>13. pool' = Mining!Erased(pool, Reserved[u]) /\ Owned'[u] \subseteq Owned[u]
    BY <1>4, <2>8, <2>9
  <2> HIDE DEF u, k, none
  <2>14. KeysInv' /\ mined' \in Seq(Nat) /\ PoolTyped(pool')
    BY <2>4, <2>9, <2>10, <2>12, <2>13, KeyPaid
  <2>15. MinerTypeOK'
    <3>1. work'.reserved \in Reservation
      BY <2>2, NothingTyped DEF none
    <3> QED BY <1>1, <2>2, <2>6, <2>14, <3>1, WorkTyped
          DEF MinerInv, MinerTypeOK, WorkShape, PoolTyped
  <2>16. BlocksInv'
    <3>1. \A c \in DOMAIN work.blocks : work.blocks[c].parent[1] \in Nat
      BY BlocksTyped
    <3>2. \A s \in Threads : miner[s].block.parent[1] \in Nat
      BY ThreadTyped DEF BlockType, Height
    <3> QED BY <1>1, <2>2, <2>6, <3>1, <3>2 DEF MinerInv, BlocksInv
  <2> QED BY <2>3, <2>14, <2>15, <2>16 DEF MinerInv
<1> QED BY <1>2, <1>3, <1>4

LEMMA MinerStarts ==
    Init => MinerInv
<1> SUFFICES ASSUME Mining!MinerInit
             PROVE  MinerInv
  BY DEF Init
<1> DEFINE nothing == [parent |-> <<0, 0>>, key |-> 0, height |-> 0]
           none == [index |-> 0, key |-> 0]
           off == [at |-> "off", prev |-> <<0, 0>>, block |-> nothing, reserved |-> none]
           n == PoolSize + 1
<1>1. /\ tip = <<1, 1>> /\ gbt = none
      /\ miner = [t \in Threads |-> off] /\ mined = <<>>
      /\ pool = [free |-> 1..n, keys |-> [i \in 1..n |-> i], next |-> PoolSize + 2,
                 overwritten |-> FALSE]
      /\ work = [prev |-> <<0, 0>>, current |-> 0, blocks |-> <<>>, freed |-> {},
                 roots |-> {}, reserved |-> none, making |-> FALSE]
  BY DEF Mining!MinerInit, Mining!Off, Mining!NoTip, Mining!NoBlock, Mining!NoKey
<1>2. /\ off \in ThreadType /\ off.block.parent = <<0, 0>> /\ off.block.key = 0
      /\ off.reserved = none /\ none \in Reservation /\ none.key = 0 /\ none.index = 0
  BY NothingTyped
<1>3. n \in Nat /\ PoolSize + 2 = n + 1
  BY NetworkAssumption DEF Mining!MinerAssumption
<1> HIDE DEF off, none, n
<1>4. tip \in Height /\ tip[1] = 1 /\ work.prev \in Height /\ tip # <<0, 0>>
  BY <1>1 DEF Height
<1>5. miner \in [Threads -> ThreadType] /\ \A t \in Threads : miner[t] = off
  BY <1>1, <1>2
<1>6. work.blocks = <<>> /\ DOMAIN work.blocks = {} /\ mined = <<>> /\ DOMAIN mined = {}
  BY <1>1
<1>7. /\ pool.free = 1..n /\ DOMAIN pool.keys = 1..n /\ \A i \in 1..n : pool.keys[i] = i
      /\ pool.next = n + 1 /\ \A i \in 1..n : i \in Nat \ {0} /\ i < n + 1
  BY <1>1, <1>3
<1>8. PoolTyped(pool)
  <2>1. Bounded(pool.free)
    BY <1>3, <1>7 DEF Bounded
  <2>2. pool.keys \in [DOMAIN pool.keys -> Nat \ {0}]
    BY <1>1, <1>7
  <2> QED BY <1>1, <1>3, <1>7, <2>1, <2>2 DEF PoolTyped
<1>9. MinerTypeOK
  BY <1>1, <1>2, <1>4, <1>5, <1>6, <1>8 DEF MinerTypeOK
<1>10. BlocksInv /\ WorkInv
  BY <1>1, <1>2, <1>4, <1>5, <1>6 DEF BlocksInv, WorkInv
<1>11. \A u \in Users : Owned[u] = {} /\ Reserved[u].index = 0
  <2>1. \A t \in Threads : ThreadKeys(t) = {}
    BY <1>2, <1>4, <1>5 DEF ThreadKeys
  <2>2. WorkKeys = {} /\ GbtKeys = {} /\ work.reserved = none
    BY <1>1, <1>2, <1>6 DEF WorkKeys, GbtKeys
  <2> QED BY <1>1, <1>2, <1>5, <2>1, <2>2, OwnedFacts
<1>12. Keys(Owned, Reserved, pool, Mined) /\ Distinct(mined)
  <2>1. Mined = {} /\ Distinct(mined)
    BY <1>6 DEF Mined, Distinct
  <2>2. \A k \in PoolKeys(pool) : k < pool.next
    BY <1>7 DEF PoolKeys
  <2>3. Apart(Owned, PoolKeys(pool), Mined, pool.next)
    BY <1>11, <2>1, <2>2 DEF Apart
  <2> QED BY <1>7, <1>11, <2>1, <2>3 DEF Keys
<1> QED BY <1>9, <1>10, <1>12 DEF MinerInv, KeysInv

LEMMA MinerKept ==
    MinerInv /\ [Next]_vars => MinerInv'
<1> SUFFICES ASSUME MinerInv, [Next]_vars
             PROVE  MinerInv'
  OBVIOUS
<1>1. CASE UNCHANGED Mining!minerVars
  <2>1. MinerTypeOK' /\ BlocksInv' /\ WorkInv'
    BY <1>1 DEF MinerInv, MinerTypeOK, BlocksInv, WorkInv, PoolTyped, Mining!minerVars
  <2>2. KeysInv'
    <3>1. \A s \in Threads : ThreadKeys(s)' \subseteq ThreadKeys(s)
      BY <1>1 DEF ThreadKeys, Mining!minerVars
    <3>2. WorkKeys' \subseteq WorkKeys
      BY <1>1 DEF WorkKeys, Mining!minerVars
    <3> QED BY <1>1, <3>1, <3>2, AllShrink DEF MinerInv, Mining!minerVars
  <2> QED BY <2>1, <2>2 DEF MinerInv
<1>2. CASE Mining!MinerNext
  <2>1. ASSUME NEW t \in Threads,
               \/ Mining!Leave(t) \/ Mining!ReadBest(t) \/ Mining!StartSearch(t)
               \/ Mining!Found(t) \/ Mining!NextRound(t)
        PROVE  MinerInv'
    BY <2>1, LeaveKeeps, RoundKeeps, SearchKeeps, FoundKeeps
  <2>2. CASE Mining!SetGenerate
    BY <2>2, GenerateKeeps DEF Mining!SetGenerate
  <2> QED BY <1>2, <2>1, <2>2, TipMoves, ReadsKeep, CreatesKeep, AgainKeeps, SubmitKeeps,
             TemplateKeeps, AddressKeeps DEF Mining!MinerNext
<1> QED BY <1>1, <1>2 DEF Next, vars, minerVars, Mining!minerVars, ConnectionStep, AddressStep,
           StreamStep, AlertStep, PingStep, TimeStep, StartStep, MinerStep

(* As long as no refill of the key pool wrote over the record of a reserved   *)
(* key, the blocks of a node pay keys of the pool, each once, or the default  *)
(* key; and an entry of getwork leads to a block that is there: for any       *)
(* threads, size of the pool, bounds and moves of the best chain (CoinMiner,  *)
(* getwork, getblocktemplate, CheckWork, CReserveKey).                        *)
THEOREM KeysPayOnce == Spec => []MiningSound
<1>1. Init => MinerInv
  BY MinerStarts
<1>2. MinerInv /\ [Next]_vars => MinerInv'
  BY MinerKept
<1>3. MinerInv => MiningSound
  <2> SUFFICES ASSUME MinerInv
               PROVE  MiningSound
    OBVIOUS
  <2>1. Mining!MinedKeysDistinct
    BY DEF Mining!MinedKeysDistinct, Mining!DefaultKey, MinerInv, KeysInv, Distinct
  <2>2. Mining!WorkIsLive
    BY DEF Mining!WorkIsLive, MinerInv, WorkInv
  <2> QED BY <2>1, <2>2 DEF MiningSound
<1> QED BY <1>1, <1>2, <1>3, PTL DEF Spec

-----------------------------------------------------------------------------
(* The network's time.  The median of an odd number of samples, of which less *)
(* than half are wrong, lies between samples that are right.                  *)

Samples == [offset : Int, of : TimePeers \cup {"self"}]
Near(o) == -Honest <= o /\ o <= Honest

LEMMA BoundedValues ==
    ASSUME NEW n \in Nat, NEW f \in [1 .. n -> Int]
    PROVE  \E b \in Nat : \A i \in 1 .. n : -b <= f[i] /\ f[i] <= b
<1> DEFINE Within(k) == \E b \in Nat : \A i \in 1 .. k : -b <= f[i] /\ f[i] <= b
           T == {k \in 0 .. n : ~Within(k)}
<1>1. Within(0)
  <2>1. \A i \in 1 .. 0 : -0 <= f[i] /\ f[i] <= 0
    OBVIOUS
  <2> QED BY <2>1
<1>2. ASSUME NEW k \in 1 .. n, Within(k - 1) PROVE Within(k)
  <2>1. PICK b \in Nat : \A i \in 1 .. k - 1 : -b <= f[i] /\ f[i] <= b
    BY <1>2
  <2>2. f[k] \in Int
    OBVIOUS
  <2> DEFINE c == b + (IF f[k] >= 0 THEN f[k] ELSE -f[k])
  <2>3. c \in Nat /\ b <= c /\ -c <= f[k] /\ f[k] <= c
    BY <2>2
  <2> HIDE DEF c
  <2>4. ASSUME NEW i \in 1 .. k PROVE -c <= f[i] /\ f[i] <= c
    <3>1. CASE i = k
      BY <2>3, <3>1
    <3>2. CASE i # k
      <4>1. i \in 1 .. k - 1 /\ f[i] \in Int
        BY <3>2
      <4> QED BY <2>1, <2>3, <4>1
    <3> QED BY <3>1, <3>2
  <2> QED BY <2>3, <2>4
<1> HIDE DEF Within
<1>3. ASSUME T # {} PROVE FALSE
  <2>1. PICK m \in T : \A k \in T : m <= k
    <3>1. T \subseteq Nat
      OBVIOUS
    <3> HIDE DEF T
    <3> QED BY <1>3, <3>1, LeastNatural
  <2>2. m \in 1 .. n
    BY <1>1, <2>1
  <2>3. m - 1 \in 0 .. n /\ m - 1 < m
    BY <2>2
  <2>4. Within(m - 1)
    BY <2>1, <2>2, <2>3
  <2> QED BY <1>2, <2>1, <2>2, <2>4
<1>4. Within(n)
  BY <1>3
<1> QED BY <1>4 DEF Within

LEMMA SamplesFacts ==
    ASSUME NEW V \in Seq(Samples)
    PROVE  Len(V) \in Nat /\ DOMAIN V = 1 .. Len(V) /\ \A i \in 1 .. Len(V) : V[i].offset \in Int
<1>1. Len(V) \in Nat /\ DOMAIN V = 1 .. Len(V) /\ \A i \in 1 .. Len(V) : V[i] \in Samples
  OBVIOUS
<1> QED BY <1>1 DEF Samples

LEMMA TimeCardinality ==
    ASSUME NEW S PROVE Time!Cardinality(S) = Cardinality(S)
BY Zenon DEF Time!Cardinality, Cardinality

LEMMA RankCounts ==
    ASSUME NEW V, NEW x
    PROVE  /\ Time!Below(V, x) = Cardinality({i \in DOMAIN V : V[i].offset < x})
           /\ Time!UpTo(V, x) = Cardinality({i \in DOMAIN V : V[i].offset <= x})
BY TimeCardinality DEF Time!Below, Time!UpTo

LEMMA RankExists ==
    ASSUME NEW V \in Seq(Samples), NEW k \in 1 .. Len(V)
    PROVE  /\ Time!Ranked(V, k) \in Int
           /\ Time!Below(V, Time!Ranked(V, k)) < k /\ k <= Time!UpTo(V, Time!Ranked(V, k))
<1> DEFINE n == Len(V)
           Vals == {V[i].offset : i \in 1 .. n}
<1>1. n \in Nat /\ DOMAIN V = 1 .. n /\ \A i \in 1 .. n : V[i].offset \in Int
  BY SamplesFacts
<1>2. Vals \subseteq Int
  BY <1>1
<1>3. PICK b \in Nat : \A x \in Vals : -b <= x /\ x <= b
  <2> DEFINE f == [i \in 1 .. n |-> V[i].offset]
  <2>1. f \in [1 .. n -> Int]
    BY <1>1
  <2>2. \A i \in 1 .. n : f[i] = V[i].offset
    OBVIOUS
  <2> HIDE DEF f
  <2>3. PICK b \in Nat : \A i \in 1 .. n : -b <= f[i] /\ f[i] <= b
    BY <1>1, <2>1, BoundedValues
  <2> QED BY <2>2, <2>3
<1>4. \A x : /\ IsFiniteSet({i \in 1 .. n : V[i].offset < x})
             /\ IsFiniteSet({i \in 1 .. n : V[i].offset <= x})
  <2>1. IsFiniteSet(1 .. n)
    BY <1>1, FS_Interval
  <2> QED BY <2>1, FS_Subset
<1> DEFINE G == {x \in Vals : k <= Time!UpTo(V, x)}
<1>5. G # {}
  <2> DEFINE top == Max(Vals)
  <2>1. Vals # {}
    BY <1>1
  <2>2. top \in Vals /\ \A x \in Vals : x <= top
    <3>1. b \in Int /\ \A x \in Vals : x <= b
      BY <1>3
    <3> HIDE DEF Vals
    <3> QED BY <1>2, <2>1, <3>1, GreatestInteger
  <2>3. {i \in DOMAIN V : V[i].offset <= top} = 1 .. n
    BY <1>1, <2>2
  <2>4. Cardinality(1 .. n) = n
    BY <1>1, FS_Interval
  <2> HIDE DEF top
  <2>5. Time!UpTo(V, top) = n
    BY <2>3, <2>4, RankCounts, Zenon
  <2>6. top \in G
    BY <1>1, <2>2, <2>5
  <2> QED BY <2>6
<1>6. PICK v \in G : \A x \in G : v <= x
  <2> HIDE DEF G, Vals
  <2>1. G \subseteq Vals
    BY DEF G
  <2> DEFINE T == {j \in Nat : j - b \in G}
  <2>2. T # {}
    <3>1. PICK x \in G : TRUE
      BY <1>5
    <3>2. x \in Int /\ -b <= x
      BY <1>2, <1>3, <2>1, <3>1
    <3>3. x + b \in Nat /\ (x + b) - b = x
      BY <3>2
    <3> QED BY <3>1, <3>3
  <2>3. PICK m \in T : \A j \in T : m <= j
    <3>1. T \subseteq Nat
      OBVIOUS
    <3> HIDE DEF T
    <3> QED BY <2>2, <3>1, LeastNatural
  <2>4. ASSUME NEW x \in G PROVE m - b <= x
    <3>1. x \in Int /\ -b <= x
      BY <1>2, <1>3, <2>1
    <3>2. x + b \in Nat /\ (x + b) - b = x
      BY <3>1
    <3>3. x + b \in T
      BY <3>2
    <3> QED BY <2>3, <3>1, <3>3
  <2> QED BY <2>3, <2>4
<1>7. ASSUME k <= Time!Below(V, v) PROVE FALSE
  <2> DEFINE Lower == {x \in Vals : x < v}
             u == Max(Lower)
  <2>1. Lower # {}
    <3> DEFINE I == {i \in DOMAIN V : V[i].offset < v}
    <3>1. I # {}
      <4>1. k <= Cardinality(I)
        BY <1>7, RankCounts
      <4>2. Cardinality({}) = 0
        BY FS_EmptySet
      <4>3. k \in Nat \ {0}
        BY <1>1
      <4> HIDE DEF I
      <4>4. ASSUME I = {} PROVE FALSE
        <5>1. k <= Cardinality({})
          BY <4>1, <4>4, Zenon
        <5> QED BY <4>2, <4>3, <5>1
      <4> QED BY <4>4
    <3> QED BY <1>1, <3>1
  <2>2. u \in Lower /\ \A x \in Lower : x <= u
    <3>1. b \in Int /\ Lower \subseteq Int /\ \A x \in Lower : x <= b
      BY <1>2, <1>3
    <3> HIDE DEF Lower
    <3> QED BY <2>1, <3>1, GreatestInteger
  <2>3. {i \in DOMAIN V : V[i].offset < v} = {i \in DOMAIN V : V[i].offset <= u}
    <3> HIDE DEF u
    <3>1. u \in Int /\ v \in Int
      BY <1>2, <2>2
    <3>2. ASSUME NEW i \in DOMAIN V
          PROVE  V[i].offset < v <=> V[i].offset <= u
      <4>1. V[i].offset \in Vals /\ V[i].offset \in Int
        BY <1>1
      <4> QED BY <2>2, <3>1, <4>1
    <3> QED BY <3>2
  <2> HIDE DEF u
  <2>4. Time!UpTo(V, u) = Time!Below(V, v)
    <3>1. Time!UpTo(V, u) = Cardinality({i \in DOMAIN V : V[i].offset <= u})
      BY RankCounts
    <3>2. Time!Below(V, v) = Cardinality({i \in DOMAIN V : V[i].offset < v})
      BY RankCounts
    <3> QED BY <2>3, <3>1, <3>2, Zenon
  <2>5. u \in G /\ u < v
    BY <1>7, <2>2, <2>4
  <2>6. u \in Int /\ v \in Int
    BY <1>2, <1>6, <2>2
  <2> HIDE DEF G
  <2> QED BY <1>6, <2>5, <2>6
<1>8. Time!Below(V, v) \in Nat
  <2>1. IsFiniteSet({i \in DOMAIN V : V[i].offset < v})
    BY <1>1, <1>4
  <2> QED BY <2>1, FS_CardinalityType, RankCounts
<1>9. \E x \in {V[i].offset : i \in DOMAIN V} : Time!Below(V, x) < k /\ k <= Time!UpTo(V, x)
  <2>1. Time!Below(V, v) < k
    BY <1>7, <1>8
  <2> QED BY <1>1, <1>6, <2>1
<1>10. /\ Time!Ranked(V, k) \in {V[i].offset : i \in DOMAIN V}
       /\ Time!Below(V, Time!Ranked(V, k)) < k /\ k <= Time!UpTo(V, Time!Ranked(V, k))
  BY <1>9 DEF Time!Ranked
<1> QED BY <1>1, <1>10

LEMMA MedianNear ==
    ASSUME NEW V \in Seq(Samples), NEW k \in Nat, Len(V) = 2 * k + 1, Honest \in Nat
    PROVE  /\ Time!Median(V) \in Int
           /\ Cardinality({i \in 1 .. Len(V) : ~Near(V[i].offset)}) <= k => Near(Time!Median(V))
<1> DEFINE n == Len(V)
           Bad == {i \in 1 .. n : ~Near(V[i].offset)}
           r == Time!Ranked(V, k + 1)
           Under == {i \in 1 .. n : V[i].offset < r}
           Upto == {i \in 1 .. n : V[i].offset <= r}
<1>1. n \in Nat /\ DOMAIN V = 1 .. n /\ k + 1 \in 1 .. n
  OBVIOUS
<1>2. Time!Median(V) = r
  <2>1. n % 2 = 1 /\ n \div 2 + 1 = k + 1
    OBVIOUS
  <2> QED BY <2>1 DEF Time!Median
<1>3. /\ r \in Int /\ Cardinality(Under) < k + 1 /\ k + 1 <= Cardinality(Upto)
  <2>1. /\ r \in Int /\ Time!Below(V, r) < k + 1 /\ k + 1 <= Time!UpTo(V, r)
    BY <1>1, RankExists
  <2>2. Time!Below(V, r) = Cardinality(Under) /\ Time!UpTo(V, r) = Cardinality(Upto)
    BY <1>1, RankCounts, Zenon
  <2> QED BY <2>1, <2>2
<1>4. \A i \in 1 .. n : V[i].offset \in Int
  BY SamplesFacts
<1>5. IsFiniteSet(1 .. n) /\ Cardinality(1 .. n) = n
  BY <1>1, FS_Interval
<1> HIDE DEF r
<1>6. /\ IsFiniteSet(Bad) /\ IsFiniteSet(Under) /\ IsFiniteSet(Upto)
      /\ Cardinality(Bad) \in Nat /\ Cardinality(Under) \in Nat /\ Cardinality(Upto) \in Nat
  <2>1. Bad \in SUBSET (1 .. n) /\ Under \in SUBSET (1 .. n) /\ Upto \in SUBSET (1 .. n)
    OBVIOUS
  <2> HIDE DEF Bad, Under, Upto
  <2>2. IsFiniteSet(Bad) /\ IsFiniteSet(Under) /\ IsFiniteSet(Upto)
    BY <1>5, <2>1, FS_Subset
  <2> QED BY <2>2, FS_CardinalityType
<1>7. ASSUME Cardinality(Bad) <= k, ~(r <= Honest) PROVE FALSE
  <2>1. Under \cup Bad = 1 .. n
    BY <1>3, <1>4, <1>7 DEF Near
  <2> HIDE DEF Under, Bad
  <2>2. Cardinality(Under \cup Bad) = Cardinality(Under) + Cardinality(Bad) - Cardinality(Under \cap Bad)
    BY <1>6, FS_Union
  <2>3. Cardinality(Under \cap Bad) \in Nat
    <3>1. Under \cap Bad \in SUBSET Bad
      OBVIOUS
    <3> QED BY <1>6, <3>1, FS_Subset, FS_CardinalityType
  <2>4. Cardinality(Under) <= k /\ n = 2 * k + 1
    BY <1>3, <1>6
  <2>5. n = Cardinality(Under) + Cardinality(Bad) - Cardinality(Under \cap Bad)
    BY <1>5, <2>1, <2>2
  <2> HIDE DEF n
  <2> QED BY <1>6, <1>7, <2>3, <2>4, <2>5
<1>8. ASSUME Cardinality(Bad) <= k, ~(-Honest <= r) PROVE FALSE
  <2>1. Upto \in SUBSET Bad
    BY <1>3, <1>4, <1>8 DEF Near
  <2> HIDE DEF Upto, Bad
  <2>2. Cardinality(Upto) <= Cardinality(Bad)
    BY <1>6, <2>1, FS_Subset
  <2> QED BY <1>3, <1>6, <1>8, <2>2
<1> QED BY <1>2, <1>3, <1>7, <1>8 DEF Near

(* While the filter has room, it holds a zero of our own and one sample of    *)
(* each peer that has given one.                                              *)
SamplesHeld ==
    /\ values \in Seq(Samples) /\ values # <<>> /\ IsFiniteSet(setKnown)
    /\ Len(values) < FilterSize =>
         /\ Len(values) = Cardinality(setKnown) + 1
         /\ values[1].offset = 0
         /\ \A i \in 2 .. Len(values) :
               /\ values[i].of \in setKnown
               /\ values[i].of \notin Liars => Near(values[i].offset)
         /\ \A i, j \in 2 .. Len(values) : values[i].of = values[j].of => i = j

(* The offset was right when it was last set: the next sample comes before it *)
(* is set again, and counts for or against the same majority.                 *)
OffsetRight ==
    /\ nPeersOffset \in Int /\ nNtpOffset \in Int
    /\ Len(values) < FilterSize =>
         /\ Len(values) < 5 => nPeersOffset = Time!Unset
         /\ 2 * Cardinality(setKnown \cap Liars) <= Cardinality(setKnown) =>
              nPeersOffset = Time!Unset \/ Near(nPeersOffset)

TimeInv == SamplesHeld /\ OffsetRight

(* Less than half of the samples are wrong when no more than half of the      *)
(* peers are: the first sample is our own.                                    *)
LEMMA FewWrong ==
    ASSUME NEW V \in Seq(Samples), NEW K, IsFiniteSet(K), Honest \in Nat, V[1].offset = 0,
           \A i \in 2 .. Len(V) : V[i].of \in K /\ (V[i].of \notin Liars => Near(V[i].offset)),
           \A i, j \in 2 .. Len(V) : V[i].of = V[j].of => i = j
    PROVE  Cardinality({i \in 1 .. Len(V) : ~Near(V[i].offset)}) <= Cardinality(K \cap Liars)
<1> DEFINE Bad == {i \in 1 .. Len(V) : ~Near(V[i].offset)}
           f == [i \in Bad |-> V[i].of]
<1>1. 1 \notin Bad
  BY DEF Near
<1>2. Bad \subseteq 2 .. Len(V)
  BY <1>1
<1>3. \A i \in Bad : V[i].of \in K \cap Liars
  BY <1>2
<1>4. IsFiniteSet(K \cap Liars)
  <2>1. K \cap Liars \in SUBSET K
    OBVIOUS
  <2> QED BY <2>1, FS_Subset
<1>5. \A i, j \in Bad : V[i].of = V[j].of => i = j
  BY <1>2
<1> HIDE DEF Bad
<1>6. f \in Injection(Bad, K \cap Liars)
  BY <1>3, <1>5 DEF Injection, IsInjective
<1> HIDE DEF f
<1>7. Cardinality(Bad) <= Cardinality(K \cap Liars)
  BY <1>4, <1>6, FS_Injection
<1> QED BY <1>7 DEF Bad

LEMMA AddTimeDataKeeps ==
    ASSUME TimeInv, Time!TimeAssumption, NEW p \in TimePeers, NEW o \in TimeOffsets,
           p \notin Liars => Time!abs64(o) <= Honest, Time!AddTimeData(p, o)
    PROVE  TimeInv'
<1> DEFINE e == [offset |-> o, of |-> p]
           n == Len(values)
           c == Cardinality(setKnown)
           l == Cardinality(setKnown \cap Liars)
<1>1. /\ p \notin setKnown /\ setKnown' = setKnown \cup {p}
      /\ values' = Time!Filtered(e) /\ nNtpOffset' = nNtpOffset
      /\ IF Len(values') >= 5 /\ Len(values') % 2 = 1
         THEN nPeersOffset' = IF Time!abs64(Time!Median(values')) < Hour
                              THEN Time!Median(values') ELSE Time!Unset
         ELSE nPeersOffset' = nPeersOffset
  BY DEF Time!AddTimeData, Time!Counts
<1>2. /\ o \in Int /\ e \in Samples /\ (p \notin Liars => Near(o))
      /\ Honest \in Nat /\ FilterSize \in Nat /\ Time!Unset \in Int
  <2>1. o \in Int /\ Honest \in Nat
    BY DEF Time!TimeAssumption
  <2> QED BY <2>1 DEF Samples, Near, Time!abs64, Time!TimeAssumption, Time!Unset
<1>3. values \in Seq(Samples) /\ values # <<>> /\ n \in Nat \ {0} /\ IsFiniteSet(setKnown)
  BY DEF TimeInv, SamplesHeld
<1>4. /\ IsFiniteSet(setKnown') /\ c \in Nat /\ l \in Nat
      /\ Cardinality(setKnown') = c + 1
      /\ Cardinality(setKnown' \cap Liars) \in Nat /\ l <= Cardinality(setKnown' \cap Liars)
  <2>1. IsFiniteSet(setKnown') /\ c \in Nat /\ Cardinality(setKnown') = c + 1
    BY <1>1, <1>3, FS_AddElement, FS_CardinalityType
  <2>2. IsFiniteSet(setKnown' \cap Liars)
    <3>1. setKnown' \cap Liars \in SUBSET setKnown'
      OBVIOUS
    <3> QED BY <2>1, <3>1, FS_Subset
  <2>3. setKnown \cap Liars \in SUBSET (setKnown' \cap Liars)
    BY <1>1
  <2>4. IsFiniteSet(setKnown \cap Liars) /\ l <= Cardinality(setKnown' \cap Liars)
    BY <2>2, <2>3, FS_Subset
  <2> QED BY <2>1, <2>2, <2>4, FS_CardinalityType
<1>5. CASE n = FilterSize
  <2>1. values' = Append(Tail(values), e)
    BY <1>1, <1>5 DEF Time!Filtered
  <2>2. Tail(values) \in Seq(Samples) /\ Len(Tail(values)) = n - 1
    BY <1>3
  <2>3. values' \in Seq(Samples) /\ Len(values') = n /\ values' # <<>>
    BY <1>2, <1>3, <2>1, <2>2
  <2>4. nPeersOffset' \in Int
    <3>1. CASE Len(values') >= 5 /\ Len(values') % 2 = 1
      <4>1. Len(values') = 2 * (n \div 2) + 1 /\ n \div 2 \in Nat
        BY <1>3, <2>3, <3>1
      <4>2. Time!Median(values') \in Int
        BY <1>2, <2>3, <4>1, MedianNear
      <4> QED BY <1>1, <1>2, <3>1, <4>2
    <3>2. CASE ~(Len(values') >= 5 /\ Len(values') % 2 = 1)
      BY <1>1, <3>2 DEF TimeInv, OffsetRight
    <3> QED BY <3>1, <3>2
  <2>5. ~(Len(values') < FilterSize)
    BY <1>3, <1>5, <2>3
  <2>6. SamplesHeld'
    BY <1>4, <2>3, <2>5 DEF SamplesHeld
  <2>7. OffsetRight'
    BY <1>1, <2>4, <2>5 DEF TimeInv, OffsetRight
  <2> QED BY <2>6, <2>7 DEF TimeInv
<1>6. CASE n # FilterSize
  <2>1. values' = Append(values, e)
    BY <1>1, <1>6 DEF Time!Filtered
  <2>2. /\ values' \in Seq(Samples) /\ Len(values') = n + 1 /\ values' # <<>>
        /\ \A i \in 1 .. n : values'[i] = values[i]
        /\ values'[n + 1] = e
    BY <1>2, <1>3, <2>1
  <2>3. SamplesHeld'
    <3> SUFFICES ASSUME Len(values') < FilterSize
                 PROVE  /\ Len(values') = Cardinality(setKnown') + 1
                        /\ values'[1].offset = 0
                        /\ \A i \in 2 .. Len(values') :
                              /\ values'[i].of \in setKnown'
                              /\ values'[i].of \notin Liars => Near(values'[i].offset)
                        /\ \A i, j \in 2 .. Len(values') : values'[i].of = values'[j].of => i = j
      BY <1>4, <2>2, Zenon DEF SamplesHeld, Near
    <3>1. n < FilterSize
      BY <1>2, <1>3, <2>2
    <3>2. /\ n = c + 1 /\ values[1].offset = 0
          /\ \A i \in 2 .. n : /\ values[i].of \in setKnown
                               /\ values[i].of \notin Liars => Near(values[i].offset)
          /\ \A i, j \in 2 .. n : values[i].of = values[j].of => i = j
      BY <3>1 DEF TimeInv, SamplesHeld
    <3>3. Len(values') = Cardinality(setKnown') + 1 /\ values'[1].offset = 0
      BY <1>3, <1>4, <2>2, <3>2
    <3>4. \A i \in 2 .. Len(values') : i = n + 1 \/ (i \in 2 .. n /\ i \in 1 .. n)
      BY <1>3, <2>2
    <3>5. \A i \in 2 .. Len(values') : /\ values'[i].of \in setKnown'
                                       /\ values'[i].of \notin Liars => Near(values'[i].offset)
      <4> SUFFICES ASSUME NEW i \in 2 .. Len(values')
                   PROVE  /\ values'[i].of \in setKnown'
                          /\ values'[i].of \notin Liars => Near(values'[i].offset)
        OBVIOUS
      <4>1. CASE i = n + 1
        <5>1. values'[i].of = p /\ values'[i].offset = o
          BY <2>2, <4>1
        <5> QED BY <1>1, <1>2, <5>1
      <4>2. CASE i \in 2 .. n /\ i \in 1 .. n
        BY <1>1, <2>2, <3>2, <4>2
      <4> QED BY <3>4, <4>1, <4>2
    <3>6. ASSUME NEW i \in 2 .. Len(values'), NEW j \in 2 .. Len(values'),
                 values'[i].of = values'[j].of
          PROVE  i = j
      <4>1. values'[n + 1].of = p
        BY <2>2
      <4>2. \A m \in 2 .. n : m \in 1 .. n => values'[m].of # p
        BY <1>1, <2>2, <3>2
      <4>3. CASE i = n + 1
        BY <3>4, <3>6, <4>1, <4>2, <4>3
      <4>4. CASE j = n + 1
        BY <3>4, <3>6, <4>1, <4>2, <4>4
      <4>5. CASE i \in 2 .. n /\ i \in 1 .. n /\ j \in 2 .. n /\ j \in 1 .. n
        BY <2>2, <3>2, <3>6, <4>5
      <4> QED BY <3>4, <4>3, <4>4, <4>5
    <3> QED BY <3>3, <3>5, <3>6
  <2>4. nPeersOffset' \in Int
    <3>1. CASE Len(values') >= 5 /\ Len(values') % 2 = 1
      <4>1. Len(values') = 2 * ((n + 1) \div 2) + 1 /\ (n + 1) \div 2 \in Nat
        BY <1>3, <2>2, <3>1
      <4>2. Time!Median(values') \in Int
        BY <1>2, <2>2, <4>1, MedianNear
      <4> QED BY <1>1, <1>2, <3>1, <4>2
    <3>2. CASE ~(Len(values') >= 5 /\ Len(values') % 2 = 1)
      BY <1>1, <3>2 DEF TimeInv, OffsetRight
    <3> QED BY <3>1, <3>2
  <2>5. ASSUME Len(values') < FilterSize, Len(values') < 5 PROVE nPeersOffset' = Time!Unset
    <3>1. n < FilterSize /\ n < 5
      BY <1>2, <1>3, <2>2, <2>5
    <3> QED BY <1>1, <2>5, <3>1 DEF TimeInv, OffsetRight
  <2>6. ASSUME Len(values') < FilterSize,
               2 * Cardinality(setKnown' \cap Liars) <= Cardinality(setKnown')
        PROVE  nPeersOffset' = Time!Unset \/ Near(nPeersOffset')
    <3>1. n < FilterSize /\ n = c + 1
      BY <1>2, <1>3, <2>2, <2>6 DEF TimeInv, SamplesHeld
    <3>2. CASE Len(values') >= 5 /\ Len(values') % 2 = 1
      <4> DEFINE k == (n + 1) \div 2
      <4>1. Len(values') = 2 * k + 1 /\ k \in Nat
        BY <1>3, <2>2, <3>2
      <4>2. Cardinality({i \in 1 .. Len(values') : ~Near(values'[i].offset)})
              <= Cardinality(setKnown' \cap Liars)
        <5>1. /\ values'[1].offset = 0
              /\ \A i \in 2 .. Len(values') :
                    /\ values'[i].of \in setKnown'
                    /\ values'[i].of \notin Liars => Near(values'[i].offset)
              /\ \A i, j \in 2 .. Len(values') : values'[i].of = values'[j].of => i = j
          BY <2>3, <2>6 DEF SamplesHeld, Near
        <5> QED BY <1>2, <1>4, <2>2, <5>1, FewWrong
      <4>3. Cardinality(setKnown' \cap Liars) <= k
        <5>1. Cardinality(setKnown') = 2 * k
          <6>1. Cardinality(setKnown') = c + 1 /\ Len(values') = n + 1
            BY <1>4, <2>2
          <6> HIDE DEF k, c, n
          <6> QED BY <1>3, <1>4, <3>1, <4>1, <6>1
        <5> HIDE DEF k
        <5> QED BY <1>4, <2>6, <4>1, <5>1
      <4>4. Cardinality({i \in 1 .. Len(values') : ~Near(values'[i].offset)}) \in Nat
        <5> DEFINE B == {i \in 1 .. Len(values') : ~Near(values'[i].offset)}
        <5>1. B \in SUBSET (1 .. Len(values')) /\ Len(values') \in Int
          BY <2>2
        <5> HIDE DEF B
        <5>2. IsFiniteSet(1 .. Len(values'))
          BY <5>1, FS_Interval
        <5>3. IsFiniteSet(B)
          BY <5>1, <5>2, FS_Subset
        <5>4. Cardinality(B) \in Nat
          BY <5>3, FS_CardinalityType
        <5> QED BY <5>4 DEF B
      <4>5. Cardinality({i \in 1 .. Len(values') : ~Near(values'[i].offset)}) <= k
        BY <1>4, <4>1, <4>2, <4>3, <4>4
      <4> HIDE DEF k
      <4>6. Near(Time!Median(values'))
        BY <1>2, <2>2, <4>1, <4>5, MedianNear
      <4> QED BY <1>1, <3>2, <4>6
    <3>3. CASE ~(Len(values') >= 5 /\ Len(values') % 2 = 1)
      <4>1. nPeersOffset' = nPeersOffset
        BY <1>1, <3>3
      <4>2. CASE Len(values') < 5
        BY <2>5, <2>6, <4>2
      <4>3. CASE Len(values') % 2 # 1
        <5>1. 2 * l <= c
          <6>1. c = 2 * (c \div 2)
            BY <1>3, <1>4, <2>2, <3>1, <4>3
          <6>2. 2 * l <= c + 1
            BY <1>4, <2>6
          <6> HIDE DEF c, l
          <6> QED BY <1>4, <6>1, <6>2
        <5> QED BY <3>1, <4>1, <5>1 DEF TimeInv, OffsetRight
      <4> QED BY <2>2, <3>3, <4>2, <4>3
    <3> QED BY <3>2, <3>3
  <2>7. OffsetRight'
    BY <1>1, <2>4, <2>5, <2>6 DEF TimeInv, OffsetRight, Near
  <2> QED BY <2>3, <2>7 DEF TimeInv
<1> QED BY <1>5, <1>6

LEMMA TimeKept ==
    ASSUME TimeInv, [Next]_vars
    PROVE  TimeInv'
<1>1. Time!TimeAssumption
  BY NetworkAssumption
<1>2. CASE Time!TimeNext
  <2>1. CASE \E p \in TimePeers, o \in TimeOffsets :
               (p \notin Liars => Time!abs64(o) <= Honest) /\ Time!AddTimeData(p, o)
    BY <1>1, <2>1, AddTimeDataKeeps
  <2>2. CASE \E o \in TimeOffsets : Time!NtpAnswer(o)
    <3>1. /\ UNCHANGED <<setKnown, values, nPeersOffset>> /\ nNtpOffset' \in Int
      BY <1>1, <2>2 DEF Time!NtpAnswer, Time!TimeAssumption
    <3> QED BY <3>1 DEF TimeInv, SamplesHeld, OffsetRight
  <2>3. CASE Time!NtpFailure
    <3>1. /\ UNCHANGED <<setKnown, values, nPeersOffset>> /\ nNtpOffset' \in Int
      BY <2>3 DEF Time!NtpFailure, Time!Unset, TimeInv, OffsetRight
    <3> QED BY <3>1 DEF TimeInv, SamplesHeld, OffsetRight
  <2> QED BY <1>2, <2>1, <2>2, <2>3 DEF Time!TimeNext
<1>3. CASE UNCHANGED timeVars
  BY <1>3 DEF TimeInv, SamplesHeld, OffsetRight, timeVars
<1> QED BY <1>2, <1>3 DEF Next, ConnectionStep, AddressStep, StreamStep, AlertStep, PingStep,
           TimeStep, StartStep, MinerStep, vars

LEMMA TimeStarts ==
    ASSUME Init
    PROVE  TimeInv
<1>1. /\ setKnown = {} /\ values = <<[offset |-> 0, of |-> "self"]>>
      /\ nPeersOffset = Time!Unset /\ nNtpOffset = Time!Unset
  BY DEF Init, Time!TimeInit
<1>2. values \in Seq(Samples) /\ values # <<>> /\ Len(values) = 1 /\ values[1].offset = 0
  BY <1>1 DEF Samples
<1>3. IsFiniteSet({}) /\ Cardinality({}) = 0
  BY FS_EmptySet
<1>4. SamplesHeld
  BY <1>1, <1>2, <1>3 DEF SamplesHeld
<1>5. OffsetRight
  BY <1>1, <1>2 DEF OffsetRight, Time!Unset
<1> QED BY <1>4, <1>5 DEF TimeInv

(* The adjusted time follows the right clocks while no more than half of the  *)
(* peers that gave a sample are wrong, in any order of the samples and with   *)
(* any number of version messages from each, and is never an hour off         *)
(* (util.cpp:1243-1316).                                                      *)
THEOREM MajorityTellsTime == Spec => []TimeFollowsMajority
<1>1. Init => TimeInv
  BY TimeStarts
<1>2. TimeInv /\ [Next]_vars => TimeInv'
  BY TimeKept
<1>3. TimeInv => TimeFollowsMajority
  <2> SUFFICES ASSUME TimeInv PROVE Time!TimeFollowsMajority
    BY DEF TimeFollowsMajority
  <2>1. /\ Honest \in Nat /\ Hour \in 1 .. Time!Unset /\ Time!Unset = 10000
        /\ nPeersOffset \in Int /\ nNtpOffset \in Int
    BY NetworkAssumption DEF Time!TimeAssumption, Time!Unset, TimeInv, OffsetRight
  <2>2. Time!HalfHour <= Hour /\ Time!HalfHour <= Time!Unset /\ Time!HalfHour \in Int
    BY <2>1 DEF Time!HalfHour
  <2>3. Time!abs64(Time!GetAdjustedTime) < Hour
    BY <2>1, <2>2 DEF Time!GetAdjustedTime, Time!abs64
  <2>4. ASSUME nNtpOffset = Time!Unset, Len(values) < FilterSize,
               2 * Cardinality(setKnown \cap Liars) <= Cardinality(setKnown)
        PROVE  Time!abs64(Time!GetAdjustedTime) <= Honest
    <3>1. nPeersOffset = Time!Unset \/ Near(nPeersOffset)
      BY <2>4 DEF TimeInv, OffsetRight
    <3>2. ~(Time!abs64(nNtpOffset) < Time!HalfHour)
      BY <2>1, <2>2, <2>4 DEF Time!abs64
    <3>3. Time!GetAdjustedTime \in {0, nPeersOffset}
          /\ (nPeersOffset = Time!Unset => Time!GetAdjustedTime = 0)
      BY <2>1, <3>2 DEF Time!GetAdjustedTime, Time!abs64
    <3> QED BY <2>1, <3>1, <3>3 DEF Near, Time!abs64
  <2> QED BY <2>3, <2>4, TimeCardinality DEF Time!TimeFollowsMajority
<1> QED BY <1>1, <1>2, <1>3, PTL DEF Spec
=============================================================================
