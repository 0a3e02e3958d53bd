-------------------------- MODULE ConnectionsProofs --------------------------
(***************************************************************************)
(* Theorems about Connections for any peers, any number of threads that    *)
(* connect, of connections and of slots: nodes, references and outbound    *)
(* slots are accounted for.                                                *)
(***************************************************************************)
EXTENDS Connections, OrderLemmas, FiniteSetTheorems

(* Every variable has its type. *)
NodeType ==
    [at : {"none", "listed", "parked", "deleted"}, peer : Peers \cup {NoPeer},
     inbound : BOOLEAN, network : BOOLEAN, disconnect : BOOLEAN, refs : Int,
     held : BOOLEAN, grant : BOOLEAN]
OpenerType ==
    [pc : {"idle", "checked", "found", "adding", "connecting", "adopt"},
     peer : Peers \cup {NoPeer}, n : NodeIds \cup {0}, grant : BOOLEAN, reg : Int]
ConnTypeOK ==
    /\ node \in [NodeIds -> NodeType]
    /\ sem \in Int
    /\ banned \subseteq Peers \cup {NoPeer}
    /\ sk \in [pc : {"reap", "copy", "service", "release"}, copy : SUBSET NodeIds]
    /\ mh \in [pc : {"copy", "processing", "release"}, copy : SUBSET NodeIds,
               todo : SUBSET NodeIds]
    /\ opener \in [Openers -> OpenerType]
    /\ leaked \subseteq NodeIds /\ miscounted \subseteq NodeIds

(* The threads have copies only where their loops say so, of nodes that have *)
(* been made.                                                                *)
CopiesInv ==
    /\ sk.pc \in {"reap", "copy"} => sk.copy = {}
    /\ mh.pc = "copy" => mh.copy = {}
    /\ mh.pc = "processing" => mh.todo # {}
    /\ \A n \in sk.copy \cup mh.copy : node[n].at # "none"

(* A thread that connects has a slot from its first check to the end, and    *)
(* the node it is about to mark is held.                                     *)
OpenersInv ==
    \A o \in Openers :
        /\ opener[o].grant <=> opener[o].pc # "idle"
        /\ opener[o].pc \in {"found", "adding", "adopt"} => opener[o].n \in NodeIds
        /\ opener[o].n # 0 =>
              /\ node[opener[o].n].at \in {"listed", "parked"}
              /\ node[opener[o].n].at = "parked" => node[opener[o].n].held

(* How many references node n has at least, and exactly if none is leaked. *)
Expected(n) ==
    Holds(node[n].at = "listed") + Holds(n \in sk.copy) + Holds(n \in mh.copy)

(* Only a leaked reference makes a count too high, and then for ever. *)
RefsInv ==
    \A n \in NodeIds : n \notin miscounted =>
        /\ node[n].at \in {"listed", "parked"} =>
              /\ n \notin leaked => node[n].refs = Expected(n)
              /\ n \in leaked => node[n].refs > Expected(n)
        /\ node[n].at = "deleted" => n \notin sk.copy \cup mh.copy

(* A node not made yet has no slot. *)
UnusedInv == \A n \in NodeIds : node[n].at = "none" =>
    ~node[n].grant /\ n \notin leaked \cup miscounted

IInv == ConnTypeOK /\ CopiesInv /\ OpenersInv /\ RefsInv /\ UnusedInv /\ SlotsConserved
-----------------------------------------------------------------------------
(* Facts about sets of nodes and threads *)

Granted == {n \in NodeIds : node[n].grant}
Granting == {o \in Openers : opener[o].grant}

(* An object that is not in use is found when there is one. *)
LEMMA UnusedFact ==
    ASSUME Unused # {}
    PROVE  Min(Unused) \in NodeIds /\ node[Min(Unused)].at = "none" /\ Min(Unused) # 0
<1>1. Unused \subseteq Nat /\ Unused \subseteq 1 .. MaxNodes
  BY ConnAssumption DEF Unused, NodeIds
<1>2. Min(Unused) \in Unused
  BY <1>1, LeastInteger
<1> QED BY <1>1, <1>2, ConnAssumption DEF Unused, NodeIds

(* The node of an address is found when there is one. *)
LEMMA FindNodeFact ==
    ASSUME NEW p, FindNode(p) # {}
    PROVE  Min(FindNode(p)) \in NodeIds /\ node[Min(FindNode(p))].at = "listed"
<1>1. FindNode(p) \subseteq Nat /\ FindNode(p) \subseteq vNodes
  BY ConnAssumption DEF FindNode, vNodes, NodeIds
<1>2. Min(FindNode(p)) \in FindNode(p)
  BY <1>1, LeastInteger
<1> QED BY <1>1, <1>2 DEF vNodes

(* The next node of the message thread is one of its copy. *)
LEMMA TodoFact ==
    ASSUME ConnTypeOK, mh.todo # {}
    PROVE  Min(mh.todo) \in mh.todo /\ Min(mh.todo) \in NodeIds
<1>1. mh.todo \subseteq NodeIds /\ mh.todo \subseteq Nat
  BY ConnAssumption DEF ConnTypeOK, NodeIds
<1> QED BY <1>1, LeastInteger

(* Both sets of slot holders are finite. *)
LEMMA Finite ==
    /\ IsFiniteSet(NodeIds) /\ IsFiniteSet(Openers)
           /\ \A S : S \subseteq NodeIds \/ S \subseteq Openers =>
                 IsFiniteSet(S) /\ Cardinality(S) \in Nat
<1>1. IsFiniteSet(NodeIds)
  BY FS_Interval, ConnAssumption DEF NodeIds
<1>2. IsFiniteSet(Openers)
  BY ConnAssumption
<1> QED BY <1>1, <1>2, FS_Subset, FS_CardinalityType

(* The slots add up in terms of the two sets. *)
LEMMA SlotSets ==
    /\ SlotsConserved <=> sem + Cardinality(Granted) + Cardinality(Granting) = MaxOutbound
    /\ SlotsConserved' <=> sem' + Cardinality(Granted') + Cardinality(Granting') = MaxOutbound
BY DEF SlotsConserved, Granted, Granting

(* Nobody gets or gives back a slot. *)
LEMMA SameSlots ==
    ASSUME SlotsConserved, sem' = sem,
           \A n \in NodeIds : node'[n].grant = node[n].grant,
           \A o \in Openers : opener'[o].grant = opener[o].grant
    PROVE  SlotsConserved'
<1>1. Granted' = Granted /\ Granting' = Granting
  BY DEF Granted, Granting
<1> QED BY <1>1, SlotSets

(* Only marks change: no reference, place or slot of a node. *)
LEMMA Frame ==
    ASSUME IInv, ConnTypeOK',
           \A n \in NodeIds : /\ node'[n].at = node[n].at /\ node'[n].refs = node[n].refs
                              /\ node'[n].held = node[n].held
                              /\ node'[n].grant = node[n].grant,
           sk'.copy = sk.copy, mh'.copy = mh.copy,
           sk'.pc \in {"reap", "copy"} => sk.copy = {},
           mh'.pc = "copy" => mh.copy = {},
           mh'.pc = "processing" => mh'.todo # {},
           UNCHANGED <<sem, opener, leaked, miscounted>>
    PROVE  IInv'
<1>1. CopiesInv'
  BY DEF IInv, CopiesInv, ConnTypeOK
<1>2. OpenersInv'
  BY DEF IInv, OpenersInv, ConnTypeOK, OpenerType
<1>3. RefsInv'
  BY DEF IInv, RefsInv, Expected
<1>4. UnusedInv'
  BY DEF IInv, UnusedInv
<1>5. SlotsConserved'
  BY SameSlots DEF IInv
<1> QED BY <1>1, <1>2, <1>3, <1>4, <1>5 DEF IInv

(* What is not in use has no slot either. *)
LEMMA NoNodeType == NoNode \in NodeType /\ NoNode.grant = FALSE
<1>1. NewNode(0, FALSE) \in NodeType
  BY DEF NewNode, NodeType, NoPeer
<1>2. \A d \in NodeType : \A r \in Int : [d EXCEPT !.at = "none", !.refs = r] \in NodeType
  BY DEF NodeType
<1>3. 0 \in Int
  OBVIOUS
<1>4. NoNode \in NodeType
  BY <1>1, <1>2, <1>3, Zenon DEF NoNode
<1> QED BY <1>4 DEF NoNode, NewNode

LEMMA InitConn == ConnInit => IInv
<1> SUFFICES ASSUME ConnInit PROVE IInv
  OBVIOUS
<1>1. ConnTypeOK
  <2>1. NoNode \in NodeType /\ Idle \in OpenerType
    BY NoNodeType DEF Idle, OpenerType, NoPeer
  <2>2. MaxOutbound \in Int
    BY ConnAssumption
  <2> QED BY <2>1, <2>2 DEF ConnInit, ConnTypeOK
<1>2. CopiesInv /\ OpenersInv /\ RefsInv /\ UnusedInv
  BY DEF ConnInit, CopiesInv, OpenersInv, RefsInv, UnusedInv, NoNode, NewNode, Idle
<1>3. Granted = {} /\ Granting = {}
  BY DEF Granted, Granting, ConnInit, NoNode, NewNode, Idle
<1>4. SlotsConserved
  BY <1>3, SlotSets, FS_EmptySet, ConnAssumption DEF ConnInit
<1> QED BY <1>1, <1>2, <1>4 DEF IInv

-----------------------------------------------------------------------------
(* The threads that connect *)

(* A slot goes to the thread. *)
LEMMA OpenInv ==
    ASSUME IInv, NEW o \in Openers, NEW p \in Peers,
           OpenNetworkConnection(o, p)
    PROVE  IInv'
<1>1. /\ opener[o].pc = "idle" /\ sem' = sem - 1
      /\ opener' = [opener EXCEPT ![o] = [opener[o] EXCEPT !.pc = "checked", !.peer = p,
                                                           !.grant = TRUE]]
      /\ UNCHANGED <<node, banned, sk, mh, leaked, miscounted>>
  BY DEF OpenNetworkConnection
<1>2. opener \in [Openers -> OpenerType] /\ opener[o] \in OpenerType
  BY DEF IInv, ConnTypeOK
<1>3. /\ opener'[o].pc = "checked" /\ opener'[o].grant = TRUE /\ opener'[o].n = opener[o].n
      /\ \A q \in Openers : q # o => opener'[q] = opener[q]
  BY <1>1, <1>2 DEF OpenerType
<1>4. ConnTypeOK'
  <2>1. [opener[o] EXCEPT !.pc = "checked", !.peer = p, !.grant = TRUE] \in OpenerType
    BY <1>2 DEF OpenerType
  <2> QED BY <1>1, <1>2, <2>1 DEF IInv, ConnTypeOK
<1>5. CopiesInv' /\ RefsInv' /\ UnusedInv'
  BY <1>1 DEF IInv, CopiesInv, RefsInv, Expected, UnusedInv
<1>6. OpenersInv'
  BY <1>1, <1>3 DEF IInv, OpenersInv
<1>7. Granting' = Granting \cup {o} /\ o \notin Granting /\ Granted' = Granted
  BY <1>1, <1>3 DEF Granting, Granted, IInv, OpenersInv
<1>8. Cardinality(Granting') = Cardinality(Granting) + 1
  BY <1>7, Finite, FS_AddElement DEF Granting
<1>9. Cardinality(Granting) \in Nat /\ Cardinality(Granted) \in Nat /\ sem \in Int
  BY Finite DEF Granting, Granted, IInv, ConnTypeOK
<1>10. SlotsConserved'
  BY <1>1, <1>7, <1>8, <1>9, SlotSets DEF IInv
<1> QED BY <1>4, <1>5, <1>6, <1>10 DEF IInv

(* A new node is listed with one reference. *)
LEMMA ListedInv ==
    ASSUME IInv, Unused # {}, NEW p \in Peers \cup {NoPeer}, NEW in \in BOOLEAN,
           node' = [node EXCEPT ![Min(Unused)] = NewNode(p, in)],
           UNCHANGED <<sem, sk, mh, leaked, miscounted>>,
           OpenersInv', ConnTypeOK',
           \A o \in Openers : opener'[o].grant = opener[o].grant
    PROVE  IInv'
<1> DEFINE u == Min(Unused)
<1>1. u \in NodeIds /\ node[u].at = "none"
  BY UnusedFact
<1> HIDE DEF u
<1>2. /\ node'[u] = NewNode(p, in)
      /\ \A m \in NodeIds : m # u => node'[m] = node[m]
  BY <1>1 DEF u, IInv, ConnTypeOK
<1>3. CopiesInv'
  BY <1>1, <1>2 DEF IInv, CopiesInv, ConnTypeOK
<1>4. UnusedInv'
  BY <1>1, <1>2 DEF IInv, UnusedInv, NewNode
<1>5. u \notin leaked /\ u \notin miscounted /\ u \notin sk.copy /\ u \notin mh.copy
  BY <1>1 DEF IInv, UnusedInv, CopiesInv
<1>6. RefsInv'
  BY <1>1, <1>2, <1>5 DEF IInv, RefsInv, Expected, Holds, NewNode
<1>7. \A m \in NodeIds : node'[m].grant = node[m].grant
  <2>1. node[u].grant = FALSE /\ node'[u].grant = FALSE
    BY <1>1, <1>2 DEF IInv, UnusedInv, NewNode, ConnTypeOK, NodeType
  <2> QED BY <1>2, <2>1
<1>8. SlotsConserved'
  BY <1>7, SameSlots DEF IInv
<1> QED BY <1>3, <1>4, <1>6, <1>8 DEF IInv

(* A node made by a thread that connects, or by addnode onetry. *)
LEMMA NewNodeType ==
    ASSUME NEW p \in Peers \cup {NoPeer}, NEW in \in BOOLEAN
    PROVE  NewNode(p, in) \in NodeType
BY DEF NewNode, NodeType

LEMMA AddNodeOneTryInv ==
    ASSUME IInv, NEW p \in Peers, AddNodeOneTry(p)
    PROVE  IInv'
<1> DEFINE u == Min(Unused)
<1>1. /\ Unused # {} /\ node' = [node EXCEPT ![u] = NewNode(p, FALSE)]
      /\ UNCHANGED <<sem, banned, sk, mh, opener, leaked, miscounted>>
  BY DEF AddNodeOneTry
<1>2. u \in NodeIds /\ node[u].at = "none"
  BY <1>1, UnusedFact
<1>3. ConnTypeOK'
  BY <1>1, <1>2, NewNodeType DEF IInv, ConnTypeOK
<1>4. OpenersInv'
  BY <1>1, <1>2 DEF IInv, OpenersInv, ConnTypeOK, OpenerType
<1> HIDE DEF u
<1> QED BY <1>1, <1>3, <1>4, ListedInv DEF u

LEMMA ConnectNodeInv ==
    ASSUME IInv, NEW o \in Openers, ConnectNode(o)
    PROVE  IInv'
<1> DEFINE u == Min(Unused)  p == opener[o].peer
           w == [opener[o] EXCEPT !.pc = "adopt", !.n = u]
<1>1. /\ Unused # {} /\ node' = [node EXCEPT ![u] = NewNode(p, FALSE)]
      /\ opener[o].pc = "connecting"
      /\ opener' = [opener EXCEPT ![o] = w]
      /\ UNCHANGED <<sem, banned, sk, mh, leaked, miscounted>>
  BY DEF ConnectNode
<1>2. u \in NodeIds /\ node[u].at = "none"
  BY <1>1, UnusedFact
<1>3. opener[o] \in OpenerType /\ p \in Peers \cup {NoPeer}
  BY DEF IInv, ConnTypeOK, OpenerType
<1>4. w \in OpenerType /\ w.pc = "adopt" /\ w.n = u /\ w.grant = opener[o].grant
  BY <1>2, <1>3 DEF OpenerType
<1> HIDE DEF u, p, w
<1>5. NewNode(p, FALSE) \in NodeType
  BY <1>3, NewNodeType
<1>6. ConnTypeOK'
  BY <1>1, <1>2, <1>4, <1>5 DEF IInv, ConnTypeOK
<1>7. /\ opener'[o] = w /\ \A q \in Openers : q # o => opener'[q] = opener[q]
      /\ node'[u] = NewNode(p, FALSE) /\ \A m \in NodeIds : m # u => node'[m] = node[m]
  BY <1>1, <1>2 DEF IInv, ConnTypeOK
<1>8. \A q \in Openers : q # o /\ opener[q].n # 0 => opener[q].n \in NodeIds \ {u}
  BY <1>2 DEF IInv, OpenersInv, ConnTypeOK, OpenerType
<1>9. OpenersInv'
  <2>1. node'[u].at = "listed"
    BY <1>7 DEF NewNode
  <2>2. ASSUME NEW q \in Openers, q # o
        PROVE  /\ opener'[q].grant <=> opener'[q].pc # "idle"
               /\ opener'[q].pc \in {"found", "adding", "adopt"} => opener'[q].n \in NodeIds
               /\ opener'[q].n # 0 =>
                     /\ node'[opener'[q].n].at \in {"listed", "parked"}
                     /\ node'[opener'[q].n].at = "parked" => node'[opener'[q].n].held
    BY <1>7, <1>8, <2>2 DEF IInv, OpenersInv
  <2>3. opener'[o].grant <=> opener'[o].pc # "idle"
    BY <1>1, <1>4, <1>7 DEF IInv, OpenersInv
  <2>4. opener'[o].n = u
    BY <1>4, <1>7
  <2> QED BY <1>2, <2>1, <2>2, <2>3, <2>4 DEF OpenersInv
<1>10. \A q \in Openers : opener'[q].grant = opener[q].grant
  BY <1>4, <1>7
<1> QED BY <1>1, <1>3, <1>6, <1>9, <1>10, ListedInv DEF u

(* The thread takes note of the node or the count it found. *)
LEMMA ConnectNodeLooksInv ==
    ASSUME IInv, NEW o \in Openers, ConnectNodeLooks(o)
    PROVE  IInv'
<1> DEFINE p == opener[o].peer  m == Min(FindNode(p))
           w == IF FindNode(p) = {} THEN [opener[o] EXCEPT !.pc = "connecting"]
                ELSE [opener[o] EXCEPT !.pc = "found", !.n = m]
<1>1. /\ opener[o].pc = "checked" /\ opener' = [opener EXCEPT ![o] = w]
      /\ UNCHANGED <<node, sem, banned, sk, mh, leaked, miscounted>>
  BY DEF ConnectNodeLooks
<1>2. opener[o] \in OpenerType
  BY DEF IInv, ConnTypeOK
<1>3. FindNode(p) # {} => m \in NodeIds /\ node[m].at = "listed"
  BY FindNodeFact
<1> HIDE DEF m
<1>4. /\ w \in OpenerType /\ w.grant = opener[o].grant
      /\ \/ w.pc = "connecting" /\ w.n = opener[o].n
         \/ w.pc = "found" /\ w.n \in NodeIds /\ node[w.n].at = "listed"
  <2>1. CASE FindNode(p) = {}
    BY <1>2, <2>1 DEF OpenerType
  <2>2. CASE FindNode(p) # {}
    BY <1>2, <1>3, <2>2 DEF OpenerType
  <2> QED BY <2>1, <2>2
<1> HIDE DEF w
<1>5. ConnTypeOK'
  BY <1>1, <1>4 DEF IInv, ConnTypeOK
<1>6. opener'[o] = w /\ \A q \in Openers : q # o => opener'[q] = opener[q]
  BY <1>1 DEF IInv, ConnTypeOK
<1>7. CopiesInv' /\ RefsInv' /\ UnusedInv'
  BY <1>1 DEF IInv, CopiesInv, RefsInv, Expected, UnusedInv
<1>8. OpenersInv'
  BY <1>1, <1>4, <1>6 DEF IInv, OpenersInv
<1>9. \A q \in Openers : opener'[q].grant = opener[q].grant
  BY <1>4, <1>6
<1>10. SlotsConserved'
  BY <1>1, <1>9, SameSlots DEF IInv
<1> QED BY <1>5, <1>7, <1>8, <1>10 DEF IInv

LEMMA AddRefReadsInv ==
    ASSUME IInv, NEW o \in Openers, AddRefReads(o)
    PROVE  IInv'
<1> DEFINE n == opener[o].n
           w == [opener[o] EXCEPT !.pc = "adding", !.reg = node[n].refs]
<1>1. /\ opener[o].pc = "found" /\ opener' = [opener EXCEPT ![o] = w]
      /\ UNCHANGED <<node, sem, banned, sk, mh, leaked, miscounted>>
  BY DEF AddRefReads
<1>2. opener[o] \in OpenerType /\ n \in NodeIds /\ node[n].refs \in Int
  BY <1>1 DEF IInv, ConnTypeOK, OpenersInv, NodeType
<1>3. w \in OpenerType /\ w.grant = opener[o].grant /\ w.pc = "adding" /\ w.n = n
  BY <1>2 DEF OpenerType
<1> HIDE DEF w
<1>4. ConnTypeOK'
  BY <1>1, <1>3 DEF IInv, ConnTypeOK
<1>5. opener'[o] = w /\ \A q \in Openers : q # o => opener'[q] = opener[q]
  BY <1>1 DEF IInv, ConnTypeOK
<1>6. CopiesInv' /\ RefsInv' /\ UnusedInv'
  BY <1>1 DEF IInv, CopiesInv, RefsInv, Expected, UnusedInv
<1>7. OpenersInv'
  BY <1>1, <1>2, <1>3, <1>5 DEF IInv, OpenersInv
<1>8. \A q \in Openers : opener'[q].grant = opener[q].grant
  BY <1>3, <1>5
<1>9. SlotsConserved'
  BY <1>1, <1>8, SameSlots DEF IInv
<1> QED BY <1>4, <1>6, <1>7, <1>9 DEF IInv

(* The second reference of a node found is never given back. *)
LEMMA AddRefWritesInv ==
    ASSUME IInv, NEW o \in Openers, AddRefWrites(o)
    PROVE  IInv'
<1>0. PICK n \in NodeIds : n = opener[o].n
  BY DEF AddRefWrites, IInv, OpenersInv
<1> DEFINE w == [opener[o] EXCEPT !.pc = "adopt", !.reg = 0]
           d == [node[n] EXCEPT !.refs = opener[o].reg + 1]
<1>1. /\ opener[o].pc = "adding" /\ opener' = [opener EXCEPT ![o] = w]
      /\ node' = [node EXCEPT ![n] = d]
      /\ miscounted' = IF node[n].refs = opener[o].reg THEN miscounted
                       ELSE miscounted \cup {n}
      /\ leaked' = leaked \cup {n}
      /\ UNCHANGED <<sem, banned, sk, mh>>
  BY <1>0 DEF AddRefWrites
<1>2. opener[o] \in OpenerType /\ node[n] \in NodeType
  BY DEF IInv, ConnTypeOK
<1>3. /\ w \in OpenerType /\ w.grant = opener[o].grant /\ w.pc = "adopt" /\ w.n = n
      /\ opener[o].reg \in Int
  <2>1. \A r \in Int : [opener[o] EXCEPT !.pc = "adopt", !.reg = r] \in OpenerType
    BY <1>2 DEF OpenerType
  <2>2. 0 \in Int
    OBVIOUS
  <2>3. w \in OpenerType
    BY <2>1, <2>2, Zenon
  <2> QED BY <1>0, <1>2, <2>3 DEF OpenerType
<1>3a. /\ d \in NodeType /\ d.at = node[n].at /\ d.held = node[n].held
       /\ d.grant = node[n].grant /\ d.refs = opener[o].reg + 1
       /\ node[n].refs \in Int
  BY <1>2, <1>3 DEF NodeType
<1>4. n # 0
  BY ConnAssumption DEF NodeIds
<1>5. node[n].at \in {"listed", "parked"}
  BY <1>0, <1>4 DEF IInv, OpenersInv
<1> HIDE DEF w, d
<1>6. ConnTypeOK'
  BY <1>1, <1>2, <1>3, <1>3a DEF IInv, ConnTypeOK
<1>7. /\ opener'[o] = w /\ \A q \in Openers : q # o => opener'[q] = opener[q]
      /\ node'[n] = d /\ \A m \in NodeIds : m # n => node'[m] = node[m]
  BY <1>1, <1>2 DEF IInv, ConnTypeOK
<1>8. \A m \in NodeIds : /\ node'[m].at = node[m].at /\ node'[m].held = node[m].held
                         /\ node'[m].grant = node[m].grant
  BY <1>3a, <1>7
<1>9. CopiesInv' /\ UnusedInv'
  BY <1>1, <1>4, <1>5, <1>8 DEF IInv, CopiesInv, UnusedInv, ConnTypeOK
<1>10. OpenersInv'
  <2>1. \A q \in Openers : opener'[q].n = opener[q].n /\ opener'[q].grant = opener[q].grant
    BY <1>0, <1>3, <1>7
  <2>2. opener'[o].pc = "adopt"
    BY <1>3, <1>7
  <2>3. \A q \in Openers : opener[q].n # 0 => opener[q].n \in NodeIds
    BY DEF IInv, ConnTypeOK, OpenerType
  <2> QED BY <1>1, <1>7, <1>8, <2>1, <2>2, <2>3 DEF IInv, OpenersInv
<1>11. RefsInv'
  <2>1. ASSUME NEW m \in NodeIds, m # n, m \notin miscounted'
        PROVE  /\ node'[m].at \in {"listed", "parked"} =>
                    /\ m \notin leaked' => node'[m].refs = Expected(m)'
                    /\ m \in leaked' => node'[m].refs > Expected(m)'
               /\ node'[m].at = "deleted" => m \notin sk'.copy \cup mh'.copy
    BY <1>1, <1>7, <2>1 DEF IInv, RefsInv, Expected
  <2>2. ASSUME n \notin miscounted' PROVE node'[n].refs > Expected(n)'
    <3>1. node[n].refs = opener[o].reg /\ n \notin miscounted
      BY <1>1, <2>2
    <3>2. node[n].refs >= Expected(n) /\ Expected(n) \in Int
      BY <1>3a, <1>5, <3>1 DEF IInv, RefsInv, Expected, Holds
    <3>3. Expected(n)' = Expected(n)
      BY <1>1, <1>2, <1>8 DEF Expected
    <3> QED BY <1>3, <1>3a, <1>7, <3>1, <3>2, <3>3
  <2>3. n \in leaked' /\ node'[n].at # "deleted"
    BY <1>1, <1>2, <1>4, <1>5, <1>8
  <2> QED BY <2>1, <2>2, <2>3 DEF RefsInv
<1>12. \A q \in Openers : opener'[q].grant = opener[q].grant
  BY <1>3, <1>7
<1>13. SlotsConserved'
  BY <1>1, <1>8, <1>12, SameSlots DEF IInv
<1> QED BY <1>6, <1>9, <1>10, <1>11, <1>13 DEF IInv
(* A thread that fails to connect gives its slot back. *)
LEMMA ConnectNodeFailsInv ==
    ASSUME IInv, NEW o \in Openers, ConnectNodeFails(o)
    PROVE  IInv'
<1>1. /\ opener[o].pc = "connecting" /\ sem' = sem + 1
      /\ opener' = [opener EXCEPT ![o] = Idle]
      /\ UNCHANGED <<node, banned, sk, mh, leaked, miscounted>>
  BY DEF ConnectNodeFails
<1>2. Idle \in OpenerType /\ Idle.pc = "idle" /\ Idle.grant = FALSE /\ Idle.n = 0
  BY DEF Idle, OpenerType, NoPeer
<1>3. ConnTypeOK'
  BY <1>1, <1>2 DEF IInv, ConnTypeOK
<1>4. opener'[o] = Idle /\ \A q \in Openers : q # o => opener'[q] = opener[q]
  BY <1>1 DEF IInv, ConnTypeOK
<1>5. CopiesInv' /\ RefsInv' /\ UnusedInv'
  BY <1>1 DEF IInv, CopiesInv, RefsInv, Expected, UnusedInv
<1>6. OpenersInv'
  BY <1>1, <1>2, <1>4 DEF IInv, OpenersInv
<1>7. o \in Granting /\ Granting' = Granting \ {o} /\ Granted' = Granted
  BY <1>1, <1>2, <1>4 DEF Granting, Granted, IInv, OpenersInv
<1>8. Cardinality(Granting') = Cardinality(Granting) - 1
  BY <1>7, Finite, FS_RemoveElement DEF Granting
<1>9. Cardinality(Granting) \in Nat /\ Cardinality(Granted) \in Nat /\ sem \in Int
  BY Finite DEF Granting, Granted, IInv, ConnTypeOK
<1>10. SlotsConserved'
  BY <1>1, <1>7, <1>8, <1>9, SlotSets DEF IInv
<1> QED BY <1>3, <1>5, <1>6, <1>10 DEF IInv

(* The slot moves to the node; one the node has already is given back. *)
LEMMA AdoptInv ==
    ASSUME IInv, NEW o \in Openers, Adopt(o)
    PROVE  IInv'
<1>0. PICK n \in NodeIds : n = opener[o].n
  BY DEF Adopt, IInv, OpenersInv
<1> DEFINE d == [node[n] EXCEPT !.grant = TRUE, !.network = TRUE]
<1>1. /\ opener[o].pc = "adopt" /\ opener' = [opener EXCEPT ![o] = Idle]
      /\ sem' = sem + (IF node[n].grant THEN 1 ELSE 0)
      /\ UNCHANGED <<banned, sk, mh, leaked, miscounted>>
  BY <1>0 DEF Adopt
<1>2. node' = [node EXCEPT ![n] = d]
  BY <1>0 DEF Adopt, IInv, ConnTypeOK
<1>3. node[n] \in NodeType /\ n # 0
  BY ConnAssumption DEF IInv, ConnTypeOK, NodeIds
<1>4. /\ d \in NodeType /\ d.at = node[n].at /\ d.refs = node[n].refs
      /\ d.held = node[n].held /\ d.grant = TRUE
  BY <1>3 DEF NodeType
<1>5. Idle \in OpenerType /\ Idle.pc = "idle" /\ Idle.grant = FALSE /\ Idle.n = 0
  BY DEF Idle, OpenerType, NoPeer
<1> HIDE DEF d
<1>6. ConnTypeOK'
  BY <1>1, <1>2, <1>4, <1>5 DEF IInv, ConnTypeOK
<1>7. /\ opener'[o] = Idle /\ \A q \in Openers : q # o => opener'[q] = opener[q]
      /\ node'[n] = d /\ \A m \in NodeIds : m # n => node'[m] = node[m]
  BY <1>1, <1>2 DEF IInv, ConnTypeOK
<1>8. \A m \in NodeIds : /\ node'[m].at = node[m].at /\ node'[m].refs = node[m].refs
                         /\ node'[m].held = node[m].held
  BY <1>4, <1>7
<1>9. node[n].at # "none"
  BY <1>0, <1>3 DEF IInv, OpenersInv
<1>10. CopiesInv' /\ UnusedInv'
  BY <1>1, <1>7, <1>8, <1>9 DEF IInv, CopiesInv, UnusedInv, ConnTypeOK
<1>11. RefsInv'
  BY <1>1, <1>8 DEF IInv, RefsInv, Expected
<1>12. OpenersInv'
  <2>1. \A q \in Openers : opener[q].n # 0 => opener[q].n \in NodeIds
    BY DEF IInv, ConnTypeOK, OpenerType
  <2> QED BY <1>5, <1>7, <1>8, <2>1 DEF IInv, OpenersInv
<1>13. o \in Granting /\ Granting' = Granting \ {o} /\ Granted' = Granted \cup {n}
  <2>1. o \in Granting
    BY <1>1 DEF Granting, IInv, OpenersInv
  <2>2. Granting' = Granting \ {o}
    BY <1>5, <1>7 DEF Granting
  <2>3. Granted' = Granted \cup {n}
    BY <1>4, <1>7 DEF Granted
  <2> QED BY <2>1, <2>2, <2>3
<1>14. Cardinality(Granting') = Cardinality(Granting) - 1
  BY <1>13, Finite, FS_RemoveElement DEF Granting
<1>15. Cardinality(Granted') = IF n \in Granted THEN Cardinality(Granted)
                               ELSE Cardinality(Granted) + 1
  BY <1>13, Finite, FS_AddElement DEF Granted
<1>16. Cardinality(Granting) \in Nat /\ Cardinality(Granted) \in Nat /\ sem \in Int
  BY Finite DEF Granting, Granted, IInv, ConnTypeOK
<1>17. n \in Granted <=> node[n].grant
  BY DEF Granted
<1>18. SlotsConserved'
  BY <1>1, <1>14, <1>15, <1>16, <1>17, SlotSets DEF IInv
<1> QED BY <1>6, <1>10, <1>11, <1>12, <1>18 DEF IInv

-----------------------------------------------------------------------------
(* The socket thread *)

(* What one pass does to a node. *)
LEMMA ReapedNode ==
    ASSUME ConnTypeOK, Reap, NEW n \in NodeIds
    PROVE  /\ node'[n] \in NodeType
           /\ n \in Doomed =>
                 /\ node[n].at = "listed" /\ node'[n].at = "parked" /\ node'[n].held
                 /\ node'[n].grant = FALSE
                 /\ node'[n].refs = node[n].refs
                       - (IF node[n].network \/ node[n].inbound THEN 1 ELSE 0)
           /\ n \notin Doomed /\ Deletable(n) =>
                 node'[n].at = "deleted" /\ node'[n].grant = FALSE
           /\ n \notin Doomed /\ ~Deletable(n) => node'[n] = node[n]
<1>1. node[n] \in NodeType
  BY DEF ConnTypeOK
<1>2. node'[n] = CASE n \in Doomed -> Disconnected(node[n])
                   [] Deletable(n) -> [NoNode EXCEPT !.at = "deleted"]
                   [] OTHER -> node[n]
  BY DEF Reap
<1>3. Deletable(n) => n \notin Doomed
  BY DEF Deletable, Doomed, vNodes
<1>4. CASE n \in Doomed
  <2> DEFINE k == IF node[n].network \/ node[n].inbound THEN 1 ELSE 0
  <2>1. node'[n] = Disconnected(node[n])
    BY <1>2, <1>3, <1>4
  <2>2. node'[n] = [Closed(node[n]) EXCEPT !.at = "parked", !.grant = FALSE, !.held = TRUE,
                                           !.refs = node[n].refs - k]
    BY <2>1, <1>1 DEF Disconnected, Closed, NodeType
  <2>3. k \in Int
    OBVIOUS
  <2> HIDE DEF k
  <2>4. node[n].refs - k \in Int
    BY <1>1, <2>3 DEF NodeType
  <2>5. Closed(node[n]) \in NodeType
    BY <1>1 DEF Closed, NodeType
  <2>6. /\ node'[n] \in NodeType /\ node'[n].at = "parked" /\ node'[n].held
        /\ node'[n].grant = FALSE /\ node'[n].refs = node[n].refs - k
    BY <2>2, <2>4, <2>5 DEF NodeType
  <2> QED BY <1>4, <2>6 DEF k, Doomed, vNodes
<1>5. CASE n \notin Doomed /\ Deletable(n)
  <2>1. node'[n] = [NoNode EXCEPT !.at = "deleted"]
    BY <1>2, <1>5
  <2>2. NoNode \in NodeType /\ NoNode.grant = FALSE
    BY NoNodeType
  <2> QED BY <1>5, <2>1, <2>2 DEF NodeType
<1>6. CASE n \notin Doomed /\ ~Deletable(n)
  BY <1>1, <1>2, <1>6
<1> QED BY <1>4, <1>5, <1>6

(* Nodes are disconnected and deleted, and their slots become free. *)
LEMMA ReapInv ==
    ASSUME IInv, Reap
    PROVE  IInv'
<1> DEFINE R == {n \in NodeIds : (n \in Doomed \/ Deletable(n)) /\ node[n].grant}
<1>1. /\ sk.pc = "reap" /\ sk' = [sk EXCEPT !.pc = "copy"]
      /\ sem' = sem + Cardinality(R)
      /\ leaked' = leaked \cup {n \in Doomed : ~(node[n].network \/ node[n].inbound)}
      /\ UNCHANGED <<banned, mh, opener, miscounted>>
      /\ node' = [n \in NodeIds |-> node'[n]]
  BY DEF Reap
<1> HIDE DEF R
<1>2. ConnTypeOK
  BY DEF IInv
<1>3. sk'.copy = {} /\ sk.copy = {} /\ sk'.pc = "copy"
  BY <1>1, <1>2 DEF IInv, CopiesInv, ConnTypeOK
<1>4. Doomed \subseteq NodeIds
  BY DEF Doomed, vNodes
<1>5. ConnTypeOK'
  <2>1. node' \in [NodeIds -> NodeType]
    BY <1>1, <1>2, ReapedNode
  <2>2. sem' \in Int
    BY <1>1, <1>2, Finite DEF ConnTypeOK, R
  <2> QED BY <1>1, <1>2, <1>4, <2>1, <2>2 DEF ConnTypeOK
<1>6. \A n \in NodeIds : node'[n].at = "none" <=> node[n].at = "none"
  BY <1>2, ReapedNode DEF Deletable
<1>7. CopiesInv'
  BY <1>1, <1>2, <1>3, <1>6 DEF IInv, CopiesInv, ConnTypeOK
<1>8. OpenersInv'
  <2>1. ASSUME NEW o \in Openers, opener[o].n # 0
        PROVE  /\ node'[opener[o].n].at \in {"listed", "parked"}
               /\ node'[opener[o].n].at = "parked" => node'[opener[o].n].held
    <3> DEFINE n == opener[o].n
    <3>1. n \in NodeIds /\ node[n].at \in {"listed", "parked"}
          /\ (node[n].at = "parked" => node[n].held)
      BY <1>2, <2>1 DEF IInv, OpenersInv, ConnTypeOK, OpenerType
    <3>2. ~Deletable(n)
      BY <3>1 DEF Deletable
    <3> HIDE DEF n
    <3>3. n \in Doomed => node'[n].at = "parked" /\ node'[n].held
      BY <1>2, <3>1, ReapedNode
    <3>4. n \notin Doomed => node'[n] = node[n]
      BY <1>2, <3>1, <3>2, ReapedNode
    <3> QED BY <3>1, <3>3, <3>4 DEF n
  <2> QED BY <1>1, <2>1 DEF IInv, OpenersInv
<1>9. UnusedInv'
  <2>1. \A n \in NodeIds : node[n].at = "none" =>
           n \notin Doomed /\ node'[n] = node[n]
    BY <1>2, ReapedNode DEF Doomed, vNodes, Deletable
  <2> QED BY <1>1, <1>6, <2>1 DEF IInv, UnusedInv
<1>10. RefsInv'
  <2> SUFFICES ASSUME NEW n \in NodeIds, n \notin miscounted
               PROVE  /\ node'[n].at \in {"listed", "parked"} =>
                            /\ n \notin leaked' => node'[n].refs = Expected(n)'
                            /\ n \in leaked' => node'[n].refs > Expected(n)'
                      /\ node'[n].at = "deleted" => n \notin sk'.copy \cup mh'.copy
    BY <1>1 DEF RefsInv
  <2>1. /\ node[n].at \in {"listed", "parked"} =>
              /\ n \notin leaked => node[n].refs = Expected(n)
              /\ n \in leaked => node[n].refs > Expected(n)
        /\ node[n].at = "deleted" => n \notin sk.copy \cup mh.copy
    BY DEF IInv, RefsInv
  <2>2. Expected(n) = Holds(node[n].at = "listed") + Holds(n \in mh.copy)
    BY <1>3 DEF Expected, Holds
  <2>3. Expected(n)' = Holds(node'[n].at = "listed") + Holds(n \in mh.copy)
    BY <1>1, <1>3 DEF Expected, Holds
  <2>4. node[n].refs \in Int
    BY <1>2 DEF ConnTypeOK, NodeType
  <2>5. CASE n \in Doomed
    <3>1. /\ node[n].at = "listed" /\ node'[n].at = "parked"
          /\ node'[n].refs = node[n].refs
                - (IF node[n].network \/ node[n].inbound THEN 1 ELSE 0)
      BY <1>2, <2>5, ReapedNode
    <3>2. n \in leaked' <=> n \in leaked \/ ~(node[n].network \/ node[n].inbound)
      BY <1>1, <2>5
    <3> QED BY <2>1, <2>2, <2>3, <2>4, <3>1, <3>2 DEF Holds
  <2>6. CASE n \notin Doomed /\ Deletable(n)
    <3>1. node'[n].at = "deleted" /\ node[n].at = "parked" /\ node[n].refs <= 0
      BY <1>2, <2>6, ReapedNode DEF Deletable
    <3>2. n \notin mh.copy
      BY <2>1, <2>2, <2>4, <3>1 DEF Holds
    <3> QED BY <1>1, <1>3, <3>1, <3>2
  <2>7. CASE n \notin Doomed /\ ~Deletable(n)
    <3>1. node'[n] = node[n]
      BY <1>2, <2>7, ReapedNode
    <3>2. n \in leaked' <=> n \in leaked
      BY <1>1, <2>7
    <3> QED BY <1>1, <1>3, <2>1, <2>2, <2>3, <3>1, <3>2
  <2> QED BY <2>5, <2>6, <2>7
<1>11. SlotsConserved'
  <2>1. Granting' = Granting /\ R \subseteq Granted /\ Granted' = Granted \ R
    <3>1. Granting' = Granting
      BY <1>1 DEF Granting
    <3>2. R \subseteq Granted
      BY DEF R, Granted
    <3>3. ASSUME NEW n \in NodeIds PROVE n \in Granted' <=> n \in Granted /\ n \notin R
      BY <1>2, ReapedNode DEF Granted, R
    <3>4. Granted' \subseteq NodeIds /\ Granted \subseteq NodeIds
      BY DEF Granted
    <3> QED BY <3>1, <3>2, <3>3, <3>4
  <2>2. Granted \cap R = R
    BY <2>1
  <2>3. Cardinality(Granted') = Cardinality(Granted) - Cardinality(R)
    BY <2>1, <2>2, Finite, FS_Difference DEF Granted
  <2>4. /\ Cardinality(Granting) \in Nat /\ Cardinality(Granted) \in Nat
        /\ Cardinality(R) \in Nat /\ sem \in Int
    BY Finite DEF Granting, Granted, R, IInv, ConnTypeOK
  <2> QED BY <1>1, <2>1, <2>3, <2>4, SlotSets DEF IInv
<1> QED BY <1>5, <1>7, <1>8, <1>9, <1>10, <1>11 DEF IInv

(* References are taken or given back one by one. *)
LEMMA WithRefsFact ==
    ASSUME NEW d \in [NodeIds -> NodeType], NEW C \in SUBSET NodeIds, NEW k \in Int
    PROVE  /\ WithRefs(d, C, k) \in [NodeIds -> NodeType]
           /\ \A n \in NodeIds :
                 /\ WithRefs(d, C, k)[n].at = d[n].at
                 /\ WithRefs(d, C, k)[n].held = d[n].held
                 /\ WithRefs(d, C, k)[n].grant = d[n].grant
                 /\ n \in C => WithRefs(d, C, k)[n].refs = d[n].refs + k
                 /\ n \notin C => WithRefs(d, C, k)[n].refs = d[n].refs
<1>1. ASSUME NEW n \in NodeIds
      PROVE  /\ WithRefs(d, C, k)[n] \in NodeType
             /\ WithRefs(d, C, k)[n].at = d[n].at
             /\ WithRefs(d, C, k)[n].held = d[n].held
             /\ WithRefs(d, C, k)[n].grant = d[n].grant
             /\ n \in C => WithRefs(d, C, k)[n].refs = d[n].refs + k
             /\ n \notin C => WithRefs(d, C, k)[n].refs = d[n].refs
  <2>1. d[n] \in NodeType /\ d[n].refs + k \in Int
    BY DEF NodeType
  <2>2. CASE n \in C
    <3>1. WithRefs(d, C, k)[n] = [d[n] EXCEPT !.refs = d[n].refs + k]
      BY <2>2 DEF WithRefs
    <3> QED BY <2>1, <2>2, <3>1 DEF NodeType
  <2>3. CASE n \notin C
    <3>1. WithRefs(d, C, k)[n] = d[n]
      BY <2>3 DEF WithRefs
    <3> QED BY <2>1, <2>3, <3>1
  <2> QED BY <2>2, <2>3
<1>2. WithRefs(d, C, k) = [n \in NodeIds |-> WithRefs(d, C, k)[n]]
  BY DEF WithRefs
<1> QED BY <1>1, <1>2

(* A list is copied or a copy dropped, with one reference for each node. *)
LEMMA CopyInv ==
    ASSUME IInv, ConnTypeOK', CopiesInv',
           NEW C \in SUBSET NodeIds, NEW k \in {1, -1},
           node' = WithRefs(node, C, k),
           \A n \in NodeIds : Holds(n \in sk'.copy) + Holds(n \in mh'.copy)
              = Holds(n \in sk.copy) + Holds(n \in mh.copy) + (IF n \in C THEN k ELSE 0),
           \A n \in NodeIds : n \in (sk'.copy \cup mh'.copy) \ (sk.copy \cup mh.copy) =>
              node[n].at = "listed",
           UNCHANGED <<sem, opener, leaked, miscounted>>
    PROVE  IInv'
<1>1. node \in [NodeIds -> NodeType] /\ k \in Int
  BY DEF IInv, ConnTypeOK
<1>2. \A n \in NodeIds : /\ node'[n].at = node[n].at /\ node'[n].held = node[n].held
                         /\ node'[n].grant = node[n].grant
                         /\ n \in C => node'[n].refs = node[n].refs + k
                         /\ n \notin C => node'[n].refs = node[n].refs
  BY <1>1, WithRefsFact
<1>3. OpenersInv'
  BY <1>2 DEF IInv, OpenersInv, ConnTypeOK, OpenerType
<1>4. UnusedInv'
  BY <1>2 DEF IInv, UnusedInv
<1>5. SlotsConserved'
  BY <1>2, SameSlots DEF IInv
<1>6. RefsInv'
  <2> SUFFICES ASSUME NEW n \in NodeIds, n \notin miscounted
               PROVE  /\ node'[n].at \in {"listed", "parked"} =>
                            /\ n \notin leaked' => node'[n].refs = Expected(n)'
                            /\ n \in leaked' => node'[n].refs > Expected(n)'
                      /\ node'[n].at = "deleted" => n \notin sk'.copy \cup mh'.copy
    BY DEF RefsInv
  <2>1. /\ node[n].at \in {"listed", "parked"} =>
              /\ n \notin leaked => node[n].refs = Expected(n)
              /\ n \in leaked => node[n].refs > Expected(n)
        /\ node[n].at = "deleted" => n \notin sk.copy \cup mh.copy
    BY DEF IInv, RefsInv
  <2>2. node[n].refs \in Int /\ node'[n].at = node[n].at /\ Expected(n) \in Int
    BY <1>1, <1>2 DEF NodeType, Expected, Holds
  <2> DEFINE a == Holds(node[n].at = "listed")
             b == Holds(n \in sk.copy)  c == Holds(n \in mh.copy)
             e == Holds(n \in sk'.copy)  f == Holds(n \in mh'.copy)
             j == IF n \in C THEN k ELSE 0
  <2>3. /\ a \in Int /\ b \in Int /\ c \in Int /\ e \in Int /\ f \in Int /\ j \in Int
        /\ e + f = b + c + j
    BY <1>1 DEF Holds
  <2>4. Expected(n) = a + b + c /\ Expected(n)' = a + e + f
    BY <2>2 DEF Expected
  <2>5. node'[n].refs = node[n].refs + j
    BY <1>2, <2>2
  <2> HIDE DEF a, b, c, e, f, j
  <2>6. Expected(n)' = Expected(n) + j
    BY <2>3, <2>4
  <2>7. node[n].at = "deleted" => n \notin sk'.copy \cup mh'.copy
    BY <2>1
  <2> QED BY <2>1, <2>2, <2>3, <2>5, <2>6, <2>7
<1> QED BY <1>3, <1>4, <1>5, <1>6 DEF IInv

(* An accepted connection is one more node; the others stay as they are. *)
LEMMA AcceptFact ==
    ASSUME ConnTypeOK, NEW p \in Peers \cup {NoPeer}
    PROVE  /\ AcceptInbound(p) \in [NodeIds -> NodeType]
           /\ \A n \in NodeIds :
                 \/ AcceptInbound(p)[n] = node[n]
                 \/ node[n].at = "none" /\ AcceptInbound(p)[n] = NewNode(p, TRUE)
<1>1. node \in [NodeIds -> NodeType] /\ NewNode(p, TRUE) \in NodeType
  BY NewNodeType DEF ConnTypeOK
<1>2. CASE AcceptInbound(p) = node
  BY <1>1, <1>2
<1>3. CASE Unused # {} /\ AcceptInbound(p) = [node EXCEPT ![Min(Unused)] = NewNode(p, TRUE)]
  <2>1. Min(Unused) \in NodeIds /\ node[Min(Unused)].at = "none"
    BY <1>3, UnusedFact
  <2> QED BY <1>1, <1>3, <2>1
<1> QED BY <1>2, <1>3 DEF AcceptInbound

(* A connection is accepted and the list copied, in one step under the lock. *)
LEMMA SocketCopiesInv ==
    ASSUME IInv, SocketCopies
    PROVE  IInv'
<1>1. PICK p \in Peers \cup {NoPeer} :
        LET d == AcceptInbound(p)
            copy == {n \in NodeIds : d[n].at = "listed"} IN
        /\ sk.pc = "copy"
        /\ node' = WithRefs(d, copy, 1)
        /\ sk' = [pc |-> IF copy = {} THEN "reap" ELSE "service", copy |-> copy]
        /\ UNCHANGED <<sem, banned, mh, opener, leaked, miscounted>>
  BY DEF SocketCopies
<1> DEFINE d == AcceptInbound(p)  copy == {n \in NodeIds : d[n].at = "listed"}
<1>2. /\ sk.pc = "copy" /\ node' = WithRefs(d, copy, 1)
      /\ sk'.copy = copy /\ (sk'.pc \in {"reap", "copy"} => copy = {})
      /\ sk' \in [pc : {"reap", "copy", "service", "release"}, copy : SUBSET NodeIds]
      /\ UNCHANGED <<sem, banned, mh, opener, leaked, miscounted>>
  BY <1>1
<1>3. /\ d \in [NodeIds -> NodeType]
      /\ \A n \in NodeIds : d[n] = node[n] \/ (node[n].at = "none" /\ d[n] = NewNode(p, TRUE))
  BY AcceptFact DEF IInv
<1>4. /\ sk.copy = {} /\ copy \in SUBSET NodeIds
      /\ \A n \in NodeIds : n \in copy <=> d[n].at = "listed"
  BY <1>2 DEF IInv, CopiesInv
<1> HIDE DEF d, copy
<1>5. /\ node' \in [NodeIds -> NodeType]
      /\ \A n \in NodeIds : /\ node'[n].at = d[n].at /\ node'[n].held = d[n].held
                            /\ node'[n].grant = d[n].grant
                            /\ n \in copy => node'[n].refs = d[n].refs + 1
                            /\ n \notin copy => node'[n].refs = d[n].refs
  <2>1. 1 \in Int
    OBVIOUS
  <2>2. /\ WithRefs(d, copy, 1) \in [NodeIds -> NodeType]
        /\ \A n \in NodeIds :
              /\ WithRefs(d, copy, 1)[n].at = d[n].at
              /\ WithRefs(d, copy, 1)[n].held = d[n].held
              /\ WithRefs(d, copy, 1)[n].grant = d[n].grant
              /\ n \in copy => WithRefs(d, copy, 1)[n].refs = d[n].refs + 1
              /\ n \notin copy => WithRefs(d, copy, 1)[n].refs = d[n].refs
    BY <1>3, <1>4, <2>1, WithRefsFact, Zenon
  <2> QED BY <1>2, <2>2
<1>6. \A n \in NodeIds : node[n].at # "none" => d[n] = node[n]
  BY <1>3
<1>7. ConnTypeOK'
  BY <1>2, <1>5 DEF IInv, ConnTypeOK
<1>8. CopiesInv'
  <2>1. \A n \in copy : node'[n].at # "none"
    BY <1>4, <1>5
  <2>2. \A n \in mh.copy : node'[n].at # "none"
    BY <1>5, <1>6 DEF IInv, CopiesInv, ConnTypeOK
  <2> QED BY <1>2, <2>1, <2>2 DEF IInv, CopiesInv
<1>9. OpenersInv'
  <2>1. ASSUME NEW o \in Openers, opener[o].n # 0
        PROVE  /\ node'[opener[o].n].at = node[opener[o].n].at
               /\ node'[opener[o].n].held = node[opener[o].n].held
    <3>1. opener[o].n \in NodeIds /\ node[opener[o].n].at # "none"
      BY <2>1 DEF IInv, OpenersInv, ConnTypeOK, OpenerType
    <3> QED BY <1>5, <1>6, <3>1
  <2> QED BY <1>2, <2>1 DEF IInv, OpenersInv
<1>10. UnusedInv'
  <2>1. \A n \in NodeIds : node'[n].at = "none" => node[n].at = "none" /\ d[n] = node[n]
    BY <1>3, <1>5 DEF NewNode
  <2> QED BY <1>2, <1>5, <2>1 DEF IInv, UnusedInv
<1>11. SlotsConserved'
  <2>1. \A n \in NodeIds : node'[n].grant = node[n].grant
    <3>1. \A n \in NodeIds : node[n].at = "none" => node[n].grant = FALSE
      BY DEF IInv, UnusedInv, ConnTypeOK, NodeType
    <3>2. NewNode(p, TRUE).grant = FALSE
      BY DEF NewNode
    <3> QED BY <1>3, <1>5, <3>1, <3>2
  <2> QED BY <1>2, <2>1, SameSlots DEF IInv
<1>12. RefsInv'
  <2> SUFFICES ASSUME NEW n \in NodeIds, n \notin miscounted
               PROVE  /\ node'[n].at \in {"listed", "parked"} =>
                            /\ n \notin leaked' => node'[n].refs = Expected(n)'
                            /\ n \in leaked' => node'[n].refs > Expected(n)'
                      /\ node'[n].at = "deleted" => n \notin sk'.copy \cup mh'.copy
    BY <1>2 DEF RefsInv
  <2>1. node[n].refs \in Int /\ d[n].refs \in Int
    BY <1>3 DEF IInv, ConnTypeOK, NodeType
  <2>2. Expected(n)' = Holds(d[n].at = "listed") + Holds(n \in copy) + Holds(n \in mh.copy)
    BY <1>2, <1>5 DEF Expected
  <2>3. CASE d[n] = node[n]
    <3>1. /\ node[n].at \in {"listed", "parked"} =>
                /\ n \notin leaked => node[n].refs = Expected(n)
                /\ n \in leaked => node[n].refs > Expected(n)
          /\ node[n].at = "deleted" => n \notin mh.copy
      BY DEF IInv, RefsInv
    <3>2. Expected(n) = Holds(node[n].at = "listed") + Holds(n \in mh.copy)
      BY <1>4 DEF Expected, Holds
    <3> QED BY <1>2, <1>4, <1>5, <2>1, <2>2, <2>3, <3>1, <3>2 DEF Holds
  <2>4. CASE node[n].at = "none" /\ d[n] = NewNode(p, TRUE)
    <3>1. n \notin leaked /\ n \notin mh.copy
      BY <2>4 DEF IInv, UnusedInv, CopiesInv
    <3>2. d[n].at = "listed" /\ d[n].refs = 1
      BY <2>4 DEF NewNode
    <3> QED BY <1>2, <1>4, <1>5, <2>2, <3>1, <3>2 DEF Holds
  <2> QED BY <1>3, <2>3, <2>4
<1> QED BY <1>7, <1>8, <1>9, <1>10, <1>11, <1>12 DEF IInv

(* Sockets are closed: only marks change. *)
LEMMA ServiceInv ==
    ASSUME IInv, Service
    PROVE  IInv'
<1>1. PICK closed \in SUBSET sk.copy :
        node' = [n \in NodeIds |-> IF n \in closed THEN Closed(node[n]) ELSE node[n]]
  BY DEF Service
<1>2. /\ sk.pc = "service" /\ sk' = [sk EXCEPT !.pc = "release"]
      /\ UNCHANGED <<sem, banned, mh, opener, leaked, miscounted>>
  BY DEF Service
<1>3. ConnTypeOK
  BY DEF IInv
<1>4. ASSUME NEW n \in NodeIds
      PROVE  /\ node'[n] \in NodeType
             /\ node'[n].at = node[n].at /\ node'[n].refs = node[n].refs
             /\ node'[n].held = node[n].held /\ node'[n].grant = node[n].grant
  <2>1. node[n] \in NodeType
    BY <1>3 DEF ConnTypeOK
  <2>2. node'[n] = Closed(node[n]) \/ node'[n] = node[n]
    BY <1>1
  <2> QED BY <2>1, <2>2 DEF Closed, NodeType
<1>5. ConnTypeOK'
  <2>1. node' \in [NodeIds -> NodeType]
    BY <1>1, <1>4
  <2> QED BY <1>2, <1>3, <2>1 DEF ConnTypeOK
<1>6. sk'.copy = sk.copy /\ sk'.pc = "release"
  BY <1>2, <1>3 DEF ConnTypeOK
<1>7. mh.pc = "copy" => mh.copy = {}
  BY DEF IInv, CopiesInv
<1>8. mh.pc = "processing" => mh.todo # {}
  BY DEF IInv, CopiesInv
<1> QED BY <1>2, <1>4, <1>5, <1>6, <1>7, <1>8, Frame

(* The copy is dropped with its references. *)
LEMMA SocketReleasesInv ==
    ASSUME IInv, SocketReleases
    PROVE  IInv'
<1>1. /\ node' = WithRefs(node, sk.copy, -1) /\ sk' = [pc |-> "reap", copy |-> {}]
      /\ UNCHANGED <<sem, banned, mh, opener, leaked, miscounted>>
  BY DEF SocketReleases
<1>2. /\ node \in [NodeIds -> NodeType] /\ sk.copy \in SUBSET NodeIds
      /\ -1 \in Int /\ -1 \in {1, -1}
  BY DEF IInv, ConnTypeOK
<1>3. /\ node' \in [NodeIds -> NodeType]
      /\ \A n \in NodeIds : node'[n].at = node[n].at
  BY <1>1, <1>2, WithRefsFact
<1>4. ConnTypeOK'
  BY <1>1, <1>3 DEF IInv, ConnTypeOK
<1>5. CopiesInv'
  BY <1>1, <1>3 DEF IInv, CopiesInv, ConnTypeOK
<1>6. \A n \in NodeIds : Holds(n \in sk'.copy) + Holds(n \in mh'.copy)
         = Holds(n \in sk.copy) + Holds(n \in mh.copy) + (IF n \in sk.copy THEN -1 ELSE 0)
  BY <1>1 DEF Holds
<1>7. \A n \in NodeIds : n \notin (sk'.copy \cup mh'.copy) \ (sk.copy \cup mh.copy)
  BY <1>1
<1> QED BY <1>1, <1>2, <1>4, <1>5, <1>6, <1>7, CopyInv

-----------------------------------------------------------------------------
(* The message thread *)

LEMMA MessageCopiesInv ==
    ASSUME IInv, MessageCopies
    PROVE  IInv'
<1>1. /\ mh.pc = "copy" /\ vNodes # {} /\ node' = WithRefs(node, vNodes, 1)
      /\ mh' = [pc |-> "processing", copy |-> vNodes, todo |-> vNodes]
      /\ UNCHANGED <<sem, banned, sk, opener, leaked, miscounted>>
  BY DEF MessageCopies
<1>2. /\ node \in [NodeIds -> NodeType] /\ vNodes \in SUBSET NodeIds
      /\ 1 \in Int /\ 1 \in {1, -1} /\ mh.copy = {}
  BY <1>1 DEF IInv, ConnTypeOK, vNodes, CopiesInv
<1>3. /\ node' \in [NodeIds -> NodeType]
      /\ \A n \in NodeIds : node'[n].at = node[n].at
  BY <1>1, <1>2, WithRefsFact
<1>4. \A n \in vNodes : node[n].at = "listed"
  BY DEF vNodes
<1>5. ConnTypeOK'
  BY <1>1, <1>2, <1>3 DEF IInv, ConnTypeOK
<1>6. CopiesInv'
  BY <1>1, <1>2, <1>3, <1>4 DEF IInv, CopiesInv, ConnTypeOK
<1>7. \A n \in NodeIds : Holds(n \in sk'.copy) + Holds(n \in mh'.copy)
         = Holds(n \in sk.copy) + Holds(n \in mh.copy) + (IF n \in vNodes THEN 1 ELSE 0)
  BY <1>1, <1>2 DEF Holds
<1>8. \A n \in NodeIds : n \in (sk'.copy \cup mh'.copy) \ (sk.copy \cup mh.copy) =>
         node[n].at = "listed"
  BY <1>1, <1>4
<1> QED BY <1>1, <1>2, <1>5, <1>6, <1>7, <1>8, CopyInv

(* A message is handled, or its sender banned: only marks change. *)
LEMMA ProcessInv ==
    ASSUME IInv, Process
    PROVE  IInv'
<1>1. ConnTypeOK /\ mh.pc = "processing" /\ mh.todo # {}
  BY DEF IInv, CopiesInv, Process
<1>2. PICK n \in NodeIds : n = Min(mh.todo) /\ n \in mh.todo
  BY <1>1, TodoFact
<1>3. /\ ProcessMessage(n) \/ Misbehaving(n)
      /\ mh' = [mh EXCEPT !.todo = mh.todo \ {n},
                          !.pc = IF mh.todo = {n} THEN "release" ELSE mh.pc]
      /\ UNCHANGED <<sem, sk, opener, leaked, miscounted>>
  BY <1>1, <1>2 DEF Process, ConnTypeOK
<1>4. node[n] \in NodeType
  BY <1>1 DEF ConnTypeOK
<1>5. PICK e \in BOOLEAN : node' = [node EXCEPT ![n] = [node[n] EXCEPT !.disconnect = e]]
  <2>1. CASE ProcessMessage(n)
    <3>1. PICK c \in BOOLEAN : node' = [node EXCEPT ![n].disconnect = @ \/ c]
      BY <2>1 DEF ProcessMessage
    <3>2. node' = [node EXCEPT ![n] = [node[n] EXCEPT !.disconnect = node[n].disconnect \/ c]]
      BY <1>1, <3>1 DEF ConnTypeOK
    <3>3. (node[n].disconnect \/ c) \in BOOLEAN
      OBVIOUS
    <3> QED BY <3>2, <3>3
  <2>2. CASE Misbehaving(n)
    BY <1>1, <2>2 DEF Misbehaving, Closed, ConnTypeOK
  <2> QED BY <1>3, <2>1, <2>2
<1>6. ASSUME NEW m \in NodeIds
      PROVE  /\ node'[m] \in NodeType
             /\ node'[m].at = node[m].at /\ node'[m].refs = node[m].refs
             /\ node'[m].held = node[m].held /\ node'[m].grant = node[m].grant
  <2>1. CASE m = n
    <3>1. node'[m] = [node[n] EXCEPT !.disconnect = e]
      BY <1>1, <1>5, <2>1 DEF ConnTypeOK
    <3> QED BY <1>4, <2>1, <3>1 DEF NodeType
  <2>2. CASE m # n
    <3>1. node'[m] = node[m]
      BY <1>1, <1>5, <2>2 DEF ConnTypeOK
    <3> QED BY <1>1, <3>1 DEF ConnTypeOK
  <2> QED BY <2>1, <2>2
<1>7. banned' \subseteq Peers \cup {NoPeer}
  BY <1>1, <1>3, <1>4 DEF ProcessMessage, Misbehaving, ConnTypeOK, NodeType
<1>8. /\ mh' \in [pc : {"copy", "processing", "release"}, copy : SUBSET NodeIds,
                  todo : SUBSET NodeIds]
      /\ mh'.copy = mh.copy /\ mh'.pc # "copy"
      /\ mh'.pc = "processing" => mh'.todo # {}
  <2>1. mh' \in [pc : {"copy", "processing", "release"}, copy : SUBSET NodeIds,
                 todo : SUBSET NodeIds]
        /\ mh'.copy = mh.copy /\ mh'.todo = mh.todo \ {n}
        /\ mh'.pc = (IF mh.todo = {n} THEN "release" ELSE "processing")
    BY <1>1, <1>3 DEF ConnTypeOK
  <2> QED BY <1>2, <2>1
<1>9. ConnTypeOK'
  <2>1. node' \in [NodeIds -> NodeType]
    BY <1>1, <1>5, <1>6 DEF ConnTypeOK
  <2> QED BY <1>1, <1>3, <1>7, <1>8, <2>1 DEF ConnTypeOK
<1>10. sk.pc \in {"reap", "copy"} => sk.copy = {}
  BY DEF IInv, CopiesInv
<1> QED BY <1>3, <1>6, <1>8, <1>9, <1>10, Frame

LEMMA MessageReleasesInv ==
    ASSUME IInv, MessageReleases
    PROVE  IInv'
<1>1. /\ node' = WithRefs(node, mh.copy, -1)
      /\ mh' = [pc |-> "copy", copy |-> {}, todo |-> {}]
      /\ UNCHANGED <<sem, banned, sk, opener, leaked, miscounted>>
  BY DEF MessageReleases
<1>2. /\ node \in [NodeIds -> NodeType] /\ mh.copy \in SUBSET NodeIds
      /\ -1 \in Int /\ -1 \in {1, -1}
  BY DEF IInv, ConnTypeOK
<1>3. /\ node' \in [NodeIds -> NodeType]
      /\ \A n \in NodeIds : node'[n].at = node[n].at
  BY <1>1, <1>2, WithRefsFact
<1>4. ConnTypeOK'
  BY <1>1, <1>3 DEF IInv, ConnTypeOK
<1>5. CopiesInv'
  BY <1>1, <1>3 DEF IInv, CopiesInv, ConnTypeOK
<1>6. \A n \in NodeIds : Holds(n \in sk'.copy) + Holds(n \in mh'.copy)
         = Holds(n \in sk.copy) + Holds(n \in mh.copy) + (IF n \in mh.copy THEN -1 ELSE 0)
  BY <1>1 DEF Holds
<1>7. \A n \in NodeIds : n \notin (sk'.copy \cup mh'.copy) \ (sk.copy \cup mh.copy)
  BY <1>1
<1> QED BY <1>1, <1>2, <1>4, <1>5, <1>6, <1>7, CopyInv

(* A node that no thread is about to mark need not be held any longer. *)
LEMMA HoldExpiresInv ==
    ASSUME IInv, NEW n \in NodeIds, HoldExpires(n)
    PROVE  IInv'
<1>1. /\ node[n].at = "parked" /\ \A o \in Openers : opener[o].n # n
      /\ UNCHANGED <<sem, banned, sk, mh, opener, leaked, miscounted>>
  BY DEF HoldExpires
<1>2. ConnTypeOK /\ node[n] \in NodeType
  BY DEF IInv, ConnTypeOK
<1>3. node' = [node EXCEPT ![n] = [node[n] EXCEPT !.held = FALSE]]
  BY <1>2 DEF HoldExpires, ConnTypeOK
<1>4. /\ node'[n] = [node[n] EXCEPT !.held = FALSE]
      /\ \A m \in NodeIds : m # n => node'[m] = node[m]
  BY <1>2, <1>3 DEF ConnTypeOK
<1>5. node'[n] \in NodeType
  BY <1>2, <1>4 DEF NodeType
<1>6. \A m \in NodeIds : /\ node'[m].at = node[m].at /\ node'[m].refs = node[m].refs
                         /\ node'[m].grant = node[m].grant
  BY <1>2, <1>4 DEF NodeType
<1>7. ConnTypeOK'
  <2>1. node' \in [NodeIds -> NodeType]
    BY <1>2, <1>3, <1>5 DEF ConnTypeOK
  <2> QED BY <1>1, <1>2, <2>1 DEF ConnTypeOK
<1>8. CopiesInv'
  BY <1>1, <1>2, <1>6 DEF IInv, CopiesInv, ConnTypeOK
<1>9. OpenersInv'
  <2>1. ASSUME NEW o \in Openers, opener[o].n # 0
        PROVE  node'[opener[o].n] = node[opener[o].n]
    BY <1>1, <1>2, <1>4, <2>1 DEF ConnTypeOK, OpenerType
  <2> QED BY <1>1, <2>1 DEF IInv, OpenersInv
<1>10. RefsInv'
  BY <1>1, <1>6 DEF IInv, RefsInv, Expected
<1>11. UnusedInv'
  BY <1>1, <1>6 DEF IInv, UnusedInv
<1>12. SlotsConserved'
  BY <1>1, <1>6, SameSlots DEF IInv
<1> QED BY <1>7, <1>8, <1>9, <1>10, <1>11, <1>12 DEF IInv

-----------------------------------------------------------------------------
(* The theorems *)

LEMMA ConnNextInv ==
    ASSUME IInv, [ConnNext]_connVars
    PROVE  IInv'
<1>1. CASE UNCHANGED connVars
  <2>1. UNCHANGED <<node, sem, banned, sk, mh, opener, leaked, miscounted>>
    BY <1>1 DEF connVars
  <2>2. ConnTypeOK' /\ CopiesInv' /\ OpenersInv' /\ UnusedInv' /\ SlotsConserved'
    BY <2>1 DEF IInv, ConnTypeOK, CopiesInv, OpenersInv, UnusedInv, SlotsConserved
  <2>3. RefsInv'
    BY <2>1 DEF IInv, RefsInv, Expected
  <2> QED BY <2>2, <2>3 DEF IInv
<1>2. ASSUME NEW p \in Peers, NEW o \in Openers, OpenNetworkConnection(o, p) PROVE IInv'
  BY <1>2, OpenInv
<1>3. ASSUME NEW p \in Peers, AddNodeOneTry(p) PROVE IInv'
  BY <1>3, AddNodeOneTryInv
<1>4. ASSUME NEW o \in Openers, OpenerSteps(o) PROVE IInv'
  BY <1>4, ConnectNodeLooksInv, AddRefReadsInv, AddRefWritesInv, ConnectNodeInv,
     ConnectNodeFailsInv, AdoptInv DEF OpenerSteps
<1>5. CASE SocketThread
  BY <1>5, ReapInv, SocketCopiesInv, ServiceInv, SocketReleasesInv DEF SocketThread
<1>6. CASE MessageThread
  BY <1>6, MessageCopiesInv, ProcessInv, MessageReleasesInv DEF MessageThread
<1>7. ASSUME NEW n \in NodeIds, HoldExpires(n) PROVE IInv'
  BY <1>7, HoldExpiresInv
<1> QED BY <1>1, <1>2, <1>3, <1>4, <1>5, <1>6, <1>7 DEF ConnNext

(* What the invariant says of deletion, references and slots. *)
LEMMA Accounts ==
    ASSUME IInv
    PROVE  NodesAccounted
<1>1. NodeInUse
  <2>1. ASSUME NEW n \in NodeIds, node[n].at = "deleted", n \notin miscounted
        PROVE  n \notin sk.copy \cup mh.copy
    BY <2>1 DEF IInv, RefsInv
  <2>2. ASSUME NEW n \in NodeIds, node[n].at = "deleted", NEW o \in Openers
        PROVE  opener[o].n # n
    BY <2>2, ConnAssumption DEF IInv, OpenersInv, NodeIds
  <2> QED BY <2>1, <2>2 DEF NodeInUse
<1>2. RefsCounted
  BY DEF IInv, RefsInv, RefsCounted, Expected
<1> QED BY <1>1, <1>2 DEF IInv, NodesAccounted

(* Every variable of the connection table keeps its type (net.h CNode, the   *)
(* threads of net.cpp).                                                      *)
THEOREM ConnTypeCorrect == ConnSpec => []ConnTypeOK
<1>1. ConnInit => IInv
  BY InitConn
<1>2. IInv /\ [ConnNext]_connVars => IInv'
  BY ConnNextInv
<1>3. IInv => ConnTypeOK
  BY DEF IInv
<1> QED BY <1>1, <1>2, <1>3, PTL DEF ConnSpec

(* However the socket thread, the message thread, addnode onetry and any     *)
(* number of threads that connect interleave (net.cpp ThreadSocketHandler2,  *)
(* ThreadMessageHandler2, ConnectNode): a node is deleted only when nobody   *)
(* uses it, references are what the list and the copies make them, and no    *)
(* outbound slot is lost or made.                                            *)
THEOREM NodesStayAccounted == ConnSpec => []NodesAccounted
<1>1. ConnInit => IInv
  BY InitConn
<1>2. IInv /\ [ConnNext]_connVars => IInv'
  BY ConnNextInv
<1>3. IInv => NodesAccounted
  BY Accounts
<1> QED BY <1>1, <1>2, <1>3, PTL DEF ConnSpec
=============================================================================
