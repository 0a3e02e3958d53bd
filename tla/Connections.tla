---------------------------- MODULE Connections ----------------------------
(***************************************************************************)
(* The table of peer connections (net.cpp, net.h): vNodes, the reference   *)
(* counts, the outbound slots, and the threads that share them: the socket *)
(* thread, which alone disconnects and deletes nodes, the message thread,  *)
(* two threads that open connections, and the RPC command addnode onetry.  *)
(*                                                                         *)
(* Steps under cs_vNodes are single steps.  Buffers are left out: a node   *)
(* may have a message whenever it is visited.  The fifteen minutes for     *)
(* which a disconnected node is held are over at some moment, though not   *)
(* while a thread is between finding a node and marking it as its own: no  *)
(* socket or lock is waited for there.                                     *)
(***************************************************************************)
EXTENDS Integers, FiniteSets, FiniteSetsExt

CONSTANTS
    Peers,
    Openers,        \* ThreadOpenConnections2 and ThreadOpenAddedConnections2
    MaxNodes,       \* bound on the connections ever made
    MaxOutbound,    \* slots of semOutbound
    MaxInbound      \* -maxconnections less the outbound ones

VARIABLES
    node,       \* CNode objects
    sem,        \* free slots of semOutbound
    banned,     \* setBanned
    sk,         \* the socket thread
    mh,         \* the message thread
    opener,     \* the threads that connect
    leaked,     \* nodes with a reference that nobody will give back
    miscounted  \* nodes whose count met an unlocked increment

(* What the system gives: a finite number of threads and of slots. *)
ASSUME ConnAssumption ==
    /\ MaxNodes \in Nat /\ MaxOutbound \in Nat
    /\ IsFiniteSet(Openers)

connVars == <<node, sem, banned, sk, mh, opener, leaked, miscounted>>

NodeIds == 1 .. MaxNodes
NoPeer == 0
Idle == [pc |-> "idle", peer |-> 0, n |-> 0, grant |-> FALSE, reg |-> 0]

(* CNode(): one reference is added by whoever makes the node. *)
NewNode(p, in) ==
    [at |-> "listed", peer |-> p, inbound |-> in, network |-> FALSE, disconnect |-> FALSE,
     refs |-> 1, held |-> FALSE, grant |-> FALSE]

NoNode == [NewNode(0, FALSE) EXCEPT !.at = "none", !.refs = 0]

ConnInit ==
    /\ node = [n \in NodeIds |-> NoNode]
    /\ sem = MaxOutbound
    /\ banned = {}
    /\ sk = [pc |-> "reap", copy |-> {}]
    /\ mh = [pc |-> "copy", copy |-> {}, todo |-> {}]
    /\ opener = [o \in Openers |-> Idle]
    /\ leaked = {} /\ miscounted = {}

vNodes == {n \in NodeIds : node[n].at = "listed"}
Unused == {n \in NodeIds : node[n].at = "none"}

(* FindNode by address. *)
FindNode(p) == {n \in vNodes : node[n].peer = p}

(* CloseSocketDisconnect: a closed socket and fDisconnect are one here. *)
Closed(d) == [d EXCEPT !.disconnect = TRUE]

(* Misbehaving at the score of a ban; below it nothing changes here. *)
Misbehaving(n) ==
    /\ banned' = banned \cup {node[n].peer}
    /\ node' = [node EXCEPT ![n] = Closed(@)]

-----------------------------------------------------------------------------
(* The threads that connect.                                               *)

(* An address is worth a connection when no outbound one leads to its      *)
(* group; each peer is a group of its own.                                 *)
Wanted(p) == \A n \in vNodes : node[n].inbound \/ node[n].peer # p

(* The checks of OpenNetworkConnection pass; a slot was waited for before. *)
OpenNetworkConnection(o, p) ==
    /\ opener[o].pc = "idle"
    /\ sem > 0
    /\ Wanted(p)
    /\ FindNode(p) = {} /\ p \notin banned
    /\ Unused # {}
    /\ sem' = sem - 1
    /\ opener' = [opener EXCEPT ![o] = [@ EXCEPT !.pc = "checked", !.peer = p, !.grant = TRUE]]
    /\ UNCHANGED <<node, banned, sk, mh, leaked, miscounted>>

(* addnode onetry calls ConnectNode with a name: no slot, no mark. *)
AddNodeOneTry(p) ==
    /\ Unused # {}
    /\ node' = [node EXCEPT ![Min(Unused)] = NewNode(p, FALSE)]
    /\ UNCHANGED <<sem, banned, sk, mh, opener, leaked, miscounted>>

(* ConnectNode looks for the address once more. *)
ConnectNodeLooks(o) ==
    /\ opener[o].pc = "checked"
    /\ opener' = [opener EXCEPT ![o] =
          IF FindNode(opener[o].peer) = {} THEN [@ EXCEPT !.pc = "connecting"]
          ELSE [@ EXCEPT !.pc = "found", !.n = Min(FindNode(opener[o].peer))]]
    /\ UNCHANGED <<node, sem, banned, sk, mh, leaked, miscounted>>

(* The existing node gets a reference, without cs_vNodes: the count is     *)
(* read here and written in the next step.                                 *)
AddRefReads(o) ==
    /\ opener[o].pc = "found"
    /\ opener' = [opener EXCEPT ![o] = [@ EXCEPT !.pc = "adding", !.reg = node[opener[o].n].refs]]
    /\ UNCHANGED <<node, sem, banned, sk, mh, leaked, miscounted>>

AddRefWrites(o) ==
    LET n == opener[o].n IN
    /\ opener[o].pc = "adding"
    /\ node' = [node EXCEPT ![n].refs = opener[o].reg + 1]
    /\ miscounted' = IF node[n].refs = opener[o].reg THEN miscounted ELSE miscounted \cup {n}
    /\ leaked' = leaked \cup {n}
    /\ opener' = [opener EXCEPT ![o] = [@ EXCEPT !.pc = "adopt", !.reg = 0]]
    /\ UNCHANGED <<sem, banned, sk, mh>>

(* ConnectSocket succeeds: the node is listed with one reference. *)
ConnectNode(o) ==
    /\ opener[o].pc = "connecting" /\ Unused # {}
    /\ LET n == Min(Unused) IN
       /\ node' = [node EXCEPT ![n] = NewNode(opener[o].peer, FALSE)]
       /\ opener' = [opener EXCEPT ![o] = [@ EXCEPT !.pc = "adopt", !.n = n]]
    /\ UNCHANGED <<sem, banned, sk, mh, leaked, miscounted>>

(* It fails: the grant goes with the caller's scope. *)
ConnectNodeFails(o) ==
    /\ opener[o].pc = "connecting"
    /\ sem' = sem + 1
    /\ opener' = [opener EXCEPT ![o] = Idle]
    /\ UNCHANGED <<node, banned, sk, mh, leaked, miscounted>>

(* The grant moves to the node, which is marked as a network node. *)
Adopt(o) ==
    LET n == opener[o].n IN
    /\ opener[o].pc = "adopt"
    /\ sem' = sem + (IF node[n].grant THEN 1 ELSE 0)
    /\ node' = [node EXCEPT ![n].grant = TRUE, ![n].network = TRUE]
    /\ opener' = [opener EXCEPT ![o] = Idle]
    /\ UNCHANGED <<banned, sk, mh, leaked, miscounted>>

-----------------------------------------------------------------------------
(* The socket thread.                                                      *)

(* Nodes to be taken out of the list. *)
Doomed == {n \in vNodes : node[n].disconnect \/ node[n].refs <= 0}

(* Taken out of the list, closed, held for fifteen minutes, released once. *)
Disconnected(d) ==
    [Closed(d) EXCEPT !.at = "parked", !.grant = FALSE, !.held = TRUE,
                      !.refs = @ - (IF d.network \/ d.inbound THEN 1 ELSE 0)]

(* Mutant: the references are not looked at. *)
DeletableAlways(n) ==
    node[n].at = "parked" /\ ~node[n].held

(* GetRefCount is zero and the four locks are free; of those only cs_vRecv *)
(* is held for longer than a step.                                         *)
Deletable(n) ==
    /\ node[n].at = "parked" /\ node[n].refs <= 0 /\ ~node[n].held
    /\ ~(mh.pc = "processing" /\ n \in mh.todo /\ n = Min(mh.todo))

(* The first part of the loop, under cs_vNodes: disconnect, then delete.   *)
(* A deleted node takes its grant with it.                                 *)
Reap ==
    /\ sk.pc = "reap"
    /\ node' = [n \in NodeIds |->
          CASE n \in Doomed -> Disconnected(node[n])
            [] Deletable(n) -> [NoNode EXCEPT !.at = "deleted"]
            [] OTHER -> node[n]]
    /\ sem' = sem + Cardinality({n \in NodeIds : (n \in Doomed \/ Deletable(n)) /\ node[n].grant})
    /\ leaked' = leaked \cup {n \in Doomed : ~(node[n].network \/ node[n].inbound)}
    /\ sk' = [sk EXCEPT !.pc = "copy"]
    /\ UNCHANGED <<banned, mh, opener, miscounted>>

(* An inbound connection within the limit, from a peer that is not banned, *)
(* is listed; any other is dropped.                                        *)
AcceptInbound(p) ==
    IF /\ p # NoPeer /\ p \notin banned /\ Unused # {}
       /\ Cardinality({n \in vNodes : node[n].inbound}) < MaxInbound
    THEN [node EXCEPT ![Min(Unused)] = NewNode(p, TRUE)]
    ELSE node

(* Both threads copy the list and take a reference to each node in it. *)
WithRefs(d, copy, k) == [n \in NodeIds |-> IF n \in copy THEN [d[n] EXCEPT !.refs = @ + k] ELSE d[n]]

(* After select: a connection is accepted, then the list is copied. *)
SocketCopies ==
    \E p \in Peers \cup {NoPeer} :
        LET d == AcceptInbound(p)
            copy == {n \in NodeIds : d[n].at = "listed"} IN
        /\ sk.pc = "copy"
        /\ node' = WithRefs(d, copy, 1)
        /\ sk' = [pc |-> IF copy = {} THEN "reap" ELSE "service", copy |-> copy]
        /\ UNCHANGED <<sem, banned, mh, opener, leaked, miscounted>>

(* The nodes are served: data comes or goes, a socket is closed at the     *)
(* other end, fails or floods, or a node is found inactive.  Only this     *)
(* thread reads fDisconnect, so all of them are one step.                  *)
Service ==
    /\ sk.pc = "service"
    /\ \E closed \in SUBSET sk.copy :
          node' = [n \in NodeIds |-> IF n \in closed THEN Closed(node[n]) ELSE node[n]]
    /\ sk' = [sk EXCEPT !.pc = "release"]
    /\ UNCHANGED <<sem, banned, mh, opener, leaked, miscounted>>

SocketReleases ==
    /\ sk.pc = "release"
    /\ node' = WithRefs(node, sk.copy, -1)
    /\ sk' = [pc |-> "reap", copy |-> {}]
    /\ UNCHANGED <<sem, banned, mh, opener, leaked, miscounted>>

-----------------------------------------------------------------------------
(* The message thread.                                                     *)

MessageCopies ==
    /\ mh.pc = "copy" /\ vNodes # {}
    /\ node' = WithRefs(node, vNodes, 1)
    /\ mh' = [pc |-> "processing", copy |-> vNodes, todo |-> vNodes]
    /\ UNCHANGED <<sem, banned, sk, opener, leaked, miscounted>>

(* A message is handled and leaves the node as it was, or disconnects it:  *)
(* an incompatible version, one of our own, the addresses of a one-shot.   *)
ProcessMessage(n) ==
    /\ \E d \in BOOLEAN : node' = [node EXCEPT ![n].disconnect = @ \/ d]
    /\ UNCHANGED banned

(* ProcessMessages under cs_vRecv, then SendMessages, then the next node,  *)
(* whose cs_vRecv is taken at once.                                        *)
Process ==
    LET n == Min(mh.todo) IN
    /\ mh.pc = "processing"
    /\ ProcessMessage(n) \/ Misbehaving(n)
    /\ mh' = [mh EXCEPT !.todo = @ \ {n}, !.pc = IF mh.todo = {n} THEN "release" ELSE @]
    /\ UNCHANGED <<sem, sk, opener, leaked, miscounted>>

MessageReleases ==
    /\ mh.pc = "release"
    /\ node' = WithRefs(node, mh.copy, -1)
    /\ mh' = [pc |-> "copy", copy |-> {}, todo |-> {}]
    /\ UNCHANGED <<sem, banned, sk, opener, leaked, miscounted>>

(* nReleaseTime has passed. *)
HoldExpires(n) ==
    /\ node[n].at = "parked" /\ node[n].held
    /\ \A o \in Openers : opener[o].n # n
    /\ node' = [node EXCEPT ![n].held = FALSE]
    /\ UNCHANGED <<sem, banned, sk, mh, opener, leaked, miscounted>>

SocketThread == Reap \/ SocketCopies \/ Service \/ SocketReleases
MessageThread == MessageCopies \/ Process \/ MessageReleases
OpenerSteps(o) ==
    ConnectNodeLooks(o) \/ AddRefReads(o) \/ AddRefWrites(o) \/ ConnectNode(o) \/ ConnectNodeFails(o) \/ Adopt(o)

ConnNext ==
    \/ \E p \in Peers : (\E o \in Openers : OpenNetworkConnection(o, p)) \/ AddNodeOneTry(p)
    \/ \E o \in Openers : OpenerSteps(o)
    \/ SocketThread \/ MessageThread
    \/ \E n \in NodeIds : HoldExpires(n)

ConnSpec == ConnInit /\ [][ConnNext]_connVars

-----------------------------------------------------------------------------

(* The socket thread deletes a node only when "threads are done using it"  *)
(* (net.cpp:754): neither copy has it and no thread that connects is about *)
(* to write to it, however long a message takes.  A count that met the     *)
(* unlocked increment of ConnectNode is excepted.                          *)
NodeInUse ==
    \A n \in NodeIds : node[n].at = "deleted" /\ n \notin miscounted =>
        /\ n \notin sk.copy \cup mh.copy
        /\ \A o \in Openers : opener[o].n # n

(* No slot is lost or made: free ones, those of nodes and those of threads *)
(* about to connect add up, although grants move between threads and nodes *)
(* that may be disconnected at that moment, or have a grant already.       *)
SlotsConserved ==
    sem + Cardinality({n \in NodeIds : node[n].grant})
        + Cardinality({o \in Openers : opener[o].grant}) = MaxOutbound

Holds(held) == IF held THEN 1 ELSE 0

(* A count is what it should be: one for the list, one for each copy that  *)
(* has the node.  So a disconnected node is deleted once the copies are    *)
(* gone, and its slot comes back.  Excepted are nodes with a reference     *)
(* that is never given back: one made by addnode onetry or closed before   *)
(* its mark, at disconnection, and one that a second thread found.         *)
RefsCounted ==
    \A n \in NodeIds :
        node[n].at \in {"listed", "parked"} /\ n \notin leaked \cup miscounted =>
            node[n].refs = Holds(node[n].at = "listed") + Holds(n \in sk.copy) + Holds(n \in mh.copy)

(* The three together, however connecting, accepting, serving and            *)
(* disconnecting interleave (net.cpp:729, 1595): nodes are deleted when      *)
(* nobody uses them, and neither references nor slots are lost on the way.   *)
NodesAccounted == NodeInUse /\ RefsCounted /\ SlotsConserved
=============================================================================
