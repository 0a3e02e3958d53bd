----------------------------- MODULE BlockSync -----------------------------
(***************************************************************************)
(* How a node fetches the block chain from a peer: getblocks, inv, getdata *)
(* and block messages, the time limits on getblocks at both ends, the      *)
(* inventory each connection is taken to know, requests and their retries, *)
(* and the blocks that arrive before their parents (main.cpp ProcessBlock, *)
(* ProcessMessage, SendMessages; net.h CNode).  Both chains are the same   *)
(* line of blocks, so a block is its height; the peer has it to `tip`, and *)
(* the node's index holds the blocks up to `best`.                         *)
(***************************************************************************)
EXTENDS Integers, Sequences, SequencesExt, FiniteSetsExt

CONSTANTS
    StartTip,       \* the peer's height when the behaviour starts
    MaxTip,         \* bound on the peer's height
    Limit,          \* blocks in the answer to a getblocks: 1000 in the code
    Advertised,     \* the best block is advertised to nodes this close: 4000
    Distant,        \* a block this far ahead is thrown away: 5000
    Estimate,       \* GetTotalBlocksEstimate, the last hardened checkpoint
    MaxConnections  \* bound on the connections of a behaviour

ASSUME SyncAssumption ==
    /\ {StartTip, MaxTip, Estimate} \subseteq Nat /\ StartTip <= MaxTip
    /\ {Limit, Advertised, Distant, MaxConnections} \subseteq Nat \ {0}

VARIABLES
    tip,             \* the peer's best block
    nConnections,
    nStartingHeight, \* of the peer, from its version message
    \* the node
    best,            \* pindexBest
    orphans,         \* mapOrphanBlocks, and mapOrphanBlocksByPrev under the parent's height
    mapAlreadyAskedFor, \* blocks with a request time
    due,             \* mapAskFor: entries whose time has come, in order
    later,           \* mapAskFor: entries two minutes or more away
    fMayAsk,         \* nGetblocksAskTime is an interval ago
    \* the peer's connection to the node
    fMayAnswer,      \* nGetblocksReceiveTime is an interval ago
    setInventoryKnown,
    vInventoryToSend,
    \* the sockets, in order
    toPeer, toNode

node == <<best, orphans, mapAlreadyAskedFor, due, later, fMayAsk>>
peer == <<fMayAnswer, setInventoryKnown, vInventoryToSend>>
vars == <<tip, nConnections, nStartingHeight, node, peer, toPeer, toNode>>

GetBlocks(from, stop) == [kind |-> "getblocks", from |-> from, stop |-> stop]
Inv(s) == [kind |-> "inv", hashes |-> s]
GetData(s) == [kind |-> "getdata", hashes |-> s]
Block(h) == [kind |-> "block", hash |-> h]
NoStop == 0   \* hashStop = 0; the genesis block is never asked for

(* The entries of s at the positions in I, in their order. *)
Entries(s, I) ==
    [k \in 1 .. Cardinality(I) |-> s[CHOOSE i \in I : Cardinality({j \in I : j < i}) = k - 1]]

-----------------------------------------------------------------------------
(* The node.  A handler works on a record of its state: n.out collects what  *)
(* it pushes to the peer.                                                    *)

Node == [best |-> best, orphans |-> orphans, asked |-> mapAlreadyAskedFor, due |-> due,
         later |-> later, mayAsk |-> fMayAsk, out |-> <<>>]

Becomes(n) ==
    /\ best' = n.best /\ orphans' = n.orphans /\ mapAlreadyAskedFor' = n.asked
    /\ due' = n.due /\ later' = n.later /\ fMayAsk' = n.mayAsk
    /\ toPeer' = toPeer \o n.out

(* Below the last checkpoint.  Above it the blocks are taken to be recent. *)
IsInitialBlockDownload(n) == n.best < Estimate

(* The first block of the orphan chain h is on. *)
GetOrphanRoot(n, h) == Min({r \in n.orphans : r <= h /\ r .. h \subseteq n.orphans})

WantedByOrphan(n, h) == GetOrphanRoot(n, h) - 1

AlreadyHave(n, h) == h <= n.best \/ h \in n.orphans

PushGetBlocks(n, from, stop) ==
    IF n.mayAsk
      THEN [n EXCEPT !.mayAsk = FALSE, !.out = Append(@, GetBlocks(from, stop))]
      ELSE n

(* A block that was asked for before waits two minutes more. *)
AskFor(n, h) ==
    IF h \in n.asked
      THEN [n EXCEPT !.later = @ \cup {h}]
      ELSE [n EXCEPT !.asked = @ \cup {h}, !.due = Append(@, h)]

(* Mutant: an orphan's missing parent is left to the answer of getblocks. *)
KeepOrphan_NotDirectly(n, h) ==
    LET kept == [n EXCEPT !.orphans = @ \cup {h}]
    IN  PushGetBlocks(kept, kept.best, GetOrphanRoot(kept, h))

(* ProcessBlock, with the parent missing *)
KeepOrphan(n, h) ==
    LET kept == [n EXCEPT !.orphans = @ \cup {h}]
        asking == PushGetBlocks(kept, kept.best, GetOrphanRoot(kept, h))
    IN  IF IsInitialBlockDownload(n) THEN asking ELSE AskFor(asking, WantedByOrphan(kept, h))

(* Mutant: only the orphans of the new block itself are looked at. *)
AcceptWithOrphans_OneLevel(n, h) ==
    [n EXCEPT !.best = IF h + 1 \in n.orphans THEN h + 1 ELSE h, !.orphans = @ \ {h + 1}]

(* AcceptBlock, and then every orphan that becomes connected. *)
AcceptWithOrphans(n, h) ==
    LET reached == Max({t \in h .. MaxTip : (h + 1) .. t \subseteq n.orphans})
    IN  [n EXCEPT !.best = reached, !.orphans = @ \ (h .. reached)]

(* ProcessBlock and what the message handler does when it succeeds.  A block *)
(* the node has is an error, and stays in mapAlreadyAskedFor.                *)
ProcessBlock(n, h) ==
    IF AlreadyHave(n, h) THEN n
    ELSE [(IF h - 1 > n.best THEN KeepOrphan(n, h) ELSE AcceptWithOrphans(n, h))
              EXCEPT !.asked = @ \ {h}]

(* One entry of an inv message. *)
GotInventory(n, h, fLast) ==
    IF ~AlreadyHave(n, h) THEN AskFor(n, h)
    ELSE IF h \in n.orphans THEN PushGetBlocks(n, n.best, GetOrphanRoot(n, h))
    ELSE IF fLast THEN PushGetBlocks(n, h, NoStop)
    ELSE n

ReceiveInv ==
    /\ toNode # <<>> /\ Head(toNode).kind = "inv"
    /\ LET hashes == Head(toNode).hashes
           After[i \in 0 .. Len(hashes)] ==
               IF i = 0 THEN Node ELSE GotInventory(After[i - 1], hashes[i], i = Len(hashes))
       IN  Becomes(After[Len(hashes)])
    /\ toNode' = Tail(toNode)
    /\ UNCHANGED <<tip, nConnections, nStartingHeight, peer>>

(* Mutant: a block at the limit is taken for a distant one. *)
ReceiveBlock_AtLimit ==
    /\ toNode # <<>> /\ Head(toNode).kind = "block"
    /\ LET h == Head(toNode).hash
       IN  Becomes(IF h >= best + Distant THEN Node ELSE ProcessBlock(Node, h))
    /\ toNode' = Tail(toNode)
    /\ UNCHANGED <<tip, nConnections, nStartingHeight, peer>>

ReceiveBlock ==
    /\ toNode # <<>> /\ Head(toNode).kind = "block"
    /\ LET h == Head(toNode).hash
       IN  Becomes(IF h > best + Distant THEN Node ELSE ProcessBlock(Node, h))
    /\ toNode' = Tail(toNode)
    /\ UNCHANGED <<tip, nConnections, nStartingHeight, peer>>

(* SendMessages of the node: the poll during the download, then the requests *)
(* that are due and still of use.                                            *)
Poll(n) ==
    IF IsInitialBlockDownload(n) /\ n.best < nStartingHeight
      THEN PushGetBlocks(n, n.best, NoStop)
      ELSE n

Request(n) ==
    LET missing == {i \in DOMAIN n.due : ~AlreadyHave(n, n.due[i])}
        wanted == Entries(n.due, missing)
    IN  [n EXCEPT !.due = <<>>, !.asked = @ \cup {n.due[i] : i \in missing},
                  !.out = IF missing = {} THEN @ ELSE Append(@, GetData(wanted))]

SendMessages ==
    /\ \E n \in {Request(Poll(Node))} : Becomes(n)
    /\ UNCHANGED <<tip, nConnections, nStartingHeight, peer, toNode>>

-----------------------------------------------------------------------------
(* The peer *)

(* PushInventory for each block in turn, and SendMessages: what the node does *)
(* not know yet goes out, once each.                                          *)
Flush(hashes) ==
    LET queue == vInventoryToSend \o hashes
        first == {i \in DOMAIN queue : queue[i] \notin setInventoryKnown \cup
                                                         {queue[j] : j \in 1 .. i - 1}}
        new == Entries(queue, first)
    IN  /\ toNode' = IF first = {} THEN toNode ELSE Append(toNode, Inv(new))
        /\ setInventoryKnown' = setInventoryKnown \cup {queue[i] : i \in first}
        /\ vInventoryToSend' = <<>>

(* The blocks after `from`, up to the limit or up to hashStop, and the best  *)
(* block if it is not far from where that ended.                             *)
Answer(from, stop) ==
    LET last == Min({tip, from + Limit} \cup {s - 1 : s \in {stop} \ (0 .. from)})
        next == Min({tip, last + 1})   \* pindex after the loop
    IN  [i \in 1 .. last - from |-> from + i] \o
            IF tip - next < Advertised /\ next # tip THEN <<tip>> ELSE <<>>

(* Too soon after the last one: "getblocks spam". *)
IgnoreGetBlocks ==
    /\ toPeer # <<>> /\ Head(toPeer).kind = "getblocks"
    /\ ~fMayAnswer
    /\ toPeer' = Tail(toPeer)
    /\ UNCHANGED <<tip, nConnections, nStartingHeight, node, peer, toNode>>

AnswerGetBlocks ==
    /\ toPeer # <<>> /\ Head(toPeer).kind = "getblocks"
    /\ fMayAnswer /\ fMayAnswer' = FALSE
    /\ Flush(IF Head(toPeer).from < tip THEN Answer(Head(toPeer).from, Head(toPeer).stop)
             ELSE <<>>)
    /\ toPeer' = Tail(toPeer)
    /\ UNCHANGED <<tip, nConnections, nStartingHeight, node>>

AnswerGetData ==
    /\ toPeer # <<>> /\ Head(toPeer).kind = "getdata"
    /\ toNode' = toNode \o [i \in DOMAIN Head(toPeer).hashes |-> Block(Head(toPeer).hashes[i])]
    /\ toPeer' = Tail(toPeer)
    /\ UNCHANGED <<tip, nConnections, nStartingHeight, node, peer>>

(* SendMessages of the peer without a message before it. *)
SendInventory ==
    /\ vInventoryToSend # <<>>
    /\ Flush(<<>>)
    /\ UNCHANGED <<tip, nConnections, nStartingHeight, node, fMayAnswer, toPeer>>

(* AcceptBlock at the peer: a new best block is relayed. *)
NewBlock ==
    /\ tip < MaxTip /\ tip' = tip + 1
    /\ vInventoryToSend' = Append(vInventoryToSend, tip + 1)
    /\ UNCHANGED <<nConnections, nStartingHeight, node, fMayAnswer, setInventoryKnown, toPeer,
                   toNode>>

-----------------------------------------------------------------------------
(* Time and connections *)

(* Bound: the interval is longer than a getblocks takes to reach the peer. *)
MayAsk ==
    /\ ~fMayAsk /\ fMayAsk' = TRUE
    /\ \A i \in DOMAIN toPeer : toPeer[i].kind # "getblocks"
    /\ UNCHANGED <<tip, nConnections, nStartingHeight, best, orphans, mapAlreadyAskedFor, due,
                   later, peer, toPeer, toNode>>

MayAnswer ==
    /\ ~fMayAnswer /\ fMayAnswer' = TRUE
    /\ UNCHANGED <<tip, nConnections, nStartingHeight, node, setInventoryKnown,
                   vInventoryToSend, toPeer, toNode>>

TwoMinutes(h) ==
    /\ h \in later
    /\ later' = later \ {h} /\ due' = Append(due, h)
    /\ UNCHANGED <<tip, nConnections, nStartingHeight, best, orphans, mapAlreadyAskedFor,
                   fMayAsk, peer, toPeer, toNode>>

(* The version message of a new connection, after which the node asks for    *)
(* inventory.  CNode starts afresh; mapAlreadyAskedFor and the blocks stay.   *)
Version(n) == IF tip > n.best THEN PushGetBlocks(n, n.best, NoStop) ELSE n

Fresh == [Node EXCEPT !.due = <<>>, !.later = {}, !.mayAsk = TRUE]

Connect ==
    /\ nConnections < MaxConnections /\ nConnections' = nConnections + 1
    /\ nStartingHeight' = tip
    /\ LET n == Version(Fresh)
       IN  /\ best' = n.best /\ orphans' = n.orphans /\ mapAlreadyAskedFor' = n.asked
           /\ due' = n.due /\ later' = n.later /\ fMayAsk' = n.mayAsk
           /\ toPeer' = n.out
    /\ toNode' = <<>>
    /\ fMayAnswer' = TRUE /\ setInventoryKnown' = {} /\ vInventoryToSend' = <<>>
    /\ UNCHANGED tip

Init ==
    /\ tip = StartTip
    /\ nConnections = 0
    /\ nStartingHeight = -1
    /\ best = 0 /\ orphans = {}
    /\ mapAlreadyAskedFor = {} /\ due = <<>> /\ later = {} /\ fMayAsk = FALSE
    /\ fMayAnswer = FALSE /\ setInventoryKnown = {} /\ vInventoryToSend = <<>>
    /\ toPeer = <<>> /\ toNode = <<>>

Connected == nConnections > 0

Receive == ReceiveInv \/ ReceiveBlock
Serve == IgnoreGetBlocks \/ AnswerGetBlocks \/ AnswerGetData

Next ==
    \/ Connect
    \/ NewBlock
    \/ /\ Connected
       /\ \/ Receive \/ SendMessages \/ Serve \/ SendInventory
          \/ MayAsk \/ MayAnswer \/ \E h \in later : TwoMinutes(h)

Spec == Init /\ [][Next]_vars

(* The message handler threads of both ends go on, what is sent arrives, and  *)
(* time passes.  Nothing makes the peer mine or the connection break.         *)
FairSpec ==
    /\ Spec
    /\ WF_vars(nConnections = 0 /\ Connect)
    /\ WF_vars(Connected /\ Receive) /\ WF_vars(Connected /\ Serve)
    /\ WF_vars(Connected /\ SendMessages) /\ WF_vars(Connected /\ SendInventory)
    /\ WF_vars(Connected /\ MayAsk) /\ WF_vars(Connected /\ MayAnswer)
    /\ \A h \in 1 .. MaxTip : WF_vars(Connected /\ TwoMinutes(h))

-----------------------------------------------------------------------------
(* Properties *)

Heights == 1 .. MaxTip

(* The variables have their types: what the node holds, asked for and was told of *)
(* are heights the peer has or will have mined.                                   *)
TypeOK ==
    /\ tip \in StartTip .. MaxTip
    /\ nConnections \in 0 .. MaxConnections
    /\ nStartingHeight \in -1 .. MaxTip
    /\ best \in 0 .. MaxTip
    /\ orphans \subseteq Heights
    /\ mapAlreadyAskedFor \subseteq Heights /\ due \in Seq(Heights) /\ later \subseteq Heights
    /\ fMayAsk \in BOOLEAN /\ fMayAnswer \in BOOLEAN
    /\ setInventoryKnown \subseteq Heights /\ vInventoryToSend \in Seq(Heights)

(* No block waits as an orphan for a parent the node has: when a block is     *)
(* accepted every orphan above it is connected, to any depth and whatever     *)
(* order they came in.                                                        *)
NoStuckOrphan == \A h \in orphans : h - 1 > best

(* Below the checkpoints the download always comes to the height the peer     *)
(* had at the handshake: no drop of a getblocks as spam, no block advertised   *)
(* too early and thrown away as too distant (the peer would not advertise it   *)
(* again), no lost connection and no request left over from one stops it.      *)
Downloads ==
    \A h \in Heights : nStartingHeight = h ~> best >= Min({h, Estimate})

(* Past the checkpoints a node that is told of the peer's last block gets it   *)
(* and everything before it, although getblocks is limited at either end and   *)
(* nothing polls any more, as long as the connection lasts.                    *)
TipFollowed ==
    (/\ tip = MaxTip /\ tip \in ToSet(vInventoryToSend)
     /\ best >= Estimate
     /\ nConnections = MaxConnections) ~> best = tip
=============================================================================
