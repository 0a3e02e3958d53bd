----------------------------- MODULE MCNetwork -----------------------------
(***************************************************************************)
(* A node and its peers, for TLC: the connections and the threads that use *)
(* them (Connections), the addresses it knows (AddrMan), the stream of     *)
(* messages (Messages), alerts (Alerts), pings (KeepAlive), the time of    *)
(* the network (NetTime), the start of the node (StartUp) and mining       *)
(* (Miner).  Each part is examined by itself: part says which one moves in *)
(* a behaviour.  The connections' property, NodesAccounted, is that of     *)
(* Connections.                                                            *)
(***************************************************************************)
EXTENDS Connections, TLC

CONSTANTS
    IPs, Sources, NewBuckets, TriedBuckets, NewBucketSize, TriedBucketSize, BucketsPerAddress,
    InspectOnEvict, GetAddrPercent, MaxId, MaxSuccess,
    Payloads, MaxSize, SendBuffer, MaxItems,
    AlertsSent, AlertPeers, MaxInt, MaxTime, BanScore,
    Minute, Stall, Delay, MaxClock,
    TimePeers, Liars, TimeOffsets, Honest, FilterSize, Hour,
    Processes, MaxHeight, Hardened, Releases, DaemonModes,
    Threads, MaxTips, MaxBlocks, PoolSize, MaxKeys

VARIABLES
    part,
    am,
    out, vRecv, answers, pushed, handled, items,
    mapAlerts, alertsKnown, sent, phase, penalty, alertBanned, now, latest,
    clock, pingStamp, pongStamp, measured, pings, polled, answering, dropped,
    setKnown, values, nPeersOffset, nNtpOffset, trusted, fPeersWarning, fNtpWarning, miscWarning,
    step, holder, stopping, mem, disk, release, reached,
    tip, miner, work, gbt, pool, mined

-----------------------------------------------------------------------------
(* Inputs *)

\* An address falls into either new bucket, depending on who reports it.
NewBucketOf == [ip \in IPs |-> [s \in Sources |-> IF (ip + s) % 2 = 0 THEN 1 ELSE 2]]
TriedBucketOf == [ip \in IPs |-> 1]

\* Messages without data, with one token and with two.
Data == [kind |-> "data"]
PayloadsExamined == {<<>>, <<Data>>, <<Data, Data>>}

Alert(id, cancel, cancels, expires, priority, final) ==
    [id |-> id, cancel |-> cancel, cancels |-> cancels, expires |-> expires, relayUntil |-> 1,
     priority |-> priority, applies |-> {"me", "p"}, final |-> final, signed |-> TRUE]

\* Alerts that cancel each other and expire, one of them for another node and
\* one that names the reserved id; two with the reserved id, one of them with
\* other contents; one not signed.
AlertsExamined ==
    {Alert(1, 0, {}, 2, 1, FALSE), [Alert(2, 1, {}, 1, 2, FALSE) EXCEPT !.applies = {"q"}],
     Alert(3, 0, {1, 2, 9}, 2, 1, FALSE),
     Alert(9, 8, {9}, 9, 9, TRUE), Alert(9, 8, {9}, 9, 9, FALSE),
     [Alert(4, 9, {}, 9, 9, FALSE) EXCEPT !.signed = FALSE]}

\* More than an hour back, right, a little and half an hour ahead.
OffsetsSeen == {-25, 0, 1, 11}

Addresses == INSTANCE AddrMan
Stream == INSTANCE Messages
Alarm == INSTANCE Alerts WITH Alerts <- AlertsSent, Peers <- AlertPeers, Me <- "me",
                                 setKnown <- alertsKnown, banned <- alertBanned
Pings == INSTANCE KeepAlive WITH MaxTime <- MaxClock
Time == INSTANCE NetTime WITH Peers <- TimePeers, Offsets <- TimeOffsets
Start == INSTANCE StartUp
Mining == INSTANCE Miner

\* The constants are such as the modules expect.
ASSUME NetworkAssumption ==
    Addresses!BucketsAssumption /\ Stream!StreamAssumption /\ Alarm!AlertsAssumption
    /\ Pings!KeepAssumption /\ Time!TimeAssumption /\ Start!StartAssumption
    /\ Mining!MinerAssumption

-----------------------------------------------------------------------------

streamVars == <<out, vRecv, answers, pushed, handled, items>>
alertVars == <<mapAlerts, alertsKnown, sent, phase, penalty, alertBanned, now, latest>>
pingVars == <<clock, pingStamp, pongStamp, measured, pings, polled, answering, dropped>>
timeVars == <<setKnown, values, nPeersOffset, nNtpOffset, trusted, fPeersWarning, fNtpWarning,
              miscWarning>>
startVars == <<step, holder, stopping, mem, disk, release, reached>>
minerVars == <<tip, miner, work, gbt, pool, mined>>

\* A part that does not move is in one of its initial states.
Init ==
    /\ part \in {"connections", "addresses", "stream", "alerts", "pings", "time", "start", "miner"}
    /\ ConnInit /\ Addresses!AddrInit /\ Stream!MessageInit /\ Alarm!AlertInit /\ Pings!KeepInit
    /\ Time!TimeInit /\ Start!StartInit /\ Mining!MinerInit
    /\ part # "time" => trusted
    /\ part # "start" => release = CHOOSE r \in Releases : TRUE

ConnectionStep ==
    /\ part = "connections" /\ ConnNext
    /\ UNCHANGED <<part, am, streamVars, alertVars, pingVars, timeVars, startVars, minerVars>>
AddressStep ==
    /\ part = "addresses" /\ Addresses!AddrNext
    /\ UNCHANGED <<part, connVars, streamVars, alertVars, pingVars, timeVars, startVars, minerVars>>
StreamStep ==
    /\ part = "stream" /\ Stream!MessageNext
    /\ UNCHANGED <<part, connVars, am, alertVars, pingVars, timeVars, startVars, minerVars>>
AlertStep ==
    /\ part = "alerts" /\ Alarm!AlertNext
    /\ UNCHANGED <<part, connVars, am, streamVars, pingVars, timeVars, startVars, minerVars>>
PingStep ==
    /\ part = "pings" /\ Pings!KeepNext
    /\ UNCHANGED <<part, connVars, am, streamVars, alertVars, timeVars, startVars, minerVars>>
TimeStep ==
    /\ part = "time" /\ Time!TimeNext
    /\ UNCHANGED <<part, connVars, am, streamVars, alertVars, pingVars, startVars, minerVars>>
StartStep ==
    /\ part = "start" /\ Start!StartNext
    /\ UNCHANGED <<part, connVars, am, streamVars, alertVars, pingVars, timeVars, minerVars>>
MinerStep ==
    /\ part = "miner" /\ Mining!MinerNext
    /\ UNCHANGED <<part, connVars, am, streamVars, alertVars, pingVars, timeVars, startVars>>

Next ==
    \/ ConnectionStep \/ AddressStep \/ StreamStep \/ AlertStep \/ PingStep \/ TimeStep
    \/ StartStep \/ MinerStep

vars == <<part, connVars, am, streamVars, alertVars, pingVars, timeVars, startVars, minerVars>>

Spec == Init /\ [][Next]_vars

-----------------------------------------------------------------------------
(* Properties *)

(* The two threads that connect are interchangeable. *)
OpenersAlike == Permutations(Openers)

(* The tables of addresses agree with each other (CAddrMan::Check_), through  *)
(* eviction between them and the rebuilding at a start.                       *)
TablesAgree == part = "addresses" => Addresses!TablesAgree

(* No single operation on the addresses loses one that was reached once       *)
(* (addrman.h:215).                                                           *)
TriedKept == Addresses!TriedKept

(* The messages that were sent whole are handled in order, none twice, none   *)
(* left out (main.cpp:3983-4046).                                             *)
StreamIntact == part = "stream" => Stream!StreamIntact

(* No alert stands beside one that cancels it, every ready peer was offered   *)
(* those that have not expired, and while an alert with the reserved id is    *)
(* kept the warning shown is the prescribed one (alert.cpp).                  *)
AlertsStand == part = "alerts" => Alarm!AlertsCurrent /\ Alarm!UrgentStands

(* A peer that falls silent is dropped in time, one that answers every ping   *)
(* is not, as long as SendMessages is late by at most Stall                   *)
(* (main.cpp:4087-4101).                                                      *)
PingsDecide == part = "pings" => Pings!SilentPeerDropped /\ Pings!AnsweringPeerKept

(* The node's time is that of the majority of its peers (util.cpp:1260-1316). *)
TimeFollowsMajority == part = "time" => Time!TimeFollowsMajority

(* Wherever a start is cut off, the next one can load what it leaves, and a   *)
(* running node has the block of its synchronised checkpoint (main.cpp:2910,  *)
(* 2946).                                                                     *)
StartsAgain == part = "start" => Start!StartsAgain /\ Start!CheckpointIndexed

(* No two blocks of ours pay the same key of the pool as long as no refill    *)
(* writes over the record of a reserved key, and getwork never follows an     *)
(* entry to a block it has deleted (main.cpp:4680, wallet.cpp:2529,           *)
(* rpcmining.cpp:174, 268).                                                   *)
MiningSound == part = "miner" => Mining!MinedKeysDistinct /\ Mining!WorkIsLive
=============================================================================
