------------------------------- MODULE Alerts -------------------------------
(***************************************************************************)
(* Alerts (alert.cpp) at one node: accepting, cancelling, expiring and     *)
(* relaying them, and the warning that is shown (GetWarnings).  Any peer   *)
(* may send any alert at any time and as often as it likes.                *)
(*                                                                         *)
(* An alert is a record: id, cancel (every id up to it), cancels (single   *)
(* ids), expires, relayUntil, priority, who it applies to, final (it has   *)
(* the text and the range of versions, all of them, that the reserved id   *)
(* requires) and signed.                                                   *)
(***************************************************************************)
EXTENDS Integers, FiniteSets, FiniteSetsExt

CONSTANTS
    Alerts,     \* the alerts there are
    Peers,
    Me,         \* this node, as far as an alert applies to it
    MaxInt,     \* the largest int: the reserved id, later than any time
    MaxTime,    \* bound on the clock
    BanScore    \* -banscore, in tens

VARIABLES
    mapAlerts,   \* the accepted alerts
    setKnown,    \* setKnown[p]: alerts the peer sent or was offered
    sent,        \* sent[p]: alerts pushed to the peer, in this connection
    phase,       \* phase[p]: "off", "connected", "ready" after its version message
    penalty,     \* nMisbehavior of each peer, in tens
    banned,      \* setBanned; a ban outlasts the clock's bound
    now,         \* GetAdjustedTime, which a new offset may set back
    latest       \* history: the latest time so far

alertVars == <<mapAlerts, setKnown, sent, phase, penalty, banned, now, latest>>

(* The fields are of type int, or dates; a final alert applies everywhere. *)
AlertsAssumption ==
    /\ MaxTime \in Nat /\ MaxInt \in Nat /\ MaxTime < MaxInt
    /\ \A a \in Alerts :
         /\ a.id \in Int /\ a.id <= MaxInt
         /\ a.priority \in Int /\ a.priority <= MaxInt
         /\ a.cancel \in Int /\ a.expires \in Int
         /\ a.final => Me \in a.applies

AlertInit ==
    /\ mapAlerts = {} /\ now = 0 /\ latest = 0
    /\ setKnown = [p \in Peers |-> {}] /\ sent = [p \in Peers |-> {}]
    /\ phase = [p \in Peers |-> "off"] /\ penalty = [p \in Peers |-> 0]
    /\ banned = {}

IsInEffect(a) == now < a.expires

Names(a, b) == b.id <= a.cancel \/ b.id \in a.cancels

Cancels(a, b) == IsInEffect(a) /\ Names(a, b)

AppliesTo(a, who) == IsInEffect(a) /\ who \in a.applies

CheckSignature(a) == a.signed

(* The reserved id: it never expires, cancels all others, applies to all    *)
(* versions and has the fixed text. *)
ReservedId(a) ==
    a.id = MaxInt => a.expires = MaxInt /\ a.cancel = MaxInt - 1 /\ a.final /\ a.priority = MaxInt

(* What ProcessAlert leaves of the map when it cancels and expires. *)
Remaining(a) == {b \in mapAlerts : ~Cancels(a, b) /\ IsInEffect(b)}

(* Mutant: only what the map held before is looked at. *)
AlreadyCancelledNever(a) == FALSE

AlreadyCancelled(a) == \E b \in Remaining(a) : Cancels(b, a)

WorthProcessing(a) == CheckSignature(a) /\ IsInEffect(a) /\ ReservedId(a)

(* True exactly when the alert was added.  What it cancels is gone even if   *)
(* it turns out to be cancelled itself. *)
ProcessAlert(a) ==
    IF ~WorthProcessing(a) THEN UNCHANGED mapAlerts
    ELSE IF AlreadyCancelled(a) THEN mapAlerts' = Remaining(a)
    ELSE mapAlerts' = Remaining(a) \union {a}

Accepted(a) == WorthProcessing(a) /\ ~AlreadyCancelled(a)

(* RelayTo: each alert is offered to a peer once. *)
Relayed(as, p, known) ==
    {a \in as \ known : IsInEffect(a)
                        /\ (AppliesTo(a, p) \/ AppliesTo(a, Me) \/ now < a.relayUntil)}

(* The peers in vNodes, whether they have sent their version or not. *)
Offered(a, p) == IF phase[p] # "off" /\ IsInEffect(a) THEN {a} ELSE {}

(* A connection ends and what was kept for it is gone. *)
Drop(p) ==
    /\ phase' = [phase EXCEPT ![p] = "off"]
    /\ setKnown' = [setKnown EXCEPT ![p] = {}] /\ sent' = [sent EXCEPT ![p] = {}]
    /\ penalty' = [penalty EXCEPT ![p] = 0]

(* Misbehaving(10): a peer with the score is banned and disconnected. *)
Misbehaving(p) ==
    IF penalty[p] + 1 >= BanScore THEN Drop(p) /\ banned' = banned \union {p}
    ELSE /\ penalty' = [penalty EXCEPT ![p] = @ + 1]
         /\ UNCHANGED <<phase, setKnown, sent, banned>>

(* The handler of an alert message.  A peer without a version message is     *)
(* not listened to. *)
ReceiveAlert(p, a) ==
    /\ phase[p] = "ready" /\ a \notin setKnown[p]
    /\ ProcessAlert(a)
    /\ IF Accepted(a)
       THEN LET known == [setKnown EXCEPT ![p] = @ \union {a}]
            IN  /\ sent' = [q \in Peers |-> sent[q] \union Relayed(Offered(a, q), q, known[q])]
                /\ setKnown' = [q \in Peers |-> known[q] \union Offered(a, q)]
                /\ UNCHANGED <<phase, penalty, banned>>
       ELSE Misbehaving(p)
    /\ UNCHANGED <<now, latest>>

Connect(p) ==
    /\ phase[p] = "off" /\ p \notin banned
    /\ phase' = [phase EXCEPT ![p] = "connected"]
    /\ UNCHANGED <<mapAlerts, setKnown, sent, penalty, banned, now, latest>>

(* The handler of a version message: every alert in effect is relayed. *)
ReceiveVersion(p) ==
    /\ phase[p] = "connected" /\ phase' = [phase EXCEPT ![p] = "ready"]
    /\ LET current == {a \in mapAlerts : IsInEffect(a)}
       IN  /\ sent' = [sent EXCEPT ![p] = @ \union Relayed(current, p, setKnown[p])]
           /\ setKnown' = [setKnown EXCEPT ![p] = @ \union current]
    /\ UNCHANGED <<mapAlerts, penalty, banned, now, latest>>

Disconnect(p) ==
    phase[p] # "off" /\ Drop(p) /\ UNCHANGED <<mapAlerts, banned, now, latest>>

AlertTick ==
    /\ now' \in {now - 1, now + 1} \intersect 0 .. MaxTime
    /\ latest' = IF now' > latest THEN now' ELSE latest
    /\ UNCHANGED <<mapAlerts, setKnown, sent, phase, penalty, banned>>

AlertNext ==
    \/ AlertTick
    \/ \E p \in Peers : Connect(p) \/ ReceiveVersion(p) \/ Disconnect(p)
    \/ \E p \in Peers, a \in Alerts : ReceiveAlert(p, a)

AlertSpec == AlertInit /\ [][AlertNext]_alertVars

(* GetWarnings("statusbar"): the alerts of the highest priority that apply   *)
(* here.  The node's own warnings have a priority below MaxInt. *)
GetWarnings ==
    LET mine == {a \in mapAlerts : AppliesTo(a, Me)}
    IN  {a \in mine : \A b \in mine : b.priority <= a.priority}

----------------------------------------------------------------------------
(* Whatever the order in which the alerts and their cancellations arrive and *)
(* expire, also when the clock is set back, no alert is kept together with   *)
(* one that names it for cancellation (alert.cpp:197-229), and every peer    *)
(* that is ready has been offered all alerts that have not expired yet,      *)
(* whether it came before or after them (main.cpp:3899, 3400).  One that has *)
(* expired and comes back into effect is not offered again.                  *)
AlertsCurrent ==
    /\ \A a, b \in mapAlerts : a # b => ~Names(a, b)
    /\ \A p \in Peers, a \in mapAlerts :
         phase[p] = "ready" /\ latest < a.expires => a \in setKnown[p]

(* "must have a pre-defined message, must never expire, must apply to all     *)
(* versions, and must cancel all previous alerts" (alert.cpp:180): while an  *)
(* alert with the reserved id is kept, and whatever other alerts come or     *)
(* came, the warning shown is the prescribed one.                            *)
UrgentStands ==
    (\E a \in mapAlerts : a.id = MaxInt) =>
        GetWarnings # {} /\ \A a \in GetWarnings : a.final /\ a.id = MaxInt
=============================================================================
