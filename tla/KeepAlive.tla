----------------------------- MODULE KeepAlive -----------------------------
(***************************************************************************)
(* Pings: SendMessages sends one a minute when nothing else waits to be    *)
(* sent, the pong of the latest ping counts, and a peer whose last counted *)
(* pong lies too far behind the latest ping is disconnected (main.cpp).    *)
(*                                                                         *)
(* The clock counts half minutes.  SendMessages runs for a peer unless the *)
(* message thread is busy with other work, cs_main is taken, or the peer's *)
(* send buffer is not empty: Stall bounds how long that lasts.  A peer     *)
(* that answers does so within Delay.                                      *)
(***************************************************************************)
EXTENDS Integers, Sequences

CONSTANTS
    Minute,      \* 60 s, in units of the clock
    Stall,       \* longest time without a chance to send a ping
    Delay,       \* longest time from a ping to its pong at a peer that answers
    MaxTime      \* bound on the clock

VARIABLES
    clock,       \* GetTimeMicros, from 1
    pingStamp, pongStamp,   \* nPingStamp, nPongStamp
    measured,    \* nPingTime # 0
    pings,       \* pings on their way to the peer and back, oldest first
    polled,      \* when SendMessages last ran with an empty send buffer
    answering,   \* the peer answers
    dropped      \* fDisconnect by the time-out

(* A peer that answers does so before the next ping is due, and the threads  *)
(* are held up for less than the five minutes that are allowed, less one.   *)
KeepAssumption ==
    /\ Minute \in Nat \ {0} /\ Stall \in Nat /\ Delay \in Nat /\ MaxTime \in Nat
    /\ Delay <= Minute /\ Stall <= 4 * Minute

keepVars == <<clock, pingStamp, pongStamp, measured, pings, polled, answering, dropped>>

KeepInit ==
    /\ clock = 2 * Minute /\ pingStamp = 0 /\ pongStamp = 0 /\ measured = FALSE
    /\ pings = <<>> /\ polled = clock /\ answering = TRUE /\ dropped = FALSE

PingDue == clock - pingStamp > Minute

(* Mutant: the time since the ping is measured, not since the pong. *)
TimedOutSincePing(ping) == measured /\ clock - ping > 5 * Minute

(* "Disconnect if the peer hasn't responded to pings recently". *)
TimedOut(ping) == measured /\ ping - pongStamp > 5 * Minute

(* The ping, if the send buffer is empty, then the check, with the stamp    *)
(* just written. *)
SendPing ==
    /\ ~dropped
    /\ \E empty \in BOOLEAN :
         /\ pingStamp' = IF PingDue /\ empty THEN clock ELSE pingStamp
         /\ pings' = IF PingDue /\ empty THEN Append(pings, clock) ELSE pings
         /\ polled' = IF empty THEN clock ELSE polled
    /\ dropped' = TimedOut(pingStamp')
    /\ UNCHANGED <<clock, pongStamp, measured, answering>>

(* The handler of a pong: the nonce is that of the latest ping. *)
PongCounts(nonce) == nonce = pingStamp

(* A pong takes time: its measured time is not zero. *)
Pong ==
    /\ pings # <<>> /\ clock > Head(pings) /\ answering /\ ~dropped
    /\ IF PongCounts(Head(pings))
       THEN pongStamp' = Head(pings) /\ measured' = TRUE
       ELSE UNCHANGED <<pongStamp, measured>>
    /\ pings' = Tail(pings)
    /\ UNCHANGED <<clock, pingStamp, polled, answering, dropped>>

FallSilent ==
    /\ answering /\ answering' = FALSE
    /\ UNCHANGED <<clock, pingStamp, pongStamp, measured, pings, polled, dropped>>

PassTime ==
    /\ clock < MaxTime
    /\ clock - polled < Stall
    /\ answering /\ pings # <<>> => clock - Head(pings) < Delay
    /\ clock' = clock + 1
    /\ UNCHANGED <<pingStamp, pongStamp, measured, pings, polled, answering, dropped>>

KeepNext == SendPing \/ Pong \/ FallSilent \/ PassTime

KeepSpec == KeepInit /\ [][KeepNext]_keepVars

----------------------------------------------------------------------------
(* A peer that has answered once and then no ping for the five minutes and  *)
(* the time until the next ping is disconnected, or is when SendMessages     *)
(* runs next (main.cpp:4087-4101). *)
SilentPeerDropped ==
    measured /\ clock - pongStamp > 6 * Minute + Stall => dropped

(* "Disconnect if the peer hasn't responded to pings recently" (main.cpp:    *)
(* 4095): a peer that answers every ping is not disconnected. *)
AnsweringPeerKept == dropped => ~answering
=============================================================================
