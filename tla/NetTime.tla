------------------------------ MODULE NetTime ------------------------------
(***************************************************************************)
(* The network's time: samples of peers and their median (AddTimeData,     *)
(* CMedianFilter), the samples of time servers (ntp.cpp), the adjusted     *)
(* time and the warning that both sources of time share.                   *)
(*                                                                         *)
(* Times are offsets to the system clock, in units of two and a half     *)
(* minutes: an hour is 24.                                                 *)
(***************************************************************************)
EXTENDS Integers, Sequences, FiniteSets

CONSTANTS
    Peers,        \* network addresses of peers
    Liars,        \* those whose clock is wrong
    Offsets,      \* offsets a sample may have
    Honest,       \* offset of a right clock, at most
    FilterSize,   \* samples the filter keeps: 200 in the code
    Hour

Unset == 10000        \* INT64_MAX

TimeAssumption ==
    /\ Offsets \subseteq Int /\ Honest \in Nat
    /\ FilterSize \in Nat /\ Hour \in 1 .. Unset

VARIABLES
    setKnown,      \* addresses that have given a sample
    values,        \* vTimeOffsets, oldest first: [offset, of]
    nPeersOffset, nNtpOffset,
    trusted,       \* a trusted server is configured and has not failed
    fPeersWarning, fNtpWarning,
    miscWarning    \* strMiscWarning is not empty

timeVars == <<setKnown, values, nPeersOffset, nNtpOffset, trusted,
              fPeersWarning, fNtpWarning, miscWarning>>

TimeInit ==
    /\ setKnown = {} /\ values = <<[offset |-> 0, of |-> "self"]>>
    /\ nPeersOffset = Unset /\ nNtpOffset = Unset /\ trusted \in BOOLEAN
    /\ fPeersWarning = FALSE /\ fNtpWarning = FALSE /\ miscWarning = FALSE

abs64(n) == IF n >= 0 THEN n ELSE -n
Min5 == Hour \div 12
HalfHour == Hour \div 2

(* CMedianFilter::input and median. *)
Filtered(v) == Append(IF Len(values) = FilterSize THEN Tail(values) ELSE values, v)

(* The sample at place k of vSorted: fewer than k samples are below it, and  *)
(* at least k are not above it. *)
Below(vs, v) == Cardinality({i \in DOMAIN vs : vs[i].offset < v})
UpTo(vs, v) == Cardinality({i \in DOMAIN vs : vs[i].offset <= v})
Ranked(vs, k) ==
    CHOOSE v \in {vs[i].offset : i \in DOMAIN vs} : Below(vs, v) < k /\ k <= UpTo(vs, v)

Median(vs) ==
    LET n == Len(vs)
    IN  IF n % 2 = 1 THEN Ranked(vs, n \div 2 + 1)
        ELSE (Ranked(vs, n \div 2) + Ranked(vs, n \div 2 + 1)) \div 2

(* Mutant: a peer counts as often as it sends a version message. *)
CountsAlways(p) == TRUE

Counts(p) == p \notin setKnown

(* The warning is raised and withdrawn by each source on its own flag. *)
PeersWarning(vs) ==
    LET match == \E i \in DOMAIN vs : vs[i].offset # 0 /\ abs64(vs[i].offset) < Min5
    IN  CASE ~match /\ ~fPeersWarning -> fPeersWarning' = TRUE /\ miscWarning' = TRUE
          [] match /\ fPeersWarning   -> fPeersWarning' = FALSE /\ miscWarning' = FALSE
          [] OTHER                    -> UNCHANGED <<fPeersWarning, miscWarning>>

AddTimeData(p, offset) ==
    /\ Counts(p)
    /\ setKnown' = setKnown \union {p}
    /\ LET vs == Filtered([offset |-> offset, of |-> p])
       IN  /\ values' = vs
           /\ IF Len(vs) >= 5 /\ Len(vs) % 2 = 1
              THEN /\ nPeersOffset' = IF abs64(Median(vs)) < Hour THEN Median(vs) ELSE Unset
                   /\ PeersWarning(vs)
              ELSE UNCHANGED <<nPeersOffset, fPeersWarning, miscWarning>>
    /\ UNCHANGED <<nNtpOffset, trusted, fNtpWarning>>

NtpWarning(offset) ==
    CASE ~fNtpWarning /\ abs64(offset) > Min5 -> fNtpWarning' = TRUE /\ miscWarning' = TRUE
      [] fNtpWarning /\ abs64(offset) <= Min5 -> fNtpWarning' = FALSE /\ miscWarning' = FALSE
      [] OTHER                                -> UNCHANGED <<fNtpWarning, miscWarning>>

(* ThreadNtpPoller: an answer of the trusted server, or of a random one. *)
NtpAnswer(offset) ==
    /\ nNtpOffset' = offset
    /\ NtpWarning(offset)
    /\ UNCHANGED <<setKnown, values, nPeersOffset, trusted, fPeersWarning>>

(* No answer: a trusted server is given up and its offset with it; the       *)
(* offset of a random one stays until the next one answers. *)
NtpFailure ==
    /\ nNtpOffset' = IF trusted THEN Unset ELSE nNtpOffset
    /\ trusted' = FALSE
    /\ UNCHANGED <<setKnown, values, nPeersOffset, fPeersWarning, fNtpWarning, miscWarning>>

GetAdjustedTime ==
    IF abs64(nNtpOffset) < HalfHour THEN nNtpOffset
    ELSE IF abs64(nPeersOffset) < Hour THEN nPeersOffset ELSE 0

TimeNext ==
    \/ \E p \in Peers, o \in Offsets : (p \notin Liars => abs64(o) <= Honest) /\ AddTimeData(p, o)
    \/ \E o \in Offsets : NtpAnswer(o)
    \/ NtpFailure

TimeSpec == TimeInit /\ [][TimeNext]_timeVars

----------------------------------------------------------------------------
(* While no more than half of the peers that gave a sample are wrong, and no time *)
(* server says otherwise, the node's time is right, whatever the others say, *)
(* how often and in which order (util.cpp:1260-1316); it is never an hour    *)
(* off (util.cpp:1243). *)
TimeFollowsMajority ==
    /\ abs64(GetAdjustedTime) < Hour
    /\ (nNtpOffset = Unset /\ Len(values) < FilterSize
        /\ 2 * Cardinality(setKnown \intersect Liars) <= Cardinality(setKnown))
       => abs64(GetAdjustedTime) <= Honest
=============================================================================
