------------------------------- MODULE Ledger -------------------------------
(***************************************************************************)
(* What the durable chain state promises when nothing forces the tip back: *)
(* a set of known blocks, a tip and the coins of exactly the tip's branch. *)
(* Each durable change is one of two atomic ones: a block is learned, or   *)
(* the tip moves to a heavier block, its coins with it; when the new tip   *)
(* extends the old one any number of blocks may be learned at once.        *)
(***************************************************************************)
EXTENDS BlockTree

VARIABLES known, tip, coins

vars == <<known, tip, coins>>

Init == known = {Genesis} /\ tip = Genesis /\ coins = {Genesis}

Learn(b) ==
    /\ Prev[b] \in known
    /\ ChainWork[b] <= ChainWork[tip]
    /\ known' = known \cup {b}
    /\ UNCHANGED <<tip, coins>>

Advance(b) ==
    /\ Prev[b] \in known \/ tip \in Branch[b]
    /\ ChainWork[b] > ChainWork[tip]
    /\ known' = known \cup Branch[b]
    /\ tip' = b
    /\ coins' = Branch[b]

Next == \E b \in Blocks : Learn(b) \/ Advance(b)

Spec == Init /\ [][Next]_vars
=============================================================================
