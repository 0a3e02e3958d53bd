------------------------------- MODULE MCTree -------------------------------
(***************************************************************************)
(* The tree of the runs                                                    *)
(*     g - a1 - a2 - a3        each block one unit of work                 *)
(*      \- b1 - b2 - b3 - b4                                               *)
(* A branch of two can be overtaken by a branch of three or four, and a    *)
(* tip set back by two leaves two connects to postpone.                    *)
(***************************************************************************)
EXTENDS Naturals, FiniteSets, TLC

MCBlocks == {"a1", "a2", "a3", "b1", "b2", "b3", "b4"}

MCPrev == "a1" :> "g" @@ "a2" :> "a1" @@ "a3" :> "a2" @@
          "b1" :> "g" @@ "b2" :> "b1" @@ "b3" :> "b2" @@ "b4" :> "b3"

MCBranch[b \in MCBlocks \cup {"g"}] ==
    IF b = "g" THEN {"g"} ELSE {b} \cup MCBranch[MCPrev[b]]

MCChainWork == [b \in MCBlocks \cup {"g"} |-> Cardinality(MCBranch[b])]
=============================================================================
