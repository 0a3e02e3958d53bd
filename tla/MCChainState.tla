---------------------------- MODULE MCChainState ----------------------------
(* ChainState over the tree of MCTree. *)
EXTENDS ChainState, MCTree
=============================================================================
