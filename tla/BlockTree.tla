----------------------------- MODULE BlockTree -----------------------------
(***************************************************************************)
(* The tree of block headers.  A block names its predecessor by hash, so   *)
(* the tree is fixed before the node learns of any block: pprev, nHeight   *)
(* and bnChainWork of a CBlockIndex are functions of the block             *)
(* (main.h CBlockIndex, main.cpp AddToBlockIndex).                         *)
(***************************************************************************)
EXTENDS Integers, FiniteSets

CONSTANTS
    Genesis,    \* hashGenesisBlock
    Blocks,     \* every other block header
    Null,       \* the zero hash / null pointer
    Prev,       \* Prev[b]: b.hashPrevBlock
    Branch,     \* Branch[b]: b and all its ancestors
    ChainWork   \* ChainWork[b]: bnChainWork

AllBlocks == Blocks \cup {Genesis}

ASSUME TreeAssumption ==
    /\ Genesis \notin Blocks
    /\ Null \notin AllBlocks
    /\ Prev \in [Blocks -> AllBlocks]
    /\ Branch \in [AllBlocks -> SUBSET AllBlocks]
    /\ ChainWork \in [AllBlocks -> Nat]

(* Branch is the reflexive transitive closure of Prev, and GetBlockWork() is *)
(* positive, so work grows strictly along a branch.                          *)
ASSUME BranchAssumption ==
    /\ Branch[Genesis] = {Genesis}
    /\ \A b \in Blocks : /\ Branch[b] = Branch[Prev[b]] \cup {b}
                         /\ ChainWork[Prev[b]] < ChainWork[b]

(* CBlockIndex::nHeight *)
nHeight(b) == Cardinality(Branch[b]) - 1

(* The block after x on the way to b, for x a proper ancestor of b. *)
StepTowards(x, b) == CHOOSE y \in Branch[b] \ {Genesis} : Prev[y] = x
=============================================================================
