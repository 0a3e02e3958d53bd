--------------------------- MODULE MCImportBatch ---------------------------
(* ImportBatch over the tree of MCTree. *)
EXTENDS ImportBatch, MCTree
=============================================================================
