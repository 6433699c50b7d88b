--------------------------- MODULE MCRangeReader ---------------------------
(***************************************************************************)
(* Model-checking instance of RangeReader.  Two blocks and three logs let  *)
(* a block hold two events of one kind (Pos 1), two kinds interleave in    *)
(* one block, and a second block follow.  The topics are one of each       *)
(* handler shape: an array handler, the array shared by two Order names,   *)
(* the singleton slot, a fork event filtered by rollup id, a dropped topic.*)
(***************************************************************************)
EXTENDS RangeReader

MC_NBlocks == 2
MC_MaxLogs == 3
MC_LogTopics ==
  { "SequenceBatches", "InitialSequenceBatches", "UpdateEtrogSequence",
    "UpdateL1InfoTree", "UpdateRollup", "Ignored" }
=============================================================================
