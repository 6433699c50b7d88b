--------------------------- MODULE MCForkHistory ---------------------------
(***************************************************************************)
(* Model-checking instance of ForkHistory.  A 4-bit word; blocks 0..3 with *)
(* the scan over [1, 3] in chunks of two blocks, so a chunk is cut short   *)
(* at the last block and block 0 lies before genesis; up to three events,  *)
(* enough for two closed intervals and an event of another rollup.         *)
(***************************************************************************)
EXTENDS ForkHistory

MC_Width == 4
MC_BlockNums == 0..3
MC_BatchNums == {0, 1, 2}
MC_MaxEvents == 3
MC_Gen == 1
MC_Last == 3
MC_ChunkSize == 1
=============================================================================
