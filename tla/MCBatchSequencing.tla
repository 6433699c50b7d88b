------------------------ MODULE MCBatchSequencing ------------------------
(* Model-checking instance of BatchSequencing: a 3-bit word, so numBatch   *)
(* reaches MaxUint64; up to 3 batches per call and 4 logs per range, read  *)
(* from the rollup's genesis or from batch 4.                              *)
EXTENDS BatchSequencing

MC_Width == 3
MC_MaxItems == 3
MC_MaxLogs == 4
MC_StartBatches == {0, 4}
=============================================================================
