--------------------------- MODULE MCBlockFetcher ---------------------------
(***************************************************************************)
(* Model-checking instance of BlockFetcher.  Retries is the code's literal *)
(* 5, so a goroutine can meet the whole 429 back-off schedule.  The        *)
(* request lists are the hash lists getBlockHashesFromLogs builds: two     *)
(* logs of two blocks, and three logs of which two share a block.          *)
(***************************************************************************)
EXTENDS BlockFetcher

MC_Retries == 5
MC_TwoBlocks == <<1, 2>>
MC_SharedBlock == <<1, 1, 2>>
=============================================================================
