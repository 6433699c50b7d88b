---------------------------- MODULE BlockPrefetch ----------------------------
(***************************************************************************)
(* What readEvents relies on when it calls RetrieveBlocksInParallel (src/  *)
(* etherman/etherman.go): one step that either retrieves every requested   *)
(* block, or fails with some of them retrieved, and that eventually        *)
(* happens.  RangeReader's RetrieveBlocksInParallel action is this step;   *)
(* BlockFetcher, the goroutines that implement it, is shown to refine it.  *)
(***************************************************************************)
CONSTANT Hashes   \* the distinct block hashes requested

VARIABLES
  phase,      \* "Prefetch" until the call returns, then "Processing" or "Failed"
  retrieved   \* the hashes in blocksRetrieved

vars == <<phase, retrieved>>

Init == phase = "Prefetch" /\ retrieved = {}

\* The call returns: a nil error with every block, or an error with any
\* part of them (readEvents then drops the map).
Return ==
  /\ phase = "Prefetch"
  /\ \/ phase' = "Processing" /\ retrieved' = Hashes
     \/ Hashes /= {} /\ phase' = "Failed" /\ retrieved' \in SUBSET Hashes

Spec == Init /\ [][Return]_vars /\ WF_vars(Return)
====
