----------------------------- MODULE RollupInfo -----------------------------
(***************************************************************************)
(* What GetRollupInfoByBlockRange promises its caller, stated without the  *)
(* Block/Order representation: one call either fails, or returns, for     *)
(* each L1 block holding at least one event the processor keeps, in the   *)
(* order blocks first appear among those events, the block's events in    *)
(* log order.  Each event is named by its position in the FilterLogs      *)
(* response.                                                              *)
(***************************************************************************)
EXTENDS Integers, Sequences, L1Events
LOCAL INSTANCE SequencesExt

CONSTANTS
  Blk,       \* the L1 blocks the range may contain
  MaxLogs    \* bound on the logs one FilterLogs response holds

VARIABLES
  status,    \* "Idle", "Done" or "Failed"
  logs,      \* the FilterLogs response the call works on
  result     \* Seq of [hash, events]: the grouped event stream returned

vars == <<status, logs, result>>

LogRec == [blk : Blk, topic : Topics, rollup : Rollups]

\* Positions of the kept events of ls, in log order.
KeptIdx(ls) == SelectSeq([i \in 1..Len(ls) |-> i], LAMBDA i : Accepted(ls[i]))

\* The distinct elements of s in order of first appearance.
FirstAppearance(s) ==
  FoldLeft(LAMBDA acc, x : IF x \in ToSet(acc) THEN acc ELSE Append(acc, x), <<>>, s)

\* The stream grouped by block, the promised return value for logs ls.
GroupByBlock(ls) ==
  LET idx == KeptIdx(ls)
      bs  == FirstAppearance([k \in 1..Len(idx) |-> ls[idx[k]].blk])
  IN  [k \in 1..Len(bs) |->
         [hash |-> bs[k], events |-> SelectSeq(idx, LAMBDA i : ls[i].blk = bs[k])]]

Init ==
  /\ status = "Idle"
  /\ logs = <<>>
  /\ result = <<>>

\* The provider answers the log query.
Query ==
  /\ status = "Idle"
  /\ logs = <<>>
  /\ logs' \in Seq(LogRec)
  /\ Len(logs') <= MaxLogs
  /\ UNCHANGED <<status, result>>

\* The call returns the grouped stream of the logs it was given.
Return ==
  /\ status = "Idle"
  /\ status' = "Done"
  /\ result' = GroupByBlock(logs)
  /\ UNCHANGED logs

\* The call returns an error and no blocks.
Fail ==
  /\ status = "Idle"
  /\ status' = "Failed"
  /\ UNCHANGED <<logs, result>>

Next == Query \/ Return \/ Fail

\* Every call eventually returns, with a result or an error.
Spec == Init /\ [][Next]_vars /\ WF_vars(Return \/ Fail)
=============================================================================
