----------------------------- MODULE ForkEvents -----------------------------
(***************************************************************************)
(* The fork-defining events of the L1 history, shared by the fork history  *)
(* reader (GetForks) and the genesis verifier (VerifyGenBlockNumber) of    *)
(* src/etherman/etherman.go, and the way both resolve an event to its      *)
(* (numBatch, forkID).  An event's forkID is abstracted to its position in *)
(* the chain, so an interval names the event that defined it.              *)
(***************************************************************************)
EXTENDS Integers, Sequences

CONSTANTS
  Width,      \* bit width of the uint64 block and batch arithmetic
  BlockNums,  \* the L1 block numbers events may sit at
  BatchNums,  \* the numBatch / LastVerifiedBatchBeforeUpgrade values
  MaxEvents   \* bound on the fork events of the modelled L1 history

ASSUME Width \in Nat \ {0} /\ MaxEvents \in Nat

\* uint64 arithmetic at the model's width.
Word == 2^Width
MaxUint64 == Word - 1
Add64(a, b) == (a + b) % Word

\* The four topics of the GetForks filter.
ForkTopics == {"UpdateZkEVMVersion", "UpdateRollup", "AddExistingRollup", "CreateNewRollup"}

\* The rollup-manager events GetForks skips when they concern another rollup;
\* UpdateZkEVMVersion (the pre-LxLy single-rollup contract) carries none.
RollupScoped == {"UpdateRollup", "AddExistingRollup", "CreateNewRollup"}

Event == [blk : BlockNums, topic : ForkTopics, rollup : {"ours", "other"}, numBatch : BatchNums]

\* An L1 history: fork events in block order; a CreateNewRollup has no
\* numBatch field (the code uses 0), an UpdateZkEVMVersion no rollup id.
IsHistory(ch) ==
  /\ \A j \in 1..Len(ch) - 1 : ch[j].blk <= ch[j + 1].blk
  /\ \A j \in 1..Len(ch) :
       /\ ch[j].topic = "CreateNewRollup" => ch[j].numBatch = 0
       /\ ch[j].topic = "UpdateZkEVMVersion" => ch[j].rollup = "ours"

\* The switch in GetForks: skipped when it concerns another rollup.
ForOurRollup(e) == e.topic \in RollupScoped => e.rollup = "ours"

\* The resolved zkevmVersion.NumBatch (0 for CreateNewRollup).
NumBatchOf(e) == IF e.topic = "CreateNewRollup" THEN 0 ELSE e.numBatch
=============================================================================
