-------------------------- MODULE GenesisVerifier --------------------------
(***************************************************************************)
(* VerifyGenBlockNumber of src/etherman/etherman.go: FilterLogs over the   *)
(* single block genBlockNumber for UpdateZkEVMVersion and CreateNewRollup, *)
(* then a decision on logs[0] alone.  One call is one step.                *)
(***************************************************************************)
EXTENDS Integers, Sequences, ForkEvents
LOCAL INSTANCE SequencesExt

CONSTANTS
  GenBlockNumber   \* genBlockNumber argument

VARIABLES
  chain,     \* the fork events on L1
  outcome    \* "pending", then "ok" (true, nil) or "error"

vars == <<chain, outcome>>

Init ==
  /\ chain \in { ch \in BoundedSeq(Event, MaxEvents) : IsHistory(ch) }
  /\ outcome = "pending"

\* The logs of the genesis-block query, in log order.
GenLogs == SelectSeq(chain, LAMBDA e : e.blk = GenBlockNumber
                                     /\ e.topic \in {"UpdateZkEVMVersion", "CreateNewRollup"})

\* The call: an RPC or parse error, no log, or logs[0] resolved to its
\* NumBatch (0 for CreateNewRollup, whatever its rollup id) and accepted
\* iff that is 0.
VerifyGenBlockNumber ==
  /\ outcome = "pending"
  /\ \/ outcome' = "error"
     \/ /\ GenLogs /= <<>>
        /\ outcome' = IF NumBatchOf(GenLogs[1]) = 0 THEN "ok" ELSE "error"
  /\ UNCHANGED chain

Done ==
  /\ outcome /= "pending"
  /\ UNCHANGED vars

Next == VerifyGenBlockNumber \/ Done

Spec == Init /\ [][Next]_vars

\* A genesis block number is accepted only if that block holds the initial
\* fork event (numBatch 0) of the configured rollup, as the spec requires
\* ("contains exactly the initial fork-definition event for the configured
\* rollup") and as the initial forkID GetForks builds from it assumes.
AcceptsOnlyOurGenesis ==
  outcome = "ok" =>
    \E j \in 1..Len(chain) :
      /\ chain[j].blk = GenBlockNumber
      /\ chain[j].topic \in {"UpdateZkEVMVersion", "CreateNewRollup"}
      /\ ForOurRollup(chain[j])
      /\ NumBatchOf(chain[j]) = 0
=============================================================================
