------------------------------ MODULE L1Events ------------------------------
(***************************************************************************)
(* The signature registry and the dispatch table of the event processor    *)
(* (src/etherman/etherman.go, processEvent and the EventOrder constants).  *)
(*                                                                         *)
(* A log is abstracted to the block it belongs to, the logical kind its    *)
(* topic[0] resolves to, and, for the rollup-manager fork events, whether  *)
(* it concerns the configured rollup.  Payloads are left out: a log is     *)
(* identified by its position in the FilterLogs response.                  *)
(***************************************************************************)
LOCAL INSTANCE TLC

\* The topic[0] values processEvent distinguishes.  "Ignored" stands for
\* every administrative topic processEvent logs at debug and drops (and the
\* Etrog VerifyBatches family, also dropped); "Unknown" for a topic that is
\* not in the switch at all.
Topics ==
  { "SequenceBatches", "SequenceBatchesPreEtrog", "InitialSequenceBatches",
    "UpdateEtrogSequence", "UpdateL1InfoTree", "UpdateGlobalExitRoot",
    "ForceBatch", "SequenceForceBatches", "VerifyBatchesTrustedAggregatorOld",
    "UpdateZkEVMVersion", "UpdateRollup", "AddExistingRollup",
    "CreateNewRollup", "Ignored", "Unknown" }

\* The rollup a rollup-manager event concerns: the configured one or another.
Rollups == {"ours", "other"}

\* The sub-arrays of a Block that handlers append to.
Arrays ==
  { "SequencedBatches", "SequencedForceBatches", "ForcedBatches",
    "GlobalExitRoots", "L1InfoTree", "ForkIDs", "VerifiedBatches" }

\* The singleton slot Block.UpdateEtrogSequence.
EtrogSlot == "UpdateEtrogSequence"

\* Handler of each topic processEvent does not drop: the Block field the
\* record goes to and the EventOrder name recorded for it.
Dispatch ==
     ("SequenceBatches" :> [arr |-> "SequencedBatches", order |-> "SequenceBatches"])
  @@ ("SequenceBatchesPreEtrog" :> [arr |-> "SequencedBatches", order |-> "SequenceBatches"])
  @@ ("InitialSequenceBatches" :> [arr |-> "SequencedBatches", order |-> "InitialSequenceBatches"])
  @@ ("UpdateEtrogSequence" :> [arr |-> EtrogSlot, order |-> "UpdateEtrogSequence"])
  @@ ("UpdateL1InfoTree" :> [arr |-> "L1InfoTree", order |-> "L1InfoTreeOrder"])
  @@ ("UpdateGlobalExitRoot" :> [arr |-> "GlobalExitRoots", order |-> "GlobalExitRoots"])
  @@ ("ForceBatch" :> [arr |-> "ForcedBatches", order |-> "ForcedBatches"])
  @@ ("SequenceForceBatches" :> [arr |-> "SequencedForceBatches", order |-> "SequenceForceBatches"])
  @@ ("VerifyBatchesTrustedAggregatorOld" :> [arr |-> "VerifiedBatches", order |-> "TrustedVerifyBatch"])
  @@ ("UpdateZkEVMVersion" :> [arr |-> "ForkIDs", order |-> "forkIDs"])
  @@ ("UpdateRollup" :> [arr |-> "ForkIDs", order |-> "forkIDs"])
  @@ ("AddExistingRollup" :> [arr |-> "ForkIDs", order |-> "forkIDs"])
  @@ ("CreateNewRollup" :> [arr |-> "ForkIDs", order |-> "forkIDs"])

HandledTopics == DOMAIN Dispatch

\* Fork events whose handler goes through updateForkId with the rollup id
\* carried by the event (updateZkevmVersion passes the client's own id).
RollupFilteredTopics == {"UpdateRollup", "AddExistingRollup", "CreateNewRollup"}

\* The EventOrder names a blocksOrder entry can carry.
OrderNames == { Dispatch[t].order : t \in HandledTopics }

\* The Block field an EventOrder name indexes into (how a consumer of
\* blocksOrder resolves an Order{Name, Pos}).
ArrayOf(name) == Dispatch[CHOOSE t \in HandledTopics : Dispatch[t].order = name].arr

\* A log processEvent turns into a record: a handled topic, and for the
\* rollup-manager fork events one about the configured rollup.
Accepted(l) ==
  /\ l.topic \in HandledTopics
  /\ l.topic \in RollupFilteredTopics => l.rollup = "ours"

\* Handlers that read the emitting transaction (TransactionInBlock, the tx
\* hash check, TransactionToMessage) before anything else.
TxReadingTopics ==
  { "SequenceBatches", "SequenceBatchesPreEtrog", "InitialSequenceBatches",
    "UpdateEtrogSequence", "ForceBatch", "SequenceForceBatches" }

\* updateRollup and createNewRollup call RollupTypeMap on the rollup
\* manager before updateForkId's rollup filter.
RollupTypeMapTopics == {"UpdateRollup", "CreateNewRollup"}

\* Handlers that call BlockByHash whatever the tail Block is, because the
\* record needs the block's time or parent hash; every other handled topic
\* fetches the block only when it opens a new Block.
AlwaysFetchTopics ==
  { "InitialSequenceBatches", "UpdateEtrogSequence", "ForceBatch",
    "SequenceForceBatches", "UpdateGlobalExitRoot" }

=============================================================================
