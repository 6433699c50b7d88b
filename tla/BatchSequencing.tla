--------------------------- MODULE BatchSequencing ---------------------------
(***************************************************************************)
(* The batch-numbering side of the event processor of                      *)
(* src/etherman/etherman.go: the handlers of the four events that sequence *)
(* L2 batches (InitialSequenceBatches, SequenceBatches of Etrog and later  *)
(* contracts, pre-Etrog SequenceBatches, SequenceForceBatches) and of      *)
(* ForceBatch, with the calldata decoders that number the batches.         *)
(*                                                                         *)
(* The L1 side is the rollup contract's counters: every sequencing event   *)
(* the handlers read was emitted with numBatch = lastBatchSequenced after  *)
(* the call.  A handler's record is abstracted to its batch numbers (and,  *)
(* for a forced batch, to where its RawTxsData came from); the Block       *)
(* bucket rule is RangeReader's.                                           *)
(***************************************************************************)
EXTENDS Integers, Sequences

CONSTANTS
  Width,     \* bit width of the uint64 batch arithmetic
  MaxItems,  \* bound on the batches one sequencing call carries
  MaxLogs,   \* bound on the logs of one readEvents call
  StartBatches  \* lastBatchSequenced values the read range may start at

ASSUME Width \in Nat \ {0} /\ MaxItems \in Nat \ {0} /\ MaxLogs \in Nat
ASSUME StartBatches \subseteq 0..2^Width - 1

Word == 2^Width
MaxUint64 == Word - 1
Sub64(a, b) == (a - b) % Word     \* uint64 subtraction, wrapping below 0

\* The loop shared by the decoders: for i, seq := range sequences
\*   bn := lastBatchNumber - uint64(len(sequences)-(i+1)),
\* from item i up to the last of k items.
RECURSIVE NumberItems(_, _, _)
NumberItems(last, k, i) ==
  IF i >= k THEN <<>>
  ELSE <<Sub64(last, Sub64(k, i + 1))>> \o NumberItems(last, k, i + 1)

\* Mutant: the item's distance from the end taken as len - i.
decodeSequencesPreEtrogOffByOne(last, k) ==
  [i \in 1..k |-> Sub64(last, k - (i - 1))]

\* decodeSequencesPreEtrog: ABI-decodes the sequences and numbers them.
decodeSequencesPreEtrog(last, k) == NumberItems(last, k, 0)

\* decodeSequencedForceBatches: the same numbering of the forceBatches.
decodeSequencedForceBatches(last, k) == NumberItems(last, k, 0)

\* The decoders NewClient registers (Etrog, Elderberry, and their validium
\* variants), chosen by decodeSequenceBatches:
\* item i of k is numbered N - (k - 1 - i).
decodeSequenceBatches(last, k) == [i \in 1..k |-> Sub64(last, k - i)]

VARIABLES
  lastBatchSequenced,       \* contract: highest sequenced batch
  lastForceBatch,           \* contract: highest forced batch
  lastForceBatchSequenced,  \* contract: highest forced batch sequenced
  logs,      \* number of logs processed by readEvents so far
  status,    \* "running", or "error" once a handler returned one
  decoded,   \* batch numbers of the SequencedBatches/SequencedForceBatches records, in log order
  forced     \* the ForcedBatches records: [num, raw] with raw the RawTxsData source

vars == <<lastBatchSequenced, lastForceBatch, lastForceBatchSequenced,
          logs, status, decoded, forced>>

Init ==
  /\ lastBatchSequenced \in StartBatches
  /\ lastForceBatch = 0 /\ lastForceBatchSequenced = 0
  /\ logs = 0
  /\ status = "running"
  /\ decoded = <<>>
  /\ forced = <<>>

\* readEvents hands the next log to its handler.
NextLog ==
  /\ status = "running" /\ logs < MaxLogs
  /\ logs' = logs + 1

\* A handler returned err: readEvents returns it and stops.  Every handler
\* below can fail at TransactionInBlock, at the tx hash check and at
\* TransactionToMessage; the further failure points are named at each.
HandlerFails ==
  /\ status' = "error"
  /\ UNCHANGED <<decoded, forced>>

\* The contract emitted a sequencing event for k more batches.
Sequence(k) ==
  /\ lastBatchSequenced + k <= MaxUint64
  /\ lastBatchSequenced' = lastBatchSequenced + k

\* initialSequenceBatches: emitted by the rollup's initialize (batch 1).
\* BlockByHash is always called.
InitialSequenceBatches ==
  /\ NextLog
  /\ lastBatchSequenced = 0 /\ Sequence(1)
  /\ UNCHANGED <<lastForceBatch, lastForceBatchSequenced>>
  /\ \/ HandlerFails
     \/ decoded' = decoded \o <<1>> /\ UNCHANGED <<status, forced>>

\* sequencedBatchesEvent: numBatch 1 is the initial sequence, synthesised
\* without decoding; any other goes to the decoder matching the method id
\* (which fails on an unknown one).  BlockByHash only for a new Block.
SequencedBatchesEvent ==
  \E k \in 1..MaxItems :
    /\ NextLog
    /\ Sequence(k)
    /\ UNCHANGED <<lastForceBatch, lastForceBatchSequenced>>
    /\ LET numBatch == lastBatchSequenced'
       IN  \/ HandlerFails
           \/ /\ decoded' = decoded \o (IF numBatch /= 1
                                          THEN decodeSequenceBatches(numBatch, k)
                                          ELSE <<1>>)
              /\ UNCHANGED <<status, forced>>

\* sequencedBatchesPreEtrogEvent: decodeSequencesPreEtrog, then BlockByHash
\* for a new Block.
SequencedBatchesPreEtrogEvent ==
  \E k \in 1..MaxItems :
    /\ NextLog
    /\ Sequence(k)
    /\ UNCHANGED <<lastForceBatch, lastForceBatchSequenced>>
    /\ \/ HandlerFails
       \/ /\ decoded' = decoded \o decodeSequencesPreEtrog(lastBatchSequenced', k)
          /\ UNCHANGED <<status, forced>>

\* forceSequencedBatchesEvent: the contract sequences k pending forced
\* batches; the handler always fetches the block, then decodes.
ForceSequencedBatchesEvent ==
  \E k \in 1..MaxItems :
    /\ NextLog
    /\ lastForceBatchSequenced + k <= lastForceBatch
    /\ Sequence(k)
    /\ lastForceBatchSequenced' = lastForceBatchSequenced + k
    /\ UNCHANGED lastForceBatch
    /\ \/ HandlerFails
       \/ /\ decoded' = decoded \o decodeSequencedForceBatches(lastBatchSequenced', k)
          /\ UNCHANGED <<status, forced>>

\* forcedBatchEvent: when the tx sender is the event's sequencer the raw
\* transactions are ABI-decoded from the calldata (MethodById and Unpack may
\* fail), else taken from the event.  BlockByHash is always called.
ForcedBatchEvent ==
  \E sender \in {"sequencer", "user"} :
    /\ NextLog
    /\ lastForceBatch < MaxUint64
    /\ lastForceBatch' = lastForceBatch + 1
    /\ UNCHANGED <<lastBatchSequenced, lastForceBatchSequenced>>
    /\ LET raw == IF sender = "sequencer" THEN "calldata" ELSE "event"
       IN  \/ HandlerFails
           \/ /\ forced' = Append(forced, [num |-> lastForceBatch', raw |-> raw])
              /\ UNCHANGED <<status, decoded>>

\* readEvents stops: an error, or the range has no more logs.
Done ==
  /\ status = "error" \/ logs = MaxLogs
  /\ UNCHANGED vars

Next ==
  \/ InitialSequenceBatches
  \/ SequencedBatchesEvent
  \/ SequencedBatchesPreEtrogEvent
  \/ ForceSequencedBatchesEvent
  \/ ForcedBatchEvent
  \/ Done

Spec == Init /\ [][Next]_vars

-----------------------------------------------------------------------------
TypeOK ==
  /\ {lastBatchSequenced, lastForceBatch, lastForceBatchSequenced} \subseteq 0..MaxUint64
  /\ logs \in 0..MaxLogs
  /\ status \in {"running", "error"}
  /\ decoded \in Seq(1..MaxUint64)     \* batch 0 is the genesis batch
  /\ forced \in Seq([num : 0..MaxUint64, raw : {"calldata", "event"}])

\* The batch numbers the handlers decode, across all four sequencing events
\* in log order, are consecutive and end at the contract's numBatch: the
\* uint64 loop lastBatchNumber - (len - (i+1)) of every decoder, and the
\* literal 1 of the initial sequence, number each batch once, without gap,
\* overlap or wrap-around.
BatchesConsecutive ==
  /\ \A i \in 1..Len(decoded) - 1 : decoded[i + 1] = decoded[i] + 1
  /\ status = "running" /\ decoded /= <<>> => decoded[Len(decoded)] = lastBatchSequenced
====
