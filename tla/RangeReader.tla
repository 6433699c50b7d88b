---------------------------- MODULE RangeReader ----------------------------
(***************************************************************************)
(* The range reader and event processor of src/etherman/etherman.go:       *)
(* readEvents (reached from GetRollupInfoByBlockRange and its              *)
(* previous-rollup-genesis sibling), the optional parallel block pre-fetch *)
(* it starts, processEvent and the handlers that append a record to the    *)
(* tail Block and an Order to blocksOrder.                                 *)
(*                                                                         *)
(* One step of ProcessLog is one iteration of the readEvents loop: the     *)
(* pre-fetched-block append, then the whole handler.  A handler's RPC      *)
(* calls (TransactionInBlock, BlockByHash, RollupTypeMap) and its decoding *)
(* either all succeed or one of them fails and the call returns the error; *)
(* which calls a handler makes, and so whether it can fail, depends on its *)
(* topic and on whether the log's Block is already the tail.               *)
(* The concurrency inside RetrieveBlocksInParallel is modelled in          *)
(* BlockFetcher; here its result is one atomic step.                       *)
(***************************************************************************)
EXTENDS Integers, Sequences, FiniteSets, L1Events
LOCAL INSTANCE SequencesExt

CONSTANTS
  NBlocks,               \* L1 blocks in the queried range, numbered 1..NBlocks
  MaxLogs,               \* bound on the logs one FilterLogs response holds
  LogTopics,             \* the topics the provider may return
  BlockRequestModes,     \* the values cfg.PararellBlockRequest may have
  Queries,               \* the entry points that build the FilterQuery
  SortedLogs             \* the provider returns logs ordered by block number

ASSUME NBlocks \in Nat \ {0} /\ MaxLogs \in Nat
ASSUME LogTopics \subseteq Topics
ASSUME BlockRequestModes \subseteq BOOLEAN /\ SortedLogs \in BOOLEAN
ASSUME Queries \subseteq {"RollupInfoByBlockRange", "PreviousRollupGenesis"}

VARIABLES
  pararellBlockRequest,  \* cfg.PararellBlockRequest, fixed for the call
  query,        \* the entry point whose FilterQuery readEvents runs
  phase,        \* "Idle", "Prefetch", "Processing", "Done", "Failed"
  logs,         \* the FilterLogs response
  idx,          \* index of the next log the loop processes
  retrieved,    \* blocksRetrieved: hash -> Block, filled by the pre-fetch
  blocks,       \* the []Block accumulator
  blocksOrder,  \* the map[hash][]Order accumulator (absent key = empty)
  fetched       \* blocks a handler has called BlockByHash for

vars == <<pararellBlockRequest, query, phase, logs, idx, retrieved, blocks, blocksOrder, fetched>>

\* Block hash and number coincide: a FilterLogs response never holds two
\* blocks of one height.
Blk == 1..NBlocks

\* The topics a query's filter lets through: GetRollupInfoByBlockRange
\* asks for every log of the three contracts (its Topics filter is
\* commented out); GetRollupInfoByBlockRangePreviousRollupGenesis only for
\* UpdateL1InfoTree of the global exit root manager.
QueryTopics(q) ==
  IF q = "PreviousRollupGenesis" THEN {"UpdateL1InfoTree"} ELSE Topics

LogChoices ==
  { l \in [blk : Blk, topic : LogTopics, rollup : Rollups] :
      l.topic \notin RollupFilteredTopics => l.rollup = "ours" }

\* The responses eth_getLogs can give to query q.  The rollup contract emits
\* UpdateEtrogSequence once, so a response holds it at most once.
ProviderResponses(q) ==
  { ls \in BoundedSeq({l \in LogChoices : l.topic \in QueryTopics(q)}, MaxLogs) :
      /\ SortedLogs => \A i \in 1..Len(ls) - 1 : ls[i].blk <= ls[i + 1].blk
      /\ Cardinality({i \in 1..Len(ls) : ls[i].topic = "UpdateEtrogSequence"}) <= 1 }

\* prepareBlock / retrieveFullBlockbyHash: a Block with no events yet.
prepareBlock(b) ==
  [number |-> b, hash |-> b, ev |-> [a \in Arrays |-> <<>>], etrog |-> 0]

\* isheadBlockInArray: the tail of blocks is the log's block.
isheadBlockInArray(bs, l) ==
  /\ Len(bs) > 0
  /\ bs[Len(bs)].hash = l.blk
  /\ bs[Len(bs)].number = l.blk

\* The record of log i appended to array arr of block bk (the singleton
\* UpdateEtrogSequence slot is overwritten).
AddRecord(bk, arr, i) ==
  IF arr = EtrogSlot THEN [bk EXCEPT !.etrog = i]
                     ELSE [bk EXCEPT !.ev[arr] = Append(@, i)]

\* Mutant: Pos is len(sub-array), the -1 left out.
OrderPosLen(bk, arr) == IF arr = EtrogSlot THEN 0 ELSE Len(bk.ev[arr])

\* The Pos a handler records: len(sub-array) - 1, and 0 for the singleton.
OrderPos(bk, arr) == IF arr = EtrogSlot THEN 0 ELSE Len(bk.ev[arr]) - 1

\* Mutant: Pos taken from the Block before the record is appended to it.
AppendEventPosBeforeAppend(bs, ord, l, i) ==
  LET h    == Dispatch[l.topic]
      old  == IF ~isheadBlockInArray(bs, l) THEN prepareBlock(l.blk) ELSE bs[Len(bs)]
      bs2  == IF ~isheadBlockInArray(bs, l)
                THEN Append(bs, AddRecord(prepareBlock(l.blk), h.arr, i))
                ELSE [bs EXCEPT ![Len(bs)] = AddRecord(@, h.arr, i)]
  IN  <<bs2, [ord EXCEPT ![l.blk] =
                 Append(@, [name |-> h.order, pos |-> OrderPos(old, h.arr)])]>>

\* The bucket rule shared by every handler: append to the tail Block when
\* it is the log's block, else fetch the block and push a new Block; then
\* append Order{name, pos} to blocksOrder[tail hash].
AppendEvent(bs, ord, l, i) ==
  LET h    == Dispatch[l.topic]
      bs2  == IF ~isheadBlockInArray(bs, l)
                THEN Append(bs, AddRecord(prepareBlock(l.blk), h.arr, i))
                ELSE [bs EXCEPT ![Len(bs)] = AddRecord(@, h.arr, i)]
      tail == bs2[Len(bs2)]
  IN  <<bs2, [ord EXCEPT ![tail.hash] =
                 Append(@, [name |-> h.order, pos |-> OrderPos(tail, h.arr)])]>>

\* The handler calls BlockByHash for the log's block: the always-fetching
\* handlers, and the others (updateForkId only for our rollup) when the
\* tail Block is not the log's block.
CallsBlockByHash(bs, l) ==
  /\ Accepted(l)
  /\ l.topic \in AlwaysFetchTopics \/ ~isheadBlockInArray(bs, l)

\* The handler makes an RPC call, which may return an error: it reads the
\* emitting transaction, calls RollupTypeMap, or calls BlockByHash.  A
\* parsed log needing none of them (an L1 info tree or fork event in the
\* tail Block, a dropped topic) cannot fail.
HandlerMayFail(bs, l) ==
  \/ l.topic \in TxReadingTopics \cup RollupTypeMapTopics
  \/ CallsBlockByHash(bs, l)

\* Mutant: the rollup-id test made after a new Block has been pushed.
processEventFilterAfterPush(bs, ord, l, i) ==
  IF Accepted(l) THEN AppendEvent(bs, ord, l, i)
  ELSE IF l.topic \in HandledTopics /\ ~isheadBlockInArray(bs, l)
         THEN <<Append(bs, prepareBlock(l.blk)), ord>>
         ELSE <<bs, ord>>

\* Mutant: the rollup-id test of updateForkId left out.
processEventNoRollupFilter(bs, ord, l, i) ==
  IF l.topic \in HandledTopics THEN AppendEvent(bs, ord, l, i) ELSE <<bs, ord>>

\* processEvent: dispatch on topic[0]; dropped topics and fork events of
\* another rollup (updateForkId's early return) leave both accumulators.
processEvent(bs, ord, l, i) ==
  IF Accepted(l) THEN AppendEvent(bs, ord, l, i) ELSE <<bs, ord>>

Init ==
  /\ pararellBlockRequest \in BlockRequestModes
  /\ query \in Queries
  /\ phase = "Idle"
  /\ logs = <<>>
  /\ idx = 1
  /\ retrieved = [b \in {} |-> prepareBlock(1)]
  /\ blocks = <<>>
  /\ blocksOrder = [b \in Blk |-> <<>>]
  /\ fetched = {}

\* Mutant: the error returned together with the Blocks built so far.
ReturnErrorWithPartial ==
  /\ phase' = "Failed"
  /\ UNCHANGED <<blocks, blocksOrder>>

\* readEvents' error return, "return nil, nil, err": the caller gets no
\* Block and no Order of the range.
ReturnError ==
  /\ phase' = "Failed"
  /\ blocks' = <<>>
  /\ blocksOrder' = [b \in Blk |-> <<>>]

\* readEvents: EthClient.FilterLogs, which returns the logs or an error.
FilterLogs ==
  /\ phase = "Idle"
  /\ \/ \E ls \in ProviderResponses(query) :
          /\ logs' = ls
          /\ phase' = IF pararellBlockRequest THEN "Prefetch" ELSE "Processing"
          /\ UNCHANGED <<blocks, blocksOrder>>
     \/ ReturnError /\ UNCHANGED logs
  /\ UNCHANGED <<pararellBlockRequest, query, idx, retrieved, fetched>>

\* RetrieveBlocksInParallel over getBlockHashesFromLogs(logs): every block
\* fetched, or (one goroutine per log, so only when there is a log) the
\* error of a failed fetch.
RetrieveBlocksInParallel ==
  /\ phase = "Prefetch"
  /\ \/ /\ retrieved' = [b \in {logs[i].blk : i \in 1..Len(logs)} |-> prepareBlock(b)]
        /\ phase' = "Processing"
        /\ UNCHANGED <<blocks, blocksOrder>>
     \/ /\ logs /= <<>>
        /\ ReturnError
        /\ UNCHANGED retrieved
  /\ UNCHANGED <<pararellBlockRequest, query, logs, idx, fetched>>

\* One iteration of the readEvents loop over logs[idx].
ProcessLog ==
  /\ phase = "Processing"
  /\ idx <= Len(logs)
  /\ LET l   == logs[idx]
         bs1 == IF ~isheadBlockInArray(blocks, l) /\ l.blk \in DOMAIN retrieved
                  THEN Append(blocks, retrieved[l.blk])
                  ELSE blocks
         res == processEvent(bs1, blocksOrder, l, idx)
     IN  \/ /\ blocks' = res[1]
            /\ blocksOrder' = res[2]
            /\ idx' = idx + 1
            /\ fetched' = IF CallsBlockByHash(bs1, l) THEN fetched \cup {l.blk} ELSE fetched
            /\ UNCHANGED phase
         \/ /\ HandlerMayFail(bs1, l)
            /\ ReturnError
            /\ UNCHANGED <<idx, fetched>>
  /\ UNCHANGED <<pararellBlockRequest, query, logs, retrieved>>

\* The loop is over: readEvents returns blocks and blocksOrder.
Finish ==
  /\ phase = "Processing"
  /\ idx > Len(logs)
  /\ phase' = "Done"
  /\ UNCHANGED <<pararellBlockRequest, query, logs, idx, retrieved, blocks, blocksOrder, fetched>>

\* readEvents has returned; the state no longer changes.
Returned ==
  /\ phase \in {"Done", "Failed"}
  /\ UNCHANGED vars

Next ==
  \/ FilterLogs
  \/ RetrieveBlocksInParallel
  \/ ProcessLog
  \/ Finish
  \/ Returned

\* readEvents is one sequential loop whose every RPC returns (with a
\* result or an error), so it keeps taking steps until it returns.
Spec == Init /\ [][Next]_vars /\ WF_vars(Next)

-----------------------------------------------------------------------------
BlockRec ==
  [number : Blk, hash : Blk, ev : [Arrays -> Seq(1..MaxLogs)], etrog : 0..MaxLogs]

TypeOK ==
  /\ phase \in {"Idle", "Prefetch", "Processing", "Done", "Failed"}
  /\ logs \in Seq(LogChoices) /\ Len(logs) <= MaxLogs
  /\ idx \in 1..MaxLogs + 1
  /\ DOMAIN retrieved \subseteq Blk
  /\ blocks \in Seq(BlockRec)
  /\ blocksOrder \in [Blk -> Seq([name : OrderNames, pos : Nat])]
  /\ fetched \subseteq Blk /\ pararellBlockRequest \in BOOLEAN /\ query \in Queries

\* How a consumer replays a block: each Order{name, pos} of
\* blocksOrder[hash] resolves to the log held at that position of the
\* sub-array the name denotes (0 when no such element exists).
Replay(bk, ord) ==
  [k \in 1..Len(ord) |->
     LET arr == ArrayOf(ord[k].name)
     IN  IF arr = EtrogSlot THEN bk.etrog
         ELSE IF ord[k].pos \in 0..Len(bk.ev[arr]) - 1
                THEN bk.ev[arr][ord[k].pos + 1]
                ELSE 0]

\* The returned Blocks as the grouped event stream a consumer sees.
Stream ==
  [k \in 1..Len(blocks) |->
     [hash |-> blocks[k].hash, events |-> Replay(blocks[k], blocksOrder[blocks[k].hash])]]

\* The stream without the Blocks that hold no event.
KeptStream == SelectSeq(Stream, LAMBDA g : g.events /= <<>>)

\* The stream a consumer sees in each mode.  The parallel pre-fetch pushes
\* the fetched Block before the handler runs, so there a log no handler
\* keeps (a dropped topic, another rollup's fork event) still leaves a
\* Block without events, unlike sequential retrieval and unlike the
\* spec's reading of the pre-fetch as a cache; those Blocks are set aside.
ModeStream == IF pararellBlockRequest THEN KeptStream ELSE Stream

AbsMode == INSTANCE RollupInfo WITH
             status <- IF phase \in {"Done", "Failed"} THEN phase ELSE "Idle",
             result <- IF phase \in {"Done", "Failed"} THEN ModeStream ELSE <<>>

\* Refinement in either setting of PararellBlockRequest: sequential
\* retrieval returns exactly the promised grouped stream, and with the
\* parallel pre-fetch the Blocks that do hold events replay to exactly
\* that stream.  The filter of updateForkId has to run before any Block is
\* pushed, every handler has to put its log in the right bucket at the
\* right Order position, and a call that fails midway, after Blocks were
\* built, must return none of them (RollupInfo's Failed keeps no result).
RefinesRollupInfoInEachMode == AbsMode!Spec

\* Every block a handler needs was served from the parallel pre-fetch: no
\* handler calls BlockByHash for a block already in the retrieved map, as
\* the spec's description of the handlers ("unless parallel pre-fetch
\* already populated a cache passed in") says.
PrefetchServesHandlers == fetched \cap DOMAIN retrieved = {}

\* The Blocks readEvents has built are pairwise distinct on blockHash, as
\* the spec's data model requires of the output ("a later log referencing
\* an existing block appends to the existing bucket").
BlocksDistinct ==
  \A i, j \in 1..Len(blocks) : i < j => blocks[i].hash /= blocks[j].hash
=============================================================================
