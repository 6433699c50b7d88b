# TLA+ models of the xlayer L1 synchronizer

This directory holds TLA+ models of the L1-reading side of the synchronizer in
`src/`. They cover:

- how `etherman.Client` turns `eth_getLogs` answers into `[]Block` and
  `blocksOrder`;
- how it fetches blocks concurrently;
- how the sequencing handlers and their calldata decoders number batches;
- how it builds and checks the fork-id history;
- how the configured "safe" L1 block is computed;
- how the client starts and binds the persistent storage to its L1 chain and
  rollup across restarts.

Each module translates the code it names. Each run is checked with TLC.

## 1. The system

| Part | Code | State | Operations |
|---|---|---|---|
| Signature registry and dispatch | `etherman.go` 62-108, `processEvent` 640-773 | static tables | topic → handler, Block field, `EventOrder` |
| Range reader and event processor | `GetRollupInfoByBlockRange` 500-545, `readEvents` 589-630, handlers 775-1506 | `blocks`, `blocksOrder`, `blocksRetrieved` | FilterLogs, optional parallel pre-fetch, one handler per log |
| Sequencing handlers and decoders | `initialSequenceBatches` 881-937, `forcedBatchEvent` 1134-1206, `sequencedBatchesEvent` 1208-1266, `decodeSequenceBatches` 1268-1278, `sequencedBatchesPreEtrogEvent` and `decodeSequencesPreEtrog` 1280-1371, `forceSequencedBatchesEvent` and `decodeSequencedForceBatches` 1422-1513 | the records appended to `SequencedBatches` / `SequencedForceBatches` / `ForcedBatches` | read the tx, check its hash, recover the sender, decode, number the batches |
| Parallel block fetcher | `RetrieveBlocksInParallel` 557-580, `getBlockHashesFromLogs` 581-587, `retrieveFullBlockbyHash` 1024-1059 | per goroutine: `remainingRetries`, last result; shared `err`, `blocksRetrieved` under a mutex; `WaitGroup` | BlockByHash, 429 back-off sleep, store result, `wg.Wait` |
| Fork history reader | `GetForks` 383-498 | `i` (chunk start), `logs`, `forks` | chunked FilterLogs, interval stitching |
| Genesis verifier | `VerifyGenBlockNumber` 310-360 | — | one FilterLogs, decision on `logs[0]` |
| Client start-up and storage check | `NewClient` 165-293, `GetRollupID` / `GetL1ChainID` 295-303, `storage_compatibility_checker_impl.go` | the client's `cfg.L1ChainID` and `RollupID`; the storage's bound data (outlives the process) | Dial, ChainID check, bindings, RollupAddressToID, decoders, validium, then the storage check |
| Safe L1 block point | `safe_l1_block.go` | `L1BlockPointWithOffset` | parse / print the `point/offset` syntax, `GetSafeBlockNumber` |

How the parts interact:

- `readEvents` calls the block fetcher when `PararellBlockRequest` is set. It
  then feeds every log to `processEvent`.
- Each handler applies the same *bucket rule* (`isheadBlockInArray`):
  - it appends its record to the tail `Block` when that Block is the log's block;
  - otherwise it fetches the block and pushes a new `Block`;
  - then it appends `Order{Name, Pos = len(sub-array) - 1}` to `blocksOrder[hash]`.
- The fork-id events are also read by `GetForks`, which turns them into
  `ForkIDInterval`s.
- `VerifyGenBlockNumber` checks that the configured genesis block holds the
  initial fork event.
- `CheckAndUpdateStorage` takes the rollup id and chain id the client holds
  after `NewClient` and compares them with what the storage was bound to.
- `GetSafeBlockNumber` decides how far the synchronizer may read. It uses a
  block point parsed from the config (`SyncBlockProtection`, `SyncBlockFinalized`).

What makes this code hard:

- **Log ordering.** The bucket rule only works for logs sorted by block.
- **Pre-fetch timing.** The pre-fetch runs before the handler that may drop the log.
- **Concurrency.** Goroutines finish in any order and share one error slot.
- **Retries.** A retry loop with sleeps, next to a cancellable context.
- **uint64 arithmetic.** Used for chunk bounds, interval bounds and block offsets.
- **Special first iteration.** In `GetForks`, `i == 0` is treated specially, but
  that iteration can be skipped by `continue`.

## 2. Modules

| Module | Models | Notes |
|---|---|---|
| `L1Events` | processEvent's dispatch table (`Dispatch`), the rollup filter of `updateForkId` (`Accepted`), which handlers read their transaction, call `RollupTypeMap`, or always call `BlockByHash` | Shared by the two modules below. |
| `RollupInfo` | The abstract promise of `GetRollupInfoByBlockRange`: fail, or return the kept events grouped by block in first-appearance order, each group in log order | |
| `RangeReader` | `readEvents` | State `pararellBlockRequest` (the config flag, chosen in `Init` from `BlockRequestModes` and fixed), `query` (which entry point built the `FilterQuery`: `GetRollupInfoByBlockRange` lets every topic through, `GetRollupInfoByBlockRangePreviousRollupGenesis` only `UpdateL1InfoTree`), `phase, logs, idx, retrieved, blocks, blocksOrder`, and `fetched` (the blocks a handler called `BlockByHash` for). Actions: `FilterLogs`, `RetrieveBlocksInParallel` (the fetcher's result as one step), `ProcessLog`, `Finish`. It is shown to refine `RollupInfo` through the replay of `blocksOrder` against `blocks`. |
| `BlockPrefetch` | What `readEvents` relies on from `RetrieveBlocksInParallel`: one step that returns every block with a nil error, or an error | The abstract spec. `RangeReader`'s `RetrieveBlocksInParallel` action is this step. |
| `BlockFetcher` | One process per goroutine | Actions `Attempt`, `Wake`, `RetriesExhausted`, `Store` (the mutex-protected epilogue), plus `WaitDone` and `Cancel`. It is shown to refine `BlockPrefetch`: the refinement mapping hides the goroutines and shows the caller's view (`Prefetch` while in `wg.Wait`, then `Processing` or `Failed` by the `err` slot). |
| `BatchSequencing` | The four sequencing handlers and `forcedBatchEvent`, one action each, with the decoders as operators | The L1 side is the contract's counters (`lastBatchSequenced`, `lastForceBatch`, `lastForceBatchSequenced`): every sequencing event carries `numBatch` = the counter after the call. The decoders' loop `bn := lastBatchNumber - uint64(len-(i+1))` is the RECURSIVE `NumberItems` in uint64 at a chosen width. Each handler either fails (any of its RPC, hash-check or decode steps; `readEvents` then returns) or appends its batch numbers. `ForcedBatchEvent` records whether `RawTxsData` came from the calldata (sender is the sequencer) or from the event. The Etrog and Elderberry decoders `NewClient` registers (and their validium variants) are not under `src/`: their numbering is taken from the spec (§4.3). |
| `ForkEvents` | Fork events, `uint64` addition at a chosen width, the per-event rollup filter and `NumBatch` resolution | |
| `ForkHistory` | `GetForks` | Actions `FilterChunk`, `ChunksDone`, `Stitch` (one range iteration: error / skip / open / panic / close-and-append), `StitchDone`. |
| `GenesisVerifier` | `VerifyGenBlockNumber` as one step | |
| `ClientStartup` | `NewClient` composed with `CheckAndUpdateStorage`, over restarts | State: `stored` (persists), `starts`, and per start the configuration (`cfgChainID`, `override`, `validium`), the `node` behind `L1URL` (chain id, and the id `RollupAddressToID` gives), `pc`, and the client's `l1ChainID`, `rollupID`. One action per `NewClient` step, each with its error return; `ChainID` compares `big.NewInt(int64(cfg.L1ChainID))` (`Int64` at the model's width) and writes the reported id back when 0 is configured. `Start` may happen at any point: the process stops and comes back with any configuration. The state's own checker is not under `src/`; it is modelled from the `OverrideStorageCheck` comment in `config.go`. |
| `SafeL1Block` | The block-point parser and printer as operators; `ParseConfig` and `GetSafeBlockNumber` as actions | The header answer is `(err, number)`. |

Each `MC*.tla` module gives the constants for TLC, and its `.cfg` files select
the properties. `PROJECT.json` maps every definition to the lines it
translates.

What one step of `ProcessLog` covers:

- it is one iteration of the `readEvents` loop: the pre-fetched-block append,
  then the whole handler, including its RPCs and the Order append;
- a handler's RPCs are either all successful, or one fails and `readEvents`
  returns the error. Which RPCs a handler makes is modelled per handler
  (`CallsBlockByHash`, `HandlerMayFail`): the transaction reads, the
  `RollupTypeMap` call, and `BlockByHash`, which five handlers call for every
  log and the others only when the log opens a new Block. A handler that makes
  no RPC (for example an L1 info tree event in the tail Block) cannot fail;
- the contents of a record (batch data, exit roots, timestamps) are abstracted
  to the log's position in the response, which is all that the grouping and
  ordering properties can tell apart.

## 3. Runs

Passing runs:

| Run | Checks | What it shows |
|---|---|---|
| `range_reader` (`MCRangeReader.cfg`) | `TypeOK`, `RefinesRollupInfoInEachMode` | With sorted logs, for both entry points and in both settings of `PararellBlockRequest`, every `readEvents` behaviour is a `RollupInfo` behaviour (with the pre-fetch, once Blocks that hold no event are removed). The bucket rule, the `Pos` values, the rollup filter and the per-handler error returns all agree, and a call that fails after Blocks were built returns none of them (`return nil, nil, err`, modelled by `ReturnError`). |
| `block_fetcher` | `TypeOK`, `NoLostError`, `RefinesBlockPrefetch` | For 3 goroutines, two of them on one block, in any interleaving, with 429 answers, errors and cancellation: the goroutines implement the one-step `BlockPrefetch` that `RangeReader` takes, liveness included (`wg.Wait` returns), and a nil error means every goroutine got its block. Together with the `range_reader_*` runs this shows that modelling the pre-fetch as one step is sound. |
| `batch_sequencing` | `TypeOK`, `BatchesConsecutive` | In any mix of initial, Etrog, pre-Etrog and force sequencing events and forced batches the contract can emit, read from genesis or from batch 4, the batch numbers the handlers produce are consecutive and end at the contract's `numBatch`: no gap, overlap or uint64 underflow, including the `numBatch == 1` case that skips decoding. |
| `fork_history` | `ForksMatchHistory` | A returned list is exactly the contiguous intervals of our rollup's events in `[gen, last]`. This requires the chunks to tile the range once. |
| `client_startup` | `TypeOK`, `StorageBoundToConnectedChain` | Over three starts with any configuration and network, a start that passes the storage check without override is connected to the chain and rollup the storage is bound to. This needs both halves of `NewClient`'s chain-id code: the comparison with a configured id, and the write-back of the reported id when 0 is configured. |
| `safe_block` | `OffsetArithmeticCorrect`, `StringRoundTrip` | The uint64 offset code equals "head + offset, at least 0, at most head for latest" for every point, offset in -3..3 and head. `ToString` and `StringToL1BlockPoint`, two separate switches, agree: printing a parsed point with `String` and parsing the text again gives the point back. |

Violation runs. Each checks one property, and TLC finds it violated:

| Run | Property | What the counterexample shows |
|---|---|---|
| `range_reader_prefetch_refetch` | `PrefetchServesHandlers` | With the pre-fetch, `initialSequenceBatches` calls `BlockByHash` for block 1 although `readEvents` has just pre-fetched it. The same holds for four other handlers that always fetch their block. The spec says handlers fetch only when the pre-fetch has not already provided the block. Each such log costs a second RPC against the rate limit the pre-fetch is retrying around. |
| `range_reader_unsorted` | `BlocksDistinct` | Logs for blocks 1, 2, 1 give two Blocks with hash 1. The handlers' "error processing" branches are unreachable, so no ordering error is raised. |
| `block_fetcher_cancel` | `CancelAbortsBackoff` | A back-off sleep completes after the context is cancelled, because `time.Sleep` ignores ctx. |
| `fork_history_panic` | `NeverPanics` | When the first log in range is another rollup's event, the next log of ours panics on `forks[len(forks)-1]`. |
| `genesis_verifier` | `AcceptsOnlyOurGenesis` | Another rollup's `CreateNewRollup` in the genesis block is accepted. |
| `safe_block_notfound` | `NotFoundAssumesZero` | A "block not found" answer dereferences a nil header. The log line says it assumes 0. |

Every property of a passing run has a mutant in `PROJECT.json`. The mutant is a
bug of the kind the mapped code could have, and TLC finds the property violated when the
mutant is used:

- Pos computed before the append, or without `- 1`;
- a dropped rollup filter, or one applied after the new Block is pushed;
- a retry loop without its guard or without its decrement;
- an off-by-one in the decoder's numbering (`len - i`);
- a cancelled fetch treated as benign;
- chunks that overlap;
- a missing `min` clamp for `latest`;
- a wrong `ToString` case;
- a configured chain id not compared, or the reported one not written back.

## 4. Bounds

- **RangeReader**
  - Bounds: 2 blocks, up to 3 logs, topics from each handler family (sequence, initial sequence, Etrog singleton, L1 info tree, rollup-filtered fork event, ignored). Rollup-filtered events may be ours or another rollup's. Both `PararellBlockRequest` settings and both entry points are initial states of the one `range_reader` run; 4 logs make the state space too large for the time limit.
  - Why enough: three logs over two blocks give every case of the bucket rule: same tail, new block, and a return to an earlier block. They also give both orders of two kept events in one block, and a dropped event between kept ones.
- **BlockFetcher**
  - Bounds: `Retries = 5`, the code's literal.
  - Why enough: every position of the back-off schedule is reachable. Three requests with a duplicate give a success racing a failure on the same hash.
- **ForkHistory**
  - Bounds: a 4-bit word; blocks 0..3 scanned over [1, 3] in chunks of 2 (`ForkIDChunkSize = 1`); up to 3 events; numBatch in {0, 1, 2}.
  - Why enough: a chunk is cut at `last`, block 0 lies before genesis, and two intervals get closed.
- **BatchSequencing**
  - Bounds: a 3-bit word (`MaxUint64 = 7`); up to 3 batches per call; 4 logs per range; ranges that start at genesis (counter 0) or at batch 4.
  - Why enough: the counter reaches MaxUint64; a call of 3 batches from counter 0 or 4 makes the subtraction `len - (i+1)` reach its largest value; the initial sequence, `numBatch == 1` without decoding, and a forced batch followed by its force sequencing all fit in 4 logs.
- **SafeL1Block**
  - Bounds: a 4-bit word; heads 0..12; offsets -3..3.
  - Why enough: heads below |offset| and the `latest` clamp are both covered. Heads stop where `head + offset` would exceed the word, since an L1 head never nears 2^64.

- **ClientStartup**
  - Bounds: a 3-bit word; chain ids {1, 2, 7}; rollup ids {0, 1}; three starts.
  - Why enough: the first start binds the storage and a second start meets it with another network or configuration. The third start comes after an overridden one. Chain id 7 has the sign bit set, so configuring it makes `int64` negative and start-up refuses a matching node. Rollup id 0 is an unregistered address.

## 5. Fairness

- **RangeReader and ForkHistory:** `WF_vars(Next)`. The code is one sequential
  loop, and every RPC returns either a result or an error.
- **BlockFetcher:** weak fairness per goroutine, plus `WaitDone`. The Go
  scheduler runs runnable goroutines, sleeps end, and every call returns.
  Cancellation is the caller's choice and is not fair.
- **BlockPrefetch:** promises that the call returns (weak fairness of its one
  step); `BlockFetcher` is checked to keep that promise.
- **RollupInfo:** promises that a call returns.
- **GenesisVerifier, SafeL1Block, BatchSequencing and ClientStartup:** check only safety, so
  they assume no fairness.

## 6. Not modelled

- **Calldata decoding.** The ABI/JSON unpacking is data, not control: it is
  abstracted to success or failure. The Etrog and Elderberry decoders (and
  their validium variants) are not under `src/`; only their numbering rule is modelled, from the spec.
- **`GetL1BlockUpgradeLxLy`**, and the scalar query, transaction, gas and
  keystore helpers. These are single RPC calls with no state.
- **Other code with no behaviour of its own.** The state composition,
  interfaces and generated mocks have no behaviour.
- **Empty Blocks with the pre-fetch.** With `PararellBlockRequest`, a log that
  no handler keeps (a dropped topic, or another rollup's fork event) still
  leaves its pre-fetched, event-less Block in the result (`readEvents`, line
  611). The sequential mode returns no such Block, and the spec treats the
  pre-fetch as a cache. `RefinesRollupInfoInEachMode` sets these Blocks aside
  in parallel mode (`ModeStream`), and checks every Block that holds events.
- **Rollup id 0.** `NewClient` accepts the 0 that `RollupAddressToID` returns
  for an unregistered address. `ClientStartup` includes the case, but no
  property is stated about it, since the spec names no such check.
- **Signature hashes.** The keccak signature hashes are abstracted to topic
  names.
- **Known issues with no run:**
  - the jsonschema enum in `config.go` documents `lastest`, which the parser
    rejects;
  - `getBlockHashesFromLogs` does not deduplicate hashes;
  - after the fifth 429, `retrieveFullBlockbyHash` still sleeps 30 s before it
    returns the error. `BlockFetcher` takes that step (`Wake` with no retry
    left), but it costs time, not correctness.

  All are listed as hazards in `PROJECT.json`.

## 7. Plan for later work

1. `GetForks`, followed by the readers that use the interval list to resolve a
   batch's fork id.
2. Topics of the verify and force families in `MCRangeReader`; they share
   the modelled RPC shapes, so they are left out to keep the state space small.
