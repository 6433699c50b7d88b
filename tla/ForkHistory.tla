---------------------------- MODULE ForkHistory ----------------------------
(***************************************************************************)
(* GetForks of src/etherman/etherman.go: FilterLogs over [genBlockNumber,  *)
(* lastL1BlockSynced] in chunks of ForkIDChunkSize + 1 blocks for the four *)
(* fork topics, then one pass over the collected logs that closes the      *)
(* previous ForkIDInterval at the new event's numBatch and opens a new one *)
(* up to MaxUint64.                                                        *)
(***************************************************************************)
EXTENDS Integers, Sequences, ForkEvents
LOCAL INSTANCE SequencesExt

CONSTANTS
  GenBlockNumber,      \* genBlockNumber argument
  LastL1BlockSynced,   \* lastL1BlockSynced argument
  ForkIDChunkSize      \* etherMan.cfg.ForkIDChunkSize

ASSUME {GenBlockNumber, LastL1BlockSynced, ForkIDChunkSize} \subseteq 0..MaxUint64

VARIABLES
  chain,    \* the fork events on L1 (fixed for a run)
  phase,    \* "chunks", "stitch", "done", "failed", "panic"
  i,        \* chunk start, then not used
  logs,     \* collected logs, as positions in chain
  k,        \* position in logs of the next log the stitch loop handles
  forks     \* the []ForkIDInterval being built

vars == <<chain, phase, i, logs, k, forks>>

\* "At minimum it checks the GenesisBlock".
LastSynced == IF LastL1BlockSynced < GenBlockNumber THEN GenBlockNumber ELSE LastL1BlockSynced

InRange(e) == e.blk >= GenBlockNumber /\ e.blk <= LastSynced

Histories == { ch \in BoundedSeq(Event, MaxEvents) : IsHistory(ch) }

Init ==
  /\ chain \in Histories
  /\ phase = "chunks"
  /\ i = GenBlockNumber
  /\ logs = <<>>
  /\ k = 1
  /\ forks = <<>>

\* Mutant: the next chunk starts at i + ForkIDChunkSize (the +1 left out).
FilterChunkOverlap ==
  /\ phase = "chunks"
  /\ i <= LastSynced
  /\ LET final == IF Add64(i, ForkIDChunkSize) > LastSynced THEN LastSynced ELSE Add64(i, ForkIDChunkSize)
     IN  \/ /\ logs' = logs \o SelectSeq([j \in 1..Len(chain) |-> j],
                                         LAMBDA j : chain[j].blk >= i /\ chain[j].blk <= final)
            /\ i' = Add64(i, ForkIDChunkSize)
            /\ UNCHANGED phase
         \/ /\ phase' = "failed"
            /\ UNCHANGED <<i, logs>>
  /\ UNCHANGED <<chain, k, forks>>

\* One iteration of the chunk loop: FilterLogs over [i, final] with
\* final = min(i + ForkIDChunkSize, last), then i = i + ForkIDChunkSize + 1.
FilterChunk ==
  /\ phase = "chunks"
  /\ i <= LastSynced
  /\ LET final == IF Add64(i, ForkIDChunkSize) > LastSynced THEN LastSynced ELSE Add64(i, ForkIDChunkSize)
     IN  \/ /\ logs' = logs \o SelectSeq([j \in 1..Len(chain) |-> j],
                                         LAMBDA j : chain[j].blk >= i /\ chain[j].blk <= final)
            /\ i' = Add64(Add64(i, ForkIDChunkSize), 1)
            /\ UNCHANGED phase
         \/ /\ phase' = "failed"
            /\ UNCHANGED <<i, logs>>
  /\ UNCHANGED <<chain, k, forks>>

\* The chunk loop condition i <= lastL1BlockSynced fails.
ChunksDone ==
  /\ phase = "chunks"
  /\ i > LastSynced
  /\ phase' = "stitch"
  /\ UNCHANGED <<chain, i, logs, k, forks>>

\* One iteration of `for i, l := range logs`.  An event of another rollup
\* is skipped (continue); one whose parse or RollupTypeMap fails returns
\* the error; otherwise the log at index 0 opens the list and any later log
\* closes forks[len(forks)-1] first, which panics when forks is empty.
Stitch ==
  /\ phase = "stitch"
  /\ k <= Len(logs)
  /\ LET e    == chain[logs[k]]
         fork == [from |-> Add64(NumBatchOf(e), 1), to |-> MaxUint64,
                  forkId |-> logs[k], blockNumber |-> e.blk]
     IN  \/ /\ phase' = "failed"
            /\ UNCHANGED forks
         \/ /\ ~ForOurRollup(e)
            /\ UNCHANGED <<phase, forks>>
         \/ /\ ForOurRollup(e)
            /\ k = 1
            /\ forks' = Append(forks, fork)
            /\ UNCHANGED phase
         \/ /\ ForOurRollup(e)
            /\ k > 1
            /\ forks = <<>>
            /\ phase' = "panic"
            /\ UNCHANGED forks
         \/ /\ ForOurRollup(e)
            /\ k > 1
            /\ forks /= <<>>
            /\ forks' = Append([forks EXCEPT ![Len(forks)].to = NumBatchOf(e)], fork)
            /\ UNCHANGED phase
  /\ k' = k + 1
  /\ UNCHANGED <<chain, i, logs>>

\* The range loop is over: GetForks returns forks.
StitchDone ==
  /\ phase = "stitch"
  /\ k > Len(logs)
  /\ phase' = "done"
  /\ UNCHANGED <<chain, i, logs, k, forks>>

\* GetForks has returned (or the goroutine has panicked).
Returned ==
  /\ phase \in {"done", "failed", "panic"}
  /\ UNCHANGED vars

Next == FilterChunk \/ ChunksDone \/ Stitch \/ StitchDone \/ Returned

\* GetForks is sequential and every FilterLogs / RollupTypeMap returns.
Spec == Init /\ [][Next]_vars /\ WF_vars(Next)

-----------------------------------------------------------------------------
Interval == [from : 0..MaxUint64, to : 0..MaxUint64, forkId : Nat, blockNumber : BlockNums]

TypeOK ==
  /\ phase \in {"chunks", "stitch", "done", "failed", "panic"}
  /\ i \in 0..MaxUint64
  /\ logs \in Seq(1..Len(chain))
  /\ k \in 1..Len(logs) + 1
  /\ forks \in Seq(Interval)

\* The chain events of our rollup within [genBlockNumber, last], in order.
OurEvents == SelectSeq([j \in 1..Len(chain) |-> j],
                       LAMBDA j : InRange(chain[j]) /\ ForOurRollup(chain[j]))

\* The interval list the spec's data model defines for those events: the
\* j-th opens after its numBatch and is closed by the next one's numBatch,
\* the last one open to MaxUint64.
Intervals(es) ==
  [j \in 1..Len(es) |->
     [from |-> Add64(NumBatchOf(chain[es[j]]), 1),
      to |-> IF j < Len(es) THEN NumBatchOf(chain[es[j + 1]]) ELSE MaxUint64,
      forkId |-> es[j], blockNumber |-> chain[es[j]].blk]]

\* When GetForks returns without error, its list is exactly the contiguous
\* interval list of the fork events of our rollup in the scanned range:
\* the chunks cover every block of the range once, in order, and the
\* stitching closes each interval at the next event's numBatch.
ForksMatchHistory == phase = "done" => forks = Intervals(OurEvents)

\* GetForks never indexes forks[len(forks)-1] of an empty list.
NeverPanics == phase /= "panic"
=============================================================================
