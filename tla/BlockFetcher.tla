---------------------------- MODULE BlockFetcher ----------------------------
(***************************************************************************)
(* The block fetcher of src/etherman/etherman.go: RetrieveBlocksInParallel *)
(* starts one goroutine per requested hash; each runs                      *)
(* retrieveFullBlockbyHash, the BlockByHash loop that retries on HTTP 429  *)
(* after a time.Sleep, and then writes the block into blocksRetrieved or   *)
(* its error into the shared err slot, both under one mutex; wg.Wait       *)
(* returns when every goroutine is done.  The caller's context may be      *)
(* cancelled at any time.                                                  *)
(*                                                                         *)
(* The mutex-protected writes are single atomic steps.  Time is abstract:  *)
(* a sleep is a state a goroutine leaves by one Wake step.                 *)
(***************************************************************************)
EXTENDS Integers, Sequences, FiniteSets

CONSTANTS
  Requests,   \* the hashes passed in, one per log (duplicates possible)
  Retries     \* remainingRetries' initial value in retrieveFullBlockbyHash

ASSUME Requests \in Seq(Nat) /\ Retries \in Nat \ {0}

VARIABLES
  pc,          \* per goroutine: "loop", "sleep", "exit", "done"
  remaining,   \* per goroutine: remainingRetries
  result,      \* per goroutine: outcome of its last BlockByHash call
  calls,       \* per goroutine: BlockByHash calls issued (history)
  retrieved,   \* blocksRetrieved: set of hashes written to the map
  err,         \* the shared err slot: "nil" or "error"
  waiting,     \* the caller is blocked in wg.Wait
  cancelled    \* the caller's context has been cancelled

vars == <<pc, remaining, result, calls, retrieved, err, waiting, cancelled>>

G == 1..Len(Requests)

Outcomes == {"none", "ok", "429", "error", "canceled"}

Init ==
  /\ pc = [g \in G |-> "loop"]
  /\ remaining = [g \in G |-> Retries]
  /\ result = [g \in G |-> "none"]
  /\ calls = [g \in G |-> 0]
  /\ retrieved = {}
  /\ err = "nil"
  /\ waiting = TRUE
  /\ cancelled = FALSE

\* Mutant: the loop body runs without the remainingRetries > 0 test.
AttemptUnguarded(g) ==
  /\ pc[g] = "loop"
  /\ remaining' = [remaining EXCEPT ![g] = @ - 1]
  /\ calls' = [calls EXCEPT ![g] = @ + 1]
  /\ \E r \in IF cancelled THEN {"canceled"} ELSE {"ok", "429", "error"} :
       /\ result' = [result EXCEPT ![g] = r]
       /\ pc' = [pc EXCEPT ![g] = IF r = "429" THEN "sleep" ELSE "exit"]
  /\ UNCHANGED <<retrieved, err, waiting, cancelled>>

\* Mutant: remainingRetries not decremented.
AttemptNoDecrement(g) ==
  /\ pc[g] = "loop"
  /\ remaining[g] > 0
  /\ calls' = [calls EXCEPT ![g] = IF @ < Retries THEN @ + 1 ELSE @]
  /\ \E r \in IF cancelled THEN {"canceled"} ELSE {"ok", "429", "error"} :
       /\ result' = [result EXCEPT ![g] = r]
       /\ pc' = [pc EXCEPT ![g] = IF r = "429" THEN "sleep" ELSE "exit"]
  /\ UNCHANGED <<remaining, retrieved, err, waiting, cancelled>>

\* retrieveFullBlockbyHash, loop head with retries left: decrement, call
\* BlockByHash.  A cancelled context makes the call fail with a non-HTTP
\* error; otherwise the node answers a block, a 429, or another error.  A
\* 429 sleeps before the next iteration; anything else sets doned.
Attempt(g) ==
  /\ pc[g] = "loop"
  /\ remaining[g] > 0
  /\ remaining' = [remaining EXCEPT ![g] = @ - 1]
  /\ calls' = [calls EXCEPT ![g] = @ + 1]
  /\ \E r \in IF cancelled THEN {"canceled"} ELSE {"ok", "429", "error"} :
       /\ result' = [result EXCEPT ![g] = r]
       /\ pc' = [pc EXCEPT ![g] = IF r = "429" THEN "sleep" ELSE "exit"]
  /\ UNCHANGED <<retrieved, err, waiting, cancelled>>

\* time.Sleep(vectorDelaysInSeconds[...]) returns; the loop continues.
Wake(g) ==
  /\ pc[g] = "sleep"
  /\ pc' = [pc EXCEPT ![g] = "loop"]
  /\ UNCHANGED <<remaining, result, calls, retrieved, err, waiting, cancelled>>

\* The loop condition fails once remainingRetries reaches 0.
RetriesExhausted(g) ==
  /\ pc[g] = "loop"
  /\ remaining[g] = 0
  /\ pc' = [pc EXCEPT ![g] = "exit"]
  /\ UNCHANGED <<remaining, result, calls, retrieved, err, waiting, cancelled>>

\* Mutant: a context-cancelled fetch treated as benign, err left alone.
StoreIgnoreCanceled(g) ==
  /\ pc[g] = "exit"
  /\ IF result[g] = "ok"
       THEN /\ retrieved' = retrieved \cup {Requests[g]}
            /\ UNCHANGED err
       ELSE /\ err' = IF result[g] = "canceled" THEN err ELSE "error"
            /\ UNCHANGED retrieved
  /\ pc' = [pc EXCEPT ![g] = "done"]
  /\ UNCHANGED <<remaining, result, calls, waiting, cancelled>>

\* The goroutine's epilogue: with an error, err = localErr under mu; with a
\* block, blocksRetrieved[blockHash] = *block under mu; then wg.Done.
Store(g) ==
  /\ pc[g] = "exit"
  /\ IF result[g] = "ok"
       THEN /\ retrieved' = retrieved \cup {Requests[g]}
            /\ UNCHANGED err
       ELSE /\ err' = "error"
            /\ UNCHANGED retrieved
  /\ pc' = [pc EXCEPT ![g] = "done"]
  /\ UNCHANGED <<remaining, result, calls, waiting, cancelled>>

\* wg.Wait returns once every goroutine has called wg.Done.
WaitDone ==
  /\ waiting
  /\ \A g \in G : pc[g] = "done"
  /\ waiting' = FALSE
  /\ UNCHANGED <<pc, remaining, result, calls, retrieved, err, cancelled>>

\* The caller cancels its context.
Cancel ==
  /\ ~cancelled
  /\ cancelled' = TRUE
  /\ UNCHANGED <<pc, remaining, result, calls, retrieved, err, waiting>>

\* RetrieveBlocksInParallel has returned.
Returned ==
  /\ ~waiting
  /\ UNCHANGED vars

Next ==
  \/ \E g \in G : Attempt(g) \/ Wake(g) \/ RetriesExhausted(g) \/ Store(g)
  \/ WaitDone
  \/ Cancel
  \/ Returned

\* The Go scheduler runs every runnable goroutine, a sleep ends, and every
\* BlockByHash call returns (the caller's context or the RPC client's
\* transport bounds it).  Cancellation is the caller's choice: not fair.
Fairness ==
  /\ \A g \in G : WF_vars(Attempt(g) \/ Wake(g) \/ RetriesExhausted(g) \/ Store(g))
  /\ WF_vars(WaitDone)

Spec == Init /\ [][Next]_vars /\ Fairness

-----------------------------------------------------------------------------
TypeOK ==
  /\ pc \in [G -> {"loop", "sleep", "exit", "done"}]
  /\ remaining \in [G -> 0..Retries]
  /\ result \in [G -> Outcomes]
  /\ calls \in [G -> 0..Retries]
  /\ retrieved \subseteq {Requests[g] : g \in G}
  /\ err \in {"nil", "error"}
  /\ waiting \in BOOLEAN /\ cancelled \in BOOLEAN

\* What the caller may rely on when RetrieveBlocksInParallel returns: a nil
\* error means every requested hash is in blocksRetrieved, and a goroutine
\* that ended without a block always surfaces as a non-nil error, whatever
\* the order in which the goroutines finished.
NoLostError ==
  ~waiting =>
    /\ (err = "nil") <=> (\A g \in G : result[g] = "ok")
    /\ err = "nil" => retrieved = {Requests[g] : g \in G}

\* The goroutines, their retries and their mutex-protected writes together
\* implement the single pre-fetch step that RangeReader's readEvents model
\* takes: seen from the caller, the call returns, once, after wg.Wait, with
\* every block and a nil error or with an error; so every goroutine's retry
\* loop ends.
Prefetch == INSTANCE BlockPrefetch
  WITH Hashes <- {Requests[g] : g \in G},
       phase <- IF waiting THEN "Prefetch"
                ELSE IF err = "nil" THEN "Processing" ELSE "Failed",
       retrieved <- IF waiting THEN {} ELSE retrieved

RefinesBlockPrefetch == Prefetch!Spec

\* Cancellation is honoured between sleeps: once the context is cancelled
\* no goroutine completes a back-off sleep (spec: "a cancelled context
\* aborts the retry loop immediately").
CancelAbortsBackoff ==
  [][\A g \in G : cancelled => ~Wake(g)]_vars
=============================================================================
