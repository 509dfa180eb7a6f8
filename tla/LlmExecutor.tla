---------------------------- MODULE LlmExecutor -----------------------------
(***************************************************************************)
(* ParallelLlmExecutor (llm/concurrency.py): the one bounded thread pool   *)
(* that runs the LLM batches of every subtitle stage, together with the    *)
(* cancellation token the batches poll (workflow/progress.py) and the      *)
(* SIGINT handler that sets it (cli/main.py).                              *)
(*                                                                         *)
(* The main thread calls map once per stage.  Inside a call it submits one *)
(* future per batch, collects futures in the order in which they complete, *)
(* and leaves the pool's context manager, which waits for every future     *)
(* that was not withdrawn.  Pool threads take futures in submission order. *)
(***************************************************************************)
EXTENDS Naturals, Sequences, FiniteSets

CONSTANTS
  MaxRequests,   \* the longest batch list of one call (a bound)
  MaxParallel,   \* the largest parallelism a call asks for (a bound, at most 100)
  MaxCalls,      \* number of stages that call map in one run (a bound)
  MaxSignals     \* number of cancel requests or SIGINTs (a bound)

ASSUME MaxRequestsAssumption == MaxRequests \in Nat \ {0}
ASSUME MaxParallelAssumption == MaxParallel \in 1..100
ASSUME BoundsAssumption == MaxCalls \in Nat /\ MaxSignals \in Nat

Requests == 1..MaxRequests
PoolLimit == 100   \* ParallelLlmExecutor.MAX_WORKERS

VARIABLES
  pc,          \* where the main thread is
  outcome,     \* how the last call of map ended
  size,        \* len(ordered_requests)
  width,       \* actual_workers
  submitted,   \* futures submitted so far; the next batch on the sequential path
  future,      \* state of each batch
  collected,   \* results: the batches gathered, in completion order
  answer,      \* the tuple map returned
  cancelled,   \* the CancellationToken's event
  calls,       \* calls of map so far
  signals,     \* cancel requests so far
  late         \* history: operations of this call begun after the token was set

vars == <<pc, outcome, size, width, submitted, future, collected, answer,
          cancelled, calls, signals, late>>

(* A future is taken by a thread ("starting"), passes the checkpoint       *)
(* ("cleared"), and runs the LLM operation ("operating"); it ends "done",  *)
(* "failed" (an error kept as a result), or "raised" (OperationCancelled). *)
(* Future.cancel() withdraws one that no thread has taken.                 *)
FutureStates == {"absent", "pending", "starting", "cleared", "operating",
                 "done", "failed", "raised", "withdrawn"}
OnAThread == {"starting", "cleared", "operating"}
Finished  == {"done", "failed", "raised"}
Locations == {"idle", "submitting", "collecting", "joining", "sequential"}
Outcomes  == {"none", "returned", "cancelled", "interrupted"}

InState(S) == {i \in Requests : future[i] \in S}
Busy    == InState(OnAThread)
Smaller(a, b) == IF a < b THEN a ELSE b

TypeOK ==
  /\ pc \in Locations
  /\ outcome \in Outcomes
  /\ size \in 0..MaxRequests
  /\ width \in 0..MaxParallel
  /\ submitted \in 0..MaxRequests
  /\ future \in [Requests -> FutureStates]
  /\ collected \in Seq(Requests)
  /\ answer \in Seq([index : Requests, succeeded : BOOLEAN])
  /\ cancelled \in BOOLEAN
  /\ calls \in Nat
  /\ signals \in Nat
  /\ late \in Nat

Init ==
  /\ pc = "idle"
  /\ outcome = "none"
  /\ size = 0
  /\ width = 0
  /\ submitted = 0
  /\ future = [i \in Requests |-> "absent"]
  /\ collected = <<>>
  /\ answer = <<>>
  /\ cancelled = FALSE
  /\ calls = 0
  /\ signals = 0
  /\ late = 0

-----------------------------------------------------------------------------
(* The main thread *)

(* map up to the choice of path: an empty list returns (), a set token     *)
(* raises OperationCancelled, one worker runs the batches in place, more   *)
(* open a pool.                                                            *)
CallMap(n, parallelism) ==
  /\ pc = "idle"
  /\ outcome \in {"none", "returned"}
  /\ calls < MaxCalls
  /\ calls' = calls + 1
  /\ size' = IF cancelled THEN 0 ELSE n
  /\ width' = Smaller(Smaller(parallelism, n), PoolLimit)
  /\ submitted' = 0
  /\ future' = [i \in Requests |-> "absent"]
  /\ collected' = <<>>
  /\ answer' = <<>>
  /\ \/ /\ n = 0
        /\ outcome' = "returned"
        /\ UNCHANGED pc
     \/ /\ n > 0 /\ cancelled
        /\ outcome' = "cancelled"
        /\ UNCHANGED pc
     \/ /\ n > 0 /\ ~cancelled
        /\ outcome' = "none"
        /\ pc' = IF width' = 1 THEN "sequential" ELSE "submitting"
  /\ late' = 0
  /\ UNCHANGED <<cancelled, signals>>

(* executor.submit of the next batch *)
LastBatch == submitted + 1 = size

Submit ==
  /\ pc = "submitting"
  /\ submitted' = submitted + 1
  /\ future' = [future EXCEPT ![submitted + 1] = "pending"]
  /\ pc' = IF LastBatch THEN "collecting" ELSE pc
  /\ UNCHANGED <<outcome, size, width, collected, answer, cancelled, calls,
                 signals, late>>

(* One turn of the as_completed loop.  Futures that finished before the    *)
(* main thread looks come in any order.                                    *)
Gathered == {collected[k] : k \in DOMAIN collected}

SuccessesOnly == {"done"}              \* faulty variant: a failed batch is lost
Collectable   == {"done", "failed"}

CollectResult(i) ==
  /\ pc = "collecting"
  /\ future[i] \in Collectable /\ i \notin Gathered
  /\ collected' = Append(collected, i)
  /\ pc' = IF Len(collected) + 1 = size THEN "joining" ELSE pc
  /\ UNCHANGED <<outcome, size, width, submitted, future, answer, cancelled,
                 calls, signals, late>>

(* future.result() raised: every future no thread has taken is cancelled,  *)
(* and the exception leaves the with statement.                            *)
CollectCancellation(i) ==
  /\ pc = "collecting"
  /\ future[i] = "raised"
  /\ future' = [j \in Requests |->
                  IF future[j] = "pending" THEN "withdrawn" ELSE future[j]]
  /\ outcome' = "cancelled"
  /\ pc' = "joining"
  /\ UNCHANGED <<size, width, submitted, collected, answer, cancelled, calls,
                 signals, late>>

(* sorted(results, key=index), each with its value or its error *)
Result(i) == [index |-> i, succeeded |-> future[i] = "done"]
KthSmallest(S, k) == CHOOSE i \in S : Cardinality({j \in S : j < i}) = k - 1

CompletionOrder == [k \in DOMAIN collected |-> Result(collected[k])]
                                   \* faulty variant: results not sorted
Ordered == [k \in DOMAIN collected |-> Result(KthSmallest(Gathered, k))]

(* Leaving the with statement: shutdown(wait=True) blocks until the queue  *)
(* is empty and no thread works; then map returns or its exception goes on.*)
LeavesAtOnce == TRUE               \* faulty variant: shutdown(wait=False)
PoolAtRest == InState({"pending"} \cup OnAThread) = {}

LeavePool ==
  /\ pc = "joining"
  /\ PoolAtRest
  /\ pc' = "idle"
  /\ outcome' = IF outcome = "none" THEN "returned" ELSE outcome
  /\ answer' = IF outcome = "none" THEN Ordered ELSE answer
  /\ UNCHANGED <<size, width, submitted, future, collected, cancelled, calls,
                 signals, late>>

(* One worker: the main thread runs _run_one on each batch in turn.  The   *)
(* operation itself is RunOperation, OperationReturns and OperationFails.  *)
SequentialNext ==
  /\ pc = "sequential"
  /\ Busy = {}
  /\ submitted < size
  /\ IF cancelled
       THEN /\ future' = [future EXCEPT ![submitted + 1] = "raised"]
            /\ outcome' = "cancelled"
            /\ pc' = "idle"
       ELSE /\ future' = [future EXCEPT ![submitted + 1] = "cleared"]
            /\ UNCHANGED <<outcome, pc>>
  /\ submitted' = submitted + 1
  /\ UNCHANGED <<size, width, collected, answer, cancelled, calls, signals, late>>

SequentialReturn ==
  /\ pc = "sequential"
  /\ Busy = {}
  /\ submitted = size
  /\ pc' = "idle"
  /\ outcome' = "returned"
  /\ answer' = [i \in 1..size |-> Result(i)]
  /\ UNCHANGED <<size, width, submitted, future, collected, cancelled, calls, signals, late>>

-----------------------------------------------------------------------------
(* The pool's threads *)

(* A free thread takes the oldest future; one that was withdrawn is        *)
(* dropped from the queue.                                                 *)
TakeFuture(i) ==
  /\ pc # "sequential"
  /\ Cardinality(Busy) < width
  /\ future[i] = "pending"
  /\ \A j \in InState({"pending"}) : i <= j
  /\ future' = [future EXCEPT ![i] = "starting"]
  /\ UNCHANGED <<pc, outcome, size, width, submitted, collected, answer,
                 cancelled, calls, signals, late>>

(* _run_one polls the token before it runs the operation *)
UncheckedState == "cleared"        \* faulty variant: no poll in _run_one
CheckpointState == IF cancelled THEN "raised" ELSE "cleared"

Checkpoint(i) ==
  /\ future[i] = "starting"
  /\ future' = [future EXCEPT ![i] = CheckpointState]
  /\ UNCHANGED <<pc, outcome, size, width, submitted, collected, answer,
                 cancelled, calls, signals, late>>

(* The token may be set between the poll and the operation. *)
RunOperation(i) ==
  /\ future[i] = "cleared"
  /\ future' = [future EXCEPT ![i] = "operating"]
  /\ late' = IF cancelled THEN late + 1 ELSE late
  /\ UNCHANGED <<pc, outcome, size, width, submitted, collected, answer,
                 cancelled, calls, signals>>

OperationReturns(i) ==
  /\ future[i] = "operating"
  /\ future' = [future EXCEPT ![i] = "done"]
  /\ UNCHANGED <<pc, outcome, size, width, submitted, collected, answer,
                 cancelled, calls, signals, late>>

(* Any exception but OperationCancelled becomes the batch's result. *)
ErrorEscapes == "raised"           \* faulty variant: no except Exception
ErrorBecomesResult == "failed"
OperationFails(i) ==
  /\ future[i] = "operating"
  /\ future' = [future EXCEPT ![i] = ErrorBecomesResult]
  /\ UNCHANGED <<pc, outcome, size, width, submitted, collected, answer,
                 cancelled, calls, signals, late>>

-----------------------------------------------------------------------------
(* The user *)

(* CancellationToken.cancel, from the GUI or the first SIGINT *)
Cancel ==
  /\ ~cancelled
  /\ signals < MaxSignals
  /\ cancelled' = TRUE
  /\ signals' = signals + 1
  /\ UNCHANGED <<pc, outcome, size, width, submitted, future, collected, answer,
                 calls, late>>

(* A further SIGINT raises KeyboardInterrupt in the main thread: at work   *)
(* in the pool's context it leaves through shutdown(wait=True), withdraws  *)
(* nothing, and a third one ends that wait; in the sequential path it      *)
(* aborts the batch.                                                       *)
Interrupt ==
  /\ cancelled
  /\ signals < MaxSignals
  /\ pc # "idle"
  /\ signals' = signals + 1
  /\ outcome' = "interrupted"
  /\ pc' = IF pc \in {"submitting", "collecting"} THEN "joining" ELSE "idle"
  /\ future' = IF pc # "sequential" THEN future
               ELSE [j \in Requests |->
                       CASE future[j] = "operating" -> "failed"
                         [] future[j] = "cleared"   -> "raised"
                         [] OTHER                   -> future[j]]
  /\ UNCHANGED <<size, width, submitted, collected, answer, cancelled, calls, late>>

-----------------------------------------------------------------------------
Thread(i) ==
  \/ TakeFuture(i)
  \/ Checkpoint(i)
  \/ RunOperation(i)
  \/ OperationReturns(i)
  \/ OperationFails(i)

Collect(i) == CollectResult(i) \/ CollectCancellation(i)

Next ==
  \/ \E n \in 0..MaxRequests, w \in 1..MaxParallel : CallMap(n, w)
  \/ Submit
  \/ \E i \in Requests : Collect(i)
  \/ LeavePool
  \/ SequentialNext
  \/ SequentialReturn
  \/ \E i \in Requests : Thread(i)
  \/ Cancel
  \/ Interrupt

(* The interpreter schedules every thread, and an operation ends: the LLM  *)
(* client has a timeout and the retries are bounded.  Nobody has to cancel *)
(* or to start a stage.                                                    *)
Fairness ==
  /\ WF_vars(Submit)
  /\ WF_vars(\E i \in Requests : Collect(i))
  /\ WF_vars(LeavePool)
  /\ WF_vars(SequentialNext)
  /\ WF_vars(SequentialReturn)
  /\ \A i \in Requests : WF_vars(Thread(i))

Spec == Init /\ [][Next]_vars /\ Fairness

-----------------------------------------------------------------------------
(* Properties *)

(* Stage barrier: once map has returned or raised OperationCancelled, no   *)
(* batch of it waits for a thread or runs, so no LLM request of a stage    *)
(* can overlap the next stage or the clean-up after a cancelled run.  Only *)
(* an interrupt of the wait itself breaks out of it.                       *)
StageBarrier ==
  pc = "idle" /\ outcome # "interrupted" =>
    InState({"pending"} \cup OnAThread) = {}

(* map returns only when every batch ran, cancelled or not, and what it    *)
(* returns has one result per batch, in input order, each with the value   *)
(* or the error of its own batch: a batch that fails discards no other,    *)
(* and completion order does not show.                                     *)
OrderedComplete ==
  outcome = "returned" /\ pc = "idle" =>
    /\ \A i \in 1..size : future[i] \in {"done", "failed"}
    /\ answer = [i \in 1..size |-> Result(i)]

(* Cancelling is prompt: of all batches that had not begun when the token  *)
(* was set, at most one per worker of the call still reaches the LLM.      *)
LateOperationsBounded == late <= width

(* Every call of map ends. *)
MapEnds == pc # "idle" ~> pc = "idle"

(* What BatchMap sees of the futures.                                      *)
Attempted ==
  [i \in Requests |-> CASE future[i] = "operating"          -> "inflight"
                       [] future[i] \in {"done", "failed"} -> future[i]
                       [] OTHER                            -> "unstarted"]

(* The executor implements BatchMap: each batch is attempted at most once, *)
(* and a call that returns, is refused or is interrupted leaves what       *)
(* BatchMap says.                                                          *)
Batches == INSTANCE BatchMap WITH
  phase   <- IF pc = "idle" THEN "idle" ELSE "running",
  outcome <- IF pc = "idle" THEN outcome ELSE "none",
  attempt <- Attempted
ImplementsBatchMap == Batches!Spec
=============================================================================
