------------------------- MODULE LlmExecutorProofs --------------------------
(***************************************************************************)
(* Proofs about LlmExecutor, for any number of batches, workers, stages    *)
(* and cancel requests.                                                    *)
(***************************************************************************)
EXTENDS LlmExecutor, FiniteSetTheorems, TLAPS

(* The types of everything but the answer, whose type needs Gathering.     *)
Shape ==
  /\ pc \in Locations
  /\ outcome \in Outcomes
  /\ size \in 0..MaxRequests
  /\ width \in 0..MaxParallel
  /\ submitted \in 0..MaxRequests
  /\ future \in [Requests -> FutureStates]
  /\ collected \in Seq(Requests)
  /\ cancelled \in BOOLEAN
  /\ calls \in Nat
  /\ signals \in Nat
  /\ late \in Nat

(* Where the main thread is determines which states the futures can be in. *)
Control ==
  /\ pc # "idle" => size >= 1 /\ width >= 1
  /\ pc \in {"submitting", "collecting", "sequential"} => outcome = "none"
  /\ outcome = "returned" => pc = "idle"
  /\ submitted <= size
  /\ pc = "submitting" => submitted < size
  /\ \A i \in Requests : future[i] # "absent" => i <= size

(* Batches are begun in order; on the sequential path one is finished      *)
(* before the next is begun.                                               *)
Sequential ==
  /\ pc = "sequential" =>
       \A i \in Requests :
         /\ i < submitted => future[i] \in {"done", "failed"}
         /\ i = submitted =>
              future[i] \in {"cleared", "operating", "done", "failed"}
  /\ pc \in {"sequential", "submitting"} =>
       \A i \in Requests : i > submitted => future[i] = "absent"

IInv == Shape /\ Control /\ Sequential /\ StageBarrier

LEMMA IInvInit == Init => IInv
<1> SUFFICES ASSUME Init PROVE IInv
  OBVIOUS
<1> USE MaxRequestsAssumption, MaxParallelAssumption
    DEF Init, Requests, Locations, Outcomes, FutureStates
<1>1. Shape
  <2>1. collected \in Seq(Requests)
    OBVIOUS
  <2>2. /\ size \in 0..MaxRequests
        /\ width \in 0..MaxParallel
        /\ submitted \in 0..MaxRequests
    OBVIOUS
  <2>3. future \in [Requests -> FutureStates]
    OBVIOUS
  <2> QED BY <2>1, <2>2, <2>3 DEF Shape
<1>2. Control
  BY DEF Control
<1>3. Sequential
  BY DEF Sequential
<1>4. StageBarrier
  BY DEF StageBarrier, InState, OnAThread
<1> QED BY <1>1, <1>2, <1>3, <1>4 DEF IInv

(* Every step preserves IInv. *)
LEMMA IInvStep == IInv /\ [Next]_vars => IInv'
<1> SUFFICES ASSUME IInv, [Next]_vars PROVE IInv'
  OBVIOUS
<1> USE MaxRequestsAssumption, MaxParallelAssumption
    DEF IInv, Shape, Control, Sequential, StageBarrier, InState, Requests,
        Locations, Outcomes, FutureStates, OnAThread
<1>1. ASSUME NEW n \in 0..MaxRequests, NEW w \in 1..MaxParallel, CallMap(n, w)
      PROVE  IInv'
  <2>1. Shape'
    BY <1>1 DEF CallMap, Smaller, PoolLimit
  <2>2. Control'
    BY <1>1 DEF CallMap, Smaller, PoolLimit
  <2>3. Sequential' /\ StageBarrier'
    BY <1>1 DEF CallMap
  <2> QED BY <2>1, <2>2, <2>3
<1>2. CASE Submit
  <2>1. submitted + 1 \in Requests /\ submitted + 1 <= size
    BY <1>2 DEF Submit
  <2>2. Shape' /\ Control'
    BY <1>2, <2>1 DEF Submit, LastBatch
  <2>3. Sequential' /\ StageBarrier'
    BY <1>2 DEF Submit, LastBatch
  <2> QED BY <2>2, <2>3
<1>3. ASSUME NEW i \in Requests, CollectResult(i) PROVE IInv'
  BY <1>3 DEF CollectResult, Collectable
<1>4. ASSUME NEW i \in Requests, CollectCancellation(i) PROVE IInv'
  BY <1>4 DEF CollectCancellation
<1>5. CASE LeavePool
  BY <1>5 DEF LeavePool, PoolAtRest
<1>6. CASE SequentialNext
  <2>1. submitted + 1 \in Requests /\ submitted + 1 <= size
    BY <1>6 DEF SequentialNext
  <2>6. \A i \in Requests : future[i] \notin {"starting", "cleared", "operating"}
    BY <1>6 DEF SequentialNext, Busy
  <2>2. Shape'
    BY <1>6, <2>1, <2>6 DEF SequentialNext
  <2>5. Control'
    BY <1>6, <2>1, <2>6 DEF SequentialNext
  <2>3. Sequential'
    BY <1>6, <2>1, <2>6 DEF SequentialNext
  <2>4. StageBarrier'
    BY <1>6, <2>1, <2>6 DEF SequentialNext
  <2> QED BY <2>2, <2>3, <2>4, <2>5
<1>7. CASE SequentialReturn
  BY <1>7 DEF SequentialReturn, Busy
<1>8. ASSUME NEW i \in Requests, Thread(i) PROVE IInv'
  <2>1. CASE TakeFuture(i)
    BY <2>1 DEF TakeFuture
  <2>2. CASE Checkpoint(i)
    BY <2>2 DEF Checkpoint, CheckpointState
  <2>3. CASE RunOperation(i)
    BY <2>3 DEF RunOperation
  <2>4. CASE OperationReturns(i)
    BY <2>4 DEF OperationReturns
  <2>5. CASE OperationFails(i)
    BY <2>5 DEF OperationFails, ErrorBecomesResult
  <2> QED BY <1>8, <2>1, <2>2, <2>3, <2>4, <2>5 DEF Thread
<1>9. CASE Cancel
  BY <1>9 DEF Cancel
<1>10. CASE Interrupt
  BY <1>10 DEF Interrupt
<1>11. CASE UNCHANGED vars
  BY <1>11 DEF vars
<1> QED
  BY <1>1, <1>2, <1>3, <1>4, <1>5, <1>6, <1>7, <1>8, <1>9, <1>10, <1>11
     DEF Next, Collect

LEMMA IInvHolds == Spec => []IInv
BY IInvInit, IInvStep, PTL DEF Spec

(* The stage barrier holds for every run of the executor: no LLM request   *)
(* of a stage is queued or in flight once map has returned or raised       *)
(* OperationCancelled.                                                     *)
THEOREM StageBarrierHolds == Spec => []StageBarrier
<1>1. IInv => StageBarrier
  BY DEF IInv
<1> QED BY <1>1, IInvHolds, PTL

-----------------------------------------------------------------------------
(* Sets of batches are finite, and their cardinality is monotonic.         *)
LEMMA BatchSets ==
  ASSUME NEW T \in SUBSET Requests, NEW S \in SUBSET T
  PROVE  /\ IsFiniteSet(S) /\ IsFiniteSet(T)
         /\ Cardinality(S) \in Nat /\ Cardinality(T) \in Nat
         /\ Cardinality(S) <= Cardinality(T)
         /\ Cardinality(S) = Cardinality(T) => S = T
<1>1. IsFiniteSet(Requests)
  BY MaxRequestsAssumption, FS_Interval DEF Requests
<1>2. IsFiniteSet(T)
  BY <1>1, FS_Subset
<1> QED BY <1>2, FS_Subset, FS_CardinalityType

Cleared == InState({"cleared"})

(* No more threads than workers; a batch that runs after the cancel was    *)
(* one of those that had passed their checkpoint by then.                  *)
Parallel ==
  /\ Cardinality(Busy) <= width
  /\ ~cancelled => late = 0
  /\ cancelled => late + Cardinality(Cleared) <= width

(* A step that neither puts a batch on a thread nor past its checkpoint    *)
(* keeps the bounds.                                                       *)
LEMMA ParallelKept ==
  ASSUME IInv, Parallel, Busy' \subseteq Busy, Cleared' \subseteq Cleared,
         width' = width, cancelled' = cancelled, late' = late
  PROVE  Parallel'
<1>1. Busy \in SUBSET Requests /\ Cleared \in SUBSET Requests
  BY DEF Busy, Cleared, InState
<1>2. /\ Cardinality(Busy') \in Nat /\ Cardinality(Busy) \in Nat
      /\ Cardinality(Busy') <= Cardinality(Busy)
  BY <1>1, BatchSets
<1>3. /\ Cardinality(Cleared') \in Nat /\ Cardinality(Cleared) \in Nat
      /\ Cardinality(Cleared') <= Cardinality(Cleared)
  BY <1>1, BatchSets
<1>4. width \in Nat /\ late \in Nat
  BY MaxParallelAssumption DEF IInv, Shape
<1> QED BY <1>2, <1>3, <1>4 DEF Parallel

LEMMA ParallelStep == IInv /\ IInv' /\ Parallel /\ [Next]_vars => Parallel'
<1> SUFFICES ASSUME IInv, IInv', Parallel, [Next]_vars PROVE Parallel'
  OBVIOUS
<1>0. /\ future \in [Requests -> FutureStates]
      /\ width \in Nat /\ late \in Nat
      /\ Busy \in SUBSET Requests /\ Cleared \in SUBSET Busy
  BY MaxParallelAssumption
     DEF IInv, Shape, Busy, Cleared, InState, OnAThread
<1>c. /\ IsFiniteSet(Busy) /\ Cardinality(Busy) \in Nat
      /\ IsFiniteSet(Cleared) /\ Cardinality(Cleared) \in Nat
      /\ Cardinality(Cleared) <= Cardinality(Busy)
  BY <1>0, BatchSets
<1>1. ASSUME NEW n \in 0..MaxRequests, NEW w \in 1..MaxParallel, CallMap(n, w)
      PROVE  Parallel'
  <2>1. Busy' = {} /\ Cleared' = {}
    BY <1>1 DEF CallMap, Busy, Cleared, InState, OnAThread
  <2>2. Cardinality(Busy') = 0 /\ Cardinality(Cleared') = 0
    BY <2>1, FS_EmptySet
  <2>3. width' \in Nat /\ late' = 0
    BY <1>1, MaxParallelAssumption DEF CallMap, Smaller, PoolLimit
  <2> QED BY <2>2, <2>3 DEF Parallel
<1>2. CASE Submit
  <2>1. Busy' \subseteq Busy /\ Cleared' \subseteq Cleared
    BY <1>0, <1>2 DEF Submit, Busy, Cleared, InState, OnAThread
  <2> QED BY <1>2, <2>1, ParallelKept DEF Submit
<1>3. ASSUME NEW i \in Requests, CollectResult(i) PROVE Parallel'
  BY <1>3, ParallelKept DEF CollectResult, Busy, Cleared, InState
<1>4. ASSUME NEW i \in Requests, CollectCancellation(i) PROVE Parallel'
  <2>1. Busy' \subseteq Busy /\ Cleared' \subseteq Cleared
    BY <1>0, <1>4 DEF CollectCancellation, Busy, Cleared, InState, OnAThread
  <2> QED BY <1>4, <2>1, ParallelKept DEF CollectCancellation
<1>5. CASE LeavePool
  BY <1>5, ParallelKept DEF LeavePool, Busy, Cleared, InState
<1>6. CASE SequentialNext
  <2>1. width >= 1 /\ submitted + 1 \in Requests
    BY <1>6, MaxRequestsAssumption
       DEF SequentialNext, IInv, Shape, Control, Requests
  <2>2. CASE cancelled
    <3>1. Busy' \subseteq Busy /\ Cleared' \subseteq Cleared
      BY <1>0, <1>6, <2>1, <2>2
         DEF SequentialNext, Busy, Cleared, InState, OnAThread
    <3> QED BY <1>6, <3>1, ParallelKept DEF SequentialNext
  <2>3. CASE ~cancelled
    <3>1. Busy' = {submitted + 1}
      BY <1>0, <1>6, <2>1, <2>3 DEF SequentialNext, Busy, InState, OnAThread
    <3>2. Cardinality(Busy') = 1
      BY <3>1, FS_Singleton
    <3> QED BY <1>6, <2>1, <2>3, <3>2 DEF SequentialNext, Parallel
  <2> QED BY <2>2, <2>3
<1>7. CASE SequentialReturn
  BY <1>7, ParallelKept DEF SequentialReturn, Busy, Cleared, InState
<1>8. ASSUME NEW i \in Requests, Thread(i) PROVE Parallel'
  <2>1. CASE TakeFuture(i)
    <3>1. Busy' = Busy \cup {i} /\ Cleared' = Cleared /\ i \notin Busy
      BY <1>0, <2>1 DEF TakeFuture, Busy, Cleared, InState, OnAThread
    <3>2. Cardinality(Busy \cup {i}) = Cardinality(Busy) + 1
      BY <1>c, <3>1, FS_AddElement
    <3> QED BY <1>0, <1>c, <2>1, <3>1, <3>2 DEF TakeFuture, Parallel
  <2>2. CASE Checkpoint(i)
    <3>1. Busy' \subseteq Busy
      BY <1>0, <2>2 DEF Checkpoint, Busy, InState, OnAThread
    <3>2. Cardinality(Busy') \in Nat /\ Cardinality(Busy') <= Cardinality(Busy)
      BY <1>0, <3>1, BatchSets
    <3>3. CASE cancelled
      <4>1. Cleared' = Cleared
        BY <1>0, <2>2, <3>3 DEF Checkpoint, CheckpointState, Cleared, InState
      <4> QED BY <2>2, <3>1, <4>1, ParallelKept DEF Checkpoint
    <3>4. CASE ~cancelled
      BY <1>0, <1>c, <2>2, <3>2, <3>4 DEF Checkpoint, Parallel
    <3> QED BY <3>3, <3>4
  <2>3. CASE RunOperation(i)
    <3>1. Busy' = Busy /\ Cleared' = Cleared \ {i} /\ i \in Cleared
      BY <1>0, <2>3 DEF RunOperation, Busy, Cleared, InState, OnAThread
    <3>2. Cardinality(Cleared') = Cardinality(Cleared) - 1
      BY <1>c, <3>1, FS_RemoveElement
    <3> QED BY <1>0, <1>c, <2>3, <3>1, <3>2 DEF RunOperation, Parallel
  <2>4. CASE OperationReturns(i)
    <3>1. Busy' \subseteq Busy /\ Cleared' \subseteq Cleared
      BY <1>0, <2>4 DEF OperationReturns, Busy, Cleared, InState, OnAThread
    <3> QED BY <2>4, <3>1, ParallelKept DEF OperationReturns
  <2>5. CASE OperationFails(i)
    <3>1. Busy' \subseteq Busy /\ Cleared' \subseteq Cleared
      BY <1>0, <2>5
         DEF OperationFails, ErrorBecomesResult, Busy, Cleared, InState, OnAThread
    <3> QED BY <2>5, <3>1, ParallelKept DEF OperationFails
  <2> QED BY <1>8, <2>1, <2>2, <2>3, <2>4, <2>5 DEF Thread
<1>9. CASE Cancel
  <2>1. Busy' = Busy /\ Cleared' = Cleared
    BY <1>9 DEF Cancel, Busy, Cleared, InState
  <2> QED BY <1>0, <1>c, <1>9, <2>1 DEF Cancel, Parallel
<1>10. CASE Interrupt
  <2>1. Busy' \subseteq Busy /\ Cleared' \subseteq Cleared
    BY <1>0, <1>10 DEF Interrupt, Busy, Cleared, InState, OnAThread
  <2> QED BY <1>10, <2>1, ParallelKept DEF Interrupt
<1>11. CASE UNCHANGED vars
  BY <1>11, ParallelKept DEF vars, Busy, Cleared, InState
<1> QED
  BY <1>1, <1>2, <1>3, <1>4, <1>5, <1>6, <1>7, <1>8, <1>9, <1>10, <1>11
     DEF Next, Collect

(* Cancelling is prompt for every width and number of batches: at most one *)
(* batch per worker begins after the token is set.                         *)
THEOREM LateOperationsBoundedHolds == Spec => []LateOperationsBounded
<1>1. Init => Parallel
  <2>1. Init => Busy = {} /\ Cleared = {} /\ late = 0 /\ width = 0 /\ ~cancelled
    BY DEF Init, Busy, Cleared, InState, OnAThread
  <2> QED BY <2>1, FS_EmptySet DEF Parallel
<1>2. IInv /\ Parallel => LateOperationsBounded
  <2> SUFFICES ASSUME IInv, Parallel PROVE LateOperationsBounded
    OBVIOUS
  <2>1. Cleared \in SUBSET Requests
    BY DEF Cleared, InState
  <2>2. Cardinality(Cleared) \in Nat
    BY <2>1, BatchSets
  <2>3. width \in Nat /\ late \in Nat /\ cancelled \in BOOLEAN
    BY MaxParallelAssumption DEF IInv, Shape
  <2> QED BY <2>2, <2>3 DEF Parallel, LateOperationsBounded
<1> QED
  BY <1>1, <1>2, ParallelStep, IInvHolds, PTL DEF Spec

-----------------------------------------------------------------------------
(* The results gathered so far belong to different batches, all finished,  *)
(* and on a normal exit from the pool they are those of the whole call.    *)
Gathering ==
  /\ \A i \in Gathered : i \in 1..size /\ future[i] \in {"done", "failed"}
  /\ Cardinality(Gathered) = Len(collected)
  /\ pc = "joining" /\ outcome = "none" => Len(collected) = size
  /\ answer \in Seq([index : Requests, succeeded : BOOLEAN])
  /\ OrderedComplete

(* Among 1..n the k-th smallest is k.                                      *)
LEMMA KthOfInterval ==
  ASSUME NEW n \in Nat, NEW k \in 1..n
  PROVE  KthSmallest(1..n, k) = k
<1>1. ASSUME NEW i \in 1..n PROVE Cardinality({j \in 1..n : j < i}) = i - 1
  <2>1. {j \in 1..n : j < i} = 1..(i - 1)
    OBVIOUS
  <2>2. Cardinality(1..(i - 1)) = i - 1
    <3>1. 1 \in Int /\ i - 1 \in Int
      OBVIOUS
    <3>2. Cardinality(1..(i - 1)) = IF 1 > i - 1 THEN 0 ELSE (i - 1) - 1 + 1
      BY <3>1, FS_Interval
    <3> QED BY <3>2
  <2> QED BY <2>1, <2>2
<1>2. \E i \in 1..n : Cardinality({j \in 1..n : j < i}) = k - 1
  BY <1>1
<1>3. \A i \in 1..n : Cardinality({j \in 1..n : j < i}) = k - 1 => i = k
  BY <1>1
<1> QED BY <1>2, <1>3 DEF KthSmallest

(* So on a normal exit sorting by index yields the batches in input order. *)
LEMMA OrderedIsInputOrder ==
  ASSUME IInv, Gathering, pc = "joining", outcome = "none"
  PROVE  /\ Gathered = 1..size
         /\ Ordered = [i \in 1..size |-> Result(i)]
<1>1. size \in Nat /\ size <= MaxRequests /\ collected \in Seq(Requests)
  BY MaxRequestsAssumption DEF IInv, Shape
<1>2. IsFiniteSet(1..size) /\ Cardinality(1..size) = size
  <2>1. Cardinality(1..size) = IF 1 > size THEN 0 ELSE size - 1 + 1
    BY <1>1, FS_Interval
  <2> QED BY <1>1, <2>1, FS_Interval
<1>3. Gathered \in SUBSET (1..size) /\ Cardinality(Gathered) = size
  BY DEF Gathering
<1>4. Gathered = 1..size
  BY <1>2, <1>3, FS_Subset
<1>5. DOMAIN collected = 1..size
  BY <1>1 DEF Gathering
<1>6. \A k \in 1..size : KthSmallest(1..size, k) = k
  BY <1>1, KthOfInterval
<1> QED BY <1>4, <1>5, <1>6 DEF Ordered

(* The results of n batches form an answer.                                *)
LEMMA AnswerType ==
  ASSUME IInv
  PROVE  [i \in 1..size |-> Result(i)] \in Seq([index : Requests, succeeded : BOOLEAN])
<1>1. size \in Nat /\ 1..size \subseteq Requests
  BY MaxRequestsAssumption DEF IInv, Shape, Requests
<1>2. \A i \in 1..size : Result(i) \in [index : Requests, succeeded : BOOLEAN]
  BY <1>1 DEF Result
<1> QED BY <1>1, <1>2

(* A step that keeps the finished batches and all that was gathered.       *)
LEMMA GatheringKept ==
  ASSUME IInv, Gathering, size' = size, collected' = collected, answer' = answer,
         \A i \in Requests : future[i] \in {"done", "failed"} => future'[i] = future[i],
         pc' = "joining" /\ outcome' = "none" => pc = "joining" /\ outcome = "none",
         pc' = "idle" /\ outcome' = "returned" => pc = "idle" /\ outcome = "returned"
  PROVE  Gathering'
<1>1. 1..size \subseteq Requests
  BY MaxRequestsAssumption DEF IInv, Shape, Requests
<1>2. Gathered' = Gathered
  BY DEF Gathered
<1>3. OrderedComplete'
  <2>1. CASE pc' = "idle" /\ outcome' = "returned"
    <3>1. \A i \in 1..size : /\ future'[i] \in {"done", "failed"}
                             /\ future'[i] = future[i]
      BY <1>1, <2>1 DEF Gathering, OrderedComplete
    <3>2. [i \in 1..size |-> Result(i)]' = [i \in 1..size |-> Result(i)]
      BY <3>1 DEF Result
    <3> QED BY <2>1, <3>1, <3>2 DEF Gathering, OrderedComplete
  <2>2. CASE ~(pc' = "idle" /\ outcome' = "returned")
    BY <2>2 DEF OrderedComplete
  <2> QED BY <2>1, <2>2
<1> QED BY <1>1, <1>2, <1>3 DEF Gathering

LEMMA GatheringStep == IInv /\ IInv' /\ Gathering /\ [Next]_vars => Gathering'
<1> SUFFICES ASSUME IInv, IInv', Gathering, [Next]_vars PROVE Gathering'
  OBVIOUS
<1> USE MaxRequestsAssumption, MaxParallelAssumption
<1>0. /\ future \in [Requests -> FutureStates]
      /\ size \in Nat /\ 1..size \subseteq Requests
      /\ collected \in Seq(Requests)
  BY DEF IInv, Shape, Requests
<1>1. ASSUME NEW n \in 0..MaxRequests, NEW w \in 1..MaxParallel, CallMap(n, w)
      PROVE  Gathering'
  <2>1. Gathered' = {} /\ Len(collected') = 0
    BY <1>1 DEF CallMap, Gathered
  <2>2. Cardinality(Gathered') = 0
    BY <2>1, FS_EmptySet
  <2>3. pc' # "joining"
    BY <1>1 DEF CallMap
  <2>4. answer' \in Seq([index : Requests, succeeded : BOOLEAN])
    BY <1>1 DEF CallMap
  <2>5. OrderedComplete'
    <3>1. outcome' = "returned" => size' = 0 /\ answer' = <<>>
      BY <1>1 DEF CallMap
    <3>2. size' = 0 => [i \in 1..size |-> Result(i)]' = <<>>
      OBVIOUS
    <3> QED BY <3>1, <3>2 DEF OrderedComplete
  <2> QED BY <2>1, <2>2, <2>3, <2>4, <2>5 DEF Gathering
<1>2. CASE Submit
  <2>1. submitted + 1 \in Requests /\ future[submitted + 1] = "absent"
    BY <1>0, <1>2 DEF Submit, IInv, Shape, Control, Sequential, Requests
  <2> QED BY <1>0, <1>2, <2>1, GatheringKept DEF Submit, LastBatch
<1>3. ASSUME NEW i \in Requests, CollectResult(i) PROVE Gathering'
  <2>6. /\ collected' = Append(collected, i)
        /\ Len(collected') = Len(collected) + 1
        /\ DOMAIN collected' = DOMAIN collected \cup {Len(collected) + 1}
        /\ collected'[Len(collected) + 1] = i
        /\ \A k \in DOMAIN collected : collected'[k] = collected[k]
    BY <1>0, <1>3 DEF CollectResult
  <2>1. Gathered' = Gathered \cup {i}
    <3>1. Gathered' = {collected'[k] : k \in DOMAIN collected'}
      BY DEF Gathered
    <3>2. Gathered' \subseteq Gathered \cup {i}
      BY <2>6, <3>1 DEF Gathered
    <3>3. Gathered \subseteq Gathered'
      BY <2>6, <3>1 DEF Gathered
    <3>4. i \in Gathered'
      BY <2>6, <3>1
    <3> QED BY <3>2, <3>3, <3>4
  <2>2. Gathered \in SUBSET Requests
    BY <1>0 DEF Gathered
  <2>3. Cardinality(Gathered \cup {i}) = Cardinality(Gathered) + 1
    BY <1>3, <2>2, BatchSets, FS_AddElement DEF CollectResult
  <2>4. i \in 1..size /\ future[i] \in {"done", "failed"}
    BY <1>3 DEF CollectResult, Collectable, IInv, Control, Requests
  <2>5. pc' # "idle"
    BY <1>3 DEF CollectResult
  <2> QED BY <1>0, <1>3, <2>1, <2>3, <2>4, <2>5, <2>6
             DEF CollectResult, Gathering, OrderedComplete
<1>4. ASSUME NEW i \in Requests, CollectCancellation(i) PROVE Gathering'
  BY <1>0, <1>4, GatheringKept DEF CollectCancellation
<1>5. CASE LeavePool
  <2>1. CASE outcome = "none"
    <3>1. Gathered = 1..size /\ answer' = [i \in 1..size |-> Result(i)]
      BY <1>5, <2>1, OrderedIsInputOrder DEF LeavePool
    <3>2. answer' \in Seq([index : Requests, succeeded : BOOLEAN])
      BY <3>1, AnswerType
    <3>3. OrderedComplete'
      BY <1>5, <3>1 DEF LeavePool, OrderedComplete, Gathering, Result
    <3> QED BY <1>5, <3>2, <3>3 DEF LeavePool, Gathering, Gathered
  <2>2. CASE outcome # "none"
    BY <1>5, <2>2, GatheringKept DEF LeavePool, IInv, Control
  <2> QED BY <2>1, <2>2
<1>6. CASE SequentialNext
  <2>1. future[submitted + 1] = "absent" /\ submitted + 1 \in Requests
    BY <1>6 DEF SequentialNext, IInv, Shape, Sequential, Requests
  <2> QED BY <1>0, <1>6, <2>1, GatheringKept DEF SequentialNext
<1>7. CASE SequentialReturn
  <2>1. answer' = [i \in 1..size |-> Result(i)]
    BY <1>7 DEF SequentialReturn
  <2>2. answer' \in Seq([index : Requests, succeeded : BOOLEAN])
    BY <2>1, AnswerType
  <2>3. \A i \in 1..size : future[i] \in {"done", "failed"}
    BY <1>0, <1>7
       DEF SequentialReturn, IInv, Shape, Sequential, Busy, InState, OnAThread
  <2>4. OrderedComplete'
    BY <1>7, <2>1, <2>3 DEF SequentialReturn, OrderedComplete, Result
  <2> QED BY <1>7, <2>2, <2>4 DEF SequentialReturn, Gathering, Gathered
<1>8. ASSUME NEW i \in Requests, Thread(i) PROVE Gathering'
  <2>1. /\ future[i] \notin {"done", "failed"}
        /\ \A j \in Requests : j # i => future'[j] = future[j]
        /\ UNCHANGED <<pc, outcome, size, collected, answer>>
    BY <1>0, <1>8 DEF Thread, TakeFuture, Checkpoint, RunOperation,
                      OperationReturns, OperationFails
  <2> QED BY <2>1, GatheringKept
<1>9. CASE Cancel
  BY <1>9, GatheringKept DEF Cancel
<1>10. CASE Interrupt
  BY <1>0, <1>10, GatheringKept DEF Interrupt
<1>11. CASE UNCHANGED vars
  BY <1>11, GatheringKept DEF vars
<1> QED
  BY <1>1, <1>2, <1>3, <1>4, <1>5, <1>6, <1>7, <1>8, <1>9, <1>10, <1>11
     DEF Next, Collect

LEMMA GatheringInit == Init => Gathering
<1> SUFFICES ASSUME Init PROVE Gathering
  OBVIOUS
<1>1. Gathered = {} /\ Len(collected) = 0
  BY DEF Init, Gathered
<1>2. answer \in Seq([index : Requests, succeeded : BOOLEAN])
  BY DEF Init
<1> QED BY <1>1, <1>2, FS_EmptySet DEF Init, Gathering, OrderedComplete

LEMMA GatheringHolds == Spec => []Gathering
BY GatheringInit, GatheringStep, IInvHolds, PTL DEF Spec

(* Every value stays in its type, for every number of batches and workers. *)
THEOREM TypeCorrect == Spec => []TypeOK
<1>1. IInv /\ Gathering => TypeOK
  BY DEF IInv, Shape, Gathering, TypeOK
<1> QED BY <1>1, IInvHolds, GatheringHolds, PTL

(* Whatever the order of completion and whichever batches fail, map        *)
(* returns the result of every batch, in input order.                      *)
THEOREM OrderedCompleteHolds == Spec => []OrderedComplete
<1>1. Gathering => OrderedComplete
  BY DEF Gathering
<1> QED BY <1>1, GatheringHolds, PTL

-----------------------------------------------------------------------------
(* The executor implements BatchMap *)

LEMMA AttemptedOf ==
  ASSUME NEW i \in Requests
  PROVE  /\ Attempted[i] = "inflight" <=> future[i] = "operating"
         /\ future[i] \in {"done", "failed"} => Attempted[i] = future[i]
         /\ Attempted[i] = "unstarted" <=> future[i] \notin {"operating", "done", "failed"}
BY DEF Attempted

LEMMA AttemptedKept == UNCHANGED future => UNCHANGED Attempted
BY DEF Attempted

(* A step that changes nothing that BatchMap sees.                         *)
LEMMA StutterMaps ==
  ASSUME pc = "idle" <=> pc' = "idle",
         pc = "idle" => outcome' = outcome,
         size' = size, answer' = answer,
         \A i \in Requests : Attempted'[i] = Attempted[i]
  PROVE  UNCHANGED Batches!vars
<1>1. Attempted' = Attempted
  <2>1. /\ Attempted  = [i \in Requests |-> Attempted[i]]
        /\ Attempted' = [i \in Requests |-> Attempted'[i]]
    BY DEF Attempted
  <2> QED BY <2>1
<1> QED BY <1>1 DEF Batches!vars

(* A normal return is one of BatchMap: every batch was attempted, and the  *)
(* answer is in input order.                                               *)
LEMMA ReturnMaps ==
  ASSUME IInv, pc # "idle", pc' = "idle", outcome' = "returned",
         UNCHANGED <<size, future>>,
         \A i \in 1..size : future[i] \in {"done", "failed"},
         answer' = [i \in 1..size |-> Result(i)]
  PROVE  Batches!Return
<1>1. 1..size \subseteq Requests
  BY MaxRequestsAssumption DEF IInv, Shape, Requests
<1>2. \A i \in 1..size : Attempted[i] = future[i]
  BY <1>1 DEF Attempted
<1>3. answer' = Batches!InputOrder(size, Attempted)
  BY <1>1, <1>2 DEF Batches!InputOrder, Result
<1>4. Attempted' = Attempted
  BY DEF Attempted
<1> QED BY <1>1, <1>2, <1>3, <1>4 DEF Batches!Return

LEMMA InitMaps == Init => Batches!Init
<1> SUFFICES ASSUME Init PROVE Batches!Init
  OBVIOUS
<1>1. Attempted = [i \in Requests |-> "unstarted"]
  BY DEF Init, Attempted
<1> QED BY <1>1 DEF Init, Batches!Init, Batches!Requests, Requests

(* Every step of the executor is one of BatchMap or changes nothing there. *)
LEMMA StepMaps == IInv /\ Gathering /\ [Next]_vars => [Batches!Next]_(Batches!vars)
<1> SUFFICES ASSUME IInv, Gathering, [Next]_vars PROVE [Batches!Next]_(Batches!vars)
  OBVIOUS
<1> USE MaxRequestsAssumption, MaxParallelAssumption
<1>0. /\ future \in [Requests -> FutureStates]
      /\ size \in Nat /\ 1..size \subseteq Requests
      /\ Batches!Requests = Requests
  BY DEF IInv, Shape, Requests, Batches!Requests
<1>1. ASSUME NEW n \in 0..MaxRequests, NEW w \in 1..MaxParallel, CallMap(n, w)
      PROVE  Batches!Call \/ Batches!CallEndsAtOnce
  <2>1. Attempted' = [i \in Requests |-> "unstarted"]
    BY <1>1 DEF CallMap, Attempted
  <2>2. CASE n = 0 \/ cancelled
    BY <1>0, <1>1, <2>1, <2>2 DEF CallMap, Batches!CallEndsAtOnce
  <2>3. CASE n # 0 /\ ~cancelled
    <3>1. size' \in Requests /\ pc' # "idle"
      BY <1>1, <2>3 DEF CallMap, Requests
    <3> QED BY <1>0, <1>1, <2>1, <2>3, <3>1 DEF CallMap, Batches!Call
  <2> QED BY <2>2, <2>3
<1>2. CASE Submit
  <2>1. submitted + 1 \in Requests /\ future[submitted + 1] = "absent"
    BY <1>0, <1>2 DEF Submit, IInv, Shape, Control, Sequential, Requests
  <2>2. \A i \in Requests : Attempted'[i] = Attempted[i]
    BY <1>0, <1>2, <2>1 DEF Submit, Attempted
  <2> QED BY <1>2, <2>2, StutterMaps DEF Submit
<1>3. ASSUME NEW i \in Requests, CollectResult(i) PROVE UNCHANGED Batches!vars
  BY <1>3, AttemptedKept, StutterMaps DEF CollectResult
<1>4. ASSUME NEW i \in Requests, CollectCancellation(i) PROVE UNCHANGED Batches!vars
  <2>1. \A j \in Requests : Attempted'[j] = Attempted[j]
    BY <1>4 DEF CollectCancellation, Attempted
  <2> QED BY <1>4, <2>1, StutterMaps DEF CollectCancellation
<1>5. CASE LeavePool
  <2>1. CASE outcome = "none"
    <3>1. Gathered = 1..size /\ answer' = [i \in 1..size |-> Result(i)]
      BY <1>5, <2>1, OrderedIsInputOrder DEF LeavePool
    <3>2. Batches!Return
      BY <1>5, <2>1, <3>1, ReturnMaps DEF LeavePool, Gathering
    <3> QED BY <3>2 DEF Batches!Next
  <2>2. CASE outcome = "cancelled"
    <3>1. \A i \in Requests : Attempted[i] # "inflight"
      BY <1>5 DEF LeavePool, PoolAtRest, InState, OnAThread, Attempted
    <3>2. Batches!Cancelled
      <4>1. Attempted' = Attempted
        BY <1>5, AttemptedKept DEF LeavePool
      <4> QED BY <1>0, <1>5, <2>2, <3>1, <4>1 DEF LeavePool, Batches!Cancelled
    <3> QED BY <3>2 DEF Batches!Next
  <2>3. CASE outcome = "interrupted"
    <3>1. Batches!Interrupted
      <4>1. Attempted' = Attempted
        BY <1>5 DEF LeavePool, Attempted
      <4> QED BY <1>0, <1>5, <2>3, <4>1 DEF LeavePool, Batches!Interrupted
    <3> QED BY <3>1 DEF Batches!Next
  <2> QED BY <1>5, <2>1, <2>2, <2>3 DEF LeavePool, IInv, Shape, Control, Outcomes
<1>6. CASE SequentialNext
  <2>1. submitted + 1 \in Requests /\ future[submitted + 1] = "absent"
    BY <1>0, <1>6 DEF SequentialNext, IInv, Shape, Sequential, Requests
  <2>2. \A i \in Requests : Attempted'[i] = Attempted[i]
    BY <1>0, <1>6, <2>1 DEF SequentialNext, Attempted
  <2>3. CASE cancelled
    <3>1. \A i \in Requests : Attempted[i] # "inflight"
      BY <1>6 DEF SequentialNext, Busy, InState, OnAThread, Attempted
    <3>2. Attempted' = Attempted
      <4>1. /\ Attempted  = [i \in Requests |-> Attempted[i]]
            /\ Attempted' = [i \in Requests |-> Attempted'[i]]
        BY DEF Attempted
      <4> QED BY <2>2, <4>1
    <3>3. Batches!Cancelled
      BY <1>0, <1>6, <2>3, <3>1, <3>2 DEF SequentialNext, Batches!Cancelled
    <3> QED BY <3>3 DEF Batches!Next
  <2>4. CASE ~cancelled
    BY <1>6, <2>2, <2>4, StutterMaps DEF SequentialNext
  <2> QED BY <2>3, <2>4
<1>7. CASE SequentialReturn
  <2>1. \A i \in 1..size : future[i] \in {"done", "failed"}
    BY <1>0, <1>7
       DEF SequentialReturn, IInv, Shape, Sequential, Busy, InState, OnAThread
  <2>2. Batches!Return
    BY <1>7, <2>1, ReturnMaps DEF SequentialReturn
  <2> QED BY <2>2 DEF Batches!Next
<1>8. ASSUME NEW i \in Requests, Thread(i) PROVE [Batches!Next]_(Batches!vars)
  <2>0. future[i] \notin {"absent"} => i <= size
    BY DEF IInv, Control
  <2>1. CASE TakeFuture(i)
    <3>1. \A j \in Requests : Attempted'[j] = Attempted[j]
      BY <1>0, <2>1 DEF TakeFuture, Attempted
    <3> QED BY <2>1, <3>1, StutterMaps DEF TakeFuture
  <2>2. CASE Checkpoint(i)
    <3>1. \A j \in Requests : Attempted'[j] = Attempted[j]
      BY <1>0, <2>2 DEF Checkpoint, CheckpointState, Attempted
    <3> QED BY <2>2, <3>1, StutterMaps DEF Checkpoint
  <2>3. ASSUME future[i] \in OnAThread PROVE Batches!AtWork
    BY <2>3 DEF Batches!AtWork, IInv, StageBarrier, InState
  <2>4. CASE RunOperation(i)
    <3>1. Attempted'
            = [Attempted EXCEPT ![i] = "inflight"]
      BY <1>0, <2>4 DEF RunOperation, Attempted
    <3>2. Batches!Start(i)
      BY <1>0, <2>0, <2>3, <2>4, <3>1, AttemptedOf DEF RunOperation, OnAThread, Batches!Start
    <3> QED BY <1>0, <3>2 DEF Batches!Next
  <2>5. ASSUME NEW r \in {"done", "failed"}, future[i] = "operating",
               future' = [future EXCEPT ![i] = r],
               UNCHANGED <<pc, outcome, size, answer>>
        PROVE  [Batches!Next]_(Batches!vars)
    <3>1. Attempted'
            = [Attempted EXCEPT ![i] = r]
      BY <1>0, <2>5 DEF Attempted
    <3>2. Batches!Finish(i)
      BY <1>0, <2>3, <2>5, <3>1, AttemptedOf DEF OnAThread, Batches!Finish
    <3> QED BY <1>0, <3>2 DEF Batches!Next
  <2>6. CASE OperationReturns(i) \/ OperationFails(i)
    BY <2>5, <2>6 DEF OperationReturns, OperationFails, ErrorBecomesResult
  <2> QED BY <1>8, <2>1, <2>2, <2>4, <2>6 DEF Thread
<1>9. CASE Cancel
  BY <1>9, AttemptedKept, StutterMaps DEF Cancel
<1>10. CASE Interrupt
  <2>1. CASE pc \in {"submitting", "collecting"}
    BY <1>10, <2>1, AttemptedKept, StutterMaps DEF Interrupt
  <2>2. CASE pc = "joining"
    <3>1. Batches!Interrupted
      <4>1. Attempted' = Attempted
        BY <1>10, <2>2 DEF Interrupt, Attempted
      <4> QED BY <1>0, <1>10, <2>2, <4>1 DEF Interrupt, Batches!Interrupted
    <3> QED BY <3>1 DEF Batches!Next
  <2>3. CASE pc = "sequential"
    <3>1. \A i \in Requests : future[i] \in OnAThread => i = submitted
      BY <1>0, <2>3 DEF IInv, Shape, Sequential, OnAThread, Requests
    <3>2. CASE \E i \in Requests : future[i] = "operating"
      <4>1. PICK i \in Requests : future[i] = "operating"
        BY <3>2
      <4>2. Attempted'
              = [Attempted EXCEPT ![i] = "failed"]
        <5>1. future' = [future EXCEPT ![i] = "failed"]
          BY <1>0, <1>10, <2>3, <3>1, <4>1 DEF Interrupt, OnAThread
        <5> QED BY <1>0, <5>1 DEF Attempted
      <4>3. Batches!Interrupted
        BY <1>0, <1>10, <2>3, <4>1, <4>2, AttemptedOf DEF Interrupt, Batches!Interrupted
      <4> QED BY <4>3 DEF Batches!Next
    <3>3. CASE ~ \E i \in Requests : future[i] = "operating"
      <4>1. Attempted' = Attempted
        BY <1>0, <1>10, <2>3, <3>3 DEF Interrupt, Attempted
      <4>2. Batches!Interrupted
        BY <1>0, <1>10, <2>3, <4>1 DEF Interrupt, Batches!Interrupted
      <4> QED BY <4>2 DEF Batches!Next
    <3> QED BY <3>2, <3>3
  <2> QED BY <1>10, <2>1, <2>2, <2>3 DEF Interrupt, IInv, Shape, Locations
<1>11. CASE UNCHANGED vars
  BY <1>11, AttemptedKept, StutterMaps DEF vars
<1> QED
  BY <1>1, <1>2, <1>3, <1>4, <1>5, <1>6, <1>7, <1>8, <1>9, <1>10, <1>11
     DEF Next, Collect, Batches!Next

(* Whatever threads, cancellation and interrupts do, a stage sees BatchMap:*)
(* each batch attempted at most once, and a call that returns, is refused  *)
(* or is interrupted as promised there, for any number of batches.         *)
THEOREM BatchMapImplemented == Spec => ImplementsBatchMap
<1>1. Batches!Init /\ [][Batches!Next]_(Batches!vars) => ImplementsBatchMap
  BY DEF ImplementsBatchMap, Batches!Spec
<1> QED
  BY <1>1, InitMaps, StepMaps, IInvHolds, GatheringHolds, PTL DEF Spec
=============================================================================
