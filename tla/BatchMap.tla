------------------------------ MODULE BatchMap ------------------------------
(***************************************************************************)
(* What a stage of the subtitle pipeline relies on when it hands its       *)
(* batches to the LLM executor, with no threads, futures or queues: every  *)
(* batch is attempted at most once, the call hands back one result per     *)
(* batch in input order whatever failed, and nothing of the call outlives  *)
(* it, unless the user interrupts the wait for the running batches.        *)
(***************************************************************************)
EXTENDS Naturals, Sequences

CONSTANT MaxRequests   \* the longest batch list of one call (a bound)

VARIABLES
  phase,      \* "idle" between calls, "running" inside map
  outcome,    \* how the last call ended; "none" before the first and inside one
  size,       \* number of batches of the current or last call
  attempt,    \* state of each batch: "unstarted", "inflight", "done", "failed"
  answer      \* the tuple the last call returned

vars == <<phase, outcome, size, attempt, answer>>

Requests == 1..MaxRequests
Attempts == {"unstarted", "inflight", "done", "failed"}

(* The answer owed for n batches in the given states. *)
InputOrder(n, state) ==
  [i \in 1..n |-> [index |-> i, succeeded |-> state[i] = "done"]]

Init ==
  /\ phase = "idle"
  /\ outcome = "none"
  /\ size = 0
  /\ attempt = [i \in Requests |-> "unstarted"]
  /\ answer = <<>>

Call ==
  /\ phase = "idle"
  /\ outcome \in {"none", "returned"}
  /\ phase' = "running"
  /\ outcome' = "none"
  /\ size' \in Requests
  /\ attempt' = [i \in Requests |-> "unstarted"]
  /\ answer' = <<>>

(* An empty list returns at once; a cancelled token refuses the call. *)
CallEndsAtOnce ==
  /\ phase = "idle"
  /\ outcome \in {"none", "returned"}
  /\ outcome' \in {"returned", "cancelled"}
  /\ size' = 0
  /\ attempt' = [i \in Requests |-> "unstarted"]
  /\ answer' = <<>>
  /\ UNCHANGED phase

(* Only an interrupted call may have batches at work after it. *)
AtWork == phase = "running" \/ outcome = "interrupted"

Start(i) ==
  /\ AtWork
  /\ i <= size
  /\ attempt[i] = "unstarted"
  /\ attempt' = [attempt EXCEPT ![i] = "inflight"]
  /\ UNCHANGED <<phase, outcome, size, answer>>

Finish(i) ==
  /\ AtWork
  /\ attempt[i] = "inflight"
  /\ attempt' \in {[attempt EXCEPT ![i] = r] : r \in {"done", "failed"}}
  /\ UNCHANGED <<phase, outcome, size, answer>>

Return ==
  /\ phase = "running"
  /\ \A i \in 1..size : attempt[i] \in {"done", "failed"}
  /\ phase' = "idle"
  /\ outcome' = "returned"
  /\ answer' = InputOrder(size, attempt)
  /\ UNCHANGED <<size, attempt>>

Cancelled ==
  /\ phase = "running"
  /\ \A i \in Requests : attempt[i] # "inflight"
  /\ phase' = "idle"
  /\ outcome' = "cancelled"
  /\ UNCHANGED <<size, attempt, answer>>

(* An interrupt aborts the batches on the calling thread (they fail) and   *)
(* may leave those of other threads at work.                               *)
Interrupted ==
  /\ phase = "running"
  /\ phase' = "idle"
  /\ outcome' = "interrupted"
  /\ attempt' \in {attempt} \cup {[attempt EXCEPT ![i] = "failed"] :
                                    i \in {j \in Requests : attempt[j] = "inflight"}}
  /\ UNCHANGED <<size, answer>>

Next ==
  \/ Call
  \/ CallEndsAtOnce
  \/ \E i \in Requests : Start(i) \/ Finish(i)
  \/ Return
  \/ Cancelled
  \/ Interrupted

Spec == Init /\ [][Next]_vars
=============================================================================
