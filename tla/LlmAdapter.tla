----------------------------- MODULE LlmAdapter -----------------------------
(***************************************************************************)
(* LlmAdapter: one call of the OpenAI-compatible adapter                   *)
(* (llm/openai_adapter.py), which asks the LLM for one batch.              *)
(*                                                                         *)
(* Three loops are nested: an answer that breaks the batch's contract is   *)
(* asked for again (round), an answer that is no JSON of the schema is     *)
(* asked for once more in each round (second), and a request that fails in *)
(* transport is repeated by RetryPolicy (attempt).  Both counts are bounded*)
(* by the same option, max_attempts.  None of the loops polls the token.   *)
(*                                                                         *)
(* A call is a value: the threads of the executor hold one each.           *)
(***************************************************************************)
EXTENDS Integers

\* "context" is analyze_context, "text" a batch under a contract
Tasks == {"context", "text"}

(* How an error is called matters to no caller: it names it in a warning.  *)
Results == {"none", "answered", "failed"}

(* The calls of an adapter whose LlmOptions.max_attempts is n.             *)
Calls(n) ==
  [task : Tasks,
   limit : {n},          \* max_attempts
   round : 1..n,         \* attempt of _complete_with_contract
   second : BOOLEAN,     \* _complete has sent its feedback message
   attempt : 1..n,       \* attempt of RetryPolicy.run
   requests : Nat,       \* HTTP requests of this call (history)
   result : Results]     \* how it ended

Asked(t, n) ==
  [task |-> t, limit |-> n, round |-> 1, second |-> FALSE, attempt |-> 1, requests |-> 0,
   result |-> "none"]

(* The call raises or returns; its counters are gone with its frames.      *)
Ended(call, r) == [Asked(call.task, call.limit) EXCEPT !.result = r]

IsUnderWay(call) == call.result = "none"

-----------------------------------------------------------------------------
(* What follows one request, by its outcome *)

(* 429, 5xx, a timeout or a broken connection: _is_retryable.              *)
TransportFailed(call) ==
  IF call.attempt < call.limit THEN [call EXCEPT !.attempt = @ + 1] ELSE Ended(call, "failed")

(* Any other status, no key, or a response without choices or text.        *)
Refused(call) == Ended(call, "failed")

(* Empty text, no JSON, or not of the schema: a StructuredOutputError.     *)
Unstructured(call) ==
  IF call.second THEN Ended(call, "failed")
                 ELSE [call EXCEPT !.second = TRUE, !.attempt = 1]

(* Only the answer to a batch has identifiers that can be wrong.           *)
HasContract(call) == call.task = "text"

(* Identifiers of the batch are missing or unknown.                        *)
ContractBroken(call) ==
  IF call.round = call.limit
    THEN Ended(call, "failed")
    ELSE [call EXCEPT !.round = @ + 1, !.second = FALSE, !.attempt = 1]

Answered(call) == Ended(call, "answered")

(* What a call may be after one more request.                              *)
AfterRequest(call) ==
  LET sent == [call EXCEPT !.requests = @ + 1] IN
    {TransportFailed(sent), Refused(sent), Unstructured(sent), Answered(sent)} \cup
    {broken \in {ContractBroken(sent)} : HasContract(sent)}

-----------------------------------------------------------------------------
(* Bounds *)

RequestsOfRound(n) == n + n

(* max_attempts requests for each of the two messages of each round.       *)
RequestBound(n) == n * RequestsOfRound(n)
=============================================================================
