---------------------------- MODULE RefineProofs ----------------------------
(***************************************************************************)
(* Proofs about Refine and the LlmAdapter it calls, for any document,      *)
(* options, answers and number of attempts: a batch sends a bounded number *)
(* of requests, and so does a run after it was cancelled; a repair takes   *)
(* no translation away; the report that is returned is about the document  *)
(* that is exported; and in it each stage has accounted for every cue.     *)
(***************************************************************************)
EXTENDS Refine, FiniteSetTheorems, TLAPS

CallingStages == LlmStages \cup {"context"}
Limit == options.maxAttempts

(* Requests the rounds before this one may have sent, and this one before  *)
(* the attempt at hand.                                                    *)
SentBefore(call) ==
  (call.round - 1) * RequestsOfRound(call.limit)
    + (IF call.second THEN call.limit ELSE 0) + (call.attempt - 1)

WithinBound(call, n) ==
  /\ call \in Calls(n)
  /\ IsUnderWay(call) => call.requests <= SentBefore(call)

(* A product grows with its factor.                                        *)
LEMMA Monotone ==
  ASSUME NEW i \in Nat, NEW j \in Nat, NEW k \in Nat, i <= j
  PROVE  i * k \in Nat /\ j * k \in Nat /\ i * k <= j * k
<1>1. PICK d \in Nat : j = i + d
      BY j - i \in Nat
<1>2. j * k = i * k + d * k /\ d * k \in Nat /\ i * k \in Nat
      BY <1>1
<1> QED BY <1>1, <1>2

(* The bounds are numbers.                                                 *)
LEMMA BoundTypes ==
  ASSUME NEW n \in Nat
  PROVE  RequestsOfRound(n) = n + n /\ RequestsOfRound(n) \in Nat /\ RequestBound(n) \in Nat
<1>1. n + n \in Nat /\ n <= n
      OBVIOUS
<1>2. n * (n + n) \in Nat
      BY <1>1, Monotone
<1> QED BY <1>1, <1>2 DEF RequestsOfRound, RequestBound

(* One round more, and the share of a round.                               *)
LEMMA NextRound ==
  ASSUME NEW n \in Nat \ {0}, NEW r \in 1..n
  PROVE  /\ (r - 1) * RequestsOfRound(n) \in Nat
         /\ r * RequestsOfRound(n) = (r - 1) * RequestsOfRound(n) + RequestsOfRound(n)
         /\ r * RequestsOfRound(n) \in Nat
         /\ r * RequestsOfRound(n) <= RequestBound(n)
<1>1. r \in Nat /\ r - 1 \in Nat /\ n \in Nat /\ r <= n /\ RequestsOfRound(n) \in Nat
      BY BoundTypes
<1>2. r * RequestsOfRound(n) <= RequestBound(n) /\ r * RequestsOfRound(n) \in Nat
      BY <1>1, Monotone DEF RequestBound
<1>3. (r - 1) * RequestsOfRound(n) \in Nat
      BY <1>1, Monotone
<1>4. r * RequestsOfRound(n) = (r - 1) * RequestsOfRound(n) + RequestsOfRound(n)
  <2>1. \A m \in Nat, k \in Nat : (m + 1) * k = m * k + k
        OBVIOUS
  <2> QED BY <2>1, <1>1
<1> QED BY <1>2, <1>3, <1>4

(* A call under way has a request left.                                    *)
LEMMA OneIsLeft ==
  ASSUME NEW n \in Nat \ {0}, NEW call, WithinBound(call, n), IsUnderWay(call)
  PROVE  /\ call.requests < RequestBound(n)
         /\ call.requests \in Nat /\ RequestBound(n) \in Nat
<1> DEFINE before == (call.round - 1) * RequestsOfRound(n)
<1>1. /\ call.round \in 1..n /\ call.second \in BOOLEAN /\ call.attempt \in 1..n
      /\ call.requests \in Nat /\ call.limit = n
      BY DEF WithinBound, Calls
<1>2. /\ before \in Nat /\ before + RequestsOfRound(n) <= RequestBound(n)
      /\ RequestsOfRound(n) = n + n /\ RequestBound(n) \in Nat
      BY <1>1, NextRound, BoundTypes
<1>3. call.requests <= before + (IF call.second THEN n ELSE 0) + (call.attempt - 1)
      BY <1>1 DEF WithinBound, SentBefore
<1> HIDE DEF before
<1> QED BY <1>1, <1>2, <1>3

(* A new call has sent nothing.                                            *)
LEMMA AskedWithin ==
  ASSUME NEW n \in Nat \ {0}, NEW t \in Tasks
  PROVE  WithinBound(Asked(t, n), n)
<1> DEFINE call == Asked(t, n)
<1>1. /\ call.round = 1 /\ call.second = FALSE /\ call.attempt = 1 /\ call.requests = 0
      /\ call.limit = n
      BY DEF Asked
<1>2. call \in Calls(n)
      BY DEF Asked, Calls, Results
<1>3. SentBefore(call) = 0
      BY <1>1, BoundTypes DEF SentBefore
<1> QED BY <1>1, <1>2, <1>3 DEF WithinBound

(* So has one that has ended: its counters are gone.                       *)
LEMMA EndedWithin ==
  ASSUME NEW n \in Nat \ {0}, NEW call \in Calls(n), NEW r \in Results \ {"none"}
  PROVE  WithinBound(Ended(call, r), n)
<1> DEFINE asked == Asked(call.task, n)
<1>1. call.task \in Tasks /\ call.limit = n
      BY DEF Calls
<1>2. asked \in Calls(n)
      BY <1>1, AskedWithin DEF WithinBound
<1>3. Ended(call, r) = [asked EXCEPT !.result = r]
      BY <1>1 DEF Ended
<1>4. Ended(call, r) \in Calls(n) /\ Ended(call, r).result = r
  <2> HIDE DEF asked
  <2> QED BY <1>2, <1>3 DEF Calls
<1> QED BY <1>4 DEF WithinBound, IsUnderWay

(* Another request is within what was still allowed, and what follows it   *)
(* is within what is allowed then.                                         *)
LEMMA RequestKeeps ==
  ASSUME NEW n \in Nat \ {0}, NEW call, WithinBound(call, n), IsUnderWay(call),
         NEW after \in AfterRequest(call)
  PROVE  WithinBound(after, n)
<1> DEFINE before == (call.round - 1) * RequestsOfRound(n)
           sent == [call EXCEPT !.requests = @ + 1]
<1>1. /\ call \in Calls(n) /\ call.limit = n
      /\ call.round \in 1..n /\ call.second \in BOOLEAN /\ call.attempt \in 1..n
      /\ call.requests \in Nat
      BY DEF WithinBound, Calls
<1>2. /\ sent \in Calls(n) /\ sent.limit = n /\ sent.requests = call.requests + 1
      /\ sent.round = call.round /\ sent.second = call.second /\ sent.attempt = call.attempt
      /\ sent.task = call.task
      BY <1>1 DEF Calls
<1>3. /\ before \in Nat /\ RequestsOfRound(n) = n + n
      /\ call.round * RequestsOfRound(n) = before + RequestsOfRound(n)
      BY <1>1, NextRound, BoundTypes
<1>4. call.requests <= before + (IF call.second THEN n ELSE 0) + (call.attempt - 1)
      BY <1>1 DEF WithinBound, SentBefore
<1>5. ASSUME NEW r \in Results \ {"none"}, after = Ended(sent, r) PROVE WithinBound(after, n)
      BY <1>2, <1>5, EndedWithin
<1>6. "failed" \in Results \ {"none"} /\ "answered" \in Results \ {"none"}
      BY DEF Results
<1>7. CASE after = TransportFailed(sent)
  <2>1. CASE call.attempt < n
    <3>1. after = [sent EXCEPT !.attempt = @ + 1]
          BY <1>2, <1>7, <2>1 DEF TransportFailed
    <3>2. call.attempt + 1 \in 1..n
          BY <1>1, <2>1
    <3>3. /\ after \in Calls(n) /\ after.limit = n /\ after.requests = call.requests + 1
          /\ after.round = call.round /\ after.second = call.second
          /\ after.attempt = call.attempt + 1
      <4> HIDE DEF sent
      <4> QED BY <1>2, <3>1, <3>2 DEF Calls
    <3>4. after.requests <= before + (IF call.second THEN n ELSE 0) + (after.attempt - 1)
      <4> HIDE DEF before, sent
      <4> QED BY <1>1, <1>3, <1>4, <3>3
    <3> HIDE DEF sent
    <3> QED BY <3>3, <3>4 DEF WithinBound, SentBefore
  <2>2. CASE ~(call.attempt < n)
        BY <1>2, <1>5, <1>6, <1>7, <2>2 DEF TransportFailed
  <2> QED BY <2>1, <2>2
<1>8. CASE after = Refused(sent) \/ after = Answered(sent)
      BY <1>5, <1>6, <1>8 DEF Refused, Answered
<1>9. CASE after = Unstructured(sent)
  <2>1. CASE ~call.second
    <3>1. after = [sent EXCEPT !.second = TRUE, !.attempt = 1]
          BY <1>2, <1>9, <2>1 DEF Unstructured
    <3>2. /\ after \in Calls(n) /\ after.limit = n /\ after.requests = call.requests + 1
          /\ after.round = call.round /\ after.second = TRUE /\ after.attempt = 1
      <4>1. TRUE \in BOOLEAN /\ 1 \in 1..n
            OBVIOUS
      <4> HIDE DEF sent
      <4> QED BY <1>2, <3>1, <4>1 DEF Calls
    <3>3. after.requests <= before + n + (after.attempt - 1)
      <4> HIDE DEF before, sent
      <4> QED BY <1>1, <1>3, <1>4, <2>1, <3>2
    <3> HIDE DEF sent
    <3> QED BY <3>2, <3>3 DEF WithinBound, SentBefore
  <2>2. CASE call.second
        BY <1>2, <1>5, <1>6, <1>9, <2>2 DEF Unstructured
  <2> QED BY <2>1, <2>2
<1>10. CASE after = ContractBroken(sent)
  <2>1. CASE call.round # n
    <3>1. after = [sent EXCEPT !.round = @ + 1, !.second = FALSE, !.attempt = 1]
          BY <1>2, <1>10, <2>1 DEF ContractBroken
    <3>2. /\ after \in Calls(n) /\ after.limit = n /\ after.requests = call.requests + 1
          /\ after.round = call.round + 1 /\ after.second = FALSE /\ after.attempt = 1
      <4>1. FALSE \in BOOLEAN /\ 1 \in 1..n /\ call.round + 1 \in 1..n
            BY <1>1, <2>1
      <4> HIDE DEF sent
      <4> QED BY <1>2, <3>1, <4>1 DEF Calls
    <3>3. (after.round - 1) * RequestsOfRound(n) = before + RequestsOfRound(n)
      <4>1. after.round - 1 = call.round
        <5> HIDE DEF sent
        <5> QED BY <1>1, <3>2
      <4> QED BY <1>3, <4>1
    <3>4. after.requests <= (after.round - 1) * RequestsOfRound(n)
      <4> HIDE DEF before, sent
      <4> QED BY <1>1, <1>3, <1>4, <3>2, <3>3
    <3>5. SentBefore(after) = (after.round - 1) * RequestsOfRound(n)
      <4>1. (after.round - 1) * RequestsOfRound(n) \in Nat
        <5> HIDE DEF before, sent
        <5> QED BY <1>3, <3>3
      <4> HIDE DEF sent
      <4> QED BY <3>2, <4>1 DEF SentBefore
    <3> HIDE DEF sent
    <3> QED BY <3>2, <3>4, <3>5 DEF WithinBound
  <2>2. CASE call.round = n
        BY <1>2, <1>5, <1>6, <1>10, <2>2 DEF ContractBroken
  <2> QED BY <2>1, <2>2
<1> HIDE DEF sent
<1>11. \/ after = TransportFailed(sent) \/ after = Refused(sent) \/ after = Unstructured(sent)
       \/ after = Answered(sent) \/ after = ContractBroken(sent)
       BY DEF AfterRequest, sent
<1> QED BY <1>7, <1>8, <1>9, <1>10, <1>11

-----------------------------------------------------------------------------
(* The calls under way *)

Invoked == \E i \in Invocations : input = i[1] /\ options = i[2]

CallInv ==
  /\ Invoked
  /\ calls \in Seq(Calls(Limit))
  /\ \A b \in DOMAIN calls : WithinBound(calls[b], Limit)
  /\ UnderWay # {} =>
       stage \in CallingStages /\ phase \in {"work", "refused"} /\ Cardinality(UnderWay) <= Width(stage)

(* The options are those of an invocation, and the calls a finite list.    *)
LEMMA CallTypes ==
  ASSUME CallInv
  PROVE  /\ Limit \in Nat \ {0}
         /\ \A s \in CallingStages : Width(s) \in Nat \ {0}
         /\ Len(calls) \in Nat /\ DOMAIN calls = 1..Len(calls)
         /\ IsFiniteSet(UnderWay) /\ Cardinality(UnderWay) \in Nat
<1>1. Limit \in Nat \ {0} /\ \A s \in LlmStages : options.parallelism[s] \in Nat \ {0}
      BY OptionsAssumption DEF CallInv, Invoked, Limit
<1>2. \A s \in CallingStages : Width(s) \in Nat \ {0}
      BY <1>1 DEF CallingStages, Width, LlmStages
<1>3. Len(calls) \in Nat /\ DOMAIN calls = 1..Len(calls)
      BY DEF CallInv
<1>4. IsFiniteSet(UnderWay)
  <2>1. UnderWay \in SUBSET (1..Len(calls))
        BY <1>3 DEF UnderWay
  <2>2. IsFiniteSet(1..Len(calls))
        BY <1>3, FS_Interval
  <2> QED BY <2>1, <2>2, FS_Subset
<1> QED BY <1>1, <1>2, <1>3, <1>4, FS_CardinalityType

(* A step that leaves the calls alone, and in their stage.                 *)
LEMMA CallsRest ==
  ASSUME CallInv, UNCHANGED <<input, options, calls>>,
         UnderWay = {} \/ (stage' = stage /\ phase' \in {phase, "refused"})
  PROVE  CallInv' /\ UnderWay' = UnderWay
<1>1. UnderWay' = UnderWay /\ Limit' = Limit /\ \A s : Width(s)' = Width(s)
      BY DEF UnderWay, Limit, Width
<1> QED BY <1>1 DEF CallInv, Invoked

(* A stage that is over forgets its calls.                                 *)
LEMMA CallsForgotten ==
  ASSUME CallInv, UNCHANGED <<input, options>>, calls' = <<>>
  PROVE  CallInv' /\ UnderWay' = {}
<1>1. DOMAIN calls' = {} /\ calls' \in Seq(Calls(Limit)) /\ Limit' = Limit
      BY DEF Limit
<1>2. UnderWay' = {}
      BY <1>1 DEF UnderWay
<1> QED BY <1>1, <1>2 DEF CallInv, Invoked

(* The analysis of the context is one call.                                *)
LEMMA ContextBegins ==
  ASSUME CallInv, UNCHANGED <<input, options>>, calls' = <<Asked("context", Limit)>>,
         stage' = "context", phase' = "work"
  PROVE  CallInv' /\ UnderWay' \subseteq {1}
<1>1. /\ Limit' = Limit /\ Limit \in Nat \ {0}
      /\ WithinBound(Asked("context", Limit), Limit) /\ Asked("context", Limit) \in Calls(Limit)
      BY CallTypes, AskedWithin DEF Limit, Tasks, WithinBound
<1>2. /\ DOMAIN calls' = {1} /\ calls'[1] = Asked("context", Limit)
      /\ calls' \in Seq(Calls(Limit))
      BY <1>1
<1>3. UnderWay' \subseteq {1}
      BY <1>2 DEF UnderWay
<1>4. Cardinality(UnderWay') <= 1
  <2>1. IsFiniteSet({1}) /\ Cardinality({1}) = 1
        BY FS_Singleton
  <2>2. UnderWay' \in SUBSET {1}
        BY <1>3
  <2> QED BY <2>1, <2>2, FS_Subset
<1> QED BY <1>1, <1>2, <1>3, <1>4 DEF CallInv, Invoked, CallingStages, Width

(* A batch begins only while fewer than parallelism are under way.         *)
LEMMA BatchBeginsCall ==
  ASSUME CallInv, UNCHANGED <<input, options, stage, phase>>,
         stage \in LlmStages, phase = "work", Cardinality(UnderWay) < Width(stage),
         calls' = Append(calls, Asked("text", Limit))
  PROVE  CallInv'
<1>1. /\ Limit' = Limit /\ Limit \in Nat \ {0} /\ Width(stage)' = Width(stage)
      /\ WithinBound(Asked("text", Limit), Limit) /\ Asked("text", Limit) \in Calls(Limit)
      BY CallTypes, AskedWithin DEF Limit, Tasks, WithinBound, Width
<1>2. /\ Len(calls) \in Nat /\ DOMAIN calls = 1..Len(calls)
      /\ IsFiniteSet(UnderWay) /\ Cardinality(UnderWay) \in Nat /\ Width(stage) \in Nat
      BY CallTypes DEF CallingStages
<1> DEFINE b == Len(calls) + 1
<1>3. /\ calls' \in Seq(Calls(Limit)) /\ DOMAIN calls' = 1..b
      /\ calls'[b] = Asked("text", Limit)
      /\ \A c \in DOMAIN calls : calls'[c] = calls[c]
      BY <1>1, <1>2 DEF CallInv
<1>4. \A c \in DOMAIN calls' : WithinBound(calls'[c], Limit)
  <2>1. \A c \in DOMAIN calls' : c = b \/ c \in DOMAIN calls
        BY <1>2, <1>3
  <2> HIDE DEF b
  <2> QED BY <1>1, <1>3, <2>1 DEF CallInv
<1>5. UnderWay' \subseteq UnderWay \cup {b}
  <2>1. \A c \in DOMAIN calls' : c = b \/ c \in DOMAIN calls
        BY <1>2, <1>3
  <2> HIDE DEF b
  <2> QED BY <1>3, <2>1 DEF UnderWay
<1>6. Cardinality(UnderWay') <= Cardinality(UnderWay) + 1
  <2> HIDE DEF b
  <2>1. /\ IsFiniteSet(UnderWay \cup {b})
        /\ Cardinality(UnderWay \cup {b}) <= Cardinality(UnderWay) + 1
        /\ Cardinality(UnderWay \cup {b}) \in Nat
    <3>1. /\ IsFiniteSet(UnderWay \cup {b})
          /\ Cardinality(UnderWay \cup {b})
               = IF b \in UnderWay THEN Cardinality(UnderWay) ELSE Cardinality(UnderWay) + 1
          BY <1>2, FS_AddElement
    <3> QED BY <1>2, <3>1
  <2>2. IsFiniteSet(UnderWay') /\ Cardinality(UnderWay') <= Cardinality(UnderWay \cup {b})
        BY <1>5, <2>1, FS_Subset
  <2>3. Cardinality(UnderWay') \in Nat
        BY <2>2, FS_CardinalityType
  <2> QED BY <1>2, <2>1, <2>2, <2>3
<1>7. Cardinality(UnderWay') <= Width(stage)'
  <2>1. IsFiniteSet(UnderWay \cup {b})
        BY <1>2, FS_AddElement
  <2>2. Cardinality(UnderWay') \in Nat
        BY <1>5, <2>1, FS_Subset, FS_CardinalityType
  <2> QED BY <1>1, <1>2, <1>6, <2>2
<1> HIDE DEF b
<1> QED BY <1>1, <1>3, <1>4, <1>7 DEF CallInv, Invoked, CallingStages

(* A request changes the call that sends it.                               *)
LEMMA RequestCallInv ==
  ASSUME CallInv, UNCHANGED <<input, options, stage, phase>>,
         NEW b \in UnderWay, NEW after \in AfterRequest(calls[b]),
         calls' = [calls EXCEPT ![b] = after]
  PROVE  CallInv' /\ UnderWay' \subseteq UnderWay
<1>1. /\ Limit' = Limit /\ Limit \in Nat \ {0} /\ Width(stage)' = Width(stage)
      /\ IsFiniteSet(UnderWay) /\ Cardinality(UnderWay) \in Nat /\ Width(stage) \in Nat
      BY CallTypes DEF Limit, Width, CallInv
<1>2. b \in DOMAIN calls /\ IsUnderWay(calls[b]) /\ WithinBound(calls[b], Limit)
      BY DEF UnderWay, CallInv
<1>3. WithinBound(after, Limit) /\ after \in Calls(Limit)
      BY <1>1, <1>2, RequestKeeps DEF WithinBound
<1>4. /\ calls' \in Seq(Calls(Limit)) /\ DOMAIN calls' = DOMAIN calls
      /\ \A c \in DOMAIN calls : calls'[c] = IF c = b THEN after ELSE calls[c]
      BY <1>2, <1>3 DEF CallInv
<1>5. \A c \in DOMAIN calls' : WithinBound(calls'[c], Limit)
      BY <1>3, <1>4 DEF CallInv
<1>6. UnderWay' \subseteq UnderWay
      BY <1>2, <1>4 DEF UnderWay
<1>7. IsFiniteSet(UnderWay') /\ Cardinality(UnderWay') <= Cardinality(UnderWay)
      BY <1>1, <1>6, FS_Subset
<1>8. Cardinality(UnderWay') <= Width(stage)'
      BY <1>1, <1>7, FS_CardinalityType DEF CallInv
<1> QED BY <1>1, <1>4, <1>5, <1>6, <1>8 DEF CallInv, Invoked

(* What a step may do to the calls: nothing is begun once the token is set.*)
LEMMA CallStep ==
  ASSUME CallInv, [RefineNext]_vars
  PROVE  /\ CallInv'
         /\ token => /\ UnderWay' \subseteq UnderWay
                     /\ UnderWay' # {} => stage' = stage
<1> USE DEF inputVars, textVars
<1>1. ASSUME UNCHANGED <<input, options, calls>>,
             UnderWay = {} \/ (stage' = stage /\ phase' \in {phase, "refused"})
      PROVE  CallInv' /\ UnderWay' = UnderWay /\ (UnderWay' # {} => stage' = stage)
      BY <1>1, CallsRest
<1>2. CASE ReadDocument \/ LeaveStage \/ Cleanup \/ CheckQuality \/ ExportFormat
  <2>1. UNCHANGED <<input, options, calls>>
        BY <1>2 DEF ReadDocument, LeaveStage, Cleanup, CheckQuality, ExportFormat
  <2>2. UnderWay = {}
        BY <1>2 DEF ReadDocument, LeaveStage, Cleanup, CheckQuality, ExportFormat,
                    CallInv, CallingStages, LlmStages
  <2> QED BY <1>1, <2>1, <2>2
<1>3. CASE Cancel \/ CollectBatch \/ LeavePool
  <2>1. UNCHANGED <<input, options, calls>>
        BY <1>3 DEF Cancel, CollectBatch, LeavePool
  <2>2. UnderWay = {} \/ UNCHANGED <<stage, phase>>
        BY <1>3 DEF Cancel, CollectBatch, LeavePool
  <2> QED BY <1>1, <2>1, <2>2
<1>4. CASE ContextDone \/ ApplyStage
  <2>1. UNCHANGED <<input, options>> /\ calls' = <<>>
        BY <1>4 DEF ContextDone, ApplyStage
  <2> QED BY <2>1, CallsForgotten
<1>5. CASE EnterStage
  <2>1. UNCHANGED <<input, options>> /\ UnderWay = {}
        BY <1>5 DEF EnterStage, CallInv
  <2>2. CASE token
        BY <1>1, <1>5, <2>1, <2>2 DEF EnterStage
  <2>3. CASE ~token /\ stage # "context"
        BY <1>1, <1>5, <2>1, <2>3 DEF EnterStage
  <2>4. CASE ~token /\ stage = "context"
    <3>1. calls' = <<Asked("context", Limit)>> /\ stage' = "context" /\ phase' = "work"
          BY <1>5, <2>4 DEF EnterStage, Limit
    <3> QED BY <2>1, <2>4, <3>1, ContextBegins
  <2> QED BY <2>2, <2>3, <2>4
<1>6. CASE BeginBatch
  <2>1. UNCHANGED <<input, options, stage>>
        BY <1>6 DEF BeginBatch
  <2>2. CASE token
        BY <1>1, <1>6, <2>1, <2>2 DEF BeginBatch, Polled
  <2>3. CASE ~token
    <3>1. /\ stage \in LlmStages /\ phase = "work" /\ phase' = phase
          /\ Cardinality(UnderWay) < Width(stage) /\ calls' = Append(calls, Asked("text", Limit))
          BY <1>6, <2>3 DEF BeginBatch, Polled, Limit
    <3> QED BY <2>1, <2>3, <3>1, BatchBeginsCall
  <2> QED BY <2>2, <2>3
<1>7. CASE LlmRequest
  <2>1. PICK b \in UnderWay : \E after \in AfterRequest(calls[b]) : calls' = [calls EXCEPT ![b] = after]
        BY <1>7 DEF LlmRequest
  <2>2. UNCHANGED <<input, options, stage, phase>>
        BY <1>7 DEF LlmRequest
  <2> QED BY <2>1, <2>2, RequestCallInv
<1>8. CASE UNCHANGED vars
      BY <1>1, <1>8 DEF vars
<1> QED BY <1>2, <1>3, <1>4, <1>5, <1>6, <1>7, <1>8 DEF RefineNext, RefineStep

(* Nothing has been asked when refine begins.                              *)
LEMMA CallStarts == ASSUME RefineInit PROVE CallInv
<1>1. calls = <<>> /\ Invoked
      BY DEF RefineInit, Invoked
<1>2. DOMAIN calls = {} /\ calls \in Seq(Calls(Limit))
      BY <1>1
<1> QED BY <1>1, <1>2 DEF CallInv, UnderWay

(* However the three loops of the adapter play together, a call sends at   *)
(* most max_attempts requests for each of its messages, in any run.        *)
THEOREM AdapterBounded == RefineSpec => []RequestsBounded
<1>1. CallInv /\ [RefineNext]_vars => CallInv'
      BY CallStep
<1>2. CallInv => RequestsBounded
  <2> SUFFICES ASSUME CallInv, NEW b \in UnderWay
               PROVE  calls[b].requests < RequestBound(options.maxAttempts)
      BY DEF RequestsBounded
  <2>1. Limit \in Nat \ {0} /\ WithinBound(calls[b], Limit) /\ IsUnderWay(calls[b])
        BY CallTypes DEF CallInv, UnderWay
  <2> QED BY <2>1, OneIsLeft DEF Limit
<1> QED BY <1>1, <1>2, CallStarts, PTL DEF RefineSpec

-----------------------------------------------------------------------------
(* After a cancellation *)

(* What was sent since the token was set is of calls that were under way   *)
(* then, all of one stage and no more than its width, each within its      *)
(* bound; and what is still under way is of these calls too.               *)
HeldTo(s, open) ==
  /\ IsFiniteSet(open) /\ Cardinality(open) <= Width(s)
  /\ UnderWay # {} => stage = s /\ UnderWay \subseteq open
  /\ late \subseteq {s} \X (open \X (1..RequestBound(Limit)))

LateInv ==
  /\ CallInv
  /\ token \in BOOLEAN
  /\ ~token => late = {}
  /\ token => \E s \in CallingStages : \E open : HeldTo(s, open)

(* So many requests they may be.                                           *)
LEMMA HeldIsBounded ==
  ASSUME CallInv, NEW s \in CallingStages, NEW open, HeldTo(s, open)
  PROVE  /\ \A request \in late : request[1] = s
         /\ Cardinality(late) <= Width(s) * RequestBound(Limit)
<1> DEFINE bound == RequestBound(Limit)
           numbers == 1..bound
<1>1. /\ bound \in Nat /\ Width(s) \in Nat
      /\ IsFiniteSet(open) /\ Cardinality(open) <= Width(s) /\ Cardinality(open) \in Nat
      /\ late \subseteq {s} \X (open \X numbers)
      BY CallTypes, BoundTypes, FS_CardinalityType DEF HeldTo
<1>2. IsFiniteSet(numbers) /\ Cardinality(numbers) = bound
  <2> HIDE DEF bound
  <2>1. 1 \in Int /\ bound \in Int
        BY <1>1
  <2>2. /\ IsFiniteSet(1..bound)
        /\ Cardinality(1..bound) = IF 1 > bound THEN 0 ELSE bound - 1 + 1
        BY <2>1, FS_Interval
  <2> QED BY <1>1, <2>2
<1> HIDE DEF bound, numbers
<1>3. IsFiniteSet(open \X numbers) /\ Cardinality(open \X numbers) = Cardinality(open) * bound
      BY <1>1, <1>2, FS_Product
<1>4. Cardinality(open) * bound \in Nat /\ Cardinality(open) * bound <= Width(s) * bound
      BY <1>1, Monotone
<1>5. /\ IsFiniteSet({s} \X (open \X numbers))
      /\ Cardinality({s} \X (open \X numbers)) = 1 * (Cardinality(open) * bound)
  <2>1. IsFiniteSet({s}) /\ Cardinality({s}) = 1
        BY FS_Singleton
  <2> DEFINE pairs == open \X numbers
  <2>2. /\ IsFiniteSet({s} \X pairs)
        /\ Cardinality({s} \X pairs) = Cardinality({s}) * Cardinality(pairs)
    <3>1. IsFiniteSet(pairs)
          BY <1>3
    <3> HIDE DEF pairs
    <3> QED BY <2>1, <3>1, FS_Product
  <2> QED BY <1>3, <2>1, <2>2
<1>6. Cardinality(late) <= Cardinality({s} \X (open \X numbers)) /\ Cardinality(late) \in Nat
      BY <1>1, <1>5, FS_Subset, FS_CardinalityType
<1>7. Cardinality(late) <= Width(s) * bound
      BY <1>1, <1>4, <1>5, <1>6, Monotone
<1> QED BY <1>1, <1>7 DEF bound

(* A request that is late is of a call that was under way.                 *)
LEMMA LateGrows ==
  ASSUME CallInv, [RefineNext]_vars, token, NEW s \in CallingStages, NEW open, HeldTo(s, open)
  PROVE  HeldTo(s, open)'
<1>1. /\ UnderWay' \subseteq UnderWay
      /\ UnderWay' # {} => stage' = stage
      BY CallStep
<1>2. Limit' = Limit /\ Width(s)' = Width(s) /\ Limit \in Nat \ {0}
  <2>1. options' = options
        BY DEF vars, inputVars, RefineNext, RefineStep, ReadDocument, EnterStage, LeaveStage,
               LlmRequest, ContextDone, BeginBatch, LeavePool, CollectBatch, ApplyStage, Cleanup,
               CheckQuality, ExportFormat, Cancel
  <2> QED BY <2>1, CallTypes DEF Limit, Width
<1>3. late' \subseteq {s} \X (open \X (1..RequestBound(Limit)))
  <2>1. CASE LlmRequest
    <3>1. PICK b \in UnderWay : late' = late \cup {<<stage, <<b, calls[b].requests + 1>>>>}
          BY <2>1 DEF LlmRequest
    <3>2. /\ WithinBound(calls[b], Limit) /\ IsUnderWay(calls[b])
          /\ stage = s /\ b \in open
          BY DEF UnderWay, CallInv, HeldTo
    <3>3. calls[b].requests + 1 \in 1..RequestBound(Limit)
      <4>1. /\ calls[b].requests < RequestBound(Limit)
            /\ calls[b].requests \in Nat /\ RequestBound(Limit) \in Nat
            BY <1>2, <3>2, OneIsLeft
      <4> QED BY <4>1
    <3> QED BY <3>1, <3>2, <3>3 DEF HeldTo
  <2>2. CASE ~LlmRequest
    <3>1. late' = late
          BY <2>2 DEF vars, RefineNext, RefineStep, ReadDocument, EnterStage, LeaveStage,
             ContextDone, BeginBatch, LeavePool, CollectBatch, ApplyStage, Cleanup,
             CheckQuality, ExportFormat, Cancel
    <3> QED BY <3>1 DEF HeldTo
  <2> QED BY <2>1, <2>2
<1> QED BY <1>1, <1>2, <1>3 DEF HeldTo

(* When the token is set, what is under way is all there may be.           *)
LEMMA CancelHolds ==
  ASSUME CallInv, late = {}, Cancel
  PROVE  \E s \in CallingStages : \E open : HeldTo(s, open)'
<1>1. /\ UnderWay' = UnderWay /\ Limit' = Limit /\ stage' = stage /\ late' = {}
      /\ \A s : Width(s)' = Width(s)
      BY DEF Cancel, inputVars, UnderWay, Limit, Width
<1>2. CASE UnderWay = {}
  <2>1. HeldTo("context", {})'
        BY <1>1, <1>2, FS_EmptySet DEF HeldTo, Width
  <2> QED BY <2>1 DEF CallingStages
<1>3. CASE UnderWay # {}
  <2>1. stage \in CallingStages /\ Cardinality(UnderWay) <= Width(stage) /\ IsFiniteSet(UnderWay)
        BY <1>3, CallTypes DEF CallInv
  <2>2. HeldTo(stage, UnderWay)'
        BY <1>1, <2>1 DEF HeldTo
  <2> QED BY <1>1, <2>1, <2>2
<1> QED BY <1>2, <1>3

(* No step sends a late request that was not allowed for.                  *)
LEMMA LateStep == LateInv /\ [RefineNext]_vars => LateInv'
<1> SUFFICES ASSUME LateInv, [RefineNext]_vars PROVE LateInv'
    OBVIOUS
<1> USE DEF LateInv
<1>1. CallInv'
      BY CallStep
<1>2. CASE token
  <2>1. token' = token
        BY <1>2 DEF vars, RefineNext, RefineStep, ReadDocument, EnterStage, LeaveStage,
           LlmRequest, ContextDone, BeginBatch, LeavePool, CollectBatch, ApplyStage, Cleanup,
           CheckQuality, ExportFormat, Cancel
  <2>2. PICK s \in CallingStages : \E open : HeldTo(s, open)
        BY <1>2
  <2>3. PICK open : HeldTo(s, open)
        BY <2>2
  <2>4. HeldTo(s, open)'
        BY <1>2, <2>3, LateGrows
  <2> QED BY <1>1, <1>2, <2>1, <2>4
<1>3. CASE ~token /\ Cancel
  <2>1. token' = TRUE /\ late = {}
        BY <1>3 DEF Cancel
  <2> QED BY <1>1, <1>3, <2>1, CancelHolds
<1>4. CASE ~token /\ ~Cancel
  <2>1. token' = token /\ late' = late
        BY <1>4 DEF vars, RefineNext, RefineStep, ReadDocument, EnterStage, LeaveStage,
           LlmRequest, ContextDone, BeginBatch, LeavePool, CollectBatch, ApplyStage, Cleanup,
           CheckQuality, ExportFormat
  <2> QED BY <1>1, <1>4, <2>1
<1> QED BY <1>2, <1>3, <1>4

(* Whatever the document and the options, what is still sent after a       *)
(* cancellation is of one stage, and no more than the retries of as many   *)
(* batches as it has threads.                                              *)
THEOREM LateRequestsBoundedHolds == RefineSpec => []LateRequestsBounded
<1>1. RefineInit => LateInv
  <2>1. RefineInit => token \in BOOLEAN
        BY ZenonT(20) DEF RefineInit
  <2> QED BY <2>1, CallStarts DEF RefineInit, LateInv
<1>2. LateInv => LateRequestsBounded
  <2> SUFFICES ASSUME LateInv PROVE LateRequestsBounded
      OBVIOUS
  <2>1. CallInv
        BY DEF LateInv
  <2>2. CASE token
    <3>1. PICK s \in CallingStages : \E open : HeldTo(s, open)
          BY <2>2 DEF LateInv
    <3>2. PICK open : HeldTo(s, open)
          BY <3>1
    <3> QED BY <2>1, <3>2, HeldIsBounded DEF LateRequestsBounded, CallingStages, Limit
  <2>3. CASE ~token
    <3>1. late = {} /\ Cardinality(late) = 0
          BY <2>3, FS_EmptySet DEF LateInv
    <3>2. Width("context") * RequestBound(Limit) \in Nat
      <4>1. RequestBound(Limit) \in Nat /\ Width("context") = 1
            BY <2>1, CallTypes, BoundTypes DEF Width
      <4> QED BY <4>1
    <3> QED BY <3>1, <3>2 DEF LateRequestsBounded, Limit
  <2> QED BY <2>2, <2>3
<1> QED BY <1>1, <1>2, LateStep, PTL DEF RefineSpec

-----------------------------------------------------------------------------
(* Repairs *)

(* What a stage has gathered is gone when it is left; what a repair has    *)
(* gathered are texts, and of cues that were reported.                     *)
GatherInv ==
  /\ phase = "refused" => stage \in LlmStages
  /\ stage = "ended" => phase = "enter"
  /\ \/ stage = "ended"
     \/ stage \in LlmStages /\ phase \in {"work", "refused"}
     \/ DOMAIN values = {}
  /\ stage = "repair" => \A c \in DOMAIN values : c \in Repairable /\ values[c] # None

(* A step that gathers nothing: it stays where it is, or comes to a stage  *)
(* that has gathered nothing yet.                                          *)
LEMMA GatherRests ==
  ASSUME GatherInv, UNCHANGED <<source, report, values>>,
         \/ UNCHANGED <<stage, phase>>
         \/ stage' = stage /\ stage # "ended" /\ phase' \in {"work", "leave"} /\ DOMAIN values = {}
         \/ stage' = stage /\ stage \in LlmStages /\ phase' \in {"work", "refused"}
         \/ stage' = "ended" /\ phase' = "enter"
         \/ phase' = "enter" /\ DOMAIN values = {}
  PROVE  GatherInv'
<1>1. Repairable' = Repairable
      BY DEF Repairable, Cue
<1> QED BY <1>1 DEF GatherInv, LlmStages

(* The answers that are gathered are to cues of the batch.                 *)
LEMMA GatherBatch ==
  ASSUME GatherInv, CollectBatch
  PROVE  GatherInv'
<1>1. /\ phase = "work" /\ phase' = "work" /\ stage' = stage /\ stage \in LlmStages
      /\ Repairable' = Repairable
      BY DEF CollectBatch, GatherInv, Repairable, Cue, textVars
<1>2. ASSUME stage = "repair" PROVE \A c \in DOMAIN values' : c \in Repairable /\ values'[c] # None
  <2>1. \A c \in DOMAIN values : c \in Repairable /\ values[c] # None
        BY <1>2 DEF GatherInv
  <2>2. CASE values' = values
        BY <2>1, <2>2
  <2>3. CASE values' # values
    <3>1. PICK answer \in [CuesIn(batch) -> Answers \cup {Blank}] :
            /\ Acceptable(answer)
            /\ values' = [c \in DOMAIN values \cup CuesIn(batch) |->
                            IF c \in CuesIn(batch) THEN answer[c] ELSE values[c]]
          BY <2>3 DEF CollectBatch, BatchAnswered, BatchInvalid
    <3>2. \A c \in CuesIn(batch) : c \in Repairable
          BY <1>2 DEF CuesIn, CuesOf
    <3>3. \A c \in CuesIn(batch) : answer[c] \in Answers
          BY <3>1 DEF Acceptable
    <3> QED BY <2>1, <3>1, <3>2, <3>3, NoneAssumption
  <2> QED BY <2>2, <2>3
<1> QED BY <1>1, <1>2 DEF GatherInv

(* No step carries gathered texts into another stage.                      *)
LEMMA GatherStep == GatherInv /\ [RefineNext]_vars => GatherInv'
<1> SUFFICES ASSUME GatherInv, [RefineNext]_vars PROVE GatherInv'
    OBVIOUS
<1> USE DEF textVars, gatherVars
<1>1. CASE ReadDocument
  <2>1. DOMAIN values = {} /\ UNCHANGED <<source, report, values>>
        BY <1>1 DEF ReadDocument, GatherInv, LlmStages
  <2>2. phase' = "enter"
        BY <1>1 DEF ReadDocument, End, EnterNext
  <2> QED BY <2>1, <2>2, GatherRests
<1>2. CASE EnterStage
  <2>1. DOMAIN values = {} /\ UNCHANGED <<source, report, values>>
        BY <1>2 DEF EnterStage, GatherInv
  <2>2. (stage' = "ended" /\ phase' = "enter") \/ (stage' = stage /\ stage # "ended" /\ phase' = "work")
        BY <1>2 DEF EnterStage, End
  <2> QED BY <2>1, <2>2, GatherRests
<1>3. CASE LeaveStage
  <2>1. DOMAIN values = {} /\ UNCHANGED <<source, report, values>>
        BY <1>3 DEF LeaveStage, GatherInv
  <2>2. phase' = "enter"
        BY <1>3 DEF LeaveStage, End, EnterNext
  <2> QED BY <2>1, <2>2, GatherRests
<1>4. CASE LlmRequest \/ Cancel
      BY <1>4, GatherRests DEF LlmRequest, Cancel
<1>5. CASE ContextDone
  <2>1. DOMAIN values = {}
        BY <1>5 DEF ContextDone, GatherInv, LlmStages
  <2> QED BY <1>5, <2>1, GatherRests DEF ContextDone
<1>6. CASE BeginBatch \/ LeavePool
  <2>1. UNCHANGED <<source, report, values>>
        BY <1>6 DEF BeginBatch, LeavePool
  <2>2. \/ stage' = stage /\ stage \in LlmStages /\ phase' \in {"work", "refused"}
        \/ stage' = "ended" /\ phase' = "enter"
        BY <1>6 DEF BeginBatch, LeavePool, End
  <2> QED BY <2>1, <2>2, GatherRests
<1>7. CASE CollectBatch
      BY <1>7, GatherBatch
<1>8. CASE ApplyStage
  <2>1. DOMAIN values' = {}
    <3>1. values' = <<>>
          BY <1>8 DEF ApplyStage
    <3> QED BY <3>1
  <2>2. stage' = stage /\ phase' = "leave" /\ stage # "ended"
        BY <1>8 DEF ApplyStage, LlmStages
  <2> QED BY <2>1, <2>2 DEF GatherInv
<1>9. CASE Cleanup
  <2>1. DOMAIN values = {}
        BY <1>9 DEF Cleanup, GatherInv, LlmStages
  <2> QED BY <1>9, <2>1, GatherRests DEF Cleanup
<1>10. CASE CheckQuality
  <2>1. DOMAIN values = {} /\ stage = "quality"
        BY <1>10 DEF CheckQuality, GatherInv, LlmStages
  <2>2. UNCHANGED <<values, stage>> /\ phase' = "leave"
        BY <1>10 DEF CheckQuality
  <2> QED BY <2>1, <2>2 DEF GatherInv
<1>11. CASE ExportFormat
  <2>1. DOMAIN values = {} /\ UNCHANGED <<source, report, values>>
        BY <1>11 DEF ExportFormat, GatherInv, LlmStages
  <2>2. \/ stage' = "ended" /\ phase' = "enter"
        \/ stage' = stage /\ stage # "ended" /\ phase' \in {"work", "leave"}
        BY <1>11 DEF ExportFormat, End
  <2> QED BY <2>1, <2>2, GatherRests
<1>12. CASE UNCHANGED vars
       BY <1>12, GatherRests DEF vars
<1> QED BY <1>1, <1>2, <1>3, <1>4, <1>5, <1>6, <1>7, <1>8, <1>9, <1>10, <1>11, <1>12
        DEF RefineNext, RefineStep

(* A repair, for any document and answers, takes no translation away and   *)
(* leaves the cues alone of which nothing repairable was reported.         *)
THEOREM RepairKeepsGoodHolds == RefineSpec => RepairKeepsGood
<1>1. RefineInit => GatherInv
  <2>1. DOMAIN <<>> = {}
        OBVIOUS
  <2> QED BY <2>1 DEF RefineInit, GatherInv, LlmStages
<1>2. ASSUME GatherInv, RefineNext, stage = "repair", NEW c \in Cue, translated'[c] # translated[c]
      PROVE  c \in Repairable /\ translated'[c] # None
  <2>1. CASE ApplyStage
    <3>1. translated'[c] = IF c \in DOMAIN values THEN values[c] ELSE translated[c]
          BY <1>2, <2>1 DEF ApplyStage, Translated, Updated
    <3> QED BY <1>2, <3>1 DEF GatherInv
  <2>2. CASE ~ApplyStage
    <3>1. translated' = translated
          BY <1>2, <2>2 DEF RefineNext, RefineStep, ReadDocument, EnterStage, LeaveStage, LlmRequest,
             ContextDone, BeginBatch, LeavePool, CollectBatch, Cleanup, CheckQuality, ExportFormat, Cancel, textVars
    <3> QED BY <1>2, <3>1
  <2> QED BY <2>1, <2>2
<1>3. GatherInv /\ [RefineNext]_vars =>
        [stage = "repair" => \A c \in Cue : translated'[c] # translated[c] =>
           c \in Repairable /\ translated'[c] # None]_vars
      BY <1>2
<1> QED BY <1>1, <1>3, GatherStep, PTL DEF RefineSpec, RepairKeepsGood

-----------------------------------------------------------------------------
(* The report *)

Early == {"start", "context", "correction", "cleanup", "translation"}

(* From the stages before the quality checks, none is skipped past them.   *)
LEMMA QualityIsNotSkipped ==
  ASSUME stage \in Early
  PROVE  NextStage(stage) \in {"context", "correction", "cleanup", "translation", "quality"}
<1>1. Place(stage) \in 1..5
  <2>1. \A s \in Early : \E i \in 1..5 : Order[i] = s
    <3>1. Order[1] = "start" /\ Order[2] = "context" /\ Order[3] = "correction"
            /\ Order[4] = "cleanup" /\ Order[5] = "translation"
          BY DEF Order
    <3> QED BY <3>1 DEF Early
  <2>2. \A i \in 6..8 : Order[i] \notin Early
        BY DEF Order, Early
  <2>3. Len(Order) = 8
        BY DEF Order
  <2>4. Place(stage) \in 1..8 /\ Order[Place(stage)] = stage
        BY <2>1, <2>3 DEF Place
  <2> QED BY <2>2, <2>4
<1> DEFINE later == {i \in (Place(stage) + 1)..Len(Order) : Runs(Order[i])}
           least == CHOOSE i \in later : \A j \in later : i <= j
<1>2. later \subseteq 2..8 /\ 6 \in later
  <2>1. Len(Order) = 8 /\ Order[6] = "quality"
        BY DEF Order
  <2>2. Runs("quality")
        BY DEF Runs
  <2> QED BY <1>1, <2>1, <2>2
<1>3. \E i \in later : \A j \in later : i <= j
  <2> HIDE DEF later
  <2> QED BY <1>2
<1>4. least \in later /\ least <= 6
  <2> HIDE DEF later
  <2> QED BY <1>2, <1>3
<1>5. least \in 2..6
  <2> HIDE DEF later, least
  <2> QED BY <1>2, <1>4
<1>6. NextStage(stage) = Order[least]
      BY DEF NextStage
<1>7. \A i \in 2..6 : Order[i] \in {"context", "correction", "cleanup", "translation", "quality"}
      BY DEF Order
<1> HIDE DEF later, least
<1> QED BY <1>5, <1>6, <1>7

(* The report is about the document as it is, unless a stage that may      *)
(* change the document comes before the quality checks.                    *)
ReportInv ==
  /\ outcome = "completed" => stage = "ended"
  /\ \/ stage \in Early
     \/ stage = "quality" /\ phase # "leave"
     \/ stage = "ended" /\ outcome # "completed"
     \/ report = Issues

(* The issues depend on nothing but the document.                          *)
LEMMA IssuesRest ==
  ASSUME UNCHANGED <<input, textVars>>
  PROVE  Issues' = Issues
<1>1. /\ input' = input /\ source' = source /\ corrected' = corrected
      /\ translated' = translated /\ target' = target
      BY DEF textVars
<1>2. \A c : Current(c)' = Current(c)
      BY <1>1 DEF Current
<1>3. \A c : TranslationIssues(c)' = TranslationIssues(c)
      BY <1>1, <1>2 DEF TranslationIssues
<1>4. \A c : Variants(c)' = Variants(c)
      BY <1>1 DEF Variants
<1>5. \A c : CueIssues(c)' = CueIssues(c)
      BY <1>1, <1>3, <1>4 DEF CueIssues
<1>6. Cue' = Cue
      BY <1>1 DEF Cue
<1> QED BY <1>5, <1>6 DEF Issues

(* A step that leaves the document and the report alone, and does not move *)
(* from an early stage past the quality checks.                            *)
LEMMA ReportRests ==
  ASSUME ReportInv, UNCHANGED <<input, textVars, report>>,
         \/ stage' = stage /\ outcome' = outcome /\ (phase' = phase \/ stage # "quality" \/ phase' # "leave")
         \/ stage' = "ended" /\ outcome' # "completed"
         \/ stage' = "ended" /\ stage = "export"
         \/ /\ outcome' = outcome /\ stage # "ended" /\ phase' = "enter"
            /\ \/ stage \in Early /\ stage' \in Early \cup {"quality"}
               \/ stage \notin Early /\ (stage # "quality" \/ phase = "leave")
  PROVE  ReportInv'
<1>1. Issues' = Issues
      BY IssuesRest
<1> QED BY <1>1 DEF ReportInv, Early

(* The stage after this one begins, or the run fails before the export.    *)
LEMMA EnterNextMoves ==
  ASSUME EnterNext
  PROVE  \/ stage' = "ended" /\ outcome' = "failed"
         \/ /\ outcome' = outcome /\ phase' = "enter"
            /\ stage \in Early => stage' \in Early \cup {"quality"}
  BY QualityIsNotSkipped DEF EnterNext, End, Early

(* No step changes the document behind the report.                         *)
LEMMA ReportStep == GatherInv /\ ReportInv /\ [RefineNext]_vars => ReportInv'
<1> SUFFICES ASSUME GatherInv, ReportInv, [RefineNext]_vars PROVE ReportInv'
    OBVIOUS
<1>1. CASE ReadDocument
  <2>1. UNCHANGED <<input, textVars, report>> /\ stage \in Early
        BY <1>1 DEF ReadDocument, inputVars, Early
  <2>2. (stage' = "ended" /\ outcome' \in {"cancelled", "failed"}) \/ EnterNext
        BY <1>1 DEF ReadDocument, End
  <2> QED BY <2>1, <2>2, EnterNextMoves, ReportRests DEF Early
<1>2. CASE EnterStage
  <2>1. UNCHANGED <<input, textVars, report>>
        BY <1>2 DEF EnterStage, inputVars
  <2>2. \/ stage' = "ended" /\ outcome' = "cancelled"
        \/ stage' = stage /\ outcome' = outcome /\ phase' = "work"
        BY <1>2 DEF EnterStage, End
  <2> QED BY <2>1, <2>2, ReportRests
<1>3. CASE LeaveStage
  <2>1. UNCHANGED <<input, textVars, report>> /\ phase = "leave" /\ stage # "ended"
        BY <1>3 DEF LeaveStage, inputVars, GatherInv
  <2>2. \/ stage' = "ended" /\ outcome' = "cancelled"
        \/ stage' = "ended" /\ stage = "export"
        \/ EnterNext
        BY <1>3 DEF LeaveStage, End
  <2> QED BY <2>1, <2>2, EnterNextMoves, ReportRests
<1>4. CASE LlmRequest \/ Cancel
      BY <1>4, ReportRests DEF LlmRequest, Cancel, inputVars
<1>5. CASE ContextDone
      BY <1>5, ReportRests DEF ContextDone, inputVars
<1>6. CASE BeginBatch \/ LeavePool
  <2>1. UNCHANGED <<input, textVars, report>>
        BY <1>6 DEF BeginBatch, LeavePool, inputVars
  <2>2. \/ stage' = "ended" /\ outcome' = "cancelled"
        \/ stage' = stage /\ outcome' = outcome /\ phase' \in {"work", "refused"}
        BY <1>6 DEF BeginBatch, LeavePool, End
  <2> QED BY <2>1, <2>2, ReportRests
<1>7. CASE CollectBatch
      BY <1>7, ReportRests DEF CollectBatch, inputVars
<1>8. CASE ApplyStage
  <2>1. stage' = stage /\ outcome' = outcome /\ stage \in LlmStages
        BY <1>8 DEF ApplyStage
  <2>2. stage = "repair" => report' = Issues'
        BY <1>8 DEF ApplyStage, CheckedAgain
  <2> QED BY <2>1, <2>2 DEF ReportInv, Early, LlmStages
<1>9. CASE Cleanup
      BY <1>9 DEF Cleanup, ReportInv, Early
<1>10. CASE CheckQuality
  <2>1. Issues' = Issues
        BY <1>10, IssuesRest DEF CheckQuality, inputVars
  <2> QED BY <1>10, <2>1 DEF CheckQuality, ReportInv
<1>11. CASE ExportFormat
  <2>1. UNCHANGED <<input, textVars, report>> /\ stage = "export"
        BY <1>11 DEF ExportFormat, inputVars
  <2>2. \/ stage' = "ended" /\ outcome' = "failed"
        \/ stage' = stage /\ outcome' = outcome
        BY <1>11 DEF ExportFormat, End
  <2> QED BY <2>1, <2>2, ReportRests
<1>12. CASE UNCHANGED vars
       BY <1>12, ReportRests DEF vars, inputVars, textVars
<1> QED BY <1>1, <1>2, <1>3, <1>4, <1>5, <1>6, <1>7, <1>8, <1>9, <1>10, <1>11, <1>12
        DEF RefineNext, RefineStep

(* What is exported is what the report is about, for any document, options *)
(* and answers, and whatever the repair has changed.                       *)
THEOREM ReportCurrentHolds == RefineSpec => []ReportCurrent
<1>1. RefineInit => GatherInv /\ ReportInv
  <2>1. DOMAIN <<>> = {}
        OBVIOUS
  <2> QED BY <2>1 DEF RefineInit, GatherInv, ReportInv, LlmStages, Early
<1>2. ReportInv => ReportCurrent
      BY DEF ReportInv, ReportCurrent, Early
<1> QED BY <1>1, <1>2, GatherStep, ReportStep, PTL DEF RefineSpec

-----------------------------------------------------------------------------
(* Batches *)

TextStages == {"correction", "translation"}
Gathering  == stage \in LlmStages /\ phase \in {"work", "refused"}

(* While a stage gathers, each cue of the batches it has been through has  *)
(* either a value or a failure, and no other cue has one.                  *)
Divided ==
  /\ DOMAIN values \cup failed = {c \in Cue : BatchOf(c) < batch}
  /\ DOMAIN values \cap failed = {}

BatchInv ==
  /\ Invoked /\ source = input.source
  /\ batch \in Nat \ {0}
  /\ Gathering \/ stage = "ended" \/ (batch = 1 /\ DOMAIN values = {} /\ failed = {})
  /\ Gathering /\ stage \in TextStages => Divided

(* Division by the size of a batch.                                        *)
LEMMA Quotient ==
  ASSUME NEW n \in Nat, NEW size \in Nat \ {0}
  PROVE  /\ n \div size \in Nat
         /\ (n * size) \div size = n
         /\ \A k \in Nat : k <= n \div size => k * size <= n
<1>1. n \div size \in Nat
      OBVIOUS
<1>2. (n * size) \div size = n
      OBVIOUS
<1>3. ASSUME NEW k \in Nat, k <= n \div size PROVE k * size <= n
      BY <1>3
<1> QED BY <1>1, <1>2, <1>3

(* A stage that sends every cue counts through them.                       *)
LEMMA BatchOfCue ==
  ASSUME BatchInv, stage \in TextStages, NEW c \in Cue
  PROVE  /\ c \in Nat \ {0}
         /\ BatchOf(c) = 1 + (c - 1) \div options.batchSize[stage]
         /\ BatchOf(c) \in Nat \ {0}
<1>1. /\ Len(source) \in Nat /\ Cue = 1..Len(source) /\ CuesOf(stage) = Cue
      /\ options.batchSize[stage] \in Nat \ {0}
      BY DocumentsAssumption, OptionsAssumption
         DEF BatchInv, Invoked, Cue, CuesOf, TextStages, LlmStages
<1>2. c \in 1..Len(source) /\ c \in Nat \ {0} /\ c - 1 \in Nat
      BY <1>1
<1>3. {d \in CuesOf(stage) : d <= c} = 1..c
      BY <1>1, <1>2
<1>4. Cardinality(1..c) = c
      BY <1>2, FS_Interval
<1>5. BatchOf(c) = 1 + (c - 1) \div options.batchSize[stage]
      BY <1>3, <1>4 DEF BatchOf, Position
<1>6. (c - 1) \div options.batchSize[stage] \in Nat
      BY <1>1, <1>2, Quotient
<1> QED BY <1>2, <1>5, <1>6

(* The batches have no gap: past the last of them, all cues were sent.     *)
LEMMA AllSent ==
  ASSUME BatchInv, Gathering, stage \in TextStages, batch \notin Batches
  PROVE  DOMAIN values \cup failed = Cue /\ DOMAIN values \cap failed = {}
<1> DEFINE size == options.batchSize[stage]
<1>1. stage # "repair" /\ batch \in Nat \ {0} /\ batch - 1 \in Nat /\ size \in Nat \ {0}
      BY OptionsAssumption DEF BatchInv, Invoked, TextStages, LlmStages
<1>2. Len(source) \in Nat /\ Cue = 1..Len(source) /\ CuesOf(stage) = Cue
      BY <1>1, DocumentsAssumption DEF BatchInv, Invoked, Cue, CuesOf
<1>3. ASSUME NEW c \in Cue, ~(BatchOf(c) < batch) PROVE FALSE
  <2>1. /\ c \in Nat \ {0} /\ c - 1 \in Nat
        /\ BatchOf(c) = 1 + (c - 1) \div size /\ BatchOf(c) \in Nat
        BY <1>1, BatchOfCue
  <2>2. batch - 1 <= (c - 1) \div size
    <3>1. (c - 1) \div size \in Nat
          BY <1>1, <2>1, Quotient
    <3> HIDE DEF size
    <3> QED BY <1>1, <1>3, <2>1, <3>1
  <2>3. (batch - 1) * size <= c - 1 /\ (batch - 1) * size \in Nat
    <3> HIDE DEF size
    <3> QED BY <1>1, <2>1, <2>2, Quotient
  <2> DEFINE first == (batch - 1) * size + 1
  <2>4. first \in Cue /\ first - 1 = (batch - 1) * size
    <3> HIDE DEF size
    <3> QED BY <1>2, <2>1, <2>3
  <2>5. BatchOf(first) = 1 + (first - 1) \div size
        BY <1>1, <2>4, BatchOfCue
  <2>6. BatchOf(first) = batch
    <3> HIDE DEF size
    <3>1. ((batch - 1) * size) \div size = batch - 1
          BY <1>1, Quotient
    <3> QED BY <1>1, <2>4, <2>5, <3>1
  <2> QED BY <1>2, <2>4, <2>6 DEF Batches
<1> QED BY <1>1, <1>3 DEF BatchInv, Divided

(* The batches are the same as long as the stage is.                       *)
LEMMA BatchesStay ==
  ASSUME UNCHANGED <<source, options, report, stage>>
  PROVE  /\ Cue' = Cue
         /\ \A c : BatchOf(c)' = BatchOf(c)
         /\ \A b : CuesIn(b)' = CuesIn(b)
<1>1. Cue' = Cue /\ CuesOf(stage)' = CuesOf(stage)
      BY DEF Cue, CuesOf, Repairable
<1>2. \A c : BatchOf(c)' = BatchOf(c)
      BY <1>1 DEF BatchOf, Position
<1> QED BY <1>1, <1>2 DEF CuesIn

(* A step that gathers nothing and begins no stage.                        *)
LEMMA BatchRests ==
  ASSUME BatchInv, UNCHANGED <<inputVars, source, gatherVars>>,
         \/ UNCHANGED <<stage, phase, report>>
         \/ stage' = stage /\ report' = report /\ Gathering /\ phase' \in {"work", "refused"}
         \/ stage' = "ended"
         \/ ~Gathering /\ stage # "ended" /\ phase' \notin {"work", "refused"}
         \/ ~Gathering /\ stage' = stage /\ stage \notin LlmStages \cup {"ended"}
  PROVE  BatchInv'
<1>1. /\ options' = options /\ input' = input /\ source' = source
      /\ batch' = batch /\ values' = values /\ failed' = failed
      BY DEF inputVars, gatherVars
<1>2. CASE stage' = stage /\ report' = report /\ (Gathering' <=> Gathering)
  <2>1. Divided => Divided'
        BY <1>1, <1>2, BatchesStay DEF Divided
  <2> QED BY <1>1, <1>2, <2>1 DEF BatchInv, Invoked
<1>3. CASE stage' = "ended"
      BY <1>1, <1>3 DEF BatchInv, Invoked, Gathering, LlmStages
<1>4. CASE ~Gathering /\ stage # "ended" /\ ~Gathering'
      BY <1>1, <1>4 DEF BatchInv, Invoked
<1> QED BY <1>2, <1>3, <1>4 DEF Gathering

(* A stage begins to gather with its first batch.                          *)
LEMMA BatchBegins ==
  ASSUME BatchInv, UNCHANGED <<inputVars, source, gatherVars, stage, report>>,
         ~Gathering, stage # "ended"
  PROVE  BatchInv'
<1>1. /\ options' = options /\ input' = input /\ source' = source /\ stage' = stage
      /\ batch' = 1 /\ DOMAIN values' = {} /\ failed' = {}
      BY DEF inputVars, gatherVars, BatchInv
<1>2. ASSUME stage \in TextStages PROVE Divided'
  <2>1. \A c \in Cue : ~(BatchOf(c) < 1)
    <3> SUFFICES ASSUME NEW c \in Cue PROVE ~(BatchOf(c) < 1)
        OBVIOUS
    <3>1. BatchOf(c) \in Nat \ {0}
          BY <1>2, BatchOfCue DEF TextStages
    <3> QED BY <3>1
  <2>2. \A c \in Cue' : ~(BatchOf(c)' < batch')
        BY <1>1, <2>1, BatchesStay
  <2> QED BY <1>1, <2>2 DEF Divided
<1> QED BY <1>1, <1>2 DEF BatchInv, Invoked

(* The answer to a batch divides its cues among values and failures.       *)
LEMMA BatchCollected ==
  ASSUME BatchInv, GatherInv, CollectBatch
  PROVE  BatchInv'
<1>1. /\ Gathering /\ Gathering' /\ batch' = batch + 1 /\ batch \in Nat \ {0}
      /\ UNCHANGED <<options, input, source, report, stage>>
      BY DEF CollectBatch, GatherInv, Gathering, BatchInv, inputVars, textVars
<1>2. ASSUME stage \in TextStages PROVE Divided'
  <2>1. Divided
        BY <1>1, <1>2 DEF BatchInv
  <2>2. \A c \in Cue : BatchOf(c) \in Nat \ {0}
        BY <1>2, BatchOfCue DEF TextStages
  <2>3. CuesIn(batch) = {c \in Cue : BatchOf(c) = batch}
        BY <1>2 DEF CuesIn, CuesOf, TextStages
  <2>4. {c \in Cue : BatchOf(c) < batch + 1} = {c \in Cue : BatchOf(c) < batch} \cup CuesIn(batch)
        BY <1>1, <2>2, <2>3
  <2>5. CuesIn(batch) \cap (DOMAIN values \cup failed) = {}
        BY <1>1, <2>1, <2>2, <2>3 DEF Divided
  <2>6. \/ DOMAIN values' = DOMAIN values \cup CuesIn(batch) /\ failed' = failed
        \/ values' = values /\ failed' = failed \cup CuesIn(batch)
    <3>1. CASE BatchInvalid
          BY <3>1 DEF BatchInvalid, MarksAll
    <3>2. CASE BatchAnswered
          BY <3>2 DEF BatchAnswered, MarksAll
    <3> QED BY <3>1, <3>2 DEF CollectBatch
  <2>7. DOMAIN values' \cup failed' = {c \in Cue : BatchOf(c) < batch'}
        BY <1>1, <2>1, <2>4, <2>6 DEF Divided
  <2>8. DOMAIN values' \cap failed' = {}
        BY <2>1, <2>5, <2>6 DEF Divided
  <2> QED BY <1>1, <2>7, <2>8, BatchesStay DEF Divided
<1> QED BY <1>1, <1>2 DEF BatchInv, Invoked

LEMMA BatchStep == GatherInv /\ BatchInv /\ [RefineNext]_vars => BatchInv'
<1> SUFFICES ASSUME GatherInv, BatchInv, [RefineNext]_vars PROVE BatchInv'
    OBVIOUS
<1> USE DEF textVars
<1>1. CASE ReadDocument
      BY <1>1, BatchRests DEF ReadDocument, End, EnterNext, Gathering, LlmStages
<1>2. CASE EnterStage
  <2>1. ~Gathering /\ stage # "ended" /\ UNCHANGED <<inputVars, source, gatherVars, report>>
        BY <1>2 DEF EnterStage, Gathering
  <2>2. stage' = "ended" \/ stage' = stage
        BY <1>2 DEF EnterStage, End
  <2> QED BY <2>1, <2>2, BatchRests, BatchBegins
<1>3. CASE LeaveStage
  <2>1. ~Gathering /\ stage # "ended" /\ UNCHANGED <<inputVars, source, gatherVars, report>>
        BY <1>3 DEF LeaveStage, Gathering, GatherInv
  <2>2. stage' = "ended" \/ phase' = "enter"
        BY <1>3 DEF LeaveStage, End, EnterNext
  <2> QED BY <2>1, <2>2, BatchRests
<1>4. CASE LlmRequest \/ Cancel
      BY <1>4, BatchRests DEF LlmRequest, Cancel
<1>5. CASE ContextDone
      BY <1>5, BatchRests DEF ContextDone, Gathering, LlmStages
<1>6. CASE BeginBatch \/ LeavePool
  <2>1. UNCHANGED <<inputVars, source, gatherVars>>
        BY <1>6 DEF BeginBatch, LeavePool
  <2>2. \/ stage' = stage /\ report' = report /\ Gathering /\ phase' \in {"work", "refused"}
        \/ stage' = "ended"
        BY <1>6 DEF BeginBatch, LeavePool, End, Gathering
  <2> QED BY <2>1, <2>2, BatchRests
<1>7. CASE CollectBatch
      BY <1>7, BatchCollected
<1>8. CASE ApplyStage
  <2>1. /\ UNCHANGED <<options, input, source, stage>> /\ phase' = "leave"
        /\ batch' = 1 /\ values' = <<>> /\ failed' = {}
        BY <1>8 DEF ApplyStage, inputVars
  <2>2. DOMAIN values' = {}
        BY <2>1
  <2> QED BY <2>1, <2>2 DEF BatchInv, Invoked, Gathering
<1>9. CASE Cleanup \/ CheckQuality
      BY <1>9, BatchRests DEF Cleanup, CheckQuality, Gathering, LlmStages
<1>10. CASE ExportFormat
       BY <1>10, BatchRests DEF ExportFormat, End, Gathering, LlmStages
<1>11. CASE UNCHANGED vars
       BY <1>11, BatchRests DEF vars
<1> QED BY <1>1, <1>2, <1>3, <1>4, <1>5, <1>6, <1>7, <1>8, <1>9, <1>10, <1>11
        DEF RefineNext, RefineStep

-----------------------------------------------------------------------------
(* What became of each cue *)

StageNames == {Order[i] : i \in 1..8}

Behind(s) == Place(stage) > Place(s) \/ (stage = s /\ phase = "leave")

(* A text stage that is still ahead has marked no cue; one that is behind, *)
(* if it runs at all, has marked each cue in one of the two ways.          *)
Unmarked(s) == \A c \in Cue : s \notin updated[c] /\ <<"now", s>> \notin warned[c]
Marked(s)   == \A c \in Cue : (s \in updated[c]) # (<<"now", s>> \in warned[c])

(* What an earlier run has warned of is still there.                       *)
Kept == \A c \in Cue : \A s \in input.warned[c] : <<"before", s>> \in warned[c]

AccountInv ==
  /\ stage \in StageNames \cup {"ended"}
  /\ outcome = "completed" => stage = "ended"
  /\ Kept
  /\ \A s \in TextStages :
       /\ stage # "ended" /\ ~Behind(s) => Unmarked(s)
       /\ stage # "ended" /\ Behind(s) /\ Runs(s) => Marked(s)
       /\ outcome = "completed" /\ Runs(s) => Marked(s)

(* Each stage has its own place.                                           *)
LEMMA Places == \A i \in 1..8 : Place(Order[i]) = i
<1>1. Len(Order) = 8
      BY DEF Order
<1>2. \A i, j \in 1..8 : Order[i] = Order[j] => i = j
      BY DEF Order
<1> QED BY <1>1, <1>2 DEF Place

LEMMA TextPlaces ==
  /\ Place("start") = 1 /\ Place("export") = 8 /\ "start" \in StageNames
  /\ \A s \in StageNames : Place(s) \in 1..8 /\ Order[Place(s)] = s
  /\ TextStages \subseteq StageNames
  /\ \A s \in TextStages : Place(s) \in 2..7
<1>1. /\ Order[1] = "start" /\ Order[3] = "correction" /\ Order[5] = "translation"
      /\ Order[8] = "export"
      BY DEF Order
<1>2. \A s \in StageNames : Place(s) \in 1..8 /\ Order[Place(s)] = s
      BY Places DEF StageNames
<1>3. /\ Place("start") = 1 /\ Place("correction") = 3 /\ Place("translation") = 5
      /\ Place("export") = 8
      BY <1>1, Places
<1> QED BY <1>1, <1>2, <1>3 DEF StageNames, TextStages

(* The next stage comes later, and no stage that runs is passed over.      *)
LEMMA NextStageFollows ==
  ASSUME NEW s \in StageNames, s # "export"
  PROVE  /\ NextStage(s) \in StageNames
         /\ Place(NextStage(s)) > Place(s)
         /\ \A t \in TextStages : Runs(t) /\ Place(t) > Place(s) => Place(NextStage(s)) <= Place(t)
<1> DEFINE later == {i \in (Place(s) + 1)..Len(Order) : Runs(Order[i])}
           least == CHOOSE i \in later : \A j \in later : i <= j
<1>1. Len(Order) = 8 /\ Order[8] = "export" /\ Runs("export")
      BY DEF Order, Runs
<1>2. Place(s) \in 1..7
  <2>1. Place(s) \in 1..8 /\ Order[Place(s)] = s
        BY TextPlaces
  <2> QED BY <1>1, <2>1
<1>3. later \subseteq 2..8 /\ 8 \in later /\ \A i \in later : i > Place(s)
      BY <1>1, <1>2
<1>4. \E i \in later : \A j \in later : i <= j
  <2> HIDE DEF later
  <2> QED BY <1>3
<1>5. least \in later /\ \A j \in later : least <= j
  <2> HIDE DEF later
  <2> QED BY <1>4
<1>6. NextStage(s) = Order[least]
      BY DEF NextStage
<1>7. least \in 1..8 /\ least > Place(s)
  <2> HIDE DEF later, least
  <2> QED BY <1>3, <1>5
<1>8. Place(NextStage(s)) = least /\ NextStage(s) \in StageNames
  <2> HIDE DEF later, least
  <2> QED BY <1>6, <1>7, Places DEF StageNames
<1>9. ASSUME NEW t \in TextStages, Runs(t), Place(t) > Place(s) PROVE least <= Place(t)
  <2>1. Place(t) \in (Place(s) + 1)..Len(Order) /\ Order[Place(t)] = t
        BY <1>1, <1>2, <1>9, TextPlaces
  <2>2. Place(t) \in later
        BY <1>9, <2>1
  <2> HIDE DEF later, least
  <2> QED BY <1>5, <2>2
<1> HIDE DEF later, least
<1> QED BY <1>7, <1>8, <1>9

(* A step that leaves the marks of the text stages alone.                  *)
MarksStay ==
  /\ options' = options /\ input' = input /\ Cue' = Cue
  /\ \A c \in Cue : warned[c] \subseteq warned'[c]
  /\ \A c \in Cue, s \in TextStages :
       /\ s \in updated'[c] <=> s \in updated[c]
       /\ <<"now", s>> \in warned'[c] <=> <<"now", s>> \in warned[c]

LEMMA MarksCarryOver ==
  ASSUME MarksStay, NEW s \in TextStages
  PROVE  /\ Unmarked(s)' <=> Unmarked(s)
         /\ Marked(s)' <=> Marked(s)
         /\ Runs(s)' <=> Runs(s)
<1>1. Runs(s)' <=> Runs(s)
      BY DEF MarksStay, Runs, TextStages
<1>2. ASSUME NEW c \in Cue
      PROVE  /\ s \in updated'[c] <=> s \in updated[c]
             /\ <<"now", s>> \in warned'[c] <=> <<"now", s>> \in warned[c]
      BY DEF MarksStay
<1> QED BY <1>1, <1>2 DEF MarksStay, Unmarked, Marked

(* No warning goes with it.                                                *)
LEMMA KeptStays ==
  ASSUME Kept, input' = input, Cue' = Cue, \A c \in Cue : warned[c] \subseteq warned'[c]
  PROVE  Kept'
  BY DEF Kept

(* Such a step ends the run, or it stays in its stage.                     *)
LEMMA AccountRests ==
  ASSUME AccountInv, MarksStay,
         \/ stage' = "ended" /\ outcome' # "completed"
         \/ stage' = "ended" /\ stage = "export"
         \/ /\ stage' = stage /\ outcome' = outcome
            /\ phase' = phase \/ stage \notin TextStages \/ {phase, phase'} \subseteq {"enter", "work", "refused"}
  PROVE  AccountInv'
<1>1. ASSUME NEW s \in TextStages
      PROVE  /\ Unmarked(s)' <=> Unmarked(s)
             /\ Marked(s)' <=> Marked(s)
             /\ Runs(s)' <=> Runs(s)
      BY MarksCarryOver
<1> Kept'
    BY KeptStays DEF AccountInv, MarksStay
<1>2. CASE stage' = "ended" /\ outcome' # "completed"
      BY <1>2 DEF AccountInv
<1>3. CASE stage' = "ended" /\ stage = "export"
  <2>1. ASSUME NEW s \in TextStages PROVE stage # "ended" /\ Behind(s)
    <3>1. Place(s) \in 2..7 /\ Place("export") = 8
          BY TextPlaces
    <3> QED BY <1>3, <3>1 DEF Behind
  <2> QED BY <1>1, <1>3, <2>1 DEF AccountInv
<1>4. CASE /\ stage' = stage /\ outcome' = outcome
           /\ phase' = phase \/ stage \notin TextStages \/ {phase, phase'} \subseteq {"enter", "work", "refused"}
  <2>1. ASSUME NEW s \in TextStages PROVE Behind(s)' <=> Behind(s)
        BY <1>4, <2>1 DEF Behind
  <2> QED BY <1>1, <1>4, <2>1 DEF AccountInv
<1> QED BY <1>2, <1>3, <1>4

(* The next stage begins when this one is behind; one that runs is behind  *)
(* then only if it was before.                                             *)
LEMMA AccountMoves ==
  ASSUME AccountInv, MarksStay, stage \in StageNames \ {"export"}, outcome' = outcome,
         phase = "leave" \/ stage = "start",
         stage' = NextStage(stage), phase' = "enter"
  PROVE  AccountInv'
<1>1. /\ stage' \in StageNames /\ Place(stage') > Place(stage)
      /\ \A s \in TextStages : Runs(s) /\ Place(s) > Place(stage) => Place(stage') <= Place(s)
      BY NextStageFollows
<1>2. stage # "ended" /\ stage' # "ended"
  <2>1. "ended" \notin StageNames
        BY DEF StageNames, Order
  <2> QED BY <1>1, <2>1
<1>3. /\ Place(stage) \in Int /\ Place(stage') \in Int
      BY <1>1, TextPlaces
<1>4. ASSUME NEW s \in TextStages
      PROVE  /\ ~Behind(s)' => ~Behind(s)
             /\ Behind(s)' /\ Runs(s) => Behind(s)
  <2>1. /\ Place(s) \in Int /\ s # "start"
        /\ Place(s) = Place(stage) => s = stage
        BY TextPlaces DEF TextStages
  <2>2. Behind(s)' <=> Place(stage') > Place(s)
        BY DEF Behind
  <2>3. Behind(s) <=> Place(stage) >= Place(s)
        BY <1>3, <2>1, TextPlaces DEF Behind, TextStages
  <2>4. Behind(s) => Behind(s)'
        BY <1>1, <1>3, <2>1, <2>2, <2>3
  <2>5. Behind(s)' /\ Runs(s) => Behind(s)
        BY <1>1, <1>3, <2>1, <2>2, <2>3
  <2> QED BY <2>4, <2>5
<1>5. ASSUME NEW s \in TextStages
      PROVE  /\ Unmarked(s)' <=> Unmarked(s)
             /\ Marked(s)' <=> Marked(s)
             /\ Runs(s)' <=> Runs(s)
      BY MarksCarryOver
<1>6. Kept'
      BY KeptStays DEF AccountInv, MarksStay
<1> QED BY <1>1, <1>2, <1>4, <1>5, <1>6 DEF AccountInv

(* A stage that is applied marks each cue: it gave it a text or it failed. *)
LEMMA AccountApplied ==
  ASSUME AccountInv, BatchInv, ApplyStage
  PROVE  AccountInv'
<1>1. /\ stage' = stage /\ outcome' = outcome /\ phase = "work" /\ phase' = "leave"
      /\ options' = options /\ input' = input /\ Cue' = Cue
      /\ stage \in LlmStages /\ batch \notin Batches
      /\ \A c \in Cue :
           /\ updated'[c] = IF c \in DOMAIN values THEN updated[c] \cup {stage} ELSE updated[c]
           /\ warned'[c] = IF c \in failed THEN warned[c] \cup {<<"now", stage>>} ELSE warned[c]
      BY DEF ApplyStage, inputVars, Cue
<1>2. stage # "ended" /\ outcome # "completed"
      BY <1>1 DEF AccountInv, LlmStages
<1>3. ASSUME NEW s \in TextStages, s # stage
      PROVE  /\ stage # "ended" /\ ~Behind(s)' => Unmarked(s)'
             /\ stage # "ended" /\ Behind(s)' /\ Runs(s)' => Marked(s)'
  <2>1. /\ Unmarked(s) => Unmarked(s)'
        /\ Marked(s) => Marked(s)'
    <3>1. ASSUME NEW c \in Cue
          PROVE  /\ s \in updated'[c] <=> s \in updated[c]
                 /\ <<"now", s>> \in warned'[c] <=> <<"now", s>> \in warned[c]
      <4>1. <<"now", s>> # <<"now", stage>>
            BY <1>3
      <4> QED BY <1>1, <1>3, <4>1
    <3> QED BY <1>1, <3>1 DEF Unmarked, Marked
  <2>2. (Behind(s)' <=> Behind(s)) /\ (Runs(s)' <=> Runs(s))
        BY <1>1, <1>3 DEF Behind, Runs, TextStages
  <2> QED BY <1>2, <2>1, <2>2 DEF AccountInv
<1>4. ASSUME stage \in TextStages PROVE Behind(stage)' /\ Marked(stage)'
  <2>1. DOMAIN values \cup failed = Cue /\ DOMAIN values \cap failed = {}
        BY <1>1, <1>4, AllSent DEF Gathering
  <2>2. ~Behind(stage)
    <3>1. Place(stage) \in Int
          BY <1>4, TextPlaces
    <3> QED BY <1>1, <3>1 DEF Behind
  <2>3. Unmarked(stage)
        BY <1>2, <1>4, <2>2 DEF AccountInv
  <2>4. \A c \in Cue : (stage \in updated'[c]) # (<<"now", stage>> \in warned'[c])
        BY <1>1, <2>1, <2>3 DEF Unmarked
  <2> QED BY <1>1, <2>4 DEF Behind, Marked
<1>5. ASSUME NEW s \in TextStages
      PROVE  /\ stage # "ended" /\ ~Behind(s)' => Unmarked(s)'
             /\ stage # "ended" /\ Behind(s)' /\ Runs(s)' => Marked(s)'
  <2>1. CASE s # stage
        BY <1>3, <2>1
  <2>2. CASE s = stage
    <3>1. Behind(s)' /\ Marked(s)'
          BY <1>1, <1>4, <2>2 DEF Behind, Marked
    <3> QED BY <3>1
  <2> QED BY <2>1, <2>2
<1>6. Kept'
  <2>1. \A c \in Cue : warned[c] \subseteq warned'[c]
        BY <1>1
  <2> QED BY <1>1, <2>1, KeptStays DEF AccountInv
<1> QED BY <1>1, <1>2, <1>5, <1>6 DEF AccountInv

LEMMA AccountStep == GatherInv /\ BatchInv /\ AccountInv /\ [RefineNext]_vars => AccountInv'
<1> SUFFICES ASSUME GatherInv, BatchInv, AccountInv, [RefineNext]_vars PROVE AccountInv'
    OBVIOUS
<1> USE DEF textVars, inputVars
<1>1. ASSUME UNCHANGED <<options, input, source, updated, warned>> PROVE MarksStay
      BY <1>1 DEF MarksStay, Cue
<1>2. ASSUME EnterNext, MarksStay, stage \in StageNames \ {"export"}, phase = "leave" \/ stage = "start"
      PROVE  AccountInv'
      BY <1>2, AccountRests, AccountMoves DEF EnterNext, End
<1>3. CASE ReadDocument
  <2>1. MarksStay /\ stage \in StageNames \ {"export"}
        BY <1>1, <1>3, TextPlaces DEF ReadDocument
  <2>2. EnterNext \/ (stage' = "ended" /\ outcome' # "completed")
        BY <1>3 DEF ReadDocument, End
  <2> QED BY <1>2, <1>3, <2>1, <2>2, AccountRests DEF ReadDocument
<1>4. CASE EnterStage
  <2>1. MarksStay /\ phase = "enter"
        BY <1>1, <1>4 DEF EnterStage
  <2>2. \/ stage' = "ended" /\ outcome' # "completed"
        \/ stage' = stage /\ outcome' = outcome /\ phase' = "work"
        BY <1>4 DEF EnterStage, End
  <2> QED BY <2>1, <2>2, AccountRests
<1>5. CASE LeaveStage
  <2>1. MarksStay /\ phase = "leave" /\ stage \in StageNames
        BY <1>1, <1>5 DEF LeaveStage, GatherInv, AccountInv
  <2>2. \/ stage' = "ended" /\ outcome' # "completed"
        \/ stage' = "ended" /\ stage = "export"
        \/ stage # "export" /\ EnterNext
        BY <1>5 DEF LeaveStage, End
  <2> QED BY <1>2, <2>1, <2>2, AccountRests
<1>6. CASE LlmRequest \/ Cancel
      BY <1>1, <1>6, AccountRests DEF LlmRequest, Cancel
<1>7. CASE ContextDone
      BY <1>1, <1>7, AccountRests DEF ContextDone, TextStages
<1>8. CASE BeginBatch \/ LeavePool
  <2>1. MarksStay /\ phase \in {"work", "refused"}
        BY <1>1, <1>8 DEF BeginBatch, LeavePool
  <2>2. \/ stage' = "ended" /\ outcome' # "completed"
        \/ stage' = stage /\ outcome' = outcome /\ phase' \in {"work", "refused"}
        BY <1>8 DEF BeginBatch, LeavePool, End
  <2> QED BY <2>1, <2>2, AccountRests
<1>9. CASE CollectBatch
      BY <1>1, <1>9, AccountRests DEF CollectBatch
<1>10. CASE ApplyStage
       BY <1>10, AccountApplied
<1>11. CASE Cleanup
  <2>1. /\ options' = options /\ input' = input /\ Cue' = Cue /\ updated' = updated
        /\ stage' = stage /\ outcome' = outcome /\ stage \notin TextStages
        BY <1>11 DEF Cleanup, Cue, TextStages
  <2>2. PICK blank \in SUBSET Cue :
          warned' = [c \in Cue |->
                       IF c \in blank THEN warned[c] \cup {<<"now", "cleanup">>} ELSE warned[c]]
        BY <1>11 DEF Cleanup
  <2>3. ASSUME NEW c \in Cue
        PROVE  /\ warned[c] \subseteq warned'[c]
               /\ \A s \in TextStages : <<"now", s>> \in warned'[c] <=> <<"now", s>> \in warned[c]
    <3>1. \A s \in TextStages : <<"now", s>> # <<"now", "cleanup">>
          BY DEF TextStages
    <3> QED BY <2>2, <3>1
  <2>4. MarksStay
        BY <2>1, <2>3 DEF MarksStay
  <2> QED BY <2>1, <2>4, AccountRests
<1>12. CASE CheckQuality
       BY <1>1, <1>12, AccountRests DEF CheckQuality, TextStages
<1>13. CASE ExportFormat
  <2>1. MarksStay /\ stage \notin TextStages
        BY <1>1, <1>13 DEF ExportFormat, TextStages
  <2>2. \/ stage' = "ended" /\ outcome' # "completed"
        \/ stage' = stage /\ outcome' = outcome
        BY <1>13 DEF ExportFormat, End
  <2> QED BY <2>1, <2>2, AccountRests
<1>14. CASE UNCHANGED vars
       BY <1>1, <1>14, AccountRests DEF vars
<1> QED BY <1>3, <1>4, <1>5, <1>6, <1>7, <1>8, <1>9, <1>10, <1>11, <1>12, <1>13, <1>14
        DEF RefineNext, RefineStep

(* No cue goes missing between the batches, for any document and options:  *)
(* in what is exported, a stage that was enabled has given each cue its    *)
(* text or left a warning on it that it failed, and never both.            *)
THEOREM AccountedHolds == RefineSpec => []Accounted
<1>1. RefineInit => GatherInv /\ BatchInv /\ AccountInv
  <2> SUFFICES ASSUME RefineInit PROVE GatherInv /\ BatchInv /\ AccountInv
      OBVIOUS
  <2>1. DOMAIN <<>> = {}
        OBVIOUS
  <2>2. GatherInv /\ BatchInv
        BY <2>1 DEF RefineInit, GatherInv, BatchInv, Invoked, Gathering, LlmStages
  <2>3. \A s \in TextStages : ~Behind(s) /\ Unmarked(s)
    <3> SUFFICES ASSUME NEW s \in TextStages PROVE ~Behind(s) /\ Unmarked(s)
        OBVIOUS
    <3>1. Place(s) \in 2..7 /\ Place(stage) = 1 /\ s # "start"
          BY TextPlaces DEF RefineInit, TextStages
    <3>2. ~Behind(s)
          BY <3>1 DEF Behind, RefineInit
    <3>3. ASSUME NEW c \in Cue PROVE s \notin updated[c] /\ <<"now", s>> \notin warned[c]
      <4>1. updated[c] = {} /\ warned[c] = {<<"before", t>> : t \in input.warned[c]}
            BY DEF RefineInit, Cue
      <4>2. \A t : <<"now", s>> # <<"before", t>>
            OBVIOUS
      <4> QED BY <4>1, <4>2
    <3> QED BY <3>2, <3>3 DEF Unmarked
  <2>4. Kept
    <3>1. \A c \in Cue : warned[c] = {<<"before", t>> : t \in input.warned[c]}
          BY DEF RefineInit, Cue
    <3> QED BY <3>1 DEF Kept
  <2> QED BY <2>2, <2>3, <2>4, TextPlaces DEF RefineInit, AccountInv
<1>2. AccountInv => Accounted
  <2>1. {t \in {"correction", "translation"} : Runs(t)} = {t \in TextStages : Runs(t)}
        BY DEF TextStages
  <2> QED BY <2>1 DEF AccountInv, Accounted, Marked, Kept
<1> QED BY <1>1, <1>2, GatherStep, BatchStep, AccountStep, PTL DEF RefineSpec
=============================================================================
