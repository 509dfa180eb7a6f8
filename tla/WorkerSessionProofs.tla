------------------------ MODULE WorkerSessionProofs -------------------------
(***************************************************************************)
(* Proofs about WorkerSession, for any number of Workers, calls, deaths    *)
(* and interrupts.                                                         *)
(***************************************************************************)
EXTENDS WorkerSession, SequenceTheorems, TLAPS

Serving == {"reading", "handling"}

(* A Worker handles a line that is still in its pipe, one that is not      *)
(* launched has empty pipes, and one that has left its loop has no model.  *)
Processes ==
  \A w \in Worker :
    /\ state[w] = "handling" => inbox[w] # <<>>
    /\ w > launched => state[w] = "unborn" /\ inbox[w] = <<>> /\ outbox[w] = <<>>
    /\ state[w] \in {"unborn", "ending", "gone"} => model[w] = "none"

(* What the place of the calling thread says about the session.            *)
Control ==
  /\ process \in {None, launched}
  /\ ~client => process = None
  /\ (call = "none") <=> (pc = "idle")
  /\ pc = "idle" => error = "none" /\ ~waiting
  /\ waiting => pc \in Commands /\ process # None
  /\ pc \in {"launch", "hello", "load"} => call \in {"start", "transcribe"} /\ error = "none"
  /\ pc = "transcribe" => call = "transcribe" /\ error = "none"
  /\ pc \in {"shutdown", "reap", "abandon"} /\ call = "start" => error # "none"
  /\ call = "transcribe" => started
  /\ pc = "launch" => process = None
  /\ pc = "settle" /\ (call = "shutdown" \/ (call = "start" /\ error # "none")) =>
       process = None
  /\ interrupts > 0 => call \in {"none", "shutdown"}

(* All but the Worker launched last have come to their end, whatever was   *)
(* interrupted: this makes OneModel inductive.                             *)
Drained(w) == state[w] \notin Serving /\ model[w] = "none"
Latest == \A w \in Worker : w # launched => Drained(w)

(* While nobody interrupts, a Worker that is not drained is the client's   *)
(* own, and the client lets go of it only when it is drained.              *)
Attended ==
  interrupts = 0 =>
    /\ \A w \in Worker : w # process => Drained(w)
    /\ pc \in {"reap", "abandon"} => \A w \in Worker : Drained(w)
    /\ call = "none" /\ process # None => started

(* At most one line is under way between the client and its Worker, and    *)
(* that one belongs to the command at hand.                                *)
Exchange ==
  interrupts = 0 /\ process # None =>
    /\ outbox[process] # <<>> =>
         /\ waiting /\ Len(outbox[process]) = 1 /\ Head(outbox[process]).of = request
         /\ pc = "shutdown" => Drained(process) /\ Head(outbox[process]).answer = "ok"
    /\ state[process] \in Serving =>
         IF waiting /\ outbox[process] = <<>>
           THEN /\ Len(inbox[process]) = 1
                /\ Head(inbox[process]).of = request
                /\ Head(inbox[process]).command = pc
           ELSE inbox[process] = <<>>

SInv ==
  /\ TypeOK /\ Processes /\ Control /\ Latest /\ Attended /\ Exchange /\ OwnTranscript

-----------------------------------------------------------------------------
(* A pipe that is empty, that is read, and that is written.                *)
LEMMA Pipe ==
  ASSUME NEW S, NEW s \in Seq(S)
  PROVE  /\ Len(s) \in Nat
         /\ (s = <<>>) <=> (Len(s) = 0)
         /\ s # <<>> => Head(s) \in S /\ Tail(s) \in Seq(S) /\ Len(Tail(s)) = Len(s) - 1
         /\ \A x \in S : /\ Append(s, x) \in Seq(S) /\ Append(s, x) # <<>>
                         /\ Len(Append(s, x)) = Len(s) + 1
                         /\ s = <<>> => Head(Append(s, x)) = x
<1>1. Len(s) \in Nat /\ ((s = <<>>) <=> (Len(s) = 0))
  OBVIOUS
<1>2. s # <<>> => Head(s) \in S /\ Tail(s) \in Seq(S) /\ Len(Tail(s)) = Len(s) - 1
  BY <1>1, HeadTailProperties
<1>3. ASSUME NEW x \in S
      PROVE  /\ Append(s, x) \in Seq(S) /\ Append(s, x) # <<>>
             /\ Len(Append(s, x)) = Len(s) + 1
             /\ s = <<>> => Head(Append(s, x)) = x
  BY <1>1
<1> QED BY <1>1, <1>2, <1>3

LEMMA WorkerFacts ==
  /\ Worker \subseteq Nat \ {0}
  /\ None \notin Worker /\ None \notin Request
  /\ \A n \in 0..MaxWorkers : n < MaxWorkers => n + 1 \in Worker
BY BoundsAssumption, NoneAssumption DEF Worker

LEMMA InitInv == SessionInit => SInv
<1> SUFFICES ASSUME SessionInit PROVE SInv
  OBVIOUS
<1> USE BoundsAssumption, WorkerFacts DEF SessionInit
<1>1. TypeOK
  <2>1. device \in Devices
    BY DEF Devices
  <2>2. /\ inbox \in [Worker -> Seq(Lines)] /\ outbox \in [Worker -> Seq(Results)]
        /\ state \in [Worker -> States] /\ model \in [Worker -> Models]
    BY DEF States, Models
  <2>3. /\ call \in Calls /\ pc \in Steps /\ error \in Errors /\ reply \in Replies
        /\ launched \in 0..MaxWorkers
    BY DEF Calls, Steps, Commands, Errors, Replies
  <2> QED BY <2>1, <2>2, <2>3 DEF TypeOK
<1>2. Processes /\ Latest
  BY DEF Processes, Latest, Drained, Serving
<1>3. Control /\ Attended /\ Exchange /\ OwnTranscript
  BY DEF Control, Attended, Drained, Serving, Exchange, OwnTranscript, Commands
<1> QED BY <1>1, <1>2, <1>3 DEF SInv

(* A step that leaves the processes and the pipes alone.                   *)
LEMMA DisksKeep ==
  ASSUME SInv, UNCHANGED <<workerVars, launched>>
  PROVE  /\ Processes' /\ Latest'
         /\ \A w \in Worker : Drained(w)' = Drained(w)
BY DEF SInv, workerVars, Processes, Latest, Drained

LEMMA StutterInv == SInv /\ UNCHANGED sessionVars => SInv'
<1> SUFFICES ASSUME SInv, UNCHANGED sessionVars PROVE SInv'
  OBVIOUS
<1> USE DEF SInv, sessionVars, serviceVars, callVars, replyVars, workerVars, countVars
<1>1. TypeOK'
  BY DEF TypeOK
<1>2. Control' /\ OwnTranscript'
  BY DEF Control, OwnTranscript
<1>3. Processes' /\ Latest' /\ Attended' /\ Exchange'
  BY DEF Processes, Latest, Attended, Exchange, Drained
<1> QED BY <1>1, <1>2, <1>3

-----------------------------------------------------------------------------
(* The service's calls *)

LEMMA StartInv ==
  ASSUME SInv, Start, interrupts = 0, calls' \in Nat,
         UNCHANGED <<launched, deaths, interrupts>>
  PROVE  SInv'
<1> USE DEF SInv, Start, Refuse, Enter, serviceVars, callVars, workerVars
<1>1. TypeOK'
  BY WorkerFacts DEF TypeOK, Calls, Steps, Commands, Errors, Replies
<1>2. Control' /\ OwnTranscript'
  BY DEF Control, Commands, OwnTranscript
<1>3. Processes' /\ Latest'
  BY DisksKeep
<1>4. Attended'
  BY DisksKeep DEF Attended, Control
<1>5. Exchange'
  BY DEF Exchange, Control, Drained
<1> QED BY <1>1, <1>2, <1>3, <1>4, <1>5

LEMMA TranscribeInv ==
  ASSUME SInv, NEW r \in Request, Transcribe(r), interrupts = 0, calls' \in Nat,
         UNCHANGED <<launched, deaths, interrupts>>
  PROVE  SInv'
<1> USE DEF SInv, Transcribe, Refuse, Enter, serviceVars, callVars, workerVars
<1>1. TypeOK'
  BY WorkerFacts DEF TypeOK, Calls, Steps, Commands, Errors, Replies
<1>2. Control' /\ OwnTranscript'
  BY DEF Control, Commands, OwnTranscript
<1>3. Processes' /\ Latest'
  BY DisksKeep
<1>4. Attended'
  BY DisksKeep DEF Attended, Control
<1>5. Exchange'
  BY DEF Exchange, Control, Drained
<1> QED BY <1>1, <1>2, <1>3, <1>4, <1>5

LEMMA ShutdownInv ==
  ASSUME SInv, Shutdown, calls' \in Nat, UNCHANGED <<launched, deaths, interrupts>>
  PROVE  SInv'
<1> USE DEF SInv, Shutdown, Enter, serviceVars, callVars, workerVars
<1>1. TypeOK'
  BY WorkerFacts DEF TypeOK, Calls, Steps, Commands, Errors, Replies
<1>2. Control' /\ OwnTranscript'
  BY DEF Control, Commands, OwnTranscript
<1>3. Processes' /\ Latest'
  BY DisksKeep
<1>4. Attended'
  BY DisksKeep DEF Attended, Control
<1>5. Exchange'
  BY DEF Exchange, Control, Drained
<1> QED BY <1>1, <1>2, <1>3, <1>4, <1>5

-----------------------------------------------------------------------------
(* The client *)

LEMMA LaunchInv == SInv /\ Launch => SInv'
<1> SUFFICES ASSUME SInv, Launch PROVE SInv'
  OBVIOUS
<1> USE WorkerFacts DEF SInv, Launch, replyVars
<1>0. /\ launched \in 0..MaxWorkers /\ launched + 1 \in Worker
      /\ interrupts = 0 /\ process = None /\ pc' = "hello" /\ interrupts' = 0
      /\ state \in [Worker -> States] /\ interrupts \in Nat
  BY DEF TypeOK, Control, After
<1>1. TypeOK'
  BY <1>0, BoundsAssumption DEF TypeOK, Steps, Commands, States
<1>2. Control' /\ OwnTranscript'
  BY <1>0 DEF Control, Commands, OwnTranscript
<1>3. \A w \in Worker : Drained(w)
  BY <1>0 DEF Attended
<1>4. \A w \in Worker : w # launched + 1 => Drained(w)'
  BY <1>0, <1>3 DEF Drained
<1>5. Processes'
  BY <1>0 DEF Processes
<1>6. Latest' /\ Attended'
  BY <1>0, <1>4 DEF Latest, Attended, Control
<1>7. Exchange'
  <2>1. ~waiting' /\ inbox'[launched + 1] = <<>> /\ outbox'[launched + 1] = <<>>
    BY <1>0 DEF Control, Processes, Commands
  <2> QED BY <2>1 DEF Exchange
<1> QED BY <1>1, <1>2, <1>5, <1>6, <1>7

LEMMA LaunchFailsInv == SInv /\ LaunchFails => SInv'
<1> SUFFICES ASSUME SInv, LaunchFails PROVE SInv'
  OBVIOUS
<1> USE DEF SInv, LaunchFails, replyVars, countVars
<1>1. TypeOK'
  BY DEF TypeOK, workerVars, Errors, Steps
<1>2. Control' /\ OwnTranscript'
  BY DEF Control, Commands, OwnTranscript
<1>3. Processes' /\ Latest'
  BY DisksKeep
<1>4. Attended'
  BY DisksKeep DEF Attended, Control
<1>5. Exchange'
  BY DEF Exchange, Control, Drained, workerVars
<1> QED BY <1>1, <1>2, <1>3, <1>4, <1>5

(* What Raise does to the control of the session.                          *)
LEMMA RaiseControl ==
  ASSUME SInv, NEW kind \in {"unavailable", "error", "cuda"}, Raise(kind),
         waiting' = FALSE, UNCHANGED <<replyVars, state, model, countVars>>,
         inbox' \in [Worker -> Seq(Lines)], outbox' \in [Worker -> Seq(Results)]
  PROVE  /\ TypeOK' /\ Control' /\ OwnTranscript'
         /\ pc' \in {"shutdown", "settle", "reap"}
         /\ pc' = "reap" => pc = "shutdown"
<1> USE DEF SInv, Raise, replyVars, countVars, After, AfterFailedStart, FallbackFrom
<1>1. TypeOK'
  <2>1. pc' \in Steps /\ error' \in Errors /\ fallbackUsed' \in BOOLEAN /\ device' \in Devices
    BY DEF TypeOK, Steps, Commands, Devices, Errors
  <2> QED BY <2>1 DEF TypeOK
<1>2. Control'
  BY DEF Control, Commands, TypeOK
<1>3. OwnTranscript'
  BY DEF OwnTranscript
<1> QED BY <1>1, <1>2, <1>3

LEMMA SendInv == SInv /\ Send => SInv'
<1> SUFFICES ASSUME SInv, Send PROVE SInv'
  OBVIOUS
<1> USE DEF SInv, Send, replyVars
<1>1. CASE Exited
  <2>1. Raise("unavailable") /\ ~waiting /\ waiting' = waiting /\ inbox' = inbox
    BY <1>1
  <2>2. TypeOK' /\ Control' /\ OwnTranscript' /\ (pc' = "reap" => pc = "shutdown")
    BY <2>1, RaiseControl DEF TypeOK
  <2>3. Processes' /\ Latest' /\ \A w \in Worker : Drained(w)' = Drained(w)
    BY <2>1, DisksKeep DEF workerVars, countVars
  <2>4. process = None \/ Drained(process)
    BY <1>1 DEF Exited, Processes, Drained, Serving, TypeOK
  <2>5. Attended'
    <3>1. interrupts' = interrupts /\ process' = process /\ call' = call /\ started' = started
      BY <2>1 DEF Raise, countVars
    <3>2. pc' = "abandon" => pc = "abandon"
      BY <2>1 DEF Raise, After, AfterFailedStart, FallbackFrom
    <3>3. pc \notin {"abandon", "reap"}
      BY DEF Commands
    <3>4. interrupts = 0 => \A w \in Worker : Drained(w)
      BY <2>4, WorkerFacts DEF Attended
    <3> QED BY <2>3, <3>1, <3>2, <3>3, <3>4 DEF Attended
  <2>6. Exchange'
    BY <1>1, <2>1, <2>2 DEF Exchange, Raise, countVars, Exited, Serving
  <2> QED BY <2>2, <2>3, <2>5, <2>6
<1>2. CASE ~Exited
  <2> DEFINE line == [command |-> pc, of |-> request, device |-> device]
  <2>1. /\ process \in Worker /\ line \in Lines
        /\ inbox[process] \in Seq(Lines)
        /\ inbox' = [inbox EXCEPT ![process] = Append(@, line)]
        /\ waiting' = TRUE /\ UNCHANGED <<serviceVars, call, request, pc, error>>
    BY <1>2 DEF Exited, TypeOK, Lines
  <2>2. TypeOK'
    BY <2>1, Pipe DEF TypeOK, serviceVars, countVars
  <2>3. Control' /\ OwnTranscript'
    BY <1>2, <2>1 DEF Control, OwnTranscript, serviceVars, countVars, Exited, Commands
  <2>4. \A w \in Worker : Drained(w)' = Drained(w)
    BY DEF Drained
  <2>5. Processes'
    <3>1. launched >= process
      BY <2>1, WorkerFacts DEF Control
    <3>2. \A w \in Worker : w # process => inbox'[w] = inbox[w]
      BY <2>1 DEF TypeOK
    <3>3. inbox'[process] # <<>>
      BY <2>1, Pipe DEF TypeOK
    <3> QED BY <2>1, <3>1, <3>2, <3>3, WorkerFacts DEF Processes, countVars, TypeOK
  <2>6. Latest' /\ Attended'
    BY <2>1, <2>4 DEF Latest, Attended, serviceVars, countVars
  <2>7. Exchange'
    <3>1. interrupts = 0 => outbox[process] = <<>>
      BY <1>2, <2>1, WorkerFacts DEF Exchange
    <3>2. interrupts = 0 /\ state[process] \in Serving => inbox[process] = <<>>
      BY <1>2, <2>1, WorkerFacts DEF Exchange
    <3>3. interrupts = 0 /\ state[process] \in Serving =>
            Len(inbox'[process]) = 1 /\ Head(inbox'[process]) = line
      BY <2>1, <3>2, Pipe DEF TypeOK
    <3> QED BY <2>1, <3>1, <3>3 DEF Exchange, serviceVars, countVars
  <2> QED BY <2>2, <2>3, <2>5, <2>6, <2>7
<1> QED BY <1>1, <1>2

LEMMA ReceiveInv == SInv /\ Receive => SInv'
<1> SUFFICES ASSUME SInv, Receive PROVE SInv'
  OBVIOUS
<1> USE DEF SInv
<1> DEFINE line == Head(outbox[process])
<1>1. /\ process \in Worker /\ waiting /\ pc \in Commands /\ outbox[process] # <<>>
      /\ outbox[process] \in Seq(Results)
      /\ waiting' = FALSE /\ UNCHANGED <<reply, state, model, inbox, countVars>>
      /\ outbox' = [outbox EXCEPT ![process] = Tail(@)]
  BY DEF Receive, Control, TypeOK
<1>2. /\ line \in Results /\ Tail(outbox[process]) \in Seq(Results)
      /\ outbox' \in [Worker -> Seq(Results)] /\ inbox' \in [Worker -> Seq(Lines)]
      /\ Len(Tail(outbox[process])) = Len(outbox[process]) - 1
  BY <1>1, Pipe DEF TypeOK
<1>3. interrupts = 0 =>
        /\ outbox'[process] = <<>> /\ line.of = request
        /\ pc = "shutdown" => Drained(process)
        /\ state[process] \in Serving => inbox[process] = <<>>
  <2> SUFFICES ASSUME interrupts = 0
               PROVE  /\ outbox'[process] = <<>> /\ line.of = request
                      /\ pc = "shutdown" => Drained(process)
                      /\ state[process] \in Serving => inbox[process] = <<>>
    OBVIOUS
  <2>1. Len(outbox[process]) = 1 /\ line.of = request
    BY <1>1, WorkerFacts DEF Exchange
  <2>2. outbox'[process] = Tail(outbox[process])
    BY <1>1 DEF TypeOK
  <2>3. outbox'[process] = <<>>
    <3>1. Len(Tail(outbox[process])) = 0
      BY <1>2, <2>1
    <3>2. Tail(outbox[process]) = <<>>
      BY <1>2, <3>1, Pipe
    <3> QED BY <2>2, <3>2
  <2> QED BY <1>1, <2>1, <2>3, WorkerFacts DEF Exchange
<1>4. \A w \in Worker : Drained(w)' = Drained(w)
  BY <1>1 DEF Drained
<1>5. Processes'
  <2>1. \A w \in Worker : w # process => outbox'[w] = outbox[w]
    BY <1>1 DEF TypeOK
  <2>2. ~(process > launched)
    BY <1>1, WorkerFacts DEF Control
  <2> QED BY <1>1, <2>1, <2>2 DEF Processes, countVars
<1>6. Latest'
  BY <1>1, <1>4 DEF Latest, countVars
<1>7. ASSUME pc' \in {"reap", "abandon"} => pc = "shutdown",
             UNCHANGED <<process, call, started, request>>
      PROVE  Attended' /\ Exchange'
  <2>1. interrupts = 0 /\ pc = "shutdown" => \A w \in Worker : Drained(w)
    BY <1>3 DEF Attended
  <2>2. Attended'
    BY <1>1, <1>4, <1>7, <2>1 DEF Attended, countVars
  <2>3. Exchange'
    BY <1>1, <1>3, <1>7 DEF Exchange, countVars
  <2> QED BY <2>2, <2>3
<1>8. CASE line.answer = "ok"
  <2>1. /\ pc' = After(pc) /\ UNCHANGED <<serviceVars, call, request, error>>
        /\ transcript' = IF pc = "transcribe" THEN line.of ELSE transcript
    BY <1>8 DEF Receive
  <2>2. pc' \in Steps /\ (pc' \in {"reap", "abandon"} => pc = "shutdown")
    BY <1>1, <2>1 DEF After, Commands, Steps
  <2>3. TypeOK'
    BY <1>1, <1>2, <2>1, <2>2 DEF TypeOK, serviceVars, countVars, Results
  <2>4. Control'
    BY <1>1, <2>1 DEF Control, serviceVars, countVars, After, Commands
  <2>5. OwnTranscript'
    <3>1. pc' = "settle" /\ call' = "transcribe" => pc = "transcribe"
      BY <1>1, <2>1 DEF After, Commands, Control
    <3>2. call = "transcribe" => interrupts = 0
      BY DEF Control, TypeOK
    <3> QED BY <1>3, <2>1, <3>1, <3>2 DEF OwnTranscript
  <2> QED BY <1>5, <1>6, <1>7, <2>1, <2>2, <2>3, <2>4, <2>5 DEF serviceVars
<1>9. CASE line.answer # "ok"
  <2>1. Raise(line.answer) /\ transcript' = transcript
    BY <1>9 DEF Receive
  <2>2. line.answer \in {"unavailable", "error", "cuda"}
    BY <1>2, <1>9 DEF Results, Answers
  <2>3. TypeOK' /\ Control' /\ OwnTranscript' /\ pc' # "abandon"
          /\ (pc' = "reap" => pc = "shutdown")
    BY <1>1, <1>2, <2>1, <2>2, RaiseControl DEF replyVars
  <2>4. UNCHANGED <<process, call, started, request>>
    BY <2>1 DEF Raise
  <2> QED BY <1>5, <1>6, <1>7, <2>3, <2>4
<1> QED BY <1>8, <1>9

LEMMA EndOfFileInv == SInv /\ EndOfFile => SInv'
<1> SUFFICES ASSUME SInv, EndOfFile PROVE SInv'
  OBVIOUS
<1> USE DEF SInv, EndOfFile
<1>1. PICK kind \in {"error", "cuda"} : Raise(kind)
  OBVIOUS
<1>2. TypeOK' /\ Control' /\ OwnTranscript' /\ pc' # "abandon" /\ (pc' = "reap" => pc = "shutdown")
  BY <1>1, RaiseControl DEF TypeOK, workerVars
<1>3. Processes' /\ Latest' /\ \A w \in Worker : Drained(w)' = Drained(w)
  BY DisksKeep DEF countVars
<1>4. /\ UNCHANGED <<process, call, started, request, interrupts, workerVars>>
      /\ process \in Worker
  BY <1>1 DEF Raise, countVars, Control, TypeOK
<1>5. Drained(process)
  BY <1>4 DEF Processes, Drained, Serving
<1>6. Attended'
  BY <1>2, <1>3, <1>4, <1>5 DEF Attended
<1>7. Exchange'
  BY <1>4 DEF Exchange, Serving, workerVars
<1> QED BY <1>2, <1>3, <1>6, <1>7

(* The client lets go of a Worker that is drained.                         *)
LEMMA ReleasedInv ==
  ASSUME SInv, Released, pc \in {"reap", "abandon"}, Processes', Latest',
         \A w \in Worker : Drained(w) => Drained(w)',
         state' \in [Worker -> States],
         UNCHANGED <<provider, started, fallbackUsed, device, call, request, waiting, error,
                     replyVars, model, inbox, outbox, countVars>>
  PROVE  SInv'
<1> USE DEF SInv, Released, replyVars, countVars
<1>1. TypeOK'
  BY DEF TypeOK, Steps, Commands
<1>2. Control'
  BY DEF Control, Commands, TypeOK, Calls
<1>3. OwnTranscript'
  BY DEF OwnTranscript
<1>4. Attended'
  BY DEF Attended
<1>5. Exchange'
  BY DEF Exchange
<1> QED BY <1>1, <1>2, <1>3, <1>4, <1>5

LEMMA ReapInv == SInv /\ Reap => SInv'
<1> SUFFICES ASSUME SInv, Reap PROVE SInv'
  OBVIOUS
<1> USE DEF SInv, Reap, replyVars, countVars
<1>1. CASE Exited
  <2>1. Processes' /\ Latest' /\ \A w \in Worker : Drained(w)' = Drained(w)
    BY <1>1, DisksKeep DEF workerVars
  <2> QED BY <1>1, <2>1, ReleasedInv DEF TypeOK
<1>2. CASE ~Exited
  <2>1. /\ process \in Worker /\ pc' = "abandon" /\ UNCHANGED <<client, process>>
        /\ state' = [state EXCEPT ![process] = "terminated"]
        /\ state' \in [Worker -> States]
    BY <1>2 DEF Exited, TypeOK, States
  <2>2. \A w \in Worker : Drained(w) => Drained(w)'
    BY <2>1 DEF Drained, Serving, TypeOK
  <2>3. TypeOK'
    BY <2>1 DEF TypeOK, Steps
  <2>4. Control' /\ OwnTranscript'
    BY <2>1 DEF Control, OwnTranscript, Commands
  <2>5. Processes'
    <3>1. ~(process > launched)
      BY <1>2, <2>1, WorkerFacts DEF Control
    <3> QED BY <2>1, <3>1 DEF Processes, TypeOK
  <2>6. Latest' /\ Attended'
    BY <2>1, <2>2 DEF Latest, Attended
  <2>7. Exchange'
    BY <2>1 DEF Exchange, Serving, TypeOK, Control, Commands
  <2> QED BY <2>3, <2>4, <2>5, <2>6, <2>7
<1> QED BY <1>1, <1>2

LEMMA AbandonInv == SInv /\ Abandon => SInv'
<1> SUFFICES ASSUME SInv, Abandon PROVE SInv'
  OBVIOUS
<1>1. Processes' /\ Latest' /\ \A w \in Worker : Drained(w)' = Drained(w)
  BY DisksKeep DEF Abandon, countVars
<1> QED BY <1>1, ReleasedInv DEF Abandon, SInv, TypeOK, workerVars

LEMMA CapabilityMissingInv == SInv /\ CapabilityMissing => SInv'
<1> SUFFICES ASSUME SInv, CapabilityMissing PROVE SInv'
  OBVIOUS
<1> USE DEF SInv, CapabilityMissing, serviceVars, replyVars, countVars
<1>1. TypeOK'
  BY DEF TypeOK, workerVars, Errors, Steps, Commands
<1>2. Control' /\ OwnTranscript'
  BY DEF Control, Commands, OwnTranscript
<1>3. Processes' /\ Latest' /\ \A w \in Worker : Drained(w)' = Drained(w)
  BY DisksKeep
<1>4. Attended'
  BY <1>3 DEF Attended
<1>5. Exchange'
  BY DEF Exchange, workerVars, Control, Commands
<1> QED BY <1>1, <1>2, <1>3, <1>4, <1>5

LEMMA SettleInv == SInv /\ Settle => SInv'
<1> SUFFICES ASSUME SInv, Settle PROVE SInv'
  OBVIOUS
<1> USE DEF SInv, Settle, StartedAfter, countVars
<1>1. TypeOK'
  BY DEF TypeOK, workerVars, Calls, Errors, Steps, Replies
<1>2. Control' /\ OwnTranscript'
  BY DEF Control, Commands, OwnTranscript
<1>3. Processes' /\ Latest' /\ \A w \in Worker : Drained(w)' = Drained(w)
  BY DisksKeep
<1>4. Attended'
  BY <1>3 DEF Attended, Control, TypeOK, Calls
<1>5. Exchange'
  BY DEF Exchange, workerVars, Control, Commands
<1> QED BY <1>1, <1>2, <1>3, <1>4, <1>5

(* An interrupt: from now on the session is only shut down.                *)
LEMMA InterruptInv == SInv /\ Interrupt => SInv'
<1> SUFFICES ASSUME SInv, Interrupt PROVE SInv'
  OBVIOUS
<1> USE DEF SInv, Interrupt
<1>0. interrupts' \in Nat /\ interrupts' # 0
  BY DEF TypeOK
<1>1. TypeOK'
  BY <1>0 DEF TypeOK, workerVars, Calls, Errors, Steps, Replies
<1>2. Control' /\ OwnTranscript'
  BY <1>0 DEF Control, Commands, OwnTranscript
<1>3. Processes' /\ Latest'
  BY DisksKeep
<1>4. Attended' /\ Exchange'
  BY <1>0 DEF Attended, Exchange
<1> QED BY <1>1, <1>2, <1>3, <1>4

-----------------------------------------------------------------------------
(* The Worker *)

(* The Worker takes a line: it stays in the pipe until it is answered.     *)
LEMMA TakeInv == ASSUME SInv, NEW w \in Worker, Take(w) PROVE SInv'
<1> USE DEF SInv, Take, clientVars, serviceVars, callVars, replyVars, countVars
<1>0. /\ state' = [state EXCEPT ![w] = "handling"]
      /\ state \in [Worker -> States] /\ state' \in [Worker -> States]
      /\ ~(w > launched)
  BY WorkerFacts DEF TypeOK, States, Processes
<1>1. TypeOK'
  BY <1>0 DEF TypeOK
<1>2. Control' /\ OwnTranscript'
  BY DEF Control, OwnTranscript
<1>3. Processes'
  BY <1>0 DEF Processes
<1>4. \A v \in Worker : Drained(v)' = Drained(v)
  BY <1>0 DEF Drained, Serving
<1>5. Latest' /\ Attended'
  BY <1>4 DEF Latest, Attended
<1>6. Exchange'
  <2>1. process # None => process \in Worker
    BY DEF TypeOK
  <2>2. process # None => (state'[process] \in Serving <=> state[process] \in Serving)
    BY <1>0, <2>1 DEF Serving
  <2> QED BY <1>4, <2>1, <2>2 DEF Exchange
<1> QED BY <1>1, <1>2, <1>3, <1>5, <1>6

(* What a Worker may answer.                                               *)
LEMMA OutcomesOK ==
  ASSUME NEW line \in Lines, NEW loaded \in Models, NEW o \in Outcomes(line, loaded)
  PROVE  /\ o[1] \in Answers /\ o[2] \in Models /\ o[3] \in {"reading", "ending"}
         /\ o[3] = "ending" => o[2] = "none"
         /\ line.command = "shutdown" => o[1] = "ok" /\ o[3] = "ending"
<1> USE DEF Answers, Models
<1>1. line.command \in Commands /\ line.device \in Devices
  BY DEF Lines
<1>2. CASE line.command = "hello"
  BY <1>2 DEF Outcomes, HelloOutcomes
<1>3. CASE line.command = "load"
  BY <1>1, <1>3 DEF Outcomes, LoadOutcomes, LoadedOn, Devices
<1>4. CASE line.command = "transcribe"
  BY <1>4 DEF Outcomes, TranscribeOutcomes
<1>5. CASE line.command = "shutdown"
  BY <1>5 DEF Outcomes
<1> QED BY <1>1, <1>2, <1>3, <1>4, <1>5 DEF Commands

LEMMA AnswerInv == ASSUME SInv, NEW w \in Worker, Answer(w) PROVE SInv'
<1> USE DEF SInv
<1> DEFINE line == Head(inbox[w])
<1>1. PICK o \in Outcomes(line, model[w]) :
        /\ Write(w, o[1])
        /\ model' = [model EXCEPT ![w] = o[2]]
        /\ state' = [state EXCEPT ![w] = o[3]]
  BY DEF Answer
<1>2. /\ state[w] = "handling" /\ inbox[w] # <<>>
      /\ inbox[w] \in Seq(Lines) /\ outbox[w] \in Seq(Results)
      /\ UNCHANGED <<clientVars, countVars>>
      /\ model[w] \in Models /\ w = launched
  BY DEF Answer, Processes, TypeOK, Latest, Drained, Serving
<1>3. /\ line \in Lines /\ Tail(inbox[w]) \in Seq(Lines)
      /\ Len(Tail(inbox[w])) = Len(inbox[w]) - 1
  BY <1>2, Pipe
<1>4. /\ o[1] \in Answers /\ o[2] \in Models /\ o[3] \in {"reading", "ending"}
      /\ o[3] = "ending" => o[2] = "none"
      /\ line.command = "shutdown" => o[1] = "ok" /\ o[3] = "ending"
  BY <1>1, <1>2, <1>3, OutcomesOK
<1> DEFINE result == [answer |-> o[1], of |-> line.of]
<1>5. /\ result \in Results
      /\ inbox' = [inbox EXCEPT ![w] = Tail(@)]
      /\ outbox' = [outbox EXCEPT ![w] = Append(@, result)]
      /\ Append(outbox[w], result) \in Seq(Results)
  <2>1. result \in Results
    BY <1>3, <1>4 DEF Results, Lines
  <2> QED BY <1>1, <1>2, <2>1, Pipe DEF Write
<1>6. TypeOK'
  <2>1. inbox' \in [Worker -> Seq(Lines)] /\ outbox' \in [Worker -> Seq(Results)]
    BY <1>3, <1>5 DEF TypeOK
  <2>2. state' \in [Worker -> States] /\ model' \in [Worker -> Models]
    BY <1>1, <1>4 DEF TypeOK, States
  <2> QED BY <1>2, <2>1, <2>2 DEF TypeOK, clientVars, serviceVars, callVars, replyVars, countVars
<1>7. Control' /\ OwnTranscript'
  BY <1>2 DEF Control, OwnTranscript, clientVars, serviceVars, callVars, replyVars, countVars
<1>8. Processes'
  BY <1>1, <1>2, <1>4, <1>5, WorkerFacts DEF Processes, TypeOK, countVars
<1>9. \A v \in Worker : v # w => Drained(v)' = Drained(v)
  BY <1>1 DEF Drained, TypeOK
<1>10. Latest'
  BY <1>2, <1>9 DEF Latest, countVars
<1>11. Attended'
  <2>1. interrupts = 0 => process = w /\ pc \notin {"reap", "abandon"}
    BY <1>2 DEF Attended, Drained, Serving
  <2> QED BY <1>2, <1>9, <2>1 DEF Attended, clientVars, serviceVars, callVars, countVars
<1>12. Exchange'
  <2> SUFFICES ASSUME interrupts = 0, process # None
               PROVE  Exchange'
    BY <1>2 DEF Exchange, clientVars, serviceVars, countVars
  <2>1. process = w
    BY <1>2 DEF Attended, Drained, Serving
  <2>2. waiting /\ outbox[w] = <<>> /\ Len(inbox[w]) = 1 /\ line.of = request /\ line.command = pc
    BY <1>2, <2>1 DEF Exchange, Serving
  <2>3. /\ Len(outbox'[w]) = 1 /\ Head(outbox'[w]) = result /\ outbox'[w] # <<>>
    <3>1. outbox'[w] = Append(outbox[w], result)
      BY <1>5 DEF TypeOK
    <3>2. outbox'[w] = <<result>>
      BY <2>2, <3>1
    <3> QED BY <3>2
  <2>4. inbox'[w] = <<>>
    <3>1. inbox'[w] = Tail(inbox[w])
      BY <1>5 DEF TypeOK
    <3>2. Len(Tail(inbox[w])) = 0
      BY <1>3, <2>2
    <3> QED BY <1>3, <3>1, <3>2, Pipe
  <2>5. pc = "shutdown" => Drained(w)'
    BY <1>1, <1>4, <2>2 DEF Drained, Serving, TypeOK
  <2> QED BY <1>2, <1>4, <2>1, <2>2, <2>3, <2>4, <2>5
          DEF Exchange, clientVars, serviceVars, callVars, countVars
<1> QED BY <1>6, <1>7, <1>8, <1>10, <1>11, <1>12

(* A Worker that ends drops its model, and what it has written stays.      *)
LEMMA EndInv ==
  ASSUME SInv, NEW w \in Worker, deaths' \in Nat,
         state[w] # "unborn",
         state' = [state EXCEPT ![w] = "gone"], model' = [model EXCEPT ![w] = "none"],
         UNCHANGED <<clientVars, inbox, outbox, launched, calls, interrupts>>
  PROVE  SInv'
<1> USE DEF SInv, clientVars, serviceVars, callVars, replyVars
<1>1. TypeOK'
  <2>1. state' \in [Worker -> States] /\ model' \in [Worker -> Models]
    BY DEF TypeOK, States, Models
  <2> QED BY <2>1 DEF TypeOK
<1>2. Control' /\ OwnTranscript'
  BY DEF Control, OwnTranscript
<1>3. Processes'
  BY DEF Processes, TypeOK
<1>4. \A v \in Worker : Drained(v) => Drained(v)'
  BY DEF Drained, Serving, TypeOK
<1>5. Latest' /\ Attended'
  BY <1>4 DEF Latest, Attended
<1>6. Exchange'
  <2>1. process # None => process \in Worker
    BY DEF TypeOK
  <2>2. process # None /\ state'[process] \in Serving => state[process] \in Serving
    BY <2>1 DEF Serving, TypeOK
  <2> QED BY <1>4, <2>1, <2>2 DEF Exchange
<1> QED BY <1>1, <1>2, <1>3, <1>5, <1>6

LEMMA ExitInv == ASSUME SInv, NEW w \in Worker, Exit(w) PROVE SInv'
BY EndInv DEF Exit, SInv, TypeOK, countVars

LEMMA DieInv == ASSUME SInv, NEW w \in Worker, Die(w) PROVE SInv'
<1>1. deaths' \in Nat
  BY DEF Die, SInv, TypeOK
<1> QED BY <1>1, EndInv DEF Die

-----------------------------------------------------------------------------
(* The session *)

LEMMA ClientInv == SInv /\ ClientStep => SInv'
BY LaunchInv, LaunchFailsInv, SendInv, ReceiveInv, EndOfFileInv, ReapInv, AbandonInv,
   CapabilityMissingInv, SettleInv DEF ClientStep

LEMMA WorkerInv == ASSUME SInv, NEW w \in Worker, WorkerStep(w) \/ Die(w) PROVE SInv'
BY TakeInv, AnswerInv, ExitInv, DieInv DEF WorkerStep

LEMMA CallInv == SInv /\ Call => SInv'
<1> SUFFICES ASSUME SInv, Call PROVE SInv'
  OBVIOUS
<1>1. calls' \in Nat /\ UNCHANGED <<launched, deaths, interrupts>>
  BY DEF Call, SInv, TypeOK
<1> QED BY <1>1, StartInv, TranscribeInv, ShutdownInv DEF Call

LEMMA NextInv == SInv /\ [SessionNext]_sessionVars => SInv'
BY CallInv, ClientInv, InterruptInv, WorkerInv, StutterInv DEF SessionNext

LEMMA SInvHolds == SessionSpec => []SInv
BY InitInv, NextInv, PTL DEF SessionSpec

(* Every variable of a session keeps its type: no line of another kind     *)
(* gets into a pipe, whatever dies or is interrupted.                      *)
THEOREM TypeCorrect == SessionSpec => []TypeOK
<1>1. SInv => TypeOK
  BY DEF SInv
<1> QED BY <1>1, SInvHolds, PTL

(* For any number of Workers, deaths and interrupts, transcribe returns    *)
(* the transcript of its own request, although lines carry no identifier.  *)
THEOREM OwnTranscriptHolds == SessionSpec => []OwnTranscript
<1>1. SInv => OwnTranscript
  BY DEF SInv
<1> QED BY <1>1, SInvHolds, PTL

(* No two Workers ever hold a model, the CPU fallback and a start after a  *)
(* failed one included.                                                    *)
THEOREM OneModelHolds == SessionSpec => []OneModel
<1>1. SInv => OneModel
  BY DEF SInv, Latest, Drained, OneModel
<1> QED BY <1>1, SInvHolds, PTL

(* A Worker that serves requests is always the one the client would shut   *)
(* down, unless the user interrupted the calling thread.                   *)
THEOREM NoStrayWorkerHolds == SessionSpec => []NoStrayWorker
<1>1. ASSUME SInv, interrupts = 0, NEW w \in Worker, state[w] \in Serving
      PROVE  process = w /\ (call # "none" \/ started)
  <2>1. process = w
    BY <1>1 DEF SInv, Attended, Drained
  <2>2. process # None
    BY <2>1, WorkerFacts
  <2>3. call = "none" => started
    BY <1>1, <2>2 DEF SInv, Attended
  <2> QED BY <2>1, <2>3
<1>2. SInv => NoStrayWorker
  BY <1>1 DEF Serving, NoStrayWorker
<1> QED BY <1>2, SInvHolds, PTL
=============================================================================
