--------------------------- MODULE WorkerSession ----------------------------
(***************************************************************************)
(* WorkerSession: one ASR provider session, from the transcription service *)
(* (transcription/service.py, providers/) over the provider client and the *)
(* NDJSON client to the Worker process (workers/).                         *)
(*                                                                         *)
(* The service offers start, transcribe and shutdown.  A call runs in one  *)
(* thread and blocks; it launches Worker processes, writes one line per    *)
(* request to a Worker's stdin and reads one line back.  Lines carry no    *)
(* identifier.  A Worker can die at any moment, and what it has written    *)
(* stays readable.  When CUDA fails, transcribe of Faster Whisper replaces *)
(* the Worker by one on the CPU and asks again, once.                      *)
(***************************************************************************)
EXTENDS Naturals, Sequences, FiniteSets

CONSTANTS
  Provider,       \* the providers to consider
  Request,        \* what transcribe is called with
  None,           \* no request, no Worker
  MaxWorkers,     \* Worker processes ever launched (a bound)
  MaxCalls,       \* calls of the service (a bound)
  MaxDeaths,      \* Workers that die on their own (a bound)
  MaxInterrupts   \* KeyboardInterrupts (a bound)

Faster    == "faster-whisper"
Nemo      == "nemo-asr"
Qwen      == "qwen3-asr"
Unaligned == "qwen3-asr without its forced aligner"

ASSUME BoundsAssumption ==
  /\ Provider \subseteq {Faster, Nemo, Qwen, Unaligned}
  /\ MaxWorkers \in Nat \ {0} /\ MaxCalls \in Nat
  /\ MaxDeaths \in Nat /\ MaxInterrupts \in Nat

Worker == 1..MaxWorkers
ASSUME NoneAssumption == None \notin Worker /\ None \notin Request

VARIABLES
  \* the service and its clients
  provider,      \* which service it is
  started,       \* _started
  fallbackUsed,  \* _cpu_fallback_used
  device,        \* _config.device
  client,        \* the provider client holds an NDJSON client
  process,       \* the NDJSON client's _process
  \* the call under way
  call, request,
  pc,            \* the command it is at
  waiting,       \* it has written the command and reads the answer
  error,         \* the exception it will raise
  \* the last call's outcome
  reply, transcript,
  \* the Worker processes
  state, model,
  inbox, outbox, \* stdin and stdout pipes
  \* counters
  launched, calls, deaths, interrupts

serviceVars == <<provider, started, fallbackUsed, device, client, process>>
callVars    == <<call, request, pc, waiting, error>>
replyVars   == <<reply, transcript>>
workerVars  == <<state, model, inbox, outbox>>
countVars   == <<launched, calls, deaths, interrupts>>
sessionVars == <<serviceVars, callVars, replyVars, workerVars, countVars>>

Devices  == {"auto", "cuda", "cpu"}
Commands == {"hello", "load", "transcribe", "shutdown"}
Calls    == {"none", "start", "transcribe", "shutdown"}
Steps    == Commands \cup {"idle", "launch", "reap", "abandon", "settle"}
\* "startup": the client's start shut its own Worker down and raises
Errors   == {"none", "startup", "unavailable", "failed"}
Replies  == {"none", "ok", "unavailable", "failed", "interrupted"}
States   == {"unborn", "reading", "handling", "ending", "terminated", "gone"}
Models   == {"none", "cuda", "cpu"}
Answers  == {"ok", "error", "cuda"}
Lines    == [command : Commands, of : Request \cup {None}, device : Devices]
Results  == [answer : Answers, of : Request \cup {None}]

TypeOK ==
  /\ provider \in Provider
  /\ started \in BOOLEAN /\ fallbackUsed \in BOOLEAN /\ client \in BOOLEAN
  /\ device \in Devices
  /\ process \in Worker \cup {None}
  /\ call \in Calls /\ request \in Request \cup {None}
  /\ pc \in Steps /\ waiting \in BOOLEAN /\ error \in Errors
  /\ reply \in Replies /\ transcript \in Request \cup {None}
  /\ state \in [Worker -> States] /\ model \in [Worker -> Models]
  /\ inbox \in [Worker -> Seq(Lines)] /\ outbox \in [Worker -> Seq(Results)]
  /\ launched \in 0..MaxWorkers
  /\ calls \in Nat /\ deaths \in Nat /\ interrupts \in Nat

SessionInit ==
  /\ started = FALSE /\ fallbackUsed = FALSE /\ client = FALSE
  /\ provider \in Provider
  /\ device \in IF provider \in {Qwen, Unaligned} THEN Devices \ {"auto"} ELSE Devices
  /\ process = None
  /\ call = "none" /\ request = None
  /\ pc = "idle" /\ waiting = FALSE /\ error = "none"
  /\ reply = "none" /\ transcript = None
  /\ state = [w \in Worker |-> "unborn"] /\ model = [w \in Worker |-> "none"]
  /\ inbox = [w \in Worker |-> <<>>] /\ outbox = [w \in Worker |-> <<>>]
  /\ launched = 0 /\ calls = 0 /\ deaths = 0 /\ interrupts = 0

-----------------------------------------------------------------------------
(* The service's calls *)

Refuse(kind) ==
  /\ reply' = kind
  /\ UNCHANGED <<serviceVars, callVars, transcript, workerVars>>

Enter(c, r, step) ==
  /\ call' = c /\ request' = r /\ pc' = step
  /\ reply' = "none" /\ transcript' = None
  /\ UNCHANGED <<serviceVars, waiting, error, workerVars>>

(* Qwen3 does not start without the aligner if timestamps are required.    *)
Start ==
  /\ call = "none"
  /\ \/ /\ started \/ client \/ provider = Unaligned
        /\ Refuse("unavailable")
     \/ /\ ~started /\ ~client
        /\ Enter("start", None, "launch")

(* A request may ask for what the provider cannot do: no timestamps of     *)
(* Faster Whisper, a prompt for NeMo, timestamps without the aligner.      *)
Transcribe(r) ==
  /\ call = "none"
  /\ \/ /\ ~started \/ ~client
        /\ Refuse("unavailable")
     \/ /\ started /\ provider # Qwen
        /\ Refuse("failed")
     \/ /\ started /\ client
        /\ Enter("transcribe", r, "transcribe")

Shutdown ==
  /\ call = "none"
  /\ Enter("shutdown", None, IF client THEN "shutdown" ELSE "settle")

-----------------------------------------------------------------------------
(* The call: _launch, _send, _receive *)

(* What follows a command that went well.                                  *)
After(step) ==
  CASE step = "launch"     -> "hello"
    [] step = "hello"      -> "load"
    [] step = "load"       -> IF call = "start" THEN "settle" ELSE "transcribe"
    [] step = "transcribe" -> "settle"
    [] step = "shutdown"   -> "reap"

Launch ==
  /\ pc = "launch"
  /\ launched < MaxWorkers
  /\ launched' = launched + 1
  /\ process' = launched + 1
  /\ client' = TRUE
  /\ state' = [state EXCEPT ![launched + 1] = "reading"]
  /\ pc' = After("launch")
  /\ UNCHANGED <<provider, started, fallbackUsed, device, call, request, waiting, error,
                 replyVars, model, inbox, outbox, calls, deaths, interrupts>>

(* The Worker command cannot be resolved, or the process cannot be         *)
(* created: only then does the provider client keep its NDJSON client.     *)
LaunchFails ==
  /\ pc = "launch"
  /\ client' \in BOOLEAN
  /\ error' = "unavailable"
  /\ pc' = "settle"
  /\ UNCHANGED <<provider, started, fallbackUsed, device, process, call, request, waiting,
                 replyVars, workerVars, countVars>>

Exited == process = None \/ state[process] = "gone"

MayFallBack(kind) ==
  provider = Faster /\ kind = "cuda" /\ device = "auto" /\ ~fallbackUsed

StaysUp          == "settle"          \* faulty variant: a failed start keeps its Worker
AsksAgain        == "hello"           \* faulty variant: a failed start is retried
AfterFailedStart == "shutdown"
OnlyKills     == "reap"               \* faulty variant: the fallback does not wait
FallbackFrom  == "shutdown"           \* for the old Worker to drop its model

(* The command at hand raises.  shutdown suppresses it; the client's start *)
(* shuts its Worker down; transcribe falls back to the CPU once.           *)
Raise(kind) ==
  /\ \/ /\ pc = "shutdown"
        /\ pc' = After("shutdown")
        /\ UNCHANGED <<error, fallbackUsed, device>>
     \/ /\ pc \in {"hello", "load"}
        /\ pc' = AfterFailedStart
        /\ error' = "startup"
        /\ UNCHANGED <<fallbackUsed, device>>
     \/ /\ pc = "transcribe" /\ MayFallBack(kind)
        /\ pc' = FallbackFrom
        /\ fallbackUsed' = TRUE
        /\ device' = "cpu"
        /\ UNCHANGED error
     \/ /\ pc = "transcribe" /\ ~MayFallBack(kind)
        /\ pc' = "settle"
        /\ error' = IF kind = "unavailable" THEN "unavailable" ELSE "failed"
        /\ UNCHANGED <<fallbackUsed, device>>
  /\ UNCHANGED <<provider, started, client, process, call, request>>

Send ==
  /\ pc \in Commands /\ ~waiting
  /\ IF Exited
       THEN Raise("unavailable") /\ UNCHANGED <<waiting, inbox>>
       ELSE /\ inbox' = [inbox EXCEPT ![process] =
                 Append(@, [command |-> pc, of |-> request, device |-> device])]
            /\ waiting' = TRUE
            /\ UNCHANGED <<serviceVars, call, request, pc, error>>
  /\ UNCHANGED <<replyVars, state, model, outbox, countVars>>

(* readline returns the next line, whatever request it answers.            *)
Receive ==
  /\ waiting /\ outbox[process] # <<>>
  /\ waiting' = FALSE
  /\ outbox' = [outbox EXCEPT ![process] = Tail(@)]
  /\ LET line == Head(outbox[process]) IN
       IF line.answer = "ok"
         THEN /\ pc' = After(pc)
              /\ transcript' = IF pc = "transcribe" THEN line.of ELSE transcript
              /\ UNCHANGED <<serviceVars, call, request, error>>
         ELSE Raise(line.answer) /\ UNCHANGED transcript
  /\ UNCHANGED <<reply, state, model, inbox, countVars>>

(* The Worker has closed its stdout.  The message quotes as much of its    *)
(* stderr as the draining thread has seen, so it names CUDA or it does not.*)
EndOfFile ==
  /\ waiting /\ outbox[process] = <<>> /\ state[process] = "gone"
  /\ waiting' = FALSE
  /\ \E kind \in {"error", "cuda"} : Raise(kind)
  /\ UNCHANGED <<replyVars, workerVars, countVars>>

(* The provider client forgets its NDJSON client, unless that client shut  *)
(* its own Worker down; the CPU fallback then starts over.                 *)
Released ==
  /\ process' = None
  /\ client' = (error = "startup")
  /\ pc' = IF error # "none" \/ call = "shutdown" THEN "settle" ELSE "launch"

(* wait(timeout=5): the Worker has exited, or is told to.                  *)
Reap ==
  /\ pc = "reap"
  /\ IF Exited
       THEN Released /\ UNCHANGED state
       ELSE /\ state' = [state EXCEPT ![process] = "terminated"]
            /\ pc' = "abandon"
            /\ UNCHANGED <<client, process>>
  /\ UNCHANGED <<provider, started, fallbackUsed, device, call, request, waiting, error,
                 replyVars, model, inbox, outbox, countVars>>

(* wait(timeout=5) waits for it in vain: not longer than that.             *)
Abandon ==
  /\ pc = "abandon"
  /\ Released
  /\ UNCHANGED <<provider, started, fallbackUsed, device, call, request, waiting, error,
                 replyVars, workerVars, countVars>>

(* The service's start wants word timestamps: the hello may not offer any. *)
(* Qwen3 without the aligner has no such wish.                             *)
CapabilityMissing ==
  /\ pc = "settle" /\ call = "start" /\ error = "none" /\ provider # Unaligned
  /\ pc' = "shutdown"
  /\ error' = "unavailable"
  /\ UNCHANGED <<serviceVars, call, request, waiting, replyVars, workerVars, countVars>>

StartedAfter ==
  CASE call = "start"    -> error = "none"
    [] call = "shutdown" -> FALSE
    [] OTHER             -> started

Settle ==
  /\ pc = "settle"
  /\ reply' = CASE error = "none"    -> "ok"
                [] error = "startup" -> "unavailable"
                [] OTHER             -> error
  /\ started' = StartedAfter
  /\ fallbackUsed' = (fallbackUsed /\ call # "shutdown")
  /\ call' = "none" /\ request' = None /\ pc' = "idle" /\ error' = "none"
  /\ UNCHANGED <<provider, device, client, process, waiting, transcript, workerVars, countVars>>

(* KeyboardInterrupt passes every except clause; only shutdown's finally   *)
(* clause runs.                                                            *)
Interrupt ==
  /\ call # "none"
  /\ interrupts < MaxInterrupts
  /\ interrupts' = interrupts + 1
  /\ process' = IF pc \in {"shutdown", "reap", "abandon"} THEN None ELSE process
  /\ reply' = "interrupted"
  /\ call' = "none" /\ request' = None /\ pc' = "idle" /\ error' = "none"
  /\ waiting' = FALSE
  /\ UNCHANGED <<provider, started, fallbackUsed, device, client, transcript, workerVars,
                 launched, calls, deaths>>

ClientStep ==
  \/ Launch \/ LaunchFails
  \/ Send \/ Receive \/ EndOfFile
  \/ Reap \/ Abandon
  \/ CapabilityMissing \/ Settle

-----------------------------------------------------------------------------
(* The Worker process: run_worker reads a line, handles it, writes a line  *)

clientVars == <<serviceVars, callVars, replyVars>>

Take(w) ==
  /\ state[w] = "reading" /\ inbox[w] # <<>>
  /\ state' = [state EXCEPT ![w] = "handling"]
  /\ UNCHANGED <<clientVars, model, inbox, outbox, countVars>>

(* auto of Faster Whisper and NeMo tries CUDA, then the CPU.               *)
LoadedOn(d) == IF d = "auto" THEN {"cuda", "cpu"} ELSE {d}

(* One line is taken from stdin, and one line is printed.                  *)
WritesTwice(w, answer) ==             \* faulty variant: an error prints two lines
  LET line == Head(inbox[w])
      result == [answer |-> answer, of |-> line.of] IN
    /\ inbox' = [inbox EXCEPT ![w] = Tail(@)]
    /\ outbox' = [outbox EXCEPT ![w] =
                     IF answer = "ok" THEN Append(@, result) ELSE @ \o <<result, result>>]
Write(w, answer) ==
  LET line == Head(inbox[w]) IN
    /\ inbox' = [inbox EXCEPT ![w] = Tail(@)]
    /\ outbox' = [outbox EXCEPT ![w] = Append(@, [answer |-> answer, of |-> line.of])]

(* Each command's outcomes: its answer, the model afterwards, and whether  *)
(* the loop goes on.                                                       *)
HelloOutcomes(loaded) == {<<"ok", loaded, "reading">>, <<"error", loaded, "reading">>}

(* A load that fails shuts the Worker down.  A second one is refused, and  *)
(* so is a configuration that is not valid, which only Faster Whisper      *)
(* reads inside its try.                                                   *)
LoadOutcomes(loaded, on) ==
  LET refused == <<"error", loaded, "reading">> IN
    IF loaded # "none"
      THEN {refused}
      ELSE {<<"ok", m, "reading">> : m \in LoadedOn(on)}
             \cup {<<"error", "none", "ending">>}
             \cup {r \in {refused} : provider # Faster}

(* The exception may name CUDA.                                            *)
TranscribeOutcomes(loaded) ==
  {<<a, loaded, "reading">> : a \in IF loaded = "none" THEN {"error"} ELSE Answers}

Outcomes(line, loaded) ==
  CASE line.command = "hello"      -> HelloOutcomes(loaded)
    [] line.command = "load"       -> LoadOutcomes(loaded, line.device)
    [] line.command = "transcribe" -> TranscribeOutcomes(loaded)
    [] line.command = "shutdown"   -> {<<"ok", "none", "ending">>}

Answer(w) ==
  /\ state[w] = "handling"
  /\ \E o \in Outcomes(Head(inbox[w]), model[w]) :
       /\ Write(w, o[1])
       /\ model' = [model EXCEPT ![w] = o[2]]
       /\ state' = [state EXCEPT ![w] = o[3]]
  /\ UNCHANGED <<clientVars, countVars>>

(* The process ends: after its loop, or by the signal.                     *)
Exit(w) ==
  /\ state[w] \in {"ending", "terminated"}
  /\ state' = [state EXCEPT ![w] = "gone"]
  /\ model' = [model EXCEPT ![w] = "none"]
  /\ UNCHANGED <<clientVars, inbox, outbox, countVars>>

Die(w) ==
  /\ state[w] \in {"reading", "handling"}
  /\ deaths < MaxDeaths
  /\ deaths' = deaths + 1
  /\ state' = [state EXCEPT ![w] = "gone"]
  /\ model' = [model EXCEPT ![w] = "none"]
  /\ UNCHANGED <<clientVars, inbox, outbox, launched, calls, interrupts>>

WorkerStep(w) == Take(w) \/ Answer(w) \/ Exit(w)

-----------------------------------------------------------------------------
(* A caller may call in any order, but it only shuts down once it was      *)
(* interrupted.  A session is begun when there is room for two Workers.    *)

Call ==
  /\ calls < MaxCalls
  /\ calls' = calls + 1
  /\ \/ interrupts = 0 /\ launched + 2 <= MaxWorkers /\ Start
     \/ interrupts = 0 /\ \E r \in Request : Transcribe(r)
     \/ Shutdown
  /\ UNCHANGED <<launched, deaths, interrupts>>

SessionNext ==
  \/ Call
  \/ ClientStep
  \/ Interrupt
  \/ \E w \in Worker : WorkerStep(w) \/ Die(w)

(* The calling thread runs, and a Worker answers what it is asked and ends *)
(* when it is told to: readline and the model have no timeout.             *)
SessionFairness ==
  /\ WF_sessionVars(ClientStep)
  /\ \A w \in Worker : WF_sessionVars(WorkerStep(w))

SessionSpec == SessionInit /\ [][SessionNext]_sessionVars /\ SessionFairness

-----------------------------------------------------------------------------
(* Properties *)

(* A transcript is the one of the request it was asked for: although lines *)
(* carry no identifier, a failed, dead or replaced Worker never makes the  *)
(* client read the answer to another request.                              *)
OwnTranscript ==
  pc = "settle" /\ call = "transcribe" /\ error = "none" => transcript = request

(* No two Workers hold a loaded model: the fallback, and a new start after *)
(* a failed one, wait until the old Worker has given its model up.         *)
OneModel ==
  \A v, w \in Worker : model[v] # "none" /\ model[w] # "none" => v = w

(* No Worker runs unattended: one that still serves requests is the one    *)
(* the client would shut down, and only while a call is under way or the   *)
(* session is open.                                                        *)
NoStrayWorker ==
  interrupts = 0 =>
    \A w \in Worker : state[w] \in {"reading", "handling"} =>
      process = w /\ (call # "none" \/ started)

(* Every call returns or raises, whatever its Worker does short of hanging.*)
CallsReturn == call # "none" ~> call = "none"
=============================================================================
