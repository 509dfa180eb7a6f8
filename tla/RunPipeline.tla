---------------------------- MODULE RunPipeline -----------------------------
(***************************************************************************)
(* RunPipeline (workflow/pipeline.py): run_files and transcribe_files take *)
(* a list of files through the stages one file at a time, with one         *)
(* provider session (WorkerSession), one temporary workspace and one       *)
(* cancellation token.                                                     *)
(*                                                                         *)
(* The run is one thread: while it is inside a call of the session it does *)
(* nothing else.  The token is set by another thread, or by a signal       *)
(* handler, at any moment, and is only looked at by checkpoint().          *)
(***************************************************************************)
EXTENDS WorkerSession

CONSTANTS
  OptionSets,   \* the PipelineOptions considered
  Formats,      \* the number of output formats
  Undecided     \* a file, or the run, that has no outcome yet

ASSUME RequestAssumption ==
  IsFiniteSet(Request) /\ Request # {} /\ Request = 1..Cardinality(Request)
ASSUME FormatsAssumption == Formats \in Nat \ {0}

FileCount == Cardinality(Request)

AllStages ==
  <<"media", "voice_separation", "transcription", "context_analysis", "segmentation",
    "correction", "cleanup", "translation", "quality", "repair", "export">>
Stage == {AllStages[i] : i \in 1..Len(AllStages)}
\* their executor polls the token as well
LlmStages == {"segmentation", "correction", "translation", "repair"}

\* a file always goes through these; transcribe_files runs no others than the first three
Mandatory(command) ==
  {"media", "transcription"} \cup
  (IF command = "run" THEN {"segmentation", "quality", "export"} ELSE {})
InputStages == {"media", "voice_separation", "transcription"}

Path == Request    \* as many output names as there may be files
Options ==
  [command : {"run", "transcribe"}, stages : SUBSET Stage,
   continueOnError : BOOLEAN, keepWorkdir : BOOLEAN, voiceRequired : BOOLEAN,
   allowPartial : BOOLEAN, replace : BOOLEAN, path : [Request -> Path]]
ASSUME OptionsAssumption ==
  \A o \in OptionSets :
    /\ o \in Options /\ Mandatory(o.command) \subseteq o.stages
    /\ o.command = "transcribe" => o.stages \subseteq InputStages

VARIABLES
  at,         \* where run_files is
  options,
  file,       \* the file's index
  stage,      \* the stage's index in AllStages
  source,     \* the request whose transcript this file is processed with
  format,     \* the next output format
  outcome,    \* of each file: successes and failures
  ending,     \* how the run ends
  opened,     \* run_files's own started
  workdir,    \* the temporary workspace
  disk,       \* what each output file holds: nothing, an old output, a source
  cancelled,  \* the token
  late        \* history: work begun after the token was set

pipelineVars == <<at, options, file, stage, source, format, outcome, ending, opened,
                  workdir, disk, cancelled, late>>
runVars == <<sessionVars, pipelineVars>>

Places == {"begin", "metadata", "provider", "starting", "opened", "file", "stage", "work",
           "transcribing", "exporting", "worked", "closing", "shuttingDown", "cleanup",
           "ended"}
Endings == {"completed", "cancelled", "unavailable", "failed", "interrupted"}
OutputFile == Path \X (1..Formats)
ASSUME UndecidedAssumption == Undecided \notin Endings \cup {"succeeded", "failed"}
Nothing  == 0
OldFile  == FileCount + 1
Contents == Request \cup {Nothing, OldFile}

RunTypeOK ==
  /\ at \in Places /\ options \in Options
  /\ file \in 1..(FileCount + 1) /\ stage \in 1..Len(AllStages)
  /\ source \in Request \cup {None} /\ format \in 1..(Formats + 1)
  /\ outcome \in [Request -> {"succeeded", "failed", Undecided}]
  /\ ending \in Endings \cup {Undecided}
  /\ opened \in BOOLEAN /\ cancelled \in BOOLEAN
  /\ workdir \in {"absent", "kept", "removed"}
  /\ disk \in [OutputFile -> Contents]
  /\ late \in Nat

(* There may be an output of the first name, in the last format, from an   *)
(* earlier run.                                                            *)
RunInit ==
  /\ SessionInit
  /\ at = "begin" /\ options \in OptionSets
  /\ file = 1 /\ stage = 1 /\ source = None /\ format = 1
  /\ outcome = [f \in Request |-> Undecided]
  /\ ending = Undecided
  /\ opened = FALSE /\ workdir = "absent" /\ cancelled = FALSE /\ late = 0
  /\ \E o \in {None, <<1, Formats>>} :
       disk = [x \in OutputFile |-> IF x = o THEN OldFile ELSE Nothing]

ThisStage == AllStages[stage]
LastStage == IF options.command = "run" THEN "export" ELSE "transcription"

(* The next stage that is enabled; a repair is left out when quality finds *)
(* nothing to repair.                                                      *)
Skippable == (Stage \ options.stages) \cup {"repair"}
NextStages ==
  {i \in (stage + 1)..Len(AllStages) :
     /\ AllStages[i] \in options.stages
     /\ \A k \in (stage + 1)..(i - 1) : AllStages[k] \in Skippable}

Goto(place) == at' = place

(* The rest of run_files is skipped, except its finally clause.            *)
Leave(how) == Goto("closing") /\ ending' = how

Unpolled == FALSE                     \* faulty variant: no checkpoint
Polled   == cancelled

(* checkpoint() raises OperationCancelled once the token is set.           *)
Checkpoint(place) ==
  IF Polled THEN Leave("cancelled") ELSE Goto(place) /\ UNCHANGED ending

-----------------------------------------------------------------------------
(* Opening the run *)

Begin ==
  /\ at = "begin"
  /\ IF cancelled
       THEN Goto("ended") /\ ending' = "cancelled" /\ UNCHANGED workdir
       ELSE Goto("metadata") /\ workdir' = "kept" /\ UNCHANGED ending
  /\ UNCHANGED <<sessionVars, options, file, stage, source, format, outcome, opened, disk,
                 cancelled, late>>

(* An error here is raised outside the try statement.                      *)
WriteMetadata ==
  /\ at = "metadata"
  /\ \/ Goto("provider") /\ UNCHANGED ending
     \/ Goto("ended") /\ ending' = "failed"
  /\ UNCHANGED <<sessionVars, options, file, stage, source, format, outcome, opened,
                 workdir, disk, cancelled, late>>

StartProvider ==
  /\ at = "provider"
  /\ Checkpoint("starting")
  /\ IF at' = "starting" THEN Start /\ UNCHANGED countVars ELSE UNCHANGED sessionVars
  /\ UNCHANGED <<options, file, stage, source, format, outcome, opened, workdir, disk,
                 cancelled, late>>

ProviderStarted ==
  /\ at = "starting" /\ call = "none" /\ reply # "interrupted"
  /\ IF reply = "ok"
       THEN Goto("opened") /\ opened' = TRUE /\ UNCHANGED ending
       ELSE Leave("unavailable") /\ UNCHANGED opened
  /\ UNCHANGED <<sessionVars, options, file, stage, source, format, outcome, workdir, disk,
                 cancelled, late>>

Opened ==
  /\ at = "opened"
  /\ Checkpoint("file")
  /\ UNCHANGED <<sessionVars, options, file, stage, source, format, outcome, opened,
                 workdir, disk, cancelled, late>>

-----------------------------------------------------------------------------
(* One file after the other: _process_one, _transcribe_input *)

NoFileLeft == file > FileCount

NextFile ==
  /\ at = "file"
  /\ IF NoFileLeft THEN Leave("completed") ELSE Checkpoint("stage")
  /\ stage' = 1 /\ source' = None /\ format' = 1
  /\ UNCHANGED <<sessionVars, options, file, outcome, opened, workdir, disk, cancelled, late>>

Forgotten(f, o) == IF o = "failed" THEN outcome ELSE [outcome EXCEPT ![f] = o]  \* faulty variant
Recorded(f, o)  == [outcome EXCEPT ![f] = o]

Succeed ==
  /\ outcome' = Recorded(file, "succeeded")
  /\ file' = file + 1
  /\ Goto("file")
  /\ UNCHANGED ending

Fail ==
  /\ outcome' = Recorded(file, "failed")
  /\ IF options.continueOnError
       THEN file' = file + 1 /\ Goto("file") /\ UNCHANGED ending
       ELSE Leave("completed") /\ UNCHANGED file

(* With allow_partial off, a cue left untranslated fails the file.         *)
TranslationIncomplete ==
  /\ at = "stage" /\ ThisStage = "export"
  /\ "translation" \in options.stages /\ ~options.allowPartial
  /\ Fail
  /\ UNCHANGED <<sessionVars, options, stage, source, format, opened, workdir, disk,
                 cancelled, late>>

StageStarts ==
  /\ at = "stage"
  /\ Checkpoint("work")
  /\ UNCHANGED <<sessionVars, options, file, stage, source, format, outcome, opened,
                 workdir, disk, cancelled, late>>

(* A stage that runs in this process, which may also raise because it      *)
(* polls the token.  A context analysis that fails counts as done; a voice *)
(* separation that may fail is left without its completion.                *)
Work ==
  /\ at = "work" /\ ThisStage \notin {"transcription", "export"}
  /\ late' = late + (IF cancelled THEN 1 ELSE 0)
  /\ \/ Goto("worked") /\ UNCHANGED <<file, stage, outcome, ending>>
     \/ Fail /\ UNCHANGED stage
     \/ /\ ThisStage = "voice_separation" /\ ~options.voiceRequired
        /\ Goto("stage") /\ stage' \in NextStages
        /\ UNCHANGED <<file, outcome, ending>>
     \/ /\ ThisStage \in LlmStages /\ cancelled
        /\ Leave("cancelled")
        /\ UNCHANGED <<file, stage, outcome>>
  /\ UNCHANGED <<sessionVars, options, source, format, opened, workdir, disk, cancelled>>

Transcription ==
  /\ at = "work" /\ ThisStage = "transcription"
  /\ Goto("transcribing")
  /\ late' = late + (IF cancelled THEN 1 ELSE 0)
  /\ Transcribe(file) /\ UNCHANGED countVars
  /\ UNCHANGED <<options, file, stage, source, format, outcome, ending, opened, workdir,
                 disk, cancelled>>

Transcribed ==
  /\ at = "transcribing" /\ call = "none" /\ reply # "interrupted"
  /\ IF reply = "ok"
       THEN Goto("worked") /\ source' = transcript /\ UNCHANGED <<file, outcome, ending>>
       ELSE Fail /\ UNCHANGED source
  /\ UNCHANGED <<sessionVars, options, stage, format, opened, workdir, disk, cancelled, late>>

StageCompletes ==
  /\ at = "worked"
  /\ IF Polled
       THEN Leave("cancelled") /\ UNCHANGED <<file, stage, outcome>>
       ELSE IF ThisStage # LastStage
       THEN Goto("stage") /\ stage' \in NextStages /\ UNCHANGED <<file, outcome, ending>>
       ELSE IF options.command = "run"
       THEN Succeed /\ UNCHANGED stage
       ELSE Goto("exporting") /\ UNCHANGED <<file, stage, outcome, ending>>
  /\ UNCHANGED <<sessionVars, options, source, format, opened, workdir, disk, cancelled, late>>

StartExport ==
  /\ at = "work" /\ ThisStage = "export"
  /\ Goto("exporting")
  /\ late' = late + (IF cancelled THEN 1 ELSE 0)
  /\ UNCHANGED <<sessionVars, options, file, stage, source, format, outcome, ending, opened,
                 workdir, disk, cancelled>>

Output == <<options.path[file], format>>

AlwaysMayWrite == TRUE                \* faulty variant: the existing file is not seen
MayWrite ==
  options.command = "transcribe" \/ options.replace \/ disk[Output] = Nothing

(* transcribe_files writes one Transcript JSON and replaces what is there. *)
LastFormat == IF options.command = "run" THEN Formats ELSE 1

ExportFormat ==
  /\ at = "exporting"
  /\ \/ /\ MayWrite
        /\ disk' = [disk EXCEPT ![Output] = source]
        /\ format' = format + 1
        /\ IF format < LastFormat
             THEN UNCHANGED <<at, file, outcome, ending>>
             ELSE IF options.command = "run"
             THEN Goto("worked") /\ UNCHANGED <<file, outcome, ending>>
             ELSE Succeed
     \/ Fail /\ UNCHANGED <<disk, format>>
  /\ UNCHANGED <<sessionVars, options, stage, source, opened, workdir, cancelled, late>>

-----------------------------------------------------------------------------
(* Closing the run *)

ClosesOnSuccess == opened /\ ending = "completed"   \* faulty variant: not in a finally
MustShutDown    == opened

Close ==
  /\ at = "closing"
  /\ Goto("shuttingDown")
  /\ opened' = FALSE
  /\ IF MustShutDown THEN Shutdown /\ UNCHANGED countVars ELSE UNCHANGED sessionVars
  /\ UNCHANGED <<options, file, stage, source, format, outcome, ending, workdir, disk,
                 cancelled, late>>

Closed ==
  /\ at = "shuttingDown" /\ call = "none"
  /\ Goto(IF ending = "completed" THEN "cleanup" ELSE "ended")
  /\ UNCHANGED <<sessionVars, options, file, stage, source, format, outcome, ending, opened,
                 workdir, disk, cancelled, late>>

SomeFailed  == \E f \in Request : outcome[f] = "failed"
UnlessKept  == ~options.keepWorkdir                 \* faulty variant: failures, too
RemovesWorkdir == ~SomeFailed /\ ~options.keepWorkdir

(* rmtree raises when a file cannot be deleted, and run_files with it.     *)
Cleanup ==
  /\ at = "cleanup"
  /\ Goto("ended")
  /\ \/ /\ workdir' = IF RemovesWorkdir THEN "removed" ELSE workdir
        /\ UNCHANGED ending
     \/ RemovesWorkdir /\ ending' = "failed" /\ UNCHANGED workdir
  /\ UNCHANGED <<sessionVars, options, file, stage, source, format, outcome, opened, disk,
                 cancelled, late>>

-----------------------------------------------------------------------------
(* The user: cancel, and a second Ctrl-C *)

Cancel ==
  /\ at # "ended" /\ ~cancelled
  /\ cancelled' = TRUE
  /\ UNCHANGED <<sessionVars, at, options, file, stage, source, format, outcome, ending,
                 opened, workdir, disk, late>>

Unwind ==
  /\ ending' = "interrupted"
  /\ Goto(IF at \in {"begin", "metadata", "shuttingDown", "cleanup"} THEN "ended"
          ELSE "closing")
  /\ UNCHANGED <<options, file, stage, source, format, outcome, opened, workdir, disk,
                 cancelled, late>>

InterruptRun ==
  /\ at # "ended" /\ cancelled
  /\ \/ Interrupt
     \/ /\ call = "none" /\ interrupts < MaxInterrupts
        /\ interrupts' = interrupts + 1
        /\ UNCHANGED <<serviceVars, callVars, replyVars, workerVars, launched, calls, deaths>>
  /\ Unwind

-----------------------------------------------------------------------------
PipelineStep ==
  \/ Begin \/ WriteMetadata \/ StartProvider \/ ProviderStarted \/ Opened
  \/ NextFile \/ TranslationIncomplete \/ StageStarts \/ Work
  \/ Transcription \/ Transcribed \/ StageCompletes
  \/ StartExport \/ ExportFormat
  \/ Close \/ Closed \/ Cleanup

SessionStep ==
  /\ ClientStep \/ \E w \in Worker : WorkerStep(w) \/ Die(w)
  /\ UNCHANGED pipelineVars

RunNext == PipelineStep \/ SessionStep \/ Cancel \/ InterruptRun

(* The run's thread goes on, in its own code and inside a call; a Worker   *)
(* answers and exits.                                                      *)
RunFairness ==
  /\ WF_runVars(PipelineStep)
  /\ WF_runVars(ClientStep /\ UNCHANGED pipelineVars)
  /\ \A w \in Worker : WF_runVars(WorkerStep(w) /\ UNCHANGED pipelineVars)

RunSpec == RunInit /\ [][RunNext]_runVars /\ RunFairness

-----------------------------------------------------------------------------
(* Properties *)

(* What a file that succeeded wrote is still there when the run ends, and  *)
(* was made from its own transcript, also after the Worker was replaced or *)
(* other files failed.  Two inputs of one name share their outputs: then   *)
(* only overwrite = "error" keeps the second from replacing the first's.   *)
DistinctPaths == \A f, g \in Request : options.path[f] = options.path[g] => f = g
SucceededOutputsStay ==
  DistinctPaths \/ (options.command = "run" /\ ~options.replace) =>
    \A f \in Request : outcome[f] = "succeeded" =>
      \A k \in 1..LastFormat : disk[<<options.path[f], k>>] = f

(* However the run ends, except by an interrupt, no Worker is left serving.*)
SessionClosed ==
  at = "ended" /\ interrupts = 0 =>
    process = None /\ \A w \in Worker : state[w] \notin {"reading", "handling"}

(* The temporary workspace is removed exactly when the run completed, no   *)
(* file failed, and it is not to be kept: every other run leaves it for    *)
(* diagnosis.                                                              *)
WorkspaceKept ==
  at = "ended" =>
    (workdir = "removed" <=> ending = "completed" /\ ~SomeFailed /\ ~options.keepWorkdir)

(* After the user cancels, at most one more piece of work is begun.        *)
LateWorkBounded == late <= 1

(* The run ends, in spite of failures, deaths, fallbacks and cancellation. *)
RunEnds == <>(at = "ended")

(* The report the caller gets is the one RunReport promises.               *)
Report == INSTANCE RunReport WITH
  ending <- IF at = "ended" THEN ending ELSE Undecided,
  continueOnError <- options.continueOnError
ImplementsReport == Report!ReportSpec
=============================================================================
