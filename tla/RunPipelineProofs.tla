------------------------- MODULE RunPipelineProofs --------------------------
(***************************************************************************)
(* Proofs about RunPipeline, for any number of files, formats, Workers,    *)
(* deaths and interrupts, and any options that pass validation.  What the  *)
(* session does inside a run is WorkerSession's invariant SInv.            *)
(***************************************************************************)
EXTENDS RunPipeline, WorkerSessionProofs, FiniteSetTheorems

Opening == {"begin", "metadata", "provider", "starting"}
InFile  == {"stage", "work", "transcribing", "exporting", "worked"}
Running == InFile \cup {"opened", "file"}
Closing == {"closing", "shuttingDown", "cleanup", "ended"}

(* A call of the session is only under way where the run waits for it, and *)
(* wherever the run would not shut it down any more it has no Worker.      *)
SessionUse ==
  /\ call # "none" =>
       \/ at = "starting" /\ call = "start"
       \/ at = "transcribing" /\ call = "transcribe" /\ request = file
       \/ at = "shuttingDown" /\ call = "shutdown"
  /\ interrupts > 0 =>
       at \in {"closing", "shuttingDown", "ended"} /\ ending = "interrupted"
  /\ at \in Running => opened

Unattended ==
  \/ at \in {"begin", "metadata", "provider", "cleanup", "ended"}
  \/ at = "starting" /\ call = "none" /\ reply # "ok"
  \/ at = "closing" /\ ~opened
  \/ at = "shuttingDown" /\ call = "none"
NoWorkerUnattended == interrupts = 0 /\ Unattended => process = None

(* The file is processed with its own transcript from the third stage on.  *)
PastTranscription == stage > 3 \/ (stage = 3 /\ at \in {"worked", "exporting"})
OwnSource ==
  /\ at = "transcribing" => stage = 3
  /\ at = "transcribing" /\ call = "none" /\ reply = "ok" => transcript = file
  /\ at \in InFile /\ PastTranscription => source = file

(* The outputs that exist while the file at hand is written.               *)
Written(f, k) == disk[<<options.path[f], k>>] = f
Exporting ==
  /\ at \in {"stage", "work", "transcribing"} => format = 1
  /\ at = "worked" =>
       IF ThisStage = "export" THEN \A k \in 1..LastFormat : Written(file, k) ELSE format = 1
  /\ at = "exporting" =>
       /\ format <= LastFormat /\ PastTranscription
       /\ options.command = "run" => ThisStage = "export"
       /\ \A k \in 1..(format - 1) : Written(file, k)

(* The files before the one at hand are decided, the others are not.       *)
Decided ==
  /\ \A f \in Request : /\ f < file => outcome[f] # Undecided
                        /\ f > file => outcome[f] = Undecided
                        /\ f = file => outcome[f] # "succeeded"
                        /\ f = file /\ at \notin Closing => outcome[f] = Undecided
  /\ at \in InFile => file <= FileCount
  /\ at \notin Closing => ending = Undecided /\ (options.continueOnError \/ ~SomeFailed)
  /\ at \in Closing => ending \in Endings
  /\ ending = "completed" =>
       \/ ~options.continueOnError /\ SomeFailed
       \/ \A f \in Request : outcome[f] # Undecided

Workspace ==
  /\ at # "ended" => workdir # "removed"
  /\ at = "cleanup" => ending = "completed"
  /\ WorkspaceKept

(* Work begins where the token was just seen unset.                        *)
Late ==
  /\ late \in {0, 1}
  /\ ~cancelled \/ at = "work" => late = 0

(* Only stages that are enabled are entered.                               *)
ValidOptions ==
  /\ at \in InFile => ThisStage \in options.stages
  /\ Mandatory(options.command) \subseteq options.stages
  /\ options.command = "transcribe" => options.stages \subseteq InputStages

PInv ==
  /\ RunTypeOK /\ ValidOptions /\ SessionUse /\ NoWorkerUnattended
  /\ OwnSource /\ Exporting /\ Decided /\ SucceededOutputsStay /\ Workspace /\ Late
RunInv == SInv /\ PInv

-----------------------------------------------------------------------------
(* The stages, in the order of the code.                                   *)
LEMMA StageFacts ==
  /\ Len(AllStages) = 11 /\ AllStages[1] = "media"
  /\ \A i \in 1..11 : /\ AllStages[i] \in Stage
                      /\ (AllStages[i] = "transcription") <=> (i = 3)
                      /\ (AllStages[i] = "export") <=> (i = 11)
<1>1. Len(AllStages) = 11 /\ AllStages[1] = "media"
  BY DEF AllStages
<1>2. \A i \in 1..11 : /\ (AllStages[i] = "transcription") <=> (i = 3)
                       /\ (AllStages[i] = "export") <=> (i = 11)
  BY DEF AllStages
<1>3. \A i \in 1..11 : AllStages[i] \in Stage
  BY <1>1 DEF Stage
<1> QED BY <1>1, <1>2, <1>3

LEMMA FileFacts == FileCount \in Nat /\ Request = 1..FileCount /\ Formats \in Nat \ {0}
BY RequestAssumption, FormatsAssumption, FS_CardinalityType DEF FileCount

(* No file skips its transcription.                                        *)
LEMMA TranscriptionKept ==
  ASSUME RunTypeOK, ValidOptions, NEW i \in NextStages, stage < 3
  PROVE  i <= 3
<1>1. "transcription" \in options.stages
  BY DEF ValidOptions, Mandatory
<1>2. AllStages[3] = "transcription" /\ Len(AllStages) = 11
  BY StageFacts
<1>3. AllStages[3] \notin Skippable
  BY <1>1, <1>2 DEF Skippable
<1>4. stage \in Nat
  BY <1>2 DEF RunTypeOK
<1> QED BY <1>2, <1>3, <1>4 DEF NextStages

LEMMA NextStagesType ==
  ASSUME RunTypeOK, NEW i \in NextStages
  PROVE  i \in 1..Len(AllStages) /\ i > stage
BY StageFacts DEF NextStages, RunTypeOK

-----------------------------------------------------------------------------
(* The session inside a run *)

LEMMA ClientFacts ==
  ASSUME SInv, ClientStep
  PROVE  /\ call # "none" /\ interrupts' = interrupts
         /\ \/ call' = call /\ request' = request
            \/ /\ call' = "none" /\ process' = process
               /\ call = "transcribe" /\ reply' = "ok" => transcript' = request
               /\ call = "start" /\ reply' # "ok" => process = None
               /\ call = "shutdown" => process = None
<1> USE DEF SInv
<1>1. CASE Settle
  <2>1. reply' = "ok" <=> error = "none"
    BY <1>1 DEF Settle, TypeOK, Errors
  <2>2. call # "none"
    BY <1>1 DEF Settle, Control
  <2> QED BY <1>1, <2>1, <2>2 DEF Settle, Control, OwnTranscript, serviceVars, countVars
<1>2. CASE Launch \/ LaunchFails \/ Reap \/ Abandon \/ CapabilityMissing
  BY <1>2 DEF Launch, LaunchFails, Reap, Abandon, CapabilityMissing, Control, countVars
<1>3. CASE Send \/ Receive \/ EndOfFile
  <2>1. pc \in Commands
    BY <1>3 DEF Send, Receive, EndOfFile, Control
  <2>2. call # "none"
    BY <2>1 DEF Control, Commands
  <2>3. call' = call /\ request' = request /\ interrupts' = interrupts
    BY <1>3 DEF Send, Receive, EndOfFile, Raise, countVars
  <2> QED BY <2>2, <2>3
<1> QED BY <1>1, <1>2, <1>3 DEF ClientStep

LEMMA WorkerStepFacts ==
  ASSUME NEW w \in Worker, WorkerStep(w) \/ Die(w)
  PROVE  UNCHANGED <<call, request, process, reply, transcript, interrupts>>
BY DEF WorkerStep, Take, Answer, Exit, Die, clientVars, serviceVars, callVars, replyVars,
       countVars

LEMMA SessionStepFacts ==
  ASSUME SInv, SessionStep
  PROVE  /\ interrupts' = interrupts
         /\ \/ /\ call' = call /\ request' = request
               /\ call = "none" => UNCHANGED <<process, reply, transcript>>
            \/ /\ call # "none" /\ call' = "none" /\ process' = process
               /\ call = "transcribe" /\ reply' = "ok" => transcript' = request
               /\ call = "start" /\ reply' # "ok" => process = None
               /\ call = "shutdown" => process = None
<1>1. CASE ClientStep
  BY <1>1, ClientFacts
<1>2. CASE \E w \in Worker : WorkerStep(w) \/ Die(w)
  BY <1>2, WorkerStepFacts
<1> QED BY <1>1, <1>2 DEF SessionStep

(* An interrupt that comes between two calls.                              *)
LEMMA IdleInterruptInv ==
  ASSUME SInv, call = "none", interrupts' = interrupts + 1,
         UNCHANGED <<serviceVars, callVars, replyVars, workerVars, launched, calls, deaths>>
  PROVE  SInv'
<1> USE DEF SInv, serviceVars, callVars, replyVars, workerVars
<1>1. interrupts' \in Nat /\ interrupts' # 0
  BY DEF TypeOK
<1>2. TypeOK' /\ Control' /\ OwnTranscript'
  BY <1>1 DEF TypeOK, Control, OwnTranscript
<1>3. Processes' /\ Latest'
  BY DisksKeep
<1>4. Attended' /\ Exchange'
  BY <1>1 DEF Attended, Exchange
<1> QED BY <1>2, <1>3, <1>4

LEMMA SessionInv == SInv /\ PInv /\ [RunNext]_runVars => SInv'
<1> SUFFICES ASSUME SInv, PInv, [RunNext]_runVars PROVE SInv'
  OBVIOUS
<1>1. calls' = calls => calls' \in Nat
  BY DEF SInv, TypeOK
<1>2. UNCHANGED sessionVars => SInv'
  BY StutterInv
<1>3. CASE StartProvider
  <2>1. interrupts = 0
    BY <1>3 DEF StartProvider, PInv, SessionUse, SInv, TypeOK
  <2> QED BY <1>1, <1>2, <1>3, <2>1, StartInv DEF StartProvider, countVars
<1>4. CASE Transcription
  <2>1. interrupts = 0
    BY <1>4 DEF Transcription, PInv, SessionUse, SInv, TypeOK
  <2>2. file \in Request
    BY <1>4, FileFacts DEF Transcription, PInv, RunTypeOK, Decided, InFile
  <2> QED BY <1>1, <1>4, <2>1, <2>2, TranscribeInv DEF Transcription, countVars
<1>5. CASE Close
  BY <1>1, <1>2, <1>5, ShutdownInv DEF Close, countVars
<1>6. CASE InterruptRun
  BY <1>6, InterruptInv, IdleInterruptInv DEF InterruptRun
<1>7. CASE SessionStep
  BY <1>7, ClientInv, WorkerInv DEF SessionStep
<1>8. CASE \/ Begin \/ WriteMetadata \/ ProviderStarted \/ Opened \/ NextFile
           \/ TranslationIncomplete \/ StageStarts \/ Work \/ Transcribed
           \/ StageCompletes \/ StartExport \/ ExportFormat \/ Closed \/ Cleanup \/ Cancel
  BY <1>2, <1>8 DEF Begin, WriteMetadata, ProviderStarted, Opened, NextFile,
     TranslationIncomplete, StageStarts, Work, Transcribed, StageCompletes, StartExport,
     ExportFormat, Closed, Cleanup, Cancel
<1>9. CASE UNCHANGED runVars
  BY <1>2, <1>9 DEF runVars
<1> QED BY <1>3, <1>4, <1>5, <1>6, <1>7, <1>8, <1>9 DEF RunNext, PipelineStep

-----------------------------------------------------------------------------
(* The run's own state *)

LEMMA OutputFacts ==
  ASSUME RunTypeOK, file \in Request
  PROVE  /\ Output \in OutputFile \/ format = Formats + 1
         /\ options.path[file] \in Path
BY FileFacts DEF RunTypeOK, Output, OutputFile, Options

LEMMA OptionsInv ==
  ASSUME PInv, [RunNext]_runVars
  PROVE  options' = options /\ ValidOptions'
<1>1. options' = options
  BY DEF RunNext, PipelineStep, Begin, WriteMetadata, StartProvider, ProviderStarted, Opened,
     NextFile, TranslationIncomplete, StageStarts, Work, Transcription, Transcribed,
     StageCompletes, StartExport, ExportFormat, Close, Closed, Cleanup, SessionStep, Cancel,
     InterruptRun, Unwind, runVars, pipelineVars
<1>2. at' \in InFile => \/ at \in InFile /\ stage' = stage
                        \/ stage' \in NextStages
                        \/ stage' = 1
  BY DEF RunNext, PipelineStep, Begin, WriteMetadata, StartProvider, ProviderStarted, Opened,
     NextFile, TranslationIncomplete, StageStarts, Work, Transcription, Transcribed,
     StageCompletes, StartExport, ExportFormat, Close, Closed, Cleanup, SessionStep, Cancel,
     InterruptRun, Unwind, runVars, pipelineVars, Goto, Leave, Checkpoint, Fail, Succeed, InFile
<1>3. "media" \in options.stages /\ AllStages[1] = "media"
  BY StageFacts DEF PInv, ValidOptions, Mandatory
<1>4. at' \in InFile => ThisStage' \in options.stages
  BY <1>2, <1>3 DEF PInv, ValidOptions, ThisStage, NextStages
<1> QED BY <1>1, <1>4 DEF PInv, ValidOptions

LEMMA TypeInv == SInv /\ PInv /\ [RunNext]_runVars => RunTypeOK'
<1> SUFFICES ASSUME SInv, PInv, [RunNext]_runVars PROVE RunTypeOK'
  OBVIOUS
<1> USE FileFacts DEF PInv, Goto, Leave, Checkpoint
<1>3. at \in InFile => file \in Request /\ Recorded(file, "succeeded") \in [Request -> {"succeeded", "failed", Undecided}]
                     /\ Recorded(file, "failed") \in [Request -> {"succeeded", "failed", Undecided}]
                     /\ file + 1 \in 1..(FileCount + 1)
  BY DEF RunTypeOK, Decided, Recorded
<1>4. CASE Begin \/ WriteMetadata \/ StartProvider \/ ProviderStarted \/ Opened
  BY <1>4 DEF RunTypeOK, Begin, WriteMetadata, StartProvider, ProviderStarted, Opened, Places,
     Endings
<1>13. CASE NextFile
  <2>1. 1 \in 1..Len(AllStages) /\ 1 \in 1..(Formats + 1)
    BY StageFacts
  <2> QED BY <1>13, <2>1 DEF RunTypeOK, NextFile, Places, Endings
<1>5. CASE TranslationIncomplete \/ StageStarts
  BY <1>3, <1>5 DEF RunTypeOK, TranslationIncomplete, StageStarts, Fail, InFile, Places, Endings
<1>6. CASE Work
  BY <1>3, <1>6, NextStagesType DEF RunTypeOK, Work, Fail, InFile, Places, Endings
<1>7. CASE Transcription \/ StartExport
  BY <1>7 DEF RunTypeOK, Transcription, StartExport, Places
<1>8. CASE Transcribed
  BY <1>3, <1>8 DEF RunTypeOK, Transcribed, Fail, InFile, Places, Endings, SInv, TypeOK
<1>9. CASE StageCompletes
  BY <1>3, <1>9, NextStagesType DEF RunTypeOK, StageCompletes, Succeed, InFile, Places, Endings
<1>10. CASE ExportFormat
  <2>1. at \in InFile /\ format \in 1..Formats
    BY <1>10 DEF ExportFormat, InFile, RunTypeOK, Exporting, LastFormat
  <2>2. Output \in OutputFile /\ source \in Contents
    BY <1>3, <1>10, <2>1, OutputFacts DEF ExportFormat, RunTypeOK, OwnSource, Exporting, Contents
  <2>3. disk' \in [OutputFile -> Contents] /\ format' \in 1..(Formats + 1)
    BY <1>10, <2>1, <2>2 DEF ExportFormat, RunTypeOK
  <2> QED BY <1>3, <1>10, <2>1, <2>3 DEF RunTypeOK, ExportFormat, Fail, Succeed, Places, Endings
<1>11. CASE Close \/ Closed \/ Cleanup \/ Cancel
  BY <1>11 DEF RunTypeOK, Close, Closed, Cleanup, Cancel, Places, Endings
<1>12. CASE SessionStep \/ InterruptRun \/ UNCHANGED runVars
  BY <1>12 DEF RunTypeOK, SessionStep, InterruptRun, Unwind, Places, Endings, runVars, pipelineVars
<1> QED BY <1>4, <1>5, <1>6, <1>7, <1>8, <1>9, <1>10, <1>11, <1>12, <1>13
  DEF RunNext, PipelineStep

(* Where the run uses the session, and where it has no Worker any more.    *)
LEMMA UseInv == SInv /\ PInv /\ [RunNext]_runVars => SessionUse' /\ NoWorkerUnattended'
<1> SUFFICES ASSUME SInv, PInv, [RunNext]_runVars PROVE SessionUse' /\ NoWorkerUnattended'
  OBVIOUS
<1> USE DEF PInv, SessionUse, NoWorkerUnattended, Unattended, Running, InFile, Goto, Leave,
            Checkpoint, sessionVars, callVars, serviceVars, replyVars, countVars
<1>1. interrupts \in Nat
  BY DEF SInv, TypeOK
<1>4. CASE Begin \/ WriteMetadata \/ ProviderStarted \/ Opened \/ NextFile
  BY <1>4 DEF Begin, WriteMetadata, ProviderStarted, Opened, NextFile
<1>5. CASE StartProvider
  BY <1>5 DEF StartProvider, Start, Refuse, Enter
<1>6. CASE TranslationIncomplete \/ StageStarts \/ Work \/ StartExport
  BY <1>6 DEF TranslationIncomplete, StageStarts, Work, StartExport, Fail
<1>7. CASE Transcription
  BY <1>7 DEF Transcription, Transcribe, Refuse, Enter
<1>8. CASE Transcribed \/ StageCompletes \/ ExportFormat
  BY <1>8 DEF Transcribed, StageCompletes, ExportFormat, Fail, Succeed
<1>9. CASE Close
  <2>1. CASE opened
    BY <1>1, <1>9, <2>1 DEF Close, Shutdown, Enter, MustShutDown
  <2>2. CASE ~opened
    BY <1>1, <1>9, <2>2 DEF Close, MustShutDown
  <2> QED BY <2>1, <2>2
<1>10. CASE Closed \/ Cleanup \/ Cancel \/ UNCHANGED runVars
  BY <1>10, <1>1 DEF Closed, Cleanup, Cancel, runVars, pipelineVars, Decided, Endings, Closing
<1>11. CASE SessionStep
  BY <1>11, SessionStepFacts DEF SessionStep, pipelineVars
<1>12. CASE InterruptRun
  <2>1. call' = "none" /\ interrupts' > 0
    BY <1>1, <1>12 DEF InterruptRun, Interrupt
  <2> QED BY <1>12, <2>1 DEF InterruptRun, Unwind
<1> QED BY <1>4, <1>5, <1>6, <1>7, <1>8, <1>9, <1>10, <1>11, <1>12 DEF RunNext, PipelineStep

(* Each stage after the transcription works on the file's own transcript.  *)
LEMMA SourceInv == SInv /\ PInv /\ [RunNext]_runVars => OwnSource'
<1> SUFFICES ASSUME SInv, PInv, [RunNext]_runVars PROVE OwnSource'
  OBVIOUS
<1> USE DEF PInv, OwnSource, PastTranscription, InFile, Goto, Leave, Checkpoint
<1>1. stage \in Nat /\ (ThisStage = "transcription" <=> stage = 3)
                    /\ (ThisStage = "export" => stage = 11)
  BY StageFacts DEF RunTypeOK, ThisStage
<1>2. CASE \/ Begin \/ WriteMetadata \/ StartProvider \/ ProviderStarted \/ Opened
           \/ Close \/ Closed \/ Cleanup
  BY <1>2 DEF Begin, WriteMetadata, StartProvider, ProviderStarted, Opened, Close, Closed,
     Cleanup
<1>3. CASE NextFile \/ TranslationIncomplete \/ StageStarts
  BY <1>3 DEF NextFile, TranslationIncomplete, StageStarts, Fail
<1>4. stage' \in NextStages => (stage' > 3 => stage >= 3) /\ (stage' = 3 => stage < 3)
  BY <1>1, TranscriptionKept, NextStagesType, StageFacts
<1>5. CASE Work
  BY <1>1, <1>4, <1>5 DEF Work, Fail, RunTypeOK
<1>6. CASE Transcription
  BY <1>1, <1>6 DEF Transcription, Transcribe, Refuse, Enter
<1>7. CASE Transcribed
  BY <1>7 DEF Transcribed, Fail
<1>8. CASE StageCompletes
  BY <1>1, <1>4, <1>8 DEF StageCompletes, Succeed, LastStage
<1>9. CASE StartExport
  BY <1>1, <1>9 DEF StartExport
<1>10. CASE ExportFormat
  BY <1>10 DEF ExportFormat, Fail, Succeed
<1>11. CASE SessionStep
  BY <1>11, SessionStepFacts DEF SessionStep, pipelineVars, SessionUse
<1>12. CASE Cancel \/ UNCHANGED runVars
  BY <1>12 DEF Cancel, runVars, pipelineVars, sessionVars, callVars, replyVars
<1>13. CASE InterruptRun
  BY <1>13 DEF InterruptRun, Unwind
<1> QED BY <1>2, <1>3, <1>5, <1>6, <1>7, <1>8, <1>9, <1>10, <1>11, <1>12, <1>13
  DEF RunNext, PipelineStep

(* What the export of the file at hand has written.                        *)
LEMMA ExportInv == SInv /\ PInv /\ [RunNext]_runVars => Exporting'
<1> SUFFICES ASSUME SInv, PInv, [RunNext]_runVars PROVE Exporting'
  OBVIOUS
<1> USE DEF PInv, Exporting, Goto, Leave, Checkpoint
<1>0. /\ format \in Nat /\ LastFormat \in Nat \ {0} /\ options' = options
      /\ LastFormat' = LastFormat /\ stage \in Nat
  BY FileFacts, OptionsInv, StageFacts DEF RunTypeOK, LastFormat
<1>1. (ThisStage = "transcription" => stage = 3) /\ (ThisStage = "export" => stage = 11)
  BY StageFacts DEF RunTypeOK, ThisStage
<1>2. CASE \/ Begin \/ WriteMetadata \/ StartProvider \/ ProviderStarted \/ Opened
           \/ Close \/ Closed \/ Cleanup
  BY <1>2 DEF Begin, WriteMetadata, StartProvider, ProviderStarted, Opened, Close, Closed,
     Cleanup
<1>3. CASE NextFile \/ TranslationIncomplete \/ StageStarts
  BY <1>3 DEF NextFile, TranslationIncomplete, StageStarts, Fail
<1>5. CASE Work
  BY <1>5 DEF Work, Fail, ThisStage
<1>6. CASE Transcription \/ Transcribed
  BY <1>1, <1>6 DEF Transcription, Transcribed, Fail, OwnSource, ThisStage
<1>8. CASE StageCompletes
  <2>1. ThisStage # LastStage => ThisStage # "export"
    BY <1>8 DEF StageCompletes, LastStage, ValidOptions, InputStages, InFile, RunTypeOK, Options
  <2> QED BY <1>0, <1>1, <1>8, <2>1
    DEF StageCompletes, Succeed, LastStage, PastTranscription, ThisStage
<1>9. CASE StartExport
  BY <1>0, <1>1, <1>9 DEF StartExport, PastTranscription, ThisStage
<1>10. CASE ExportFormat
  <2>1. CASE at' \in {"closing", "file"}
    BY <2>1
  <2>2. CASE at' \notin {"closing", "file"}
    <3>1. /\ at = "exporting" /\ disk' = [disk EXCEPT ![Output] = source]
          /\ format' = format + 1 /\ UNCHANGED <<options, file, stage>>
          /\ IF format < LastFormat
               THEN at' = at
               ELSE options.command = "run" /\ at' = "worked"
      BY <1>10, <2>2 DEF ExportFormat, Succeed, Fail
    <3>2. source = file
      BY <3>1 DEF OwnSource, InFile
    <3>3. \A k \in 1..format : disk'[<<options.path[file], k>>] = file
      <4>1. file \in Request /\ format \in 1..Formats
        BY <1>0, <3>1, FileFacts DEF RunTypeOK, Decided, InFile, LastFormat
      <4>2. options.path[file] \in Path
        BY <4>1, OutputFacts
      <4>3. \A k \in 1..format : <<options.path[file], k>> \in DOMAIN disk
        BY <4>1, <4>2, FileFacts DEF RunTypeOK, OutputFile
      <4> QED BY <3>1, <3>2, <4>1, <4>3 DEF Written, Output
    <3> QED BY <1>0, <3>1, <3>3 DEF Written, PastTranscription, ThisStage
  <2> QED BY <2>1, <2>2
<1>11. CASE SessionStep \/ Cancel \/ UNCHANGED runVars
  BY <1>11 DEF SessionStep, Cancel, runVars, pipelineVars, Written, LastFormat, ThisStage,
     PastTranscription
<1>13. CASE InterruptRun
  BY <1>13 DEF InterruptRun, Unwind
<1> QED BY <1>2, <1>3, <1>5, <1>6, <1>8, <1>9, <1>10, <1>11, <1>13
  DEF RunNext, PipelineStep

(* The file at hand is decided: the only two ways the record changes.      *)
LEMMA RecordedFacts ==
  ASSUME RunTypeOK, Decided, at \in InFile, NEW o, outcome' = Recorded(file, o)
  PROVE  /\ file \in Request /\ outcome'[file] = o
         /\ \A f \in Request : f # file => outcome'[f] = outcome[f]
BY FileFacts DEF RunTypeOK, Decided, Recorded

LEMMA SucceedDecides ==
  ASSUME RunTypeOK, Decided, at \in InFile, Succeed, UNCHANGED options
  PROVE  Decided'
<1>1. /\ file \in Request /\ outcome'[file] = "succeeded"
      /\ \A f \in Request : f # file => outcome'[f] = outcome[f]
  BY RecordedFacts DEF Succeed
<1>2. Request \subseteq Nat
  BY FileFacts
<1>3. at' = "file" /\ file' = file + 1 /\ ending' = ending
  BY DEF Succeed, Goto
<1>4. at \notin Closing
  BY DEF InFile, Closing
<1>5. SomeFailed' => SomeFailed
  BY <1>1 DEF SomeFailed
<1>6. ending' = Undecided
  BY <1>3, <1>4 DEF Decided
<1>7. \A f \in Request : /\ f < file' => outcome'[f] # Undecided
                         /\ f > file' => outcome'[f] = Undecided
                         /\ f = file' => outcome'[f] = Undecided
  BY <1>1, <1>2, <1>3, UndecidedAssumption DEF Decided
<1> QED BY <1>3, <1>4, <1>5, <1>6, <1>7, UndecidedAssumption DEF Decided, InFile, Closing, Endings

LEMMA FailDecides ==
  ASSUME RunTypeOK, Decided, at \in InFile, Fail, UNCHANGED options
  PROVE  Decided'
<1>1. /\ file \in Request /\ outcome'[file] = "failed"
      /\ \A f \in Request : f # file => outcome'[f] = outcome[f]
  BY RecordedFacts DEF Fail
<1>2. Request \subseteq Nat
  BY FileFacts
<1>3. at \notin Closing
  BY DEF InFile, Closing
<1>4. SomeFailed'
  BY <1>1 DEF SomeFailed
<1>5. CASE options.continueOnError
  <2>1. at' = "file" /\ file' = file + 1 /\ ending' = Undecided
    BY <1>3, <1>5 DEF Fail, Goto, Decided
  <2>2. \A f \in Request : /\ f < file' => outcome'[f] # Undecided
                           /\ f > file' => outcome'[f] = Undecided
                           /\ f = file' => outcome'[f] = Undecided
    BY <1>1, <1>2, <2>1, UndecidedAssumption DEF Decided
  <2> QED BY <1>5, <2>1, <2>2, UndecidedAssumption DEF Decided, InFile, Closing, Endings
<1>6. CASE ~options.continueOnError
  <2>1. at' = "closing" /\ file' = file /\ ending' = "completed"
    BY <1>6 DEF Fail, Goto, Leave
  <2>2. \A f \in Request : /\ f < file' => outcome'[f] # Undecided
                           /\ f > file' => outcome'[f] = Undecided
                           /\ f = file' => outcome'[f] # "succeeded"
    BY <1>1, <1>2, <2>1 DEF Decided
  <2> QED BY <1>4, <1>6, <2>1, <2>2 DEF Decided, InFile, Closing, Endings
<1> QED BY <1>5, <1>6

(* A step that decides nothing, and that does not end the run as complete. *)
LEMMA NothingDecided ==
  ASSUME Decided, UNCHANGED <<options, file, outcome>>, at' \in InFile => at \in InFile,
         \/ at' \notin Closing /\ at \notin Closing /\ ending' = ending
         \/ at' \in Closing /\ ending' \in Endings \ {"completed"}
         \/ at' \in Closing /\ at \in Closing /\ ending' = ending
  PROVE  Decided'
BY UndecidedAssumption DEF Decided, SomeFailed, Closing, InFile, Endings

LEMMA DecidedInv == SInv /\ PInv /\ [RunNext]_runVars => Decided'
<1> SUFFICES ASSUME SInv, PInv, [RunNext]_runVars PROVE Decided'
  OBVIOUS
<1> USE DEF PInv, Goto, Leave, Checkpoint
<1>0. InFile \cap Closing = {} /\ "file" \notin Closing /\ "file" \notin InFile
  BY DEF InFile, Closing
<1>1. CASE \/ Begin \/ WriteMetadata \/ StartProvider \/ ProviderStarted \/ Opened
           \/ Close \/ Closed \/ Cancel
  BY <1>1, NothingDecided
  DEF Begin, WriteMetadata, StartProvider, ProviderStarted, Opened, Close, Closed, Cancel,
      InFile, Closing, Endings
<1>2. CASE Cleanup
  <2>1. ending' = ending \/ ending' = "failed"
    BY <1>2 DEF Cleanup
  <2> QED BY <1>2, <2>1, NothingDecided DEF Cleanup, InFile, Closing, Endings
<1>3. CASE NextFile
  <2>1. CASE NoFileLeft
    <3>1. at' = "closing" /\ ending' = "completed" /\ UNCHANGED <<options, file, outcome>>
      BY <1>3, <2>1 DEF NextFile
    <3>2. \A f \in Request : outcome[f] # Undecided
      BY <2>1, FileFacts DEF NoFileLeft, Decided, RunTypeOK
    <3> QED BY <3>1, <3>2 DEF Decided, InFile, Closing, Endings
  <2>2. CASE ~NoFileLeft /\ at' = "stage"
    <3>1. /\ at = "file" /\ UNCHANGED <<options, file, outcome, ending>>
          /\ file <= FileCount
      BY <1>3, <2>2, FileFacts DEF NextFile, NoFileLeft, RunTypeOK
    <3> QED BY <2>2, <3>1, UndecidedAssumption DEF Decided, SomeFailed, InFile, Closing, Endings
  <2>3. CASE ~NoFileLeft /\ at' # "stage"
    BY <1>3, <2>3, NothingDecided DEF NextFile, InFile, Closing, Endings
  <2> QED BY <2>1, <2>2, <2>3
<1>4. CASE TranslationIncomplete
  BY <1>4, FailDecides DEF TranslationIncomplete, InFile
<1>5. CASE StageStarts \/ Transcription \/ StartExport
  BY <1>5, NothingDecided DEF StageStarts, Transcription, StartExport, InFile, Closing, Endings
<1>6. CASE Work
  <2>1. CASE Fail
    BY <1>6, <2>1, FailDecides DEF Work, InFile
  <2>2. CASE ~Fail
    BY <1>6, <2>2, NothingDecided DEF Work, InFile, Closing, Endings
  <2> QED BY <2>1, <2>2
<1>7. CASE Transcribed
  <2>1. CASE Fail
    BY <1>7, <2>1, FailDecides DEF Transcribed, InFile
  <2>2. CASE ~Fail
    BY <1>7, <2>2, NothingDecided DEF Transcribed, InFile, Closing, Endings
  <2> QED BY <2>1, <2>2
<1>8. CASE StageCompletes
  <2>1. CASE Succeed
    BY <1>8, <2>1, SucceedDecides DEF StageCompletes, InFile
  <2>2. CASE ~Succeed
    BY <1>8, <2>2, NothingDecided DEF StageCompletes, InFile, Closing, Endings
  <2> QED BY <2>1, <2>2
<1>9. CASE ExportFormat
  <2>1. CASE Succeed
    BY <1>9, <2>1, SucceedDecides DEF ExportFormat, InFile
  <2>2. CASE Fail
    BY <1>9, <2>2, FailDecides DEF ExportFormat, InFile
  <2>3. CASE ~Succeed /\ ~Fail
    BY <1>9, <2>3, NothingDecided DEF ExportFormat, InFile, Closing, Endings
  <2> QED BY <2>1, <2>2, <2>3
<1>10. CASE SessionStep \/ UNCHANGED runVars
  BY <1>10 DEF SessionStep, runVars, pipelineVars, Decided, SomeFailed
<1>11. CASE InterruptRun
  BY <1>11, NothingDecided DEF InterruptRun, Unwind, InFile, Closing, Endings
<1> QED BY <1>1, <1>2, <1>3, <1>4, <1>5, <1>6, <1>7, <1>8, <1>9, <1>10, <1>11
  DEF RunNext, PipelineStep

(* A file that is written gets its own outputs, and leaves those of the    *)
(* others alone: either no two files share them, or none is replaced.      *)
LEMMA OutputsInv == SInv /\ PInv /\ [RunNext]_runVars => SucceededOutputsStay'
<1> SUFFICES ASSUME SInv, PInv, [RunNext]_runVars,
                    (DistinctPaths \/ (options.command = "run" /\ ~options.replace))',
                    NEW f \in Request, outcome'[f] = "succeeded",
                    NEW k \in 1..LastFormat'
             PROVE  disk'[<<options'.path[f], k>>] = f
  BY DEF SucceededOutputsStay
<1>1. /\ options' = options /\ k \in 1..LastFormat
      /\ DistinctPaths \/ (options.command = "run" /\ ~options.replace)
  BY OptionsInv DEF DistinctPaths, LastFormat
<1>2. CASE outcome[f] = "succeeded"
  <2>1. f < file /\ disk[<<options.path[f], k>>] = f
    <3>1. file \in Nat /\ f \in Nat
      BY FileFacts DEF PInv, RunTypeOK
    <3>2. f < file
      BY <1>2, <3>1, UndecidedAssumption DEF PInv, Decided
    <3> QED BY <1>1, <1>2, <3>2 DEF PInv, SucceededOutputsStay
  <2>2. CASE UNCHANGED disk
    BY <1>1, <2>1, <2>2
  <2>3. CASE ~UNCHANGED disk
    <3>1. /\ at = "exporting" /\ MayWrite
          /\ disk' = [disk EXCEPT ![Output] = source]
      BY <2>3 DEF RunNext, PipelineStep, Begin, WriteMetadata, StartProvider, ProviderStarted,
         Opened, NextFile, TranslationIncomplete, StageStarts, Work, Transcription, Transcribed,
         StageCompletes, StartExport, ExportFormat, Close, Closed, Cleanup, SessionStep, Cancel,
         InterruptRun, Unwind, runVars, pipelineVars
    <3>2. file \in Request
      BY <3>1, FileFacts DEF PInv, RunTypeOK, Decided, InFile
    <3>3. Output # <<options.path[f], k>>
      <4>1. CASE DistinctPaths
        BY <2>1, <3>2, <4>1, FileFacts DEF DistinctPaths, Output
      <4>2. CASE options.command = "run" /\ ~options.replace
        BY <2>1, <3>1, <4>2, FileFacts DEF MayWrite, Nothing
      <4> QED BY <1>1, <4>1, <4>2
    <3>4. <<options.path[f], k>> \in OutputFile
      BY <1>1, FileFacts DEF PInv, RunTypeOK, Options, OutputFile, LastFormat
    <3> QED BY <1>1, <2>1, <3>1, <3>3, <3>4 DEF PInv, RunTypeOK
  <2> QED BY <2>2, <2>3
<1>3. CASE outcome[f] # "succeeded"
  <2>0. Fail => outcome'[f] # "succeeded"
    BY <1>3 DEF Fail, Recorded, PInv, RunTypeOK
  <2>1. /\ f = file /\ at \in InFile
        /\ (StageCompletes /\ UNCHANGED disk) \/ ExportFormat
        /\ Succeed
    <3>1. Succeed \/ Fail \/ UNCHANGED outcome
      BY DEF RunNext, PipelineStep, Begin, WriteMetadata, StartProvider, ProviderStarted,
         Opened, NextFile, TranslationIncomplete, StageStarts, Work, Transcription, Transcribed,
         StageCompletes, StartExport, ExportFormat, Close, Closed, Cleanup, SessionStep, Cancel,
         InterruptRun, Unwind, runVars, pipelineVars
    <3>2. outcome \in [Request -> {"succeeded", "failed", Undecided}]
      BY DEF PInv, RunTypeOK
    <3>3. Succeed => f = file
      BY <1>3, <3>2 DEF Succeed, Recorded
    <3>4. Succeed /\ ~Fail /\ ~UNCHANGED outcome
      BY <1>3, <2>0, <3>1
    <3>5. StageCompletes \/ ExportFormat
      BY <3>4 DEF RunNext, PipelineStep, Begin, WriteMetadata, StartProvider, ProviderStarted,
         Opened, NextFile, TranslationIncomplete, StageStarts, Work, Transcription, Transcribed,
         StartExport, Close, Closed, Cleanup, SessionStep, Cancel,
         InterruptRun, Unwind, runVars, pipelineVars
    <3> QED BY <3>3, <3>4, <3>5 DEF StageCompletes, ExportFormat, InFile
  <2>2. CASE StageCompletes
    <3>1. /\ ThisStage = LastStage /\ options.command = "run" /\ at = "worked"
          /\ UNCHANGED disk
      BY <2>1, <2>2 DEF StageCompletes, Goto, Leave, Succeed
    <3> QED BY <1>1, <2>1, <3>1 DEF PInv, Exporting, LastStage, Written
  <2>3. CASE ExportFormat
    <3>1. /\ disk' = [disk EXCEPT ![Output] = source] /\ at = "exporting"
          /\ ~(format < LastFormat) /\ options.command # "run"
      BY <1>3, <2>0, <2>3 DEF ExportFormat
    <3>2. format = 1 /\ k = 1 /\ source = file
      BY <1>1, <2>1, <3>1, FileFacts DEF PInv, Exporting, LastFormat, RunTypeOK, OwnSource
    <3>3. <<options.path[f], k>> \in OutputFile
      BY <1>1, FileFacts DEF PInv, RunTypeOK, Options, OutputFile, LastFormat
    <3> QED BY <1>1, <2>1, <3>1, <3>2, <3>3 DEF Output, PInv, RunTypeOK
  <2> QED BY <2>1, <2>2, <2>3
<1> QED BY <1>2, <1>3

(* Only the very end of a run that completed removes the workspace.        *)
LEMMA WorkspaceInv == SInv /\ PInv /\ [RunNext]_runVars => Workspace'
<1> SUFFICES ASSUME SInv, PInv, [RunNext]_runVars PROVE Workspace'
  OBVIOUS
<1> USE DEF PInv, Workspace, WorkspaceKept, Goto, Leave, Checkpoint
<1>1. CASE \/ Begin \/ WriteMetadata \/ StartProvider \/ ProviderStarted \/ Opened \/ NextFile
           \/ StageStarts \/ Transcription \/ StartExport \/ Close \/ Cancel
  BY <1>1 DEF Begin, WriteMetadata, StartProvider, ProviderStarted, Opened, NextFile, StageStarts,
     Transcription, StartExport, Close, Cancel
<1>2. CASE TranslationIncomplete \/ Work \/ Transcribed \/ StageCompletes \/ ExportFormat
  BY <1>2 DEF TranslationIncomplete, Work, Transcribed, StageCompletes, ExportFormat, Fail,
     Succeed
<1>3. CASE Closed
  BY <1>3 DEF Closed
<1>4. CASE Cleanup
  BY <1>4 DEF Cleanup, RemovesWorkdir, SomeFailed
<1>5. CASE SessionStep \/ UNCHANGED runVars
  BY <1>5 DEF SessionStep, runVars, pipelineVars, SomeFailed
<1>6. CASE InterruptRun
  BY <1>6 DEF InterruptRun, Unwind
<1> QED BY <1>1, <1>2, <1>3, <1>4, <1>5, <1>6 DEF RunNext, PipelineStep

(* Work begins in the step after a checkpoint that saw the token unset.    *)
LEMMA LateInv == SInv /\ PInv /\ [RunNext]_runVars => Late'
<1> SUFFICES ASSUME SInv, PInv, [RunNext]_runVars PROVE Late'
  OBVIOUS
<1> USE DEF PInv, Late, Goto, Leave, Checkpoint
<1>1. CASE \/ Begin \/ WriteMetadata \/ StartProvider \/ ProviderStarted \/ Opened \/ NextFile
           \/ TranslationIncomplete \/ Transcribed \/ StageCompletes \/ ExportFormat
           \/ Close \/ Closed \/ Cleanup
  BY <1>1 DEF Begin, WriteMetadata, StartProvider, ProviderStarted, Opened, NextFile,
     TranslationIncomplete, Transcribed, StageCompletes, ExportFormat, Close, Closed, Cleanup,
     Fail, Succeed
<1>2. CASE StageStarts
  BY <1>2 DEF StageStarts, Polled
<1>3. CASE Work \/ Transcription \/ StartExport
  BY <1>3 DEF Work, Transcription, StartExport, Fail
<1>4. CASE SessionStep \/ Cancel \/ InterruptRun \/ UNCHANGED runVars
  BY <1>4 DEF SessionStep, Cancel, InterruptRun, Unwind, runVars, pipelineVars
<1> QED BY <1>1, <1>2, <1>3, <1>4 DEF RunNext, PipelineStep

-----------------------------------------------------------------------------
(* The theorems *)

LEMMA RunInitInv == RunInit => RunInv
<1> SUFFICES ASSUME RunInit PROVE RunInv
  OBVIOUS
<1>1. SInv
  BY InitInv DEF RunInit
<1>2. /\ at = "begin" /\ file = 1 /\ stage = 1 /\ source = None /\ format = 1
      /\ outcome = [f \in Request |-> Undecided] /\ ending = Undecided /\ opened = FALSE
      /\ workdir = "absent" /\ cancelled = FALSE /\ late = 0 /\ options \in OptionSets
      /\ call = "none" /\ interrupts = 0 /\ process = None
  BY DEF RunInit, SessionInit
<1>3. 1 \in Request /\ 1 \in 1..(FileCount + 1) /\ Request \subseteq Nat
  BY FileFacts, RequestAssumption
<1>4. /\ options \in Options /\ Mandatory(options.command) \subseteq options.stages
      /\ options.command = "transcribe" => options.stages \subseteq InputStages
  BY <1>2, OptionsAssumption
<1>5. RunTypeOK
  <2>1. disk \in [OutputFile -> Contents]
    BY DEF RunInit, Contents
  <2>2. 1 \in 1..Len(AllStages) /\ 1 \in 1..(Formats + 1)
    BY StageFacts, FileFacts
  <2> QED BY <1>2, <1>3, <1>4, <2>1, <2>2 DEF RunTypeOK, Places
<1>6. ValidOptions /\ SessionUse /\ NoWorkerUnattended /\ OwnSource /\ Exporting
  BY <1>2, <1>4 DEF ValidOptions, SessionUse, NoWorkerUnattended, OwnSource, Exporting, InFile,
     Running
<1>7. Decided /\ SucceededOutputsStay
  <2>1. \A f \in Request : outcome[f] = Undecided
    BY <1>2
  <2>2. Undecided \notin Endings /\ Undecided # "succeeded" /\ Undecided # "failed"
    BY UndecidedAssumption
  <2>3. SucceededOutputsStay /\ ~SomeFailed
    BY <2>1, <2>2 DEF SucceededOutputsStay, SomeFailed
  <2>4. \A f \in Request : ~(f < file)
    BY <1>2, FileFacts
  <2> QED BY <1>2, <2>1, <2>2, <2>3, <2>4 DEF Decided, InFile, Closing, Endings
<1>8. Workspace /\ Late
  BY <1>2 DEF Workspace, WorkspaceKept, Late
<1> QED BY <1>1, <1>5, <1>6, <1>7, <1>8 DEF RunInv, PInv

LEMMA RunNextInv == RunInv /\ [RunNext]_runVars => RunInv'
BY SessionInv, OptionsInv, TypeInv, UseInv, SourceInv, ExportInv, DecidedInv, OutputsInv,
   WorkspaceInv, LateInv DEF RunInv, PInv

LEMMA RunInvHolds == RunSpec => []RunInv
BY RunInitInv, RunNextInv, PTL DEF RunSpec

(* Every variable of a run keeps its type, the output files included.      *)
THEOREM RunTypeCorrect == RunSpec => []RunTypeOK
<1>1. RunInv => RunTypeOK
  BY DEF RunInv, PInv
<1> QED BY <1>1, RunInvHolds, PTL

(* What a file that succeeded wrote stays and is its own, unless the user  *)
(* lets inputs of one name replace each other's outputs.                   *)
THEOREM SucceededOutputsStayHolds == RunSpec => []SucceededOutputsStay
<1>1. RunInv => SucceededOutputsStay
  BY DEF RunInv, PInv
<1> QED BY <1>1, RunInvHolds, PTL

(* Failed, refused, cancelled or completed: the run ends with its Worker   *)
(* gone, unless it was interrupted.                                        *)
THEOREM SessionClosedHolds == RunSpec => []SessionClosed
<1>1. ASSUME RunInv, at = "ended", interrupts = 0
      PROVE  process = None /\ \A w \in Worker : state[w] \notin Serving
  <2>1. process = None
    BY <1>1 DEF RunInv, PInv, NoWorkerUnattended, Unattended
  <2> QED BY <1>1, <2>1, WorkerFacts DEF RunInv, SInv, Attended, Drained
<1>2. RunInv => SessionClosed
  BY <1>1 DEF SessionClosed, Serving
<1> QED BY <1>2, RunInvHolds, PTL

(* The workspace survives exactly the runs there is something to diagnose  *)
(* of, or that are told to keep it.                                        *)
THEOREM WorkspaceKeptHolds == RunSpec => []WorkspaceKept
<1>1. RunInv => WorkspaceKept
  BY DEF RunInv, PInv, Workspace
<1> QED BY <1>1, RunInvHolds, PTL

(* One stage at most begins after the user cancelled.                      *)
THEOREM LateWorkBoundedHolds == RunSpec => []LateWorkBounded
<1>1. RunInv => LateWorkBounded
  BY DEF RunInv, PInv, Late, LateWorkBounded
<1> QED BY <1>1, RunInvHolds, PTL

-----------------------------------------------------------------------------
(* The refinement: each step of a run is a step of RunReport, or none      *)

ReportEnding == IF at = "ended" THEN ending ELSE Undecided

LEMMA ReportStarts == RunInit => Report!ReportInit
<1> SUFFICES ASSUME RunInit PROVE Report!ReportInit
  OBVIOUS
<1>1. options \in Options
  BY OptionsAssumption DEF RunInit
<1> QED BY <1>1, FileFacts DEF RunInit, Options, Report!ReportInit, Report!Files

(* The file at hand is the next one to decide, and none has stopped the    *)
(* run.                                                                    *)
LEMMA Decides ==
  ASSUME RunInv, at \in InFile, UNCHANGED options, ReportEnding' = ReportEnding,
         NEW o \in {"succeeded", "failed"}, outcome' = Recorded(file, o)
  PROVE  Report!ReportNext
<1>1. file \in Request /\ Request = Report!Files
  BY FileFacts DEF RunInv, PInv, RunTypeOK, Decided, InFile, Report!Files
<1>2. at \notin Closing
  BY DEF InFile, Closing
<1>3. outcome[file] = Undecided /\ \A g \in 1..(file - 1) : outcome[g] # Undecided
  BY <1>1, <1>2, FileFacts DEF RunInv, PInv, Decided
<1>4. ~Report!Stopped
  BY <1>1, <1>2 DEF RunInv, PInv, Decided, SomeFailed, Report!Stopped
<1>5. at # "ended"
  BY DEF InFile
<1>6. Report!Decide(file)
  BY <1>3, <1>4, <1>5 DEF Report!Decide, Recorded, ReportEnding
<1> QED BY <1>1, <1>6 DEF Report!ReportNext

(* The run ends with the outcomes it has.                                  *)
LEMMA Ends ==
  ASSUME RunInv, RunInv', at # "ended", at' = "ended", UNCHANGED <<options, outcome>>
  PROVE  Report!ReportNext
<1>1. ending' \in Endings
  BY DEF RunInv, PInv, Decided, Closing
<1>2. CASE ending' = "completed"
  <2>1. (~options.continueOnError /\ SomeFailed) \/ \A f \in Request : outcome[f] # Undecided
    BY <1>2 DEF RunInv, PInv, Decided, SomeFailed
  <2>2. Report!Complete
    BY <1>2, <2>1, FileFacts
    DEF Report!Complete, Report!Stopped, Report!Files, SomeFailed, ReportEnding
  <2> QED BY <2>2 DEF Report!ReportNext
<1>3. CASE ending' # "completed"
  <2>1. Report!Stop
    BY <1>1, <1>3 DEF Report!Stop, Endings, ReportEnding
  <2> QED BY <2>1 DEF Report!ReportNext
<1> QED BY <1>2, <1>3

LEMMA ReportSteps ==
  RunInv /\ RunInv' /\ [RunNext]_runVars => [Report!ReportNext]_(Report!reportVars)
<1> SUFFICES ASSUME RunInv, RunInv', [RunNext]_runVars
             PROVE  Report!ReportNext \/ UNCHANGED Report!reportVars
  OBVIOUS
<1>1. options' = options
  BY OptionsInv DEF RunInv
<1>2. \/ UNCHANGED outcome
      \/ /\ at \in InFile /\ at' # "ended"
         /\ \E o \in {"succeeded", "failed"} : outcome' = Recorded(file, o)
  BY DEF RunNext, PipelineStep, Begin, WriteMetadata, StartProvider, ProviderStarted, Opened,
     NextFile, TranslationIncomplete, StageStarts, Work, Transcription, Transcribed,
     StageCompletes, StartExport, ExportFormat, Close, Closed, Cleanup, SessionStep, Cancel,
     InterruptRun, Unwind, runVars, pipelineVars, Goto, Leave, Checkpoint, Fail, Succeed, InFile
<1>3. at = "ended" => UNCHANGED <<at, ending, outcome>>
  BY DEF RunNext, PipelineStep, Begin, WriteMetadata, StartProvider, ProviderStarted, Opened,
     NextFile, TranslationIncomplete, StageStarts, Work, Transcription, Transcribed,
     StageCompletes, StartExport, ExportFormat, Close, Closed, Cleanup, SessionStep, Cancel,
     InterruptRun, Unwind, runVars, pipelineVars
<1>4. CASE at # "ended" /\ at' # "ended" /\ UNCHANGED outcome
  BY <1>1, <1>4 DEF Report!reportVars
<1>5. CASE at # "ended" /\ at' # "ended" /\ ~UNCHANGED outcome
  BY <1>1, <1>2, <1>5, Decides DEF ReportEnding
<1>6. CASE at # "ended" /\ at' = "ended"
  BY <1>1, <1>2, <1>6, Ends
<1>7. CASE at = "ended"
  BY <1>1, <1>3, <1>7 DEF Report!reportVars
<1> QED BY <1>4, <1>5, <1>6, <1>7

(* The caller's report: the files are decided one by one in their order, a *)
(* run that completes has decided them all or stopped at a failure, and    *)
(* nothing is added once it has ended.                                     *)
THEOREM ReportImplemented == RunSpec => ImplementsReport
<1>1. RunInit => Report!ReportInit
  BY ReportStarts
<1>2. RunInv /\ RunInv' /\ [RunNext]_runVars => [Report!ReportNext]_(Report!reportVars)
  BY ReportSteps
<1> QED BY <1>1, <1>2, RunInvHolds, PTL DEF RunSpec, ImplementsReport, Report!ReportSpec
=============================================================================
