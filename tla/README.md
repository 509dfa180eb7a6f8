# A verification project for VideoCaptioner

VideoCaptioner turns audio and video files into subtitles: it prepares the
audio, has it transcribed by a speech recogniser (ASR) in a process of its own,
sends the text in batches to a language model (LLM) for segmentation,
correction and translation, and writes subtitle files. It is driven from a
command line or from a Qt window.

This directory holds TLA+ models of it, the TLC configurations that check them,
and TLAPS proofs. Paths below are relative to the repository; those without a
directory are under `src/captioner/`.

## 1. Inventory

| Component | State it keeps | Operations | Interacts with |
|---|---|---|---|
| LLM executor, `llm/concurrency.py` | a thread pool and its futures during one call | `map` | subtitle service (caller), cancellation token (poll), LLM adapter (operation) |
| LLM adapter and retry, `llm/openai_adapter.py`, `llm/retry.py` | thread-local clients; three attempt counts during one call | one method per task | executor threads, the LLM over HTTP |
| Managed runtimes, `shared/runtimes.py` | on disk: directories, `current.json`, `.install.lock` | `status`, `install` (repair), `remove`, `command` | other processes through the disk, subprocesses, token |
| ASR session, `transcription/service.py`, `transcription/providers/` | started flag, fallback flag, device, client, process handle | `start`, `transcribe`, `shutdown`, `probe` | Worker process over two pipes |
| Worker processes, `workers/faster_whisper`, `workers/nemo`, `workers/qwen3` (`workers/fake` is a test double) | loaded model, shutdown flag | `hello`, `load`, `transcribe`, `shutdown`; mapping of what the library returns | its stdin and stdout |
| Run pipeline, `workflow/pipeline.py`, `workflow/workspace.py` | the run's results, workspace, outputs on disk | `run_files`, `transcribe_files` | session, subtitle service, token, observer |
| Cancellation, `workflow/progress.py`, `cli/main.py` | one event | `cancel`, `raise_if_cancelled`; first and second SIGINT | everything that polls it |
| Subtitle service, `subtitles/service.py`, `segmentation.py`, `quality.py` | none between calls | `segment`, `correct`, `translate`, `repair`, `check_quality`, `cleanup`, `export` | executor |
| Refine, `workflow/refine.py` | as the pipeline, without a session | `refine_srt` | subtitle service |
| GUI, `gui/main_window.py`, `gui/worker.py` | the current job, plan, queued signals | start, cancel, close, continue after a job | a background thread running the workflow |
| Model store, `models.py`, `workflow/model_preparation.py` | on disk: revisions, `current.json`, staging | `download`, `path` | other processes through the disk, the hub |
| Options, doctor, media, exporters, logging, i18n, packaging | none that a property is about | | |

What is hard in this code, and what makes each component correct:

* **Executor.** Threads complete in any order and fail on their own, the token
  is set between a poll and the work it guards, and an exception leaves the
  pool's context through a wait. Correct: one result per batch in input order;
  a failed batch costs no other; nothing outlives the call; cancelling is prompt.
* **Runtimes.** Several processes share a directory; `install` locks but
  `remove` does not, and both act on a status read earlier. Each step can fail, be
  cancelled, interrupted or cut off by a crash, and the file system may refuse a
  deletion, of which nobody is told. Correct: the pointer names only a probed
  runtime, and only `remove` takes a ready one away.
* **Session and Worker.** Lines carry no identifier, so request and answer are
  matched by counting; the Worker can die at any moment and, on a CUDA failure,
  is replaced in the middle of a call. Correct: the answer belongs to the
  request, models are never loaded twice, no Worker is left running.
* **Pipeline.** Stages fail, files share output names, the token is polled only
  between stages, and three things must be closed on every way out. Correct: what a
  succeeded file wrote stays, the report is truthful, the session is closed,
  the workspace survives a failure.
* **GUI.** A job's result and end are events, and each modal dialog handles events
  in a loop of its own, so the job that a dialog is about ends before the code
  after the dialog runs. Correct: one thread at a time, the window outlives it,
  nothing is launched that nobody waits for, every job ends for the window too.
* **Segmentation.** Windows overlap and may fail one by one; a readability cut may
  come one piece late or early, and what it leaves over is not measured again.
  Correct: what was proposed stays, cues stay near the limits, and every other cut is at or before a piece that passes them.
* **Adapter and refine.** Three retry loops are nested and none polls the token;
  each batch fails on its own; the repair changes texts after they were checked; an
  input may be translated already. Correct: what is sent after a cancellation is
  bounded, each cue is accounted for, a repair takes nothing away, the report is about what is exported.
* **Model store.** Downloads of the same model share a directory and a temporary
  file without a lock. Correct: `current.json` names a complete revision, and is
  left empty only by a write that fails or a death; a call that returns has everything it promised.
* **Transcript mapping.** The library's times are rounded, may lack, overlap or go back, and
  NeMo lists words and segments apart. Correct: no text is lost or moved, segments
  divide the words, and the mapping does not itself make the document invalid.

`PROJECT.json` lists each hazard at its line with the properties about it.

## 2. Modules

| Module | Extends or instantiates | What it is |
|---|---|---|
| `BatchMap` | | what a stage relies on: attempted once, answered in order, nothing left over |
| `LlmExecutor` | instantiates `BatchMap` | the executor, its threads, the token, SIGINT |
| `LlmExecutorProofs` | extends `LlmExecutor` | five theorems, one of them the refinement of `BatchMap` |
| `LlmAdapter` | | a call of the adapter as a value: requests, retries, second tries, rounds |
| `Refine` | extends `LlmAdapter` | `refine_srt` with the LLM stages, the quality checks, the repair and the export |
| `RefineProofs` | extends `Refine` | five theorems |
| `RuntimeStore` | | the runtime directory shared by processes |
| `RuntimeStoreProofs` | extends `RuntimeStore` | six theorems |
| `ModelStore` | | the model cache shared by processes |
| `ModelStoreProofs` | extends `ModelStore` | four theorems |
| `WorkerSession` | | service, provider client, NDJSON client and Worker processes |
| `WorkerSessionProofs` | extends `WorkerSession` | four theorems |
| `RunReport` | | what the caller of a run of several files is told |
| `RunPipeline` | extends `WorkerSession`, instantiates `RunReport` | `run_files` and `transcribe_files` on top of the session |
| `RunPipelineProofs` | extends `RunPipeline` and `WorkerSessionProofs` | six theorems, one of them the refinement of `RunReport` |
| `GuiJobs` | | the window, its background jobs and its modal dialogs |
| `GuiJobsProofs` | extends `GuiJobs` | four theorems |
| `TranscriptMapping` | | from what an ASR library returns to a `TranscriptDocument` |
| `Segmentation` | | `SubtitleService.segment`: windows, boundaries, cues |
| `TranscriptToCues` | extends `TranscriptMapping` and `Segmentation` | both, one after the other |
| `TranscriptToCuesProofs` | extends `TranscriptToCues` | nine theorems: about `Segmentation`, about the mapping, about both |
| `MC...` | extend one of the above | constant values for TLC |

Definitions marked "faulty variant" are used by no module: each is a plausible
mistake in the definition that follows it, there to show that a property notices.

### LlmExecutor

`pc` is the main thread inside `ParallelLlmExecutor.map`, `future[i]` the
state of batch `i`. `CallMap` is the code up to the choice between the
sequential path and the pool, `Submit` one `executor.submit`, `CollectResult`
and `CollectCancellation` one turn of the `as_completed` loop, `LeavePool` the
end of the `with` statement, which waits. A pool thread does `TakeFuture`,
`Checkpoint` (the poll in `_run_one`), `RunOperation`, and then
`OperationReturns` or `OperationFails`; the token may be set between any two.
The sequential path (`SequentialNext`, `SequentialReturn`) shares the last three.
`Cancel` is `CancellationToken.cancel`, from the window or the first SIGINT;
`Interrupt` is a further SIGINT, which raises `KeyboardInterrupt` in the main
thread, where it withdraws no future but still waits for the pool. The LLM
request is one step with two outcomes.

### LlmAdapter and Refine

A call of the adapter is a value, and `LlmAdapter` has the operators on it: one thread of the
executor holds one call. `round`, `second` and `attempt` are its three loops: a new round when
identifiers are missing or unknown (`_complete_with_contract`), a second message when the
answer is no JSON of the schema (`_complete`), a new attempt when the request fails in
transport (`RetryPolicy.run`). `AfterRequest` is what a call may be after one more HTTP
request; the waiting between attempts is left out.

In `Refine`, `stage` and `phase` are the place in `refine_srt`: `EnterStage` and
`LeaveStage` are `_stage`, which polls the token on both sides. An LLM stage has a call for each
batch that has begun (`calls`), of which up to `parallelism` are under way at once (`Width`):
`BeginBatch` is a thread of the pool that polls and then calls the adapter, `LlmRequest` a
request of any of them. A poll that finds the token set withdraws the batches that have not
begun, and `LeavePool` waits for those that have. When all have ended, `CollectBatch` is what
`_collect_updates` makes of each, in their order, and `ApplyStage` is `_apply_text_stage`, which
for a repair checks the quality again. How the pool works inside, with failures, interrupts and
the order of completion, is `LlmExecutor`'s affair.

The models of the two differ in their question: `LateOperationsBounded` counts the batches
that begin after the token was set, `LateRequestsBounded` the requests that are sent. With the
default options (8 to 16 threads, 3 attempts) the latter's bound, 18 requests for each
thread, is far from prompt, and it is attained: the code polls nowhere in the retry loops.

A cue's warnings are only ever appended to (`_apply_text_stage`), and `read_json` brings those
of an earlier run. `warned` says of each which run it is of, so that `Accounted` can speak of
this run's: a cue whose batch succeeds the second time is exported with its new text and the
warning of the first time. That is what the code does; no text of the repository denies it.

A text is what the decisions look at: the scripts it is written in, what it must not
lose (numbers, links, terms), its length. `Acceptable`, `TranslationIssues` and `CueIssues`
are the validators and quality checks over these. How much a correction may change is a
free choice (`BatchInvalid`), and so is what cleanup leaves of a text.

### RuntimeStore

`pointer`, `dir` and `lockFile` are the disk; everything else is per process.
`Call` and `Validate` are `status`, in two steps because another process
may act between reading the pointer and looking at the directory. An install
goes through `AcquireLock`, `EnterTry`, `MakeTarget`, three `BuildStep`s (create, pip
install, probe), `WriteManifest`, `WritePointer`, for a repair `DeleteOld`, then
`Unlock` and `Report` (the poll in `install_runtime` after the store has
returned). `StepFails`, `StepCancelled` lead to `Abort`. `Interrupt` skips
`Abort`, as no except clause catches `KeyboardInterrupt`; and in the statements between
taking the lock and the `try`, or in the `finally` itself (`Unprotected`), it skips the
`Unlock` too, so that the lock file stays although its process lives. `Crash` skips everything.
`Remove` has no lock.

Trees are deleted with `ignore_errors`. `BeginRemoval` and `EndRemoval` are the two halves of a
deletion, between which the directory is torn and its validity open; either may be refused, and the
caller goes on all the same. `Abort` deletes likewise, so that a failed install may leave its
directory, whole or torn. `lockFile` is the process that made the lock file, and `hindered` the
processes that were kept from deleting it.

### ModelStore

`pointer`, `tmp`, `dir` and `staging` are the disk; `LookUp` is `path`, `Resolve` to `Publish` the
download of one model, and `Take` goes on to the next, as `download_model` prepares what a
model depends on before it. `OpenTemporary`, `FillTemporary` and `ReplacePointer` are
`_write_pointer` step by step, since the temporary file has one name for all processes:
`opened` says under which name the open file is by now (`Renamed`). The write may fail
(`FailToFill`), as the opening may. What a failure or a crash leaves stays, and `abandoned` says
which of the two names it is left under.

The model shows four things that no text of the repository denies. A process that loses the
race for the rename fails although the pointer is right, and `OSError` leaves
`download` as it is. `current.json` is empty for a moment when another process
has opened the temporary file that is renamed, and until the next successful download when that
process then fails to write. A target directory that lacks a file can
never be replaced, as `rename` does not overwrite it, so that every later
download fails. The staging directory of a process that died is never deleted.

### WorkerSession

One blocking call at a time: `pc` is the command it is at, `waiting` whether it
is in `readline`. `After` is the order of commands; `Raise` is what each caller
makes of an exception: `shutdown` suppresses it, the client's `start` shuts its
Worker down, the service's `transcribe` falls back to the CPU once (`fallbackUsed`)
or raises. `Reap` and `Abandon` are the two waits of `shutdown`. `inbox[w]`
and `outbox[w]` are the pipes, `Take` and `Answer` one turn of `run_worker`, and
`Die` a Worker that ends on its own; its output stays readable. Whether the
message of a dead Worker names CUDA depends on how far another thread has
drained its stderr, so `EndOfFile` chooses. `provider` says which service it is:
only Faster Whisper falls back to the CPU, Qwen3 and NeMo may answer a load with a configuration error and go on reading, Qwen3 never chooses its device itself, and without
its forced aligner it gives no timestamps, so that some calls are refused. `KeyboardInterrupt` (`Interrupt`)
leaves through the `finally` clause of `shutdown` alone.

### RunPipeline

`at` is the place in `run_files`; the stages are a sequence filtered by the
options, of which `OptionsAssumption` says what validation leaves: the stages that are
always there (`Mandatory`), and for `transcribe_files` none after transcription. `StageStarts`/`StageCompletes` are `_stage_started` and
`_stage_completed`, which poll the token; `Work` is the body of a stage, with the
outcomes it may have. Transcription is a call of `WorkerSession`:
`RunPipeline` extends that module and, while `call # "none"`, takes only its
steps. `ExportFormat` is one exporter: the existence check, then an atomic
replacement. `Close`, `Closed` and `Cleanup` are the `finally` clause and the
end of `run_files`; `InterruptRun` is a second Ctrl-C.
`transcribe_files` is the same with the stages up to transcription and one
output, which it always replaces. The disk holds, for each output, whose
transcript it was made from.

### GuiJobs

`posted` and `timers` are the main thread's events, in order; `dialogs` is the
stack of open modal dialogs. `Report`, `Finish` and `ThreadEnds` are a job's thread:
`OperationWorker.run` emits the result, then `finished`, on which the main thread
quits the `QThread`, whose own `finished` ends the job (`JobFinished` is
`_job_finished`). `HandleEvent`, `LaunchAfterJob` and `CloseAfterJob` are one turn of the
innermost loop and are possible at any depth of dialogs. The user acts on the window
only when no dialog is open (`ScanFolder` to `CloseWindow`), and otherwise answers the top
one (`Dismiss`, `Accept...`), which runs the code after its `exec`. When the window
closes, the application ends and the dialogs with it. Input paths, plans and
settings are data: where the code looks at them, the model chooses.

The model shows why a scan begun by Start normally launches nothing: while the preview is
open, `_job_finished` resets `_scan_intent` (`gui/main_window.py:592`), which
the code after the preview compares with "start" (line 489). The plan is then
cached, and Start has to be pressed again. No text of the repository says otherwise,
so this is no finding.

### TranscriptMapping

An output of a library is a sequence of timed items and one of groups: segments with their
words (Faster Whisper), results with their aligned items or native segments (Qwen3),
or segments apart from the words (NeMo). `MapWord`, `MapZeroSpan`, `MapNativeSegment` and
`RejectItem` are what becomes of one item, `CloseSegment`, `CloseAligned` and `CloseNative`
of the end of a group. `SelectSegment` assigns the words to a segment of NeMo by
their middle, and widens it; `Aggregate` is the single segment in its place. `Ms` is
the rounding, so that times are given in half milliseconds. `ValidateDocument` is the
validation of `TranscriptDocument`. An item's text is only its length; that no text is lost
is a property of the item numbers.

`TranscriptToCues` runs the mapping, then makes the accepted document the transcript of
`Segmentation`, so that the transcripts that are segmented are those the Workers can produce.

### Segmentation

Pieces are numbered, so that identifiers are positions. `CollectWindow` takes one
outcome of the batches: any answer that names pieces of the window, of which only
those the window owns count (`OwnBoundaries`), or the rule in place of a failed
one. `ScanPiece` is one turn of the loop of `constrain_boundaries`, `ScanEnds`
its end, `BuildDocument` the division into cues and the validation of the
document. A transcript holds times and running totals of text. The code counts
CJK characters, Latin words and, for the reading speed, characters; pieces are
joined so that each count is the sum over the pieces, so one measure
stands for all three. Cancellation leaves through the executor, before anything is
collected, and is in `LlmExecutor`.

Two things the model shows that no text of the repository denies:

* `NearLimits` cannot be sharpened to a single piece. A cut at a candidate comes when
  the piece after the limit has been seen, the next cue begins with what is left
  over, and that remainder is measured only together with the next piece.
* `TranscriptDocument` admits words that overlap. If a boundary falls
  between two such words, `SubtitleDocument` rejects the cues
  (`subtitles/models.py:65`) and `segment` raises for the file; inside a
  cue the overlap does no harm. `at = "rejected"` is that end.

## 3. Runs

| Run | Bounds | Shows |
|---|---|---|
| `llm_executor` | 4 batches, parallelism 1 to 3, 2 stages, 3 signals | `StageBarrier`, `OrderedComplete`, `LateOperationsBounded`, `MapEnds`, `ImplementsBatchMap` |
| `refine` | 2 cues, 2 attempts, 2 documents, 4 option sets, 2 formats; 2 threads with 2 cues and 2 attempts or 3 cues and 1 attempt | `LateRequestsBounded`, `Accounted`, `ReportCurrent`, `RepairKeepsGood`, `RefineEnds` |
| `runtime_store` | 2 processes, 3 calls, 3 directories, 2 troubles (signals, deaths, refused deletions) | `OneInstaller`, `SelectedWasProbed`, `AbortedNotSelected`, `LockHasOwner`, `ReadyLostOnlyByRemove`, `CallsEnd` |
| `model_store` | 2 processes, 3 calls, 2 models, 2 revisions, 1 crash | `SelectedIsComplete`, `TornOnlyWhileWriting`, `ReturnsUsable` |
| `worker_session` | 4 services, 4 Workers, 4 calls, 2 deaths, 1 interrupt | `OwnTranscript`, `OneModel`, `NoStrayWorker`, `CallsReturn` |
| `run_pipeline` | 2 files, 2 formats, 5 option sets, 1 death, 1 interrupt | `SucceededOutputsStay`, `SessionClosed`, `WorkspaceKept`, `LateWorkBounded`, `RunEnds`, `ImplementsReport` |
| `gui_jobs` | 3 jobs | `OneThread`, `NoThreadAfterClose`, `OwnResult`, `JobsEnd`, `CloseHonoured` |
| `segmentation` | up to 5 words of 5 kinds; for NeMo up to 3 words and 2 segments, for Qwen3 4 items in 2 results; windows of 3 with overlap 1 | `TextKept`, `WordsDivided`, `SegmentsFit`, `ProposalsKept`, `NearLimits`, `CutsForced` |
| `runtime_late_cancel` | 1 process, 1 repair, 1 signal | violates `CancelKeepsPrevious` |
| `runtime_leak` | 2 processes, 2 installs | violates `OneDirectoryAtRest` |
| `gui_close` | 1 job | violates `ClosesAfterwards` |
| `refine_stale` | as `refine` | violates `NothingLeftInOldLanguage` |

Each module also states its type invariant. They are proved (section 5), that of
`TranscriptMapping` as a part of the inductive invariant, so that no run checks them;
`Refine` alone has none, as a value of another kind ends its run with an error, and the proofs
type its calls where they need it (`CallInv`).

The bounds are the smallest at which every case happens. Four batches on three
threads give a call with more, as many and fewer batches than threads, and a
queue that is not empty when the token is set. In `refine`, two attempts let
each of the three loops repeat and be exhausted; two cues are one batch or two, so
that one batch can fail beside another and a batch can fail as a whole; one
document is new and one is translated already, into another language, with warnings; two threads
have two batches under way with all their retries, and with a third in the queue, for which one
attempt has to do; the option sets take
every stage, both values of partial output and of overwriting, and a correction that cleanup
follows. Two processes with three calls let
one process act twice inside another's call, in both stores; two revisions let the
pointer be wrong, and the second model is one that the first depends on. Two troubles are an
interrupt (which follows a cancellation), or any two of a cancellation, a death and a refused
deletion; the theorems hold for every number.
Four Workers are two sessions, each
with its CPU fallback, and two deaths let both Workers of one session die. Two
files are enough for one to disturb another, and two formats for a
file to fail half exported; the five option sets cover both commands,
both values of every option, all stages, and equal and distinct names. Three
jobs let a scan, the installation it leads to and an unrelated job overlap with each
other's dialogs. Five pieces fill one window and begin another, and allow two readability cuts
in a row with a remainder between them; the kinds are a short piece, one that
ends a sentence, a dense one before a silence, a long one, and a long dense one
that the next one overlaps. Two segments are enough for one to take a word of the other, to
overlap it or to leave a gap, and times of half a millisecond meet both directions
of the rounding. `Max...` constants only cap counters in guards. Symmetry is used for the
processes of `model_store`, which checks invariants only; most other runs check
liveness.

Deadlock is checked in the GUI runs only, where the closed window is a step of its own.
Elsewhere the bounded number of calls runs out, and a run or a session really
is over then; `segmentation` ends with its document.

### Findings

* `runtime_late_cancel`: `install_runtime` polls the token after the repair has
  replaced the runtime (`workflow/application.py:284`), so a repair that did everything,
  including deleting the old directory, is reported as cancelled.
  `docs/releasing.md` says a cancelled install removes only the incomplete directory.
* `runtime_leak`: the status `install` acts on is read before the lock
  (`shared/runtimes.py:282`). Two installs started together both build, one after
  the other, and the first directory stays on the disk, selected by nothing.
* `gui_close`: `closeEvent` asks in a nested loop and sets `_close_requested` after the
  answer (`gui/main_window.py:840-847`). If the job ends in that loop,
  `_job_finished` has looked at the flag before, and the yes closes nothing.
* `refine_stale`: whether a translation is complete is judged by cues without one
  (`workflow/refine.py:122`). A cue that the input had translated into another language
  keeps that text when its batches fail, and is exported, with partial output
  disabled, in a document whose target language is the new one.

An observation of `WorkerSession` is no finding of its own: with `device = auto` a CUDA failure starts a
second Worker (`transcription/service.py:119`), where `ARCHITECTURE.md:43-44` has a
session start its Worker once. The sentence can be read as of the model, and
`OneModel` holds.

## 4. Fairness

* `LlmExecutor`: weak fairness on the main thread's actions and on each batch's
  thread. The interpreter schedules every thread; an operation ends because the
  client has a timeout and retries are bounded (`llm/retry.py`). Nobody has to
  cancel.
* `RuntimeStore`: weak fairness on each process's own steps, so subprocesses end or fail.
  `Call`, `Cancel`, `Interrupt` and `Crash` are free.
* `Refine`: weak fairness on its one thread: each request is answered, or times out
  after `timeout_seconds`, and every stage is plain code. `ModelStore` has no liveness
  property: a download may take as long as the hub likes.
* `WorkerSession`, `RunPipeline`: weak fairness on the calling thread, and on
  each Worker's steps: a Worker answers what it is asked or dies. The code has no timeout on
  `readline`, so this is an assumption about the recogniser, not something the
  code ensures; without it no call need return, and none of the safety
  properties depends on it.
* `GuiJobs`: weak fairness on the event loop and on each job's thread, as an operation
  ends (the assumptions above). Nothing is assumed of the user: a dialog may stay
  open for ever, and `JobsEnd` holds all the same.

## 5. What is proved

TLAPS proves the theorems below for every value of the constants, from the named
assumptions on the constants alone. They state every invariant, action property and
refinement that the passing runs check; TLC checked each inductive invariant before it was
proved.

* `LlmExecutorProofs`. `IInv` adds to the types of the finite variables what
  each place of the main thread means for the futures (which have been
  submitted; at `idle` none is pending or on a thread). `StageBarrier` is a
  conjunct of it. `Parallel` adds that at most `width` futures are on threads and
  that, once the token is set, `late` plus the futures past their poll stays within
  `width`: that is what makes `LateOperationsBounded` inductive, as `late`
  alone is not. `Gathering` adds that `collected` has no repetition and names
  only finished futures of this call; with a lemma on the k-th element of
  `1..n` it gives `OrderedComplete` and the type of `collected` and `answer`.
  `BatchMapImplemented` takes the three to the refinement: under them each action is the step of
  `BatchMap` named in its lemma, or leaves the abstract variables alone, and a call ends only
  where `BatchMap` lets it.
* `RuntimeStoreProofs`. `IInv` consists of the types, `LockInv` (at most one
  process between lock and unlock, and then the lock file is its own), `MadeInv` (directories not
  made yet are nobody's), `TargetInv` (from its making to its selection nobody else
  knows a new directory, and by then it has been probed and is complete), `DeletionInv`
  (what a repair deletes is no longer selected, and what a remove is deleting is no
  longer whole), and the two state properties. The action property
  `ReadyLostOnlyByRemove` follows from it step by step. `AbortedNotSelected` does not rest on
  what the deletion achieves: nobody else knows the directory, so it may as well stay.
  `LockHasOwner` is inductive beside it: a step that creates the lock file makes its process the
  owner, and one that ends an ownership deletes the file, is a death, or hinders the owner.
* `ModelStoreProofs`. What `current.json` names was named by the temporary file, which
  was filled by a process that had found or put the directory in place; no step takes a
  complete directory away. `StoreInv` says this of the pointer, the temporary file and
  every process that is writing the pointer. `WriterInv`, for `TornOnlyWhileWriting`, says that
  only a process about to fill a file has it open, and that an empty temporary file
  is open under its own name in one or was abandoned under it by one; renaming the file moves
  this to the pointer. `Collected`, for
  `ReturnsUsable`, says that the models a call has taken and those still in its plan are
  together the requested one and what it depends on.
* `WorkerSessionProofs`. `SInv` bounds what is in the pipes by the place of the caller: `Exchange`
  has at most one line between the client and its Worker, a request of the command at
  hand or an answer to it, and none when the client does not wait, so that counting lines is
  matching them (`OwnTranscript`). A Worker may die in the middle of any of it; what its pipe
  still holds is the answer to this request. `Latest` says that every Worker but the one launched last
  has given up its model, which makes `OneModel` inductive, and `Attended` that a
  Worker that is not done is the client's own. `Exchange` and `Attended` hold while nobody has
  interrupted; after an interrupt `Control` leaves only the way out.
* `RunPipelineProofs`. `RunInv` is `SInv` and `PInv`, since a run takes steps of the session. `SessionUse`
  says at which place of the run which call may be under way, `NoWorkerUnattended` that
  the run has no Worker at a place from which it would not be shut down: `SessionClosed` is
  that at the end. `OwnSource`, `Exporting` and `Decided` say whose transcript
  the file at hand is processed with, which of its outputs exist and that the
  files before it are decided, which makes `SucceededOutputsStay` inductive. `Workspace` and
  `Late` are `WorkspaceKept` and `LateWorkBounded` at every place. `ReportImplemented` is the
  refinement of `RunReport`, step by step. The proofs assume of the options what their validation
  ensures (`OptionsAssumption`).
* `GuiJobsProofs`. `JInv` is the types, `OneJob` (a busy window has the newest job, and every
  older thread is gone) and `Mail`: the state of the job's thread decides which events may be
  queued, in which order, and all are of that job. An idle window has none. The depth of dialogs
  does not enter, as the innermost loop handles the same queue. The three properties follow.
* `RefineProofs`. `SentBefore` bounds the requests of a call by the place in the three loops, and
  `CallInv` says it of every call, and that at most `Width` are under way
  (`AdapterBounded`). `LateInv` says that once the token is set there is a set of at most `Width`
  calls of one stage (`HeldTo`), those that were under way then: no other call begins, and the
  late requests are numbered requests of these, which gives the bound of `LateRequestsBounded` as
  the size of a product. `GatherInv` ties the values gathered
  to the cues of the stage, which gives `RepairKeepsGood`; `ReportInv` says from which stage on the
  report is that of the texts, with `QualityIsNotSkipped` for the only way there. For `Accounted`,
  `BatchInv` says that the cues of the batches collected so far are divided into those with
  a value and those that failed, which rests on lemmas about division by the size of a batch
  (`DocumentsAssumption`, `OptionsAssumption`), and `AccountInv` that the stages behind the
  run have marked every cue in one of the two ways, and those before it none,
  while the marks of an earlier run stay (`Kept`).
* `TranscriptToCuesProofs`, in three parts. Of `Segmentation`, `IInv` adds to the types where the scan is (`Place`), that the cue
  being built starts right after the last cut (`Start`), that proposals behind the
  scan are selected (`Kept`), and `Short`: the cue being built is within the limits
  without its last piece, and entirely if it holds a candidate. `Short` is what
  makes `Near` inductive: a cut at a candidate drops at most the piece that
  exceeded. For `CutsForced`, `Cuttable` says that a candidate is a place to end at, and `Forced`
  names for each cut the piece that ended the cue (`EndedBy`): with it the limits are passed, two
  pieces before it they were not, and the cut is there, one before, or at a sentence end or a
  silence. `Longer` (a longer stretch of pieces is not shorter), `CutFacts` (where a
  cut may be) and `NewCue` (what a cut does to the cues) are its lemmas. The assumption is
  that transcripts are `WellFormed`: times as the document's validators demand, and
  text that does not shrink.

  Of the mapping, `MapInv` holds for any output in which the groups divide the items, NeMo's
  excepted (`OutputsAssumption`, as the libraries nest words in segments). `ItemsTaken` and
  `WordsFirst` say where in the items and groups the mapping is; `InOrder` and `NoneLost` that
  the items behind it are in the words or pending, in order (`TextKept`); `GroupInv` that the segments so far divide the
  words so far, and `NemoInv` how the words left to NeMo's segments lie to those already
  given away (`WordsDivided`). `SegmentsFit`, which is about NeMo and about Qwen3 with words, and
  false of Faster Whisper and of Qwen3 without words, rests on the last: words in order have their middles in
  order, a segment widened to its words reaches no further than the next one's first, and the
  rounding, which is monotonic, cannot swap them. `Proper` says that a word or segment in the list
  has a proper range and, by `Validated`, an accepted document is valid.

  Of both, `HandsOverWellFormed` says that each accepted document is a `WellFormed` transcript:
  the running totals of text are a recursive function, about which a least counterexample
  stands in for induction (`RunningTextIs`, `RunningTextGrows`). So the assumption of the
  first part is a theorem about the second, and the properties of cues hold on `PathSpec`,
  the specification that is run (`CuesOfDocumentsHold`).

Only model-checked: liveness (`MapEnds`, `RefineEnds`, `CallsEnd`, `CallsReturn`,
`RunEnds`, `JobsEnd`, `CloseHonoured`), which needs fairness and `ENABLED` and is out of the
prover's reach.

## 6. What the models leave out

* The contents of transcripts, cues, prompts, manifests; only whose they are.
* The LLM, the recogniser and micromamba: each is an outcome chosen freely.
* The hang of a Worker (section 4), and lines a recogniser's library prints to
  the Worker's stdout.
* What happens to a Worker whose parent was interrupted inside `start`:
  the code leaves it running until its stdin closes.
* `RuntimeStore.command`, read by a third party between `status` and launch.
* The waiting between the attempts of `RetryPolicy`, which does not look at the token.
* That two names of outputs may coincide although stem and format differ (`a.bilingual.srt` is
  one of `a` and of `a.bilingual`).
* Languages, and the checks of value types, in the mapping of transcripts.
* `run_files` runs the LLM stages that `Refine` models as stages that succeed or fail.
* Not modelled at all, as they keep no state that a property could be about:
  options and configuration (validation of values), media and voice separation (one
  subprocess call each), importers and exporters (text layout), the doctor (independent
  checks), the command line (parsing and printing), GUI pages, dialogs and styles, logging and
  paths, packaging and scripts. `PROJECT.json` has each with its reason.

## 7. Plan

Done, in this order: `LlmExecutor` with its proofs, `RuntimeStore` with its
proofs, `WorkerSession`, `RunPipeline`, `GuiJobs`, `Segmentation` with its
proofs, `LlmAdapter` and `Refine` with their proofs, `ModelStore` with its proofs,
`TranscriptMapping` and its composition with `Segmentation`, and then the proofs of
the two refinements and of `WorkerSession`, `RunPipeline`, `GuiJobs`, `TranscriptMapping` and what
was left of `ModelStore` and `Refine`. No safety property of a passing run is without
its theorem. Next:

1. Action theorems from the invariants at hand, about steps that no run states yet: which steps
   of the model store may change what `current.json` names, and which of a session may end a Worker.
2. The safety part of each liveness property: a measure that every step of a batch, a call or a
   stage lowers, so that only fairness is left to TLC.
3. A common abstract specification of the two stores.

`RECURSIVE` is avoided in every module for this reason.
