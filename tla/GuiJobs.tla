------------------------------ MODULE GuiJobs -------------------------------
(***************************************************************************)
(* GuiJobs (gui/main_window.py, gui/worker.py): the window's background    *)
(* jobs.                                                                   *)
(*                                                                         *)
(* A job is a thread that runs one operation and tells the main thread of  *)
(* its result, of its end, and of the end of the thread, by events posted  *)
(* to the main thread's queue.  The main thread handles one event at a     *)
(* time, but a handler that shows a modal dialog runs a loop of its own,   *)
(* and further events are handled inside it, before the code after the     *)
(* dialog.  The user answers the top dialog, or, when none is open, uses   *)
(* the window.                                                             *)
(***************************************************************************)
EXTENDS Naturals, Sequences, FiniteSets

CONSTANT MaxJobs   \* jobs ever started (a bound)

ASSUME MaxJobsAssumption == MaxJobs \in Nat \ {0}

Job == 1..MaxJobs
NoJob == 0

VARIABLES
  busy,            \* _busy
  current,         \* the job of _thread, _worker and _active_spec
  kind,            \* _active_spec.kind
  thread,          \* the state of each job's thread
  cancelled,       \* _cancellation is set
  scanIntent,      \* _scan_intent
  afterJob,        \* _after_job is set
  closeRequested,  \* _close_requested
  closed,          \* the window has been closed, and the application ends
  dialogs,         \* modal dialogs, each shown in the loop of the one below
  posted,          \* events posted to the main thread
  timers,          \* single-shot timers of no delay
  jobs             \* jobs started so far

vars == <<busy, current, kind, thread, cancelled, scanIntent, afterJob, closeRequested,
          closed, dialogs, posted, timers, jobs>>
jobVars   == <<busy, current, kind, thread, jobs>>
queueVars == <<posted, timers>>

Kinds   == {"scan", "operation"}      \* only a scan's result is told from the others'
Results == {"succeeded", "cancelled", "failed"}
(* "install" asks whether to install the run's runtime first, "consent"    *)
(* whether to start the run, or another operation.                         *)
Dialogs == {"preview", "notice", "close question", "install", "consent"}
Threads == {"unborn", "running", "reported", "finished", "quitting", "gone"}
Events  == [event : Results \cup {"finished", "thread finished"}, job : Job]

(* Types; and there is no token without a job.                             *)
TypeOK ==
  /\ busy \in BOOLEAN /\ current \in Job \cup {NoJob}
  /\ kind \in Kinds \cup {"none"} /\ thread \in [Job -> Threads]
  /\ cancelled \in BOOLEAN /\ (cancelled => current # NoJob)
  /\ scanIntent \in {"none", "preview", "start"}
  /\ afterJob \in BOOLEAN /\ closeRequested \in BOOLEAN /\ closed \in BOOLEAN
  /\ dialogs \in Seq(Dialogs) /\ posted \in Seq(Events)
  /\ timers \in Seq({"launch", "close"})
  /\ jobs \in 0..MaxJobs

Init ==
  /\ busy = FALSE /\ current = NoJob
  /\ kind = "none" /\ thread = [j \in Job |-> "unborn"]
  /\ cancelled = FALSE
  /\ scanIntent = "none" /\ afterJob = FALSE
  /\ closeRequested = FALSE /\ closed = FALSE
  /\ dialogs = <<>> /\ posted = <<>> /\ timers = <<>>
  /\ jobs = 0

Post(e, j) == posted' = Append(posted, [event |-> e, job |-> j])

-----------------------------------------------------------------------------
(* The job's thread *)

(* OperationWorker.run emits the result, then that it has finished.        *)
Report(j) ==
  /\ thread[j] = "running"
  /\ \E r \in Results :
       /\ r = "cancelled" => cancelled
       /\ Post(r, j)
  /\ thread' = [thread EXCEPT ![j] = "reported"]
  /\ UNCHANGED <<busy, current, kind, cancelled, scanIntent, afterJob, closeRequested,
                 closed, dialogs, timers, jobs>>

NeverFinished(j) == UNCHANGED posted   \* faulty variant: no finally clause
EmitFinished(j)  == Post("finished", j)

Finish(j) ==
  /\ thread[j] = "reported"
  /\ EmitFinished(j)
  /\ thread' = [thread EXCEPT ![j] = "finished"]
  /\ UNCHANGED <<busy, current, kind, cancelled, scanIntent, afterJob, closeRequested,
                 closed, dialogs, timers, jobs>>

(* The thread leaves its own event loop.                                   *)
ThreadEnds(j) ==
  /\ thread[j] = "quitting"
  /\ Post("thread finished", j)
  /\ thread' = [thread EXCEPT ![j] = "gone"]
  /\ UNCHANGED <<busy, current, kind, cancelled, scanIntent, afterJob, closeRequested,
                 closed, dialogs, timers, jobs>>

ThreadStep(j) == ~closed /\ (Report(j) \/ Finish(j) \/ ThreadEnds(j))

-----------------------------------------------------------------------------
(* What handlers do *)

Unguarded == FALSE                    \* faulty variant: no check of _busy
StartRefused == busy

(* _start_job *)
StartJob(k) ==
  IF StartRefused
    THEN UNCHANGED <<jobVars, cancelled>>
    ELSE /\ jobs < MaxJobs
         /\ busy' = TRUE
         /\ current' = jobs + 1
         /\ kind' = k
         /\ cancelled' = FALSE
         /\ thread' = [thread EXCEPT ![jobs + 1] = "running"]
         /\ jobs' = jobs + 1

(* _confirm_and_launch, with the dialogs below still open: a notice that   *)
(* there is no runtime for this platform, a question whether to install    *)
(* it, a confirmation of the run, or, when none is wanted, the run.        *)
ConfirmAndLaunch(below) ==
  \/ /\ dialogs' \in {Append(below, d) : d \in {"notice", "install", "consent"}}
     /\ UNCHANGED <<jobVars, cancelled>>
  \/ /\ dialogs' = below
     /\ StartJob("operation")

(* _cancel sets the token of the current job, if there is one.             *)
CancelCurrent == cancelled' = (current # NoJob)

(* closeEvent *)
ClosesAnyway == TRUE                  \* faulty variant: no check of _busy
MayClose == ~busy

CloseEvent ==
  /\ closed' = MayClose
  /\ dialogs' = IF MayClose THEN <<>> ELSE Append(dialogs, "close question")

-----------------------------------------------------------------------------
(* The main thread's event loop: the innermost dialog's, if any is open *)

(* _on_success and _on_failure: nothing is shown of a cancelled job.       *)
Showing(r) ==
  IF r = "cancelled" THEN dialogs
  ELSE Append(dialogs, IF r = "succeeded" /\ kind = "scan" THEN "preview" ELSE "notice")

NextIntent  == "none"
LostClose   == <<>>                   \* faulty variant: the request is forgotten
CloseTimer  == IF closeRequested THEN <<"close">> ELSE <<>>

(* _job_finished *)
JobFinished ==
  /\ busy' = FALSE
  /\ current' = NoJob /\ kind' = "none" /\ cancelled' = FALSE
  /\ scanIntent' = NextIntent
  /\ afterJob' = FALSE
  /\ timers' = timers \o (IF afterJob THEN <<"launch">> ELSE <<>>) \o CloseTimer

EndOfWorker(e) == e = "finished"      \* faulty variant: of the worker, not of its thread
EndOfJob(e)    == e = "thread finished"

(* The worker's end makes the main thread, where the QThread lives, quit it. *)
HandleEvent ==
  /\ ~closed /\ posted # <<>>
  /\ posted' = Tail(posted)
  /\ LET e == Head(posted) IN
       /\ thread' = IF e.event = "finished" THEN [thread EXCEPT ![e.job] = "quitting"]
                    ELSE thread
       /\ dialogs' = IF e.event \in Results THEN Showing(e.event) ELSE dialogs
       /\ IF EndOfJob(e.event) THEN JobFinished
          ELSE UNCHANGED <<busy, current, kind, cancelled, scanIntent, afterJob, timers>>
  /\ UNCHANGED <<jobs, closeRequested, closed>>

LaunchAfterJob ==
  /\ ~closed /\ timers # <<>> /\ Head(timers) = "launch"
  /\ timers' = Tail(timers)
  /\ ConfirmAndLaunch(dialogs)
  /\ UNCHANGED <<scanIntent, afterJob, closeRequested, closed, posted>>

CloseAfterJob ==
  /\ ~closed /\ timers # <<>> /\ Head(timers) = "close"
  /\ timers' = Tail(timers)
  /\ CloseEvent
  /\ UNCHANGED <<jobVars, cancelled, scanIntent, afterJob, closeRequested, posted>>

LoopStep == HandleEvent \/ LaunchAfterJob \/ CloseAfterJob

-----------------------------------------------------------------------------
(* The user, at the window: it takes input only when no dialog is open.    *)

(* _set_busy disables all of these but Cancel while a job runs.             *)
AtWindow == ~closed /\ dialogs = <<>>

(* _begin_scan, on a folder, or on settings it refuses.                    *)
BeginScan(intent) ==
  \/ /\ scanIntent' = intent
     /\ StartJob("scan")
     /\ UNCHANGED dialogs
  \/ /\ dialogs' = <<"notice">>
     /\ UNCHANGED <<jobVars, cancelled, scanIntent>>

ScanFolder ==                         \* _scan_preview, _accept_input
  /\ AtWindow /\ ~busy
  /\ BeginScan("preview")
  /\ UNCHANGED <<afterJob, closeRequested, closed, queueVars>>

(* A folder whose plan is not cached is scanned first.                     *)
StartPipeline ==
  /\ AtWindow /\ ~busy
  /\ \/ BeginScan("start")
     \/ ConfirmAndLaunch(<<>>) /\ UNCHANGED scanIntent
  /\ UNCHANGED <<afterJob, closeRequested, closed, queueVars>>

(* The model, runtime and diagnostics dialogs, which are not modal.        *)
StartOther ==
  /\ AtWindow /\ ~busy
  /\ \/ /\ dialogs' \in {<<"consent">>, <<"notice">>}
        /\ UNCHANGED <<jobVars, cancelled>>
     \/ StartJob("operation") /\ UNCHANGED dialogs
  /\ UNCHANGED <<scanIntent, afterJob, closeRequested, closed, queueVars>>

Cancel ==
  /\ AtWindow /\ busy
  /\ CancelCurrent
  /\ UNCHANGED <<jobVars, scanIntent, afterJob, closeRequested, closed, dialogs, queueVars>>

CloseWindow ==
  /\ AtWindow
  /\ CloseEvent
  /\ UNCHANGED <<jobVars, cancelled, scanIntent, afterJob, closeRequested, queueVars>>

-----------------------------------------------------------------------------
(* The user, at the top dialog: what follows is the code after it.         *)

Top == dialogs[Len(dialogs)]
Answering(d) ==
  /\ ~closed /\ dialogs # <<>> /\ Top = d
  /\ dialogs' = SubSeq(dialogs, 1, Len(dialogs) - 1)

(* The notice's only answer, or the answer to a question that is no.       *)
Dismiss ==
  /\ \E d \in Dialogs : Answering(d)
  /\ UNCHANGED <<jobVars, cancelled, scanIntent, afterJob, closeRequested, closed, queueVars>>

AcceptPreview ==
  /\ Answering("preview")
  /\ afterJob' = (afterJob \/ scanIntent = "start")
  /\ UNCHANGED <<jobVars, cancelled, scanIntent, closeRequested, closed, queueVars>>

(* The run is launched again when the installation has ended.              *)
AcceptInstall ==
  /\ Answering("install")
  /\ afterJob' = TRUE
  /\ StartJob("operation")
  /\ UNCHANGED <<scanIntent, closeRequested, closed, queueVars>>

AcceptStart ==
  /\ Answering("consent")
  /\ StartJob("operation")
  /\ UNCHANGED <<scanIntent, afterJob, closeRequested, closed, queueVars>>

AcceptClose ==
  /\ Answering("close question")
  /\ closeRequested' = TRUE
  /\ CancelCurrent
  /\ UNCHANGED <<jobVars, scanIntent, afterJob, closed, queueVars>>

User ==
  \/ ScanFolder \/ StartPipeline \/ StartOther \/ Cancel \/ CloseWindow
  \/ Dismiss \/ AcceptPreview \/ AcceptInstall \/ AcceptStart \/ AcceptClose

(* The closed window was the application's last: it ends.                  *)
Ended == closed /\ UNCHANGED vars

Next == User \/ LoopStep \/ (\E j \in Job : ThreadStep(j)) \/ Ended

(* The main thread handles what is posted to it, and an operation ends     *)
(* and reports; nothing is assumed of the user.                            *)
Spec ==
  /\ Init /\ [][Next]_vars
  /\ WF_vars(LoopStep)
  /\ \A j \in Job : WF_vars(ThreadStep(j))

-----------------------------------------------------------------------------
(* Properties *)

Alive(j) == thread[j] \notin {"unborn", "gone"}

(* At most one job's thread is alive: _busy covers the thread to its very  *)
(* end, however the dialogs of earlier jobs nest.                          *)
OneThread == \A i, j \in Job : Alive(i) /\ Alive(j) => i = j

(* The window does not close over a running operation.                     *)
NoThreadAfterClose == closed => \A j \in Job : ~Alive(j)

(* A result that is still to be handled is of the job that _active_spec    *)
(* names, by which _on_success tells what to do with it.                   *)
OwnResult ==
  \A n \in DOMAIN posted : posted[n].event \in Results => posted[n].job = current

(* A job that has started is over at last, also when a dialog stays open.  *)
JobsEnd == busy ~> ~busy

(* A wish to close that was expressed while a job ran is met when the job  *)
(* is over, unless another one has started.                                *)
CloseHonoured ==
  \A j \in Job : (closeRequested /\ current = j) ~> (closed \/ current > j)

(* The question of closeEvent: "Request cancellation and close             *)
(* afterwards?"  A yes closes the window, once jobs have ended.            *)
ClosesAfterwards == closeRequested ~> closed
=============================================================================
