--------------------------- MODULE GuiJobsProofs ----------------------------
(***************************************************************************)
(* Proofs about GuiJobs, for any number of jobs, any nesting of dialogs    *)
(* and any number of timers.                                               *)
(***************************************************************************)
EXTENDS GuiJobs, SequenceTheorems, TLAPS

(* The window is busy from the start of a job until the end of its thread  *)
(* has been handled; the threads of the earlier jobs are gone by then.     *)
OneJob ==
  /\ busy <=> current # NoJob
  /\ busy => current = jobs /\ thread[current] # "unborn"
  /\ \A j \in Job : /\ j > jobs => thread[j] = "unborn"
                    /\ j <= jobs /\ j # current => thread[j] = "gone"
  /\ closed => ~busy

(* What is posted is of the job at hand, in the order it was emitted: the  *)
(* end of the thread is the last event of a job, so that no event is left  *)
(* for the next one.                                                       *)
MailOf(t, q) ==
  \/ t \in {"running", "reported", "quitting"} /\ Len(q) = 0
  \/ t = "reported" /\ Len(q) = 1 /\ q[1].event \in Results
  \/ t = "finished" /\ Len(q) = 1 /\ q[1].event = "finished"
  \/ t = "finished" /\ Len(q) = 2 /\ q[1].event \in Results /\ q[2].event = "finished"
  \/ t = "gone" /\ Len(q) = 1 /\ q[1].event = "thread finished"
Mail ==
  IF busy THEN MailOf(thread[current], posted) /\ \A n \in 1..Len(posted) : posted[n].job = current
          ELSE Len(posted) = 0

JInv == TypeOK /\ OneJob /\ Mail

-----------------------------------------------------------------------------
(* A queue that is written, and one that is read.                          *)
LEMMA Queue ==
  ASSUME NEW S, NEW q \in Seq(S)
  PROVE  /\ Len(q) \in Nat /\ ((q = <<>>) <=> (Len(q) = 0))
         /\ \A x \in S : /\ Append(q, x) \in Seq(S) /\ Len(Append(q, x)) = Len(q) + 1
                         /\ Append(q, x)[Len(q) + 1] = x
                         /\ \A n \in 1..Len(q) : Append(q, x)[n] = q[n]
         /\ q # <<>> => /\ Head(q) = q[1] /\ Head(q) \in S /\ Tail(q) \in Seq(S)
                        /\ Len(Tail(q)) = Len(q) - 1
                        /\ \A n \in 1..(Len(q) - 1) : Tail(q)[n] = q[n + 1]
<1>1. Len(q) \in Nat /\ ((q = <<>>) <=> (Len(q) = 0))
  OBVIOUS
<1>2. \A x \in S : /\ Append(q, x) \in Seq(S) /\ Len(Append(q, x)) = Len(q) + 1
                   /\ Append(q, x)[Len(q) + 1] = x
                   /\ \A n \in 1..Len(q) : Append(q, x)[n] = q[n]
  BY <1>1
<1>3. q # <<>> => /\ Head(q) = q[1] /\ Head(q) \in S /\ Tail(q) \in Seq(S)
                  /\ Len(Tail(q)) = Len(q) - 1
                  /\ \A n \in 1..(Len(q) - 1) : Tail(q)[n] = q[n + 1]
  BY <1>1, HeadTailProperties
<1> QED BY <1>1, <1>2, <1>3

LEMMA JobFacts == Job \subseteq Nat /\ NoJob \notin Job /\ MaxJobs \in Nat
                  /\ \A n \in 0..MaxJobs : n < MaxJobs => n + 1 \in Job
BY MaxJobsAssumption DEF Job, NoJob

LEMMA InitInv == Init => JInv
<1> SUFFICES ASSUME Init PROVE JInv
  OBVIOUS
<1> USE DEF Init
<1>1. TypeOK
  <2>1. busy \in BOOLEAN /\ current \in Job \cup {NoJob} /\ kind \in Kinds \cup {"none"}
    OBVIOUS
  <2>2. thread \in [Job -> Threads]
    BY DEF Threads
  <2>3. dialogs \in Seq(Dialogs) /\ posted \in Seq(Events) /\ timers \in Seq({"launch", "close"})
    OBVIOUS
  <2>4. jobs \in 0..MaxJobs
    BY JobFacts
  <2> QED BY <2>1, <2>2, <2>3, <2>4 DEF TypeOK
<1>2. OneJob
  BY JobFacts DEF OneJob
<1>3. Mail
  BY DEF Mail
<1> QED BY <1>1, <1>2, <1>3 DEF JInv

-----------------------------------------------------------------------------
(* The job's thread *)

(* An event the thread posts goes behind those it has posted before.       *)
LEMMA Posting ==
  ASSUME JInv, NEW j \in Job, thread[j] \notin {"unborn", "gone"},
         NEW e, [event |-> e, job |-> j] \in Events, Post(e, j),
         NEW t \in Threads \ {"unborn"}, thread' = [thread EXCEPT ![j] = t],
         UNCHANGED <<busy, current, kind, cancelled, scanIntent, afterJob, closeRequested,
                     closed, dialogs, timers, jobs>>
  PROVE  /\ TypeOK' /\ OneJob' /\ MailOf(thread[current], posted)
         /\ busy' /\ current' = current /\ j = current /\ thread'[current] = t
         /\ \A n \in 1..Len(posted') : posted'[n].job = current
         /\ Len(posted) = 0 => Len(posted') = 1 /\ posted'[1].event = e
         /\ Len(posted) = 1 =>
              Len(posted') = 2 /\ posted'[1] = posted[1] /\ posted'[2].event = e
<1>1. j = current /\ busy
  BY JobFacts DEF JInv, TypeOK, OneJob
<1>2. /\ posted' \in Seq(Events) /\ Len(posted') = Len(posted) + 1 /\ Len(posted) \in Nat
      /\ posted'[Len(posted) + 1] = [event |-> e, job |-> j]
      /\ \A n \in 1..Len(posted) : posted'[n] = posted[n]
  BY Queue DEF JInv, TypeOK, Post
<1>3. thread' \in [Job -> Threads] /\ thread'[j] = t
  BY DEF JInv, TypeOK
<1>4. TypeOK'
  BY <1>2, <1>3 DEF JInv, TypeOK
<1>5. OneJob'
  BY <1>1, <1>3 DEF JInv, OneJob, TypeOK
<1>6. ASSUME NEW n \in 1..Len(posted') PROVE posted'[n].job = current
  <2>1. n \in 1..Len(posted) \/ n = Len(posted) + 1
    BY <1>2
  <2>2. CASE n \in 1..Len(posted)
    BY <1>1, <1>2, <2>2 DEF JInv, Mail
  <2>3. CASE n = Len(posted) + 1
    BY <1>1, <1>2, <2>3
  <2> QED BY <2>1, <2>2, <2>3
<1>7. Len(posted) = 0 => Len(posted') = 1 /\ posted'[1].event = e
  BY <1>2
<1>8. Len(posted) = 1 => Len(posted') = 2 /\ posted'[1] = posted[1] /\ posted'[2].event = e
  BY <1>2
<1>9. MailOf(thread[current], posted)
  BY <1>1 DEF JInv, Mail
<1> QED BY <1>1, <1>3, <1>4, <1>5, <1>6, <1>7, <1>8, <1>9

LEMMA ReportInv == ASSUME JInv, NEW j \in Job, Report(j) PROVE JInv'
<1>1. PICK r \in Results : Post(r, j)
  BY DEF Report
<1>2. [event |-> r, job |-> j] \in Events
  BY DEF Events
<1>3. /\ TypeOK' /\ OneJob' /\ MailOf(thread[current], posted)
      /\ busy' /\ current' = current /\ j = current /\ thread'[current] = "reported"
      /\ \A n \in 1..Len(posted') : posted'[n].job = current
      /\ Len(posted) = 0 => Len(posted') = 1 /\ posted'[1].event = r
  BY <1>1, <1>2, Posting DEF Report, Threads
<1>4. Len(posted) = 0
  BY <1>3 DEF Report, MailOf
<1>5. MailOf(thread'[current'], posted')
  BY <1>3, <1>4 DEF MailOf
<1> QED BY <1>3, <1>5 DEF JInv, Mail

LEMMA FinishInv == ASSUME JInv, NEW j \in Job, Finish(j) PROVE JInv'
<1>1. [event |-> "finished", job |-> j] \in Events
  BY DEF Events
<1>2. /\ TypeOK' /\ OneJob' /\ MailOf(thread[current], posted)
      /\ busy' /\ current' = current /\ j = current /\ thread'[current] = "finished"
      /\ \A n \in 1..Len(posted') : posted'[n].job = current
      /\ Len(posted) = 0 => Len(posted') = 1 /\ posted'[1].event = "finished"
      /\ Len(posted) = 1 =>
           Len(posted') = 2 /\ posted'[1] = posted[1] /\ posted'[2].event = "finished"
  BY <1>1, Posting DEF Finish, EmitFinished, Threads
<1>3. Len(posted) = 0 \/ (Len(posted) = 1 /\ posted[1].event \in Results)
  BY <1>2 DEF Finish, MailOf
<1>4. MailOf(thread'[current'], posted')
  BY <1>2, <1>3 DEF MailOf
<1> QED BY <1>2, <1>4 DEF JInv, Mail

LEMMA ThreadEndsInv == ASSUME JInv, NEW j \in Job, ThreadEnds(j) PROVE JInv'
<1>1. [event |-> "thread finished", job |-> j] \in Events
  BY DEF Events
<1>2. /\ TypeOK' /\ OneJob' /\ MailOf(thread[current], posted)
      /\ busy' /\ current' = current /\ j = current /\ thread'[current] = "gone"
      /\ \A n \in 1..Len(posted') : posted'[n].job = current
      /\ Len(posted) = 0 => Len(posted') = 1 /\ posted'[1].event = "thread finished"
  BY <1>1, Posting DEF ThreadEnds, Threads
<1>3. Len(posted) = 0
  BY <1>2 DEF ThreadEnds, MailOf
<1>4. MailOf(thread'[current'], posted')
  BY <1>2, <1>3 DEF MailOf
<1> QED BY <1>2, <1>4 DEF JInv, Mail

-----------------------------------------------------------------------------
(* The main thread *)

(* What the handlers do with dialogs, intents and timers starts no job.    *)
LEMMA NoJobStarts ==
  ASSUME JInv, UNCHANGED <<jobVars, posted>>, TypeOK', closed' => ~busy
  PROVE  JInv'
BY DEF JInv, jobVars, OneJob, Mail

(* A job is only started while there is none.                              *)
LEMMA StartJobInv ==
  ASSUME JInv, NEW k \in Kinds, StartJob(k), ~closed, UNCHANGED <<posted, closed>>,
         scanIntent' \in {"none", "preview", "start"}, afterJob' \in BOOLEAN,
         closeRequested' \in BOOLEAN, dialogs' \in Seq(Dialogs),
         timers' \in Seq({"launch", "close"})
  PROVE  JInv'
<1>1. CASE busy
  <2>1. UNCHANGED <<jobVars, cancelled>>
    BY <1>1 DEF StartJob, StartRefused
  <2>2. TypeOK'
    BY <2>1 DEF JInv, TypeOK, jobVars
  <2> QED BY <2>1, <2>2, NoJobStarts
<1>2. CASE ~busy
  <2>1. /\ busy' = TRUE /\ current' = jobs + 1 /\ kind' = k /\ cancelled' = FALSE
        /\ thread' = [thread EXCEPT ![jobs + 1] = "running"] /\ jobs' = jobs + 1
        /\ jobs + 1 \in Job /\ jobs \in Nat
    BY <1>2, JobFacts DEF StartJob, StartRefused, JInv, TypeOK
  <2>2. TypeOK'
    <3>1. thread' \in [Job -> Threads] /\ jobs' \in 0..MaxJobs /\ current' \in Job \cup {NoJob}
      BY <2>1, JobFacts DEF JInv, TypeOK, Threads, Job
    <3>2. kind' \in Kinds \cup {"none"} /\ posted' \in Seq(Events) /\ closed' \in BOOLEAN
      BY <2>1 DEF JInv, TypeOK
    <3> QED BY <2>1, <3>1, <3>2 DEF TypeOK
  <2>3. OneJob'
    BY <1>2, <2>1, JobFacts DEF JInv, TypeOK, OneJob, NoJob
  <2>4. Mail'
    <3>1. Len(posted') = 0 /\ thread'[current'] = "running"
      BY <1>2, <2>1 DEF JInv, TypeOK, Mail
    <3> QED BY <2>1, <3>1 DEF Mail, MailOf
  <2> QED BY <2>2, <2>3, <2>4 DEF JInv
<1> QED BY <1>1, <1>2 DEF JInv, TypeOK

LEMMA DialogFacts ==
  ASSUME JInv
  PROVE  /\ \A d \in Dialogs : Append(dialogs, d) \in Seq(Dialogs) /\ <<d>> \in Seq(Dialogs)
         /\ <<>> \in Seq(Dialogs) /\ dialogs \in Seq(Dialogs)
         /\ \A d \in Dialogs : Answering(d) => dialogs' \in Seq(Dialogs) /\ ~closed
<1>1. dialogs \in Seq(Dialogs)
  BY DEF JInv, TypeOK
<1>2. dialogs # <<>> => SubSeq(dialogs, 1, Len(dialogs) - 1) \in Seq(Dialogs)
  BY <1>1
<1> QED BY <1>1, <1>2 DEF Answering

(* The handling of an event takes it off the queue.                        *)
LEMMA Handling ==
  ASSUME JInv, HandleEvent
  PROVE  /\ busy /\ posted[1].job = current /\ posted[1] \in Events /\ Head(posted) = posted[1]
         /\ posted' \in Seq(Events) /\ Len(posted') = Len(posted) - 1
         /\ Len(posted) \in Nat \ {0}
         /\ \A n \in 1..Len(posted') : posted'[n] = posted[n + 1]
<1>1. posted \in Seq(Events) /\ posted # <<>> /\ posted' = Tail(posted)
  BY DEF JInv, TypeOK, HandleEvent
<1>2. /\ posted' \in Seq(Events) /\ Len(posted') = Len(posted) - 1 /\ Len(posted) \in Nat \ {0}
      /\ Head(posted) = posted[1] /\ Head(posted) \in Events
      /\ \A n \in 1..(Len(posted) - 1) : posted'[n] = posted[n + 1]
  BY <1>1, Queue
<1>3. busy
  BY <1>2 DEF JInv, Mail
<1>4. posted[1].job = current
  BY <1>2, <1>3 DEF JInv, Mail
<1> QED BY <1>2, <1>3, <1>4

LEMMA HandleEventInv == JInv /\ HandleEvent => JInv'
<1> SUFFICES ASSUME JInv, HandleEvent PROVE JInv'
  OBVIOUS
<1>1. /\ busy /\ posted[1].job = current /\ posted[1] \in Events /\ Head(posted) = posted[1]
      /\ posted' \in Seq(Events) /\ Len(posted') = Len(posted) - 1 /\ Len(posted) \in Nat \ {0}
      /\ \A n \in 1..Len(posted') : posted'[n] = posted[n + 1]
  BY Handling
<1>2. current \in Job /\ thread \in [Job -> Threads]
  BY <1>1 DEF JInv, TypeOK, OneJob
<1>3. UNCHANGED <<jobs, closeRequested, closed>> /\ MailOf(thread[current], posted)
  BY <1>1 DEF HandleEvent, JInv, Mail
<1>4. CASE posted[1].event \in Results
  <2>1. /\ UNCHANGED <<thread, busy, current, kind, cancelled, scanIntent, afterJob, timers>>
        /\ dialogs' = Showing(posted[1].event)
    BY <1>1, <1>4 DEF HandleEvent, Results, EndOfJob
  <2>2. dialogs' \in Seq(Dialogs)
    BY <2>1, DialogFacts DEF Showing, Dialogs
  <2>3. TypeOK'
    BY <1>1, <1>3, <2>1, <2>2 DEF JInv, TypeOK
  <2>4. \/ thread[current] = "reported" /\ Len(posted) = 1
        \/ thread[current] = "finished" /\ Len(posted) = 2 /\ posted[2].event = "finished"
    <3>1. \A r \in Results : r # "finished" /\ r # "thread finished"
      BY DEF Results
    <3>2. posted[1].event # "finished" /\ posted[1].event # "thread finished" /\ Len(posted) # 0
      BY <1>1, <1>4, <3>1
    <3> QED BY <1>3, <3>2 DEF MailOf
  <2>5. MailOf(thread'[current'], posted')
    <3>1. thread'[current'] = thread[current] /\ Len(posted') = Len(posted) - 1
      BY <1>1, <2>1
    <3>2. CASE thread[current] = "reported" /\ Len(posted) = 1
      BY <3>1, <3>2 DEF MailOf
    <3>3. CASE thread[current] = "finished" /\ Len(posted) = 2 /\ posted[2].event = "finished"
      <4>1. Len(posted') = 1 /\ posted'[1] = posted[2]
        BY <1>1, <3>3
      <4>2. thread'[current'] = "finished" /\ posted'[1].event = "finished"
        BY <3>1, <3>3, <4>1
      <4> QED BY <4>1, <4>2 DEF MailOf
    <3> QED BY <2>4, <3>2, <3>3
  <2>6. \A n \in 1..Len(posted') : posted'[n].job = current
    BY <1>1 DEF JInv, Mail
  <2>7. Mail'
    BY <1>1, <2>1, <2>5, <2>6 DEF Mail
  <2> QED BY <1>3, <2>1, <2>3, <2>7 DEF JInv, OneJob
<1>5. CASE posted[1].event = "finished"
  <2>1. /\ thread' = [thread EXCEPT ![current] = "quitting"]
        /\ UNCHANGED <<dialogs, busy, current, kind, cancelled, scanIntent, afterJob, timers>>
    BY <1>1, <1>5 DEF HandleEvent, Results, EndOfJob
  <2>2. thread[current] = "finished" /\ Len(posted) = 1
    <3>1. posted[1].event \notin Results /\ posted[1].event # "thread finished" /\ Len(posted) # 0
      BY <1>1, <1>5 DEF Results
    <3> QED BY <1>3, <3>1 DEF MailOf
  <2>3. TypeOK'
    BY <1>1, <1>2, <1>3, <2>1 DEF JInv, TypeOK, Threads
  <2>4. OneJob'
    <3>1. thread'[current] = "quitting" /\ \A j \in Job \ {current} : thread'[j] = thread[j]
      BY <1>2, <2>1
    <3> QED BY <1>1, <1>2, <1>3, <2>1, <3>1 DEF JInv, OneJob
  <2>5. Mail'
    BY <1>1, <1>2, <2>1, <2>2 DEF Mail, MailOf
  <2> QED BY <2>3, <2>4, <2>5 DEF JInv
<1>6. CASE posted[1].event = "thread finished"
  <2>1. UNCHANGED <<thread, dialogs>> /\ JobFinished
    BY <1>1, <1>6 DEF HandleEvent, Results, EndOfJob
  <2>2. thread[current] = "gone" /\ Len(posted) = 1
    <3>1. posted[1].event \notin Results /\ posted[1].event # "finished" /\ Len(posted) # 0
      BY <1>1, <1>6 DEF Results
    <3> QED BY <1>3, <3>1 DEF MailOf
  <2>3. timers' \in Seq({"launch", "close"})
    <3> DEFINE S == {"launch", "close"}
    <3>1. timers \in Seq(S) /\ <<>> \in Seq(S) /\ <<"launch">> \in Seq(S) /\ <<"close">> \in Seq(S)
      BY DEF JInv, TypeOK
    <3>2. /\ (IF afterJob THEN <<"launch">> ELSE <<>>) \in Seq(S)
          /\ CloseTimer \in Seq(S)
      BY <3>1 DEF CloseTimer
    <3> HIDE DEF S
    <3>3. timers \o (IF afterJob THEN <<"launch">> ELSE <<>>) \in Seq(S)
      BY <3>1, <3>2
    <3>4. timers' \in Seq(S)
      BY <2>1, <3>2, <3>3 DEF JobFinished
    <3> QED BY <3>4 DEF S
  <2>4. TypeOK'
    BY <1>1, <1>3, <2>1, <2>3 DEF JInv, TypeOK, JobFinished, NextIntent, NoJob
  <2>5. OneJob'
    BY <1>1, <1>3, <2>1, <2>2, JobFacts DEF JInv, OneJob, TypeOK, JobFinished
  <2>6. Mail'
    BY <1>1, <2>1, <2>2 DEF Mail, JobFinished
  <2> QED BY <2>4, <2>5, <2>6 DEF JInv
<1> QED BY <1>1, <1>4, <1>5, <1>6 DEF Events

(* Both ways out of _confirm_and_launch, whatever the dialogs below.       *)
LEMMA LaunchInv ==
  ASSUME JInv, NEW below, below = dialogs \/ below = <<>>, ConfirmAndLaunch(below), ~closed,
         UNCHANGED <<posted, closed, scanIntent, afterJob, closeRequested>>,
         timers' \in Seq({"launch", "close"})
  PROVE  JInv'
<1>1. below \in Seq(Dialogs)
  BY DialogFacts
<1>2. \A d \in Dialogs : Append(below, d) \in Seq(Dialogs)
  BY <1>1
<1>3. CASE /\ dialogs' \in {Append(below, d) : d \in {"notice", "install", "consent"}}
           /\ UNCHANGED <<jobVars, cancelled>>
  <2>1. dialogs' \in Seq(Dialogs)
    BY <1>2, <1>3 DEF Dialogs
  <2>2. TypeOK'
    BY <1>3, <2>1 DEF JInv, TypeOK, jobVars
  <2> QED BY <1>3, <2>2, NoJobStarts
<1>4. CASE dialogs' = below /\ StartJob("operation")
  <2>1. "operation" \in Kinds
    BY DEF Kinds
  <2> QED BY <1>1, <1>4, <2>1, StartJobInv DEF JInv, TypeOK
<1> QED BY <1>3, <1>4 DEF ConfirmAndLaunch

LEMMA TimerFacts ==
  ASSUME JInv, timers # <<>>
  PROVE  Tail(timers) \in Seq({"launch", "close"})
BY Queue DEF JInv, TypeOK

LEMMA LaunchAfterJobInv == JInv /\ LaunchAfterJob => JInv'
BY LaunchInv, TimerFacts DEF LaunchAfterJob

(* The window is closed, or asks, according to busy.                       *)
LEMMA CloseEventInv ==
  ASSUME JInv, CloseEvent, ~closed, timers' \in Seq({"launch", "close"}),
         UNCHANGED <<jobVars, cancelled, scanIntent, afterJob, closeRequested, posted>>
  PROVE  JInv'
<1>1. dialogs' \in Seq(Dialogs)
  BY DialogFacts DEF CloseEvent, Dialogs
<1>2. closed' \in BOOLEAN /\ (closed' => ~busy)
  BY DEF CloseEvent, MayClose, JInv, TypeOK
<1>3. TypeOK'
  BY <1>1, <1>2 DEF JInv, TypeOK, jobVars
<1> QED BY <1>2, <1>3, NoJobStarts

LEMMA CloseAfterJobInv == JInv /\ CloseAfterJob => JInv'
BY CloseEventInv, TimerFacts DEF CloseAfterJob

-----------------------------------------------------------------------------
(* The user *)

LEMMA BeginScanInv ==
  ASSUME JInv, ~closed, NEW intent \in {"preview", "start"}, BeginScan(intent),
         UNCHANGED <<afterJob, closeRequested, closed, queueVars>>
  PROVE  JInv'
<1>1. CASE scanIntent' = intent /\ StartJob("scan") /\ UNCHANGED dialogs
  <2>1. "scan" \in Kinds /\ timers' \in Seq({"launch", "close"}) /\ dialogs' \in Seq(Dialogs)
    BY <1>1 DEF Kinds, JInv, TypeOK, queueVars
  <2> QED BY <1>1, <2>1, StartJobInv DEF JInv, TypeOK, queueVars
<1>2. CASE dialogs' = <<"notice">> /\ UNCHANGED <<jobVars, cancelled, scanIntent>>
  <2>1. dialogs' \in Seq(Dialogs)
    BY <1>2 DEF Dialogs
  <2>2. TypeOK'
    BY <1>2, <2>1 DEF JInv, TypeOK, jobVars, queueVars
  <2> QED BY <1>2, <2>2, NoJobStarts DEF JInv, OneJob, queueVars
<1> QED BY <1>1, <1>2 DEF BeginScan

LEMMA AtWindowInv ==
  JInv /\ (ScanFolder \/ StartPipeline \/ StartOther \/ Cancel \/ CloseWindow) => JInv'
<1> SUFFICES ASSUME JInv, ScanFolder \/ StartPipeline \/ StartOther \/ Cancel \/ CloseWindow
             PROVE  JInv'
  OBVIOUS
<1>0. timers \in Seq({"launch", "close"})
  BY DEF JInv, TypeOK
<1>1. CASE ScanFolder
  BY <1>1, BeginScanInv DEF ScanFolder, AtWindow
<1>2. CASE StartPipeline
  BY <1>0, <1>2, BeginScanInv, LaunchInv DEF StartPipeline, AtWindow, queueVars
<1>3. CASE StartOther
  <2>1. CASE dialogs' \in {<<"consent">>, <<"notice">>} /\ UNCHANGED <<jobVars, cancelled>>
    <3>1. dialogs' \in Seq(Dialogs)
      BY <2>1, DialogFacts DEF Dialogs
    <3>2. TypeOK'
      BY <1>3, <2>1, <3>1 DEF StartOther, JInv, TypeOK, jobVars, queueVars
    <3> QED BY <1>3, <2>1, <3>2, NoJobStarts DEF StartOther, AtWindow, queueVars
  <2>2. CASE StartJob("operation") /\ UNCHANGED dialogs
    <3>1. "operation" \in Kinds /\ ~closed
      BY <1>3 DEF Kinds, StartOther, AtWindow
    <3> QED BY <1>0, <1>3, <2>2, <3>1, StartJobInv DEF StartOther, JInv, TypeOK, queueVars
  <2> QED BY <1>3, <2>1, <2>2 DEF StartOther
<1>4. CASE Cancel
  <2>1. TypeOK'
    BY <1>4 DEF Cancel, CancelCurrent, JInv, TypeOK, jobVars, queueVars
  <2> QED BY <1>4, <2>1, NoJobStarts DEF Cancel, AtWindow, queueVars
<1>5. CASE CloseWindow
  BY <1>0, <1>5, CloseEventInv DEF CloseWindow, AtWindow, queueVars
<1> QED BY <1>1, <1>2, <1>3, <1>4, <1>5

LEMMA AtDialogInv ==
  JInv /\ (Dismiss \/ AcceptPreview \/ AcceptInstall \/ AcceptStart \/ AcceptClose) => JInv'
<1> SUFFICES ASSUME JInv, Dismiss \/ AcceptPreview \/ AcceptInstall \/ AcceptStart \/ AcceptClose
             PROVE  JInv'
  OBVIOUS
<1>0. dialogs' \in Seq(Dialogs) /\ ~closed
  BY DialogFacts DEF Dismiss, AcceptPreview, AcceptInstall, AcceptStart, AcceptClose, Dialogs
<1>1. CASE Dismiss
  <2>1. TypeOK'
    BY <1>0, <1>1 DEF Dismiss, JInv, TypeOK, jobVars, queueVars
  <2> QED BY <1>0, <1>1, <2>1, NoJobStarts DEF Dismiss, queueVars
<1>2. CASE AcceptPreview
  <2>1. TypeOK'
    BY <1>0, <1>2 DEF AcceptPreview, JInv, TypeOK, jobVars, queueVars
  <2> QED BY <1>0, <1>2, <2>1, NoJobStarts DEF AcceptPreview, queueVars
<1>3. CASE AcceptInstall \/ AcceptStart
  <2>1. "operation" \in Kinds /\ timers' \in Seq({"launch", "close"})
    BY <1>3 DEF Kinds, AcceptInstall, AcceptStart, JInv, TypeOK, queueVars
  <2> QED BY <1>0, <1>3, <2>1, StartJobInv DEF AcceptInstall, AcceptStart, JInv, TypeOK, queueVars
<1>4. CASE AcceptClose
  <2>1. TypeOK'
    BY <1>0, <1>4 DEF AcceptClose, CancelCurrent, JInv, TypeOK, jobVars, queueVars
  <2> QED BY <1>0, <1>4, <2>1, NoJobStarts DEF AcceptClose, queueVars
<1> QED BY <1>1, <1>2, <1>3, <1>4

LEMMA StutterInv == JInv /\ UNCHANGED vars => JInv'
<1> SUFFICES ASSUME JInv, UNCHANGED vars PROVE JInv'
  OBVIOUS
<1>1. TypeOK'
  BY DEF JInv, TypeOK, vars
<1> QED BY <1>1, NoJobStarts DEF JInv, OneJob, vars, jobVars

LEMMA NextInv == JInv /\ [Next]_vars => JInv'
BY AtWindowInv, AtDialogInv, HandleEventInv, LaunchAfterJobInv, CloseAfterJobInv, ReportInv,
   FinishInv, ThreadEndsInv, StutterInv DEF Next, User, LoopStep, ThreadStep, Ended

LEMMA JInvHolds == Spec => []JInv
BY InitInv, NextInv, PTL DEF Spec

-----------------------------------------------------------------------------
(* The theorems *)

(* Every variable of the window keeps its type, and no token outlives its  *)
(* job.                                                                    *)
THEOREM TypeCorrect == Spec => []TypeOK
<1>1. JInv => TypeOK
  BY DEF JInv
<1> QED BY <1>1, JInvHolds, PTL

(* However many jobs are started, and however deep their dialogs nest, one *)
(* operation runs at a time.                                               *)
THEOREM OneThreadHolds == Spec => []OneThread
<1>1. ASSUME JInv, NEW j \in Job, Alive(j) PROVE j = current
  BY <1>1, JobFacts DEF JInv, TypeOK, OneJob, Alive
<1>2. JInv => OneThread
  BY <1>1 DEF OneThread
<1> QED BY <1>2, JInvHolds, PTL

(* The application never ends under a thread that still runs.              *)
THEOREM NoThreadAfterCloseHolds == Spec => []NoThreadAfterClose
<1>1. ASSUME JInv, closed, NEW j \in Job PROVE ~Alive(j)
  <2>1. current = NoJob
    BY <1>1 DEF JInv, OneJob
  <2> QED BY <1>1, <2>1, JobFacts DEF JInv, TypeOK, OneJob, Alive
<1>2. JInv => NoThreadAfterClose
  BY <1>1 DEF NoThreadAfterClose
<1> QED BY <1>2, JInvHolds, PTL

(* A result is handled while its own job is still the active one, so that  *)
(* _on_success never takes it for another's.                               *)
THEOREM OwnResultHolds == Spec => []OwnResult
<1>1. ASSUME JInv, NEW n \in DOMAIN posted PROVE posted[n].job = current
  <2>1. n \in 1..Len(posted) /\ Len(posted) \in Nat
    BY <1>1 DEF JInv, TypeOK
  <2> QED BY <1>1, <2>1 DEF JInv, Mail
<1>2. JInv => OwnResult
  BY <1>1 DEF OwnResult
<1> QED BY <1>2, JInvHolds, PTL
=============================================================================
