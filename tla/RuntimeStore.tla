---------------------------- MODULE RuntimeStore ----------------------------
(***************************************************************************)
(* RuntimeStore (shared/runtimes.py): the on-disk store of one provider's  *)
(* managed ASR runtime, as several application processes (CLI runs, GUI)   *)
(* install, repair and remove it at the same time.                         *)
(*                                                                         *)
(* The disk holds one directory per installation, the pointer current.json *)
(* that selects one of them, and the lock file .install.lock.  install     *)
(* reads the status, then takes the lock, builds and probes a fresh        *)
(* directory, selects it, and (repair) deletes the one its status had      *)
(* named.  remove takes no lock.  A process can fail, be cancelled, be     *)
(* interrupted by a second Ctrl-C, or die at any step, and the file system *)
(* may refuse a deletion; the disk stays.                                  *)
(***************************************************************************)
EXTENDS Naturals, FiniteSets

CONSTANTS
  Process,       \* application processes
  Operations,    \* which of "install", "repair", "remove" they call
  None,          \* no path
  MaxCalls,      \* calls in total (a bound)
  MaxDirectories, \* directories ever made (a bound: one per call suffices)
  MaxTroubles    \* signals, deaths and refused deletions in total (a bound)

ASSUME OperationsAssumption == Operations \subseteq {"install", "repair", "remove"}
ASSUME BoundsAssumption ==
  /\ MaxCalls \in Nat /\ MaxDirectories \in Nat \ {0}
  /\ MaxTroubles \in Nat

(* A directory name is never reused (it ends in a random uuid): directory  *)
(* k is the k-th one made.  One may be there from the start.               *)
Directory == 1..MaxDirectories
ASSUME NoneAssumption == None \notin Directory /\ None \notin Process
OptionalDirectory == Directory \cup {None}

VARIABLES
  \* the disk
  pointer,     \* the directory current.json names
  dir,         \* contents of each directory
  lockFile,    \* who made .install.lock, or None when it does not exist
  \* each process
  pc,          \* where it is in its call
  op,          \* the operation it performs
  seen,        \* the path its status read from the pointer
  old,         \* current.path: what its status returned
  target,      \* the directory it builds
  result,      \* how its call ends
  cancelled,   \* its cancellation token
  \* counters and history
  made,        \* directories made so far
  probed,      \* history: directories whose Worker answered the probe
  hindered,    \* history: processes kept from deleting their lock file
  calls, troubles

disk == <<pointer, dir, lockFile>>
local == <<op, seen, old, target, cancelled>>
history == <<made, probed, hindered>>
counters == <<calls, troubles>>
vars == <<disk, pc, local, result, history, counters>>

(* A directory is "complete" once its manifest is written, and "torn"      *)
(* while or after a deletion that did not finish.                          *)
Contents == {"absent", "staging", "complete", "torn"}
Building == {"creating", "packaging", "probing"}
Locked   == Building \cup {"locked", "preparing", "recording", "selecting", "replacing",
                           "deletingOld", "aborting", "unlocking"}
Locations == Locked \cup {"idle", "validating", "acquiring",
                          "reporting", "dropping", "deleting", "unlinking", "dead"}
Results == {"none", "ready", "failed", "cancelled", "interrupted", "removed"}

TypeOK ==
  /\ pointer \in OptionalDirectory
  /\ dir \in [Directory -> Contents]
  /\ lockFile \in Process \cup {None}
  /\ pc \in [Process -> Locations]
  /\ op \in [Process -> Operations \cup {None}]
  /\ seen \in [Process -> OptionalDirectory]
  /\ old \in [Process -> OptionalDirectory]
  /\ target \in [Process -> OptionalDirectory]
  /\ result \in [Process -> Results]
  /\ cancelled \in [Process -> BOOLEAN]
  /\ made \in 0..MaxDirectories
  /\ probed \subseteq Directory
  /\ hindered \subseteq Process
  /\ calls \in Nat /\ troubles \in Nat

(* Nothing is installed, or one earlier installation is ready.             *)
Init ==
  /\ \/ pointer = None /\ dir = [d \in Directory |-> "absent"] /\ made = 0
     \/ /\ pointer = 1 /\ made = 1
        /\ dir = [d \in Directory |-> IF d = 1 THEN "complete" ELSE "absent"]
  /\ probed = 1..made
  /\ lockFile = None
  /\ hindered = {}
  /\ pc = [p \in Process |-> "idle"]
  /\ op = [p \in Process |-> None]
  /\ seen = [p \in Process |-> None]
  /\ old = [p \in Process |-> None]
  /\ target = [p \in Process |-> None]
  /\ result = [p \in Process |-> "none"]
  /\ cancelled = [p \in Process |-> FALSE]
  /\ calls = 0 /\ troubles = 0

Goto(p, l) == pc' = [pc EXCEPT ![p] = l]

(* A call ends, and its local variables with it.                           *)
Leave(p, l) ==
  /\ Goto(p, l)
  /\ op' = [op EXCEPT ![p] = None]
  /\ seen' = [seen EXCEPT ![p] = None]
  /\ old' = [old EXCEPT ![p] = None]
  /\ target' = [target EXCEPT ![p] = None]
  /\ cancelled' = [cancelled EXCEPT ![p] = FALSE]

(* A signal, a death or a refused deletion is one of a bounded number.     *)
Trouble == troubles < MaxTroubles /\ troubles' = troubles + 1

-----------------------------------------------------------------------------
(* A call begins with status: read the pointer, then look at the directory *)
(* it names                                                                *)

Call(p, o) ==
  /\ pc[p] = "idle"
  /\ calls < MaxCalls
  /\ calls' = calls + 1
  /\ Goto(p, "validating")
  /\ op' = [op EXCEPT ![p] = o]
  /\ seen' = [seen EXCEPT ![p] = pointer]
  /\ result' = [result EXCEPT ![p] = "none"]
  /\ UNCHANGED <<disk, old, target, cancelled, history, troubles>>

(* _valid: of a torn directory the manifest and the interpreter may be     *)
(* left, or not.                                                           *)
MayBeValid(d)   == d # None /\ dir[d] \in {"complete", "torn"}
MayBeInvalid(d) == d # None => dir[d] # "complete"

(* The lock is taken, and the tree is removed, on what status returned.    *)
AfterStatus(p, path) ==
  CASE op[p] = "remove"                    -> "dropping"
    [] op[p] = "install" /\ path # None    -> "reporting"
    [] OTHER                               -> "acquiring"

Validate(p) ==
  /\ pc[p] = "validating"
  /\ \E path \in {seen[p], None} :
       /\ IF path = None THEN MayBeInvalid(seen[p]) ELSE MayBeValid(path)
       /\ old' = [old EXCEPT ![p] = path]
       /\ Goto(p, AfterStatus(p, path))
       /\ result' = [result EXCEPT ![p] =
                       IF AfterStatus(p, path) = "reporting" THEN "ready" ELSE @]
  /\ seen' = [seen EXCEPT ![p] = None]
  /\ UNCHANGED <<disk, op, target, cancelled, history, counters>>

-----------------------------------------------------------------------------
(* install *)

(* os.open with O_CREAT and O_EXCL *)
OpenShared    == TRUE                 \* faulty variant: without O_EXCL
OpenExclusive == lockFile = None

(* It fails when the lock file exists, and before that when micromamba or  *)
(* the project payload is not found or the directory cannot be made.       *)
AcquireLock(p) ==
  /\ pc[p] = "acquiring"
  /\ \/ /\ OpenExclusive
        /\ lockFile' = p
        /\ Goto(p, "locked")
        /\ UNCHANGED <<local, result>>
     \/ /\ Leave(p, "idle")
        /\ result' = [result EXCEPT ![p] = "failed"]
        /\ UNCHANGED lockFile
  /\ UNCHANGED <<pointer, dir, history, counters>>

(* The lock is held for a few statements before the try whose finally      *)
(* deletes it.                                                             *)
EnterTry(p) ==
  /\ pc[p] = "locked"
  /\ Goto(p, "preparing")
  /\ UNCHANGED <<disk, local, result, history, counters>>

(* The name of a new directory ends in a random uuid.                      *)
NewDirectory == made + 1

(* The first checkpoint, then target.mkdir() *)
MakeTarget(p) ==
  /\ pc[p] = "preparing"
  /\ IF cancelled[p]
       THEN /\ Goto(p, "aborting")
            /\ result' = [result EXCEPT ![p] = "cancelled"]
            /\ UNCHANGED <<dir, target, made>>
       ELSE /\ made < MaxDirectories
            /\ made' = made + 1
            /\ target' = [target EXCEPT ![p] = NewDirectory]
            /\ dir' = [dir EXCEPT ![NewDirectory] = "staging"]
            /\ Goto(p, "creating")
            /\ UNCHANGED result
  /\ UNCHANGED <<pointer, lockFile, op, seen, old, cancelled, probed, hindered, counters>>

RetriesForever(stage) ==              \* faulty variant: a build never ends
  IF stage = "probing" THEN "creating" ELSE "probing"
NoProbe(stage) ==                     \* faulty variant: the Worker is not probed
  IF stage = "creating" THEN "packaging" ELSE "recording"
NextStage(stage) ==
  CASE stage = "creating"  -> "packaging"
    [] stage = "packaging" -> "probing"
    [] stage = "probing"   -> "recording"

(* micromamba create, pip install, and the Worker probe succeed in turn,   *)
(* with a checkpoint between them; none follows the probe.                 *)
BuildStep(p) ==
  /\ pc[p] \in Building
  /\ cancelled[p] => pc[p] = "probing"
  /\ Goto(p, NextStage(pc[p]))
  /\ probed' = IF pc[p] = "probing" THEN probed \cup {target[p]} ELSE probed
  /\ UNCHANGED <<disk, local, result, made, hindered, counters>>

(* A subprocess fails, or the probe, or a file or directory cannot be      *)
(* written.                                                                *)
OrDeleting ==                         \* faulty variant: rmtree of the old runtime raises
  Building \cup {"preparing", "recording", "selecting", "replacing"}
FailingSteps == Building \cup {"preparing", "recording", "selecting"}

StepFails(p) ==
  /\ pc[p] \in FailingSteps
  /\ Goto(p, "aborting")
  /\ result' = [result EXCEPT ![p] = "failed"]
  /\ UNCHANGED <<disk, local, history, counters>>

(* The checkpoint of the poll loop terminates the subprocess.              *)
StepCancelled(p) ==
  /\ pc[p] \in Building
  /\ cancelled[p]
  /\ Goto(p, "aborting")
  /\ result' = [result EXCEPT ![p] = "cancelled"]
  /\ UNCHANGED <<disk, local, history, counters>>

WriteManifest(p) ==
  /\ pc[p] = "recording"
  /\ dir' = [dir EXCEPT ![target[p]] = "complete"]
  /\ Goto(p, "selecting")
  /\ UNCHANGED <<pointer, lockFile, local, result, history, counters>>

(* _write_pointer replaces current.json in one step.                       *)
WritePointer(p) ==
  /\ pc[p] = "selecting"
  /\ pointer' = target[p]
  /\ result' = [result EXCEPT ![p] = "ready"]
  /\ Goto(p, IF op[p] = "repair" /\ old[p] # None THEN "replacing" ELSE "unlocking")
  /\ UNCHANGED <<dir, lockFile, local, history, counters>>

(* rmtree of a directory with ignore_errors takes time: torn first, then   *)
(* absent.  Refused, it leaves all or part of the directory, silently.     *)
BeginRemoval(p, d, during, after) ==
  \/ /\ dir' = IF dir[d] = "absent" THEN dir ELSE [dir EXCEPT ![d] = "torn"]
     /\ Goto(p, during)
     /\ UNCHANGED troubles
  \/ Trouble /\ UNCHANGED dir /\ Goto(p, after)

EndRemoval(p, d, after) ==
  /\ \/ dir' = [dir EXCEPT ![d] = "absent"] /\ UNCHANGED troubles
     \/ Trouble /\ UNCHANGED dir
  /\ Goto(p, after)

DeleteOld(p) ==
  /\ \/ pc[p] = "replacing" /\ BeginRemoval(p, old[p], "deletingOld", "unlocking")
     \/ pc[p] = "deletingOld" /\ EndRemoval(p, old[p], "unlocking")
  /\ UNCHANGED <<pointer, lockFile, local, result, history, calls>>

(* The except clauses delete the new directory, or what they can of it.    *)
DeletesSelected(p) == old[p]          \* faulty variant: the old one
AbortDeletes(p)    == target[p]

Abort(p) ==
  /\ pc[p] = "aborting"
  /\ LET d == AbortDeletes(p) IN
       \/ /\ dir' = IF d = None THEN dir ELSE [dir EXCEPT ![d] = "absent"]
          /\ UNCHANGED troubles
       \/ /\ d # None
          /\ \E left \in {dir[d], "torn"} : dir' = [dir EXCEPT ![d] = left]
          /\ Trouble
  /\ Goto(p, "unlocking")
  /\ UNCHANGED <<pointer, lockFile, local, result, history, calls>>

(* finally: lock_path.unlink, whose OSError replaces the call's outcome    *)
KeptOnError(p)      == IF result[p] = "ready" THEN None ELSE lockFile
                                      \* faulty variant: not in a finally
LockFileAfter(p)    == None

Unlock(p) ==
  /\ pc[p] = "unlocking"
  /\ \/ /\ lockFile' = LockFileAfter(p)
        /\ Goto(p, "reporting")
        /\ UNCHANGED <<local, result, hindered, troubles>>
     \/ /\ Trouble
        /\ hindered' = hindered \cup {p}
        /\ result' = [result EXCEPT ![p] = "failed"]
        /\ Leave(p, "idle")
        /\ UNCHANGED lockFile
  /\ UNCHANGED <<pointer, dir, made, probed, calls>>

(* install_runtime polls the token once more before it reports success.    *)
Report(p) ==
  /\ pc[p] = "reporting"
  /\ result' = [result EXCEPT ![p] = IF @ = "ready" /\ cancelled[p] THEN "cancelled" ELSE @]
  /\ Leave(p, "idle")
  /\ UNCHANGED <<disk, history, counters>>

-----------------------------------------------------------------------------
(* remove *)

DropTree(p) ==
  /\ \/ /\ pc[p] = "dropping" /\ old[p] = None
        /\ Goto(p, "unlinking")
        /\ UNCHANGED <<dir, troubles>>
     \/ /\ pc[p] = "dropping" /\ old[p] # None
        /\ BeginRemoval(p, old[p], "deleting", "unlinking")
     \/ pc[p] = "deleting" /\ EndRemoval(p, old[p], "unlinking")
  /\ UNCHANGED <<pointer, lockFile, local, result, history, calls>>

(* pointer.unlink, whatever the pointer names by now *)
UnlinkPointer(p) ==
  /\ pc[p] = "unlinking"
  /\ \/ /\ pointer' = None
        /\ result' = [result EXCEPT ![p] = "removed"]
        /\ UNCHANGED troubles
     \/ /\ Trouble
        /\ result' = [result EXCEPT ![p] = "failed"]
        /\ UNCHANGED pointer
  /\ Leave(p, "idle")
  /\ UNCHANGED <<dir, lockFile, history, calls>>

-----------------------------------------------------------------------------
(* The user and the operating system *)

Cancel(p) ==
  /\ pc[p] \notin {"idle", "dead"}
  /\ ~cancelled[p]
  /\ Trouble
  /\ cancelled' = [cancelled EXCEPT ![p] = TRUE]
  /\ UNCHANGED <<disk, pc, op, seen, old, target, result, history, calls>>

(* A second SIGINT raises KeyboardInterrupt, which none of install's       *)
(* except clauses catches.  Its finally clause still runs, unless the try  *)
(* is not entered yet, or the interrupt hits the finally clause itself.    *)
Unprotected == {"locked", "unlocking"}

Interrupt(p) ==
  /\ pc[p] \notin {"idle", "dead"}
  /\ cancelled[p]
  /\ Trouble
  /\ result' = [result EXCEPT ![p] = "interrupted"]
  /\ IF pc[p] \in Locked \ Unprotected
       THEN Goto(p, "unlocking") /\ UNCHANGED local
       ELSE Leave(p, "idle")
  /\ hindered' = IF pc[p] \in Unprotected THEN hindered \cup {p} ELSE hindered
  /\ UNCHANGED <<disk, made, probed, calls>>

Crash(p) ==
  /\ pc[p] \notin {"idle", "dead"}
  /\ Trouble
  /\ Leave(p, "dead")
  /\ UNCHANGED <<disk, result, history, calls>>

-----------------------------------------------------------------------------
Install(p) ==
  \/ AcquireLock(p)
  \/ EnterTry(p)
  \/ MakeTarget(p)
  \/ BuildStep(p)
  \/ StepFails(p)
  \/ StepCancelled(p)
  \/ WriteManifest(p)
  \/ WritePointer(p)
  \/ DeleteOld(p)
  \/ Abort(p)
  \/ Unlock(p)
  \/ Report(p)

Remove(p) == DropTree(p) \/ UnlinkPointer(p)

Step(p) == Validate(p) \/ Install(p) \/ Remove(p)

Next ==
  \E p \in Process :
    \/ \E o \in Operations : Call(p, o)
    \/ Step(p)
    \/ Cancel(p)
    \/ Interrupt(p)
    \/ Crash(p)

(* A live process keeps running: its subprocesses end or fail.             *)
Fairness == \A p \in Process : WF_vars(Step(p))

Spec == Init /\ [][Next]_vars /\ Fairness

-----------------------------------------------------------------------------
(* Properties *)

Ready == pointer # None /\ dir[pointer] = "complete"

(* The lock file serialises installations: two processes are never both    *)
(* between taking it and unlinking it.                                     *)
OneInstaller ==
  \A p, q \in Process : pc[p] \in Locked /\ pc[q] \in Locked => p = q

(* current.json only ever names a directory whose Worker answered the      *)
(* probe, even when builds fail, are cancelled, or die halfway.            *)
SelectedWasProbed == pointer # None => pointer \in probed

(* A ready runtime is lost only to a remove.  A failed, cancelled,         *)
(* interrupted or dead install or repair leaves it selected and whole, and *)
(* a repair switches from one ready runtime to the next in one step, with  *)
(* any number of other processes about.                                    *)
Removing(p) == pc[p] \in {"dropping", "unlinking"}
ReadyLostOnlyByRemove ==
  [][Ready /\ ~Ready' => \E p \in Process : Removing(p) /\ pc'[p] # pc[p]]_vars

(* What a failed or cancelled install deletes, or tries to, is its own:    *)
(* current.json does not name the directory, and no other process has read *)
(* it there to use, repair or remove it.                                   *)
AbortedNotSelected ==
  \A p \in Process :
    /\ pc[p] \in {"aborting", "unlocking"}
    /\ result[p] \in {"failed", "cancelled"}
    /\ target[p] # None
    => /\ pointer # target[p]
       /\ \A q \in Process : target[p] \notin {seen[q], old[q]}

(* A failure or a cancellation never leaves the lock file behind.  It      *)
(* exists while its maker installs, after its maker died doing so, or when *)
(* its maker was kept from deleting it: by a second Ctrl-C in the few      *)
(* statements the try does not protect, or by the file system.             *)
LockHasOwner ==
  lockFile # None =>
    pc[lockFile] \in Locked \cup {"dead"} \/ lockFile \in hindered

(* Every call ends, unless its process dies.                               *)
CallsEnd ==
  \A p \in Process : pc[p] # "idle" ~> pc[p] \in {"idle", "dead"}

(* Stated by docs/releasing.md: cancelling an install removes only the     *)
(* incomplete directory, so the runtime a cancelled repair set out to      *)
(* replace is still there.                                                 *)
CancelKeepsPrevious ==
  [][\A p \in Process :
       /\ pc[p] # "idle" /\ pc'[p] = "idle"
       /\ result'[p] = "cancelled"
       /\ old[p] # None
       => dir'[old[p]] = "complete"]_vars

(* Asserted by tests/unit/test_runtime_store.py: once no call is under     *)
(* way, at most one installation directory exists.                         *)
OneDirectoryAtRest ==
  (\A p \in Process : pc[p] = "idle") =>
    Cardinality({d \in Directory : dir[d] # "absent"}) <= 1
=============================================================================
