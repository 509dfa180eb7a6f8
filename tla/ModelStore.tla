----------------------------- MODULE ModelStore -----------------------------
(***************************************************************************)
(* ModelStore: the model cache (models.py), which several processes share  *)
(* without a lock: download_model, and prepare_asr_model before a run.     *)
(*                                                                         *)
(* A model has one directory for each revision and a file current.json     *)
(* that names one of them.  A revision is downloaded to a staging          *)
(* directory and renamed into place.  current.json is written by way of    *)
(* .current.json.tmp, whose name all processes share, so that a file       *)
(* opened under one name may be written under the other.                   *)
(***************************************************************************)
EXTENDS Naturals, Sequences, Functions

CONSTANTS
  Process, Key, Revision,
  Published,       \* the revisions of each model that the hub has
  Request,         \* what is asked for: [key, revision (or None), offline]
  Dependencies,    \* for each model the ones that are downloaded before it
  None, Torn,      \* no file or revision; a file that is empty so far
  MaxCalls, MaxCrashes                \* bounds

ASSUME StoreAssumption ==
  /\ Dependencies \in [Key -> Seq(Key)]
  /\ Published \in [Key -> SUBSET Revision]
  /\ Request \subseteq [key : Key, revision : Revision \cup {None}, offline : BOOLEAN]
  /\ None \notin Revision /\ Torn \notin Revision /\ None # Torn
  /\ MaxCalls \in Nat /\ MaxCrashes \in Nat

VARIABLES
  \* the disk
  pointer,     \* current.json of a model
  tmp,         \* its .current.json.tmp
  dir,         \* the directory of a revision
  staging,     \* the process's .download- directory
  \* the processes
  pc,
  plan,        \* the models still to download, the one at hand first
  request,     \* what it was asked for, None when it is idle
  target,      \* resolved_revision
  opened,      \* where the temporary file is that it has open
  failing,     \* an exception is on its way
  got,         \* paths: pairs of a model and a revision
  reply,
  abandoned,   \* history: which files of a model a failed write, or a death, left unwritten
  calls, crashes

diskVars    == <<pointer, tmp, dir, staging>>
callVars    == <<plan, target, failing, got>>
countVars   == <<calls, crashes>>
vars == <<diskVars, pc, request, callVars, opened, reply, abandoned, countVars>>

Steps == {"idle", "path", "resolve", "check", "stage", "download", "publish",
          "open", "fill", "replace", "cleanup", "report", "dead"}
Contents == Revision \cup {None, Torn}

TypeOK ==
  /\ pointer \in [Key -> Contents] /\ tmp \in [Key -> Contents]
  /\ dir \in [Key -> [Revision -> {"absent", "complete", "damaged"}]]
  /\ staging \in [Process -> BOOLEAN]
  /\ pc \in [Process -> Steps]
  /\ plan \in [Process -> Seq(Key)]
  /\ request \in [Process -> Request \cup {None}]
  /\ target \in [Process -> Revision \cup {None}]
  /\ opened \in [Process -> {"no", "tmp", "current", "lost"}]
  /\ failing \in [Process -> BOOLEAN]
  /\ got \in [Process -> SUBSET (Key \X Revision)]
  /\ reply \in [Process -> {"none", "ok", "failed"}]
  /\ abandoned \in [Key -> SUBSET {"tmp", "current"}]
  /\ calls \in Nat /\ crashes \in Nat

(* A revision may lack a file that somebody deleted; it is not selected.   *)
Init ==
  /\ dir \in [Key -> [Revision -> {"absent", "complete", "damaged"}]]
  /\ pointer \in [Key -> Revision \cup {None}]
  /\ \A k \in Key :
       /\ pointer[k] # None => dir[k][pointer[k]] = "complete"
       /\ \A r \in Revision \ Published[k] : dir[k][r] = "absent"
  /\ tmp = [k \in Key |-> None]
  /\ staging = [p \in Process |-> FALSE]
  /\ pc = [p \in Process |-> "idle"] /\ plan = [p \in Process |-> <<>>]
  /\ request = [p \in Process |-> None]
  /\ target = [p \in Process |-> None] /\ opened = [p \in Process |-> "no"]
  /\ failing = [p \in Process |-> FALSE] /\ got = [p \in Process |-> {}]
  /\ reply = [p \in Process |-> "none"]
  /\ abandoned = [k \in Key |-> {}]
  /\ calls = 0 /\ crashes = 0

-----------------------------------------------------------------------------
(* Steps of a process *)

At(p, step)  == pc[p] = step
Goto(p, step) == pc' = [pc EXCEPT ![p] = step]
KeyOf(p)     == Head(plan[p])

(* The revision is asked of the model itself, not of its dependencies.     *)
Wanted(p) == IF Len(plan[p]) = 1 THEN request[p].revision ELSE None

(* ModelStore.path *)
Existing(k) ==
  IF pointer[k] \in Revision /\ dir[k][pointer[k]] = "complete" THEN pointer[k] ELSE None

(* download_model polls the token first: a cancelled call has no plan.     *)
Alone(k) == <<k>>                     \* faulty variant: what it depends on is left out
Plan(k)  == Dependencies[k] \o <<k>>

Call(p, q) ==
  /\ At(p, "idle") /\ calls < MaxCalls
  /\ calls' = calls + 1
  /\ request' = [request EXCEPT ![p] = q]
  /\ reply' = [reply EXCEPT ![p] = "none"]
  /\ \E cancelled \in BOOLEAN :
       /\ plan' = [plan EXCEPT ![p] = IF cancelled THEN <<>> ELSE Plan(q.key)]
       /\ Goto(p, IF cancelled THEN "report" ELSE "path")
       /\ failing' = [failing EXCEPT ![p] = cancelled]
  /\ got' = [got EXCEPT ![p] = {}]
  /\ UNCHANGED <<diskVars, target, opened, abandoned, crashes>>

(* The path of the model at hand is known: on to the next model.           *)
Take(p, r) ==
  /\ got' = [got EXCEPT ![p] = @ \cup {<<KeyOf(p), r>>}]
  /\ plan' = [plan EXCEPT ![p] = Tail(@)]
  /\ Goto(p, IF Len(plan[p]) = 1 THEN "report" ELSE "path")
  /\ target' = [target EXCEPT ![p] = None]
  /\ UNCHANGED failing

(* An exception: the staging directory, if there is one, is deleted first. *)
Raise(p) ==
  /\ failing' = [failing EXCEPT ![p] = TRUE]
  /\ Goto(p, IF staging[p] THEN "cleanup" ELSE "report")
  /\ target' = [target EXCEPT ![p] = None]
  /\ UNCHANGED <<plan, got>>

LookUp(p) ==
  /\ At(p, "path")
  /\ LET existing == Existing(KeyOf(p)) IN
       \/ /\ existing # None
          /\ Wanted(p) = None \/ request[p].offline
          /\ Take(p, existing)
       \/ /\ existing = None /\ request[p].offline
          /\ Raise(p)
       \/ /\ ~request[p].offline /\ (existing = None \/ Wanted(p) # None)
          /\ Goto(p, "resolve")
          /\ UNCHANGED callVars
  /\ UNCHANGED <<diskVars, request, opened, reply, abandoned, countVars>>

(* The hub names the newest revision, or the one that was asked for.       *)
Resolve(p) ==
  /\ At(p, "resolve")
  /\ \/ Raise(p)
     \/ /\ \E r \in Published[KeyOf(p)] :
             /\ Wanted(p) \in {None, r}
             /\ target' = [target EXCEPT ![p] = r]
        /\ Goto(p, "check")
        /\ UNCHANGED <<plan, failing, got>>
  /\ UNCHANGED <<diskVars, request, opened, reply, abandoned, countVars>>

CheckTarget(p) ==
  /\ At(p, "check")
  /\ Goto(p, IF dir[KeyOf(p)][target[p]] = "complete" THEN "open" ELSE "stage")
  /\ UNCHANGED <<diskVars, request, callVars, opened, reply, abandoned, countVars>>

MakeStaging(p) ==
  /\ At(p, "stage")
  /\ \/ Raise(p) /\ UNCHANGED staging
     \/ /\ staging' = [staging EXCEPT ![p] = TRUE]
        /\ Goto(p, "download")
        /\ UNCHANGED callVars
  /\ UNCHANGED <<pointer, tmp, dir, request, opened, reply, abandoned, countVars>>

PointerFirst == "open"                \* faulty variant: selected before it is there
Downloaded   == "publish"

(* snapshot_download breaks off, is interrupted, or lacks required files.  *)
Download(p) ==
  /\ At(p, "download")
  /\ Raise(p) \/ (Goto(p, Downloaded) /\ UNCHANGED callVars)
  /\ UNCHANGED <<diskVars, request, opened, reply, abandoned, countVars>>

(* files.replace(target) fails when a directory is there: one that another *)
(* process has published meanwhile, or one that lacks a file.              *)
Publish(p) ==
  /\ At(p, "publish")
  /\ IF dir[KeyOf(p)][target[p]] = "absent"
       THEN /\ dir' = [dir EXCEPT ![KeyOf(p)][target[p]] = "complete"]
            /\ Goto(p, "open")
            /\ UNCHANGED callVars
       ELSE Raise(p) /\ UNCHANGED dir
  /\ UNCHANGED <<pointer, tmp, staging, request, opened, reply, abandoned, countVars>>

-----------------------------------------------------------------------------
(* _write_pointer: write_text empties or creates the file, fills and       *)
(* closes it; then it is renamed.                                          *)

RenamedUnwritten == "replace"         \* faulty variant: renamed before it is written
Opened           == "fill"

OpenTemporary(p) ==
  /\ At(p, "open")
  /\ \/ Raise(p) /\ UNCHANGED <<tmp, opened, abandoned>>
     \/ /\ tmp' = [tmp EXCEPT ![KeyOf(p)] = Torn]
        /\ opened' = [opened EXCEPT ![p] = "tmp"]
        /\ abandoned' = [abandoned EXCEPT ![KeyOf(p)] = @ \ {"tmp"}]
        /\ Goto(p, Opened)
        /\ UNCHANGED callVars
  /\ UNCHANGED <<pointer, dir, staging, request, reply, countVars>>

FillTemporary(p) ==
  /\ At(p, "fill")
  /\ tmp' = IF opened[p] = "tmp" THEN [tmp EXCEPT ![KeyOf(p)] = target[p]] ELSE tmp
  /\ pointer' =
       IF opened[p] = "current" THEN [pointer EXCEPT ![KeyOf(p)] = target[p]] ELSE pointer
  /\ abandoned' = [abandoned EXCEPT ![KeyOf(p)] = @ \ {opened[p]}]
  /\ opened' = [opened EXCEPT ![p] = "no"]
  /\ Goto(p, "replace")
  /\ UNCHANGED <<dir, staging, request, callVars, reply, countVars>>

(* Who has the file open writes it no more, whatever its name is by now.   *)
Abandon(p) ==
  /\ opened' = [opened EXCEPT ![p] = "no"]
  /\ abandoned' =
       IF opened[p] \in {"tmp", "current"}
         THEN [abandoned EXCEPT ![KeyOf(p)] = @ \cup {opened[p]}]
         ELSE abandoned

(* The write fails: the file is closed as it is, and not deleted.          *)
FailToFill(p) ==
  /\ At(p, "fill")
  /\ Abandon(p)
  /\ Raise(p)
  /\ UNCHANGED <<diskVars, request, reply, countVars>>

(* Who has the file open that is renamed, or the one it replaces.          *)
Renamed(k) ==
  [q \in Process |->
     IF plan[q] = <<>> \/ KeyOf(q) # k THEN opened[q]
     ELSE CASE opened[q] = "tmp"     -> "current"
            [] opened[q] = "current" -> "lost"
            [] OTHER                 -> opened[q]]

AfterPointer(p) == IF staging[p] THEN "cleanup" ELSE "report"

(* The rename fails when another process has renamed the file meanwhile.   *)
ReplacePointer(p) ==
  /\ At(p, "replace")
  /\ IF tmp[KeyOf(p)] = None
       THEN Raise(p) /\ UNCHANGED <<pointer, tmp, opened, abandoned>>
       ELSE /\ pointer' = [pointer EXCEPT ![KeyOf(p)] = tmp[KeyOf(p)]]
            /\ tmp' = [tmp EXCEPT ![KeyOf(p)] = None]
            /\ opened' = Renamed(KeyOf(p))
            /\ abandoned' = [abandoned EXCEPT ![KeyOf(p)] =
                                IF "tmp" \in @ THEN {"current"} ELSE {}]
            /\ IF AfterPointer(p) = "cleanup"
                 THEN Goto(p, "cleanup") /\ UNCHANGED callVars
                 ELSE Take(p, target[p])
  /\ UNCHANGED <<dir, staging, request, reply, countVars>>

(* The finally clause.                                                     *)
Cleanup(p) ==
  /\ At(p, "cleanup")
  /\ staging' = [staging EXCEPT ![p] = FALSE]
  /\ IF failing[p] THEN Goto(p, "report") /\ UNCHANGED callVars ELSE Take(p, target[p])
  /\ UNCHANGED <<pointer, tmp, dir, request, opened, reply, abandoned, countVars>>

(* download_model polls again before it returns the paths.                 *)
Report(p) ==
  /\ At(p, "report")
  /\ \E cancelled \in BOOLEAN :
       reply' = [reply EXCEPT ![p] = IF failing[p] \/ cancelled THEN "failed" ELSE "ok"]
  /\ Goto(p, "idle")
  /\ plan' = [plan EXCEPT ![p] = <<>>]
  /\ failing' = [failing EXCEPT ![p] = FALSE]
  /\ UNCHANGED <<diskVars, request, target, got, opened, abandoned, countVars>>

-----------------------------------------------------------------------------
(* What a dead process has open is closed, and stays as it is.             *)
Crash(p) ==
  /\ pc[p] \notin {"idle", "dead"} /\ crashes < MaxCrashes
  /\ crashes' = crashes + 1
  /\ Goto(p, "dead")
  /\ Abandon(p)
  /\ UNCHANGED <<diskVars, request, callVars, reply, calls>>

Step(p) ==
  \/ LookUp(p) \/ Resolve(p) \/ CheckTarget(p) \/ MakeStaging(p) \/ Download(p)
  \/ Publish(p) \/ OpenTemporary(p) \/ FillTemporary(p) \/ FailToFill(p)
  \/ ReplacePointer(p) \/ Cleanup(p) \/ Report(p)

Next ==
  \E p \in Process :
    \/ \E q \in Request : Call(p, q)
    \/ Step(p) \/ Crash(p)

Spec == Init /\ [][Next]_vars

-----------------------------------------------------------------------------
(* Properties *)

(* Whatever downloads of the same model do at the same time, and wherever  *)
(* they die, current.json never names a revision that is not there.        *)
SelectedIsComplete ==
  \A k \in Key : pointer[k] \in Revision => dir[k][pointer[k]] = "complete"

(* The shared temporary file can be renamed while another process has it   *)
(* open.  current.json is empty then, but only until that process, which   *)
(* is about to write it, has done so.  It stays empty only when that very  *)
(* process fails to write it, or dies.                                     *)
TornOnlyWhileWriting ==
  \A k \in Key : pointer[k] = Torn =>
    \/ "current" \in abandoned[k]
    \/ \E p \in Process :
         opened[p] = "current" /\ plan[p] # <<>> /\ KeyOf(p) = k

(* A call that returns has the model and all that it depends on, complete, *)
(* although other processes publish and select revisions meanwhile.        *)
ReturnsUsable ==
  \A p \in Process : At(p, "idle") /\ reply[p] = "ok" =>
    LET k == request[p].key IN
      /\ {g[1] : g \in got[p]} = {k} \cup Range(Dependencies[k])
      /\ \A g \in got[p] : dir[g[1]][g[2]] = "complete"
=============================================================================
