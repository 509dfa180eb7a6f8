-------------------------- MODULE ModelStoreProofs --------------------------
(***************************************************************************)
(* Proofs about ModelStore, for any number of processes, models, revisions *)
(* and calls: its variables keep their types, current.json never names a   *)
(* revision that is not there and is empty only while someone is about to  *)
(* write it or after that one failed or died, and a call that returns has  *)
(* all that it needs.                                                      *)
(***************************************************************************)
EXTENDS ModelStore, SequenceTheorems, TLAPS

(* The steps at which a model is at hand, those at which its revision is   *)
(* known, and those at which its directory is in place.                    *)
Working  == {"path", "resolve", "check", "stage", "download", "publish",
             "open", "fill", "replace", "cleanup"}
Resolved == {"check", "stage", "download", "publish", "open", "fill", "replace"}
Placed   == {"open", "fill", "replace"}

AtHand(p) ==
  /\ pc[p] \in Working => plan[p] # <<>>
  /\ pc[p] \in Resolved => target[p] \in Revision
  /\ pc[p] = "cleanup" /\ ~failing[p] => target[p] \in Revision
  /\ pc[p] \in Placed => dir[KeyOf(p)][target[p]] = "complete"

(* What current.json names was named by the temporary file, and that by a  *)
(* process that had found or put the directory in place.                   *)
FilesComplete ==
  /\ \A k \in Key : tmp[k] \in Revision => dir[k][tmp[k]] = "complete"
  /\ SelectedIsComplete

StoreInv ==
  /\ TypeOK
  /\ \A p \in Process : AtHand(p)
  /\ FilesComplete

(* The types of what the ends of the steps, Take, Raise and Goto, leave    *)
(* alone.                                                                  *)
RestOK ==
  /\ pointer \in [Key -> Contents] /\ tmp \in [Key -> Contents]
  /\ dir \in [Key -> [Revision -> {"absent", "complete", "damaged"}]]
  /\ staging \in [Process -> BOOLEAN]
  /\ request \in [Process -> Request \cup {None}]
  /\ opened \in [Process -> {"no", "tmp", "current", "lost"}]
  /\ reply \in [Process -> {"none", "ok", "failed"}]
  /\ abandoned \in [Key -> SUBSET {"tmp", "current"}]
  /\ calls \in Nat /\ crashes \in Nat

(* No complete directory goes away.                                        *)
DirectoriesStay ==
  \A k \in Key, r \in Revision : dir[k][r] = "complete" => dir'[k][r] = "complete"

(* A plan that is not empty has a first model, and a rest.                 *)
LEMMA PlanParts ==
  ASSUME NEW s \in Seq(Key), s # <<>>
  PROVE  /\ Head(s) \in Key
         /\ Tail(s) \in Seq(Key)
         /\ Len(s) # 1 => Tail(s) # <<>>
<1>1. /\ Head(s) \in Key /\ Tail(s) \in Seq(Key)
      /\ Len(Tail(s)) = Len(s) - 1
      BY HeadTailProperties
<1>2. ASSUME Tail(s) = <<>> PROVE Len(s) = 1
  <2>1. Len(Tail(s)) = 0
        BY <1>2, EmptySeq
  <2>2. Len(s) \in Nat
        OBVIOUS
  <2>3. Len(s) - 1 = 0
        BY <1>1, <2>1
  <2> QED BY <2>2, <2>3
<1> QED BY <1>1, <1>2

LEMMA InitInv == Init => StoreInv
<1> SUFFICES ASSUME Init PROVE StoreInv
    OBVIOUS
<1>1. TypeOK
      BY StoreAssumption DEF Init, TypeOK, Steps, Contents
<1>2. \A p \in Process : AtHand(p)
      BY DEF Init, AtHand, Working, Resolved, Placed
<1>3. FilesComplete
      BY StoreAssumption DEF Init, FilesComplete, SelectedIsComplete
<1> QED BY <1>1, <1>2, <1>3 DEF StoreInv

-----------------------------------------------------------------------------
(* The common ends of the steps *)

(* A step of p that takes no complete directory away leaves what is known  *)
(* of another process as it was.                                           *)
LEMMA OthersKeep ==
  ASSUME TypeOK, NEW q \in Process, AtHand(q), DirectoriesStay,
         pc'[q] = pc[q], plan'[q] = plan[q], target'[q] = target[q], failing'[q] = failing[q]
  PROVE  AtHand(q)'
<1>1. ASSUME pc[q] \in Placed PROVE KeyOf(q) \in Key /\ target[q] \in Revision
  <2>1. pc[q] \in Working /\ pc[q] \in Resolved
        BY <1>1 DEF Placed, Working, Resolved
  <2>2. plan[q] # <<>> /\ target[q] \in Revision /\ plan[q] \in Seq(Key)
        BY <2>1 DEF AtHand, TypeOK
  <2> QED BY <2>2, PlanParts DEF KeyOf
<1>2. KeyOf(q)' = KeyOf(q)
      BY DEF KeyOf
<1> QED BY <1>1, <1>2 DEF AtHand, DirectoriesStay

(* A process goes on with the model at hand.                               *)
LEMMA GotoInv ==
  ASSUME StoreInv, NEW p \in Process, NEW step \in Steps, Goto(p, step),
         UNCHANGED <<plan, failing, got>>,
         \/ target' = target
         \/ \E r \in Revision : target' = [target EXCEPT ![p] = r],
         RestOK', DirectoriesStay, FilesComplete', AtHand(p)'
  PROVE  StoreInv'
<1>1. /\ pc' \in [Process -> Steps] /\ target' \in [Process -> Revision \cup {None}]
      /\ \A q \in Process \ {p} : pc'[q] = pc[q] /\ target'[q] = target[q]
      BY DEF StoreInv, TypeOK, Goto
<1>2. TypeOK'
      BY <1>1 DEF StoreInv, TypeOK, RestOK
<1>3. ASSUME NEW q \in Process \ {p} PROVE AtHand(q)'
      BY <1>1, OthersKeep DEF StoreInv
<1> QED BY <1>2, <1>3 DEF StoreInv

(* A model that is taken has a complete directory; what follows it in the  *)
(* plan, or the report, is all that is known afterwards.                   *)
LEMMA TakeInv ==
  ASSUME StoreInv, NEW p \in Process, NEW r \in Revision, plan[p] # <<>>, Take(p, r),
         RestOK', DirectoriesStay, FilesComplete'
  PROVE  StoreInv'
<1>1. plan[p] \in Seq(Key)
      BY DEF StoreInv, TypeOK
<1>2. /\ Head(plan[p]) \in Key /\ Tail(plan[p]) \in Seq(Key)
      /\ Len(plan[p]) # 1 => Tail(plan[p]) # <<>>
      BY <1>1, PlanParts
<1>3. /\ plan' \in [Process -> Seq(Key)]
      /\ target' \in [Process -> Revision \cup {None}]
      /\ failing' \in [Process -> BOOLEAN]
      /\ got' \in [Process -> SUBSET (Key \X Revision)]
      /\ pc' \in [Process -> Steps]
      /\ pc'[p] = "report" \/ (pc'[p] = "path" /\ plan'[p] # <<>>)
      /\ \A q \in Process \ {p} : pc'[q] = pc[q] /\ plan'[q] = plan[q]
                                /\ target'[q] = target[q] /\ failing'[q] = failing[q]
      BY <1>2 DEF Take, Goto, KeyOf, StoreInv, TypeOK, Steps
<1>4. TypeOK'
      BY <1>3 DEF TypeOK, RestOK
<1>5. AtHand(p)'
      BY <1>3 DEF AtHand, Working, Resolved, Placed
<1>6. ASSUME NEW q \in Process \ {p} PROVE AtHand(q)'
      BY <1>3, OthersKeep DEF StoreInv
<1> QED BY <1>4, <1>5, <1>6 DEF StoreInv

(* An exception forgets the revision.                                      *)
LEMMA RaiseInv ==
  ASSUME StoreInv, NEW p \in Process, pc[p] \in Working, Raise(p),
         RestOK', DirectoriesStay, FilesComplete'
  PROVE  StoreInv'
<1>1. /\ target' \in [Process -> Revision \cup {None}]
      /\ failing' \in [Process -> BOOLEAN] /\ failing'[p]
      /\ pc' \in [Process -> Steps] /\ pc'[p] \in {"report", "cleanup"}
      /\ \A q \in Process \ {p} : pc'[q] = pc[q] /\ target'[q] = target[q]
                                /\ failing'[q] = failing[q]
      /\ plan' = plan /\ got' = got
      BY DEF Raise, Goto, StoreInv, TypeOK, Steps
<1>2. TypeOK'
      BY <1>1 DEF StoreInv, TypeOK, RestOK
<1>3. AtHand(p)'
      BY <1>1 DEF StoreInv, AtHand, Working, Resolved, Placed
<1>4. ASSUME NEW q \in Process \ {p} PROVE AtHand(q)'
      BY <1>1, OthersKeep DEF StoreInv
<1> QED BY <1>2, <1>3, <1>4 DEF StoreInv

(* A step that writes no file.                                             *)
LEMMA DiskKeeps ==
  ASSUME StoreInv, UNCHANGED <<pointer, tmp, dir, staging, request, opened, reply, abandoned, calls, crashes>>
  PROVE  RestOK' /\ DirectoriesStay /\ FilesComplete'
BY DEF StoreInv, TypeOK, RestOK, DirectoriesStay, FilesComplete, SelectedIsComplete

(* What a process has at hand when it works.                               *)
LEMMA WorkingKnows ==
  ASSUME StoreInv, NEW p \in Process, pc[p] \in Working
  PROVE  /\ plan[p] # <<>> /\ KeyOf(p) \in Key
         /\ pc[p] \in Resolved => target[p] \in Revision
         /\ pc[p] \in Placed => dir[KeyOf(p)][target[p]] = "complete"
<1>1. plan[p] # <<>> /\ plan[p] \in Seq(Key)
      BY DEF StoreInv, AtHand, TypeOK
<1> QED BY <1>1, PlanParts DEF KeyOf, StoreInv, AtHand

-----------------------------------------------------------------------------
(* The steps *)

LEMMA CallInv ==
  ASSUME StoreInv, NEW p \in Process, NEW q \in Request, Call(p, q)
  PROVE  StoreInv'
<1>1. Plan(q.key) \in Seq(Key) /\ Plan(q.key) # <<>>
  <2>1. q.key \in Key /\ Dependencies[q.key] \in Seq(Key)
        BY StoreAssumption
  <2> QED BY <2>1 DEF Plan
<1>2. /\ pc' \in [Process -> Steps] /\ plan' \in [Process -> Seq(Key)]
      /\ failing' \in [Process -> BOOLEAN]
      /\ pc'[p] = "report" \/ (pc'[p] = "path" /\ plan'[p] # <<>>)
      /\ \A o \in Process \ {p} : pc'[o] = pc[o] /\ plan'[o] = plan[o] /\ failing'[o] = failing[o]
  <2>1. PICK cancelled \in BOOLEAN :
          /\ plan' = [plan EXCEPT ![p] = IF cancelled THEN <<>> ELSE Plan(q.key)]
          /\ Goto(p, IF cancelled THEN "report" ELSE "path")
          /\ failing' = [failing EXCEPT ![p] = cancelled]
        BY DEF Call
  <2>2. <<>> \in Seq(Key)
        OBVIOUS
  <2>3. CASE cancelled
        BY <2>1, <2>2, <2>3 DEF Goto, StoreInv, TypeOK, Steps
  <2>4. CASE ~cancelled
        BY <1>1, <2>1, <2>4 DEF Goto, StoreInv, TypeOK, Steps
  <2> QED BY <2>1, <2>3, <2>4
<1>3. TypeOK'
      BY <1>2 DEF Call, StoreInv, TypeOK, diskVars
<1>4. target' = target /\ DirectoriesStay /\ FilesComplete'
      BY DEF Call, diskVars, StoreInv, DirectoriesStay, FilesComplete, SelectedIsComplete
<1>5. AtHand(p)'
      BY <1>2 DEF AtHand, Working, Resolved, Placed
<1>6. ASSUME NEW o \in Process \ {p} PROVE AtHand(o)'
      BY <1>2, <1>4, OthersKeep DEF StoreInv
<1> QED BY <1>3, <1>4, <1>5, <1>6 DEF StoreInv

LEMMA LookUpInv ==
  ASSUME StoreInv, NEW p \in Process, LookUp(p)
  PROVE  StoreInv'
<1>1. /\ pc[p] \in Working /\ plan[p] # <<>>
      BY WorkingKnows DEF LookUp, At, Working
<1>2. RestOK' /\ DirectoriesStay /\ FilesComplete'
      BY DiskKeeps DEF LookUp, diskVars, countVars
<1>3. CASE Existing(KeyOf(p)) # None /\ Take(p, Existing(KeyOf(p)))
  <2>1. Existing(KeyOf(p)) \in Revision
        BY <1>3 DEF Existing
  <2> QED BY <1>1, <1>2, <1>3, <2>1, TakeInv
<1>4. CASE Raise(p)
      BY <1>1, <1>2, <1>4, RaiseInv
<1>5. CASE Goto(p, "resolve") /\ UNCHANGED callVars
  <2>1. "resolve" \in Steps /\ pc'[p] = "resolve"
        BY <1>5 DEF Steps, Goto, StoreInv, TypeOK
  <2>2. AtHand(p)'
        BY <1>1, <1>5, <2>1 DEF AtHand, Working, Resolved, Placed, callVars
  <2> QED BY <1>2, <1>5, <2>1, <2>2, GotoInv DEF callVars
<1> QED BY <1>3, <1>4, <1>5 DEF LookUp

LEMMA ResolveInv ==
  ASSUME StoreInv, NEW p \in Process, Resolve(p)
  PROVE  StoreInv'
<1>1. pc[p] \in Working /\ plan[p] # <<>> /\ KeyOf(p) \in Key
      BY WorkingKnows DEF Resolve, At, Working
<1>2. RestOK' /\ DirectoriesStay /\ FilesComplete'
      BY DiskKeeps DEF Resolve, diskVars, countVars
<1>3. CASE Raise(p)
      BY <1>1, <1>2, <1>3, RaiseInv
<1>4. CASE ~Raise(p)
  <2>1. PICK r \in Published[KeyOf(p)] : target' = [target EXCEPT ![p] = r]
        BY <1>4 DEF Resolve
  <2>2. r \in Revision
        BY <1>1, <2>1, StoreAssumption
  <2>3. Goto(p, "check") /\ UNCHANGED <<plan, failing, got>>
        BY <1>4 DEF Resolve
  <2>4. "check" \in Steps /\ pc'[p] = "check" /\ target'[p] = r
        BY <2>1, <2>3 DEF Steps, Goto, StoreInv, TypeOK
  <2>5. AtHand(p)'
        BY <1>1, <2>2, <2>3, <2>4 DEF AtHand, Working, Resolved, Placed
  <2> QED BY <1>2, <2>1, <2>2, <2>3, <2>4, <2>5, GotoInv
<1> QED BY <1>3, <1>4

LEMMA CheckTargetInv ==
  ASSUME StoreInv, NEW p \in Process, CheckTarget(p)
  PROVE  StoreInv'
<1>1. /\ pc[p] \in Working /\ plan[p] # <<>> /\ target[p] \in Revision
      BY WorkingKnows DEF CheckTarget, At, Working, Resolved
<1>2. RestOK' /\ DirectoriesStay /\ FilesComplete' /\ UNCHANGED callVars /\ dir' = dir
      BY DiskKeeps DEF CheckTarget, diskVars, countVars
<1>3. KeyOf(p)' = KeyOf(p)
      BY <1>2 DEF KeyOf, callVars
<1>4. CASE dir[KeyOf(p)][target[p]] = "complete"
  <2>1. Goto(p, "open") /\ "open" \in Steps /\ pc'[p] = "open"
        BY <1>4 DEF CheckTarget, Steps, Goto, StoreInv, TypeOK
  <2>2. AtHand(p)'
        BY <1>1, <1>2, <1>3, <1>4, <2>1 DEF AtHand, Working, Resolved, Placed, callVars
  <2> QED BY <1>2, <2>1, <2>2, GotoInv DEF callVars
<1>5. CASE dir[KeyOf(p)][target[p]] # "complete"
  <2>1. Goto(p, "stage") /\ "stage" \in Steps /\ pc'[p] = "stage"
        BY <1>5 DEF CheckTarget, Steps, Goto, StoreInv, TypeOK
  <2>2. AtHand(p)'
        BY <1>1, <1>2, <2>1 DEF AtHand, Working, Resolved, Placed, callVars
  <2> QED BY <1>2, <2>1, <2>2, GotoInv DEF callVars
<1> QED BY <1>4, <1>5

LEMMA MakeStagingInv ==
  ASSUME StoreInv, NEW p \in Process, MakeStaging(p)
  PROVE  StoreInv'
<1>1. /\ pc[p] \in Working /\ plan[p] # <<>> /\ target[p] \in Revision
      BY WorkingKnows DEF MakeStaging, At, Working, Resolved
<1>2. /\ staging' = staging \/ staging' = [staging EXCEPT ![p] = TRUE]
      /\ UNCHANGED <<pointer, tmp, dir, request, opened, reply, abandoned, calls, crashes>>
      BY DEF MakeStaging, countVars
<1>3. RestOK' /\ DirectoriesStay /\ FilesComplete'
  <2>1. staging' \in [Process -> BOOLEAN]
        BY <1>2 DEF StoreInv, TypeOK
  <2> QED BY <1>2, <2>1 DEF StoreInv, TypeOK, RestOK, DirectoriesStay,
                            FilesComplete, SelectedIsComplete
<1>4. CASE Raise(p)
      BY <1>1, <1>3, <1>4, RaiseInv
<1>5. CASE Goto(p, "download") /\ UNCHANGED callVars
  <2>1. "download" \in Steps /\ pc'[p] = "download"
        BY <1>5 DEF Steps, Goto, StoreInv, TypeOK
  <2>2. AtHand(p)'
        BY <1>1, <1>5, <2>1 DEF AtHand, Working, Resolved, Placed, callVars
  <2> QED BY <1>3, <1>5, <2>1, <2>2, GotoInv DEF callVars
<1> QED BY <1>4, <1>5 DEF MakeStaging

LEMMA DownloadInv ==
  ASSUME StoreInv, NEW p \in Process, Download(p)
  PROVE  StoreInv'
<1>1. /\ pc[p] \in Working /\ plan[p] # <<>> /\ target[p] \in Revision
      BY WorkingKnows DEF Download, At, Working, Resolved
<1>2. RestOK' /\ DirectoriesStay /\ FilesComplete'
      BY DiskKeeps DEF Download, diskVars, countVars
<1>3. CASE Raise(p)
      BY <1>1, <1>2, <1>3, RaiseInv
<1>4. CASE Goto(p, Downloaded) /\ UNCHANGED callVars
  <2>1. Goto(p, "publish") /\ "publish" \in Steps /\ pc'[p] = "publish"
        BY <1>4 DEF Downloaded, Steps, Goto, StoreInv, TypeOK
  <2>2. AtHand(p)'
        BY <1>1, <1>4, <2>1 DEF AtHand, Working, Resolved, Placed, callVars
  <2> QED BY <1>2, <1>4, <2>1, <2>2, GotoInv DEF callVars
<1> QED BY <1>3, <1>4 DEF Download

(* An absent directory becomes complete; no other one changes.             *)
LEMMA PublishInv ==
  ASSUME StoreInv, NEW p \in Process, Publish(p)
  PROVE  StoreInv'
<1>1. /\ pc[p] \in Working /\ plan[p] # <<>> /\ KeyOf(p) \in Key /\ target[p] \in Revision
      BY WorkingKnows DEF Publish, At, Working, Resolved
<1>2. CASE dir[KeyOf(p)][target[p]] # "absent"
  <2>1. Raise(p) /\ RestOK' /\ DirectoriesStay /\ FilesComplete'
        BY <1>2, DiskKeeps DEF Publish, countVars
  <2> QED BY <1>1, <2>1, RaiseInv
<1>3. CASE dir[KeyOf(p)][target[p]] = "absent"
  <2>1. /\ dir' = [dir EXCEPT ![KeyOf(p)][target[p]] = "complete"]
        /\ Goto(p, "open") /\ UNCHANGED callVars
        /\ UNCHANGED <<pointer, tmp, staging, request, opened, reply, abandoned, calls, crashes>>
        BY <1>3 DEF Publish, countVars
  <2>2. /\ dir' \in [Key -> [Revision -> {"absent", "complete", "damaged"}]]
        /\ dir'[KeyOf(p)][target[p]] = "complete"
        /\ DirectoriesStay
        BY <1>1, <2>1 DEF StoreInv, TypeOK, DirectoriesStay
  <2>3. RestOK'
        BY <2>1, <2>2 DEF StoreInv, TypeOK, RestOK
  <2>4. FilesComplete'
        BY <2>1, <2>2 DEF StoreInv, FilesComplete, SelectedIsComplete, DirectoriesStay
  <2>5. "open" \in Steps /\ pc'[p] = "open" /\ KeyOf(p)' = KeyOf(p)
        BY <2>1 DEF Steps, Goto, StoreInv, TypeOK, KeyOf, callVars
  <2>6. AtHand(p)'
        BY <1>1, <2>1, <2>2, <2>5 DEF AtHand, Working, Resolved, Placed, callVars
  <2> QED BY <2>1, <2>2, <2>3, <2>4, <2>5, <2>6, GotoInv DEF callVars
<1> QED BY <1>2, <1>3

LEMMA OpenTemporaryInv ==
  ASSUME StoreInv, NEW p \in Process, OpenTemporary(p)
  PROVE  StoreInv'
<1>1. /\ pc[p] \in Working /\ plan[p] # <<>> /\ KeyOf(p) \in Key /\ target[p] \in Revision
      /\ dir[KeyOf(p)][target[p]] = "complete"
      BY WorkingKnows DEF OpenTemporary, At, Working, Resolved, Placed
<1>2. CASE Raise(p) /\ UNCHANGED <<tmp, opened, abandoned>>
  <2>1. RestOK' /\ DirectoriesStay /\ FilesComplete'
        BY <1>2, DiskKeeps DEF OpenTemporary, countVars
  <2> QED BY <1>1, <1>2, <2>1, RaiseInv
<1>3. CASE /\ tmp' = [tmp EXCEPT ![KeyOf(p)] = Torn] /\ opened' = [opened EXCEPT ![p] = "tmp"]
           /\ abandoned' = [abandoned EXCEPT ![KeyOf(p)] = @ \ {"tmp"}]
           /\ Goto(p, Opened) /\ UNCHANGED callVars
  <2>1. UNCHANGED <<pointer, dir, staging, request, reply, calls, crashes>>
        BY DEF OpenTemporary, countVars
  <2>2. RestOK'
        BY <1>1, <1>3, <2>1 DEF StoreInv, TypeOK, RestOK, Contents
  <2>3. DirectoriesStay /\ FilesComplete'
        BY <1>3, <2>1, StoreAssumption
           DEF StoreInv, TypeOK, DirectoriesStay, FilesComplete, SelectedIsComplete
  <2>4. Goto(p, "fill") /\ "fill" \in Steps /\ pc'[p] = "fill" /\ KeyOf(p)' = KeyOf(p)
        BY <1>3 DEF Opened, Steps, Goto, StoreInv, TypeOK, KeyOf, callVars
  <2>5. AtHand(p)'
        BY <1>1, <1>3, <2>1, <2>4 DEF AtHand, Working, Resolved, Placed, callVars
  <2> QED BY <1>3, <2>2, <2>3, <2>4, <2>5, GotoInv DEF callVars
<1> QED BY <1>2, <1>3 DEF OpenTemporary

LEMMA FillTemporaryInv ==
  ASSUME StoreInv, NEW p \in Process, FillTemporary(p)
  PROVE  StoreInv'
<1>1. /\ pc[p] \in Working /\ plan[p] # <<>> /\ KeyOf(p) \in Key /\ target[p] \in Revision
      /\ dir[KeyOf(p)][target[p]] = "complete"
      BY WorkingKnows DEF FillTemporary, At, Working, Resolved, Placed
<1>2. /\ tmp' = tmp \/ tmp' = [tmp EXCEPT ![KeyOf(p)] = target[p]]
      /\ pointer' = pointer \/ pointer' = [pointer EXCEPT ![KeyOf(p)] = target[p]]
      /\ opened' = [opened EXCEPT ![p] = "no"]
      /\ abandoned' = [abandoned EXCEPT ![KeyOf(p)] = @ \ {opened[p]}]
      /\ Goto(p, "replace") /\ UNCHANGED callVars
      /\ UNCHANGED <<dir, staging, request, reply, calls, crashes>>
      BY DEF FillTemporary, countVars
<1>3. RestOK'
      BY <1>1, <1>2 DEF StoreInv, TypeOK, RestOK, Contents
<1>4. DirectoriesStay
      BY <1>2 DEF DirectoriesStay
<1>5. FilesComplete'
  <2>1. \A k \in Key : tmp'[k] \in {tmp[k]} \cup (IF k = KeyOf(p) THEN {target[p]} ELSE {})
        BY <1>2 DEF StoreInv, TypeOK
  <2>2. \A k \in Key :
           pointer'[k] \in {pointer[k]} \cup (IF k = KeyOf(p) THEN {target[p]} ELSE {})
        BY <1>2 DEF StoreInv, TypeOK
  <2> QED BY <1>1, <1>2, <2>1, <2>2 DEF StoreInv, FilesComplete, SelectedIsComplete
<1>6. "replace" \in Steps /\ pc'[p] = "replace" /\ KeyOf(p)' = KeyOf(p)
      BY <1>2 DEF Steps, Goto, StoreInv, TypeOK, KeyOf, callVars
<1>7. AtHand(p)'
      BY <1>1, <1>2, <1>6 DEF AtHand, Working, Resolved, Placed, callVars
<1> QED BY <1>2, <1>3, <1>4, <1>5, <1>6, <1>7, GotoInv DEF callVars

(* Who writes no more has one of the files of the model at hand open.      *)
LEMMA AbandonTypes ==
  ASSUME StoreInv, NEW p \in Process, Abandon(p)
  PROVE  /\ opened' \in [Process -> {"no", "tmp", "current", "lost"}]
         /\ abandoned' \in [Key -> SUBSET {"tmp", "current"}]
BY DEF StoreInv, TypeOK, Abandon

LEMMA FailToFillInv ==
  ASSUME StoreInv, NEW p \in Process, FailToFill(p)
  PROVE  StoreInv'
<1>1. pc[p] \in Working /\ Raise(p) /\ Abandon(p)
      BY DEF FailToFill, At, Working
<1>2. UNCHANGED <<pointer, tmp, dir, staging, request, reply, calls, crashes>>
      BY DEF FailToFill, diskVars, countVars
<1>3. RestOK'
      BY <1>1, <1>2, AbandonTypes DEF StoreInv, TypeOK, RestOK
<1>4. DirectoriesStay /\ FilesComplete'
      BY <1>2 DEF StoreInv, DirectoriesStay, FilesComplete, SelectedIsComplete
<1> QED BY <1>1, <1>3, <1>4, RaiseInv

LEMMA ReplacePointerInv ==
  ASSUME StoreInv, NEW p \in Process, ReplacePointer(p)
  PROVE  StoreInv'
<1>1. /\ pc[p] \in Working /\ plan[p] # <<>> /\ KeyOf(p) \in Key /\ target[p] \in Revision
      BY WorkingKnows DEF ReplacePointer, At, Working, Resolved
<1>2. CASE tmp[KeyOf(p)] = None
  <2>1. Raise(p) /\ RestOK' /\ DirectoriesStay /\ FilesComplete'
        BY <1>2, DiskKeeps DEF ReplacePointer, countVars
  <2> QED BY <1>1, <2>1, RaiseInv
<1>3. CASE tmp[KeyOf(p)] # None
  <2>1. /\ pointer' = [pointer EXCEPT ![KeyOf(p)] = tmp[KeyOf(p)]]
        /\ tmp' = [tmp EXCEPT ![KeyOf(p)] = None]
        /\ opened' = Renamed(KeyOf(p))
        /\ abandoned' = [abandoned EXCEPT ![KeyOf(p)] =
                            IF "tmp" \in @ THEN {"current"} ELSE {}]
        /\ UNCHANGED <<dir, staging, request, reply, calls, crashes>>
        BY <1>3 DEF ReplacePointer, countVars
  <2>2. opened' \in [Process -> {"no", "tmp", "current", "lost"}]
        BY <2>1 DEF Renamed, StoreInv, TypeOK
  <2>3. RestOK'
        BY <1>1, <2>1, <2>2 DEF StoreInv, TypeOK, RestOK, Contents
  <2>4. DirectoriesStay
        BY <2>1 DEF DirectoriesStay
  <2>5. FilesComplete'
        BY <1>1, <2>1, StoreAssumption DEF StoreInv, TypeOK, FilesComplete, SelectedIsComplete
  <2>6. CASE AfterPointer(p) = "cleanup"
    <3>1. Goto(p, "cleanup") /\ UNCHANGED callVars /\ "cleanup" \in Steps /\ pc'[p] = "cleanup"
          BY <1>3, <2>6 DEF ReplacePointer, Steps, Goto, StoreInv, TypeOK
    <3>2. AtHand(p)'
          BY <1>1, <3>1 DEF AtHand, Working, Resolved, Placed, callVars
    <3> QED BY <2>3, <2>4, <2>5, <3>1, <3>2, GotoInv DEF callVars
  <2>7. CASE AfterPointer(p) # "cleanup"
    <3>1. Take(p, target[p])
          BY <1>3, <2>7 DEF ReplacePointer
    <3> QED BY <1>1, <2>3, <2>4, <2>5, <3>1, TakeInv
  <2> QED BY <2>6, <2>7
<1> QED BY <1>2, <1>3

LEMMA CleanupInv ==
  ASSUME StoreInv, NEW p \in Process, Cleanup(p)
  PROVE  StoreInv'
<1>1. /\ pc[p] = "cleanup" /\ plan[p] # <<>>
      /\ (~failing[p] => target[p] \in Revision)
      BY DEF Cleanup, At, StoreInv, AtHand, Working
<1>2. RestOK' /\ DirectoriesStay /\ FilesComplete'
      BY DEF Cleanup, countVars, StoreInv, TypeOK, RestOK, DirectoriesStay,
             FilesComplete, SelectedIsComplete
<1>3. CASE failing[p]
  <2>1. Goto(p, "report") /\ UNCHANGED callVars /\ "report" \in Steps /\ pc'[p] = "report"
        BY <1>3 DEF Cleanup, Steps, Goto, StoreInv, TypeOK
  <2>2. AtHand(p)'
        BY <2>1 DEF AtHand, Working, Resolved, Placed
  <2> QED BY <1>2, <2>1, <2>2, GotoInv DEF callVars
<1>4. CASE ~failing[p]
  <2>1. Take(p, target[p])
        BY <1>4 DEF Cleanup
  <2> QED BY <1>1, <1>2, <1>4, <2>1, TakeInv
<1> QED BY <1>3, <1>4

LEMMA ReportInv ==
  ASSUME StoreInv, NEW p \in Process, Report(p)
  PROVE  StoreInv'
<1>1. /\ pc' = [pc EXCEPT ![p] = "idle"] /\ plan' = [plan EXCEPT ![p] = <<>>]
      /\ failing' = [failing EXCEPT ![p] = FALSE]
      /\ UNCHANGED <<pointer, tmp, dir, staging, request, target, got, opened, abandoned, calls, crashes>>
      BY DEF Report, Goto, diskVars, countVars
<1>2. reply' \in [Process -> {"none", "ok", "failed"}]
      BY DEF Report, StoreInv, TypeOK
<1>3. <<>> \in Seq(Key)
      OBVIOUS
<1>4. TypeOK'
      BY <1>1, <1>2, <1>3 DEF StoreInv, TypeOK, Steps
<1>5. DirectoriesStay /\ FilesComplete'
      BY <1>1 DEF StoreInv, DirectoriesStay, FilesComplete, SelectedIsComplete
<1>6. AtHand(p)'
      BY <1>1 DEF AtHand, Working, Resolved, Placed, StoreInv, TypeOK
<1>7. ASSUME NEW q \in Process \ {p} PROVE AtHand(q)'
      BY <1>1, <1>5, OthersKeep DEF StoreInv, TypeOK
<1> QED BY <1>4, <1>5, <1>6, <1>7 DEF StoreInv

LEMMA CrashInv ==
  ASSUME StoreInv, NEW p \in Process, Crash(p)
  PROVE  StoreInv'
<1>1. /\ pc' = [pc EXCEPT ![p] = "dead"] /\ Abandon(p)
      /\ crashes' = crashes + 1
      /\ UNCHANGED <<pointer, tmp, dir, staging, request, plan, target, failing, got, reply, calls>>
      BY DEF Crash, Goto, diskVars, callVars
<1>2. TypeOK'
      BY <1>1, AbandonTypes DEF StoreInv, TypeOK, Steps
<1>3. DirectoriesStay /\ FilesComplete'
      BY <1>1 DEF StoreInv, DirectoriesStay, FilesComplete, SelectedIsComplete
<1>4. AtHand(p)'
      BY <1>1 DEF AtHand, Working, Resolved, Placed, StoreInv, TypeOK
<1>5. ASSUME NEW q \in Process \ {p} PROVE AtHand(q)'
      BY <1>1, <1>3, OthersKeep DEF StoreInv, TypeOK
<1> QED BY <1>2, <1>3, <1>4, <1>5 DEF StoreInv

LEMMA StutterInv == StoreInv /\ UNCHANGED vars => StoreInv'
<1> SUFFICES ASSUME StoreInv, UNCHANGED vars PROVE StoreInv'
    OBVIOUS
<1>1. TypeOK'
      BY DEF StoreInv, TypeOK, vars, diskVars, callVars, countVars
<1>2. DirectoriesStay /\ FilesComplete'
      BY DEF StoreInv, DirectoriesStay, FilesComplete, SelectedIsComplete, vars, diskVars
<1>3. ASSUME NEW q \in Process PROVE AtHand(q)'
      BY <1>2, OthersKeep DEF StoreInv, vars, callVars
<1> QED BY <1>1, <1>2, <1>3 DEF StoreInv

LEMMA NextInv == StoreInv /\ [Next]_vars => StoreInv'
<1> SUFFICES ASSUME StoreInv, Next PROVE StoreInv'
    BY StutterInv
<1>1. PICK p \in Process : (\E q \in Request : Call(p, q)) \/ Step(p) \/ Crash(p)
      BY DEF Next
<1> QED BY <1>1, CallInv, LookUpInv, ResolveInv, CheckTargetInv, MakeStagingInv, DownloadInv,
           PublishInv, OpenTemporaryInv, FillTemporaryInv, FailToFillInv, ReplacePointerInv,
           CleanupInv, ReportInv, CrashInv DEF Step

LEMMA StoreInvHolds == Spec => []StoreInv
BY InitInv, NextInv, PTL DEF Spec

-----------------------------------------------------------------------------
(* Every variable of the store keeps its type.                             *)
THEOREM TypeCorrect == Spec => []TypeOK
BY StoreInvHolds, PTL DEF StoreInv

(* Whatever downloads of one model do at the same time, and wherever they  *)
(* die, current.json never names a revision that is not there.             *)
THEOREM SelectedIsCompleteHolds == Spec => []SelectedIsComplete
<1>1. StoreInv => SelectedIsComplete
      BY DEF StoreInv, FilesComplete
<1> QED BY <1>1, StoreInvHolds, PTL

-----------------------------------------------------------------------------
(* Who writes the shared temporary file *)

(* Only the one that is about to fill the file has it open, and a file     *)
(* that is empty is filled by someone, under whichever name it has by now. *)
Writes(p, k, name) == opened[p] = name /\ plan[p] # <<>> /\ KeyOf(p) = k

WriterInv ==
  /\ \A p \in Process : opened[p] # "no" => pc[p] = "fill"
  /\ \A k \in Key : tmp[k] = Torn =>
       "tmp" \in abandoned[k] \/ \E p \in Process : Writes(p, k, "tmp")
  /\ TornOnlyWhileWriting

(* The state a process has to itself: a step of p leaves that of the others. *)
Local(p) ==
  \A q \in Process \ {p} :
    /\ pc'[q] = pc[q] /\ plan'[q] = plan[q] /\ target'[q] = target[q]
    /\ failing'[q] = failing[q] /\ got'[q] = got[q]
    /\ request'[q] = request[q] /\ reply'[q] = reply[q]

LEMMA StepIsLocal ==
  ASSUME TypeOK, NEW p \in Process, (\E q \in Request : Call(p, q)) \/ Step(p) \/ Crash(p)
  PROVE  Local(p)
<1>1. CASE \E q \in Request : Call(p, q)
      BY <1>1 DEF Call, Goto, Local, TypeOK
<1>2. CASE LookUp(p)
      BY <1>2 DEF LookUp, Take, Raise, Goto, callVars, Local, TypeOK
<1>3. CASE Resolve(p)
      BY <1>3 DEF Resolve, Raise, Goto, Local, TypeOK
<1>4. CASE CheckTarget(p) \/ MakeStaging(p) \/ Download(p) \/ Publish(p)
      BY <1>4 DEF CheckTarget, MakeStaging, Download, Publish, Raise, Goto, callVars, Local, TypeOK
<1>5. CASE OpenTemporary(p) \/ FillTemporary(p) \/ FailToFill(p)
      BY <1>5 DEF OpenTemporary, FillTemporary, FailToFill, Raise, Goto, callVars, Local, TypeOK
<1>6. CASE ReplacePointer(p)
      BY <1>6 DEF ReplacePointer, Take, Raise, Goto, callVars, Local, TypeOK
<1>7. CASE Cleanup(p)
      BY <1>7 DEF Cleanup, Take, Goto, callVars, Local, TypeOK
<1>8. CASE Report(p)
      BY <1>8 DEF Report, Goto, Local, TypeOK
<1>9. CASE Crash(p)
      BY <1>9 DEF Crash, Goto, callVars, Local, TypeOK
<1> QED BY <1>1, <1>2, <1>3, <1>4, <1>5, <1>6, <1>7, <1>8, <1>9 DEF Step

(* A process that has no file open, and leaves the files alone.            *)
LEMMA FilesAlone ==
  ASSUME StoreInv, WriterInv, NEW p \in Process, Local(p), opened[p] = "no",
         UNCHANGED <<pointer, tmp, opened, abandoned>>
  PROVE  WriterInv'
<1>1. \A q \in Process : opened[q] # "no" => q \in Process \ {p}
      OBVIOUS
<1>2. \A q \in Process, k \in Key, name \in {"tmp", "current"} :
         Writes(q, k, name) => Writes(q, k, name)'
      BY <1>1 DEF Writes, KeyOf, Local
<1>3. \A q \in Process : opened'[q] # "no" => pc'[q] = "fill"
      BY <1>1 DEF WriterInv, Local
<1>4. \A k \in Key : tmp'[k] = Torn =>
         "tmp" \in abandoned'[k] \/ \E q \in Process : Writes(q, k, "tmp")'
      BY <1>2 DEF WriterInv
<1>5. TornOnlyWhileWriting'
  <2> SUFFICES ASSUME NEW k \in Key, pointer[k] = Torn, "current" \notin abandoned'[k]
               PROVE  \E q \in Process : Writes(q, k, "current")'
      BY DEF TornOnlyWhileWriting, Writes
  <2>1. PICK q \in Process : Writes(q, k, "current")
        BY DEF WriterInv, TornOnlyWhileWriting, Writes
  <2> QED BY <1>2, <2>1
<1> QED BY <1>3, <1>4, <1>5 DEF WriterInv

(* Whoever opens the temporary file empties it and is its writer.          *)
LEMMA OpenTemporaryWriter ==
  ASSUME StoreInv, WriterInv, NEW p \in Process, OpenTemporary(p), Local(p)
  PROVE  WriterInv'
<1>1. opened[p] = "no" /\ pointer' = pointer
      BY DEF WriterInv, OpenTemporary, At, countVars
<1>2. CASE UNCHANGED <<tmp, opened, abandoned>>
      BY <1>1, <1>2, FilesAlone
<1>3. CASE /\ tmp' = [tmp EXCEPT ![KeyOf(p)] = Torn] /\ opened' = [opened EXCEPT ![p] = "tmp"]
           /\ abandoned' = [abandoned EXCEPT ![KeyOf(p)] = @ \ {"tmp"}]
           /\ Goto(p, Opened) /\ UNCHANGED callVars
  <2>1. /\ plan[p] # <<>> /\ KeyOf(p) \in Key
        BY WorkingKnows DEF OpenTemporary, At, Working
  <2>2. /\ pc'[p] = "fill" /\ opened'[p] = "tmp" /\ plan' = plan
        /\ \A q \in Process \ {p} : opened'[q] = opened[q]
        /\ \A k \in Key \ {KeyOf(p)} : tmp'[k] = tmp[k] /\ abandoned'[k] = abandoned[k]
        /\ \A k \in Key : "current" \in abandoned[k] => "current" \in abandoned'[k]
        BY <1>3 DEF Goto, Opened, callVars, StoreInv, TypeOK
  <2>3. \A q \in Process, k \in Key, name \in {"tmp", "current"} :
           Writes(q, k, name) => Writes(q, k, name)'
        BY <1>1, <2>2 DEF Writes, KeyOf
  <2>4. \A q \in Process : opened'[q] # "no" => pc'[q] = "fill"
        BY <2>2 DEF WriterInv, Local
  <2>5. \A k \in Key : tmp'[k] = Torn =>
           "tmp" \in abandoned'[k] \/ \E q \in Process : Writes(q, k, "tmp")'
    <3> SUFFICES ASSUME NEW k \in Key, tmp'[k] = Torn
                 PROVE  "tmp" \in abandoned'[k] \/ \E q \in Process : Writes(q, k, "tmp")'
        OBVIOUS
    <3>1. CASE k = KeyOf(p)
      <4>1. Writes(p, k, "tmp")'
            BY <2>1, <2>2, <3>1 DEF Writes, KeyOf
      <4> QED BY <4>1
    <3>2. CASE k # KeyOf(p)
          BY <2>2, <2>3, <3>2 DEF WriterInv
    <3> QED BY <3>1, <3>2
  <2>6. TornOnlyWhileWriting'
    <3> SUFFICES ASSUME NEW k \in Key, pointer[k] = Torn, "current" \notin abandoned'[k]
                 PROVE  \E q \in Process : Writes(q, k, "current")'
        BY <1>1 DEF TornOnlyWhileWriting, Writes
    <3>1. PICK q \in Process : Writes(q, k, "current")
          BY <2>2 DEF WriterInv, TornOnlyWhileWriting, Writes
    <3> QED BY <2>3, <3>1
  <2> QED BY <2>4, <2>5, <2>6 DEF WriterInv
<1> QED BY <1>2, <1>3 DEF OpenTemporary

(* The writer fills the file: the one it is, under the name it has.        *)
LEMMA FillTemporaryWriter ==
  ASSUME StoreInv, WriterInv, NEW p \in Process, FillTemporary(p), Local(p)
  PROVE  WriterInv'
<1>1. /\ plan[p] # <<>> /\ KeyOf(p) \in Key /\ target[p] \in Revision
      BY WorkingKnows DEF FillTemporary, At, Working, Resolved
<1>2. target[p] # Torn
      BY <1>1, StoreAssumption
<1>3. /\ plan' = plan /\ opened'[p] = "no"
      /\ \A q \in Process \ {p} : opened'[q] = opened[q]
      /\ \A k \in Key : tmp'[k] = Torn =>
           /\ tmp[k] = Torn /\ ~Writes(p, k, "tmp")
           /\ "tmp" \in abandoned[k] => "tmp" \in abandoned'[k]
      /\ \A k \in Key : pointer'[k] = Torn =>
           /\ pointer[k] = Torn /\ ~Writes(p, k, "current")
           /\ "current" \in abandoned[k] => "current" \in abandoned'[k]
      BY <1>1, <1>2 DEF FillTemporary, callVars, countVars, Writes, StoreInv, TypeOK
<1>4. \A q \in Process \ {p}, k \in Key, name \in {"tmp", "current"} :
         Writes(q, k, name) => Writes(q, k, name)'
      BY <1>3 DEF Writes, KeyOf
<1>5. \A q \in Process : opened'[q] # "no" => pc'[q] = "fill"
      BY <1>3 DEF WriterInv, Local
<1>6. \A k \in Key : tmp'[k] = Torn =>
         "tmp" \in abandoned'[k] \/ \E q \in Process : Writes(q, k, "tmp")'
      BY <1>3, <1>4 DEF WriterInv
<1>7. TornOnlyWhileWriting'
  <2> SUFFICES ASSUME NEW k \in Key, pointer'[k] = Torn, "current" \notin abandoned'[k]
               PROVE  \E q \in Process : Writes(q, k, "current")'
      BY <1>3 DEF TornOnlyWhileWriting, Writes
  <2>1. PICK q \in Process : Writes(q, k, "current")
        BY <1>3 DEF WriterInv, TornOnlyWhileWriting, Writes
  <2> QED BY <1>3, <1>4, <2>1
<1> QED BY <1>5, <1>6, <1>7 DEF WriterInv

(* The rename gives an unwritten file its new name, and its writer too.    *)
LEMMA ReplacePointerWriter ==
  ASSUME StoreInv, WriterInv, NEW p \in Process, ReplacePointer(p), Local(p)
  PROVE  WriterInv'
<1>1. /\ opened[p] = "no" /\ KeyOf(p) \in Key
      BY WorkingKnows DEF WriterInv, ReplacePointer, At, countVars, Working
<1>2. CASE tmp[KeyOf(p)] = None
  <2>1. UNCHANGED <<pointer, tmp, opened, abandoned>>
        BY <1>2 DEF ReplacePointer
  <2> QED BY <1>1, <2>1, FilesAlone
<1>3. CASE tmp[KeyOf(p)] # None
  <2>1. /\ pointer' = [pointer EXCEPT ![KeyOf(p)] = tmp[KeyOf(p)]]
        /\ tmp' = [tmp EXCEPT ![KeyOf(p)] = None]
        /\ opened' = Renamed(KeyOf(p))
        /\ abandoned' = [abandoned EXCEPT ![KeyOf(p)] =
                            IF "tmp" \in @ THEN {"current"} ELSE {}]
        BY <1>3 DEF ReplacePointer
  <2>2. \A q \in Process : opened'[q] # "no" <=> opened[q] # "no"
        BY <2>1 DEF Renamed, StoreInv, TypeOK
  <2>3. \A q \in Process : opened[q] # "no" => q \in Process \ {p}
        BY <1>1
  <2>4. \A q \in Process, k \in Key \ {KeyOf(p)}, name \in {"tmp", "current"} :
           Writes(q, k, name) => Writes(q, k, name)'
        BY <2>1, <2>3 DEF Writes, KeyOf, Renamed, Local
  <2>5. \A q \in Process, k \in Key :
           k = KeyOf(p) /\ Writes(q, k, "tmp") => Writes(q, k, "current")'
    <3> SUFFICES ASSUME NEW q \in Process, NEW k \in Key, k = KeyOf(p), Writes(q, k, "tmp")
                 PROVE  opened'[q] = "current" /\ plan'[q] # <<>> /\ KeyOf(q)' = k
        BY DEF Writes
    <3>1. opened'[q] = "current"
          BY <2>1 DEF Writes, Renamed
    <3>2. plan'[q] = plan[q]
          BY <2>3 DEF Writes, Local
    <3> QED BY <3>1, <3>2 DEF Writes, KeyOf
  <2>6. \A q \in Process : opened'[q] # "no" => pc'[q] = "fill"
        BY <2>2, <2>3 DEF WriterInv, Local
  <2>7. \A k \in Key : tmp'[k] = Torn =>
           "tmp" \in abandoned'[k] \/ \E q \in Process : Writes(q, k, "tmp")'
    <3> SUFFICES ASSUME NEW k \in Key, tmp'[k] = Torn
                 PROVE  "tmp" \in abandoned'[k] \/ \E q \in Process : Writes(q, k, "tmp")'
        OBVIOUS
    <3>1. k # KeyOf(p) /\ tmp[k] = Torn /\ abandoned'[k] = abandoned[k]
          BY <2>1, StoreAssumption DEF StoreInv, TypeOK
    <3> QED BY <2>4, <3>1 DEF WriterInv
  <2>8. TornOnlyWhileWriting'
    <3> SUFFICES ASSUME NEW k \in Key, pointer'[k] = Torn, "current" \notin abandoned'[k]
                 PROVE  \E q \in Process : Writes(q, k, "current")'
        BY <1>1 DEF TornOnlyWhileWriting, Writes
    <3>1. CASE k = KeyOf(p)
      <4>1. tmp[k] = Torn /\ "tmp" \notin abandoned[k]
            BY <2>1, <3>1 DEF StoreInv, TypeOK
      <4> QED BY <2>5, <3>1, <4>1 DEF WriterInv
    <3>2. CASE k # KeyOf(p)
      <4>1. pointer[k] = Torn /\ "current" \notin abandoned[k]
            BY <2>1, <3>2 DEF StoreInv, TypeOK
      <4>2. PICK q \in Process : Writes(q, k, "current")
            BY <4>1 DEF WriterInv, TornOnlyWhileWriting, Writes
      <4> QED BY <2>4, <3>2, <4>2
    <3> QED BY <3>1, <3>2
  <2> QED BY <2>6, <2>7, <2>8 DEF WriterInv
<1> QED BY <1>2, <1>3

(* Who fails to fill the file, or dies, was its writer, and leaves it.     *)
LEMMA AbandonWriter ==
  ASSUME StoreInv, WriterInv, NEW p \in Process, Local(p),
         Abandon(p), UNCHANGED <<pointer, tmp>>
  PROVE  WriterInv'
<1>1. /\ opened'[p] = "no"
      /\ \A q \in Process \ {p} : opened'[q] = opened[q]
      /\ \A k \in Key : abandoned[k] \subseteq abandoned'[k]
      BY DEF Abandon, StoreInv, TypeOK
<1>2. \A k \in Key, name \in {"tmp", "current"} :
        Writes(p, k, name) => name \in abandoned'[k]
      BY DEF Writes, Abandon, StoreInv, TypeOK
<1>3. \A q \in Process \ {p}, k \in Key, name \in {"tmp", "current"} :
         Writes(q, k, name) => Writes(q, k, name)'
      BY <1>1 DEF Writes, KeyOf, Local
<1>4. \A q \in Process : opened'[q] # "no" => pc'[q] = "fill"
      BY <1>1 DEF WriterInv, Local
<1>5. \A k \in Key : tmp'[k] = Torn =>
         "tmp" \in abandoned'[k] \/ \E q \in Process : Writes(q, k, "tmp")'
      BY <1>1, <1>2, <1>3 DEF WriterInv
<1>6. TornOnlyWhileWriting'
  <2> SUFFICES ASSUME NEW k \in Key, pointer[k] = Torn, "current" \notin abandoned'[k]
               PROVE  \E q \in Process : Writes(q, k, "current")'
      BY DEF TornOnlyWhileWriting, Writes
  <2>1. PICK q \in Process : Writes(q, k, "current")
        BY <1>1 DEF WriterInv, TornOnlyWhileWriting, Writes
  <2> QED BY <1>2, <1>3, <2>1
<1> QED BY <1>4, <1>5, <1>6 DEF WriterInv

LEMMA WriterInit == Init => WriterInv
BY StoreAssumption DEF Init, WriterInv, TornOnlyWhileWriting

LEMMA WriterNext == StoreInv /\ WriterInv /\ [Next]_vars => WriterInv'
<1>1. ASSUME StoreInv, WriterInv, UNCHANGED vars PROVE WriterInv'
      BY <1>1 DEF WriterInv, TornOnlyWhileWriting, Writes, KeyOf, vars, diskVars, callVars, countVars
<1>2. ASSUME StoreInv, WriterInv, Next PROVE WriterInv'
  <2>1. PICK p \in Process : (\E q \in Request : Call(p, q)) \/ Step(p) \/ Crash(p)
        BY <1>2 DEF Next
  <2>2. Local(p)
        BY <1>2, <2>1, StepIsLocal DEF StoreInv
  <2>3. CASE OpenTemporary(p) \/ FillTemporary(p) \/ ReplacePointer(p)
        BY <1>2, <2>2, <2>3, OpenTemporaryWriter, FillTemporaryWriter, ReplacePointerWriter
  <2>5. CASE FailToFill(p) \/ Crash(p)
        BY <1>2, <2>2, <2>5, AbandonWriter DEF FailToFill, Crash, diskVars
  <2>4. CASE ~(\/ OpenTemporary(p) \/ FillTemporary(p) \/ FailToFill(p)
               \/ ReplacePointer(p) \/ Crash(p))
    <3>1. pc[p] # "fill" /\ UNCHANGED <<pointer, tmp, opened, abandoned>>
          BY <2>1, <2>4 DEF Call, Step, LookUp, Resolve, CheckTarget, MakeStaging, Download,
                            Publish, Cleanup, Report, At, diskVars, countVars
    <3>2. opened[p] = "no"
          BY <1>2, <3>1 DEF WriterInv
    <3> QED BY <1>2, <2>2, <3>1, <3>2, FilesAlone
  <2> QED BY <2>3, <2>4, <2>5
<1> QED BY <1>1, <1>2

(* current.json is empty only while the writer of an unwritten file that   *)
(* was renamed is still to write it, or after that very writer failed to   *)
(* or died.                                                                *)
THEOREM TornOnlyWhileWritingHolds == Spec => []TornOnlyWhileWriting
<1>1. WriterInv => TornOnlyWhileWriting
      BY DEF WriterInv
<1> QED BY <1>1, WriterInit, WriterNext, StoreInvHolds, PTL DEF Spec
-----------------------------------------------------------------------------
(* What a call returns *)

(* What a call has taken and what it still has to take is what it was      *)
(* asked for with all that this depends on; what it has taken is complete. *)
Models(pairs) == {g[1] : g \in pairs}
Needed(p)     == {request[p].key} \cup Range(Dependencies[request[p].key])

CollectedBy(p) ==
  /\ \A g \in got[p] : dir[g[1]][g[2]] = "complete"
  /\ pc[p] = "cleanup" /\ ~failing[p] => dir[KeyOf(p)][target[p]] = "complete"
  /\ pc[p] \in Working \cup {"report"} /\ ~failing[p] =>
       Models(got[p]) \cup Range(plan[p]) = Needed(p)
  /\ pc[p] = "report" /\ ~failing[p] => plan[p] = <<>>
  /\ pc[p] = "idle" /\ reply[p] = "ok" => Models(got[p]) = Needed(p)

Collected == \A p \in Process : CollectedBy(p)

LEMMA CollectedUsable == Collected => ReturnsUsable
BY DEF Collected, CollectedBy, ReturnsUsable, At, Models, Needed

LEMMA RangeOfPlan ==
  ASSUME NEW k \in Key
  PROVE  Range(Plan(k)) = {k} \cup Range(Dependencies[k])
<1>1. Dependencies[k] \in Seq(Key) /\ <<k>> \in Seq(Key)
      BY StoreAssumption
<1>2. Range(<<k>>) = {k}
      BY DEF Range
<1>3. Range(Dependencies[k] \o <<k>>) = Range(Dependencies[k]) \cup Range(<<k>>)
      BY <1>1, RangeConcatenation
<1> QED BY <1>2, <1>3 DEF Plan

LEMMA RangeParts ==
  ASSUME NEW s \in Seq(Key), s # <<>>
  PROVE  /\ Range(s) = {Head(s)} \cup Range(Tail(s))
         /\ Len(s) = 1 => Tail(s) = <<>>
<1>1. /\ Tail(s) \in Seq(Key) /\ Len(s) \in Nat /\ Len(s) > 0
      /\ Len(Tail(s)) = Len(s) - 1 /\ Head(s) = s[1]
      /\ \A i \in 1 .. Len(s) - 1 : Tail(s)[i] = s[i + 1]
      BY HeadTailProperties, EmptySeq
<1>2. /\ Range(s) = {s[i] : i \in 1 .. Len(s)}
      /\ Range(Tail(s)) = {Tail(s)[i] : i \in 1 .. Len(s) - 1}
      BY <1>1, RangeEquality
<1>3. \A i \in 1 .. Len(s) : i = 1 \/ (i - 1 \in 1 .. Len(s) - 1 /\ s[i] = Tail(s)[i - 1])
  <2> SUFFICES ASSUME NEW i \in 1 .. Len(s), i # 1
               PROVE  i - 1 \in 1 .. Len(s) - 1 /\ s[i] = Tail(s)[i - 1]
      OBVIOUS
  <2>1. i - 1 \in 1 .. Len(s) - 1 /\ (i - 1) + 1 = i
        BY <1>1
  <2> QED BY <1>1, <2>1
<1>4. \A i \in 1 .. Len(s) - 1 : i + 1 \in 1 .. Len(s) /\ Tail(s)[i] = s[i + 1]
      BY <1>1
<1>5. 1 \in 1 .. Len(s)
      BY <1>1
<1>6. Range(s) \subseteq {Head(s)} \cup Range(Tail(s))
      BY <1>1, <1>2, <1>3
<1>7. {Head(s)} \cup Range(Tail(s)) \subseteq Range(s)
      BY <1>1, <1>2, <1>4, <1>5
<1>8. ASSUME Len(s) = 1 PROVE Tail(s) = <<>>
  <2>1. Len(Tail(s)) = 0
        BY <1>1, <1>8
  <2> QED BY <1>1, <2>1, EmptySeq
<1> QED BY <1>6, <1>7, <1>8

(* Complete directories stay, so the others are where they were.           *)
LEMMA OthersCollected ==
  ASSUME StoreInv, Collected, NEW p \in Process, Local(p), DirectoriesStay,
         NEW q \in Process \ {p}
  PROVE  CollectedBy(q)'
<1>1. /\ pc'[q] = pc[q] /\ plan'[q] = plan[q] /\ target'[q] = target[q]
      /\ failing'[q] = failing[q] /\ got'[q] = got[q]
      /\ request'[q] = request[q] /\ reply'[q] = reply[q]
      BY DEF Local
<1>2. \A g \in got[q] : g[1] \in Key /\ g[2] \in Revision
      BY DEF StoreInv, TypeOK
<1>3. pc[q] = "cleanup" /\ ~failing[q] => KeyOf(q) \in Key /\ target[q] \in Revision
  <2> SUFFICES ASSUME pc[q] = "cleanup", ~failing[q]
               PROVE  KeyOf(q) \in Key /\ target[q] \in Revision
      OBVIOUS
  <2>1. pc[q] \in Working
        BY DEF Working
  <2> QED BY <2>1, WorkingKnows DEF StoreInv, AtHand
<1>4. KeyOf(q)' = KeyOf(q) /\ Needed(q)' = Needed(q)
      BY <1>1 DEF KeyOf, Needed
<1>5. CollectedBy(q)
      BY DEF Collected
<1> QED BY <1>1, <1>2, <1>3, <1>4, <1>5 DEF CollectedBy, DirectoriesStay

(* One model more is taken, one model less is to be taken.                 *)
LEMMA TakeCollected ==
  ASSUME StoreInv, NEW p \in Process, CollectedBy(p), NEW r \in Revision,
         pc[p] \in Working, Take(p, r), request' = request, DirectoriesStay,
         dir[KeyOf(p)][r] = "complete"
  PROVE  CollectedBy(p)'
<1>1. plan[p] # <<>> /\ KeyOf(p) \in Key /\ plan[p] \in Seq(Key)
      BY WorkingKnows DEF StoreInv, TypeOK
<1>2. /\ Range(plan[p]) = {KeyOf(p)} \cup Range(Tail(plan[p]))
      /\ Len(plan[p]) = 1 => Tail(plan[p]) = <<>>
      BY <1>1, RangeParts DEF KeyOf
<1>3. /\ got'[p] = got[p] \cup {<<KeyOf(p), r>>}
      /\ plan'[p] = Tail(plan[p])
      /\ pc'[p] = IF Len(plan[p]) = 1 THEN "report" ELSE "path"
      /\ failing'[p] = failing[p] /\ Needed(p)' = Needed(p)
      BY DEF Take, Goto, StoreInv, TypeOK, Needed
<1>4. \A g \in got'[p] : dir'[g[1]][g[2]] = "complete"
  <2>1. \A g \in got[p] : g[1] \in Key /\ g[2] \in Revision /\ dir[g[1]][g[2]] = "complete"
        BY DEF StoreInv, TypeOK, CollectedBy
  <2> QED BY <1>1, <1>3, <2>1 DEF DirectoriesStay
<1>5. Models(got'[p]) = Models(got[p]) \cup {KeyOf(p)}
  <2>1. Models(got[p] \cup {<<KeyOf(p), r>>}) = Models(got[p]) \cup Models({<<KeyOf(p), r>>})
        BY DEF Models
  <2>2. Models({<<KeyOf(p), r>>}) = {KeyOf(p)}
        BY DEF Models
  <2> QED BY <1>3, <2>1, <2>2
<1>6. ~failing[p] => Models(got[p]) \cup Range(plan[p]) = Needed(p)
      BY DEF CollectedBy
<1>7. ~failing[p] => Models(got'[p]) \cup Range(plan'[p]) = Needed(p)
      BY <1>2, <1>3, <1>5, <1>6
<1> QED BY <1>2, <1>3, <1>4, <1>7 DEF CollectedBy

(* What has been taken is still complete.                                  *)
LEMMA TakenStays ==
  ASSUME StoreInv, NEW p \in Process, CollectedBy(p), DirectoriesStay, got'[p] = got[p]
  PROVE  \A g \in got'[p] : dir'[g[1]][g[2]] = "complete"
<1>1. \A g \in got[p] : g[1] \in Key /\ g[2] \in Revision /\ dir[g[1]][g[2]] = "complete"
      BY DEF StoreInv, TypeOK, CollectedBy
<1> QED BY <1>1 DEF DirectoriesStay

(* A call that fails promises nothing.                                     *)
LEMMA RaiseCollected ==
  ASSUME StoreInv, NEW p \in Process, CollectedBy(p), Raise(p), DirectoriesStay
  PROVE  CollectedBy(p)'
<1>1. /\ failing'[p] /\ pc'[p] \in {"cleanup", "report"} /\ got'[p] = got[p]
      BY DEF Raise, Goto, StoreInv, TypeOK
<1> QED BY <1>1, TakenStays DEF CollectedBy

(* A step with the model at hand takes nothing yet.                        *)
LEMMA GotoCollected ==
  ASSUME StoreInv, NEW p \in Process, CollectedBy(p), pc[p] \in Working,
         NEW step \in Working \ {"cleanup"}, Goto(p, step),
         UNCHANGED <<plan, failing, got, request>>, DirectoriesStay
  PROVE  CollectedBy(p)'
<1>1. pc'[p] = step /\ step \notin {"cleanup", "report", "idle"} /\ Needed(p)' = Needed(p)
      BY DEF Goto, StoreInv, TypeOK, Working, Needed
<1>2. \A g \in got'[p] : dir'[g[1]][g[2]] = "complete"
      BY TakenStays
<1> QED BY <1>1, <1>2 DEF CollectedBy

LEMMA CallCollected ==
  ASSUME StoreInv, NEW p \in Process, NEW q \in Request, Call(p, q)
  PROVE  CollectedBy(p)'
<1>1. /\ got'[p] = {} /\ request'[p] = q
      /\ \/ pc'[p] = "report" /\ failing'[p]
         \/ pc'[p] = "path" /\ plan'[p] = Plan(q.key)
      BY DEF Call, Goto, StoreInv, TypeOK
<1>2. q.key \in Key
      BY StoreAssumption
<1>3. Models(got'[p]) = {}
      BY <1>1 DEF Models
<1>4. Needed(p)' = Range(Plan(q.key))
      BY <1>1, <1>2, RangeOfPlan DEF Needed
<1> QED BY <1>1, <1>3, <1>4 DEF CollectedBy

LEMMA LookUpCollected ==
  ASSUME StoreInv, NEW p \in Process, CollectedBy(p), LookUp(p), DirectoriesStay
  PROVE  CollectedBy(p)'
<1>1. pc[p] \in Working /\ request' = request /\ KeyOf(p) \in Key
      BY WorkingKnows DEF LookUp, At, Working
<1>2. CASE Existing(KeyOf(p)) # None /\ Take(p, Existing(KeyOf(p)))
  <2>1. Existing(KeyOf(p)) \in Revision /\ dir[KeyOf(p)][Existing(KeyOf(p))] = "complete"
        BY <1>2 DEF Existing
  <2> QED BY <1>1, <1>2, <2>1, TakeCollected
<1>3. CASE Raise(p)
      BY <1>3, RaiseCollected
<1>4. CASE Goto(p, "resolve") /\ UNCHANGED callVars
  <2>1. "resolve" \in Working \ {"cleanup"} /\ UNCHANGED <<plan, failing, got, request>>
        BY <1>1, <1>4 DEF Working, callVars
  <2> QED BY <1>1, <1>4, <2>1, GotoCollected
<1> QED BY <1>2, <1>3, <1>4 DEF LookUp

(* The steps from the resolution to the written temporary file.            *)
LEMMA FetchCollected ==
  ASSUME StoreInv, NEW p \in Process, CollectedBy(p), DirectoriesStay,
         \/ Resolve(p) \/ CheckTarget(p) \/ MakeStaging(p) \/ Download(p)
         \/ Publish(p) \/ OpenTemporary(p) \/ FillTemporary(p) \/ FailToFill(p)
  PROVE  CollectedBy(p)'
<1>1. pc[p] \in Working /\ request' = request
      BY DEF Resolve, CheckTarget, MakeStaging, Download, Publish, OpenTemporary,
             FillTemporary, FailToFill, At, Working
<1>2. CASE Raise(p)
      BY <1>2, RaiseCollected
<1>3. CASE ~Raise(p)
  <2>1. /\ UNCHANGED <<plan, failing, got>>
        /\ \E step \in {"check", "open", "stage", "download", "publish", "fill", "replace"} :
             Goto(p, step)
        BY <1>3 DEF Resolve, CheckTarget, MakeStaging, Download, Publish, OpenTemporary,
                    FillTemporary, FailToFill, Downloaded, Opened, callVars
  <2>2. PICK step \in Working \ {"cleanup"} : Goto(p, step)
        BY <2>1 DEF Working
  <2> QED BY <1>1, <2>1, <2>2, GotoCollected
<1> QED BY <1>2, <1>3

LEMMA ReplacePointerCollected ==
  ASSUME StoreInv, NEW p \in Process, CollectedBy(p), ReplacePointer(p), DirectoriesStay
  PROVE  CollectedBy(p)'
<1>1. /\ pc[p] \in Working /\ request' = request /\ dir' = dir
      /\ target[p] \in Revision /\ dir[KeyOf(p)][target[p]] = "complete"
      BY WorkingKnows DEF ReplacePointer, At, Working, Resolved, Placed
<1>2. CASE Raise(p)
      BY <1>2, RaiseCollected
<1>3. CASE Take(p, target[p])
      BY <1>1, <1>3, TakeCollected
<1>4. CASE Goto(p, "cleanup") /\ UNCHANGED callVars
  <2>1. pc'[p] = "cleanup" /\ Needed(p)' = Needed(p) /\ KeyOf(p)' = KeyOf(p)
        BY <1>1, <1>4 DEF Goto, StoreInv, TypeOK, Needed, KeyOf, callVars
  <2>2. \A g \in got'[p] : dir'[g[1]][g[2]] = "complete"
        BY <1>4, TakenStays DEF callVars
  <2> QED BY <1>1, <1>4, <2>1, <2>2 DEF CollectedBy, callVars, Working
<1> QED BY <1>2, <1>3, <1>4 DEF ReplacePointer

LEMMA CleanupCollected ==
  ASSUME StoreInv, NEW p \in Process, CollectedBy(p), Cleanup(p), DirectoriesStay
  PROVE  CollectedBy(p)'
<1>1. pc[p] = "cleanup" /\ pc[p] \in Working /\ request' = request
      BY DEF Cleanup, At, Working
<1>2. CASE failing[p]
  <2>1. pc'[p] = "report" /\ failing'[p] /\ got'[p] = got[p]
        BY <1>2 DEF Cleanup, Goto, callVars, StoreInv, TypeOK
  <2> QED BY <2>1, TakenStays DEF CollectedBy
<1>3. CASE ~failing[p]
  <2>1. Take(p, target[p]) /\ target[p] \in Revision /\ dir[KeyOf(p)][target[p]] = "complete"
        BY <1>1, <1>3 DEF Cleanup, StoreInv, AtHand, CollectedBy
  <2> QED BY <1>1, <2>1, TakeCollected
<1> QED BY <1>2, <1>3

(* What is reported as done has nothing left to take.                      *)
LEMMA ReportCollected ==
  ASSUME StoreInv, NEW p \in Process, CollectedBy(p), Report(p), DirectoriesStay
  PROVE  CollectedBy(p)'
<1>1. /\ pc[p] = "report" /\ pc'[p] = "idle" /\ got'[p] = got[p] /\ Needed(p)' = Needed(p)
      /\ reply'[p] = "ok" => ~failing[p]
      BY DEF Report, Goto, At, StoreInv, TypeOK, Needed
<1>2. \A g \in got'[p] : dir'[g[1]][g[2]] = "complete"
      BY <1>1, TakenStays
<1>3. ASSUME ~failing[p] PROVE Models(got[p]) = Needed(p)
  <2>1. Models(got[p]) \cup Range(plan[p]) = Needed(p) /\ plan[p] = <<>>
        BY <1>1, <1>3 DEF CollectedBy
  <2>2. Range(plan[p]) = {}
        BY <2>1 DEF Range
  <2> QED BY <2>1, <2>2
<1> QED BY <1>1, <1>2, <1>3 DEF CollectedBy, Working

LEMMA CrashCollected ==
  ASSUME StoreInv, NEW p \in Process, CollectedBy(p), Crash(p), DirectoriesStay
  PROVE  CollectedBy(p)'
<1>1. pc'[p] = "dead" /\ got'[p] = got[p]
      BY DEF Crash, Goto, callVars, StoreInv, TypeOK
<1> QED BY <1>1, TakenStays DEF CollectedBy, Working

LEMMA StepKeepsDirectories ==
  ASSUME StoreInv, NEW p \in Process, (\E q \in Request : Call(p, q)) \/ Step(p) \/ Crash(p)
  PROVE  DirectoriesStay
<1>1. CASE Publish(p)
  <2>1. /\ KeyOf(p) \in Key /\ target[p] \in Revision
        BY <1>1, WorkingKnows DEF Publish, At, Working, Resolved
  <2>2. \/ dir' = dir
        \/ dir' = [dir EXCEPT ![KeyOf(p)][target[p]] = "complete"]
        BY <1>1 DEF Publish
  <2>3. dir \in [Key -> [Revision -> {"absent", "complete", "damaged"}]]
        BY DEF StoreInv, TypeOK
  <2> QED BY <2>1, <2>2, <2>3 DEF DirectoriesStay
<1>2. CASE ~Publish(p)
  <2>1. dir' = dir
        BY <1>2 DEF Step, Call, LookUp, Resolve, CheckTarget, MakeStaging, Download, OpenTemporary,
                    FillTemporary, FailToFill, ReplacePointer, Cleanup, Report, Crash, diskVars
  <2> QED BY <2>1 DEF DirectoriesStay
<1> QED BY <1>1, <1>2

LEMMA CollectedInit == Init => Collected
BY DEF Init, Collected, CollectedBy, Working

LEMMA CollectedNext == StoreInv /\ Collected /\ [Next]_vars => Collected'
<1>1. ASSUME StoreInv, Collected, UNCHANGED vars PROVE Collected'
      BY <1>1 DEF Collected, CollectedBy, Needed, KeyOf, vars, diskVars, callVars
<1>2. ASSUME StoreInv, Collected, Next PROVE Collected'
  <2>1. PICK p \in Process : (\E q \in Request : Call(p, q)) \/ Step(p) \/ Crash(p)
        BY <1>2 DEF Next
  <2>2. Local(p) /\ DirectoriesStay /\ CollectedBy(p)
        BY <1>2, <2>1, StepIsLocal, StepKeepsDirectories DEF StoreInv, Collected
  <2>3. ASSUME NEW q \in Process \ {p} PROVE CollectedBy(q)'
        BY <1>2, <2>2, OthersCollected
  <2>4. CollectedBy(p)'
        BY <1>2, <2>1, <2>2, CallCollected, LookUpCollected, FetchCollected,
           ReplacePointerCollected, CleanupCollected, ReportCollected, CrashCollected DEF Step
  <2> QED BY <2>3, <2>4 DEF Collected
<1> QED BY <1>1, <1>2

(* A call that returns has the model and all that it depends on, complete, *)
(* for any number of processes that publish and select revisions meanwhile.*)
THEOREM ReturnsUsableHolds == Spec => []ReturnsUsable
BY CollectedInit, CollectedNext, CollectedUsable, StoreInvHolds, PTL DEF Spec
=============================================================================
