------------------------- MODULE RuntimeStoreProofs -------------------------
(***************************************************************************)
(* Proofs about RuntimeStore, for any set of processes and any number of   *)
(* calls, signals, deaths and refused deletions.                           *)
(***************************************************************************)
EXTENDS RuntimeStore, TLAPS

(* The lock file is its maker's as long as that is in the locked section.  *)
LockInv ==
  /\ OneInstaller
  /\ \A p \in Process : pc[p] \in Locked => lockFile = p

(* From its making to its selection nobody else knows a new directory.     *)
Unselected == Building \cup {"recording", "selecting"}
Replacing  == {"replacing", "deletingOld"}

(* Every directory anybody knows has been made.                            *)
MadeInv ==
  /\ pointer # None => pointer <= made
  /\ \A p \in Process : /\ seen[p] # None => seen[p] <= made
                        /\ old[p] # None => old[p] <= made
                        /\ target[p] # None => target[p] <= made

Unbuilt == {"idle", "validating", "acquiring", "locked", "preparing"}

TargetInv ==
  \A p \in Process :
    /\ pc[p] \in Unbuilt => target[p] = None
    /\ pc[p] \in Unselected \cup Replacing =>
         target[p] # None /\ old[p] # target[p]
    /\ pc[p] \in Unselected \cup {"aborting"} /\ target[p] # None =>
         /\ pointer # target[p]
         /\ \A q \in Process : seen[q] # target[p] /\ old[q] # target[p]
    /\ pc[p] \in {"recording", "selecting"} => target[p] \in probed
    /\ pc[p] = "selecting" => dir[target[p]] = "complete"

(* What a process deletes is not, or no longer, selected and whole.        *)
DeletionInv ==
  \A p \in Process :
    /\ pc[p] \in Replacing =>
         old[p] # None /\ pointer # old[p] /\ result[p] = "ready"
    /\ pc[p] = "deleting" => old[p] # None /\ dir[old[p]] # "complete"

IInv ==
  /\ TypeOK /\ LockInv /\ MadeInv /\ TargetInv /\ DeletionInv
  /\ SelectedWasProbed /\ AbortedNotSelected

LEMMA IInvInit == Init => IInv
<1> SUFFICES ASSUME Init PROVE IInv
  OBVIOUS
<1> USE BoundsAssumption, NoneAssumption DEF Init, Directory, OptionalDirectory
<1>1. TypeOK
  <2>1. pointer \in OptionalDirectory /\ dir \in [Directory -> Contents]
    BY DEF Contents
  <2>2. made \in 0..MaxDirectories /\ probed \subseteq Directory
    OBVIOUS
  <2>3. pc \in [Process -> Locations] /\ result \in [Process -> Results]
    BY DEF Locations, Results
  <2>4. /\ op \in [Process -> Operations \cup {None}]
        /\ seen \in [Process -> OptionalDirectory]
        /\ old \in [Process -> OptionalDirectory]
        /\ target \in [Process -> OptionalDirectory]
        /\ cancelled \in [Process -> BOOLEAN]
    OBVIOUS
  <2> QED BY <2>1, <2>2, <2>3, <2>4 DEF TypeOK
<1>2. LockInv /\ TargetInv /\ DeletionInv /\ AbortedNotSelected
  BY DEF LockInv, OneInstaller, TargetInv, DeletionInv, AbortedNotSelected,
         Locked, Building, Unselected, Replacing, Unbuilt
<1>3. MadeInv /\ SelectedWasProbed
  BY DEF MadeInv, SelectedWasProbed
<1> QED BY <1>1, <1>2, <1>3 DEF IInv

(* The locals of a call keep their types when it ends.                     *)
LocalTypes ==
  /\ op \in [Process -> Operations \cup {None}]
  /\ seen \in [Process -> OptionalDirectory]
  /\ old \in [Process -> OptionalDirectory]
  /\ target \in [Process -> OptionalDirectory]
  /\ cancelled \in [Process -> BOOLEAN]

LEMMA LeaveTypes ==
  ASSUME TypeOK, NEW p \in Process, NEW l \in Locations, Leave(p, l)
  PROVE  LocalTypes' /\ pc' \in [Process -> Locations]
BY DEF TypeOK, LocalTypes, Leave, Goto, OptionalDirectory

(* Every step keeps the types.                                           *)
LEMMA TypeStep == IInv /\ [Next]_vars => TypeOK'
<1> SUFFICES ASSUME IInv, [Next]_vars PROVE TypeOK'
  OBVIOUS
<1> USE BoundsAssumption, NoneAssumption
    DEF IInv, Directory, OptionalDirectory, disk, local, history, counters, Goto, Leave,
        TypeOK, Contents, Locations, Results, Locked, Building
<1>1. ASSUME NEW p \in Process, NEW o \in Operations, Call(p, o) PROVE TypeOK'
  BY <1>1 DEF Call
<1>2. ASSUME NEW p \in Process, EnterTry(p) PROVE TypeOK'
  BY <1>2 DEF EnterTry
<1>3. ASSUME NEW p \in Process, Validate(p) PROVE TypeOK'
  BY <1>3 DEF Validate, AfterStatus, MayBeValid, MayBeInvalid
<1>4. ASSUME NEW p \in Process, AcquireLock(p) PROVE TypeOK'
  <2>1. CASE Leave(p, "idle")
    <3>1. LocalTypes' /\ pc' \in [Process -> Locations]
      BY <2>1, LeaveTypes
    <3>2. /\ lockFile' \in Process \cup {None}
          /\ result' \in [Process -> Results]
          /\ UNCHANGED <<pointer, dir, history, counters>>
      BY <1>4 DEF AcquireLock
    <3> HIDE DEF Leave, Goto
    <3> QED BY <3>1, <3>2 DEF LocalTypes
  <2>2. CASE UNCHANGED <<local, result>> /\ lockFile' = p /\ Goto(p, "locked")
    BY <1>4, <2>2 DEF AcquireLock
  <2> QED BY <1>4, <2>1, <2>2 DEF AcquireLock
<1>5. ASSUME NEW p \in Process, MakeTarget(p) PROVE TypeOK'
  <2>1. CASE cancelled[p]
    BY <1>5, <2>1 DEF MakeTarget, NewDirectory
  <2>2. CASE ~cancelled[p]
    <3>1. made + 1 \in Directory /\ made' = made + 1 /\ made' \in 0..MaxDirectories
      BY <1>5, <2>2 DEF MakeTarget, NewDirectory
    <3>2. dir' \in [Directory -> Contents]
      BY <1>5, <2>2, <3>1 DEF MakeTarget, NewDirectory
    <3>3. target' \in [Process -> OptionalDirectory]
      BY <1>5, <2>2, <3>1 DEF MakeTarget, NewDirectory
    <3>4. pc' \in [Process -> Locations]
      BY <1>5, <2>2 DEF MakeTarget, NewDirectory
    <3> QED BY <1>5, <2>2, <3>1, <3>2, <3>3, <3>4 DEF MakeTarget, NewDirectory
  <2> QED BY <2>1, <2>2
<1>6. ASSUME NEW p \in Process, BuildStep(p) PROVE TypeOK'
  <2>1. target[p] \in Directory
    BY <1>6 DEF BuildStep, TargetInv, Unselected
  <2>2. pc' \in [Process -> Locations]
    BY <1>6 DEF BuildStep, NextStage
  <2> QED BY <1>6, <2>1, <2>2 DEF BuildStep
<1>7. ASSUME NEW p \in Process, StepFails(p) PROVE TypeOK'
  BY <1>7 DEF StepFails, FailingSteps
<1>8. ASSUME NEW p \in Process, StepCancelled(p) PROVE TypeOK'
  BY <1>8 DEF StepCancelled
<1>9. ASSUME NEW p \in Process, WriteManifest(p) PROVE TypeOK'
  BY <1>9 DEF WriteManifest
<1>10. ASSUME NEW p \in Process, WritePointer(p) PROVE TypeOK'
  BY <1>10 DEF WritePointer
<1>11. ASSUME NEW p \in Process, DeleteOld(p) PROVE TypeOK'
  <2>1. dir' \in [Directory -> Contents] /\ pc' \in [Process -> Locations]
    BY <1>11 DEF DeleteOld, BeginRemoval, EndRemoval
  <2>2. troubles' \in Nat
    BY <1>11 DEF DeleteOld, BeginRemoval, EndRemoval, Trouble
  <2> QED BY <1>11, <2>1, <2>2 DEF DeleteOld
<1>12. ASSUME NEW p \in Process, Abort(p) PROVE TypeOK'
  <2>1. dir' \in [Directory -> Contents] /\ pc' \in [Process -> Locations]
    <3>1. target[p] \in OptionalDirectory
      OBVIOUS
    <3>2. \/ dir' = dir
          \/ /\ target[p] \in Directory
             /\ \E left \in Contents : dir' = [dir EXCEPT ![target[p]] = left]
      BY <1>12, <3>1 DEF Abort, AbortDeletes
    <3>3. dir' \in [Directory -> Contents]
      <4>1. dir \in [Directory -> Contents]
        OBVIOUS
      <4> HIDE DEF Directory, Contents
      <4> QED BY <3>2, <4>1
    <3>4. pc' \in [Process -> Locations]
      BY <1>12 DEF Abort
    <3> QED BY <3>3, <3>4
  <2>2. troubles' \in Nat
    BY <1>12 DEF Abort, Trouble
  <2> QED BY <1>12, <2>1, <2>2 DEF Abort
<1>13. ASSUME NEW p \in Process, Unlock(p) PROVE TypeOK'
  <2>1. CASE Leave(p, "idle") /\ Trouble
    <3>1. LocalTypes' /\ pc' \in [Process -> Locations]
      BY <2>1, LeaveTypes
    <3>2. troubles' \in Nat
      BY <2>1 DEF Trouble
    <3>3. /\ lockFile' \in Process \cup {None} /\ hindered' \subseteq Process
          /\ result' \in [Process -> Results]
      BY <1>13 DEF Unlock, LockFileAfter
    <3> QED BY <1>13, <3>1, <3>2, <3>3 DEF Unlock, LocalTypes
  <2>2. CASE UNCHANGED <<local, result, hindered, troubles>> /\ Goto(p, "reporting")
    <3>1. lockFile' \in Process \cup {None}
      BY <1>13 DEF Unlock, LockFileAfter
    <3> QED BY <1>13, <2>2, <3>1 DEF Unlock
  <2> QED BY <1>13, <2>1, <2>2 DEF Unlock
<1>14. ASSUME NEW p \in Process, Report(p) PROVE TypeOK'
  BY <1>14 DEF Report
<1>15. ASSUME NEW p \in Process, DropTree(p) PROVE TypeOK'
  BY <1>15 DEF DropTree, BeginRemoval, EndRemoval, Trouble
<1>16. ASSUME NEW p \in Process, UnlinkPointer(p) PROVE TypeOK'
  BY <1>16 DEF UnlinkPointer, Trouble
<1>17. ASSUME NEW p \in Process, Cancel(p) PROVE TypeOK'
  BY <1>17 DEF Cancel, Trouble
<1>18. ASSUME NEW p \in Process, Interrupt(p) PROVE TypeOK'
  <2>1. LocalTypes' /\ pc' \in [Process -> Locations]
    <3>1. CASE Leave(p, "idle")
      BY <3>1, LeaveTypes
    <3>2. CASE Goto(p, "unlocking") /\ UNCHANGED local
      BY <3>2 DEF LocalTypes
    <3> QED BY <1>18, <3>1, <3>2 DEF Interrupt
  <2>2. hindered' \subseteq Process /\ troubles' \in Nat
    BY <1>18 DEF Interrupt, Trouble
  <2> QED BY <1>18, <2>1, <2>2 DEF Interrupt, LocalTypes
<1>19. ASSUME NEW p \in Process, Crash(p) PROVE TypeOK'
  BY <1>19 DEF Crash, Trouble
<1>20. CASE UNCHANGED vars
  BY <1>20 DEF vars
<1> QED
  BY <1>1, <1>2, <1>3, <1>4, <1>5, <1>6, <1>7, <1>8, <1>9, <1>10,
     <1>11, <1>12, <1>13, <1>14, <1>15, <1>16, <1>17, <1>18, <1>19, <1>20
     DEF Next, Step, Install, Remove

(* Every step keeps the lock exclusive.                                  *)
LEMMA LockStep == IInv /\ [Next]_vars => LockInv'
<1> SUFFICES ASSUME IInv, [Next]_vars PROVE LockInv'
  OBVIOUS
<1> USE BoundsAssumption, NoneAssumption
    DEF IInv, Directory, OptionalDirectory, disk, local, history, counters, Goto, Leave,
        TypeOK, LockInv, OneInstaller, Locked, Building, Locations
<1>1. ASSUME NEW p \in Process, NEW o \in Operations, Call(p, o) PROVE LockInv'
  BY <1>1 DEF Call
<1>2. ASSUME NEW p \in Process, EnterTry(p) PROVE LockInv'
  BY <1>2 DEF EnterTry
<1>3. ASSUME NEW p \in Process, Validate(p) PROVE LockInv'
  BY <1>3 DEF Validate, AfterStatus, MayBeValid, MayBeInvalid
<1>4. ASSUME NEW p \in Process, AcquireLock(p) PROVE LockInv'
  BY <1>4 DEF AcquireLock, OpenExclusive
<1>5. ASSUME NEW p \in Process, MakeTarget(p) PROVE LockInv'
  BY <1>5 DEF MakeTarget, NewDirectory
<1>6. ASSUME NEW p \in Process, BuildStep(p) PROVE LockInv'
  BY <1>6 DEF BuildStep, NextStage
<1>7. ASSUME NEW p \in Process, StepFails(p) PROVE LockInv'
  BY <1>7 DEF StepFails, FailingSteps
<1>8. ASSUME NEW p \in Process, StepCancelled(p) PROVE LockInv'
  BY <1>8 DEF StepCancelled
<1>9. ASSUME NEW p \in Process, WriteManifest(p) PROVE LockInv'
  BY <1>9 DEF WriteManifest
<1>10. ASSUME NEW p \in Process, WritePointer(p) PROVE LockInv'
  BY <1>10 DEF WritePointer
<1>11. ASSUME NEW p \in Process, DeleteOld(p) PROVE LockInv'
  BY <1>11 DEF DeleteOld, BeginRemoval, EndRemoval, Trouble
<1>12. ASSUME NEW p \in Process, Abort(p) PROVE LockInv'
  BY <1>12 DEF Abort, AbortDeletes, Trouble
<1>13. ASSUME NEW p \in Process, Unlock(p) PROVE LockInv'
  <2>1. \A q \in Process : q # p => pc[q] \notin Locked /\ pc'[q] = pc[q]
    BY <1>13 DEF Unlock
  <2>2. pc'[p] \notin Locked
    BY <1>13 DEF Unlock
  <2> QED BY <2>1, <2>2
<1>14. ASSUME NEW p \in Process, Report(p) PROVE LockInv'
  BY <1>14 DEF Report
<1>15. ASSUME NEW p \in Process, DropTree(p) PROVE LockInv'
  BY <1>15 DEF DropTree, BeginRemoval, EndRemoval, Trouble
<1>16. ASSUME NEW p \in Process, UnlinkPointer(p) PROVE LockInv'
  BY <1>16 DEF UnlinkPointer, Trouble
<1>17. ASSUME NEW p \in Process, Cancel(p) PROVE LockInv'
  BY <1>17 DEF Cancel, Trouble
<1>18. ASSUME NEW p \in Process, Interrupt(p) PROVE LockInv'
  BY <1>18 DEF Interrupt, Unprotected, Trouble
<1>19. ASSUME NEW p \in Process, Crash(p) PROVE LockInv'
  BY <1>19 DEF Crash, Trouble
<1>20. CASE UNCHANGED vars
  BY <1>20 DEF vars
<1> QED
  BY <1>1, <1>2, <1>3, <1>4, <1>5, <1>6, <1>7, <1>8, <1>9, <1>10,
     <1>11, <1>12, <1>13, <1>14, <1>15, <1>16, <1>17, <1>18, <1>19, <1>20
     DEF Next, Step, Install, Remove

(* Only directories that were made are known.                            *)
LEMMA MadeStep == IInv /\ [Next]_vars => MadeInv'
<1> SUFFICES ASSUME IInv, [Next]_vars PROVE MadeInv'
  OBVIOUS
<1> USE BoundsAssumption, NoneAssumption
    DEF IInv, Directory, OptionalDirectory, disk, local, history, counters, Goto, Leave,
        TypeOK, MadeInv
<1>1. ASSUME NEW p \in Process, NEW o \in Operations, Call(p, o) PROVE MadeInv'
  BY <1>1 DEF Call
<1>2. ASSUME NEW p \in Process, EnterTry(p) PROVE MadeInv'
  BY <1>2 DEF EnterTry
<1>3. ASSUME NEW p \in Process, Validate(p) PROVE MadeInv'
  BY <1>3 DEF Validate, AfterStatus, MayBeValid, MayBeInvalid
<1>4. ASSUME NEW p \in Process, AcquireLock(p) PROVE MadeInv'
  BY <1>4 DEF AcquireLock, OpenExclusive
<1>5. ASSUME NEW p \in Process, MakeTarget(p) PROVE MadeInv'
  <2>1. UNCHANGED <<pointer, seen, old>>
    BY <1>5 DEF MakeTarget
  <2>2. CASE cancelled[p]
    <3>1. UNCHANGED <<target, made>>
      BY <1>5, <2>2 DEF MakeTarget
    <3> QED BY <2>1, <3>1
  <2>3. CASE ~cancelled[p]
    <3>1. made' = made + 1 /\ target' = [target EXCEPT ![p] = made + 1]
      BY <1>5, <2>3 DEF MakeTarget, NewDirectory
    <3>2. \A d \in Directory : d <= made => d <= made'
      BY <3>1
    <3> QED BY <2>1, <3>1, <3>2
  <2> QED BY <2>2, <2>3
<1>6. ASSUME NEW p \in Process, BuildStep(p) PROVE MadeInv'
  BY <1>6 DEF BuildStep, NextStage
<1>7. ASSUME NEW p \in Process, StepFails(p) PROVE MadeInv'
  BY <1>7 DEF StepFails, FailingSteps
<1>8. ASSUME NEW p \in Process, StepCancelled(p) PROVE MadeInv'
  BY <1>8 DEF StepCancelled
<1>9. ASSUME NEW p \in Process, WriteManifest(p) PROVE MadeInv'
  BY <1>9 DEF WriteManifest
<1>10. ASSUME NEW p \in Process, WritePointer(p) PROVE MadeInv'
  BY <1>10 DEF WritePointer
<1>11. ASSUME NEW p \in Process, DeleteOld(p) PROVE MadeInv'
  BY <1>11 DEF DeleteOld, BeginRemoval, EndRemoval, Trouble
<1>12. ASSUME NEW p \in Process, Abort(p) PROVE MadeInv'
  BY <1>12 DEF Abort, AbortDeletes, Trouble
<1>13. ASSUME NEW p \in Process, Unlock(p) PROVE MadeInv'
  BY <1>13 DEF Unlock, LockFileAfter, Trouble
<1>14. ASSUME NEW p \in Process, Report(p) PROVE MadeInv'
  BY <1>14 DEF Report
<1>15. ASSUME NEW p \in Process, DropTree(p) PROVE MadeInv'
  BY <1>15 DEF DropTree, BeginRemoval, EndRemoval, Trouble
<1>16. ASSUME NEW p \in Process, UnlinkPointer(p) PROVE MadeInv'
  BY <1>16 DEF UnlinkPointer, Trouble
<1>17. ASSUME NEW p \in Process, Cancel(p) PROVE MadeInv'
  BY <1>17 DEF Cancel, Trouble
<1>18. ASSUME NEW p \in Process, Interrupt(p) PROVE MadeInv'
  BY <1>18 DEF Interrupt, Unprotected, Trouble
<1>19. ASSUME NEW p \in Process, Crash(p) PROVE MadeInv'
  BY <1>19 DEF Crash, Trouble
<1>20. CASE UNCHANGED vars
  BY <1>20 DEF vars
<1> QED
  BY <1>1, <1>2, <1>3, <1>4, <1>5, <1>6, <1>7, <1>8, <1>9, <1>10,
     <1>11, <1>12, <1>13, <1>14, <1>15, <1>16, <1>17, <1>18, <1>19, <1>20
     DEF Next, Step, Install, Remove

(* A new directory stays private until it is selected.                   *)
LEMMA TargetStep == IInv /\ [Next]_vars => TargetInv'
<1> SUFFICES ASSUME IInv, [Next]_vars PROVE TargetInv'
  OBVIOUS
<1> USE BoundsAssumption, NoneAssumption
    DEF IInv, Directory, OptionalDirectory, disk, local, history, counters, Goto, Leave,
        TypeOK, LockInv, OneInstaller, MadeInv, TargetInv, Locked, Building,
        Locations, Unselected, Replacing, Unbuilt
<1>1. ASSUME NEW p \in Process, NEW o \in Operations, Call(p, o) PROVE TargetInv'
  BY <1>1 DEF Call
<1>2. ASSUME NEW p \in Process, EnterTry(p) PROVE TargetInv'
  BY <1>2 DEF EnterTry
<1>3. ASSUME NEW p \in Process, Validate(p) PROVE TargetInv'
  BY <1>3 DEF Validate, AfterStatus, MayBeValid, MayBeInvalid
<1>4. ASSUME NEW p \in Process, AcquireLock(p) PROVE TargetInv'
  BY <1>4 DEF AcquireLock, OpenExclusive
<1>5. ASSUME NEW p \in Process, MakeTarget(p) PROVE TargetInv'
  <2>1. CASE cancelled[p]
    <3>1. /\ pc' = [pc EXCEPT ![p] = "aborting"]
          /\ UNCHANGED <<pointer, dir, target, seen, old, probed>>
      BY <1>5, <2>1 DEF MakeTarget, NewDirectory
    <3>2. target[p] = None
      BY <1>5 DEF MakeTarget, NewDirectory
    <3> QED BY <3>1, <3>2
  <2>2. CASE ~cancelled[p]
    <3>1. /\ made + 1 \in Directory
          /\ target' = [target EXCEPT ![p] = made + 1]
          /\ pc' = [pc EXCEPT ![p] = "creating"]
          /\ UNCHANGED <<pointer, seen, old, probed>>
      BY <1>5, <2>2 DEF MakeTarget, NewDirectory
    <3>2. /\ pointer # made + 1
          /\ \A q \in Process : seen[q] # made + 1 /\ old[q] # made + 1
      BY <3>1
    <3>3. \A q \in Process : q # p => pc[q] \notin Locked
      BY <1>5 DEF MakeTarget, NewDirectory
    <3> QED BY <3>1, <3>2, <3>3
  <2> QED BY <2>1, <2>2
<1>6. ASSUME NEW p \in Process, BuildStep(p) PROVE TargetInv'
  BY <1>6 DEF BuildStep, NextStage
<1>7. ASSUME NEW p \in Process, StepFails(p) PROVE TargetInv'
  BY <1>7 DEF StepFails, FailingSteps
<1>8. ASSUME NEW p \in Process, StepCancelled(p) PROVE TargetInv'
  BY <1>8 DEF StepCancelled
<1>9. ASSUME NEW p \in Process, WriteManifest(p) PROVE TargetInv'
  BY <1>9 DEF WriteManifest
<1>10. ASSUME NEW p \in Process, WritePointer(p) PROVE TargetInv'
  BY <1>10 DEF WritePointer
<1>11. ASSUME NEW p \in Process, DeleteOld(p) PROVE TargetInv'
  BY <1>11 DEF DeleteOld, BeginRemoval, EndRemoval, Trouble
<1>12. ASSUME NEW p \in Process, Abort(p) PROVE TargetInv'
  BY <1>12 DEF Abort, AbortDeletes, Trouble
<1>13. ASSUME NEW p \in Process, Unlock(p) PROVE TargetInv'
  BY <1>13 DEF Unlock, LockFileAfter, Trouble
<1>14. ASSUME NEW p \in Process, Report(p) PROVE TargetInv'
  BY <1>14 DEF Report
<1>15. ASSUME NEW p \in Process, DropTree(p) PROVE TargetInv'
  BY <1>15 DEF DropTree, BeginRemoval, EndRemoval, Trouble
<1>16. ASSUME NEW p \in Process, UnlinkPointer(p) PROVE TargetInv'
  BY <1>16 DEF UnlinkPointer, Trouble
<1>17. ASSUME NEW p \in Process, Cancel(p) PROVE TargetInv'
  BY <1>17 DEF Cancel, Trouble
<1>18. ASSUME NEW p \in Process, Interrupt(p) PROVE TargetInv'
  BY <1>18 DEF Interrupt, Unprotected, Trouble
<1>19. ASSUME NEW p \in Process, Crash(p) PROVE TargetInv'
  BY <1>19 DEF Crash, Trouble
<1>20. CASE UNCHANGED vars
  BY <1>20 DEF vars
<1> QED
  BY <1>1, <1>2, <1>3, <1>4, <1>5, <1>6, <1>7, <1>8, <1>9, <1>10,
     <1>11, <1>12, <1>13, <1>14, <1>15, <1>16, <1>17, <1>18, <1>19, <1>20
     DEF Next, Step, Install, Remove

(* The directory of a deletion under way is not in use.                  *)
LEMMA DeletionStep == IInv /\ [Next]_vars => DeletionInv'
<1> SUFFICES ASSUME IInv, [Next]_vars PROVE DeletionInv'
  OBVIOUS
<1> USE BoundsAssumption, NoneAssumption
    DEF IInv, Directory, OptionalDirectory, disk, local, history, counters, Goto, Leave,
        TypeOK, LockInv, OneInstaller, MadeInv, TargetInv, DeletionInv,
        Locked, Building, Locations, Unselected, Replacing, Unbuilt
<1>1. ASSUME NEW p \in Process, NEW o \in Operations, Call(p, o) PROVE DeletionInv'
  BY <1>1 DEF Call
<1>2. ASSUME NEW p \in Process, EnterTry(p) PROVE DeletionInv'
  BY <1>2 DEF EnterTry
<1>3. ASSUME NEW p \in Process, Validate(p) PROVE DeletionInv'
  BY <1>3 DEF Validate, AfterStatus, MayBeValid, MayBeInvalid
<1>4. ASSUME NEW p \in Process, AcquireLock(p) PROVE DeletionInv'
  BY <1>4 DEF AcquireLock, OpenExclusive
<1>5. ASSUME NEW p \in Process, MakeTarget(p) PROVE DeletionInv'
  BY <1>5 DEF MakeTarget, NewDirectory
<1>6. ASSUME NEW p \in Process, BuildStep(p) PROVE DeletionInv'
  BY <1>6 DEF BuildStep, NextStage
<1>7. ASSUME NEW p \in Process, StepFails(p) PROVE DeletionInv'
  BY <1>7 DEF StepFails, FailingSteps
<1>8. ASSUME NEW p \in Process, StepCancelled(p) PROVE DeletionInv'
  BY <1>8 DEF StepCancelled
<1>9. ASSUME NEW p \in Process, WriteManifest(p) PROVE DeletionInv'
  BY <1>9 DEF WriteManifest
<1>10. ASSUME NEW p \in Process, WritePointer(p) PROVE DeletionInv'
  BY <1>10 DEF WritePointer
<1>11. ASSUME NEW p \in Process, DeleteOld(p) PROVE DeletionInv'
  BY <1>11 DEF DeleteOld, BeginRemoval, EndRemoval, Trouble
<1>12. ASSUME NEW p \in Process, Abort(p) PROVE DeletionInv'
  BY <1>12 DEF Abort, AbortDeletes, Trouble
<1>13. ASSUME NEW p \in Process, Unlock(p) PROVE DeletionInv'
  BY <1>13 DEF Unlock, LockFileAfter, Trouble
<1>14. ASSUME NEW p \in Process, Report(p) PROVE DeletionInv'
  BY <1>14 DEF Report
<1>15. ASSUME NEW p \in Process, DropTree(p) PROVE DeletionInv'
  BY <1>15 DEF DropTree, BeginRemoval, EndRemoval, Trouble
<1>16. ASSUME NEW p \in Process, UnlinkPointer(p) PROVE DeletionInv'
  BY <1>16 DEF UnlinkPointer, Trouble
<1>17. ASSUME NEW p \in Process, Cancel(p) PROVE DeletionInv'
  BY <1>17 DEF Cancel, Trouble
<1>18. ASSUME NEW p \in Process, Interrupt(p) PROVE DeletionInv'
  BY <1>18 DEF Interrupt, Unprotected, Trouble
<1>19. ASSUME NEW p \in Process, Crash(p) PROVE DeletionInv'
  BY <1>19 DEF Crash, Trouble
<1>20. CASE UNCHANGED vars
  BY <1>20 DEF vars
<1> QED
  BY <1>1, <1>2, <1>3, <1>4, <1>5, <1>6, <1>7, <1>8, <1>9, <1>10,
     <1>11, <1>12, <1>13, <1>14, <1>15, <1>16, <1>17, <1>18, <1>19, <1>20
     DEF Next, Step, Install, Remove

(* Only a probed directory is ever selected.                             *)
LEMMA ProbedStep == IInv /\ [Next]_vars => SelectedWasProbed'
<1> SUFFICES ASSUME IInv, [Next]_vars PROVE SelectedWasProbed'
  OBVIOUS
<1> USE BoundsAssumption, NoneAssumption
    DEF IInv, Directory, OptionalDirectory, disk, local, history, counters, Goto, Leave,
        TypeOK, TargetInv, SelectedWasProbed, Locked, Building
<1>1. ASSUME NEW p \in Process, NEW o \in Operations, Call(p, o) PROVE SelectedWasProbed'
  BY <1>1 DEF Call
<1>2. ASSUME NEW p \in Process, EnterTry(p) PROVE SelectedWasProbed'
  BY <1>2 DEF EnterTry
<1>3. ASSUME NEW p \in Process, Validate(p) PROVE SelectedWasProbed'
  BY <1>3 DEF Validate, AfterStatus, MayBeValid, MayBeInvalid
<1>4. ASSUME NEW p \in Process, AcquireLock(p) PROVE SelectedWasProbed'
  BY <1>4 DEF AcquireLock, OpenExclusive
<1>5. ASSUME NEW p \in Process, MakeTarget(p) PROVE SelectedWasProbed'
  BY <1>5 DEF MakeTarget, NewDirectory
<1>6. ASSUME NEW p \in Process, BuildStep(p) PROVE SelectedWasProbed'
  BY <1>6 DEF BuildStep, NextStage
<1>7. ASSUME NEW p \in Process, StepFails(p) PROVE SelectedWasProbed'
  BY <1>7 DEF StepFails, FailingSteps
<1>8. ASSUME NEW p \in Process, StepCancelled(p) PROVE SelectedWasProbed'
  BY <1>8 DEF StepCancelled
<1>9. ASSUME NEW p \in Process, WriteManifest(p) PROVE SelectedWasProbed'
  BY <1>9 DEF WriteManifest
<1>10. ASSUME NEW p \in Process, WritePointer(p) PROVE SelectedWasProbed'
  BY <1>10 DEF WritePointer
<1>11. ASSUME NEW p \in Process, DeleteOld(p) PROVE SelectedWasProbed'
  BY <1>11 DEF DeleteOld, BeginRemoval, EndRemoval, Trouble
<1>12. ASSUME NEW p \in Process, Abort(p) PROVE SelectedWasProbed'
  BY <1>12 DEF Abort, AbortDeletes, Trouble
<1>13. ASSUME NEW p \in Process, Unlock(p) PROVE SelectedWasProbed'
  BY <1>13 DEF Unlock, LockFileAfter, Trouble
<1>14. ASSUME NEW p \in Process, Report(p) PROVE SelectedWasProbed'
  BY <1>14 DEF Report
<1>15. ASSUME NEW p \in Process, DropTree(p) PROVE SelectedWasProbed'
  BY <1>15 DEF DropTree, BeginRemoval, EndRemoval, Trouble
<1>16. ASSUME NEW p \in Process, UnlinkPointer(p) PROVE SelectedWasProbed'
  BY <1>16 DEF UnlinkPointer, Trouble
<1>17. ASSUME NEW p \in Process, Cancel(p) PROVE SelectedWasProbed'
  BY <1>17 DEF Cancel, Trouble
<1>18. ASSUME NEW p \in Process, Interrupt(p) PROVE SelectedWasProbed'
  BY <1>18 DEF Interrupt, Unprotected, Trouble
<1>19. ASSUME NEW p \in Process, Crash(p) PROVE SelectedWasProbed'
  BY <1>19 DEF Crash, Trouble
<1>20. CASE UNCHANGED vars
  BY <1>20 DEF vars
<1> QED
  BY <1>1, <1>2, <1>3, <1>4, <1>5, <1>6, <1>7, <1>8, <1>9, <1>10,
     <1>11, <1>12, <1>13, <1>14, <1>15, <1>16, <1>17, <1>18, <1>19, <1>20
     DEF Next, Step, Install, Remove

(* What an aborted build deletes stays its own.                          *)
LEMMA AbortedStep == IInv /\ [Next]_vars => AbortedNotSelected'
<1> SUFFICES ASSUME IInv, [Next]_vars PROVE AbortedNotSelected'
  OBVIOUS
<1> USE BoundsAssumption, NoneAssumption
    DEF IInv, Directory, OptionalDirectory, disk, local, history, counters, Goto, Leave,
        TypeOK, LockInv, OneInstaller, MadeInv, TargetInv,
        AbortedNotSelected, Locked, Building, Locations, Unselected,
        Replacing, Unbuilt
<1>1. ASSUME NEW p \in Process, NEW o \in Operations, Call(p, o) PROVE AbortedNotSelected'
  BY <1>1 DEF Call
<1>2. ASSUME NEW p \in Process, EnterTry(p) PROVE AbortedNotSelected'
  BY <1>2 DEF EnterTry
<1>3. ASSUME NEW p \in Process, Validate(p) PROVE AbortedNotSelected'
  BY <1>3 DEF Validate, AfterStatus, MayBeValid, MayBeInvalid
<1>4. ASSUME NEW p \in Process, AcquireLock(p) PROVE AbortedNotSelected'
  BY <1>4 DEF AcquireLock, OpenExclusive
<1>5. ASSUME NEW p \in Process, MakeTarget(p) PROVE AbortedNotSelected'
  BY <1>5 DEF MakeTarget, NewDirectory
<1>6. ASSUME NEW p \in Process, BuildStep(p) PROVE AbortedNotSelected'
  BY <1>6 DEF BuildStep, NextStage
<1>7. ASSUME NEW p \in Process, StepFails(p) PROVE AbortedNotSelected'
  BY <1>7 DEF StepFails, FailingSteps
<1>8. ASSUME NEW p \in Process, StepCancelled(p) PROVE AbortedNotSelected'
  BY <1>8 DEF StepCancelled
<1>9. ASSUME NEW p \in Process, WriteManifest(p) PROVE AbortedNotSelected'
  BY <1>9 DEF WriteManifest
<1>10. ASSUME NEW p \in Process, WritePointer(p) PROVE AbortedNotSelected'
  BY <1>10 DEF WritePointer
<1>11. ASSUME NEW p \in Process, DeleteOld(p) PROVE AbortedNotSelected'
  <2>1. \A q \in Process : q # p => pc[q] \notin Locked /\ pc'[q] = pc[q]
    BY <1>11 DEF DeleteOld, BeginRemoval, EndRemoval
  <2>2. result'[p] = "ready"
    BY <1>11 DEF DeleteOld, DeletionInv
  <2> QED BY <1>11, <2>1, <2>2 DEF DeleteOld
<1>12. ASSUME NEW p \in Process, Abort(p) PROVE AbortedNotSelected'
  BY <1>12 DEF Abort, AbortDeletes, Trouble
<1>13. ASSUME NEW p \in Process, Unlock(p) PROVE AbortedNotSelected'
  BY <1>13 DEF Unlock, LockFileAfter, Trouble
<1>14. ASSUME NEW p \in Process, Report(p) PROVE AbortedNotSelected'
  BY <1>14 DEF Report
<1>15. ASSUME NEW p \in Process, DropTree(p) PROVE AbortedNotSelected'
  BY <1>15 DEF DropTree, BeginRemoval, EndRemoval, Trouble
<1>16. ASSUME NEW p \in Process, UnlinkPointer(p) PROVE AbortedNotSelected'
  BY <1>16 DEF UnlinkPointer, Trouble
<1>17. ASSUME NEW p \in Process, Cancel(p) PROVE AbortedNotSelected'
  BY <1>17 DEF Cancel, Trouble
<1>18. ASSUME NEW p \in Process, Interrupt(p) PROVE AbortedNotSelected'
  BY <1>18 DEF Interrupt, Unprotected, Trouble
<1>19. ASSUME NEW p \in Process, Crash(p) PROVE AbortedNotSelected'
  BY <1>19 DEF Crash, Trouble
<1>20. CASE UNCHANGED vars
  BY <1>20 DEF vars
<1> QED
  BY <1>1, <1>2, <1>3, <1>4, <1>5, <1>6, <1>7, <1>8, <1>9, <1>10,
     <1>11, <1>12, <1>13, <1>14, <1>15, <1>16, <1>17, <1>18, <1>19, <1>20
     DEF Next, Step, Install, Remove

LEMMA IInvHolds == Spec => []IInv
<1>1. IInv /\ [Next]_vars => IInv'
  BY TypeStep, LockStep, MadeStep, TargetStep, DeletionStep, ProbedStep, AbortedStep
     DEF IInv
<1> QED BY <1>1, IInvInit, PTL DEF Spec

(* Every value stays in its type. *)
THEOREM TypeCorrect == Spec => []TypeOK
<1>1. IInv => TypeOK
  BY DEF IInv
<1> QED BY <1>1, IInvHolds, PTL

(* However many processes install at once, and wherever they fail, are     *)
(* interrupted or die, the lock file lets one at a time build.             *)
THEOREM OneInstallerHolds == Spec => []OneInstaller
<1>1. IInv => OneInstaller
  BY DEF IInv, LockInv
<1> QED BY <1>1, IInvHolds, PTL

(* current.json never names a directory whose Worker was not probed.       *)
THEOREM SelectedWasProbedHolds == Spec => []SelectedWasProbed
<1>1. IInv => SelectedWasProbed
  BY DEF IInv
<1> QED BY <1>1, IInvHolds, PTL

(* A failed or cancelled install only ever deletes what no pointer and no  *)
(* other process names.                                                    *)
THEOREM AbortedNotSelectedHolds == Spec => []AbortedNotSelected
<1>1. IInv => AbortedNotSelected
  BY DEF IInv
<1> QED BY <1>1, IInvHolds, PTL

(* The step form of ReadyLostOnlyByRemove.                                 *)
LEMMA ReadyStep ==
  IInv /\ [Next]_vars =>
    [Ready /\ ~Ready' => \E p \in Process : Removing(p) /\ pc'[p] # pc[p]]_vars
<1> SUFFICES ASSUME IInv, [Next]_vars, Ready,
                    ~(\E p \in Process : Removing(p) /\ pc'[p] # pc[p])
             PROVE  Ready'
  OBVIOUS
<1> USE NoneAssumption
    DEF IInv, Directory, OptionalDirectory, disk, local, history, counters, Goto, Leave, Ready, TypeOK
<1>1. ASSUME NEW p \in Process, NEW o \in Operations, Call(p, o) PROVE Ready'
  BY <1>1 DEF Call
<1>2. ASSUME NEW p \in Process, EnterTry(p) \/ Validate(p) PROVE Ready'
  BY <1>2 DEF EnterTry, Validate
<1>3. ASSUME NEW p \in Process,
             \/ AcquireLock(p) \/ BuildStep(p) \/ StepFails(p) \/ StepCancelled(p)
             \/ Unlock(p) \/ Report(p)
      PROVE  Ready'
  BY <1>3 DEF AcquireLock, BuildStep, StepFails, StepCancelled, Unlock, Report
<1>4. ASSUME NEW p \in Process, MakeTarget(p) PROVE Ready'
  <2>1. CASE cancelled[p]
    BY <1>4, <2>1 DEF MakeTarget, NewDirectory
  <2>2. CASE ~cancelled[p]
    <3>1. /\ pointer' = pointer
          /\ dir' = [dir EXCEPT ![made + 1] = "staging"]
      BY <1>4, <2>2 DEF MakeTarget, NewDirectory
    <3>2. pointer # made + 1 /\ pointer \in Directory
      BY DEF MadeInv
    <3> QED BY <3>1, <3>2
  <2> QED BY <2>1, <2>2
<1>5. ASSUME NEW p \in Process, WriteManifest(p) PROVE Ready'
  BY <1>5 DEF WriteManifest
<1>6. ASSUME NEW p \in Process, WritePointer(p) PROVE Ready'
  BY <1>6 DEF WritePointer, TargetInv, Unselected
<1>7. ASSUME NEW p \in Process, DeleteOld(p) PROVE Ready'
  <2>1. pointer # old[p]
    BY <1>7 DEF DeleteOld, DeletionInv, Replacing
  <2>2. /\ pointer' = pointer
        /\ \/ dir' = dir
           \/ dir' = [dir EXCEPT ![old[p]] = "torn"]
           \/ dir' = [dir EXCEPT ![old[p]] = "absent"]
    BY <1>7 DEF DeleteOld, BeginRemoval, EndRemoval
  <2> QED BY <2>1, <2>2
<1>8. ASSUME NEW p \in Process, Abort(p) PROVE Ready'
  <2>1. target[p] # None => pointer # target[p]
    BY <1>8 DEF Abort, TargetInv
  <2>2. \/ dir' = dir
        \/ /\ target[p] # None
           /\ \E left \in Contents : dir' = [dir EXCEPT ![target[p]] = left]
    BY <1>8 DEF Abort, AbortDeletes, Contents
  <2>3. pointer' = pointer
    BY <1>8 DEF Abort
  <2> QED BY <2>1, <2>2, <2>3
<1>9. ASSUME NEW p \in Process, DropTree(p) PROVE Ready'
  <2>1. CASE pc[p] = "dropping"
    <3>1. pc'[p] # "dropping"
      BY <1>9, <2>1 DEF DropTree, BeginRemoval
    <3> QED BY <2>1, <3>1 DEF Removing
  <2>2. CASE pc[p] = "deleting"
    <3>1. pointer # old[p]
      BY <2>2 DEF DeletionInv
    <3>2. /\ pointer' = pointer
          /\ dir' = dir \/ dir' = [dir EXCEPT ![old[p]] = "absent"]
      BY <1>9, <2>2 DEF DropTree, EndRemoval
    <3> QED BY <3>1, <3>2
  <2> QED BY <1>9, <2>1, <2>2 DEF DropTree
<1>10. ASSUME NEW p \in Process, UnlinkPointer(p) PROVE Ready'
  BY <1>10 DEF UnlinkPointer, Removing
<1>11. ASSUME NEW p \in Process, Cancel(p) \/ Interrupt(p) \/ Crash(p) PROVE Ready'
  BY <1>11 DEF Cancel, Interrupt, Crash
<1>12. CASE UNCHANGED vars
  BY <1>12 DEF vars
<1> QED
  BY <1>1, <1>2, <1>3, <1>4, <1>5, <1>6, <1>7, <1>8, <1>9, <1>10, <1>11, <1>12
     DEF Next, Step, Install, Remove

(* Only a remove takes a ready runtime away, for any number of processes   *)
(* that install, repair, fail, are cancelled, or die.                      *)
THEOREM ReadyLostOnlyByRemoveHolds == Spec => ReadyLostOnlyByRemove
BY ReadyStep, IInvHolds, PTL DEF Spec, ReadyLostOnlyByRemove

(* A process that holds the lock file keeps it, dies, or is kept from      *)
(* deleting it; one that does not hold it is of no interest here.          *)
LEMMA OwnerStep == IInv /\ LockHasOwner /\ [Next]_vars => LockHasOwner'
<1> SUFFICES ASSUME IInv, LockHasOwner, [Next]_vars PROVE LockHasOwner'
  OBVIOUS
<1> DEFINE Owner(l) == l \in Locked \cup {"dead"}
<1>1. pc \in [Process -> Locations] /\ lockFile \in Process \cup {None}
  BY DEF IInv, TypeOK
<1>2. ASSUME UNCHANGED <<lockFile, hindered>>, NEW p \in Process, NEW l,
             pc' = [pc EXCEPT ![p] = l], Owner(pc[p]) => Owner(l)
      PROVE  LockHasOwner'
  BY <1>1, <1>2, NoneAssumption DEF LockHasOwner
<1>3. ASSUME UNCHANGED <<lockFile, hindered, pc>> PROVE LockHasOwner'
  BY <1>3 DEF LockHasOwner
<1>4. ASSUME UNCHANGED lockFile, NEW p \in Process, NEW l,
             pc' = [pc EXCEPT ![p] = l], hindered' = hindered \cup {p}
      PROVE  LockHasOwner'
  BY <1>1, <1>4, NoneAssumption DEF LockHasOwner
<1> USE DEF Goto, Leave, disk, history, Locked, Building
<1>5. ASSUME NEW p \in Process, NEW o \in Operations, Call(p, o) PROVE LockHasOwner'
  BY <1>2, <1>5 DEF Call
<1>6. ASSUME NEW p \in Process, Validate(p) PROVE LockHasOwner'
  BY <1>2, <1>6 DEF Validate
<1>7. ASSUME NEW p \in Process, AcquireLock(p) PROVE LockHasOwner'
  <2>1. CASE lockFile' = p /\ pc' = [pc EXCEPT ![p] = "locked"]
    BY <1>1, <2>1 DEF LockHasOwner
  <2>2. CASE pc' = [pc EXCEPT ![p] = "idle"] /\ UNCHANGED lockFile
    BY <1>2, <1>7, <2>2 DEF AcquireLock
  <2> QED BY <1>7, <2>1, <2>2 DEF AcquireLock
<1>8. ASSUME NEW p \in Process, EnterTry(p) \/ MakeTarget(p) PROVE LockHasOwner'
  BY <1>2, <1>8 DEF EnterTry, MakeTarget
<1>9. ASSUME NEW p \in Process, BuildStep(p) PROVE LockHasOwner'
  <2>1. Owner(NextStage(pc[p]))
    BY <1>9 DEF BuildStep, NextStage
  <2> QED BY <1>2, <1>9, <2>1 DEF BuildStep
<1>10. ASSUME NEW p \in Process, StepFails(p) \/ StepCancelled(p) PROVE LockHasOwner'
  BY <1>2, <1>10 DEF StepFails, StepCancelled
<1>11. ASSUME NEW p \in Process, WriteManifest(p) PROVE LockHasOwner'
  BY <1>2, <1>11 DEF WriteManifest
<1>12. ASSUME NEW p \in Process, WritePointer(p) PROVE LockHasOwner'
  BY <1>2, <1>12 DEF WritePointer
<1>13. ASSUME NEW p \in Process, DeleteOld(p) \/ Abort(p) PROVE LockHasOwner'
  BY <1>2, <1>13 DEF DeleteOld, BeginRemoval, EndRemoval, Abort
<1>14. ASSUME NEW p \in Process, Unlock(p) PROVE LockHasOwner'
  <2>1. CASE lockFile' = None
    BY <2>1 DEF LockHasOwner
  <2>2. CASE /\ UNCHANGED lockFile
             /\ pc' = [pc EXCEPT ![p] = "idle"]
             /\ hindered' = hindered \cup {p}
    BY <1>4, <2>2
  <2> QED BY <1>14, <2>1, <2>2 DEF Unlock, LockFileAfter
<1>15. ASSUME NEW p \in Process, Report(p) PROVE LockHasOwner'
  BY <1>2, <1>15 DEF Report
<1>16. ASSUME NEW p \in Process, Remove(p) PROVE LockHasOwner'
  BY <1>2, <1>16 DEF Remove, DropTree, BeginRemoval, EndRemoval, UnlinkPointer
<1>17. ASSUME NEW p \in Process, Cancel(p) PROVE LockHasOwner'
  BY <1>3, <1>17 DEF Cancel
<1>18. ASSUME NEW p \in Process, Interrupt(p) PROVE LockHasOwner'
  <2>1. CASE pc[p] \in Unprotected
    BY <1>4, <1>18, <2>1 DEF Interrupt
  <2>2. CASE pc[p] \notin Unprotected
    BY <1>2, <1>18, <2>2 DEF Interrupt, Unprotected
  <2> QED BY <2>1, <2>2
<1>19. ASSUME NEW p \in Process, Crash(p) PROVE LockHasOwner'
  BY <1>2, <1>19 DEF Crash
<1>20. CASE UNCHANGED vars
  BY <1>3, <1>20 DEF vars
<1> QED
  BY <1>5, <1>6, <1>7, <1>8, <1>9, <1>10, <1>11, <1>12, <1>13, <1>14, <1>15, <1>16,
     <1>17, <1>18, <1>19, <1>20 DEF Next, Step, Install

(* For any number of processes, no failure or cancellation leaves the lock *)
(* file behind; only a process that died, or that was kept from deleting   *)
(* its file by an interrupt or by the file system, can have.               *)
THEOREM LockHasOwnerHolds == Spec => []LockHasOwner
<1>1. Init => LockHasOwner
  BY DEF Init, LockHasOwner
<1> QED BY <1>1, OwnerStep, IInvHolds, PTL DEF Spec
=============================================================================
