----------------------------- MODULE RunReport ------------------------------
(***************************************************************************)
(* RunReport: what a run of several files promises its caller.  The files  *)
(* are decided one by one in the order given; a run that completes has     *)
(* decided every file, or stopped at its first failure because it was told *)
(* to; any other end leaves the remaining files undecided.                 *)
(***************************************************************************)
EXTENDS Naturals

CONSTANTS
  FileCount,         \* how many files the run was given
  Undecided          \* a file, or a run, that has no outcome yet

VARIABLES
  outcome,           \* of each file
  ending,            \* of the run
  continueOnError    \* run.continue_on_error

reportVars == <<outcome, ending, continueOnError>>

Files == 1..FileCount

ReportInit ==
  /\ outcome = [f \in Files |-> Undecided]
  /\ ending = Undecided
  /\ continueOnError \in BOOLEAN

Stopped == ~continueOnError /\ \E f \in Files : outcome[f] = "failed"

Decide(f) ==
  /\ ending = Undecided
  /\ outcome[f] = Undecided
  /\ \A g \in 1..(f - 1) : outcome[g] # Undecided
  /\ ~Stopped
  /\ \E o \in {"succeeded", "failed"} : outcome' = [outcome EXCEPT ![f] = o]
  /\ UNCHANGED <<ending, continueOnError>>

Complete ==
  /\ ending = Undecided
  /\ Stopped \/ \A f \in Files : outcome[f] # Undecided
  /\ ending' = "completed"
  /\ UNCHANGED <<outcome, continueOnError>>

Stop ==
  /\ ending = Undecided
  /\ ending' \in {"cancelled", "unavailable", "failed", "interrupted"}
  /\ UNCHANGED <<outcome, continueOnError>>

ReportNext == (\E f \in Files : Decide(f)) \/ Complete \/ Stop

ReportSpec == ReportInit /\ [][ReportNext]_reportVars
=============================================================================
