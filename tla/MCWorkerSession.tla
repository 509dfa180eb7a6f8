-------------------------- MODULE MCWorkerSession ---------------------------
(***************************************************************************)
(* WorkerSession with two requests, a caller that calls in any order, up   *)
(* to four Workers (two sessions, each with its fallback), two deaths and  *)
(* an interrupt.                                                           *)
(***************************************************************************)
EXTENDS WorkerSession
=============================================================================
