--------------------------- MODULE MCLlmExecutor ----------------------------
(***************************************************************************)
(* LlmExecutor on two stages of up to four batches, at parallelism one to *)
(* three (so below, at and above the number of batches, and the sequential *)
(* path), with a cancel request and two interrupts at any time.            *)
(***************************************************************************)
EXTENDS LlmExecutor

=============================================================================
