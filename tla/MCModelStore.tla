---------------------------- MODULE MCModelStore ----------------------------
(***************************************************************************)
(* ModelStore with two processes, a model of two revisions and one of one  *)
(* revision that it depends on.                                            *)
(***************************************************************************)
EXTENDS ModelStore, TLC

CONSTANTS asr, aligner, old, new

AlignerFirst == asr :> <<aligner>> @@ aligner :> <<>>
TwoOfAsr     == asr :> {old, new} @@ aligner :> {new}

Requests ==
  { [key |-> asr, revision |-> None, offline |-> FALSE],
    [key |-> asr, revision |-> new, offline |-> FALSE],
    [key |-> asr, revision |-> None, offline |-> TRUE] }

Symmetry == Permutations(Process)
=============================================================================
