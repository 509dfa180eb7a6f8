------------------------------ MODULE MCRefine ------------------------------
(***************************************************************************)
(* Refine of two cues in one batch or two, under these options: every      *)
(* stage on, a repair without a translation, partial output disabled, a    *)
(* correction that cleanup follows; and of three cues by two threads.  One *)
(* document is translated, and was exported with warnings, already.        *)
(***************************************************************************)
EXTENDS Refine

Latin  == [scripts |-> {"latin"}, marks |-> {"m"}, size |-> 1]
Cjk    == [scripts |-> {"cjk"}, marks |-> {"m"}, size |-> 1]
Lossy  == [scripts |-> {"cjk"}, marks |-> {}, size |-> 1]
Long   == [scripts |-> {"cjk"}, marks |-> {"m"}, size |-> 9]

MCAnswers == {Latin, Cjk, Lossy}

Fresh(n) ==
  [source |-> [c \in 1..n |-> Latin], corrected |-> [c \in 1..n |-> None],
   translated |-> [c \in 1..n |-> None], target |-> None,
   warned |-> [c \in 1..n |-> {}], badTiming |-> {2}]
Refined ==
  [source |-> <<Latin, Cjk>>, corrected |-> <<None, Cjk>>, translated |-> <<Long, Latin>>,
   target |-> "en", warned |-> <<{"correction", "translation"}, {}>>, badTiming |-> {}]

Each(n) == [s \in LlmStages |-> n]

Base == [context |-> FALSE, correction |-> FALSE, cleanup |-> FALSE, translation |-> TRUE,
         repair |-> TRUE, allowPartial |-> TRUE, target |-> "zh", batchSize |-> Each(1),
         parallelism |-> Each(1), maxAttempts |-> 2, overwrite |-> FALSE]
OneThread ==
  { [Base EXCEPT !.context = TRUE],
    [Base EXCEPT !.allowPartial = FALSE, !.batchSize = Each(2)],
    [Base EXCEPT !.correction = TRUE, !.cleanup = TRUE, !.translation = FALSE],
    [Base EXCEPT !.correction = TRUE, !.batchSize = Each(2), !.overwrite = TRUE] }
TwoThreads == [Base EXCEPT !.repair = FALSE, !.parallelism = Each(2)]

MCInvocations ==
  ({Fresh(2), Refined} \X OneThread) \cup
  { <<Fresh(2), TwoThreads>>, <<Fresh(3), [TwoThreads EXCEPT !.maxAttempts = 1]>> }

TwoFormats == <<"srt", "json">>
=============================================================================
