--------------------------- MODULE MCRunPipeline ----------------------------
(***************************************************************************)
(* RunPipeline with two files of distinct or equal names and two formats,  *)
(* both commands, and option sets that take every branch.                  *)
(***************************************************************************)
EXTENDS RunPipeline

TranscribeStages == {"media", "voice_separation", "transcription"}
BriefStages      == {"media", "transcription", "segmentation", "quality", "export"}
Distinct == [f \in Request |-> f]
SameName == [f \in Request |-> 1]

Option(c, s, cont, keep, voice, partial, repl, p) ==
  [command |-> c, stages |-> s, continueOnError |-> cont, keepWorkdir |-> keep,
   voiceRequired |-> voice, allowPartial |-> partial, replace |-> repl, path |-> p]

SomeOptions ==
  { Option("run", BriefStages, TRUE, FALSE, FALSE, TRUE, FALSE, Distinct),
    Option("run", BriefStages, FALSE, FALSE, FALSE, TRUE, FALSE, SameName),
    Option("run", BriefStages, TRUE, FALSE, FALSE, TRUE, TRUE, Distinct),
    Option("run", Stage, TRUE, TRUE, TRUE, FALSE, FALSE, SameName),
    Option("transcribe", TranscribeStages, TRUE, FALSE, FALSE, TRUE, FALSE, Distinct) }
=============================================================================
