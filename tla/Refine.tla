------------------------------- MODULE Refine -------------------------------
(***************************************************************************)
(* Refine: refine_srt (workflow/refine.py) takes an existing subtitle      *)
(* document through the LLM stages of SubtitleService                      *)
(* (subtitles/service.py), the quality checks (subtitles/quality.py), one  *)
(* repair and the export.  Each batch is a call of LlmAdapter.             *)
(*                                                                         *)
(* A text is [scripts, marks, size]: the scripts it is written in, the     *)
(* numbers, links and glossary terms it holds, and its length.  Of what    *)
(* the code looks at in a text this is all that its decisions depend on.   *)
(* Up to parallelism batches of a stage are under way at once, and begin   *)
(* in their order; when all have ended, their outcomes are gathered in the *)
(* same order, which is what LlmExecutor shows of the executor.            *)
(***************************************************************************)
EXTENDS LlmAdapter, Sequences, FiniteSets

CONSTANTS
  Invocations,    \* what may be refined, and how: <<document, options>>, a document being
                  \* [source, corrected, translated, target, warned, badTiming]
  Answers,        \* texts the LLM may send
  Formats,        \* output.formats, in their order
  MaxSize,        \* QualityOptions: above this a text is hard to read
  ShortSize,      \* no translation of this length is too long (80 characters)
  None, Blank     \* no text, no language; a text of white space

ASSUME NoneAssumption == None \notin Answers

LlmStages == {"correction", "translation", "repair"}

(* A document is a list of cues; batch_size and parallelism, which each    *)
(* LLM stage has its own of, and max_attempts are Field(ge=1).             *)
ASSUME DocumentsAssumption ==
  \A i \in Invocations : Len(i[1].source) \in Nat /\ DOMAIN i[1].source = 1..Len(i[1].source)
ASSUME OptionsAssumption ==
  \A i \in Invocations :
    /\ i[2].maxAttempts \in Nat \ {0}
    /\ \A s \in LlmStages : i[2].batchSize[s] \in Nat \ {0} /\ i[2].parallelism[s] \in Nat \ {0}

VARIABLES
  options,        \* PipelineOptions
  input,          \* the document that was read
  source, corrected, translated,    \* the texts of each cue
  target,         \* target_language
  warned,         \* what a cue's warnings name: <<"before" or "now", stage that failed>>
  updated,        \* the stages that gave a cue its texts (a history variable)
  report,         \* QualityReport: pairs of a cue and a code
  stage, phase,   \* the stage refine_srt is in, and where in it
  calls,          \* of the context, or of the batches that have begun, one each
  batch,          \* the batch _collect_updates has come to
  values, failed, \* what _collect_updates has gathered
  written,        \* formats written by this run
  existing,       \* formats whose output file is there
  token,          \* the cancellation token
  late,           \* the requests sent since it was set: <<stage, <<batch, number>>>> (history)
  outcome

textVars   == <<source, corrected, translated, target, warned, updated>>
gatherVars == <<batch, values, failed>>   \* _collect_updates
fileVars   == <<written, existing>>
inputVars  == <<options, input>>
vars == <<inputVars, textVars, report, stage, phase, gatherVars, fileVars,
          token, late, outcome, calls>>

Cue == DOMAIN source

(* A document that was exported before brings the warnings it had then.    *)

RefineInit ==
  /\ \E i \in Invocations : input = i[1] /\ options = i[2]
  /\ source = input.source /\ corrected = input.corrected
  /\ translated = input.translated /\ target = input.target
  /\ warned = [c \in DOMAIN input.source |-> {<<"before", s>> : s \in input.warned[c]}]
  /\ updated = [c \in DOMAIN input.source |-> {}]
  /\ report = {}
  /\ stage = "start" /\ phase = "enter"
  /\ batch = 1 /\ values = <<>> /\ failed = {}
  /\ written = {} /\ existing \in {{}, {Formats[Len(Formats)]}}
  /\ token = FALSE /\ late = {}
  /\ outcome = "none"
  /\ calls = <<>>

-----------------------------------------------------------------------------
(* Texts and their quality *)

(* corrected_text or source_text *)
Current(c) == IF corrected[c] # None THEN corrected[c] ELSE source[c]

(* _validate_correction, but for the change ratio (BatchInvalid).          *)
Faithful(before, after) ==
  /\ before.marks \subseteq after.marks
  /\ before.scripts \subseteq after.scripts

(* The target languages whose script is checked.                           *)
TargetScript == [zh |-> "cjk", ja |-> "cjk", en |-> "latin"]

(* _translation_issues: unchanged, too long, without a number, a link or a *)
(* term of its source, or not in the script of the target language.        *)
TranslationIssues(c) ==
  LET from == Current(c)
      to   == translated[c] IN
    (IF from = to THEN {"unchanged"} ELSE {}) \cup
    (IF from.marks \subseteq to.marks THEN {} ELSE {"content_missing"}) \cup
    (IF to.size > ShortSize /\ to.size > 4 * from.size THEN {"too_long"} ELSE {}) \cup
    (IF target \in DOMAIN TargetScript /\ TargetScript[target] \notin to.scripts
       THEN {"language_unexpected"} ELSE {})

Variants(c) == {source[c], corrected[c], translated[c]} \ {None}

CueIssues(c) ==
  (IF target # None /\ translated[c] = None THEN {"translation_missing"} ELSE {}) \cup
  (IF target # None /\ translated[c] # None THEN TranslationIssues(c) ELSE {}) \cup
  (IF c \in input.badTiming THEN {"timing"} ELSE {}) \cup
  (IF \E t \in Variants(c) : t.size > MaxSize THEN {"layout"} ELSE {})

(* check_quality *)
Issues == UNION {{<<c, code>> : code \in CueIssues(c)} : c \in Cue}

RepairableCodes ==
  {"translation_missing", "unchanged", "content_missing", "too_long", "language_unexpected"}

(* QualityReport.repairable_cue_ids *)
Repairable == {c \in Cue : \E code \in RepairableCodes : <<c, code>> \in report}

-----------------------------------------------------------------------------
(* The order of the stages *)

Order == <<"start", "context", "correction", "cleanup", "translation", "quality",
           "repair", "export">>

Runs(s) ==
  CASE s = "context"     -> options.context
    [] s = "correction"  -> options.correction
    [] s = "cleanup"     -> options.cleanup
    [] s = "translation" -> options.translation
    [] s = "repair"      -> options.repair /\ Repairable # {}
    [] OTHER             -> TRUE

Place(s) == CHOOSE i \in 1..Len(Order) : Order[i] = s

(* Faulty variant: repairs until nothing is left to repair.                *)
RepairsAgain(s) ==
  LET later == {i \in Place(s)..Len(Order) : Runs(Order[i]) /\ (i > Place(s) \/ s = "repair")}
      first == CHOOSE i \in later : \A j \in later : i <= j
  IN Order[first]
NextStage(s) ==
  LET later == {i \in (Place(s) + 1)..Len(Order) : Runs(Order[i])}
      first == CHOOSE i \in later : \A j \in later : i <= j
  IN Order[first]

End(o) ==
  /\ outcome' = o /\ stage' = "ended" /\ phase' = "enter"

(* allow_partial is looked at after the repair, before the first output.   *)
Incomplete ==
  /\ options.translation /\ ~options.allowPartial
  /\ \E c \in Cue : translated[c] = None

(* The output directory, too, is made before the export.                   *)
EnterNext ==
  \/ /\ NextStage(stage) = "export"
     /\ End("failed")
  \/ /\ NextStage(stage) = "export" => ~Incomplete
     /\ stage' = NextStage(stage) /\ phase' = "enter"
     /\ UNCHANGED outcome

-----------------------------------------------------------------------------
(* _stage: the token is polled where a stage begins and where it has ended *)

EnterStage ==
  /\ phase = "enter" /\ stage \notin {"start", "ended"}
  /\ IF token
       THEN End("cancelled") /\ UNCHANGED calls
       ELSE /\ phase' = "work"
            /\ calls' = IF stage = "context" THEN <<Asked("context", options.maxAttempts)>> ELSE calls
            /\ UNCHANGED <<stage, outcome>>
  /\ UNCHANGED <<inputVars, textVars, report, gatherVars, fileVars, token, late>>

LeaveStage ==
  /\ phase = "leave"
  /\ IF token THEN End("cancelled")
     ELSE IF stage = "export" THEN End("completed") ELSE EnterNext
  /\ UNCHANGED <<inputVars, textVars, report, gatherVars, fileVars, token, late, calls>>

(* The first poll, and the reading of the document.                        *)
ReadDocument ==
  /\ stage = "start"
  /\ IF token THEN End("cancelled") ELSE End("failed") \/ EnterNext
  /\ UNCHANGED <<inputVars, textVars, report, gatherVars, fileVars, token, late, calls>>

-----------------------------------------------------------------------------
(* The LLM stages *)

UnderWay == {b \in DOMAIN calls : IsUnderWay(calls[b])}

LlmRequest ==
  \E b \in UnderWay :
    /\ \E after \in AfterRequest(calls[b]) : calls' = [calls EXCEPT ![b] = after]
    /\ late' = IF token THEN late \cup {<<stage, <<b, calls[b].requests + 1>>>>} ELSE late
    /\ UNCHANGED <<inputVars, textVars, report, stage, phase, gatherVars, fileVars, token, outcome>>

(* A failed analysis is an empty context.                                  *)
ContextDone ==
  /\ stage = "context" /\ phase = "work" /\ UnderWay = {}
  /\ phase' = "leave"
  /\ calls' = <<>>
  /\ UNCHANGED <<inputVars, textVars, report, stage, gatherVars, fileVars, token, late, outcome>>

(* The cues a stage sends, in order, cut into batches by _text_batches.    *)
CuesOf(s)   == IF s = "repair" THEN Repairable ELSE Cue

Position(c) == Cardinality({d \in CuesOf(stage) : d <= c})
BatchOf(c)  == 1 + (Position(c) - 1) \div options.batchSize[stage]
CuesIn(b)   == {c \in CuesOf(stage) : BatchOf(c) = b}
Batches     == {BatchOf(c) : c \in CuesOf(stage)}

TextOf(c) == IF stage = "correction" THEN source[c] ELSE Current(c)

(* How many calls a stage may have under way at once.                      *)
Width(s) == IF s = "context" THEN 1 ELSE options.parallelism[s]

NextBatch == Len(calls) + 1

Unpolled == FALSE                     \* faulty variant: batches do not poll
Polled   == token

(* A thread of the pool takes the next batch: _run_one polls, then calls   *)
(* the adapter.  A poll that raises cancels the batches not yet taken.     *)
BeginBatch ==
  /\ stage \in LlmStages /\ phase = "work"
  /\ NextBatch \in Batches /\ Cardinality(UnderWay) < Width(stage)
  /\ IF Polled
       THEN phase' = "refused" /\ UNCHANGED calls
       ELSE calls' = Append(calls, Asked("text", options.maxAttempts)) /\ UNCHANGED phase
  /\ UNCHANGED <<inputVars, textVars, report, stage, gatherVars, fileVars, token, late, outcome>>

(* The pool waits for the batches that are under way, then map raises.     *)
LeavePool ==
  /\ phase = "refused" /\ UnderWay = {}
  /\ End("cancelled")
  /\ UNCHANGED <<inputVars, textVars, report, gatherVars, fileVars, token, late, calls>>

AllEnded == UnderWay = {} /\ NextBatch \notin Batches

(* _validated_updates *)
Acceptable(answer) ==
  /\ \A c \in DOMAIN answer : answer[c] # Blank
  /\ stage = "correction" => \A c \in DOMAIN answer : Faithful(TextOf(c), answer[c])

(* _mark_batch_warning *)
MarksFirst(b) ==                      \* faulty variant: one warning for each batch
  {c \in CuesIn(b) : \A d \in CuesIn(b) : c <= d}
MarksAll(b) == CuesIn(b)

(* An answer to every cue of the batch, each in its own text.              *)
BatchAnswered ==
  /\ calls[batch].result = "answered"
  /\ \E answer \in [CuesIn(batch) -> Answers \cup {Blank}] :
       IF Acceptable(answer)
         THEN /\ values' = [c \in DOMAIN values \cup CuesIn(batch) |->
                              IF c \in CuesIn(batch) THEN answer[c] ELSE values[c]]
              /\ UNCHANGED failed
         ELSE failed' = failed \cup MarksAll(batch) /\ UNCHANGED values

(* The call failed, or a correction changed more than max_change_ratio.    *)
BatchInvalid ==
  /\ calls[batch].result # "answered" \/ stage = "correction"
  /\ failed' = failed \cup MarksAll(batch)
  /\ UNCHANGED values

CollectBatch ==
  /\ stage \in LlmStages /\ phase = "work" /\ AllEnded /\ batch \in Batches
  /\ BatchAnswered \/ BatchInvalid
  /\ batch' = batch + 1
  /\ UNCHANGED <<inputVars, textVars, report, stage, phase, fileVars, token, late, outcome, calls>>

(* _apply_text_stage *)
Updated(texts) == [c \in Cue |-> IF c \in DOMAIN values THEN values[c] ELSE texts[c]]
ClearsFailed(texts) ==                \* faulty variant: a failed repair takes a text away
  [c \in Cue |-> IF c \in failed THEN None ELSE IF c \in DOMAIN values THEN values[c] ELSE texts[c]]
Translated(texts) == Updated(texts)

StaleReport == report                 \* faulty variant: not checked again
CheckedAgain == Issues'

ApplyStage ==
  /\ stage \in LlmStages /\ phase = "work" /\ AllEnded /\ batch \notin Batches
  /\ IF stage = "correction"
       THEN corrected' = Updated(corrected) /\ UNCHANGED translated
       ELSE translated' = Translated(translated) /\ UNCHANGED corrected
  /\ target' = IF stage = "translation" THEN options.target ELSE target
  /\ warned' = [c \in Cue |-> IF c \in failed THEN warned[c] \cup {<<"now", stage>>} ELSE warned[c]]
  /\ updated' = [c \in Cue |-> IF c \in DOMAIN values THEN updated[c] \cup {stage} ELSE updated[c]]
  /\ phase' = "leave"
  /\ batch' = 1 /\ values' = <<>> /\ failed' = {} /\ calls' = <<>>
  /\ UNCHANGED <<inputVars, source, stage, fileVars, token, late, outcome>>
  /\ report' = IF stage = "repair" THEN CheckedAgain ELSE report

-----------------------------------------------------------------------------
(* Cleanup, quality, export *)

(* What is left of a text without the fillers: itself, a shorter one, or   *)
(* nothing, when the cue keeps what it has and a warning says so.          *)
Cleaned(t) == {t, [t EXCEPT !.size = 1]}

Cleanup ==
  /\ stage = "cleanup" /\ phase = "work"
  /\ \E blank \in SUBSET Cue :
       /\ \E clean \in [Cue -> UNION {Cleaned(Current(c)) : c \in Cue}] :
            /\ \A c \in Cue : clean[c] \in Cleaned(Current(c))
            /\ corrected' = [c \in Cue |-> IF c \in blank THEN corrected[c] ELSE clean[c]]
       /\ warned' = [c \in Cue |->
                      IF c \in blank THEN warned[c] \cup {<<"now", "cleanup">>} ELSE warned[c]]
  /\ phase' = "leave"
  /\ UNCHANGED <<inputVars, source, translated, target, updated, report, stage, gatherVars,
                 fileVars, token, late, outcome, calls>>

CheckQuality ==
  /\ stage = "quality" /\ phase = "work"
  /\ report' = Issues
  /\ phase' = "leave"
  /\ UNCHANGED <<inputVars, textVars, stage, gatherVars, fileVars, token, late, outcome, calls>>

(* Each format is checked and written by itself.                           *)
ExportFormat ==
  /\ stage = "export" /\ phase = "work"
  /\ LET n == Cardinality(written) + 1 IN
       IF n > Len(Formats)
         THEN phase' = "leave" /\ UNCHANGED <<written, existing, stage, outcome>>
         ELSE \/ /\ options.overwrite \/ Formats[n] \notin existing
                 /\ written' = written \cup {Formats[n]}
                 /\ existing' = existing \cup {Formats[n]}
                 /\ UNCHANGED <<phase, stage, outcome>>
              \/ End("failed") /\ UNCHANGED fileVars
  /\ UNCHANGED <<inputVars, textVars, report, gatherVars, token, late, calls>>

Cancel ==
  /\ stage # "ended" /\ ~token
  /\ token' = TRUE
  /\ UNCHANGED <<inputVars, textVars, report, stage, phase, gatherVars, fileVars, late,
                 outcome, calls>>

RefineStep ==
  \/ ReadDocument \/ EnterStage \/ LeaveStage
  \/ LlmRequest \/ ContextDone \/ BeginBatch \/ LeavePool \/ CollectBatch \/ ApplyStage
  \/ Cleanup \/ CheckQuality \/ ExportFormat

RefineNext == RefineStep \/ Cancel

(* One thread and its pool run refine_srt to its end; each request is      *)
(* answered, or times out after timeout_seconds.                           *)
RefineSpec == RefineInit /\ [][RefineNext]_vars /\ WF_vars(RefineStep)

-----------------------------------------------------------------------------
(* Properties *)

(* However the three loops of the adapter play together, a call that is    *)
(* under way has not yet sent all of the requests that a batch may cost.   *)
RequestsBounded == \A b \in UnderWay : calls[b].requests < RequestBound(options.maxAttempts)

(* How much is still sent after a cancellation is bounded by the options:  *)
(* refine polls where a batch begins and between the stages, never in one, *)
(* so that each of the up to parallelism batches under way in one stage    *)
(* may still use up its retries, and no batch and no stage begins.         *)
LateRequestsBounded ==
  \E s \in LlmStages \cup {"context"} :
    /\ \A request \in late : request[1] = s
    /\ Cardinality(late) <= Width(s) * RequestBound(options.maxAttempts)

(* No cue goes missing between the batches: in what is exported, each      *)
(* enabled stage has either given a cue its text, or left a warning of     *)
(* this run on it that the stage failed, and never both.  A warning of an  *)
(* earlier run stays on its cue, also beside the text that it now has.     *)
Accounted ==
  outcome = "completed" =>
    \A s \in {t \in {"correction", "translation"} : Runs(t)} : \A c \in Cue :
      /\ (s \in updated[c]) # (<<"now", s>> \in warned[c])
      /\ s \in input.warned[c] => <<"before", s>> \in warned[c]

(* The report that is returned is about the document that was exported,    *)
(* whatever the repair has changed after the first check.                  *)
ReportCurrent == stage = "export" \/ outcome = "completed" => report = Issues

(* A repair, also a failed one, takes no translation away, and leaves the  *)
(* cues alone of which nothing repairable was reported.                    *)
RepairKeepsGood ==
  [][stage = "repair" =>
       \A c \in Cue : translated'[c] # translated[c] =>
         c \in Repairable /\ translated'[c] # None]_vars

(* refine_srt returns or raises, whatever is answered and however often.   *)
RefineEnds == <>(stage = "ended")

(* "translation remains incomplete after repair and partial output is      *)
(* disabled" (workflow/refine.py:125): where partial output is disabled,   *)
(* what is exported is translated into the language that was asked for.    *)
(* The code violates it: a cue keeps the translation of the input, in      *)
(* another language, when its batch fails, and counts as translated.       *)
NothingLeftInOldLanguage ==
  outcome = "completed" /\ options.translation /\ ~options.allowPartial
    /\ input.target # options.target =>
      \A c \in Cue : updated[c] \cap {"translation", "repair"} # {}
=============================================================================
