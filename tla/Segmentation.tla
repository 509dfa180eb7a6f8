---------------------------- MODULE Segmentation ----------------------------
(***************************************************************************)
(* Segmentation (subtitles/segmentation.py, SubtitleService.segment): how  *)
(* the timed pieces of a transcript are grouped into cues.                 *)
(*                                                                         *)
(* The pieces are sent to the LLM in windows.  A window proposes           *)
(* boundaries among the pieces it owns, or, if it fails, a rule does.  One *)
(* pass over all pieces then adds the cuts that readability asks for, and  *)
(* the pieces are cut into cues after each selected one.                   *)
(*                                                                         *)
(* Text is measured once: the code measures CJK characters, Latin words    *)
(* and, for the reading speed, all characters, each of which adds up.      *)
(*                                                                         *)
(* A transcript is [n, start, end, text, terminal]: the times of pieces    *)
(* 1..n, how much text the first i of them hold (characters or words), and *)
(* the pieces that end in terminal punctuation.                            *)
(***************************************************************************)
EXTENDS Integers, FiniteSets

CONSTANTS
  Transcripts,     \* the transcripts to consider
  OwnerSize,       \* batch_tokens
  Overlap,         \* overlap_tokens
  MaxDuration, MaxText, MaxRate, Silence,   \* SegmentationConstraints
  RuleSilence      \* the silence the rule takes for a boundary

Pieces(t) == 1..t.n

(* What TranscriptDocument and TimedWord admit: words may overlap.         *)
WellFormed(t) ==
  /\ t.n \in Nat
  /\ t.start \in [Pieces(t) -> Nat] /\ t.end \in [Pieces(t) -> Nat]
  /\ t.text \in [0..t.n -> Nat]
  /\ t.terminal \subseteq Pieces(t)
  /\ \A i \in Pieces(t) : t.start[i] < t.end[i]
  /\ \A i, j \in Pieces(t) : i <= j => t.start[i] <= t.start[j] /\ t.end[i] <= t.end[j]
  /\ \A i, j \in 0..t.n : i <= j => t.text[i] <= t.text[j]

ASSUME SegmentationAssumption ==
  /\ \A t \in Transcripts : WellFormed(t)
  /\ OwnerSize \in Nat \ {0} /\ Overlap \in Nat
  /\ MaxDuration \in Nat /\ MaxText \in Nat /\ MaxRate \in Nat
  /\ Silence \in Nat /\ RuleSilence \in Nat

VARIABLES
  transcript,
  at,              \* where segment is; it has returned, or raised, at the last two
  window,          \* the first piece that the next window owns
  proposed,        \* boundary_ids
  index,           \* the piece constrain_boundaries looks at
  cueStart,        \* cue_start
  candidate,       \* candidate, 0 for None
  selected         \* selected

vars == <<transcript, at, window, proposed, index, cueStart, candidate, selected>>

(* Types; and the candidate is a piece of the cue that is being built.     *)
TypeOK ==
  /\ WellFormed(transcript)
  /\ at \in {"windows", "scan", "build", "returned", "rejected"}
  /\ window \in Nat \ {0}
  /\ proposed \subseteq Pieces(transcript)
  /\ index \in 1..(transcript.n + 1) /\ cueStart \in 1..index
  /\ candidate \in {0} \cup cueStart..(index - 1)
  /\ selected \subseteq 1..(index - 1)

Init ==
  /\ transcript \in Transcripts
  /\ at = "windows" /\ window = 1 /\ proposed = {}
  /\ index = 1 /\ cueStart = 1 /\ candidate = 0 /\ selected = {}

Smaller(a, b) == IF a < b THEN a ELSE b
Larger(a, b)  == IF a < b THEN b ELSE a

GapAfter(i) ==
  IF i = transcript.n THEN 0
  ELSE Larger(0, transcript.start[i + 1] - transcript.end[i])

-----------------------------------------------------------------------------
(* The windows' boundaries *)

OwnerEnd == Smaller(transcript.n, window + OwnerSize - 1)
Owners   == window..OwnerEnd
Tokens   == Larger(1, window - Overlap)..Smaller(transcript.n, OwnerEnd + Overlap)

(* _rule_boundaries *)
RuleBoundaries ==
  {i \in Owners : i \in transcript.terminal \/ GapAfter(i) >= RuleSilence} \cup {OwnerEnd}

(* _validate_selection: an answer that names other pieces, or none.        *)
Acceptable(answer) == answer # {} /\ answer \subseteq Tokens

(* _segmentation_result *)
OwnBoundaries(answer) ==
  IF answer \cap Owners = {} THEN {OwnerEnd} ELSE answer \cap Owners

(* The answers are collected in the order of the windows (BatchMap).       *)
CollectWindow ==
  /\ at = "windows" /\ window <= transcript.n
  /\ \/ \E answer \in SUBSET Pieces(transcript) :
          /\ Acceptable(answer)
          /\ proposed' = proposed \cup OwnBoundaries(answer)
     \/ proposed' = proposed \cup RuleBoundaries
  /\ window' = window + OwnerSize
  /\ UNCHANGED <<transcript, at, index, cueStart, candidate, selected>>

WindowsDone ==
  /\ at = "windows" /\ window > transcript.n
  /\ at' = "scan"
  /\ UNCHANGED <<transcript, window, proposed, index, cueStart, candidate, selected>>

-----------------------------------------------------------------------------
(* constrain_boundaries: one step for each piece *)

Duration(a, b) == transcript.end[b] - transcript.start[a]
TextOf(a, b)   == transcript.text[b] - transcript.text[a - 1]

TooLong(a, b) == Duration(a, b) > MaxDuration \/ TextOf(a, b) > MaxText
TooFast(a, b) ==
  Duration(a, b) >= MaxDuration \div 2 /\ TextOf(a, b) > MaxRate * Duration(a, b)
ForgetsDuration(a, b) == TextOf(a, b) > MaxText \/ TooFast(a, b)   \* faulty variant
Exceeded(a, b) == TooLong(a, b) \/ TooFast(a, b)

MayEnd(i) == i \in transcript.terminal \/ GapAfter(i) >= Silence
Candidate == IF MayEnd(index) THEN index ELSE candidate

(* Where a cue that has grown too long is cut: at the candidate, which may *)
(* be the piece that made it too long, or before that piece.               *)
ReadableCut ==
  IF Candidate >= cueStart THEN Candidate ELSE Larger(cueStart, index - 1)

(* Faulty variant: readability is looked at before the proposals.          *)
ReadabilityFirst ==
  IF Exceeded(cueStart, index) THEN ReadableCut
  ELSE IF index \in proposed THEN index ELSE 0

(* 0 is for no cut.                                                        *)
CutAt ==
  IF index \in proposed THEN index
  ELSE IF Exceeded(cueStart, index) THEN ReadableCut ELSE 0

SameStart(cut)  == cueStart           \* faulty variant: measured from an earlier cue
NextStart(cut)  == cut + 1
NoCandidate == 0

ScanPiece ==
  /\ at = "scan" /\ index <= transcript.n
  /\ IF CutAt = 0
       THEN /\ candidate' = Candidate
            /\ UNCHANGED <<cueStart, selected>>
       ELSE /\ selected' = selected \cup {CutAt}
            /\ cueStart' = NextStart(CutAt)
            /\ candidate' = NoCandidate
  /\ index' = index + 1
  /\ UNCHANGED <<transcript, at, window, proposed>>

(* The last piece ends a cue.                                              *)
ScanEnds ==
  /\ at = "scan" /\ index > transcript.n
  /\ at' = "build"
  /\ selected' = selected \cup ({transcript.n} \cap Pieces(transcript))
  /\ UNCHANGED <<transcript, window, proposed, index, cueStart, candidate>>

-----------------------------------------------------------------------------
(* _build_document: a cue ends at each selected piece *)

(* Pieces a to b are a cue.                                                *)
IsCue(a, b) ==
  /\ b \in selected /\ a <= b
  /\ a = 1 \/ a - 1 \in selected
  /\ \A c \in a..(b - 1) : c \notin selected

(* SubtitleDocument rejects cues that overlap, which overlapping words on  *)
(* the two sides of a boundary make: segment raises then, for the file.    *)
CuesOverlap ==
  \E b \in selected \ {transcript.n} : transcript.start[b + 1] < transcript.end[b]

BuildDocument ==
  /\ at = "build"
  /\ at' = IF CuesOverlap THEN "rejected" ELSE "returned"
  /\ UNCHANGED <<transcript, window, proposed, index, cueStart, candidate, selected>>

Next == CollectWindow \/ WindowsDone \/ ScanPiece \/ ScanEnds \/ BuildDocument

Spec == Init /\ [][Next]_vars

-----------------------------------------------------------------------------
(* Properties *)

Scanned == at \in {"build", "returned", "rejected"}

(* Every boundary that a window proposed, or the rule in its place, ends a *)
(* cue: readability only adds cuts.                                        *)
ProposalsKept == Scanned => proposed \subseteq selected

(* A cue exceeds the limits by its last two pieces at most: a cut may come *)
(* one piece late, at a candidate, and what it leaves over, which is not   *)
(* looked at again, one piece more.                                        *)
NearLimits ==
  Scanned =>
    \A b \in selected : \A a \in 1..(b - 2) : IsCue(a, b) => ~TooLong(a, b - 2)

(* Piece i ends the cue of pieces a to b: with it the cue is unreadable,   *)
(* two pieces before it was not too long, and b is a place to end at, or i *)
(* itself or the piece before it.                                          *)
EndedBy(a, b, i) ==
  /\ Exceeded(a, i)
  /\ i - 2 >= a => ~TooLong(a, i - 2)
  /\ MayEnd(b) \/ b \in {i - 1, i}

(* Readability adds no cut without a reason, nor far from it: where        *)
(* nothing was proposed, a cue ends because a piece at or after its end    *)
(* would have made it unreadable, no later than the second one past the    *)
(* limits, and it ends at a sentence's end, at a silence, or right there.  *)
CutsForced ==
  Scanned =>
    \A b \in selected \ (proposed \cup {transcript.n}) : \A a \in 1..b :
      IsCue(a, b) => \E i \in b..transcript.n : EndedBy(a, b, i)
=============================================================================
