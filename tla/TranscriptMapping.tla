-------------------------- MODULE TranscriptMapping --------------------------
(***************************************************************************)
(* TranscriptMapping: how a Worker turns what its ASR library returns into *)
(* a TranscriptDocument (map_faster_whisper_segments, map_nemo_hypotheses, *)
(* map_qwen3_results), and what the document accepts.                      *)
(*                                                                         *)
(* An output is [provider, items, groups].  An item is a timed piece of    *)
(* text: [start, end, text, terminal], the text measured (0 if there is    *)
(* none) and whether it ends a sentence.  Its times, which the library     *)
(* gives in seconds, are in half milliseconds: they are rounded.           *)
(*                                                                         *)
(* A group is [start, end, last, aligned].  It is a segment of Faster      *)
(* Whisper, with the words up to item last; a result of Qwen3, with the    *)
(* aligned items or the native segments up to item last; or a segment of   *)
(* NeMo, which lists its segments and its words apart.                     *)
(***************************************************************************)
EXTENDS Integers, Sequences

CONSTANTS Outputs     \* what the libraries may return

Faster == "faster-whisper"
Nemo   == "nemo-asr"
Qwen   == "qwen3-asr"

ItemType  == [start : Int, end : Int, text : Nat, terminal : BOOLEAN]
GroupType == [start : Int, end : Int, last : Nat, aligned : BOOLEAN]

(* The groups divide the items, but for those of NeMo.                     *)
LastIn(o, g) == IF g = 0 THEN 0 ELSE o.groups[g].last

Nested(o) ==
  /\ \A g, h \in 0..Len(o.groups) : g <= h => LastIn(o, g) <= LastIn(o, h)
  /\ LastIn(o, Len(o.groups)) = Len(o.items)

ASSUME OutputsAssumption ==
  \A o \in Outputs :
    /\ o.provider \in {Faster, Nemo, Qwen}
    /\ o.items \in Seq(ItemType) /\ o.groups \in Seq(GroupType)
    /\ o.provider # Nemo => Nested(o)

VARIABLES
  output,
  stage,       \* items, segments, document; or how it ended
  next,        \* the item at hand
  group,       \* the group at hand
  pending,     \* pending_text, as items
  words,       \* TimedWords: [start, end, items]
  segments     \* TranscriptSegments: [start, end, words], the word_ids as a set

mappingVars == <<output, stage, next, group, pending, words, segments>>

MappingInit ==
  /\ output \in Outputs
  /\ stage = "items" /\ next = 1 /\ group = 1
  /\ pending = <<>> /\ words = <<>> /\ segments = <<>>

(* _seconds_to_ms: Python's round takes a half to the even neighbor.       *)
Ms(halves) ==
  LET floor == halves \div 2 IN
  IF halves % 2 = 0 THEN floor ELSE floor + (floor % 2)

(* What is left of a range of the library, which may not be negative.      *)
TimedRange(r) == r.start >= 0 /\ Ms(r.start) < Ms(r.end)

-----------------------------------------------------------------------------
(* Items *)

Item    == output.items[next]
Last(g) == LastIn(output, g)

HasItem ==
  /\ stage = "items"
  /\ IF output.provider = Nemo THEN next <= Len(output.items)
     ELSE group <= Len(output.groups) /\ next <= Last(group)

Aligned == output.provider = Qwen => output.groups[group].aligned

(* The forced aligner gives a text no time: it goes to the next word.      *)
ZeroSpan == output.provider = Qwen /\ Aligned /\ 0 <= Item.start /\ Item.start = Item.end

ForgetsPending == <<next>>            \* faulty variant: untimed text is lost
WordItems      == Append(pending, next)

MapWord ==
  /\ HasItem /\ Aligned /\ Item.text > 0 /\ TimedRange(Item)
  /\ words' = Append(words, [start |-> Ms(Item.start), end |-> Ms(Item.end),
                             items |-> WordItems])
  /\ pending' = <<>>
  /\ next' = next + 1
  /\ UNCHANGED <<output, stage, group, segments>>

MapZeroSpan ==
  /\ HasItem /\ Item.text > 0 /\ ZeroSpan
  /\ pending' = Append(pending, next)
  /\ next' = next + 1
  /\ UNCHANGED <<output, stage, group, words, segments>>

(* A result of Qwen3 without the aligner.                                  *)
MapNativeSegment ==
  /\ HasItem /\ ~Aligned /\ Item.text > 0 /\ TimedRange(Item)
  /\ segments' = Append(segments, [start |-> Ms(Item.start), end |-> Ms(Item.end),
                                   words |-> {}])
  /\ next' = next + 1
  /\ UNCHANGED <<output, stage, group, pending, words>>

(* No text, or a range that is negative, reversed or shorter than the      *)
(* rounding.                                                               *)
RejectItem ==
  /\ HasItem
  /\ Item.text = 0 \/ (~TimedRange(Item) /\ ~ZeroSpan)
  /\ stage' = "rejected"
  /\ UNCHANGED <<output, next, group, pending, words, segments>>

-----------------------------------------------------------------------------
(* Groups: a segment of Faster Whisper, a result of Qwen3 *)

GroupWords == {w \in DOMAIN words : words[w].items[1] > Last(group - 1)}

LeastOf(S)    == CHOOSE x \in S : \A y \in S : x <= y
GreatestOf(S) == CHOOSE x \in S : \A y \in S : y <= x

GroupDone ==
  /\ stage = "items" /\ output.provider # Nemo
  /\ group <= Len(output.groups) /\ next > Last(group)

CloseSegment ==
  /\ GroupDone /\ output.provider = Faster
  /\ LET raw == output.groups[group] IN
       IF TimedRange(raw) /\ GroupWords # {}
         THEN /\ segments' = Append(segments, [start |-> Ms(raw.start), end |-> Ms(raw.end),
                                               words |-> GroupWords])
              /\ group' = group + 1
              /\ UNCHANGED stage
         ELSE stage' = "rejected" /\ UNCHANGED <<group, segments>>
  /\ UNCHANGED <<output, next, pending, words>>

(* Untimed text at the end goes to the last word of the same result.       *)
CloseAligned ==
  /\ GroupDone /\ output.provider = Qwen /\ Aligned
  /\ IF GroupWords # {}
       THEN /\ segments' = Append(segments, [start |-> words[LeastOf(GroupWords)].start,
                                             end   |-> words[Len(words)].end,
                                             words |-> GroupWords])
            /\ words' = [words EXCEPT ![Len(words)].items = @ \o pending]
            /\ pending' = <<>>
            /\ group' = group + 1
            /\ UNCHANGED stage
       ELSE stage' = "rejected" /\ UNCHANGED <<group, pending, words, segments>>
  /\ UNCHANGED <<output, next>>

CloseNative ==
  /\ GroupDone /\ output.provider = Qwen /\ ~Aligned
  /\ group' = group + 1
  /\ UNCHANGED <<output, stage, next, pending, words, segments>>

(* No speech; or aligned and native timing in one transcription.           *)
Mixed == words # <<>> /\ \E s \in DOMAIN segments : segments[s].words = {}

GroupsDone ==
  /\ stage = "items" /\ output.provider # Nemo /\ group > Len(output.groups)
  /\ stage' = IF segments = <<>> \/ Mixed THEN "rejected" ELSE "document"
  /\ UNCHANGED <<output, next, group, pending, words, segments>>

-----------------------------------------------------------------------------
(* _native_segments of NeMo: a word belongs to the segment that its middle *)
(* is in, and a segment is widened to its words.                           *)

Middle(w)    == (words[w].start + words[w].end) \div 2
Remaining    == {w \in DOMAIN words : \A s \in DOMAIN segments : w \notin segments[s].words}
Selected(r)  == {w \in Remaining : Ms(r.start) <= Middle(w) /\ Middle(w) <= Ms(r.end)}

PreviousEnd == IF group = 1 THEN -1 ELSE segments[group - 1].end

WordsDone ==
  /\ stage = "items" /\ output.provider = Nemo /\ next > Len(output.items)
  /\ stage' = IF words = <<>> THEN "rejected" ELSE "segments"
  /\ UNCHANGED <<output, next, group, pending, words, segments>>

(* _aggregate_segment: all words in one segment, in place of the library's *)
Aggregate ==
  /\ segments' = <<[start |-> words[1].start, end |-> words[Len(words)].end,
                    words |-> DOMAIN words]>>
  /\ stage' = "document"

Unwidened(r) ==                       \* faulty variant: a word may stick out
  [start |-> Ms(r.start), end |-> Ms(r.end), words |-> Selected(r)]

Widened(r) ==
  LET least == words[LeastOf(Selected(r))].start
      last  == words[GreatestOf(Selected(r))].end
  IN [ start |-> IF least < Ms(r.start) THEN least ELSE Ms(r.start),
       end   |-> IF last > Ms(r.end) THEN last ELSE Ms(r.end),
       words |-> Selected(r) ]

SelectSegment ==
  /\ stage = "segments" /\ group <= Len(output.groups)
  /\ LET raw == output.groups[group] IN
       \/ /\ raw.start < 0 \/ raw.end < 0
          /\ stage' = "rejected" /\ UNCHANGED <<group, segments>>
       \/ /\ 0 <= raw.start /\ TimedRange(raw)
          /\ PreviousEnd <= Ms(raw.start) /\ Selected(raw) # {}
          /\ segments' = Append(segments, Widened(raw))
          /\ group' = group + 1
          /\ UNCHANGED stage
       \/ /\ 0 <= raw.start /\ 0 <= raw.end
          /\ ~TimedRange(raw) \/ PreviousEnd > Ms(raw.start) \/ Selected(raw) = {}
          /\ Aggregate /\ UNCHANGED group
  /\ UNCHANGED <<output, next, pending, words>>

LeavesWords == segments # <<>>        \* faulty variant: words outside all segments
Complete    == segments # <<>> /\ Remaining = {}

SegmentsDone ==
  /\ stage = "segments" /\ group > Len(output.groups)
  /\ IF Complete THEN stage' = "document" /\ UNCHANGED segments ELSE Aggregate
  /\ UNCHANGED <<output, next, group, pending, words>>

-----------------------------------------------------------------------------
(* TranscriptDocument.validate_invariants *)

(* Neither starts nor ends go back.                                        *)
Monotonic(s) ==
  \A i \in 1..(Len(s) - 1) : s[i].start <= s[i + 1].start /\ s[i].end <= s[i + 1].end

Covers(s) ==
  s.words # {} =>
    /\ s.start <= words[LeastOf(s.words)].start
    /\ words[GreatestOf(s.words)].end <= s.end

Valid ==
  /\ Monotonic(words) /\ Monotonic(segments)
  /\ \A s \in DOMAIN segments :
       Covers(segments[s]) /\ (words # <<>> => segments[s].words # {})

ValidateDocument ==
  /\ stage = "document"
  /\ stage' = IF Valid THEN "accepted" ELSE "invalid"
  /\ UNCHANGED <<output, next, group, pending, words, segments>>

MappingNext ==
  \/ MapWord \/ MapZeroSpan \/ MapNativeSegment \/ RejectItem
  \/ CloseSegment \/ CloseAligned \/ CloseNative \/ GroupsDone
  \/ WordsDone \/ SelectSegment \/ SegmentsDone
  \/ ValidateDocument

MappingSpec == MappingInit /\ [][MappingNext]_mappingVars

-----------------------------------------------------------------------------
(* Properties *)

(* The words of a document hold the text of all items, in order: what the  *)
(* aligner gave no time is neither lost nor moved past another text.       *)
TextKept ==
  stage = "accepted" /\ words # <<>> =>
    /\ \A i \in DOMAIN output.items :
         \E w \in DOMAIN words : \E j \in DOMAIN words[w].items : words[w].items[j] = i
    /\ \A w, v \in DOMAIN words :
         \A j \in DOMAIN words[w].items, k \in DOMAIN words[v].items :
           w < v \/ (w = v /\ j < k) => words[w].items[j] < words[v].items[k]

(* The segments of a document divide its words, in order, although those   *)
(* of NeMo are listed apart from its words and may overlap.                *)
WordsDivided ==
  stage = "accepted" /\ words # <<>> =>
    /\ DOMAIN words = UNION {segments[s].words : s \in DOMAIN segments}
    /\ \A s, t \in DOMAIN segments : s < t =>
         \A w \in segments[s].words, v \in segments[t].words : w < v

(* However the native segments of NeMo lie, and whatever rounding and      *)
(* widening does to them, they never make a document that has words        *)
(* invalid.  So it is with the results of the forced aligner: only words   *)
(* that go back in time lose a transcription.  It is not so of Faster      *)
(* Whisper, nor of Qwen3 without words, whose overlapping segments do.     *)
SegmentsFit ==
  stage = "invalid" /\ words # <<>> /\ output.provider # Faster => ~Monotonic(words)
=============================================================================
