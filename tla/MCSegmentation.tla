--------------------------- MODULE MCSegmentation ---------------------------
(***************************************************************************)
(* TranscriptToCues: for Faster Whisper all transcripts of up to five      *)
(* words of some kinds, for NeMo and Qwen3 few words and many ways in      *)
(* which the library times and groups them.                                *)
(***************************************************************************)
EXTENDS TranscriptToCues

MaxPieces == 5

(* How long a piece lasts, how long the silence after it is, its text, and *)
(* whether it ends a sentence.                                             *)
MCKinds ==
  { [lasts |-> 1, silence |-> 0, text |-> 1, terminal |-> FALSE],
    [lasts |-> 1, silence |-> 0, text |-> 1, terminal |-> TRUE],
    [lasts |-> 1, silence |-> 2, text |-> 4, terminal |-> FALSE],
    [lasts |-> 3, silence |-> 0, text |-> 1, terminal |-> FALSE],
    [lasts |-> 3, silence |-> -1, text |-> 4, terminal |-> FALSE] }

(* When piece i starts.                                                    *)
Start(p, i) ==
  LET sum[k \in 0..i] == IF k <= 1 THEN 0 ELSE sum[k - 1] + p[k - 1].lasts + p[k - 1].silence
  IN sum[i]

(* The library's times are in half milliseconds.                           *)
Spoken(p) ==
  [i \in DOMAIN p |-> [start |-> 2 * Start(p, i), end |-> 2 * (Start(p, i) + p[i].lasts),
                       text |-> p[i].text, terminal |-> p[i].terminal]]

GroupOf(start, end, last, aligned) ==
  [start |-> start, end |-> end, last |-> last, aligned |-> aligned]

UpTo(S, n) == UNION {[1..k -> S] : k \in 0..n}

(* One segment that covers its words.                                      *)
FasterOutputs ==
  {[provider |-> Faster, items |-> <<>>, groups |-> <<>>]} \cup
  { [ provider |-> Faster,
      items    |-> Spoken(p),
      groups   |-> <<GroupOf(0, Spoken(p)[Len(p)].end, Len(p), TRUE)>> ] :
    p \in UpTo(MCKinds, MaxPieces) \ {<<>>} }

Ranges(times) == {r \in [start : times, end : times] : r.start < r.end}

TextIn(spans)   == {[start |-> r.start, end |-> r.end, text |-> 1, terminal |-> FALSE] : r \in spans}
GroupsIn(spans) == {GroupOf(r.start, r.end, 0, TRUE) : r \in spans}

(* Two segments that need not cover their words, or follow one another.    *)
FasterSegments ==
  [ provider : {Faster},
    items    : [1..2 -> TextIn(Ranges({0, 1, 4, 8}))],
    groups   : {<<GroupOf(r.start, r.end, 1, TRUE), GroupOf(q.start, q.end, 2, TRUE)>> :
                  r \in Ranges({0, 1, 4}), q \in Ranges({0, 4, 8})} ]

(* Words that touch, overlap or go back, and segments that need not fit.   *)
NemoOutputs ==
  [ provider : {Nemo},
    items    : {w \in UpTo(TextIn(Ranges({0, 3, 4, 8, 10})), 3) :
                  \A i \in 1..(Len(w) - 1) : w[i].start <= w[i + 1].start},
    groups   : UpTo(GroupsIn(Ranges({0, 3, 5, 8}) \cup {[start |-> 5, end |-> 5]}), 2) ]

(* Items with and without a time, or of half a millisecond, in two results *)
(* with or without the aligner.                                            *)
QwenOutputs ==
  [ provider : {Qwen},
    items    : [1..4 -> TextIn({[start |-> 0, end |-> 0], [start |-> 0, end |-> 2],
                                [start |-> 2, end |-> 2], [start |-> 2, end |-> 6],
                                [start |-> 6, end |-> 8], [start |-> 4, end |-> 5]})],
    groups   : {<<GroupOf(0, 0, k, first), GroupOf(0, 0, 4, second)>> :
                  k \in {0, 1, 3}, first \in BOOLEAN, second \in BOOLEAN} ]

MCOutputs == FasterOutputs \cup FasterSegments \cup NemoOutputs \cup QwenOutputs

NoPieces ==
  {[n |-> 0, start |-> <<>>, end |-> <<>>, text |-> [i \in {0} |-> 0], terminal |-> {}]}
=============================================================================
