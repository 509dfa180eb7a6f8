------------------------- MODULE TranscriptToCuesProofs -------------------------
(***************************************************************************)
(* Proofs about TranscriptToCues: first about Segmentation, for any        *)
(* transcript, windows and limits, then about TranscriptMapping, for any   *)
(* output of a library, and last about the two one after the other.        *)
(***************************************************************************)
EXTENDS TranscriptToCues, SequenceTheorems, WellFoundedInduction, TLAPS

-----------------------------------------------------------------------------
(* Segmentation *)

(* Where the pass over the pieces is.                                      *)
Place ==
  /\ at = "windows" => index = 1
  /\ Scanned => index = transcript.n + 1

(* The cue that is being built starts after the last selected piece.       *)
Start ==
  /\ cueStart = 1 \/ cueStart - 1 \in selected
  /\ ~Scanned => selected \subseteq 1..(cueStart - 1)

Kept == \A b \in proposed : b < index => b \in selected

(* The cue that is being built is within the limits but for its last       *)
(* piece; with a candidate in it, for all its pieces.                      *)
Short ==
  /\ index - 2 >= cueStart => ~TooLong(cueStart, index - 2)
  /\ candidate # 0 => ~TooLong(cueStart, index - 1)

Near ==
  \A b \in selected : \A a \in 1..(b - 2) : IsCue(a, b) => ~TooLong(a, b - 2)

Forced ==
  \A b \in selected : \A a \in 1..b :
    IsCue(a, b) /\ b \notin proposed /\ ~(Scanned /\ b = transcript.n) =>
      \E i \in b..transcript.n : EndedBy(a, b, i)

(* A candidate is a place to end at.                                       *)
Cuttable == candidate # 0 => MayEnd(candidate)

IInv == TypeOK /\ Place /\ Start /\ Kept /\ Short /\ Cuttable /\ Near /\ Forced

(* What ends a cue depends on the transcript only.                         *)
LEMMA EndedByRests ==
  ASSUME transcript' = transcript
  PROVE  /\ \A i : MayEnd(i)' <=> MayEnd(i)
         /\ \A a, b, i : EndedBy(a, b, i)' <=> EndedBy(a, b, i)
<1>1. \A i : MayEnd(i)' <=> MayEnd(i)
  BY DEF MayEnd, GapAfter, Larger
<1> QED BY <1>1 DEF EndedBy, Exceeded, TooFast, TooLong, Duration, TextOf

(* A longer stretch of pieces is too long if a part of it is.              *)
LEMMA Longer ==
  ASSUME WellFormed(transcript),
         NEW a \in Pieces(transcript), NEW b \in Pieces(transcript),
         NEW c \in Pieces(transcript), NEW d \in Pieces(transcript),
         a <= c, c <= d, d <= b, TooLong(c, d)
  PROVE  TooLong(a, b)
<1>1. /\ transcript.start[a] <= transcript.start[c]
      /\ transcript.end[d] <= transcript.end[b]
      /\ transcript.start[a] \in Nat /\ transcript.start[c] \in Nat
      /\ transcript.end[d] \in Nat /\ transcript.end[b] \in Nat
  BY DEF WellFormed, Pieces
<1>2. /\ transcript.text[a - 1] <= transcript.text[c - 1]
      /\ transcript.text[d] <= transcript.text[b]
      /\ transcript.text[a - 1] \in Nat /\ transcript.text[c - 1] \in Nat
      /\ transcript.text[d] \in Nat /\ transcript.text[b] \in Nat
  <2>1. transcript.n \in Nat
    BY DEF WellFormed
  <2>2. /\ a - 1 \in 0..transcript.n /\ c - 1 \in 0..transcript.n
        /\ d \in 0..transcript.n /\ b \in 0..transcript.n /\ a - 1 <= c - 1
    BY <2>1 DEF Pieces
  <2> QED BY <2>2 DEF WellFormed
<1>3. MaxDuration \in Nat /\ MaxText \in Nat
  BY SegmentationAssumption
<1> QED BY <1>1, <1>2, <1>3 DEF TooLong, Duration, TextOf

(* What a further boundary c behind all others does to the cues: it ends   *)
(* the one that is being built.                                            *)
LEMMA NewCue ==
  ASSUME NEW c \in Nat, cueStart \in Nat \ {0}, cueStart <= c,
         selected \subseteq 1..(cueStart - 1),
         cueStart = 1 \/ cueStart - 1 \in selected,
         selected' = selected \cup {c},
         NEW a \in Nat \ {0}, NEW b \in selected', IsCue(a, b)'
  PROVE  \/ b \in selected /\ IsCue(a, b)
         \/ b = c /\ a = cueStart
<1>1. b \in Nat /\ a <= b /\ (a = 1 \/ a - 1 \in selected \cup {c})
      /\ \A e \in a..(b - 1) : e \notin selected
  BY DEF IsCue
<1>2. CASE b \in selected
  <2>1. b < c /\ a - 1 # c
    BY <1>1, <1>2
  <2> QED BY <1>1, <1>2, <2>1 DEF IsCue
<1>3. CASE b \notin selected
  <2>1. b = c
    BY <1>3
  <2>2. ~(a < cueStart)
    <3> SUFFICES ASSUME a < cueStart PROVE FALSE
      OBVIOUS
    <3>1. cueStart - 1 \in selected /\ cueStart - 1 \in a..(b - 1)
      BY <2>1
    <3> QED BY <1>1, <3>1
  <2>3. ~(a > cueStart)
    <3> SUFFICES ASSUME a > cueStart PROVE FALSE
      OBVIOUS
    <3>1. a - 1 \in selected \/ a - 1 = c
      BY <1>1
    <3> QED BY <1>1, <2>1, <3>1
  <2> QED BY <2>1, <2>2, <2>3
<1> QED BY <1>2, <1>3

LEMMA IInvInit == Init => IInv
<1> SUFFICES ASSUME Init PROVE IInv
  OBVIOUS
<1>1. WellFormed(transcript) /\ transcript.n \in Nat
  BY SegmentationAssumption DEF Init, WellFormed
<1>2. TypeOK
  BY <1>1 DEF Init, TypeOK
<1> QED
  BY <1>2 DEF Init, IInv, Place, Start, Kept, Short, Cuttable, Near, Forced, Scanned

(* Steps that leave the cues alone.                                        *)
LEMMA SameCues ==
  ASSUME IInv, UNCHANGED <<transcript, index, cueStart, candidate, selected>>,
         TypeOK', Place', Scanned' <=> Scanned, Kept', proposed \subseteq proposed'
  PROVE  IInv'
<1>1. Start' /\ Short'
  BY DEF IInv, Start, Short, TooLong, Duration, TextOf
<1>2. Near'
  BY DEF IInv, Near, IsCue, TooLong, Duration, TextOf
<1>3. Forced' /\ Cuttable'
  BY EndedByRests DEF IInv, Forced, Cuttable, IsCue
<1> QED BY <1>1, <1>2, <1>3 DEF IInv

LEMMA CollectWindowKeeps == IInv /\ CollectWindow => IInv'
<1> SUFFICES ASSUME IInv, CollectWindow PROVE IInv'
  OBVIOUS
<1>1. /\ transcript.n \in Nat /\ OwnerSize \in Nat \ {0}
      /\ window \in 1..transcript.n /\ at = "windows"
  BY SegmentationAssumption DEF IInv, TypeOK, WellFormed, CollectWindow
<1>2. Owners \subseteq Pieces(transcript) /\ OwnerEnd \in Pieces(transcript)
  BY <1>1 DEF Owners, OwnerEnd, Smaller, Pieces
<1>3. proposed' \subseteq Pieces(transcript) /\ proposed \subseteq proposed'
  BY <1>2 DEF CollectWindow, OwnBoundaries, RuleBoundaries, IInv, TypeOK
<1>4. TypeOK'
  <2>1. window' \in Nat \ {0}
    BY <1>1 DEF CollectWindow
  <2> QED BY <2>1, <1>3 DEF IInv, TypeOK, CollectWindow
<1>5. Kept'
  <2>1. index' = 1
    BY <1>1 DEF IInv, Place, CollectWindow
  <2>2. \A b \in proposed' : b \in Nat /\ b >= 1
    BY <1>1, <1>3 DEF Pieces
  <2> QED BY <2>1, <2>2 DEF Kept
<1> QED
  BY <1>3, <1>4, <1>5, SameCues DEF IInv, Place, Scanned, CollectWindow

LEMMA WindowsDoneKeeps == IInv /\ WindowsDone => IInv'
<1> SUFFICES ASSUME IInv, WindowsDone PROVE IInv'
  OBVIOUS
<1>1. TypeOK' /\ Place' /\ Kept'
  BY DEF IInv, TypeOK, Place, Kept, Scanned, WindowsDone
<1> QED BY <1>1, SameCues DEF Scanned, WindowsDone

LEMMA BuildDocumentKeeps == IInv /\ BuildDocument => IInv'
<1> SUFFICES ASSUME IInv, BuildDocument PROVE IInv'
  OBVIOUS
<1>1. TypeOK' /\ Place' /\ Kept' /\ (Scanned' <=> Scanned)
  BY DEF IInv, TypeOK, Place, Kept, Scanned, BuildDocument
<1> QED BY <1>1, SameCues DEF BuildDocument

(* A cut falls into the cue that is being built; it leaves over only       *)
(* pieces that are within the limits, but for the last.                    *)
LEMMA CutFacts ==
  ASSUME IInv, at = "scan", index <= transcript.n, CutAt # 0
  PROVE  /\ CutAt \in cueStart..index
         /\ index - 1 >= CutAt + 1 => ~TooLong(CutAt + 1, index - 1)
         /\ MayEnd(CutAt) \/ CutAt \in {index - 1, index}
<1>1. /\ WellFormed(transcript) /\ transcript.n \in Nat
      /\ cueStart \in 1..index /\ index \in 1..transcript.n
      /\ candidate \in {0} \cup cueStart..(index - 1)
  BY DEF IInv, TypeOK, WellFormed
<1>2. CASE CutAt = index
  BY <1>1, <1>2
<1>3. CASE CutAt # index
  <2>1. CutAt = ReadableCut
    BY <1>3 DEF CutAt
  <2>2. CASE CutAt = candidate /\ candidate # 0
    <3>1. candidate \in cueStart..(index - 1) /\ ~TooLong(cueStart, index - 1)
      BY <1>1, <2>2 DEF IInv, Short
    <3>2. ASSUME index - 1 >= candidate + 1
          PROVE  ~TooLong(candidate + 1, index - 1)
      <4>1. /\ cueStart \in Pieces(transcript) /\ index - 1 \in Pieces(transcript)
            /\ candidate + 1 \in Pieces(transcript)
            /\ cueStart <= candidate + 1 /\ candidate + 1 <= index - 1
            /\ index - 1 <= index - 1
        BY <1>1, <3>1, <3>2 DEF Pieces
      <4>2. TooLong(candidate + 1, index - 1) => TooLong(cueStart, index - 1)
        BY <1>1, <4>1, Longer
      <4> QED BY <3>1, <4>2
    <3>3. candidate \in cueStart..index /\ MayEnd(candidate)
      BY <1>1, <2>2, <3>1 DEF IInv, Cuttable
    <3> QED BY <2>2, <3>2, <3>3
  <2>3. CASE ~(CutAt = candidate /\ candidate # 0)
    <3>1. CutAt = Larger(cueStart, index - 1)
      BY <1>1, <1>3, <2>1, <2>3 DEF ReadableCut, Candidate
    <3>2. CutAt \in cueStart..index /\ CutAt + 1 > index - 1 /\ CutAt \in {index - 1, index}
      BY <1>1, <3>1 DEF Larger
    <3> QED BY <1>1, <3>2
  <2> QED BY <2>2, <2>3
<1> QED BY <1>2, <1>3

LEMMA ScanPieceKeeps == IInv /\ ScanPiece => IInv'
<1> SUFFICES ASSUME IInv, ScanPiece PROVE IInv'
  OBVIOUS
<1>1. /\ WellFormed(transcript) /\ transcript.n \in Nat
      /\ cueStart \in 1..index /\ index \in 1..transcript.n
      /\ candidate \in {0} \cup cueStart..(index - 1)
      /\ selected \subseteq 1..(cueStart - 1) /\ at = "scan" /\ ~Scanned
      /\ proposed \subseteq Pieces(transcript)
  BY DEF IInv, TypeOK, WellFormed, Start, Scanned, ScanPiece
<1>2. /\ at' = "scan" /\ ~Scanned' /\ index' = index + 1
      /\ transcript' = transcript /\ proposed' = proposed /\ window' = window
  BY <1>1 DEF ScanPiece, Scanned
<1>3. Candidate \in {0} \cup cueStart..index
  BY <1>1 DEF Candidate
<1>4. CASE CutAt = 0
  <2>1. /\ candidate' = Candidate /\ cueStart' = cueStart /\ selected' = selected
    BY <1>4 DEF ScanPiece
  <2>2. index \notin proposed /\ ~TooLong(cueStart, index)
    <3>1. index # 0 /\ ReadableCut # 0
      BY <1>1, <1>3 DEF ReadableCut, Larger
    <3> QED BY <1>4, <3>1 DEF CutAt, Exceeded
  <2>3. TypeOK'
    BY <1>1, <1>2, <1>3, <2>1 DEF IInv, TypeOK
  <2>4. Start' /\ Place'
    BY <1>1, <1>2, <2>1 DEF IInv, Start, Place
  <2>5. Kept'
    BY <1>1, <1>2, <2>1, <2>2 DEF IInv, Kept, Pieces
  <2>6. Short'
    <3>1. ASSUME index - 1 >= cueStart PROVE ~TooLong(cueStart, index - 1)
      <4>1. /\ cueStart \in Pieces(transcript) /\ index - 1 \in Pieces(transcript)
            /\ index \in Pieces(transcript)
            /\ cueStart <= cueStart /\ cueStart <= index - 1 /\ index - 1 <= index
        BY <1>1, <3>1 DEF Pieces
      <4>2. TooLong(cueStart, index - 1) => TooLong(cueStart, index)
        BY <1>1, <4>1, Longer
      <4> QED BY <2>2, <4>2
    <3>2. index' - 2 = index - 1 /\ index' - 1 = index
      BY <1>1, <1>2
    <3> QED BY <1>2, <2>1, <2>2, <3>1, <3>2 DEF Short, TooLong, Duration, TextOf
  <2>7. Near'
    BY <1>2, <2>1 DEF IInv, Near, IsCue, TooLong, Duration, TextOf
  <2>8. Forced'
    BY <1>1, <1>2, <2>1, EndedByRests DEF IInv, Forced, IsCue
  <2>9. Cuttable'
    BY <1>2, <2>1, EndedByRests DEF IInv, Cuttable, Candidate
  <2> QED BY <2>3, <2>4, <2>5, <2>6, <2>7, <2>8, <2>9 DEF IInv
<1>5. CASE CutAt # 0
  <2> DEFINE c == CutAt
  <2>1. /\ c \in cueStart..index
        /\ index - 1 >= c + 1 => ~TooLong(c + 1, index - 1)
        /\ MayEnd(c) \/ c \in {index - 1, index}
    BY <1>1, <1>5, CutFacts
  <2>2. /\ candidate' = 0 /\ cueStart' = c + 1 /\ selected' = selected \cup {c}
    BY <1>5 DEF ScanPiece, NextStart, NoCandidate
  <2>3. c \in 1..index
    BY <1>1, <2>1
  <2> HIDE DEF c
  <2>4. TypeOK'
    <3>1. cueStart' \in 1..index' /\ selected' \subseteq 1..(index' - 1)
      BY <1>1, <1>2, <2>2, <2>3
    <3>2. index' \in 1..(transcript'.n + 1)
      BY <1>1, <1>2
    <3> QED BY <1>1, <1>2, <2>2, <3>1, <3>2 DEF IInv, TypeOK
  <2>5. Start' /\ Place'
    BY <1>1, <1>2, <2>1, <2>2 DEF Start, Place
  <2>6. Kept'
    <3>1. index \in proposed => c = index
      BY DEF c, CutAt
    <3> QED BY <1>1, <1>2, <2>2, <3>1 DEF IInv, Kept, Pieces
  <2>7. Short'
    BY <1>1, <1>2, <2>1, <2>2, <2>3 DEF Short, TooLong, Duration, TextOf
  <2>8. ASSUME NEW a \in Nat \ {0}, NEW b \in selected', IsCue(a, b)'
        PROVE  \/ b \in selected /\ IsCue(a, b)
               \/ b = c /\ a = cueStart
    <3>1. c \in Nat /\ cueStart \in Nat \ {0} /\ cueStart <= c
          /\ (cueStart = 1 \/ cueStart - 1 \in selected)
      BY <1>1, <2>1 DEF IInv, Start
    <3> QED BY <1>1, <2>2, <2>8, <3>1, NewCue
  <2>9. Near'
    <3> SUFFICES ASSUME NEW b \in selected', NEW a \in 1..(b - 2), IsCue(a, b)'
                 PROVE  ~TooLong(a, b - 2)
      BY <1>2 DEF Near, TooLong, Duration, TextOf
    <3>1. b \in Nat /\ a \in Nat \ {0}
      BY <1>1, <2>2, <2>3
    <3>2. CASE b \in selected /\ IsCue(a, b)
      BY <3>2 DEF IInv, Near
    <3>3. CASE b = c /\ a = cueStart
      <4>1. index - 2 >= cueStart /\ ~TooLong(cueStart, index - 2)
        BY <1>1, <2>1, <3>1, <3>3 DEF IInv, Short
      <4>2. /\ a \in Pieces(transcript) /\ b - 2 \in Pieces(transcript)
            /\ index - 2 \in Pieces(transcript)
            /\ a <= a /\ a <= b - 2 /\ b - 2 <= index - 2
        BY <1>1, <2>1, <3>1, <3>3, <4>1 DEF Pieces
      <4>3. TooLong(a, b - 2) => TooLong(a, index - 2)
        BY <1>1, <4>2, Longer
      <4> QED BY <3>3, <4>1, <4>3
    <3> QED BY <2>8, <3>1, <3>2, <3>3
  <2>10. Forced'
    <3> SUFFICES ASSUME NEW b \in selected', NEW a \in 1..b, IsCue(a, b)', b \notin proposed
                 PROVE  \E i \in b..transcript.n : EndedBy(a, b, i)
      BY <1>2, EndedByRests DEF Forced
    <3>1. b \in Nat /\ a \in Nat \ {0}
      BY <1>1, <2>2, <2>3
    <3>2. CASE b \in selected /\ IsCue(a, b)
      BY <1>1, <3>2 DEF IInv, Forced
    <3>3. CASE b = c /\ a = cueStart
      <4>1. Exceeded(cueStart, index)
        BY <1>5, <3>3 DEF c, CutAt
      <4>2. index \in b..transcript.n
        BY <1>1, <2>1, <3>3
      <4>3. index - 2 >= cueStart => ~TooLong(cueStart, index - 2)
        BY DEF IInv, Short
      <4>4. EndedBy(a, b, index)
        BY <2>1, <3>3, <4>1, <4>3 DEF EndedBy
      <4> QED BY <4>2, <4>4
    <3> QED BY <2>8, <3>1, <3>2, <3>3
  <2>11. Cuttable'
    BY <2>2 DEF Cuttable
  <2> QED BY <2>4, <2>5, <2>6, <2>7, <2>9, <2>10, <2>11 DEF IInv
<1> QED BY <1>4, <1>5

LEMMA ScanEndsKeeps == IInv /\ ScanEnds => IInv'
<1> SUFFICES ASSUME IInv, ScanEnds PROVE IInv'
  OBVIOUS
<1>1. /\ WellFormed(transcript) /\ transcript.n \in Nat
      /\ index = transcript.n + 1 /\ cueStart \in 1..index
      /\ selected \subseteq 1..(cueStart - 1) /\ ~Scanned
      /\ cueStart = 1 \/ cueStart - 1 \in selected
  <2>1. /\ WellFormed(transcript) /\ transcript.n \in Nat
        /\ index \in 1..(transcript.n + 1) /\ index > transcript.n
        /\ cueStart \in 1..index
    BY DEF IInv, TypeOK, WellFormed, ScanEnds
  <2>2. index = transcript.n + 1
    BY <2>1
  <2>3. ~Scanned
    BY DEF Scanned, ScanEnds
  <2> QED BY <2>1, <2>2, <2>3 DEF IInv, Start
<1>2. /\ Scanned' /\ transcript' = transcript /\ proposed' = proposed
      /\ window' = window /\ index' = index /\ cueStart' = cueStart
      /\ candidate' = candidate /\ at' = "build"
  BY DEF ScanEnds, Scanned
<1>3. TypeOK'
  <2>1. selected' \subseteq 1..(index' - 1)
    <3>1. selected' = selected \cup ({transcript.n} \cap 1..transcript.n)
      BY DEF ScanEnds, Pieces
    <3>2. index' - 1 = transcript.n /\ 1..(cueStart - 1) \subseteq 1..transcript.n
      BY <1>1, <1>2
    <3> QED BY <1>1, <3>1, <3>2
  <2> QED BY <1>2, <2>1 DEF IInv, TypeOK
<1>4. Place' /\ Start' /\ Kept' /\ Short'
  BY <1>1, <1>2 DEF IInv, Place, Start, Kept, Short, Scanned, TooLong, Duration, TextOf, ScanEnds
<1>7. Cuttable'
  BY <1>2, EndedByRests DEF IInv, Cuttable
<1>5. CASE cueStart = index
  <2>1. selected' = selected
    <3>1. transcript.n \in Pieces(transcript) => transcript.n \in selected
      BY <1>1, <1>5 DEF Pieces
    <3> QED BY <3>1 DEF ScanEnds
  <2>2. Near'
    BY <1>2, <2>1 DEF IInv, Near, IsCue, TooLong, Duration, TextOf
  <2>3. Forced'
    BY <1>1, <1>2, <2>1, EndedByRests DEF IInv, Forced, IsCue
  <2> QED BY <1>3, <1>4, <1>7, <2>2, <2>3 DEF IInv
<1>6. CASE cueStart # index
  <2>1. /\ transcript.n \in Nat /\ cueStart \in Nat \ {0} /\ cueStart <= transcript.n
        /\ selected' = selected \cup {transcript.n}
    BY <1>1, <1>6 DEF ScanEnds, Pieces
  <2>2. ASSUME NEW a \in Nat \ {0}, NEW b \in selected', IsCue(a, b)'
        PROVE  \/ b \in selected /\ IsCue(a, b)
               \/ b = transcript.n /\ a = cueStart
    BY <1>1, <2>1, <2>2, NewCue
  <2>3. \A b \in selected' : b \in Nat
    BY <1>1, <2>1
  <2>4. Near'
    <3> SUFFICES ASSUME NEW b \in selected', NEW a \in 1..(b - 2), IsCue(a, b)'
                 PROVE  ~TooLong(a, b - 2)
      BY <1>2 DEF Near, TooLong, Duration, TextOf
    <3>1. b \in Nat /\ a \in Nat \ {0}
      BY <2>3
    <3>2. CASE b \in selected /\ IsCue(a, b)
      BY <3>2 DEF IInv, Near
    <3>3. CASE b = transcript.n /\ a = cueStart
      <4>1. index - 2 >= cueStart /\ ~TooLong(cueStart, index - 2)
        BY <1>1, <3>1, <3>3 DEF IInv, Short
      <4>2. /\ a \in Pieces(transcript) /\ b - 2 \in Pieces(transcript)
            /\ index - 2 \in Pieces(transcript)
            /\ a <= a /\ a <= b - 2 /\ b - 2 <= index - 2
        BY <1>1, <3>1, <3>3, <4>1 DEF Pieces
      <4>3. TooLong(a, b - 2) => TooLong(a, index - 2)
        BY <1>1, <4>2, Longer
      <4> QED BY <3>3, <4>1, <4>3
    <3> QED BY <2>2, <3>1, <3>2, <3>3
  <2>5. Forced'
    <3> SUFFICES ASSUME NEW b \in selected', NEW a \in 1..b, IsCue(a, b)',
                        b \notin proposed, b # transcript.n
                 PROVE  \E i \in b..transcript.n : EndedBy(a, b, i)
      BY <1>2, EndedByRests DEF Forced
    <3>1. b \in Nat /\ a \in Nat \ {0}
      BY <2>3
    <3>2. b \in selected /\ IsCue(a, b)
      BY <2>2, <3>1
    <3> QED BY <1>1, <3>2 DEF IInv, Forced
  <2> QED BY <1>3, <1>4, <1>7, <2>4, <2>5 DEF IInv
<1> QED BY <1>5, <1>6

LEMMA IInvKept == IInv /\ [Next]_vars => IInv'
<1> SUFFICES ASSUME IInv, [Next]_vars PROVE IInv'
  OBVIOUS
<1>1. CASE CollectWindow
  BY <1>1, CollectWindowKeeps
<1>2. CASE WindowsDone
  BY <1>2, WindowsDoneKeeps
<1>3. CASE ScanPiece
  BY <1>3, ScanPieceKeeps
<1>4. CASE ScanEnds
  BY <1>4, ScanEndsKeeps
<1>5. CASE BuildDocument
  BY <1>5, BuildDocumentKeeps
<1>6. CASE UNCHANGED vars
  <2>1. TypeOK' /\ Place' /\ Kept'
    BY <1>6 DEF IInv, TypeOK, Place, Kept, Scanned, vars
  <2> QED BY <1>6, <2>1, SameCues DEF Scanned, vars
<1> QED BY <1>1, <1>2, <1>3, <1>4, <1>5, <1>6 DEF Next

LEMMA IInvHolds == Spec => []IInv
BY IInvInit, IInvKept, PTL DEF Spec

LEMMA KeepsProposals == IInv => ProposalsKept
<1> SUFFICES ASSUME IInv, Scanned, NEW b \in proposed PROVE b \in selected
  BY DEF ProposalsKept, IInv, TypeOK
<1>1. b \in 1..transcript.n /\ transcript.n \in Nat /\ index = transcript.n + 1
  BY DEF IInv, TypeOK, WellFormed, Place, Pieces
<1> QED BY <1>1 DEF IInv, Kept

LEMMA KeepsCues == IInv => NearLimits /\ CutsForced
BY DEF IInv, Near, NearLimits, Forced, CutsForced

-----------------------------------------------------------------------------
(* The variables keep their types, the candidate its cue.                  *)
THEOREM TypeCorrect == Spec => []TypeOK
<1>1. IInv => TypeOK
  BY DEF IInv
<1> QED BY <1>1, IInvHolds, PTL

(* constrain_boundaries ends a cue at each proposed boundary, whatever the *)
(* limits and the windows are.                                             *)
THEOREM ProposalsKeptHolds == Spec => []ProposalsKept
BY IInvHolds, KeepsProposals, PTL

(* No cue exceeds the limits by more than its last two pieces.             *)
THEOREM NearLimitsHolds == Spec => []NearLimits
BY IInvHolds, KeepsCues, PTL

(* No cut is added but where the limits are passed: at that piece, at the  *)
(* one before it, or at a sentence's end or a silence before it.           *)
THEOREM CutsForcedHolds == Spec => []CutsForced
BY IInvHolds, KeepsCues, PTL

-----------------------------------------------------------------------------
(* The mapping: sets of numbers, and sequences that do not go back *)

(* A set of numbers that is not empty has a least one.                     *)
LEMMA LeastNumber ==
  ASSUME NEW S, S \subseteq Nat, S # {}
  PROVE  \E x \in S : \A y \in S : x <= y
<1>1. PICK x \in S : \A y \in S : ~(<<y, x>> \in OpToRel(<, Nat))
      BY NatLessThanWellFounded, WFMin
<1>2. ASSUME NEW y \in S PROVE x <= y
  <2>1. x \in Nat /\ y \in Nat /\ ~(<<y, x>> \in OpToRel(<, Nat))
        BY <1>1
  <2> QED BY <2>1 DEF OpToRel
<1> QED BY <1>2

LEMMA LeastIsIn ==
  ASSUME NEW S, S \subseteq Nat, S # {}
  PROVE  LeastOf(S) \in S /\ \A y \in S : LeastOf(S) <= y
BY LeastNumber DEF LeastOf

LEMMA GreatestIsIn ==
  ASSUME NEW n \in Nat, NEW S, S \subseteq 1..n, S # {}
  PROVE  GreatestOf(S) \in S /\ \A y \in S : y <= GreatestOf(S)
<1> DEFINE T == {n - x : x \in S}
<1>1. T \subseteq Nat /\ T # {}
  <2>1. \A x \in S : n - x \in Nat
        OBVIOUS
  <2>2. PICK x \in S : TRUE
        OBVIOUS
  <2>3. n - x \in T
        BY <2>2
  <2> QED BY <2>1, <2>3
<1>2. PICK t \in T : \A u \in T : t <= u
  <2> HIDE DEF T
  <2> QED BY <1>1, LeastNumber
<1>3. PICK x \in S : t = n - x
      OBVIOUS
<1>4. \A y \in S : y <= x
  <2> SUFFICES ASSUME NEW y \in S PROVE y <= x
      OBVIOUS
  <2>1. n - x <= n - y
        BY <1>2, <1>3
  <2>2. n \in Int /\ x \in Int /\ y \in Int
        OBVIOUS
  <2> HIDE DEF T
  <2> QED BY <2>1, <2>2
<1> QED BY <1>4 DEF GreatestOf

(* The times of words or segments.                                         *)
Timed(s) ==
  /\ Len(s) \in Nat /\ DOMAIN s = 1..Len(s)
  /\ \A i \in DOMAIN s : s[i].start \in Int /\ s[i].end \in Int

(* What does not go back from one to the next does not go back at all.     *)
LEMMA MonotonicPairs ==
  ASSUME NEW s, Timed(s), Monotonic(s), NEW i \in DOMAIN s, NEW j \in DOMAIN s, i <= j
  PROVE  s[i].start <= s[j].start /\ s[i].end <= s[j].end
<1> DEFINE fine(a, b) == s[a].start <= s[b].start /\ s[a].end <= s[b].end
           bad == {b \in DOMAIN s : ~(i <= b => fine(i, b))}
<1>1. SUFFICES ASSUME bad # {} PROVE FALSE
      OBVIOUS
<1>2. bad \subseteq Nat
      BY DEF Timed
<1>3. PICK b \in bad : \A c \in bad : b <= c
  <2> HIDE DEF bad
  <2> QED BY <1>1, <1>2, LeastNumber
<1>4. b \in DOMAIN s /\ i <= b /\ ~fine(i, b)
      OBVIOUS
<1>5. i # b
      BY <1>4 DEF Timed
<1>6. b - 1 \in 1..(Len(s) - 1) /\ i <= b - 1 /\ b - 1 \in DOMAIN s /\ (b - 1) + 1 = b
      BY <1>4, <1>5 DEF Timed
<1>7. fine(b - 1, b)
      BY <1>6 DEF Monotonic
<1>8. fine(i, b - 1)
      BY <1>3, <1>6
<1> QED BY <1>4, <1>6, <1>7, <1>8 DEF Timed

-----------------------------------------------------------------------------
(* Types, and where the mapping is among the items *)

Stages == {"items", "segments", "document", "accepted", "invalid", "rejected"}

WordType    == [start : Int, end : Int, items : Seq(Nat)]
SegmentType == [start : Int, end : Int, words : SUBSET Nat]

(* An item at hand is one of the group at hand.                            *)
ItemsTaken ==
  /\ next \in Nat \ {0} /\ group \in Nat \ {0}
  /\ output.provider = Nemo => next <= Len(output.items) + 1
  /\ output.provider # Nemo =>
       /\ group <= Len(output.groups) + 1
       /\ Last(group - 1) < next
       /\ group <= Len(output.groups) => next <= Last(group) + 1
       /\ group > Len(output.groups) => next = Len(output.items) + 1

Mapped == stage \in {"document", "accepted", "invalid"}

(* A document has all groups; NeMo's segments are looked at when all its   *)
(* words have been mapped.                                                 *)
WordsFirst ==
  /\ output.provider # Nemo /\ Mapped => group > Len(output.groups)
  /\ output.provider # Nemo => stage # "segments"
  /\ output.provider = Nemo /\ stage \notin {"items", "rejected"} =>
       next = Len(output.items) + 1 /\ words # <<>>

MapTypeOK ==
  /\ output \in Outputs
  /\ stage \in Stages
  /\ pending \in Seq(Nat)
  /\ words \in Seq(WordType)
  /\ segments \in Seq(SegmentType)
  /\ ItemsTaken /\ WordsFirst

LEMMA MsType == \A h \in Int : Ms(h) \in Int
BY DEF Ms

LEMMA OutputTypes ==
  ASSUME output \in Outputs
  PROVE  /\ Len(output.items) \in Nat /\ Len(output.groups) \in Nat
         /\ \A i \in 1..Len(output.items) : output.items[i].start \in Int /\ output.items[i].end \in Int
         /\ \A g \in 1..Len(output.groups) :
              /\ output.groups[g].start \in Int /\ output.groups[g].end \in Int
              /\ output.groups[g].last \in Nat
<1>1. output.items \in Seq(ItemType) /\ output.groups \in Seq(GroupType)
      BY OutputsAssumption
<1>2. \A i \in 1..Len(output.items) : output.items[i] \in ItemType
      BY <1>1
<1>3. \A g \in 1..Len(output.groups) : output.groups[g] \in GroupType
      BY <1>1
<1>4. Len(output.items) \in Nat /\ Len(output.groups) \in Nat
      BY <1>1
<1>5. \A i \in 1..Len(output.items) : output.items[i].start \in Int /\ output.items[i].end \in Int
      BY <1>2 DEF ItemType
<1>6. \A g \in 1..Len(output.groups) :
        /\ output.groups[g].start \in Int /\ output.groups[g].end \in Int
        /\ output.groups[g].last \in Nat
      BY <1>3 DEF GroupType
<1> QED BY <1>4, <1>5, <1>6

LEMMA LastTypes ==
  ASSUME output \in Outputs, output.provider # Nemo
  PROVE  /\ \A g \in 0..Len(output.groups) : Last(g) \in Nat
         /\ \A g, h \in 0..Len(output.groups) : g <= h => Last(g) <= Last(h)
         /\ Last(Len(output.groups)) = Len(output.items)
         /\ Last(0) = 0
<1>1. Nested(output)
      BY OutputsAssumption
<1> QED BY <1>1, OutputTypes DEF Last, LastIn, Nested

LEMMA ItemAtHand ==
  ASSUME MapTypeOK, HasItem
  PROVE  /\ next \in 1..Len(output.items) /\ Item.start \in Int /\ Item.end \in Int
         /\ output.provider # Nemo =>
              group \in 1..Len(output.groups) /\ next <= Last(group)
<1>1. ASSUME output.provider # Nemo
      PROVE  group \in 1..Len(output.groups) /\ next <= Last(group) /\ Last(group) <= Len(output.items)
  <2>1. group \in 1..Len(output.groups) /\ next <= Last(group)
        BY <1>1, OutputTypes DEF HasItem, MapTypeOK, ItemsTaken
  <2>2. Last(group) <= Last(Len(output.groups)) /\ Last(Len(output.groups)) = Len(output.items)
        BY <1>1, <2>1, OutputTypes, LastTypes DEF MapTypeOK
  <2> QED BY <2>1, <2>2
<1>2. next \in 1..Len(output.items)
  <2>1. CASE output.provider = Nemo
        BY <2>1, OutputTypes DEF HasItem, MapTypeOK, ItemsTaken
  <2>2. CASE output.provider # Nemo
    <3>1. Last(group) \in Nat /\ Len(output.items) \in Nat /\ next \in Nat \ {0}
          BY <1>1, <2>2, OutputTypes, LastTypes DEF MapTypeOK, ItemsTaken
    <3> QED BY <1>1, <2>2, <3>1
  <2> QED BY <2>1, <2>2
<1> QED BY <1>1, <1>2, OutputTypes DEF Item, MapTypeOK

(* The next item of the group, or the next group.                          *)
LEMMA ItemMoves ==
  ASSUME MapTypeOK, HasItem, next' = next + 1, UNCHANGED <<output, group>>
  PROVE  ItemsTaken'
<1>1. /\ next \in Nat \ {0} /\ group \in Nat \ {0} /\ Len(output.items) \in Nat
      /\ Len(output.groups) \in Nat
      BY OutputTypes DEF MapTypeOK, ItemsTaken
<1>2. CASE output.provider = Nemo
      BY <1>1, <1>2 DEF HasItem, ItemsTaken
<1>3. CASE output.provider # Nemo
  <2>1. group \in 1..Len(output.groups) /\ next <= Last(group)
        BY <1>3, ItemAtHand
  <2>2. Last(group - 1) \in Nat /\ Last(group) \in Nat
        BY <1>1, <1>3, <2>1, LastTypes DEF MapTypeOK
  <2>3. Last(group - 1) < next
        BY <1>3 DEF MapTypeOK, ItemsTaken
  <2>4. /\ Last(group - 1)' = Last(group - 1) /\ Last(group)' = Last(group)
        BY DEF Last
  <2> QED BY <1>1, <1>3, <2>1, <2>2, <2>3, <2>4 DEF ItemsTaken
<1> QED BY <1>2, <1>3

LEMMA GroupMoves ==
  ASSUME MapTypeOK, GroupDone, group' = group + 1, UNCHANGED <<output, next>>
  PROVE  /\ ItemsTaken'
         /\ group \in 1..Len(output.groups) /\ next = Last(group) + 1
<1>1. /\ next \in Nat \ {0} /\ group \in 1..Len(output.groups) /\ Len(output.items) \in Nat
      /\ Len(output.groups) \in Nat /\ output.provider # Nemo
      BY OutputTypes DEF MapTypeOK, ItemsTaken, GroupDone
<1>2. Last(group) \in Nat
      BY <1>1, LastTypes DEF MapTypeOK
<1>3. next = Last(group) + 1
      BY <1>1, <1>2 DEF MapTypeOK, ItemsTaken, GroupDone
<1>5. group + 1 <= Len(output.groups) => Last(group + 1) \in Nat /\ Last(group) <= Last(group + 1)
      BY <1>1, LastTypes DEF MapTypeOK
<1>6. group + 1 > Len(output.groups) => Last(group) = Len(output.items)
  <2>1. group + 1 > Len(output.groups) => group = Len(output.groups)
        BY <1>1
  <2> QED BY <1>1, <2>1, LastTypes DEF MapTypeOK
<1>7. (group + 1) - 1 = group
      BY <1>1
<1>8. ItemsTaken'
      BY <1>1, <1>2, <1>3, <1>5, <1>6, <1>7 DEF ItemsTaken, Last
<1> QED BY <1>1, <1>3, <1>8

LEMMA Shapes ==
  ASSUME MapTypeOK
  PROVE  /\ Len(words) \in Nat /\ DOMAIN words = 1..Len(words)
         /\ words # <<>> => 1 \in DOMAIN words /\ Len(words) \in DOMAIN words
         /\ \A w \in DOMAIN words :
              /\ words[w].start \in Int /\ words[w].end \in Int /\ words[w].items \in Seq(Nat)
              /\ words[w] = [start |-> words[w].start, end |-> words[w].end, items |-> words[w].items]
         /\ Len(segments) \in Nat /\ DOMAIN segments = 1..Len(segments)
         /\ \A s \in DOMAIN segments :
              /\ segments[s].start \in Int /\ segments[s].end \in Int
              /\ segments[s].words \in SUBSET Nat
<1>1. words \in Seq(WordType) /\ segments \in Seq(SegmentType)
      BY DEF MapTypeOK
<1>2. \A w \in 1..Len(words) : words[w] \in WordType
      BY <1>1
<1>3. \A s \in 1..Len(segments) : segments[s] \in SegmentType
      BY <1>1
<1>4. \A w \in 1..Len(words) :
        /\ words[w].start \in Int /\ words[w].end \in Int /\ words[w].items \in Seq(Nat)
        /\ words[w] = [start |-> words[w].start, end |-> words[w].end, items |-> words[w].items]
      BY <1>2 DEF WordType
<1>5. \A s \in 1..Len(segments) :
        /\ segments[s].start \in Int /\ segments[s].end \in Int
        /\ segments[s].words \in SUBSET Nat
      BY <1>3 DEF SegmentType
<1>6. /\ Len(words) \in Nat /\ DOMAIN words = 1..Len(words)
      /\ words # <<>> => 1 \in DOMAIN words /\ Len(words) \in DOMAIN words
      BY <1>1
<1>7. Len(segments) \in Nat /\ DOMAIN segments = 1..Len(segments)
      BY <1>1
<1> QED BY <1>4, <1>5, <1>6, <1>7

(* A set of words has a first and a last one.                              *)
LEMMA Ends ==
  ASSUME MapTypeOK, NEW S, S \subseteq DOMAIN words, S # {}
  PROVE  /\ LeastOf(S) \in S /\ \A w \in S : LeastOf(S) <= w
         /\ GreatestOf(S) \in S /\ \A w \in S : w <= GreatestOf(S)
         /\ Len(words) \in DOMAIN words /\ 1 \in DOMAIN words
<1>1. Len(words) \in Nat /\ DOMAIN words = 1..Len(words) /\ S \subseteq Nat
      BY Shapes
<1>2. LeastOf(S) \in S /\ \A w \in S : LeastOf(S) <= w
      BY <1>1, LeastIsIn
<1>3. GreatestOf(S) \in S /\ \A w \in S : w <= GreatestOf(S)
      BY <1>1, GreatestIsIn
<1>4. Len(words) \in DOMAIN words /\ 1 \in DOMAIN words
      BY <1>1
<1> QED BY <1>2, <1>3, <1>4

LEMMA MapTypeStep == MapTypeOK /\ [MappingNext]_mappingVars => MapTypeOK'
<1> SUFFICES ASSUME MapTypeOK, [MappingNext]_mappingVars PROVE MapTypeOK'
    OBVIOUS
<1> USE DEF Stages
<1>1. /\ next \in Nat \ {0} /\ group \in Nat \ {0}
      /\ pending \in Seq(Nat) /\ words \in Seq(WordType) /\ segments \in Seq(SegmentType)
      BY DEF MapTypeOK, ItemsTaken
<1>2. ASSUME UNCHANGED <<output, next, group>> PROVE ItemsTaken'
      BY <1>2 DEF MapTypeOK, ItemsTaken, Last
<1>3. CASE MapWord
  <2>1. Item.start \in Int /\ Item.end \in Int /\ ItemsTaken'
        BY <1>3, ItemAtHand, ItemMoves DEF MapWord
  <2>2. WordItems \in Seq(Nat)
        BY <1>1 DEF WordItems
  <2>3. [start |-> Ms(Item.start), end |-> Ms(Item.end), items |-> WordItems] \in WordType
        BY <2>1, <2>2, MsType DEF WordType
  <2>4. words' \in Seq(WordType)
        BY <1>1, <1>3, <2>3 DEF MapWord
  <2> QED BY <1>3, <2>1, <2>4 DEF MapWord, MapTypeOK, WordsFirst, Mapped, HasItem
<1>4. CASE MapZeroSpan
  <2>1. pending' \in Seq(Nat)
        BY <1>1, <1>4 DEF MapZeroSpan
  <2> QED BY <1>4, <2>1, ItemMoves DEF MapZeroSpan, MapTypeOK, WordsFirst, Mapped, HasItem
<1>5. CASE MapNativeSegment
  <2>1. Item.start \in Int /\ Item.end \in Int /\ ItemsTaken'
        BY <1>5, ItemAtHand, ItemMoves DEF MapNativeSegment
  <2>2. [start |-> Ms(Item.start), end |-> Ms(Item.end), words |-> {}] \in SegmentType
        BY <2>1, MsType DEF SegmentType
  <2>3. segments' \in Seq(SegmentType)
        BY <1>1, <1>5, <2>2 DEF MapNativeSegment
  <2> QED BY <1>5, <2>1, <2>3 DEF MapNativeSegment, MapTypeOK, WordsFirst, Mapped, HasItem
<1>6. CASE RejectItem \/ GroupsDone \/ WordsDone \/ ValidateDocument
  <2>1. ItemsTaken' /\ UNCHANGED <<output, next, group, pending, words, segments>> /\ stage' \in Stages
        BY <1>2, <1>6 DEF RejectItem, GroupsDone, WordsDone, ValidateDocument
  <2>2. CASE RejectItem \/ GroupsDone \/ ValidateDocument
    <3>1. WordsFirst'
          BY <2>1, <2>2 DEF RejectItem, GroupsDone, ValidateDocument, MapTypeOK, WordsFirst, Mapped, HasItem
    <3> QED BY <2>1, <3>1 DEF MapTypeOK
  <2>3. CASE WordsDone
    <3>1. next = Len(output.items) + 1
          BY <1>1, <2>3, OutputTypes DEF WordsDone, MapTypeOK, ItemsTaken
    <3>2. WordsFirst'
          BY <2>1, <2>3, <3>1 DEF WordsDone, MapTypeOK, WordsFirst, Mapped
    <3> QED BY <2>1, <3>2 DEF MapTypeOK
  <2> QED BY <1>6, <2>2, <2>3
<1>7. GroupWords \in SUBSET Nat /\ GroupWords \subseteq DOMAIN words
      BY <1>1 DEF GroupWords
<1>8. CASE CloseSegment
  <2>1. CASE stage' = "rejected" /\ UNCHANGED <<group, segments>>
        BY <1>2, <1>8, <2>1 DEF CloseSegment, MapTypeOK, WordsFirst, Mapped, GroupDone
  <2>2. CASE ~(stage' = "rejected" /\ UNCHANGED <<group, segments>>)
    <3> DEFINE raw == output.groups[group]
    <3>1. /\ segments' = Append(segments, [start |-> Ms(raw.start), end |-> Ms(raw.end), words |-> GroupWords])
          /\ group' = group + 1 /\ stage' = stage
          BY <1>8, <2>2 DEF CloseSegment
    <3>2. ItemsTaken' /\ group \in 1..Len(output.groups)
          BY <1>8, <3>1, GroupMoves DEF CloseSegment
    <3>3. raw.start \in Int /\ raw.end \in Int
          BY <3>2, OutputTypes DEF MapTypeOK
    <3>4. [start |-> Ms(raw.start), end |-> Ms(raw.end), words |-> GroupWords] \in SegmentType
      <4> HIDE DEF raw
      <4> QED BY <1>7, <3>3, MsType DEF SegmentType
    <3>5. segments' \in Seq(SegmentType)
      <4> HIDE DEF raw
      <4> QED BY <1>1, <3>1, <3>4
    <3> QED BY <1>8, <3>1, <3>2, <3>5 DEF CloseSegment, MapTypeOK, WordsFirst, Mapped, GroupDone
  <2> QED BY <2>1, <2>2
<1>9. CASE CloseAligned
  <2>1. CASE stage' = "rejected" /\ UNCHANGED <<group, pending, words, segments>>
        BY <1>2, <1>9, <2>1 DEF CloseAligned, MapTypeOK, WordsFirst, Mapped, GroupDone
  <2>2. CASE ~(stage' = "rejected" /\ UNCHANGED <<group, pending, words, segments>>)
    <3>1. /\ GroupWords # {}
          /\ segments' = Append(segments, [start |-> words[LeastOf(GroupWords)].start,
                                           end   |-> words[Len(words)].end, words |-> GroupWords])
          /\ words' = [words EXCEPT ![Len(words)].items = @ \o pending]
          /\ pending' = <<>> /\ group' = group + 1 /\ stage' = stage
          BY <1>9, <2>2 DEF CloseAligned
    <3>2. LeastOf(GroupWords) \in DOMAIN words /\ Len(words) \in DOMAIN words
          BY <1>7, <3>1, Ends
    <3>3. words[Len(words)] \in WordType /\ words[LeastOf(GroupWords)] \in WordType
          BY <1>1, <3>2
    <3>4. [start |-> words[LeastOf(GroupWords)].start, end |-> words[Len(words)].end,
           words |-> GroupWords] \in SegmentType
          BY <1>7, <3>3 DEF WordType, SegmentType
    <3>5. segments' \in Seq(SegmentType)
          BY <1>1, <3>1, <3>4
    <3>6. [words[Len(words)] EXCEPT !.items = @ \o pending] \in WordType
      <4>1. words[Len(words)].items \in Seq(Nat)
            BY <3>2, Shapes
      <4>2. words[Len(words)].items \o pending \in Seq(Nat)
            BY <1>1, <4>1
      <4> QED BY <3>3, <4>2 DEF WordType
    <3>7. words' \in Seq(WordType)
          BY <1>1, <3>1, <3>2, <3>6
    <3>8. pending' \in Seq(Nat)
          BY <3>1
    <3> QED BY <1>9, <3>1, <3>5, <3>7, <3>8, GroupMoves DEF CloseAligned, MapTypeOK, WordsFirst, Mapped, GroupDone
  <2> QED BY <2>1, <2>2
<1>10. CASE CloseNative
       BY <1>10, GroupMoves DEF CloseNative, MapTypeOK, WordsFirst, Mapped, GroupDone
<1>11. ASSUME Aggregate, words # <<>> PROVE segments' \in Seq(SegmentType) /\ stage' = "document"
  <2>1. 1 \in DOMAIN words /\ Len(words) \in DOMAIN words /\ DOMAIN words \in SUBSET Nat
        BY <1>11, Shapes
  <2>2. [start |-> words[1].start, end |-> words[Len(words)].end, words |-> DOMAIN words] \in SegmentType
        BY <2>1, Shapes DEF SegmentType
  <2> QED BY <1>11, <2>2 DEF Aggregate
<1>12. ASSUME stage = "segments" PROVE output.provider = Nemo /\ words # <<>>
       BY <1>12 DEF MapTypeOK, WordsFirst, Mapped
<1>13. ASSUME output.provider = Nemo, UNCHANGED <<output, next>>, group' \in Nat \ {0}
       PROVE  ItemsTaken'
       BY <1>13 DEF MapTypeOK, ItemsTaken
<1>14. CASE SelectSegment
  <2> DEFINE raw == output.groups[group]
  <2>1. /\ output.provider = Nemo /\ words # <<>> /\ UNCHANGED <<output, next, pending, words>>
        /\ group' \in {group, group + 1} /\ group \in 1..Len(output.groups)
        BY <1>1, <1>12, <1>14, OutputTypes DEF SelectSegment, MapTypeOK
  <2>2. ItemsTaken'
        BY <1>1, <1>13, <2>1
  <2>3. raw.start \in Int /\ raw.end \in Int
        BY <2>1, OutputTypes DEF MapTypeOK
  <2> HIDE DEF raw
  <2>4. \/ segments' = segments /\ stage' = "rejected"
        \/ Selected(raw) # {} /\ segments' = Append(segments, Widened(raw)) /\ stage' = stage
        \/ Aggregate
        BY <1>14 DEF SelectSegment, raw
  <2>5. ASSUME Selected(raw) # {} PROVE Widened(raw) \in SegmentType
    <3>1. Selected(raw) \subseteq DOMAIN words /\ Selected(raw) \in SUBSET Nat
          BY Shapes DEF Selected, Remaining
    <3>2. LeastOf(Selected(raw)) \in DOMAIN words /\ GreatestOf(Selected(raw)) \in DOMAIN words
          BY <2>5, <3>1, Ends
    <3>3. /\ words[LeastOf(Selected(raw))].start \in Int /\ words[GreatestOf(Selected(raw))].end \in Int
          /\ Ms(raw.start) \in Int /\ Ms(raw.end) \in Int
          BY <2>3, <3>2, Shapes, MsType
    <3> QED BY <3>1, <3>3 DEF Widened, SegmentType
  <2>6. segments' \in Seq(SegmentType) /\ stage' \in Stages
    <3>1. CASE segments' = segments /\ stage' = "rejected"
          BY <1>1, <3>1
    <3>2. CASE Selected(raw) # {} /\ segments' = Append(segments, Widened(raw)) /\ stage' = stage
          BY <1>1, <2>5, <3>2 DEF MapTypeOK
    <3>3. CASE Aggregate
          BY <1>11, <2>1, <3>3
    <3> QED BY <2>4, <3>1, <3>2, <3>3
  <2>7. WordsFirst'
        BY <1>14, <2>1 DEF MapTypeOK, WordsFirst, Mapped, SelectSegment
  <2> QED BY <2>1, <2>2, <2>6, <2>7 DEF MapTypeOK
<1>15. CASE SegmentsDone
  <2>1. output.provider = Nemo /\ words # <<>> /\ UNCHANGED <<output, next, group, pending, words>>
        BY <1>12, <1>15 DEF SegmentsDone
  <2>2. segments' \in Seq(SegmentType) /\ stage' = "document"
        BY <1>1, <1>11, <1>15, <2>1 DEF SegmentsDone
  <2>3. WordsFirst'
        BY <1>15, <2>1, <2>2 DEF MapTypeOK, WordsFirst, Mapped, SegmentsDone
  <2> QED BY <1>2, <2>1, <2>2, <2>3 DEF MapTypeOK
<1>16. CASE UNCHANGED mappingVars
       BY <1>2, <1>16 DEF mappingVars, MapTypeOK, WordsFirst, Mapped
<1> QED BY <1>3, <1>4, <1>5, <1>6, <1>8, <1>9, <1>10, <1>14, <1>15, <1>16 DEF MappingNext

-----------------------------------------------------------------------------
(* The order of the items *)

First(w) == words[w].items[1]

(* Words hold items that were taken, in order; what waits for a time comes *)
(* after them.                                                             *)
InOrder ==
  /\ \A w \in DOMAIN words :
       /\ words[w].items # <<>>
       /\ \A j \in DOMAIN words[w].items : words[w].items[j] < next
  /\ \A w, v \in DOMAIN words : \A j \in DOMAIN words[w].items, k \in DOMAIN words[v].items :
       w < v \/ (w = v /\ j < k) => words[w].items[j] < words[v].items[k]
  /\ \A k \in DOMAIN pending :
       /\ pending[k] < next
       /\ \A j \in DOMAIN pending : j < k => pending[j] < pending[k]
       /\ \A w \in DOMAIN words : \A j \in DOMAIN words[w].items : words[w].items[j] < pending[k]

(* What MapWord does to the words.                                         *)
LEMMA NewWord ==
  ASSUME MapTypeOK, MapWord
  PROVE  /\ Len(words) + 1 \notin DOMAIN words
         /\ DOMAIN words' = DOMAIN words \cup {Len(words) + 1}
         /\ \A w \in DOMAIN words : words'[w] = words[w] /\ w < Len(words) + 1
         /\ words'[Len(words) + 1].items = Append(pending, next)
         /\ words # <<>> => 1 \in DOMAIN words
         /\ words' # <<>>
<1>1. words \in Seq(WordType)
      BY DEF MapTypeOK
<1>2. words' = Append(words, [start |-> Ms(Item.start), end |-> Ms(Item.end), items |-> WordItems])
      BY DEF MapWord
<1>3. /\ Len(words) \in Nat /\ DOMAIN words = 1..Len(words)
      /\ DOMAIN words' = 1..(Len(words) + 1)
      /\ \A w \in 1..Len(words) : words'[w] = words[w]
      /\ words'[Len(words) + 1] = [start |-> Ms(Item.start), end |-> Ms(Item.end), items |-> WordItems]
  <2> DEFINE word == [start |-> Ms(Item.start), end |-> Ms(Item.end), items |-> WordItems]
  <2> HIDE DEF word
  <2>1. words' = Append(words, word)
        BY <1>2 DEF word
  <2>2. /\ Len(words) \in Nat /\ DOMAIN words = 1..Len(words)
        /\ DOMAIN words' = 1..(Len(words) + 1)
        /\ \A w \in 1..Len(words) : words'[w] = words[w]
        /\ words'[Len(words) + 1] = word
        BY <1>1, <2>1
  <2> QED BY <2>2 DEF word
<1>4. words'[Len(words) + 1].items = Append(pending, next)
      BY <1>3 DEF WordItems
<1>5. DOMAIN words' = DOMAIN words \cup {Len(words) + 1}
      BY <1>3
<1>6. words' # <<>>
  <2>1. Len(words) + 1 \in DOMAIN words'
        BY <1>5
  <2> QED BY <2>1
<1> QED BY <1>1, <1>3, <1>4, <1>5, <1>6

(* What CloseAligned does to the words, unless the result is refused.      *)
Closed == CloseAligned /\ stage' = stage

LEMMA LongerWord ==
  ASSUME MapTypeOK, Closed
  PROVE  /\ Len(words) \in DOMAIN words /\ DOMAIN words' = DOMAIN words
         /\ Len(words') = Len(words)
         /\ \A w \in DOMAIN words :
              /\ w # Len(words) => words'[w] = words[w]
              /\ words'[w].start = words[w].start /\ words'[w].end = words[w].end
         /\ words'[Len(words)].items = words[Len(words)].items \o pending
         /\ GroupWords # {} /\ pending' = <<>> /\ group' = group + 1
         /\ segments' = Append(segments, [start |-> words[LeastOf(GroupWords)].start,
                                          end   |-> words[Len(words)].end,
                                          words |-> GroupWords])
<1>1. /\ GroupWords # {} /\ pending' = <<>> /\ group' = group + 1
      /\ words' = [words EXCEPT ![Len(words)].items = @ \o pending]
      /\ segments' = Append(segments, [start |-> words[LeastOf(GroupWords)].start,
                                       end   |-> words[Len(words)].end,
                                       words |-> GroupWords])
      BY DEF Closed, CloseAligned, GroupDone
<1>2. Len(words) \in DOMAIN words
      BY <1>1, Ends DEF GroupWords
<1>3. DOMAIN words' = DOMAIN words /\ Len(words') = Len(words)
      BY <1>1, Shapes
<1>4. \A w \in DOMAIN words : w # Len(words) => words'[w] = words[w]
      BY <1>1
<1>5. /\ words'[Len(words)].items = words[Len(words)].items \o pending
      /\ words'[Len(words)].start = words[Len(words)].start
      /\ words'[Len(words)].end = words[Len(words)].end
  <2> DEFINE last == words[Len(words)]
  <2>1. words'[Len(words)] = [last EXCEPT !.items = @ \o pending]
        BY <1>1, <1>2
  <2>2. last = [start |-> last.start, end |-> last.end, items |-> last.items]
        BY <1>2, Shapes
  <2> HIDE DEF last
  <2>3. ASSUME NEW s, NEW e, NEW i, NEW l, l = [start |-> s, end |-> e, items |-> i]
        PROVE  /\ [l EXCEPT !.items = @ \o pending].items = i \o pending
               /\ [l EXCEPT !.items = @ \o pending].start = s
               /\ [l EXCEPT !.items = @ \o pending].end = e
        BY <2>3
  <2>4. /\ words'[Len(words)].items = last.items \o pending
        /\ words'[Len(words)].start = last.start
        /\ words'[Len(words)].end = last.end
        BY <2>1, <2>2, <2>3
  <2> QED BY <2>4 DEF last
<1> QED BY <1>1, <1>2, <1>3, <1>4, <1>5

LEMMA Unlengthened ==
  ASSUME MappingNext, ~MapWord, ~Closed
  PROVE  UNCHANGED words
BY DEF MappingNext, MapZeroSpan, MapNativeSegment, RejectItem, CloseSegment, CloseAligned,
       CloseNative, GroupsDone, WordsDone, SelectSegment, SegmentsDone, ValidateDocument, Closed

LEMMA NextGrows ==
  ASSUME MapTypeOK, [MappingNext]_mappingVars
  PROVE  next' \in {next, next + 1}
BY DEF MappingNext, MapWord, MapZeroSpan, MapNativeSegment, RejectItem, CloseSegment, CloseAligned,
       CloseNative, GroupsDone, WordsDone, SelectSegment, SegmentsDone, ValidateDocument, mappingVars

LEMMA InOrderStep ==
  ASSUME MapTypeOK, InOrder, [MappingNext]_mappingVars
  PROVE  InOrder'
<1>1. /\ next \in Nat /\ next' \in {next, next + 1} /\ pending \in Seq(Nat)
      /\ Len(pending) \in Nat /\ DOMAIN pending = 1..Len(pending)
      /\ \A k \in DOMAIN pending : pending[k] \in Nat
      BY NextGrows DEF MapTypeOK, ItemsTaken
<1>2. \A w \in DOMAIN words :
        /\ words[w].items \in Seq(Nat) /\ DOMAIN words[w].items = 1..Len(words[w].items)
        /\ \A j \in DOMAIN words[w].items : words[w].items[j] \in Nat
      BY Shapes
<1>3. ASSUME UNCHANGED words, UNCHANGED pending
      PROVE  InOrder'
      BY <1>1, <1>2, <1>3 DEF InOrder
<1>4. CASE MapWord
  <2> DEFINE new == Len(words) + 1
             items == Append(pending, next)
  <2>1. /\ next' = next + 1 /\ pending' = <<>> /\ new \notin DOMAIN words
        /\ DOMAIN words' = DOMAIN words \cup {new}
        /\ \A w \in DOMAIN words : words'[w] = words[w] /\ w < new
        /\ words'[new].items = items
        BY <1>4, NewWord DEF MapWord
  <2>2. /\ DOMAIN items = 1..(Len(pending) + 1)
        /\ \A j \in 1..Len(pending) : items[j] = pending[j]
        /\ items[Len(pending) + 1] = next
        /\ items # <<>>
    <3>1. pending \in Seq(Nat) /\ next \in Nat
          BY <1>1
    <3>2. items \in Seq(Nat) /\ Len(items) = Len(pending) + 1
          BY <3>1
    <3>3. /\ \A j \in 1..Len(pending) : items[j] = pending[j]
          /\ items[Len(pending) + 1] = next
          BY <3>1
    <3> HIDE DEF items
    <3>4. DOMAIN items = 1..Len(items) /\ Len(pending) \in Nat
          BY <3>1, <3>2
    <3>5. items # <<>>
          BY <3>2, <3>4
    <3> QED BY <3>2, <3>3, <3>4, <3>5
  <2>3. \A j, k \in DOMAIN items : j < k => items[j] < items[k]
        BY <1>1, <2>2 DEF InOrder
  <2>4. \A j \in DOMAIN items : items[j] < next'
        BY <1>1, <2>1, <2>2 DEF InOrder
  <2>5. \A w \in DOMAIN words : \A j \in DOMAIN words[w].items, k \in DOMAIN items :
          words[w].items[j] < items[k]
        BY <1>1, <2>2 DEF InOrder
  <2> HIDE DEF items, new
  <2>6. \A w \in DOMAIN words' :
          /\ words'[w].items # <<>>
          /\ \A j \in DOMAIN words'[w].items : words'[w].items[j] < next'
    <3> SUFFICES ASSUME NEW w \in DOMAIN words'
                 PROVE  /\ words'[w].items # <<>>
                        /\ \A j \in DOMAIN words'[w].items : words'[w].items[j] < next'
        OBVIOUS
    <3>1. CASE w = new
      <4>1. words'[w].items = items
            BY <2>1, <3>1
      <4>2. items # <<>>
            BY <2>2
      <4> QED BY <2>4, <4>1, <4>2
    <3>2. CASE w \in DOMAIN words
          BY <1>1, <1>2, <2>1, <3>2 DEF InOrder
    <3> QED BY <2>1, <3>1, <3>2
  <2>7. \A w, v \in DOMAIN words' :
          \A j \in DOMAIN words'[w].items, k \in DOMAIN words'[v].items :
            w < v \/ (w = v /\ j < k) => words'[w].items[j] < words'[v].items[k]
    <3> SUFFICES ASSUME NEW w \in DOMAIN words', NEW v \in DOMAIN words',
                        NEW j \in DOMAIN words'[w].items, NEW k \in DOMAIN words'[v].items,
                        w < v \/ (w = v /\ j < k)
                 PROVE  words'[w].items[j] < words'[v].items[k]
        OBVIOUS
    <3>0. DOMAIN words = 1..Len(words) /\ Len(words) \in Nat
          BY Shapes
    <3>1. CASE w \in DOMAIN words /\ v \in DOMAIN words
          BY <2>1, <3>1 DEF InOrder
    <3>2. CASE w \in DOMAIN words /\ v = new
          BY <2>1, <2>5, <3>2
    <3>3. CASE w = new /\ v = new
      <4>1. words'[w].items = items /\ words'[v].items = items
            BY <2>1, <3>3
      <4>2. j < k
            BY <3>0, <3>3 DEF new
      <4> QED BY <2>3, <4>1, <4>2
    <3>4. ~(w = new /\ v \in DOMAIN words)
          BY <2>1, <3>0 DEF new
    <3> QED BY <2>1, <3>1, <3>2, <3>3, <3>4
  <2> QED BY <2>1, <2>6, <2>7 DEF InOrder
<1>5. CASE MapZeroSpan
  <2>1. pending' = Append(pending, next) /\ next' = next + 1 /\ words' = words
        BY <1>5 DEF MapZeroSpan
  <2>2. /\ DOMAIN pending' = 1..(Len(pending) + 1)
        /\ \A j \in 1..Len(pending) : pending'[j] = pending[j]
        /\ pending'[Len(pending) + 1] = next
        BY <1>1, <2>1
  <2>3. \A k \in DOMAIN pending' :
          /\ pending'[k] < next'
          /\ \A j \in DOMAIN pending' : j < k => pending'[j] < pending'[k]
          /\ \A w \in DOMAIN words : \A j \in DOMAIN words[w].items : words[w].items[j] < pending'[k]
        BY <1>1, <2>1, <2>2 DEF InOrder
  <2> QED BY <1>1, <1>2, <2>1, <2>3 DEF InOrder
<1>6. CASE Closed
  <2> DEFINE last == Len(words)
             items == words[last].items \o pending
  <2>1. /\ last \in DOMAIN words /\ DOMAIN words' = DOMAIN words
        /\ \A w \in DOMAIN words : w # last => words'[w] = words[w]
        /\ words'[last].items = items /\ pending' = <<>>
        BY <1>6, LongerWord
  <2>2. next' = next
        BY <1>6 DEF Closed, CloseAligned
  <2> DEFINE n == Len(words[last].items)
  <2>3. /\ n \in Nat /\ DOMAIN words[last].items = 1..n
        /\ DOMAIN items = 1..(n + Len(pending))
        /\ \A j \in 1..n : items[j] = words[last].items[j]
        /\ \A j \in (n + 1)..(n + Len(pending)) : items[j] = pending[j - n] /\ j - n \in 1..Len(pending)
        BY <1>1, <1>2, <2>1
  <2>4. items # <<>>
        BY <1>1, <2>1, <2>3 DEF InOrder
  <2>5. \A j \in DOMAIN items :
          \/ j \in DOMAIN words[last].items /\ items[j] = words[last].items[j]
          \/ j - n \in DOMAIN pending /\ items[j] = pending[j - n] /\ j > n
    <3> HIDE DEF items
    <3> SUFFICES ASSUME NEW j \in DOMAIN items
                 PROVE  \/ j \in DOMAIN words[last].items /\ items[j] = words[last].items[j]
                        \/ j - n \in DOMAIN pending /\ items[j] = pending[j - n] /\ j > n
        OBVIOUS
    <3> HIDE DEF last, n
    <3>1. CASE j \in 1..n
          BY <2>3, <3>1
    <3>2. CASE j \in (n + 1)..(n + Len(pending))
          BY <1>1, <2>3, <3>2
    <3> QED BY <1>1, <2>3, <3>1, <3>2
  <2>6. \A j \in DOMAIN items : items[j] < next
        BY <2>1, <2>5 DEF InOrder
  <2>7. \A j, k \in DOMAIN items : j < k => items[j] < items[k]
    <3> HIDE DEF items, last, n
    <3> SUFFICES ASSUME NEW j \in DOMAIN items, NEW k \in DOMAIN items, j < k
                 PROVE  items[j] < items[k]
        OBVIOUS
    <3>1. j \in Int /\ k \in Int
          BY <1>1, <2>3
    <3>2. CASE j \in DOMAIN words[last].items /\ k \in DOMAIN words[last].items
          BY <2>1, <2>3, <3>2 DEF InOrder
    <3>3. CASE j \in DOMAIN words[last].items /\ k > n
      <4>1. k \in (n + 1)..(n + Len(pending))
            BY <1>1, <2>3, <3>1, <3>3
      <4>2. k - n \in DOMAIN pending /\ items[k] = pending[k - n]
            BY <1>1, <2>3, <4>1
      <4>3. items[j] = words[last].items[j]
            BY <2>3, <3>3
      <4> QED BY <2>1, <3>3, <4>2, <4>3 DEF InOrder
    <3>4. CASE j > n
      <4>1. /\ j - n \in DOMAIN pending /\ items[j] = pending[j - n]
            /\ k - n \in DOMAIN pending /\ items[k] = pending[k - n] /\ j - n < k - n
        <5>1. j \in (n + 1)..(n + Len(pending)) /\ k \in (n + 1)..(n + Len(pending))
              BY <1>1, <2>3, <3>1, <3>4
        <5> QED BY <1>1, <2>3, <3>1, <5>1
      <4> QED BY <4>1 DEF InOrder
    <3> QED BY <1>1, <2>3, <3>1, <3>2, <3>3, <3>4
  <2>8. \A w \in DOMAIN words : w < last =>
          \A j \in DOMAIN words[w].items, k \in DOMAIN items : words[w].items[j] < items[k]
    <3> HIDE DEF items, last
    <3> QED BY <2>1, <2>5 DEF InOrder
  <2>9. DOMAIN words = 1..last /\ last \in Nat
        BY Shapes
  <2> HIDE DEF items, last, n
  <2>10. \A w \in DOMAIN words' :
          /\ words'[w].items # <<>>
          /\ \A j \in DOMAIN words'[w].items : words'[w].items[j] < next'
         BY <2>1, <2>2, <2>4, <2>6 DEF InOrder
  <2>11. \A w, v \in DOMAIN words' :
          \A j \in DOMAIN words'[w].items, k \in DOMAIN words'[v].items :
            w < v \/ (w = v /\ j < k) => words'[w].items[j] < words'[v].items[k]
    <3> SUFFICES ASSUME NEW w \in DOMAIN words', NEW v \in DOMAIN words',
                        NEW j \in DOMAIN words'[w].items, NEW k \in DOMAIN words'[v].items,
                        w < v \/ (w = v /\ j < k)
                 PROVE  words'[w].items[j] < words'[v].items[k]
        OBVIOUS
    <3>1. CASE w # last /\ v # last
          BY <2>1, <3>1 DEF InOrder
    <3>2. CASE w # last /\ v = last
          BY <2>1, <2>8, <3>2
    <3>3. CASE w = last /\ v = last
          BY <2>1, <2>7, <2>9, <3>3
    <3>4. ~(w = last /\ v # last)
          BY <2>1, <2>9
    <3> QED BY <3>1, <3>2, <3>3, <3>4
  <2> QED BY <2>1, <2>10, <2>11 DEF InOrder
<1>7. CASE MappingNext /\ ~MapWord /\ ~MapZeroSpan /\ ~Closed
  <2>1. UNCHANGED words
        BY <1>7, Unlengthened
  <2>2. UNCHANGED pending
        BY <1>7 DEF MappingNext, MapNativeSegment, RejectItem, CloseSegment, CloseAligned,
           CloseNative, GroupsDone, WordsDone, SelectSegment, SegmentsDone, ValidateDocument, Closed
  <2> QED BY <1>3, <2>1, <2>2
<1>8. CASE UNCHANGED mappingVars
      BY <1>3, <1>8 DEF mappingVars
<1> QED BY <1>4, <1>5, <1>6, <1>7, <1>8

-----------------------------------------------------------------------------
(* No item is lost *)

Covered(i) == \E w \in DOMAIN words : \E j \in DOMAIN words[w].items : words[w].items[j] = i
Waiting(i) == \E k \in DOMAIN pending : pending[k] = i
Native     == \E s \in DOMAIN segments : segments[s].words = {}

(* An item that was taken is in a word or waits for one; only a result of  *)
(* the forced aligner leaves something waiting.                            *)
NoneLost ==
  /\ ~Native => \A i \in 1..(next - 1) : Covered(i) \/ Waiting(i)
  /\ pending # <<>> =>
       /\ output.provider = Qwen /\ group <= Len(output.groups)
       /\ output.groups[group].aligned
       /\ \A k \in DOMAIN pending : pending[k] > Last(group - 1)

(* Native segments are not mixed with words.                               *)
NotMixed ==
  /\ output.provider = Nemo => ~Native
  /\ Mapped /\ words # <<>> => ~Native

(* The segments of the steps that append one, or make a single one.        *)
LEMMA AppendedSegment ==
  ASSUME MapTypeOK, NEW new, segments' = Append(segments, new)
  PROVE  /\ Len(segments) + 1 \notin DOMAIN segments
         /\ Len(segments') = Len(segments) + 1
         /\ DOMAIN segments' = DOMAIN segments \cup {Len(segments) + 1}
         /\ \A s \in DOMAIN segments : segments'[s] = segments[s] /\ s < Len(segments) + 1
         /\ segments'[Len(segments) + 1] = new
<1>1. segments \in Seq(SegmentType)
      BY DEF MapTypeOK
<1>2. /\ Len(segments) \in Nat /\ DOMAIN segments = 1..Len(segments)
      /\ Len(segments') = Len(segments) + 1
      /\ DOMAIN segments' = 1..(Len(segments) + 1)
      /\ \A s \in 1..Len(segments) : segments'[s] = segments[s]
      /\ segments'[Len(segments) + 1] = new
      BY <1>1
<1> QED BY <1>2

LEMMA NotMixedStep ==
  ASSUME MapTypeOK, NotMixed, [MappingNext]_mappingVars
  PROVE  NotMixed'
<1>1. ASSUME UNCHANGED <<output, words, segments>>, Mapped' => Mapped
      PROVE  NotMixed'
      BY <1>1 DEF NotMixed, Native
<1>2. CASE MapWord \/ CloseSegment \/ CloseAligned
  <2>1. stage = "items" /\ stage' \in {stage, "rejected"} /\ output' = output
        BY <1>2 DEF MapWord, CloseSegment, CloseAligned, HasItem, GroupDone
  <2>2. output.provider = Nemo => segments' = segments
        BY <1>2 DEF MapWord, CloseSegment, CloseAligned, GroupDone
  <2> QED BY <2>1, <2>2 DEF NotMixed, Native, Mapped
<1>3. CASE MapNativeSegment
  <2>1. stage' = "items" /\ output' = output /\ output.provider # Nemo
        BY <1>3 DEF MapNativeSegment, HasItem, Aligned, Nemo, Qwen
  <2> QED BY <2>1 DEF NotMixed, Mapped
<1>4. CASE MapZeroSpan \/ RejectItem \/ CloseNative \/ WordsDone \/ ValidateDocument
  <2>1. UNCHANGED <<output, words, segments>> /\ (Mapped' => Mapped)
        BY <1>4 DEF MapZeroSpan, RejectItem, CloseNative, WordsDone, ValidateDocument, Mapped,
           HasItem, GroupDone
  <2> QED BY <1>1, <2>1
<1>5. CASE GroupsDone
  <2>1. Mapped' => ~Mixed
        BY <1>5 DEF GroupsDone, Mapped
  <2> QED BY <1>5, <2>1 DEF GroupsDone, NotMixed, Native, Mixed
<1>6. ASSUME stage = "segments" PROVE ~Native /\ words # <<>> /\ output.provider = Nemo
      BY <1>6 DEF MapTypeOK, WordsFirst, NotMixed
<1>7. ASSUME Aggregate, words # <<>> PROVE ~Native'
  <2>1. DOMAIN words # {}
        BY <1>7, Shapes
  <2> QED BY <1>7, <2>1 DEF Aggregate, Native
<1>8. CASE SelectSegment
  <2> DEFINE raw == output.groups[group]
  <2>1. \/ segments' = segments
        \/ Selected(raw) # {} /\ segments' = Append(segments, Widened(raw))
        \/ Aggregate
        BY <1>8 DEF SelectSegment
  <2>2. (Widened(raw)).words = Selected(raw)
        BY DEF Widened
  <2> HIDE DEF raw
  <2>3. ASSUME Selected(raw) # {}, segments' = Append(segments, Widened(raw)) PROVE ~Native'
        BY <1>6, <1>8, <2>2, <2>3, AppendedSegment DEF Native, SelectSegment
  <2>4. ~Native'
        BY <1>6, <1>7, <1>8, <2>1, <2>3 DEF SelectSegment, Native
  <2> QED BY <2>4 DEF NotMixed
<1>9. CASE SegmentsDone
  <2>1. ~Native'
        BY <1>6, <1>7, <1>9 DEF SegmentsDone, Native
  <2> QED BY <2>1 DEF NotMixed
<1>10. CASE UNCHANGED mappingVars
       BY <1>1, <1>10 DEF mappingVars, Mapped
<1> QED BY <1>2, <1>3, <1>4, <1>5, <1>8, <1>9, <1>10 DEF MappingNext

(* What is in a word stays in it, and an item that is mapped is in a word  *)
(* or waits.                                                               *)
LEMMA NoneLostStep ==
  ASSUME MapTypeOK, InOrder, NotMixed, NoneLost, [MappingNext]_mappingVars
  PROVE  NoneLost'
<1>1. /\ next \in Nat \ {0} /\ group \in Nat \ {0} /\ pending \in Seq(Nat)
      BY DEF MapTypeOK, ItemsTaken
<1>2. ASSUME UNCHANGED <<words, pending, next>>, Native => Native',
             UNCHANGED <<output, group>> \/ pending = <<>>
      PROVE  NoneLost'
      BY <1>2 DEF NoneLost, Covered, Waiting, Last
<1>3. CASE MapWord
  <2> DEFINE new == Len(words) + 1
             items == Append(pending, next)
  <2>1. /\ next' = next + 1 /\ pending' = <<>>
        /\ new \in DOMAIN words'
        /\ \A w \in DOMAIN words : w \in DOMAIN words' /\ words'[w] = words[w]
        /\ words'[new].items = items
        BY <1>3, NewWord DEF MapWord
  <2>2. Native' <=> Native
        BY <1>3 DEF MapWord, Native
  <2>3. /\ \A k \in DOMAIN pending : k \in DOMAIN items /\ items[k] = pending[k]
        /\ Len(pending) + 1 \in DOMAIN items /\ items[Len(pending) + 1] = next
        BY <1>1
  <2> HIDE DEF items, new
  <2>4. ASSUME NEW i, Covered(i) PROVE Covered(i)'
    <3>0. PICK w \in DOMAIN words : \E j \in DOMAIN words[w].items : words[w].items[j] = i
          BY <2>4 DEF Covered
    <3>1. PICK j \in DOMAIN words[w].items : words[w].items[j] = i
          BY <3>0
    <3>2. w \in DOMAIN words' /\ j \in DOMAIN words'[w].items /\ words'[w].items[j] = i
          BY <2>1, <3>1
    <3> QED BY <3>2 DEF Covered
  <2>5. ASSUME NEW i, NEW j \in DOMAIN items, items[j] = i PROVE Covered(i)'
    <3>1. new \in DOMAIN words' /\ j \in DOMAIN words'[new].items /\ words'[new].items[j] = i
          BY <2>1, <2>5
    <3> QED BY <3>1 DEF Covered
  <2>6. ASSUME ~Native', NEW i \in 1..(next' - 1) PROVE Covered(i)'
    <3>1. CASE i = next
          BY <2>3, <2>5, <3>1
    <3>2. CASE i \in 1..(next - 1) /\ Covered(i)
          BY <2>4, <3>2
    <3>3. CASE i \in 1..(next - 1) /\ Waiting(i)
          BY <2>3, <2>5, <3>3 DEF Waiting
    <3>4. i = next \/ i \in 1..(next - 1)
          BY <1>1, <2>1, <2>6
    <3> QED BY <2>2, <2>6, <3>1, <3>2, <3>3, <3>4 DEF NoneLost
  <2> QED BY <2>1, <2>6 DEF NoneLost
<1>4. CASE MapZeroSpan
  <2>1. /\ pending' = Append(pending, next) /\ next' = next + 1
        /\ UNCHANGED <<output, group, words, segments>>
        /\ output.provider = Qwen /\ output.groups[group].aligned
        BY <1>4 DEF MapZeroSpan, ZeroSpan, Aligned
  <2>2. group <= Len(output.groups) /\ Last(group - 1) < next /\ Last(group - 1)' = Last(group - 1)
        BY <1>4, <2>1 DEF MapZeroSpan, HasItem, MapTypeOK, ItemsTaken, Nemo, Qwen, Last
  <2>3. /\ \A k \in DOMAIN pending : k \in DOMAIN pending' /\ pending'[k] = pending[k]
        /\ Len(pending) + 1 \in DOMAIN pending' /\ pending'[Len(pending) + 1] = next
        /\ \A k \in DOMAIN pending' : k \in DOMAIN pending \/ k = Len(pending) + 1
        BY <1>1, <2>1
  <2>4. \A k \in DOMAIN pending' : pending'[k] > Last(group - 1)
    <3>1. pending # <<>> => \A k \in DOMAIN pending : pending[k] > Last(group - 1)
          BY DEF NoneLost
    <3>2. \A k \in DOMAIN pending : pending # <<>>
          OBVIOUS
    <3> QED BY <2>2, <2>3, <3>1, <3>2
  <2>5. \A i : Waiting(i) => Waiting(i)'
        BY <2>3 DEF Waiting
  <2>6. ASSUME NEW i, i = next PROVE Waiting(i)'
        BY <2>3, <2>6 DEF Waiting
  <2>7. ASSUME ~Native', NEW i \in 1..(next' - 1) PROVE Covered(i)' \/ Waiting(i)'
    <3>1. i = next \/ i \in 1..(next - 1)
          BY <1>1, <2>1, <2>7
    <3>2. Covered(i)' = Covered(i) /\ Native' = Native
          BY <2>1 DEF Covered, Native
    <3> QED BY <2>5, <2>6, <2>7, <3>1, <3>2 DEF NoneLost
  <2> QED BY <2>1, <2>2, <2>4, <2>7 DEF NoneLost
<1>5. CASE MapNativeSegment
  <2>1. Native'
    <3>1. segments' = Append(segments, [start |-> Ms(Item.start), end |-> Ms(Item.end), words |-> {}])
          BY <1>5 DEF MapNativeSegment
    <3>2. /\ Len(segments) + 1 \in DOMAIN segments'
          /\ segments'[Len(segments) + 1].words = {}
          BY <3>1, AppendedSegment
    <3> QED BY <3>2 DEF Native
  <2>2. pending = <<>>
        BY <1>5 DEF MapNativeSegment, Aligned, NoneLost
  <2> QED BY <1>5, <2>1, <2>2 DEF NoneLost, MapNativeSegment
<1>6. CASE Closed
  <2> DEFINE last == Len(words)
             items == words[last].items \o pending
  <2>1. /\ last \in DOMAIN words /\ DOMAIN words' = DOMAIN words
        /\ \A w \in DOMAIN words : w # last => words'[w] = words[w]
        /\ words'[last].items = items /\ pending' = <<>>
        BY <1>6, LongerWord
  <2>2. next' = next
        BY <1>6 DEF Closed, CloseAligned
  <2> DEFINE n == Len(words[last].items)
  <2>3. /\ \A j \in DOMAIN words[last].items : j \in DOMAIN items /\ items[j] = words[last].items[j]
        /\ \A k \in DOMAIN pending : n + k \in DOMAIN items /\ items[n + k] = pending[k]
    <3>1. words[last].items \in Seq(Nat)
          BY <2>1, Shapes
    <3>2. pending \in Seq(Nat)
          BY <1>1
    <3> HIDE DEF last
    <3>3. \A j \in 1..n : j \in DOMAIN items /\ items[j] = words[last].items[j]
          BY <3>1, <3>2
    <3>4. \A k \in 1..Len(pending) : n + k \in DOMAIN items /\ items[n + k] = pending[k]
          BY <3>1, <3>2
    <3>5. DOMAIN words[last].items = 1..n /\ DOMAIN pending = 1..Len(pending)
          BY <3>1, <3>2
    <3> QED BY <3>3, <3>4, <3>5
  <2> HIDE DEF items, last, n
  <2>4. ASSUME NEW i, Covered(i) PROVE Covered(i)'
    <3>1. PICK w \in DOMAIN words : \E j \in DOMAIN words[w].items : words[w].items[j] = i
          BY <2>4 DEF Covered
    <3>2. PICK j \in DOMAIN words[w].items : words[w].items[j] = i
          BY <3>1
    <3>3. w \in DOMAIN words' /\ j \in DOMAIN words'[w].items /\ words'[w].items[j] = i
      <4>1. CASE w = last
            BY <2>1, <2>3, <3>2, <4>1
      <4>2. CASE w # last
            BY <2>1, <3>2, <4>2
      <4> QED BY <4>1, <4>2
    <3> QED BY <3>3 DEF Covered
  <2>5. ASSUME NEW i, Waiting(i) PROVE Covered(i)'
    <3>1. PICK k \in DOMAIN pending : pending[k] = i
          BY <2>5 DEF Waiting
    <3>2. last \in DOMAIN words' /\ n + k \in DOMAIN words'[last].items /\ words'[last].items[n + k] = i
          BY <2>1, <2>3, <3>1
    <3> QED BY <3>2 DEF Covered
  <2>6. Native => Native'
    <3>1. \A s \in DOMAIN segments : s \in DOMAIN segments' /\ segments'[s] = segments[s]
          BY <1>6, LongerWord, AppendedSegment
    <3> QED BY <3>1 DEF Native
  <2> QED BY <2>1, <2>2, <2>4, <2>5, <2>6 DEF NoneLost
<1>7. CASE CloseSegment \/ CloseNative
  <2>1. pending = <<>>
        BY <1>7 DEF CloseSegment, CloseNative, Aligned, NoneLost, Faster, Qwen
  <2>2. Native => Native'
    <3>1. CASE segments' = segments
          BY <3>1 DEF Native
    <3>2. CASE segments' # segments
      <4>1. PICK new : segments' = Append(segments, new)
            BY <1>7, <3>2 DEF CloseSegment, CloseNative
      <4>2. \A s \in DOMAIN segments : s \in DOMAIN segments' /\ segments'[s] = segments[s]
            BY <4>1, AppendedSegment
      <4> QED BY <4>2 DEF Native
    <3> QED BY <3>1, <3>2
  <2> QED BY <1>2, <1>7, <2>1, <2>2 DEF CloseSegment, CloseNative
<1>8. CASE RejectItem \/ (CloseAligned /\ ~Closed) \/ GroupsDone \/ WordsDone \/ ValidateDocument
  <2>1. UNCHANGED <<output, next, group, pending, words, segments>>
        BY <1>8 DEF RejectItem, CloseAligned, Closed, GroupDone, GroupsDone, WordsDone, ValidateDocument
  <2> QED BY <1>2, <2>1 DEF Native
<1>9. CASE SelectSegment \/ SegmentsDone
  <2>1. /\ output.provider = Nemo /\ UNCHANGED <<output, next, pending, words>>
        BY <1>9 DEF SelectSegment, SegmentsDone, MapTypeOK, WordsFirst
  <2>2. pending = <<>> /\ ~Native
        BY <2>1 DEF NoneLost, NotMixed, Nemo, Qwen
  <2> QED BY <1>2, <2>1, <2>2
<1>10. CASE UNCHANGED mappingVars
       BY <1>2, <1>10 DEF mappingVars, Native
<1> QED BY <1>3, <1>4, <1>5, <1>6, <1>7, <1>8, <1>9, <1>10 DEF MappingNext

-----------------------------------------------------------------------------
(* Groups: a segment of Faster Whisper, a result of Qwen3 *)

SegmentWords == UNION {segments[s].words : s \in DOMAIN segments}
Behind       == {w \in DOMAIN words : First(w) <= Last(group - 1)}
Divided      ==
  \A s, t \in DOMAIN segments : s < t =>
    \A w \in segments[s].words, v \in segments[t].words : w < v

(* The times of an aligned segment are those of its words.                 *)
Exact(s) ==
  s.words # {} =>
    /\ s.start = words[LeastOf(s.words)].start
    /\ s.end = words[GreatestOf(s.words)].end

(* The segments divide the words of the groups behind.                     *)
GroupInv ==
  output.provider # Nemo =>
    /\ SegmentWords = Behind
    /\ Divided
    /\ output.provider = Qwen /\ group <= Len(output.groups) /\ ~output.groups[group].aligned =>
         DOMAIN words = Behind
    /\ output.provider = Qwen => \A s \in DOMAIN segments : Exact(segments[s])

LEMMA FirstItems ==
  ASSUME MapTypeOK, InOrder
  PROVE  /\ \A w \in DOMAIN words :
              1 \in DOMAIN words[w].items /\ First(w) \in Nat /\ First(w) < next
         /\ \A w, v \in DOMAIN words : First(v) > First(w) => w < v
         /\ \A w, v \in DOMAIN words : w < v => First(w) < First(v)
<1>1. \A w \in DOMAIN words :
        1 \in DOMAIN words[w].items /\ First(w) \in Nat /\ First(w) < next
  <2> SUFFICES ASSUME NEW w \in DOMAIN words
               PROVE  1 \in DOMAIN words[w].items /\ First(w) \in Nat /\ First(w) < next
      OBVIOUS
  <2>1. words[w].items \in Seq(Nat) /\ words[w].items # <<>>
        BY Shapes DEF InOrder
  <2>2. 1 \in DOMAIN words[w].items /\ words[w].items[1] \in Nat
        BY <2>1
  <2> QED BY <2>2 DEF First, InOrder
<1>2. \A w, v \in DOMAIN words : w < v => First(w) < First(v)
      BY <1>1 DEF First, InOrder
<1>3. \A w, v \in DOMAIN words : First(v) > First(w) => w < v
  <2> SUFFICES ASSUME NEW w \in DOMAIN words, NEW v \in DOMAIN words, First(v) > First(w)
               PROVE  w < v
      OBVIOUS
  <2>1. w \in Nat /\ v \in Nat /\ First(w) \in Nat /\ First(v) \in Nat
        BY <1>1, Shapes
  <2>2. v < w => First(v) < First(w)
        BY <1>2
  <2> QED BY <2>1, <2>2
<1> QED BY <1>1, <1>2, <1>3

LEMMA LastBefore ==
  ASSUME MapTypeOK, output.provider # Nemo
  PROVE  Last(group - 1) \in Nat
<1>1. group - 1 \in 0..Len(output.groups)
      BY OutputTypes DEF MapTypeOK, ItemsTaken
<1> QED BY <1>1, LastTypes DEF MapTypeOK

(* A word keeps its first item and its times; a new one is of the group at *)
(* hand.                                                                   *)
LEMMA WordsKept ==
  ASSUME MapTypeOK, InOrder, NoneLost, [MappingNext]_mappingVars
  PROVE  /\ \A w \in DOMAIN words :
              /\ w \in DOMAIN words' /\ words'[w].items[1] = words[w].items[1]
              /\ words'[w].start = words[w].start /\ words'[w].end = words[w].end
         /\ \A w \in DOMAIN words' : w \notin DOMAIN words =>
              /\ MapWord
              /\ output.provider # Nemo => ~(words'[w].items[1] <= Last(group - 1))
<1>1. CASE MapWord
  <2>1. /\ DOMAIN words' = DOMAIN words \cup {Len(words) + 1}
        /\ \A w \in DOMAIN words : words'[w] = words[w]
        /\ words'[Len(words) + 1].items = Append(pending, next)
        BY <1>1, NewWord
  <2>2. pending \in Seq(Nat) /\ next \in Nat
        BY DEF MapTypeOK, ItemsTaken
  <2> DEFINE items == Append(pending, next)
  <2>3. items[1] = IF pending = <<>> THEN next ELSE pending[1]
        BY <2>2
  <2>4. pending # <<>> => 1 \in DOMAIN pending
        BY <2>2
  <2> HIDE DEF items
  <2>5. output.provider # Nemo => items[1] > Last(group - 1) /\ items[1] \in Nat
        BY <2>2, <2>3, <2>4 DEF NoneLost, MapTypeOK, ItemsTaken
  <2>6. output.provider # Nemo => ~(items[1] <= Last(group - 1))
        BY <2>5, LastBefore
  <2> QED BY <1>1, <2>1, <2>6 DEF items
<1>2. CASE Closed
  <2>1. /\ Len(words) \in DOMAIN words /\ DOMAIN words' = DOMAIN words
        /\ \A w \in DOMAIN words :
             /\ w # Len(words) => words'[w] = words[w]
             /\ words'[w].start = words[w].start /\ words'[w].end = words[w].end
        /\ words'[Len(words)].items = words[Len(words)].items \o pending
        BY <1>2, LongerWord
  <2>2. words[Len(words)].items \in Seq(Nat) /\ pending \in Seq(Nat) /\ words[Len(words)].items # <<>>
        BY <2>1, Shapes DEF InOrder, MapTypeOK
  <2>3. (words[Len(words)].items \o pending)[1] = words[Len(words)].items[1]
    <3> DEFINE items == words[Len(words)].items
    <3> HIDE DEF items
    <3>1. items \in Seq(Nat) /\ items # <<>> /\ pending \in Seq(Nat)
          BY <2>2 DEF items
    <3>2. (items \o pending)[1] = items[1]
          BY <3>1
    <3> QED BY <3>2 DEF items
  <2> QED BY <2>1, <2>3
<1>3. CASE UNCHANGED words
      BY <1>3
<1> QED BY <1>1, <1>2, <1>3, Unlengthened DEF mappingVars

(* The words of the group that is closed are those not behind yet.         *)
LEMMA GroupsMeet ==
  ASSUME MapTypeOK, InOrder, output.provider # Nemo, GroupDone,
         group' = group + 1, UNCHANGED <<output, next>>
  PROVE  /\ group \in 1..Len(output.groups)
         /\ Behind \cup GroupWords = DOMAIN words /\ Behind \cap GroupWords = {}
         /\ \A w \in DOMAIN words : First(w) <= Last(group)
         /\ \A w \in Behind, v \in GroupWords : w < v
<1>1. /\ group \in 1..Len(output.groups) /\ next = Last(group) + 1
      BY GroupMoves
<1>2. Last(group) \in Nat /\ Last(group - 1) \in Nat /\ Last(group - 1) <= Last(group)
  <2>1. group \in 0..Len(output.groups) /\ group - 1 \in 0..Len(output.groups) /\ group - 1 <= group
        BY <1>1, OutputTypes DEF MapTypeOK
  <2> QED BY <2>1, LastTypes DEF MapTypeOK
<1>3. \A w \in DOMAIN words : First(w) \in Nat /\ First(w) <= Last(group)
      BY <1>1, <1>2, FirstItems
<1>4. GroupWords = {w \in DOMAIN words : First(w) > Last(group - 1)}
      BY DEF GroupWords, First
<1>5. \A w \in Behind, v \in GroupWords : w < v
  <2> SUFFICES ASSUME NEW w \in Behind, NEW v \in GroupWords PROVE w < v
      OBVIOUS
  <2>1. w \in DOMAIN words /\ v \in DOMAIN words /\ First(w) <= Last(group - 1) /\ First(v) > Last(group - 1)
        BY <1>4 DEF Behind
  <2>2. First(v) > First(w)
        BY <1>2, <1>3, <2>1
  <2> QED BY <2>1, <2>2, FirstItems
<1>6. \A w \in DOMAIN words : First(w) > Last(group - 1) \/ First(w) <= Last(group - 1)
      BY <1>2, <1>3
<1>7. \A w \in DOMAIN words : ~(First(w) > Last(group - 1) /\ First(w) <= Last(group - 1))
      BY <1>2, <1>3
<1>8. Behind \cup GroupWords = DOMAIN words /\ Behind \cap GroupWords = {}
      BY <1>4, <1>6, <1>7 DEF Behind
<1> QED BY <1>1, <1>3, <1>5, <1>8

(* Appending a segment of the words that follow keeps the words divided.   *)
LEMMA DividedOn ==
  ASSUME MapTypeOK, Divided, NEW new, segments' = Append(segments, new),
         \A w \in SegmentWords, v \in new.words : w < v
  PROVE  /\ Divided' /\ SegmentWords' = SegmentWords \cup new.words
<1>1. /\ Len(segments) \in Nat /\ DOMAIN segments = 1..Len(segments)
      /\ Len(segments) + 1 \notin DOMAIN segments
      /\ DOMAIN segments' = DOMAIN segments \cup {Len(segments) + 1}
      /\ \A s \in DOMAIN segments : segments'[s] = segments[s] /\ s < Len(segments) + 1
      /\ segments'[Len(segments) + 1] = new
      BY AppendedSegment, Shapes
<1> DEFINE n == Len(segments) + 1
<1>2. n \in Nat /\ \A s \in DOMAIN segments : s \in Nat /\ ~(n < s) /\ ~(n < n)
      BY <1>1
<1> HIDE DEF n
<1>3. SegmentWords' = SegmentWords \cup new.words
      BY <1>1 DEF SegmentWords, n
<1>4. \A s \in DOMAIN segments : segments[s].words \subseteq SegmentWords
      BY DEF SegmentWords
<1>5. Divided'
  <2> SUFFICES ASSUME NEW s \in DOMAIN segments', NEW t \in DOMAIN segments', s < t,
                      NEW w \in segments'[s].words, NEW v \in segments'[t].words
               PROVE  w < v
      BY DEF Divided
  <2>1. CASE s \in DOMAIN segments /\ t \in DOMAIN segments
        BY <1>1, <2>1 DEF Divided
  <2>2. CASE s \in DOMAIN segments /\ t = n
        BY <1>1, <1>4, <2>2 DEF n
  <2>3. ~(s = n)
        BY <1>1, <1>2 DEF n
  <2> QED BY <1>1, <2>1, <2>2, <2>3 DEF n
<1> QED BY <1>3, <1>5

LEMMA ExactKept ==
  ASSUME MapTypeOK, InOrder, NoneLost, [MappingNext]_mappingVars,
         NEW s \in DOMAIN segments, segments'[s] = segments[s],
         segments[s].words \subseteq DOMAIN words, Exact(segments[s])
  PROVE  Exact(segments[s])'
<1> SUFFICES ASSUME segments[s].words # {}
             PROVE  /\ segments[s].start = words'[LeastOf(segments[s].words)].start
                    /\ segments[s].end = words'[GreatestOf(segments[s].words)].end
    BY DEF Exact
<1>1. LeastOf(segments[s].words) \in DOMAIN words /\ GreatestOf(segments[s].words) \in DOMAIN words
      BY Ends
<1> QED BY <1>1, WordsKept DEF Exact

LEMMA GroupInvStep ==
  ASSUME MapTypeOK, InOrder, NoneLost, GroupInv, [MappingNext]_mappingVars
  PROVE  GroupInv'
<1> SUFFICES ASSUME output.provider # Nemo PROVE GroupInv'
  <2>1. output' = output
        BY DEF MappingNext, MapWord, MapZeroSpan, MapNativeSegment, RejectItem, CloseSegment,
           CloseAligned, CloseNative, GroupsDone, WordsDone, SelectSegment, SegmentsDone,
           ValidateDocument, mappingVars
  <2> QED BY <2>1 DEF GroupInv
<1>1. /\ SegmentWords = Behind /\ Divided
      /\ output.provider = Qwen /\ group <= Len(output.groups) /\ ~output.groups[group].aligned =>
           DOMAIN words = Behind
      /\ output.provider = Qwen => \A s \in DOMAIN segments : Exact(segments[s])
      BY DEF GroupInv
<1>2. \A s \in DOMAIN segments : segments[s].words \subseteq DOMAIN words
      BY <1>1 DEF SegmentWords, Behind
<1>3. ASSUME UNCHANGED <<output, group>> PROVE Behind' = Behind
  <2>1. /\ \A w \in DOMAIN words : w \in DOMAIN words' /\ First(w)' = First(w)
        /\ \A w \in DOMAIN words' : w \notin DOMAIN words => ~(First(w)' <= Last(group - 1))
        BY WordsKept DEF First
  <2>2. Last(group - 1)' = Last(group - 1)
        BY <1>3 DEF Last
  <2> SUFFICES ASSUME NEW w PROVE w \in Behind' <=> w \in Behind
      OBVIOUS
  <2>3. w \in Behind' <=> w \in DOMAIN words' /\ First(w)' <= Last(group - 1)'
        BY DEF Behind
  <2>4. w \in Behind <=> w \in DOMAIN words /\ First(w) <= Last(group - 1)
        BY DEF Behind
  <2> QED BY <2>1, <2>2, <2>3, <2>4
<1>4. ASSUME UNCHANGED <<output, group>>, SegmentWords' = SegmentWords, Divided',
             output.provider = Qwen => \A s \in DOMAIN segments' : Exact(segments[s])',
             DOMAIN words' = DOMAIN words \/ MapWord
      PROVE  GroupInv'
  <2>1. SegmentWords' = Behind'
        BY <1>1, <1>3, <1>4
  <2>2. ASSUME output.provider = Qwen, group <= Len(output.groups), ~output.groups[group].aligned
        PROVE  DOMAIN words' = Behind'
    <3>1. ~MapWord
          BY <2>2 DEF MapWord, Aligned
    <3> QED BY <1>1, <1>3, <1>4, <2>2, <3>1
  <2> QED BY <1>4, <2>1, <2>2 DEF GroupInv
<1>5. ASSUME UNCHANGED segments
      PROVE  /\ SegmentWords' = SegmentWords /\ Divided'
             /\ output.provider = Qwen => \A s \in DOMAIN segments' : Exact(segments[s])'
  <2>1. SegmentWords' = SegmentWords /\ Divided'
        BY <1>1, <1>5 DEF SegmentWords, Divided
  <2>2. ASSUME output.provider = Qwen, NEW s \in DOMAIN segments' PROVE Exact(segments[s])'
    <3>1. s \in DOMAIN segments /\ segments'[s] = segments[s]
          BY <1>5
    <3> QED BY <1>1, <1>2, <2>2, <3>1, ExactKept
  <2> QED BY <2>1, <2>2
<1>6. CASE MapWord \/ MapZeroSpan \/ RejectItem \/ GroupsDone \/ (CloseAligned /\ ~Closed)
           \/ (CloseSegment /\ group' = group) \/ ValidateDocument \/ UNCHANGED mappingVars
  <2>1. UNCHANGED <<output, group, segments>> /\ (words' = words \/ MapWord)
    <3>1. group # group + 1
          BY DEF MapTypeOK, ItemsTaken
    <3> QED
        BY <1>6, <3>1 DEF MapWord, MapZeroSpan, RejectItem, GroupsDone, CloseAligned, Closed, GroupDone,
           CloseSegment, ValidateDocument, mappingVars
  <2> QED BY <1>4, <1>5, <2>1
<1>7. CASE MapNativeSegment
  <2> DEFINE new == [start |-> Ms(Item.start), end |-> Ms(Item.end), words |-> {}]
  <2>1. /\ segments' = Append(segments, new) /\ new.words = {}
        /\ UNCHANGED <<output, group, words>>
        BY <1>7 DEF MapNativeSegment
  <2> HIDE DEF new
  <2>2. Divided' /\ SegmentWords' = SegmentWords
        BY <1>1, <2>1, DividedOn
  <2>3. ASSUME output.provider = Qwen, NEW s \in DOMAIN segments' PROVE Exact(segments[s])'
    <3>1. CASE s \in DOMAIN segments
          BY <1>1, <1>2, <2>1, <2>3, <3>1, AppendedSegment, ExactKept
    <3>2. CASE s = Len(segments) + 1
      <4>1. segments'[s].words = {}
            BY <2>1, <3>2, AppendedSegment
      <4> QED BY <4>1 DEF Exact
    <3> QED BY <2>1, <3>1, <3>2, AppendedSegment
  <2> QED BY <1>4, <2>1, <2>2, <2>3
<1>8. ASSUME GroupDone, group' = group + 1, UNCHANGED <<output, next>>,
             DOMAIN words' = DOMAIN words
      PROVE  Behind' = DOMAIN words
  <2>1. \A w \in DOMAIN words : First(w) <= Last(group)
        BY <1>8, GroupsMeet
  <2>2. \A w \in DOMAIN words : First(w)' = First(w)
        BY WordsKept DEF First
  <2>3. Last(group - 1)' = Last(group)
    <3>1. (group + 1) - 1 = group
          BY DEF MapTypeOK, ItemsTaken
    <3> QED BY <1>8, <3>1 DEF Last
  <2> SUFFICES ASSUME NEW w PROVE w \in Behind' <=> w \in DOMAIN words
      OBVIOUS
  <2>4. w \in Behind' <=> w \in DOMAIN words' /\ First(w)' <= Last(group - 1)'
        BY DEF Behind
  <2> QED BY <1>8, <2>1, <2>2, <2>3, <2>4
<1>9. ASSUME GroupDone, group' = group + 1, UNCHANGED <<output, next>>,
             DOMAIN words' = DOMAIN words,
             NEW new, segments' = Append(segments, new), new.words = GroupWords,
             NEW n, n = Len(segments) + 1,
             output.provider = Qwen => Exact(segments[n])'
      PROVE  GroupInv'
  <2>1. /\ Behind \cup GroupWords = DOMAIN words
        /\ \A w \in Behind, v \in GroupWords : w < v
        BY <1>9, GroupsMeet
  <2>2. Divided' /\ SegmentWords' = SegmentWords \cup new.words
        BY <1>1, <1>9, <2>1, DividedOn
  <2>3. SegmentWords' = Behind' /\ DOMAIN words' = Behind'
        BY <1>1, <1>8, <1>9, <2>1, <2>2
  <2>4. ASSUME output.provider = Qwen, NEW s \in DOMAIN segments' PROVE Exact(segments[s])'
    <3>1. CASE s \in DOMAIN segments
          BY <1>1, <1>2, <1>9, <2>4, <3>1, AppendedSegment, ExactKept
    <3>2. CASE s = n
          BY <1>9, <2>4, <3>2
    <3> QED BY <1>9, <3>1, <3>2, AppendedSegment
  <2> QED BY <1>9, <2>2, <2>3, <2>4 DEF GroupInv
<1>10. CASE CloseSegment /\ group' # group
  <2>1. PICK new : /\ segments' = Append(segments, new) /\ new.words = GroupWords
        BY <1>10 DEF CloseSegment
  <2>2. /\ GroupDone /\ group' = group + 1 /\ UNCHANGED <<output, next, words>>
        /\ output.provider # Qwen
        BY <1>10 DEF CloseSegment, Faster, Qwen
  <2> QED BY <1>9, <2>1, <2>2
<1>11. CASE Closed
  <2>a. PICK n : n = Len(segments) + 1
        OBVIOUS
  <2>0. PICK new : new = [start |-> words[LeastOf(GroupWords)].start, end |-> words[Len(words)].end,
                          words |-> GroupWords]
        OBVIOUS
  <2>1. /\ GroupDone /\ group' = group + 1 /\ UNCHANGED <<output, next>>
        /\ segments' = Append(segments, new) /\ DOMAIN words' = DOMAIN words /\ GroupWords # {}
        BY <1>11, <2>0, LongerWord DEF Closed, CloseAligned
  <2>2. GroupWords \subseteq DOMAIN words
        BY DEF GroupWords
  <2>3. Len(words) \in GroupWords
    <3>1. PICK w \in GroupWords : TRUE
          BY <2>1
    <3>2. w \in DOMAIN words /\ First(w) > Last(group - 1) /\ Len(words) \in DOMAIN words
          BY <2>1, <2>2, Ends DEF GroupWords, First
    <3>3. CASE w = Len(words)
          BY <3>3
    <3>4. CASE w # Len(words)
      <4>1. w < Len(words)
            BY <3>2, <3>4, Shapes
      <4>2. First(w) < First(Len(words)) /\ First(w) \in Nat /\ First(Len(words)) \in Nat
            BY <3>2, <4>1, FirstItems
      <4>3. Last(group - 1) \in Nat
            BY LastBefore
      <4> QED BY <3>2, <4>2, <4>3 DEF GroupWords, First
    <3> QED BY <3>3, <3>4
  <2>4. GreatestOf(GroupWords) = Len(words)
    <3>1. GreatestOf(GroupWords) \in DOMAIN words /\ Len(words) <= GreatestOf(GroupWords)
          BY <2>1, <2>2, <2>3, Ends
    <3> QED BY <3>1, Shapes
  <2>5. segments'[n] = new
        BY <2>a, <2>1, AppendedSegment
  <2>6. LeastOf(GroupWords) \in DOMAIN words /\ Len(words) \in DOMAIN words
        BY <2>1, <2>2, Ends
  <2>7. /\ new.words = GroupWords /\ new.start = words[LeastOf(GroupWords)].start
        /\ new.end = words[GreatestOf(GroupWords)].end
        BY <2>0, <2>4
  <2>8. Exact(segments[n])'
    <3>1. Exact(segments[n])' <=>
            (segments'[n].words # {} =>
               /\ segments'[n].start = words'[LeastOf(segments'[n].words)].start
               /\ segments'[n].end = words'[GreatestOf(segments'[n].words)].end)
          BY DEF Exact
    <3>2. /\ words'[LeastOf(GroupWords)].start = words[LeastOf(GroupWords)].start
          /\ words'[GreatestOf(GroupWords)].end = words[GreatestOf(GroupWords)].end
          BY <2>4, <2>6, WordsKept
    <3> QED BY <2>5, <2>7, <3>1, <3>2
  <2> QED BY <1>9, <2>a, <2>1, <2>7, <2>8
<1>12. CASE CloseNative
  <2>1. /\ GroupDone /\ group' = group + 1 /\ UNCHANGED <<output, next, words, segments>>
        /\ output.provider = Qwen /\ ~output.groups[group].aligned
        BY <1>12 DEF CloseNative, Aligned
  <2>2. DOMAIN words = Behind /\ Behind' = DOMAIN words
        BY <1>1, <1>8, <2>1 DEF GroupDone
  <2> QED BY <1>1, <1>5, <2>1, <2>2 DEF GroupInv
<1>13. ~(WordsDone \/ SelectSegment \/ SegmentsDone)
       BY DEF WordsDone, SelectSegment, SegmentsDone, MapTypeOK, WordsFirst
<1> QED BY <1>6, <1>7, <1>10, <1>11, <1>12, <1>13 DEF MappingNext

-----------------------------------------------------------------------------
(* Segments of NeMo *)

(* A segment has words, from among those whose middle it took, and starts  *)
(* where they do or where the library's does.                              *)
Placed(s) ==
  LET seg == segments[s]
      raw == output.groups[s]
  IN /\ seg.words # {} /\ seg.words \subseteq DOMAIN words
     /\ Covers(seg)
     /\ seg.start < seg.end /\ seg.start <= Ms(raw.start)
     /\ seg.start \in {words[LeastOf(seg.words)].start, Ms(raw.start)}
     /\ \A w \in seg.words :
          Middle(w) <= seg.end /\ \A v \in Remaining : Middle(v) # Middle(w)

(* A segment of the library begins where those before it end, so that they *)
(* have no middle in common.                                               *)
Apart(s, t) ==
  /\ segments[s].end <= Ms(output.groups[t].start)
  /\ segments[s].end <= segments[t].end
  /\ \A w \in segments[s].words, v \in segments[t].words : Middle(w) < Middle(v)

Selection ==
  /\ Len(segments) = group - 1 /\ group <= Len(output.groups) + 1
  /\ \A s \in DOMAIN segments : Placed(s)
  /\ \A s, t \in DOMAIN segments : s < t => Apart(s, t)

Aggregated ==
  segments = <<[start |-> words[1].start, end |-> words[Len(words)].end, words |-> DOMAIN words]>>

NemoInv ==
  output.provider = Nemo =>
    /\ stage = "items" => segments = <<>> /\ group = 1
    /\ stage = "segments" => Selection
    /\ Mapped => Aggregated \/ (Selection /\ Remaining = {})

LEMMA MiddleType ==
  ASSUME MapTypeOK, NEW w \in DOMAIN words
  PROVE  Middle(w) \in Int
<1>1. words[w].start \in Int /\ words[w].end \in Int
      BY Shapes
<1> QED BY <1>1 DEF Middle

(* What widening makes of a segment.                                       *)
LEMMA WidenedFacts ==
  ASSUME MapTypeOK, NEW raw, raw.start \in Int, raw.end \in Int, Selected(raw) # {},
         Ms(raw.start) < Ms(raw.end), NEW new, new = Widened(raw)
  PROVE  /\ new.words = Selected(raw) /\ new.words # {} /\ new.words \subseteq Remaining
         /\ new.words \subseteq DOMAIN words
         /\ Covers(new)
         /\ new.start \in Int /\ new.end \in Int
         /\ new.start < new.end /\ new.start <= Ms(raw.start) /\ Ms(raw.end) <= new.end
         /\ new.start \in {words[LeastOf(new.words)].start, Ms(raw.start)}
         /\ \A w \in new.words :
              /\ Ms(raw.start) <= Middle(w) /\ Middle(w) <= new.end
              /\ \A v \in Remaining : v \notin new.words => Middle(v) # Middle(w)
<1> DEFINE sel   == Selected(raw)
           least == words[LeastOf(sel)].start
           last  == words[GreatestOf(sel)].end
<1>1. sel \subseteq DOMAIN words /\ sel \subseteq Remaining
      BY DEF Selected, Remaining
<1>2. LeastOf(sel) \in DOMAIN words /\ GreatestOf(sel) \in DOMAIN words
  <2> HIDE DEF sel
  <2>1. sel # {}
        BY DEF sel
  <2> QED BY <1>1, <2>1, Ends
<1>3. least \in Int /\ last \in Int /\ Ms(raw.start) \in Int /\ Ms(raw.end) \in Int
  <2> HIDE DEF sel
  <2> QED BY <1>2, Shapes, MsType
<1>4. /\ new.words = sel
      /\ new.start = IF least < Ms(raw.start) THEN least ELSE Ms(raw.start)
      /\ new.end = IF last > Ms(raw.end) THEN last ELSE Ms(raw.end)
      BY DEF Widened
<1> HIDE DEF sel, least, last
<1>5. /\ new.start \in Int /\ new.end \in Int
      /\ new.start <= least /\ last <= new.end
      /\ new.start <= Ms(raw.start) /\ Ms(raw.end) <= new.end
      /\ new.start \in {least, Ms(raw.start)}
      BY <1>3, <1>4
<1>6. new.start < new.end
      BY <1>3, <1>5
<1>7. Covers(new)
      BY <1>4, <1>5 DEF Covers, least, last
<1>8. \A w \in sel : Ms(raw.start) <= Middle(w) /\ Middle(w) <= Ms(raw.end) /\ Middle(w) \in Int
      BY <1>1, MiddleType DEF sel, Selected
<1>9. \A w \in sel : Middle(w) <= new.end
      BY <1>3, <1>5, <1>8
<1>10. \A w \in sel : \A v \in Remaining : v \notin sel => Middle(v) # Middle(w)
       BY <1>8 DEF sel, Selected
<1> QED BY <1>1, <1>4, <1>5, <1>6, <1>7, <1>8, <1>9, <1>10 DEF sel, least

LEMMA SelectionStep ==
  ASSUME MapTypeOK, Selection, NEW raw, raw = output.groups[group],
         group \in 1..Len(output.groups), TimedRange(raw), Selected(raw) # {},
         PreviousEnd <= Ms(raw.start), segments' = Append(segments, Widened(raw)),
         group' = group + 1, UNCHANGED <<output, words>>
  PROVE  Selection'
<1>1. raw.start \in Int /\ raw.end \in Int
      BY OutputTypes DEF MapTypeOK
<1>2. PICK new : new = Widened(raw)
      OBVIOUS
<1>3. /\ new.words = Selected(raw) /\ new.words # {} /\ new.words \subseteq Remaining
      /\ new.words \subseteq DOMAIN words
      /\ Covers(new)
      /\ new.start \in Int /\ new.end \in Int
      /\ new.start < new.end /\ new.start <= Ms(raw.start) /\ Ms(raw.end) <= new.end
      /\ new.start \in {words[LeastOf(new.words)].start, Ms(raw.start)}
      /\ \A w \in new.words :
           /\ Ms(raw.start) <= Middle(w) /\ Middle(w) <= new.end
           /\ \A v \in Remaining : v \notin new.words => Middle(v) # Middle(w)
      BY <1>1, <1>2, WidenedFacts DEF TimedRange
<1>4. /\ Len(segments) \in Nat /\ DOMAIN segments = 1..Len(segments) /\ group \in Nat
      /\ group = Len(segments) + 1 /\ group \notin DOMAIN segments
      /\ Len(segments') = group
      /\ DOMAIN segments' = DOMAIN segments \cup {group}
      /\ \A s \in DOMAIN segments : segments'[s] = segments[s] /\ s < group
      /\ segments'[group] = new
  <2>1. Len(segments) = group - 1 /\ Len(segments) \in Nat /\ DOMAIN segments = 1..Len(segments)
        BY Shapes DEF Selection
  <2>2. group \in Nat /\ group = Len(segments) + 1
        BY <2>1 DEF MapTypeOK, ItemsTaken
  <2> QED BY <1>2, <2>1, <2>2, AppendedSegment
<1>5. Remaining' \subseteq Remaining /\ Remaining' \cap new.words = {}
  <2>1. \A w : w \in Remaining' =>
          w \in DOMAIN words /\ \A s \in DOMAIN segments' : w \notin segments'[s].words
        BY DEF Remaining
  <2> QED BY <1>4, <2>1 DEF Remaining
<1>6. \A w : Middle(w)' = Middle(w)
      BY DEF Middle
<1>7. ASSUME NEW s \in DOMAIN segments PROVE Placed(s)'
  <2>1. segments'[s] = segments[s] /\ Placed(s)
        BY <1>4 DEF Selection
  <2> QED BY <1>5, <1>6, <2>1 DEF Placed, Covers
<1>8. ASSUME NEW s, s = group PROVE Placed(s)'
  <2>1. segments'[s] = new /\ output'.groups[s] = raw
        BY <1>4, <1>8
  <2>2. \A w \in new.words : \A v \in Remaining' : Middle(v) # Middle(w)
        BY <1>3, <1>5
  <2> QED BY <1>3, <1>6, <2>1, <2>2 DEF Placed, Covers
<1>9. ASSUME NEW s \in DOMAIN segments, NEW t, t = group PROVE Apart(s, t)'
  <2>1. /\ segments'[s] = segments[s] /\ segments'[t] = new /\ output'.groups[t] = raw
        /\ segments[s].end \in Int /\ Ms(raw.start) \in Int /\ Ms(raw.end) \in Int
        BY <1>1, <1>4, <1>9, Shapes, MsType
  <2>2. segments[s].end <= Ms(raw.start)
    <3>1. group # 1 /\ s \in 1..(group - 1) /\ group - 1 \in DOMAIN segments
          BY <1>4
    <3>2. segments[group - 1].end <= Ms(raw.start) /\ segments[group - 1].end \in Int
          BY <3>1, Shapes DEF PreviousEnd
    <3>3. CASE s = group - 1
          BY <3>2, <3>3
    <3>4. CASE s # group - 1
      <4>1. s < group - 1
            BY <1>4, <3>1, <3>4
      <4>2. segments[s].end <= segments[group - 1].end
            BY <3>1, <4>1 DEF Selection, Apart
      <4> QED BY <2>1, <3>2, <4>2
    <3> QED BY <3>3, <3>4
  <2>3. segments[s].end <= new.end
        BY <1>3, <2>1, <2>2 DEF TimedRange
  <2>4. ASSUME NEW w \in segments[s].words, NEW v \in new.words PROVE Middle(w) < Middle(v)
    <3>1. /\ w \in DOMAIN words /\ Middle(w) <= segments[s].end /\ Middle(v) # Middle(w)
          BY <1>3, <2>4 DEF Selection, Placed
    <3>2. Middle(w) \in Int /\ Middle(v) \in Int /\ Ms(raw.start) <= Middle(v)
          BY <1>3, <2>4, <3>1, MiddleType
    <3> QED BY <2>1, <2>2, <3>1, <3>2
  <2> QED BY <1>6, <2>1, <2>2, <2>3, <2>4 DEF Apart
<1>10. ASSUME NEW s \in DOMAIN segments, NEW t \in DOMAIN segments, s < t PROVE Apart(s, t)'
  <2>1. segments'[s] = segments[s] /\ segments'[t] = segments[t] /\ Apart(s, t)
        BY <1>4, <1>10 DEF Selection
  <2> QED BY <1>6, <2>1 DEF Apart
<1>11. \A s \in DOMAIN segments' : Placed(s)'
       BY <1>4, <1>7, <1>8
<1>12. ASSUME NEW s \in DOMAIN segments', NEW t \in DOMAIN segments', s < t PROVE Apart(s, t)'
  <2>1. s # group
        BY <1>4, <1>12
  <2> QED BY <1>4, <1>9, <1>10, <1>12, <2>1
<1>13. Len(segments)' = group' - 1 /\ group' <= Len(output'.groups) + 1
       BY <1>4, OutputTypes DEF MapTypeOK
<1> QED BY <1>11, <1>12, <1>13 DEF Selection

LEMMA NemoInvStep ==
  ASSUME MapTypeOK, NemoInv, [MappingNext]_mappingVars
  PROVE  NemoInv'
<1> SUFFICES ASSUME output.provider = Nemo PROVE NemoInv'
  <2>1. output' = output
        BY DEF MappingNext, MapWord, MapZeroSpan, MapNativeSegment, RejectItem, CloseSegment,
           CloseAligned, CloseNative, GroupsDone, WordsDone, SelectSegment, SegmentsDone,
           ValidateDocument, mappingVars
  <2> QED BY <2>1 DEF NemoInv
<1>1. /\ stage = "items" => segments = <<>> /\ group = 1
      /\ stage = "segments" => Selection
      /\ Mapped => Aggregated \/ (Selection /\ Remaining = {})
      BY DEF NemoInv
<1>2. ASSUME UNCHANGED <<output, group, words, segments>>
      PROVE  /\ Selection' <=> Selection
             /\ Remaining' = Remaining
             /\ Aggregated' <=> Aggregated
  <2>1. \A s : Placed(s)' <=> Placed(s)
        BY <1>2 DEF Placed, Covers, Middle, Remaining
  <2>2. \A s, t : Apart(s, t)' <=> Apart(s, t)
        BY <1>2 DEF Apart, Middle
  <2> QED BY <1>2, <2>1, <2>2 DEF Selection, Remaining, Aggregated
<1>3. CASE MapWord \/ MapZeroSpan
      BY <1>1, <1>3 DEF MapWord, MapZeroSpan, HasItem, NemoInv, Mapped
<1>4. CASE RejectItem
      BY <1>4 DEF RejectItem, NemoInv, Mapped
<1>5. CASE WordsDone
  <2>1. Selection'
    <3>1. segments' = <<>> /\ group' = 1 /\ output' = output
          BY <1>1, <1>5 DEF WordsDone
    <3> QED BY <3>1, OutputTypes DEF Selection, MapTypeOK
  <2> QED BY <1>5, <2>1 DEF WordsDone, NemoInv, Mapped
<1>6. ASSUME Aggregate, UNCHANGED words PROVE Aggregated' /\ stage' = "document"
      BY <1>6 DEF Aggregate, Aggregated
<1>7. CASE SelectSegment
  <2>1. PICK raw : raw = output.groups[group]
        OBVIOUS
  <2>2. Selection /\ group \in 1..Len(output.groups) /\ UNCHANGED <<output, words>>
        BY <1>1, <1>7, OutputTypes DEF SelectSegment, MapTypeOK, ItemsTaken
  <2>3. \/ stage' = "rejected"
        \/ /\ TimedRange(raw) /\ PreviousEnd <= Ms(raw.start) /\ Selected(raw) # {}
           /\ segments' = Append(segments, Widened(raw)) /\ group' = group + 1
           /\ stage' = "segments"
        \/ Aggregate
        BY <1>7, <2>1 DEF SelectSegment
  <2>4. CASE stage' = "rejected"
        BY <2>4 DEF NemoInv, Mapped
  <2>5. CASE /\ TimedRange(raw) /\ PreviousEnd <= Ms(raw.start) /\ Selected(raw) # {}
             /\ segments' = Append(segments, Widened(raw)) /\ group' = group + 1
             /\ stage' = "segments"
        BY <2>1, <2>2, <2>5, SelectionStep DEF NemoInv, Mapped
  <2>6. CASE Aggregate
        BY <1>6, <2>2, <2>6 DEF NemoInv, Mapped
  <2> QED BY <2>3, <2>4, <2>5, <2>6
<1>8. CASE SegmentsDone
  <2>1. UNCHANGED <<output, group, words>> /\ stage = "segments"
        BY <1>8 DEF SegmentsDone
  <2>2. CASE Complete
    <3>1. stage' = "document" /\ UNCHANGED segments /\ Remaining = {}
          BY <1>8, <2>2 DEF SegmentsDone, Complete
    <3> QED BY <1>1, <1>2, <2>1, <3>1 DEF NemoInv, Mapped
  <2>3. CASE ~Complete
        BY <1>6, <1>8, <2>1, <2>3 DEF SegmentsDone, NemoInv, Mapped
  <2> QED BY <2>2, <2>3
<1>9. CASE ValidateDocument
  <2>1. UNCHANGED <<output, group, words, segments>> /\ Mapped /\ stage' \in {"accepted", "invalid"}
        BY <1>9 DEF ValidateDocument, Mapped
  <2> QED BY <1>1, <1>2, <2>1 DEF NemoInv
<1>10. CASE UNCHANGED mappingVars
  <2>1. UNCHANGED <<output, group, words, segments, stage>> /\ (Mapped' <=> Mapped)
        BY <1>10 DEF mappingVars, Mapped
  <2> QED BY <1>1, <1>2, <2>1 DEF NemoInv
<1>11. ~(MapNativeSegment \/ CloseSegment \/ CloseAligned \/ CloseNative \/ GroupsDone)
       BY DEF MapNativeSegment, Aligned, CloseSegment, CloseAligned, CloseNative, GroupDone,
          GroupsDone, Nemo, Qwen, Faster
<1> QED BY <1>3, <1>4, <1>5, <1>7, <1>8, <1>9, <1>10, <1>11 DEF MappingNext

-----------------------------------------------------------------------------
(* Times *)

(* A word has a span; without words, so has a segment, one for each item.  *)
Proper ==
  /\ \A w \in DOMAIN words : 0 <= words[w].start /\ words[w].start < words[w].end
  /\ words = <<>> =>
       /\ \A s \in DOMAIN segments : 0 <= segments[s].start /\ segments[s].start < segments[s].end
       /\ Len(segments) + Len(pending) = next - 1

LEMMA MsPositive == \A h \in Int : h >= 0 => Ms(h) >= 0
BY DEF Ms

LEMMA ProperStep ==
  ASSUME MapTypeOK, Proper, [MappingNext]_mappingVars
  PROVE  Proper'
<1>0. /\ Len(segments) \in Nat /\ Len(pending) \in Nat /\ next \in Nat /\ pending \in Seq(Nat)
      /\ words # <<>> => DOMAIN words # {}
      BY Shapes DEF MapTypeOK, ItemsTaken
<1>1. ASSUME UNCHANGED <<words, segments, pending, next>> PROVE Proper'
      BY <1>1 DEF Proper
<1>2. ASSUME UNCHANGED words, words # <<>> PROVE Proper'
      BY <1>2 DEF Proper
<1>3. CASE MapWord
  <2>1. Item.start \in Int /\ Item.end \in Int
        BY <1>3, ItemAtHand DEF MapWord
  <2>2. 0 <= Ms(Item.start) /\ Ms(Item.start) < Ms(Item.end)
        BY <1>3, <2>1, MsPositive DEF MapWord, TimedRange
  <2>3. /\ DOMAIN words' = DOMAIN words \cup {Len(words) + 1}
        /\ \A w \in DOMAIN words : words'[w] = words[w]
        /\ words' # <<>>
        BY <1>3, NewWord
  <2>4. /\ words'[Len(words) + 1].start = Ms(Item.start)
        /\ words'[Len(words) + 1].end = Ms(Item.end)
    <3> DEFINE word == [start |-> Ms(Item.start), end |-> Ms(Item.end), items |-> WordItems]
    <3>1. words' = Append(words, word) /\ word.start = Ms(Item.start) /\ word.end = Ms(Item.end)
          BY <1>3 DEF MapWord
    <3>2. words \in Seq(WordType)
          BY DEF MapTypeOK
    <3> HIDE DEF word
    <3>3. words'[Len(words) + 1] = word
          BY <3>1, <3>2
    <3> QED BY <3>1, <3>3
  <2> QED BY <2>2, <2>3, <2>4 DEF Proper
<1>4. CASE MapZeroSpan
  <2>1. Len(pending') = Len(pending) + 1 /\ next' = next + 1 /\ UNCHANGED <<words, segments>>
        BY <1>0, <1>4 DEF MapZeroSpan
  <2> QED BY <1>0, <2>1 DEF Proper
<1>5. CASE MapNativeSegment
  <2>1. Item.start \in Int /\ Item.end \in Int
        BY <1>5, ItemAtHand DEF MapNativeSegment
  <2>2. 0 <= Ms(Item.start) /\ Ms(Item.start) < Ms(Item.end)
        BY <1>5, <2>1, MsPositive DEF MapNativeSegment, TimedRange
  <2>3. PICK new : /\ new.start = Ms(Item.start) /\ new.end = Ms(Item.end)
                   /\ segments' = Append(segments, new)
        BY <1>5 DEF MapNativeSegment
  <2>4. /\ Len(segments') = Len(segments) + 1 /\ UNCHANGED <<pending, words>> /\ next' = next + 1
        /\ DOMAIN segments' = DOMAIN segments \cup {Len(segments) + 1}
        /\ \A s \in DOMAIN segments : segments'[s] = segments[s]
        /\ segments'[Len(segments) + 1] = new
        BY <1>5, <2>3, AppendedSegment DEF MapNativeSegment
  <2> QED BY <1>0, <2>2, <2>3, <2>4 DEF Proper
<1>6. CASE Closed
  <2>1. /\ DOMAIN words' = DOMAIN words /\ Len(words) \in DOMAIN words
        /\ \A w \in DOMAIN words : words'[w].start = words[w].start /\ words'[w].end = words[w].end
        BY <1>6, LongerWord
  <2>2. words' # <<>>
        BY <2>1
  <2> QED BY <2>1, <2>2 DEF Proper
<1>7. CASE CloseSegment
  <2>1. CASE UNCHANGED segments
        BY <1>1, <1>7, <2>1 DEF CloseSegment
  <2>2. CASE ~UNCHANGED segments
    <3>1. GroupWords # {} /\ UNCHANGED words
          BY <1>7, <2>2 DEF CloseSegment
    <3>2. DOMAIN words # {}
          BY <3>1 DEF GroupWords
    <3> QED BY <1>2, <3>1, <3>2
  <2> QED BY <2>1, <2>2
<1>8. CASE SelectSegment \/ SegmentsDone
      BY <1>2, <1>8 DEF SelectSegment, SegmentsDone, MapTypeOK, WordsFirst
<1>9. CASE RejectItem \/ (CloseAligned /\ ~Closed) \/ CloseNative \/ GroupsDone \/ WordsDone
           \/ ValidateDocument \/ UNCHANGED mappingVars
  <2>1. UNCHANGED <<words, segments, pending, next>>
        BY <1>9 DEF RejectItem, CloseAligned, Closed, GroupDone, CloseNative, GroupsDone, WordsDone,
           ValidateDocument, mappingVars
  <2> QED BY <1>1, <2>1
<1> QED BY <1>3, <1>4, <1>5, <1>6, <1>7, <1>8, <1>9 DEF MappingNext

-----------------------------------------------------------------------------
(* What follows of a document *)

Validated ==
  /\ stage = "accepted" => Valid
  /\ stage = "invalid" => ~Valid

MapInv ==
  /\ MapTypeOK /\ InOrder /\ NotMixed /\ NoneLost
  /\ GroupInv /\ NemoInv /\ Proper /\ Validated

LEMMA ValidatedStep ==
  ASSUME MapTypeOK, Validated, [MappingNext]_mappingVars
  PROVE  Validated'
<1>1. CASE ValidateDocument
  <2>1. Valid' <=> Valid
        BY <1>1 DEF ValidateDocument, Valid, Monotonic, Covers
  <2> QED BY <1>1, <2>1 DEF ValidateDocument, Validated
<1>2. CASE UNCHANGED mappingVars
  <2>1. Valid' <=> Valid
        BY <1>2 DEF mappingVars, Valid, Monotonic, Covers
  <2> QED BY <1>2, <2>1 DEF mappingVars, Validated
<1>3. CASE MappingNext /\ ~ValidateDocument
  <2>1. stage' \notin {"accepted", "invalid"}
        BY <1>3 DEF MappingNext, MapWord, MapZeroSpan, MapNativeSegment, RejectItem, CloseSegment,
           CloseAligned, CloseNative, GroupsDone, WordsDone, SelectSegment, SegmentsDone, HasItem,
           GroupDone, Aggregate
  <2> QED BY <2>1 DEF Validated
<1> QED BY <1>1, <1>2, <1>3

LEMMA MapInvInit == MappingInit => MapInv
<1> SUFFICES ASSUME MappingInit PROVE MapInv
    OBVIOUS
<1>1. /\ output \in Outputs /\ stage = "items" /\ next = 1 /\ group = 1
      /\ pending = <<>> /\ words = <<>> /\ segments = <<>>
      BY DEF MappingInit
<1>2. DOMAIN words = {} /\ DOMAIN segments = {} /\ DOMAIN pending = {}
      BY <1>1
<1>3. /\ pending \in Seq(Nat) /\ words \in Seq(WordType) /\ segments \in Seq(SegmentType)
      BY <1>1
<1>4. output.provider # Nemo => Last(0) = 0 /\ Last(Len(output.groups)) = Len(output.items)
                                /\ \A g \in 0..Len(output.groups) : Last(g) \in Nat
      BY <1>1, LastTypes
<1>5. ItemsTaken
  <2>1. Len(output.items) \in Nat /\ Len(output.groups) \in Nat
        BY <1>1, OutputTypes
  <2> QED BY <1>1, <1>4, <2>1 DEF ItemsTaken
<1>6. MapTypeOK
      BY <1>1, <1>3, <1>5 DEF MapTypeOK, Stages, WordsFirst, Mapped
<1>7. InOrder /\ NotMixed /\ NoneLost
      BY <1>1, <1>2 DEF InOrder, NotMixed, NoneLost, Native, Mapped
<1>8. GroupInv
      BY <1>1, <1>2 DEF GroupInv, SegmentWords, Behind, Divided
<1> QED BY <1>1, <1>6, <1>7, <1>8 DEF MapInv, NemoInv, Proper, Validated, Mapped

LEMMA MapInvStep == MapInv /\ [MappingNext]_mappingVars => MapInv'
BY MapTypeStep, InOrderStep, NotMixedStep, NoneLostStep, GroupInvStep, NemoInvStep, ProperStep, ValidatedStep
   DEF MapInv

(* In a document every item has been taken.                                *)
LEMMA AllTaken ==
  ASSUME MapInv, Mapped
  PROVE  /\ next = Len(output.items) + 1 /\ pending = <<>>
         /\ output.provider # Nemo => group - 1 = Len(output.groups)
<1>1. CASE output.provider = Nemo
      BY <1>1 DEF MapInv, MapTypeOK, WordsFirst, Mapped, NoneLost, Nemo, Qwen
<1>2. CASE output.provider # Nemo
  <2>1. group = Len(output.groups) + 1 /\ Len(output.groups) \in Nat
    <3>1. MapTypeOK /\ group > Len(output.groups)
          BY <1>2 DEF MapInv, MapTypeOK, WordsFirst
    <3>2. group \in Nat /\ group <= Len(output.groups) + 1 /\ Len(output.groups) \in Nat
          BY <1>2, <3>1, OutputTypes DEF MapTypeOK, ItemsTaken
    <3> QED BY <3>1, <3>2
  <2> QED BY <1>2, <2>1 DEF MapInv, MapTypeOK, ItemsTaken, NoneLost
<1> QED BY <1>1, <1>2

LEMMA KeepsText == MapInv => TextKept
<1> SUFFICES ASSUME MapInv, stage = "accepted", words # <<>> PROVE TextKept
    BY DEF TextKept
<1>1. Mapped
      BY DEF Mapped
<1>2. next = Len(output.items) + 1 /\ pending = <<>> /\ ~Native
      BY <1>1, AllTaken DEF MapInv, NotMixed
<1>3. ASSUME NEW i \in DOMAIN output.items PROVE Covered(i)
  <2>1. i \in 1..(next - 1)
    <3>1. output.items \in Seq(ItemType)
          BY OutputsAssumption DEF MapInv, MapTypeOK
    <3> QED BY <1>2, <3>1
  <2>2. ~Waiting(i)
        BY <1>2 DEF Waiting
  <2> QED BY <1>2, <2>1, <2>2 DEF MapInv, NoneLost
<1> QED BY <1>3 DEF MapInv, InOrder, TextKept, Covered

(* Middles of words are in the order of the words, unless words go back.   *)
LEMMA MiddlesOrdered ==
  ASSUME MapTypeOK, Monotonic(words), NEW w \in DOMAIN words, NEW v \in DOMAIN words,
         Middle(w) < Middle(v)
  PROVE  w < v
<1>1. w \in Int /\ v \in Int /\ Timed(words)
      BY Shapes DEF Timed
<1>2. ASSUME v <= w PROVE FALSE
  <2>1. words[v].start <= words[w].start /\ words[v].end <= words[w].end
        BY <1>1, <1>2, MonotonicPairs
  <2>2. /\ words[v].start \in Int /\ words[w].start \in Int
        /\ words[v].end \in Int /\ words[w].end \in Int
        BY Shapes
  <2> QED BY <2>1, <2>2 DEF Middle
<1> QED BY <1>1, <1>2

LEMMA DividesWords == MapInv => WordsDivided
<1> SUFFICES ASSUME MapInv, stage = "accepted", words # <<>> PROVE WordsDivided
    BY DEF WordsDivided
<1>1. Mapped /\ Monotonic(words) /\ MapTypeOK
      BY DEF Mapped, MapInv, Validated, Valid
<1>2. CASE output.provider # Nemo
  <2>1. Last(group - 1) = Len(output.items) /\ next = Len(output.items) + 1 /\ Len(output.items) \in Nat
        BY <1>1, <1>2, AllTaken, LastTypes, OutputTypes DEF MapTypeOK
  <2>2. \A w \in DOMAIN words : First(w) <= Last(group - 1)
        BY <1>1, <2>1, FirstItems DEF MapInv
  <2>3. SegmentWords = DOMAIN words /\ Divided
        BY <1>2, <2>2 DEF MapInv, GroupInv, Behind
  <2> QED BY <2>3 DEF WordsDivided, SegmentWords, Divided
<1>3. CASE output.provider = Nemo /\ Aggregated
  <2>1. DOMAIN segments = {1} /\ segments[1].words = DOMAIN words
        BY <1>3 DEF Aggregated
  <2>2. UNION {segments[s].words : s \in DOMAIN segments} = DOMAIN words
        BY <2>1
  <2>3. \A s, t \in DOMAIN segments : ~(s < t)
        BY <2>1
  <2> QED BY <2>2, <2>3 DEF WordsDivided
<1>4. CASE output.provider = Nemo /\ Selection /\ Remaining = {}
  <2>1. \A s \in DOMAIN segments : segments[s].words \subseteq DOMAIN words
        BY <1>4 DEF Selection, Placed
  <2>2. DOMAIN words = UNION {segments[s].words : s \in DOMAIN segments}
        BY <1>4, <2>1 DEF Remaining
  <2>3. ASSUME NEW s \in DOMAIN segments, NEW t \in DOMAIN segments, s < t,
               NEW w \in segments[s].words, NEW v \in segments[t].words
        PROVE  w < v
    <3>1. Middle(w) < Middle(v)
          BY <1>4, <2>3 DEF Selection, Apart
    <3> QED BY <1>1, <2>1, <2>3, <3>1, MiddlesOrdered
  <2> QED BY <2>2, <2>3 DEF WordsDivided
<1> QED BY <1>1, <1>2, <1>3, <1>4 DEF MapInv, NemoInv

LEMMA FitsSegments == MapInv => SegmentsFit
<1> SUFFICES ASSUME MapInv, stage = "invalid", words # <<>>, output.provider # Faster,
                    Monotonic(words)
             PROVE  FALSE
    BY DEF SegmentsFit
<1>1. Mapped /\ ~Valid /\ MapTypeOK /\ ~Native
      BY DEF Mapped, MapInv, Validated, NotMixed
<1>2. Timed(words) /\ output.provider \in {Nemo, Qwen}
      BY <1>1, Shapes, OutputsAssumption DEF Timed, MapTypeOK
<1>3. \A s \in DOMAIN segments : segments[s].words # {}
      BY <1>1 DEF Native
<1>4. ASSUME NEW S, NEW T, S \subseteq DOMAIN words, T \subseteq DOMAIN words, S # {}, T # {},
             \A w \in S, v \in T : w < v
      PROVE  /\ words[LeastOf(S)].start <= words[LeastOf(T)].start
             /\ words[GreatestOf(S)].end <= words[GreatestOf(T)].end
  <2>1. LeastOf(S) \in S /\ LeastOf(T) \in T /\ GreatestOf(S) \in S /\ GreatestOf(T) \in T
        BY <1>1, <1>4, Ends
  <2>2. /\ LeastOf(S) < LeastOf(T) /\ GreatestOf(S) < GreatestOf(T)
        /\ LeastOf(S) \in DOMAIN words /\ LeastOf(T) \in DOMAIN words
        /\ GreatestOf(S) \in DOMAIN words /\ GreatestOf(T) \in DOMAIN words
        BY <1>4, <2>1
  <2>3. \A w \in DOMAIN words : w \in Int
        BY <1>2 DEF Timed
  <2>4. LeastOf(S) <= LeastOf(T) /\ GreatestOf(S) <= GreatestOf(T)
        BY <2>2, <2>3
  <2> QED BY <1>2, <2>2, <2>4, MonotonicPairs
<1>5. \A i \in 1..(Len(segments) - 1) : i \in DOMAIN segments /\ i + 1 \in DOMAIN segments /\ i < i + 1
      BY <1>1, Shapes
<1>6. CASE output.provider = Qwen
  <2>1. /\ \A s \in DOMAIN segments : segments[s].words \subseteq DOMAIN words /\ Exact(segments[s])
        /\ Divided
        BY <1>6 DEF MapInv, GroupInv, SegmentWords, Behind, Nemo, Qwen
  <2>2. \A s \in DOMAIN segments :
          /\ segments[s].start = words[LeastOf(segments[s].words)].start
          /\ segments[s].end = words[GreatestOf(segments[s].words)].end
          /\ segments[s].start \in Int /\ segments[s].end \in Int
        BY <1>1, <1>3, <2>1, Shapes DEF Exact
  <2>3. \A s \in DOMAIN segments : Covers(segments[s])
    <3> SUFFICES ASSUME NEW s \in DOMAIN segments PROVE Covers(segments[s])
        OBVIOUS
    <3> QED BY <2>2 DEF Covers
  <2>4. Monotonic(segments)
    <3> SUFFICES ASSUME NEW i \in 1..(Len(segments) - 1)
                 PROVE  /\ segments[i].start <= segments[i + 1].start
                        /\ segments[i].end <= segments[i + 1].end
        BY DEF Monotonic
    <3>1. \A w \in segments[i].words, v \in segments[i + 1].words : w < v
          BY <1>5, <2>1 DEF Divided
    <3> QED BY <1>3, <1>4, <1>5, <2>1, <2>2, <3>1
  <2> QED BY <1>1, <1>3, <2>3, <2>4 DEF Valid
<1>7. CASE output.provider = Nemo /\ Aggregated
  <2>1. /\ Len(segments) = 1 /\ DOMAIN segments = {1}
        /\ segments[1].start = words[1].start /\ segments[1].end = words[Len(words)].end
        /\ segments[1].words = DOMAIN words
        BY <1>7 DEF Aggregated
  <2>2. /\ Len(words) \in Nat /\ DOMAIN words = 1..Len(words)
        /\ 1 \in DOMAIN words /\ Len(words) \in DOMAIN words
        BY <1>1, Shapes
  <2>3. LeastOf(DOMAIN words) = 1 /\ GreatestOf(DOMAIN words) = Len(words)
    <3>1. /\ LeastOf(DOMAIN words) \in DOMAIN words /\ LeastOf(DOMAIN words) <= 1
          /\ GreatestOf(DOMAIN words) \in DOMAIN words /\ Len(words) <= GreatestOf(DOMAIN words)
          BY <1>1, <2>2, Ends
    <3> QED BY <2>2, <3>1
  <2>4. words[1].start \in Int /\ words[Len(words)].end \in Int
        BY <1>1, <2>2, Shapes
  <2>5. Covers(segments[1])
        BY <2>1, <2>3, <2>4 DEF Covers
  <2>6. Monotonic(segments)
        BY <2>1 DEF Monotonic
  <2> QED BY <1>1, <1>3, <2>1, <2>5, <2>6 DEF Valid
<1>8. CASE output.provider = Nemo /\ Selection /\ Remaining = {}
  <2>1. \A s \in DOMAIN segments : Placed(s)
        BY <1>8 DEF Selection
  <2>2. \A s \in DOMAIN segments :
          /\ segments[s].words \subseteq DOMAIN words /\ Covers(segments[s])
          /\ segments[s].start < segments[s].end
          /\ segments[s].start \in {words[LeastOf(segments[s].words)].start, Ms(output.groups[s].start)}
        BY <2>1 DEF Placed
  <2>3. Monotonic(segments)
    <3> SUFFICES ASSUME NEW i \in 1..(Len(segments) - 1)
                 PROVE  /\ segments[i].start <= segments[i + 1].start
                        /\ segments[i].end <= segments[i + 1].end
        BY DEF Monotonic
    <3>0. PICK j : j = i + 1
          OBVIOUS
    <3>1. i \in DOMAIN segments /\ j \in DOMAIN segments /\ i < j
          BY <1>5, <3>0
    <3>2. /\ segments[i].end <= Ms(output.groups[j].start)
          /\ segments[i].end <= segments[j].end
          /\ \A w \in segments[i].words, v \in segments[j].words : Middle(w) < Middle(v)
          BY <1>8, <3>1 DEF Selection, Apart
    <3>3. \A w \in segments[i].words, v \in segments[j].words : w < v
          BY <1>1, <2>2, <3>1, <3>2, MiddlesOrdered
    <3>4. words[LeastOf(segments[i].words)].start <= words[LeastOf(segments[j].words)].start
          BY <1>3, <1>4, <2>2, <3>1, <3>3
    <3>5. segments[i].start <= words[LeastOf(segments[i].words)].start
          BY <1>3, <2>2, <3>1 DEF Covers
    <3>6. /\ segments[i].start \in Int /\ segments[i].end \in Int /\ segments[j].start \in Int
          /\ words[LeastOf(segments[i].words)].start \in Int
          /\ words[LeastOf(segments[j].words)].start \in Int
      <4>1. LeastOf(segments[i].words) \in DOMAIN words /\ LeastOf(segments[j].words) \in DOMAIN words
            BY <1>1, <1>3, <2>2, <3>1, Ends
      <4> QED BY <1>1, <3>1, <4>1, Shapes
    <3>7. segments[i].start <= segments[j].start
      <4>1. CASE segments[j].start = words[LeastOf(segments[j].words)].start
            BY <3>4, <3>5, <3>6, <4>1
      <4>2. CASE segments[j].start = Ms(output.groups[j].start)
            BY <2>2, <3>1, <3>2, <3>6, <4>2
      <4> QED BY <2>2, <3>1, <4>1, <4>2
    <3> QED BY <3>0, <3>2, <3>7
  <2> QED BY <1>1, <1>3, <2>2, <2>3 DEF Valid
<1> QED BY <1>1, <1>2, <1>6, <1>7, <1>8 DEF MapInv, NemoInv

-----------------------------------------------------------------------------
(* The text of the first items *)

Texts(items) == Len(items) \in Nat /\ \A i \in 1..Len(items) : items[i].text \in Nat

Sums(f, n, items) ==
  f = [i \in 0..n |-> IF i = 0 THEN 0 ELSE f[i - 1] + items[i].text]

(* The recursion of RunningText is one over the number of items.           *)
LEMMA SumsExist ==
  ASSUME NEW items, Texts(items), NEW n \in 0..Len(items)
  PROVE  \E f \in [0..n -> Nat] : Sums(f, n, items)
<1> DEFINE bad == {m \in 0..Len(items) : ~ \E f \in [0..m -> Nat] : Sums(f, m, items)}
<1>1. SUFFICES ASSUME bad # {} PROVE FALSE
      OBVIOUS
<1>2. bad \subseteq Nat
      OBVIOUS
<1>3. PICK m \in bad : \A k \in bad : m <= k
  <2> HIDE DEF bad
  <2> QED BY <1>1, <1>2, LeastNumber
<1>4. m \in 0..Len(items) /\ m \in Nat /\ ~ \E f \in [0..m -> Nat] : Sums(f, m, items)
      BY <1>2
<1>5. CASE m = 0
  <2> DEFINE g == [i \in 0..m |-> 0]
  <2>1. g \in [0..m -> Nat]
        OBVIOUS
  <2>2. Sums(g, m, items)
        BY <1>5 DEF Sums
  <2> QED BY <1>4, <2>1, <2>2
<1>6. CASE m # 0
  <2>1. m - 1 \in 0..Len(items) /\ m - 1 \in Nat /\ ~(m <= m - 1)
        BY <1>4, <1>6 DEF Texts
  <2>2. PICK f \in [0..(m - 1) -> Nat] : Sums(f, m - 1, items)
        BY <1>3, <2>1
  <2> DEFINE g == [i \in 0..m |-> IF i = m THEN f[m - 1] + items[m].text ELSE f[i]]
  <2>3. \A i \in 0..m : i = m \/ i \in 0..(m - 1)
        BY <1>4
  <2>4. m \in 1..Len(items) /\ items[m].text \in Nat /\ f[m - 1] \in Nat
        BY <1>4, <1>6, <2>1, <2>2 DEF Texts
  <2>5. g \in [0..m -> Nat]
        BY <2>2, <2>3, <2>4
  <2>6. \A i \in 0..(m - 1) : f[i] = IF i = 0 THEN 0 ELSE f[i - 1] + items[i].text
        BY <2>2 DEF Sums
  <2>7. ASSUME NEW i \in 0..m
        PROVE  g[i] = IF i = 0 THEN 0 ELSE g[i - 1] + items[i].text
    <3>1. i # 0 => i - 1 \in 0..(m - 1) /\ i - 1 \in 0..m /\ i - 1 # m
          BY <1>4
    <3>2. i # 0 => g[i - 1] = f[i - 1]
          BY <3>1
    <3>3. CASE i = m
          BY <1>6, <3>2, <3>3
    <3>4. CASE i # m
          BY <2>3, <2>6, <3>2, <3>4
    <3> QED BY <3>3, <3>4
  <2>8. Sums(g, m, items)
    <3>1. g = [i \in 0..m |-> g[i]]
          OBVIOUS
    <3> HIDE DEF g
    <3>2. [i \in 0..m |-> g[i]] = [i \in 0..m |-> IF i = 0 THEN 0 ELSE g[i - 1] + items[i].text]
          BY <2>7
    <3> QED BY <3>1, <3>2 DEF Sums
  <2> QED BY <1>4, <2>5, <2>8
<1> QED BY <1>5, <1>6

LEMMA RunningTextIs ==
  ASSUME NEW items, Texts(items)
  PROVE  /\ RunningText(items) \in [0..Len(items) -> Nat]
         /\ \A i \in 1..Len(items) :
              RunningText(items)[i] = RunningText(items)[i - 1] + items[i].text
<1> DEFINE sum == RunningText(items)
<1>1. PICK f \in [0..Len(items) -> Nat] : Sums(f, Len(items), items)
  <2>1. Len(items) \in 0..Len(items)
        BY DEF Texts
  <2> QED BY <2>1, SumsExist
<1>2. sum = CHOOSE s : s = [i \in 0..Len(items) |-> IF i = 0 THEN 0 ELSE s[i - 1] + items[i].text]
      BY DEF RunningText
<1>3. sum = [i \in 0..Len(items) |-> IF i = 0 THEN 0 ELSE sum[i - 1] + items[i].text]
  <2> HIDE DEF sum
  <2> QED BY <1>1, <1>2 DEF Sums
<1> HIDE DEF sum
<1>4. /\ sum[0] = 0 /\ DOMAIN sum = 0..Len(items)
      /\ \A i \in 1..Len(items) : sum[i] = sum[i - 1] + items[i].text
  <2>1. 0 \in 0..Len(items) /\ \A i \in 1..Len(items) : i \in 0..Len(items) /\ i # 0
        BY DEF Texts
  <2> QED BY <1>3, <2>1
<1>5. \A i \in 0..Len(items) : sum[i] \in Nat
  <2> DEFINE bad == {i \in 0..Len(items) : sum[i] \notin Nat}
  <2>1. SUFFICES ASSUME bad # {} PROVE FALSE
        OBVIOUS
  <2>2. bad \subseteq Nat
        OBVIOUS
  <2>3. PICK m \in bad : \A k \in bad : m <= k
    <3> HIDE DEF bad
    <3> QED BY <2>1, <2>2, LeastNumber
  <2>4. m \in 1..Len(items) /\ m - 1 \in 0..Len(items) /\ ~(m <= m - 1)
        BY <1>4, <2>2 DEF Texts
  <2>5. sum[m - 1] \in Nat
        BY <2>3, <2>4
  <2>6. sum[m] \in Nat
        BY <1>4, <2>4, <2>5 DEF Texts
  <2> QED BY <2>6
<1>6. sum = [i \in 0..Len(items) |-> sum[i]]
      BY <1>3
<1> QED BY <1>4, <1>5, <1>6 DEF sum

(* More items hold no less text.                                           *)
LEMMA RunningTextGrows ==
  ASSUME NEW items, Texts(items), NEW i \in 0..Len(items), NEW j \in 0..Len(items), i <= j
  PROVE  RunningText(items)[i] <= RunningText(items)[j]
<1> DEFINE sum == RunningText(items)
           bad == {k \in 0..Len(items) : i <= k /\ ~(sum[i] <= sum[k])}
<1>1. /\ sum \in [0..Len(items) -> Nat]
      /\ \A k \in 1..Len(items) : sum[k] = sum[k - 1] + items[k].text
      BY RunningTextIs
<1> HIDE DEF sum
<1>2. SUFFICES ASSUME bad # {} PROVE FALSE
      BY DEF sum
<1>3. bad \subseteq Nat
      OBVIOUS
<1>4. PICK k \in bad : \A b \in bad : k <= b
  <2> HIDE DEF bad
  <2> QED BY <1>2, <1>3, LeastNumber
<1>5. k # i
      BY <1>1
<1>6. k \in 1..Len(items) /\ k - 1 \in 0..Len(items) /\ i <= k - 1 /\ ~(k <= k - 1)
      BY <1>5 DEF Texts
<1>7. sum[i] <= sum[k - 1]
      BY <1>4, <1>6
<1>8. sum[k] = sum[k - 1] + items[k].text /\ items[k].text \in Nat
      /\ sum[i] \in Nat /\ sum[k - 1] \in Nat
      BY <1>1, <1>6 DEF Texts
<1> QED BY <1>4, <1>7, <1>8

-----------------------------------------------------------------------------
(* The path from the library to the cues *)

(* Where a piece of an accepted document ends among the items.             *)
LEMMA LastItems ==
  ASSUME MapInv, stage = "accepted"
  PROVE  /\ \A i \in 1..Len(TimedPieces) : LastItem(i) \in 0..Len(output.items)
         /\ \A i, j \in 1..Len(TimedPieces) : i <= j => LastItem(i) <= LastItem(j)
<1>1. /\ MapTypeOK /\ InOrder /\ Proper /\ Len(output.items) \in Nat
      /\ next = Len(output.items) + 1 /\ pending = <<>>
      BY AllTaken, OutputTypes DEF MapInv, MapTypeOK, Mapped
<1>2. CASE words # <<>>
  <2> DEFINE last(i) == Len(words[i].items)
  <2>1. TimedPieces = words /\ \A i : LastItem(i) = words[i].items[last(i)]
        BY <1>2 DEF TimedPieces, LastItem, ItemsOf
  <2>2. ASSUME NEW i \in DOMAIN words
        PROVE  /\ last(i) \in DOMAIN words[i].items
               /\ LastItem(i) \in Nat /\ LastItem(i) < next
    <3>1. words[i].items \in Seq(Nat) /\ words[i].items # <<>>
          BY <1>1, Shapes DEF InOrder
    <3>2. last(i) \in DOMAIN words[i].items /\ words[i].items[last(i)] \in Nat
          BY <3>1
    <3> QED BY <1>1, <2>1, <3>2 DEF InOrder
  <2>3. ASSUME NEW i \in DOMAIN words, NEW j \in DOMAIN words, i < j
        PROVE  LastItem(i) < LastItem(j)
    <3> HIDE DEF last
    <3> QED BY <1>1, <2>1, <2>2, <2>3 DEF InOrder
  <2>4. DOMAIN words = 1..Len(words) /\ Len(words) \in Nat
        BY <1>1, Shapes
  <2>5. \A i \in 1..Len(words) : LastItem(i) \in 0..Len(output.items)
        BY <1>1, <2>2, <2>4
  <2>6. ASSUME NEW i \in 1..Len(words), NEW j \in 1..Len(words), i <= j
        PROVE  LastItem(i) <= LastItem(j)
    <3>1. CASE i = j
          BY <2>2, <2>4, <3>1
    <3>2. CASE i # j
      <4>1. LastItem(i) < LastItem(j) /\ LastItem(i) \in Nat /\ LastItem(j) \in Nat
            BY <2>2, <2>3, <2>4, <2>6, <3>2
      <4> QED BY <4>1
    <3> QED BY <3>1, <3>2
  <2> QED BY <2>1, <2>5, <2>6
<1>3. CASE words = <<>>
  <2>1. TimedPieces = segments /\ \A i : LastItem(i) = i
        BY <1>3 DEF TimedPieces, LastItem, ItemsOf
  <2>2. Len(segments) = Len(output.items)
    <3>1. Len(segments) + Len(pending) = next - 1 /\ Len(pending) = 0 /\ Len(segments) \in Nat
          BY <1>1, <1>3, Shapes DEF Proper
    <3> QED BY <1>1, <3>1
  <2> QED BY <1>1, <2>1, <2>2
<1> QED BY <1>2, <1>3

(* An accepted document has the times that Segmentation relies on.         *)
LEMMA HandsOver ==
  ASSUME MapInv, stage = "accepted"
  PROVE  WellFormed(PiecesOfDocument)
<1> DEFINE n    == Len(TimedPieces)
           text == RunningText(output.items)
           doc  == PiecesOfDocument
<1>1. MapTypeOK /\ Valid /\ Proper
      BY DEF MapInv, Validated
<1>2. /\ n \in Nat /\ DOMAIN TimedPieces = 1..n
      /\ Timed(TimedPieces) /\ Monotonic(TimedPieces)
      /\ \A i \in 1..n : 0 <= TimedPieces[i].start /\ TimedPieces[i].start < TimedPieces[i].end
  <2>1. CASE words # <<>>
        BY <1>1, <2>1, Shapes DEF TimedPieces, Timed, Valid, Proper
  <2>2. CASE words = <<>>
        BY <1>1, <2>2, Shapes DEF TimedPieces, Timed, Valid, Proper
  <2> QED BY <2>1, <2>2
<1>3. /\ text \in [0..Len(output.items) -> Nat]
      /\ \A i, j \in 0..Len(output.items) : i <= j => text[i] <= text[j]
      /\ Len(output.items) \in Nat
  <2>1. Texts(output.items)
    <3>1. output.items \in Seq(ItemType)
          BY <1>1, OutputsAssumption DEF MapTypeOK
    <3>2. Len(output.items) \in Nat /\ \A i \in 1..Len(output.items) : output.items[i] \in ItemType
          BY <3>1
    <3> QED BY <3>2 DEF Texts, ItemType
  <2> QED BY <2>1, RunningTextIs, RunningTextGrows DEF Texts
<1>4. /\ doc.n = n
      /\ doc.start = [i \in 1..n |-> TimedPieces[i].start]
      /\ doc.end = [i \in 1..n |-> TimedPieces[i].end]
      /\ doc.text = [i \in 0..n |-> IF i = 0 THEN 0 ELSE text[LastItem(i)]]
      /\ doc.terminal \subseteq 1..n
  <2>1. doc.text = TextUpTo
        BY DEF PiecesOfDocument
  <2> QED BY <2>1 DEF PiecesOfDocument, TextUpTo
<1> HIDE DEF doc, text, n
<1>5. /\ doc.start \in [1..n -> Nat] /\ doc.end \in [1..n -> Nat]
      /\ \A i \in 1..n : doc.start[i] < doc.end[i]
  <2>1. ASSUME NEW i \in 1..n PROVE TimedPieces[i].start \in Nat /\ TimedPieces[i].end \in Nat
        BY <1>2 DEF Timed
  <2> QED BY <1>2, <1>4, <2>1
<1>6. ASSUME NEW i \in 1..n, NEW j \in 1..n, i <= j
      PROVE  doc.start[i] <= doc.start[j] /\ doc.end[i] <= doc.end[j]
  <2>1. i \in DOMAIN TimedPieces /\ j \in DOMAIN TimedPieces
        BY <1>2
  <2>2. TimedPieces[i].start <= TimedPieces[j].start /\ TimedPieces[i].end <= TimedPieces[j].end
        BY <1>2, <1>6, <2>1, MonotonicPairs
  <2>3. /\ doc.start[i] = TimedPieces[i].start /\ doc.start[j] = TimedPieces[j].start
        /\ doc.end[i] = TimedPieces[i].end /\ doc.end[j] = TimedPieces[j].end
        BY <1>4
  <2> QED BY <2>2, <2>3
<1>7. \A i \in 1..n : LastItem(i) \in 0..Len(output.items)
      BY LastItems DEF n
<1>8. doc.text \in [0..n -> Nat]
  <2>1. ASSUME NEW i \in 0..n PROVE (IF i = 0 THEN 0 ELSE text[LastItem(i)]) \in Nat
    <3>1. CASE i = 0
          BY <3>1
    <3>2. CASE i # 0
      <4>1. i \in 1..n
            BY <1>2, <3>2
      <4> QED BY <1>3, <1>7, <3>2, <4>1
    <3> QED BY <3>1, <3>2
  <2> QED BY <1>4, <2>1
<1>9. ASSUME NEW i \in 0..n, NEW j \in 0..n, i <= j
      PROVE  doc.text[i] <= doc.text[j]
  <2>1. CASE i = 0
    <3>1. doc.text[i] = 0 /\ doc.text[j] \in Nat
          BY <1>4, <1>8, <2>1
    <3> QED BY <3>1
  <2>2. CASE i # 0
    <3>1. i \in 1..n /\ j \in 1..n /\ j # 0
          BY <1>2, <1>9, <2>2
    <3>2. doc.text[i] = text[LastItem(i)] /\ doc.text[j] = text[LastItem(j)]
          BY <1>4, <2>2, <3>1
    <3>3. LastItem(i) <= LastItem(j)
          BY <1>9, <3>1, LastItems DEF n
    <3> QED BY <1>3, <1>7, <3>1, <3>2, <3>3
  <2> QED BY <2>1, <2>2
<1>10. WellFormed(doc)
       BY <1>2, <1>4, <1>5, <1>6, <1>8, <1>9 DEF WellFormed, Pieces
<1> QED BY <1>10 DEF doc

(* While the mapping runs, Segmentation waits for its transcript.          *)
Waits ==
  /\ at = "windows" /\ window = 1 /\ proposed = {}
  /\ index = 1 /\ cueStart = 1 /\ candidate = 0 /\ selected = {}

PathInv ==
  /\ IInv
  /\ IF segmenting THEN stage = "returned" ELSE MapInv /\ Waits

LEMMA PathInvariant == PathSpec => []PathInv
<1>1. PathInit => PathInv
      BY MapInvInit, IInvInit DEF PathInit, PathInv, Waits, Init
<1>2. PathInv /\ [PathNext]_pathVars => PathInv'
  <2> SUFFICES ASSUME PathInv, [PathNext]_pathVars PROVE PathInv'
      OBVIOUS
  <2>1. CASE ~segmenting /\ MappingNext /\ UNCHANGED <<vars, segmenting>>
    <3>1. IInv'
          BY <2>1, IInvKept DEF PathInv
    <3>2. MapInv' /\ Waits'
          BY <2>1, MapInvStep DEF PathInv, Waits, vars
    <3> QED BY <2>1, <3>1, <3>2 DEF PathInv
  <2>2. CASE HandOver
    <3>1. MapInv /\ Waits /\ stage = "accepted" /\ transcript' = PiecesOfDocument
          BY <2>2 DEF HandOver, PathInv
    <3>2. WellFormed(transcript)'
          BY <3>1, HandsOver DEF WellFormed, Pieces
    <3>3. Waits'
          BY <2>2, <3>1 DEF HandOver, Waits
    <3>4. TypeOK'
      <4>1. transcript'.n \in Nat
            BY <3>2 DEF WellFormed
      <4> QED BY <3>2, <3>3, <4>1 DEF TypeOK, Waits
    <3>5. IInv'
          BY <3>3, <3>4 DEF IInv, Waits, Place, Start, Kept, Short, Cuttable, Near, Forced, Scanned
    <3> QED BY <2>2, <3>5 DEF HandOver, PathInv
  <2>3. CASE segmenting /\ Next /\ UNCHANGED <<mappingVars, segmenting>>
    <3>1. IInv'
          BY <2>3, IInvKept DEF PathInv
    <3> QED BY <2>3, <3>1 DEF PathInv, mappingVars
  <2>4. CASE UNCHANGED pathVars
    <3>1. UNCHANGED <<vars, mappingVars, segmenting>>
          BY <2>4 DEF pathVars
    <3>2. IInv' /\ (Waits' <=> Waits) /\ stage' = stage
          BY <3>1, IInvKept DEF PathInv, Waits, vars, mappingVars
    <3> QED BY <3>1, <3>2, MapInvStep DEF PathInv, mappingVars
  <2> QED BY <2>1, <2>2, <2>3, <2>4 DEF PathNext
<1> QED BY <1>1, <1>2, PTL DEF PathSpec

(* What the mapping hands over is what Segmentation relies on: its theorems *)
(* hold of every document that a Worker returns.                           *)
THEOREM HandsOverWellFormed == PathSpec => [][HandOver => WellFormed(transcript)']_pathVars
<1>1. PathInv /\ [PathNext]_pathVars => [HandOver => WellFormed(transcript)']_pathVars
  <2> SUFFICES ASSUME PathInv, HandOver PROVE WellFormed(transcript)'
      OBVIOUS
  <2>1. MapInv /\ stage = "accepted" /\ transcript' = PiecesOfDocument
        BY DEF HandOver, PathInv
  <2> QED BY <2>1, HandsOver DEF WellFormed, Pieces
<1> QED BY <1>1, PathInvariant, PTL DEF PathSpec

(* For any output of a library, however its items are timed and grouped:   *)
(* no text is lost on the way to a document, nor moved past another.       *)
THEOREM TextKeptHolds == PathSpec => []TextKept
<1>1. PathInv => TextKept
      BY KeepsText DEF PathInv, TextKept
<1> QED BY <1>1, PathInvariant, PTL

(* The segments of a document divide its words, in order.                  *)
THEOREM WordsDividedHolds == PathSpec => []WordsDivided
<1>1. PathInv => WordsDivided
      BY DividesWords DEF PathInv, WordsDivided
<1> QED BY <1>1, PathInvariant, PTL

(* Of NeMo and of Qwen3 with its aligner: only words that go back in time  *)
(* make a document that has words invalid.  Faster Whisper's results, and  *)
(* Qwen3's without words, are not covered: their segments overlap also     *)
(* where nothing else is wrong.                                            *)
THEOREM SegmentsFitHolds == PathSpec => []SegmentsFit
<1>1. PathInv => SegmentsFit
      BY FitsSegments DEF PathInv, SegmentsFit
<1> QED BY <1>1, PathInvariant, PTL

(* The promises of the segmentation hold of the documents that the mapping *)
(* hands over: its assumption on the transcript is the mapping's work.     *)
THEOREM CuesOfDocumentsHold == PathSpec => [](ProposalsKept /\ NearLimits /\ CutsForced)
<1>1. PathInv => ProposalsKept /\ NearLimits /\ CutsForced
      BY KeepsProposals, KeepsCues DEF PathInv
<1> QED BY <1>1, PathInvariant, PTL
=============================================================================
