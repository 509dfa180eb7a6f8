-------------------------- MODULE TranscriptToCues --------------------------
(***************************************************************************)
(* TranscriptMapping and Segmentation one after the other: what an ASR     *)
(* library returns is mapped in the Worker, and the accepted document is   *)
(* segmented.  Transcripts holds the empty one alone, which Segmentation   *)
(* has until it gets the document.                                         *)
(***************************************************************************)
EXTENDS Segmentation, TranscriptMapping

VARIABLE segmenting

pathVars == <<vars, mappingVars, segmenting>>

PathInit == Init /\ MappingInit /\ segmenting = FALSE

(* _pieces: the words, or the segments when there are none.                *)
TimedPieces == IF words # <<>> THEN words ELSE segments

(* How much text the first i pieces hold; a native segment is an item.     *)
ItemsOf(piece)  == IF words # <<>> THEN TimedPieces[piece].items ELSE <<piece>>
LastItem(piece) == ItemsOf(piece)[Len(ItemsOf(piece))]

RunningText(items) ==
  LET sum[i \in 0..Len(items)] == IF i = 0 THEN 0 ELSE sum[i - 1] + items[i].text
  IN sum

TextUpTo ==
  [i \in 0..Len(TimedPieces) |-> IF i = 0 THEN 0 ELSE RunningText(output.items)[LastItem(i)]]

PiecesOfDocument ==
  LET n == Len(TimedPieces) IN
  [ n        |-> n,
    start    |-> [i \in 1..n |-> TimedPieces[i].start],
    end      |-> [i \in 1..n |-> TimedPieces[i].end],
    text     |-> TextUpTo,
    terminal |-> {i \in 1..n : output.items[LastItem(i)].terminal} ]

(* The Worker keeps nothing of the document that it has returned.          *)
HandOver ==
  /\ ~segmenting /\ stage = "accepted"
  /\ segmenting' = TRUE
  /\ transcript' = PiecesOfDocument
  /\ output' = [output EXCEPT !.items = <<>>, !.groups = <<>>, !.provider = "none"]
  /\ words' = <<>> /\ segments' = <<>> /\ next' = 1 /\ group' = 1 /\ stage' = "returned"
  /\ UNCHANGED <<pending, at, window, proposed, index, cueStart, candidate, selected>>

PathNext ==
  \/ ~segmenting /\ MappingNext /\ UNCHANGED <<vars, segmenting>>
  \/ HandOver
  \/ segmenting /\ Next /\ UNCHANGED <<mappingVars, segmenting>>

PathSpec == PathInit /\ [][PathNext]_pathVars
=============================================================================
