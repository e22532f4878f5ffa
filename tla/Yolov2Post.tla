------------------------------ MODULE Yolov2Post ------------------------------
(***************************************************************************)
(* The post-processing of one inference (od_pp_yolov2.c), called by        *)
(* run_nn_from_sd_card without a scratch buffer: the boxes are decoded in  *)
(* place, over the network's raw output, then filtered and copied out.     *)
(*                                                                         *)
(* A slot stands for the words of one anchor and for the box record that   *)
(* may be written over them: od_yolov2_pp_process works in place only if   *)
(* the record is not longer than the anchor's words, so the k-th record    *)
(* lies within the words of the first k anchors.  Of the arithmetic, the   *)
(* order of the scores and which boxes overlap by more than iou_threshold  *)
(* is kept; a score below conf_threshold is 0.                             *)
(***************************************************************************)
EXTENDS Naturals, Sequences, FiniteSets

CONSTANTS
  NbBoxes,    (* anchors in the grid: grid_width * grid_height * nb_anchors  *)
  NbClasses,  (* nb_classes                                                  *)
  MaxBoxes,   (* max_boxes_limit                                             *)
  MaxScore    (* bound: scores are 0..MaxScore                               *)

ASSUME SizesAssumption ==
  NbBoxes \in Nat /\ NbClasses \in Nat \ {0} /\ MaxBoxes \in Nat /\ MaxScore \in Nat

Anchors == 1..NbBoxes
Slots == 1..(NbBoxes + 1)      (* with the words after the output            *)
Classes == 0..(NbClasses - 1)

VARIABLES
  pc,         (* the stage: "decode", "sort", "suppress", "limit", "score"   *)
  raw,        (* what the network found: the score and class of each anchor  *)
  overlaps,   (* pairs of boxes that overlap by more than iou_threshold      *)
  buf,        (* pScratchBuff: a box, which knows its anchor, and its conf   *)
  e,          (* the loop's index: the anchor; then i or y of the NMS        *)
  nbDetect,   (* count_detect, nb_detect                                     *)
  k,          (* AI_YOLOV2_PP_SORT_CLASS                                     *)
  counter,    (* limit_counter                                               *)
  out         (* pOutput: what pOutBuff holds, nb_detect entries             *)

vars == <<pc, raw, overlaps, buf, e, nbDetect, k, counter, out>>
inputs == <<raw, overlaps>>

Overlap(a, b) == {a, b} \in overlaps

Init ==
  /\ pc = "decode"
  /\ raw \in [Anchors -> [score : 0..MaxScore, class : Classes]]
  /\ overlaps \in SUBSET {{a, b} : a \in Anchors, b \in Anchors}
  /\ \A a \in Anchors : {a} \in overlaps
  /\ buf = [s \in Slots |-> [box |-> s, conf |-> IF s \in Anchors THEN raw[s].score ELSE 0]]
  /\ e = 1 /\ nbDetect = 0 /\ k = 0 /\ counter = 0 /\ out = <<>>

-----------------------------------------------------------------------------
(* yolov2_pp_getNNBoxes_centroid: a turn of its loops; anchor e is read where it is *)

(* Variant: the record goes one slot further. *)
DecodeAhead ==
  /\ pc = "decode" /\ e <= NbBoxes
  /\ IF buf[e].conf > 0
     THEN /\ buf' = [buf EXCEPT ![nbDetect + 2] = buf[e]]
          /\ nbDetect' = nbDetect + 1
     ELSE UNCHANGED <<buf, nbDetect>>
  /\ e' = e + 1
  /\ UNCHANGED <<pc, inputs, k, counter, out>>

Decode ==
  /\ pc = "decode" /\ e <= NbBoxes
  /\ IF buf[e].conf > 0
     THEN /\ buf' = [buf EXCEPT ![nbDetect + 1] = buf[e]]
          /\ nbDetect' = nbDetect + 1
     ELSE UNCHANGED <<buf, nbDetect>>
  /\ e' = e + 1
  /\ UNCHANGED <<pc, inputs, k, counter, out>>

Decoded ==
  /\ pc = "decode" /\ e > NbBoxes
  /\ pc' = "sort"
  /\ UNCHANGED <<inputs, buf, e, nbDetect, k, counter, out>>

-----------------------------------------------------------------------------
(* yolov2_pp_nmsFiltering_centroid *)

Detected == 1..nbDetect

(* Variant: the smaller score first. *)
InverseOrder(x, y) == x.conf <= y.conf

(* yolov2_nms_comparator: may x stand before y? *)
InOrder(x, y) ==
  LET key(z) == IF raw[z.box].class = k THEN z.conf ELSE 0 IN key(x) >= key(y)

Orders == {p \in [Detected -> Detected] : \A a, b \in Detected : a # b => p[a] # p[b]}

(* qsort: any order of the detections that the comparator accepts *)
Sort ==
  /\ pc = "sort"
  /\ \E p \in Orders :
       /\ \A a, b \in Detected : a < b => InOrder(buf[p[a]], buf[p[b]])
       /\ buf' = [s \in Slots |-> IF s \in Detected THEN buf[p[s]] ELSE buf[s]]
  /\ pc' = "suppress" /\ e' = 1 /\ counter' = 0
  /\ UNCHANGED <<inputs, nbDetect, k, out>>

(* Variant: only the neighbour is compared. *)
SuppressesNext(i, j) ==
  j \in Detected /\ j = i + 1 /\ buf[i].conf > 0 /\ Overlap(buf[i].box, buf[j].box)

(* Does box i, still kept, suppress box j? *)
Suppresses(i, j) ==
  j \in Detected /\ j > i /\ buf[i].conf > 0 /\ Overlap(buf[i].box, buf[j].box)

Suppress ==
  /\ pc = "suppress" /\ e <= nbDetect
  /\ buf' = [s \in Slots |-> IF Suppresses(e, s) THEN [buf[s] EXCEPT !.conf = 0] ELSE buf[s]]
  /\ e' = e + 1
  /\ UNCHANGED <<pc, inputs, nbDetect, k, counter, out>>

Suppressed ==
  /\ pc = "suppress" /\ e > nbDetect
  /\ pc' = "limit" /\ e' = 1
  /\ UNCHANGED <<inputs, buf, nbDetect, k, counter, out>>

(* Variant: one box too many. *)
WithinLimitOrNext == counter <= MaxBoxes

WithinLimit == counter < MaxBoxes

(* Only the first MaxBoxes kept boxes stay.  The loop runs to y <= nb_detect: it
   also touches the slot after the detections. *)
Limit ==
  /\ pc = "limit" /\ e <= nbDetect + 1
  /\ IF WithinLimit /\ buf[e].conf > 0
     THEN counter' = counter + 1 /\ UNCHANGED buf
     ELSE buf' = [buf EXCEPT ![e].conf = 0] /\ UNCHANGED counter
  /\ e' = e + 1
  /\ UNCHANGED <<pc, inputs, nbDetect, k, out>>

(* On to the next class. *)
Limited ==
  /\ pc = "limit" /\ e > nbDetect + 1
  /\ k' = k + 1 /\ e' = 1
  /\ pc' = IF k + 1 < NbClasses THEN "sort" ELSE "score"
  /\ UNCHANGED <<inputs, buf, nbDetect, counter, out>>

-----------------------------------------------------------------------------
(* yolov2_pp_scoreFiltering_centroid: the kept boxes are copied out *)

Score ==
  /\ pc = "score" /\ e <= nbDetect
  /\ out' = IF buf[e].conf > 0 THEN Append(out, buf[e]) ELSE out
  /\ e' = e + 1
  /\ UNCHANGED <<pc, inputs, buf, nbDetect, k, counter>>

Scored ==
  /\ pc = "score" /\ e > nbDetect
  /\ pc' = "done"
  /\ UNCHANGED <<inputs, buf, e, nbDetect, k, counter, out>>

Next ==
  \/ Decode \/ Decoded \/ Sort \/ Suppress \/ Suppressed \/ Limit \/ Limited
  \/ Score \/ Scored

Spec == Init /\ [][Next]_vars

-----------------------------------------------------------------------------
(* Properties *)

Results == {out[i] : i \in DOMAIN out}

(* Decoding over the raw data loses nothing: each anchor above the threshold becomes
   one detection with its own score, and nothing else does. *)
DecodedInPlace ==
  pc = "sort" /\ k = 0 =>
    /\ \A s \in Detected : buf[s].conf = raw[buf[s].box].score
    /\ \A s, t \in Detected : s # t => buf[s].box # buf[t].box
    /\ {buf[s].box : s \in Detected} = {a \in Anchors : raw[a].score > 0}

(* No more boxes are handed out than pp_detections_buffer has room for. *)
FitsBuffer == Len(out) <= MaxBoxes

(* Two boxes in the result never overlap, whatever their classes. *)
ResultsDisjoint ==
  \A i, j \in DOMAIN out : i # j => ~Overlap(out[i].box, out[j].box)

(* With one class, the result is what the greedy non-maximum suppression promises:
   a detection is left out only for a kept one, at least as good, that it overlaps,
   or because the limit is used up by boxes at least as good. *)
LeftOutForBetter ==
  pc = "done" =>
    \A a \in Anchors :
      raw[a].score > 0 /\ (\A x \in Results : x.box # a) =>
        \/ \E x \in Results : Overlap(x.box, a) /\ x.conf >= raw[a].score
        \/ Len(out) = MaxBoxes /\ \A x \in Results : x.conf >= raw[a].score
=============================================================================
