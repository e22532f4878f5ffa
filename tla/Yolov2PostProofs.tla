--------------------------- MODULE Yolov2PostProofs ---------------------------
(***************************************************************************)
(* The post-processing for any grid, number of classes, limit, scores and  *)
(* overlaps.                                                               *)
(*                                                                         *)
(* The invariant is a list of what each loop has established when it is at *)
(* its index: the decoder, that the boxes behind it are those of the       *)
(* anchors behind it; the suppression, that the boxes it kept are apart;   *)
(* the limit, how many it kept; the copy, which boxes it copied.  With one *)
(* class, the order of the sort and the reason why each box was dropped    *)
(* come on top (OneClass).                                                 *)
(***************************************************************************)
EXTENDS Yolov2Post, FiniteSetTheorems, FunctionTheorems, TLAPS

Boxes == [box : Slots, conf : 0..MaxScore]

TypeOK ==
  /\ pc \in {"decode", "sort", "suppress", "limit", "score", "done"}
  /\ raw \in [Anchors -> [score : 0..MaxScore, class : Classes]]
  /\ buf \in [Slots -> Boxes]
  /\ e \in Nat \ {0} /\ nbDetect \in 0..NbBoxes /\ k \in Nat /\ counter \in 0..MaxBoxes
  /\ out \in Seq(Boxes)

IsKept(s) == buf[s].conf > 0

(* The kept boxes before slot n *)
Kept(n) == {s \in Detected : s < n /\ IsKept(s)}

(* Each detection is a box of an anchor above the threshold, and each such anchor has
   one; behind the decoder while it runs. *)
ToDecode == IF pc = "decode" THEN e ELSE NbBoxes + 1

DecodedOnce ==
  /\ \A s \in Detected : buf[s].box \in Anchors /\ buf[s].box < ToDecode
  /\ \A s \in Detected : raw[buf[s].box].score > 0
  /\ \A s, t \in Detected : s # t => buf[s].box # buf[t].box
  /\ \A a \in Anchors : a < ToDecode /\ raw[a].score > 0 => \E s \in Detected : buf[s].box = a

(* The decoder has not yet written over what it has to read. *)
Unread ==
  pc = "decode" =>
    /\ nbDetect < e /\ e <= NbBoxes + 1
    /\ \A a \in Anchors : a >= e => buf[a] = [box |-> a, conf |-> raw[a].score]

(* A box has its score, until it is dropped. *)
Scores ==
  /\ \A s \in Detected : buf[s].conf \in {0, raw[buf[s].box].score}
  /\ pc = "decode" => k = 0
  /\ k = 0 /\ pc \in {"decode", "sort"} =>
       \A s \in Detected : buf[s].conf = raw[buf[s].box].score

(* Kept boxes do not overlap, as far as the suppression has come. *)
Compared(i, j) ==
  \/ pc = "suppress" /\ (i < e \/ j < e)
  \/ pc \in {"limit", "score", "done"}
Apart ==
  \A i, j \in Detected :
    i # j /\ IsKept(i) /\ IsKept(j) /\ Compared(i, j) => ~Overlap(buf[i].box, buf[j].box)

(* The limit counts what it keeps (at the end perhaps the slot after the detections,
   too). *)
Counted ==
  /\ pc = "suppress" => counter = 0
  /\ pc = "limit" =>
       /\ e <= nbDetect + 2 /\ Cardinality(Kept(e)) <= counter
       /\ e <= nbDetect + 1 => Cardinality(Kept(e)) = counter
  /\ pc \in {"score", "done"} => Cardinality(Kept(nbDetect + 1)) <= MaxBoxes

(* The result holds the kept boxes behind the copy, each once. *)
Copied ==
  /\ pc \notin {"score", "done"} => out = <<>>
  /\ pc \in {"score", "done"} =>
       /\ e <= nbDetect + 1 /\ (pc = "done" => e = nbDetect + 1)
       /\ Len(out) = Cardinality(Kept(e))
       /\ \A i \in DOMAIN out : \E s \in Kept(e) : out[i] = buf[s]
       /\ \A i, j \in DOMAIN out : i # j => out[i].box # out[j].box
       /\ \A s \in Kept(e) : \E i \in DOMAIN out : out[i] = buf[s]

Invariant ==
  TypeOK /\ DecodedOnce /\ Unread /\ Scores /\ Apart /\ Counted /\ Copied

-----------------------------------------------------------------------------
(* Slots and what is kept in them *)

LEMMA SlotFacts ==
  ASSUME TypeOK
  PROVE  /\ Detected \subseteq Slots /\ Detected \subseteq Nat /\ Slots \subseteq Nat
         /\ Anchors \subseteq Slots /\ nbDetect + 1 \in Slots /\ nbDetect \in Nat
         /\ \A s \in Slots : buf[s] \in Boxes /\ buf[s].box \in Slots /\ buf[s].conf \in Nat
         /\ \A a \in Anchors : raw[a].score \in Nat
<1>1. \A s \in Slots : buf[s] \in Boxes
  BY DEF TypeOK
<1>2. \A b \in Boxes : b.box \in Slots /\ b.conf \in Nat
  BY SizesAssumption DEF Boxes
<1> QED BY <1>1, <1>2, SizesAssumption DEF TypeOK, Detected, Slots, Anchors

(* There are finitely many kept boxes, and one more slot adds one or none. *)
LEMMA KeptNext ==
  ASSUME TypeOK, NEW n \in Nat
  PROVE  /\ IsFiniteSet(Kept(n)) /\ Cardinality(Kept(n)) \in Nat
         /\ Cardinality(Kept(n + 1)) =
              Cardinality(Kept(n)) + (IF n \in Detected /\ IsKept(n) THEN 1 ELSE 0)
         /\ Kept(n + 1) = IF n \in Detected /\ IsKept(n) THEN Kept(n) \cup {n} ELSE Kept(n)
         /\ n \notin Kept(n)
<1>1. IsFiniteSet(Detected)
  BY FS_Interval, SlotFacts DEF Detected
<1>2. IsFiniteSet(Kept(n))
  BY <1>1, FS_Subset DEF Kept
<1>3. Cardinality(Kept(n)) \in Nat
  BY <1>2, FS_CardinalityType
<1>4. /\ Kept(n + 1) = IF n \in Detected /\ IsKept(n) THEN Kept(n) \cup {n} ELSE Kept(n)
      /\ n \notin Kept(n)
  BY SlotFacts DEF Kept
<1>5. Cardinality(Kept(n) \cup {n}) = Cardinality(Kept(n)) + 1
  BY <1>2, <1>4, FS_AddElement
<1> QED BY <1>2, <1>3, <1>4, <1>5

LEMMA NoneKept ==
  ASSUME TypeOK, NEW n \in Nat, n <= 1
  PROVE  Kept(n) = {} /\ Cardinality(Kept(n)) = 0
<1>1. Kept(n) = {}
  BY DEF Kept, Detected
<1> QED BY <1>1, FS_EmptySet

(* All of them are kept behind the last.                                   *)
LEMMA AllKept ==
  ASSUME TypeOK, NEW n \in Nat, n > nbDetect
  PROVE  Kept(n) = Kept(nbDetect + 1)
BY SlotFacts DEF Kept, Detected

(* The boxes stay, and so what is kept of them.                            *)
LEMMA SameKept ==
  ASSUME buf' = buf, nbDetect' = nbDetect
  PROVE  /\ Detected' = Detected /\ \A s : IsKept(s)' = IsKept(s)
         /\ Kept(e)' = Kept(e') /\ Kept(nbDetect + 1)' = Kept(nbDetect + 1)
BY DEF Kept, Detected, IsKept

-----------------------------------------------------------------------------
(* The steps *)

LEMMA InitHolds == Init => Invariant
<1> SUFFICES ASSUME Init PROVE Invariant
  OBVIOUS
<1>1. \A a \in Anchors : raw[a].score \in 0..MaxScore
  BY DEF Init
<1>2. Detected = {} /\ Slots \subseteq Nat /\ Anchors \subseteq Slots
  BY SizesAssumption DEF Init, Detected, Slots, Anchors
<1>3. buf \in [Slots -> Boxes]
  BY <1>1, SizesAssumption DEF Init, Boxes
<1>4. TypeOK
  BY <1>3, SizesAssumption DEF Init, TypeOK
<1>5. Unread
  BY <1>2, SizesAssumption DEF Init, Unread, Anchors
<1>6. DecodedOnce
  BY <1>2, SizesAssumption DEF Init, DecodedOnce, ToDecode, Anchors
<1> QED BY <1>2, <1>4, <1>5, <1>6 DEF Init, Invariant, Scores, Apart, Counted, Copied

(* The record of an anchor is written where an anchor that has been read   *)
(* was, or over itself.                                                    *)
LEMMA DecodeKeeps ==
  ASSUME Invariant, Decode
  PROVE  Invariant'
<1> USE DEF Invariant
<1>1. /\ pc = "decode" /\ pc' = "decode" /\ e <= NbBoxes /\ e' = e + 1
      /\ UNCHANGED <<raw, overlaps, k, counter, out>>
      /\ IF buf[e].conf > 0
         THEN buf' = [buf EXCEPT ![nbDetect + 1] = buf[e]] /\ nbDetect' = nbDetect + 1
         ELSE buf' = buf /\ nbDetect' = nbDetect
  BY DEF Decode, inputs
<1>2. /\ e \in Anchors /\ e \in Nat /\ nbDetect < e /\ k = 0
      /\ buf[e] = [box |-> e, conf |-> raw[e].score] /\ raw[e].score \in Nat
  BY <1>1, SlotFacts, SizesAssumption DEF Unread, Anchors, TypeOK, Scores
<1>3. /\ nbDetect \in Nat /\ nbDetect + 1 \in Slots /\ nbDetect + 1 \in 0..NbBoxes
      /\ buf \in [Slots -> Boxes] /\ buf[e] \in Boxes
  BY <1>1, <1>2, SlotFacts, SizesAssumption DEF TypeOK
<1>4. TypeOK'
  <2>1. buf' \in [Slots -> Boxes] /\ nbDetect' \in 0..NbBoxes
    BY <1>1, <1>3, SizesAssumption DEF TypeOK
  <2> QED BY <1>1, <1>2, <2>1 DEF TypeOK
<1>5. Unread'
  <2>1. ASSUME NEW a \in Anchors, a >= e + 1
        PROVE  buf'[a] = buf[a] /\ a \in Nat /\ a >= e
    BY <1>1, <1>2, <1>3, <2>1, SlotFacts DEF Anchors
  <2>2. nbDetect' < e' /\ e' <= NbBoxes + 1
    BY <1>1, <1>2, <1>3, SizesAssumption
  <2> QED BY <1>1, <2>1, <2>2 DEF Unread
<1>6. CASE buf[e].conf > 0
  <2>1. Detected' = Detected \cup {nbDetect + 1} /\ nbDetect + 1 \notin Detected
    BY <1>1, <1>6, SlotFacts DEF Detected
  <2>2. buf'[nbDetect + 1] = buf[e] /\ \A s \in Detected : buf'[s] = buf[s]
    BY <1>1, <1>6, <2>1, SlotFacts DEF TypeOK
  <2>3. buf'[nbDetect + 1].box = e /\ buf'[nbDetect + 1].conf = raw[e].score /\ raw[e].score > 0
    BY <1>2, <1>6, <2>2
  <2>4. DecodedOnce'
    BY <1>1, <1>2, <2>1, <2>2, <2>3, SlotFacts DEF DecodedOnce, ToDecode, Anchors
  <2>5. Scores'
    BY <1>1, <1>2, <2>1, <2>2, <2>3 DEF Scores
  <2> QED BY <1>1, <1>4, <1>5, <2>4, <2>5 DEF Apart, Compared, Counted, Copied
<1>7. CASE ~(buf[e].conf > 0)
  <2>1. Detected' = Detected /\ buf' = buf /\ raw[e].score = 0
    BY <1>1, <1>2, <1>7 DEF Detected
  <2>2. DecodedOnce'
    BY <1>1, <1>2, <2>1, SlotFacts DEF DecodedOnce, ToDecode, Anchors
  <2>3. Scores'
    BY <1>1, <2>1 DEF Scores
  <2> QED BY <1>1, <1>4, <1>5, <2>2, <2>3 DEF Apart, Compared, Counted, Copied
<1> QED BY <1>6, <1>7

LEMMA DecodedKeeps ==
  ASSUME Invariant, Decoded
  PROVE  Invariant'
<1> USE DEF Invariant
<1>1. /\ pc = "decode" /\ pc' = "sort" /\ e > NbBoxes
      /\ UNCHANGED <<raw, overlaps, buf, e, nbDetect, k, counter, out>>
  BY DEF Decoded, inputs
<1>2. TypeOK'
  BY <1>1 DEF TypeOK
<1>3. Detected' = Detected
  BY <1>1 DEF Detected
<1>4. DecodedOnce'
  BY <1>1, <1>3, SlotFacts, SizesAssumption DEF DecodedOnce, ToDecode, Anchors, TypeOK
<1>5. Scores'
  BY <1>1, <1>3 DEF Scores
<1> QED BY <1>1, <1>2, <1>4, <1>5 DEF Unread, Apart, Compared, Counted, Copied

(* A permutation of the detections reaches each of them.                   *)
LEMMA OrderFacts ==
  ASSUME TypeOK, NEW p \in Orders
  PROVE  /\ p \in [Detected -> Detected]
         /\ \A s, t \in Detected : s # t => p[s] # p[t]
         /\ \A t \in Detected : \E s \in Detected : p[s] = t
<1>1. p \in [Detected -> Detected] /\ \A s, t \in Detected : s # t => p[s] # p[t]
  BY DEF Orders
<1>2. p \in Injection(Detected, Detected)
  BY <1>1, Fun_IsInj
<1>3. IsFiniteSet(Detected)
  BY FS_Interval, SlotFacts DEF Detected
<1>4. p \in Surjection(Detected, Detected)
  BY <1>2, <1>3, FS_Injection
<1>5. \A t \in Detected : \E s \in Detected : p[s] = t
  BY <1>4 DEF Surjection
<1> QED BY <1>1, <1>5

LEMMA SortKeeps ==
  ASSUME Invariant, Sort
  PROVE  Invariant'
<1> USE DEF Invariant
<1>1. PICK p \in Orders :
        buf' = [s \in Slots |-> IF s \in Detected THEN buf[p[s]] ELSE buf[s]]
  BY DEF Sort
<1>2. /\ pc = "sort" /\ pc' = "suppress" /\ e' = 1 /\ counter' = 0
      /\ UNCHANGED <<raw, overlaps, nbDetect, k, out>>
  BY DEF Sort, inputs
<1>3. /\ \A s \in Detected : p[s] \in Detected
      /\ \A s, t \in Detected : s # t => p[s] # p[t]
      /\ \A t \in Detected : \E s \in Detected : p[s] = t
  BY OrderFacts
<1>4. Detected' = Detected /\ \A s \in Detected : buf'[s] = buf[p[s]]
  BY <1>1, <1>2, SlotFacts DEF Detected
<1>5. TypeOK'
  <2>1. buf' \in [Slots -> Boxes]
    BY <1>1, <1>3, SlotFacts
  <2> QED BY <1>2, <2>1, SizesAssumption DEF TypeOK
<1>6. DecodedOnce'
  <2>1. \A s \in Detected : /\ buf'[s].box \in Anchors /\ buf'[s].box < NbBoxes + 1
                            /\ raw[buf'[s].box].score > 0
    BY <1>2, <1>3, <1>4 DEF DecodedOnce, ToDecode
  <2>2. ASSUME NEW s \in Detected, NEW t \in Detected, s # t
        PROVE  buf'[s].box # buf'[t].box
    <3>1. p[s] \in Detected /\ p[t] \in Detected /\ p[s] # p[t]
      BY <1>3, <2>2
    <3>2. buf[p[s]].box # buf[p[t]].box
      BY <3>1 DEF DecodedOnce
    <3> QED BY <1>4, <3>2
  <2>3. ASSUME NEW a \in Anchors, a < NbBoxes + 1, raw[a].score > 0
        PROVE  \E s \in Detected : buf'[s].box = a
    <3>1. PICK t \in Detected : buf[t].box = a
      BY <1>2, <2>3 DEF DecodedOnce, ToDecode
    <3>2. PICK s \in Detected : p[s] = t
      BY <1>3
    <3> QED BY <1>4, <3>1, <3>2
  <2> QED BY <1>2, <1>4, <2>1, <2>2, <2>3 DEF DecodedOnce, ToDecode
<1>7. Scores'
  BY <1>2, <1>3, <1>4 DEF Scores
<1>8. Apart'
  BY <1>2, <1>4, SlotFacts DEF Apart, Compared, Detected
<1> QED BY <1>2, <1>5, <1>6, <1>7, <1>8 DEF Unread, Counted, Copied

(* Boxes are dropped, and nothing else changes.                            *)
LEMMA DropsKeep ==
  ASSUME Invariant, pc \notin {"decode", "sort"}, pc' \notin {"decode", "sort"},
         UNCHANGED <<raw, overlaps, nbDetect, k>>,
         \A s \in Detected : buf'[s].box = buf[s].box /\ buf'[s].conf \in {0, buf[s].conf}
  PROVE  /\ Detected' = Detected /\ DecodedOnce' /\ Scores'
         /\ \A s \in Detected : IsKept(s)' => IsKept(s) /\ buf'[s].conf = buf[s].conf
<1> USE DEF Invariant
<1>1. Detected' = Detected
  BY DEF Detected
<1>2. DecodedOnce'
  BY <1>1 DEF DecodedOnce, ToDecode
<1>3. Scores'
  BY <1>1 DEF Scores
<1>4. \A s \in Detected : IsKept(s)' => IsKept(s) /\ buf'[s].conf = buf[s].conf
  BY DEF IsKept
<1> QED BY <1>1, <1>2, <1>3, <1>4

(* What overlaps the box of this turn is dropped, if the box is kept.      *)
LEMMA SuppressKeeps ==
  ASSUME Invariant, Suppress
  PROVE  Invariant'
<1> USE DEF Invariant
<1>1. /\ pc = "suppress" /\ pc' = "suppress" /\ e <= nbDetect /\ e' = e + 1
      /\ UNCHANGED <<raw, overlaps, nbDetect, k, counter, out>>
      /\ buf' = [s \in Slots |-> IF Suppresses(e, s) THEN [buf[s] EXCEPT !.conf = 0] ELSE buf[s]]
  BY DEF Suppress, inputs
<1>2. ASSUME NEW s \in Slots
      PROVE  /\ buf'[s] \in Boxes /\ buf'[s].box = buf[s].box
             /\ IF Suppresses(e, s) THEN buf'[s].conf = 0 ELSE buf'[s].conf = buf[s].conf
  <2>1. buf[s] \in Boxes
    BY SlotFacts
  <2>2. CASE Suppresses(e, s)
    <3>1. buf'[s] = [buf[s] EXCEPT !.conf = 0]
      BY <1>1, <2>2
    <3> QED BY <2>1, <2>2, <3>1, SizesAssumption DEF Boxes
  <2>3. CASE ~Suppresses(e, s)
    <3>1. buf'[s] = buf[s]
      BY <1>1, <2>3
    <3> QED BY <2>1, <2>3, <3>1
  <2> QED BY <2>2, <2>3
<1>3. TypeOK'
  <2>1. buf' \in [Slots -> Boxes]
    BY <1>1, <1>2
  <2> QED BY <1>1, <2>1 DEF TypeOK
<1>4. /\ Detected' = Detected /\ DecodedOnce' /\ Scores'
      /\ \A s \in Detected : IsKept(s)' => IsKept(s) /\ buf'[s].conf = buf[s].conf
  <2>1. \A s \in Detected : buf'[s].box = buf[s].box /\ buf'[s].conf \in {0, buf[s].conf}
    BY <1>2, SlotFacts
  <2> QED BY <1>1, <2>1, DropsKeep
<1>5. ASSUME NEW i \in Detected, NEW j \in Detected, i # j, i = e, ~(j < e),
             IsKept(i)', IsKept(j)'
      PROVE  ~Overlap(buf[i].box, buf[j].box)
  <2>1. j > e /\ j \in Slots
    BY <1>5, SlotFacts
  <2>2. IsKept(i)
    BY <1>4, <1>5
  <2>3. ~Suppresses(e, j)
    BY <1>2, <1>5, <2>1, SizesAssumption DEF IsKept
  <2> QED BY <1>5, <2>1, <2>2, <2>3 DEF Suppresses, IsKept
<1>6. Apart'
  <2> SUFFICES ASSUME NEW i \in Detected, NEW j \in Detected, i # j, IsKept(i)', IsKept(j)',
                      i < e + 1 \/ j < e + 1
               PROVE  ~Overlap(buf[i].box, buf[j].box)
    <3>1. \A s \in Detected : buf'[s].box = buf[s].box
      BY <1>2, SlotFacts
    <3> QED BY <1>1, <1>4, <3>1 DEF Apart, Compared, Overlap
  <2>1. IsKept(i) /\ IsKept(j) /\ i \in Nat /\ j \in Nat /\ e \in Nat
    BY <1>4, SlotFacts DEF TypeOK
  <2>2. CASE i < e \/ j < e
    BY <1>1, <2>1, <2>2 DEF Apart, Compared
  <2>3. CASE ~(i < e) /\ ~(j < e) /\ i = e
    BY <1>5, <2>3
  <2>4. CASE ~(i < e) /\ ~(j < e) /\ j = e
    <3>1. ~Overlap(buf[j].box, buf[i].box)
      BY <1>5, <2>4
    <3>2. {buf[i].box, buf[j].box} = {buf[j].box, buf[i].box}
      OBVIOUS
    <3> QED BY <3>1, <3>2 DEF Overlap
  <2> QED BY <2>1, <2>2, <2>3, <2>4
<1> QED BY <1>1, <1>3, <1>4, <1>6 DEF Unread, Counted, Copied

LEMMA SuppressedKeeps ==
  ASSUME Invariant, Suppressed
  PROVE  Invariant'
<1> USE DEF Invariant
<1>1. /\ pc = "suppress" /\ pc' = "limit" /\ e > nbDetect /\ e' = 1
      /\ UNCHANGED <<raw, overlaps, buf, nbDetect, k, counter, out>>
  BY DEF Suppressed, inputs
<1>2. TypeOK'
  BY <1>1 DEF TypeOK
<1>3. Detected' = Detected /\ \A s : IsKept(s)' = IsKept(s)
  BY <1>1 DEF Detected, IsKept
<1>4. DecodedOnce'
  BY <1>1, <1>3 DEF DecodedOnce, ToDecode
<1>5. Scores'
  BY <1>1, <1>3 DEF Scores
<1>6. Apart'
  <2>1. \A i, j \in Detected : i < e \/ j < e
    BY <1>1, SlotFacts DEF Detected, TypeOK
  <2> QED BY <1>1, <1>3, <2>1 DEF Apart, Compared, Overlap
<1>7. Counted'
  <2>1. Kept(e)' = {}
    BY <1>1, <1>3, SlotFacts DEF Kept, Detected
  <2> QED BY <1>1, <2>1, FS_EmptySet, SlotFacts DEF Counted
<1> QED BY <1>1, <1>2, <1>4, <1>5, <1>6, <1>7 DEF Unread, Copied

(* A turn keeps the box and counts it, or drops it.                        *)
LEMMA LimitKeeps ==
  ASSUME Invariant, Limit
  PROVE  Invariant'
<1> USE DEF Invariant
<1>1. /\ pc = "limit" /\ pc' = "limit" /\ e <= nbDetect + 1 /\ e' = e + 1
      /\ UNCHANGED <<raw, overlaps, nbDetect, k, out>>
      /\ IF WithinLimit /\ buf[e].conf > 0
         THEN counter' = counter + 1 /\ buf' = buf
         ELSE buf' = [buf EXCEPT ![e].conf = 0] /\ counter' = counter
  BY DEF Limit, inputs
<1>2. /\ e \in Nat \ {0} /\ e \in Slots /\ nbDetect \in Nat /\ counter \in Nat
      /\ buf \in [Slots -> Boxes] /\ buf[e] \in Boxes
  BY <1>1, SlotFacts, SizesAssumption DEF TypeOK, Slots
<1>3. /\ \A s \in Slots : buf'[s].box = buf[s].box /\ (s # e => buf'[s] = buf[s])
      /\ buf'[e].conf = IF WithinLimit /\ IsKept(e) THEN buf[e].conf ELSE 0
      /\ buf' \in [Slots -> Boxes]
  <2>1. CASE WithinLimit /\ buf[e].conf > 0
    BY <1>1, <1>2, <2>1 DEF IsKept
  <2>2. CASE ~(WithinLimit /\ buf[e].conf > 0)
    <3>1. buf' = [buf EXCEPT ![e] = [buf[e] EXCEPT !.conf = 0]]
      BY <1>1, <2>2
    <3>2. /\ [buf[e] EXCEPT !.conf = 0] \in Boxes
          /\ [buf[e] EXCEPT !.conf = 0].conf = 0
          /\ [buf[e] EXCEPT !.conf = 0].box = buf[e].box
      BY <1>2, SizesAssumption DEF Boxes
    <3> QED BY <1>2, <2>2, <3>1, <3>2 DEF IsKept
  <2> QED BY <2>1, <2>2
<1>4. counter' = (IF WithinLimit /\ IsKept(e) THEN counter + 1 ELSE counter)
  BY <1>1 DEF IsKept
<1>5. TypeOK'
  <2>1. counter' \in 0..MaxBoxes
    BY <1>2, <1>4, SizesAssumption DEF TypeOK, WithinLimit
  <2> QED BY <1>1, <1>2, <1>3, <2>1 DEF TypeOK
<1>6. /\ Detected' = Detected /\ DecodedOnce' /\ Scores'
      /\ \A s \in Detected : IsKept(s)' => IsKept(s) /\ buf'[s].conf = buf[s].conf
  <2>1. ASSUME NEW s \in Detected
        PROVE  buf'[s].box = buf[s].box /\ buf'[s].conf \in {0, buf[s].conf}
    <3>1. CASE s = e
      BY <1>2, <1>3, <3>1
    <3>2. CASE s # e
      BY <1>3, <3>2, SlotFacts
    <3> QED BY <3>1, <3>2
  <2> QED BY <1>1, <2>1, DropsKeep
<1>7. Apart'
  <2>1. \A s \in Detected : buf'[s].box = buf[s].box
    BY <1>3, SlotFacts
  <2> QED BY <1>1, <1>6, <2>1 DEF Apart, Compared, Overlap
<1>8. Counted'
  <2>1. Kept(e)' = {s \in Detected : s < e + 1 /\ buf'[s].conf > 0}
    BY <1>1, <1>6 DEF Kept, IsKept
  <2>2. \A s \in Detected : s < e => buf'[s] = buf[s]
    BY <1>2, <1>3, SlotFacts
  <2>3. Kept(e)' = IF e \in Detected /\ WithinLimit /\ IsKept(e)
                   THEN Kept(e) \cup {e} ELSE Kept(e)
    BY <1>2, <1>3, <2>1, <2>2, SlotFacts DEF Kept, IsKept
  <2>4. /\ Cardinality(Kept(e)) = counter
        /\ IsFiniteSet(Kept(e)) /\ e \notin Kept(e)
    BY <1>1, <1>2, KeptNext DEF Counted
  <2>5. Cardinality(Kept(e) \cup {e}) = counter + 1
    BY <2>4, FS_AddElement
  <2>6. e' <= nbDetect + 1 => e \in Detected
    BY <1>1, <1>2 DEF Detected
  <2>7. Cardinality(Kept(e)') <= counter' /\ (e \in Detected => Cardinality(Kept(e)') = counter')
    BY <1>2, <1>4, <2>3, <2>4, <2>5
  <2> QED BY <1>1, <1>2, <2>6, <2>7 DEF Counted
<1> QED BY <1>1, <1>5, <1>6, <1>7, <1>8 DEF Unread, Copied

LEMMA LimitedKeeps ==
  ASSUME Invariant, Limited
  PROVE  Invariant'
<1> USE DEF Invariant
<1>1. /\ pc = "limit" /\ pc' \in {"sort", "score"} /\ e > nbDetect + 1
      /\ e' = 1 /\ k' = k + 1
      /\ UNCHANGED <<raw, overlaps, buf, nbDetect, counter, out>>
  BY DEF Limited, inputs
<1>2. TypeOK'
  BY <1>1 DEF TypeOK
<1>3. Detected' = Detected /\ \A s : IsKept(s)' = IsKept(s)
  BY <1>1 DEF Detected, IsKept
<1>4. DecodedOnce'
  BY <1>1, <1>3 DEF DecodedOnce, ToDecode
<1>5. Scores'
  BY <1>1, <1>3 DEF Scores, TypeOK
<1>6. Apart'
  BY <1>1, <1>3 DEF Apart, Compared, Overlap
<1>7. Counted'
  <2>1. e \in Nat /\ e > nbDetect /\ nbDetect \in Nat /\ nbDetect + 1 \in Nat
    BY <1>1 DEF TypeOK
  <2>2. Cardinality(Kept(nbDetect + 1)) <= counter
    BY <1>1, <2>1, AllKept DEF Counted
  <2>3. Kept(nbDetect + 1)' = Kept(nbDetect + 1)
    BY <1>1, SameKept
  <2>4. Cardinality(Kept(nbDetect + 1)) \in Nat
    BY <2>1, KeptNext
  <2>5. Cardinality(Kept(nbDetect + 1)) <= MaxBoxes
    BY <2>2, <2>4, SizesAssumption DEF TypeOK
  <2> QED BY <1>1, <2>3, <2>5 DEF Counted
<1>8. Copied'
  <2>1. Kept(e)' = {}
    BY <1>1, <1>3 DEF Kept, Detected
  <2>2. out = <<>> /\ nbDetect \in Nat
    BY <1>1 DEF Copied, TypeOK
  <2> QED BY <1>1, <2>1, <2>2, FS_EmptySet DEF Copied
<1> QED BY <1>1, <1>2, <1>4, <1>5, <1>6, <1>7, <1>8 DEF Unread

(* A kept box is appended: no other of the result has its anchor.          *)
LEMMA ScoreKeeps ==
  ASSUME Invariant, Score
  PROVE  Invariant'
<1> USE DEF Invariant
<1>1. /\ pc = "score" /\ pc' = "score" /\ e <= nbDetect /\ e' = e + 1
      /\ UNCHANGED <<raw, overlaps, buf, nbDetect, k, counter>>
      /\ out' = IF IsKept(e) THEN Append(out, buf[e]) ELSE out
  BY DEF Score, inputs, IsKept
<1>2. e \in Nat /\ e \in Detected /\ nbDetect \in Nat /\ buf[e] \in Boxes
  BY <1>1, SlotFacts DEF TypeOK, Detected
<1>3. TypeOK'
  <2>1. out' \in Seq(Boxes)
    BY <1>1, <1>2 DEF TypeOK
  <2> QED BY <1>1, <2>1 DEF TypeOK
<1>4. Detected' = Detected /\ \A s : IsKept(s)' = IsKept(s)
  BY <1>1 DEF Detected, IsKept
<1>5. DecodedOnce'
  BY <1>1, <1>4 DEF DecodedOnce, ToDecode
<1>6. Scores'
  BY <1>1, <1>4 DEF Scores
<1>7. Apart'
  BY <1>1, <1>4 DEF Apart, Compared, Overlap
<1>8. Counted'
  <2>1. Kept(nbDetect + 1)' = Kept(nbDetect + 1)
    BY <1>1, SameKept
  <2> QED BY <1>1, <2>1 DEF Counted
<1>9. Copied'
  <2>1. /\ Kept(e)' = Kept(e + 1)
        /\ Kept(e + 1) = IF IsKept(e) THEN Kept(e) \cup {e} ELSE Kept(e)
        /\ Cardinality(Kept(e + 1)) = Cardinality(Kept(e)) + (IF IsKept(e) THEN 1 ELSE 0)
        /\ Cardinality(Kept(e)) \in Nat
    BY <1>1, <1>2, SameKept, KeptNext
  <2>2. /\ out \in Seq(Boxes) /\ Len(out) = Cardinality(Kept(e))
        /\ \A i \in DOMAIN out : \E s \in Kept(e) : out[i] = buf[s]
        /\ \A i, j \in DOMAIN out : i # j => out[i].box # out[j].box
        /\ \A s \in Kept(e) : \E i \in DOMAIN out : out[i] = buf[s]
    BY <1>1 DEF Copied, TypeOK
  <2>3. e' <= nbDetect + 1
    BY <1>1, <1>2
  <2>4. CASE ~IsKept(e)
    BY <1>1, <2>1, <2>2, <2>3, <2>4 DEF Copied
  <2>5. CASE IsKept(e)
    <3>1. /\ out' = Append(out, buf[e]) /\ Len(out) \in Nat
          /\ DOMAIN out = 1..Len(out) /\ DOMAIN out' = 1..(Len(out) + 1)
          /\ Len(out') = Len(out) + 1 /\ out'[Len(out) + 1] = buf[e]
          /\ \A i \in 1..Len(out) : out'[i] = out[i]
      BY <1>1, <1>2, <2>2, <2>5
    <3>2. \A i \in DOMAIN out : out[i].box # buf[e].box
      <4>1. \A s \in Kept(e) : s \in Detected /\ s # e
        BY <1>2, SlotFacts DEF Kept
      <4>2. \A s \in Kept(e) : buf[s].box # buf[e].box
        BY <1>2, <4>1 DEF DecodedOnce
      <4> QED BY <2>2, <4>2
    <3>3. \A i \in DOMAIN out' : \E s \in Kept(e + 1) : out'[i] = buf[s]
      BY <2>1, <2>2, <2>5, <3>1
    <3>4. \A i, j \in DOMAIN out' : i # j => out'[i].box # out'[j].box
      <4> SUFFICES ASSUME NEW i \in DOMAIN out', NEW j \in DOMAIN out', i # j
                   PROVE  out'[i].box # out'[j].box
        OBVIOUS
      <4>1. CASE i \in DOMAIN out /\ j \in DOMAIN out
        BY <2>2, <3>1, <4>1
      <4>2. CASE i \in DOMAIN out /\ j = Len(out) + 1
        BY <3>1, <3>2, <4>2
      <4>3. CASE j \in DOMAIN out /\ i = Len(out) + 1
        BY <3>1, <3>2, <4>3
      <4> QED BY <3>1, <4>1, <4>2, <4>3
    <3>5. \A s \in Kept(e + 1) : \E i \in DOMAIN out' : out'[i] = buf[s]
      <4>1. ASSUME NEW s \in Kept(e)
            PROVE  \E i \in DOMAIN out' : out'[i] = buf[s]
        <5>1. PICK i \in DOMAIN out : out[i] = buf[s]
          BY <2>2
        <5> QED BY <3>1, <5>1
      <4>2. Len(out) + 1 \in DOMAIN out' /\ out'[Len(out) + 1] = buf[e]
        BY <3>1
      <4> QED BY <2>1, <2>5, <4>1, <4>2
    <3>6. Len(out') = Cardinality(Kept(e + 1))
      BY <2>1, <2>2, <2>5, <3>1
    <3>7. /\ Len(out') = Cardinality(Kept(e)')
          /\ \A i \in DOMAIN out' : \E s \in Kept(e)' : out'[i] = buf'[s]
          /\ \A s \in Kept(e)' : \E i \in DOMAIN out' : out'[i] = buf'[s]
      BY <1>1, <2>1, <3>3, <3>5, <3>6
    <3>8. pc' \in {"score", "done"} /\ pc' # "done"
      BY <1>1
    <3> QED BY <2>3, <3>4, <3>7, <3>8, <1>1 DEF Copied
  <2> QED BY <2>4, <2>5
<1> QED BY <1>1, <1>3, <1>5, <1>6, <1>7, <1>8, <1>9 DEF Unread

LEMMA ScoredKeeps ==
  ASSUME Invariant, Scored
  PROVE  Invariant'
<1> USE DEF Invariant
<1>1. /\ pc = "score" /\ pc' = "done" /\ e > nbDetect
      /\ UNCHANGED <<raw, overlaps, buf, e, nbDetect, k, counter, out>>
  BY DEF Scored, inputs
<1>2. e = nbDetect + 1
  BY <1>1 DEF Copied, TypeOK
<1>3. /\ Detected' = Detected /\ (\A s : IsKept(s)' = IsKept(s))
      /\ Kept(nbDetect + 1)' = Kept(nbDetect + 1) /\ Kept(e)' = Kept(e)
  BY <1>1 DEF Kept, Detected, IsKept
<1>4. TypeOK'
  BY <1>1 DEF TypeOK
<1>5. DecodedOnce' /\ Scores'
  BY <1>1, <1>3 DEF DecodedOnce, ToDecode, Scores
<1>6. Apart'
  BY <1>1, <1>3 DEF Apart, Compared, Overlap
<1>7. Counted' /\ Copied'
  BY <1>1, <1>2, <1>3 DEF Counted, Copied
<1> QED BY <1>1, <1>4, <1>5, <1>6, <1>7 DEF Unread

(* Each loop keeps what the others and it have established.                *)
THEOREM Invariance == Spec => []Invariant
<1>1. Init => Invariant
  BY InitHolds
<1>2. Invariant /\ [Next]_vars => Invariant'
  <2> SUFFICES ASSUME Invariant, [Next]_vars
               PROVE  Invariant'
    OBVIOUS
  <2>1. CASE Decode
    BY <2>1, DecodeKeeps
  <2>2. CASE Decoded
    BY <2>2, DecodedKeeps
  <2>3. CASE Sort
    BY <2>3, SortKeeps
  <2>4. CASE Suppress
    BY <2>4, SuppressKeeps
  <2>5. CASE Suppressed
    BY <2>5, SuppressedKeeps
  <2>6. CASE Limit
    BY <2>6, LimitKeeps
  <2>7. CASE Limited
    BY <2>7, LimitedKeeps
  <2>8. CASE Score
    BY <2>8, ScoreKeeps
  <2>9. CASE Scored
    BY <2>9, ScoredKeeps
  <2>10. CASE UNCHANGED vars
    BY <2>10 DEF vars, Invariant, TypeOK, DecodedOnce, ToDecode, Unread, Scores, Apart,
       Compared, Counted, Copied, Kept, IsKept, Detected, Overlap
  <2> QED BY <2>1, <2>2, <2>3, <2>4, <2>5, <2>6, <2>7, <2>8, <2>9, <2>10 DEF Next
<1> QED BY <1>1, <1>2, PTL DEF Spec

-----------------------------------------------------------------------------
(* What the invariant says of the result *)

(* yolov2_pp_getNNBoxes_centroid writes each record over words it has read: no anchor
   above the threshold is lost, whatever the grid. *)
THEOREM DecodedInPlaceHolds == Spec => []DecodedInPlace
<1>1. Invariant => DecodedInPlace
  <2> SUFFICES ASSUME Invariant, pc = "sort", k = 0
               PROVE  /\ \A s \in Detected : buf[s].conf = raw[buf[s].box].score
                      /\ \A s, t \in Detected : s # t => buf[s].box # buf[t].box
                      /\ {buf[s].box : s \in Detected} = {a \in Anchors : raw[a].score > 0}
    BY DEF DecodedInPlace
  <2> USE DEF Invariant
  <2>1. \A s \in Detected : buf[s].conf = raw[buf[s].box].score
    BY DEF Scores
  <2>2. \A s, t \in Detected : s # t => buf[s].box # buf[t].box
    BY DEF DecodedOnce
  <2>3. \A a \in Anchors : a < ToDecode
    BY SizesAssumption DEF ToDecode, Anchors
  <2>4. {buf[s].box : s \in Detected} = {a \in Anchors : raw[a].score > 0}
    BY <2>3 DEF DecodedOnce
  <2> QED BY <2>1, <2>2, <2>4
<1> QED BY <1>1, Invariance, PTL

(* The limit of max_boxes_limit holds of what is copied into pp_detections_buffer, whatever
   the last loop does to the slot after the detections. *)
THEOREM FitsBufferHolds == Spec => []FitsBuffer
<1>1. Invariant => FitsBuffer
  <2> SUFFICES ASSUME Invariant
               PROVE  Len(out) <= MaxBoxes
    BY DEF FitsBuffer
  <2> USE DEF Invariant
  <2>1. CASE pc \notin {"score", "done"}
    BY <2>1, SizesAssumption DEF Copied
  <2>2. CASE pc \in {"score", "done"}
    <3>1. /\ e \in Nat /\ nbDetect \in Nat /\ nbDetect + 1 \in Nat
          /\ Len(out) = Cardinality(Kept(e))
          /\ Cardinality(Kept(nbDetect + 1)) <= MaxBoxes
      BY <2>2 DEF Copied, Counted, TypeOK
    <3>2. Kept(e) \subseteq Kept(nbDetect + 1)
      BY <3>1, SlotFacts DEF Kept, Detected
    <3>3. IsFiniteSet(Kept(nbDetect + 1)) /\ Cardinality(Kept(nbDetect + 1)) \in Nat
      BY <3>1, KeptNext
    <3>4. Cardinality(Kept(e)) <= Cardinality(Kept(nbDetect + 1)) /\ Cardinality(Kept(e)) \in Nat
      BY <3>1, <3>2, <3>3, FS_Subset, KeptNext
    <3> QED BY <3>1, <3>3, <3>4, SizesAssumption
  <2> QED BY <2>1, <2>2
<1> QED BY <1>1, Invariance, PTL

(* The order in which qsort leaves equal scores, and the sorting of each class, do not
   matter: two boxes that overlap are never both in the result. *)
THEOREM ResultsDisjointHolds == Spec => []ResultsDisjoint
<1>1. Invariant => ResultsDisjoint
  <2> SUFFICES ASSUME Invariant, NEW i \in DOMAIN out, NEW j \in DOMAIN out, i # j
               PROVE  ~Overlap(out[i].box, out[j].box)
    BY DEF ResultsDisjoint
  <2> USE DEF Invariant
  <2>1. pc \in {"score", "done"}
    BY DEF Copied
  <2>2. PICK s \in Kept(e) : out[i] = buf[s]
    BY <2>1 DEF Copied
  <2>3. PICK t \in Kept(e) : out[j] = buf[t]
    BY <2>1 DEF Copied
  <2>4. s # t
    BY <2>1, <2>2, <2>3 DEF Copied
  <2> QED BY <2>1, <2>2, <2>3, <2>4 DEF Apart, Compared, Kept
<1> QED BY <1>1, Invariance, PTL

-----------------------------------------------------------------------------
(* One class: who is left out, and for whom *)

(* The detections stand in the order of their scores once they are sorted. *)
Ranked ==
  pc \notin {"decode", "sort"} =>
    \A s, t \in Detected : s < t => raw[buf[s].box].score >= raw[buf[t].box].score

(* A kept box in front overlaps s; while the suppression runs, it has had its turn. *)
Beaten(s) ==
  \E i \in Detected :
    i < s /\ IsKept(i) /\ Overlap(buf[i].box, buf[s].box) /\ (pc = "suppress" => i < e)

(* The limit is used up by kept boxes in front of s. *)
Full(n, s) == Cardinality(Kept(n)) = MaxBoxes /\ \A t \in Kept(n) : t < s

Accounted ==
  /\ pc = "suppress" => \A s \in Detected : ~IsKept(s) => Beaten(s)
  /\ pc = "limit" => \A s \in Detected : ~IsKept(s) => Beaten(s) \/ Full(e, s)
  /\ pc \in {"score", "done"} =>
       \A s \in Detected : ~IsKept(s) => Beaten(s) \/ Full(nbDetect + 1, s)

OneClass == Ranked /\ Accounted /\ (pc \in {"suppress", "limit"} => k = 0)

(* With one class all detections are of it, and qsort sorts by the score.  *)
LEMMA SortRanks ==
  ASSUME NbClasses = 1, Invariant, pc = "sort" => k = 0, Sort
  PROVE  OneClass'
<1> USE DEF Invariant
<1>1. PICK p \in Orders :
        /\ \A a, b \in Detected : a < b => InOrder(buf[p[a]], buf[p[b]])
        /\ buf' = [s \in Slots |-> IF s \in Detected THEN buf[p[s]] ELSE buf[s]]
  BY DEF Sort
<1>2. /\ pc = "sort" /\ pc' = "suppress" /\ e' = 1 /\ k = 0
      /\ UNCHANGED <<raw, overlaps, nbDetect, k, out>>
  BY DEF Sort, inputs
<1>3. \A s \in Detected : p[s] \in Detected
  BY OrderFacts
<1>4. Detected' = Detected /\ \A s \in Detected : buf'[s] = buf[p[s]]
  BY <1>1, <1>2, SlotFacts DEF Detected
<1>5. \A s \in Detected : /\ raw[buf[s].box].class = 0
                          /\ buf[s].conf = raw[buf[s].box].score /\ raw[buf[s].box].score > 0
  <2>1. \A s \in Detected : buf[s].box \in Anchors
    BY DEF DecodedOnce
  <2>2. \A a \in Anchors : raw[a].class \in Classes
    BY DEF TypeOK
  <2>3. Classes = {0}
    BY DEF Classes
  <2> QED BY <1>2, <2>1, <2>2, <2>3 DEF Scores, DecodedOnce
<1>6. ASSUME NEW s \in Detected, NEW t \in Detected, s < t
      PROVE  raw[buf'[s].box].score >= raw[buf'[t].box].score
  <2>1. InOrder(buf[p[s]], buf[p[t]]) /\ p[s] \in Detected /\ p[t] \in Detected
    BY <1>1, <1>3, <1>6
  <2>2. buf[p[s]].conf >= buf[p[t]].conf
    BY <1>2, <1>5, <2>1 DEF InOrder
  <2>3. buf'[s] = buf[p[s]] /\ buf'[t] = buf[p[t]]
    BY <1>4
  <2> QED BY <1>5, <2>1, <2>2, <2>3
<1>7. \A s \in Detected : IsKept(s)'
  <2>1. ASSUME NEW s \in Detected
        PROVE  buf'[s].conf > 0
    <3>1. p[s] \in Detected /\ buf'[s] = buf[p[s]]
      BY <1>3, <1>4
    <3> QED BY <1>5, <3>1
  <2> QED BY <2>1 DEF IsKept
<1> QED BY <1>2, <1>4, <1>6, <1>7 DEF OneClass, Ranked, Accounted

LEMMA SuppressAccounts ==
  ASSUME Invariant, OneClass, Suppress
  PROVE  OneClass'
<1> USE DEF Invariant
<1>1. /\ pc = "suppress" /\ pc' = "suppress" /\ e <= nbDetect /\ e' = e + 1
      /\ UNCHANGED <<raw, overlaps, nbDetect, k>>
      /\ buf' = [s \in Slots |-> IF Suppresses(e, s) THEN [buf[s] EXCEPT !.conf = 0] ELSE buf[s]]
  BY DEF Suppress, inputs
<1>2. /\ Detected' = Detected /\ e \in Detected /\ e \in Nat
      /\ \A s \in Detected : s \in Nat /\ s \in Slots
  BY <1>1, SlotFacts DEF Detected, TypeOK
<1>3. ASSUME NEW s \in Detected
      PROVE  /\ buf'[s].box = buf[s].box
             /\ ~Suppresses(e, s) => buf'[s] = buf[s]
  <2>1. buf[s] \in Boxes
    BY SlotFacts
  <2> QED BY <1>1, <1>2, <2>1 DEF Boxes
<1>4. Ranked'
  BY <1>1, <1>2, <1>3 DEF OneClass, Ranked
<1>5. ASSUME NEW i \in Detected, i <= e, IsKept(i)
      PROVE  IsKept(i)'
  <2>1. ~Suppresses(e, i)
    BY <1>2, <1>5 DEF Suppresses
  <2> QED BY <1>3, <1>5, <2>1 DEF IsKept
<1>6. ASSUME NEW s \in Detected, ~IsKept(s)'
      PROVE  \E i \in Detected : /\ i < s /\ i < e + 1 /\ IsKept(i)'
                                 /\ Overlap(buf[i].box, buf[s].box)
  <2>1. CASE Suppresses(e, s)
    <3>1. e < s /\ IsKept(e) /\ Overlap(buf[e].box, buf[s].box)
      BY <1>2, <2>1 DEF Suppresses, IsKept
    <3>2. PICK i \in Detected : i = e
      BY <1>2
    <3>3. IsKept(i) /\ i <= e
      BY <1>2, <3>1, <3>2
    <3>4. IsKept(i)'
      BY <1>5, <3>3
    <3> QED BY <1>2, <3>1, <3>2, <3>4
  <2>2. CASE ~Suppresses(e, s)
    <3>1. ~IsKept(s)
      BY <1>3, <1>6, <2>2 DEF IsKept
    <3>2. PICK i \in Detected : i < s /\ IsKept(i) /\ Overlap(buf[i].box, buf[s].box) /\ i < e
      BY <1>1, <3>1 DEF OneClass, Accounted, Beaten
    <3>3. IsKept(i)'
      BY <1>2, <1>5, <3>2
    <3> QED BY <1>2, <3>2, <3>3
  <2> QED BY <2>1, <2>2
<1>7. \A s \in Detected : ~IsKept(s)' => Beaten(s)'
  <2> SUFFICES ASSUME NEW s \in Detected, ~IsKept(s)'
               PROVE  Beaten(s)'
    OBVIOUS
  <2>1. PICK i \in Detected : /\ i < s /\ i < e + 1 /\ IsKept(i)'
                              /\ Overlap(buf[i].box, buf[s].box)
    BY <1>6
  <2>2. Overlap(buf[i].box, buf[s].box)'
    <3>1. buf'[i].box = buf[i].box /\ buf'[s].box = buf[s].box
      BY <1>3
    <3>2. overlaps' = overlaps
      BY <1>1
    <3>3. {buf[i].box, buf[s].box} \in overlaps
      BY <2>1 DEF Overlap
    <3> QED BY <3>1, <3>2, <3>3 DEF Overlap
  <2> QED BY <1>1, <1>2, <2>1, <2>2 DEF Beaten
<1> QED BY <1>1, <1>2, <1>4, <1>7 DEF OneClass, Accounted

LEMMA SuppressedAccounts ==
  ASSUME Invariant, OneClass, Suppressed
  PROVE  OneClass'
<1>1. /\ pc = "suppress" /\ pc' = "limit"
      /\ UNCHANGED <<raw, overlaps, buf, nbDetect, k>>
  BY DEF Suppressed, inputs
<1>2. Detected' = Detected /\ \A s : IsKept(s)' = IsKept(s)
  BY <1>1 DEF Detected, IsKept
<1>3. \A s : Beaten(s) => Beaten(s)'
  BY <1>1, <1>2 DEF Beaten, Overlap
<1>4. \A s \in Detected' : ~IsKept(s)' => Beaten(s)'
  BY <1>1, <1>2, <1>3 DEF OneClass, Accounted
<1> QED BY <1>1, <1>2, <1>4 DEF OneClass, Ranked, Accounted

(* What the limit drops is dropped for the boxes it has kept; and a box    *)
(* that only a dropped one had beaten now is left out for them, too.       *)
LEMMA LimitAccounts ==
  ASSUME Invariant, OneClass, Limit
  PROVE  OneClass'
<1> USE DEF Invariant
<1>1. /\ pc = "limit" /\ pc' = "limit" /\ e <= nbDetect + 1 /\ e' = e + 1
      /\ UNCHANGED <<raw, overlaps, nbDetect, k>>
      /\ IF WithinLimit /\ buf[e].conf > 0
         THEN counter' = counter + 1 /\ buf' = buf
         ELSE buf' = [buf EXCEPT ![e].conf = 0] /\ counter' = counter
  BY DEF Limit, inputs
<1>2. /\ e \in Nat /\ e \in Slots /\ buf \in [Slots -> Boxes] /\ buf[e] \in Boxes
      /\ Detected' = Detected /\ counter \in Nat
      /\ \A s \in Detected : s \in Nat /\ s \in Slots
  BY <1>1, SlotFacts, SizesAssumption DEF TypeOK, Slots, Detected
<1>3. \A s \in Detected : buf'[s].box = buf[s].box /\ (s # e => buf'[s] = buf[s])
  <2>1. [buf[e] EXCEPT !.conf = 0].box = buf[e].box
    BY <1>2 DEF Boxes
  <2> QED BY <1>1, <1>2, <2>1
<1>4. Ranked'
  BY <1>1, <1>2, <1>3 DEF OneClass, Ranked
<1>5. Cardinality(Kept(e)) = counter
  BY <1>1, <1>2, KeptNext DEF Counted
<1>6. CASE WithinLimit
  <2>1. \A s \in Detected : buf'[s].conf = buf[s].conf
    <3>1. CASE buf[e].conf > 0
      BY <1>1, <1>6, <3>1
    <3>2. CASE ~(buf[e].conf > 0)
      <4>1. buf[e].conf = 0
        BY <1>2, <3>2, SlotFacts
      <4>2. [buf[e] EXCEPT !.conf = 0] = buf[e]
        BY <1>2, <4>1 DEF Boxes
      <4>3. buf' = buf
        BY <1>1, <1>2, <1>6, <3>2, <4>2
      <4> QED BY <4>3
    <3> QED BY <3>1, <3>2
  <2>2. \A s \in Detected : IsKept(s)' = IsKept(s)
    BY <2>1 DEF IsKept
  <2>3. \A s \in Detected : Beaten(s) => Beaten(s)'
    BY <1>1, <1>2, <1>3, <2>2 DEF Beaten, Overlap
  <2>4. \A s : ~Full(e, s)
    BY <1>2, <1>5, <1>6, SizesAssumption DEF Full, WithinLimit
  <2>5. \A s \in Detected : ~IsKept(s)' => Beaten(s)'
    BY <1>1, <2>2, <2>3, <2>4 DEF OneClass, Accounted
  <2> QED BY <1>1, <1>2, <1>4, <2>5 DEF OneClass, Accounted
<1>7. CASE ~WithinLimit
  <2>1. counter = MaxBoxes
    BY <1>7, SizesAssumption DEF TypeOK, WithinLimit
  <2>2. \A s \in Detected : s # e => (IsKept(s)' = IsKept(s))
    BY <1>3 DEF IsKept
  <2>3. buf'[e].conf = 0
    <3>1. buf' = [buf EXCEPT ![e].conf = 0]
      BY <1>1, <1>7
    <3> QED BY <1>2, <3>1 DEF Boxes
  <2>4. Kept(e)' = Kept(e)
    <3>1. Kept(e)' = {s \in Detected : s < e + 1 /\ buf'[s].conf > 0}
      BY <1>1, <1>2 DEF Kept, IsKept
    <3>2. \A s \in Detected : (s < e + 1 /\ buf'[s].conf > 0) <=> (s < e /\ buf[s].conf > 0)
      BY <1>2, <1>3, <2>3
    <3> QED BY <3>1, <3>2 DEF Kept, IsKept
  <2>5. ASSUME NEW s \in Detected, Full(e, s)
        PROVE  Full(e, s)'
    BY <2>4, <2>5 DEF Full
  <2>6. ASSUME NEW s \in Detected, s >= e
        PROVE  Full(e, s)
    <3>1. \A t \in Kept(e) : t < s
      BY <1>2, <2>6 DEF Kept
    <3> QED BY <1>5, <2>1, <3>1 DEF Full
  <2>7. ASSUME NEW s \in Detected, ~IsKept(s)'
        PROVE  Beaten(s)' \/ Full(e, s)'
    <3>1. CASE s >= e
      BY <2>5, <2>6, <3>1
    <3>2. CASE s < e
      <4>1. ~IsKept(s)
        BY <1>2, <2>2, <2>7, <3>2
      <4>2. Beaten(s) \/ Full(e, s)
        BY <1>1, <4>1 DEF OneClass, Accounted
      <4>3. Beaten(s) => Beaten(s)'
        <5> SUFFICES ASSUME Beaten(s)
                     PROVE  Beaten(s)'
          OBVIOUS
        <5>1. PICK i \in Detected : i < s /\ IsKept(i) /\ Overlap(buf[i].box, buf[s].box)
          BY DEF Beaten
        <5>2. IsKept(i)'
          BY <1>2, <2>2, <3>2, <5>1
        <5>3. Overlap(buf[i].box, buf[s].box)'
          BY <1>1, <1>3, <5>1 DEF Overlap
        <5> QED BY <1>1, <1>2, <5>1, <5>2, <5>3 DEF Beaten
      <4> QED BY <2>5, <4>2, <4>3
    <3> QED BY <1>2, <3>1, <3>2
  <2> QED BY <1>1, <1>2, <1>4, <2>7 DEF OneClass, Accounted
<1> QED BY <1>6, <1>7

LEMMA LimitedAccounts ==
  ASSUME NbClasses = 1, Invariant, OneClass, Limited
  PROVE  OneClass' /\ pc' = "score"
<1> USE DEF Invariant
<1>1. /\ pc = "limit" /\ e > nbDetect + 1 /\ k = 0 /\ k' = k + 1
      /\ pc' = IF k + 1 < NbClasses THEN "sort" ELSE "score"
      /\ UNCHANGED <<raw, overlaps, buf, nbDetect>>
  BY DEF Limited, inputs, OneClass
<1>2. pc' = "score"
  BY <1>1
<1>3. Detected' = Detected /\ \A s : IsKept(s)' = IsKept(s)
  BY <1>1 DEF Detected, IsKept
<1>4. \A s : Beaten(s) => Beaten(s)'
  BY <1>1, <1>2, <1>3 DEF Beaten, Overlap
<1>5. Kept(nbDetect + 1)' = Kept(e)
  <2>1. e \in Nat /\ e > nbDetect
    BY <1>1 DEF TypeOK
  <2> QED BY <1>1, <2>1, AllKept, SameKept
<1>6. \A s : Full(e, s) => Full(nbDetect + 1, s)'
  BY <1>5 DEF Full
<1>7. \A s \in Detected' : ~IsKept(s)' => Beaten(s)' \/ Full(nbDetect + 1, s)'
  BY <1>1, <1>3, <1>4, <1>6 DEF OneClass, Accounted
<1> QED BY <1>1, <1>2, <1>3, <1>7 DEF OneClass, Ranked, Accounted

LEMMA CopyAccounts ==
  ASSUME Invariant, OneClass, pc \in {"score", "done"}, pc' \in {"score", "done"},
         UNCHANGED <<raw, overlaps, buf, nbDetect, k>>
  PROVE  OneClass'
<1>1. Detected' = Detected /\ \A s : IsKept(s)' = IsKept(s)
  BY DEF Detected, IsKept
<1>2. \A s : Beaten(s) => Beaten(s)'
  BY <1>1 DEF Beaten, Overlap
<1>3. Kept(nbDetect + 1)' = Kept(nbDetect + 1)
  BY SameKept
<1>4. \A s : Full(nbDetect + 1, s) => Full(nbDetect + 1, s)'
  BY <1>3 DEF Full
<1>5. \A s \in Detected' : ~IsKept(s)' => Beaten(s)' \/ Full(nbDetect + 1, s)'
  BY <1>1, <1>2, <1>4 DEF OneClass, Accounted
<1> QED BY <1>1, <1>5 DEF OneClass, Ranked, Accounted

(* Before its only sort the class is 0; after its limit there is no other. *)
OneClassInv == OneClass /\ (pc \in {"decode", "sort"} => k = 0)

LEMMA OneClassStep ==
  ASSUME NbClasses = 1, Invariant, OneClassInv, [Next]_vars
  PROVE  OneClassInv'
<1> USE DEF OneClassInv
<1>1. CASE Decode
  BY <1>1 DEF Decode, OneClass, Ranked, Accounted
<1>2. CASE Decoded
  BY <1>2 DEF Decoded, OneClass, Ranked, Accounted
<1>3. CASE Sort
  <2>1. OneClass' /\ pc' = "suppress"
    BY <1>3, SortRanks DEF Sort
  <2> QED BY <2>1
<1>4. CASE Suppress
  <2>1. OneClass' /\ pc' = "suppress"
    BY <1>4, SuppressAccounts DEF Suppress
  <2> QED BY <2>1
<1>5. CASE Suppressed
  <2>1. OneClass' /\ pc' = "limit"
    BY <1>5, SuppressedAccounts DEF Suppressed
  <2> QED BY <2>1
<1>6. CASE Limit
  <2>1. OneClass' /\ pc' = "limit"
    BY <1>6, LimitAccounts DEF Limit
  <2> QED BY <2>1
<1>7. CASE Limited
  BY <1>7, LimitedAccounts
<1>8. CASE Score
  <2>1. OneClass' /\ pc' = "score"
    BY <1>8, CopyAccounts DEF Score, inputs
  <2> QED BY <2>1
<1>9. CASE Scored
  <2>1. OneClass' /\ pc' = "done"
    BY <1>9, CopyAccounts DEF Scored, inputs
  <2> QED BY <2>1
<1>10. CASE UNCHANGED vars
  BY <1>10 DEF vars, OneClass, Ranked, Accounted, Beaten, Full, Kept, IsKept, Detected, Overlap
<1> QED BY <1>1, <1>2, <1>3, <1>4, <1>5, <1>6, <1>7, <1>8, <1>9, <1>10 DEF Next

(* With one class, as in the people detector, the result is that of the greedy
   suppression for any number of boxes: who is missing overlaps a kept box at least
   as good, or the limit is used up by boxes at least as good. *)
THEOREM LeftOutForBetterHolds ==
  ASSUME NbClasses = 1
  PROVE  Spec => []LeftOutForBetter
<1>1. Init => OneClassInv
  BY DEF Init, OneClassInv, OneClass, Ranked, Accounted
<1>2. Invariant /\ OneClassInv /\ [Next]_vars => OneClassInv'
  BY OneClassStep
<1>3. Invariant /\ OneClassInv => LeftOutForBetter
  <2> SUFFICES ASSUME Invariant, OneClassInv, pc = "done",
                      NEW a \in Anchors, raw[a].score > 0, \A x \in Results : x.box # a
               PROVE  \/ \E x \in Results : Overlap(x.box, a) /\ x.conf >= raw[a].score
                      \/ Len(out) = MaxBoxes /\ \A x \in Results : x.conf >= raw[a].score
    BY DEF LeftOutForBetter
  <2> USE DEF Invariant
  <2>1. PICK s \in Detected : buf[s].box = a
    <3>1. a < ToDecode
      BY SizesAssumption DEF ToDecode, Anchors
    <3> QED BY <3>1 DEF DecodedOnce
  <2>2. /\ e = nbDetect + 1 /\ nbDetect \in Nat /\ Len(out) = Cardinality(Kept(e))
        /\ \A i \in DOMAIN out : \E t \in Kept(e) : out[i] = buf[t]
        /\ \A t \in Kept(e) : \E i \in DOMAIN out : out[i] = buf[t]
    BY DEF Copied, TypeOK
  <2>3. \A t \in Detected : t \in Kept(e) <=> IsKept(t)
    BY <2>2, SlotFacts DEF Kept, Detected
  <2>4. \A t \in Kept(e) : buf[t] \in Results
    BY <2>2 DEF Results
  <2>5. ~IsKept(s)
    BY <2>1, <2>3, <2>4
  <2>6. Beaten(s) \/ Full(e, s)
    BY <2>2, <2>5 DEF OneClassInv, OneClass, Accounted
  <2>7. ASSUME NEW t \in Kept(e), t < s
        PROVE  buf[t].conf >= raw[a].score
    <3>1. t \in Detected /\ IsKept(t)
      BY DEF Kept
    <3>2. buf[t].conf = raw[buf[t].box].score
      BY <3>1 DEF Scores, IsKept
    <3> QED BY <2>1, <2>7, <3>1, <3>2 DEF OneClassInv, OneClass, Ranked
  <2>8. CASE Beaten(s)
    <3>1. PICK t \in Detected : t < s /\ IsKept(t) /\ Overlap(buf[t].box, buf[s].box)
      BY <2>8 DEF Beaten
    <3>2. t \in Kept(e) /\ buf[t] \in Results
      BY <2>3, <2>4, <3>1
    <3> QED BY <2>1, <2>7, <3>1, <3>2
  <2>9. CASE Full(e, s)
    <3>1. Len(out) = MaxBoxes /\ \A t \in Kept(e) : t < s
      BY <2>2, <2>9 DEF Full
    <3>2. \A x \in Results : \E t \in Kept(e) : x = buf[t]
      BY <2>2 DEF Results
    <3> QED BY <2>7, <3>1, <3>2
  <2> QED BY <2>6, <2>8, <2>9
<1> QED BY <1>1, <1>2, <1>3, Invariance, PTL DEF Spec
=============================================================================
