-------------------------- MODULE ApplicationProofs --------------------------
(***************************************************************************)
(* The application around the network: the benchmark (app/src/main.c) and, *)
(* within its inference, the cache maintenance of run_nn_from_sd_card      *)
(* (app/src/model.c) and of the generated epoch blocks                     *)
(* (app/Model/network.c).  The two share no state and have an invariant    *)
(* each.                                                                   *)
(***************************************************************************)
EXTENDS Benchmark, OutputCache, FiniteSetTheorems, TLAPS

(***************************************************************************)
(* What holds of the benchmark for every card: its files, sub-directories, *)
(* ground truth and inference times are arbitrary.                         *)
(*                                                                         *)
(* The invariant follows an entry of the directory: once delivered it is   *)
(* out of todo, and counts at most once, if it is a sub-directory or has a *)
(* row.  That bounds count by the rows that total was sized from and those *)
(* whose lines were not read then.                                         *)
(***************************************************************************)

Countable == rows \cup Dirs
AtHand == pc \in {"open", "infer", "lookup", "countEntry"}

(* the entry between its delivery and the next one *)
EntryDelivered ==
  /\ pc \in {"open", "infer", "lookup"} => entry \in Files \ todo
  /\ pc = "countEntry" => entry \in Countable \ todo

(* at most one count for each delivered entry, and one to come *)
Uncounted == IF AtHand /\ entry \in Countable THEN 1 ELSE 0
CountedOnce == count + Uncounted <= Cardinality(Countable \ todo)

(* count_csv_lines came first *)
RowsCounted ==
  \/ pc \notin {"button", "count"} /\ total > 0 /\ total >= Cardinality(rows \ unread)
  \/ pc \in {"button", "count", "end"} /\ count = 0

Invariant ==
  TypeOK /\ EntryDelivered /\ CountedOnce /\ RowsCounted /\ StatisticsConsistent

(* The sets whose members are counted are finite.                          *)
LEMMA FiniteSets ==
  ASSUME TypeOK
  PROVE  /\ IsFiniteSet(rows) /\ IsFiniteSet(Countable \ todo) /\ IsFiniteSet(Dirs \ todo)
         /\ IsFiniteSet(rows \ unread) /\ Cardinality(rows \ unread) \in Nat
         /\ IsFiniteSet(unread \ todo) /\ Cardinality(unread \ todo) \in Nat
         /\ Cardinality(Countable \ todo) \in Nat
         /\ Cardinality(Dirs \ todo) \in Nat
<1>1. IsFiniteSet(rows)
  BY CardAssumption, FS_Subset DEF TypeOK
<1>2. IsFiniteSet(Countable)
  BY <1>1, CardAssumption, FS_Union DEF Countable
<1>3. IsFiniteSet(Countable \ todo) /\ IsFiniteSet(Dirs \ todo)
  BY <1>2, CardAssumption, FS_Difference
<1>4. IsFiniteSet(rows \ unread) /\ IsFiniteSet(unread \ todo)
  BY <1>1, FS_Subset, FS_Difference DEF TypeOK
<1> QED BY <1>1, <1>3, <1>4, FS_CardinalityType

(* A delivered entry joins those that may count, or is none of them.       *)
LEMMA Delivered ==
  ASSUME TypeOK, NEW x \in todo
  PROVE  Cardinality(Countable \ (todo \ {x})) =
           Cardinality(Countable \ todo) + (IF x \in Countable THEN 1 ELSE 0)
<1>1. CASE x \in Countable
  <2>1. Countable \ (todo \ {x}) = (Countable \ todo) \cup {x} /\ x \notin Countable \ todo
    BY <1>1
  <2>2. Cardinality((Countable \ todo) \cup {x}) = Cardinality(Countable \ todo) + 1
    BY <2>1, FiniteSets, FS_AddElement
  <2> QED BY <1>1, <2>1, <2>2
<1>2. CASE x \notin Countable
  <2>1. Countable \ (todo \ {x}) = Countable \ todo
    BY <1>2
  <2> QED BY <1>2, <2>1, FiniteSets
<1> QED BY <1>1, <1>2

(* Before the button is pressed nothing counts.                            *)
LEMMA InitInvariant == Init => Invariant
<1> SUFFICES ASSUME Init
             PROVE  Invariant
  OBVIOUS
<1>1. TypeOK
  BY DEF Init, TypeOK, Stages, NoMinimum, card, model, counters
<1>2. EntryDelivered /\ RowsCounted /\ StatisticsConsistent
  BY DEF Init, EntryDelivered, RowsCounted, StatisticsConsistent
<1>3. CountedOnce
  <2>1. Cardinality(Countable \ todo) \in Nat
    BY <1>1, FiniteSets
  <2> QED BY <2>1 DEF Init, CountedOnce, Uncounted, AtHand
<1> QED BY <1>1, <1>2, <1>3 DEF Invariant

(* Arithmetic of the average.                                              *)
LEMMA OneMore ==
  ASSUME NEW a \in Nat, NEW b \in Nat
  PROVE  a * (b + 1) = a * b + a
OBVIOUS

(* A product grows with its factor.                                        *)
LEMMA TimesIsMonotone ==
  ASSUME NEW a \in Nat, NEW b \in Nat, NEW k \in Nat, a <= b
  PROVE  a * k <= b * k
<1> DEFINE d == b - a
<1>1. d \in Nat /\ b = a + d
  OBVIOUS
<1> HIDE DEF d
<1>2. (a + d) * k = a * k + d * k
  BY <1>1
<1>3. d * k \in Nat /\ a * k \in Nat
  BY <1>1
<1> QED BY <1>1, <1>2, <1>3

(* An inference time enters the statistics: the new average is between the *)
(* new bounds.                                                             *)
LEMMA SampleKeepsAverage ==
  ASSUME TypeOK, StatisticsConsistent, last > 0
  PROVE  LET s == Sampled(stats)
         IN  /\ s \in [min : 0..NoMinimum, max : Nat, sum : Nat, samples : Nat, errors : Nat]
             /\ s.samples + s.errors = count + 1
             /\ s.min * s.samples <= s.sum
             /\ s.sum <= s.max * s.samples
<1> DEFINE k == stats.samples
           low == IF last < stats.min THEN last ELSE stats.min
           high == IF last > stats.max THEN last ELSE stats.max
<1>2. /\ k \in Nat /\ stats.sum \in Nat /\ last \in Nat /\ stats.errors \in Nat
      /\ stats.min \in 0..NoMinimum /\ stats.max \in Nat
  BY DEF TypeOK
<1>3. low \in 0..NoMinimum /\ low <= stats.min /\ low <= last
  BY <1>2 DEF NoMinimum
<1>4. high \in Nat /\ stats.max <= high /\ last <= high
  BY <1>2
<1>5. low * (k + 1) <= stats.sum + last
  <2>1. k = 0 \/ stats.min * k <= stats.sum
    BY DEF StatisticsConsistent
  <2>2. low * k <= stats.min * k
    <3>1. low \in Nat /\ stats.min \in Nat /\ k \in Nat /\ low <= stats.min
      BY <1>2, <1>3 DEF NoMinimum
    <3> HIDE DEF low, k
    <3> QED BY <3>1, TimesIsMonotone
  <2>3. low * (k + 1) = low * k + low /\ low * 0 = 0
    BY <1>2, <1>3 DEF NoMinimum
  <2> HIDE DEF low, k
  <2> QED BY <1>2, <1>3, <2>1, <2>2, <2>3 DEF NoMinimum
<1>6. stats.sum + last <= high * (k + 1)
  <2>1. stats.sum <= stats.max * k
    BY DEF StatisticsConsistent
  <2>2. stats.max * k <= high * k
    <3> HIDE DEF high, k
    <3> QED BY <1>2, <1>4, TimesIsMonotone
  <2>3. high * (k + 1) = high * k + high
    BY <1>2, <1>4, OneMore
  <2> HIDE DEF high, k
  <2> QED BY <1>2, <1>4, <2>1, <2>2, <2>3
<1>1. /\ Sampled(stats) \in [min : 0..NoMinimum, max : Nat, sum : Nat, samples : Nat, errors : Nat]
      /\ Sampled(stats).min = low /\ Sampled(stats).max = high
      /\ Sampled(stats).sum = stats.sum + last
      /\ Sampled(stats).samples = k + 1 /\ Sampled(stats).errors = stats.errors
  <2>1. stats \in [min : 0..NoMinimum, max : Nat, sum : Nat, samples : Nat, errors : Nat]
    BY DEF TypeOK
  <2>2. k + 1 \in Nat /\ stats.sum + last \in Nat
    BY <1>2
  <2>3. Sampled(stats) = [stats EXCEPT !.min = low, !.max = high, !.sum = stats.sum + last,
                                       !.samples = k + 1]
    BY DEF Sampled
  <2> HIDE DEF low, high, k
  <2> QED BY <1>3, <1>4, <2>1, <2>2, <2>3
<1>7. k + 1 + stats.errors = count + 1
  BY <1>2 DEF StatisticsConsistent, TypeOK
<1> HIDE DEF low, high, k
<1> QED BY <1>1, <1>2, <1>3, <1>4, <1>5, <1>6, <1>7

Quiet ==
  Release \/ Mount \/ OpenDir \/ EndOfDir \/ OpenFails \/ ReadImage \/ Infer \/ LookupFails \/ Score

(* The steps that neither deliver an entry nor count one.                  *)
LEMMA QuietKeepsInvariant ==
  ASSUME Invariant, Quiet
  PROVE  Invariant'
<1> USE DEF Release, Mount, OpenDir, EndOfDir, OpenFails, ReadImage, Infer, LookupFails, Score,
            Step, card, model, counters
<1>1. /\ UNCHANGED <<rows, gtBoxes, total, unread, todo, entry, count, stats>>
      /\ AtHand' => AtHand
      /\ pc' = pc \/ (pc = "button" /\ pc' \in {"count", "end"})
                  \/ (pc \notin {"button", "count", "end"} /\ pc' \notin {"button", "count"})
  BY DEF Quiet, AtHand
<1>2. TypeOK'
  <2>1. pc' \in Stages
    BY DEF Quiet, Invariant, TypeOK, Stages
  <2>2. TypeOK /\ EntryDelivered
    BY DEF Invariant
  <2>3. CASE ReadImage
    <3>1. image' \in {entry, image} /\ entry \in Files /\ UNCHANGED <<detected, last>>
      BY <2>2, <2>3 DEF EntryDelivered
    <3> QED BY <1>1, <2>1, <2>2, <3>1 DEF TypeOK
  <2>4. CASE Infer
    <3>1. detected' = image /\ last' \in Nat /\ UNCHANGED image
      BY <2>4, TimesAssumption DEF NoMinimum
    <3> QED BY <1>1, <2>1, <2>2, <3>1 DEF TypeOK
  <2>5. CASE ~ReadImage /\ ~Infer
    <3>1. UNCHANGED <<image, detected, last>>
      BY <2>5 DEF Quiet
    <3> QED BY <1>1, <2>1, <2>2, <3>1 DEF TypeOK
  <2> QED BY <2>3, <2>4, <2>5
<1>3. EntryDelivered'
  BY DEF Quiet, Invariant, EntryDelivered, Countable, TypeOK
<1>4. CountedOnce'
  <2>1. Cardinality(Countable \ todo) \in Nat /\ count \in Nat
    BY FiniteSets DEF Invariant, TypeOK
  <2>2. Uncounted' <= Uncounted /\ Uncounted \in Nat /\ Uncounted' \in Nat
    BY <1>1 DEF Uncounted, Countable
  <2> QED BY <1>1, <2>1, <2>2 DEF Invariant, CountedOnce, Countable
<1>5. RowsCounted'
  BY <1>1 DEF Invariant, RowsCounted
<1>6. StatisticsConsistent'
  BY <1>1 DEF Invariant, StatisticsConsistent
<1> QED BY <1>2, <1>3, <1>4, <1>5, <1>6 DEF Invariant

(* count_csv_lines sizes the progress bar before anything counts.          *)
LEMMA CountLinesKeepsInvariant ==
  ASSUME Invariant, CountLines
  PROVE  Invariant'
<1> USE DEF CountLines, card, model, counters
<1>1. Cardinality(Countable \ todo) \in Nat
  BY FiniteSets DEF Invariant
<1>2. /\ total' \in Nat \cup {EIO} /\ unread' \subseteq rows
      /\ total' >= Cardinality(rows \ unread') \/ total' = EIO
  <2>1. CASE total' = EIO /\ UNCHANGED unread
    BY <2>1 DEF Invariant, TypeOK
  <2>2. ASSUME NEW others \in 0..OtherRows, unread' \in SUBSET rows,
               total' = Cardinality(rows \ unread') + others
        PROVE  total' \in Nat /\ total' >= Cardinality(rows \ unread')
    <3>1. Cardinality(rows \ unread') \in Nat
      BY FiniteSets, FS_Difference, FS_CardinalityType DEF Invariant
    <3> QED BY <2>2, <3>1, RowsAssumption
  <2> QED BY <2>1, <2>2
<1>3. TypeOK'
  BY <1>2 DEF Invariant, TypeOK, Stages
<1>6. total' > 0 \/ pc' = "end"
  BY <1>2 DEF EIO
<1>7. RowsCounted'
  <2>1. count' = 0
    BY DEF Invariant, RowsCounted
  <2> QED BY <1>2, <1>6, <2>1 DEF RowsCounted, EIO
<1>4. EntryDelivered' /\ StatisticsConsistent'
  BY <1>2 DEF Invariant, EntryDelivered, StatisticsConsistent
<1>5. CountedOnce'
  BY <1>1 DEF Invariant, CountedOnce, Uncounted, AtHand, Countable
<1> QED BY <1>3, <1>4, <1>5, <1>7 DEF Invariant

(* fs_readdir delivers an entry that had not been delivered.               *)
LEMMA ReadDirKeepsInvariant ==
  ASSUME Invariant, ReadDir
  PROVE  Invariant'
<1> USE DEF ReadDir, card, model, counters
<1>1. PICK x \in todo : /\ entry' = x /\ todo' = todo \ {x}
                        /\ pc' = IF x \in Dirs THEN "countEntry" ELSE "open"
  OBVIOUS
<1>2. TypeOK'
  BY <1>1 DEF Invariant, TypeOK, Stages
<1>3. EntryDelivered'
  BY <1>1 DEF EntryDelivered, Invariant, TypeOK, Countable
<1>4. CountedOnce'
  <2>1. Cardinality(Countable \ todo) \in Nat /\ count \in Nat
    BY FiniteSets DEF Invariant, TypeOK
  <2>2. Countable' = Countable /\ count' = count /\ pc = "readdir"
    BY DEF Countable
  <2>3. Uncounted = 0 /\ Uncounted' = (IF x \in Countable THEN 1 ELSE 0)
    BY <1>1, <2>2 DEF Uncounted, AtHand
  <2>4. Cardinality((Countable \ todo)') =
          Cardinality(Countable \ todo) + (IF x \in Countable THEN 1 ELSE 0)
    BY <1>1, <2>2, Delivered DEF Invariant
  <2>5. count + 0 <= Cardinality(Countable \ todo)
    BY <2>3 DEF Invariant, CountedOnce
  <2> DEFINE one == IF x \in Countable THEN 1 ELSE 0
             c == Cardinality(Countable \ todo)
  <2>6. one \in Nat /\ c \in Nat /\ count <= c
    BY <2>1, <2>5
  <2>7. count' = count /\ Uncounted' = one /\ Cardinality((Countable \ todo)') = c + one
    BY <2>2, <2>3, <2>4
  <2> HIDE DEF one, c
  <2>8. count + one <= c + one
    BY <2>1, <2>6
  <2> QED BY <2>7, <2>8 DEF CountedOnce
<1>5. RowsCounted' /\ StatisticsConsistent'
  BY DEF Invariant, RowsCounted, StatisticsConsistent
<1> QED BY <1>2, <1>3, <1>4, <1>5 DEF Invariant

(* The entry at hand counts, as a sample or as an error.                   *)
LEMMA CountEntryKeepsInvariant ==
  ASSUME Invariant, CountEntry
  PROVE  Invariant'
<1>1. /\ TypeOK /\ StatisticsConsistent /\ count \in Nat /\ last \in Nat
      /\ UNCHANGED <<rows, gtBoxes, total, unread, todo, entry, image, detected, last>>
      /\ count' = count + 1
      /\ stats' = IF last > 0 THEN Sampled(stats) ELSE [stats EXCEPT !.errors = @ + 1]
      /\ pc = "countEntry" /\ pc' = "readdir" /\ entry \in Countable
  BY DEF Invariant, TypeOK, EntryDelivered, CountEntry, Step, card, model
<1>2. /\ stats' \in [min : 0..NoMinimum, max : Nat, sum : Nat, samples : Nat, errors : Nat]
      /\ StatisticsConsistent'
  <2>1. CASE last > 0
    BY <1>1, <2>1, SampleKeepsAverage DEF StatisticsConsistent
  <2>2. CASE ~(last > 0)
    <3>1. stats \in [min : 0..NoMinimum, max : Nat, sum : Nat, samples : Nat, errors : Nat]
      BY <1>1 DEF TypeOK
    <3>2. stats' = [stats EXCEPT !.errors = stats.errors + 1]
      BY <1>1, <2>2
    <3>3. /\ stats'.min = stats.min /\ stats'.max = stats.max /\ stats'.sum = stats.sum
          /\ stats'.samples = stats.samples /\ stats'.errors = stats.errors + 1
      BY <3>1, <3>2
    <3>4. stats' \in [min : 0..NoMinimum, max : Nat, sum : Nat, samples : Nat, errors : Nat]
      BY <3>1, <3>2
    <3>5. stats.samples + (stats.errors + 1) = count + 1
      <4>1. stats.samples + stats.errors = count
        BY <1>1 DEF StatisticsConsistent
      <4>2. stats.samples \in Nat /\ stats.errors \in Nat
        BY <3>1
      <4> QED BY <1>1, <4>1, <4>2
    <3> QED BY <1>1, <3>3, <3>4, <3>5 DEF StatisticsConsistent
  <2> QED BY <2>1, <2>2
<1>3. TypeOK'
  <2>1. pc' \in Stages /\ {count, last}' \subseteq Nat
    BY <1>1 DEF TypeOK, Stages
  <2> QED BY <1>1, <1>2, <2>1 DEF TypeOK
<1>4. EntryDelivered' /\ RowsCounted'
  BY <1>1 DEF Invariant, EntryDelivered, RowsCounted
<1>5. CountedOnce'
  <2>1. Cardinality(Countable \ todo) \in Nat
    BY <1>1, FiniteSets
  <2>2. Uncounted = 1 /\ Uncounted' = 0 /\ (Countable \ todo)' = Countable \ todo
    BY <1>1 DEF Uncounted, AtHand, Countable
  <2>3. count + 1 <= Cardinality(Countable \ todo)
    BY <2>2 DEF Invariant, CountedOnce
  <2>4. count' + 0 = count + 1
    BY <1>1
  <2> QED BY <2>2, <2>3, <2>4 DEF CountedOnce
<1> QED BY <1>2, <1>3, <1>4, <1>5 DEF Invariant

(* Every entry that was delivered counts at most once, in the statistics   *)
(* or as an error (run_benchmark_on_sd_card).                              *)
THEOREM Invariance == Spec => []Invariant
<1>1. Invariant /\ [Next]_vars => Invariant'
  <2>1. ASSUME Invariant, UNCHANGED vars
        PROVE  Invariant'
    BY <2>1 DEF vars, card, model, counters, Invariant, TypeOK, EntryDelivered, CountedOnce,
               RowsCounted, StatisticsConsistent, Uncounted, AtHand, Countable
  <2> QED BY <2>1, QuietKeepsInvariant, CountLinesKeepsInvariant, ReadDirKeepsInvariant,
             CountEntryKeepsInvariant DEF Next, Quiet
<1> QED BY <1>1, InitInvariant, PTL DEF Spec

(* Types, for every card.                                                  *)
THEOREM TypesAreKept == Spec => []TypeOK
<1>1. Invariant => TypeOK
  BY DEF Invariant
<1> QED BY <1>1, Invariance, PTL

(* The average that the benchmark shows lies between its minimum and its   *)
(* maximum (main.c:556-567), whatever the inference times.                 *)
THEOREM AverageIsWithinBounds == Spec => []StatisticsConsistent
<1>1. Invariant => StatisticsConsistent
  BY DEF Invariant
<1> QED BY <1>1, Invariance, PTL

(* The progress bar (main.c:569) passes its end only by sub-directories    *)
(* and by images whose lines a failing read kept from being counted.       *)
THEOREM ProgressIsBounded == Spec => []ProgressWithinTotal
<1>1. ASSUME Invariant
      PROVE  ProgressWithinTotal
  <2>1. TypeOK
    BY <1>1 DEF Invariant
  <2> DEFINE c == Cardinality(Countable \ todo)
             d == Cardinality(Dirs \ todo)
             r == Cardinality(rows \ unread)
             u == Cardinality(unread \ todo)
  <2>2. /\ c \in Nat /\ d \in Nat /\ r \in Nat /\ u \in Nat
        /\ count \in Nat /\ total \in Nat \cup {EIO}
    BY <2>1, FiniteSets DEF TypeOK
  <2>3. c <= r + u + d
    <3> DEFINE Rows == (rows \ unread) \cup (unread \ todo)
               All == Rows \cup (Dirs \ todo)
    <3>1. IsFiniteSet(Rows) /\ Cardinality(Rows) \in Nat /\ Cardinality(Rows) <= r + u
      <4>1. IsFiniteSet(Rows) /\ Cardinality(Rows) \in Nat
        BY <2>1, FiniteSets, FS_Union, FS_CardinalityType
      <4>2. Cardinality(Rows) = r + u - Cardinality((rows \ unread) \cap (unread \ todo))
        BY <2>1, FiniteSets, FS_Union
      <4>3. Cardinality((rows \ unread) \cap (unread \ todo)) \in Nat
        BY <2>1, FiniteSets, FS_Intersection, FS_CardinalityType
      <4> HIDE DEF Rows, r, u
      <4> QED BY <2>2, <4>1, <4>2, <4>3
    <3>2. IsFiniteSet(All) /\ Cardinality(All) \in Nat /\ Cardinality(All) <= Cardinality(Rows) + d
      <4>1. IsFiniteSet(Dirs \ todo)
        BY <2>1, FiniteSets
      <4> HIDE DEF Rows
      <4>2. IsFiniteSet(All) /\ Cardinality(All) \in Nat
        BY <3>1, <4>1, FS_Union, FS_CardinalityType
      <4>3. Cardinality(All) = Cardinality(Rows) + d - Cardinality(Rows \cap (Dirs \ todo))
        BY <3>1, <4>1, FS_Union
      <4>4. Cardinality(Rows \cap (Dirs \ todo)) \in Nat
        BY <3>1, FS_Intersection, FS_CardinalityType
      <4> HIDE DEF All, d
      <4> QED BY <2>2, <3>1, <4>2, <4>3, <4>4
    <3>3. Countable \ todo \subseteq All
      BY DEF Countable
    <3>4. c <= Cardinality(All)
      <4> HIDE DEF All
      <4> QED BY <3>2, <3>3, FS_Subset
    <3> HIDE DEF c, d, r, u, Rows, All
    <3> QED BY <2>2, <3>1, <3>2, <3>4
  <2>4. count <= c
    BY <1>1, <2>2 DEF Invariant, CountedOnce, Uncounted
  <2>5. (total > 0 /\ total >= r) \/ count = 0
    BY <1>1 DEF Invariant, RowsCounted
  <2> HIDE DEF c, d, r, u
  <2>6. IF total <= 0 THEN count = 0 ELSE count <= total + u + d
    BY <2>2, <2>3, <2>4, <2>5 DEF EIO
  <2> QED BY <2>6 DEF ProgressWithinTotal, d, u
<1> QED BY <1>1, Invariance, PTL

(* The image in the buffer and the detections are those of the entry at    *)
(* hand.                                                                   *)
OwnImage ==
  /\ pc = "infer" => image = entry
  /\ pc = "lookup" => detected = entry

(* What the assert after fs_read (main.c:495) means to say: had a short    *)
(* read been noticed, every image would be scored against its own ground   *)
(* truth.                                                                  *)
THEOREM WholeReadsScoreOwnImage == ~MayBeShort => (Spec => []ScoresOwnImage)
<1>1. CASE ~MayBeShort
  <2>1. Init => OwnImage
    BY DEF Init, OwnImage
  <2>2. ASSUME OwnImage, [Next]_vars
        PROVE  OwnImage'
    <3> USE <2>2 DEF OwnImage, card, model, counters, Step
    <3>1. CASE ReadImage
      BY <1>1, <3>1 DEF ReadImage
    <3>2. CASE Infer
      BY <3>2 DEF Infer
    <3>3. CASE Release \/ Mount \/ CountLines \/ OpenDir \/ ReadDir
      BY <3>3 DEF Release, Mount, CountLines, OpenDir, ReadDir
    <3>4. CASE EndOfDir \/ OpenFails \/ LookupFails \/ Score \/ CountEntry
      BY <3>4 DEF EndOfDir, OpenFails, LookupFails, Score, CountEntry
    <3>5. CASE UNCHANGED vars
      BY <3>5 DEF vars
    <3> QED BY <3>1, <3>2, <3>3, <3>4, <3>5 DEF Next
  <2>3. OwnImage => ScoresOwnImage
    BY DEF OwnImage, ScoresOwnImage
  <2> QED BY <2>1, <2>2, <2>3, PTL DEF Spec
<1> QED BY <1>1

-----------------------------------------------------------------------------
(***************************************************************************)
(* The cache maintenance of an inference, for any number of images and     *)
(* whatever the cache evicts.  The invariant says, for each kind of data,  *)
(* where its newest value is between the step that writes it and the step  *)
(* that reads it.                                                          *)
(***************************************************************************)


(* x was last written by the CPU and is v, in the cache or already in memory *)
WrittenLast(x, v) == IF x \in dirty THEN data[x] = v ELSE ram[x] = v

(* memory holds v, and no eviction will change it *)
InRam(x, v) == x \notin dirty /\ ram[x] = v

(* the CPU has no copy of x, and so will read memory *)
Dropped(x) == x \notin cached

ImagePath ==
  /\ step = "flush" => WrittenLast("image", <<"image", n>>)
  /\ step \in {"invalidate", "blob1", "layers", "lastlayer"} => InRam("image", <<"image", n>>)

QuantizedPath ==
  /\ step \in {"layers", "lastlayer"} => Dropped("mid")
  /\ step \in {"invalidateTail", "dequantize"} =>
       Dropped("mid") /\ ram["mid"] = <<"quantized", n>>

FloatsPath ==
  /\ step = "clean" => \A x \in Output : WrittenLast(x, <<"floats", n>>)
  /\ step = "blob22" => \A x \in Output : InRam(x, <<"floats", n>>)

(* the way back to the CPU, which only holds if the outputs are invalidated *)
OutputPath ==
  /\ step = "after" => \A x \in Output : InRam(x, <<"output", n>>)
  /\ step = "decode" /\ NumberOutput > 0 =>
       \A x \in Output : Dropped(x) /\ InRam(x, <<"output", n>>)

CacheInvariant == CacheTypeOK /\ ImagePath /\ QuantizedPath /\ FloatsPath /\ OutputPath

(* Nothing has been written yet.                                           *)
LEMMA InitCacheInvariant == CacheInit => CacheInvariant
BY CountAssumption
   DEF CacheInit, CacheInvariant, CacheTypeOK, ImagePath, QuantizedPath, FloatsPath, OutputPath,
       Nothing, Data, Kinds

USE DEF CacheInvariant, CacheTypeOK, ImagePath, QuantizedPath, FloatsPath, OutputPath,
        WrittenLast, InRam, Dropped, Lines, Output, Data, Kinds, Does

(* The CPU reads and writes: image, dequantization, decoding.              *)
LEMMA CpuKeepsInvariant ==
  ASSUME CacheInvariant, LoadImage \/ Dequantize \/ Decode
  PROVE  CacheInvariant'
<1>1. CASE LoadImage
  BY <1>1 DEF LoadImage, CpuReadsWrites, CpuSees
<1>2. CASE Dequantize
  BY <1>2 DEF Dequantize, CpuReadsWrites, CpuSees
<1>3. CASE Decode
  BY <1>3, CountAssumption DEF Decode, CpuReadsWrites, CpuSees
<1> QED BY <1>1, <1>2, <1>3

(* The NPU writes memory behind the cache.                                 *)
LEMMA NpuKeepsInvariant ==
  ASSUME CacheInvariant, Layers \/ LastLayer \/ Transpose
  PROVE  CacheInvariant'
<1>1. CASE Layers
  BY <1>1 DEF Layers, NpuWrites
<1>2. CASE LastLayer
  BY <1>2 DEF LastLayer, NpuWrites
<1>3. CASE Transpose
  BY <1>3 DEF Transpose, NpuWrites
<1> QED BY <1>1, <1>2, <1>3

(* The maintenance the code performs.                                      *)
LEMMA MaintenanceKeepsInvariant ==
  ASSUME CacheInvariant,
         \/ FlushImage \/ InvalidateBefore \/ StartBlob1 \/ InvalidateTail
         \/ CleanFloats \/ InvalidateAfter
  PROVE  CacheInvariant'
<1>1. CASE FlushImage
  BY <1>1 DEF FlushImage, CleanRange
<1>2. CASE InvalidateBefore
  BY <1>2, CountAssumption
     DEF InvalidateBefore, InvalidateOutputs, InvalidateRange, NoMaintenance
<1>3. CASE StartBlob1
  BY <1>3 DEF StartBlob1, InvalidateRange
<1>4. CASE InvalidateTail
  BY <1>4 DEF InvalidateTail, InvalidateRange
<1>5. CASE CleanFloats
  BY <1>5 DEF CleanFloats, CleanRange
<1>6. CASE InvalidateAfter
  BY <1>6, CountAssumption
     DEF InvalidateAfter, InvalidateOutputs, InvalidateRange, NoMaintenance
<1> QED BY <1>1, <1>2, <1>3, <1>4, <1>5, <1>6

(* An eviction moves a written value to memory and takes nothing away that *)
(* memory does not have.                                                   *)
LEMMA EvictionKeepsInvariant ==
  ASSUME CacheInvariant, NEW x \in Lines, Evict(x)
  PROVE  CacheInvariant'
BY DEF Evict

(* Every step of an inference keeps the invariant.                         *)
LEMMA NextCacheInvariant == CacheInvariant /\ [CacheNext]_cacheVars => CacheInvariant'
<1>1. CASE UNCHANGED cacheVars
  BY <1>1 DEF cacheVars
<1> QED BY <1>1, CpuKeepsInvariant, NpuKeepsInvariant, MaintenanceKeepsInvariant,
           EvictionKeepsInvariant DEF CacheNext

(* From each write of the image, the quantized result, the floats and the  *)
(* output to its read, the newest value is where the reader looks          *)
(* (run_nn_from_sd_card and the epoch blocks of network.c).                *)
THEOREM CacheInvariance == CacheSpec => []CacheInvariant
BY InitCacheInvariant, NextCacheInvariant, PTL DEF CacheSpec

(* The NPU works on the image that was loaded for this inference: the      *)
(* clean in run_nn_from_sd_card (model.c:225) is enough.                   *)
THEOREM NpuWorksOnNewImage == CacheSpec => []ImageReachesNpu
<1>1. CacheInvariant => ImageReachesNpu
  BY DEF ImageReachesNpu
<1> QED BY <1>1, CacheInvariance, PTL

(* DequantizeLinear reads the result of blob 1: the invalidation at its    *)
(* start (network.c:_ec_blob_cache_start_func_1) is enough, because the    *)
(* CPU does not touch those lines while the blob runs.                     *)
THEOREM DequantizationIsCurrent == CacheSpec => []DequantizeReadsResult
<1>1. CacheInvariant => DequantizeReadsResult
  BY DEF DequantizeReadsResult, CpuSees
<1> QED BY <1>1, CacheInvariance, PTL

(* Blob 22 transposes the floats the CPU wrote.                            *)
THEOREM TranspositionIsCurrent == CacheSpec => []TransposeReadsFloats
<1>1. CacheInvariant => TransposeReadsFloats
  BY DEF TransposeReadsFloats
<1> QED BY <1>1, CacheInvariance, PTL

(* Had number_output been set, the post-processing would read the output   *)
(* of this image: the loop after the inference is in the right place, and  *)
(* the missing assignment is the only thing wrong with it.                 *)
THEOREM FreshIfOutputsAreCounted == NumberOutput > 0 => (CacheSpec => []OutputIsFresh)
<1>1. NumberOutput > 0 => (CacheInvariant => OutputIsFresh)
  BY DEF OutputIsFresh, CpuSees
<1>2. CASE NumberOutput > 0
  <2>1. CacheInvariant => OutputIsFresh
    BY <1>1, <1>2
  <2> QED BY <2>1, CacheInvariance, PTL
<1> QED BY <1>2
=============================================================================
