----------------------------- MODULE CsvGtProofs -----------------------------
(***************************************************************************)
(* The lookup in the ground-truth file, for any file, buffer and number of *)
(* boxes, and the two readers against each other.                          *)
(*                                                                         *)
(* The rows of CsvGt are defined on the whole file, with CHOOSE; the       *)
(* invariant speaks of where a row ends (Ended) as the file grows, and of  *)
(* what the line buffer has of the row that is being read (Reading).       *)
(* CounterInvariant relates what the two readers have of the file.         *)
(***************************************************************************)
EXTENDS CsvGt, FiniteSetTheorems, FunctionTheorems, SequenceTheorems, TLAPS

AnySymbol == {EOL} \cup Names \cup Numbers
Fields == Names \cup Numbers

TypeOK ==
  /\ pc \in {"open", "read", "done"}
  /\ file \in Seq(AnySymbol) /\ line \in Seq(Fields) /\ Len(line) <= Cap

AtRowStart == StartsRow(file)

(* The row that starts at i ends before j. *)
Ended(i, j) ==
  /\ j \in i..(Len(file) + 1)
  /\ j = Len(file) + 1 \/ file[j] = EOL
  /\ \A n \in i..(j - 1) : file[n] # EOL

RowsEnd == \A i \in 1..Len(file) : \E j \in Nat : Ended(i, j)

NamesStart == \A i \in 1..Len(file) : file[i] \in Names => i \in RowStarts

(* The buffer holds all there is of the row from i. *)
Holds(i) ==
  /\ Len(line) = Len(file) - i + 1
  /\ \A n \in 1..Len(line) : line[n] = file[i + n - 1]

(* The parser has not come to the row from i: it goes on and still fits. *)
Unfinished(i) == Ended(i, Len(file) + 1) /\ Len(file) - i + 1 <= Cap

NoneSeen == \A i \in RowStarts : file[i] = Wanted => Unfinished(i)

Reading ==
  /\ ~found /\ out = <<>> /\ NoneSeen
  /\ AtRowStart => line = <<>>
  /\ ~AtRowStart => \E i \in RowStarts : Ended(i, Len(file) + 1)
  /\ \A i \in RowStarts : Ended(i, Len(file) + 1) =>
       \/ Len(file) - i + 1 <= Cap /\ Holds(i)
       \/ Len(file) - i + 1 > Cap /\ \A n \in 1..Len(line) : line[n] \notin Names

(* The answer to a row that was parsed. *)
Answer(row) ==
  IF Complete(row) THEN ret = 0 /\ out = AllBoxes(row) ELSE ret = EINVAL /\ out = <<>>

(* The row from i was parsed just now, at its end or because it did not fit. *)
Parsed(i, row) ==
  /\ file[i] = Wanted /\ \A j \in RowStarts : file[j] = Wanted => j = i
  /\ Len(row) <= Cap /\ Len(row) >= 1 /\ Len(row) = Len(file) - i
  /\ \A n \in 1..Len(row) : row[n] = file[i + n - 1]
  /\ file[Len(file)] = EOL \/ Len(row) = Cap
  /\ Answer(row)

Result ==
  \/ ret = EIO
  \/ ret = ENOENT /\ out = <<>> /\ NoneSeen
  \/ \E i \in RowStarts, row \in Seq(Fields) : Parsed(i, row)

Invariant ==
  /\ TypeOK /\ RowsEnd /\ NamesStart
  /\ pc = "open" => file = <<>>
  /\ pc \in {"open", "read"} => Reading
  /\ pc = "done" => Result

LineEnds(content) == {i \in DOMAIN content : content[i] = EOL}

(* Counting comes first, a returned count is that of the line ends it read, and the
   lookup reads the same file, no further than the end if counting came to it. *)
CounterInvariant ==
  /\ counting \in {"open", "read", "done"} /\ whole \in BOOLEAN
  /\ counted \in Seq(AnySymbol)
  /\ counting = "open" => counted = <<>>
  /\ counting # "done" => pc = "open"
  /\ (lines = EIO /\ counting = "done") \/ lines = Cardinality(LineEnds(counted))
  /\ pc = "open" => file = <<>>
  /\ whole => Len(file) <= Len(counted)
  /\ \A i \in 1..Len(file) : i <= Len(counted) => file[i] = counted[i]

-----------------------------------------------------------------------------
(* Rows *)

LEMMA FileFacts ==
  ASSUME TypeOK
  PROVE  /\ Len(file) \in Nat /\ DOMAIN file = 1..Len(file)
         /\ \A i \in 1..Len(file) : file[i] \in AnySymbol
         /\ RowStarts \subseteq 1..Len(file)
         /\ Len(line) \in Nat /\ (line = <<>> <=> Len(line) = 0)
         /\ \A n \in 1..Len(line) : line[n] \in Fields /\ line[n] # EOL
         /\ AtRowStart <=> Len(file) = 0 \/ file[Len(file)] = EOL
<1>1. file \in Seq(AnySymbol) /\ line \in Seq(Fields)
  BY DEF TypeOK
<1>2. /\ Len(file) \in Nat /\ DOMAIN file = 1..Len(file)
      /\ \A i \in 1..Len(file) : file[i] \in AnySymbol
  BY <1>1
<1>3. Len(line) \in Nat /\ (line = <<>> <=> Len(line) = 0)
  BY <1>1, EmptySeq
<1>4. \A n \in 1..Len(line) : line[n] \in Fields /\ line[n] # EOL
  BY <1>1, FileAssumption DEF Fields
<1>5. file = <<>> <=> Len(file) = 0
  BY <1>1, EmptySeq
<1> QED BY <1>2, <1>3, <1>4, <1>5 DEF RowStarts, AtRowStart, StartsRow

(* A row has one end, and at an end there is one row.                      *)
LEMMA OneEnd ==
  ASSUME TypeOK, NEW i \in 1..Len(file), NEW j \in Nat, NEW m \in Nat, Ended(i, j), Ended(i, m)
  PROVE  j = m
BY FileFacts DEF Ended

LEMMA OneStart ==
  ASSUME TypeOK, NEW i \in RowStarts, NEW j \in RowStarts, NEW m \in Nat, Ended(i, m), Ended(j, m)
  PROVE  i = j
<1>1. i \in 1..Len(file) /\ j \in 1..Len(file) /\ Len(file) \in Nat /\ m >= i /\ m >= j
  BY FileFacts DEF Ended
<1>2. ~(i < j)
  <2> SUFFICES ASSUME i < j PROVE FALSE
    OBVIOUS
  <2>1. j - 1 \in i..(m - 1) /\ j # 1
    BY <1>1
  <2>2. file[j - 1] = EOL
    BY <2>1 DEF RowStarts
  <2> QED BY <2>1, <2>2 DEF Ended
<1>3. ~(j < i)
  <2> SUFFICES ASSUME j < i PROVE FALSE
    OBVIOUS
  <2>1. i - 1 \in j..(m - 1) /\ i # 1
    BY <1>1
  <2>2. file[i - 1] = EOL
    BY <2>1 DEF RowStarts
  <2> QED BY <2>1, <2>2 DEF Ended
<1> QED BY <1>1, <1>2, <1>3

LEMMA EndIs ==
  ASSUME TypeOK, NEW i \in 1..Len(file), NEW j \in Nat, Ended(i, j)
  PROVE  EndOfRow(i) = j
<1>1. /\ j \in i..(Len(file) + 1) /\ (j = Len(file) + 1 \/ file[j] = EOL)
      /\ \A n \in i..(j - 1) : file[n] # EOL
  BY DEF Ended
<1>2. /\ EndOfRow(i) \in i..(Len(file) + 1)
      /\ EndOfRow(i) = Len(file) + 1 \/ file[EndOfRow(i)] = EOL
      /\ \A n \in i..(EndOfRow(i) - 1) : file[n] # EOL
  BY <1>1 DEF EndOfRow
<1>3. Ended(i, EndOfRow(i)) /\ EndOfRow(i) \in Nat
  BY <1>2, FileFacts DEF Ended
<1> QED BY <1>3, OneEnd

(* One more symbol                                                         *)
LEMMA Grows ==
  ASSUME TypeOK, RowsEnd, NamesStart, NEW ch \in Symbols(file), file' = Append(file, ch),
         NEW n, n = Len(file)
  PROVE  /\ Len(file') = Len(file) + 1 /\ file'[Len(file) + 1] = ch
         /\ \A i \in 1..Len(file) : file'[i] = file[i]
         /\ file' \in Seq(AnySymbol) /\ RowsEnd' /\ NamesStart'
         /\ AtRowStart' <=> ch = EOL
         /\ \A i \in RowStarts' : i \in RowStarts \/ (i = Len(file) + 1 /\ AtRowStart)
         /\ RowStarts \subseteq RowStarts' /\ (AtRowStart => Len(file) + 1 \in RowStarts')
         /\ \A i \in 1..Len(file) :
              Ended(i, n + 2)' <=> (Ended(i, Len(file) + 1) /\ ch # EOL)
         /\ Ended(n + 1, n + 2)' <=> ch # EOL
<1>1. ch \in AnySymbol /\ (ch \in Names => AtRowStart)
  BY FileAssumption DEF Symbols, AtRowStart, StartsRow, AnySymbol
<1>2. /\ Len(file') = Len(file) + 1 /\ file'[Len(file) + 1] = ch
      /\ \A i \in 1..Len(file) : file'[i] = file[i]
      /\ file' \in Seq(AnySymbol) /\ Len(file) \in Nat
  BY <1>1, AppendProperties, FileFacts DEF TypeOK
<1>3. DOMAIN file = 1..Len(file) /\ DOMAIN file' = 1..(Len(file) + 1)
  BY <1>2, FileFacts
<1>4. AtRowStart' <=> ch = EOL
  <2>1. file' # <<>>
    BY <1>2, EmptySeq
  <2> QED BY <1>2, <2>1 DEF AtRowStart, StartsRow
<1>5. /\ \A i \in RowStarts' : i \in RowStarts \/ (i = Len(file) + 1 /\ AtRowStart)
      /\ RowStarts \subseteq RowStarts' /\ (AtRowStart => Len(file) + 1 \in RowStarts')
  <2>1. RowStarts' = {i \in 1..(Len(file) + 1) : i = 1 \/ file'[i - 1] = EOL}
    BY <1>3 DEF RowStarts
  <2>2. RowStarts = {i \in 1..Len(file) : i = 1 \/ file[i - 1] = EOL}
    BY <1>3 DEF RowStarts
  <2>3. \A i \in 1..(Len(file) + 1) : i # 1 => file'[i - 1] = file[i - 1]
    BY <1>2
  <2>4. AtRowStart <=> Len(file) + 1 = 1 \/ file[Len(file)] = EOL
    BY FileFacts
  <2> QED BY <1>2, <2>1, <2>2, <2>3, <2>4
<1>6. \A i \in 1..Len(file) :
        Ended(i, n + 2)' <=> (Ended(i, Len(file) + 1) /\ ch # EOL)
  BY <1>2 DEF Ended
<1>7. Ended(n + 1, n + 2)' <=> ch # EOL
  BY <1>2 DEF Ended
<1>8. RowsEnd'
  <2> SUFFICES ASSUME NEW i \in 1..(Len(file) + 1)
               PROVE  \E j \in Nat : Ended(i, j)'
    BY <1>2 DEF RowsEnd
  <2>1. CASE i = Len(file) + 1
    <3>1. CASE ch = EOL
      <4>1. Ended(i, n + 1)'
        BY <1>2, <2>1, <3>1 DEF Ended
      <4> QED BY <1>2, <4>1
    <3>2. CASE ch # EOL
      <4>1. Ended(i, n + 2)'
        BY <1>7, <2>1, <3>2
      <4> QED BY <1>2, <4>1
    <3> QED BY <3>1, <3>2
  <2>2. CASE i \in 1..Len(file)
    <3>1. PICK j \in Nat : Ended(i, j)
      BY <2>2 DEF RowsEnd
    <3>2. CASE j <= Len(file) \/ ch = EOL
      <4>1. Ended(i, j)'
        BY <1>2, <2>2, <3>1, <3>2 DEF Ended
      <4> QED BY <4>1
    <3>3. CASE ~(j <= Len(file)) /\ ch # EOL
      <4>1. j = Len(file) + 1
        BY <1>2, <3>1, <3>3 DEF Ended
      <4>2. Ended(i, n + 2)'
        BY <1>6, <2>2, <3>1, <3>3, <4>1
      <4> QED BY <1>2, <4>2
    <3> QED BY <3>2, <3>3
  <2> QED BY <1>2, <2>1, <2>2
<1>9. NamesStart'
  <2> SUFFICES ASSUME NEW i \in 1..(Len(file) + 1), file'[i] \in Names
               PROVE  i \in RowStarts'
    BY <1>2 DEF NamesStart
  <2>1. CASE i = Len(file) + 1
    BY <1>1, <1>2, <1>5, <2>1
  <2>2. CASE i \in 1..Len(file)
    BY <1>2, <1>5, <2>2 DEF NamesStart
  <2> QED BY <1>2, <2>1, <2>2
<1> QED BY <1>2, <1>4, <1>5, <1>6, <1>7, <1>8, <1>9

-----------------------------------------------------------------------------
(* The steps *)

LEMMA InitHolds == Init => Invariant
<1> SUFFICES ASSUME Init PROVE Invariant
  OBVIOUS
<1>1. pc = "open" /\ file = <<>> /\ line = <<>> /\ found = FALSE /\ out = <<>>
  BY DEF Init
<1>2. TypeOK
  BY <1>1, EmptySeq, FileAssumption DEF TypeOK
<1>3. Len(file) = 0 /\ RowStarts = {} /\ AtRowStart
  BY <1>1, <1>2, FileFacts DEF AtRowStart, StartsRow
<1>4. RowsEnd /\ NamesStart
  BY <1>3 DEF RowsEnd, NamesStart
<1>5. Reading
  BY <1>1, <1>3 DEF Reading, NoneSeen, AtRowStart, StartsRow
<1> QED BY <1>1, <1>2, <1>4, <1>5 DEF Invariant

(* A field more in the buffer, and in the row.                             *)
LEMMA StoresKeeps ==
  ASSUME Invariant, pc = "read", NEW ch \in Symbols(file), file' = Append(file, ch), Stores(ch)
  PROVE  Invariant'
<1> USE DEF Invariant
<1>1. PICK n \in Nat : n = Len(file)
  BY FileFacts
<1>2. /\ Len(file') = n + 1 /\ file'[n + 1] = ch /\ \A i \in 1..n : file'[i] = file[i]
      /\ file' \in Seq(AnySymbol) /\ RowsEnd' /\ NamesStart' /\ (AtRowStart' <=> ch = EOL)
      /\ \A i \in RowStarts' : i \in RowStarts \/ (i = n + 1 /\ AtRowStart)
      /\ RowStarts \subseteq RowStarts' /\ (AtRowStart => n + 1 \in RowStarts')
      /\ \A i \in 1..n : Ended(i, n + 2)' <=> (Ended(i, n + 1) /\ ch # EOL)
      /\ Ended(n + 1, n + 2)' <=> ch # EOL
  BY <1>1, Grows
<1>3. /\ ch # EOL /\ Len(line) < Cap /\ line' = Append(line, ch)
      /\ pc' = pc /\ found' = found /\ out' = out
  BY DEF Stores
<1>4. ch \in Fields /\ (ch \in Names => AtRowStart)
  BY <1>3, FileAssumption DEF Symbols, AtRowStart, StartsRow, Fields
<1>5. /\ line' \in Seq(Fields) /\ Len(line') = Len(line) + 1 /\ Len(line) \in Nat
      /\ line'[Len(line) + 1] = ch /\ \A l \in 1..Len(line) : line'[l] = line[l]
  BY <1>3, <1>4, AppendProperties, FileFacts DEF TypeOK
<1>6. TypeOK'
  BY <1>2, <1>3, <1>5, FileAssumption DEF TypeOK
<1>7. RowStarts \subseteq 1..n /\ (AtRowStart => line = <<>> /\ Len(line) = 0)
  BY <1>1, FileFacts DEF Reading
<1>8. \A i \in RowStarts : Ended(i, n + 1) =>
        \/ n - i + 1 <= Cap /\ Len(line) = n - i + 1 /\ Holds(i)
        \/ n - i + 1 > Cap /\ \A l \in 1..Len(line) : line[l] \notin Names
  BY <1>1 DEF Reading, Holds
<1>9. \A i \in RowStarts : Ended(i, n + 1) => ~AtRowStart
  <2> SUFFICES ASSUME NEW i \in RowStarts, Ended(i, n + 1), AtRowStart PROVE FALSE
    OBVIOUS
  <2>1. i \in 1..n /\ n \in i..n
    BY <1>7
  <2>2. file[n] # EOL
    BY <2>1 DEF Ended
  <2> QED BY <1>1, <2>1, <2>2, FileFacts
<1>10. NoneSeen'
  <2> SUFFICES ASSUME NEW i \in RowStarts', file'[i] = Wanted
               PROVE  Ended(i, n + 2)' /\ n + 1 - i + 1 <= Cap
    <3>1. Len(file') + 1 = n + 2
      BY <1>2
    <3> QED BY <1>1, <1>2, <1>7, <3>1 DEF NoneSeen, Unfinished, Ended
  <2>1. CASE i \in RowStarts
    <3>1. Ended(i, n + 1) /\ n - i + 1 <= Cap /\ i \in 1..n
      BY <1>1, <1>2, <1>7, <2>1 DEF Reading, NoneSeen, Unfinished
    <3>2. Len(line) = n - i + 1
      BY <1>8, <2>1, <3>1, FileAssumption
    <3> QED BY <1>2, <1>3, <3>1, <3>2, FileAssumption
  <2>2. CASE i = n + 1
    BY <1>2, <1>3, <2>2, FileAssumption
  <2> QED BY <1>2, <2>1, <2>2
<1>11. ASSUME NEW i \in RowStarts', Ended(i, n + 2)'
       PROVE  \/ n + 1 - i + 1 <= Cap /\ Holds(i)'
              \/ n + 1 - i + 1 > Cap /\ \A l \in 1..Len(line') : line'[l] \notin Names
  <2>1. CASE i = n + 1 /\ AtRowStart
    <3>1. Len(line') = 1 /\ line'[1] = ch
      BY <1>5, <1>7, <2>1
    <3>2. Holds(i)'
      BY <1>2, <2>1, <3>1 DEF Holds
    <3> QED BY <2>1, <3>2, FileAssumption
  <2>2. CASE i \in RowStarts
    <3>1. Ended(i, n + 1) /\ i \in 1..n /\ ~AtRowStart
      BY <1>2, <1>7, <1>9, <1>11, <2>2
    <3>2. CASE n - i + 1 <= Cap /\ Len(line) = n - i + 1 /\ Holds(i)
      <4>1. \A l \in 1..Len(line) : line[l] = file[i + l - 1]
        BY <3>2 DEF Holds
      <4>2. Len(line') = n + 1 - i + 1
        BY <1>5, <3>1, <3>2
      <4>3. ASSUME NEW l \in 1..Len(line')
            PROVE  line'[l] = file'[i + l - 1]
        <5>1. CASE l \in 1..Len(line)
          <6>1. i + l - 1 \in 1..n
            BY <1>5, <3>1, <3>2, <5>1
          <6> QED BY <1>2, <1>5, <4>1, <5>1, <6>1
        <5>2. CASE l = Len(line) + 1
          BY <1>2, <1>5, <3>1, <3>2, <5>2
        <5>3. l \in 1..Len(line) \/ l = Len(line) + 1
          BY <1>5
        <5> QED BY <5>1, <5>2, <5>3
      <4>4. Holds(i)'
        <5>1. Len(line') = Len(file') - i + 1
          BY <1>1, <1>2, <3>1, <4>2
        <5> QED BY <4>3, <5>1 DEF Holds
      <4> QED BY <1>3, <1>5, <3>1, <3>2, <4>4, FileAssumption
    <3>3. CASE n - i + 1 > Cap /\ \A l \in 1..Len(line) : line[l] \notin Names
      BY <1>4, <1>5, <3>1, <3>3, FileAssumption
    <3> QED BY <1>8, <2>2, <3>1, <3>2, <3>3
  <2> QED BY <1>2, <2>1, <2>2
<1>12. \E i \in RowStarts' : Ended(i, n + 2)'
  <2>1. CASE AtRowStart
    BY <1>2, <1>3, <2>1
  <2>2. CASE ~AtRowStart
    <3>1. PICK i \in RowStarts : Ended(i, n + 1)
      BY <1>1, <2>2 DEF Reading
    <3> QED BY <1>2, <1>3, <1>7, <3>1
  <2> QED BY <2>1, <2>2
<1>13. Reading'
  <2>1. n + 2 = Len(file') + 1 /\ ~AtRowStart'
    BY <1>2, <1>3
  <2>2. \A i \in RowStarts' : Ended(i, Len(file) + 1)' =>
          \/ Len(file') - i + 1 <= Cap /\ Holds(i)'
          \/ Len(file') - i + 1 > Cap /\ \A l \in 1..Len(line') : line'[l] \notin Names
    <3>1. Len(file') = n + 1
      BY <1>2
    <3>2. \A i : Ended(i, Len(file) + 1)' <=> Ended(i, n + 2)'
      BY <2>1 DEF Ended
    <3> QED BY <1>1, <1>2, <1>7, <1>11, <3>1, <3>2
  <2>3. \E i \in RowStarts' : Ended(i, Len(file) + 1)'
    BY <1>12, <2>1
  <2>4. ~found' /\ out' = <<>>
    BY <1>3 DEF Reading
  <2> QED BY <1>10, <2>1, <2>2, <2>3, <2>4 DEF Reading
<1> QED BY <1>2, <1>3, <1>6, <1>13

(* A line is parsed if it begins with the wanted name: then it begins the row, too.
   Otherwise the buffer is empty for the next row, or for the rest of this one. *)
LEMMA EndsLineKeeps ==
  ASSUME Invariant, pc = "read", NEW ch \in Symbols(file), file' = Append(file, ch), EndsLine(ch)
  PROVE  Invariant'
<1> USE DEF Invariant
<1>1. PICK n \in Nat : n = Len(file)
  BY FileFacts
<1>2. /\ Len(file') = n + 1 /\ file'[n + 1] = ch /\ \A i \in 1..n : file'[i] = file[i]
      /\ file' \in Seq(AnySymbol) /\ RowsEnd' /\ NamesStart' /\ (AtRowStart' <=> ch = EOL)
      /\ \A i \in RowStarts' : i \in RowStarts \/ (i = n + 1 /\ AtRowStart)
      /\ RowStarts \subseteq RowStarts' /\ (AtRowStart => n + 1 \in RowStarts')
      /\ \A i \in 1..n : Ended(i, n + 2)' <=> (Ended(i, n + 1) /\ ch # EOL)
      /\ Ended(n + 1, n + 2)' <=> ch # EOL
  BY <1>1, Grows
<1>3. line' = <<>> /\ (ch = EOL \/ Len(line) = Cap)
  BY DEF EndsLine
<1>4. RowStarts \subseteq 1..n /\ (AtRowStart => line = <<>> /\ Len(line) = 0)
  BY <1>1, FileFacts DEF Reading
<1>5. \A i \in RowStarts : Ended(i, n + 1) =>
        \/ n - i + 1 <= Cap /\ Len(line) = n - i + 1 /\ Holds(i)
        \/ n - i + 1 > Cap /\ \A l \in 1..Len(line) : line[l] \notin Names
  BY <1>1 DEF Reading, Holds
<1>6. Len(line) \in Nat /\ (line = <<>> <=> Len(line) = 0)
  BY FileFacts
<1>7. \A i \in RowStarts : Ended(i, n + 1) /\ Holds(i) => line # <<>> /\ line[1] = file[i]
  <2> SUFFICES ASSUME NEW i \in RowStarts, Holds(i)
               PROVE  line # <<>> /\ line[1] = file[i]
    OBVIOUS
  <2>1. Len(line) = n - i + 1 /\ i \in 1..n
    BY <1>1, <1>4 DEF Holds
  <2>2. 1 \in 1..Len(line) /\ i + 1 - 1 = i
    BY <1>1, <2>1
  <2>3. line[1] = file[i + 1 - 1]
    BY <2>2 DEF Holds
  <2> QED BY <1>6, <2>2, <2>3
<1>8. TypeOK' /\ Len(line') = 0
  <2>1. pc' \in {"open", "read", "done"}
    BY DEF EndsLine, Parse, Returns
  <2> QED BY <1>2, <1>3, <2>1, EmptySeq, FileAssumption DEF TypeOK
<1>9. CASE line # <<>> /\ line[1] = Wanted
  <2>1. Parse(line)
    BY <1>9 DEF EndsLine
  <2>2. PICK i \in RowStarts : Ended(i, n + 1)
    BY <1>1, <1>4, <1>9 DEF Reading
  <2>3. 1 \in 1..Len(line)
    BY <1>6, <1>9
  <2>4. n - i + 1 <= Cap /\ Len(line) = n - i + 1 /\ Holds(i) /\ i \in 1..n
    BY <1>4, <1>5, <1>9, <2>2, <2>3, FileAssumption
  <2>5. file[i] = Wanted
    BY <1>7, <1>9, <2>2, <2>4
  <2>6. ASSUME NEW j \in RowStarts', file'[j] = Wanted
        PROVE  j = i
    <3>1. j \in RowStarts
      BY <1>2, <1>4, <1>9
    <3>2. Ended(j, n + 1)
      BY <1>1, <1>2, <1>4, <2>6, <3>1 DEF Reading, NoneSeen, Unfinished
    <3> QED BY <1>1, <2>2, <3>1, <3>2, OneStart
  <2>7. Len(line) <= Cap /\ Len(line) >= 1 /\ Len(line) = Len(file') - i
    BY <1>1, <1>2, <2>4
  <2>8. ASSUME NEW l \in 1..Len(line)
        PROVE  line[l] = file'[i + l - 1]
    <3>1. i + l - 1 \in 1..n /\ line[l] = file[i + l - 1]
      BY <1>1, <2>4 DEF Holds
    <3> QED BY <1>2, <3>1
  <2>9. file'[Len(file')] = EOL \/ Len(line) = Cap
    BY <1>2, <1>3
  <2>10. PICK row \in Seq(Fields) : row = line
    BY DEF TypeOK
  <2>11. Answer(row)'
    BY <2>1, <2>10 DEF Parse, Returns, Answer, Complete, AllBoxes, Box, Boxes, Clamped
  <2>12. Parsed(i, row)'
    BY <1>2, <2>4, <2>5, <2>6, <2>7, <2>8, <2>9, <2>10, <2>11 DEF Parsed
  <2>13. Result'
    BY <1>2, <2>12 DEF Result
  <2>14. pc' = "done"
    BY <2>1 DEF Parse, Returns
  <2> QED BY <1>2, <1>8, <2>13, <2>14
<1>10. CASE ~(line # <<>> /\ line[1] = Wanted)
  <2>1. pc' = "read" /\ found' = found /\ out' = out
    BY <1>10 DEF EndsLine
  <2>2. AtRowStart => ch = EOL
    BY <1>3, <1>4, FileAssumption
  <2>3. ASSUME NEW i \in RowStarts', Ended(i, n + 2)'
        PROVE  n + 1 - i + 1 > Cap
    <3>1. ch # EOL /\ i \in RowStarts /\ Ended(i, n + 1) /\ i \in 1..n /\ Len(line) = Cap
      BY <1>2, <1>3, <1>4, <2>2, <2>3
    <3>2. n - i + 1 > Cap \/ Cap = n - i + 1
      BY <1>5, <3>1
    <3> QED BY <1>1, <3>1, <3>2, FileAssumption
  <2>4. ASSUME NEW i \in RowStarts', file'[i] = Wanted
        PROVE  FALSE
    <3>1. CASE i \in RowStarts
      <4>1. file[i] = Wanted /\ i \in 1..n
        BY <1>2, <1>4, <2>4, <3>1
      <4>2. Ended(i, n + 1) /\ n - i + 1 <= Cap
        BY <1>1, <3>1, <4>1 DEF Reading, NoneSeen, Unfinished
      <4>3. Holds(i)
        BY <1>1, <1>5, <3>1, <4>1, <4>2, FileAssumption
      <4> QED BY <1>7, <1>10, <3>1, <4>1, <4>2, <4>3
    <3>2. CASE i = n + 1 /\ AtRowStart
      BY <1>2, <2>2, <2>4, <3>2, FileAssumption
    <3> QED BY <1>2, <3>1, <3>2
  <2>5. ~AtRowStart' => \E i \in RowStarts' : Ended(i, n + 2)'
    <3> SUFFICES ASSUME ch # EOL PROVE \E i \in RowStarts' : Ended(i, n + 2)'
      BY <1>2
    <3>1. PICK i \in RowStarts : Ended(i, n + 1)
      BY <1>1, <2>2 DEF Reading
    <3> QED BY <1>2, <1>4, <3>1
  <2>6. n + 2 = Len(file') + 1 /\ \A i : Ended(i, Len(file) + 1)' <=> Ended(i, n + 2)'
    <3>1. n + 2 = Len(file') + 1
      BY <1>1, <1>2
    <3> QED BY <3>1 DEF Ended
  <2>7. NoneSeen' /\ ~found' /\ out' = <<>>
    BY <2>1, <2>4 DEF NoneSeen, Reading
  <2>8. \A i \in RowStarts' : Ended(i, Len(file) + 1)' =>
          Len(file') - i + 1 > Cap /\ \A l \in 1..Len(line') : line'[l] \notin Names
    BY <1>1, <1>2, <1>4, <1>8, <2>3, <2>6
  <2>9. ~AtRowStart' => \E i \in RowStarts' : Ended(i, Len(file) + 1)'
    BY <2>5, <2>6
  <2>10. Reading'
    BY <1>3, <2>7, <2>8, <2>9 DEF Reading
  <2> QED BY <1>2, <1>8, <2>1, <2>10
<1> QED BY <1>9, <1>10

LEMMA OpenKeeps ==
  ASSUME Invariant, Open
  PROVE  Invariant'
<1> USE DEF Invariant
<1>1. /\ pc = "open" /\ UNCHANGED <<file, line, found, out>>
      /\ pc' = "read" \/ (pc' = "done" /\ ret' = EIO)
  BY DEF Open
<1>2. TypeOK' /\ RowsEnd' /\ NamesStart'
  BY <1>1 DEF TypeOK, RowsEnd, Ended, NamesStart, RowStarts
<1>3. Reading'
  BY <1>1 DEF Reading, NoneSeen, Unfinished, Ended, RowStarts, AtRowStart, StartsRow, Holds
<1> QED BY <1>1, <1>2, <1>3 DEF Result

LEMMA EofKeeps ==
  ASSUME Invariant, Eof
  PROVE  Invariant'
<1> USE DEF Invariant
<1>1. /\ pc = "read" /\ pc' = "done" /\ UNCHANGED <<file, line, found, out>>
      /\ ret' = ENOENT
  BY DEF Eof, Returns, Reading
<1>2. TypeOK' /\ RowsEnd' /\ NamesStart'
  BY <1>1 DEF TypeOK, RowsEnd, Ended, NamesStart, RowStarts
<1>3. NoneSeen' /\ out' = <<>>
  BY <1>1 DEF Reading, NoneSeen, Unfinished, Ended, RowStarts
<1> QED BY <1>1, <1>2, <1>3 DEF Result

(* No row of the image has been parsed while the file is read; when the lookup has
   parsed one, it is the first. *)
THEOREM Invariance == Spec => []Invariant
<1>1. Init => Invariant
  BY InitHolds
<1>2. Invariant /\ [Next]_vars => Invariant'
  <2> SUFFICES ASSUME Invariant, [Next]_vars
               PROVE  Invariant'
    OBVIOUS
  <2>1. CASE Open
    BY <2>1, OpenKeeps
  <2>2. CASE Read
    <3>1. PICK ch \in Symbols(file) :
            SameFile(ch) /\ file' = Append(file, ch) /\ (Stores(ch) \/ EndsLine(ch))
      BY <2>2 DEF Read
    <3>2. pc = "read"
      BY <2>2 DEF Read
    <3> QED BY <3>1, <3>2, StoresKeeps, EndsLineKeeps
  <2>3. CASE Eof
    BY <2>3, EofKeeps
  <2>4. CASE UNCHANGED vars \/ CountOpen \/ CountRead \/ CountEnds
    <3>1. UNCHANGED <<pc, file, line, found, ret, out>>
      BY <2>4 DEF vars, lookup, CountOpen, CountRead, CountEnds
    <3>2. TypeOK' = TypeOK /\ RowsEnd' = RowsEnd /\ NamesStart' = NamesStart
      BY <3>1 DEF TypeOK, RowsEnd, Ended, NamesStart, RowStarts
    <3>3. NoneSeen' = NoneSeen
      BY <3>1 DEF NoneSeen, Unfinished, Ended, RowStarts
    <3>4. Reading' = Reading
      BY <3>1, <3>3 DEF Reading, Ended, RowStarts, AtRowStart, StartsRow, Holds
    <3>5. \A i, row : Parsed(i, row)' = Parsed(i, row)
      BY <3>1 DEF Parsed, Answer, RowStarts
    <3>6. Result' = Result
      BY <3>1, <3>3, <3>5 DEF Result, RowStarts
    <3> QED BY <3>1, <3>2, <3>4, <3>6 DEF Invariant
  <2> QED BY <2>1, <2>2, <2>3, <2>4 DEF Next
<1> QED BY <1>1, <1>2, PTL DEF Spec

(* A line end more, or another symbol.                                     *)
LEMMA OneMoreSymbol ==
  ASSUME NEW s \in Seq(AnySymbol), NEW ch \in AnySymbol
  PROVE  /\ Append(s, ch) \in Seq(AnySymbol) /\ Len(Append(s, ch)) = Len(s) + 1
         /\ \A i \in 1..Len(s) : Append(s, ch)[i] = s[i]
         /\ Append(s, ch)[Len(s) + 1] = ch
         /\ Cardinality(LineEnds(Append(s, ch))) =
              Cardinality(LineEnds(s)) + (IF ch = EOL THEN 1 ELSE 0)
         /\ Cardinality(LineEnds(s)) \in Nat
<1> DEFINE t == Append(s, ch)
<1>1. /\ t \in Seq(AnySymbol) /\ Len(t) = Len(s) + 1 /\ Len(s) \in Nat
      /\ \A i \in 1..Len(s) : t[i] = s[i]
      /\ t[Len(s) + 1] = ch
      /\ DOMAIN s = 1..Len(s) /\ DOMAIN t = 1..(Len(s) + 1)
  BY AppendProperties
<1>2. IsFiniteSet(LineEnds(s)) /\ Cardinality(LineEnds(s)) \in Nat
  <2>1. IsFiniteSet(1..Len(s)) /\ LineEnds(s) \subseteq 1..Len(s)
    BY <1>1, FS_Interval DEF LineEnds
  <2> QED BY <2>1, FS_Subset, FS_CardinalityType
<1> HIDE DEF t
<1>3. CASE ch = EOL
  <2>1. LineEnds(t) = LineEnds(s) \cup {Len(s) + 1} /\ Len(s) + 1 \notin LineEnds(s)
    BY <1>1, <1>3 DEF LineEnds
  <2>2. Cardinality(LineEnds(t)) = Cardinality(LineEnds(s)) + 1
    BY <1>2, <2>1, FS_AddElement
  <2> QED BY <1>1, <1>2, <1>3, <2>2 DEF t
<1>4. CASE ch # EOL
  <2>1. LineEnds(t) = LineEnds(s)
    BY <1>1, <1>4 DEF LineEnds
  <2> QED BY <1>1, <1>2, <1>4, <2>1 DEF t
<1> QED BY <1>3, <1>4

(* The lookup follows what was counted.                                    *)
LEMMA ReadKeepsCounter ==
  ASSUME Invariant, CounterInvariant, Read
  PROVE  CounterInvariant'
<1>1. PICK ch \in Symbols(file) : SameFile(ch) /\ file' = Append(file, ch)
  BY DEF Read
<1>2. ch \in AnySymbol /\ file \in Seq(AnySymbol) /\ counted \in Seq(AnySymbol)
  BY FileAssumption DEF Symbols, AnySymbol, Invariant, TypeOK, CounterInvariant
<1>3. /\ UNCHANGED <<counting, counted, lines, whole>> /\ pc = "read"
      /\ pc' \in {"read", "done"}
  BY DEF Read, counter, Stores, EndsLine, Parse, Returns
<1>4. /\ Len(file') = Len(file) + 1 /\ file'[Len(file) + 1] = ch
      /\ \A i \in 1..Len(file) : file'[i] = file[i]
      /\ Len(file) \in Nat /\ Len(counted) \in Nat
  BY <1>1, <1>2, OneMoreSymbol
<1>5. whole' => Len(file') <= Len(counted')
  BY <1>1, <1>3, <1>4 DEF SameFile
<1>6. \A i \in 1..Len(file') : i <= Len(counted') => file'[i] = counted'[i]
  BY <1>1, <1>3, <1>4 DEF SameFile, CounterInvariant
<1> QED BY <1>3, <1>5, <1>6 DEF CounterInvariant

(* What was counted and what was looked up come from one file, for any file *)
(* and wherever reading fails.                                             *)
THEOREM ReadersShareFile == Spec => []CounterInvariant
<1>1. Init => CounterInvariant
  <2> SUFFICES ASSUME Init PROVE CounterInvariant
    OBVIOUS
  <2>1. /\ counting = "open" /\ counted = <<>> /\ lines = 0 /\ whole = FALSE
        /\ pc = "open" /\ file = <<>>
    BY DEF Init
  <2>2. LineEnds(counted) = {} /\ Len(file) = 0 /\ counted \in Seq(AnySymbol)
    BY <2>1, EmptySeq DEF LineEnds
  <2>3. lines = Cardinality(LineEnds(counted))
    BY <2>1, <2>2, FS_EmptySet
  <2> QED BY <2>1, <2>2, <2>3 DEF CounterInvariant
<1>2. ASSUME Invariant, CounterInvariant, [Next]_vars
      PROVE  CounterInvariant'
  <2>1. CASE CountOpen
    BY <1>2, <2>1 DEF CountOpen, CounterInvariant, lookup, EIO
  <2>2. CASE CountRead
    <3>1. PICK ch \in Symbols(counted) :
            /\ counted' = Append(counted, ch)
            /\ lines' = IF ch = EOL THEN lines + 1 ELSE lines
      BY <2>2 DEF CountRead
    <3>2. /\ UNCHANGED <<counting, whole, pc, file>> /\ counting = "read" /\ pc = "open"
          /\ counted \in Seq(AnySymbol) /\ ch \in AnySymbol
          /\ lines = Cardinality(LineEnds(counted)) /\ file = <<>> /\ whole \in BOOLEAN
      BY <1>2, <2>2 DEF CountRead, CounterInvariant, lookup, Symbols, AnySymbol
    <3>3. /\ counted' \in Seq(AnySymbol) /\ Len(counted') \in Nat
          /\ lines' = Cardinality(LineEnds(counted'))
      BY <3>1, <3>2, OneMoreSymbol
    <3>4. Len(file') = 0
      BY <3>2
    <3> QED BY <3>2, <3>3, <3>4 DEF CounterInvariant
  <2>3. CASE CountEnds
    <3>1. /\ counting' = "done" /\ whole' \in BOOLEAN /\ UNCHANGED <<counted, lines, pc, file>>
          /\ counting = "read"
      BY <2>3 DEF CountEnds, lookup
    <3>2. Len(file') = 0 /\ Len(counted') \in Nat /\ lines' = Cardinality(LineEnds(counted'))
      BY <1>2, <3>1 DEF CounterInvariant
    <3> QED BY <1>2, <3>1, <3>2 DEF CounterInvariant
  <2>4. CASE Open
    BY <1>2, <2>4 DEF Open, CounterInvariant, counter
  <2>5. CASE Read
    BY <1>2, <2>5, ReadKeepsCounter
  <2>6. CASE Eof
    BY <1>2, <2>6 DEF Eof, Returns, CounterInvariant, counter
  <2>7. CASE UNCHANGED vars
    BY <1>2, <2>7 DEF vars, counter, lookup, CounterInvariant
  <2> QED BY <1>2, <2>1, <2>2, <2>3, <2>4, <2>5, <2>6, <2>7 DEF Next
<1> QED BY <1>1, <1>2, Invariance, PTL DEF Spec

-----------------------------------------------------------------------------
(* What the invariant says of the answer *)

LEMMA RowIs ==
  ASSUME TypeOK, NEW i \in RowStarts, NEW j \in Nat, Ended(i, j)
  PROVE  /\ EndOfRow(i) = j /\ j >= i /\ i \in 1..Len(file)
         /\ Len(Row(i)) = j - i
         /\ \A n \in 1..(j - i) : Row(i)[n] = file[i + n - 1]
         /\ Row(i) \in Seq(AnySymbol) /\ Row(i) \in Seq(Fields)
<1>1. /\ EndOfRow(i) = j /\ j >= i /\ i \in 1..Len(file) /\ j <= Len(file) + 1
      /\ Len(file) \in Nat
  BY EndIs, FileFacts DEF Ended
<1>2. \A n \in i..(j - 1) : file[n] \in AnySymbol /\ file[n] \in Fields
  BY <1>1, FileFacts DEF Ended, AnySymbol, Fields
<1>3. /\ SubSeq(file, i, j - 1) \in Seq(AnySymbol) /\ SubSeq(file, i, j - 1) \in Seq(Fields)
      /\ Len(SubSeq(file, i, j - 1)) = (IF i <= j - 1 THEN (j - 1) - i + 1 ELSE 0)
      /\ \A n \in 1..((j - 1) - i + 1) : SubSeq(file, i, j - 1)[n] = file[i + n - 1]
  <2>1. i \in Int /\ j - 1 \in Int
    BY <1>1
  <2> QED BY <1>2, <2>1, SubSeqProperties
<1>4. Row(i) = SubSeq(file, i, j - 1)
  BY <1>1 DEF Row
<1> QED BY <1>1, <1>3, <1>4

(* A row that was parsed is the first of its image, as far as it fits.     *)
LEMMA WantedIsParsed ==
  ASSUME Invariant, NEW i \in RowStarts, NEW row \in Seq(Fields), Parsed(i, row)
  PROVE  SeenRows(Wanted) # {} /\ WantedRow = row
<1> USE DEF Invariant
<1>1. /\ Len(file) \in Nat /\ i \in 1..Len(file) /\ Len(row) \in Nat
      /\ Len(row) <= Cap /\ Len(row) >= 1 /\ Len(row) = Len(file) - i
      /\ \A n \in 1..Len(row) : row[n] = file[i + n - 1] /\ row[n] # EOL
      /\ \A j \in RowStarts : file[j] = Wanted => j = i
      /\ file[i] = Wanted /\ (file[Len(file)] = EOL \/ Len(row) = Cap)
  <2>1. \A n \in 1..Len(row) : row[n] # EOL
    BY FileAssumption DEF Fields
  <2> QED BY <2>1, FileFacts DEF Parsed
<1>2. \A n \in i..(Len(file) - 1) : file[n] # EOL
  <2> SUFFICES ASSUME NEW n \in i..(Len(file) - 1) PROVE file[n] # EOL
    OBVIOUS
  <2>1. n - i + 1 \in 1..Len(row) /\ i + (n - i + 1) - 1 = n
    BY <1>1
  <2> QED BY <1>1, <2>1
<1>3. InBuffer(Row(i)) = row /\ Seen(i)
  <2>1. CASE file[Len(file)] = EOL
    <3>1. Ended(i, Len(file))
      BY <1>1, <1>2, <2>1 DEF Ended
    <3>2. /\ EndOfRow(i) = Len(file) /\ Len(Row(i)) = Len(row) /\ Row(i) \in Seq(Fields)
          /\ \A n \in 1..Len(row) : Row(i)[n] = row[n]
      BY <1>1, <3>1, RowIs
    <3>3. Row(i) = row
      BY <3>2, SeqEqual
    <3> QED BY <1>1, <3>2, <3>3, FileAssumption DEF InBuffer, Seen
  <2>2. CASE file[Len(file)] # EOL
    <3>1. Ended(i, Len(file) + 1)
      BY <1>1, <1>2, <2>2 DEF Ended
    <3>2. /\ Len(Row(i)) = Cap + 1 /\ Len(row) = Cap /\ Row(i) \in Seq(Fields)
          /\ \A n \in 1..(Cap + 1) : Row(i)[n] = file[i + n - 1]
      BY <1>1, <2>2, <3>1, RowIs
    <3>3. \A n \in 1..Cap : Row(i)[n] \in Fields
      BY <3>2, ElementOfSeq, FileAssumption
    <3>4. /\ SubSeq(Row(i), 1, Cap) \in Seq(Fields) /\ Len(SubSeq(Row(i), 1, Cap)) = Cap
          /\ \A n \in 1..Cap : SubSeq(Row(i), 1, Cap)[n] = Row(i)[1 + n - 1]
      <4>1. 1 \in Int /\ Cap \in Int /\ 1 <= Cap /\ Cap - 1 + 1 = Cap
        BY FileAssumption
      <4> QED BY <3>3, <4>1, SubSeqProperties
    <3>5. \A n \in 1..Cap : SubSeq(Row(i), 1, Cap)[n] = row[n]
      BY <1>1, <3>2, <3>4, FileAssumption
    <3>6. SubSeq(Row(i), 1, Cap) = row
      BY <3>2, <3>4, <3>5, SeqEqual
    <3> QED BY <3>2, <3>6, FileAssumption DEF InBuffer, Seen
  <2> QED BY <2>1, <2>2
<1>4. SeenRows(Wanted) = {i}
  BY <1>1, <1>3 DEF SeenRows
<1>5. (CHOOSE j \in SeenRows(Wanted) : \A m \in SeenRows(Wanted) : j <= m) = i
  BY <1>1, <1>4
<1> QED BY <1>3, <1>4, <1>5 DEF WantedRow

(* The numbers of a row stand behind its name. *)
LEMMA BoxFacts ==
  ASSUME Invariant, NEW i \in RowStarts, NEW row \in Seq(Fields), Parsed(i, row), Len(row) >= 2
  PROVE  row[2] \in Int /\ Boxes(row) \in Nat
<1> USE DEF Invariant
<1>1. /\ Len(file) \in Nat /\ i \in 1..Len(file) /\ Len(row) \in Nat
      /\ Len(row) = Len(file) - i /\ row[2] = file[i + 1] /\ row[2] \in Fields
      /\ file[i] = Wanted
  BY FileFacts DEF Parsed
<1>2. row[2] \notin Names
  <2> SUFFICES ASSUME file[i + 1] \in Names PROVE FALSE
    BY <1>1
  <2>1. i + 1 \in RowStarts
    BY <1>1 DEF NamesStart
  <2>2. file[i] = EOL
    BY <1>1, <2>1 DEF RowStarts
  <2> QED BY <1>1, <2>2, FileAssumption
<1>3. row[2] \in Int
  BY <1>1, <1>2, FileAssumption DEF Fields
<1> QED BY <1>3, FileAssumption DEF Boxes, Clamped

(* The fields of the announced boxes *)
LEMMA FieldsOfBoxes ==
  ASSUME NEW row \in Seq(Fields), Boxes(row) \in Nat, Len(row) >= 2 + BoxFields * Boxes(row)
  PROVE  /\ Len(AllBoxes(row)) = Boxes(row)
         /\ \A i \in 1..Boxes(row), n \in 1..BoxFields :
              AllBoxes(row)[i][n] = row[2 + BoxFields * (i - 1) + n]
<1>1. Len(AllBoxes(row)) = Boxes(row)
  BY DEF AllBoxes
<1>2. ASSUME NEW i \in 1..Boxes(row), NEW n \in 1..BoxFields
      PROVE  AllBoxes(row)[i][n] = row[2 + BoxFields * (i - 1) + n]
  <2>1. /\ BoxFields * i = BoxFields * (i - 1) + BoxFields
        /\ BoxFields * (i - 1) \in Nat /\ BoxFields * i <= BoxFields * Boxes(row)
    BY FileAssumption
  <2> DEFINE a == BoxFields * (i - 1)
  <2> DEFINE b == BoxFields * i
  <2>2. b = a + BoxFields /\ a \in Nat /\ b \in Nat /\ Len(row) \in Nat /\ 2 + b <= Len(row)
    BY <2>1, FileAssumption
  <2>3. AllBoxes(row)[i] = SubSeq(row, 3 + a, 2 + b)
    BY DEF AllBoxes, Box
  <2> HIDE DEF a, b
  <2>4. \A m \in (3 + a)..(2 + b) : row[m] \in Fields
    BY <2>2, ElementOfSeq
  <2>5. \A m \in 1..((2 + b) - (3 + a) + 1) : SubSeq(row, 3 + a, 2 + b)[m] = row[(3 + a) + m - 1]
    <3>1. 3 + a \in Int /\ 2 + b \in Int
      BY <2>2
    <3> QED BY <2>4, <3>1, SubSeqProperties
  <2>6. n \in 1..((2 + b) - (3 + a) + 1) /\ (3 + a) + n - 1 = 2 + a + n
    BY <2>2, FileAssumption
  <2>7. SubSeq(row, 3 + a, 2 + b)[n] = row[2 + a + n]
    BY <2>5, <2>6
  <2> QED BY <2>3, <2>7 DEF a
<1> QED BY <1>1, <1>2

(* gt_find_person_boxes_csv answers with the boxes of the first row of the image, cut to
   the line buffer, or says which of the two is missing, whatever the file. *)
THEOREM LookupIsCorrect == Spec => []LookupCorrect
<1>1. Invariant => LookupCorrect
  <2> SUFFICES ASSUME Invariant, pc = "done", ret # EIO
               PROVE  LookupCorrect
    BY DEF LookupCorrect
  <2> USE DEF Invariant
  <2>1. CASE ret = ENOENT /\ out = <<>> /\ NoneSeen
    <3>1. ASSUME NEW i \in RowStarts, file[i] = Wanted
          PROVE  ~Seen(i)
      <4>1. Ended(i, Len(file) + 1) /\ Len(file) - i + 1 <= Cap
        BY <2>1, <3>1 DEF NoneSeen, Unfinished
      <4>2. Len(file) \in Nat /\ Len(file) + 1 \in Nat
        BY FileFacts
      <4>3. EndOfRow(i) = Len(file) + 1 /\ Len(Row(i)) = Len(file) + 1 - i /\ i \in 1..Len(file)
        BY <4>1, <4>2, RowIs
      <4> QED BY <4>1, <4>2, <4>3, FileAssumption DEF Seen
    <3>2. SeenRows(Wanted) = {}
      BY <3>1 DEF SeenRows
    <3> QED BY <2>1, <3>2 DEF LookupCorrect
  <2>2. CASE \E i \in RowStarts, row \in Seq(Fields) : Parsed(i, row)
    <3>1. PICK i \in RowStarts, row \in Seq(Fields) : Parsed(i, row)
      BY <2>2
    <3>2. SeenRows(Wanted) # {} /\ WantedRow = row /\ Len(row) \in Nat
      BY <3>1, WantedIsParsed
    <3>3. Answer(row)
      BY <3>1 DEF Parsed
    <3>4. CASE Len(row) < 2
      <4>1. ~Complete(row)
        BY <3>2, <3>4 DEF Complete
      <4>2. Len(row) < 2 + BoxFields * 0
        BY <3>4, FileAssumption
      <4> QED BY <3>2, <3>3, <3>4, <4>1, <4>2 DEF LookupCorrect, Answer
    <3>5. CASE Len(row) >= 2
      <4>1. Boxes(row) \in Nat /\ Boxes(row) = Clamped(row[2])
        BY <3>1, <3>5, BoxFacts DEF Boxes
      <4> DEFINE m == BoxFields * Boxes(row)
      <4>2. m \in Nat
        BY <4>1, FileAssumption
      <4>3. Complete(row) <=> ~(Len(row) < 2 + m)
        <5>1. Complete(row) <=> Len(row) >= 2 + m
          BY <3>5 DEF Complete
        <5> HIDE DEF m
        <5> QED BY <3>2, <4>2, <5>1
      <4>4. CASE Complete(row)
        <5>1. ret = 0 /\ out = AllBoxes(row) /\ Len(row) >= 2 + BoxFields * Boxes(row)
          BY <3>3, <4>4 DEF Answer, Complete
        <5>2. /\ Len(out) = Boxes(row)
              /\ \A j \in 1..Boxes(row), n \in 1..BoxFields :
                   out[j][n] = row[2 + BoxFields * (j - 1) + n]
          BY <4>1, <5>1, FieldsOfBoxes
        <5>3. ~(Len(row) < 2) /\ ~(Len(row) < 2 + BoxFields * Clamped(row[2]))
          BY <3>2, <3>5, <4>1, <4>3, <4>4
        <5> QED BY <3>2, <4>1, <5>1, <5>2, <5>3 DEF LookupCorrect
      <4>5. CASE ~Complete(row)
        <5>1. ret = EINVAL /\ out = <<>>
          BY <3>3, <4>5 DEF Answer
        <5>2. ~(Len(row) < 2) /\ Len(row) < 2 + BoxFields * Clamped(row[2])
          BY <3>2, <3>5, <4>1, <4>3, <4>5
        <5> QED BY <3>2, <5>1, <5>2 DEF LookupCorrect
      <4> QED BY <4>4, <4>5
    <3> QED BY <3>2, <3>4, <3>5
  <2> QED BY <2>1, <2>2 DEF Result
<1> QED BY <1>1, Invariance, PTL

(* Each image that the lookup finds in what was counted has a line end of its own
   there, so that a count that is returned covers it: all images, if no read failed.
   The file, and where reading it fails, are arbitrary; its rows fit in the buffer. *)
THEOREM FoundAreCounted == Spec => []FoundImagesAreCounted
<1>1. Invariant /\ CounterInvariant => FoundImagesAreCounted
  <2> DEFINE Found == {name \in Names :
                         \E i \in SeenRows(name) : whole \/ EndOfRow(i) <= Len(counted)}
  <2> SUFFICES ASSUME Invariant, CounterInvariant, lines >= 0,
                      \A i \in RowStarts : Len(Row(i)) <= Cap
               PROVE  Cardinality(Found) <= lines
    BY DEF FoundImagesAreCounted
  <2> USE DEF Invariant
  <2> DEFINE Ends == LineEnds(counted)
             First(name) == CHOOSE i \in SeenRows(name) : whole \/ EndOfRow(i) <= Len(counted)
             end == [name \in Found |-> EndOfRow(First(name))]
  <2>1. ASSUME NEW i \in RowStarts, Seen(i), whole \/ EndOfRow(i) <= Len(counted)
        PROVE  Ended(i, EndOfRow(i)) /\ EndOfRow(i) \in Nat /\ EndOfRow(i) \in Ends
    <3>1. i \in 1..Len(file) /\ Len(file) \in Nat
      BY FileFacts
    <3>2. PICK j \in Nat : Ended(i, j)
      BY <3>1 DEF RowsEnd
    <3>3. EndOfRow(i) = j /\ Len(Row(i)) = j - i
      BY <3>2, RowIs
    <3>4. Len(Row(i)) <= Cap /\ j - i \in Int
      BY <3>1, <3>2
    <3>5. j <= Len(file)
      BY <2>1, <3>3, <3>4, FileAssumption DEF Seen
    <3>6. /\ DOMAIN counted = 1..Len(counted) /\ Len(counted) \in Nat
          /\ whole => Len(file) <= Len(counted)
          /\ \A k \in 1..Len(file) : k <= Len(counted) => file[k] = counted[k]
      BY DEF CounterInvariant
    <3>7. j \in 1..Len(file) /\ file[j] = EOL
      BY <3>1, <3>2, <3>5 DEF Ended
    <3>8. j <= Len(counted)
      BY <2>1, <3>1, <3>3, <3>5, <3>6
    <3> QED BY <3>2, <3>3, <3>6, <3>7, <3>8 DEF LineEnds
  <2>2. \A name \in Found :
          /\ First(name) \in RowStarts /\ file[First(name)] = name /\ Seen(First(name))
          /\ whole \/ EndOfRow(First(name)) <= Len(counted)
    <3>1. \A name \in Found : /\ First(name) \in SeenRows(name)
                              /\ whole \/ EndOfRow(First(name)) <= Len(counted)
      OBVIOUS
    <3> QED BY <3>1 DEF SeenRows
  <2>3. end \in [Found -> Ends]
    BY <2>1, <2>2
  <2>4. ASSUME NEW a \in Found, NEW b \in Found, end[a] = end[b]
        PROVE  a = b
    <3> DEFINE i == First(a)
    <3> DEFINE j == First(b)
    <3>1. /\ i \in RowStarts /\ Seen(i) /\ file[i] = a
          /\ j \in RowStarts /\ Seen(j) /\ file[j] = b /\ EndOfRow(i) = EndOfRow(j)
          /\ whole \/ EndOfRow(i) <= Len(counted)
      BY <2>2, <2>4
    <3> HIDE DEF i, j
    <3>2. Ended(i, EndOfRow(i)) /\ Ended(j, EndOfRow(i)) /\ EndOfRow(i) \in Nat
      BY <2>1, <3>1
    <3> QED BY <3>1, <3>2, OneStart
  <2> HIDE DEF Found, Ends, end
  <2>5. end \in Injection(Found, Ends)
    BY <2>3, <2>4, Fun_IsInj
  <2>6. IsFiniteSet(Ends)
    <3>1. IsFiniteSet(1..Len(counted)) /\ DOMAIN counted = 1..Len(counted)
      BY FS_Interval DEF CounterInvariant
    <3> QED BY <3>1, FS_Subset DEF Ends, LineEnds
  <2>7. Cardinality(Found) <= Cardinality(Ends)
    BY <2>5, <2>6, FS_Injection
  <2>8. lines = Cardinality(Ends)
    BY DEF CounterInvariant, Ends, EIO
  <2> QED BY <2>7, <2>8
<1> QED BY <1>1, Invariance, ReadersShareFile, PTL
=============================================================================
