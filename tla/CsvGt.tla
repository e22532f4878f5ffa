-------------------------------- MODULE CsvGt --------------------------------
(***************************************************************************)
(* The ground-truth file of the benchmark (app/src/utils.c) and its two    *)
(* readers: count_csv_lines, which sizes the progress bar, and after it    *)
(* the lookup gt_find_person_boxes_csv, which reads the file a character   *)
(* at a time into a line buffer.  Opening and reading may fail in each.    *)
(*                                                                         *)
(* A symbol of the file stands for a non-empty field with the comma after  *)
(* it (strtok_r skips empty ones and the code strips white space around a  *)
(* field) or for the end of a line; the buffer holds Cap fields.  The      *)
(* content of the file is chosen while it is read for the first time.      *)
(***************************************************************************)
EXTENDS Integers, Sequences, FiniteSets

CONSTANTS
  Names,       (* image file names, found only at the start of a row         *)
  Wanted,      (* the one looked for                                         *)
  Numbers,     (* the values of the other fields                             *)
  EOL,         (* the end of a line                                         *)
  Cap,         (* what the line buffer holds, sizeof(line) - 1               *)
  MaxGtBoxes,  (* MAX_GT_BOXES                                               *)
  BoxFields,   (* fields of a box: x, y, w, h                                *)
  MaxFile      (* bound: symbols in the file                                 *)

ASSUME FileAssumption ==
  /\ Wanted \in Names /\ Numbers \subseteq Int
  /\ Names \cap Numbers = {} /\ EOL \notin Names \cup Numbers
  /\ Cap \in Nat \ {0} /\ MaxGtBoxes \in Nat /\ BoxFields \in Nat

ENOENT == -2
EINVAL == -22
EIO == -5

VARIABLES
  counting, (* count_csv_lines: "open", "read" or "done"                     *)
  counted,  (* what it read of the file so far                               *)
  lines,    (* lines, or the error it returns                                *)
  whole,    (* did it come to the end of the file?                           *)
  pc,      (* the lookup: "open", "read" or "done"                           *)
  file,    (* what was read of the file so far                               *)
  line,    (* line[0 .. pos-1]                                               *)
  found,   (* found                                                          *)
  ret,     (* the value returned                                             *)
  out,     (* *out: the boxes, as many as out->count                         *)
  isOpen   (* is the file open?                                              *)

counter == <<counting, counted, lines, whole>>
lookup == <<pc, file, line, found, ret, out, isOpen>>
vars == <<counter, lookup>>

Init ==
  /\ counting = "open" /\ counted = <<>> /\ lines = 0 /\ whole = FALSE
  /\ pc = "open" /\ file = <<>> /\ line = <<>> /\ found = FALSE
  /\ ret = 0 /\ out = <<>> /\ isOpen = FALSE

StartsRow(content) == content = <<>> \/ content[Len(content)] = EOL

(* What may come after the content so far: a name starts a row. *)
Symbols(content) == {EOL} \cup Numbers \cup (IF StartsRow(content) THEN Names ELSE {})

(* fs_open in count_csv_lines; a failure is what it returns. *)
CountOpen ==
  /\ counting = "open"
  /\ \/ counting' = "read" /\ UNCHANGED lines
     \/ counting' = "done" /\ lines' = EIO
  /\ UNCHANGED <<counted, whole, lookup>>

(* Variant: the first line is taken for a header. *)
CountReadSkipsHeader ==
  /\ counting = "read" /\ Len(counted) < MaxFile
  /\ \E ch \in Symbols(counted) :
       /\ counted' = Append(counted, ch)
       /\ lines' = IF ch = EOL /\ (\E i \in DOMAIN counted : counted[i] = EOL)
                   THEN lines + 1 ELSE lines
  /\ UNCHANGED <<counting, whole, lookup>>

CountRead ==
  /\ counting = "read" /\ Len(counted) < MaxFile
  /\ \E ch \in Symbols(counted) :
       /\ counted' = Append(counted, ch)
       /\ lines' = IF ch = EOL THEN lines + 1 ELSE lines
  /\ UNCHANGED <<counting, whole, lookup>>

(* fs_read returns 0 at the end of the file, or an error: the loop does not tell them
   apart, and the lines so far are returned as a success. *)
CountEnds ==
  /\ counting = "read" /\ counting' = "done"
  /\ whole' \in BOOLEAN
  /\ UNCHANGED <<counted, lines, lookup>>

(* atoi, clamped to 0..MAX_GT_BOXES *)
Clamped(n) == IF n < 0 THEN 0 ELSE IF n > MaxGtBoxes THEN MaxGtBoxes ELSE n

(* The boxes a row announces *)
Boxes(row) == Clamped(row[2])

Complete(row) == Len(row) >= 2 /\ Len(row) >= 2 + BoxFields * Boxes(row)

Box(row, i) == SubSeq(row, 3 + BoxFields * (i - 1), 2 + BoxFields * i)

AllBoxes(row) == [i \in 1..Boxes(row) |-> Box(row, i)]

Returns(value, boxes) ==
  /\ pc' = "done" /\ ret' = value /\ out' = boxes
  /\ isOpen' = FALSE

(* A row of the wanted image: its boxes, or -EINVAL if a field is missing. *)
Parse(row) ==
  /\ found' = TRUE
  /\ IF Complete(row) THEN Returns(0, AllBoxes(row)) ELSE Returns(EINVAL, <<>>)

(* fs_open; the benchmark looks up images after it has counted the lines *)
Open ==
  /\ counting = "done" /\ pc = "open"
  /\ \/ pc' = "read" /\ isOpen' = TRUE /\ UNCHANGED ret
     \/ pc' = "done" /\ ret' = EIO /\ UNCHANGED isOpen
  /\ UNCHANGED <<counter, file, line, found, out>>

(* The lookup reads what was there when the lines were counted, up to its end or to
   where that reading failed. *)
SameFile(ch) ==
  IF Len(file) < Len(counted) THEN ch = counted[Len(file) + 1] ELSE ~whole

Stores(ch) ==
  /\ ch # EOL /\ Len(line) < Cap
  /\ line' = Append(line, ch)
  /\ UNCHANGED <<pc, found, ret, out, isOpen>>

(* Variant: the buffer is emptied only when it is full. *)
EndsLineKeepsRest(ch) ==
  /\ ch = EOL \/ Len(line) = Cap
  /\ line' = IF Len(line) = Cap THEN <<>> ELSE line
  /\ IF line # <<>> /\ line[1] = Wanted THEN Parse(line)
     ELSE UNCHANGED <<pc, found, ret, out, isOpen>>

(* The end of the line, or the buffer is full: then the symbol is lost and the
   rest of the row is taken for another line. *)
EndsLine(ch) ==
  /\ ch = EOL \/ Len(line) = Cap
  /\ line' = <<>>
  /\ IF line # <<>> /\ line[1] = Wanted THEN Parse(line)
     ELSE UNCHANGED <<pc, found, ret, out, isOpen>>

Read ==
  /\ pc = "read" /\ Len(file) < MaxFile
  /\ \E ch \in Symbols(file) :
       SameFile(ch) /\ file' = Append(file, ch) /\ (Stores(ch) \/ EndsLine(ch))
  /\ UNCHANGED counter

(* fs_read returns 0 or an error: what is left in the buffer is not parsed. *)
Eof ==
  /\ pc = "read"
  /\ Returns(IF found THEN 0 ELSE ENOENT, out)
  /\ UNCHANGED <<counter, file, line, found>>

Next == CountOpen \/ CountRead \/ CountEnds \/ Open \/ Read \/ Eof

Spec == Init /\ [][Next]_vars

-----------------------------------------------------------------------------
(* The file, read as rows *)

RowStarts == {i \in DOMAIN file : i = 1 \/ file[i - 1] = EOL}
EndOfRow(i) == CHOOSE j \in i..(Len(file) + 1) :
                 /\ j = Len(file) + 1 \/ file[j] = EOL
                 /\ \A k \in i..(j - 1) : file[k] # EOL
Row(i) == SubSeq(file, i, EndOfRow(i) - 1)

(* The parser sees a row that ends in a line end or does not fit in the buffer. *)
Seen(i) == EndOfRow(i) <= Len(file) \/ Len(Row(i)) > Cap
SeenRows(name) == {i \in RowStarts : file[i] = name /\ Seen(i)}

InBuffer(row) == IF Len(row) > Cap THEN SubSeq(row, 1, Cap) ELSE row

WantedRow ==
  InBuffer(Row(CHOOSE i \in SeenRows(Wanted) : \A j \in SeenRows(Wanted) : i <= j))

(* The lookup returns the boxes of the first row of the image, cut to what fits the
   line buffer: success only if all the announced boxes are there, and no row at
   all is told apart from a row that is incomplete. *)
LookupCorrect ==
  pc = "done" /\ ret # EIO =>
    IF SeenRows(Wanted) = {} THEN ret = ENOENT /\ out = <<>>
    ELSE LET row == WantedRow
             n == IF Len(row) < 2 THEN 0 ELSE Clamped(row[2])
         IN IF Len(row) < 2 + BoxFields * n THEN ret = EINVAL /\ out = <<>>
            ELSE /\ ret = 0 /\ Len(out) = n
                 /\ \A i \in 1..n, k \in 1..BoxFields :
                      out[i][k] = row[2 + BoxFields * (i - 1) + k]

(* The two readers of the file agree: as long as rows fit in the buffer, a count that
   is returned covers the images the lookup finds in what was counted, which is all of
   the file if no read failed. *)
FoundImagesAreCounted ==
  pc = "done" /\ lines >= 0 /\ (\A i \in RowStarts : Len(Row(i)) <= Cap)
    => Cardinality({name \in Names :
                      \E i \in SeenRows(name) : whole \/ EndOfRow(i) <= Len(counted)})
         <= lines
=============================================================================
