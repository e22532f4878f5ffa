------------------------------- MODULE MCCsvGt -------------------------------
(* A small ground-truth file: two images, rows that overflow the line buffer. *)
EXTENDS CsvGt

CONSTANTS f, g

(* below 0, one box, more boxes than MAX_GT_BOXES *)
SomeNumbers == {-1, 1, 2}
=============================================================================
