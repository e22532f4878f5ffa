------------------------------- MODULE Benchmark -------------------------------
(***************************************************************************)
(* run_benchmark_on_sd_card (app/src/main.c), started by the button: each  *)
(* file of the directory is read into the image buffer, run through the    *)
(* network (run_nn_from_sd_card, model.c), and its boxes are scored        *)
(* against the ground truth (gt_find_person_boxes_csv); counters and       *)
(* timing statistics follow.                                               *)
(*                                                                         *)
(* The card may hold anything: sub-directories, files without a row, rows  *)
(* that are incomplete, files that cannot be opened or are too short, and  *)
(* any read of the ground truth may fail.  The asserts are compiled out    *)
(* (CONFIG_ASSERT=n).                                                      *)
(***************************************************************************)
EXTENDS Integers, FiniteSets

CONSTANTS
  Files,      (* names of files in the directory                             *)
  Dirs,       (* names of sub-directories                                    *)
  Times,      (* inference times the uptime clock may measure                *)
  OtherRows,  (* bound: rows of the ground truth for no file of the card     *)
  MayBeShort, (* may a read deliver less than an image?                      *)
  None        (* nothing                                                     *)

NoMinimum == 99    (* 0x7fffffff, above all Times *)
EIO == -5

ASSUME CardAssumption == IsFiniteSet(Files) /\ IsFiniteSet(Dirs) /\ Files \cap Dirs = {}
ASSUME NoneAssumption == None \notin Files \cup Dirs
ASSUME TimesAssumption == Times \subseteq 0..NoMinimum - 1
ASSUME RowsAssumption == OtherRows \in Nat /\ MayBeShort \in BOOLEAN

VARIABLES
  pc,        (* where the benchmark is                                       *)
  pressed,   (* the button was released                                      *)
  rows,      (* files with a ground-truth row that parses ...                *)
  gtBoxes,   (* ... and those of them whose row lists a box                  *)
  total,     (* bench_total                                                  *)
  unread,    (* rows behind the place where counting the lines failed        *)
  todo,      (* entries fs_readdir has not delivered                         *)
  entry,     (* the entry at hand                                            *)
  image,     (* whose image is in sd_vbuf                                    *)
  detected,  (* the image the stored detections belong to ...                *)
  nb,        (* ... and whether there is one (detections_nb > 0)             *)
  last,      (* latest_inference_time                                        *)
  count,
  stats,     (* min, max, sum, samples, errors                               *)
  score,     (* img_with_gt, img_with_pred, gt_matched, pred_matched         *)
  dirOpen    (* the directory stream is open                                 *)

card == <<rows, gtBoxes>>
model == <<detected, nb, last>>
counters == <<count, stats, score>>
vars == <<pc, pressed, card, total, unread, todo, entry, image, model, counters, dirOpen>>

Init ==
  /\ pc = "button" /\ pressed = FALSE
  /\ rows \in SUBSET Files /\ gtBoxes \in SUBSET rows
  /\ total = 0 /\ unread = {}
  /\ todo = Files \cup Dirs /\ entry = None
  /\ image = None /\ detected = None /\ nb = FALSE /\ last = 0
  /\ count = 0
  /\ stats = [min |-> NoMinimum, max |-> 0, sum |-> 0, samples |-> 0, errors |-> 0]
  /\ score = [withGt |-> 0, withPred |-> 0, gtMatched |-> 0, predMatched |-> 0]
  /\ dirOpen = FALSE

Step(here, there) == pc = here /\ pc' = there

(* button_input_cb, in the input thread; further presses change nothing *)
Release ==
  /\ pressed' = TRUE
  /\ UNCHANGED <<pc, card, total, unread, todo, entry, image, model, counters, dirOpen>>

(* main leaves its polling loop and mounts the card *)
Mount ==
  /\ pc = "button" /\ pressed
  /\ pc' \in {"count", "end"}
  /\ UNCHANGED <<pressed, card, total, unread, todo, entry, image, model, counters, dirOpen>>

(* count_csv_lines: a line for each row that can be found, as rows fit in the line buffer
   (see CsvGt), but no further than to where a read fails, which is not told from the end
   of the file.  Nothing is benchmarked without a line, or if the file does not open. *)
CountLines ==
  /\ pc = "count"
  /\ \/ /\ unread' \in SUBSET rows
        /\ \E others \in 0..OtherRows : total' = Cardinality(rows \ unread') + others
     \/ total' = EIO /\ UNCHANGED unread
  /\ pc' = IF total' <= 0 THEN "end" ELSE "opendir"
  /\ UNCHANGED <<pressed, card, todo, entry, image, model, counters, dirOpen>>

OpenDir ==
  /\ pc = "opendir"
  /\ \/ pc' = "readdir" /\ dirOpen' = TRUE
     \/ pc' = "end" /\ UNCHANGED dirOpen
  /\ UNCHANGED <<pressed, card, total, unread, todo, entry, image, model, counters>>

(* A directory is only logged: it is not read, but it counts. *)
ReadDir ==
  /\ pc = "readdir"
  /\ \E x \in todo :
       /\ entry' = x /\ todo' = todo \ {x}
       /\ pc' = IF x \in Dirs THEN "countEntry" ELSE "open"
  /\ UNCHANGED <<pressed, card, total, unread, image, model, counters, dirOpen>>

(* End of the directory, or fs_readdir fails: the directory is closed. *)
EndOfDir ==
  /\ Step("readdir", "end")
  /\ dirOpen' = FALSE
  /\ UNCHANGED <<pressed, card, total, unread, todo, entry, image, model, counters>>

(* fs_open and fs_read; a short read leaves the older image in the buffer.  When a
   file does not open the function returns and the directory stays open. *)
OpenFails ==
  /\ Step("open", "end")
  /\ UNCHANGED <<pressed, card, total, unread, todo, entry, image, model, counters, dirOpen>>

ReadImage ==
  /\ Step("open", "infer")
  /\ image' \in {entry} \cup (IF MayBeShort THEN {image} ELSE {})
  /\ UNCHANGED <<pressed, card, total, unread, todo, entry, model, counters, dirOpen>>

(* Variant: the detections of an image without any are not stored. *)
InferKeepsOld ==
  /\ Step("infer", "lookup")
  /\ \E b \in BOOLEAN :
       /\ detected' = IF b THEN image ELSE detected
       /\ nb' = (b \/ nb)
  /\ last' \in Times
  /\ UNCHANGED <<pressed, card, total, unread, todo, entry, image, counters, dirOpen>>

(* run_nn_from_sd_card: inference, time, post-processing, the stored detections *)
Infer ==
  /\ Step("infer", "lookup")
  /\ detected' = image /\ nb' \in BOOLEAN /\ last' \in Times
  /\ UNCHANGED <<pressed, card, total, unread, todo, entry, image, counters, dirOpen>>

(* Variant: files without ground truth count as well. *)
LookupFailsCounts ==
  /\ Step("lookup", "countEntry") /\ entry \notin rows
  /\ UNCHANGED <<pressed, card, total, unread, todo, entry, image, model, counters, dirOpen>>

(* No row, an incomplete one or an unreadable file: "GT lookup error", on with the
   next entry. *)
LookupFails ==
  /\ Step("lookup", "readdir")
  /\ UNCHANGED <<pressed, card, total, unread, todo, entry, image, model, counters, dirOpen>>

One(b) == IF b THEN 1 ELSE 0

CanMatch == entry \in gtBoxes /\ nb

(* model_get_boxes and the comparison of every ground-truth box with every box *)
Score ==
  /\ Step("lookup", "countEntry") /\ entry \in rows
  /\ \E matched \in {FALSE, CanMatch} :
       score' = [withGt |-> score.withGt + One(entry \in gtBoxes),
                 withPred |-> score.withPred + One(nb),
                 gtMatched |-> score.gtMatched + One(matched),
                 predMatched |-> score.predMatched + One(matched)]
  /\ UNCHANGED <<pressed, card, total, unread, todo, entry, image, model, count, stats, dirOpen>>

(* Variant: the maximum is not kept. *)
SampledLastMax(s) ==
  [s EXCEPT !.min = IF last < @ THEN last ELSE @, !.max = last,
            !.sum = @ + last, !.samples = @ + 1]

Sampled(s) ==
  [s EXCEPT !.min = IF last < @ THEN last ELSE @, !.max = IF last > @ THEN last ELSE @,
            !.sum = @ + last, !.samples = @ + 1]

(* The latest inference time enters the statistics, for a directory the one of the
   file before it. *)
CountEntry ==
  /\ Step("countEntry", "readdir")
  /\ count' = count + 1
  /\ stats' = IF last > 0 THEN Sampled(stats) ELSE [stats EXCEPT !.errors = @ + 1]
  /\ UNCHANGED <<pressed, card, total, unread, todo, entry, image, model, score, dirOpen>>

Next ==
  \/ Release \/ Mount \/ CountLines \/ OpenDir \/ ReadDir \/ EndOfDir \/ OpenFails
  \/ ReadImage \/ Infer \/ LookupFails \/ Score \/ CountEntry

Spec == Init /\ [][Next]_vars

-----------------------------------------------------------------------------
(* Properties *)

(* Every variable has a value of its type. *)
Stages == {"button", "count", "opendir", "readdir", "open", "infer", "lookup",
           "countEntry", "end"}

TypeOK ==
  /\ pc \in Stages
  /\ rows \subseteq Files /\ gtBoxes \subseteq rows
  /\ todo \subseteq Files \cup Dirs /\ entry \in Files \cup Dirs \cup {None}
  /\ image \in Files \cup {None} /\ detected \in Files \cup {None}
  /\ total \in Nat \cup {EIO} /\ unread \subseteq rows
  /\ {count, last} \subseteq Nat
  /\ stats \in [min : 0..NoMinimum, max : Nat, sum : Nat, samples : Nat, errors : Nat]

(* The boxes that are compared with the ground truth of a file were found in the
   image of that file: the assert after fs_read means to say so. *)
ScoresOwnImage == pc = "lookup" => detected = entry

(* Each entry that counts is a sample or an error, and the average that is shown
   lies between the minimum and the maximum. *)
StatisticsConsistent ==
  /\ stats.samples + stats.errors = count
  /\ stats.min * stats.samples <= stats.sum \/ stats.samples = 0
  /\ stats.sum <= stats.max * stats.samples

(* The progress bar passes 100 percent only by the sub-directories it counts and by
   images whose lines were not counted because a read failed: every other image that
   counts has a line of its own in the ground-truth file. *)
ProgressWithinTotal ==
  IF total <= 0 THEN count = 0
  ELSE count <= total + Cardinality(unread \ todo) + Cardinality(Dirs \ todo)
=============================================================================
