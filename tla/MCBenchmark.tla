---------------------------- MODULE MCBenchmark ----------------------------
(* A card with a few files and a sub-directory. *)
EXTENDS Benchmark

CONSTANTS f1, f2, f3, d
=============================================================================
