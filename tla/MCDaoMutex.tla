----------------------------- MODULE MCDaoMutex -----------------------------
(* Small instances of DaoMutex: priorities of the threads of each run. *)
EXTENDS DaoMutex

CONSTANTS h, m, l

(* h is the most urgent, l the least *)
PrioHML == [t \in Threads |-> CASE t = h -> 0 [] t = m -> 1 [] OTHER -> 2]
=============================================================================
