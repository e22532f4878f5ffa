------------------------------ MODULE EpochOrder ------------------------------
(***************************************************************************)
(* What the ATON runtime promises to the networks it runs: the epoch       *)
(* blocks of a network are worked on one at a time and in their order, a   *)
(* block that uses the NPU has it to itself from its first to its last     *)
(* moment (a hybrid block over all the blocks its operator inserts), and   *)
(* only the end of an inference or a reset starts a network over.          *)
(***************************************************************************)
EXTENDS Naturals, Sequences

CONSTANTS
  Inst,      (* network instances                                          *)
  Program,   (* Program[i][n]: does block n of network i use the NPU?      *)
  None       (* nobody                                                     *)

VARIABLES
  position,  (* position[i]: the block instance i is at                    *)
  phase,     (* phase[i]: is that block "ready", at "work" or "over"?      *)
  npu,       (* the instance that has the NPU                              *)
  todo       (* todo[i]: inferences the user still wants from instance i   *)

orderVars == <<position, phase, npu, todo>>

OrderInit ==
  /\ position = [i \in Inst |-> 1]
  /\ phase = [i \in Inst |-> "ready"]
  /\ npu = None
  /\ todo \in [Inst -> Nat]

NpuFreed(i) == npu' = IF npu = i THEN None ELSE npu

Begin(i) ==
  /\ phase[i] = "ready" /\ position[i] \in DOMAIN Program[i]
  /\ IF Program[i][position[i]] THEN npu = None /\ npu' = i ELSE UNCHANGED npu
  /\ phase' = [phase EXCEPT ![i] = "work"]
  /\ UNCHANGED <<position, todo>>

Complete(i) ==
  /\ phase[i] = "work" /\ NpuFreed(i)
  /\ phase' = [phase EXCEPT ![i] = "over"]
  /\ UNCHANGED <<position, todo>>

Advance(i) ==
  /\ phase[i] = "over"
  /\ phase' = [phase EXCEPT ![i] = "ready"]
  /\ position' = [position EXCEPT ![i] = @ + 1]
  /\ UNCHANGED <<npu, todo>>

CompleteAndAdvance(i) ==
  /\ phase[i] = "work" /\ NpuFreed(i)
  /\ phase' = [phase EXCEPT ![i] = "ready"]
  /\ position' = [position EXCEPT ![i] = @ + 1]
  /\ UNCHANGED todo

(* The inference has ended, or the user gives it up between two blocks or within
   an operator that still has the NPU: the next one starts at the first block. *)
Restart(i) ==
  /\ phase[i] = "ready" \/ npu = i
  /\ NpuFreed(i)
  /\ todo[i] > 0 /\ todo' = [todo EXCEPT ![i] = @ - 1]
  /\ position' = [position EXCEPT ![i] = 1]
  /\ phase' = [phase EXCEPT ![i] = "ready"]

OrderNext ==
  \E i \in Inst :
    Begin(i) \/ Complete(i) \/ Advance(i) \/ CompleteAndAdvance(i) \/ Restart(i)

OrderSpec == OrderInit /\ [][OrderNext]_orderVars
=============================================================================
