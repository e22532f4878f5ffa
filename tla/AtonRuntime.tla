----------------------------- MODULE AtonRuntime -----------------------------
(***************************************************************************)
(* The asynchronous ATON runtime: ll_aton_runtime.c/.h driven by user      *)
(* threads (LL_ATON_RT_RunEpochBlock in a loop, Run_Inference in model.c), *)
(* its interrupt handler, the OSAL event semaphore, the hybrid operators   *)
(* of ll_aton_lib.c that insert epoch blocks, and the NPU units they       *)
(* program.                                                                *)
(*                                                                         *)
(* A network is a sequence of epoch blocks.  A thread calls                *)
(* RunEpochBlock, which ends the block the hardware has finished or starts *)
(* the next one; the NPU works meanwhile and raises its interrupt; the     *)
(* handler records the event in the owner of the NPU and wakes the thread. *)
(* One core: a thread is stopped while the interrupt handler runs, the NPU *)
(* is not.  A failed LL_ATON_ASSERT stops the actor that failed it.        *)
(***************************************************************************)
EXTENDS Integers, Sequences, FiniteSets

CONSTANTS
  Inst,        (* network instances (NN_Instance_TypeDef objects)            *)
  Threads,     (* threads that run them                                      *)
  Serves,      (* Serves[t]: the instances thread t runs                     *)
  Users,       (* Users[p]: the threads of a build with parallel = p         *)
  Network,     (* Network[i]: the epoch blocks of instance i, see Blocks     *)
  Lib,         (* Lib[op]: what a hybrid operator makes of its blocks        *)
  MayAbort,    (* does the user reset a network before it is done?           *)
  Inferences,  (* bound: inferences started on each instance                 *)
  None         (* NULL                                                       *)

Engines == 0..9      (* stream engines, ATON_STRENG_NUM of them              *)
EC == 10             (* the epoch controller's bit in the interrupt register *)
ECUnit == 0          (* EpochBlock_EpochControllerUnit                       *)

Ops == DOMAIN Lib

(* An epoch block: its kind, whether it is an epoch controller blob, the output
   engines it waits for and, for a hybrid block, the operator it calls (or None
   for one that does its work on the CPU at once). *)
Blocks ==
  [kind : {"hw", "sw", "hybrid"}, blob : BOOLEAN,
   wait : SUBSET Engines, op : Ops \cup {None}]

(* Lib[op].rounds[n] says whether turn n needs a DMA transfer (the CPU prolog may
   have copied everything); .dma is its output engine; .resets says whether the end
   function zeroes the block's wait mask; .then is what follows the last turn: the
   end of the inserted array ("last"), or a callback that inserts nothing ("back")
   or another operator. *)

ASSUME LibAssumption ==
  \A op \in Ops :
    /\ Lib[op].rounds \in Seq(BOOLEAN) /\ Lib[op].rounds # <<>>
    /\ Lib[op].dma \in Engines
    /\ Lib[op].resets \in BOOLEAN
    /\ Lib[op].then \in {"last", "back"} \cup Ops
(* Only blocks of the hardware are waited for. *)
ASSUME NetworkAssumption ==
  \A i \in Inst :
    /\ Network[i] \in Seq(Blocks)
    /\ \A n \in DOMAIN Network[i] :
         Network[i][n].kind # "hw" => Network[i][n].wait = {} /\ ~Network[i][n].blob
(* An instance has one thread that runs it. *)
ASSUME ServesAssumption ==
  /\ Serves \in [Threads -> SUBSET Inst]
  /\ \A i \in Inst : \E t \in Threads : \A s \in Threads : i \in Serves[s] <=> s = t
ASSUME UsersAssumption ==
  DOMAIN Users \subseteq BOOLEAN /\ \A p \in DOMAIN Users : Users[p] \subseteq Threads
ASSUME NamesAssumption ==
  /\ None \notin Inst \cup Threads \cup Ops
  /\ {"net", "last", "back"} \cap Ops = {}
ASSUME InferencesAssumption == Inferences \in Nat

VARIABLES
  parallel,  (* APP_HAS_PARALLEL_NETWORKS in this build: LOCK_ATON locks     *)
  pc,        (* where each thread is                                         *)
  cur,       (* the instance it runs: the argument of RunEpochBlock          *)
  ended,     (* this_run_executed_end_epoch                                  *)
  exec,      (* nn_instance->exec_state                                      *)
  left,      (* inferences the user still wants from each instance           *)
  owner,     (* __ll_current_aton_ip_owner                                   *)
  lock,      (* the thread that holds LL_ATON_OSAL_LOCK_ATON                 *)
  waitMask,  (* the engines unmasked in INTANDMSK, __ll_current_wait_mask    *)
  libWait,   (* wait_mask of the operators' static epoch block arrays        *)
  libIdx,    (* params->g_idx in the operators' static heap                  *)
  running,   (* NPU units at work                                            *)
  src,       (* units whose interrupt source is not acknowledged             *)
  intreg,    (* INTREG: interrupts latched in the interrupt controller       *)
  isr,       (* where the interrupt handler is                               *)
  irqs,      (* what it read from INTREG                                     *)
  wfeSem     (* _wfe_sem, the counting semaphore of LL_ATON_OSAL_WFE         *)

threadVars == <<pc, cur, ended>>
ownership == <<owner, lock>>
libVars == <<libWait, libIdx>>
npuVars == <<running, src, intreg>>
isrVars == <<isr, irqs>>
vars == <<parallel, threadVars, exec, left, ownership, waitMask, libVars, npuVars, isrVars, wfeSem>>

Goto(t, place) == pc' = [pc EXCEPT ![t] = place]

-----------------------------------------------------------------------------
(* exec_state: list/at stand for first_epoch_block and current_epoch_block
   ("net" is the network's own array, at = 0 the element before the first one),
   next for next_epoch_block, saved for the saved context (a position in "net",
   0 if there is none). *)

InitExec ==
  [list |-> "net", at |-> 1, next |-> None, saved |-> 0,
   started |-> FALSE, triggered |-> {}, inferring |-> FALSE]

LastEb == [kind |-> "last", blob |-> FALSE, wait |-> {}, op |-> None]

Block(x, i, masks) ==
  IF x.list = "net" /\ x.at \in DOMAIN Network[i] THEN Network[i][x.at]
  ELSE IF x.list # "net" /\ x.at = 1
       THEN [kind |-> "internal", blob |-> FALSE, wait |-> masks[x.list], op |-> x.list]
  ELSE LastEb

(* exec_state.current_epoch_block of instance i *)
Current(i) == Block(exec[i], i, libWait)

(* Variants of a definition that a property must refuse stand before it and say
   so ("Variant:"). *)

(* Variant: a blob has no wait mask of its own. *)
WaitOfForgetsBlob(b) == b.wait

(* __LL_ATON_RT_GetWaitMask *)
WaitOf(b) == IF b.blob THEN {ECUnit} ELSE b.wait

(* the units that work for block b *)
Units(b) == IF b.blob THEN {EC} ELSE b.wait

TakesAton(b) == b.kind \in {"hw", "hybrid"}
SetsMask(b) == b.kind \in {"hw", "internal"}

(* LL_ATON_RT_Insert_LibEpochBlockArray by operator op for the owner's state x,
   with the operator's preparation of its static state *)
Insert(x, op) == [x EXCEPT !.next = op]
Prepared(masks, op) == [masks EXCEPT ![op] = {Lib[op].dma}]

(* __LL_ATON_RT_RetFromLibEpochBlockArray, but for the owner *)
Return(x) == [x EXCEPT !.list = "net", !.at = x.saved, !.saved = 0]

ServedBy(i) == CHOOSE t \in Threads : i \in Serves[t]

Init ==
  /\ parallel \in DOMAIN Users
  /\ pc = [t \in Threads |-> "ready"]
  /\ cur = [t \in Threads |-> None]
  /\ ended = [t \in Threads |-> FALSE]
  /\ exec = [i \in Inst |-> InitExec]
  /\ left = [i \in Inst |-> IF ServedBy(i) \in Users[parallel] THEN Inferences ELSE 0]
  /\ owner = None
  /\ lock = None
  /\ waitMask = {}
  /\ libWait = [op \in Ops |-> {}]
  /\ libIdx = 1
  /\ running = {}
  /\ src = {}
  /\ intreg = {}
  /\ isr = "idle"
  /\ irqs = {}
  /\ wfeSem = 0

-----------------------------------------------------------------------------
(* Interrupts *)

(* STD interrupt line: all the awaited engines (AND mask) or the epoch controller. *)
IrqLine == (waitMask # {} /\ waitMask \subseteq intreg) \/ EC \in intreg

IsrEnter ==
  /\ isr = "idle" /\ IrqLine
  /\ isr' = "ack"
  /\ irqs' = intreg
  /\ UNCHANGED <<threadVars, exec, left, ownership, waitMask, libVars, npuVars, wfeSem>>

(* The interrupts the handler does not pass to __LL_ATON_RT_IrqErr. *)
Expected == IF Current(owner).blob THEN {EC} ELSE Engines

IsrAsserts == owner # None /\ irqs \subseteq Expected

(* Variants: the event is not recorded; it is recorded under its INTREG bit. *)
BlobNotRecorded(b) == src' = src \ irqs /\ UNCHANGED exec

BlobRecordsIntregBit(b) ==
  /\ src' = src \ irqs
  /\ exec' = [exec EXCEPT ![owner].triggered = @ \cup irqs]

(* __LL_ATON_RT_IrqEpochBlob, __LL_ATON_RT_IrqEpochBlock: acknowledge the sources
   and record the events. *)
IrqEpochBlob(b) ==
  /\ src' = src \ irqs
  /\ exec' = [exec EXCEPT ![owner].triggered =
                @ \cup (IF EC \in irqs THEN {ECUnit} ELSE {})]

(* Variant: acknowledged, not recorded. *)
BlockNotRecorded(b) == src' = src \ (irqs \cap b.wait) /\ UNCHANGED exec

IrqEpochBlock(b) ==
  /\ src' = src \ (irqs \cap b.wait)
  /\ exec' = [exec EXCEPT ![owner].triggered = @ \cup (irqs \cap b.wait)]

IsrAck ==
  /\ isr = "ack" /\ IsrAsserts
  /\ IF Current(owner).blob THEN IrqEpochBlob(Current(owner))
                            ELSE IrqEpochBlock(Current(owner))
  /\ isr' = "clear"
  /\ UNCHANGED <<threadVars, left, ownership, waitMask, libVars, running, intreg,
                 irqs, wfeSem>>

(* Variant: no LL_ATON_OSAL_SIGNAL_EVENT. *)
IsrClearNoSignal ==
  /\ isr = "clear"
  /\ intreg' = (intreg \ irqs) \cup src
  /\ isr' = "idle"
  /\ irqs' = {}
  /\ UNCHANGED <<threadVars, exec, left, ownership, waitMask, libVars, running, src, wfeSem>>

(* INTCLR: a source that is still pending is latched again; then the event is
   signalled. *)
IsrClear ==
  /\ isr = "clear"
  /\ intreg' = (intreg \ irqs) \cup src
  /\ wfeSem' = wfeSem + 1
  /\ isr' = "idle"
  /\ irqs' = {}
  /\ UNCHANGED <<threadVars, exec, left, ownership, waitMask, libVars, running, src>>

IsrStep == UNCHANGED parallel /\ (IsrEnter \/ IsrAck \/ IsrClear)

(* A unit finishes: its source goes up and is latched. *)
NpuStep ==
  \E u \in running :
    /\ running' = running \ {u}
    /\ src' = src \cup {u}
    /\ intreg' = intreg \cup {u}
    /\ UNCHANGED <<parallel, threadVars, exec, left, ownership, waitMask, libVars, isrVars, wfeSem>>

-----------------------------------------------------------------------------
(* LL_ATON_RT_RunEpochBlock, for instance i on thread t *)

(* The user calls RunEpochBlock on one of its instances. *)
Call(t, i) ==
  /\ pc[t] = "ready" /\ i \in Serves[t] /\ left[i] > 0
  /\ cur' = [cur EXCEPT ![t] = i]
  /\ ended' = [ended EXCEPT ![t] = FALSE]
  /\ Goto(t, "enter")
  /\ UNCHANGED <<exec, left, ownership, waitMask, libVars, npuVars, isrVars, wfeSem>>

(* Has the block the hardware works on finished? *)
Enter(t, i) ==
  /\ pc[t] = "enter"
  /\ exec' = [exec EXCEPT ![i].inferring = TRUE]
  /\ Goto(t, IF exec[i].started /\ WaitOf(Current(i)) # {}
             THEN IF WaitOf(Current(i)) \subseteq exec[i].triggered THEN "clear" ELSE "wfe"
             ELSE "next?")
  /\ UNCHANGED <<cur, ended, left, ownership, waitMask, libVars, npuVars, isrVars, wfeSem>>

ClearAsserts(i) == owner = i

(* Variant: the events are not reset. *)
ClearKeepsEvents(t, i) ==
  /\ pc[t] = "clear" /\ ClearAsserts(i)
  /\ ended' = [ended EXCEPT ![t] = TRUE]
  /\ Goto(t, "end")
  /\ UNCHANGED <<exec, cur, left, ownership, waitMask, libVars, npuVars, isrVars, wfeSem>>

(* The critical section that resets triggered_events. *)
Clear(t, i) ==
  /\ pc[t] = "clear" /\ ClearAsserts(i)
  /\ exec' = [exec EXCEPT ![i].triggered = @ \ WaitOf(Current(i))]
  /\ ended' = [ended EXCEPT ![t] = TRUE]
  /\ Goto(t, "end")
  /\ UNCHANGED <<cur, left, ownership, waitMask, libVars, npuVars, isrVars, wfeSem>>

(* Variant: one turn too few. *)
LibEndEarly(x, op) ==
  IF libIdx < Len(Lib[op].rounds) - 1 THEN [x EXCEPT !.at = @ - 1]
  ELSE IF Lib[op].then = "last" THEN x
  ELSE IF Lib[op].then = "back" THEN Return(x)
  ELSE Insert(Return(x), Lib[op].then)

(* What the end function of operator op's inserted block does to the owner's
   state x: another turn (LL_ATON_RT_DecCurrEpochBlock), on to the end of the
   inserted array, or back to the network, perhaps with a follow-up operator. *)
LibEnd(x, op) ==
  IF libIdx < Len(Lib[op].rounds) THEN [x EXCEPT !.at = @ - 1]
  ELSE IF Lib[op].then = "last" THEN x
  ELSE IF Lib[op].then = "back" THEN Return(x)
  ELSE Insert(Return(x), Lib[op].then)

LibMasksAfter(op) ==
  LET reset == IF Lib[op].resets THEN [libWait EXCEPT ![op] = {}] ELSE libWait
  IN IF libIdx = Len(Lib[op].rounds) /\ Lib[op].then \in Ops
     THEN Prepared(reset, Lib[op].then) ELSE reset

LibIdxAfter(op) ==
  IF libIdx = Len(Lib[op].rounds) /\ Lib[op].then \in Ops THEN 1 ELSE libIdx + 1

(* Variant: the blocks a hybrid block has just inserted are forgotten. *)
GivesAtonEarly(b, x) == b.kind = "hw" \/ (b.kind \in {"hybrid", "internal"} /\ x.saved = 0)

(* Does __LL_ATON_RT_ExecEndEpochBlock give the NPU back?  A hybrid block keeps it
   until its last part has run. *)
GivesAton(b, x) ==
  b.kind = "hw" \/ (b.kind \in {"hybrid", "internal"} /\ x.saved = 0 /\ x.next = None)

(* The asserts of ExecEndEpochBlock and of __ll_clear_aton_owner. *)
EndAsserts(i) ==
  LET b == Current(i) IN
  /\ SetsMask(b) => owner = i
  /\ b.kind = "sw" => owner # i
  /\ b.kind = "hybrid" /\ GivesAton(b, exec[i]) => owner = i /\ waitMask = {}

(* Variant: LL_ATON_OSAL_UNLOCK_ATON is not called. *)
ReleaseKeepsLock == owner' = None /\ UNCHANGED lock

ReleaseAton ==
  /\ owner' = None
  /\ lock' = None

(* __LL_ATON_RT_ExecEndEpochBlock: stop the units, call the end function, reset
   the wait mask and give the NPU back. *)
End(t, i) ==
  LET b == Current(i)
      x == IF b.kind = "internal" THEN LibEnd(exec[i], b.op) ELSE exec[i]
  IN
  /\ pc[t] = "end" /\ EndAsserts(i)
  /\ running' = running \ Units(b)
  /\ exec' = [exec EXCEPT ![i] = x]
  /\ libWait' = IF b.kind = "internal" THEN LibMasksAfter(b.op) ELSE libWait
  /\ libIdx' = IF b.kind = "internal" THEN LibIdxAfter(b.op) ELSE libIdx
  /\ waitMask' = IF SetsMask(b) THEN {} ELSE waitMask
  /\ IF GivesAton(b, x) THEN ReleaseAton ELSE UNCHANGED ownership
  /\ Goto(t, "determine")
  /\ UNCHANGED <<cur, ended, left, src, intreg, isrVars, wfeSem>>

DetermineAsserts(i) ==
  exec[i].triggered = {} /\ (exec[i].next # None => exec[i].saved = 0)

(* __LL_ATON_RT_DetermineNextEpochBlock: into the inserted array, or one on. *)
Determine(t, i) ==
  LET x == exec[i] IN
  /\ pc[t] = "determine" /\ DetermineAsserts(i)
  /\ exec' = [exec EXCEPT ![i] =
       IF x.next # None
       THEN [x EXCEPT !.saved = x.at, !.list = x.next, !.at = 1, !.next = None,
                      !.started = FALSE]
       ELSE [x EXCEPT !.at = @ + 1, !.started = FALSE]]
  /\ Goto(t, IF ended[t] THEN "next?" ELSE "ready")
  /\ UNCHANGED <<cur, ended, left, ownership, waitMask, libVars, npuVars, isrVars, wfeSem>>

IsLast(i) == Current(i).kind = "last"

(* Variant: back to the hybrid block itself. *)
LeaveLibRepeats(t, i) ==
  /\ pc[t] = "next?" /\ IsLast(i) /\ exec[i].saved # 0
  /\ ReleaseAton
  /\ exec' = [exec EXCEPT ![i] = Return(@)]
  /\ Goto(t, "ready")
  /\ UNCHANGED <<cur, ended, left, waitMask, libVars, npuVars, isrVars, wfeSem>>

(* The end of the inserted array: back to the network, past the hybrid block. *)
LeaveLib(t, i) ==
  /\ pc[t] = "next?" /\ IsLast(i) /\ exec[i].saved # 0
  /\ owner = i /\ waitMask = {} /\ exec[i].next = None
  /\ ReleaseAton
  /\ exec' = [exec EXCEPT ![i] = [Return(@) EXCEPT !.at = exec[i].saved + 1]]
  /\ Goto(t, "ready")
  /\ UNCHANGED <<cur, ended, left, waitMask, libVars, npuVars, isrVars, wfeSem>>

(* LL_ATON_RT_DONE *)
Finish(t, i) ==
  /\ pc[t] = "next?" /\ IsLast(i) /\ exec[i].saved = 0
  /\ Goto(t, "done")
  /\ UNCHANGED <<cur, ended, exec, left, ownership, waitMask, libVars, npuVars,
                 isrVars, wfeSem>>

(* LL_ATON_RT_NO_WFE after the end of a block: the user may reset the network. *)
Pause(t, i) ==
  /\ pc[t] = "next?" /\ ~IsLast(i) /\ ended[t]
  /\ Goto(t, "ready")
  /\ UNCHANGED <<cur, ended, exec, left, ownership, waitMask, libVars, npuVars,
                 isrVars, wfeSem>>

(* Begin __LL_ATON_RT_ExecStartEpochBlock. *)
Start(t, i) ==
  /\ pc[t] = "next?" /\ ~IsLast(i) /\ ~ended[t] /\ ~exec[i].started
  /\ exec' = [exec EXCEPT ![i].started = TRUE]
  /\ Goto(t, IF TakesAton(Current(i)) THEN "acquire" ELSE "launch")
  /\ UNCHANGED <<cur, ended, left, ownership, waitMask, libVars, npuVars, isrVars, wfeSem>>

(* __ll_set_aton_owner: before the lock, and (if the caller is let in) after it.
   The Zephyr mutex lets its holder in again, against the lock's own assert. *)
AcquireAsserts(t, i) ==
  /\ owner # i
  /\ parallel => lock # t
  /\ (parallel => lock = None) => owner = None /\ waitMask = {}

(* Variant: neither the lock nor the asserts around it. *)
AcquireUnlocked(t, i) ==
  /\ pc[t] = "acquire"
  /\ owner' = i /\ lock' = t
  /\ Goto(t, "launch")
  /\ UNCHANGED <<cur, ended, exec, left, waitMask, libVars, npuVars, isrVars, wfeSem>>

Acquire(t, i) ==
  /\ pc[t] = "acquire" /\ AcquireAsserts(t, i)
  /\ parallel => lock = None
  /\ lock' = IF parallel THEN t ELSE None
  /\ owner' = i
  /\ Goto(t, "launch")
  /\ UNCHANGED <<cur, ended, exec, left, waitMask, libVars, npuVars, isrVars, wfeSem>>

LaunchAsserts(i) ==
  /\ exec[i].next = None
  /\ SetsMask(Current(i)) => owner = i
  /\ Current(i).kind = "hybrid" => owner = i /\ exec[i].saved = 0

(* The start functions of a hybrid block and of an operator's inserted block. *)
HybridStarts(i, op) ==
  /\ exec' = IF op = None THEN exec ELSE [exec EXCEPT ![i] = Insert(@, op)]
  /\ libWait' = IF op = None THEN libWait ELSE Prepared(libWait, op)
  /\ libIdx' = IF op = None THEN libIdx ELSE 1
  /\ UNCHANGED <<waitMask, running>>

LibStarts(op) ==
  LET mask == IF Lib[op].rounds[libIdx] THEN {Lib[op].dma} ELSE {} IN
  /\ libWait' = [libWait EXCEPT ![op] = mask]
  /\ waitMask' = mask
  /\ running' = running \cup mask
  /\ UNCHANGED <<exec, libIdx>>

(* A block of stream engines, or a blob: for it all the stream engines are in the
   AND mask, so that only the epoch controller interrupts. *)
HwStarts(b) ==
  /\ waitMask' = IF b.blob THEN Engines ELSE b.wait
  /\ running' = running \cup Units(b)
  /\ UNCHANGED <<exec, libVars>>

(* The rest of ExecStartEpochBlock; RunEpochBlock ends a block without a wait mask
   at once, for another one it returns LL_ATON_RT_WFE. *)
Launch(t, i) ==
  LET b == Current(i) IN
  /\ pc[t] = "launch" /\ LaunchAsserts(i)
  /\ CASE b.kind = "hw" -> HwStarts(b)
       [] b.kind = "hybrid" -> HybridStarts(i, b.op)
       [] b.kind = "internal" -> LibStarts(b.op)
       [] OTHER -> UNCHANGED <<exec, libVars, waitMask, running>>
  /\ Goto(t, IF WaitOf(Block(exec[i], i, libWait')) = {} THEN "end" ELSE "wfe")
  /\ UNCHANGED <<cur, ended, left, ownership, src, intreg, isrVars, wfeSem>>

(* LL_ATON_OSAL_WFE, and RunEpochBlock again *)
Wfe(t, i) ==
  /\ pc[t] = "wfe" /\ wfeSem > 0
  /\ wfeSem' = wfeSem - 1
  /\ ended' = [ended EXCEPT ![t] = FALSE]
  /\ Goto(t, "enter")
  /\ UNCHANGED <<cur, exec, left, ownership, waitMask, libVars, npuVars, isrVars>>

-----------------------------------------------------------------------------
(* LL_ATON_RT_Reset_Network, after DONE or (the user gives up) after NO_WFE *)

ResetAsserts(i) == owner = i => waitMask = {}

(* Variant: current_epoch_block is not set back. *)
ResetKeepsPosition(i) ==
  /\ ResetAsserts(i)
  /\ IF owner = i THEN ReleaseAton ELSE UNCHANGED ownership
  /\ exec' = [exec EXCEPT ![i] = [InitExec EXCEPT !.at = exec[i].at]]
  /\ left' = [left EXCEPT ![i] = @ - 1]
  /\ UNCHANGED <<ended, waitMask, libVars, npuVars, isrVars, wfeSem>>

Reset(i) ==
  /\ ResetAsserts(i)
  /\ IF owner = i THEN ReleaseAton ELSE UNCHANGED ownership
  /\ exec' = [exec EXCEPT ![i] = InitExec]
  /\ left' = [left EXCEPT ![i] = @ - 1]
  /\ UNCHANGED <<ended, waitMask, libVars, npuVars, isrVars, wfeSem>>

Done(t, i) == pc[t] = "done" /\ Reset(i) /\ Goto(t, "ready") /\ UNCHANGED cur

Abort(t, i) ==
  /\ MayAbort /\ pc[t] = "ready" /\ i \in Serves[t]
  /\ exec[i].inferring /\ left[i] > 0
  /\ Reset(i)
  /\ UNCHANGED <<pc, cur>>

-----------------------------------------------------------------------------
RunEpochBlock(t, i) ==
  \/ Enter(t, i) \/ Clear(t, i) \/ End(t, i) \/ Determine(t, i)
  \/ LeaveLib(t, i) \/ Finish(t, i) \/ Pause(t, i)
  \/ Start(t, i) \/ Acquire(t, i) \/ Launch(t, i)

ThreadStep(t) ==
  /\ isr = "idle" /\ UNCHANGED parallel
  /\ \/ \E i \in Serves[t] : Call(t, i) \/ Abort(t, i)
     \/ cur[t] # None /\ (RunEpochBlock(t, cur[t]) \/ Wfe(t, cur[t]) \/ Done(t, cur[t]))

AllDone ==
  /\ \A t \in Threads : pc[t] = "ready"
  /\ \A i \in Inst : left[i] = 0

Rest == AllDone /\ UNCHANGED vars

Next == IsrStep \/ NpuStep \/ Rest \/ \E t \in Threads : ThreadStep(t)

Spec == Init /\ [][Next]_vars

(* The core runs its ready threads and takes interrupts, and the NPU finishes
   what it was given. *)
Fairness ==
  /\ WF_vars(IsrStep)
  /\ WF_vars(NpuStep)
  /\ \A t \in Threads : WF_vars(ThreadStep(t))

FairSpec == Spec /\ Fairness

-----------------------------------------------------------------------------
(* Properties *)

PCs == {"ready", "enter", "clear", "end", "determine", "next?", "acquire", "launch",
        "wfe", "done"}

ExecStates ==
  [list : {"net"} \cup Ops, at : Nat, next : Ops \cup {None}, saved : Nat,
   started : BOOLEAN, triggered : SUBSET Engines, inferring : BOOLEAN]

(* Every variable holds a value its C declaration allows. *)
TypeOK ==
  /\ parallel \in BOOLEAN
  /\ pc \in [Threads -> PCs]
  /\ cur \in [Threads -> Inst \cup {None}]
  /\ ended \in [Threads -> BOOLEAN]
  /\ exec \in [Inst -> ExecStates]
  /\ left \in [Inst -> 0..Inferences]
  /\ owner \in Inst \cup {None}
  /\ lock \in Threads \cup {None}
  /\ waitMask \subseteq Engines
  /\ libWait \in [Ops -> SUBSET Engines]
  /\ libIdx \in Nat
  /\ running \subseteq Engines \cup {EC}
  /\ src \subseteq Engines \cup {EC}
  /\ intreg \subseteq Engines \cup {EC}
  /\ irqs \subseteq Engines \cup {EC}
  /\ isr \in {"idle", "ack", "clear"}
  /\ wfeSem \in Nat

ThreadAsserts(t, i) ==
  CASE pc[t] = "clear" -> ClearAsserts(i)
    [] pc[t] = "end" -> EndAsserts(i)
    [] pc[t] = "determine" -> DetermineAsserts(i)
    [] pc[t] = "next?" /\ IsLast(i) /\ exec[i].saved # 0 ->
         owner = i /\ waitMask = {} /\ exec[i].next = None
    [] pc[t] = "acquire" -> AcquireAsserts(t, i)
    [] pc[t] = "launch" -> LaunchAsserts(i)
    [] pc[t] = "done" -> ResetAsserts(i)
    [] OTHER -> TRUE

(* No LL_ATON_ASSERT of the runtime fails, in a thread or in the interrupt
   handler (where a failed one means an interrupt that nobody expected). *)
NoAssertFails ==
  /\ isr = "ack" => IsrAsserts
  /\ \A t \in Threads : cur[t] # None => ThreadAsserts(t, cur[t])

(* An epoch block is ended only when the hardware is at rest: its end function
   reads what the NPU wrote, and disables units that must not be at work. *)
BlockEndsAfterHardware ==
  \A t \in Threads : pc[t] = "end" /\ Units(Current(cur[t])) # {} => running = {}

(* The NPU works only for its owner, on the block the owner has started. *)
NpuWorksForOwner ==
  running # {} => owner # None /\ exec[owner].started /\ running \subseteq Units(Current(owner))

(* The static state of the hybrid operators has one user, the owner of the NPU. *)
LibStateIsOwners ==
  \A i \in Inst : exec[i].list # "net" \/ exec[i].next # None => owner = i

(* A signal is never lost and never invented: there is at most one event token,
   and a thread that waits for the NPU finds one, or the NPU is still at work or
   its interrupt on the way. *)
WaiterIsWoken ==
  /\ wfeSem <= 1
  /\ \A t \in Threads : pc[t] = "wfe" => wfeSem = 1 \/ running # {} \/ IrqLine \/ isr # "idle"

(* An operator leaves its inserted blocks only after all its turns, unless the
   user resets the network. *)
OperatorCompletes ==
  [][\A i \in Inst :
       exec[i].list # "net" /\ exec'[i].list = "net" /\ left'[i] = left[i]
         => libIdx = Len(Lib[exec[i].list].rounds)
                       + (IF exec[i].at = 1 THEN 0 ELSE 1)]_vars

IsAt(i, place) == pc[ServedBy(i)] = place /\ cur[ServedBy(i)] = i
InOwnBlocks(i) == exec[i].list = "net" /\ exec[i].next = None

(* The networks' blocks run in order, exclusively where they use the NPU. *)
Order ==
  INSTANCE EpochOrder WITH
    Program <- [i \in Inst |-> [n \in DOMAIN Network[i] |-> TakesAton(Network[i][n])]],
    position <- [i \in Inst |-> IF exec[i].saved = 0 THEN exec[i].at ELSE exec[i].saved],
    phase <- [i \in Inst |->
                IF InOwnBlocks(i) /\ (~exec[i].started \/ IsAt(i, "acquire")) THEN "ready"
                ELSE IF InOwnBlocks(i) /\ IsAt(i, "determine") THEN "over" ELSE "work"],
    npu <- owner,
    todo <- left
ImplementsEpochOrder == Order!OrderSpec

(* The thread whose network owns the NPU keeps to the protocol of the ATON lock,
   whether or not LOCK_ATON is compiled in. *)
Abstract ==
  INSTANCE AtonLock WITH
    holder <- IF owner = None THEN None ELSE ServedBy(owner),
    wanting <- {t \in Threads : pc[t] = "acquire"}
ImplementsAtonLock == Abstract!LockSpec

(* Every inference the user starts comes to its end. *)
InferencesEnd == <>(\A i \in Inst : left[i] = 0)
=============================================================================
