------------------------------ MODULE DaoMutex ------------------------------
(***************************************************************************)
(* The "deferred ATON owner" mutex of ll_aton_osal_rtos_template.c on      *)
(* Zephyr (ll_aton_osal_zephyr.h), with the priority scheduler it runs on. *)
(*                                                                         *)
(* Everything the code does between k_sched_lock() and k_sched_unlock() is *)
(* one step: no other thread runs there and no interrupt touches this      *)
(* state.  The only place where a thread can be overtaken inside           *)
(* LL_ATON_OSAL_LOCK_ATON is between k_sched_unlock() and k_sem_take().    *)
(***************************************************************************)
EXTENDS Integers, FiniteSets

CONSTANTS
  Threads,    (* every thread of the model                                 *)
  HogSets,    (* which of them may be hogs, that only burn CPU time and    *)
              (* never use the NPU: the sets of hogs considered            *)
  BasePrio,   (* a thread's own priority: a lower number is more urgent    *)
  None        (* the null thread handle                                    *)

ASSUME ThreadAssumption == IsFiniteSet(Threads) /\ None \notin Threads
ASSUME PrioAssumption == BasePrio \in [Threads -> Nat]

VARIABLES
  pc,         (* where each thread is                                      *)
  prio,       (* k_thread_priority_get: the priority the scheduler uses    *)
  mutex,      (* _dao_mutex: the thread k_mutex_lock gave it to            *)
  owner,      (* _current_aton_owner                                       *)
  origPrio,   (* _current_aton_owner_orig_priority                         *)
  nrWaiters,  (* _nr_dao_waiters                                           *)
  sem         (* count of _dao_wait_queue, a binary k_sem                  *)

vars == <<pc, prio, mutex, owner, origPrio, nrWaiters, sem>>

(***************************************************************************)
(* A thread is "idle" (asleep, outside the lock), about to call LOCK_ATON  *)
(* ("lock"), counted as a waiter but not yet inside k_sem_take ("take"),   *)
(* pended on the semaphore ("pending"), woken and about to try again       *)
(* ("retry"), the owner ("held"), or the owner asleep until the NPU has    *)
(* finished ("npu").  A hog is "asleep" or runs at "spin", for ever a hog. *)
(***************************************************************************)
PCs == {"idle", "lock", "take", "pending", "retry", "held", "npu", "asleep", "spin"}

At(places) == {t \in Threads : pc[t] \in places}

Goto(t, place) == pc' = [pc EXCEPT ![t] = place]

Waiters == At({"take", "pending", "retry"})
Hogs == At({"asleep", "spin"})
Users == Threads \ Hogs

(* _FirstPrioHigherThanScnd_: Zephyr counts priorities downwards. *)
Higher(p, q) == p < q

Ready(t) == pc[t] \notin {"idle", "pending", "npu", "asleep"}

(* The scheduler: one core, the most urgent ready thread runs; threads of
   equal priority share the core in time slices, so any of them may go on. *)
Runs(t) == Ready(t) /\ \A u \in Threads : Ready(u) => ~Higher(prio[u], prio[t])

Init ==
  /\ \E hogs \in HogSets : pc = [t \in Threads |-> IF t \in hogs THEN "asleep" ELSE "idle"]
  /\ prio = BasePrio
  /\ mutex = None
  /\ owner = None
  /\ origPrio = 0
  /\ nrWaiters = 0
  /\ sem = 0

-----------------------------------------------------------------------------
(* LL_ATON_OSAL_LOCK_ATON *)

(* Variant of Inherit: no inheritance. *)
NoInheritance(t) == UNCHANGED prio

(* The owner inherits the priority of a more urgent thread it keeps waiting. *)
Inherit(t) ==
  prio' = IF Higher(prio[t], prio[owner])
          THEN [prio EXCEPT ![owner] = prio[t]] ELSE prio

(* One turn of the do-while loop; n waiters are counted besides t. *)
Attempt(t, n) ==
  \/ /\ mutex = None
     /\ mutex' = t
     /\ owner' = t
     /\ origPrio' = prio[t]
     /\ nrWaiters' = n
     /\ Goto(t, "held")
     /\ UNCHANGED <<prio, sem>>
  \/ /\ mutex # None
     /\ Inherit(t)
     /\ nrWaiters' = n + 1
     /\ Goto(t, "take")
     /\ UNCHANGED <<mutex, owner, origPrio, sem>>

(* Variant of Lock: the mutex is taken without a try. *)
LockBarges(t) ==
  /\ pc[t] = "lock"
  /\ mutex' = t /\ owner' = t /\ origPrio' = prio[t]
  /\ Goto(t, "held")
  /\ UNCHANGED <<prio, nrWaiters, sem>>

Lock(t) == pc[t] = "lock" /\ Attempt(t, nrWaiters)

(* Variant of Retry: _nr_dao_waiters is not decremented. *)
RetryKeepsCount(t) == pc[t] = "retry" /\ Attempt(t, nrWaiters)

Retry(t) == pc[t] = "retry" /\ Attempt(t, nrWaiters - 1)

(* k_sem_take(&_dao_wait_queue, K_FOREVER) *)
Take(t) ==
  /\ pc[t] = "take"
  /\ \/ sem > 0 /\ sem' = sem - 1 /\ Goto(t, "retry")
     \/ sem = 0 /\ Goto(t, "pending") /\ UNCHANGED sem
  /\ UNCHANGED <<prio, mutex, owner, origPrio, nrWaiters>>

-----------------------------------------------------------------------------
(* LL_ATON_OSAL_UNLOCK_ATON, called by thread t *)

(* The pended threads k_sem_give may wake: its wait queue is in priority order. *)
FirstPending ==
  {w \in At({"pending"}) : \A v \in At({"pending"}) : ~Higher(prio[v], prio[w])}

(* k_sem_give, together with the return of t from the unlock: a pended thread
   gets the token directly, otherwise the count becomes 1. *)
Give(t) ==
  \/ \E w \in FirstPending :
       pc' = [pc EXCEPT ![t] = "idle", ![w] = "retry"] /\ UNCHANGED sem
  \/ At({"pending"}) = {} /\ sem' = 1 /\ Goto(t, "idle")

NoGive(t) == Goto(t, "idle") /\ UNCHANGED sem

(* Variants of Unlock that a property must refuse: it wakes nobody when one thread
   waits; it does not restore the priority; it does not release the mutex. *)
UnlockForgetsWaiters(t) ==
  /\ pc[t] = "held"
  /\ mutex' = None /\ owner' = None /\ origPrio' = 0
  /\ prio' = [prio EXCEPT ![t] = origPrio]
  /\ IF nrWaiters > 1 /\ sem = 0 THEN Give(t) ELSE NoGive(t)
  /\ UNCHANGED nrWaiters

UnlockKeepsPriority(t) ==
  /\ pc[t] = "held"
  /\ mutex' = None /\ owner' = None /\ origPrio' = 0
  /\ IF nrWaiters > 0 /\ sem = 0 THEN Give(t) ELSE NoGive(t)
  /\ UNCHANGED <<prio, nrWaiters>>

UnlockKeepsMutex(t) ==
  /\ pc[t] = "held"
  /\ owner' = None /\ origPrio' = 0
  /\ prio' = [prio EXCEPT ![t] = origPrio]
  /\ IF nrWaiters > 0 /\ sem = 0 THEN Give(t) ELSE NoGive(t)
  /\ UNCHANGED <<mutex, nrWaiters>>

(* Variant of Unlock: the semaphore is given even if it is available. *)
UnlockAlwaysGives(t) ==
  /\ pc[t] = "held"
  /\ mutex' = None /\ owner' = None /\ origPrio' = 0
  /\ prio' = [prio EXCEPT ![t] = origPrio]
  /\ \/ \E w \in FirstPending :
          pc' = [pc EXCEPT ![t] = "idle", ![w] = "retry"] /\ UNCHANGED sem
     \/ At({"pending"}) = {} /\ sem' = sem + 1 /\ Goto(t, "idle")
  /\ UNCHANGED nrWaiters

Unlock(t) ==
  /\ pc[t] = "held"
  /\ mutex' = None
  /\ owner' = None
  /\ origPrio' = 0
  /\ prio' = [prio EXCEPT ![t] = origPrio]
  /\ IF nrWaiters > 0 /\ sem = 0 THEN Give(t) ELSE NoGive(t)
  /\ UNCHANGED nrWaiters

-----------------------------------------------------------------------------
(* The threads around the lock *)

LockUntouched == UNCHANGED <<prio, mutex, owner, origPrio, nrWaiters, sem>>

(* An inference request wakes a user: it will ask for the NPU. *)
Arrive(t) == pc[t] = "idle" /\ Goto(t, "lock") /\ LockUntouched

(* The owner started an epoch block and sleeps in LL_ATON_OSAL_WFE ... *)
AwaitNpu(t) == pc[t] = "held" /\ Goto(t, "npu") /\ LockUntouched

(* ... until the NPU interrupt signals it. *)
NpuDone(t) == pc[t] = "npu" /\ Goto(t, "held") /\ LockUntouched

HogWakes(t) == pc[t] = "asleep" /\ Goto(t, "spin") /\ LockUntouched
HogSleeps(t) == pc[t] = "spin" /\ Runs(t) /\ Goto(t, "asleep") /\ LockUntouched

(* What a thread does when the scheduler lets it. *)
LockStep(t) == Runs(t) /\ (Lock(t) \/ Take(t) \/ Retry(t))
OwnerStep(t) == Runs(t) /\ (Unlock(t) \/ AwaitNpu(t))

Next ==
  \E t \in Threads :
    \/ Arrive(t)
    \/ NpuDone(t)
    \/ HogWakes(t)
    \/ HogSleeps(t)
    \/ LockStep(t)
    \/ OwnerStep(t)

Spec == Init /\ [][Next]_vars

(* The core does not stop, an owner does not compute for ever, and the NPU
   finishes what it was given; nothing is assumed about requests and hogs. *)
Fairness ==
  \A t \in Threads :
    /\ WF_vars(LockStep(t))
    /\ WF_vars(OwnerStep(t))
    /\ SF_vars(Runs(t) /\ Unlock(t))
    /\ WF_vars(NpuDone(t))

FairSpec == Spec /\ Fairness

-----------------------------------------------------------------------------
(* Properties *)

(* The state of every variable is what its C declaration and the binary
   semaphore (k_sem_init(.., 0, 1)) allow. *)
TypeOK ==
  /\ pc \in [Threads -> PCs]
  /\ prio \in [Threads -> Nat]
  /\ mutex \in Threads \cup {None}
  /\ owner \in Threads \cup {None}
  /\ origPrio \in Nat
  /\ nrWaiters \in Nat
  /\ sem \in {0, 1}

(* The kernel mutex and the hand-kept owner pointer always agree, and the
   thread they name is the only one between LOCK_ATON and UNLOCK_ATON: the
   asserts on _current_aton_owner in both functions hold. *)
OwnerConsistent ==
  /\ owner = mutex
  /\ \A t \in Threads : pc[t] \in {"held", "npu"} <=> owner = t

(* _nr_dao_waiters counts exactly the threads between their failed try and
   their next one, so the assert before its decrement holds. *)
WaitersCounted == nrWaiters = Cardinality(Waiters)

(* A free mutex never leaves everybody asleep: if a thread still waits on the
   semaphore, a token is there or a woken thread is about to try again. *)
NoLostWakeup ==
  (mutex = None /\ At({"take", "pending"}) # {}) => (sem = 1 \/ At({"retry"}) # {})

(* Inheritance is undone: once it is not the owner, a thread runs at its own
   priority, and the owner's saved priority is its own. *)
PriorityRestored ==
  /\ \A t \in Threads : t # owner => prio[t] = BasePrio[t]
  /\ owner # None => origPrio = BasePrio[owner]

(* The comment on the mechanism promises priority inheritance: the owner is
   never less urgent than a thread it keeps waiting on the semaphore. *)
NoInversion ==
  owner # None => \A w \in At({"pending"}) : ~Higher(prio[w], prio[owner])

(* It keeps that promise where at most one thread can wait. *)
NoInversionByOne == Cardinality(Users) <= 2 => NoInversion

(* DaoMutex is an ATON lock. *)
Abstract ==
  INSTANCE AtonLock WITH
    holder <- mutex,
    wanting <- At({"lock", "take", "pending", "retry"})
ImplementsAtonLock == Abstract!LockSpec

(* A user more urgent than everyone else gets the NPU each time it asks, even
   if a hog of middle urgency never sleeps. *)
MostUrgentServed ==
  \A t \in Threads :
    (\A u \in Threads \ {t} : BasePrio[t] < BasePrio[u])
      => (pc[t] = "lock" ~> pc[t] = "held")

(* Whenever somebody wants the NPU and nobody has it, somebody gets it, unless a hog
   keeps the core. *)
LockMakesProgress ==
  Hogs = {} =>
  ((mutex = None /\ At({"lock", "take", "pending", "retry"}) # {}) ~> (mutex # None))
=============================================================================
