--------------------------- MODULE DaoMutexProofs ---------------------------
(* The ATON lock is correct for any number of threads and any priorities. *)
EXTENDS DaoMutex, TLAPS, FiniteSetTheorems

(* What makes NoLostWakeup inductive: a token in the binary semaphore means that
   nobody is pended on it (a pended thread would have been handed the token). *)
TokenOrPended == sem = 1 => At({"pending"}) = {}

Invariant ==
  /\ TypeOK
  /\ OwnerConsistent
  /\ WaitersCounted
  /\ PriorityRestored
  /\ TokenOrPended
  /\ NoLostWakeup

-----------------------------------------------------------------------------
(* Sets of threads at given places *)

(* A set of threads is finite. *)
LEMMA AtFinite == ASSUME NEW places PROVE IsFiniteSet(At(places))
BY ThreadAssumption, FS_Subset DEF At

(* So is the set of waiters. *)
LEMMA WaitersFinite == IsFiniteSet(Waiters) /\ Cardinality(Waiters) \in Nat
BY AtFinite, FS_CardinalityType DEF Waiters

(* One thread moves from outside the waiters to the inside, or back. *)
LEMMA WaiterArrives ==
  ASSUME NEW t \in Threads, pc \in [Threads -> PCs], t \notin Waiters,
         NEW place \in {"take", "pending", "retry"}, Goto(t, place)
  PROVE  Waiters' = Waiters \cup {t} /\ Cardinality(Waiters') = Cardinality(Waiters) + 1
<1>1. Waiters' = Waiters \cup {t}
  BY DEF Waiters, At, Goto
<1> QED BY <1>1, WaitersFinite, FS_AddElement

(* One thread moves from the waiters to somewhere else. *)
LEMMA WaiterLeaves ==
  ASSUME NEW t \in Threads, pc \in [Threads -> PCs], t \in Waiters,
         NEW place \in PCs \ {"take", "pending", "retry"}, Goto(t, place)
  PROVE  Waiters' = Waiters \ {t} /\ Cardinality(Waiters') = Cardinality(Waiters) - 1
<1>1. Waiters' = Waiters \ {t}
  BY DEF Waiters, At, Goto, PCs
<1> QED BY <1>1, WaitersFinite, FS_RemoveElement

(* The count is zero when there is no waiter. *)
LEMMA NobodyWaits == Cardinality(Waiters) = 0 <=> Waiters = {}
BY WaitersFinite, FS_EmptySet

-----------------------------------------------------------------------------
(* One lemma per operation of the lock: it keeps the invariant *)

(* LL_ATON_OSAL_INIT establishes the invariant. *)
LEMMA InitOK == Init => Invariant
<1> SUFFICES ASSUME Init PROVE Invariant
  OBVIOUS
<1>1. At({"take", "pending", "retry"}) = {} /\ At({"pending"}) = {}
      /\ At({"take", "pending"}) = {}
  BY DEF Init, At
<1>2. WaitersCounted
  BY <1>1, NobodyWaits DEF Init, WaitersCounted, Waiters
<1>3. TypeOK
  BY PrioAssumption DEF Init, TypeOK, PCs
<1>4. OwnerConsistent
  BY ThreadAssumption DEF Init, OwnerConsistent
<1> QED BY <1>1, <1>2, <1>3, <1>4
        DEF Init, Invariant, PriorityRestored, TokenOrPended, NoLostWakeup

(* A first try: the mutex is free, or the caller passes its priority on and is
   counted as a waiter. *)
LEMMA LockOK ==
  ASSUME Invariant, NEW t \in Threads, Lock(t)
  PROVE  Invariant'
<1> USE ThreadAssumption, PrioAssumption
<1>0. TypeOK /\ OwnerConsistent /\ WaitersCounted /\ PriorityRestored
      /\ TokenOrPended /\ NoLostWakeup /\ pc[t] = "lock" /\ nrWaiters \in Nat
  BY DEF Invariant, Lock, TypeOK
<1>1. CASE mutex = None
  <2>1. /\ mutex' = t /\ owner' = t /\ origPrio' = prio[t] /\ nrWaiters' = nrWaiters
        /\ Goto(t, "held") /\ UNCHANGED <<prio, sem>>
    BY <1>1 DEF Lock, Attempt
  <2>2. TypeOK'
    BY <1>0, <2>1 DEF TypeOK, Goto, PCs
  <2>3. OwnerConsistent'
    BY <1>0, <1>1, <2>1 DEF OwnerConsistent, Goto, TypeOK
  <2>4. At({"pending"})' = At({"pending"}) /\ Waiters' = Waiters
    BY <1>0, <2>1 DEF At, Waiters, Goto, TypeOK
  <2>5. PriorityRestored'
    BY <1>0, <1>1, <2>1 DEF PriorityRestored, OwnerConsistent, TypeOK
  <2> QED
    BY <1>0, <2>1, <2>2, <2>3, <2>4, <2>5
    DEF Invariant, WaitersCounted, TokenOrPended, NoLostWakeup
<1>2. CASE mutex # None
  <2>1. /\ Inherit(t) /\ nrWaiters' = nrWaiters + 1
        /\ Goto(t, "take") /\ UNCHANGED <<mutex, owner, origPrio, sem>>
    BY <1>2 DEF Lock, Attempt
  <2>2. owner \in Threads /\ owner = mutex
    BY <1>0, <1>2 DEF OwnerConsistent, TypeOK
  <2>3. prio' \in [Threads -> Nat] /\ \A u \in Threads : u # owner => prio'[u] = prio[u]
    BY <1>0, <2>1, <2>2 DEF Inherit, Higher, TypeOK
  <2>4. TypeOK'
    <3>1. pc' \in [Threads -> PCs]
      BY <1>0, <2>1 DEF TypeOK, Goto, PCs
    <3> QED BY <1>0, <2>1, <2>3, <3>1 DEF TypeOK
  <2>5. OwnerConsistent'
    BY <1>0, <2>1 DEF OwnerConsistent, Goto, TypeOK
  <2>6. Cardinality(Waiters') = Cardinality(Waiters) + 1
    BY <1>0, <2>1, WaiterArrives DEF Waiters, At, TypeOK
  <2>7. PriorityRestored'
    BY <1>0, <2>1, <2>2, <2>3 DEF PriorityRestored
  <2>8. At({"pending"})' = At({"pending"})
    BY <1>0, <2>1 DEF At, Goto, TypeOK
  <2> QED
    BY <1>0, <1>2, <2>1, <2>4, <2>5, <2>6, <2>7, <2>8
    DEF Invariant, WaitersCounted, TokenOrPended, NoLostWakeup
<1> QED BY <1>1, <1>2

(* A waiter tries again: it leaves the count and, if it fails, enters it again. *)
LEMMA RetryOK ==
  ASSUME Invariant, NEW t \in Threads, Retry(t)
  PROVE  Invariant'
<1> USE ThreadAssumption, PrioAssumption
<1>0. TypeOK /\ OwnerConsistent /\ WaitersCounted /\ PriorityRestored
      /\ TokenOrPended /\ NoLostWakeup /\ pc[t] = "retry" /\ nrWaiters \in Nat
  BY DEF Invariant, Retry, TypeOK
<1>a. t \in Waiters /\ nrWaiters - 1 \in Nat
  <2>1. t \in Waiters
    BY <1>0 DEF Waiters, At
  <2> QED BY <1>0, <2>1, NobodyWaits, WaitersFinite DEF WaitersCounted
<1>1. CASE mutex = None
  <2>1. /\ mutex' = t /\ owner' = t /\ origPrio' = prio[t] /\ nrWaiters' = nrWaiters - 1
        /\ Goto(t, "held") /\ UNCHANGED <<prio, sem>>
    BY <1>1 DEF Retry, Attempt
  <2>2. TypeOK'
    BY <1>0, <1>a, <2>1 DEF TypeOK, Goto, PCs
  <2>3. OwnerConsistent'
    BY <1>0, <1>1, <2>1 DEF OwnerConsistent, Goto, TypeOK
  <2>4. At({"pending"})' = At({"pending"})
    BY <1>0, <2>1 DEF At, Goto, TypeOK
  <2>5. Cardinality(Waiters') = Cardinality(Waiters) - 1
    BY <1>0, <1>a, <2>1, WaiterLeaves DEF TypeOK, PCs
  <2>6. PriorityRestored'
    BY <1>0, <1>1, <2>1 DEF PriorityRestored, OwnerConsistent, TypeOK
  <2> QED
    BY <1>0, <2>1, <2>2, <2>3, <2>4, <2>5, <2>6
    DEF Invariant, WaitersCounted, TokenOrPended, NoLostWakeup
<1>2. CASE mutex # None
  <2>1. /\ Inherit(t) /\ nrWaiters' = nrWaiters - 1 + 1
        /\ Goto(t, "take") /\ UNCHANGED <<mutex, owner, origPrio, sem>>
    BY <1>2 DEF Retry, Attempt
  <2>2. owner \in Threads /\ owner = mutex
    BY <1>0, <1>2 DEF OwnerConsistent, TypeOK
  <2>3. prio' \in [Threads -> Nat] /\ \A u \in Threads : u # owner => prio'[u] = prio[u]
    BY <1>0, <2>1, <2>2 DEF Inherit, Higher, TypeOK
  <2>4. TypeOK'
    <3>1. pc' \in [Threads -> PCs]
      BY <1>0, <2>1 DEF TypeOK, Goto, PCs
    <3> QED BY <1>0, <2>1, <2>3, <3>1 DEF TypeOK
  <2>5. OwnerConsistent'
    BY <1>0, <2>1 DEF OwnerConsistent, Goto, TypeOK
  <2>6. Waiters' = Waiters /\ At({"pending"})' = At({"pending"})
    BY <1>0, <2>1 DEF Waiters, At, Goto, TypeOK
  <2>7. PriorityRestored'
    BY <1>0, <2>1, <2>2, <2>3 DEF PriorityRestored
  <2> QED
    BY <1>0, <1>2, <2>1, <2>4, <2>5, <2>6, <2>7
    DEF Invariant, WaitersCounted, TokenOrPended, NoLostWakeup
<1> QED BY <1>1, <1>2

(* A waiter takes the token, or pends for the lack of one. *)
LEMMA TakeOK ==
  ASSUME Invariant, NEW t \in Threads, Take(t)
  PROVE  Invariant'
<1> USE ThreadAssumption
<1>0. TypeOK /\ OwnerConsistent /\ WaitersCounted /\ PriorityRestored
      /\ TokenOrPended /\ NoLostWakeup /\ pc[t] = "take"
      /\ UNCHANGED <<prio, mutex, owner, origPrio, nrWaiters>>
  BY DEF Invariant, Take
<1>1. CASE sem > 0 /\ sem' = sem - 1 /\ Goto(t, "retry")
  <2>1. TypeOK' /\ OwnerConsistent' /\ PriorityRestored'
    BY <1>0, <1>1 DEF TypeOK, OwnerConsistent, PriorityRestored, Goto, PCs
  <2>2. Waiters' = Waiters /\ t \in At({"retry"})'
    BY <1>0, <1>1 DEF Waiters, At, Goto, TypeOK
  <2> QED BY <1>0, <1>1, <2>1, <2>2
          DEF Invariant, WaitersCounted, TokenOrPended, NoLostWakeup, TypeOK
<1>2. CASE sem = 0 /\ Goto(t, "pending") /\ UNCHANGED sem
  <2>1. TypeOK' /\ OwnerConsistent' /\ PriorityRestored'
    BY <1>0, <1>2 DEF TypeOK, OwnerConsistent, PriorityRestored, Goto, PCs
  <2>2. Waiters' = Waiters /\ At({"retry"})' = At({"retry"}) /\ t \in At({"take", "pending"})
    BY <1>0, <1>2 DEF Waiters, At, Goto, TypeOK
  <2> QED BY <1>0, <1>2, <2>1, <2>2
          DEF Invariant, WaitersCounted, TokenOrPended, NoLostWakeup
<1> QED BY <1>1, <1>2 DEF Take

(* Give or NoGive after an unlock: only pc and sem change, t becomes idle and at
   most one pended thread w is woken. *)
LEMMA UnlockOK ==
  ASSUME Invariant, NEW t \in Threads, Unlock(t)
  PROVE  Invariant'
<1> USE ThreadAssumption, PrioAssumption
<1>0. TypeOK /\ OwnerConsistent /\ WaitersCounted /\ PriorityRestored
      /\ TokenOrPended /\ NoLostWakeup /\ pc[t] = "held"
      /\ mutex' = None /\ owner' = None /\ origPrio' = 0
      /\ prio' = [prio EXCEPT ![t] = origPrio] /\ UNCHANGED nrWaiters
  BY DEF Invariant, Unlock
<1>1. owner = t /\ origPrio = BasePrio[t]
  BY <1>0 DEF OwnerConsistent, PriorityRestored
<1>2. prio' \in [Threads -> Nat] /\ PriorityRestored'
  BY <1>0, <1>1 DEF PriorityRestored, TypeOK
<1>3. \A u \in Threads \ {t} : pc[u] \notin {"held", "npu"}
  BY <1>0, <1>1 DEF OwnerConsistent
<1>4. CASE NoGive(t) /\ (nrWaiters = 0 \/ sem = 1)
  <2>1. pc' \in [Threads -> PCs] /\ pc'[t] = "idle" /\ sem' = sem
        /\ \A u \in Threads \ {t} : pc'[u] = pc[u]
    BY <1>0, <1>4 DEF NoGive, Goto, TypeOK, PCs
  <2>2. At({"pending"})' = At({"pending"}) /\ Waiters' = Waiters
    BY <1>0, <2>1 DEF At, Waiters
  <2>3. NoLostWakeup'
    <3>1. CASE sem = 1
      BY <2>1, <3>1 DEF NoLostWakeup
    <3>2. CASE nrWaiters = 0
      <4>1. Waiters' = {}
        BY <1>0, <3>2, <2>2, NobodyWaits DEF WaitersCounted
      <4> QED BY <4>1 DEF NoLostWakeup, Waiters, At
    <3> QED BY <1>4, <3>1, <3>2
  <2>4. TypeOK' /\ OwnerConsistent'
    BY <1>0, <1>2, <1>3, <2>1 DEF TypeOK, OwnerConsistent
  <2> QED BY <1>0, <1>2, <2>1, <2>2, <2>3, <2>4
          DEF Invariant, WaitersCounted, TokenOrPended
<1>5. ASSUME NEW w \in FirstPending,
             pc' = [pc EXCEPT ![t] = "idle", ![w] = "retry"], UNCHANGED sem, sem = 0
      PROVE  Invariant'
  <2>0. w \in Threads /\ pc[w] = "pending" /\ w # t
    BY <1>0, <1>5 DEF FirstPending, At
  <2>1. pc' \in [Threads -> PCs] /\ pc'[t] = "idle" /\ pc'[w] = "retry"
        /\ \A u \in Threads \ {t, w} : pc'[u] = pc[u]
    BY <1>0, <1>5, <2>0 DEF TypeOK, PCs
  <2>2. Waiters' = Waiters
    BY <1>0, <2>0, <2>1 DEF At, Waiters
  <2>3. NoLostWakeup'
    BY <2>0, <2>1 DEF NoLostWakeup, At
  <2>4. TypeOK' /\ OwnerConsistent'
    BY <1>0, <1>2, <1>3, <1>5, <2>0, <2>1 DEF TypeOK, OwnerConsistent
  <2> QED BY <1>0, <1>2, <1>5, <2>2, <2>3, <2>4
          DEF Invariant, WaitersCounted, TokenOrPended
<1>6. CASE At({"pending"}) = {} /\ sem' = 1 /\ Goto(t, "idle")
  <2>1. pc' \in [Threads -> PCs] /\ pc'[t] = "idle"
        /\ \A u \in Threads \ {t} : pc'[u] = pc[u]
    BY <1>0, <1>6 DEF Goto, TypeOK, PCs
  <2>2. At({"pending"})' = At({"pending"}) /\ Waiters' = Waiters
    BY <1>0, <2>1 DEF At, Waiters
  <2>3. TypeOK' /\ OwnerConsistent'
    BY <1>0, <1>2, <1>3, <1>6, <2>1 DEF TypeOK, OwnerConsistent
  <2> QED BY <1>0, <1>2, <1>6, <2>2, <2>3
          DEF Invariant, WaitersCounted, TokenOrPended, NoLostWakeup
<1>7. nrWaiters \in Nat /\ sem \in {0, 1}
  BY <1>0 DEF TypeOK
<1> QED
  <2>1. CASE nrWaiters > 0 /\ sem = 0
    BY <2>1, <1>5, <1>6 DEF Unlock, Give
  <2>2. CASE ~(nrWaiters > 0 /\ sem = 0)
    BY <2>2, <1>4, <1>7 DEF Unlock
  <2> QED BY <2>1, <2>2

(* A step of a thread that neither enters nor leaves the lock's protocol. *)
LEMMA AroundOK ==
  ASSUME Invariant, NEW t \in Threads, LockUntouched,
         NEW here \in PCs, NEW there \in PCs, pc[t] = here, Goto(t, there),
         {here, there} \subseteq {"idle", "lock", "asleep", "spin"}
           \/ {here, there} \subseteq {"held", "npu"}
  PROVE  Invariant'
<1>0. TypeOK /\ OwnerConsistent /\ WaitersCounted /\ PriorityRestored
      /\ TokenOrPended /\ NoLostWakeup
      /\ UNCHANGED <<prio, mutex, owner, origPrio, nrWaiters, sem>>
  BY DEF Invariant, LockUntouched
<1>1. pc' \in [Threads -> PCs] /\ pc'[t] = there /\ \A u \in Threads \ {t} : pc'[u] = pc[u]
  BY <1>0 DEF TypeOK, Goto
<1>2. /\ Waiters' = Waiters /\ At({"pending"})' = At({"pending"})
      /\ At({"take", "pending"})' = At({"take", "pending"}) /\ At({"retry"})' = At({"retry"})
  BY <1>0, <1>1 DEF At, Waiters
<1>3. TypeOK' /\ OwnerConsistent' /\ PriorityRestored'
  BY <1>0, <1>1 DEF TypeOK, OwnerConsistent, PriorityRestored
<1> QED BY <1>0, <1>2, <1>3
        DEF Invariant, WaitersCounted, TokenOrPended, NoLostWakeup

(* A step that changes nothing keeps the invariant. *)
LEMMA StutterOK ==
  ASSUME Invariant, UNCHANGED vars
  PROVE  Invariant'
BY DEF vars, Invariant, TypeOK, OwnerConsistent, WaitersCounted, PriorityRestored,
       TokenOrPended, NoLostWakeup, Waiters, At

(* Every step of the lock, its users and the kernel keeps the invariant. *)
LEMMA StepOK ==
  ASSUME Invariant, [Next]_vars
  PROVE  Invariant'
<1>1. ASSUME NEW t \in Threads, Arrive(t) PROVE Invariant'
  BY <1>1, AroundOK DEF Arrive, PCs
<1>2. ASSUME NEW t \in Threads, NpuDone(t) PROVE Invariant'
  BY <1>2, AroundOK DEF NpuDone, PCs
<1>3. ASSUME NEW t \in Threads, HogWakes(t) \/ HogSleeps(t) PROVE Invariant'
  BY <1>3, AroundOK DEF HogWakes, HogSleeps, PCs
<1>4. ASSUME NEW t \in Threads, LockStep(t) PROVE Invariant'
  BY <1>4, LockOK, TakeOK, RetryOK DEF LockStep
<1>5. ASSUME NEW t \in Threads, OwnerStep(t) PROVE Invariant'
  <2>1. CASE Unlock(t)
    BY <1>5, <2>1, UnlockOK
  <2>2. CASE AwaitNpu(t)
    BY <1>5, <2>2, AroundOK DEF AwaitNpu, PCs
  <2> QED BY <1>5, <2>1, <2>2 DEF OwnerStep
<1> QED BY <1>1, <1>2, <1>3, <1>4, <1>5, StutterOK DEF Next

-----------------------------------------------------------------------------
(* The theorems *)

(* The inductive invariant holds in every reachable state. *)
THEOREM InvariantHolds == Spec => []Invariant
BY InitOK, StepOK, PTL DEF Spec

(* Type correctness: in particular the binary semaphore never exceeds one and the
   count of waiters never goes below zero. *)
THEOREM TypeCorrect == Spec => []TypeOK
<1>1. Invariant => TypeOK
  BY DEF Invariant
<1> QED BY <1>1, InvariantHolds, PTL

(* Mutual exclusion: the mutex, the owner pointer and the only thread between
   LOCK_ATON and UNLOCK_ATON agree. *)
THEOREM OwnerIsConsistent == Spec => []OwnerConsistent
<1>1. Invariant => OwnerConsistent
  BY DEF Invariant
<1> QED BY <1>1, InvariantHolds, PTL

(* _nr_dao_waiters is exact. *)
THEOREM WaitersAreCounted == Spec => []WaitersCounted
<1>1. Invariant => WaitersCounted
  BY DEF Invariant
<1> QED BY <1>1, InvariantHolds, PTL

(* Priority inheritance is undone by the unlock. *)
THEOREM PriorityIsRestored == Spec => []PriorityRestored
<1>1. Invariant => PriorityRestored
  BY DEF Invariant
<1> QED BY <1>1, InvariantHolds, PTL

(* A free mutex never leaves all its waiters asleep. *)
THEOREM NoWakeupIsLost == Spec => []NoLostWakeup
<1>1. Invariant => NoLostWakeup
  BY DEF Invariant
<1> QED BY <1>1, InvariantHolds, PTL

-----------------------------------------------------------------------------
(* Priority inheritance where at most one thread can wait *)

(* Only one thread waits, and it is not overtaken in the window before it pends: while
   it is there, the token waits for it or the owner has its priority. *)
Inherited ==
  /\ \A v, w \in Waiters : v = w
  /\ \A w \in At({"take"}) :
       sem = 1 \/ (owner # None /\ ~Higher(prio[w], prio[owner]))
  /\ \A w \in At({"pending"}) : owner # None /\ ~Higher(prio[w], prio[owner])

TwoUsers == \A a, b, c \in Users : a = b \/ b = c \/ a = c

(* Of three users with a cardinality of two, two are the same. *)
LEMMA AtMostTwo == Cardinality(Users) <= 2 => TwoUsers
<1> SUFFICES ASSUME NEW a \in Users, NEW b \in Users, NEW c \in Users,
                    a # b, b # c, a # c
             PROVE  ~(Cardinality(Users) <= 2)
  BY DEF TwoUsers
<1>1. IsFiniteSet(Users) /\ Cardinality(Users) \in Nat
  BY ThreadAssumption, FS_Subset, FS_CardinalityType DEF Users
<1>2. Cardinality({a}) = 1 /\ IsFiniteSet({a})
  BY FS_Singleton
<1>3. Cardinality({a} \cup {b}) = 2 /\ IsFiniteSet({a} \cup {b})
  BY <1>2, FS_AddElement
<1>4. Cardinality(({a} \cup {b}) \cup {c}) = 3
  BY <1>3, FS_AddElement
<1>5. ({a} \cup {b}) \cup {c} \subseteq Users
  OBVIOUS
<1> QED BY <1>1, <1>4, <1>5, FS_Subset

(* A hog stays one, and a user does. *)
LEMMA UsersStay ==
  ASSUME TypeOK, [Next]_vars
  PROVE  Users' = Users
<1> USE DEF Users, Hogs, At, TypeOK
<1>1. ASSUME NEW t \in Threads, Arrive(t) \/ NpuDone(t) \/ HogWakes(t) \/ HogSleeps(t)
      PROVE  Users' = Users
  BY <1>1 DEF Arrive, NpuDone, HogWakes, HogSleeps, Goto
<1>2. ASSUME NEW t \in Threads, LockStep(t)
      PROVE  Users' = Users
  BY <1>2 DEF LockStep, Lock, Take, Retry, Attempt, Goto
<1>3. ASSUME NEW t \in Threads, OwnerStep(t)
      PROVE  Users' = Users
  BY <1>3 DEF OwnerStep, Unlock, Give, NoGive, FirstPending, AwaitNpu, Goto
<1>4. CASE UNCHANGED vars
  BY <1>4 DEF vars
<1> QED BY <1>1, <1>2, <1>3, <1>4 DEF Next

(* A thread that tries becomes the owner, or passes its priority on to the owner;
   nobody else is waiting then. *)
LEMMA AttemptInherits ==
  ASSUME Invariant, TwoUsers, Inherited, NEW t \in Threads, NEW n, Attempt(t, n),
         pc[t] \in {"lock", "retry"}
  PROVE  Inherited'
<1>1. TypeOK /\ OwnerConsistent
  BY DEF Invariant
<1>2. t \in Users /\ t # owner /\ t # None
  BY <1>1, ThreadAssumption DEF OwnerConsistent, Users, Hogs, At
<1>3. CASE mutex = None
  <2>1. At({"pending"}) = {} /\ \A w \in At({"take"}) : sem = 1
    BY <1>1, <1>3 DEF Inherited, OwnerConsistent
  <2>2. Goto(t, "held") /\ sem' = sem
    BY <1>3 DEF Attempt
  <2>3. At({"pending"})' = At({"pending"}) /\ At({"take"})' = At({"take"})
        /\ Waiters' \subseteq Waiters
    BY <1>1, <2>2 DEF At, Goto, TypeOK, Waiters
  <2> QED BY <2>1, <2>2, <2>3 DEF Inherited
<1>4. CASE mutex # None
  <2>1. Inherit(t) /\ Goto(t, "take") /\ owner' = owner
    BY <1>4 DEF Attempt
  <2>2. owner \in Threads /\ owner # None /\ pc[owner] \in {"held", "npu"}
    BY <1>1, <1>4, ThreadAssumption DEF OwnerConsistent, TypeOK
  <2>3. owner \in Users
    BY <2>2 DEF Users, Hogs, At
  <2>4. \A w \in Waiters : w \in Users /\ w # owner
    BY <2>2 DEF Users, Hogs, At, Waiters
  <2>5. Waiters \subseteq {t}
    BY <1>2, <2>3, <2>4 DEF TwoUsers
  <2>6. At({"pending"})' = {} /\ At({"take"})' = {t} /\ Waiters' = {t}
    BY <1>1, <2>1, <2>5 DEF At, Goto, TypeOK, Waiters
  <2>7. ~Higher(prio'[t], prio'[owner])
    BY <1>1, <1>2, <2>1, <2>2 DEF Inherit, Higher, TypeOK
  <2> QED BY <2>1, <2>2, <2>6, <2>7 DEF Inherited
<1> QED BY <1>3, <1>4

(* The owner's unlock hands the token to the other user if that one is pended, and
   leaves it there if that one is about to pend. *)
LEMMA UnlockInherits ==
  ASSUME Invariant, Inherited, NEW t \in Threads, Unlock(t)
  PROVE  Inherited'
<1>1. TypeOK /\ WaitersCounted /\ TokenOrPended /\ pc[t] = "held"
  BY DEF Invariant, Unlock
<1>2. Waiters' = Waiters
  BY <1>1 DEF Unlock, Give, NoGive, FirstPending, Goto, At, Waiters, TypeOK
<1>3. CASE Waiters = {}
  <2>1. At({"pending"})' = {} /\ At({"take"})' = {}
    BY <1>2, <1>3 DEF At, Waiters
  <2> QED BY <1>2, <1>3, <2>1 DEF Inherited
<1>4. ASSUME NEW w \in Waiters
      PROVE  Inherited'
  <2>1. \A u \in Waiters : u = w
    BY DEF Inherited
  <2>2. nrWaiters > 0
    BY <1>1, <1>4, NobodyWaits, WaitersFinite DEF WaitersCounted
  <2>3. CASE pc[w] = "pending"
    <3>1. At({"pending"}) = {w}
      BY <2>1, <2>3 DEF At, Waiters
    <3>2. sem = 0
      BY <1>1, <3>1 DEF TokenOrPended, TypeOK
    <3>3. pc' = [pc EXCEPT ![t] = "idle", ![w] = "retry"]
      BY <2>2, <3>1, <3>2 DEF Unlock, Give, FirstPending
    <3>4. At({"pending"})' = {} /\ At({"take"})' = {}
      BY <1>1, <2>1, <3>3 DEF At, Waiters, TypeOK
    <3> QED BY <1>2, <2>1, <3>4 DEF Inherited
  <2>4. CASE pc[w] # "pending"
    <3>1. At({"pending"}) = {}
      BY <2>1, <2>4 DEF At, Waiters
    <3>2. Goto(t, "idle") /\ sem' = 1
      BY <1>1, <2>2, <3>1 DEF Unlock, Give, NoGive, FirstPending, TypeOK
    <3>3. At({"pending"})' = {}
      BY <1>1, <3>1, <3>2 DEF At, Goto, TypeOK
    <3> QED BY <1>2, <2>1, <3>2, <3>3 DEF Inherited
  <2> QED BY <2>3, <2>4
<1> QED BY <1>3, <1>4

(* Every step of two users and any hogs keeps it so. *)
LEMMA StepInherits ==
  ASSUME Invariant, TwoUsers, Inherited, [Next]_vars
  PROVE  Inherited'
<1>1. TypeOK /\ OwnerConsistent
  BY DEF Invariant
<1>2. ASSUME NEW t \in Threads,
             Arrive(t) \/ NpuDone(t) \/ HogWakes(t) \/ HogSleeps(t) \/ AwaitNpu(t)
      PROVE  Inherited'
  <2>1. At({"pending"})' = At({"pending"}) /\ At({"take"})' = At({"take"})
        /\ Waiters' = Waiters
    BY <1>1, <1>2 DEF Arrive, NpuDone, HogWakes, HogSleeps, AwaitNpu, Goto, At, TypeOK, Waiters
  <2>2. LockUntouched
    BY <1>2 DEF Arrive, NpuDone, HogWakes, HogSleeps, AwaitNpu
  <2> QED BY <2>1, <2>2 DEF Inherited, LockUntouched
<1>3. ASSUME NEW t \in Threads, Lock(t) \/ Retry(t)
      PROVE  Inherited'
  BY <1>3, AttemptInherits DEF Lock, Retry
<1>4. ASSUME NEW t \in Threads, Take(t)
      PROVE  Inherited'
  <2>1. UNCHANGED <<prio, owner>> /\ t \in At({"take"}) /\ Waiters' = Waiters
        /\ At({"take", "pending"}) = {t}
    BY <1>1, <1>4 DEF Take, At, Goto, Waiters, TypeOK, Inherited
  <2>2. CASE sem > 0 /\ sem' = sem - 1 /\ Goto(t, "retry")
    <3>1. At({"pending"})' = {} /\ At({"take"})' = {}
      BY <1>1, <2>1, <2>2 DEF At, Goto, TypeOK
    <3> QED BY <2>1, <3>1 DEF Inherited
  <2>3. CASE sem = 0 /\ Goto(t, "pending") /\ UNCHANGED sem
    <3>1. At({"pending"})' = {t} /\ At({"take"})' = {}
      BY <1>1, <2>1, <2>3 DEF At, Goto, TypeOK
    <3> QED BY <2>1, <2>3, <3>1 DEF Inherited
  <2> QED BY <1>4, <2>2, <2>3 DEF Take
<1>5. CASE UNCHANGED vars
  BY <1>5 DEF vars, Inherited, At, Waiters
<1> QED BY <1>2, <1>3, <1>4, <1>5, UnlockInherits DEF Next, LockStep, OwnerStep

(* With one owner and one waiter the owner is never less urgent than the thread it
   keeps waiting, whatever the priorities and however many hogs there are: the
   inversion that the run DaoMutexInversion finds takes a third user. *)
THEOREM InheritanceOfOne == Spec => []NoInversionByOne
<1> DEFINE Two == Cardinality(Users) <= 2 => Inherited
<1>1. Init => Two
  BY DEF Init, Inherited, At, Waiters
<1>2. Invariant /\ Two /\ [Next]_vars => Two'
  BY StepInherits, UsersStay, AtMostTwo DEF Invariant
<1>3. Two => NoInversionByOne
  BY DEF Inherited, NoInversionByOne, NoInversion
<1> HIDE DEF Two
<1> QED BY <1>1, <1>2, <1>3, InvariantHolds, PTL DEF Spec

-----------------------------------------------------------------------------
(* Refinement of AtonLock *)

(* The threads that asked and are not served, in the abstract lock. *)
Wanting == At({"lock", "take", "pending", "retry"})

(* Every step is one of the abstract lock, or changes nothing it shows. *)
LEMMA StepRefines ==
  ASSUME Invariant, [Next]_vars
  PROVE  [Abstract!LockNext]_(Abstract!lockVars)
<1> USE ThreadAssumption DEF Abstract!LockNext, Abstract!lockVars
<1>0. pc \in [Threads -> PCs] /\ OwnerConsistent
  BY DEF Invariant, TypeOK
<1>1. ASSUME NEW t \in Threads, Arrive(t) PROVE Abstract!Request(t)
  <2>1. pc[t] = "idle" /\ pc' = [pc EXCEPT ![t] = "lock"] /\ mutex' = mutex
    BY <1>1 DEF Arrive, Goto, LockUntouched
  <2>2. mutex # t
    BY <1>0, <2>1 DEF OwnerConsistent
  <2> QED BY <1>0, <2>1, <2>2 DEF Abstract!Request, At
<1>2. ASSUME NEW t \in Threads, Unlock(t) PROVE Abstract!Release(t)
  <2>1. pc[t] = "held" /\ mutex = t /\ mutex' = None
    BY <1>0, <1>2 DEF Unlock, OwnerConsistent
  <2>2. Wanting' = Wanting
    <3>1. CASE Goto(t, "idle")
      BY <1>0, <2>1, <3>1 DEF Wanting, At, Goto
    <3>2. CASE \E w \in FirstPending : pc' = [pc EXCEPT ![t] = "idle", ![w] = "retry"]
      BY <1>0, <2>1, <3>2 DEF Wanting, At, FirstPending
    <3> QED BY <1>2, <3>1, <3>2 DEF Unlock, Give, NoGive
  <2> QED BY <2>1, <2>2 DEF Abstract!Release, Wanting
<1>3. ASSUME NEW t \in Threads, Lock(t) \/ Retry(t)
      PROVE  Abstract!Grant(t) \/ UNCHANGED Abstract!lockVars
  <2>0. pc[t] \in {"lock", "retry"}
    BY <1>3 DEF Lock, Retry
  <2>1. CASE mutex = None /\ mutex' = t /\ Goto(t, "held")
    BY <1>0, <2>0, <2>1 DEF Abstract!Grant, At, Goto
  <2>2. CASE mutex' = mutex /\ Goto(t, "take")
    BY <1>0, <2>0, <2>2 DEF At, Goto
  <2> QED BY <1>3, <2>1, <2>2 DEF Lock, Retry, Attempt
<1>4. ASSUME NEW t \in Threads, Take(t) PROVE UNCHANGED Abstract!lockVars
  BY <1>0, <1>4 DEF Take, At, Goto
<1>5. ASSUME NEW t \in Threads, NpuDone(t) \/ AwaitNpu(t) \/ HogWakes(t) \/ HogSleeps(t)
      PROVE  UNCHANGED Abstract!lockVars
  BY <1>0, <1>5 DEF NpuDone, AwaitNpu, HogWakes, HogSleeps, At, Goto, LockUntouched
<1>6. CASE UNCHANGED vars
  BY <1>6 DEF vars, At
<1> QED BY <1>1, <1>2, <1>3, <1>4, <1>5, <1>6 DEF Next, LockStep, OwnerStep

(* The deferred-owner mutex implements the abstract ATON lock. *)
THEOREM LockImplementsAtonLock == Spec => ImplementsAtonLock
<1>1. Init => Abstract!LockInit
  BY DEF Init, Abstract!LockInit, At
<1> QED BY <1>1, StepRefines, InvariantHolds, PTL
        DEF Spec, ImplementsAtonLock, Abstract!LockSpec
=============================================================================
