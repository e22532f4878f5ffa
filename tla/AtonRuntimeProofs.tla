-------------------------- MODULE AtonRuntimeProofs --------------------------
(***************************************************************************)
(* The runtime for all networks, operators and threads, in both builds.    *)
(*                                                                         *)
(* A failed assertion stops its actor, so that each assertion may be used  *)
(* after the point where it stands: the invariant shows what the           *)
(* assertions of the runtime are worth, whatever the users do.  That none  *)
(* fails needs users that keep to a discipline (Disciplined), and so does  *)
(* the use of the lock; the order of the blocks and the turns of the       *)
(* operators do not.                                                       *)
(*                                                                         *)
(* The invariant follows the NPU through the life of a block: it is at     *)
(* rest, or in use by the one thread that has started a block and waits    *)
(* for it, and then in one of four phases.                                 *)
(***************************************************************************)
EXTENDS AtonRuntime, TLAPS

(* A thread inside the runtime works on an instance of its own, for an     *)
(* inference that is not over.                                             *)
Serving ==
  \A t \in Threads : pc[t] # "ready" => cur[t] \in Serves[t] /\ left[cur[t]] > 0

IsHybrid(i, n) == n \in DOMAIN Network[i] /\ Network[i][n].kind = "hybrid"

(* Inserted blocks come from a hybrid block of the owner and return to it. *)
LibShape ==
  \A i \in Inst :
    /\ exec[i].list # "net" => owner = i /\ exec[i].saved # 0
    /\ exec[i].next # None => owner = i /\ exec[i].list = "net" /\ IsHybrid(i, exec[i].at)
    /\ exec[i].saved # 0 => exec[i].list # "net" /\ IsHybrid(i, exec[i].saved)

(* A block that was started is in the hands of its thread. *)
InBlock == {"acquire", "launch", "wfe", "enter", "clear", "end", "determine"}
Starts ==
  \A t \in Threads :
    /\ pc[t] \in InBlock \ {"enter"} => exec[cur[t]].started
    /\ \A i \in Serves[t] : exec[i].started => cur[t] = i /\ pc[t] \in InBlock

(* A network owns the NPU while it is in inserted blocks or about to enter them, or
   in a block of its own that takes the NPU. *)
Holds(t, i) ==
  /\ cur[t] = i /\ pc[t] \in {"launch", "wfe", "enter", "clear", "end"}
  /\ exec[i].started /\ TakesAton(Current(i))

Owners ==
  \A t \in Threads :
    /\ \A i \in Serves[t] :
         owner = i <=> exec[i].list # "net" \/ exec[i].next # None \/ Holds(t, i)
    /\ pc[t] = "acquire" => TakesAton(Current(cur[t]))

(* Blocks are inserted by the start of a hybrid block, which then ends at once, or by
   the end of an inserted one. *)
Inserts ==
  \A t \in Threads : \A i \in Serves[t] :
    exec[i].next # None => cur[t] = i /\ pc[t] \in {"end", "determine"}

(* Interrupts are unmasked from the start of a block to its end. *)
Unmasked(t) ==
  /\ owner = cur[t] /\ pc[t] \in {"wfe", "enter", "clear", "end"}
  /\ exec[cur[t]].started /\ SetsMask(Current(cur[t]))

Masks == waitMask # {} => \E t \in Threads : Unmasked(t)

(* Where there is a lock, the owner's thread holds it. *)
Locks ==
  IF owner = None \/ ~parallel THEN lock = None
  ELSE lock \in Threads /\ owner \in Serves[lock]

(* Only users run networks. *)
Wanted ==
  /\ parallel \in DOMAIN Users
  /\ owner # None => left[owner] > 0
  /\ \A t \in Threads \ Users[parallel] : \A i \in Serves[t] : left[i] = 0

-----------------------------------------------------------------------------
(* The life of a block *)

(* Thread t does not wait for the NPU. *)
Aside(t) ==
  pc[t] \notin {"wfe", "clear"} /\ (pc[t] = "enter" => ~exec[cur[t]].started)

NoInterrupt == running = {} /\ src = {} /\ intreg = {} /\ isr = "idle" /\ irqs = {}

AtRest ==
  /\ NoInterrupt /\ wfeSem = 0
  /\ \A t \in Threads : Aside(t)
  /\ \A i \in Inst : exec[i].triggered = {}

(* units work, or have finished *)
AtWork(i, b) ==
  /\ isr = "idle" /\ irqs = {} /\ intreg = src
  /\ running \cup src = Units(b) /\ running \cap src = {}
  /\ exec[i].triggered = {}
  /\ waitMask = IF b.blob THEN Engines ELSE b.wait

(* all have, and the interrupt handler has been entered *)
Handled(i, b) ==
  /\ isr = "ack" /\ running = {}
  /\ src = Units(b) /\ intreg = Units(b) /\ irqs = Units(b)
  /\ exec[i].triggered = {}

(* the event is recorded *)
Recorded(i, b) ==
  /\ isr = "clear" /\ running = {}
  /\ src = {} /\ intreg = Units(b) /\ irqs = Units(b)
  /\ exec[i].triggered = WaitOf(b)

InUse(t) ==
  LET i == cur[t]
      b == Current(i)
  IN  /\ owner = i /\ exec[i].started /\ Units(b) # {}
      /\ \/ pc[t] = "wfe" /\ wfeSem = 0 /\ (AtWork(i, b) \/ Handled(i, b) \/ Recorded(i, b))
         \/ /\ NoInterrupt
            /\ exec[i].triggered = WaitOf(b)
            /\ (pc[t] = "wfe" /\ wfeSem = 1) \/ (pc[t] \in {"enter", "clear"} /\ wfeSem = 0)
      /\ \A s \in Threads \ {t} : Aside(s)
      /\ \A j \in Inst \ {i} : exec[j].triggered = {}

Hardware == AtRest \/ \E t \in Threads : InUse(t)

Protocol == Serving /\ LibShape /\ Starts /\ Owners /\ Inserts /\ Masks /\ Locks /\ Wanted
Invariant == TypeOK /\ Protocol /\ Hardware

-----------------------------------------------------------------------------
(* Blocks *)

(* What a current block can be.                                            *)
LEMMA BlockFacts ==
  ASSUME TypeOK, NEW i \in Inst
  PROVE  LET b == Current(i)
             x == exec[i]
         IN  /\ b.kind \in {"hw", "sw", "hybrid", "internal", "last"}
             /\ b.blob \in BOOLEAN /\ b.wait \subseteq Engines
             /\ b.kind \notin {"hw", "internal"} => b.wait = {} /\ ~b.blob
             /\ b.kind = "internal" =>
                  /\ x.list \in Ops /\ x.list # "net" /\ x.at = 1
                  /\ b.op = x.list /\ b.wait = libWait[x.list] /\ ~b.blob
             /\ b.kind \in {"hw", "sw", "hybrid"} =>
                  /\ x.list = "net" /\ x.at \in DOMAIN Network[i]
                  /\ b = Network[i][x.at] /\ b.op \in Ops \cup {None}
<1>1. exec[i] \in ExecStates /\ libWait \in [Ops -> SUBSET Engines]
  BY DEF TypeOK
<1>2. CASE exec[i].list = "net" /\ exec[i].at \in DOMAIN Network[i]
  <2>1. Current(i) = Network[i][exec[i].at]
    BY <1>2 DEF Current, Block
  <2>2. Network[i][exec[i].at] \in Blocks
    BY <1>2, NetworkAssumption
  <2> QED BY <1>2, <2>1, <2>2, NetworkAssumption DEF Blocks
<1>3. CASE exec[i].list # "net" /\ exec[i].at = 1
  <2>1. Current(i) = [kind |-> "internal", blob |-> FALSE, wait |-> libWait[exec[i].list],
                      op |-> exec[i].list]
    BY <1>3 DEF Current, Block
  <2>2. exec[i].list \in Ops
    BY <1>1, <1>3 DEF ExecStates
  <2> QED BY <1>1, <1>3, <2>1, <2>2
<1>4. CASE ~(exec[i].list = "net" /\ exec[i].at \in DOMAIN Network[i])
           /\ ~(exec[i].list # "net" /\ exec[i].at = 1)
  <2>1. Current(i) = LastEb
    BY <1>4 DEF Current, Block
  <2> QED BY <2>1 DEF LastEb
<1> QED BY <1>2, <1>3, <1>4

(* A block has units at work exactly if it is waited for, and then it sets *)
(* the wait mask.                                                          *)
LEMMA UnitsFacts ==
  ASSUME TypeOK, NEW i \in Inst
  PROVE  LET b == Current(i)
         IN  /\ Units(b) \subseteq Engines \cup {EC} /\ WaitOf(b) \subseteq Engines
             /\ Units(b) = {} <=> WaitOf(b) = {}
             /\ Units(b) # {} => SetsMask(b)
             /\ ~b.blob => Units(b) = b.wait /\ WaitOf(b) = b.wait
BY BlockFacts DEF Units, WaitOf, SetsMask, Engines, EC, ECUnit

(* The thread of an instance is the only one.                              *)
LEMMA OneServer ==
  ASSUME NEW s \in Threads, NEW t \in Threads, NEW i \in Serves[s], i \in Serves[t]
  PROVE  s = t /\ i \in Inst /\ i # None
BY ServesAssumption, NamesAssumption

-----------------------------------------------------------------------------
(* Changes of an instance's execution state                                *)

(* y keeps the position that x has.                                        *)
SamePlace(x, y) == y.list = x.list /\ y.at = x.at /\ y.next = x.next /\ y.saved = x.saved

(* A call marks the inference as running.                                  *)
LEMMA InferringChange ==
  ASSUME NEW x \in ExecStates, NEW y, y = [x EXCEPT !.inferring = TRUE]
  PROVE  y \in ExecStates /\ SamePlace(x, y) /\ y.started = x.started /\ y.triggered = x.triggered
BY DEF ExecStates, SamePlace

(* A start marks the block as started.                                     *)
LEMMA StartChange ==
  ASSUME NEW x \in ExecStates, NEW y, y = [x EXCEPT !.started = TRUE]
  PROVE  y \in ExecStates /\ SamePlace(x, y) /\ y.started /\ y.triggered = x.triggered
BY DEF ExecStates, SamePlace

(* Events come and go.                                                     *)
LEMMA EventChange ==
  ASSUME NEW x \in ExecStates, NEW y, NEW e \in SUBSET Engines, y = [x EXCEPT !.triggered = e]
  PROVE  y \in ExecStates /\ SamePlace(x, y) /\ y.started = x.started /\ y.triggered = e
BY DEF ExecStates, SamePlace

(* Into the inserted blocks of operator op.                                *)
LEMMA IntoChange ==
  ASSUME NEW x \in ExecStates, x.next \in Ops, NEW y,
         y = [x EXCEPT !.saved = x.at, !.list = x.next, !.at = 1, !.next = None,
                       !.started = FALSE]
  PROVE  /\ y \in ExecStates /\ y.list = x.next /\ y.at = 1 /\ y.next = None
         /\ y.saved = x.at /\ ~y.started /\ y.triggered = x.triggered
BY DEF ExecStates

(* On to the next block.                                                   *)
LEMMA OnChange ==
  ASSUME NEW x \in ExecStates, NEW y, y = [x EXCEPT !.at = x.at + 1, !.started = FALSE]
  PROVE  /\ y \in ExecStates /\ y.list = x.list /\ y.at = x.at + 1 /\ y.next = x.next
         /\ y.saved = x.saved /\ ~y.started /\ y.triggered = x.triggered
<1>1. x.at + 1 \in Nat
  BY DEF ExecStates
<1> QED BY <1>1 DEF ExecStates

(* Back to the network, past the hybrid block.                             *)
LEMMA ReturnChange ==
  ASSUME NEW x \in ExecStates, NEW y, y = [Return(x) EXCEPT !.at = x.saved + 1]
  PROVE  /\ y \in ExecStates /\ y.list = "net" /\ y.at = x.saved + 1 /\ y.saved = 0
         /\ y.next = x.next /\ y.started = x.started /\ y.triggered = x.triggered
<1>1. /\ Return(x) \in ExecStates /\ Return(x).list = "net" /\ Return(x).saved = 0
      /\ Return(x).next = x.next /\ Return(x).started = x.started
      /\ Return(x).triggered = x.triggered
  BY DEF ExecStates, Return
<1>2. x.saved + 1 \in Nat
  BY DEF ExecStates
<1>3. ASSUME NEW r \in ExecStates, NEW n \in Nat, NEW z, z = [r EXCEPT !.at = n]
      PROVE  /\ z \in ExecStates /\ z.at = n /\ z.list = r.list /\ z.saved = r.saved
             /\ z.next = r.next /\ z.started = r.started /\ z.triggered = r.triggered
  BY <1>3 DEF ExecStates
<1> QED BY <1>1, <1>2, <1>3

(* Back to the hybrid block itself.                                        *)
LEMMA BackChange ==
  ASSUME NEW x \in ExecStates, NEW y, y = Return(x)
  PROVE  /\ y \in ExecStates /\ y.list = "net" /\ y.at = x.saved /\ y.saved = 0
         /\ y.started = x.started /\ y.triggered = x.triggered
BY DEF ExecStates, Return

(* An operator is inserted.                                                *)
LEMMA InsertChange ==
  ASSUME NEW x \in ExecStates, NEW op \in Ops, NEW y, y = Insert(x, op)
  PROVE  /\ y \in ExecStates /\ y.list = x.list /\ y.at = x.at /\ y.saved = x.saved
         /\ y.next = op /\ y.started = x.started /\ y.triggered = x.triggered
BY DEF ExecStates, Insert

-----------------------------------------------------------------------------
(* Steps of a thread *)

(* A step of thread t on instance i leaves the others alone, and the state *)
(* of the NPU's owner if that is not i.                                    *)
Local(t, i) ==
  /\ UNCHANGED parallel
  /\ \A s \in Threads \ {t} : pc'[s] = pc[s] /\ cur'[s] = cur[s]
  /\ \A j \in Inst \ {i} : exec'[j] = exec[j] /\ left'[j] = left[j]
  /\ UNCHANGED ownership \/ ReleaseAton \/ (owner' = i /\ lock' = IF parallel THEN t ELSE None)
  /\ owner \notin {i, None} => UNCHANGED <<owner, libWait, waitMask>>

(* What such a step must see to itself.                                    *)
Own(t, i) ==
  /\ pc'[t] # "ready" => cur'[t] = i
  /\ pc'[t] # "ready" \/ owner' = i => left'[i] > 0
  /\ exec'[i].list # "net" => exec'[i].saved # 0
  /\ exec'[i].next # None => exec'[i].list = "net" /\ IsHybrid(i, exec'[i].at)
  /\ exec'[i].saved # 0 => exec'[i].list # "net" /\ IsHybrid(i, exec'[i].saved)
  /\ exec'[i].started => pc'[t] \in InBlock
  /\ pc'[t] \in InBlock \ {"enter"} => exec'[i].started
  /\ exec'[i].next # None => pc'[t] \in {"end", "determine"}
  /\ pc'[t] = "acquire" => TakesAton(Current(i))'

(* It owns the NPU if and as long as it has to, and unmasks interrupts as  *)
(* the owner.                                                              *)
OwnsAsItMust(t, i) ==
  /\ owner' = i <=> exec'[i].list # "net" \/ exec'[i].next # None \/ Holds(t, i)'
  /\ owner \in {i, None} /\ waitMask' # {} => Unmasked(t)'

(* Then the invariant holds of the others too.                             *)
LEMMA OthersKeep ==
  ASSUME TypeOK, Protocol,
         NEW t \in Threads, NEW i \in Serves[t], cur[t] = i \/ pc[t] = "ready", left[i] > 0,
         Local(t, i), Own(t, i), OwnsAsItMust(t, i)
  PROVE  Protocol'
<1> USE DEF Local, Own, Protocol
<1>1. i \in Inst /\ i # None
  BY OneServer
<1>2. owner' \in {owner, i, None} /\ (owner \notin {i, None} => UNCHANGED ownership)
  BY DEF ReleaseAton, ownership
<1>3. ASSUME NEW s \in Threads \ {t}, NEW j \in Serves[s]
      PROVE  /\ j # i /\ j \in Inst /\ j # None /\ exec'[j] = exec[j] /\ left'[j] = left[j]
             /\ pc'[s] = pc[s] /\ cur'[s] = cur[s]
             /\ (owner = j => owner' = j /\ libWait' = libWait)
             /\ (owner' = j => owner = j)
  BY <1>1, <1>2, <1>3, OneServer
<1>4. ASSUME NEW j \in Serves[t], j # i
      PROVE  /\ j \in Inst /\ j # None /\ exec'[j] = exec[j] /\ left'[j] = left[j]
             /\ (owner = j <=> owner' = j)
             /\ (pc[t] # "ready" => cur[t] # j) /\ (pc'[t] # "ready" => cur'[t] # j)
  BY <1>1, <1>2, <1>4, OneServer
<1>5. Serving'
  BY <1>3 DEF Serving
<1>6. LibShape'
  <2>1. ASSUME NEW j \in Inst \ {i}
        PROVE  owner = j => owner' = j
    BY <1>2, <2>1, NamesAssumption DEF ownership
  <2>2. exec'[i].list # "net" \/ exec'[i].next # None => owner' = i
    BY DEF OwnsAsItMust
  <2> QED BY <1>1, <2>1, <2>2 DEF LibShape, IsHybrid
<1>7. Starts'
  <2>1. ASSUME NEW s \in Threads \ {t}
        PROVE  /\ pc'[s] \in InBlock \ {"enter"} => exec'[cur'[s]].started
               /\ \A j \in Serves'[s] : exec'[j].started => cur'[s] = j /\ pc'[s] \in InBlock
    BY <1>3, <2>1 DEF Serving, Starts, InBlock
  <2>2. /\ pc'[t] \in InBlock \ {"enter"} => exec'[cur'[t]].started
        /\ \A j \in Serves'[t] : exec'[j].started => cur'[t] = j /\ pc'[t] \in InBlock
    BY <1>1, <1>4 DEF Starts, InBlock
  <2> QED BY <2>1, <2>2 DEF Starts
<1>8. ASSUME NEW j \in Inst \ {i}
      PROVE  /\ TakesAton(Current(j))' = TakesAton(Current(j))
             /\ owner = j => Current(j)' = Current(j)
  <2>1. exec'[j] = exec[j] /\ (owner = j => libWait' = libWait)
    BY <1>8, NamesAssumption
  <2>2. CASE exec[j].list = "net"
    BY <2>1, <2>2 DEF TakesAton, Current, Block
  <2>3. CASE exec[j].list # "net"
    <3>1. Current(j).kind \in {"internal", "last"} /\ Current(j)'.kind \in {"internal", "last"}
      BY <2>1, <2>3 DEF Current, Block, LastEb
    <3> QED BY <2>1, <3>1 DEF TakesAton, Current, Block
  <2> QED BY <2>2, <2>3
<1>9. Owners'
  <2>1. ASSUME NEW s \in Threads \ {t}, NEW j \in Serves[s]
        PROVE  owner' = j <=> exec'[j].list # "net" \/ exec'[j].next # None \/ Holds(s, j)'
    BY <1>3, <1>8, <2>1 DEF Owners, Holds
  <2>2. ASSUME NEW s \in Threads \ {t}, pc'[s] = "acquire"
        PROVE  TakesAton(Current(cur[s]))' /\ cur'[s] = cur[s]
    BY <1>3, <1>8, <2>2 DEF Owners, Serving
  <2>3. ASSUME NEW j \in Serves[t], j # i
        PROVE  owner' = j <=> exec'[j].list # "net" \/ exec'[j].next # None \/ Holds(t, j)'
    BY <1>4, <2>3 DEF Owners, Holds
  <2> QED BY <2>1, <2>2, <2>3 DEF Owners, OwnsAsItMust
<1>10. Inserts'
  BY <1>3, <1>4 DEF Inserts
<1>11. Masks'
  <2> SUFFICES ASSUME waitMask' # {} PROVE \E s \in Threads : Unmasked(s)'
    BY DEF Masks
  <2>1. CASE owner \in {i, None}
    BY <2>1 DEF OwnsAsItMust
  <2>2. CASE owner \notin {i, None}
    <3>1. PICK s \in Threads : Unmasked(s)
      BY <2>2 DEF Masks
    <3>2. cur[s] \in Serves[s] /\ s # t
      BY <2>2, <3>1 DEF Unmasked, Serving
    <3>3. Unmasked(s)'
      BY <1>3, <1>8, <2>2, <3>1, <3>2 DEF Unmasked
    <3> QED BY <3>3
  <2> QED BY <2>1, <2>2
<1>12. Locks'
  BY <1>1, NamesAssumption DEF Locks, ReleaseAton, ownership
<1>13. Wanted'
  <2>1. t \in Users[parallel]
    BY DEF Wanted
  <2>2. owner' # None => left'[owner'] > 0
    BY <1>2 DEF Wanted, TypeOK
  <2>3. \A s \in Threads \ Users[parallel] : \A j \in Serves[s] : left'[j] = 0
    BY <1>3, <2>1 DEF Wanted
  <2> QED BY <2>2, <2>3 DEF Wanted
<1> QED BY <1>5, <1>6, <1>7, <1>9, <1>10, <1>11, <1>12, <1>13

(* A thread that is at another place has not unmasked anything.            *)
LEMMA MaskFacts ==
  ASSUME Protocol, waitMask # {}, NEW t \in Threads, NEW i \in Serves[t], owner \in {i, None}
  PROVE  Unmasked(t) /\ cur[t] = i
<1>1. PICK s \in Threads : Unmasked(s)
  BY DEF Protocol, Masks
<1>2. cur[s] \in Serves[s]
  BY <1>1 DEF Protocol, Serving, Unmasked
<1> QED BY <1>1, <1>2, OneServer DEF Unmasked

(* A thread that is not waiting for the NPU does not disturb it.           *)
LEMMA HardwareKeeps ==
  ASSUME Serving, Hardware,
         NEW t \in Threads, NEW i \in Serves[t], Aside(t), Local(t, i),
         exec'[i].triggered \subseteq exec[i].triggered,
         pc'[t] \notin {"wfe", "clear"}, pc'[t] = "enter" => cur'[t] = i /\ ~exec'[i].started,
         cur[t] = i \/ pc[t] = "ready",
         UNCHANGED <<npuVars, isrVars, wfeSem>>
  PROVE  Hardware'
<1> USE DEF npuVars, isrVars
<1>1. i \in Inst /\ i # None
  BY OneServer
<1>2. ASSUME NEW s \in Threads \ {t}, pc[s] # "ready"
      PROVE  /\ cur[s] \in Inst \ {i, None} /\ pc'[s] = pc[s] /\ cur'[s] = cur[s]
             /\ exec'[cur[s]] = exec[cur[s]]
  BY <1>2, OneServer DEF Local, Serving
<1>3. ASSUME NEW s \in Threads, Aside(s)
      PROVE  Aside(s)'
  <2>1. CASE s = t
    BY <2>1 DEF Aside
  <2>2. CASE s # t /\ pc[s] # "ready"
    BY <1>2, <1>3, <2>2 DEF Aside
  <2>3. CASE s # t /\ pc[s] = "ready"
    BY <2>3 DEF Aside, Local
  <2> QED BY <2>1, <2>2, <2>3
<1>4. CASE AtRest
  <2>1. \A j \in Inst : exec'[j].triggered = {}
    BY <1>1, <1>4 DEF AtRest, Local
  <2> QED BY <1>3, <1>4, <2>1 DEF AtRest, Hardware, NoInterrupt
<1>5. ASSUME NEW s \in Threads, InUse(s)
      PROVE  Hardware'
  <2>1. s # t /\ pc[s] # "ready" /\ owner = cur[s]
    BY <1>5 DEF InUse, Aside
  <2>2. /\ cur[s] \in Inst \ {i, None} /\ pc'[s] = pc[s] /\ cur'[s] = cur[s]
        /\ exec'[cur[s]] = exec[cur[s]] /\ UNCHANGED <<owner, libWait, waitMask>>
    BY <1>2, <2>1 DEF Local
  <2>3. Current(cur[s])' = Current(cur[s])
    BY <2>2 DEF Current, Block
  <2>4. \A j \in Inst \ {cur[s]} : exec'[j].triggered = {}
    BY <1>1, <1>5, <2>2 DEF InUse, Local
  <2>5. \A u \in Threads \ {s} : Aside(u)'
    BY <1>3, <1>5 DEF InUse
  <2>6. InUse(s)'
    BY <1>5, <2>2, <2>3, <2>4, <2>5
       DEF InUse, AtWork, Handled, Recorded, NoInterrupt, Units, WaitOf
  <2> QED BY <2>6 DEF Hardware
<1> QED BY <1>4, <1>5 DEF Hardware

(* A thread inside the runtime serves the instance it works on.            *)
LEMMA AtServed ==
  ASSUME TypeOK, Serving, NEW t \in Threads, pc[t] # "ready"
  PROVE  /\ cur[t] \in Serves[t] /\ cur[t] \in Inst /\ cur[t] # None
         /\ left[cur[t]] > 0 /\ left[cur[t]] \in Nat
         /\ exec[cur[t]] \in ExecStates
BY OneServer, InferencesAssumption DEF Serving, TypeOK

(* The user calls the runtime: nothing is started.                         *)
LEMMA CallKeeps ==
  ASSUME Invariant, NEW t \in Threads, NEW i \in Serves[t], Call(t, i), UNCHANGED parallel
  PROVE  Invariant'
<1> USE DEF Invariant, Protocol, Call, Goto, ownership, libVars
<1>1. i \in Inst /\ i # None
  BY OneServer
<1>2. TypeOK'
  BY <1>1 DEF TypeOK, PCs, npuVars, isrVars
<1>3. Local(t, i)
  BY DEF Local, TypeOK
<1>4. ~exec[i].started
  BY DEF Starts, InBlock
<1>5. Own(t, i)
  BY <1>1, <1>4 DEF Own, TypeOK, LibShape, InBlock, Inserts
<1>6. OwnsAsItMust(t, i)
  BY <1>1, <1>4, MaskFacts DEF OwnsAsItMust, Owners, Holds, Unmasked, TypeOK
<1>7. Hardware'
  BY <1>1, <1>3, <1>4, HardwareKeeps DEF TypeOK, Aside
<1> QED BY <1>2, <1>3, <1>5, <1>6, <1>7, OthersKeep

(* A call that finds no block to wait for.                                 *)
LEMMA EnterAsideKeeps ==
  ASSUME Invariant, NEW t \in Threads, Enter(t, cur[t]), Aside(t), UNCHANGED parallel
  PROVE  Invariant'
<1> DEFINE i == cur[t]
<1> USE DEF Invariant, Protocol, Enter, Goto, ownership, libVars
<1>1. i \in Serves[t] /\ i \in Inst /\ i # None /\ left[i] > 0 /\ exec[i] \in ExecStates
  BY AtServed
<1>2. ~exec[i].started /\ pc' = [pc EXCEPT ![t] = "next?"]
      /\ exec' = [exec EXCEPT ![i].inferring = TRUE]
  BY DEF Aside
<1>3. /\ exec'[i] \in ExecStates /\ SamePlace(exec[i], exec'[i]) /\ ~exec'[i].started
      /\ exec'[i].triggered = exec[i].triggered
  BY <1>1, <1>2, InferringChange DEF TypeOK
<1>4. TypeOK'
  BY <1>1, <1>2, <1>3 DEF TypeOK, PCs, npuVars, isrVars
<1>5. Local(t, i)
  BY <1>1, <1>2 DEF Local, TypeOK
<1>6. Own(t, i)
  BY <1>1, <1>2, <1>3 DEF Own, TypeOK, LibShape, InBlock, SamePlace, Inserts
<1>7. OwnsAsItMust(t, i)
  BY <1>1, <1>2, <1>3, MaskFacts DEF OwnsAsItMust, Owners, Holds, Unmasked, Inserts, SamePlace, TypeOK
<1>8. Hardware'
  BY <1>1, <1>2, <1>3, <1>5, HardwareKeeps DEF TypeOK
<1> QED BY <1>1, <1>4, <1>5, <1>6, <1>7, <1>8, OthersKeep

(* On to the next block, or into the inserted ones.                        *)
LEMMA DetermineKeeps ==
  ASSUME Invariant, NEW t \in Threads, Determine(t, cur[t]), UNCHANGED parallel
  PROVE  Invariant'
<1> DEFINE i == cur[t]
<1> USE DEF Invariant, Protocol, Determine, Goto, ownership, libVars
<1>1. i \in Serves[t] /\ i \in Inst /\ i # None /\ left[i] > 0 /\ exec[i] \in ExecStates
  BY AtServed
<1>2. /\ pc[t] = "determine" /\ pc' \in [Threads -> PCs] /\ pc'[t] \in {"next?", "ready"}
      /\ \A s \in Threads \ {t} : pc'[s] = pc[s]
  BY DEF TypeOK, PCs
<1>3. CASE exec[i].next # None
  <2>1. exec'[i] = [exec[i] EXCEPT !.saved = exec[i].at, !.list = exec[i].next, !.at = 1,
                                   !.next = None, !.started = FALSE]
        /\ \A j \in Inst \ {i} : exec'[j] = exec[j]
    BY <1>1, <1>3 DEF TypeOK
  <2>2. exec[i].at # 0 /\ owner = i /\ IsHybrid(i, exec[i].at) /\ exec[i].next \in Ops
    <3>1. DOMAIN Network[i] \subseteq Nat \ {0}
      BY <1>1, NetworkAssumption
    <3> QED BY <1>1, <1>3, <3>1 DEF LibShape, IsHybrid, ExecStates
  <2>3. /\ exec'[i] \in ExecStates /\ exec'[i].list = exec[i].next /\ exec'[i].at = 1
        /\ exec'[i].next = None /\ exec'[i].saved = exec[i].at /\ ~exec'[i].started
        /\ exec'[i].triggered = exec[i].triggered
    BY <1>1, <2>1, <2>2, IntoChange
  <2>4. TypeOK'
    BY <1>1, <1>2, <1>3, <2>3 DEF TypeOK, npuVars, isrVars
  <2>5. Local(t, i)
    BY <1>2, <2>1 DEF Local, TypeOK
  <2>6. Own(t, i)
    BY <1>1, <1>2, <2>2, <2>3, NamesAssumption DEF Own, InBlock
  <2>7. OwnsAsItMust(t, i)
    BY <1>1, <1>2, <2>2, <2>3, NamesAssumption, MaskFacts DEF OwnsAsItMust, Unmasked
  <2>8. Hardware'
    BY <1>1, <1>2, <2>3, <2>5, HardwareKeeps DEF Aside
  <2> QED BY <1>1, <2>4, <2>5, <2>6, <2>7, <2>8, OthersKeep
<1>4. CASE exec[i].next = None
  <2>1. exec'[i] = [exec[i] EXCEPT !.at = exec[i].at + 1, !.started = FALSE]
        /\ \A j \in Inst \ {i} : exec'[j] = exec[j]
    BY <1>1, <1>4 DEF TypeOK
  <2>2. /\ exec'[i] \in ExecStates /\ exec'[i].list = exec[i].list
        /\ exec'[i].next = None /\ exec'[i].saved = exec[i].saved /\ ~exec'[i].started
        /\ exec'[i].triggered = exec[i].triggered
    BY <1>1, <1>4, <2>1, OnChange
  <2>3. TypeOK'
    BY <1>1, <1>2, <1>4, <2>2 DEF TypeOK, npuVars, isrVars
  <2>4. Local(t, i)
    BY <1>2, <2>1 DEF Local, TypeOK
  <2>5. Own(t, i)
    BY <1>1, <1>2, <2>2 DEF Own, LibShape, InBlock
  <2>6. OwnsAsItMust(t, i)
    BY <1>1, <1>2, <1>4, <2>2, MaskFacts DEF OwnsAsItMust, Owners, Holds, Unmasked
  <2>7. Hardware'
    BY <1>1, <1>2, <2>2, <2>4, HardwareKeeps DEF Aside
  <2> QED BY <1>1, <2>3, <2>4, <2>5, <2>6, <2>7, OthersKeep
<1> QED BY <1>3, <1>4

(* The end of the inserted blocks gives the NPU back.                      *)
LEMMA LeaveLibKeeps ==
  ASSUME Invariant, NEW t \in Threads, LeaveLib(t, cur[t]), UNCHANGED parallel
  PROVE  Invariant'
<1> DEFINE i == cur[t]
<1> USE DEF Invariant, Protocol, LeaveLib, Goto, libVars, ReleaseAton
<1>1. i \in Serves[t] /\ i \in Inst /\ i # None /\ left[i] > 0 /\ exec[i] \in ExecStates
  BY AtServed
<1>2. /\ pc[t] = "next?" /\ pc' \in [Threads -> PCs] /\ pc'[t] = "ready"
      /\ \A s \in Threads \ {t} : pc'[s] = pc[s]
  BY DEF TypeOK, PCs
<1>3. /\ exec'[i] = [Return(exec[i]) EXCEPT !.at = exec[i].saved + 1]
      /\ \A j \in Inst \ {i} : exec'[j] = exec[j]
  BY <1>1 DEF TypeOK
<1>4. /\ exec'[i] \in ExecStates /\ exec'[i].list = "net" /\ exec'[i].saved = 0
      /\ exec'[i].next = exec[i].next /\ exec'[i].started = exec[i].started
      /\ exec'[i].triggered = exec[i].triggered
  BY <1>1, <1>3, ReturnChange
<1>5. TypeOK'
  BY <1>1, <1>2, <1>4 DEF TypeOK, npuVars, isrVars
<1>6. Local(t, i)
  BY <1>2, <1>3 DEF Local, TypeOK, ownership
<1>7. ~exec[i].started /\ exec[i].next = None /\ owner = i
  BY <1>1, <1>2 DEF Starts, InBlock
<1>8. Own(t, i)
  BY <1>1, <1>2, <1>4, <1>7 DEF Own, InBlock
<1>9. OwnsAsItMust(t, i)
  BY <1>1, <1>2, <1>4, <1>7 DEF OwnsAsItMust, Holds
<1>10. Hardware'
  BY <1>1, <1>2, <1>4, <1>6, HardwareKeeps DEF Aside
<1> QED BY <1>1, <1>5, <1>6, <1>8, <1>9, <1>10, OthersKeep

(* The end of the network, or a pause between two blocks.                  *)
LEMMA FinishPauseKeeps ==
  ASSUME Invariant, NEW t \in Threads, Finish(t, cur[t]) \/ Pause(t, cur[t]), UNCHANGED parallel
  PROVE  Invariant'
<1> DEFINE i == cur[t]
<1> USE DEF Invariant, Protocol, Finish, Pause, Goto, ownership, libVars
<1>1. i \in Serves[t] /\ i \in Inst /\ i # None /\ left[i] > 0 /\ exec[i] \in ExecStates
  BY AtServed
<1>2. /\ pc[t] = "next?" /\ pc' \in [Threads -> PCs] /\ pc'[t] \in {"ready", "done"}
      /\ \A s \in Threads \ {t} : pc'[s] = pc[s]
  BY DEF TypeOK, PCs
<1>3. TypeOK'
  BY <1>2 DEF TypeOK, npuVars, isrVars
<1>4. Local(t, i)
  BY <1>2 DEF Local, TypeOK
<1>5. ~exec[i].started
  BY <1>1, <1>2 DEF Starts, InBlock
<1>6. Own(t, i)
  BY <1>1, <1>2, <1>5 DEF Own, LibShape, InBlock, Inserts
<1>7. OwnsAsItMust(t, i)
  BY <1>1, <1>2, <1>5, MaskFacts DEF OwnsAsItMust, Owners, Holds, Unmasked
<1>8. Hardware'
  BY <1>1, <1>2, <1>4, HardwareKeeps DEF Aside
<1> QED BY <1>1, <1>3, <1>4, <1>6, <1>7, <1>8, OthersKeep

(* A block starts; if it takes the NPU it waits for it first.              *)
LEMMA StartKeeps ==
  ASSUME Invariant, NEW t \in Threads, Start(t, cur[t]), UNCHANGED parallel
  PROVE  Invariant'
<1> DEFINE i == cur[t]
<1> USE DEF Invariant, Protocol, Start, Goto, ownership, libVars
<1>1. i \in Serves[t] /\ i \in Inst /\ i # None /\ left[i] > 0 /\ exec[i] \in ExecStates
  BY AtServed
<1>2. /\ pc[t] = "next?" /\ pc' \in [Threads -> PCs] /\ pc'[t] \in {"acquire", "launch"}
      /\ \A s \in Threads \ {t} : pc'[s] = pc[s]
  BY DEF TypeOK, PCs
<1>3. /\ exec'[i] \in ExecStates /\ SamePlace(exec[i], exec'[i]) /\ exec'[i].started
      /\ exec'[i].triggered = exec[i].triggered
      /\ \A j \in Inst \ {i} : exec'[j] = exec[j]
  BY <1>1, StartChange DEF TypeOK
<1>4. TypeOK'
  BY <1>1, <1>2, <1>3 DEF TypeOK, npuVars, isrVars
<1>5. Local(t, i)
  BY <1>2, <1>3 DEF Local, TypeOK
<1>6. Current(i)' = Current(i) /\ (pc'[t] = "acquire" <=> TakesAton(Current(i)))
  BY <1>2, <1>3 DEF Current, Block, SamePlace, TypeOK
<1>7. Own(t, i)
  BY <1>1, <1>2, <1>3, <1>6 DEF Own, LibShape, InBlock, SamePlace, Inserts, TakesAton
<1>8. OwnsAsItMust(t, i)
  BY <1>1, <1>2, <1>3, <1>6, MaskFacts
     DEF OwnsAsItMust, Owners, Holds, Unmasked, SamePlace, TakesAton
<1>9. Hardware'
  BY <1>1, <1>2, <1>3, <1>5, HardwareKeeps DEF Aside
<1> QED BY <1>1, <1>4, <1>5, <1>7, <1>8, <1>9, OthersKeep

(* The NPU is taken from nobody.                                           *)
LEMMA AcquireKeeps ==
  ASSUME Invariant, NEW t \in Threads, Acquire(t, cur[t]), UNCHANGED parallel
  PROVE  Invariant'
<1> DEFINE i == cur[t]
<1> USE DEF Invariant, Protocol, Acquire, Goto, libVars
<1>1. i \in Serves[t] /\ i \in Inst /\ i # None /\ left[i] > 0 /\ exec[i] \in ExecStates
  BY AtServed
<1>2. /\ pc[t] = "acquire" /\ pc' \in [Threads -> PCs] /\ pc'[t] = "launch"
      /\ \A s \in Threads \ {t} : pc'[s] = pc[s]
  BY DEF TypeOK, PCs
<1>3. owner = None /\ owner' = i
  BY DEF AcquireAsserts
<1>4. TypeOK'
  BY <1>1, <1>2, <1>3 DEF TypeOK, npuVars, isrVars
<1>5. Local(t, i)
  BY <1>2, <1>3 DEF Local, TypeOK
<1>6. Own(t, i)
  BY <1>1, <1>2, <1>3 DEF Own, LibShape, Starts, InBlock, Inserts
<1>7. OwnsAsItMust(t, i)
  <2>1. Current(i)' = Current(i)
    BY DEF Current, Block
  <2>2. TakesAton(Current(i)) /\ exec[i].started
    BY <1>2 DEF Owners, Starts, InBlock
  <2>3. waitMask = {}
    BY DEF AcquireAsserts
  <2> QED BY <1>2, <1>3, <2>1, <2>2, <2>3 DEF OwnsAsItMust, Holds, TakesAton
<1>8. Hardware'
  BY <1>1, <1>2, <1>5, HardwareKeeps DEF Aside
<1> QED BY <1>1, <1>4, <1>5, <1>6, <1>7, <1>8, OthersKeep

(* A network is reset between two blocks or at its end.                    *)
LEMMA ResetKeeps ==
  ASSUME Invariant, NEW t \in Threads, NEW i \in Serves[t], Reset(i), UNCHANGED <<cur, parallel>>,
         left[i] > 0, pc' = [pc EXCEPT ![t] = "ready"], pc[t] = "ready" \/ (pc[t] = "done" /\ cur[t] = i)
  PROVE  Invariant'
<1> USE DEF Invariant, Protocol, Reset, ownership, libVars, ReleaseAton
<1>1. i \in Inst /\ i # None /\ exec[i] \in ExecStates /\ left[i] \in Nat
  BY OneServer, InferencesAssumption DEF TypeOK
<1>2. pc' \in [Threads -> PCs] /\ pc'[t] = "ready" /\ \A s \in Threads \ {t} : pc'[s] = pc[s]
  BY DEF TypeOK, PCs
<1>3. exec'[i] = InitExec /\ \A j \in Inst \ {i} : exec'[j] = exec[j]
  BY <1>1 DEF TypeOK
<1>4. InitExec \in ExecStates /\ InitExec.list = "net" /\ InitExec.next = None
      /\ InitExec.saved = 0 /\ ~InitExec.started /\ InitExec.triggered = {}
  BY DEF InitExec, ExecStates
<1>5. left' \in [Inst -> 0..Inferences] /\ \A j \in Inst \ {i} : left'[j] = left[j]
  BY <1>1, InferencesAssumption DEF TypeOK
<1>6. TypeOK'
  BY <1>1, <1>2, <1>3, <1>4, <1>5 DEF TypeOK, npuVars, isrVars
<1>7. Local(t, i)
  BY <1>2, <1>3, <1>5 DEF Local
<1>8. Own(t, i)
  BY <1>1, <1>2, <1>3, <1>4 DEF Own, InBlock
<1>9. OwnsAsItMust(t, i)
  <2>1. waitMask = {} \/ owner \notin {i, None}
    BY MaskFacts DEF ResetAsserts, Unmasked
  <2> QED BY <1>1, <1>2, <1>3, <1>4, <2>1 DEF OwnsAsItMust, Holds
<1>10. Hardware'
  BY <1>2, <1>3, <1>4, <1>7, HardwareKeeps DEF Aside
<1> QED BY <1>6, <1>7, <1>8, <1>9, <1>10, OthersKeep

-----------------------------------------------------------------------------
(* Steps of the thread that waits for the NPU *)

(* A thread that waits for the NPU uses it.                                *)
LEMMA WaiterUses ==
  ASSUME Hardware, NEW t \in Threads, ~Aside(t)
  PROVE  InUse(t)
BY DEF Hardware, AtRest, InUse

(* Whoever owns the NPU and does not wait for it finds it at rest.         *)
LEMMA OwnerFindsRest ==
  ASSUME Serving, Hardware, NEW t \in Threads, Aside(t), NEW i \in Serves[t], owner = i
  PROVE  AtRest
<1> SUFFICES ASSUME NEW s \in Threads, InUse(s) PROVE FALSE
  BY DEF Hardware
<1>1. s # t /\ pc[s] # "ready" /\ cur[s] = i
  BY DEF InUse, Aside
<1> QED BY <1>1, OneServer DEF Serving

(* A step of one thread does not make another one wait.                    *)
LEMMA OthersAside ==
  ASSUME Serving, NEW t \in Threads, NEW i \in Serves[t], Local(t, i),
         NEW s \in Threads \ {t}, Aside(s)
  PROVE  Aside(s)'
<1>1. CASE pc[s] = "ready"
  BY <1>1 DEF Aside, Local
<1>2. CASE pc[s] # "ready"
  <2>1. cur[s] \in Inst \ {i} /\ pc'[s] = pc[s] /\ cur'[s] = cur[s] /\ exec'[cur[s]] = exec[cur[s]]
    BY <1>2, OneServer DEF Serving, Local
  <2> QED BY <2>1 DEF Aside
<1> QED BY <1>1, <1>2

(* The thread was woken: it finds its event.                               *)
LEMMA EnterUsingKeeps ==
  ASSUME Invariant, NEW t \in Threads, Enter(t, cur[t]), ~Aside(t), UNCHANGED parallel
  PROVE  Invariant'
<1> DEFINE i == cur[t]
<1> USE DEF Invariant, Protocol, Enter, Goto, ownership, libVars
<1>1. i \in Serves[t] /\ i \in Inst /\ i # None /\ left[i] > 0 /\ exec[i] \in ExecStates
  BY AtServed
<1>2. /\ InUse(t) /\ pc[t] = "enter" /\ owner = i /\ exec[i].started
      /\ NoInterrupt /\ wfeSem = 0 /\ exec[i].triggered = WaitOf(Current(i))
  BY WaiterUses DEF InUse
<1>3. WaitOf(Current(i)) # {} /\ Units(Current(i)) # {}
  BY <1>1, <1>2, UnitsFacts DEF InUse
<1>4. pc' = [pc EXCEPT ![t] = "clear"]
  BY <1>2, <1>3
<1>5. /\ exec'[i] \in ExecStates /\ SamePlace(exec[i], exec'[i]) /\ exec'[i].started
      /\ exec'[i].triggered = exec[i].triggered
      /\ \A j \in Inst \ {i} : exec'[j] = exec[j]
  BY <1>1, <1>2, InferringChange DEF TypeOK
<1>6. TypeOK'
  BY <1>1, <1>4, <1>5 DEF TypeOK, PCs, npuVars, isrVars
<1>7. Local(t, i)
  BY <1>1, <1>4, <1>5 DEF Local, TypeOK
<1>8. Own(t, i)
  BY <1>1, <1>4, <1>5 DEF Own, TypeOK, LibShape, InBlock, SamePlace, Inserts
<1>9. OwnsAsItMust(t, i)
  <2>1. Current(i)' = Current(i)
    BY <1>5 DEF Current, Block, SamePlace
  <2> QED BY <1>1, <1>2, <1>4, <1>5, <2>1, MaskFacts
        DEF OwnsAsItMust, Owners, Holds, Unmasked, Inserts, SamePlace, TakesAton, SetsMask, TypeOK
<1>10. Hardware'
  <2>1. Current(i)' = Current(i)
    BY <1>5 DEF Current, Block, SamePlace
  <2>2. \A s \in Threads \ {t} : Aside(s)'
    BY <1>1, <1>2, <1>7, OthersAside DEF InUse
  <2>3. pc'[t] = "clear" /\ cur'[t] = i /\ owner' = i /\ wfeSem' = 0
    BY <1>2, <1>4 DEF TypeOK
  <2>4. NoInterrupt' /\ exec'[i].triggered = WaitOf(Current(i))'
    BY <1>2, <1>5, <2>1 DEF NoInterrupt, npuVars, isrVars, WaitOf
  <2>5. \A j \in Inst \ {i} : exec'[j].triggered = {}
    BY <1>2, <1>5 DEF InUse
  <2>6. Units(Current(i))' # {}
    BY <1>3, <2>1 DEF Units
  <2>7. InUse(t)'
    BY <1>5, <2>2, <2>3, <2>4, <2>5, <2>6 DEF InUse
  <2> QED BY <2>7 DEF Hardware
<1> QED BY <1>1, <1>6, <1>7, <1>8, <1>9, <1>10, OthersKeep

(* The event is taken: the NPU is at rest.                                 *)
LEMMA ClearKeeps ==
  ASSUME Invariant, NEW t \in Threads, Clear(t, cur[t]), UNCHANGED parallel
  PROVE  Invariant'
<1> DEFINE i == cur[t]
<1> USE DEF Invariant, Protocol, Clear, Goto, ownership, libVars
<1>1. i \in Serves[t] /\ i \in Inst /\ i # None /\ left[i] > 0 /\ exec[i] \in ExecStates
  BY AtServed
<1>2. ~Aside(t) /\ pc[t] = "clear"
  BY DEF Aside
<1>3. /\ InUse(t) /\ owner = i /\ exec[i].started
      /\ NoInterrupt /\ wfeSem = 0 /\ exec[i].triggered = WaitOf(Current(i))
  BY <1>2, WaiterUses DEF InUse
<1>4. /\ pc' \in [Threads -> PCs] /\ pc'[t] = "end" /\ \A s \in Threads \ {t} : pc'[s] = pc[s]
  BY DEF TypeOK, PCs
<1>5. exec'[i] = [exec[i] EXCEPT !.triggered = exec[i].triggered \ WaitOf(Current(i))]
      /\ \A j \in Inst \ {i} : exec'[j] = exec[j]
  BY <1>1 DEF TypeOK
<1>6. /\ exec'[i] \in ExecStates /\ SamePlace(exec[i], exec'[i]) /\ exec'[i].started
      /\ exec'[i].triggered = {}
  <2>1. exec[i].triggered \ WaitOf(Current(i)) = {}
    BY <1>3
  <2>2. exec'[i] = [exec[i] EXCEPT !.triggered = {}] /\ {} \in SUBSET Engines
    BY <1>5, <2>1
  <2> QED BY <1>1, <1>3, <2>2, EventChange
<1>7. TypeOK'
  BY <1>1, <1>4, <1>6 DEF TypeOK, PCs, npuVars, isrVars
<1>8. Local(t, i)
  BY <1>1, <1>4, <1>5 DEF Local, TypeOK
<1>9. Own(t, i)
  BY <1>1, <1>3, <1>4, <1>6 DEF Own, TypeOK, LibShape, InBlock, SamePlace, Inserts
<1>10. OwnsAsItMust(t, i)
  <2>1. Current(i)' = Current(i)
    BY <1>6 DEF Current, Block, SamePlace
  <2> QED BY <1>1, <1>2, <1>3, <1>4, <1>6, <2>1, MaskFacts
        DEF OwnsAsItMust, Owners, Holds, Unmasked, Inserts, SamePlace, TakesAton, SetsMask
<1>11. Hardware'
  <2>1. \A s \in Threads \ {t} : Aside(s)'
    BY <1>1, <1>3, <1>8, OthersAside DEF InUse
  <2>2. \A j \in Inst : exec'[j].triggered = {}
    BY <1>3, <1>5, <1>6 DEF InUse
  <2>3. AtRest'
    BY <1>3, <1>4, <2>1, <2>2 DEF AtRest, NoInterrupt, Aside, npuVars, isrVars
  <2> QED BY <2>3 DEF Hardware
<1> QED BY <1>1, <1>7, <1>8, <1>9, <1>10, <1>11, OthersKeep

(* The thread is woken.                                                    *)
LEMMA WfeKeeps ==
  ASSUME Invariant, NEW t \in Threads, Wfe(t, cur[t]), UNCHANGED parallel
  PROVE  Invariant'
<1> DEFINE i == cur[t]
<1> USE DEF Invariant, Protocol, Wfe, Goto, ownership, libVars
<1>1. i \in Serves[t] /\ i \in Inst /\ i # None /\ left[i] > 0 /\ exec[i] \in ExecStates
  BY AtServed
<1>2. ~Aside(t) /\ pc[t] = "wfe"
  BY DEF Aside
<1>3. /\ InUse(t) /\ owner = i /\ exec[i].started
      /\ NoInterrupt /\ wfeSem = 1 /\ exec[i].triggered = WaitOf(Current(i))
  <2>1. InUse(t) /\ wfeSem # 0
    BY <1>2, WaiterUses
  <2> QED BY <1>2, <2>1 DEF InUse
<1>4. pc' \in [Threads -> PCs] /\ pc'[t] = "enter" /\ \A s \in Threads \ {t} : pc'[s] = pc[s]
  BY DEF TypeOK, PCs
<1>5. TypeOK'
  BY <1>3, <1>4 DEF TypeOK, npuVars, isrVars
<1>6. Local(t, i)
  BY <1>4 DEF Local
<1>7. Own(t, i)
  BY <1>1, <1>3, <1>4 DEF Own, LibShape, InBlock, Inserts
<1>8. OwnsAsItMust(t, i)
  <2>1. Current(i)' = Current(i)
    BY DEF Current, Block
  <2> QED BY <1>1, <1>2, <1>3, <1>4, <2>1, MaskFacts
        DEF OwnsAsItMust, Owners, Holds, Unmasked, Inserts, TakesAton, SetsMask
<1>9. Hardware'
  <2>1. Current(i)' = Current(i)
    BY DEF Current, Block
  <2>2. \A s \in Threads \ {t} : Aside(s)'
    BY <1>1, <1>3, <1>6, OthersAside DEF InUse
  <2>3. cur'[t] = i /\ owner' = i /\ wfeSem' = 0
    BY <1>3
  <2>4. NoInterrupt' /\ exec'[i].triggered = WaitOf(Current(i))' /\ Units(Current(i))' # {}
    BY <1>3, <2>1 DEF InUse, NoInterrupt, npuVars, isrVars, WaitOf, Units
  <2>5. InUse(t)'
    BY <1>3, <1>4, <2>2, <2>3, <2>4 DEF InUse
  <2> QED BY <2>5 DEF Hardware
<1> QED BY <1>1, <1>5, <1>6, <1>7, <1>8, <1>9, OthersKeep

-----------------------------------------------------------------------------
(* The end and the start of a block *)

(* What the end function of an inserted block leaves of the execution      *)
(* state: still in the inserted blocks, or back, with a follow-up or none. *)
LEMMA LibEndFacts ==
  ASSUME TypeOK, LibShape, NEW i \in Inst, Current(i).kind = "internal"
  PROVE  LET x == exec[i]
             y == LibEnd(x, Current(i).op)
         IN  /\ y \in ExecStates /\ y.started = x.started /\ y.triggered = x.triggered
             /\ y.saved # 0 => y.saved = x.saved /\ y.next = None /\ y.list = x.list
             /\ y.saved = 0 => y.list = "net" /\ IsHybrid(i, y.at)
<1> DEFINE x == exec[i]
           op == Current(i).op
<1>1. /\ x \in ExecStates /\ op = x.list /\ op \in Ops /\ x.list # "net" /\ x.at = 1
  BY BlockFacts DEF TypeOK
<1>2. x.saved # 0 /\ x.next = None /\ IsHybrid(i, x.saved)
  BY <1>1 DEF LibShape
<1>3. Lib[op].then \in {"last", "back"} \cup Ops
  BY <1>1, LibAssumption
<1> HIDE DEF x, op
<1>4. CASE libIdx < Len(Lib[op].rounds)
  <2>1. LibEnd(x, op) = [x EXCEPT !.at = 0]
    BY <1>1, <1>4 DEF LibEnd
  <2> QED BY <1>1, <1>2, <2>1 DEF ExecStates, x, op
<1>5. CASE ~(libIdx < Len(Lib[op].rounds)) /\ Lib[op].then = "last"
  <2>1. LibEnd(x, op) = x
    BY <1>5 DEF LibEnd
  <2> QED BY <1>1, <1>2, <2>1 DEF x, op
<1>6. CASE ~(libIdx < Len(Lib[op].rounds)) /\ Lib[op].then = "back"
  <2>1. LibEnd(x, op) = Return(x)
    BY <1>6 DEF LibEnd
  <2>2. LET y == LibEnd(x, op)
        IN  /\ y \in ExecStates /\ y.started = x.started /\ y.triggered = x.triggered
            /\ y.saved = 0 /\ y.list = "net" /\ y.at = x.saved
    BY <1>1, <2>1, BackChange
  <2> QED BY <1>2, <2>2 DEF x, op
<1>7. CASE ~(libIdx < Len(Lib[op].rounds)) /\ Lib[op].then \in Ops
  <2>1. LibEnd(x, op) = Insert(Return(x), Lib[op].then)
    BY <1>7, NamesAssumption DEF LibEnd
  <2>2. LET y == LibEnd(x, op)
        IN  /\ y \in ExecStates /\ y.started = x.started /\ y.triggered = x.triggered
            /\ y.saved = 0 /\ y.list = "net" /\ y.at = x.saved
    BY <1>1, <1>7, <2>1, BackChange, InsertChange
  <2> QED BY <1>2, <2>2 DEF x, op
<1> QED BY <1>3, <1>4, <1>5, <1>6, <1>7 DEF x, op

(* The static state of the operators stays what it is declared to be.      *)
LEMMA LibStateFacts ==
  ASSUME TypeOK, NEW op \in Ops
  PROVE  LibMasksAfter(op) \in [Ops -> SUBSET Engines] /\ LibIdxAfter(op) \in Nat
<1>1. \A o \in Ops : {Lib[o].dma} \in SUBSET Engines
  BY LibAssumption
<1> QED BY <1>1 DEF LibMasksAfter, LibIdxAfter, Prepared, TypeOK

(* A block ends: what it worked with is at rest, and the NPU goes back     *)
(* unless blocks are still to be inserted or under way.                    *)
LEMMA EndKeeps ==
  ASSUME Invariant, NEW t \in Threads, End(t, cur[t]), UNCHANGED parallel
  PROVE  Invariant'
<1> DEFINE i == cur[t]
           b == Current(i)
           x == IF b.kind = "internal" THEN LibEnd(exec[i], b.op) ELSE exec[i]
<1> USE DEF Invariant, Protocol
<1>1. i \in Serves[t] /\ i \in Inst /\ i # None /\ left[i] > 0 /\ exec[i] \in ExecStates
  <2>1. pc[t] # "ready"
    BY DEF End
  <2> QED BY <2>1, AtServed
<1>2. /\ pc[t] = "end" /\ pc' \in [Threads -> PCs] /\ pc'[t] = "determine"
      /\ \A s \in Threads \ {t} : pc'[s] = pc[s]
      /\ EndAsserts(i)
      /\ UNCHANGED <<cur, ended, left, src, intreg, isrVars, wfeSem>>
  BY DEF End, Goto, TypeOK, PCs
<1>3. /\ running' = running \ Units(b)
      /\ exec' = [exec EXCEPT ![i] = x]
      /\ libWait' = IF b.kind = "internal" THEN LibMasksAfter(b.op) ELSE libWait
      /\ libIdx' = IF b.kind = "internal" THEN LibIdxAfter(b.op) ELSE libIdx
      /\ waitMask' = IF SetsMask(b) THEN {} ELSE waitMask
      /\ IF GivesAton(b, x) THEN ReleaseAton ELSE UNCHANGED ownership
  BY DEF End
<1>4. /\ b.kind \in {"hw", "sw", "hybrid", "internal", "last"}
      /\ b.kind = "internal" => exec[i].list # "net" /\ b.op \in Ops
      /\ b.kind \in {"hw", "sw", "hybrid"} =>
           exec[i].list = "net" /\ (IsHybrid(i, exec[i].at) => b.kind = "hybrid")
  BY <1>1, BlockFacts DEF IsHybrid
<1>5. exec[i].started
  BY <1>2 DEF Starts, InBlock
<1>6. /\ SetsMask(b) => owner = i
      /\ GivesAton(b, x) => owner = i
      /\ SetsMask(b) <=> b.kind \in {"hw", "internal"}
  BY <1>2 DEF EndAsserts, SetsMask, GivesAton
<1>7. x \in ExecStates /\ x.started /\ x.triggered = exec[i].triggered
  <2>1. CASE b.kind = "internal"
    BY <1>1, <1>5, <2>1, LibEndFacts
  <2> QED BY <1>1, <1>5, <2>1
<1>8. exec'[i] = x /\ \A j \in Inst \ {i} : exec'[j] = exec[j]
  BY <1>1, <1>3 DEF TypeOK
<1>9. b.kind = "internal" => /\ x.saved # 0 => /\ x.saved = exec[i].saved /\ x.next = None
                                                /\ x.list = exec[i].list
                             /\ x.saved = 0 => x.list = "net" /\ IsHybrid(i, x.at)
  BY <1>1, LibEndFacts
<1>10. owner' = owner \/ (owner' = None /\ owner = i)
  BY <1>3, <1>6 DEF ReleaseAton, ownership
<1>11. UNCHANGED npuVars
  <2>1. CASE Units(b) = {}
    BY <1>2, <1>3, <2>1 DEF TypeOK, npuVars
  <2>2. CASE Units(b) # {}
    <3>1. owner = i /\ Aside(t)
      BY <1>1, <1>2, <1>6, <2>2, UnitsFacts DEF Aside
    <3>2. running = {}
      BY <1>1, <3>1, OwnerFindsRest DEF AtRest, NoInterrupt
    <3> QED BY <1>2, <1>3, <3>2 DEF npuVars
  <2> QED BY <2>1, <2>2
<1> HIDE DEF x
<1>12. Local(t, i)
  BY <1>2, <1>3, <1>4, <1>6, <1>8, <1>10 DEF Local, SetsMask, ownership, ReleaseAton
<1>13. TypeOK'
  <2>1. exec' \in [Inst -> ExecStates]
    BY <1>1, <1>3, <1>7 DEF TypeOK
  <2>2. libWait' \in [Ops -> SUBSET Engines] /\ libIdx' \in Nat
    BY <1>3, <1>4, LibStateFacts DEF TypeOK
  <2>3. owner' \in Inst \cup {None} /\ lock' \in Threads \cup {None}
    BY <1>3 DEF ReleaseAton, ownership, TypeOK
  <2> QED BY <1>2, <1>3, <1>11, <2>1, <2>2, <2>3 DEF TypeOK, npuVars, isrVars
<1>14. Own(t, i)
  <2>1. CASE b.kind = "internal"
    <3>1. owner = i /\ exec[i].saved # 0 /\ IsHybrid(i, exec[i].saved)
      BY <1>1, <1>4, <2>1 DEF LibShape
    <3>2. x.saved # 0 \/ x.next # None => owner' = i
      BY <1>3, <2>1, <3>1 DEF GivesAton, ownership
    <3> QED BY <1>1, <1>2, <1>4, <1>7, <1>8, <1>9, <2>1, <3>1, <3>2 DEF Own, InBlock
  <2>2. CASE b.kind # "internal"
    <3>1. x = exec[i]
      BY <2>2 DEF x
    <3>2. x.list # "net" => b.kind = "last"
      BY <1>4, <2>2, <3>1
    <3>3. x.list # "net" \/ x.next # None => owner = i /\ ~GivesAton(b, x)
      <4>1. CASE x.list # "net"
        BY <1>1, <3>1, <3>2, <4>1 DEF LibShape, GivesAton
      <4>2. CASE x.next # None
        BY <1>1, <1>4, <2>2, <3>1, <4>2 DEF LibShape, GivesAton
      <4> QED BY <4>1, <4>2
    <3>4. x.list # "net" \/ x.next # None => owner' = i
      BY <1>3, <3>3 DEF ownership
    <3> QED BY <1>1, <1>2, <1>7, <1>8, <3>1, <3>4 DEF Own, LibShape, InBlock
  <2> QED BY <2>1, <2>2
<1>15. OwnsAsItMust(t, i)
  <2>1. owner = i <=> b.kind \in {"hw", "hybrid"} \/ exec[i].list # "net" \/ exec[i].next # None
    BY <1>1, <1>2, <1>5 DEF Owners, Holds, TakesAton
  <2>2. b.kind \in {"hw", "sw"} => exec[i].next = None
    BY <1>1, <1>4 DEF LibShape
  <2>3. owner' = i <=> x.list # "net" \/ x.next # None
    <3>1. CASE GivesAton(b, x)
      <4>1. owner' = None
        BY <1>3, <3>1 DEF ReleaseAton
      <4>2. x.list = "net" /\ x.next = None
        BY <1>1, <1>4, <1>9, <2>2, <3>1 DEF GivesAton, LibShape, x
      <4> QED BY <1>1, <4>1, <4>2
    <3>2. CASE ~GivesAton(b, x)
      <4>1. owner' = owner
        BY <1>3, <3>2 DEF ownership
      <4>2. CASE b.kind = "internal"
        BY <1>4, <1>9, <2>1, <3>2, <4>1, <4>2 DEF GivesAton
      <4>3. CASE b.kind # "internal"
        BY <1>1, <1>4, <2>1, <3>2, <4>1, <4>3 DEF GivesAton, LibShape, x
      <4> QED BY <4>2, <4>3
    <3> QED BY <3>1, <3>2
  <2>4. owner \in {i, None} => waitMask' = {}
    BY <1>1, <1>3, MaskFacts DEF Unmasked
  <2> QED BY <1>2, <1>8, <2>3, <2>4 DEF OwnsAsItMust, Holds
<1>16. Hardware'
  BY <1>1, <1>2, <1>7, <1>8, <1>11, <1>12, HardwareKeeps DEF Aside
<1> QED BY <1>1, <1>12, <1>13, <1>14, <1>15, <1>16, OthersKeep

(* A block starts its units and the thread waits for them, or it has none  *)
(* and ends at once.                                                       *)
LEMMA LaunchKeeps ==
  ASSUME Invariant, NEW t \in Threads, Launch(t, cur[t]), UNCHANGED parallel
  PROVE  Invariant'
<1> DEFINE i == cur[t]
           b == Current(i)
           c == Block(exec[i], i, libWait')
<1> USE DEF Invariant, Protocol
<1>1. i \in Serves[t] /\ i \in Inst /\ i # None /\ left[i] > 0 /\ exec[i] \in ExecStates
  <2>1. pc[t] # "ready"
    BY DEF Launch
  <2> QED BY <2>1, AtServed
<1>2. /\ pc[t] = "launch" /\ pc' = [pc EXCEPT ![t] = IF WaitOf(c) = {} THEN "end" ELSE "wfe"]
      /\ LaunchAsserts(i)
      /\ UNCHANGED <<cur, ended, left, ownership, src, intreg, isrVars, wfeSem>>
  BY DEF Launch, Goto
<1>3. exec[i].started /\ Aside(t)
  BY <1>2 DEF Starts, InBlock, Aside
<1>4. /\ b.kind \in {"hw", "sw", "hybrid", "internal", "last"}
      /\ b.blob \in BOOLEAN /\ b.wait \subseteq Engines
      /\ b.kind \notin {"hw", "internal"} => b.wait = {} /\ ~b.blob
      /\ b.kind = "internal" => /\ exec[i].list # "net" /\ exec[i].at = 1
                                /\ b.op = exec[i].list /\ b.op \in Ops
      /\ b.kind = "hybrid" => /\ exec[i].list = "net" /\ IsHybrid(i, exec[i].at)
                              /\ b.op \in Ops \cup {None}
  BY <1>1, BlockFacts DEF IsHybrid
<1>5. /\ b.kind = "hw" => HwStarts(b)
      /\ b.kind = "hybrid" => HybridStarts(i, b.op)
      /\ b.kind = "internal" => LibStarts(b.op)
      /\ b.kind \notin {"hw", "hybrid", "internal"} => UNCHANGED <<exec, libVars, waitMask, running>>
  BY <1>4 DEF Launch
<1>6. b.kind \in {"hw", "hybrid", "internal"} => owner = i
  BY <1>2 DEF LaunchAsserts, SetsMask
<1> HIDE DEF b, c
(* what becomes of the instance *)
<1>7. /\ exec' = [exec EXCEPT ![i] = exec'[i]] /\ exec'[i] \in ExecStates
      /\ exec'[i].list = exec[i].list /\ exec'[i].at = exec[i].at
      /\ exec'[i].saved = exec[i].saved /\ exec'[i].started
      /\ exec'[i].triggered = exec[i].triggered
      /\ \/ exec'[i].next = exec[i].next
         \/ b.kind = "hybrid" /\ owner = i /\ exec[i].list = "net" /\ IsHybrid(i, exec[i].at)
  <2>1. CASE b.kind = "hybrid" /\ b.op \in Ops
    <3>1. exec' = [exec EXCEPT ![i] = Insert(exec[i], b.op)]
      BY <1>5, <2>1, NamesAssumption DEF HybridStarts
    <3>2. exec'[i] = Insert(exec[i], b.op)
      BY <1>1, <3>1 DEF TypeOK
    <3>3. /\ exec'[i] \in ExecStates
          /\ exec'[i].list = exec[i].list /\ exec'[i].at = exec[i].at
          /\ exec'[i].saved = exec[i].saved /\ exec'[i].started = exec[i].started
          /\ exec'[i].triggered = exec[i].triggered
      BY <1>1, <2>1, <3>2, InsertChange
    <3>4. exec' = [exec EXCEPT ![i] = exec'[i]]
      BY <3>1, <3>2
    <3> QED BY <1>3, <1>4, <1>6, <2>1, <3>3, <3>4
  <2>2. CASE ~(b.kind = "hybrid" /\ b.op \in Ops)
    <3>1. exec' = exec
      BY <1>4, <1>5, <2>2 DEF HwStarts, HybridStarts, LibStarts
    <3> QED BY <1>1, <1>3, <3>1 DEF TypeOK
  <2> QED BY <2>1, <2>2
<1>8. Current(i)' = c
  BY <1>2, <1>7 DEF Current, Block, c
<1>9. /\ libWait' \in [Ops -> SUBSET Engines] /\ libIdx' \in Nat
      /\ b.kind \notin {"hybrid", "internal"} => libWait' = libWait
  <2>1. \A o \in Ops : Lib[o].dma \in Engines
    BY LibAssumption
  <2> QED BY <1>4, <1>5, <2>1
        DEF TypeOK, HwStarts, HybridStarts, LibStarts, libVars, Prepared
(* its block afterwards, and what the hardware does *)
<1>10. b.kind = "internal" =>
         /\ c = [kind |-> "internal", blob |-> FALSE, wait |-> waitMask', op |-> b.op]
         /\ waitMask' \subseteq Engines /\ running' = running \cup waitMask'
  <2> SUFFICES ASSUME b.kind = "internal" 
      PROVE  /\ c = [kind |-> "internal", blob |-> FALSE, wait |-> waitMask', op |-> b.op]
             /\ waitMask' \subseteq Engines /\ running' = running \cup waitMask'
    OBVIOUS
  <2>1. LibStarts(b.op) /\ b.op \in Ops /\ b.op = exec[i].list /\ exec[i].list # "net"
        /\ exec[i].at = 1
    BY <1>4, <1>5
  <2>2. libWait'[b.op] = waitMask' /\ running' = running \cup waitMask'
    BY <2>1 DEF LibStarts, TypeOK
  <2>3. waitMask' \subseteq Engines
    BY <1>9, <2>1, <2>2
  <2> QED BY <2>1, <2>2, <2>3 DEF c, Block
<1>11. b.kind # "internal" => c = b
  BY <1>1, <1>4, <1>9 DEF b, c, Current, Block
<1>12. /\ c.blob \in BOOLEAN /\ c.wait \subseteq Engines
       /\ Units(c) = {} <=> WaitOf(c) = {}
       /\ Units(c) \subseteq Engines \cup {EC}
  <2>1. CASE b.kind = "internal"
    <3>1. c.blob = FALSE /\ c.wait = waitMask' /\ waitMask' \subseteq Engines
      BY <1>10, <2>1
    <3> QED BY <3>1 DEF Units, WaitOf
  <2>2. CASE b.kind # "internal"
    BY <1>4, <1>11, <2>2 DEF Units, WaitOf
  <2> QED BY <2>1, <2>2
<1>13. /\ running' = running \cup Units(c)
       /\ Units(c) # {} => owner = i /\ waitMask' = (IF c.blob THEN Engines ELSE c.wait)
       /\ owner # i => waitMask' = waitMask
       /\ waitMask' \subseteq Engines
  <2>1. CASE b.kind = "hw"
    BY <1>4, <1>5, <1>6, <1>11, <2>1 DEF HwStarts
  <2>2. CASE b.kind = "internal"
    BY <1>6, <1>10, <2>2 DEF Units
  <2>3. CASE b.kind \notin {"hw", "internal"}
    <3>1. Units(c) = {}
      BY <1>4, <1>11, <2>3 DEF Units
    <3>2. UNCHANGED <<waitMask, running>>
      BY <1>5, <2>3 DEF HybridStarts
    <3> QED BY <3>1, <3>2 DEF TypeOK
  <2> QED BY <2>1, <2>2, <2>3
<1>14. /\ pc' \in [Threads -> PCs] /\ \A s \in Threads \ {t} : pc'[s] = pc[s]
       /\ pc'[t] = IF Units(c) = {} THEN "end" ELSE "wfe"
  BY <1>2, <1>12 DEF TypeOK, PCs
<1>15. TypeOK'
  <2>1. exec' \in [Inst -> ExecStates]
    BY <1>1, <1>7 DEF TypeOK
  <2>2. running' \subseteq Engines \cup {EC}
    BY <1>12, <1>13 DEF TypeOK
  <2> QED BY <1>2, <1>9, <1>13, <1>14, <2>1, <2>2 DEF TypeOK, ownership, isrVars
<1>16. Local(t, i)
  <2>1. \A j \in Inst \ {i} : exec'[j] = exec[j]
    BY <1>7 DEF TypeOK
  <2>2. owner # i => libWait' = libWait /\ waitMask' = waitMask
    BY <1>6, <1>9, <1>13
  <2> QED BY <1>2, <1>14, <2>1, <2>2 DEF Local, ownership
<1>17. Own(t, i)
  <2>1. b.kind = "hybrid" => Units(c) = {}
    BY <1>4, <1>11 DEF Units
  <2> QED BY <1>1, <1>2, <1>7, <1>8, <1>14, <2>1 DEF Own, LibShape, InBlock, Inserts, Wanted, ownership
<1>18. OwnsAsItMust(t, i)
  <2>1. c.kind = b.kind
    BY <1>10, <1>11
  <2>2. owner = i <=> exec[i].list # "net" \/ b.kind \in {"hw", "hybrid"}
    BY <1>1, <1>2, <1>3 DEF Owners, Holds, TakesAton, Inserts, b
  <2>3. exec'[i].next # None => b.kind = "hybrid"
    BY <1>1, <1>2, <1>7 DEF Inserts
  <2>4. owner' = i <=> exec'[i].list # "net" \/ exec'[i].next # None \/ Holds(t, i)'
    BY <1>2, <1>7, <1>8, <1>14, <2>1, <2>2, <2>3 DEF Holds, TakesAton, ownership
  <2>5. ASSUME owner \in {i, None}, waitMask' # {}
        PROVE  Unmasked(t)'
    <3>1. b.kind \in {"hw", "internal"}
      <4>1. ASSUME b.kind \notin {"hw", "internal"}
            PROVE  waitMask' = waitMask
        BY <1>5, <4>1 DEF HybridStarts
      <4>2. waitMask = {}
        BY <1>1, <1>2, <2>5, MaskFacts DEF Unmasked
      <4> QED BY <2>5, <4>1, <4>2
    <3> QED BY <1>2, <1>6, <1>7, <1>8, <1>14, <2>1, <3>1 DEF Unmasked, SetsMask, ownership
  <2> QED BY <2>4, <2>5 DEF OwnsAsItMust
<1>19. Hardware'
  <2>1. CASE Units(c) = {}
    <3>1. UNCHANGED npuVars
      BY <1>2, <1>13, <2>1 DEF npuVars, TypeOK
    <3> QED BY <1>1, <1>2, <1>3, <1>7, <1>14, <1>16, <2>1, <3>1, HardwareKeeps DEF Aside
  <2>2. CASE Units(c) # {}
    <3>1. AtRest /\ owner = i
      BY <1>1, <1>3, <1>13, <2>2, OwnerFindsRest
    <3>2. \A s \in Threads \ {t} : Aside(s)'
      BY <1>1, <1>16, <3>1, OthersAside DEF AtRest
    <3>3. \A j \in Inst : exec'[j].triggered = {}
      BY <1>7, <3>1 DEF AtRest, TypeOK
    <3>4. /\ isr' = "idle" /\ irqs' = {} /\ intreg' = {} /\ src' = {} /\ running' = Units(c)
          /\ pc'[t] = "wfe" /\ wfeSem' = 0 /\ cur'[t] = i /\ owner' = i
      BY <1>2, <1>13, <1>14, <2>2, <3>1 DEF AtRest, NoInterrupt, isrVars, ownership
    <3>5. AtWork(i, Current(i))' /\ Units(Current(i))' # {}
      BY <1>1, <1>2, <1>8, <1>13, <2>2, <3>3, <3>4 DEF AtWork, Units
    <3>6. InUse(t)'
      BY <1>7, <3>2, <3>3, <3>4, <3>5 DEF InUse
    <3> QED BY <3>6 DEF Hardware
  <2> QED BY <2>1, <2>2
<1> QED BY <1>1, <1>15, <1>16, <1>17, <1>18, <1>19, OthersKeep

-----------------------------------------------------------------------------
(* Steps of the NPU and of its interrupt handler *)

(* What neither moves a thread nor the place of an instance keeps the rest *)
(* of the invariant and the current blocks.                                *)
LEMMA QuietKeeps ==
  ASSUME TypeOK, Protocol,
         UNCHANGED <<parallel, threadVars, left, ownership, waitMask, libVars>>,
         \A j \in Inst : SamePlace(exec[j], exec'[j]) /\ exec'[j].started = exec[j].started
  PROVE  Protocol' /\ \A j \in Inst : Current(j)' = Current(j)
<1> USE DEF Protocol, threadVars, ownership, libVars
<1>1. ASSUME NEW t \in Threads
      PROVE  \A j \in Serves[t] : j \in Inst
  BY ServesAssumption
<1>2. ASSUME NEW j \in Inst
      PROVE  Current(j)' = Current(j)
  BY <1>2 DEF Current, Block, SamePlace
<1>3. Serving' /\ Locks' /\ Wanted'
  BY DEF Serving, Locks, Wanted
<1>4. LibShape'
  BY DEF LibShape, IsHybrid, SamePlace
<1>5. Starts' /\ Inserts'
  BY <1>1 DEF Starts, Serving, InBlock, Inserts, SamePlace
<1>6. Owners'
  <2>1. ASSUME NEW t \in Threads, NEW j \in Serves[t]
        PROVE  Holds(t, j)' = Holds(t, j)
    BY <1>1, <1>2 DEF Holds, TakesAton
  <2>2. ASSUME NEW t \in Threads, pc[t] = "acquire"
        PROVE  TakesAton(Current(cur[t]))'
    BY <1>1, <1>2, <2>2 DEF Serving, Owners, TakesAton
  <2> QED BY <1>1, <2>1, <2>2 DEF Owners, SamePlace
<1>7. Masks'
  <2>1. ASSUME NEW t \in Threads, Unmasked(t)
        PROVE  Unmasked(t)'
    BY <1>1, <1>2, <2>1 DEF Serving, Unmasked, SetsMask
  <2> QED BY <2>1 DEF Masks
<1> QED BY <1>2, <1>3, <1>4, <1>5, <1>6, <1>7

(* The interrupt handler is entered only when all units have finished.     *)
LEMMA IsrEnterKeeps ==
  ASSUME Invariant, IsrEnter, UNCHANGED parallel
  PROVE  Invariant'
<1> USE DEF Invariant, Protocol, IsrEnter
<1>1. TypeOK'
  BY DEF TypeOK, threadVars, ownership, libVars, npuVars
<1>2. \A j \in Inst : SamePlace(exec[j], exec'[j]) /\ exec'[j].started = exec[j].started
  BY DEF SamePlace
<1>3. /\ Protocol'
      /\ \A j \in Inst : Current(j)' = Current(j)
  BY <1>2, QuietKeeps DEF ownership
<1>4. Hardware'
  <2>1. ~NoInterrupt
    BY DEF NoInterrupt, IrqLine
  <2>2. PICK t \in Threads : InUse(t)
    BY <2>1 DEF Hardware, AtRest
  <2> DEFINE i == cur[t]
             b == Current(i)
  <2>3. pc[t] = "wfe" /\ wfeSem = 0 /\ AtWork(i, b) /\ Units(b) # {} /\ i \in Inst
    BY <2>1, <2>2, AtServed DEF InUse, Handled, Recorded
  <2>4. b.blob \in BOOLEAN /\ b.wait \subseteq Engines
    BY <2>3, UnitsFacts, BlockFacts
  <2>5. intreg \subseteq Units(b) /\ intreg = src
    BY <2>3 DEF AtWork
  <2>6. Units(b) \subseteq intreg
    <3>1. CASE b.blob
      BY <2>3, <2>5, <3>1 DEF AtWork, IrqLine, Units, Engines, EC
    <3>2. CASE ~b.blob
      BY <2>3, <2>4, <2>5, <3>2 DEF AtWork, IrqLine, Units, Engines, EC
    <3> QED BY <2>4, <3>1, <3>2
  <2>7. intreg = Units(b) /\ src = Units(b) /\ running = {}
    BY <2>3, <2>5, <2>6 DEF AtWork
  <2>8. Current(i)' = b /\ Units(b)' = Units(b) /\ i' = i
    BY <1>3, <2>3 DEF threadVars, Units
  <2>9. Handled(i, b)'
    BY <2>3, <2>7, <2>8 DEF Handled, AtWork, npuVars
  <2>10. \A s \in Threads \ {t} : Aside(s)'
    BY <2>2 DEF InUse, Aside, threadVars
  <2>11. InUse(t)'
    BY <2>2, <2>3, <2>8, <2>9, <2>10 DEF InUse, threadVars, ownership
  <2> QED BY <2>11 DEF Hardware
<1> QED BY <1>1, <1>3, <1>4

(* It records the event of the block that the owner waits for.             *)
LEMMA IsrAckKeeps ==
  ASSUME Invariant, IsrAck, UNCHANGED parallel
  PROVE  Invariant'
<1> USE DEF Invariant, Protocol
<1>1. PICK t \in Threads : InUse(t)
  BY DEF Hardware, AtRest, NoInterrupt, IsrAck
<1> DEFINE i == cur[t]
           b == Current(i)
<1>2. /\ pc[t] = "wfe" /\ wfeSem = 0 /\ Handled(i, b) /\ Units(b) # {} /\ owner = i /\ i \in Inst
      /\ exec[i] \in ExecStates
  BY <1>1, AtServed DEF InUse, IsrAck, AtWork, Recorded, NoInterrupt
<1>3. /\ b.blob \in BOOLEAN /\ b.wait \subseteq Engines /\ WaitOf(b) \subseteq Engines
  BY <1>2, UnitsFacts, BlockFacts
<1>4. src' = {} /\ exec' = [exec EXCEPT ![i].triggered = WaitOf(b)]
  <2>1. CASE b.blob
    <3>1. IrqEpochBlob(b) /\ irqs = {EC}
      BY <1>2, <2>1 DEF IsrAck, Handled, Units
    <3> QED BY <1>2, <2>1, <3>1 DEF IrqEpochBlob, Handled, WaitOf, Units
  <2>2. CASE ~b.blob
    <3>1. IrqEpochBlock(b) /\ irqs = b.wait
      BY <1>2, <2>2 DEF IsrAck, Handled, Units
    <3> QED BY <1>2, <2>2, <3>1 DEF IrqEpochBlock, Handled, WaitOf, Units
  <2> QED BY <1>3, <2>1, <2>2
<1>5. exec'[i] = [exec[i] EXCEPT !.triggered = WaitOf(b)] /\ \A j \in Inst \ {i} : exec'[j] = exec[j]
  BY <1>2, <1>4 DEF TypeOK
<1>6. /\ exec'[i] \in ExecStates /\ SamePlace(exec[i], exec'[i])
      /\ exec'[i].started = exec[i].started /\ exec'[i].triggered = WaitOf(b)
  BY <1>2, <1>3, <1>5, EventChange
<1>7. TypeOK'
  <2>1. exec' \in [Inst -> ExecStates]
    BY <1>2, <1>4, <1>6 DEF TypeOK
  <2> QED BY <1>4, <2>1 DEF TypeOK, IsrAck, threadVars, ownership, libVars
<1>8. /\ Protocol'
      /\ \A j \in Inst : Current(j)' = Current(j)
  <2>1. \A j \in Inst : SamePlace(exec[j], exec'[j]) /\ exec'[j].started = exec[j].started
    BY <1>5, <1>6 DEF SamePlace
  <2> QED BY <2>1, QuietKeeps DEF IsrAck, ownership
<1>9. Hardware'
  <2>1. /\ i' = i /\ Current(i)' = b /\ pc'[t] = "wfe" /\ wfeSem' = 0 /\ owner' = i
        /\ isr' = "clear" /\ UNCHANGED <<running, intreg, irqs>>
    BY <1>2, <1>8 DEF IsrAck, threadVars, ownership
  <2>2. Recorded(i, b)'
    BY <1>2, <1>4, <1>6, <2>1 DEF Recorded, Handled, Units, WaitOf
  <2>3. \A s \in Threads \ {t} : Aside(s)'
    <3>1. ASSUME NEW s \in Threads \ {t}
          PROVE  Aside(s)'
      <4>1. pc[s] = "enter" => cur[s] \in Inst
        BY AtServed
      <4> QED BY <1>1, <1>5, <1>6, <4>1 DEF InUse, Aside, IsrAck, threadVars
    <3> QED BY <3>1
  <2>4. \A j \in Inst \ {i} : exec'[j].triggered = {}
    BY <1>1, <1>5 DEF InUse
  <2>5. InUse(t)'
    BY <1>1, <1>2, <1>6, <2>1, <2>2, <2>3, <2>4 DEF InUse, Units
  <2> QED BY <2>5 DEF Hardware
<1> QED BY <1>7, <1>8, <1>9

(* It clears its interrupts, which leaves none, and signals the event.     *)
LEMMA IsrClearKeeps ==
  ASSUME Invariant, IsrClear, UNCHANGED parallel
  PROVE  Invariant'
<1> USE DEF Invariant, Protocol
<1>1. PICK t \in Threads : InUse(t)
  BY DEF Hardware, AtRest, NoInterrupt, IsrClear
<1> DEFINE i == cur[t]
           b == Current(i)
<1>2. pc[t] = "wfe" /\ wfeSem = 0 /\ Recorded(i, b) /\ Units(b) # {} /\ owner = i /\ i \in Inst
  BY <1>1, AtServed DEF InUse, IsrClear, AtWork, Handled, NoInterrupt
<1>3. /\ running' = {} /\ src' = {} /\ intreg' = {} /\ isr' = "idle" /\ irqs' = {}
      /\ wfeSem' = 1
  BY <1>2 DEF IsrClear, Recorded
<1>4. TypeOK'
  BY <1>3 DEF TypeOK, IsrClear, threadVars, ownership, libVars
<1>5. /\ Protocol'
      /\ \A j \in Inst : Current(j)' = Current(j)
  <2>1. \A j \in Inst : SamePlace(exec[j], exec'[j]) /\ exec'[j].started = exec[j].started
    BY DEF SamePlace, IsrClear
  <2> QED BY <2>1, QuietKeeps DEF IsrClear, ownership
<1>6. Hardware'
  <2>1. /\ i' = i /\ Current(i)' = b /\ pc'[t] = "wfe" /\ owner' = i /\ exec' = exec
    BY <1>2, <1>5 DEF IsrClear, threadVars, ownership
  <2>2. NoInterrupt' /\ exec'[i].triggered = WaitOf(Current(i))'
    BY <1>2, <1>3, <2>1 DEF NoInterrupt, Recorded, WaitOf
  <2>3. \A s \in Threads \ {t} : Aside(s)'
    BY <1>1, <2>1 DEF InUse, Aside, IsrClear, threadVars
  <2>4. InUse(t)'
    BY <1>1, <1>2, <1>3, <2>1, <2>2, <2>3 DEF InUse, Units
  <2> QED BY <2>4 DEF Hardware
<1> QED BY <1>4, <1>5, <1>6

(* A unit finishes.                                                        *)
LEMMA NpuKeeps ==
  ASSUME Invariant, NpuStep
  PROVE  Invariant'
<1> USE DEF Invariant, Protocol
<1>1. PICK u \in running : /\ running' = running \ {u}
                           /\ src' = src \cup {u}
                           /\ intreg' = intreg \cup {u}
  BY DEF NpuStep
<1>2. UNCHANGED <<parallel, threadVars, exec, left, ownership, waitMask, libVars, isrVars, wfeSem>>
  BY DEF NpuStep
<1>3. PICK t \in Threads : InUse(t)
  BY <1>1 DEF Hardware, AtRest, NoInterrupt
<1> DEFINE i == cur[t]
           b == Current(i)
<1>4. pc[t] = "wfe" /\ wfeSem = 0 /\ AtWork(i, b) /\ Units(b) # {} /\ owner = i /\ i \in Inst
  BY <1>1, <1>3, AtServed DEF InUse, Handled, Recorded, NoInterrupt
<1>5. TypeOK'
  BY <1>1, <1>2 DEF TypeOK, threadVars, ownership, libVars, isrVars
<1>6. /\ Protocol'
      /\ \A j \in Inst : Current(j)' = Current(j)
  <2>1. \A j \in Inst : SamePlace(exec[j], exec'[j]) /\ exec'[j].started = exec[j].started
    BY <1>2 DEF SamePlace
  <2> QED BY <1>2, <2>1, QuietKeeps DEF ownership
<1>7. Hardware'
  <2>1. /\ i' = i /\ Current(i)' = b /\ pc'[t] = "wfe" /\ owner' = i /\ exec' = exec /\ wfeSem' = 0
    BY <1>2, <1>4, <1>6 DEF threadVars, ownership
  <2>2. AtWork(i, b)'
    BY <1>1, <1>2, <1>4, <2>1 DEF AtWork, isrVars, Units
  <2>3. \A s \in Threads \ {t} : Aside(s)'
    BY <1>2, <1>3, <2>1 DEF InUse, Aside, threadVars
  <2>4. InUse(t)'
    BY <1>3, <1>4, <2>1, <2>2, <2>3 DEF InUse, Units
  <2> QED BY <2>4 DEF Hardware
<1> QED BY <1>5, <1>6, <1>7

-----------------------------------------------------------------------------
(* The results *)

(* At the start the NPU is at rest.                                        *)
LEMMA InitEstablishes == Init => Invariant
<1> SUFFICES ASSUME Init PROVE Invariant
  OBVIOUS
<1>1. InitExec \in ExecStates /\ InitExec.list = "net" /\ InitExec.next = None
      /\ InitExec.saved = 0 /\ ~InitExec.started /\ InitExec.triggered = {}
  BY DEF InitExec, ExecStates
<1>2. TypeOK
  BY <1>1, UsersAssumption, InferencesAssumption DEF Init, TypeOK, PCs
<1>3. Serving /\ LibShape /\ Masks /\ Locks
  BY <1>1 DEF Init, Serving, LibShape, Masks, Locks
<1>4. Starts /\ Owners /\ Inserts
  BY <1>1, ServesAssumption, NamesAssumption DEF Init, Starts, InBlock, Owners, Holds, Inserts
<1>6. Wanted
  <2>1. ASSUME NEW t \in Threads, NEW i \in Serves[t]
        PROVE  i \in Inst /\ ServedBy(i) = t
    BY <2>1, ServesAssumption DEF ServedBy
  <2> QED BY <2>1 DEF Init, Wanted
<1>5. AtRest
  BY <1>1 DEF Init, AtRest, NoInterrupt, Aside
<1> QED BY <1>2, <1>3, <1>4, <1>5, <1>6 DEF Invariant, Protocol, Hardware

(* Every step of a thread keeps the invariant.                             *)
LEMMA ThreadKeeps ==
  ASSUME Invariant, NEW t \in Threads, ThreadStep(t)
  PROVE  Invariant'
<1>1. UNCHANGED parallel
  BY DEF ThreadStep
<1>2. ASSUME NEW i \in Serves[t], Call(t, i)
      PROVE  Invariant'
  BY <1>1, <1>2, CallKeeps
<1>3. ASSUME NEW i \in Serves[t], Abort(t, i)
      PROVE  Invariant'
  <2>1. pc' = [pc EXCEPT ![t] = "ready"]
    BY <1>3 DEF Abort, Invariant, TypeOK
  <2> QED BY <1>1, <1>3, <2>1, ResetKeeps DEF Abort
<1>4. ASSUME Done(t, cur[t])
      PROVE  Invariant'
  <2>1. cur[t] \in Serves[t] /\ left[cur[t]] > 0
    BY <1>4 DEF Done, Invariant, Protocol, Serving
  <2> QED BY <1>1, <1>4, <2>1, ResetKeeps DEF Done, Goto
<1>5. ASSUME RunEpochBlock(t, cur[t])
      PROVE  Invariant'
  BY <1>1, <1>5, EnterAsideKeeps, EnterUsingKeeps, ClearKeeps, EndKeeps, DetermineKeeps,
     LeaveLibKeeps, FinishPauseKeeps, StartKeeps, AcquireKeeps, LaunchKeeps
     DEF RunEpochBlock
<1> QED BY <1>1, <1>2, <1>3, <1>4, <1>5, WfeKeeps DEF ThreadStep

(* And so does every step, a step of rest included.                        *)
LEMMA StepKeeps == Invariant /\ [Next]_vars => Invariant'
<1> SUFFICES ASSUME Invariant, [Next]_vars PROVE Invariant'
  OBVIOUS
<1>1. CASE IsrStep
  BY <1>1, IsrEnterKeeps, IsrAckKeeps, IsrClearKeeps DEF IsrStep
<1>2. CASE UNCHANGED vars
  <2>1. UNCHANGED <<parallel, pc, cur, ended, exec, left, owner, lock, waitMask, libWait,
                    libIdx, running, src, intreg, isr, irqs, wfeSem>>
    BY <1>2 DEF vars, threadVars, ownership, libVars, npuVars, isrVars
  <2>2. TypeOK'
    BY <2>1 DEF Invariant, TypeOK
  <2>3. Protocol'
    BY <2>1, QuietKeeps DEF Invariant, SamePlace, threadVars, ownership, libVars
  <2>4. Hardware'
    BY <2>1 DEF Invariant, Hardware, AtRest, InUse, NoInterrupt, Aside, AtWork, Handled,
                Recorded, Current
  <2> QED BY <2>2, <2>3, <2>4 DEF Invariant
<1> QED BY <1>1, <1>2, NpuKeeps, ThreadKeeps DEF Next, Rest

(* The invariant holds in every reachable state of every system.           *)
THEOREM Invariance == Spec => []Invariant
BY InitEstablishes, StepKeeps, PTL DEF Spec

(* Every variable keeps its type: the masks of NPU units, the execution    *)
(* states and the index of the operators stay within their declarations.   *)
THEOREM TypesAreKept == Spec => []TypeOK
<1>1. Invariant => TypeOK
  BY DEF Invariant
<1> QED BY <1>1, Invariance, PTL

(* The NPU never works for another network than the one that owns it, and  *)
(* on no other unit than those of the block that network has started.      *)
THEOREM NpuIsItsOwners == Spec => []NpuWorksForOwner
<1>1. Invariant => NpuWorksForOwner
  <2> SUFFICES ASSUME Invariant, running # {} PROVE NpuWorksForOwner
    BY DEF NpuWorksForOwner
  <2>1. PICK t \in Threads : InUse(t) /\ pc[t] = "wfe" /\ AtWork(cur[t], Current(cur[t]))
    BY DEF Invariant, Hardware, AtRest, InUse, NoInterrupt, Handled, Recorded
  <2>2. cur[t] # None
    BY <2>1, AtServed DEF Invariant, Protocol
  <2> QED BY <2>1, <2>2 DEF NpuWorksForOwner, InUse, AtWork
<1> QED BY <1>1, Invariance, PTL

(* No block is ended, nor its result read, while units are at work: not of *)
(* this block, and not of another network's.                               *)
THEOREM HardwareIsDone == Spec => []BlockEndsAfterHardware
<1>1. Invariant => BlockEndsAfterHardware
  <2> SUFFICES ASSUME Invariant, NEW t \in Threads, pc[t] = "end", Units(Current(cur[t])) # {}
               PROVE  running = {}
    BY DEF BlockEndsAfterHardware
  <2>1. cur[t] \in Serves[t] /\ owner = cur[t] /\ Aside(t)
    <3>1. cur[t] \in Serves[t] /\ cur[t] \in Inst
      BY AtServed DEF Invariant, Protocol
    <3>2. owner = cur[t]
      <4> DEFINE b == Current(cur[t])
      <4>1. b.kind \in {"hw", "internal"} /\ (b.kind = "internal" => exec[cur[t]].list # "net")
        BY <3>1, UnitsFacts, BlockFacts DEF SetsMask, Invariant
      <4>2. exec[cur[t]].started
        BY DEF Invariant, Protocol, Starts, InBlock
      <4> QED BY <3>1, <4>1, <4>2 DEF Invariant, Protocol, Owners, Holds, TakesAton
    <3> QED BY <3>1, <3>2 DEF Aside
  <2> QED BY <2>1, OwnerFindsRest DEF Invariant, Protocol, AtRest, NoInterrupt
<1> QED BY <1>1, Invariance, PTL

(* The static state of the hybrid operators, shared by all networks, is    *)
(* used by the owner of the NPU only.                                      *)
THEOREM OperatorsAreOwners == Spec => []LibStateIsOwners
<1>1. Invariant => LibStateIsOwners
  BY DEF Invariant, Protocol, LibShape, Owners, LibStateIsOwners
<1> QED BY <1>1, Invariance, PTL

(* A thread that waits for the NPU has its event token, or the NPU is at   *)
(* work or its interrupt under way; and there is never a token too many.   *)
THEOREM NoLostWakeUp == Spec => []WaiterIsWoken
<1>1. Invariant => WaiterIsWoken
  <2> SUFFICES ASSUME Invariant PROVE WaiterIsWoken
    OBVIOUS
  <2>1. wfeSem <= 1
    BY DEF Invariant, Hardware, AtRest, InUse
  <2>2. ASSUME NEW t \in Threads, pc[t] = "wfe"
        PROVE  wfeSem = 1 \/ running # {} \/ IrqLine \/ isr # "idle"
    <3> DEFINE b == Current(cur[t])
    <3>1. InUse(t) /\ cur[t] \in Inst
      BY <2>2, WaiterUses, AtServed DEF Invariant, Protocol, Aside
    <3>2. CASE AtWork(cur[t], b) /\ running = {}
      <4>1. intreg = Units(b) /\ Units(b) # {} /\ b.blob \in BOOLEAN
        BY <3>1, <3>2, BlockFacts DEF AtWork, InUse, Invariant
      <4> QED BY <3>2, <4>1 DEF AtWork, Units, IrqLine
    <3> QED BY <2>2, <3>1, <3>2 DEF InUse, Handled, Recorded
  <2> QED BY <2>1, <2>2 DEF WaiterIsWoken
<1> QED BY <1>1, Invariance, PTL

-----------------------------------------------------------------------------
(* The assertions of the runtime *)

(* In a build without the lock one thread uses the NPU; and a thread runs one network,
   or only networks without hybrid blocks, so that it never leaves the runtime as the
   owner of the NPU to come back for another network. *)
Disciplined ==
  /\ FALSE \in DOMAIN Users => \A s, t \in Users[FALSE] : s = t
  /\ \A t \in Threads :
       \/ \A i, j \in Serves[t] : i = j
       \/ \A i \in Serves[t] : \A n \in DOMAIN Network[i] : Network[i][n].kind # "hybrid"

(* A thread of a disciplined system finds the NPU in its hands only when   *)
(* it is in a block of its own or in inserted ones.                        *)
LEMMA OwnNetworkOnly ==
  ASSUME Disciplined, Invariant, NEW t \in Threads, pc[t] # "ready", NEW j \in Serves[t], owner = j
  PROVE  j = cur[t]
<1> USE DEF Invariant, Protocol
<1>1. cur[t] \in Serves[t] /\ j \in Inst
  BY OneServer DEF Serving
<1>2. CASE \A n \in DOMAIN Network[j] : Network[j][n].kind # "hybrid"
  <2>1. exec[j].list = "net" /\ exec[j].next = None
    BY <1>1, <1>2 DEF LibShape, IsHybrid
  <2> QED BY <2>1 DEF Owners, Holds
<1> QED BY <1>1, <1>2 DEF Disciplined

(* The assertions before and after the lock hold.                          *)
LEMMA AcquireIsRight ==
  ASSUME Disciplined, Invariant, NEW t \in Threads, pc[t] = "acquire"
  PROVE  AcquireAsserts(t, cur[t])
<1> USE DEF Invariant, Protocol
<1> DEFINE i == cur[t]
<1>1. i \in Serves[t] /\ i \in Inst /\ i # None /\ left[i] > 0
  BY AtServed
<1>2. TakesAton(Current(i)) /\ exec[i].next = None
  BY <1>1 DEF Owners, Inserts
<1>3. exec[i].list = "net"
  BY <1>1, <1>2, BlockFacts DEF TakesAton
<1>4. owner # i
  BY <1>1, <1>2, <1>3 DEF Owners, Holds
<1>5. owner \notin Serves[t]
  BY <1>4, OwnNetworkOnly
<1>6. (parallel => lock = None) => owner = None
  <2>1. CASE parallel
    BY <2>1, NamesAssumption DEF Locks
  <2>2. CASE ~parallel
    <3> SUFFICES ASSUME owner # None PROVE FALSE
      OBVIOUS
    <3>1. PICK s \in Threads : owner \in Serves[s]
      BY ServesAssumption DEF TypeOK
    <3>2. parallel = FALSE /\ s \in Users[parallel] /\ t \in Users[parallel]
      BY <1>1, <2>2, <3>1 DEF Wanted, TypeOK
    <3> QED BY <1>5, <3>1, <3>2 DEF Disciplined, Wanted
  <2> QED BY <2>1, <2>2
<1>7. owner = None => waitMask = {}
  BY <1>1, MaskFacts DEF Unmasked
<1>8. parallel => lock # t
  BY <1>5, NamesAssumption DEF Locks
<1> QED BY <1>4, <1>6, <1>7, <1>8 DEF AcquireAsserts

(* So do the others of a thread.                                           *)
LEMMA ThreadIsRight ==
  ASSUME Disciplined, Invariant, NEW t \in Threads, cur[t] # None
  PROVE  ThreadAsserts(t, cur[t])
<1> USE DEF Invariant, Protocol
<1> DEFINE i == cur[t]
           b == Current(i)
<1>1. CASE pc[t] = "ready"
  BY <1>1 DEF ThreadAsserts
<1>2. CASE pc[t] # "ready"
  <2>1. i \in Serves[t] /\ i \in Inst /\ i # None
    BY <1>2, AtServed
  <2>2. /\ b.kind \in {"hw", "sw", "hybrid", "internal", "last"}
        /\ b.kind = "internal" => exec[i].list # "net"
        /\ b.kind \in {"hw", "sw", "hybrid"} =>
             exec[i].list = "net" /\ exec[i].saved = 0 /\ (IsHybrid(i, exec[i].at) => b.kind = "hybrid")
    BY <2>1, BlockFacts DEF IsHybrid, LibShape
  <2>3. waitMask # {} /\ owner = i => Unmasked(t)
    BY <2>1, MaskFacts
  <2>4. owner = i <=> exec[i].list # "net" \/ exec[i].next # None \/ Holds(t, i)
    BY <2>1 DEF Owners
  <2>5. exec[i].next # None => pc[t] \in {"end", "determine"} /\ exec[i].saved = 0
                               /\ IsHybrid(i, exec[i].at)
    BY <2>1 DEF Inserts, LibShape
  <2>6. CASE pc[t] = "clear"
    BY <2>6, WaiterUses DEF ThreadAsserts, ClearAsserts, InUse, Aside
  <2>7. CASE pc[t] = "end"
    <3>1. exec[i].started
      BY <2>7 DEF Starts, InBlock
    <3>2. b.kind \in {"hw", "hybrid", "internal"} => owner = i
      BY <2>2, <2>4, <2>7, <3>1 DEF Holds, TakesAton
    <3>3. b.kind = "sw" => owner # i
      BY <2>2, <2>4, <2>5 DEF Holds, TakesAton
    <3>4. b.kind = "hybrid" => waitMask = {}
      BY <2>3, <3>2 DEF Unmasked, SetsMask
    <3> QED BY <2>7, <3>2, <3>3, <3>4 DEF ThreadAsserts, EndAsserts, SetsMask
  <2>8. CASE pc[t] = "determine"
    <3>1. Aside(t)
      BY <2>8 DEF Aside
    <3>2. exec[i].triggered = {}
      <4>1. ASSUME NEW s \in Threads, InUse(s)
            PROVE  exec[i].triggered = {}
        <5>1. s # t /\ cur[s] \in Serves[s]
          BY <3>1, <4>1, AtServed DEF InUse, Aside
        <5>2. cur[s] # i
          BY <2>1, <5>1, OneServer
        <5> QED BY <2>1, <4>1, <5>2 DEF InUse
      <4> QED BY <2>1, <4>1 DEF Hardware, AtRest
    <3> QED BY <2>5, <2>8, <3>2 DEF ThreadAsserts, DetermineAsserts
  <2>9. CASE pc[t] = "next?"
    <3>1. exec[i].saved # 0 => owner = i
      BY <2>1, <2>4 DEF LibShape
    <3> QED BY <2>3, <2>5, <2>9, <3>1 DEF ThreadAsserts, Unmasked
  <2>10. CASE pc[t] = "acquire"
    BY <2>10, AcquireIsRight DEF ThreadAsserts
  <2>11. CASE pc[t] = "launch"
    <3>1. exec[i].started
      BY <2>11 DEF Starts, InBlock
    <3>2. b.kind \in {"hw", "hybrid", "internal"} => owner = i
      BY <2>2, <2>4, <2>11, <3>1 DEF Holds, TakesAton
    <3> QED BY <2>2, <2>5, <2>11, <3>2 DEF ThreadAsserts, LaunchAsserts, SetsMask
  <2>12. CASE pc[t] = "done"
    BY <2>3, <2>12 DEF ThreadAsserts, ResetAsserts, Unmasked
  <2>13. CASE pc[t] \in {"enter", "wfe"}
    BY <2>13 DEF ThreadAsserts
  <2> QED BY <1>2, <2>6, <2>7, <2>8, <2>9, <2>10, <2>11, <2>12, <2>13 DEF TypeOK, PCs
<1> QED BY <1>1, <1>2

(* The interrupt handler meets no interrupt that its block did not ask for. *)
LEMMA HandlerIsRight ==
  ASSUME Invariant, isr = "ack"
  PROVE  IsrAsserts
<1> USE DEF Invariant, Protocol
<1>1. PICK t \in Threads : InUse(t) /\ pc[t] = "wfe" /\ Handled(cur[t], Current(cur[t]))
  BY DEF Hardware, AtRest, NoInterrupt, InUse, AtWork, Recorded
<1>2. cur[t] \in Inst /\ cur[t] # None
  BY <1>1, AtServed
<1>3. Current(cur[t]).blob \in BOOLEAN /\ Current(cur[t]).wait \subseteq Engines
  BY <1>2, BlockFacts
<1> QED BY <1>1, <1>2, <1>3 DEF IsrAsserts, Expected, InUse, Handled, Units

(* In a disciplined system no LL_ATON_ASSERT of the runtime fails.         *)
THEOREM AssertionsHold == ASSUME Disciplined PROVE Spec => []NoAssertFails
<1>1. Invariant => NoAssertFails
  BY ThreadIsRight, HandlerIsRight DEF NoAssertFails
<1> QED BY <1>1, Invariance, PTL

-----------------------------------------------------------------------------
(* The use of the lock *)

(* Who has the NPU and who has asked for it, as the lock sees it.          *)
Holder == IF owner = None THEN None ELSE ServedBy(owner)
Wanting == {t \in Threads : pc[t] = "acquire"}

(* The server of an instance is the thread that serves it.                 *)
LEMMA ServerFacts ==
  ASSUME NEW t \in Threads, NEW i \in Serves[t]
  PROVE  ServedBy(i) = t /\ i # None
BY ServesAssumption, NamesAssumption DEF ServedBy

(* A step of thread t that the lock notices, or not.                       *)
LEMMA LockSees ==
  ASSUME TypeOK, NEW t \in Threads, \A s \in Threads \ {t} : pc'[s] = pc[s],
         \/ pc[t] # "acquire" /\ pc'[t] # "acquire" /\ owner' \in {owner, None}
         \/ pc[t] # "acquire" /\ pc'[t] = "acquire" /\ owner' = owner /\ owner \notin Serves[t]
         \/ pc[t] = "acquire" /\ pc'[t] # "acquire" /\ owner = None /\ owner' \in Serves[t]
  PROVE  [Abstract!LockNext]_(Abstract!lockVars)
<1> USE DEF Wanting, Holder, Abstract!LockNext, Abstract!Request, Abstract!Grant,
            Abstract!Release, Abstract!lockVars
<1>1. owner # None => /\ ServedBy(owner) \in Threads /\ owner \in Serves[ServedBy(owner)]
                      /\ ServedBy(owner) # None
  BY ServesAssumption, NamesAssumption DEF TypeOK, ServedBy
<1>2. CASE pc[t] # "acquire" /\ pc'[t] # "acquire" /\ owner' \in {owner, None}
  <2>1. Wanting' = Wanting
    BY <1>2
  <2> QED BY <1>1, <1>2, <2>1 DEF ServedBy
<1>3. CASE pc[t] # "acquire" /\ pc'[t] = "acquire" /\ owner' = owner /\ owner \notin Serves[t]
  <2>1. Wanting' = Wanting \cup {t} /\ t \notin Wanting
    BY <1>3
  <2>2. Holder # t /\ Holder' = Holder
    BY <1>1, <1>3, NamesAssumption DEF ServedBy
  <2>3. Abstract!Request(t)
    BY <2>1, <2>2
  <2> QED BY <2>3
<1>4. CASE pc[t] = "acquire" /\ pc'[t] # "acquire" /\ owner = None /\ owner' \in Serves[t]
  <2>1. Wanting' = Wanting \ {t} /\ t \in Wanting
    BY <1>4
  <2>2. Holder = None /\ Holder' = t
    BY <1>4, ServesAssumption, NamesAssumption DEF ServedBy
  <2>3. Abstract!Grant(t)
    BY <2>1, <2>2
  <2> QED BY <2>3
<1> QED BY <1>2, <1>3, <1>4

(* A thread that asks for the lock is at a block that takes the NPU, and   *)
(* its own networks do not have it.                                        *)
LEMMA AskerIsWithout ==
  ASSUME Disciplined, Invariant, NEW t \in Threads, Start(t, cur[t]), TakesAton(Current(cur[t]))
  PROVE  owner \notin Serves[t]
<1> USE DEF Invariant, Protocol
<1> DEFINE i == cur[t]
<1>1. pc[t] = "next?" /\ i \in Serves[t] /\ i \in Inst
  BY AtServed DEF Start
<1>2. exec[i].list = "net" /\ exec[i].next = None
  BY <1>1, BlockFacts DEF TakesAton, Inserts
<1>3. owner # i
  BY <1>1, <1>2 DEF Owners, Holds
<1> QED BY <1>1, <1>3, OwnNetworkOnly

(* What the steps of a thread do to its place and to the owner.            *)
LEMMA ThreadUsesLock ==
  ASSUME Disciplined, Invariant, NEW t \in Threads, ThreadStep(t)
  PROVE  [Abstract!LockNext]_(Abstract!lockVars)
<1> USE DEF Invariant, Goto, ownership
<1> DEFINE i == cur[t]
<1>1. TypeOK
  OBVIOUS
<1>2. ASSUME NEW j \in Serves[t], Call(t, j) \/ Abort(t, j)
      PROVE  [Abstract!LockNext]_(Abstract!lockVars)
  <2>1. /\ \A s \in Threads \ {t} : pc'[s] = pc[s]
        /\ pc[t] # "acquire" /\ pc'[t] # "acquire" /\ owner' \in {owner, None}
    BY <1>2 DEF Call, Abort, Reset, ReleaseAton, TypeOK
  <2> QED BY <2>1, LockSees
<1>3. CASE i # None /\ (Enter(t, i) \/ Clear(t, i) \/ Determine(t, i) \/ Finish(t, i) \/ Pause(t, i)
                        \/ Launch(t, i) \/ Wfe(t, i))
  <2>1. /\ \A s \in Threads \ {t} : pc'[s] = pc[s]
        /\ pc[t] # "acquire" /\ pc'[t] # "acquire" /\ owner' \in {owner, None}
    BY <1>3 DEF Enter, Clear, Determine, Finish, Pause, Launch, Wfe, TypeOK
  <2> QED BY <2>1, LockSees
<1>4. CASE i # None /\ (End(t, i) \/ LeaveLib(t, i) \/ Done(t, i))
  <2>1. /\ \A s \in Threads \ {t} : pc'[s] = pc[s]
        /\ pc[t] # "acquire" /\ pc'[t] # "acquire" /\ owner' \in {owner, None}
    BY <1>4 DEF End, LeaveLib, Done, Reset, ReleaseAton, TypeOK
  <2> QED BY <2>1, LockSees
<1>5. CASE i # None /\ Start(t, i)
  <2>1. /\ \A s \in Threads \ {t} : pc'[s] = pc[s]
        /\ pc[t] # "acquire" /\ owner' = owner
        /\ pc'[t] = IF TakesAton(Current(i)) THEN "acquire" ELSE "launch"
    BY <1>5 DEF Start, TypeOK
  <2>2. TakesAton(Current(i)) => owner \notin Serves[t]
    BY <1>5, AskerIsWithout
  <2> QED BY <2>1, <2>2, LockSees
<1>6. CASE i # None /\ Acquire(t, i)
  <2>1. /\ \A s \in Threads \ {t} : pc'[s] = pc[s]
        /\ pc[t] = "acquire" /\ pc'[t] # "acquire" /\ owner = None /\ owner' = i
    BY <1>6 DEF Acquire, AcquireAsserts, TypeOK
  <2>2. i \in Serves[t]
    BY <2>1, AtServed DEF Protocol
  <2> QED BY <2>1, <2>2, LockSees
<1> QED BY <1>2, <1>3, <1>4, <1>5, <1>6 DEF ThreadStep, RunEpochBlock

(* In a disciplined system the networks use the NPU as if it had a lock,   *)
(* compiled in or not: each step of the runtime is one of the lock's, or   *)
(* one that the lock does not see.                                         *)
THEOREM RuntimeUsesLock == ASSUME Disciplined PROVE Spec => ImplementsAtonLock
<1>1. Init => Abstract!LockInit
  BY DEF Init, Abstract!LockInit
<1>2. ASSUME Invariant, [Next]_vars PROVE [Abstract!LockNext]_(Abstract!lockVars)
  <2>1. ASSUME UNCHANGED <<pc, owner>> PROVE UNCHANGED Abstract!lockVars
    BY <2>1 DEF Abstract!lockVars, ServedBy
  <2>2. IsrStep \/ NpuStep \/ UNCHANGED vars => UNCHANGED <<pc, owner>>
    BY DEF IsrStep, IsrEnter, IsrAck, IsrClear, NpuStep, vars, threadVars, ownership
  <2> QED BY <1>2, <2>1, <2>2, ThreadUsesLock DEF Next, Rest
<1> QED BY <1>1, <1>2, Invariance, PTL DEF Spec, ImplementsAtonLock, Abstract!LockSpec

-----------------------------------------------------------------------------
(* The order of the blocks *)

(* The block a network is at and how far it is with it, as EpochOrder sees *)
(* them.                                                                   *)
Place(x) == IF x.saved = 0 THEN x.at ELSE x.saved
PhaseOf(x, place) ==
  IF x.list = "net" /\ x.next = None /\ (~x.started \/ place = "acquire") THEN "ready"
  ELSE IF x.list = "net" /\ x.next = None /\ place = "determine" THEN "over"
  ELSE "work"

(* Where thread t is with instance i.                                      *)
With(t, i) == IF cur[t] = i THEN pc[t] ELSE "ready"

Positions == [i \in Inst |-> IF exec[i].saved = 0 THEN exec[i].at ELSE exec[i].saved]
Phases ==
  [i \in Inst |->
     IF InOwnBlocks(i) /\ (~exec[i].started \/ IsAt(i, "acquire")) THEN "ready"
     ELSE IF InOwnBlocks(i) /\ IsAt(i, "determine") THEN "over" ELSE "work"]
Programs == [i \in Inst |-> [n \in DOMAIN Network[i] |-> TakesAton(Network[i][n])]]

(* The server's place with the instance decides on the phase.              *)
LEMMA PhaseFacts ==
  ASSUME NEW t \in Threads, NEW i \in Serves[t]
  PROVE  /\ i \in Inst
         /\ Phases[i] = PhaseOf(exec[i], With(t, i))
         /\ Phases'[i] = PhaseOf(exec'[i], With(t, i)')
         /\ Positions[i] = Place(exec[i]) /\ Positions'[i] = Place(exec'[i])
<1>1. ServedBy(i) = t /\ i \in Inst
  BY ServerFacts, OneServer
<1> QED BY <1>1 DEF Phases, Positions, Place, PhaseOf, With, InOwnBlocks, IsAt

(* What a step of thread t on instance i is to the order.                  *)
Freed(i) == owner' = IF owner = i THEN None ELSE owner
Moves(t, i, from, to, by) ==
  /\ PhaseOf(exec[i], With(t, i)) = from /\ PhaseOf(exec'[i], With(t, i)') = to
  /\ Place(exec'[i]) = Place(exec[i]) + by

OrderStep(t, i) ==
  \/ /\ PhaseOf(exec'[i], With(t, i)') = PhaseOf(exec[i], With(t, i))
     /\ Place(exec'[i]) = Place(exec[i]) /\ owner' = owner /\ left' = left
  \/ /\ Moves(t, i, "ready", "work", 0) /\ left' = left
     /\ Place(exec[i]) \in DOMAIN Network[i]
     /\ IF TakesAton(Network[i][Place(exec[i])]) THEN owner = None /\ owner' = i
                                                 ELSE owner' = owner
  \/ Moves(t, i, "work", "over", 0) /\ Freed(i) /\ left' = left
  \/ Moves(t, i, "over", "ready", 1) /\ owner' = owner /\ left' = left
  \/ Moves(t, i, "work", "ready", 1) /\ Freed(i) /\ left' = left
  \/ /\ PhaseOf(exec[i], With(t, i)) = "ready" \/ owner = i
     /\ PhaseOf(exec'[i], With(t, i)') = "ready" /\ Place(exec'[i]) = 1
     /\ Freed(i) /\ left[i] > 0 /\ left' = [left EXCEPT ![i] = left[i] - 1]

(* Such a step is one of EpochOrder's, or none.                            *)
LEMMA OrderSees ==
  ASSUME TypeOK, NEW t \in Threads, NEW i \in Serves[t],
         cur[t] = i \/ pc[t] = "ready", cur'[t] = i \/ pc'[t] = "ready",
         \A s \in Threads \ {t} : pc'[s] = pc[s] /\ cur'[s] = cur[s],
         \A j \in Inst \ {i} : exec'[j] = exec[j],
         OrderStep(t, i)
  PROVE  [Order!OrderNext]_(Order!orderVars)
<1>1. i \in Inst
  BY OneServer
<1>2. ASSUME NEW j \in Inst \ {i}
      PROVE  Phases'[j] = Phases[j] /\ Positions'[j] = Positions[j]
  <2>1. PICK s \in Threads : j \in Serves[s]
    BY ServesAssumption
  <2>2. PhaseOf(exec'[j], With(s, j)') = PhaseOf(exec[j], With(s, j))
    <3>1. CASE s = t
      BY <1>2, <3>1 DEF With, PhaseOf
    <3>2. CASE s # t
      BY <1>2, <3>2 DEF With, PhaseOf
    <3> QED BY <3>1, <3>2
  <2> QED BY <1>2, <2>1, <2>2, PhaseFacts
<1>3. /\ Phases[i] = PhaseOf(exec[i], With(t, i))
      /\ Phases'[i] = PhaseOf(exec'[i], With(t, i)')
      /\ Positions[i] = Place(exec[i]) /\ Positions'[i] = Place(exec'[i])
  BY PhaseFacts
<1>4. /\ Phases' = [Phases EXCEPT ![i] = Phases'[i]]
      /\ Positions' = [Positions EXCEPT ![i] = Positions'[i]]
  <2>1. DOMAIN Phases = Inst /\ DOMAIN Positions = Inst
    BY DEF Phases, Positions
  <2>2. Phases' = [j \in Inst |-> Phases'[j]] /\ Positions' = [j \in Inst |-> Positions'[j]]
    BY DEF Phases, Positions
  <2>3. Phases = [j \in Inst |-> Phases[j]] /\ Positions = [j \in Inst |-> Positions[j]]
    BY DEF Phases, Positions
  <2> QED BY <1>1, <1>2, <2>1, <2>2, <2>3
<1>5. Positions[i] \in Nat /\ Positions[i] + 0 = Positions[i]
  BY <1>1, <1>3 DEF Place, TypeOK, ExecStates
<1>6. Programs[i] = [n \in DOMAIN Network[i] |-> TakesAton(Network[i][n])]
  BY <1>1 DEF Programs
<1>7. CASE /\ PhaseOf(exec'[i], With(t, i)') = PhaseOf(exec[i], With(t, i))
           /\ Place(exec'[i]) = Place(exec[i]) /\ owner' = owner /\ left' = left
  <2>1. Phases' = Phases /\ Positions' = Positions
    <3>1. Phases'[i] = Phases[i] /\ Positions'[i] = Positions[i]
      BY <1>3, <1>7
    <3> QED BY <1>4, <3>1 DEF Phases, Positions
  <2> QED BY <1>7, <2>1 DEF Order!orderVars, Phases, Positions
<1>8. CASE /\ Moves(t, i, "ready", "work", 0) /\ left' = left
           /\ Place(exec[i]) \in DOMAIN Network[i]
           /\ IF TakesAton(Network[i][Place(exec[i])]) THEN owner = None /\ owner' = i
                                                       ELSE owner' = owner
  <2>1. Positions' = Positions
    BY <1>3, <1>4, <1>5, <1>8 DEF Moves, Positions
  <2>2. /\ Phases[i] = "ready" /\ Phases' = [Phases EXCEPT ![i] = "work"]
        /\ Positions[i] \in DOMAIN Programs[i]
        /\ IF Programs[i][Positions[i]] THEN owner = None /\ owner' = i ELSE owner' = owner
    BY <1>3, <1>4, <1>6, <1>8 DEF Moves
  <2>3. Order!Begin(i)
    BY <1>8, <2>1, <2>2 DEF Order!Begin, Phases, Positions, Programs
  <2> QED BY <1>1, <2>3 DEF Order!OrderNext
<1>9. CASE Moves(t, i, "work", "over", 0) /\ Freed(i) /\ left' = left
  <2>1. Positions' = Positions
    BY <1>3, <1>4, <1>5, <1>9 DEF Moves, Positions
  <2>2. Phases[i] = "work" /\ Phases' = [Phases EXCEPT ![i] = "over"]
    BY <1>3, <1>4, <1>9 DEF Moves
  <2>3. Order!Complete(i)
    BY <1>9, <2>1, <2>2 DEF Order!Complete, Order!NpuFreed, Freed, Phases, Positions
  <2> QED BY <1>1, <2>3 DEF Order!OrderNext
<1>10. CASE Moves(t, i, "over", "ready", 1) /\ owner' = owner /\ left' = left
  <2>1. Positions' = [Positions EXCEPT ![i] = @ + 1]
    BY <1>3, <1>4, <1>10 DEF Moves
  <2>2. Phases[i] = "over" /\ Phases' = [Phases EXCEPT ![i] = "ready"]
    BY <1>3, <1>4, <1>10 DEF Moves
  <2>3. Order!Advance(i)
    BY <1>10, <2>1, <2>2 DEF Order!Advance, Phases, Positions
  <2> QED BY <1>1, <2>3 DEF Order!OrderNext
<1>11. CASE Moves(t, i, "work", "ready", 1) /\ Freed(i) /\ left' = left
  <2>1. Positions' = [Positions EXCEPT ![i] = @ + 1]
    BY <1>3, <1>4, <1>11 DEF Moves
  <2>2. Phases[i] = "work" /\ Phases' = [Phases EXCEPT ![i] = "ready"]
    BY <1>3, <1>4, <1>11 DEF Moves
  <2>3. Order!CompleteAndAdvance(i)
    BY <1>11, <2>1, <2>2
    DEF Order!CompleteAndAdvance, Order!NpuFreed, Freed, Phases, Positions
  <2> QED BY <1>1, <2>3 DEF Order!OrderNext
<1>12. CASE /\ PhaseOf(exec[i], With(t, i)) = "ready" \/ owner = i
            /\ PhaseOf(exec'[i], With(t, i)') = "ready" /\ Place(exec'[i]) = 1
            /\ Freed(i) /\ left[i] > 0 /\ left' = [left EXCEPT ![i] = left[i] - 1]
  <2>1. Positions' = [Positions EXCEPT ![i] = 1]
    BY <1>3, <1>4, <1>12
  <2>2. Phases[i] = "ready" \/ owner = i
    BY <1>3, <1>12
  <2>3. Phases' = [Phases EXCEPT ![i] = "ready"]
    BY <1>3, <1>4, <1>12
  <2>4. Order!Restart(i)
    BY <1>12, <2>1, <2>2, <2>3 DEF Order!Restart, Order!NpuFreed, Freed, Phases, Positions
  <2> QED BY <1>1, <2>4 DEF Order!OrderNext
<1> QED BY <1>7, <1>8, <1>9, <1>10, <1>11, <1>12 DEF OrderStep

(* Steps within a block, or between two calls, are none of the order's.    *)
LEMMA StaysInOrder ==
  ASSUME NEW t \in Threads, NEW i \in Serves[t], SamePlace(exec[i], exec'[i]),
         exec'[i].started = exec[i].started, owner' = owner, left' = left,
         With(t, i) \notin {"acquire", "determine"}, With(t, i)' \notin {"acquire", "determine"}
  PROVE  OrderStep(t, i)
<1>1. PhaseOf(exec'[i], With(t, i)') = PhaseOf(exec[i], With(t, i))
  BY DEF PhaseOf, SamePlace
<1>2. Place(exec'[i]) = Place(exec[i])
  BY DEF Place, SamePlace
<1> QED BY <1>1, <1>2 DEF OrderStep

LEMMA QuietInOrder ==
  ASSUME Invariant, NEW t \in Threads, NEW i \in Serves[t],
         \/ Call(t, i)
         \/ i = cur[t] /\ (Enter(t, i) \/ Clear(t, i) \/ Wfe(t, i) \/ Finish(t, i) \/ Pause(t, i))
  PROVE  [Order!OrderNext]_(Order!orderVars)
<1> USE DEF Invariant
<1>1. i \in Inst /\ exec[i] \in ExecStates
  BY OneServer DEF TypeOK
<1>2. /\ cur[t] = i \/ pc[t] = "ready"
      /\ cur'[t] = i \/ pc'[t] = "ready"
      /\ pc[t] \notin {"acquire", "determine"} /\ pc'[t] \notin {"acquire", "determine"}
      /\ \A s \in Threads \ {t} : pc'[s] = pc[s] /\ cur'[s] = cur[s]
      /\ owner' = owner /\ left' = left
  BY <1>1 DEF Call, Enter, Clear, Wfe, Finish, Pause, Goto, ownership, TypeOK
<1>3. \/ UNCHANGED exec
      \/ exec' = [exec EXCEPT ![i].inferring = TRUE]
      \/ exec' = [exec EXCEPT ![i].triggered = @ \ WaitOf(Current(i))]
  BY DEF Call, Enter, Clear, Wfe, Finish, Pause
<1>4. /\ SamePlace(exec[i], exec'[i]) /\ exec'[i].started = exec[i].started
      /\ \A j \in Inst \ {i} : exec'[j] = exec[j]
  <2>1. CASE exec' = [exec EXCEPT ![i].inferring = TRUE]
    BY <1>1, <2>1 DEF SamePlace, TypeOK, ExecStates
  <2>2. CASE exec' = [exec EXCEPT ![i].triggered = @ \ WaitOf(Current(i))]
    BY <1>1, <2>2 DEF SamePlace, TypeOK, ExecStates
  <2> QED BY <1>3, <2>1, <2>2 DEF SamePlace
<1>5. OrderStep(t, i)
  BY <1>2, <1>4, StaysInOrder DEF With
<1> QED BY <1>2, <1>4, <1>5, OrderSees

(* The start of a block: it begins, unless it waits for the NPU first or   *)
(* is an inserted one.                                                     *)
LEMMA StartInOrder ==
  ASSUME Invariant, NEW t \in Threads, NEW i \in Serves[t], i = cur[t], Start(t, i)
  PROVE  [Order!OrderNext]_(Order!orderVars)
<1> USE DEF Invariant, Protocol
<1>1. i \in Inst /\ exec[i] \in ExecStates
  BY OneServer DEF TypeOK
<1>2. /\ pc[t] = "next?" /\ ~exec[i].started /\ owner' = owner /\ left' = left
      /\ pc'[t] = IF TakesAton(Current(i)) THEN "acquire" ELSE "launch"
      /\ cur'[t] = i /\ \A s \in Threads \ {t} : pc'[s] = pc[s] /\ cur'[s] = cur[s]
      /\ Current(i).kind # "last"
  BY DEF Start, IsLast, Goto, ownership, TypeOK
<1>3. /\ SamePlace(exec[i], exec'[i]) /\ exec'[i].started
      /\ \A j \in Inst \ {i} : exec'[j] = exec[j]
  <2>1. exec'[i] = [exec[i] EXCEPT !.started = TRUE] /\ \A j \in Inst \ {i} : exec'[j] = exec[j]
    BY <1>1 DEF Start, TypeOK
  <2> QED BY <1>1, <2>1, StartChange
<1>4. exec[i].next = None
  BY <1>2 DEF Inserts
<1>5. Place(exec'[i]) = Place(exec[i]) /\ Place(exec[i]) + 0 = Place(exec[i])
  BY <1>1, <1>3 DEF Place, SamePlace, ExecStates
<1>6. OrderStep(t, i)
  <2>1. CASE exec[i].list # "net" \/ TakesAton(Current(i))
    <3>1. exec[i].list = "net" => With(t, i)' = "acquire"
      BY <1>2, <2>1 DEF With
    <3>2. PhaseOf(exec'[i], With(t, i)') = PhaseOf(exec[i], With(t, i))
      BY <1>2, <1>3, <3>1 DEF PhaseOf, SamePlace
    <3> QED BY <1>2, <1>5, <3>2 DEF OrderStep
  <2>2. CASE exec[i].list = "net" /\ ~TakesAton(Current(i))
    <3>1. Current(i).kind \in {"hw", "sw", "hybrid"}
      BY <1>1, <1>2, <2>2, BlockFacts
    <3>2. exec[i].at \in DOMAIN Network[i] /\ Current(i) = Network[i][exec[i].at]
      BY <1>1, <3>1, BlockFacts
    <3>3. Place(exec[i]) = exec[i].at
      BY <1>1, <2>2 DEF LibShape, Place
    <3>4. Moves(t, i, "ready", "work", 0)
      BY <1>2, <1>3, <1>4, <1>5, <2>2 DEF Moves, PhaseOf, With, SamePlace
    <3> QED BY <1>2, <2>2, <3>2, <3>3, <3>4 DEF OrderStep
  <2> QED BY <2>1, <2>2
<1> QED BY <1>2, <1>3, <1>6, OrderSees

(* A block that takes the NPU begins when it gets it.                      *)
LEMMA AcquireInOrder ==
  ASSUME Invariant, NEW t \in Threads, NEW i \in Serves[t], i = cur[t], Acquire(t, i)
  PROVE  [Order!OrderNext]_(Order!orderVars)
<1> USE DEF Invariant, Protocol
<1>1. i \in Inst /\ exec[i] \in ExecStates
  BY OneServer DEF TypeOK
<1>2. /\ pc[t] = "acquire" /\ owner = None /\ owner' = i /\ left' = left /\ exec' = exec
      /\ pc'[t] = "launch"
      /\ cur'[t] = i /\ \A s \in Threads \ {t} : pc'[s] = pc[s] /\ cur'[s] = cur[s]
  BY DEF Acquire, AcquireAsserts, Goto, TypeOK
<1>3. TakesAton(Current(i)) /\ exec[i].started /\ exec[i].next = None
  BY <1>2 DEF Owners, Starts, InBlock, Inserts
<1>4. /\ exec[i].list = "net" /\ exec[i].at \in DOMAIN Network[i]
      /\ Current(i) = Network[i][exec[i].at]
  BY <1>1, <1>3, BlockFacts DEF TakesAton
<1>5. Place(exec[i]) = exec[i].at /\ Place(exec[i]) + 0 = Place(exec[i])
  BY <1>1, <1>4 DEF LibShape, Place, ExecStates
<1>6. Moves(t, i, "ready", "work", 0)
  BY <1>2, <1>3, <1>4, <1>5 DEF Moves, PhaseOf, With
<1>7. OrderStep(t, i)
  BY <1>2, <1>3, <1>4, <1>5, <1>6 DEF OrderStep
<1> QED BY <1>2, <1>7, OrderSees

(* The work of a block starts: a hybrid block inserts its operator.        *)
LEMMA LaunchInOrder ==
  ASSUME Invariant, NEW t \in Threads, NEW i \in Serves[t], i = cur[t], Launch(t, i)
  PROVE  [Order!OrderNext]_(Order!orderVars)
<1> USE DEF Invariant, Protocol
<1>1. i \in Inst /\ exec[i] \in ExecStates
  BY OneServer DEF TypeOK
<1>2. /\ pc[t] = "launch" /\ owner' = owner /\ left' = left
      /\ pc'[t] \in {"end", "wfe"}
      /\ cur'[t] = i /\ \A s \in Threads \ {t} : pc'[s] = pc[s] /\ cur'[s] = cur[s]
  BY DEF Launch, Goto, ownership, TypeOK
<1>3. exec[i].started
  BY <1>2 DEF Starts, InBlock
<1>4. \/ exec' = exec
      \/ /\ Current(i).kind = "hybrid" /\ Current(i).op # None
         /\ exec' = [exec EXCEPT ![i] = Insert(exec[i], Current(i).op)]
  BY DEF Launch, HwStarts, HybridStarts, LibStarts
<1>5. /\ \A j \in Inst \ {i} : exec'[j] = exec[j]
      /\ exec'[i].list = exec[i].list /\ exec'[i].at = exec[i].at
      /\ exec'[i].saved = exec[i].saved /\ exec'[i].started
  <2>1. CASE exec' = exec
    BY <1>3, <2>1
  <2>2. CASE /\ Current(i).kind = "hybrid" /\ Current(i).op # None
             /\ exec' = [exec EXCEPT ![i] = Insert(exec[i], Current(i).op)]
    <3>1. Current(i).op \in Ops
      BY <1>1, <2>2, BlockFacts
    <3>2. exec'[i] = Insert(exec[i], Current(i).op) /\ \A j \in Inst \ {i} : exec'[j] = exec[j]
      BY <1>1, <2>2 DEF TypeOK
    <3> QED BY <1>1, <1>3, <3>1, <3>2, InsertChange
  <2> QED BY <1>4, <2>1, <2>2
<1>6. OrderStep(t, i)
  BY <1>2, <1>3, <1>5 DEF OrderStep, PhaseOf, With, Place
<1> QED BY <1>2, <1>5, <1>6, OrderSees

(* The end function of an inserted block does not leave the hybrid block   *)
(* that inserted it.                                                       *)
LEMMA LibEndPlace ==
  ASSUME TypeOK, LibShape, NEW i \in Inst, Current(i).kind = "internal"
  PROVE  Place(LibEnd(exec[i], Current(i).op)) = Place(exec[i])
<1> DEFINE x == exec[i]
           op == Current(i).op
           y == LibEnd(x, op)
<1>1. x \in ExecStates /\ x.saved # 0 /\ op \in Ops
  BY BlockFacts DEF TypeOK, LibShape
<1>2. y \in ExecStates /\ (y.saved # 0 => y.saved = x.saved)
  BY LibEndFacts
<1>3. y.saved = 0 => y.at = x.saved
  <2>1. Return(x) \in ExecStates /\ Return(x).at = x.saved
    BY <1>1, BackChange
  <2>2. ASSUME NEW o \in Ops PROVE Insert(Return(x), o).at = x.saved
    BY <2>1, <2>2, InsertChange
  <2>3. \/ y = [x EXCEPT !.at = @ - 1] \/ y = x \/ y = Return(x)
        \/ Lib[op].then \in Ops /\ y = Insert(Return(x), Lib[op].then)
    BY <1>1, LibAssumption DEF LibEnd
  <2>4. [x EXCEPT !.at = @ - 1].saved # 0
    BY <1>1 DEF ExecStates
  <2> QED BY <1>1, <2>1, <2>2, <2>3, <2>4
<1> QED BY <1>1, <1>2, <1>3 DEF Place

(* The end of a block: it is over, unless blocks are still to be inserted  *)
(* or under way.                                                           *)
LEMMA EndInOrder ==
  ASSUME Invariant, NEW t \in Threads, NEW i \in Serves[t], i = cur[t], End(t, i)
  PROVE  [Order!OrderNext]_(Order!orderVars)
<1> DEFINE b == Current(i)
           x == IF b.kind = "internal" THEN LibEnd(exec[i], b.op) ELSE exec[i]
<1> USE DEF Invariant, Protocol
<1>1. i \in Inst /\ i # None /\ exec[i] \in ExecStates
  BY OneServer DEF TypeOK
<1>2. /\ pc[t] = "end" /\ pc'[t] = "determine" /\ left' = left /\ EndAsserts(i)
      /\ cur'[t] = i /\ \A s \in Threads \ {t} : pc'[s] = pc[s] /\ cur'[s] = cur[s]
      /\ exec'[i] = x /\ \A j \in Inst \ {i} : exec'[j] = exec[j]
      /\ IF GivesAton(b, x) THEN ReleaseAton ELSE UNCHANGED ownership
  BY <1>1 DEF End, Goto, TypeOK
<1>3. exec[i].started
  BY <1>2 DEF Starts, InBlock
<1>4. x \in ExecStates /\ x.started /\ Place(x) = Place(exec[i])
  BY <1>1, <1>3, LibEndFacts, LibEndPlace
<1>5. owner = i <=> b.kind \in {"hw", "hybrid"} \/ exec[i].list # "net" \/ exec[i].next # None
  BY <1>1, <1>2, <1>3 DEF Owners, Holds, TakesAton
<1>6. /\ b.kind \in {"hw", "sw", "hybrid", "internal", "last"}
      /\ b.kind \in {"hw", "sw", "hybrid"} => exec[i].list = "net"
      /\ b.kind = "internal" => exec[i].list # "net"
  BY <1>1, BlockFacts
<1>7. /\ x.saved = 0 <=> x.list = "net"
      /\ x.saved # 0 => x.next = None
      /\ b.kind \in {"hw", "sw"} => x.next = None
  <2>1. CASE b.kind = "internal"
    <3>1. exec[i].saved # 0 /\ exec[i].list # "net"
      BY <1>1, <1>6, <2>1 DEF LibShape
    <3> QED BY <1>1, <2>1, <3>1, LibEndFacts
  <2>2. CASE b.kind # "internal"
    <3>1. x = exec[i]
      BY <2>2
    <3>2. IsHybrid(i, exec[i].at) /\ exec[i].list = "net" => b.kind = "hybrid"
      BY <1>1 DEF IsHybrid, Current, Block
    <3> QED BY <1>1, <3>1, <3>2 DEF LibShape
  <2> QED BY <2>1, <2>2
<1> HIDE DEF x
<1>8. PhaseOf(exec[i], With(t, i)) = "work"
  BY <1>2, <1>3 DEF PhaseOf, With
<1>9. Place(exec'[i]) = Place(exec[i]) /\ Place(exec[i]) + 0 = Place(exec[i])
  BY <1>1, <1>2, <1>4 DEF Place, ExecStates
<1>10. OrderStep(t, i)
  <2>1. CASE x.list = "net" /\ x.next = None
    <3>1. Moves(t, i, "work", "over", 0)
      BY <1>2, <1>4, <1>8, <1>9, <2>1 DEF Moves, PhaseOf, With
    <3>2. GivesAton(b, x) <=> b.kind \in {"hw", "hybrid", "internal"}
      BY <1>7, <2>1 DEF GivesAton
    <3>3. b.kind \notin {"hw", "hybrid", "internal"} => owner # i
      <4>1. CASE b.kind = "sw"
        BY <1>2, <4>1 DEF EndAsserts
      <4>2. CASE b.kind = "last"
        <5>1. x = exec[i]
          BY <4>2 DEF x
        <5> QED BY <1>5, <2>1, <4>2, <5>1
      <4> QED BY <1>6, <4>1, <4>2
    <3>4. Freed(i)
      BY <1>2, <1>5, <1>6, <3>2, <3>3 DEF Freed, ReleaseAton, ownership
    <3> QED BY <1>2, <3>1, <3>4 DEF OrderStep
  <2>2. CASE ~(x.list = "net" /\ x.next = None)
    <3>1. PhaseOf(exec'[i], With(t, i)') = "work"
      BY <1>2, <2>2 DEF PhaseOf
    <3>2. ~GivesAton(b, x)
      <4>1. CASE b.kind = "hw"
        <5>1. x = exec[i]
          BY <4>1 DEF x
        <5> QED BY <1>6, <1>7, <2>2, <4>1, <5>1
      <4>2. CASE b.kind # "hw"
        BY <1>7, <2>2, <4>2 DEF GivesAton
      <4> QED BY <4>1, <4>2
    <3>3. owner' = owner
      BY <1>2, <3>2 DEF ownership
    <3> QED BY <1>2, <1>8, <1>9, <3>1, <3>3 DEF OrderStep
  <2> QED BY <2>1, <2>2
<1> QED BY <1>2, <1>10, OrderSees

(* On to the next block, or into the inserted ones.                        *)
LEMMA DetermineInOrder ==
  ASSUME Invariant, NEW t \in Threads, NEW i \in Serves[t], i = cur[t], Determine(t, i)
  PROVE  [Order!OrderNext]_(Order!orderVars)
<1> USE DEF Invariant, Protocol
<1>1. i \in Inst /\ exec[i] \in ExecStates
  BY OneServer DEF TypeOK
<1>2. /\ pc[t] = "determine" /\ owner' = owner /\ left' = left
      /\ pc'[t] \in {"next?", "ready"}
      /\ cur'[t] = i /\ \A s \in Threads \ {t} : pc'[s] = pc[s] /\ cur'[s] = cur[s]
      /\ \A j \in Inst \ {i} : exec'[j] = exec[j]
  BY <1>1 DEF Determine, Goto, ownership, TypeOK
<1>3. exec[i].started
  BY <1>2 DEF Starts, InBlock
<1>4. Place(exec[i]) \in Nat
  BY <1>1 DEF Place, ExecStates
<1>5. OrderStep(t, i)
  <2>1. CASE exec[i].next # None
    <3>1. exec[i].list = "net" /\ exec[i].saved = 0 /\ exec[i].at # 0 /\ exec[i].next \in Ops
      BY <1>1, <2>1, NetworkAssumption DEF LibShape, IsHybrid, ExecStates, Blocks
    <3>2. exec'[i].list \in Ops /\ exec'[i].saved = exec[i].at
      <4>1. exec'[i] = [exec[i] EXCEPT !.saved = exec[i].at, !.list = exec[i].next, !.at = 1,
                                       !.next = None, !.started = FALSE]
        BY <1>1, <2>1 DEF Determine, TypeOK
      <4>2. exec[i] \in ExecStates /\ exec[i].next \in Ops
        BY <1>1, <3>1
      <4>3. exec'[i].list = exec[i].next /\ exec'[i].saved = exec[i].at
        BY ONLY <4>1, <4>2, IntoChange
      <4> QED BY <3>1, <4>3
    <3>3. Place(exec'[i]) = Place(exec[i])
      BY <3>1, <3>2 DEF Place
    <3>4. PhaseOf(exec'[i], With(t, i)') = PhaseOf(exec[i], With(t, i))
      BY <2>1, <3>2, NamesAssumption DEF PhaseOf
    <3> QED BY <1>2, <3>3, <3>4 DEF OrderStep
  <2>2. CASE exec[i].next = None
    <3>1. /\ exec'[i].list = exec[i].list /\ exec'[i].at = exec[i].at + 1
          /\ exec'[i].next = None /\ exec'[i].saved = exec[i].saved /\ ~exec'[i].started
      <4>1. exec'[i] = [exec[i] EXCEPT !.at = exec[i].at + 1, !.started = FALSE]
        BY <1>1, <2>2 DEF Determine, TypeOK
      <4> QED BY <1>1, <2>2, <4>1, OnChange
    <3>2. CASE exec[i].list = "net"
      <4>1. exec[i].saved = 0
        BY <1>1, <3>2 DEF LibShape
      <4>2. Moves(t, i, "over", "ready", 1)
        BY <1>2, <1>3, <2>2, <3>1, <3>2, <4>1 DEF Moves, PhaseOf, With, Place
      <4> QED BY <1>2, <4>2 DEF OrderStep
    <3>3. CASE exec[i].list # "net"
      <4>1. exec[i].saved # 0
        BY <1>1, <3>3 DEF LibShape
      <4> QED BY <1>2, <3>1, <3>3, <4>1 DEF OrderStep, PhaseOf, Place
    <3> QED BY <3>2, <3>3
  <2> QED BY <2>1, <2>2
<1> QED BY <1>2, <1>5, OrderSees

(* Out of the inserted blocks: the hybrid block is over, and the network   *)
(* at the next one.                                                        *)
LEMMA LeaveLibInOrder ==
  ASSUME Invariant, NEW t \in Threads, NEW i \in Serves[t], i = cur[t], LeaveLib(t, i)
  PROVE  [Order!OrderNext]_(Order!orderVars)
<1> USE DEF Invariant, Protocol
<1>1. i \in Inst /\ exec[i] \in ExecStates
  BY OneServer DEF TypeOK
<1>2. /\ pc[t] = "next?" /\ owner = i /\ owner' = None /\ left' = left
      /\ exec[i].saved # 0 /\ exec[i].next = None
      /\ cur'[t] = i /\ \A s \in Threads \ {t} : pc'[s] = pc[s] /\ cur'[s] = cur[s]
      /\ \A j \in Inst \ {i} : exec'[j] = exec[j]
      /\ exec'[i] = [Return(exec[i]) EXCEPT !.at = exec[i].saved + 1]
  BY <1>1 DEF LeaveLib, ReleaseAton, Goto, TypeOK
<1>3. exec[i].list # "net" /\ ~exec[i].started
  BY <1>1, <1>2 DEF LibShape, Starts, InBlock
<1>4. /\ exec'[i].list = "net" /\ exec'[i].next = None /\ ~exec'[i].started
      /\ exec'[i].saved = 0 /\ exec'[i].at = exec[i].saved + 1
  BY <1>1, <1>2, <1>3, ReturnChange
<1>5. Moves(t, i, "work", "ready", 1)
  BY <1>2, <1>3, <1>4 DEF Moves, PhaseOf, Place
<1>6. OrderStep(t, i)
  BY <1>2, <1>5 DEF OrderStep, Freed
<1> QED BY <1>2, <1>6, OrderSees

(* A reset: back to the first block, and the NPU with it.                  *)
LEMMA ResetInOrder ==
  ASSUME Invariant, NEW t \in Threads, NEW i \in Serves[t], Abort(t, i) \/ (i = cur[t] /\ Done(t, i))
  PROVE  [Order!OrderNext]_(Order!orderVars)
<1> USE DEF Invariant, Protocol
<1>1. i \in Inst /\ exec[i] \in ExecStates
  BY OneServer DEF TypeOK
<1>2. /\ cur[t] = i \/ pc[t] = "ready"
      /\ pc[t] \in {"ready", "done"} /\ pc'[t] = "ready" /\ left[i] > 0
      /\ \A s \in Threads \ {t} : pc'[s] = pc[s] /\ cur'[s] = cur[s]
      /\ left' = [left EXCEPT ![i] = left[i] - 1]
      /\ \A j \in Inst \ {i} : exec'[j] = exec[j]
      /\ exec'[i] = InitExec /\ Freed(i)
  BY <1>1 DEF Abort, Done, Reset, ReleaseAton, Goto, ownership, Freed, TypeOK, Serving
<1>3. /\ exec'[i].list = "net" /\ exec'[i].next = None /\ ~exec'[i].started
      /\ exec'[i].saved = 0 /\ exec'[i].at = 1
  BY <1>2 DEF InitExec
<1>4. PhaseOf(exec'[i], With(t, i)') = "ready" /\ Place(exec'[i]) = 1
  BY <1>3 DEF PhaseOf, Place
<1>5. PhaseOf(exec[i], With(t, i)) = "ready" \/ owner = i
  <2>1. ~exec[i].started
    BY <1>2 DEF Starts, InBlock
  <2> QED BY <1>1, <2>1 DEF LibShape, PhaseOf
<1>6. OrderStep(t, i)
  BY <1>2, <1>4, <1>5 DEF OrderStep
<1> QED BY <1>2, <1>6, OrderSees

(* The handler and the NPU leave every network at its place.               *)
LEMMA QuietPlaces ==
  ASSUME Invariant, IsrStep \/ NpuStep \/ UNCHANGED vars
  PROVE  \A i \in Inst : SamePlace(exec[i], exec'[i]) /\ exec'[i].started = exec[i].started
<1>1. CASE IsrAck
  <2>1. owner \in Inst /\ exec[owner] \in ExecStates
    BY <1>1 DEF Invariant, TypeOK, IsrAck, IsrAsserts
  <2>2. PICK e : exec' = [exec EXCEPT ![owner].triggered = e]
    BY <1>1 DEF IsrAck, IrqEpochBlob, IrqEpochBlock
  <2> QED BY <2>1, <2>2 DEF Invariant, TypeOK, SamePlace, ExecStates
<1>2. CASE UNCHANGED exec
  BY <1>2 DEF SamePlace
<1> QED BY <1>1, <1>2 DEF IsrStep, IsrEnter, IsrClear, NpuStep, vars

(* The handler and the NPU leave the order alone.                          *)
LEMMA OthersInOrder ==
  ASSUME Invariant, IsrStep \/ NpuStep \/ UNCHANGED vars
  PROVE  UNCHANGED Order!orderVars
<1>1. UNCHANGED <<pc, cur, owner, left>>
  BY DEF IsrStep, IsrEnter, IsrAck, IsrClear, NpuStep, vars, threadVars, ownership
<1>2. \A i \in Inst : SamePlace(exec[i], exec'[i]) /\ exec'[i].started = exec[i].started
  BY QuietPlaces
<1>3. Positions' = Positions
  BY <1>2 DEF Positions, SamePlace
<1>4. Phases' = Phases
  BY <1>1, <1>2 DEF Phases, InOwnBlocks, IsAt, SamePlace, ServedBy
<1> QED BY <1>1, <1>3, <1>4 DEF Order!orderVars, Positions, Phases

(* The blocks of every network are worked on one at a time, in their order *)
(* and with the NPU to themselves where they take it, whatever the users   *)
(* do: the runtime implements EpochOrder.                                  *)
THEOREM RuntimeKeepsOrder == Spec => ImplementsEpochOrder
<1>1. Init => Order!OrderInit
  <2> SUFFICES ASSUME Init PROVE Order!OrderInit
    OBVIOUS
  <2>1. \A i \in Inst : /\ exec[i].list = "net" /\ exec[i].at = 1 /\ exec[i].next = None
                        /\ exec[i].saved = 0 /\ ~exec[i].started
    BY DEF Init, InitExec
  <2>2. Positions = [i \in Inst |-> 1] /\ Phases = [i \in Inst |-> "ready"]
    BY <2>1 DEF Positions, Phases, InOwnBlocks
  <2>3. left \in [Inst -> Nat] /\ owner = None
    BY InferencesAssumption DEF Init
  <2> QED BY <2>2, <2>3 DEF Order!OrderInit, Positions, Phases
<1>2. ASSUME Invariant, NEW t \in Threads, ThreadStep(t)
      PROVE  [Order!OrderNext]_(Order!orderVars)
  <2>1. ASSUME NEW i \in Serves[t], Call(t, i) \/ Abort(t, i)
        PROVE  [Order!OrderNext]_(Order!orderVars)
    <3>1. CASE Call(t, i)
      BY <1>2, <3>1, QuietInOrder
    <3>2. CASE Abort(t, i)
      BY <1>2, <3>2, ResetInOrder
    <3> QED BY <2>1, <3>1, <3>2
  <2>2. ASSUME RunEpochBlock(t, cur[t]) \/ Wfe(t, cur[t]) \/ Done(t, cur[t])
        PROVE  [Order!OrderNext]_(Order!orderVars)
    <3>1. pc[t] # "ready"
      BY <2>2 DEF RunEpochBlock, Wfe, Done, Enter, Clear, End, Determine, LeaveLib, Finish,
                  Pause, Start, Acquire, Launch
    <3>2. cur[t] \in Serves[t]
      BY <1>2, <3>1 DEF Invariant, Protocol, Serving
    <3> QED BY <1>2, <2>2, <3>2, QuietInOrder, ResetInOrder, StartInOrder, AcquireInOrder,
               LaunchInOrder, EndInOrder, DetermineInOrder, LeaveLibInOrder
            DEF RunEpochBlock
  <2> QED BY <1>2, <2>1, <2>2 DEF ThreadStep
<1>3. ASSUME Invariant, [Next]_vars PROVE [Order!OrderNext]_(Order!orderVars)
  BY <1>2, <1>3, OthersInOrder DEF Next, Rest
<1> QED BY <1>1, <1>3, Invariance, PTL DEF Spec, ImplementsEpochOrder, Order!OrderSpec

-----------------------------------------------------------------------------
(* The turns of the operators *)

(* How many turns the operator in x has made, when its index is idx and    *)
(* its thread is at place: in a turn, or past the last one.                *)
TurnsOf(x, idx, place) ==
  /\ x.list # "net" =>
       LET last == Len(Lib[x.list].rounds)
       IN  IF place = "determine"
           THEN (x.at = 0 /\ idx \in 1..last) \/ (x.at = 1 /\ idx = last + 1)
           ELSE (x.at = 1 /\ idx \in 1..last) \/ (x.at = 2 /\ idx = last + 1 /\ ~x.started)
  /\ x.next # None => idx = 1

Turns == \A t \in Threads : \A i \in Serves[t] : TurnsOf(exec[i], libIdx, With(t, i))

(* Instance i does not leave an operator before its turns are made.        *)
Stays(i) ==
  exec[i].list # "net" /\ exec'[i].list = "net" /\ left'[i] = left[i]
    => libIdx = Len(Lib[exec[i].list].rounds) + (IF exec[i].at = 1 THEN 0 ELSE 1)

(* An operator has a turn to make.                                         *)
LEMMA RoundsFacts ==
  ASSUME NEW op \in Ops
  PROVE  Len(Lib[op].rounds) \in Nat /\ Len(Lib[op].rounds) >= 1
<1>1. Lib[op].rounds \in Seq(BOOLEAN) /\ Lib[op].rounds # <<>>
  BY LibAssumption
<1> QED BY <1>1

(* A step of thread t on instance i: the index belongs to i if it changes. *)
LEMMA TurnsStay ==
  ASSUME Invariant, Turns, NEW t \in Threads, NEW i \in Serves[t],
         cur[t] = i \/ pc[t] = "ready", cur'[t] = i \/ pc'[t] = "ready",
         \A s \in Threads \ {t} : pc'[s] = pc[s] /\ cur'[s] = cur[s],
         \A j \in Inst \ {i} : exec'[j] = exec[j],
         libIdx' = libIdx \/ owner = i,
         TurnsOf(exec'[i], libIdx', With(t, i)'), Stays(i)
  PROVE  Turns' /\ \A j \in Inst : Stays(j)
<1>1. i \in Inst
  BY OneServer
<1>2. ASSUME NEW s \in Threads, NEW j \in Serves[s], j # i
      PROVE  TurnsOf(exec'[j], libIdx', With(s, j)')
  <2>1. j \in Inst /\ exec'[j] = exec[j]
    BY <1>2, OneServer
  <2>2. exec[j].list # "net" \/ exec[j].next # None => libIdx' = libIdx
    BY <1>2, <2>1 DEF Invariant, Protocol, LibShape
  <2>3. With(s, j)' = With(s, j)
    <3>1. CASE s = t
      BY <1>2, <3>1 DEF With
    <3>2. CASE s # t
      BY <3>2 DEF With
    <3> QED BY <3>1, <3>2
  <2>4. TurnsOf(exec[j], libIdx, With(s, j))
    BY DEF Turns
  <2> QED BY <2>1, <2>2, <2>3, <2>4 DEF TurnsOf
<1>3. ASSUME NEW s \in Threads, i \in Serves[s]
      PROVE  s = t
  BY <1>3, OneServer
<1>4. Turns'
  <2>1. ASSUME NEW s \in Threads, NEW j \in Serves'[s]
        PROVE  TurnsOf(exec'[j], libIdx', With(s, j)')
    <3>1. CASE j = i
      BY <1>3, <3>1
    <3>2. CASE j # i
      BY <1>2, <3>2
    <3> QED BY <3>1, <3>2
  <2> QED BY <2>1 DEF Turns
<1>5. ASSUME NEW j \in Inst PROVE Stays(j)
  BY DEF Stays
<1> QED BY <1>4, <1>5

(* Steps that leave the instance at its place.                             *)
LEMMA QuietTurns ==
  ASSUME Invariant, Turns, NEW t \in Threads, NEW i \in Serves[t],
         \/ Call(t, i)
         \/ i = cur[t] /\ \/ Enter(t, i) \/ Clear(t, i) \/ Wfe(t, i) \/ Finish(t, i)
                          \/ Pause(t, i) \/ Start(t, i) \/ Acquire(t, i)
  PROVE  Turns' /\ \A j \in Inst : Stays(j)
<1> USE DEF Invariant
<1>1. i \in Inst /\ exec[i] \in ExecStates
  BY OneServer DEF TypeOK
<1>2. /\ cur[t] = i \/ pc[t] = "ready"
      /\ cur'[t] = i \/ pc'[t] = "ready"
      /\ pc[t] # "determine" /\ pc'[t] # "determine"
      /\ \A s \in Threads \ {t} : pc'[s] = pc[s] /\ cur'[s] = cur[s]
      /\ libIdx' = libIdx
  BY <1>1 DEF Call, Enter, Clear, Wfe, Finish, Pause, Start, Acquire, Goto, libVars, TypeOK
<1>3. \/ UNCHANGED exec
      \/ exec' = [exec EXCEPT ![i].inferring = TRUE]
      \/ exec' = [exec EXCEPT ![i].triggered = @ \ WaitOf(Current(i))]
      \/ exec' = [exec EXCEPT ![i].started = TRUE] /\ Current(i).kind # "last"
  BY DEF Call, Enter, Clear, Wfe, Finish, Pause, Start, Acquire, IsLast
<1>4. /\ SamePlace(exec[i], exec'[i])
      /\ exec'[i].started = exec[i].started \/ Current(i).kind # "last"
      /\ \A j \in Inst \ {i} : exec'[j] = exec[j]
  <2>1. CASE exec' = [exec EXCEPT ![i].inferring = TRUE]
    BY <1>1, <2>1 DEF SamePlace, TypeOK, ExecStates
  <2>2. CASE exec' = [exec EXCEPT ![i].triggered = @ \ WaitOf(Current(i))]
    BY <1>1, <2>2 DEF SamePlace, TypeOK, ExecStates
  <2>3. CASE exec' = [exec EXCEPT ![i].started = TRUE] /\ Current(i).kind # "last"
    BY <1>1, <2>3 DEF SamePlace, TypeOK, ExecStates
  <2> QED BY <1>3, <2>1, <2>2, <2>3 DEF SamePlace
<1>5. exec[i].at = 2 => exec[i].list = "net" \/ Current(i).kind = "last"
  BY DEF Current, Block, LastEb
<1>6. TurnsOf(exec[i], libIdx, With(t, i))
  BY DEF Turns
<1>7. TurnsOf(exec'[i], libIdx', With(t, i)')
  BY <1>2, <1>4, <1>5, <1>6 DEF TurnsOf, With, SamePlace
<1>8. Stays(i)
  BY <1>4 DEF Stays, SamePlace
<1> QED BY <1>2, <1>4, <1>7, <1>8, TurnsStay

(* An operator is inserted at its first turn.                              *)
LEMMA LaunchTurns ==
  ASSUME Invariant, Turns, NEW t \in Threads, NEW i \in Serves[t], i = cur[t], Launch(t, i)
  PROVE  Turns' /\ \A j \in Inst : Stays(j)
<1> USE DEF Invariant, Protocol
<1>1. i \in Inst /\ exec[i] \in ExecStates
  BY OneServer DEF TypeOK
<1>2. /\ pc[t] = "launch" /\ pc'[t] \in {"end", "wfe"} /\ LaunchAsserts(i)
      /\ cur'[t] = i /\ \A s \in Threads \ {t} : pc'[s] = pc[s] /\ cur'[s] = cur[s]
  BY DEF Launch, Goto, TypeOK
<1>3. TurnsOf(exec[i], libIdx, With(t, i))
  BY DEF Turns
<1>4. CASE exec' = exec /\ libIdx' = libIdx
  <2>1. TurnsOf(exec'[i], libIdx', With(t, i)')
    BY <1>2, <1>3, <1>4 DEF TurnsOf, With
  <2>2. Stays(i)
    BY <1>4 DEF Stays
  <2> QED BY <1>2, <1>4, <2>1, <2>2, TurnsStay
<1>5. CASE /\ Current(i).kind = "hybrid" /\ Current(i).op # None /\ libIdx' = 1
           /\ exec' = [exec EXCEPT ![i] = Insert(exec[i], Current(i).op)]
  <2>1. Current(i).op \in Ops /\ exec[i].list = "net"
    BY <1>1, <1>5, BlockFacts
  <2>2. exec'[i] = Insert(exec[i], Current(i).op) /\ \A j \in Inst \ {i} : exec'[j] = exec[j]
    BY <1>1, <1>5 DEF TypeOK
  <2>3. exec'[i].list = "net"
    BY <1>1, <2>1, <2>2, InsertChange
  <2>4. TurnsOf(exec'[i], libIdx', With(t, i)') /\ Stays(i)
    BY <1>5, <2>1, <2>3 DEF TurnsOf, Stays
  <2>5. owner = i
    BY <1>2, <1>5 DEF LaunchAsserts
  <2> QED BY <1>2, <2>2, <2>4, <2>5, TurnsStay
<1>6. \/ exec' = exec /\ libIdx' = libIdx
      \/ /\ Current(i).kind = "hybrid" /\ Current(i).op # None /\ libIdx' = 1
         /\ exec' = [exec EXCEPT ![i] = Insert(exec[i], Current(i).op)]
  BY DEF Launch, HwStarts, HybridStarts, LibStarts, libVars
<1> QED BY <1>4, <1>5, <1>6

(* The end of a turn: another one, or the last is made.                    *)
LEMMA LibEndTurns ==
  ASSUME Invariant, Turns, NEW t \in Threads, NEW i \in Serves[t], i = cur[t], pc[t] = "end",
         Current(i).kind = "internal", exec'[i] = LibEnd(exec[i], Current(i).op),
         libIdx' = LibIdxAfter(Current(i).op)
  PROVE  TurnsOf(exec'[i], libIdx', "determine") /\ Stays(i)
<1> USE DEF Invariant, Protocol
<1> DEFINE x == exec[i]
           op == Current(i).op
           last == Len(Lib[op].rounds)
<1>1. i \in Inst /\ x \in ExecStates
  BY OneServer DEF TypeOK
<1>2. op \in Ops /\ op = x.list /\ x.list # "net" /\ x.at = 1 /\ x.next = None
  BY <1>1, BlockFacts DEF LibShape
<1>3. libIdx \in 1..last
  BY <1>2 DEF Turns, TurnsOf, With
<1>4. last \in Nat /\ last >= 1
  BY <1>2, RoundsFacts
<1>5. Lib[op].then \in {"last", "back"} \cup Ops
  BY <1>2, LibAssumption
<1> HIDE DEF x, op, last
<1>6. CASE libIdx < last
  <2>1. exec'[i] = [x EXCEPT !.at = 0] /\ libIdx' = libIdx + 1
    BY <1>2, <1>3, <1>4, <1>6 DEF LibEnd, LibIdxAfter, x, op, last
  <2>2. exec'[i].list = op /\ exec'[i].at = 0 /\ exec'[i].next = None
    BY <1>1, <1>2, <2>1 DEF ExecStates, x
  <2>3. libIdx' \in 1..last
    BY <1>3, <1>4, <1>6, <2>1
  <2>4. Stays(i)
    BY <1>2, <2>2 DEF Stays, x
  <2>5. TurnsOf(exec'[i], libIdx', "determine")
    BY <1>2, <2>2, <2>3 DEF TurnsOf, x, op, last
  <2> QED BY <2>4, <2>5
<1>7. CASE ~(libIdx < last)
  <2>1. libIdx = last
    BY <1>3, <1>4, <1>7
  <2>2. Stays(i)
    BY <1>2, <1>4, <2>1 DEF Stays, x, op, last
  <2>3. CASE Lib[op].then = "last"
    <3>1. exec'[i] = x /\ libIdx' = last + 1
      BY <1>7, <2>1, <2>3, NamesAssumption DEF LibEnd, LibIdxAfter, x, op, last
    <3>2. TurnsOf(exec'[i], libIdx', "determine")
      BY <1>2, <3>1 DEF TurnsOf, x, op, last
    <3> QED BY <2>2, <3>2
  <2>4. CASE Lib[op].then = "back"
    <3>1. exec'[i] = Return(x)
      BY <1>7, <2>4, NamesAssumption DEF LibEnd, x, op, last
    <3>2. exec'[i].list = "net" /\ exec'[i].next = None
      BY <1>1, <1>2, <3>1 DEF Return, ExecStates, x
    <3> QED BY <2>2, <3>2 DEF TurnsOf
  <2>5. CASE Lib[op].then \in Ops
    <3>1. exec'[i] = Insert(Return(x), Lib[op].then) /\ libIdx' = 1
      BY <1>7, <2>1, <2>5, NamesAssumption DEF LibEnd, LibIdxAfter, x, op, last
    <3>2. Return(x) \in ExecStates /\ Return(x).list = "net"
      BY <1>1, BackChange
    <3>3. exec'[i].list = "net"
      BY <2>5, <3>1, <3>2, InsertChange
    <3> QED BY <2>2, <3>1, <3>3 DEF TurnsOf
  <2> QED BY <1>5, <2>3, <2>4, <2>5
<1> QED BY <1>6, <1>7

LEMMA EndTurns ==
  ASSUME Invariant, Turns, NEW t \in Threads, NEW i \in Serves[t], i = cur[t], End(t, i)
  PROVE  Turns' /\ \A j \in Inst : Stays(j)
<1> USE DEF Invariant, Protocol
<1> DEFINE b == Current(i)
<1>1. i \in Inst /\ exec[i] \in ExecStates
  BY OneServer DEF TypeOK
<1>2. /\ pc[t] = "end" /\ pc'[t] = "determine" /\ EndAsserts(i)
      /\ cur'[t] = i /\ \A s \in Threads \ {t} : pc'[s] = pc[s] /\ cur'[s] = cur[s]
      /\ exec'[i] = (IF b.kind = "internal" THEN LibEnd(exec[i], b.op) ELSE exec[i])
      /\ libIdx' = (IF b.kind = "internal" THEN LibIdxAfter(b.op) ELSE libIdx)
      /\ \A j \in Inst \ {i} : exec'[j] = exec[j]
  BY <1>1 DEF End, Goto, TypeOK
<1>3. TurnsOf(exec[i], libIdx, "end") /\ exec[i].started
  BY <1>2 DEF Turns, With, Starts, InBlock
<1>4. CASE b.kind = "internal"
  <2>1. TurnsOf(exec'[i], libIdx', "determine") /\ Stays(i)
    BY <1>2, <1>4, LibEndTurns
  <2>2. owner = i
    BY <1>2, <1>4 DEF EndAsserts, SetsMask
  <2> QED BY <1>2, <2>1, <2>2, TurnsStay DEF With
<1>5. CASE b.kind # "internal"
  <2>1. exec[i].list = "net"
    <3>1. exec[i].list # "net" => exec[i].at = 1
      BY <1>3 DEF TurnsOf
    <3> QED BY <1>5, <3>1 DEF Current, Block
  <2>2. TurnsOf(exec'[i], libIdx', "determine")
    BY <1>2, <1>3, <1>5, <2>1 DEF TurnsOf
  <2>3. Stays(i)
    BY <2>1 DEF Stays
  <2> QED BY <1>2, <1>5, <2>2, <2>3, TurnsStay DEF With
<1> QED BY <1>4, <1>5

(* On to the next turn, past the last one, or into the inserted blocks.    *)
LEMMA DetermineTurns ==
  ASSUME Invariant, Turns, NEW t \in Threads, NEW i \in Serves[t], i = cur[t], Determine(t, i)
  PROVE  Turns' /\ \A j \in Inst : Stays(j)
<1> USE DEF Invariant, Protocol
<1>1. i \in Inst /\ exec[i] \in ExecStates
  BY OneServer DEF TypeOK
<1>2. /\ pc[t] = "determine" /\ pc'[t] \in {"next?", "ready"} /\ libIdx' = libIdx
      /\ cur'[t] = i /\ \A s \in Threads \ {t} : pc'[s] = pc[s] /\ cur'[s] = cur[s]
      /\ \A j \in Inst \ {i} : exec'[j] = exec[j]
  BY <1>1 DEF Determine, Goto, libVars, TypeOK
<1>3. TurnsOf(exec[i], libIdx, "determine")
  BY <1>2 DEF Turns, With
<1>4. TurnsOf(exec'[i], libIdx', "next?") /\ Stays(i)
  <2>1. CASE exec[i].next # None
    <3>1. exec[i].next \in Ops /\ exec[i].list = "net" /\ libIdx = 1
      BY <1>1, <1>3, <2>1 DEF LibShape, ExecStates, TurnsOf
    <3>2. exec'[i].list = exec[i].next /\ exec'[i].at = 1 /\ exec'[i].next = None
      <4>1. exec'[i] = [exec[i] EXCEPT !.saved = exec[i].at, !.list = exec[i].next, !.at = 1,
                                       !.next = None, !.started = FALSE]
        BY <1>1, <2>1 DEF Determine, TypeOK
      <4>2. exec[i] \in ExecStates /\ exec[i].next \in Ops
        BY <1>1, <3>1
      <4> QED BY ONLY <4>1, <4>2, IntoChange
    <3>3. libIdx \in 1..Len(Lib[exec[i].next].rounds)
      BY <3>1, RoundsFacts
    <3> QED BY <1>2, <3>1, <3>2, <3>3 DEF TurnsOf, Stays
  <2>2. CASE exec[i].next = None
    <3>1. /\ exec'[i].list = exec[i].list /\ exec'[i].at = exec[i].at + 1
          /\ exec'[i].next = None /\ ~exec'[i].started
      <4>1. exec'[i] = [exec[i] EXCEPT !.at = exec[i].at + 1, !.started = FALSE]
        BY <1>1, <2>2 DEF Determine, TypeOK
      <4> QED BY <1>1, <2>2, <4>1, OnChange
    <3>2. Stays(i)
      BY <3>1 DEF Stays
    <3>3. CASE exec[i].list = "net"
      BY <3>1, <3>2, <3>3 DEF TurnsOf
    <3>4. CASE exec[i].list # "net"
      <4>1. CASE exec[i].at = 0 /\ libIdx \in 1..Len(Lib[exec[i].list].rounds)
        BY <1>2, <3>1, <3>2, <4>1 DEF TurnsOf
      <4>2. CASE exec[i].at = 1 /\ libIdx = Len(Lib[exec[i].list].rounds) + 1
        BY <1>2, <3>1, <3>2, <4>2 DEF TurnsOf
      <4> QED BY <1>3, <3>4, <4>1, <4>2 DEF TurnsOf
    <3> QED BY <3>3, <3>4
  <2> QED BY <2>1, <2>2
<1>5. TurnsOf(exec'[i], libIdx', With(t, i)')
  BY <1>2, <1>4 DEF TurnsOf, With
<1> QED BY <1>2, <1>4, <1>5, TurnsStay

(* Out of the inserted blocks, after the last turn; a reset needs none.    *)
LEMMA OutTurns ==
  ASSUME Invariant, Turns, NEW t \in Threads, NEW i \in Serves[t],
         Abort(t, i) \/ (i = cur[t] /\ (LeaveLib(t, i) \/ Done(t, i)))
  PROVE  Turns' /\ \A j \in Inst : Stays(j)
<1> USE DEF Invariant, Protocol
<1>1. i \in Inst /\ exec[i] \in ExecStates
  BY OneServer DEF TypeOK
<1>2. /\ cur[t] = i \/ pc[t] = "ready"
      /\ pc[t] # "determine" /\ pc'[t] = "ready" /\ libIdx' = libIdx
      /\ \A s \in Threads \ {t} : pc'[s] = pc[s] /\ cur'[s] = cur[s]
      /\ \A j \in Inst \ {i} : exec'[j] = exec[j]
  BY <1>1 DEF Abort, Done, Reset, LeaveLib, Goto, libVars, TypeOK
<1>3. exec'[i].list = "net" /\ exec'[i].next = None
  <2>1. CASE Abort(t, i) \/ Done(t, i)
    <3>1. exec'[i] = InitExec
      BY <1>1, <2>1 DEF Abort, Done, Reset, TypeOK
    <3> QED BY <3>1 DEF InitExec
  <2>2. CASE LeaveLib(t, i)
    <3>1. /\ exec'[i] = [Return(exec[i]) EXCEPT !.at = exec[i].saved + 1]
          /\ exec[i].next = None
      BY <1>1, <2>2 DEF LeaveLib, TypeOK
    <3> QED BY <1>1, <3>1, ReturnChange
  <2> QED BY <2>1, <2>2
<1>4. TurnsOf(exec'[i], libIdx', With(t, i)')
  BY <1>3 DEF TurnsOf
<1>5. Stays(i)
  <2>1. CASE Abort(t, i) \/ Done(t, i)
    <3>1. left[i] \in Nat /\ left'[i] = left[i] - 1
      BY <1>1, <2>1, InferencesAssumption DEF Abort, Done, Reset, TypeOK
    <3> QED BY <3>1 DEF Stays
  <2>2. CASE LeaveLib(t, i)
    <3>1. exec[i].list # "net" /\ Current(i).kind = "last"
      BY <1>1, <2>2 DEF LeaveLib, IsLast, LibShape
    <3>2. exec[i].at # 1
      BY <3>1 DEF Current, Block
    <3>3. TurnsOf(exec[i], libIdx, With(t, i)) /\ With(t, i) # "determine"
      BY <1>2 DEF Turns, With
    <3> QED BY <3>1, <3>2, <3>3 DEF TurnsOf, Stays
  <2> QED BY <2>1, <2>2
<1> QED BY <1>2, <1>4, <1>5, TurnsStay

(* No step takes a turn away from an operator.                             *)
LEMMA StepTurns ==
  Invariant /\ Turns /\ [Next]_vars => Turns' /\ \A j \in Inst : Stays(j)
<1> SUFFICES ASSUME Invariant, Turns, [Next]_vars
             PROVE  Turns' /\ \A j \in Inst : Stays(j)
  OBVIOUS
<1>1. ASSUME NEW t \in Threads, ThreadStep(t)
      PROVE  Turns' /\ \A j \in Inst : Stays(j)
  <2>1. ASSUME NEW i \in Serves[t], Call(t, i) \/ Abort(t, i)
        PROVE  Turns' /\ \A j \in Inst : Stays(j)
    <3>1. CASE Call(t, i)
      BY <1>1, <3>1, QuietTurns
    <3>2. CASE Abort(t, i)
      BY <1>1, <3>2, OutTurns
    <3> QED BY <2>1, <3>1, <3>2
  <2>2. ASSUME RunEpochBlock(t, cur[t]) \/ Wfe(t, cur[t]) \/ Done(t, cur[t])
        PROVE  Turns' /\ \A j \in Inst : Stays(j)
    <3>1. pc[t] # "ready"
      BY <2>2 DEF RunEpochBlock, Wfe, Done, Enter, Clear, End, Determine, LeaveLib, Finish,
                  Pause, Start, Acquire, Launch
    <3>2. cur[t] \in Serves[t]
      BY <1>1, <3>1 DEF Invariant, Protocol, Serving
    <3> QED BY <1>1, <2>2, <3>2, QuietTurns, OutTurns, LaunchTurns, EndTurns, DetermineTurns
            DEF RunEpochBlock
  <2> QED BY <1>1, <2>1, <2>2 DEF ThreadStep
<1>2. ASSUME IsrStep \/ NpuStep \/ UNCHANGED vars
      PROVE  Turns' /\ \A j \in Inst : Stays(j)
  <2>1. UNCHANGED <<pc, cur, libIdx>>
    BY <1>2 DEF IsrStep, IsrEnter, IsrAck, IsrClear, NpuStep, vars, threadVars, libVars
  <2>2. \A i \in Inst : SamePlace(exec[i], exec'[i]) /\ exec'[i].started = exec[i].started
    BY <1>2, QuietPlaces
  <2>3. ASSUME NEW t \in Threads, NEW i \in Serves'[t]
        PROVE  TurnsOf(exec'[i], libIdx', With(t, i)')
    <3>1. i \in Inst /\ TurnsOf(exec[i], libIdx, With(t, i))
      BY OneServer DEF Turns
    <3> QED BY <2>1, <2>2, <3>1 DEF TurnsOf, With, SamePlace
  <2> QED BY <2>2, <2>3 DEF Turns, Stays, SamePlace
<1> QED BY <1>1, <1>2 DEF Next, Rest

(* A network does not leave an operator's blocks before the operator has   *)
(* made all its turns, unless the user resets it.                          *)
THEOREM OperatorsComplete == Spec => OperatorCompletes
<1>1. Init => Turns
  <2> SUFFICES ASSUME Init, NEW t \in Threads, NEW i \in Serves[t]
               PROVE  TurnsOf(exec[i], libIdx, With(t, i))
    BY DEF Turns
  <2>1. exec[i].list = "net" /\ exec[i].next = None
    BY OneServer DEF Init, InitExec
  <2> QED BY <2>1 DEF TurnsOf
<1>2. ASSUME Invariant, Turns, [Next]_vars
      PROVE  [\A i \in Inst :
                exec[i].list # "net" /\ exec'[i].list = "net" /\ left'[i] = left[i]
                  => libIdx = Len(Lib[exec[i].list].rounds)
                                + (IF exec[i].at = 1 THEN 0 ELSE 1)]_vars
  BY <1>2, StepTurns DEF Stays
<1> QED BY <1>1, <1>2, StepTurns, Invariance, PTL DEF Spec, OperatorCompletes
=============================================================================
