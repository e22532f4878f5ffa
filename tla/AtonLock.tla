------------------------------ MODULE AtonLock ------------------------------
(***************************************************************************)
(* What the ATON lock promises to its users, whatever it is made of: the   *)
(* NPU has one holder at a time, only a thread that asked for it gets it,  *)
(* and only its holder gives it back.  DaoMutex implements this            *)
(* specification and AtonRuntime uses the lock according to it.            *)
(***************************************************************************)
CONSTANTS
  Threads,   (* the threads that may ask for the NPU *)
  None       (* "no thread", a value outside Threads *)

VARIABLES
  holder,    (* the thread that holds the lock, or None   *)
  wanting    (* the threads that asked and are not served *)

lockVars == <<holder, wanting>>

LockInit == holder = None /\ wanting = {}

Request(t) ==
  /\ t \notin wanting /\ holder # t
  /\ wanting' = wanting \cup {t}
  /\ UNCHANGED holder

Grant(t) ==
  /\ holder = None /\ t \in wanting
  /\ holder' = t
  /\ wanting' = wanting \ {t}

Release(t) ==
  /\ holder = t
  /\ holder' = None
  /\ UNCHANGED wanting

LockNext == \E t \in Threads : Request(t) \/ Grant(t) \/ Release(t)

LockSpec == LockInit /\ [][LockNext]_lockVars
=============================================================================
