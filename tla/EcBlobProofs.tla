---------------------------- MODULE EcBlobProofs ----------------------------
(***************************************************************************)
(* Proofs about EcBlob, for every blob, word size and set of buffers.      *)
(* Invariant is inductive: besides TypeOK and BlobFollowsPrev it says when *)
(* the RAM holds what the CPU wrote (Published) and when the NPU's cache   *)
(* holds what the RAM does (NpuFresh).                                     *)
(***************************************************************************)
EXTENDS EcBlob, TLAPS

(* What is in RAM is what the CPU wrote, unless it is being written.       *)
Published == pc \in {"ready", "relocate", "running"} => ram = cpu

(* The NPU's cache holds nothing old of a program that is about to run.    *)
NpuFresh ==
  /\ pc \in {"copy", "publish", "relocate", "clean"} => held = {}
  /\ pc = "running" => \A w \in held : npu[w] = ram[w]

(* The base that is remembered is that of the inference, or none before    *)
(* the blob is copied.                                                     *)
BaseIsPrev ==
  /\ pc = "copy" => prev = NULL
  /\ pc \in {"clean", "running"} => prev = base

Invariant ==
  TypeOK /\ BlobFollowsPrev /\ Published /\ NpuFresh /\ BaseIsPrev

-----------------------------------------------------------------------------
(* Arithmetic of words *)

(* The quotient and the remainder of x by m.                               *)
LEMMA Division ==
  ASSUME NEW x \in Int, NEW m \in Nat \ {0}
  PROVE  /\ x % m \in 0..m - 1 /\ x \div m \in Int
         /\ x = m * (x \div m) + (x % m)
OBVIOUS

(* There is only one remainder.                                            *)
LEMMA UniqueRemainder ==
  ASSUME NEW x \in Int, NEW m \in Nat \ {0}, NEW q \in Int, NEW r \in 0..m - 1,
         x = m * q + r
  PROVE  x % m = r
<1> DEFINE d == x \div m - q
<1>1. /\ x % m \in 0..m - 1 /\ x \div m \in Int
      /\ x = m * (x \div m) + (x % m)
  BY Division
<1>2. d \in Int
  BY <1>1
<1>3. m * d = r - (x % m)
  BY <1>1
<1> HIDE DEF d
<1>4. CASE d >= 1
  <2>1. m * d >= m
    BY <1>2, <1>4
  <2> QED BY <2>1, <1>1, <1>3
<1>5. CASE d <= -1
  <2>1. m * d <= -m
    BY <1>2, <1>5
  <2> QED BY <2>1, <1>1, <1>3
<1>6. CASE d = 0
  BY <1>1, <1>3, <1>6
<1> QED BY <1>2, <1>4, <1>5, <1>6

(* A relocation undoes the one before it: adding the distance of two bases *)
(* to a word relocated to the first relocates it to the second.            *)
LEMMA RelocationsCompose ==
  ASSUME NEW x \in Int, NEW a \in Int, NEW b \in Int, NEW m \in Nat \ {0}
  PROVE  (((x + a) % m) + (b - a)) % m = (x + b) % m
<1> DEFINE r == (x + a) % m
           q == (x + a) \div m
           s == (r + (b - a)) % m
           t == (r + (b - a)) \div m
<1>1. r \in 0..m - 1 /\ q \in Int /\ x + a = m * q + r
  BY Division
<1>2. r + (b - a) \in Int
  BY <1>1
<1>3. s \in 0..m - 1 /\ t \in Int /\ r + (b - a) = m * t + s
  BY <1>2, Division
<1> HIDE DEF r, q, s, t
<1>4. x + b = m * q + (m * t + s)
  BY <1>1, <1>3
<1>5. m * q + m * t = m * (q + t)
  BY <1>1, <1>3
<1>6. x + b = m * (q + t) + s
  BY <1>1, <1>3, <1>4, <1>5
<1>7. (x + b) % m = s
  <2>1. x + b \in Int /\ q + t \in Int
    BY <1>1, <1>3
  <2> QED BY <1>3, <1>6, <2>1, UniqueRemainder
<1> QED BY <1>7 DEF s, r

(* A word stays as it is without a base.                                   *)
LEMMA SmallRemainder ==
  ASSUME NEW m \in Nat \ {0}, NEW r \in 0..m - 1
  PROVE  r % m = r
<1>1. r = m * 0 + r
  OBVIOUS
<1> QED BY <1>1, UniqueRemainder

(* A blob as the binary has it is relocated to 0.                          *)
LEMMA OriginalIsUnmoved ==
  ASSUME NEW w \in Words
  PROVE  Moved(w, NULL) = Original[w]
<1>1. Original[w] \in 0..Modulus - 1
  BY BlobAssumption DEF Word
<1>2. Original[w] % Modulus = Original[w]
  BY <1>1, ModulusAssumption, SmallRemainder
<1> QED BY <1>1, <1>2, ModulusAssumption DEF Moved, NULL

(* ec_reloc takes a blob relocated to one base to the other.               *)
LEMMA RelocMoves ==
  ASSUME NEW b \in Word, TypeOK, \A w \in Words : cpu[w] = Moved(w, prev), Reloc(b)
  PROVE  /\ \A w \in Words : cpu'[w] = Moved(w, b)
         /\ cpu' \in [Words -> Word]
         /\ prev' = b
<1>1. CASE b = prev
  BY <1>1 DEF Reloc, TypeOK
<1>2. CASE b # prev
  <2>1. cpu' = [w \in Words |-> IF w \in Relocated
                                THEN (cpu[w] + (b - prev)) % Modulus ELSE cpu[w]]
    BY <1>2 DEF Reloc
  <2>2. ASSUME NEW w \in Words PROVE cpu'[w] = Moved(w, b) /\ cpu'[w] \in Word
    <3>1. Original[w] \in Int /\ b \in Int /\ prev \in Int /\ Modulus \in Nat \ {0}
      BY BlobAssumption, ModulusAssumption DEF TypeOK, Word
    <3>2. CASE w \in Relocated
      <4>1. cpu'[w] = (((Original[w] + prev) % Modulus) + (b - prev)) % Modulus
        BY <2>1, <3>2 DEF Moved
      <4>2. cpu'[w] = (Original[w] + b) % Modulus
        BY <3>1, <4>1, RelocationsCompose
      <4>3. (Original[w] + b) % Modulus \in 0..Modulus - 1
        BY <3>1, Division
      <4> QED BY <3>2, <4>2, <4>3 DEF Moved, Word
    <3>3. CASE w \notin Relocated
      BY <2>1, <3>3 DEF Moved, TypeOK
    <3> QED BY <3>2, <3>3
  <2>3. cpu' \in [Words -> Word]
    BY <2>1, <2>2
  <2> QED BY <1>2, <2>2, <2>3 DEF Reloc
<1> QED BY <1>1, <1>2

-----------------------------------------------------------------------------
(* Before the network is initialized there is no program.                  *)
LEMMA InitInvariant ==
  ASSUME Init
  PROVE  Invariant
<1>1. TypeOK
  BY ModulusAssumption, BufferAssumption DEF Init, TypeOK, PCs, Word
<1> QED BY <1>1 DEF Init, Invariant, BlobFollowsPrev, Published, NpuFresh, BaseIsPrev

USE DEF Invariant, TypeOK, BlobFollowsPrev, Published, NpuFresh, BaseIsPrev, PCs, caches

(* Every step of the network, the application and the caches keeps the     *)
(* invariant.                                                              *)
LEMMA NextInvariant ==
  ASSUME Invariant, [Next]_vars
  PROVE  Invariant'
<1>1. CASE NetworkInit
  BY <1>1, BufferAssumption DEF NetworkInit, NpuInvalidate
<1>2. CASE CopyBlob
  <2>1. cpu' = Original /\ prev' = NULL
    BY <1>2 DEF CopyBlob
  <2>2. \A w \in Words : cpu'[w] = Moved(w, prev')
    BY <2>1, OriginalIsUnmoved
  <2> QED BY <1>2, <2>1, <2>2, BlobAssumption DEF CopyBlob
<1>3. CASE PublishBlob
  BY <1>3 DEF PublishBlob, McuClean, Moved
<1>4. CASE InferenceInit
  BY <1>4 DEF InferenceInit, NpuInvalidate, Moved
<1>5. CASE RelocateBlob
  <2>1. /\ \A w \in Words : cpu'[w] = Moved(w, user)
        /\ cpu' \in [Words -> Word] /\ prev' = user
    BY <1>5, RelocMoves DEF RelocateBlob
  <2> QED BY <1>5, <2>1 DEF RelocateBlob, Moved
<1>6. CASE InferenceStarts
  BY <1>6 DEF InferenceStarts, McuClean, Moved
<1>7. CASE ResetNetwork
  BY <1>7 DEF ResetNetwork, Moved
<1>8. ASSUME NEW b \in Buffers, NEW size \in Sizes, SetUserInputBuffer(b, size)
      PROVE  Invariant'
  BY <1>8, BufferAssumption DEF SetUserInputBuffer, Moved
<1>9. ASSUME NEW w \in Words, Fetch(w)
      PROVE  Invariant'
  BY <1>9 DEF Fetch, Moved
<1>10. ASSUME NEW w \in Words, McuEvicts(w)
       PROVE  Invariant'
  <2>1. pc \notin {"ready", "relocate", "running"}
    BY <1>10 DEF McuEvicts
  <2> QED BY <1>10, <2>1 DEF McuEvicts, Moved
<1>11. ASSUME NEW w \in Words, NpuEvicts(w)
       PROVE  Invariant'
  BY <1>11 DEF NpuEvicts, Moved
<1>12. CASE UNCHANGED vars
  BY <1>12 DEF vars, Moved
<1> QED
  BY <1>1, <1>2, <1>3, <1>4, <1>5, <1>6, <1>7, <1>8, <1>9, <1>10, <1>11, <1>12
     DEF Next, NetworkStep

(* Invariant holds in every behaviour.                                     *)
THEOREM Invariance == Spec => []Invariant
<1> USE DEF Spec
<1> QED BY InitInvariant, NextInvariant, PTL

(* The words of the blob, the caches and the bases keep their types.       *)
THEOREM TypesAreKept == Spec => []TypeOK
<1>1. Invariant => TypeOK
  OBVIOUS
<1> QED BY <1>1, Invariance, PTL

(* However often the blob is relocated in place, to whatever buffers, it   *)
(* is the binary's blob relocated once (ec_reloc).                         *)
THEOREM RelocationsDoNotAddUp == Spec => []BlobFollowsPrev
<1>1. Invariant => BlobFollowsPrev
  OBVIOUS
<1> QED BY <1>1, Invariance, PTL

(* The invariant gives the program that a running inference fetches.       *)
LEMMA RunFetches ==
  ASSUME Invariant
  PROVE  RunUsesItsBuffer
<1> SUFFICES ASSUME pc = "running", NEW w \in Words
             PROVE  Fetched(w) = Moved(w, base)
  BY DEF RunUsesItsBuffer
<1>1. cpu[w] = Moved(w, base) /\ ram = cpu
  OBVIOUS
<1> QED BY <1>1 DEF Fetched

(* An inference only fetches words relocated to the buffer it started with *)
(* (LL_ATON_EC_Inference_Init_Default).                                    *)
THEOREM InferenceUsesItsBuffer == Spec => []RunUsesItsBuffer
<1> QED BY RunFetches, Invariance, PTL

(* While it runs its program does not change, whatever the application     *)
(* sets and the caches evict.                                              *)
THEOREM ProgramIsStable == Spec => ProgramStaysInRun
<1>1. ASSUME Invariant, Invariant', [Next]_vars
      PROVE  [pc = "running" /\ pc' = "running" =>
                \A w \in Words : Fetched(w)' = Fetched(w)]_vars
  <2>1. CASE UNCHANGED vars
    BY <2>1
  <2>2. CASE Next
    <3> SUFFICES ASSUME pc = "running", pc' = "running", NEW w \in Words
                 PROVE  Fetched(w)' = Fetched(w)
      OBVIOUS
    <3>1. Fetched(w) = Moved(w, base) /\ Fetched(w)' = Moved(w, base)'
      BY <1>1, RunFetches DEF Fetched
    <3>2. base' = base
      BY <2>2 DEF Next, NetworkStep, NetworkInit, CopyBlob, PublishBlob, InferenceInit,
              RelocateBlob, InferenceStarts, ResetNetwork, SetUserInputBuffer, Fetch,
              McuEvicts, NpuEvicts
    <3> QED BY <3>1, <3>2 DEF Moved
  <2> QED BY <1>1, <2>1, <2>2
<1> QED BY <1>1, Invariance, PTL DEF Spec, ProgramStaysInRun
=============================================================================
