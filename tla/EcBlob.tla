------------------------------- MODULE EcBlob -------------------------------
(***************************************************************************)
(* The program of the epoch controller (blob) of the network Default: its  *)
(* copy to RAM when the network is initialized (network_ecblobs.h,         *)
(* ec_copy_blob) and its relocation to the application's input buffer at   *)
(* each inference (ec_reloc).  The relocation works in place: it adds the  *)
(* distance from the base the blob was last relocated to.                  *)
(*                                                                         *)
(* The CPU writes the blob through its data cache, whose lines may be      *)
(* written back at any moment; the epoch controller fetches it through the *)
(* NPU's cache.                                                            *)
(***************************************************************************)
EXTENDS Integers

CONSTANTS
  Words,       (* the instruction words of the blob                          *)
  Relocated,   (* those that _user_io_input_0 of the relocation table names  *)
  Original,    (* the blob in the binary                                     *)
  Modulus,     (* 2 ^ 32                                                     *)
  Buffers,     (* addresses the application may pass as its input buffer     *)
  Sizes,       (* sizes it may claim for them                                *)
  InputSize,   (* bytes of the network's input                               *)
  Alignment    (* of the input buffer: a line of the CPU's cache             *)

NULL == 0
Word == 0..Modulus - 1

ASSUME ModulusAssumption == Modulus \in Nat \ {0}
ASSUME BlobAssumption == Relocated \subseteq Words /\ Original \in [Words -> Word]
ASSUME BufferAssumption == NULL \in Word /\ Buffers \subseteq Word

VARIABLES
  pc,     (* of the thread that runs the network                             *)
  user,   (* _mem_pool__user_io_input_0_Default                              *)
  prev,   (* _ec_blob_Default_1_prev_base_addrs[0]                           *)
  cpu,    (* the blob in RAM as the CPU sees it                              *)
  ram,    (* the blob in RAM                                                 *)
  held,   (* the words that the NPU's cache holds,                           *)
  npu,    (* and what it holds of them                                       *)
  base    (* history: the buffer of the inference under way                  *)

caches == <<ram, held, npu>>
vars == <<pc, user, prev, cpu, ram, held, npu, base>>

PCs == {"off", "copy", "publish", "ready", "relocate", "clean", "running"}

(* word w of the blob when the input is at address b *)
Moved(w, b) ==
  IF w \in Relocated THEN (Original[w] + b) % Modulus ELSE Original[w]

Init ==
  /\ pc = "off" /\ user = NULL /\ prev = NULL /\ base = NULL
  /\ cpu = [w \in Words |-> 0] /\ ram = [w \in Words |-> 0]
  /\ held = {} /\ npu = [w \in Words |-> 0]

-----------------------------------------------------------------------------
(* LL_ATON_Set_User_Input_Buffer_Default: a buffer that is not aligned or  *)
(* too small is refused.  Any thread may call it at any time.              *)
SetUserInputBuffer(b, size) ==
  /\ b % Alignment = 0 /\ size >= InputSize
  /\ user' = b
  /\ UNCHANGED <<pc, prev, cpu, caches, base>>

(* Variant: the NPU's cache keeps the blob of the last inference *)
NpuKeeps == UNCHANGED caches
(* LL_ATON_Cache_NPU_Clean_Invalidate_Range, of the blob *)
NpuInvalidate == held' = {} /\ UNCHANGED <<ram, npu>>

(* Variant: the relocated blob stays in the CPU's cache *)
McuKeeps == UNCHANGED caches
(* LL_ATON_Cache_MCU_Clean_Range, of the blob *)
McuClean == ram' = cpu /\ UNCHANGED <<held, npu>>

(* LL_ATON_RT_Init_Network through LL_ATON_EC_Network_Init_Default; a      *)
(* network that no inference uses may be initialized again                 *)
NetworkInit ==
  /\ pc \in {"off", "ready"}
  /\ pc' = "copy" /\ prev' = NULL
  /\ NpuInvalidate
  /\ UNCHANGED <<user, cpu, base>>

CopyBlob ==
  /\ pc = "copy"
  /\ pc' = "publish" /\ cpu' = Original
  /\ UNCHANGED <<user, prev, caches, base>>

PublishBlob ==
  /\ pc = "publish"
  /\ pc' = "ready"
  /\ McuClean
  /\ UNCHANGED <<user, prev, cpu, base>>

(* the start of an inference in LL_ATON_RT_RunEpochBlock, through          *)
(* LL_ATON_EC_Inference_Init_Default                                       *)
InferenceInit ==
  /\ pc = "ready"
  /\ pc' = "relocate"
  /\ NpuInvalidate
  /\ UNCHANGED <<user, prev, cpu, base>>

(* Variant: the base is not remembered *)
RelocForgets(b) ==
  \/ b = prev /\ UNCHANGED <<cpu, prev>>
  \/ /\ b # prev /\ UNCHANGED prev
     /\ cpu' = [w \in Words |-> IF w \in Relocated THEN (cpu[w] + (b - prev)) % Modulus
                                                   ELSE cpu[w]]
(* ec_reloc, of the one relocation of the table *)
Reloc(b) ==
  \/ b = prev /\ UNCHANGED <<cpu, prev>>
  \/ /\ b # prev
     /\ cpu' = [w \in Words |-> IF w \in Relocated THEN (cpu[w] + (b - prev)) % Modulus
                                                   ELSE cpu[w]]
     /\ prev' = b

RelocateBlob ==
  /\ pc = "relocate"
  /\ pc' = "clean"
  /\ Reloc(user)
  /\ base' = user
  /\ UNCHANGED <<user, caches>>

InferenceStarts ==
  /\ pc = "clean"
  /\ pc' = "running"
  /\ McuClean
  /\ UNCHANGED <<user, prev, cpu, base>>

(* the epoch controller fetches a word of its program *)
Fetch(w) ==
  /\ pc = "running" /\ w \notin held
  /\ held' = held \cup {w} /\ npu' = [npu EXCEPT ![w] = ram[w]]
  /\ UNCHANGED <<pc, user, prev, cpu, ram, base>>

(* the inference is over, or given up: LL_ATON_RT_Reset_Network.  The blob *)
(* stays as it is, and the NPU's cache holds what it held.                 *)
ResetNetwork ==
  /\ pc = "running"
  /\ pc' = "ready"
  /\ UNCHANGED <<user, prev, cpu, caches, base>>

(* the caches give up a line *)
McuEvicts(w) ==
  /\ ram[w] # cpu[w]
  /\ ram' = [ram EXCEPT ![w] = cpu[w]]
  /\ UNCHANGED <<pc, user, prev, cpu, held, npu, base>>
NpuEvicts(w) ==
  /\ w \in held
  /\ held' = held \ {w}
  /\ UNCHANGED <<pc, user, prev, cpu, ram, npu, base>>

NetworkStep ==
  \/ NetworkInit \/ CopyBlob \/ PublishBlob
  \/ InferenceInit \/ RelocateBlob \/ InferenceStarts \/ ResetNetwork
Next ==
  \/ NetworkStep
  \/ \E b \in Buffers, size \in Sizes : SetUserInputBuffer(b, size)
  \/ \E w \in Words : Fetch(w) \/ McuEvicts(w) \/ NpuEvicts(w)

Spec == Init /\ [][Next]_vars

-----------------------------------------------------------------------------
(* Properties *)

TypeOK ==
  /\ pc \in PCs
  /\ user \in Word /\ prev \in Word /\ base \in Word
  /\ cpu \in [Words -> Word] /\ ram \in [Words -> Word]
  /\ held \in SUBSET Words /\ npu \in [Words -> Word]

(* Between initialization and the next one, the blob is the one of the     *)
(* binary, relocated once to the base that is remembered: relocations of   *)
(* any number of inferences do not add up (ec_reloc).                      *)
BlobFollowsPrev ==
  pc \notin {"off", "copy"} => \A w \in Words : cpu[w] = Moved(w, prev)

(* what the epoch controller gets when it fetches word w *)
Fetched(w) == IF w \in held THEN npu[w] ELSE ram[w]

(* While an inference runs, every word the epoch controller fetches, from  *)
(* memory or from the NPU's cache, is that of the blob relocated to the    *)
(* buffer that was set when the inference started, whatever is set         *)
(* meanwhile (LL_ATON_EC_Inference_Init_Default).                          *)
RunUsesItsBuffer ==
  pc = "running" => \A w \in Words : Fetched(w) = Moved(w, base)

(* No step changes the program under a running inference.                  *)
ProgramStaysInRun ==
  [][pc = "running" /\ pc' = "running" =>
       \A w \in Words : Fetched(w)' = Fetched(w)]_vars
=============================================================================
