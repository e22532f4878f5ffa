----------------------------- MODULE OutputCache -----------------------------
(***************************************************************************)
(* The CPU's data cache and the NPU's memory during run_nn_from_sd_card    *)
(* (app/src/model.c), the epoch blocks of app/Model/network.c and the      *)
(* in-place post-processing of od_pp_yolov2.c.                             *)
(*                                                                         *)
(* The NPU works on memory, the CPU through a write-back cache that loads  *)
(* the lines the CPU touches and may evict one at any moment, writing it   *)
(* back if it is dirty.  The memory is cut into the pieces that the code   *)
(* treats differently, a cache line standing for each:                     *)
(*   image  the user input buffer                                          *)
(*   body   0x34200000 .. +5856: activations, then the network's output    *)
(*   tail   .. +5888: the last, unaligned line of the output               *)
(*   mid    0x34200000 + 26560 .. +28032: the quantized result of blob 1   *)
(***************************************************************************)
EXTENDS Naturals

CONSTANTS
  NumberOutput,  (* number_output: how many entries of outs[] are filled in *)
  Samples        (* bound: images the benchmark runs through the network    *)

ASSUME CountAssumption == NumberOutput \in Nat /\ Samples \in Nat \ {0}

Lines == {"image", "body", "tail", "mid"}
Output == {"body", "tail"}

(* What a line holds: the kind of data and the inference it belongs to. *)
Kinds == {"none", "image", "activations", "quantized", "floats", "output", "boxes"}
Data == Kinds \X (0..Samples)
Nothing == <<"none", 0>>

VARIABLES
  step,     (* the next step of run_nn_from_sd_card                          *)
  n,        (* the inference                                                 *)
  ram,      (* memory                                                        *)
  cached,   (* the lines in the cache                                        *)
  dirty,    (* those that were written there                                 *)
  data      (* what the cache holds for them                                 *)

cacheVars == <<step, n, ram, cached, dirty, data>>

CacheInit ==
  /\ step = "load" /\ n = 1
  /\ ram = [x \in Lines |-> Nothing]
  /\ cached = {} /\ dirty = {}
  /\ data = [x \in Lines |-> Nothing]

(* What the CPU reads. *)
CpuSees(x) == IF x \in cached THEN data[x] ELSE ram[x]

(* The CPU reads lines R and writes kind into lines S: they are cached then. *)
CpuReadsWrites(R, S, kind) ==
  /\ data' = [x \in Lines |-> IF x \in S THEN <<kind, n>>
                              ELSE IF x \in R THEN CpuSees(x) ELSE data[x]]
  /\ cached' = cached \cup R \cup S
  /\ dirty' = dirty \cup S
  /\ UNCHANGED ram

NpuWrites(S, kind) ==
  /\ ram' = [x \in Lines |-> IF x \in S THEN <<kind, n>> ELSE ram[x]]
  /\ UNCHANGED <<cached, dirty, data>>

(* Cache maintenance by address range *)
NoMaintenance(S) == UNCHANGED <<ram, cached, dirty, data>>

CleanRange(S) ==
  /\ ram' = [x \in Lines |-> IF x \in S \cap dirty THEN data[x] ELSE ram[x]]
  /\ dirty' = dirty \ S
  /\ UNCHANGED <<cached, data>>

InvalidateRange(S) ==
  /\ cached' = cached \ S
  /\ dirty' = dirty \ S
  /\ UNCHANGED <<ram, data>>

(* The loops over outs[0 .. number_output-1]. *)
InvalidateOutputs == IF NumberOutput > 0 THEN InvalidateRange(Output) ELSE NoMaintenance(Output)

Does(this, next) == step = this /\ step' = next

-----------------------------------------------------------------------------
(* The benchmark reads the next file into the image buffer. *)
LoadImage == Does("load", "flush") /\ CpuReadsWrites({}, {"image"}, "image") /\ UNCHANGED n

(* Variants of the maintenance steps: left out, or one line short. *)
FlushSkipped == Does("flush", "invalidate") /\ NoMaintenance({"image"}) /\ UNCHANGED n
BlobKeepsLines == Does("blob1", "layers") /\ NoMaintenance({"mid"}) /\ UNCHANGED n
CleanShort == Does("clean", "blob22") /\ CleanRange({"body"}) /\ UNCHANGED n

FlushImage == Does("flush", "invalidate") /\ CleanRange({"image"}) /\ UNCHANGED n

(* "invalidate all outputs before postprocess reads them" *)
InvalidateBefore == Does("invalidate", "blob1") /\ InvalidateOutputs /\ UNCHANGED n

(* _ec_blob_cache_start_func_1, when blob 1 starts *)
StartBlob1 == Does("blob1", "layers") /\ InvalidateRange({"mid"}) /\ UNCHANGED n

(* Blob 1: layer after layer, with activations where the output will be ... *)
Layers == Does("layers", "lastlayer") /\ NpuWrites(Output, "activations") /\ UNCHANGED n

(* ... and the quantized result. *)
LastLayer == Does("lastlayer", "invalidateTail") /\ NpuWrites({"mid"}, "quantized") /\ UNCHANGED n

(* LL_ATON_End_EpochBlock_21 *)
InvalidateTail == Does("invalidateTail", "dequantize") /\ InvalidateRange({"tail"}) /\ UNCHANGED n
Dequantize ==
  Does("dequantize", "clean") /\ CpuReadsWrites({"mid"}, Output, "floats") /\ UNCHANGED n
CleanFloats == Does("clean", "blob22") /\ CleanRange(Output) /\ UNCHANGED n

(* Blob 22 transposes the floats where they are. *)
Transpose == Does("blob22", "after") /\ NpuWrites(Output, "output") /\ UNCHANGED n

(* "NOW invalidate outputs so CPU reads the fresh NPU result" *)
InvalidateAfter == Does("after", "decode") /\ InvalidateOutputs /\ UNCHANGED n

(* od_yolov2_pp_process decodes the output in place; on to the next image. *)
Decode ==
  /\ step = "decode" /\ n <= Samples
  /\ CpuReadsWrites(Output, Output, "boxes")
  /\ IF n < Samples THEN step' = "load" /\ n' = n + 1 ELSE step' = "end" /\ UNCHANGED n

-----------------------------------------------------------------------------
(* What the cache does by itself: a line may be evicted at any moment. *)

Evict(x) ==
  /\ x \in cached
  /\ cached' = cached \ {x}
  /\ dirty' = dirty \ {x}
  /\ ram' = IF x \in dirty THEN [ram EXCEPT ![x] = data[x]] ELSE ram
  /\ UNCHANGED <<step, n, data>>

CacheNext ==
  \/ LoadImage \/ FlushImage \/ InvalidateBefore \/ StartBlob1 \/ Layers \/ LastLayer
  \/ InvalidateTail \/ Dequantize \/ CleanFloats \/ Transpose \/ InvalidateAfter \/ Decode
  \/ \E x \in Lines : Evict(x)

CacheSpec == CacheInit /\ [][CacheNext]_cacheVars

-----------------------------------------------------------------------------
(* Properties *)

(* Every variable has a value of its type, and only cached lines are dirty. *)
CacheTypeOK ==
  /\ n \in 1..Samples
  /\ ram \in [Lines -> Data] /\ data \in [Lines -> Data]
  /\ dirty \subseteq cached /\ cached \subseteq Lines

(* The image the NPU works on is the one the CPU loaded for this inference. *)
ImageReachesNpu == step \in {"layers", "lastlayer"} => ram["image"] = <<"image", n>>

(* DequantizeLinear reads what blob 1 wrote, not an older line of the cache. *)
DequantizeReadsResult == step = "dequantize" => CpuSees("mid") = <<"quantized", n>>

(* Blob 22 transposes what DequantizeLinear wrote. *)
TransposeReadsFloats ==
  step = "blob22" => \A x \in Output : ram[x] = <<"floats", n>>

(* "NOW invalidate outputs so CPU reads the fresh NPU result": the post-processing
   reads the output the NPU computed for this image. *)
OutputIsFresh == step = "decode" => \A x \in Output : CpuSees(x) = <<"output", n>>
=============================================================================
