---------------------- MODULE HybridCopiesInvariant ----------------------
(***************************************************************************)
(* The inductive invariant of the operators that copy: what is true        *)
(* between any two steps and is enough to show that an operator changes    *)
(* nothing but its output, that its engines stay within the tensors of the *)
(* call, and that no line is dirty while they run.                         *)
(*                                                                         *)
(* An operator runs as several epoch blocks, and what a block reads was    *)
(* left in static variables by the block before it (p here).  The larger   *)
(* part of the invariant, Turn, therefore says how far the engines of each *)
(* kind of block have been moved: which bytes, which channels, which row.  *)
(***************************************************************************)
EXTENDS HybridCopies

Memory == 0 .. MemorySize - 1
IsMemory(m) == m = [ram |-> m.ram, cache |-> m.cache, dirty |-> m.dirty]

(* Memory and cache outside the bytes out are as they were before the      *)
(* call, and a dirty line is in the cache.                                 *)
Sound(m, out) ==
  /\ IsMemory(m)
  /\ DOMAIN m.ram = Memory
  /\ m.dirty \subseteq Int
  /\ InLines(m.dirty) \subseteq DOMAIN m.cache \cap Memory
  /\ \A a \in Memory \ out : m.ram[a] = a /\ (a \in DOMAIN m.cache => m.cache[a] = a)

-----------------------------------------------------------------------------

(* What the tensors before a turn take.                                    *)
First(ns, k) == [i \in 1..k |-> ns[i]]
SizesOf(ts) == [i \in DOMAIN ts |-> Size(ts[i])]
ChannelsOf(ts) == [i \in DOMAIN ts |-> ts[i].shape["C"]]
Batches(t) == t.shape["C"] \div t.batch
ChannelsBeforeTurn(ts) == Total(First(ChannelsOf(ts), p.idx - 1))

(* The parameters that the blocks of an operator share, on tensor p.idx of *)
(* the list ts.                                                            *)
IsParams(q) ==
  q = [tensors |-> q.tensors, at |-> q.at, size |-> q.size, idx |-> q.idx,
       in |-> q.in, out |-> q.out, pad |-> q.pad]
OnTurn(ts) == p.tensors = ts /\ p.idx \in DOMAIN ts

(* An engine in raw mode, with one frame of channels of so many bits.      *)
IsRaw(d, bits) ==
  /\ {"at", "len"} \subseteq DOMAIN d
  /\ d.raw = TRUE /\ d.bits = bits /\ d.frames = 1 /\ d.frame = 0 /\ d.loop = 0

(* An engine that reads or writes some channels of each pixel of tensor t. *)
ScansPixels(d, t, channels) ==
  /\ DOMAIN d = DOMAIN Flat24
  /\ d.raw = FALSE /\ d.bits = ChannelBits(t) /\ d.depth = Channels(t, channels)
  /\ d.width = t.shape["W"] /\ d.height = t.shape["H"]
  /\ d.pixel = t.bytes * t.shape["C"] /\ d.line \in {0, d.pixel * d.width}

(* A row of a padding: its index counts the rows within the axes before c, *)
(* and both its pointers are where that index says.                        *)
PadsOut == [a \in Axes |-> Positive(call.start[a])]
CropsIn == [a \in Axes |-> -Negative(call.start[a])]
Digits(w, c, pads) ==
  [a \in Axes |-> IF a < c THEN pads[a] + w.index[a] ELSE IF a = c THEN pads[a] ELSE 0]
Offset(dims, digits) == Total([a \in Axes |-> Stride(dims, a) * digits[a]])
IsRow(w, c) ==
  /\ w = [in |-> w.in, out |-> w.out, index |-> w.index]
  /\ w.index \in [Axes -> Nat]
  /\ \A a \in Axes : IF a < c THEN w.index[a] < MinShape[a] ELSE w.index[a] = 0
  /\ w.out = call.to + Offset(PaddedDims, Digits(w, c, PadsOut))
  /\ w.in = call.from + Offset(call.dims, Digits(w, c, CropsIn))

-----------------------------------------------------------------------------

(* The engines read within the inputs and write within the outputs, except *)
(* that those of a memset read back the part of the output they filled.    *)
InsideTensors ==
  /\ Addresses(p.out) \subseteq OutBytes
  /\ Addresses(p.in) \subseteq IF block = "memset" THEN OutBytes ELSE InBytes

(* Operators that are one transfer, and the memset of a padding.           *)
TransferTurn ==
  /\ block = "transfer" /\ call.op \in {"Slice", "SpaceToDepth", "DepthToSpace", "Transpose"}
  /\ InsideTensors
MemsetTurn == block = "memset" /\ call.op = "Pad" /\ InsideTensors

(* The turns of a filling copy one row each (LL_ATON_LIB_Pad).             *)
FillingTurn ==
  /\ block = "filling" /\ call.op = "Pad"
  /\ p.size = ConsecutiveBytes /\ ConsecutiveBytes > 0
  /\ IsRaw(p.in, 24) /\ IsRaw(p.out, 24)
  /\ IsRow(p.pad, ConsecutiveAxis)

(* The turns of a flat concatenation or split copy one tensor each, to or  *)
(* from its place after those before it.                                   *)
InputsTurn ==
  /\ block = "inputs" /\ call.op = "Concat" /\ ConcatIsValid
  /\ OnTurn(call.ins) /\ IsRaw(p.in, 24) /\ IsRaw(p.out, 24)
  /\ p.at = call.out.at + Total(First(SizesOf(call.ins), p.idx - 1))
OutputsTurn ==
  /\ block = "outputs" /\ call.op = "Split"
  /\ OnTurn(call.outs) /\ IsRaw(p.in, 24) /\ IsRaw(p.out, 24)
  /\ p.at = call.in.at + Total(First(SizesOf(call.outs), p.idx - 1))

(* The turns of a concatenation or a split over channels copy the channels *)
(* of one tensor each: the engine on the whole is at the channels after    *)
(* those of the tensors before.                                            *)
BatchedTurn ==
  LET t == call.ins[p.idx]
  IN  /\ block = "inputsBatched" /\ call.op = "Concat" /\ ConcatIsValid
      /\ call.dim = "C" /\ call.out.bytes < 4
      /\ OnTurn(call.ins) /\ IsRaw(p.in, ChannelBits(call.out))
      /\ p.at = call.out.at + call.out.bytes * ChannelsBeforeTurn(call.ins)
      /\ ScansPixels(p.out, call.out, t.batch)
      /\ p.out.frames = Batches(t) /\ p.out.loop = Batches(t)
      /\ p.out.frame = t.batch * call.out.bytes /\ p.out.loops \in Nat
SplitAtonTurn ==
  LET t == call.outs[p.idx]
  IN  /\ block = "splitAton" /\ call.op = "Split" /\ call.dim = "C"
      /\ OnTurn(call.outs) /\ IsRaw(p.out, ChannelBits(call.in))
      /\ ScansPixels(p.in, call.in, t.shape["C"])
      /\ p.in.at = call.in.at + call.in.bytes * ChannelsBeforeTurn(call.outs)
      /\ p.in.frames = call.in.shape["N"] /\ p.in.loop = 0
      /\ p.in.frame = p.in.pixel * call.in.shape["H"] * call.in.shape["W"]
SplitBatchedTurn ==
  LET t == call.outs[p.idx]
  IN  /\ block = "splitBatched" /\ call.op = "Split" /\ call.dim = "C"
      /\ OnTurn(call.outs) /\ IsRaw(p.out, ChannelBits(call.in))
      /\ ScansPixels(p.in, call.in, t.batch)
      /\ p.in.at = call.in.at + call.in.bytes * ChannelsBeforeTurn(call.outs)
      /\ p.in.frames = Batches(t) /\ p.in.loop = 1 /\ p.in.loops = t.batch * call.in.bytes
      /\ p.in.frame \in Nat

Turn ==
  \/ TransferTurn \/ MemsetTurn \/ FillingTurn \/ InputsTurn \/ OutputsTurn
  \/ BatchedTurn \/ SplitAtonTurn \/ SplitBatchedTurn

-----------------------------------------------------------------------------

(* The inductive invariant.  Only an operator that the CPU did alone ends  *)
(* with dirty lines, and a call that is refused has changed nothing.       *)
Safe ==
  /\ call \in Calls
  /\ pc \in {"call", "start", "wait", "end", "done", "failed"}
  /\ IsParams(p)
  /\ Sound(mem, OutBytes)
  /\ pc # "done" => mem.dirty = {}
  /\ pc \in {"call", "failed"} => \A a \in Memory : mem.ram[a] = a
  /\ pc = "wait" => InsideTensors
  /\ pc \in {"start", "wait", "end"} => Turn

-----------------------------------------------------------------------------
(* What the result needs on top of it, for the operators that are one copy *)
(* or one transfer, and for those whose turns copy a tensor each.          *)

(* The result depends on more than Safe: the input has to be in memory and *)
(* the output elsewhere.                                                   *)
Apart == InBytes \subseteq Memory \ OutBytes

(* The operators that are one copy by the CPU or one transfer by the       *)
(* engines: while the engines are programmed, nothing has been written and *)
(* what they are programmed for is the result.                             *)
InOneGo ==
  /\ block \in {"none", "transfer"}
  /\ pc = "call" => block = "none"
  /\ block = "none" /\ pc = "done" => Holds(CpuView(mem))
  /\ block = "transfer" =>
       /\ mem.dirty = {}
       /\ pc \in {"start", "wait"} => /\ \A a \in Memory : mem.ram[a] = a
                                     /\ Holds(Transferred(mem.ram, p.in, p.out))
       /\ pc \in {"end", "done"} => Holds(mem.ram)

-----------------------------------------------------------------------------
(* Concatenations and splits: the tensor that Concat puts together or      *)
(* Split cuts, its pieces, and where the copy of a piece goes and comes    *)
(* from when each is one run of the bytes of the bundle.                   *)

Bundle == IF call.op = "Concat" THEN call.out ELSE call.in
Pieces == IF call.op = "Concat" THEN call.ins ELSE call.outs
InBundle(i) == Bundle.at + Total(First(SizesOf(Pieces), i - 1))
To(i) == IF call.op = "Concat" THEN InBundle(i) ELSE Pieces[i].at
From(i) == IF call.op = "Concat" THEN Pieces[i].at ELSE InBundle(i)

(* Each piece is one run: nothing lies outside of the axis of the call.    *)
SameBatches == \A i \in DOMAIN Pieces : Pieces[i].batch = Bundle.batch
AllCanonical == Canonical(Bundle) /\ \A i \in DOMAIN Pieces : Canonical(Pieces[i])
NothingOutside ==
  \/ call.dim = "N"
  \/ Bundle.shape["N"] = 1 /\ (\/ call.dim = "C"
                               \/ call.dim = "H" /\ Canonical(Bundle)
                               \/ call.dim = "W" /\ Canonical(Bundle) /\ Bundle.shape["H"] = 1)
Flat == SameBatches /\ NothingOutside

(* The outputs of a split do not overlap, and no line of the cache has     *)
(* both input and output.                                                  *)
OutputsApart ==
  \A i, m \in DOMAIN call.outs : i # m => Bytes(call.outs[i]) \cap Bytes(call.outs[m]) = {}
LinesApart == InLines(LinesOf(InBytes)) \cap OutBytes = {}

(* A call whose turns each copy one piece in one run.                      *)
FlatCall ==
  /\ Apart /\ Flat /\ LinesApart
  /\ \/ call.op = "Concat" /\ ConcatIsValid
     \/ call.op = "Split" /\ OutputsApart /\ call.case = "flat"

(* The first n bytes of piece i are where they belong; and what is left of *)
(* it to engines on in and out begins where the prolog of the CPU ended.   *)
Brought(ram, i, n) == \A k \in 0..n - 1 : ram[To(i) + k] = From(i) + k
Halfway(ram, i, in, out) ==
  LET done == Size(Pieces[i]) - in.len
  IN  /\ in.len \in 0..Size(Pieces[i]) /\ in.len % 3 = 0 /\ out.len = in.len
      /\ in.at = From(i) + done /\ out.at = To(i) + done
      /\ Brought(ram, i, done)

(* The turns of such a call: the pieces before are in place, and nothing   *)
(* of the output is in the cache, to be written over them.                 *)
FlatTurns ==
  /\ FlatCall
  /\ block \in {"inputs", "outputs"} /\ pc \in {"start", "wait", "end", "done"}
  /\ mem.dirty = {} /\ DOMAIN mem.cache \cap OutBytes = {}
  /\ \A i \in DOMAIN Pieces : pc = "done" \/ i < p.idx => Brought(mem.ram, i, Size(Pieces[i]))
  /\ pc = "wait" => Halfway(mem.ram, p.idx, p.in, p.out)
  /\ pc = "end" => Brought(mem.ram, p.idx, Size(Pieces[p.idx]))

(* No operator starts with anything in the cache.                          *)
Cold == pc = "call" => DOMAIN mem.cache = {}

-----------------------------------------------------------------------------
(* The calls that compute what they promise.                               *)

(* The concatenations and splits that do: the loops of the CPU are for one *)
(* order of the elements, a flat call for one round of it.                 *)
WellCut ==
  \/ call.op = "Concat" /\ (IF AxisIsLeftmost THEN Flat /\ LinesApart ELSE AllCanonical)
  \/ /\ call.op = "Split" /\ OutputsApart
     /\ \/ call.case = "flat" /\ Flat /\ (ByEngines => LinesApart)
        \/ call.case = "sw_onnx"
        \/ call.case = "sw_aton" /\ AllCanonical
        \/ call.case = "channel_aton" /\ ~ByEngines /\ AllCanonical

(* The slice of an axis that its shape asks for is in the input, before    *)
(* the end, and a backward slice has an end that the unsigned comparisons  *)
(* read as it is, or takes the first index alone.                          *)
Reaches(a) ==
  LET last == call.start[a] + (call.shape[a] - 1) * call.step[a]
  IN  /\ {call.start[a], last} \subseteq 0..call.dims[a] - 1
      /\ IF call.step[a] > 0 THEN last < call.end[a]
         ELSE last > call.end[a] /\ (call.end[a] >= 0 \/ (call.end[a] = -1 /\ call.shape[a] = 1))

(* The calls that compute what they promise: nothing of the input is under *)
(* the output, a row of a slice is whole channels of the engine, the cut   *)
(* tensors have the strides of their shape, the slice of each axis is in   *)
(* the input, and lists of tensors are as above.                           *)
WellPosed ==
  /\ Apart
  /\ \/ call.op = "Slice" /\ (call.width * 8) % call.bits = 0
     \/ call.op \in {"SpaceToDepth", "DepthToSpace"} /\ Canonical(call.in) /\ Canonical(call.out)
     \/ /\ call.op = "SwSlice"
        /\ Len(call.shape) = Len(call.dims) => \A a \in DOMAIN call.dims : Reaches(a)
     \/ call.op = "Transpose"
     \/ WellCut

(* Between any two steps of a well-posed call, its result is under way.    *)
OnItsWay == Cold /\ (WellPosed => InOneGo \/ FlatTurns)
=============================================================================
