---------------------------- MODULE HybridCopies ----------------------------
(***************************************************************************)
(* The operators of the ATON library that move tensors (ll_aton_lib.c and, *)
(* for their software halves, ll_aton_lib_sw_operators.c): Concat, Split,  *)
(* Slice, SpaceToDepth, DepthToSpace, Transpose and Pad.  An operator      *)
(* either copies on the CPU or inserts an epoch block that takes one turn  *)
(* of the stream engines per tensor or row (AtonRuntime models how those   *)
(* turns are scheduled; this module, what they do to memory).  The CPU     *)
(* writes through its data cache, the engines past it.                     *)
(*                                                                         *)
(* A tensor is [at, bytes, batch, shape]; shape has a size for each of     *)
(* N, C, H, W.  Memory holds in each byte the address that byte came from, *)
(* so that an operator's result can be compared with its definition.       *)
(***************************************************************************)
EXTENDS StreamEngine, SequencesExt

CONSTANTS
  Calls,       (* the calls the generated code may make                      *)
  MemorySize,  (* bound: bytes of memory                                     *)
  LineSize,    (* bytes of a line of the CPU's cache                         *)
  DmaMin,      (* __LL_DMA_MIN_BUFF_LEN                                      *)
  FillingMin,  (* __LL_PAD_FILLING_DMA_MIN_BUFF_LEN                          *)
  FramingMin,  (* __LL_PAD_FRAMING_DMA_MIN_BUFF_LEN                          *)
  PadMaxDims,  (* __LL_DMA_PAD_MAX_DIMS                                      *)
  BusPort,     (* __LL_DMA_INTERNAL_BUSPORT_WIDTH                            *)
  MaxTensors   (* __LL_MAX_TENSORS                                           *)

ASSUME SizesAssumption == 
  {MemorySize, DmaMin, FillingMin, FramingMin, PadMaxDims, BusPort, MaxTensors} \subseteq Nat
ASSUME LineAssumption == LineSize \in Nat \ {0} /\ MemorySize % LineSize = 0
(* __ll_lib_memset does not compile for less *)
ASSUME BusAssumption == BusPort >= 6

VARIABLES
  call,   (* the call under way                                              *)
  pc,     (* where it is: call, start, wait, end, done or failed             *)
  block,  (* the epoch block inserted for it                                 *)
  p,      (* __ll_lib_params_t                                               *)
  wait,   (* the block's wait mask is set                                    *)
  on,     (* the two stream engines are enabled                              *)
  mem     (* ram; cache: the bytes of the lines the CPU holds; dirty: those  *)
          (* of its lines it has written                                     *)

vars == <<call, pc, block, p, wait, on, mem>>

-----------------------------------------------------------------------------
(* Tensors *)

AtonOrder == <<"N", "H", "W", "C">>
OnnxOrder == <<"N", "C", "H", "W">>

Product(ns) == FoldLeft(LAMBDA x, y : x * y, 1, ns)
Total(ns) == FoldLeft(LAMBDA x, y : x + y, 0, ns)
Size(t) == t.bytes * t.shape["N"] * t.shape["C"] * t.shape["H"] * t.shape["W"]
Bytes(t) == t.at .. t.at + Size(t) - 1
AllBytes(ts) == UNION {Bytes(ts[i]) : i \in DOMAIN ts}
Position(dim, order) == CHOOSE i \in DOMAIN order : order[i] = dim

(* four-byte elements travel as two 16-bit channels *)
Channels(t, n) == IF t.bytes = 4 THEN 2 * n ELSE n
ChannelBits(t) == IF t.bytes = 4 THEN 16 ELSE 8 * t.bytes
Whole(t) == Raw(t.at, Size(t), ChannelBits(t))

(* _static_const_dma_in, _static_const_dma_out *)
Flat24 == Raw(0, 0, 24)

-----------------------------------------------------------------------------
(* Memory as the CPU sees it *)

LineOf(a) == a \div LineSize
LinesOf(bytes) == {LineOf(a) : a \in bytes}
InLines(lines) == UNION {l * LineSize .. (l + 1) * LineSize - 1 : l \in lines}
CpuView(m) == Over(m.cache, m.ram)

(* the CPU loads the lines of the bytes it reads or writes *)
Loaded(m, bytes) == [m EXCEPT !.cache = Over(@, [a \in InLines(LinesOf(bytes)) |-> m.ram[a]])]
Stored(m, bytes) ==
  LET to == DOMAIN bytes
  IN  [Loaded(m, to) EXCEPT !.cache = Over(bytes, @), !.dirty = @ \cup LinesOf(to)]

(* memcpy of each [dst, src, n] of a set whose destinations are disjoint *)
Copied(m, copies) ==
  LET view == CpuView(m)
      from == UNION {{<<c.dst + k, c.src + k>> : k \in 0..c.n - 1} : c \in copies}
  IN  Stored(Loaded(m, {f[2] : f \in from}),
             [a \in {f[1] : f \in from} |-> view[(CHOOSE f \in from : f[1] = a)[2]]])

(* LL_ATON_Cache_MCU_Clean_Range: dirty lines are written, and stay *)
Cleaned(m, lines) ==
  [m EXCEPT !.ram = Over(Restrict(m.cache, InLines(lines \cap m.dirty)), @),
            !.dirty = @ \ lines]
CleanRange(m, at, n) == Cleaned(m, LinesOf(at .. at + n - 1))

(* an eviction, and what cleaning and invalidating does *)
WrittenBack(m, lines) ==
  [Cleaned(m, lines) EXCEPT !.cache = Restrict(@, DOMAIN @ \ InLines(lines))]
(* Variant: the lines stay with the CPU *)
LeavesLines(m, at, n) == Cleaned(m, LinesOf(at .. at + n - 1))
(* LL_ATON_Cache_MCU_Clean_Invalidate_Range *)
CleanInvalidateRange(m, at, n) == WrittenBack(m, LinesOf(at .. at + n - 1))

-----------------------------------------------------------------------------
(* What the compiler passes: tensors of at least one element, in memory,   *)
(* whose channels are whole batches (asserted where batches are used), and *)
(* parameters that fit each other.  Whether the shapes of a concat or of   *)
(* the blocks agree is not assumed: the operators test it.                 *)

Dims == {"N", "C", "H", "W"}
Tensors ==
  {t \in [at : Nat, bytes : 1..4, batch : Nat \ {0}, shape : [Dims -> Nat \ {0}]] :
     t.shape["C"] % t.batch = 0}
InMemory(at, size) == at + size <= MemorySize
Lists(S) == Seq(S) \ {<<>>}
Sizes == Lists(Nat \ {0})

ConcatIsGiven(c) ==
  /\ c \in [op : {"Concat"}, dim : Dims, ins : Lists(Tensors), out : Tensors]
  /\ InMemory(c.out.at, Size(c.out))

(* the outputs partition the input *)
SplitIsGiven(c) ==
  /\ c \in [op : {"Split"}, dim : Dims, in : Tensors, outs : Lists(Tensors),
            case : {"sw_aton", "sw_onnx", "channel_aton", "channel_batched", "flat"}]
  /\ c.case \in {"channel_aton", "channel_batched"} => c.dim = "C"
  /\ \A i \in DOMAIN c.outs :
       /\ InMemory(c.outs[i].at, Size(c.outs[i]))
       /\ c.outs[i].bytes = c.in.bytes
       /\ \A d \in Dims \ {c.dim} : c.outs[i].shape[d] = c.in.shape[d]
  /\ c.in.shape[c.dim] = Total([i \in DOMAIN c.outs |-> c.outs[i].shape[c.dim]])

BlocksAreGiven(c) ==
  /\ c \in [op : {"SpaceToDepth", "DepthToSpace"}, in : Tensors, out : Tensors,
            bh : Nat \ {0}, bw : Nat \ {0}]
  /\ InMemory(c.out.at, Size(c.out))

SliceIsGiven(c) ==
  /\ c \in [op : {"Slice"}, from : Nat, to : Nat, width : Nat \ {0}, rows : Nat \ {0},
            line : Nat, bits : {8, 16, 24}]
  /\ c.width <= c.line
  /\ InMemory(c.to, c.width * c.rows)

(* Indexes are resolved (ONNX counts negative ones from the back): only a  *)
(* backward slice may end before the first, a forward one with a negative  *)
(* end, which the loops read without its sign, would run away.  An output  *)
(* of the same rank has room for each index that is visited.               *)
SwSliceIsGiven(c) ==
  /\ c \in [op : {"SwSlice"}, dims : Sizes, shape : Sizes, start : Seq(Nat), end : Seq(Int),
            step : Seq(Int \ {0}), bytes : 1..4, outBytes : 1..4, from : Nat, to : Nat]
  /\ Len(c.start) = Len(c.dims) /\ Len(c.end) = Len(c.dims) /\ Len(c.step) = Len(c.dims)
  /\ \A a \in DOMAIN c.dims : c.step[a] > 0 => c.end[a] >= 0
  /\ Len(c.shape) = Len(c.dims) =>
       \A a \in DOMAIN c.dims :
         IF c.step[a] > 0 THEN c.start[a] + c.shape[a] * c.step[a] >= c.end[a]
                          ELSE c.start[a] + c.shape[a] * c.step[a] <= c.end[a]
  /\ InMemory(c.to, c.bytes * Product(c.shape))

(* target is the inverse of perm, off the strides of the permuted shape *)
TransposeIsGiven(c) ==
  /\ c \in [op : {"Transpose"}, dims : Sizes, perm : Seq(Nat), target : Seq(Nat),
            off : Seq(Nat), bytes : 1..4, from : Nat, to : Nat]
  /\ LET n == Len(c.dims)
     IN  /\ Len(c.perm) = n /\ Len(c.target) = n /\ Len(c.off) = n
         /\ \A i \in 1..n : c.perm[i] \in 1..n /\ c.target[c.perm[i]] = i
         /\ \A o \in 1..n : c.off[o] = c.bytes * Product([j \in 1..n - o |-> c.dims[c.perm[o + j]]])
  /\ InMemory(c.to, c.bytes * Product(c.dims))

(* Cropping leaves something of each axis: only the last one of a constant *)
(* pad may go altogether, which the operator tests (consecutive_bytes);    *)
(* the engines fill a row before they look at an outer index.              *)
PadIsGiven(c) ==
  /\ c \in [op : {"Pad"}, mode : {"constant", "reflect", "edge"}, dims : Sizes,
            start : Seq(Int), end : Seq(Int), bytes : 1..4, from : Nat, to : Nat]
  /\ Len(c.start) = Len(c.dims) /\ Len(c.end) = Len(c.dims)
  /\ \A a \in DOMAIN c.dims :
       LET crop(n) == IF n < 0 THEN n ELSE 0
           kept == c.dims[a] + crop(c.start[a]) + crop(c.end[a])
       IN  kept >= IF c.mode = "constant" /\ a = Len(c.dims) THEN 0 ELSE 1
  /\ InMemory(c.to, c.bytes * Product([a \in DOMAIN c.dims |-> c.dims[a] + c.start[a] + c.end[a]]))

ASSUME CallsAssumption ==
  \A c \in Calls :
    \/ ConcatIsGiven(c) \/ SplitIsGiven(c) \/ BlocksAreGiven(c) \/ SliceIsGiven(c)
    \/ SwSliceIsGiven(c) \/ TransposeIsGiven(c) \/ PadIsGiven(c)

-----------------------------------------------------------------------------
Init ==
  /\ call \in Calls
  /\ pc = "call" /\ block = "none"
  /\ p = [tensors |-> <<>>, at |-> 0, size |-> 0, idx |-> 0,
          in |-> Flat24, out |-> Flat24, pad |-> <<>>]
  /\ wait = FALSE /\ on = FALSE
  /\ mem = [ram |-> [a \in 0..MemorySize - 1 |-> a], cache |-> <<>>, dirty |-> {}]

(* the operator inserts an epoch block and returns *)
Inserts(b, q) ==
  /\ block' = b /\ p' = q /\ wait' = TRUE /\ pc' = "start"
  /\ UNCHANGED <<call, on>>

(* the operator did all its work on the CPU *)
Returns(m) ==
  /\ mem' = m /\ pc' = "done"
  /\ UNCHANGED <<call, block, p, wait, on>>

Rejects ==
  /\ pc' = "failed"
  /\ UNCHANGED <<call, block, p, wait, on, mem>>

(* __ll_lib_prepare_inputs_epoch, __ll_lib_prepare_outputs_epoch *)
Prepared(tensors, in, out, at) ==
  [p EXCEPT !.tensors = tensors, !.in = in, !.out = out, !.at = at,
            !.size = -1, !.idx = 1]

-----------------------------------------------------------------------------
(* Concat and Split *)

(* The loops that cut one tensor into parts along dim, in the order its    *)
(* bytes have in memory: where each run of bytes is in the whole tensor    *)
(* and in its part.                                                        *)
Runs(whole, parts, dim, order) ==
  LET at == Position(dim, order)
      base == whole.bytes * Product([i \in 1..4 - at |-> whole.shape[order[at + i]]])
      jump == base * whole.shape[dim]
      run(i) == base * parts[i].shape[dim]
      start(i) == Total([j \in 1..i - 1 |-> run(j)])
      turns(i) == (Size(whole) - start(i) + jump - 1) \div jump
  IN  UNION {{[part |-> i, whole |-> start(i) + k * jump, off |-> k * run(i), n |-> run(i)]
              : k \in 0..turns(i) - 1} : i \in DOMAIN parts}

Canonical(t) == t.batch = t.shape["C"]

ConcatIsValid ==
  LET ins == call.ins
      others == {"N", "C", "H", "W"} \ {call.dim}
  IN  /\ \A i \in DOMAIN ins :
           /\ ins[i].batch = ins[1].batch \/ (Canonical(ins[i]) /\ Canonical(ins[1]))
           /\ ins[i].bytes = ins[1].bytes
           /\ \A d \in others : ins[i].shape[d] = ins[1].shape[d]
      /\ \A d \in others : call.out.shape[d] = ins[1].shape[d]
      /\ call.out.shape[call.dim] = Total([i \in DOMAIN ins |-> ins[i].shape[call.dim]])
      /\ call.out.bytes = ins[1].bytes

(* The axis is that of the ONNX order, the shape it indexes is in the      *)
(* order of ATON.                                                          *)
AxisIsLeftmost ==
  /\ \A i \in 1..Position(call.dim, OnnxOrder) - 1 : call.out.shape[AtonOrder[i]] = 1
  /\ call.out.bytes < 4

(* Variant: the next batch is sought past all channels of the input *)
BatchedOutWide(t, d) ==
  [d EXCEPT !.depth = Channels(t, t.batch), !.frame = t.shape["C"] * t.bytes,
            !.loop = t.shape["C"] \div t.batch, !.frames = t.shape["C"] \div t.batch,
            !.loops = t.shape["H"] * t.shape["W"] * t.batch * t.bytes]
(* an input's channels, written between those of the other inputs *)
BatchedOut(t, d) ==
  [d EXCEPT !.depth = Channels(t, t.batch), !.frame = t.batch * t.bytes,
            !.loop = t.shape["C"] \div t.batch, !.frames = t.shape["C"] \div t.batch,
            !.loops = t.shape["H"] * t.shape["W"] * t.batch * t.bytes]

BatchedConcat(ins, out) ==
  LET t == ins[1]
      geometry == [Raw(out.at, 0, ChannelBits(t)) EXCEPT
                     !.raw = FALSE, !.width = t.shape["W"], !.height = t.shape["H"],
                     !.pixel = t.bytes * Total([i \in DOMAIN ins |-> ins[i].shape["C"]])]
  IN  Inserts("inputsBatched", Prepared(ins, Whole(t), BatchedOut(t, geometry), out.at))

ConcatLoop(ins, out) ==
  Copied(mem, {[dst |-> out.at + r.whole, src |-> ins[r.part].at + r.off, n |-> r.n]
               : r \in Runs(out, ins, call.dim, AtonOrder)})

(* LL_ATON_LIB_Concat.  Its case 0 (width) starts from the tensors of the  *)
(* operator before it; it takes N = H = W = 1, which Calls leaves out.     *)
Concat ==
  LET ins == call.ins
      out == call.out
      flat == ins[1].batch = out.batch
  IN  /\ pc = "call" /\ call.op = "Concat"
      /\ \/ ~ConcatIsValid /\ Rejects
         \/ /\ ConcatIsValid /\ AxisIsLeftmost
            /\ \/ flat /\ Inserts("inputs", Prepared(ins, Flat24, Flat24, out.at))
                  /\ UNCHANGED mem
               \/ ~flat /\ call.dim = "C" /\ BatchedConcat(ins, out) /\ UNCHANGED mem
               \/ ~flat /\ call.dim # "C" /\ Rejects
         \/ /\ ConcatIsValid /\ ~AxisIsLeftmost
            /\ \/ Canonical(ins[1]) /\ Canonical(out) /\ Returns(ConcatLoop(ins, out))
               \/ ~(Canonical(ins[1]) /\ Canonical(out)) /\ Rejects

(* where an output's channels start in the canonical input of a split *)
ChannelsBefore(outs, i) == Total([j \in 1..i - 1 |-> outs[j].shape["C"]])

(* the split loops, on the CPU *)
SplitLoop(order) ==
  Copied(mem, {[dst |-> call.outs[r.part].at + r.off, src |-> call.in.at + r.whole, n |-> r.n]
               : r \in Runs(call.in, call.outs, call.dim, order)})

SplitChannelBatched ==
  LET in == call.in
      runs(i) ==
        LET t == call.outs[i]
            n == t.batch * t.bytes
            outer == in.at + ChannelsBefore(call.outs, i) * in.bytes
        IN  {[dst |-> t.at + ((j * in.shape["H"] + y) * in.shape["W"] + x) * n,
              src |-> outer + j * n + (y * in.shape["W"] + x) * in.shape["C"] * in.bytes,
              n |-> n] : j \in 0..(t.shape["C"] \div t.batch) - 1,
                         y \in 0..in.shape["H"] - 1, x \in 0..in.shape["W"] - 1}
  IN  Copied(mem, UNION {runs(i) : i \in DOMAIN call.outs})

SplitFlat ==
  Copied(mem, {[dst |-> call.outs[i].at, n |-> Size(call.outs[i]),
                src |-> call.in.at + Total([j \in 1..i - 1 |-> Size(call.outs[j])])]
               : i \in DOMAIN call.outs})

(* the engine that reads the canonical input of a split by channels *)
SplitIn(outs, depth) ==
  LET in == call.in
      pixel == Total([i \in DOMAIN outs |-> outs[i].shape["C"]]) * in.bytes
  IN  [Raw(in.at, 0, ChannelBits(in)) EXCEPT
         !.raw = FALSE, !.width = in.shape["W"], !.height = in.shape["H"],
         !.depth = Channels(in, depth), !.pixel = pixel,
         !.line = pixel * in.shape["W"],
         !.frame = pixel * in.shape["H"] * in.shape["W"]]

(* LL_ATON_LIB_Split: the case comes from the compiler; a split with too   *)
(* many outputs for the static tensor list falls back to the CPU           *)
ByEngines == Len(call.outs) <= MaxTensors
Split ==
  LET outs == call.outs
      first == Whole(outs[1])
  IN  /\ pc = "call" /\ call.op = "Split"
      /\ \/ call.case = "sw_aton" /\ Returns(SplitLoop(AtonOrder))
         \/ call.case = "sw_onnx" /\ Returns(SplitLoop(OnnxOrder))
         \/ call.case = "channel_aton" /\ ~ByEngines /\ Returns(SplitLoop(AtonOrder))
         \/ call.case = "channel_batched" /\ ~ByEngines /\ Returns(SplitChannelBatched)
         \/ call.case = "flat" /\ ~ByEngines /\ Returns(SplitFlat)
         \/ /\ call.case = "channel_aton" /\ ByEngines
            /\ Inserts("splitAton", Prepared(outs,
                 [SplitIn(outs, outs[1].shape["C"]) EXCEPT !.frames = call.in.shape["N"]],
                 first, call.in.at))
            /\ UNCHANGED mem
         \/ /\ call.case = "channel_batched" /\ ByEngines
            /\ Inserts("splitBatched", Prepared(outs,
                 [SplitIn(outs, outs[1].batch) EXCEPT !.loop = 1,
                    !.frames = outs[1].shape["C"] \div outs[1].batch,
                    !.loops = outs[1].batch * call.in.bytes],
                 first, call.in.at))
            /\ UNCHANGED mem
         \/ /\ call.case = "flat" /\ ByEngines
            /\ Inserts("outputs", Prepared(outs, Flat24, Flat24, call.in.at))
            /\ UNCHANGED mem

-----------------------------------------------------------------------------
(* Operators that take one turn *)

(* LL_ATON_LIB_DMA_Outputs_Slice_SplitLike: rows of a larger tensor *)
Slice ==
  /\ pc = "call" /\ call.op = "Slice"
  /\ \/ /\ call.width * call.rows < DmaMin
        /\ Returns(Copied(mem, {[dst |-> call.to + k * call.width, n |-> call.width,
                                 src |-> call.from + k * call.line] : k \in 0..call.rows - 1}))
     \/ /\ call.width * call.rows >= DmaMin
        /\ Inserts("transfer", [p EXCEPT
             !.in = [Raw(call.from, call.width, call.bits) EXCEPT
                       !.frame = call.line, !.frames = call.rows],
             !.out = Raw(call.to, call.width * call.rows, call.bits)])
        /\ UNCHANGED mem

(* the bytes from one index of axis i to the next *)
Stride(dims, i) == call.bytes * Product(SubSeq(dims, i + 1, Len(dims)))

(* LL_ATON_LIB_Slice, on the CPU: of each axis every step-th index from    *)
(* start on, before end.  The index is unsigned, and so is what it is      *)
(* compared with: a negative end, or end + 1, is above every index.        *)
Visited(a) ==
  LET first == call.start[a]
      end == call.end[a]
  IN  IF call.step[a] > 0 THEN first..end - 1
      ELSE {first} \cup IF end < 0 THEN {} ELSE end + 1..first
SliceIndex(a, i) ==
  IF call.step[a] > 0 THEN (i - call.start[a]) \div call.step[a]
                      ELSE (call.start[a] - i) \div (-call.step[a])
InSlice(a, i) ==
  /\ IF call.step[a] > 0 THEN i \in call.start[a]..call.end[a] - 1
                         ELSE call.end[a] + 1 >= 0 /\ i \in call.end[a] + 1..call.start[a]
  /\ SliceIndex(a, i) * call.step[a] = i - call.start[a]

SwSlice ==
  LET axes == DOMAIN call.dims
      kept == {x \in [axes -> UNION {Visited(a) : a \in axes}] :
                 \A a \in axes : x[a] \in Visited(a) /\ InSlice(a, x[a])}
      at(t, dims, x) == t + Total([a \in axes |-> Stride(dims, a) * x[a]])
      valid == Len(call.shape) = Len(call.dims) /\ call.outBytes = call.bytes
  IN  /\ pc = "call" /\ call.op = "SwSlice"
      /\ \/ ~valid /\ Rejects
         \/ /\ valid
            /\ Returns(Copied(mem,
                 {[dst |-> at(call.to, call.shape, [a \in axes |-> SliceIndex(a, x[a])]),
                   src |-> at(call.from, call.dims, x), n |-> call.bytes] : x \in kept}))

(* The engine that scans a tensor t of the depth side's counterpart one    *)
(* block of pixels at a time                                               *)
Blocks(t, bh, bw) ==
  LET pixel == t.shape["C"] * t.bytes
      across == ((t.shape["W"] - bw) \div bw) + 1
      down == ((t.shape["H"] - bh) \div bh) + 1
  IN  [Raw(t.at, 0, ChannelBits(t)) EXCEPT
         !.raw = FALSE, !.width = bw, !.height = bh,
         !.depth = Channels(t, t.shape["C"]), !.pixel = pixel,
         !.line = t.shape["W"] * pixel, !.loop = across, !.frame = bw * pixel,
         !.frames = t.shape["N"] * down * across,
         !.loops = bh * t.shape["W"] * pixel]

(* may a tensor be cut into blocks, and is the other the result? *)
BlocksFit(image, rows, bh, bw) ==
  /\ image.shape["N"] = rows.shape["N"] /\ image.bytes = rows.bytes
  /\ rows.shape["C"] = image.shape["C"] * bh * bw
  /\ image.shape["H"] >= bh /\ image.shape["W"] >= bw
  /\ (image.shape["H"] - bh) % bh = 0 /\ (image.shape["W"] - bw) % bw = 0
  /\ rows.shape["H"] = (image.shape["H"] - bh) \div bh + 1
  /\ rows.shape["W"] = (image.shape["W"] - bw) \div bw + 1

(* LL_ATON_LIB_DMA_SpaceToDepth, through ImageToRow *)
SpaceToDepth ==
  /\ pc = "call" /\ call.op = "SpaceToDepth"
  /\ \/ ~BlocksFit(call.in, call.out, call.bh, call.bw) /\ Rejects
     \/ /\ BlocksFit(call.in, call.out, call.bh, call.bw)
        /\ Inserts("transfer", Prepared(<<call.in>>, Blocks(call.in, call.bh, call.bw),
             Raw(call.out.at, Size(call.in), ChannelBits(call.in)), 0))
        /\ UNCHANGED mem

(* LL_ATON_LIB_DMA_DepthToSpace, through RowToImage *)
DepthToSpace ==
  /\ pc = "call" /\ call.op = "DepthToSpace"
  /\ \/ ~BlocksFit(call.out, call.in, call.bh, call.bw) /\ Rejects
     \/ /\ BlocksFit(call.out, call.in, call.bh, call.bw)
        /\ Inserts("transfer", Prepared(<<call.in>>, Whole(call.in),
             Blocks(call.out, call.bh, call.bw), 0))
        /\ UNCHANGED mem

(* LL_ATON_LIB_DMA_Transpose.  dims: the sizes of the input's axes; off:   *)
(* the byte offsets of the output's axes; perm: the input axis of each     *)
(* output axis; target: the output axis of each input axis.                *)
InOffsets == [i \in DOMAIN call.dims |->
  call.bytes * Product([j \in 1..Len(call.dims) - i |-> call.dims[i + j]])]
IndicesOf(dims) ==
  {x \in [DOMAIN dims -> 0..Max(ToSet(dims)) - 1] : \A i \in DOMAIN x : x[i] < dims[i]}
Indices == IndicesOf(call.dims)
Tensor1 == [at |-> call.from, bytes |-> call.bytes]   (* elements only *)

TransposeOut ==
  LET o(i) == call.off[call.target[i]]
      d == [Raw(call.to, 0, ChannelBits(Tensor1)) EXCEPT
              !.raw = FALSE, !.depth = Channels(Tensor1, 1)]
      n == Len(call.dims)
      inner == [d EXCEPT !.width = call.dims[n], !.pixel = o(n),
                  !.height = call.dims[n - 1], !.line = o(n - 1),
                  !.loop = call.dims[n - 2], !.frame = o(n - 2)]
  IN  IF n = 4 THEN [inner EXCEPT !.loops = o(1), !.frames = call.dims[1] * call.dims[2]]
               ELSE [inner EXCEPT !.frames = call.dims[1]]

(* LL_ATON_LIB_Transpose, on the CPU *)
SwTranspose ==
  LET n == Len(call.dims)
      source(x) == Total([i \in 1..n |-> InOffsets[i] * x[i]])
      target(x) == Total([o \in 1..n |-> call.off[o] * x[call.perm[o]]])
  IN  Copied(mem, {[dst |-> call.to + target(x), src |-> call.from + source(x),
                    n |-> call.bytes] : x \in Indices})

(* The CPU takes any rank above 2, the engines only 3 and 4. *)
Transpose ==
  LET size == call.bytes * Product(call.dims)
      rank == Len(call.dims)
  IN  /\ pc = "call" /\ call.op = "Transpose"
      /\ \/ size < DmaMin /\ rank <= 2 /\ Rejects
         \/ size < DmaMin /\ rank > 2 /\ Returns(SwTranspose)
         \/ size >= DmaMin /\ rank \notin {3, 4} /\ Rejects
         \/ /\ size >= DmaMin /\ rank \in {3, 4}
            /\ Inserts("transfer", [p EXCEPT
                 !.in = Raw(call.from, size, ChannelBits(Tensor1)), !.out = TransposeOut])
            /\ UNCHANGED mem

-----------------------------------------------------------------------------
(* Pad.  A call has a mode (constant, reflect or edge) and, for each axis, *)
(* the input's size, the pads at its start and end (negative: cropped),    *)
(* and what the compiler derives from them: min_shape, the byte offsets    *)
(* the pads stand for in the input and in the output, and the axis from    *)
(* which on nothing is padded.                                             *)

Axes == DOMAIN call.dims
PaddedDims == [i \in Axes |-> call.dims[i] + call.start[i] + call.end[i]]
Negative(n) == IF n < 0 THEN n ELSE 0
Positive(n) == IF n > 0 THEN n ELSE 0
MinShape == [i \in Axes |-> call.dims[i] + Negative(call.start[i]) + Negative(call.end[i])]
ConsecutiveAxis ==
  Min({Len(call.dims)} \cup
      {c \in Axes : \A i \in c..Len(call.dims) : call.start[i] = 0 /\ call.end[i] = 0})
RowBytes(c) == call.bytes * Product(SubSeq(MinShape, c, Len(call.dims)))
ConsecutiveBytes == RowBytes(ConsecutiveAxis)
PadSize == call.bytes * Product(PaddedDims)

(* Byte k of the constant that is passed, repeated, and a byte of zero.    *)
PassedByte(k) == -1 - (k % call.bytes)
Zero == -5

(* What Pad sets its output to before it fills in the input: if it keeps   *)
(* nothing of the input it takes zero for the constant.                    *)
Constant(k) == IF ConsecutiveBytes = 0 THEN Zero ELSE PassedByte(k)
Set(m, at, n) == Stored(m, [a \in at .. at + n - 1 |-> Constant(a - at)])

(* Running pointers in and out and the indexes of the outer axes.  Going   *)
(* into an axis skips its start, leaving it skips its end.                 *)
Cropped(pads, axes) ==
  Total([a \in Axes |-> IF a \in axes THEN -Negative(pads[a]) * Stride(call.dims, a) ELSE 0])
Padded(pads, axes) ==
  Total([a \in Axes |-> IF a \in axes THEN Positive(pads[a]) * Stride(PaddedDims, a) ELSE 0])

(* Variant: the pads before an axis are counted twice *)
PadsTwice(w, axes) == [w EXCEPT !.in = @ + Cropped(call.start, axes),
                                !.out = @ + 2 * Padded(call.start, axes)]
Into(w, axes) == [w EXCEPT !.in = @ + Cropped(call.start, axes),
                           !.out = @ + Padded(call.start, axes)]
OutOf(w, axes) == [w EXCEPT !.in = @ + Cropped(call.end, axes),
                            !.out = @ + Padded(call.end, axes)]

(* rows of all that is inside of axis c *)
FirstRow(c) ==
  Into([in |-> call.from, out |-> call.to, index |-> [i \in Axes |-> 0]], 1..c)

(* the innermost axis before c that has another index *)
Open(w, c) == {a \in 1..c - 1 : w.index[a] + 1 < MinShape[a]}
NextRow(w, c) ==
  LET a == Max(Open(w, c))
      past == [w EXCEPT !.in = @ + RowBytes(c), !.out = @ + RowBytes(c)]
      left == OutOf(past, a + 1..c)
  IN  Into([left EXCEPT !.index = SubSeq(@, 1, a - 1) \o <<@[a] + 1>> \o [i \in 1..Len(@) - a |-> 0]],
           a + 1..c)

(* the calls of __ll_aton_lib_pad_filling_sw that reach axis c *)
Rows(c) ==
  LET more(ws) == {FirstRow(c)} \cup {NextRow(w, c) : w \in {v \in ws : Open(v, c) # {}}}
  IN  FoldLeft(LAMBDA ws, k : more(ws), {FirstRow(c)},
               [k \in 1..Product(SubSeq(MinShape, 1, c - 1)) - 1 |-> k])
SwFilling(m, c) ==
  Copied(m, {[dst |-> w.out, src |-> w.in, n |-> RowBytes(c)] : w \in Rows(c)})

(* too little for the engines, or too many axes for the library's heap *)
TooSmall(bytes, least) == bytes < least \/ Len(call.dims) > PadMaxDims

(* LL_ATON_LIB_DMA_Pad_Filling *)
FillsByEngines ==
  /\ block' = "filling" /\ wait' = TRUE /\ pc' = "start"
  /\ p' = [p EXCEPT !.in = Flat24, !.out = Flat24, !.size = ConsecutiveBytes,
                    !.pad = FirstRow(ConsecutiveAxis)]

(* __ll_aton_lib_pad_filling on memory m: after the engines' memset it is  *)
(* called back, and cleans what the CPU wrote; after a memset by the CPU   *)
(* it cleans before the engines start                                      *)
Filling(m, calledBack) ==
  \/ ConsecutiveBytes = 0 /\ mem' = m /\ pc' = "done"
     /\ UNCHANGED <<block, p, wait>>
  \/ /\ ConsecutiveBytes > 0 /\ TooSmall(ConsecutiveBytes, FillingMin)
     /\ LET filled == SwFilling(m, ConsecutiveAxis)
        IN  mem' = IF calledBack THEN CleanRange(filled, call.to, PadSize) ELSE filled
     /\ pc' = "done"
     /\ UNCHANGED <<block, p, wait>>
  \/ /\ ConsecutiveBytes > 0 /\ ~TooSmall(ConsecutiveBytes, FillingMin)
     /\ mem' = IF calledBack THEN m ELSE CleanInvalidateRange(m, call.to, PadSize)
     /\ FillsByEngines

(* How many bytes of a constant the CPU writes for the engines to repeat   *)
(* (unit), and how many it writes in all, for a memset of size bytes:      *)
(* __ll_lib_match_preload_with_busport.                                    *)
Preload(size) ==
  LET least == IF call.bytes \in {1, 3} THEN 3 ELSE 4
      fits(n) == \A k \in 2..n : (size % (k * least)) + k * least <= BusPort
      n == Max({1} \cup {k \in 2..BusPort \div least : fits(k)})
  IN  [unit |-> n * least, all |-> (size % (n * least)) + n * least]

(* LL_ATON_LIB_DMA_Pad_Memset with __ll_lib_memset *)
PadMemset ==
  LET pre == Preload(PadSize)
      bits == IF call.bytes \in {1, 3} THEN 24 ELSE 16
  IN  IF PadSize < DmaMin + BusPort
      THEN /\ Filling(CleanInvalidateRange(Set(mem, call.to, PadSize), call.to, PadSize), TRUE)
           /\ UNCHANGED <<call, on>>
      ELSE /\ mem' = CleanInvalidateRange(Set(mem, call.to, pre.all), call.to, pre.all)
           /\ Inserts("memset", [p EXCEPT
                !.in = [Raw(call.to, pre.unit, bits) EXCEPT
                          !.frames = (PadSize - pre.all) \div pre.unit],
                !.out = Raw(call.to + pre.all, PadSize - pre.all, bits)])

(* the row, counted from the edge, that the k-th row of a frame repeats:   *)
(* back and forth among the n there are, or always the edge                *)
Mirror(n, k) ==
  LET there[i \in 0..k] ==
        IF i = 0 THEN [index |-> Min({1, n - 1}), forward |-> TRUE]
        ELSE LET at == there[i - 1]
             IN  IF at.forward
                 THEN [index |-> IF at.index < n - 1 THEN at.index + 1 ELSE Positive(n - 2),
                       forward |-> at.index < n - 1]
                 ELSE [index |-> IF at.index > 0 THEN at.index - 1 ELSE Min({1, n - 1}),
                       forward |-> at.index <= 0]
  IN  IF call.mode = "edge" THEN 0 ELSE there[k].index

(* The copies that frame axis a, the axes inside of it being framed.  The  *)
(* start of the last axis is taken from the input, everything else from    *)
(* the output.                                                             *)
Frames(a) ==
  LET n == Len(call.dims)
      row == Stride(PaddedDims, a)
      at(w) == w.out - Padded(call.start, a + 1..n)
      first(w) == IF a = n THEN w.in ELSE at(w)
      edges == {w \in Rows(n) : \A i \in a..n - 1 : w.index[i] = 0}
  IN  {[dst |-> at(w) - (k + 1) * row, src |-> first(w) + Mirror(MinShape[a], k) * row, n |-> row]
       : w \in edges, k \in 0..call.start[a] - 1}
      \cup
      {[dst |-> at(w) + (MinShape[a] + k) * row, n |-> row,
        src |-> at(w) + (MinShape[a] - 1 - Mirror(MinShape[a], k)) * row]
       : w \in edges, k \in 0..call.end[a] - 1}

(* __ll_aton_lib_pad_reflect_sw and __ll_aton_lib_pad_edge_sw on each      *)
(* memory of a set: the axes from the innermost outwards                   *)
Framed(memories) ==
  FoldLeft(LAMBDA ms, a : {Copied(m, Frames(a)) : m \in ms}, memories,
           Reverse([a \in Axes |-> a]))

(* __ll_aton_lib_pad_framing_sw, after the engines filled *)
FramesInPlace == \E m \in Framed({mem}) : mem' = CleanRange(m, call.to, PadSize)

(* LL_ATON_LIB_Pad *)
Pad ==
  /\ pc = "call" /\ call.op = "Pad"
  /\ \/ /\ call.mode = "constant" /\ TooSmall(PadSize, FramingMin)
        /\ Filling(Set(mem, call.to, PadSize), FALSE)
        /\ UNCHANGED <<call, on>>
     \/ call.mode = "constant" /\ ~TooSmall(PadSize, FramingMin) /\ PadMemset
     \/ /\ call.mode # "constant" /\ TooSmall(ConsecutiveBytes, FillingMin)
        /\ \E m \in Framed({SwFilling(mem, Len(call.dims))}) : Returns(m)
     \/ /\ call.mode # "constant" /\ ~TooSmall(ConsecutiveBytes, FillingMin)
        /\ FillsByEngines
        /\ UNCHANGED <<call, on, mem>>

-----------------------------------------------------------------------------
(* The turns: start function, the engines' work, end function *)

(* __ll_lib_memcpy_prolog: what the CPU copies so that the rest has whole  *)
(* channels of 24 bits                                                     *)
PrologLength(n) == IF n < DmaMin THEN n ELSE n % 3
(* Variant: the prolog stays in the cache *)
PrologUncleaned(dst, src, n) == Copied(mem, {[dst |-> dst, src |-> src, n |-> n]})
(* the copy itself, out of the cache again *)
Prolog(dst, src, n) ==
  CleanInvalidateRange(Copied(mem, {[dst |-> dst, src |-> src, n |-> n]}), dst, n)

(* a turn without anything left for the engines goes on to its end *)
Launches(rest, q) ==
  /\ p' = IF rest > 0 THEN q ELSE p
  /\ wait' = (rest > 0) /\ on' = (rest > 0)
  /\ pc' = IF rest > 0 THEN "wait" ELSE "end"
  /\ UNCHANGED <<call, block>>

(* start of a flat copy of n bytes *)
StartsFlat(dst, src, n) ==
  LET done == PrologLength(n)
  IN  /\ mem' = IF done > 0 THEN Prolog(dst, src, done) ELSE mem
      /\ Launches(n - done, [p EXCEPT !.in.at = src + done, !.in.len = n - done,
                                      !.out.at = dst + done, !.out.len = n - done])

Tensor == p.tensors[p.idx]
StartInputs == block = "inputs" /\ StartsFlat(p.at, Tensor.at, Size(Tensor))
StartOutputs == block = "outputs" /\ StartsFlat(Tensor.at, p.at, Size(Tensor))
StartFilling == block = "filling" /\ StartsFlat(p.pad.out, p.pad.in, p.size)

(* g_not_continuous: no prolog, and a split's reader keeps its place *)
StartBatched ==
  /\ block = "inputsBatched"
  /\ Launches(Size(Tensor), [p EXCEPT !.in.at = Tensor.at, !.in.len = Size(Tensor),
                                      !.out.at = p.at])
  /\ UNCHANGED mem
StartSplit ==
  /\ block \in {"splitAton", "splitBatched"}
  /\ Launches(Size(Tensor), [p EXCEPT !.out.at = Tensor.at, !.out.len = Size(Tensor)])
  /\ UNCHANGED mem

(* __LL_LIB_DMA_Transfer_Start_EpochBlock: as the operator prepared it *)
StartTransfer ==
  /\ block \in {"transfer", "memset"}
  /\ on' = TRUE /\ pc' = "wait"
  /\ UNCHANGED <<call, block, p, wait, mem>>

Start ==
  /\ pc = "start"
  /\ \/ StartInputs \/ StartOutputs \/ StartFilling \/ StartBatched \/ StartSplit
     \/ StartTransfer

(* the engines move the tensor and interrupt *)
EnginesDone ==
  /\ pc = "wait" /\ on /\ Completes(p.in, p.out)
  /\ mem' = [mem EXCEPT !.ram = Transferred(@, p.in, p.out)]
  /\ pc' = "end"
  /\ UNCHANGED <<call, block, p, wait, on>>

(* Variant: nothing stops the engines *)
NeverStops == on' = on /\ wait' = FALSE
(* __ll_lib_stop_transfer if a transfer was started *)
Stops == on' = (on /\ ~wait) /\ wait' = FALSE

NextTurn(q) ==
  /\ p' = [q EXCEPT !.idx = p.idx + 1]
  /\ pc' = IF p.idx < Len(p.tensors) THEN "start" ELSE "done"
  /\ UNCHANGED <<call, block, mem>>

EndFlat ==
  /\ block \in {"inputs", "outputs"}
  /\ Stops
  /\ NextTurn([p EXCEPT !.at = @ + Size(Tensor)])

(* what the next turn of a batched concat or of a split changes *)
Following == p.tensors[p.idx + 1]
EndBatched ==
  /\ block = "inputsBatched"
  /\ Stops
  /\ NextTurn(IF p.idx = Len(p.tensors) THEN p
              ELSE [p EXCEPT !.at = @ + Tensor.shape["C"] * Following.bytes,
                             !.out = BatchedOut(Following, @)])

EndSplitAton ==
  /\ block = "splitAton"
  /\ Stops
  /\ NextTurn(IF p.idx = Len(p.tensors) THEN p
              ELSE [p EXCEPT !.in.at = @ + Tensor.shape["C"] * Following.bytes,
                             !.in.depth = Channels(Following, Following.shape["C"])])

EndSplitBatched ==
  /\ block = "splitBatched"
  /\ Stops
  /\ NextTurn(IF p.idx = Len(p.tensors) THEN p
              ELSE [p EXCEPT !.in.at = @ + Tensor.shape["C"] * Following.bytes,
                             !.in.depth = Channels(Following, Following.batch),
                             !.in.frames = Following.shape["C"] \div Following.batch,
                             !.in.loops = Following.batch * Following.bytes])

(* __LL_LIB_DMA_Transfer_End_EpochBlock *)
EndTransfer ==
  /\ block = "transfer"
  /\ on' = FALSE /\ pc' = "done"
  /\ UNCHANGED <<call, block, p, wait, mem>>

(* __LL_LIB_DMA_Pad_Memset_End_EpochBlock: the callback fills *)
EndMemset ==
  /\ block = "memset"
  /\ on' = FALSE
  /\ Filling(mem, TRUE)
  /\ UNCHANGED call

(* Variant: the next row is not saved *)
StaysOnRow ==
  /\ block = "filling"
  /\ Stops
  /\ pc' = IF Open(p.pad, ConsecutiveAxis) # {} THEN "start" ELSE "done"
  /\ UNCHANGED <<call, block, p, mem>>

(* __LL_LIB_DMA_Pad_Filling_End_EpochBlock: after the last row it calls    *)
(* __ll_aton_lib_pad_framing_sw back, unless the constant is there already *)
EndFilling ==
  /\ block = "filling"
  /\ Stops
  /\ \/ /\ Open(p.pad, ConsecutiveAxis) # {}
        /\ p' = [p EXCEPT !.pad = NextRow(@, ConsecutiveAxis)] /\ pc' = "start"
        /\ UNCHANGED mem
     \/ /\ Open(p.pad, ConsecutiveAxis) = {}
        /\ \/ call.mode = "constant" /\ UNCHANGED mem
           \/ /\ call.mode # "constant"
              /\ FramesInPlace
        /\ pc' = "done" /\ UNCHANGED p
  /\ UNCHANGED <<call, block>>

End ==
  /\ pc = "end"
  /\ \/ EndFlat \/ EndBatched \/ EndSplitAton \/ EndSplitBatched \/ EndTransfer
     \/ EndMemset \/ EndFilling

(* a dirty line may leave the cache at any moment *)
Evict ==
  /\ \E l \in mem.dirty : mem' = WrittenBack(mem, {l})
  /\ UNCHANGED <<call, pc, block, p, wait, on>>

Finished == pc \in {"done", "failed"} /\ UNCHANGED vars

Operator ==
  \/ Concat \/ Split \/ Slice \/ SwSlice \/ SpaceToDepth \/ DepthToSpace \/ Transpose \/ Pad
Next == Operator \/ Start \/ EnginesDone \/ End \/ Evict \/ Finished

(* the thread runs, and engines that can finish do *)
Spec == Init /\ [][Next]_vars /\ WF_vars(Operator \/ Start \/ EnginesDone \/ End)

-----------------------------------------------------------------------------
(* What each operator promises, element by element *)

Outputs == IF call.op = "Split" THEN call.outs ELSE <<call.out>>
Inputs == IF call.op = "Concat" THEN call.ins ELSE <<call.in>>
Elementwise == call.op \in {"Concat", "Split", "SpaceToDepth", "DepthToSpace"}

OutBytes ==
  IF Elementwise THEN AllBytes(Outputs)
  ELSE call.to .. call.to - 1 + (CASE call.op = "Slice" -> call.width * call.rows
                                   [] call.op = "SwSlice" -> call.bytes * Product(call.shape)
                                   [] call.op = "Transpose" -> call.bytes * Product(call.dims)
                                   [] call.op = "Pad" -> PadSize)
InBytes ==
  IF Elementwise THEN AllBytes(Inputs)
  ELSE call.from .. call.from - 1 + (IF call.op = "Slice" THEN call.line * call.rows
                                     ELSE call.bytes * Product(call.dims))

(* where element x of a tensor is, in the layout of ATON: blocks of batch  *)
(* channels                                                                *)
Place(t, x) ==
  LET s == t.shape
      b == t.batch
      c == x["C"]
  IN  t.at + t.bytes * (((((x["N"] * (s["C"] \div b) + c \div b) * s["H"] + x["H"])
                          * s["W"] + x["W"]) * b) + (c % b))
OnnxPlace(t, x) ==
  LET s == t.shape
  IN  t.at + t.bytes * (((x["N"] * s["C"] + x["C"]) * s["H"] + x["H"]) * s["W"] + x["W"])
Elements(t) ==
  {[N |-> n, C |-> c, H |-> h, W |-> w] : n \in 0..t.shape["N"] - 1, c \in 0..t.shape["C"] - 1,
                                          h \in 0..t.shape["H"] - 1, w \in 0..t.shape["W"] - 1}
Shifted(x, dim, by) == [x EXCEPT ![dim] = @ + by]
Before(ts, i, dim) == Total([j \in 1..i - 1 |-> ts[j].shape[dim]])

(* LL_ATON_LIB_SW_SpaceToDepth: where an input element goes; in mode DCR   *)
(* LL_ATON_LIB_SW_DepthToSpace is its inverse                              *)
Deep(x, channels) ==
  [x EXCEPT !["C"] = @ + ((x["H"] % call.bh) * call.bw + (x["W"] % call.bw)) * channels,
            !["H"] = @ \div call.bh, !["W"] = @ \div call.bw]
Shallow(x, channels) ==
  [x EXCEPT !["C"] = @ % channels,
            !["H"] = @ * call.bh + x["C"] \div (channels * call.bw),
            !["W"] = @ * call.bw + ((x["C"] \div channels) % call.bw)]

(* where Pad takes index i of an axis of n elements from: a constant if it *)
(* is outside, the nearest element, or the mirror image at both edges      *)
PadSource(n, i) ==
  LET fold == i % Max({1, 2 * (n - 1)})
  IN  CASE call.mode = "constant" -> i
        [] call.mode = "edge" -> Min({Max({i, 0}), n - 1})
        [] call.mode = "reflect" -> IF fold < n THEN fold ELSE 2 * (n - 1) - fold

(* <<to, from>>: the element at from belongs at to *)
Moves ==
  CASE call.op = "Concat" ->
         UNION {{<<Place(call.out, Shifted(x, call.dim, Before(call.ins, i, call.dim))),
                   Place(call.ins[i], x)>> : x \in Elements(call.ins[i])} : i \in DOMAIN call.ins}
    [] call.op = "Split" ->
         LET place(t, x) == IF call.case = "sw_onnx" THEN OnnxPlace(t, x) ELSE Place(t, x)
         IN  UNION {{<<place(call.outs[i], x),
                       place(call.in, Shifted(x, call.dim, Before(call.outs, i, call.dim)))>>
                     : x \in Elements(call.outs[i])} : i \in DOMAIN call.outs}
    [] call.op = "SpaceToDepth" ->
         {<<Place(call.out, Deep(x, call.in.shape["C"])), Place(call.in, x)>> : x \in Elements(call.in)}
    [] call.op = "DepthToSpace" ->
         {<<Place(call.out, Shallow(x, call.out.shape["C"])), Place(call.in, x)>> : x \in Elements(call.in)}
    [] call.op = "Slice" ->
         {<<call.to + y * call.width + x, call.from + y * call.line + x>>
          : x \in 0..call.width - 1, y \in 0..call.rows - 1}
    [] call.op = "Transpose" ->
         LET n == Len(call.dims)
             dims == [o \in 1..n |-> call.dims[call.perm[o]]]
             at(d, x) == Total([i \in 1..n |-> Stride(d, i) * x[i]])
         IN  {<<call.to + at(dims, [o \in 1..n |-> x[call.perm[o]]]), call.from + at(call.dims, x)>>
              : x \in Indices}
    [] call.op = "SwSlice" ->
         LET at(d, x) == Total([i \in DOMAIN x |-> Stride(d, i) * x[i]])
         IN  {<<call.to + at(call.shape, y),
                call.from + at(call.dims, [i \in DOMAIN y |-> call.start[i] + y[i] * call.step[i]])>>
              : y \in IndicesOf(call.shape)}
    [] call.op = "Pad" ->
         LET at(d, x) == Total([i \in Axes |-> Stride(d, i) * x[i]])
             from(y) == [i \in Axes |-> PadSource(call.dims[i], y[i] - call.start[i])]
             kept == {y \in IndicesOf(PaddedDims) :
                        \A i \in Axes : from(y)[i] \in 0..call.dims[i] - 1}
         IN  {<<call.to + at(PaddedDims, y), call.from + at(call.dims, from(y))>> : y \in kept}

ElementBytes ==
  CASE Elementwise -> Outputs[1].bytes [] call.op = "Slice" -> 1 [] OTHER -> call.bytes

(* Do the bytes that are seen hold what the call promises?  Where no       *)
(* element belongs the passed constant does, or zero if no element of the  *)
(* input is kept at all (as onnxruntime does).                             *)
Holds(seen) ==
  LET from == UNION {{<<m[1] + k, m[2] + k>> : k \in 0..ElementBytes - 1} : m \in Moves}
      rest(k) == IF Moves = {} THEN Zero ELSE PassedByte(k)
  IN  /\ \A f \in from : seen[f[1]] = f[2]
      /\ \A a \in OutBytes \ {f[1] : f \in from} : seen[a] = rest(a - call.to)

(* does the operator do the whole call on the CPU?  Then the caller, not   *)
(* the operator, cleans the cache.                                         *)
OnCpu ==
  block = "none" /\ ~(call.op = "Pad" /\ call.mode = "constant" /\ ~TooSmall(PadSize, FramingMin))

-----------------------------------------------------------------------------
(* Properties *)

(* When an operator is over, memory holds the result its definition asks   *)
(* for, as the next block of the NPU reads it; after an operator that only *)
(* used the CPU, as the CPU does.  A call that is refused left everything  *)
(* as it was.                                                              *)
ResultInMemory ==
  /\ pc = "done" => Holds(IF OnCpu THEN CpuView(mem) ELSE mem.ram)
  /\ pc = "failed" => mem.dirty = {} /\ \A a \in DOMAIN mem.ram : mem.ram[a] = a

(* Prologs, frames and strides never reach beyond the output: inputs and   *)
(* neighbouring tensors stay, in memory and in the lines of the cache that *)
(* they share with the output.                                             *)
NeighboursIntact ==
  LET view == CpuView(mem)
  IN  \A a \in DOMAIN mem.ram \ OutBytes : mem.ram[a] = a /\ view[a] = a

(* While they run, the engines read nothing but the operator's input (a    *)
(* memset reads what it writes) and write nothing but its output.          *)
EnginesStayInside ==
  pc = "wait" =>
    /\ Addresses(p.out) \subseteq OutBytes
    /\ Addresses(p.in) \subseteq IF block = "memset" THEN OutBytes ELSE InBytes

(* No line of the cache is dirty where an engine reads or writes: its      *)
(* eviction could undo the engine's work, and the engine would not see it. *)
NoDirtyLineUnderEngines ==
  pc = "wait" =>
    LinesOf(Addresses(p.in) \cup Addresses(p.out)) \cap mem.dirty = {}

(* The engines are off whenever no turn is under way, so that the next     *)
(* block may program them.                                                 *)
EnginesOffBetweenTurns == on => pc \in {"wait", "end"}

(* Every call ends: each turn's writer gets all the bytes it counts, and   *)
(* the turns run out.                                                      *)
OperatorEnds == <>(pc \in {"done", "failed"})
=============================================================================
