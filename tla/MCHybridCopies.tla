--------------------------- MODULE MCHybridCopies ---------------------------
(* Calls for HybridCopies: each operator, each of its ways, tensors that   *)
(* are not aligned with lines of the cache, 1 to 4 bytes an element.       *)
EXTENDS HybridCopies

Shape(n, c, h, w) == [N |-> n, C |-> c, H |-> h, W |-> w]
T(at, bytes, batch, n, c, h, w) ==
  [at |-> at, bytes |-> bytes, batch |-> batch, shape |-> Shape(n, c, h, w)]

(* tensors one after the other from at on *)
Chain(at, ts) ==
  [i \in DOMAIN ts |-> [ts[i] EXCEPT !.at = at + Total([j \in 1..i - 1 |-> Size(ts[j])])]]
(* an input chain at 1, the output after it with a gap of a byte *)
ConcatCall(dim, ts, out) ==
  LET ins == Chain(1, ts)
  IN  [op |-> "Concat", dim |-> dim, ins |-> ins,
       out |-> [out EXCEPT !.at = 2 + Total([i \in DOMAIN ts |-> Size(ts[i])])]]
SplitCall(case, dim, in, ts) ==
  [op |-> "Split", case |-> case, dim |-> dim, in |-> [in EXCEPT !.at = 1],
   outs |-> Chain(2 + Size(in), ts)]

ConcatCalls ==
  {ConcatCall("N", <<T(0, 1, 2, 1, 2, 2, 2), T(0, 1, 2, 2, 2, 2, 2), T(0, 1, 2, 1, 2, 2, 2)>>,
              T(0, 1, 2, 4, 2, 2, 2)),
   ConcatCall("C", <<T(0, 2, 1, 1, 1, 1, 2), T(0, 2, 1, 1, 3, 1, 2)>>, T(0, 2, 1, 1, 4, 1, 2)),
   ConcatCall("N", <<T(0, 3, 2, 1, 2, 1, 1), T(0, 3, 2, 2, 2, 1, 1)>>, T(0, 3, 2, 3, 2, 1, 1)),
   ConcatCall("C", <<T(0, 1, 2, 1, 2, 2, 2), T(0, 1, 2, 1, 4, 2, 2)>>, T(0, 1, 6, 1, 6, 2, 2)),
   ConcatCall("C", <<T(0, 2, 1, 1, 2, 1, 2), T(0, 2, 1, 1, 1, 1, 2)>>, T(0, 2, 3, 1, 3, 1, 2)),
   ConcatCall("C", <<T(0, 1, 1, 1, 1, 2, 3), T(0, 1, 3, 1, 3, 2, 3)>>, T(0, 1, 4, 1, 4, 2, 3)),
   ConcatCall("C", <<T(0, 4, 1, 1, 1, 1, 2), T(0, 4, 2, 1, 2, 1, 2)>>, T(0, 4, 3, 1, 3, 1, 2)),
   ConcatCall("H", <<T(0, 1, 2, 2, 2, 1, 2), T(0, 1, 2, 2, 2, 2, 2)>>, T(0, 1, 2, 2, 2, 3, 2)),
   ConcatCall("W", <<T(0, 2, 2, 1, 2, 2, 1), T(0, 2, 2, 1, 2, 2, 2)>>, T(0, 2, 2, 1, 2, 2, 3)),
   ConcatCall("C", <<T(0, 1, 2, 1, 2, 2, 2), T(0, 1, 2, 1, 2, 2, 1)>>, T(0, 1, 2, 1, 4, 2, 2)),
   ConcatCall("H", <<T(0, 1, 1, 2, 2, 1, 2), T(0, 1, 1, 2, 2, 2, 2)>>, T(0, 1, 1, 2, 2, 3, 2)),
   ConcatCall("N", <<T(0, 1, 2, 1, 2, 2, 2), T(0, 1, 2, 1, 2, 2, 2)>>, T(0, 1, 1, 2, 2, 2, 2))}

SplitCalls ==
  {SplitCall("sw_aton", "H", T(0, 1, 2, 2, 2, 3, 2), <<T(0, 1, 2, 2, 2, 1, 2), T(0, 1, 2, 2, 2, 2, 2)>>),
   SplitCall("sw_onnx", "C", T(0, 2, 3, 2, 3, 1, 2), <<T(0, 2, 1, 2, 1, 1, 2), T(0, 2, 2, 2, 2, 1, 2)>>),
   SplitCall("channel_aton", "C", T(0, 1, 5, 2, 5, 1, 2), <<T(0, 1, 2, 2, 2, 1, 2), T(0, 1, 3, 2, 3, 1, 2)>>),
   SplitCall("channel_aton", "C", T(0, 4, 2, 1, 2, 2, 1), <<T(0, 4, 1, 1, 1, 2, 1), T(0, 4, 1, 1, 1, 2, 1)>>),
   SplitCall("channel_aton", "C", T(0, 1, 4, 1, 4, 2, 2),
             <<T(0, 1, 1, 1, 1, 2, 2), T(0, 1, 1, 1, 1, 2, 2), T(0, 1, 1, 1, 1, 2, 2), T(0, 1, 1, 1, 1, 2, 2)>>),
   SplitCall("channel_batched", "C", T(0, 1, 6, 1, 6, 2, 2), <<T(0, 1, 1, 1, 2, 2, 2), T(0, 1, 2, 1, 4, 2, 2)>>),
   SplitCall("channel_batched", "C", T(0, 2, 3, 1, 3, 1, 3), <<T(0, 2, 2, 1, 2, 1, 3), T(0, 2, 1, 1, 1, 1, 3)>>),
   SplitCall("channel_batched", "C", T(0, 1, 6, 1, 6, 2, 2),
             <<T(0, 1, 1, 1, 2, 2, 2), T(0, 1, 1, 1, 1, 2, 2), T(0, 1, 2, 1, 2, 2, 2), T(0, 1, 1, 1, 1, 2, 2)>>),
   SplitCall("flat", "N", T(0, 2, 2, 3, 2, 1, 2), <<T(0, 2, 2, 1, 2, 1, 2), T(0, 2, 2, 2, 2, 1, 2)>>),
   SplitCall("flat", "N", T(0, 1, 1, 5, 1, 1, 4),
             <<T(0, 1, 1, 1, 1, 1, 4), T(0, 1, 1, 2, 1, 1, 4), T(0, 1, 1, 2, 1, 1, 4)>>),
   SplitCall("flat", "N", T(0, 1, 1, 5, 1, 1, 4),
             <<T(0, 1, 1, 1, 1, 1, 4), T(0, 1, 1, 1, 1, 1, 4), T(0, 1, 1, 2, 1, 1, 4), T(0, 1, 1, 1, 1, 1, 4)>>)}

(* The same lists with the written tensors on lines of the cache of their  *)
(* own, the flat turns of which leave the engines the rest of a prolog.    *)
UpTo(at) == LineSize * ((at + LineSize - 1) \div LineSize)
AlignedConcats == {[c EXCEPT !.out.at = UpTo(@)] : c \in {c \in ConcatCalls : c.dim = "N"}}
AlignedSplits ==
  {[c EXCEPT !.outs = Chain(UpTo(@[1].at), @)] : c \in {c \in SplitCalls : c.case = "flat"}}

BlockCall(op, in, out, bh, bw) ==
  [op |-> op, in |-> [in EXCEPT !.at = 3], out |-> [out EXCEPT !.at = 4 + Size(in)],
   bh |-> bh, bw |-> bw]
BlockCalls ==
  {BlockCall("SpaceToDepth", T(0, 1, 2, 1, 2, 4, 2), T(0, 1, 8, 1, 8, 2, 1), 2, 2),
   BlockCall("SpaceToDepth", T(0, 1, 1, 2, 1, 2, 6), T(0, 1, 6, 2, 6, 1, 2), 2, 3),
   BlockCall("SpaceToDepth", T(0, 4, 1, 1, 1, 2, 2), T(0, 4, 2, 1, 2, 2, 1), 1, 2),
   BlockCall("SpaceToDepth", T(0, 1, 2, 1, 2, 3, 2), T(0, 1, 8, 1, 8, 1, 1), 2, 2),
   BlockCall("DepthToSpace", T(0, 1, 8, 1, 8, 2, 1), T(0, 1, 2, 1, 2, 4, 2), 2, 2),
   BlockCall("DepthToSpace", T(0, 2, 3, 2, 3, 1, 2), T(0, 2, 1, 2, 1, 1, 6), 1, 3),
   BlockCall("DepthToSpace", T(0, 1, 6, 1, 6, 1, 1), T(0, 1, 2, 1, 2, 2, 2), 2, 2)}

SliceCalls ==
  {[op |-> "Slice", from |-> 3, to |-> 30, width |-> w, rows |-> 3, line |-> 5, bits |-> 8] : w \in {1, 3, 4}}

(* perm gives the input axis of each output axis; the rest follows *)
TransposeCall(dims, perm, bytes) ==
  LET n == Len(dims)
      size(o) == dims[perm[o]]
  IN  [op |-> "Transpose", dims |-> dims, perm |-> perm, bytes |-> bytes,
       target |-> [i \in 1..n |-> CHOOSE o \in 1..n : perm[o] = i],
       off |-> [o \in 1..n |-> bytes * Product([j \in 1..n - o |-> size(o + j)])],
       from |-> 2, to |-> 3 + bytes * Product(dims)]
TransposeCalls ==
  {TransposeCall(<<2, 2, 1, 3>>, perm, 1) : perm \in {<<1, 3, 4, 2>>, <<4, 3, 2, 1>>, <<2, 1, 3, 4>>}}
  \cup {TransposeCall(<<2, 3, 2>>, perm, 2) : perm \in {<<1, 3, 2>>, <<3, 1, 2>>}}
  \cup {TransposeCall(<<1, 2, 2, 2>>, <<1, 4, 2, 3>>, 4), TransposeCall(<<1, 2, 2>>, <<3, 2, 1>>, 1),
        TransposeCall(<<1, 1, 2, 1, 2>>, <<4, 5, 2, 3, 1>>, 1), TransposeCall(<<1, 2, 2, 1, 2>>, <<1, 3, 2, 5, 4>>, 1),
        TransposeCall(<<1, 1, 2, 2>>, <<1, 4, 2, 3>>, 1),
        TransposeCall(<<2, 2>>, <<2, 1>>, 1), TransposeCall(<<3>>, <<1>>, 1), TransposeCall(<<2, 4>>, <<2, 1>>, 1)}

(* The output has cache lines of its own, as the tensors of the generated  *)
(* networks do.                                                            *)
PadCall(mode, dims, start, end, bytes) ==
  [op |-> "Pad", mode |-> mode, dims |-> dims, start |-> start, end |-> end, bytes |-> bytes,
   from |-> 4, to |-> 4 * ((7 + bytes * Product(dims)) \div 4)]
ConstantPad(dims, start, end, bytes) == PadCall("constant", dims, start, end, bytes)
PadCalls ==
  {ConstantPad(<<2, 2>>, <<1, 1>>, <<0, 1>>, 1), ConstantPad(<<2, 2>>, <<0, 0>>, <<1, 0>>, 1),
   ConstantPad(<<2, 2, 3>>, <<1, 0, 1>>, <<0, 1, 0>>, 1), ConstantPad(<<3, 8>>, <<-1, 0>>, <<1, 0>>, 1),
   ConstantPad(<<2, 9>>, <<0, 1>>, <<0, 2>>, 1), ConstantPad(<<2, 2, 4>>, <<1, 0, 0>>, <<0, -1, 0>>, 1),
   ConstantPad(<<2, 3, 2>>, <<0, -1, 1>>, <<1, 1, 1>>, 1), ConstantPad(<<2, 5>>, <<0, -1>>, <<1, 0>>, 2),
   ConstantPad(<<1, 3>>, <<1, 0>>, <<1, 0>>, 3), ConstantPad(<<1, 2>>, <<1, 1>>, <<1, 0>>, 4),
   ConstantPad(<<1, 7>>, <<0, 0>>, <<1, 0>>, 2), ConstantPad(<<1, 8>>, <<0, 0>>, <<0, 1>>, 1),
   ConstantPad(<<2, 1>>, <<0, -1>>, <<0, 20>>, 1), ConstantPad(<<2, 2>>, <<0, -2>>, <<0, 2>>, 2), ConstantPad(<<1, 1, 2, 6>>, <<0, 0, 0, 0>>, <<0, 0, 1, 0>>, 1)}
FramedPads ==
  {PadCall(mode, c.dims, c.start, c.end, c.bytes) : mode \in {"reflect", "edge"},
   c \in {ConstantPad(<<3, 2>>, <<4, 1>>, <<1, 0>>, 1), ConstantPad(<<2, 8>>, <<2, 0>>, <<1, 0>>, 1),
          ConstantPad(<<2, 9>>, <<0, 3>>, <<1, 2>>, 1), ConstantPad(<<1, 2, 2>>, <<1, 1, 0>>, <<0, 0, 1>>, 1),
          ConstantPad(<<1, 2, 4>>, <<1, 0, 0>>, <<0, 1, 0>>, 2), ConstantPad(<<1, 1, 2, 4>>, <<0, 1, 0, 0>>, <<0, 0, 0, 0>>, 1),
          ConstantPad(<<1, 3>>, <<0, 2>>, <<0, 2>>, 3), ConstantPad(<<1, 2>>, <<1, 1>>, <<0, 0>>, 4)}}
  \cup {PadCall("edge", <<3, 8>>, <<-1, 0>>, <<2, 0>>, 1), PadCall("edge", <<2, 4>>, <<1, -1>>, <<0, 2>>, 1)}

SwSliceCall(dims, shape, start, end, step, bytes, outBytes) ==
  [op |-> "SwSlice", dims |-> dims, shape |-> shape, start |-> start, end |-> end, step |-> step,
   bytes |-> bytes, outBytes |-> outBytes, from |-> 3, to |-> 4 + bytes * Product(dims)]
SwSliceCalls ==
  {SwSliceCall(<<3, 5>>, <<2, 3>>, <<1, 0>>, <<3, 5>>, <<1, 2>>, 1, 1),
   SwSliceCall(<<3, 5>>, <<2, 2>>, <<2, 4>>, <<0, 0>>, <<-1, -3>>, 1, 1),
   SwSliceCall(<<2, 3, 4>>, <<1, 2, 2>>, <<0, 2, 1>>, <<-1, 0, 4>>, <<-1, -1, 2>>, 2, 2),
   SwSliceCall(<<3, 5>>, <<2>>, <<1, 0>>, <<3, 5>>, <<1, 2>>, 1, 1),
   SwSliceCall(<<3, 4>>, <<3, 4>>, <<0, 0>>, <<3, 4>>, <<1, 1>>, 2, 1)}

AllCalls ==
  ConcatCalls \cup SplitCalls \cup AlignedConcats \cup AlignedSplits \cup BlockCalls
  \cup SliceCalls \cup SwSliceCalls \cup TransposeCalls \cup PadCalls \cup FramedPads
=============================================================================
