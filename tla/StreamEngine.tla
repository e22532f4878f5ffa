---------------------------- MODULE StreamEngine ----------------------------
(***************************************************************************)
(* The stream engines as LL_Streng_TensorInit (ll_aton.c) programs them:   *)
(* which bytes, in which order, an engine reads or writes for a tensor     *)
(* descriptor (LL_Streng_TensorInitTypeDef), and what a pair of engines    *)
(* joined by the stream switch does to memory.                             *)
(*                                                                         *)
(* A descriptor is a record: raw, at (addr_base + offset_start), len       *)
(* (offset_end - offset_start, raw only), bits (of a channel), width,      *)
(* height, depth (batch_depth, channels), pixel (batch_offset), line       *)
(* (line_offset), and for the frames: frames (frame_tot_cnt), frame        *)
(* (frame_offset), loop (frame_loop_cnt) and loops (loop_offset).          *)
(* Address limits only bound the prefetch and are left out.                *)
(***************************************************************************)
EXTENDS Integers, FiniteSetsExt

(* f where it is defined, g elsewhere *)
Over(f, g) == [x \in DOMAIN f \cup DOMAIN g |-> IF x \in DOMAIN f THEN f[x] ELSE g[x]]

(* one raw frame; the other fields are zero, as in a C initializer *)
Raw(at, len, bits) ==
  [raw |-> TRUE, at |-> at, len |-> len, bits |-> bits, width |-> 0,
   height |-> 0, depth |-> 0, pixel |-> 0, line |-> 0,
   frames |-> 1, frame |-> 0, loop |-> 0, loops |-> 0]

(* the register FSIZE counts whole channels: the rest of a raw length is   *)
(* not transferred                                                         *)
FrameBytes(d) ==
  IF d.raw THEN ((d.len * 8) \div d.bits) * (d.bits \div 8)
           ELSE d.width * d.height * d.depth * (d.bits \div 8)

FrameOffset(d, f) ==
  IF d.loop = 0 THEN f * d.frame
  ELSE (f \div d.loop) * d.loops + (f % d.loop) * d.frame

LineOffset(d) == IF d.line = 0 THEN d.width * d.pixel ELSE d.line

ByteOffset(d, b) ==
  LET depth == d.depth * (d.bits \div 8)
  IN  IF d.raw THEN b
      ELSE (b \div (d.width * depth)) * LineOffset(d)
           + ((b \div depth) % d.width) * d.pixel + (b % depth)

(* the bytes of all frames, numbered from 0 in the order of the stream *)
Count(d) == d.frames * FrameBytes(d)
Address(d, k) ==
  d.at + FrameOffset(d, k \div FrameBytes(d)) + ByteOffset(d, k % FrameBytes(d))
Addresses(d) == {Address(d, k) : k \in 0..Count(d) - 1}

(* The writing engine stops after its last frame (FRAMELIMIT) and raises   *)
(* the interrupt; it waits for ever when the stream ends before.           *)
Completes(in, out) == Count(in) >= Count(out)
Transferred(ram, in, out) ==
  LET moved == {<<Address(out, k), k>> : k \in 0..Count(out) - 1}
      last(a) == Max({m[2] : m \in {x \in moved : x[1] = a}})
  IN  Over([a \in Addresses(out) |-> ram[Address(in, last(a))]], ram)
=============================================================================
