------------------------ MODULE HybridCopiesProofs ------------------------
(***************************************************************************)
(* What holds of the copying operators for every call and every size:      *)
(* prolog and engines together copy exactly what was asked for, the        *)
(* engines are off between turns, and, from the inductive invariant Safe,  *)
(* no operator writes outside its output, its engines stay within the      *)
(* tensors of the call, and no line is dirty while they run.               *)
(***************************************************************************)
EXTENDS HybridCopiesInvariant, WellFoundedInduction, TLAPS

(* The prolog leaves a multiple of the three bytes of a channel.           *)
LEMMA PrologLeavesWholeChannels ==
  ASSUME NEW n \in Nat
  PROVE  /\ PrologLength(n) \in 0..n
         /\ n - PrologLength(n) > 0 => n >= DmaMin
         /\ (n - PrologLength(n)) % 3 = 0
<1>1. CASE n < DmaMin
  BY <1>1, SizesAssumption DEF PrologLength
<1>2. CASE n >= DmaMin
  BY <1>2, SizesAssumption DEF PrologLength
<1> QED BY <1>1, <1>2, SizesAssumption

(* An engine in raw mode with channels of 24 bits transfers its whole      *)
(* length if that is a multiple of three, and stays within it              *)
(* (LL_Streng_TensorInit: FSIZE).                                          *)
LEMMA WholeChannelsAreTransferred ==
  ASSUME NEW at \in Int, NEW len \in Nat, len % 3 = 0, len > 0
  PROVE  /\ FrameBytes(Raw(at, len, 24)) = len
         /\ Count(Raw(at, len, 24)) = len
         /\ \A k \in 0..len - 1 : Address(Raw(at, len, 24), k) = at + k
<1> DEFINE d == Raw(at, len, 24)
<1>1. FrameBytes(d) = len
  <2>1. FrameBytes(d) = ((len * 8) \div 24) * (24 \div 8)
    BY DEF FrameBytes, Raw
  <2>2. ((len * 8) \div 24) * (24 \div 8) = len
    OBVIOUS
  <2> QED BY <2>1, <2>2
<1>2. Count(d) = len
  BY <1>1 DEF Count, Raw
<1>3. ASSUME NEW k \in 0..len - 1
      PROVE  Address(d, k) = at + k
  <2>1. k \div len = 0 /\ k % len = k
    OBVIOUS
  <2>2. Address(d, k) = d.at + FrameOffset(d, 0) + ByteOffset(d, k)
    BY <1>1, <2>1 DEF Address
  <2>3. FrameOffset(d, 0) = 0 /\ ByteOffset(d, k) = k /\ d.at = at
    BY DEF FrameOffset, ByteOffset, Raw
  <2> QED BY <2>2, <2>3
<1> QED BY <1>1, <1>2, <1>3

(* A flat copy of any length, as __ll_lib_inputs_memcpy_start and          *)
(* __ll_lib_outputs_memcpy_start begin it: the engines take up where the   *)
(* prolog stopped and move the rest to its last byte.                      *)
THEOREM FlatCopyIsExact ==
  ASSUME NEW n \in Nat, NEW dst \in Int, NEW src \in Int,
         PrologLength(n) < n
  PROVE  LET done == PrologLength(n)
             in == Raw(src + done, n - done, 24)
             out == Raw(dst + done, n - done, 24)
         IN  /\ Completes(in, out)
             /\ Addresses(in) = src + done .. src + n - 1
             /\ Addresses(out) = dst + done .. dst + n - 1
<1> DEFINE done == PrologLength(n)
           len == n - done
<1>1. done \in 0..n /\ len % 3 = 0
  BY PrologLeavesWholeChannels
<1>2. len \in Nat /\ len > 0
  <2>1. done \in 0..n /\ done < n
    BY <1>1
  <2> HIDE DEF done
  <2> QED BY <2>1
<1> HIDE DEF done
<1>3. ASSUME NEW at \in Int
      PROVE  /\ Count(Raw(at, len, 24)) = len
             /\ Addresses(Raw(at, len, 24)) = at .. at + len - 1
  <2>1. /\ Count(Raw(at, len, 24)) = len
        /\ \A k \in 0..len - 1 : Address(Raw(at, len, 24), k) = at + k
    BY <1>1, <1>2, WholeChannelsAreTransferred
  <2>2. Addresses(Raw(at, len, 24)) = {at + k : k \in 0..len - 1}
    BY <2>1 DEF Addresses
  <2>3. {at + k : k \in 0..len - 1} = at .. at + len - 1
    <3>1. ASSUME NEW a \in at .. at + len - 1
          PROVE  a - at \in 0..len - 1 /\ a = at + (a - at)
      BY <1>2
    <3> QED BY <1>2, <3>1
  <2> QED BY <2>1, <2>2, <2>3
<1>4. /\ Completes(Raw(src + done, len, 24), Raw(dst + done, len, 24))
      /\ Addresses(Raw(src + done, len, 24)) = src + done .. src + n - 1
      /\ Addresses(Raw(dst + done, len, 24)) = dst + done .. dst + n - 1
  <2>1. done \in Int /\ len = n - done
    BY <1>1
  <2>2. \A at \in Int : at + done \in Int /\ at + done + len - 1 = at + n - 1
    BY <2>1, <1>2
  <2> HIDE DEF len
  <2>3. Completes(Raw(src + done, len, 24), Raw(dst + done, len, 24))
    <3>1. /\ Count(Raw(src + done, len, 24)) = len
          /\ Count(Raw(dst + done, len, 24)) = len
      BY <1>3, <2>2
    <3>2. len >= len
      BY <1>2
    <3> QED BY <3>1, <3>2 DEF Completes
  <2> QED BY <1>3, <2>2, <2>3
<1> QED BY <1>4 DEF done

-----------------------------------------------------------------------------
(* Engines are on only during a turn that waits for them, so that its end  *)
(* function switches them off.                                             *)
Engines ==
  /\ on => pc \in {"wait", "end"} /\ wait
  /\ block \in {"transfer", "memset"} /\ pc = "start" => wait

(* An operator inserts a block or works on the CPU: it leaves the engines  *)
(* alone.                                                                  *)
LEMMA OperatorKeepsEngines ==
  ASSUME Engines, Operator
  PROVE  Engines'
<1>1. pc = "call" /\ ~on
  BY DEF Operator, Engines, Concat, Split, Slice, SwSlice, SpaceToDepth, DepthToSpace, Transpose, Pad
<1>2. on' = on
  BY DEF Operator, Concat, Split, Slice, SwSlice, SpaceToDepth, DepthToSpace, Transpose, Pad,
         Inserts, Returns, Rejects, BatchedConcat, PadMemset
<1>3. pc' = "start" => wait'
  BY DEF Operator, Concat, Split, Slice, SwSlice, SpaceToDepth, DepthToSpace, Transpose, Pad,
         Inserts, Returns, Rejects, BatchedConcat, PadMemset, Filling, FillsByEngines
<1> QED BY <1>1, <1>2, <1>3 DEF Engines

(* A start function that enables the engines has a turn to wait for.       *)
LEMMA StartKeepsEngines ==
  ASSUME Engines, Start
  PROVE  Engines'
<1>1. ASSUME NEW rest, NEW q, Launches(rest, q)
      PROVE  Engines'
  BY <1>1 DEF Launches, Engines
<1>2. CASE StartTransfer
  BY <1>2 DEF Start, StartTransfer, Engines
<1>3. CASE StartInputs
  BY <1>1, <1>3 DEF StartInputs, StartsFlat
<1>4. CASE StartOutputs
  BY <1>1, <1>4 DEF StartOutputs, StartsFlat
<1>5. CASE StartFilling
  BY <1>1, <1>5 DEF StartFilling, StartsFlat
<1>6. CASE StartBatched
  BY <1>1, <1>6 DEF StartBatched
<1>7. CASE StartSplit
  BY <1>1, <1>7 DEF StartSplit
<1> QED BY <1>2, <1>3, <1>4, <1>5, <1>6, <1>7 DEF Start

(* Every end function stops the engines before the next block starts.      *)
LEMMA EndKeepsEngines ==
  ASSUME Engines, End
  PROVE  Engines'
<1>1. ASSUME Stops
      PROVE  on' = FALSE
  BY <1>1 DEF Stops, Engines
<1>2. CASE EndTransfer
  BY <1>2 DEF EndTransfer, Engines
<1>3. CASE EndMemset
  BY <1>3 DEF EndMemset, Filling, FillsByEngines, Engines
<1>4. CASE EndFilling
  BY <1>1, <1>4 DEF EndFilling, Engines
<1>5. ASSUME NEW q, NextTurn(q), Stops, block \notin {"transfer", "memset"}
      PROVE  Engines'
  BY <1>1, <1>5 DEF NextTurn, Engines
<1>6. CASE EndFlat \/ EndBatched \/ EndSplitAton \/ EndSplitBatched
  BY <1>5, <1>6 DEF EndFlat, EndBatched, EndSplitAton, EndSplitBatched
<1> QED BY <1>2, <1>3, <1>4, <1>6 DEF End

(* Whatever the call, the engines are off when no turn is under way, so    *)
(* that the block that follows may program them (__ll_lib_stop_transfer).  *)
THEOREM EnginesAreOffBetweenTurns == Spec => []EnginesOffBetweenTurns
<1>1. Init => Engines
  BY DEF Init, Engines
<1>2. ASSUME Engines, [Next]_vars
      PROVE  Engines'
  <2>1. CASE EnginesDone
    BY <1>2, <2>1 DEF EnginesDone, Engines
  <2>2. CASE Evict
    BY <1>2, <2>2 DEF Evict, Engines
  <2>3. CASE Finished \/ UNCHANGED vars
    BY <1>2, <2>3 DEF Finished, vars, Engines
  <2> QED BY <1>2, <2>1, <2>2, <2>3, OperatorKeepsEngines, StartKeepsEngines,
             EndKeepsEngines DEF Next
<1>3. Engines => EnginesOffBetweenTurns
  BY DEF Engines, EnginesOffBetweenTurns
<1> QED BY <1>1, <1>2, <1>3, PTL DEF Spec

-----------------------------------------------------------------------------

(***************************************************************************)
(* Induction and folds.  The least element of a set of naturals (from the  *)
(* well-foundedness of Nat) gives induction over a set that is named; the  *)
(* sums, products and loops of the model are then computed one element at  *)
(* a time.                                                                 *)
(***************************************************************************)

(* A set of naturals that is not empty has a least element.                *)
LEMMA LeastElement ==
  ASSUME NEW T, T \subseteq Nat, T # {}
  PROVE  \E m \in T : \A n \in T : m <= n
<1> DEFINE R == OpToRel(<, Nat)
<1>1. IsWellFoundedOn(R, Nat)
  BY NatLessThanWellFounded
<1>2. \A a, b \in Nat : a < b => <<a, b>> \in R
  BY DEF OpToRel
<1> HIDE DEF R
<1>3. PICK m \in T : \A n \in T : <<n, m>> \notin R
  BY <1>1, WFMin
<1>4. \A n \in T : ~(n < m)
  BY <1>2, <1>3
<1> QED BY <1>4

(* A set of naturals with 0 and with the successor of each of its          *)
(* elements is Nat.                                                        *)
LEMMA SetInduction ==
  ASSUME NEW S, S \subseteq Nat, 0 \in S, \A n \in S : n + 1 \in S
  PROVE  S = Nat
<1>1. SUFFICES ASSUME Nat \ S # {} PROVE FALSE
  OBVIOUS
<1>2. PICK m \in Nat \ S : \A n \in Nat \ S : m <= n
  BY <1>1, LeastElement
<1>3. m - 1 \in S
  BY <1>2
<1>4. m - 1 + 1 \in S /\ m - 1 + 1 = m
  BY <1>3
<1> QED BY <1>4

(* A set of integers with an upper bound has a greatest element, and Max   *)
(* names it.                                                               *)
LEMMA GreatestElement ==
  ASSUME NEW n \in Int, NEW S, S \subseteq Int, \A x \in S : x <= n, S # {}
  PROVE  Max(S) \in S /\ \A x \in S : x <= Max(S)
<1> DEFINE T == {n - x : x \in S}
<1>1. T \subseteq Nat /\ T # {}
  <2>1. \A x \in S : x \in Int /\ x <= n /\ n - x \in Nat
    OBVIOUS
  <2> QED BY <2>1
<1>2. PICK m \in T : \A k \in T : m <= k
  BY <1>1, LeastElement
<1>3. n - m \in S
  BY <1>2
<1>4. \A x \in S : n - m >= x
  BY <1>2
<1>5. \E x \in S : \A y \in S : x >= y
  BY <1>3, <1>4
<1> QED BY <1>5 DEF Max

(* The folds of the model as one recursion.                                *)
Neutral(of, with) ==
  CASE of = "total" -> 0 [] of = "product" -> 1
    [] of = "rows" -> {FirstRow(with)} [] of = "frames" -> with
Combined(of, with, x, y) ==
  CASE of = "total" -> x + y [] of = "product" -> x * y
    [] of = "rows" ->
         {FirstRow(with)} \cup {NextRow(w, with) : w \in {v \in x : Open(v, with) # {}}}
    [] of = "frames" -> {Copied(m, Frames(y)) : m \in x}
IsFold(g, ns, of, with) ==
  g = [s \in SUBSET DOMAIN ns |->
         IF s = {} THEN Neutral(of, with) ELSE Combined(of, with, g[s \ {Max(s)}], ns[Max(s)])]
Folded(ns, of, with) == (CHOOSE g : IsFold(g, ns, of, with))[DOMAIN ns]

(* The four folds of the model are one recursion with different            *)
(* parameters. Total adds up.                                              *)
LEMMA TotalIsFold ==
  ASSUME NEW ns
  PROVE  Total(ns) = Folded(ns, "total", 0)
BY Zenon DEF Total, FoldLeft, MapThenFoldSet, IsFold, Combined, Neutral, Folded

(* Product multiplies.                                                     *)
LEMMA ProductIsFold ==
  ASSUME NEW ns
  PROVE  Product(ns) = Folded(ns, "product", 0)
BY Zenon DEF Product, FoldLeft, MapThenFoldSet, IsFold, Combined, Neutral, Folded

(* Rows walks the rows of a padding one after the other (the loop over     *)
(* the rows of the software filling).                                      *)
LEMMA RowsIsFold ==
  ASSUME NEW c
  PROVE  Rows(c) = Folded([k \in 1..Product(SubSeq(MinShape, 1, c - 1)) - 1 |-> k], "rows", c)
BY Zenon DEF Rows, FoldLeft, MapThenFoldSet, IsFold, Combined, Neutral, Folded

(* Framed writes the frames axis by axis, from the innermost outwards.     *)
LEMMA FramedIsFold ==
  ASSUME NEW ms
  PROVE  Framed(ms) = Folded(Reverse([a \in Axes |-> a]), "frames", ms)
BY Zenon DEF Framed, FoldLeft, MapThenFoldSet, IsFold, Combined, Neutral, Folded

(* There is a function that satisfies the recursion of a fold, on every    *)
(* list.                                                                   *)
LEMMA FoldExists ==
  ASSUME NEW n \in Nat, NEW ns, DOMAIN ns = 1..n, NEW of, NEW with
  PROVE  \E g : IsFold(g, ns, of, with)
<1> DEFINE Step(g, s) == IF s = {} THEN Neutral(of, with)
                         ELSE Combined(of, with, g[s \ {Max(s)}], ns[Max(s)])
           P(k) == \E g : g = [s \in SUBSET (1..k) |-> Step(g, s)]
           S == {k \in Nat : P(k)}
<1>1. 0 \in S
  <2> DEFINE g == [s \in SUBSET (1..0) |-> Neutral(of, with)]
  <2>1. SUBSET (1..0) = {{}}
    OBVIOUS
  <2>2. g = [s \in SUBSET (1..0) |-> Step(g, s)]
    BY <2>1
  <2> QED BY <2>2
<1>2. ASSUME NEW k \in Nat, P(k)
      PROVE  P(k + 1)
  <2>1. PICK g : g = [s \in SUBSET (1..k) |-> Step(g, s)]
    BY <1>2
  <2> DEFINE h == [s \in SUBSET (1..k + 1) |->
                     IF k + 1 \in s THEN Combined(of, with, g[s \ {k + 1}], ns[k + 1]) ELSE g[s]]
  <2>2. ASSUME NEW s \in SUBSET (1..k + 1)
        PROVE  h[s] = Step(h, s)
    <3>1. CASE k + 1 \in s
      <4>1. Max(s) \in s /\ \A x \in s : x <= Max(s)
        <5>1. k + 1 \in Int /\ s \subseteq Int /\ s # {} /\ \A x \in s : x <= k + 1
          BY <3>1
        <5> QED BY <5>1, GreatestElement
      <4>2. Max(s) = k + 1
        <5>1. Max(s) \in 1..k + 1 /\ k + 1 <= Max(s)
          BY <4>1, <3>1, Zenon
        <5> QED BY <5>1
      <4>3. s \ {k + 1} \in SUBSET (1..k) /\ k + 1 \notin s \ {k + 1}
        OBVIOUS
      <4>4. h[s \ {k + 1}] = g[s \ {k + 1}]
        BY <4>3, 1..k \subseteq 1..k + 1
      <4> QED BY <4>2, <4>4, <3>1
    <3>2. CASE s = {}
      <4>1. h[s] = g[s] /\ s \in SUBSET (1..k)
        BY <3>2
      <4>2. g[s] = Step(g, s)
        BY <2>1, <4>1
      <4> HIDE DEF h
      <4> QED BY <4>1, <4>2, <3>2
    <3>3. CASE k + 1 \notin s /\ s # {}
      <4>1. s \in SUBSET (1..k) /\ h[s] = g[s]
        BY <3>3
      <4>2. g[s] = Step(g, s)
        BY <2>1, <4>1
      <4>3. h[s \ {Max(s)}] = g[s \ {Max(s)}]
        BY <3>3
      <4> HIDE DEF h
      <4> QED BY <4>1, <4>2, <4>3, <3>3
    <3> QED BY <3>1, <3>2, <3>3
  <2>3. h = [s \in SUBSET (1..k + 1) |-> Step(h, s)]
    <3> HIDE DEF Step
    <3> QED BY <2>2
  <2> HIDE DEF h
  <2> QED BY <2>3
<1>3. n \in S
  <2> HIDE DEF P
  <2>1. \A k \in S : k + 1 \in S
    BY <1>2
  <2>2. S = Nat
    <3>1. S \subseteq Nat
      OBVIOUS
    <3> HIDE DEF S
    <3> QED BY <1>1, <2>1, <3>1, SetInduction
  <2> QED BY <2>2
<1> QED BY <1>3 DEF IsFold

(* What the recursion gives on the first k elements is g[1..k].            *)
FoldsTo(g, n, ns, of, with) ==
  /\ Folded(ns, of, with) = g[1..n]
  /\ g[{}] = Neutral(of, with)
  /\ \A k \in 0..n - 1 : g[1..k + 1] = Combined(of, with, g[1..k], ns[k + 1])

(* What a fold computes, one element at a time: a function of the          *)
(* prefixes 1..k.                                                          *)
LEMMA FoldIsFold ==
  ASSUME NEW n \in Nat, NEW ns, DOMAIN ns = 1..n, NEW of, NEW with
  PROVE  \E g : FoldsTo(g, n, ns, of, with)
<1> DEFINE g == CHOOSE x : IsFold(x, ns, of, with)
<1>1. IsFold(g, ns, of, with)
  BY FoldExists
<1> HIDE DEF g
<1>2. g = [s \in SUBSET (1..n) |->
         IF s = {} THEN Neutral(of, with) ELSE Combined(of, with, g[s \ {Max(s)}], ns[Max(s)])]
  BY <1>1, Zenon DEF IsFold
<1>3. g[{}] = Neutral(of, with)
  BY <1>2
<1>4. ASSUME NEW k \in 0..n - 1
      PROVE  g[1..k + 1] = Combined(of, with, g[1..k], ns[k + 1])
  <2> k \in Int /\ 0 <= k /\ k + 1 <= n
    OBVIOUS
  <2>1. 1..k + 1 \in SUBSET (1..n) /\ 1..k + 1 # {}
    <3>1. k + 1 \in 1..k + 1
      OBVIOUS
    <3>2. \A x \in 1..k + 1 : x \in 1..n
      OBVIOUS
    <3> QED BY <3>1, <3>2
  <2>2. Max(1..k + 1) \in 1..k + 1 /\ \A x \in 1..k + 1 : x <= Max(1..k + 1)
    <3>1. k + 1 \in Int /\ 1..k + 1 \subseteq Int /\ \A x \in 1..k + 1 : x <= k + 1
      OBVIOUS
    <3> QED BY <2>1, <3>1, GreatestElement
  <2>3. Max(1..k + 1) = k + 1
    BY <2>2
  <2>4. (1..k + 1) \ {k + 1} = 1..k
    OBVIOUS
  <2> QED BY <1>2, <2>1, <2>3, <2>4, Zenon
<1>5. Folded(ns, of, with) = g[1..n]
  BY Zenon DEF Folded, g
<1> QED BY <1>3, <1>4, <1>5, Zenon DEF FoldsTo

(* The last element of the list is combined last.                          *)
LEMMA FoldStep ==
  ASSUME NEW n \in Nat, NEW ns, DOMAIN ns = 1..n + 1, NEW of, NEW with
  PROVE  Folded(ns, of, with)
           = Combined(of, with, Folded([i \in 1..n |-> ns[i]], of, with), ns[n + 1])
<1> DEFINE ms == [i \in 1..n |-> ns[i]]
<1>1. PICK g : /\ Folded(ns, of, with) = g[1..n + 1]
               /\ g[{}] = Neutral(of, with)
               /\ \A k \in 0..n : g[1..k + 1] = Combined(of, with, g[1..k], ns[k + 1])
  <2>1. PICK m \in Nat : m = n + 1 /\ 0..m - 1 = 0..n
    OBVIOUS
  <2>2. PICK g : FoldsTo(g, m, ns, of, with)
    BY <2>1, FoldIsFold
  <2>3. /\ Folded(ns, of, with) = g[1..m]
        /\ g[{}] = Neutral(of, with)
        /\ \A k \in 0..m - 1 : g[1..k + 1] = Combined(of, with, g[1..k], ns[k + 1])
    BY <2>2, Zenon DEF FoldsTo
  <2> QED BY <2>1, <2>3, Zenon
<1>2. PICK h : /\ Folded(ms, of, with) = h[1..n]
               /\ h[{}] = Neutral(of, with)
               /\ \A k \in 0..n - 1 : h[1..k + 1] = Combined(of, with, h[1..k], ms[k + 1])
  <2>1. DOMAIN ms = 1..n
    OBVIOUS
  <2> HIDE DEF ms
  <2>2. \E h : FoldsTo(h, n, ms, of, with)
    BY <2>1, FoldIsFold
  <2> QED BY <2>2, Zenon DEF FoldsTo
<1> DEFINE S == {k \in Nat : k <= n => g[1..k] = h[1..k]}
<1>3. 0 \in S
  <2>1. 1..0 = {}
    OBVIOUS
  <2> QED BY <1>1, <1>2, <2>1
<1>4. ASSUME NEW k \in S PROVE k + 1 \in S
  <2>1. CASE k + 1 <= n
    <3>1. ms[k + 1] = ns[k + 1]
      BY <2>1
    <3>2. g[1..k] = h[1..k] /\ k \in 0..n /\ k \in 0..n - 1
      BY <2>1
    <3>3. g[1..k + 1] = h[1..k + 1]
      BY <3>1, <3>2, <1>1, <1>2
    <3> QED BY <3>3
  <2>2. CASE k + 1 > n
    BY <2>2
  <2> QED BY <2>1, <2>2
<1>5. g[1..n] = h[1..n]
  <2>1. S = Nat
    BY <1>3, <1>4, SetInduction
  <2> QED BY <2>1
<1> QED BY <1>1, <1>2, <1>5

-----------------------------------------------------------------------------

(***************************************************************************)
(* Memory and cache.  What the CPU, the engines and the maintenance of     *)
(* the cache do to them keeps what lies outside the output sound.          *)
(***************************************************************************)

(* Each byte is in one cache line.                                         *)
LEMMA LineFacts ==
  ASSUME NEW a \in Int
  PROVE  /\ LineOf(a) \in Int
         /\ a \in LineOf(a) * LineSize .. (LineOf(a) + 1) * LineSize - 1
         /\ \A l \in Int : a \in l * LineSize .. (l + 1) * LineSize - 1 => l = LineOf(a)
<1> DEFINE l == a \div LineSize
           r == a % LineSize
<1>1. l \in Int /\ r \in 0 .. LineSize - 1 /\ a = LineSize * l + r
  BY LineAssumption
<1> HIDE DEF l, r
<1>2. (l + 1) * LineSize = LineSize * l + LineSize /\ l * LineSize = LineSize * l
  BY <1>1, LineAssumption
<1>3. a \in l * LineSize .. (l + 1) * LineSize - 1
  <2> DEFINE x == LineSize * l
  <2>1. x \in Int /\ a = x + r /\ LineSize \in Nat
    BY <1>1, LineAssumption
  <2>2. l * LineSize = x /\ (l + 1) * LineSize = x + LineSize
    BY <1>2
  <2> HIDE DEF x
  <2>3. a \in x .. x + LineSize - 1
    BY <2>1, <1>1
  <2> DEFINE y == (l + 1) * LineSize
             z == l * LineSize
  <2>4. z = x /\ y = x + LineSize
    BY <2>2
  <2> HIDE DEF y, z
  <2>5. a \in z .. y - 1
    BY <2>1, <2>3, <2>4
  <2> QED BY <2>5 DEF y, z
<1>4. ASSUME NEW k \in Int, a \in k * LineSize .. (k + 1) * LineSize - 1
      PROVE  k = l
  <2>1. k * LineSize < (l + 1) * LineSize /\ l * LineSize < (k + 1) * LineSize
    <3>1. /\ k * LineSize \in Int /\ (k + 1) * LineSize \in Int 
          /\ l * LineSize \in Int /\ (l + 1) * LineSize \in Int
      BY <1>1, <1>4, LineAssumption
    <3> QED BY <3>1, <1>3, <1>4
  <2>2. k < l + 1
    BY <2>1, <1>1, LineAssumption
  <2>3. l < k + 1
    BY <2>1, <1>1, LineAssumption
  <2> QED BY <2>2, <2>3, <1>1
<1> QED BY <1>1, <1>3, <1>4 DEF LineOf, l

(* A byte is in some lines when its own line is one of them.               *)
LEMMA InLinesIff ==
  ASSUME NEW lines, lines \subseteq Int, NEW a
  PROVE  a \in InLines(lines) <=> a \in Int /\ LineOf(a) \in lines
<1>1. ASSUME a \in InLines(lines)
      PROVE  a \in Int /\ LineOf(a) \in lines
  <2>1. PICK l \in lines : a \in l * LineSize .. (l + 1) * LineSize - 1
    BY <1>1 DEF InLines
  <2>2. a \in Int
    <3>1. l * LineSize \in Int /\ (l + 1) * LineSize - 1 \in Int
      BY LineAssumption
    <3> QED BY <2>1, <3>1
  <2>3. l = LineOf(a)
    BY <2>1, <2>2, LineFacts
  <2> QED BY <2>2, <2>3
<1>2. ASSUME a \in Int, LineOf(a) \in lines
      PROVE  a \in InLines(lines)
  BY <1>2, LineFacts DEF InLines
<1> QED BY <1>1, <1>2

(* The lines of some bytes hold these bytes, and the bytes on their        *)
(* lines.                                                                  *)
LEMMA LinesOfIff ==
  ASSUME NEW bytes, bytes \subseteq Int
  PROVE  /\ LinesOf(bytes) \subseteq Int
         /\ bytes \subseteq InLines(LinesOf(bytes))
         /\ \A a : a \in InLines(LinesOf(bytes)) <=>
                     a \in Int /\ \E b \in bytes : LineOf(a) = LineOf(b)
<1>1. LinesOf(bytes) \subseteq Int
  BY LineFacts DEF LinesOf
<1>2. \A a : a \in InLines(LinesOf(bytes)) <=>
               a \in Int /\ \E b \in bytes : LineOf(a) = LineOf(b)
  <2>1. \A a : a \in InLines(LinesOf(bytes)) <=> a \in Int /\ LineOf(a) \in LinesOf(bytes)
    BY <1>1, InLinesIff
  <2> QED BY <2>1 DEF LinesOf
<1> QED BY <1>1, <1>2

(* The memory ends with a whole line: a byte on the line of a byte of      *)
(* memory is in memory.                                                    *)
LEMMA WholeLinesInMemory ==
  ASSUME NEW a \in Memory, NEW b \in Int, LineOf(b) = LineOf(a)
  PROVE  b \in Memory
<1> DEFINE l == LineOf(a)
           n == MemorySize \div LineSize
<1>1. l \in Int /\ n \in Int /\ LineSize \in Int /\ LineSize > 0 /\ MemorySize = LineSize * n
  <2>1. l \in Int
    BY LineFacts DEF Memory
  <2>2. MemorySize \in Nat /\ LineSize \in Nat \ {0} /\ MemorySize % LineSize = 0
    BY LineAssumption, SizesAssumption, LineAssumption
  <2>3. MemorySize = LineSize * (MemorySize \div LineSize) + (MemorySize % LineSize)
        /\ MemorySize \div LineSize \in Int
    BY <2>2
  <2> HIDE DEF l
  <2> QED BY <2>1, <2>2, <2>3
<1>2. /\ l * LineSize <= a /\ a < (l + 1) * LineSize
      /\ l * LineSize <= b /\ b < (l + 1) * LineSize
      /\ l * LineSize \in Int /\ (l + 1) * LineSize \in Int
  <2>1. l * LineSize \in Int /\ (l + 1) * LineSize \in Int
    BY <1>1
  <2>2. a \in l * LineSize .. (l + 1) * LineSize - 1 /\ b \in l * LineSize .. (l + 1) * LineSize - 1
    BY LineFacts DEF Memory
  <2> QED BY <2>1, <2>2 DEF Memory
<1> HIDE DEF l, n
<1>3. 0 <= a /\ a < LineSize * n /\ a \in Int
  BY <1>1, SizesAssumption DEF Memory
<1>4. l >= 0
  <2>1. 0 < (l + 1) * LineSize
    BY <1>2, <1>3
  <2> QED BY <2>1, <1>1
<1>5. l + 1 <= n
  <2>1. l * LineSize < n * LineSize
    BY <1>1, <1>2, <1>3
  <2>2. l < n
    BY <2>1, <1>1
  <2> QED BY <2>2, <1>1
<1>6. 0 <= l * LineSize /\ (l + 1) * LineSize <= LineSize * n
  BY <1>1, <1>4, <1>5
<1> QED BY <1>1, <1>2, <1>6, SizesAssumption DEF Memory

(* Filling cache lines from memory keeps a memory sound.                   *)
LEMMA LoadedSound ==
  ASSUME NEW m, NEW out, Sound(m, out), NEW bytes
  PROVE  /\ Sound(Loaded(m, bytes), out)
         /\ Loaded(m, bytes).ram = m.ram
         /\ Loaded(m, bytes).dirty = m.dirty
         /\ DOMAIN Loaded(m, bytes).cache = DOMAIN m.cache \cup InLines(LinesOf(bytes))
<1> DEFINE more == [a \in InLines(LinesOf(bytes)) |-> m.ram[a]]
           new == Over(m.cache, more)
           lm == Loaded(m, bytes)
<1>1. lm = [m EXCEPT !.cache = new]
  BY Zenon DEF Loaded
<1>2. lm.ram = m.ram /\ lm.dirty = m.dirty /\ lm.cache = new /\ IsMemory(lm)
  <2> HIDE DEF new
  <2> QED BY <1>1 DEF Sound, IsMemory
<1>3. /\ DOMAIN new = DOMAIN m.cache \cup InLines(LinesOf(bytes))
      /\ \A a \in DOMAIN new : new[a] = IF a \in DOMAIN m.cache THEN m.cache[a] ELSE m.ram[a]
  BY DEF Over
<1> HIDE DEF lm, new
<1>4. Sound(lm, out)
  BY <1>2, <1>3 DEF Sound
<1> QED BY <1>2, <1>3, <1>4 DEF lm

(* Storing bytes of the output keeps a memory sound; their lines become    *)
(* dirty.                                                                  *)
LEMMA StoredSound ==
  ASSUME NEW m, NEW out, Sound(m, out), NEW bytes, DOMAIN bytes \subseteq out \cap Memory
  PROVE  /\ Sound(Stored(m, bytes), out)
         /\ Stored(m, bytes).ram = m.ram
         /\ Stored(m, bytes).dirty = m.dirty \cup LinesOf(DOMAIN bytes)
         /\ DOMAIN Stored(m, bytes).cache = DOMAIN m.cache \cup InLines(LinesOf(DOMAIN bytes))
<1> DEFINE to == DOMAIN bytes
           lm == Loaded(m, to)
           new == Over(bytes, lm.cache)
           lines == m.dirty \cup LinesOf(to)
           sm == Stored(m, bytes)
<1>1. to \subseteq Int /\ to \subseteq InLines(LinesOf(to)) /\ LinesOf(to) \subseteq Int
  BY LinesOfIff DEF Memory
<1>2. /\ Sound(lm, out) /\ lm.ram = m.ram /\ lm.dirty = m.dirty
      /\ DOMAIN lm.cache = DOMAIN m.cache \cup InLines(LinesOf(to))
  BY LoadedSound
<1>3. sm = [lm EXCEPT !.cache = new, !.dirty = lines]
  BY <1>2, Zenon DEF Stored
<1> HIDE DEF lm
<1>4. sm.ram = m.ram /\ sm.cache = new /\ sm.dirty = lines /\ IsMemory(sm)
  <2> HIDE DEF new, lines, sm
  <2> QED BY <1>2, <1>3 DEF Sound, IsMemory
<1>5. /\ DOMAIN new = to \cup DOMAIN lm.cache
      /\ \A a \in DOMAIN new : new[a] = IF a \in to THEN bytes[a] ELSE lm.cache[a]
  BY DEF Over
<1> HIDE DEF sm, new
<1>6. InLines(lines) \subseteq DOMAIN new \cap Memory
  <2>1. SUFFICES ASSUME NEW a \in InLines(lines)
                 PROVE  a \in DOMAIN new /\ a \in Memory
    OBVIOUS
  <2>2. lines \subseteq Int
    BY <1>1 DEF Sound
  <2>3. a \in Int /\ LineOf(a) \in lines
    BY <2>2, InLinesIff
  <2>4. CASE LineOf(a) \in m.dirty
    <3>1. a \in InLines(m.dirty)
      BY <2>3, <2>4, InLinesIff DEF Sound
    <3> QED BY <3>1, <1>2, <1>5 DEF Sound
  <2>5. CASE LineOf(a) \in LinesOf(to)
    <3>1. PICK b \in to : LineOf(a) = LineOf(b)
      BY <2>5 DEF LinesOf
    <3>2. a \in Memory
      BY <3>1, <2>3, WholeLinesInMemory
    <3>3. a \in InLines(LinesOf(to))
      BY <2>3, <2>5, <1>1, InLinesIff
    <3> QED BY <3>2, <3>3, <1>2, <1>5
  <2> QED BY <2>3, <2>4, <2>5
<1>7. Sound(sm, out)
  <2>1. ASSUME NEW a \in Memory \ out, a \in DOMAIN new
        PROVE  new[a] = a
    BY <2>1, <1>2, <1>5 DEF Sound
  <2> QED BY <1>1, <1>2, <1>4, <1>6, <2>1 DEF Sound
<1>8. DOMAIN new = DOMAIN m.cache \cup InLines(LinesOf(to))
  BY <1>1, <1>2, <1>5
<1> QED BY <1>4, <1>7, <1>8 DEF sm

(* The bytes that a list of memcpy calls writes.                           *)
Written(copies) == UNION {{c.dst + k : k \in 0..c.n - 1} : c \in copies}

(* So does a copy of the CPU that writes within the output.                *)
LEMMA CopiedSound ==
  ASSUME NEW m, NEW out, Sound(m, out), NEW copies,
         Written(copies) \subseteq out \cap Memory
  PROVE  /\ Sound(Copied(m, copies), out)
         /\ Copied(m, copies).ram = m.ram
         /\ Copied(m, copies).dirty = m.dirty \cup LinesOf(Written(copies))
<1> DEFINE from == UNION {{<<c.dst + k, c.src + k>> : k \in 0..c.n - 1} : c \in copies}
           lm == Loaded(m, {f[2] : f \in from})
           bytes == [a \in {f[1] : f \in from} |-> CpuView(m)[(CHOOSE f \in from : f[1] = a)[2]]]
<1>1. Copied(m, copies) = Stored(lm, bytes)
  BY Zenon DEF Copied
<1>3. {f[1] : f \in from} = Written(copies)
  <2>1. ASSUME NEW a \in Written(copies)
        PROVE  a \in {f[1] : f \in from}
    <3>1. PICK c \in copies : a \in {c.dst + k : k \in 0..c.n - 1}
      BY <2>1 DEF Written
    <3>2. PICK k \in 0..c.n - 1 : a = c.dst + k
      BY <3>1
    <3>3. <<c.dst + k, c.src + k>> \in from
      OBVIOUS
    <3>4. <<c.dst + k, c.src + k>>[1] = a
      BY <3>2
    <3> HIDE DEF from
    <3> QED BY <3>3, <3>4
  <2>2. ASSUME NEW f \in from
        PROVE  f[1] \in Written(copies)
    <3>1. PICK c \in copies : f \in {<<c.dst + k, c.src + k>> : k \in 0..c.n - 1}
      OBVIOUS
    <3> QED BY <3>1 DEF Written
  <2> QED BY <2>1, <2>2
<1> HIDE DEF from
<1>4. Sound(lm, out) /\ lm.ram = m.ram /\ lm.dirty = m.dirty
  <2> DEFINE s == {f[2] : f \in from}
  <2> HIDE DEF s
  <2> QED BY LoadedSound DEF s
<1>5. DOMAIN bytes = Written(copies)
  BY <1>3
<1> HIDE DEF lm, bytes
<1> QED BY <1>1, <1>4, <1>5, StoredSound

(* Writing lines back keeps a memory sound: outside the output they hold   *)
(* what memory holds.                                                      *)
LEMMA CleanedSound ==
  ASSUME NEW m, NEW out, Sound(m, out), NEW lines, lines \subseteq Int
  PROVE  /\ Sound(Cleaned(m, lines), out)
         /\ Cleaned(m, lines).dirty = m.dirty \ lines
         /\ Cleaned(m, lines).cache = m.cache
<1> DEFINE gone == InLines(lines \cap m.dirty)
           new == Over(Restrict(m.cache, gone), m.ram)
           rest == m.dirty \ lines
           cm == Cleaned(m, lines)
<1>1. cm = [m EXCEPT !.ram = new, !.dirty = rest]
  BY Zenon DEF Cleaned
<1>2. cm.ram = new /\ cm.cache = m.cache /\ cm.dirty = rest /\ IsMemory(cm)
  <2> HIDE DEF new, rest, cm
  <2> QED BY <1>1 DEF Sound, IsMemory
<1>3. /\ DOMAIN new = gone \cup DOMAIN m.ram
      /\ \A a \in DOMAIN new : new[a] = IF a \in gone THEN m.cache[a] ELSE m.ram[a]
  BY DEF Over, Restrict
<1> HIDE DEF cm, new
<1>4. /\ gone \subseteq InLines(m.dirty)
      /\ InLines(rest) \subseteq InLines(m.dirty)
  BY DEF InLines
<1> HIDE DEF gone
<1>5. Sound(cm, out)
  BY <1>2, <1>3, <1>4 DEF Sound
<1> QED BY <1>2, <1>5 DEF cm

(* So does cleaning and invalidating them                                  *)
(* (mcu_cache_clean_invalidate_range).                                     *)
LEMMA WrittenBackSound ==
  ASSUME NEW m, NEW out, Sound(m, out), NEW lines, lines \subseteq Int
  PROVE  /\ Sound(WrittenBack(m, lines), out)
         /\ WrittenBack(m, lines).dirty = m.dirty \ lines
         /\ WrittenBack(m, lines).ram = Cleaned(m, lines).ram
<1> DEFINE cm == Cleaned(m, lines)
           new == Restrict(cm.cache, DOMAIN cm.cache \ InLines(lines))
           wm == WrittenBack(m, lines)
<1>1. Sound(cm, out) /\ cm.dirty = m.dirty \ lines /\ cm.cache = m.cache
  BY CleanedSound
<1>2. wm = [cm EXCEPT !.cache = new]
  BY Zenon DEF WrittenBack
<1> HIDE DEF cm
<1>3. wm.ram = cm.ram /\ wm.cache = new /\ wm.dirty = cm.dirty /\ IsMemory(wm)
  <2> HIDE DEF new, wm
  <2> QED BY <1>1, <1>2 DEF Sound, IsMemory
<1>4. /\ DOMAIN new = DOMAIN cm.cache \ InLines(lines)
      /\ \A a \in DOMAIN new : new[a] = cm.cache[a]
  BY DEF Restrict
<1> HIDE DEF wm, new
<1>5. InLines(cm.dirty) \subseteq DOMAIN new
  <2>1. SUFFICES ASSUME NEW a \in InLines(cm.dirty)
                 PROVE  a \in DOMAIN cm.cache /\ a \notin InLines(lines)
    BY <1>4
  <2>2. LineOf(a) \in cm.dirty
    BY <1>1, InLinesIff DEF Sound
  <2>3. a \notin InLines(lines)
    BY <1>1, <2>2, InLinesIff
  <2> QED BY <1>1, <2>3 DEF Sound
<1>6. Sound(wm, out)
  BY <1>1, <1>3, <1>4, <1>5 DEF Sound
<1> QED BY <1>1, <1>3, <1>6 DEF wm, cm

(* So does a transfer of the engines that writes within the output; it     *)
(* leaves the cache alone.                                                 *)
LEMMA TransferredSound ==
  ASSUME NEW m, NEW out, Sound(m, out), NEW from, NEW to, Addresses(to) \subseteq out \cap Memory
  PROVE  LET em == [m EXCEPT !.ram = Transferred(@, from, to)]
         IN  Sound(em, out) /\ em.dirty = m.dirty
<1> DEFINE new == Transferred(m.ram, from, to)
           em == [m EXCEPT !.ram = new]
<1>1. em.ram = new /\ em.cache = m.cache /\ em.dirty = m.dirty /\ IsMemory(em)
  <2> HIDE DEF new
  <2> QED BY DEF Sound, IsMemory
<1>2. /\ DOMAIN new = Addresses(to) \cup DOMAIN m.ram
      /\ \A a \in DOMAIN new : a \notin Addresses(to) => new[a] = m.ram[a]
  BY DEF Transferred, Over
<1> HIDE DEF em, new
<1>3. Sound(em, out)
  BY <1>1, <1>2 DEF Sound
<1> QED BY <1>1, <1>3 DEF em, new

-----------------------------------------------------------------------------

(***************************************************************************)
(* Engines.  How far from its first byte an engine gets.                   *)
(***************************************************************************)

(* products of naturals that come up in every bound *)
LEMMA ProductNat ==
  ASSUME NEW a \in Nat, NEW b \in Nat
  PROVE  a * b \in Nat
OBVIOUS

(* A product grows with its factors.                                       *)
LEMMA ProductMonotone ==
  ASSUME NEW a \in Nat, NEW b \in Nat, NEW c \in Nat, a <= b
  PROVE  a * c <= b * c /\ c * a <= c * b
OBVIOUS

(* digit r below n of a number in base n *)
LEMMA RowBound ==
  ASSUME NEW m \in Nat, NEW n \in Nat, NEW q \in 0..m - 1, NEW r \in 0..n - 1
  PROVE  q * n + r \in 0..m * n - 1
<1>1. q \in Nat /\ m - 1 - q \in Nat /\ q + 1 <= m
  OBVIOUS
<1>2. (q + 1) * n <= m * n
  BY <1>1, ProductMonotone
<1>3. (q + 1) * n = q * n + n /\ q * n \in Nat /\ m * n \in Nat
  BY <1>1
<1> QED BY <1>2, <1>3

(* A number below m * n is a multiple of n and a rest.                     *)
LEMMA Division ==
  ASSUME NEW m \in Nat, NEW n \in Nat, NEW k \in 0..m * n - 1
  PROVE  /\ n > 0
         /\ k \div n \in 0..m - 1
         /\ k % n \in 0..n - 1
         /\ k = (k \div n) * n + (k % n)
<1>1. n > 0
  <2>1. n = 0 => m * n = 0
    OBVIOUS
  <2> QED BY <2>1
<1> DEFINE q == k \div n
           r == k % n
<1>2. k \in Nat /\ k < m * n /\ m * n \in Nat
  BY ProductNat
<1>3. k = n * q + r /\ r \in 0..n - 1 /\ q \in Int
  BY <1>1, <1>2
<1>4. q >= 0
  BY <1>1, <1>2
<1> HIDE DEF q, r
<1>5. q < m
  <2>1. SUFFICES ASSUME m <= q PROVE FALSE
    BY <1>3
  <2>2. m * n <= q * n
    BY <2>1, <1>3, <1>4, ProductMonotone
  <2>3. q * n = n * q
    BY <1>3
  <2>4. n * q \in Int
    BY <1>3
  <2> QED BY <1>2, <1>3, <2>2, <2>3, <2>4
<1>6. n * q = q * n
  BY <1>3
<1> QED BY <1>1, <1>3, <1>4, <1>5, <1>6 DEF q, r

(* the whole bytes of a length of samples *)
LEMMA WholeSamples ==
  ASSUME NEW len \in Nat, NEW bits \in {8, 16, 24}
  PROVE  ((len * 8) \div bits) * (bits \div 8) \in 0..len
<1>1. CASE bits = 8
  BY <1>1
<1>2. CASE bits = 16
  BY <1>2
<1>3. CASE bits = 24
  BY <1>3
<1> QED BY <1>1, <1>2, <1>3

(* what a raw engine without loops addresses *)
LEMMA RawReach ==
  ASSUME NEW d, d.raw = TRUE, d.loop = 0, d.at \in Int, d.len \in Nat, d.bits \in {8, 16, 24},
         d.frames \in Nat, d.frame \in Nat,
         NEW a \in Addresses(d)
  PROVE  \E f \in 0..d.frames - 1, b \in 0..d.len - 1 : a = d.at + f * d.frame + b
<1> DEFINE n == FrameBytes(d)
<1>1. n \in 0..d.len
  BY WholeSamples DEF FrameBytes
<1> HIDE DEF n
<1>2. PICK k \in 0..d.frames * n - 1 : a = Address(d, k)
  BY DEF Addresses, Count, n
<1>3. k \div n \in 0..d.frames - 1 /\ k % n \in 0..n - 1
  <2>1. n \in Nat
    BY <1>1
  <2> QED BY <2>1, Division
<1>4. a = d.at + (k \div n) * d.frame + (k % n)
  BY <1>2, Zenon DEF Address, FrameOffset, ByteOffset, n
<1>5. k % n \in 0..d.len - 1
  BY <1>1, <1>3
<1> QED BY <1>3, <1>4, <1>5

(* what a shaped engine addresses *)
LEMMA ShapedReach ==
  ASSUME NEW d, d.raw = FALSE, d.bits \in {8, 16, 24}, d.frames \in Nat,
         d.width \in Nat, d.height \in Nat, d.depth \in Nat,
         NEW a \in Addresses(d)
  PROVE  \E f \in 0..d.frames - 1, y \in 0..d.height - 1, x \in 0..d.width - 1,
            r \in 0..d.depth * (d.bits \div 8) - 1 :
           a = d.at + FrameOffset(d, f) + (y * LineOffset(d) + x * d.pixel + r)
<1> DEFINE deep == d.depth * (d.bits \div 8)
           row == d.width * deep
           n == FrameBytes(d)
<1>1. deep \in Nat /\ d.bits \div 8 \in Nat
  OBVIOUS
<1>2. n = d.height * row
  <2>1. n = d.width * d.height * d.depth * (d.bits \div 8)
    BY DEF FrameBytes
  <2> DEFINE s == d.bits \div 8
  <2> HIDE DEF n, s
  <2>2. d.width * d.height * d.depth * s = d.height * (d.width * (d.depth * s))
    BY <1>1 DEF s
  <2> QED BY <2>1, <2>2 DEF s
<1>3. row \in Nat /\ n \in Nat
  <2>1. row \in Nat
    BY <1>1, ProductNat
  <2> HIDE DEF row, n
  <2> QED BY <2>1, <1>2, ProductNat
<1> HIDE DEF n
<1>4. PICK k \in 0..d.frames * n - 1 : a = Address(d, k)
  BY DEF Addresses, Count, n
<1> DEFINE f == k \div n
           b == k % n
<1>5. f \in 0..d.frames - 1 /\ b \in 0..n - 1
  BY <1>3, Division
<1>6. a = d.at + FrameOffset(d, f) + ByteOffset(d, b)
  BY <1>4 DEF Address, n
<1> HIDE DEF f, b, row
<1>7. b \in 0..d.height * row - 1
  BY <1>2, <1>5
<1>8. b \div row \in 0..d.height - 1 /\ b % row \in 0..row - 1
  BY <1>3, <1>7, Division
<1>9. deep > 0 /\ d.width > 0 /\ b \in Nat
  <2>1. row > 0
    BY <1>3, <1>7, Division
  <2>2. deep = 0 => row = 0
    BY DEF row
  <2>3. d.width = 0 => row = 0
    BY <1>1 DEF row
  <2> QED BY <2>1, <2>2, <2>3, <1>1, <1>5, <1>3
<1>10. (b \div deep) % d.width \in 0..d.width - 1 /\ b % deep \in 0..deep - 1
  <2> HIDE DEF deep
  <2>1. b \div deep \in Int
    BY <1>9, <1>1
  <2> QED BY <2>1, <1>9, <1>1
<1>11. ByteOffset(d, b)
         = (b \div row) * LineOffset(d) + ((b \div deep) % d.width) * d.pixel + (b % deep)
  BY Zenon DEF ByteOffset, row
<1> QED BY <1>5, <1>6, <1>8, <1>10, <1>11

-----------------------------------------------------------------------------

(***************************************************************************)
(* Sums and products over lists.                                           *)
(***************************************************************************)

(* A sum and a product of a sequence, one element at a time.               *)
LEMMA TotalStep ==
  ASSUME NEW n \in Nat, NEW ns, DOMAIN ns = 1..n + 1
  PROVE  Total(ns) = Total([i \in 1..n |-> ns[i]]) + ns[n + 1]
BY FoldStep, TotalIsFold, Zenon DEF Combined

(* A fold over the empty list is the neutral element.                      *)
LEMMA FoldEmpty ==
  ASSUME NEW ns, DOMAIN ns = {}, NEW of, NEW with
  PROVE  Folded(ns, of, with) = Neutral(of, with)
<1>1. DOMAIN ns = 1..0 /\ 1..0 = {} /\ 0 \in Nat
  OBVIOUS
<1>2. \E g : FoldsTo(g, 0, ns, of, with)
  BY <1>1, FoldIsFold
<1> QED BY <1>1, <1>2, Zenon DEF FoldsTo

(* The empty list adds up to 0.                                            *)
LEMMA TotalEmpty ==
  ASSUME NEW ns, DOMAIN ns = {}
  PROVE  Total(ns) = 0
BY FoldEmpty, TotalIsFold, Zenon DEF Neutral

(* The last factor is multiplied last.                                     *)
LEMMA ProductStep ==
  ASSUME NEW n \in Nat, NEW ns, DOMAIN ns = 1..n + 1
  PROVE  Product(ns) = Product([i \in 1..n |-> ns[i]]) * ns[n + 1]
<1> DEFINE ms == [i \in 1..n |-> ns[i]]
<1>1. Folded(ns, "product", 0) = Combined("product", 0, Folded(ms, "product", 0), ns[n + 1])
  BY FoldStep
<1>2. \A x, y : Combined("product", 0, x, y) = x * y
  BY DEF Combined
<1>3. Product(ns) = Folded(ns, "product", 0) /\ Product(ms) = Folded(ms, "product", 0)
  BY ProductIsFold
<1> QED BY <1>1, <1>2, <1>3, Zenon

(* The product of the empty list is 1.                                     *)
LEMMA ProductEmpty ==
  ASSUME NEW ns, DOMAIN ns = {}
  PROVE  Product(ns) = 1
BY FoldEmpty, ProductIsFold, Zenon DEF Neutral

(* Sums and products of the first k elements, for k up to the length.      *)
LEMMA PrefixSums ==
  ASSUME NEW n \in Nat, NEW ns, DOMAIN ns = 1..n
  PROVE  /\ Total(First(ns, 0)) = 0
         /\ \A k \in 0..n - 1 : Total(First(ns, k + 1)) = Total(First(ns, k)) + ns[k + 1]
         /\ Product(First(ns, 0)) = 1
         /\ \A k \in 0..n - 1 : Product(First(ns, k + 1)) = Product(First(ns, k)) * ns[k + 1]
<1>1. DOMAIN First(ns, 0) = {}
  BY DEF First
<1>2. ASSUME NEW k \in 0..n - 1
      PROVE  /\ Total(First(ns, k + 1)) = Total(First(ns, k)) + ns[k + 1]
             /\ Product(First(ns, k + 1)) = Product(First(ns, k)) * ns[k + 1]
  <2> DEFINE ms == First(ns, k + 1)
  <2>1. /\ DOMAIN ms = 1..k + 1 /\ ms[k + 1] = ns[k + 1]
        /\ [i \in 1..k |-> ms[i]] = First(ns, k) /\ k \in Nat
    BY DEF First
  <2> HIDE DEF ms
  <2>2. /\ Total(ms) = Total([i \in 1..k |-> ms[i]]) + ms[k + 1]
        /\ Product(ms) = Product([i \in 1..k |-> ms[i]]) * ms[k + 1]
    BY <2>1, TotalStep, ProductStep
  <2> QED BY <2>1, <2>2 DEF ms
<1> QED BY <1>1, <1>2, TotalEmpty, ProductEmpty

(* The first n of n elements are all of them.                              *)
LEMMA FirstIsAll ==
  ASSUME NEW n \in Nat, NEW S, NEW ns \in [1..n -> S]
  PROVE  First(ns, n) = ns
BY DEF First

(* A property of numbers that is true of 0 and passes on up to n.          *)
LEMMA BoundedInduction ==
  ASSUME NEW n \in Nat, NEW S, 0 \in S, \A k \in 0..n - 1 : k \in S => k + 1 \in S
  PROVE  \A k \in 0..n : k \in S
<1> DEFINE T == {k \in Nat : k <= n => k \in S}
<1>1. 0 \in T
  OBVIOUS
<1>2. ASSUME NEW k \in T
      PROVE  k + 1 \in T
  OBVIOUS
<1>3. T \subseteq Nat
  OBVIOUS
<1>4. T = Nat
  <2> HIDE DEF T
  <2> QED BY <1>1, <1>2, <1>3, SetInduction
<1> QED BY <1>4

(* Sums of integers are integers.                                          *)
LEMMA TotalInt ==
  ASSUME NEW n \in Nat, NEW ns \in [1..n -> Int]
  PROVE  \A k \in 0..n : Total(First(ns, k)) \in Int
<1> DEFINE S == {k \in 0..n : Total(First(ns, k)) \in Int}
<1>1. 0 \in S
  BY PrefixSums
<1>2. \A k \in 0..n - 1 : k \in S => k + 1 \in S
  <2>1. ASSUME NEW k \in 0..n - 1, k \in S
        PROVE  k + 1 \in S
    <3>1. Total(First(ns, k)) \in Int /\ ns[k + 1] \in Int
      BY <2>1
    <3>2. Total(First(ns, k + 1)) = Total(First(ns, k)) + ns[k + 1]
      BY PrefixSums
    <3>3. Total(First(ns, k + 1)) \in Int
      BY <3>1, <3>2
    <3> QED BY <3>3
  <2> QED BY <2>1
<1> HIDE DEF S
<1>3. \A k \in 0..n : k \in S
  BY <1>1, <1>2, BoundedInduction
<1> QED BY <1>3 DEF S

(* Sums of naturals are naturals.                                          *)
LEMMA TotalNat ==
  ASSUME NEW n \in Nat, NEW ns \in [1..n -> Nat]
  PROVE  /\ \A k \in 0..n : Total(First(ns, k)) \in Nat
         /\ Total(ns) \in Nat
<1> DEFINE S == {k \in 0..n : Total(First(ns, k)) \in Nat}
<1>1. 0 \in S
  BY PrefixSums
<1>2. \A k \in 0..n - 1 : k \in S => k + 1 \in S
  <2>1. ASSUME NEW k \in 0..n - 1, k \in S
        PROVE  k + 1 \in S
    <3>1. Total(First(ns, k)) \in Nat /\ ns[k + 1] \in Nat
      BY <2>1
    <3>2. Total(First(ns, k + 1)) = Total(First(ns, k)) + ns[k + 1]
      BY PrefixSums
    <3>3. Total(First(ns, k + 1)) \in Nat
      BY <3>1, <3>2
    <3> QED BY <3>3
  <2> QED BY <2>1
<1> HIDE DEF S
<1>3. \A k \in 0..n : k \in S
  BY <1>1, <1>2, BoundedInduction
<1> QED BY <1>3, FirstIsAll DEF S

(* Products of naturals are naturals.                                      *)
LEMMA ProductIsNat ==
  ASSUME NEW n \in Nat, NEW ns \in [1..n -> Nat]
  PROVE  /\ \A k \in 0..n : Product(First(ns, k)) \in Nat
         /\ Product(ns) \in Nat
<1> DEFINE S == {k \in 0..n : Product(First(ns, k)) \in Nat}
<1>1. 0 \in S
  BY PrefixSums
<1>2. \A k \in 0..n - 1 : k \in S => k + 1 \in S
  <2>1. ASSUME NEW k \in 0..n - 1, k \in S
        PROVE  k + 1 \in S
    <3>1. Product(First(ns, k)) \in Nat /\ ns[k + 1] \in Nat
      BY <2>1
    <3>2. Product(First(ns, k + 1)) = Product(First(ns, k)) * ns[k + 1]
      BY PrefixSums
    <3>3. Product(First(ns, k + 1)) \in Nat
      BY <3>1, <3>2, ProductNat
    <3> QED BY <3>3
  <2> QED BY <2>1
<1> HIDE DEF S
<1>3. \A k \in 0..n : k \in S
  BY <1>1, <1>2, BoundedInduction
<1> QED BY <1>3, FirstIsAll DEF S

(* The sum of a part of a sequence of naturals is not more than the whole. *)
LEMMA TotalMonotone ==
  ASSUME NEW n \in Nat, NEW ns \in [1..n -> Nat], NEW k \in 0..n
  PROVE  Total(First(ns, k)) <= Total(ns)
<1> DEFINE S == {d \in 0..n - k : Total(First(ns, k)) <= Total(First(ns, k + d))}
<1>1. 0 \in S
  <2>1. Total(First(ns, k)) \in Nat /\ k + 0 = k
    BY TotalNat
  <2> QED BY <2>1
<1>2. \A d \in 0..(n - k) - 1 : d \in S => d + 1 \in S
  <2>1. ASSUME NEW d \in 0..(n - k) - 1, d \in S
        PROVE  d + 1 \in S
    <3>1. k + d \in 0..n - 1 /\ k + (d + 1) = (k + d) + 1 /\ k + d \in 0..n /\ k + d + 1 \in 1..n
      OBVIOUS
    <3>2. Total(First(ns, k + d + 1)) = Total(First(ns, k + d)) + ns[k + d + 1]
      BY <3>1, PrefixSums
    <3>3. Total(First(ns, k)) \in Nat /\ Total(First(ns, k + d)) \in Nat /\ ns[k + d + 1] \in Nat
      BY <3>1, TotalNat
    <3>4. Total(First(ns, k)) <= Total(First(ns, k + d))
      BY <2>1
    <3>5. Total(First(ns, k)) <= Total(First(ns, k + (d + 1)))
      BY <3>1, <3>2, <3>3, <3>4
    <3> QED BY <3>5
  <2> QED BY <2>1
<1> HIDE DEF S
<1>3. n - k \in S
  <2>1. n - k \in Nat /\ n - k \in 0..n - k
    OBVIOUS
  <2> QED BY <1>1, <1>2, <2>1, BoundedInduction
<1> QED BY <1>3, FirstIsAll DEF S

(* a common factor *)
LEMMA TotalScaled ==
  ASSUME NEW n \in Nat, NEW ns \in [1..n -> Int], NEW f \in Int
  PROVE  Total([i \in 1..n |-> f * ns[i]]) = f * Total(ns)
<1> DEFINE ms == [i \in 1..n |-> f * ns[i]]
           S == {k \in 0..n : Total(First(ms, k)) = f * Total(First(ns, k))}
<1>0. DOMAIN ms = 1..n /\ DOMAIN ns = 1..n /\ ms \in [1..n -> Int]
  OBVIOUS
<1>1. 0 \in S
  <2>1. Total(First(ms, 0)) = 0 /\ Total(First(ns, 0)) = 0
    <3> HIDE DEF ms
    <3> QED BY <1>0, PrefixSums
  <2> QED BY <2>1
<1>2. \A k \in 0..n - 1 : k \in S => k + 1 \in S
  <2>1. ASSUME NEW k \in 0..n - 1, k \in S
        PROVE  k + 1 \in S
    <3>1. /\ Total(First(ms, k + 1)) = Total(First(ms, k)) + ms[k + 1]
          /\ Total(First(ns, k + 1)) = Total(First(ns, k)) + ns[k + 1]
      <4> HIDE DEF ms
      <4> QED BY <1>0, PrefixSums
    <3>2. ms[k + 1] = f * ns[k + 1] /\ ns[k + 1] \in Int /\ Total(First(ns, k)) \in Int
      BY TotalInt
    <3>3. Total(First(ms, k)) = f * Total(First(ns, k))
      BY <2>1
    <3> HIDE DEF ms
    <3>4. Total(First(ms, k + 1)) = f * Total(First(ns, k + 1))
      BY <3>1, <3>2, <3>3
    <3> QED BY <3>4
  <2> QED BY <2>1
<1>3. n \in S
  <2>1. n \in 0..n
    OBVIOUS
  <2> HIDE DEF S
  <2> QED BY <1>1, <1>2, <2>1, BoundedInduction
<1>4. First(ms, n) = ms /\ First(ns, n) = ns
  <2> HIDE DEF ms
  <2> QED BY <1>0, FirstIsAll
<1> QED BY <1>3, <1>4

-----------------------------------------------------------------------------

(***************************************************************************)
(* What a call is given, and what the maintenance of the cache does to a   *)
(* sound memory.                                                           *)
(***************************************************************************)

(* What is known of a call: what the compiler guarantees for its           *)
(* operator.                                                               *)
LEMMA CallIsGiven ==
  ASSUME call \in Calls
  PROVE  /\ call.op = "Concat" => ConcatIsGiven(call)
         /\ call.op = "Split" => SplitIsGiven(call)
         /\ call.op \in {"SpaceToDepth", "DepthToSpace"} => BlocksAreGiven(call)
         /\ call.op = "Slice" => SliceIsGiven(call)
         /\ call.op = "SwSlice" => SwSliceIsGiven(call)
         /\ call.op = "Transpose" => TransposeIsGiven(call)
         /\ call.op = "Pad" => PadIsGiven(call)
         /\ call.op \in {"Concat", "Split", "SpaceToDepth", "DepthToSpace", "Slice", "SwSlice",
                         "Transpose", "Pad"}
BY CallsAssumption DEF ConcatIsGiven, SplitIsGiven, BlocksAreGiven, SliceIsGiven,
   SwSliceIsGiven, TransposeIsGiven, PadIsGiven

(* A tensor has at least one byte, and its channels are whole batches.     *)
LEMMA SizeIsNat ==
  ASSUME NEW t \in Tensors
  PROVE  /\ Size(t) \in Nat \ {0}
         /\ t.at \in Nat /\ t.bytes \in 1..4 /\ t.batch \in Nat \ {0}
         /\ t.shape["N"] \in Nat \ {0} /\ t.shape["C"] \in Nat \ {0}
         /\ t.shape["H"] \in Nat \ {0} /\ t.shape["W"] \in Nat \ {0}
         /\ t.shape["C"] % t.batch = 0
<1>1. /\ t.at \in Nat /\ t.bytes \in 1..4 /\ t.batch \in Nat \ {0}
      /\ t.shape["N"] \in Nat \ {0} /\ t.shape["C"] \in Nat \ {0}
      /\ t.shape["H"] \in Nat \ {0} /\ t.shape["W"] \in Nat \ {0}
      /\ t.shape["C"] % t.batch = 0
  BY DEF Tensors, Dims
<1>2. \A a, b \in Nat \ {0} : a * b \in Nat \ {0}
  OBVIOUS
<1>3. t.bytes \in Nat \ {0}
  BY <1>1
<1>4. Size(t) \in Nat \ {0}
  BY <1>1, <1>2, <1>3 DEF Size
<1> QED BY <1>1, <1>4

(* Elements of a list *)
LEMMA ListElements ==
  ASSUME NEW S, NEW ts \in Lists(S)
  PROVE  /\ Len(ts) \in Nat \ {0} /\ DOMAIN ts = 1..Len(ts)
         /\ ts \in [1..Len(ts) -> S]
         /\ \A i \in 1..Len(ts) : ts[i] \in S
BY DEF Lists

(* What is used of the assumptions on a padding.                           *)
PadFacts(n) ==
  /\ n = Len(call.dims) /\ n \in Nat \ {0} /\ Axes = 1..n /\ DOMAIN call.dims = 1..n
  /\ call.dims \in [1..n -> Nat \ {0}]
  /\ call.start \in [1..n -> Int] /\ call.end \in [1..n -> Int]
  /\ PaddedDims \in [1..n -> Nat] /\ MinShape \in [1..n -> Nat]
  /\ \A a \in 1..n :
       /\ PaddedDims[a] = MinShape[a] + Positive(call.start[a]) + Positive(call.end[a])
       /\ call.dims[a] = MinShape[a] - Negative(call.start[a]) - Negative(call.end[a])
       /\ Positive(call.start[a]) \in Nat /\ Positive(call.end[a]) \in Nat
       /\ -Negative(call.start[a]) \in Nat /\ -Negative(call.end[a]) \in Nat
       /\ call.mode # "constant" \/ a # n => MinShape[a] > 0
  /\ call.to \in Nat /\ call.from \in Nat /\ call.bytes \in 1..4
  /\ PadSize \in Nat /\ InMemory(call.to, PadSize)
  /\ call.mode \in {"constant", "reflect", "edge"}

(* The facts about a padding that the proofs below use.                    *)
LEMMA PadIsTyped ==
  ASSUME PadIsGiven(call)
  PROVE  PadFacts(Len(call.dims))
<1> DEFINE n == Len(call.dims)
<1>1. /\ call.to \in Nat /\ call.from \in Nat /\ call.bytes \in 1..4
      /\ call.dims \in Lists(Nat \ {0})
      /\ call.start \in Seq(Int) /\ call.end \in Seq(Int)
      /\ Len(call.start) = n /\ Len(call.end) = n
      /\ call.mode \in {"constant", "reflect", "edge"}
  BY DEF PadIsGiven, Sizes
<1>2. n \in Nat \ {0} /\ DOMAIN call.dims = 1..n /\ call.dims \in [1..n -> Nat \ {0}]
  BY <1>1, ListElements
<1>3. call.start \in [1..n -> Int] /\ call.end \in [1..n -> Int]
  BY <1>1
<1>4. ASSUME NEW a \in 1..n
      PROVE  /\ call.dims[a] \in Nat /\ call.start[a] \in Int /\ call.end[a] \in Int
             /\ call.dims[a] + Negative(call.start[a]) + Negative(call.end[a]) >= 0
             /\ call.mode # "constant" \/ a # n =>
                  call.dims[a] + Negative(call.start[a]) + Negative(call.end[a]) >= 1
  <2>1. call.dims[a] \in Nat /\ call.start[a] \in Int /\ call.end[a] \in Int
    BY <1>2, <1>3
  <2>2. /\ call.dims[a] + Negative(call.start[a]) + Negative(call.end[a])
             >= IF call.mode = "constant" /\ a = n THEN 0 ELSE 1
    BY <1>2, Zenon DEF PadIsGiven, Negative
  <2>3. Negative(call.start[a]) \in Int /\ Negative(call.end[a]) \in Int
    BY <2>1 DEF Negative
  <2> QED BY <2>1, <2>2, <2>3
<1>5. /\ PaddedDims = [a \in 1..n |-> call.dims[a] + call.start[a] + call.end[a]]
      /\ MinShape = [a \in 1..n |-> call.dims[a] + Negative(call.start[a]) + Negative(call.end[a])]
      /\ Axes = 1..n
  BY <1>2 DEF PaddedDims, MinShape, Axes
<1>6. ASSUME NEW a \in 1..n
      PROVE  /\ PaddedDims[a] = MinShape[a] + Positive(call.start[a]) + Positive(call.end[a])
             /\ call.dims[a] = MinShape[a] - Negative(call.start[a]) - Negative(call.end[a])
             /\ Positive(call.start[a]) \in Nat /\ Positive(call.end[a]) \in Nat
             /\ -Negative(call.start[a]) \in Nat /\ -Negative(call.end[a]) \in Nat
             /\ call.mode # "constant" \/ a # n => MinShape[a] > 0
             /\ MinShape[a] \in Nat /\ PaddedDims[a] \in Nat
  <2>1. /\ PaddedDims[a] = call.dims[a] + call.start[a] + call.end[a]
        /\ MinShape[a] = call.dims[a] + Negative(call.start[a]) + Negative(call.end[a])
    BY <1>5
  <2>2. /\ PaddedDims[a] = MinShape[a] + Positive(call.start[a]) + Positive(call.end[a])
        /\ call.dims[a] = MinShape[a] - Negative(call.start[a]) - Negative(call.end[a])
        /\ Positive(call.start[a]) \in Nat /\ Positive(call.end[a]) \in Nat
        /\ -Negative(call.start[a]) \in Nat /\ -Negative(call.end[a]) \in Nat
        /\ MinShape[a] \in Nat /\ PaddedDims[a] \in Nat
    <3> DEFINE d == call.dims[a]
               s == call.start[a]
               e == call.end[a]
    <3>1. d \in Nat /\ s \in Int /\ e \in Int /\ d + Negative(s) + Negative(e) >= 0
      BY <1>4
    <3>2. PaddedDims[a] = d + s + e /\ MinShape[a] = d + Negative(s) + Negative(e)
      BY <2>1
    <3> HIDE DEF d, s, e
    <3>3. /\ PaddedDims[a] = MinShape[a] + Positive(s) + Positive(e)
          /\ d = MinShape[a] - Negative(s) - Negative(e)
          /\ Positive(s) \in Nat /\ Positive(e) \in Nat
          /\ -Negative(s) \in Nat /\ -Negative(e) \in Nat
          /\ MinShape[a] \in Nat /\ PaddedDims[a] \in Nat
      BY <3>1, <3>2 DEF Negative, Positive
    <3> QED BY <3>3 DEF d, s, e
  <2>3. call.mode # "constant" \/ a # n => MinShape[a] > 0
    <3>1. call.mode # "constant" \/ a # n => MinShape[a] >= 1
      BY <1>4, <2>1
    <3> QED BY <2>2, <3>1
  <2> QED BY <2>2, <2>3
<1>7. PaddedDims \in [1..n -> Nat] /\ MinShape \in [1..n -> Nat]
  BY <1>5, <1>6
<1>8. PadSize \in Nat
  <2>1. Product(PaddedDims) \in Nat
    BY <1>2, <1>7, ProductIsNat
  <2>2. call.bytes \in Nat
    BY <1>1
  <2> QED BY <2>1, <2>2, ProductNat DEF PadSize
<1>9. InMemory(call.to, PadSize)
  BY DEF PadIsGiven, PadSize, PaddedDims, Axes
<1> HIDE DEF n
<1>10. PadFacts(n)
  BY <1>1, <1>2, <1>3, <1>5, <1>6, <1>7, <1>8, <1>9 DEF PadFacts, n
<1> QED BY <1>10 DEF n

(* every output is in memory *)
LEMMA OutputsInMemory ==
  ASSUME call \in Calls
  PROVE  OutBytes \subseteq Memory
<1>0. MemorySize \in Nat
  BY SizesAssumption
<1>1. ASSUME NEW at \in Nat, NEW n \in Int, InMemory(at, n)
      PROVE  at .. at + n - 1 \subseteq Memory
  BY <1>0, <1>1 DEF InMemory, Memory
<1>2. ASSUME NEW t \in Tensors, InMemory(t.at, Size(t))
      PROVE  Bytes(t) \subseteq Memory
  BY <1>1, <1>2, SizeIsNat DEF Bytes
<1>3. CASE call.op = "Concat"
  <2>1. call.out \in Tensors /\ InMemory(call.out.at, Size(call.out))
    BY <1>3, CallIsGiven DEF ConcatIsGiven
  <2>2. OutBytes = Bytes(call.out)
    BY <1>3 DEF OutBytes, Elementwise, Outputs, AllBytes
  <2> QED BY <1>2, <2>1, <2>2
<1>4. CASE call.op = "Split"
  <2>1. /\ call.outs \in Lists(Tensors)
        /\ \A i \in DOMAIN call.outs : InMemory(call.outs[i].at, Size(call.outs[i]))
    BY <1>4, CallIsGiven DEF SplitIsGiven
  <2>2. OutBytes = UNION {Bytes(call.outs[i]) : i \in DOMAIN call.outs}
    BY <1>4 DEF OutBytes, Elementwise, Outputs, AllBytes
  <2>3. \A i \in DOMAIN call.outs : call.outs[i] \in Tensors
    BY <2>1, ListElements
  <2>4. \A i \in DOMAIN call.outs : Bytes(call.outs[i]) \subseteq Memory
    BY <1>2, <2>1, <2>3
  <2> QED BY <2>2, <2>4
<1>5. CASE call.op \in {"SpaceToDepth", "DepthToSpace"}
  <2>1. call.out \in Tensors /\ InMemory(call.out.at, Size(call.out))
    BY <1>5, CallIsGiven DEF BlocksAreGiven
  <2>2. OutBytes = Bytes(call.out)
    <3>1. Elementwise /\ call.op # "Split"
      BY <1>5 DEF Elementwise
    <3> QED BY <3>1 DEF OutBytes, Outputs, AllBytes
  <2> QED BY <1>2, <2>1, <2>2
<1>6. CASE call.op = "Slice"
  <2>1. /\ call.to \in Nat /\ call.width * call.rows \in Int
        /\ InMemory(call.to, call.width * call.rows)
    BY <1>6, CallIsGiven DEF SliceIsGiven
  <2>2. OutBytes = call.to .. call.to - 1 + call.width * call.rows
    BY <1>6 DEF OutBytes, Elementwise
  <2> DEFINE n == call.width * call.rows
  <2> HIDE DEF n
  <2>3. call.to - 1 + n = call.to + n - 1
    BY <2>1 DEF n
  <2> QED BY <1>1, <2>1, <2>2, <2>3 DEF n
<1>7. CASE call.op = "SwSlice"
  <2>1. call.to \in Nat /\ call.bytes \in Nat /\ call.shape \in Sizes
        /\ InMemory(call.to, call.bytes * Product(call.shape))
    BY <1>7, CallIsGiven DEF SwSliceIsGiven
  <2> DEFINE n == call.bytes * Product(call.shape)
  <2>2. n \in Int
    <3>1. call.shape \in [1..Len(call.shape) -> Nat] /\ Len(call.shape) \in Nat
      BY <2>1 DEF Sizes, Lists
    <3>2. Product(call.shape) \in Nat
      BY <3>1, ProductIsNat
    <3> QED BY <2>1, <3>2
  <2>3. OutBytes = call.to .. call.to - 1 + n
    BY <1>7 DEF OutBytes, Elementwise
  <2> HIDE DEF n
  <2>4. call.to - 1 + n = call.to + n - 1
    BY <2>1, <2>2
  <2> QED BY <1>1, <2>1, <2>2, <2>3, <2>4 DEF n
<1>8. CASE call.op = "Transpose"
  <2>1. call.to \in Nat /\ call.bytes \in Nat /\ call.dims \in Sizes
        /\ InMemory(call.to, call.bytes * Product(call.dims))
    BY <1>8, CallIsGiven DEF TransposeIsGiven
  <2> DEFINE n == call.bytes * Product(call.dims)
  <2>2. n \in Int
    <3>1. call.dims \in [1..Len(call.dims) -> Nat] /\ Len(call.dims) \in Nat
      BY <2>1 DEF Sizes, Lists
    <3>2. Product(call.dims) \in Nat
      BY <3>1, ProductIsNat
    <3> QED BY <2>1, <3>2
  <2>3. OutBytes = call.to .. call.to - 1 + n
    BY <1>8 DEF OutBytes, Elementwise
  <2> HIDE DEF n
  <2>4. call.to - 1 + n = call.to + n - 1
    BY <2>1, <2>2
  <2> QED BY <1>1, <2>1, <2>2, <2>3, <2>4 DEF n
<1>9. CASE call.op = "Pad"
  <2>1. PadIsGiven(call)
    BY <1>9, CallIsGiven
  <2>2. call.to \in Nat /\ PadSize \in Nat /\ InMemory(call.to, PadSize)
    BY <2>1, PadIsTyped DEF PadFacts
  <2>3. OutBytes = call.to .. call.to - 1 + PadSize
    BY <1>9 DEF OutBytes, Elementwise
  <2>4. call.to - 1 + PadSize = call.to + PadSize - 1
    BY <2>2
  <2> QED BY <1>1, <2>2, <2>3, <2>4
<1> QED BY <1>3, <1>4, <1>5, <1>6, <1>7, <1>8, <1>9, CallIsGiven

-----------------------------------------------------------------------------

(***************************************************************************)
(* Steps that change little, and the flat copies.                          *)
(***************************************************************************)

(* Range operations: what the CPU has just written is clean again. *)
LEMMA RangeIsInt ==
  ASSUME NEW at \in Int, NEW n \in Int
  PROVE  at .. at + n - 1 \subseteq Int /\ LinesOf(at .. at + n - 1) \subseteq Int
<1>1. at .. at + n - 1 \subseteq Int
  OBVIOUS
<1> QED BY <1>1, LinesOfIff

(* Cleaning and invalidating a range leaves no dirty line if the range     *)
(* holds every line that was dirty.                                        *)
LEMMA CleanInvalidateSound ==
  ASSUME NEW m, NEW out, Sound(m, out), NEW at \in Int, NEW n \in Int,
         m.dirty \subseteq LinesOf(at .. at + n - 1)
  PROVE  /\ Sound(CleanInvalidateRange(m, at, n), out)
         /\ CleanInvalidateRange(m, at, n).dirty = {}
<1> DEFINE lines == LinesOf(at .. at + n - 1)
<1>1. lines \subseteq Int
  BY RangeIsInt
<1>2. CleanInvalidateRange(m, at, n) = WrittenBack(m, lines)
  BY Zenon DEF CleanInvalidateRange
<1> HIDE DEF lines
<1>3. Sound(WrittenBack(m, lines), out) /\ WrittenBack(m, lines).dirty = m.dirty \ lines
  BY <1>1, WrittenBackSound
<1>4. m.dirty \ lines = {}
  BY DEF lines
<1> QED BY <1>2, <1>3, <1>4

(* Cleaning a range keeps a memory sound.                                  *)
LEMMA CleanSound ==
  ASSUME NEW m, NEW out, Sound(m, out), NEW at \in Int, NEW n \in Int
  PROVE  Sound(CleanRange(m, at, n), out)
<1> DEFINE lines == LinesOf(at .. at + n - 1)
<1>1. lines \subseteq Int
  BY RangeIsInt
<1>2. CleanRange(m, at, n) = Cleaned(m, lines)
  BY Zenon DEF CleanRange
<1> QED BY <1>1, <1>2, CleanedSound

(* A memset by the CPU *)
LEMMA SetSound ==
  ASSUME NEW m, NEW out, Sound(m, out), NEW at \in Int, NEW n \in Int,
         at .. at + n - 1 \subseteq out \cap Memory
  PROVE  /\ Sound(Set(m, at, n), out)
         /\ Set(m, at, n).dirty = m.dirty \cup LinesOf(at .. at + n - 1)
<1> DEFINE bytes == [a \in at .. at + n - 1 |-> Constant(a - at)]
<1>1. Set(m, at, n) = Stored(m, bytes)
  BY Zenon DEF Set
<1>2. DOMAIN bytes = at .. at + n - 1
  OBVIOUS
<1> HIDE DEF bytes
<1>3. Sound(Stored(m, bytes), out) /\ Stored(m, bytes).dirty = m.dirty \cup LinesOf(DOMAIN bytes)
  BY <1>2, StoredSound
<1> QED BY <1>1, <1>2, <1>3

(* What one memcpy writes.                                                 *)
LEMMA WrittenOne ==
  ASSUME NEW dst \in Int, NEW src, NEW n \in Int
  PROVE  Written({[dst |-> dst, src |-> src, n |-> n]}) = dst .. dst + n - 1
<1> DEFINE c == [dst |-> dst, src |-> src, n |-> n]
<1>1. Written({c}) = {dst + k : k \in 0..n - 1}
  BY DEF Written
<1>2. {dst + k : k \in 0..n - 1} = dst .. dst + n - 1
  <2>1. ASSUME NEW a \in dst .. dst + n - 1
        PROVE  a - dst \in 0..n - 1 /\ a = dst + (a - dst)
    OBVIOUS
  <2>2. \A k \in 0..n - 1 : dst + k \in dst .. dst + n - 1
    OBVIOUS
  <2> QED BY <2>1, <2>2
<1> QED BY <1>1, <1>2

(* The prolog leaves nothing in the cache that is not in memory. *)
LEMMA PrologSound ==
  ASSUME NEW out, Sound(mem, out), mem.dirty = {}, NEW dst \in Int, NEW src, NEW n \in Int,
         dst .. dst + n - 1 \subseteq out \cap Memory
  PROVE  Sound(Prolog(dst, src, n), out) /\ Prolog(dst, src, n).dirty = {}
<1> DEFINE copies == {[dst |-> dst, src |-> src, n |-> n]}
           cm == Copied(mem, copies)
<1>1. Written(copies) = dst .. dst + n - 1
  BY WrittenOne
<1>2. Prolog(dst, src, n) = CleanInvalidateRange(cm, dst, n)
  BY Zenon DEF Prolog
<1> HIDE DEF copies
<1>3. Sound(cm, out) /\ cm.dirty = mem.dirty \cup LinesOf(Written(copies))
  BY <1>1, CopiedSound
<1>4. cm.dirty \subseteq LinesOf(dst .. dst + n - 1)
  BY <1>1, <1>3
<1> HIDE DEF cm
<1> QED BY <1>2, <1>3, <1>4, CleanInvalidateSound

(* While the call stays, its tensors stay where they are.                  *)
LEMMA SameTensors ==
  ASSUME call' = call
  PROVE  OutBytes' = OutBytes /\ InBytes' = InBytes
BY DEF OutBytes, InBytes, Elementwise, Outputs, Inputs, AllBytes, Bytes, Size, PadSize, PaddedDims,
       Axes,
       Product, FoldLeft, MapThenFoldSet

(* Engines in raw mode stay within their length.                           *)
LEMMA FlatReach ==
  ASSUME NEW d, NEW bits \in {8, 16, 24}, IsRaw(d, bits), d.at \in Int, d.len \in Nat
  PROVE  Addresses(d) \subseteq d.at .. d.at + d.len - 1
<1>1. ASSUME NEW a \in Addresses(d)
      PROVE  a \in d.at .. d.at + d.len - 1
  <2>0. d.raw = TRUE /\ d.bits = bits /\ d.frames = 1 /\ d.frame = 0 /\ d.loop = 0
    BY DEF IsRaw
  <2>1. d.bits \in {8, 16, 24} /\ d.frames \in Nat /\ d.frame \in Nat
    BY <2>0
  <2>2. PICK f \in 0..d.frames - 1, b \in 0..d.len - 1 : a = d.at + f * d.frame + b
    BY <2>0, <2>1, RawReach
  <2>3. f * d.frame = 0
    BY <2>0, <2>2
  <2> QED BY <2>2, <2>3
<1> QED BY <1>1

(* What every step has to show. *)
LEMMA SafeAfter ==
  ASSUME Safe, call' = call,
         pc' \in {"call", "start", "wait", "end", "done", "failed"}, IsParams(p'),
         Sound(mem', OutBytes),
         pc' # "done" => mem'.dirty = {},
         pc' \in {"call", "failed"} => \A a \in Memory : mem'.ram[a] = a,
         pc' = "wait" => InsideTensors',
         pc' \in {"start", "wait", "end"} => Turn'
  PROVE  Safe'
<1>1. OutBytes' = OutBytes
  BY SameTensors
<1>2. Sound(mem, OutBytes)'
  BY <1>1 DEF Sound, InLines, Memory, IsMemory
<1> QED BY <1>2 DEF Safe, IsParams, Memory

(* The place of a row, of a turn and of the tensors depends on the call     *)
(* alone.                                                                  *)
LEMMA SameGeometry ==
  ASSUME call' = call
  PROVE  /\ ConsecutiveAxis' = ConsecutiveAxis
         /\ ConsecutiveBytes' = ConsecutiveBytes
         /\ \A w, c : IsRow(w, c)' <=> IsRow(w, c)
         /\ ConcatIsValid' <=> ConcatIsValid
<1>1. ConsecutiveAxis' = ConsecutiveAxis
  BY DEF ConsecutiveAxis, Axes
<1>2. ConsecutiveBytes' = ConsecutiveBytes
  BY <1>1 DEF ConsecutiveBytes, RowBytes, MinShape, Axes
<1>3. ASSUME NEW w, NEW c
      PROVE  IsRow(w, c)' <=> IsRow(w, c)
  BY DEF IsRow, Axes, MinShape, Offset, Digits, PadsOut, CropsIn, PaddedDims, Stride, Total,
         FoldLeft, MapThenFoldSet
<1>4. ConcatIsValid' <=> ConcatIsValid
  BY DEF ConcatIsValid, Total, FoldLeft, MapThenFoldSet
<1> QED BY <1>1, <1>2, <1>3, <1>4

(* A step that changes neither the call nor the block nor its parameters   *)
(* stays in the same turn.                                                 *)
LEMMA SameTurn ==
  ASSUME Turn, call' = call, block' = block, p' = p
  PROVE  Turn'
<1>1. CASE TransferTurn \/ MemsetTurn
  BY <1>1, SameTensors DEF Turn, TransferTurn, MemsetTurn, InsideTensors
<1>2. CASE FillingTurn
  BY <1>2, SameGeometry DEF Turn, FillingTurn
<1>3. CASE InputsTurn \/ OutputsTurn
  BY <1>3, SameGeometry DEF Turn, InputsTurn, OutputsTurn, OnTurn
<1>4. CASE BatchedTurn
  BY <1>4, SameGeometry DEF Turn, BatchedTurn, OnTurn, ChannelsBeforeTurn
<1>5. CASE SplitAtonTurn
  BY <1>5, SameGeometry DEF Turn, SplitAtonTurn, OnTurn, ChannelsBeforeTurn
<1>6. CASE SplitBatchedTurn
  BY <1>6, SameGeometry DEF Turn, SplitBatchedTurn, OnTurn, ChannelsBeforeTurn
<1> QED BY <1>1, <1>2, <1>3, <1>4, <1>5, <1>6 DEF Turn

(* the prolog's length, whatever the length of the copy *)
LEMMA PrologFits ==
  ASSUME NEW n \in Nat
  PROVE  PrologLength(n) \in 0..n
<1>1. CASE n < DmaMin
  BY <1>1 DEF PrologLength
<1>2. CASE ~(n < DmaMin)
  BY <1>2 DEF PrologLength
<1> QED BY <1>1, <1>2

(* A range within a range of bytes that lie in S.                          *)
LEMMA PartOfRange ==
  ASSUME NEW at \in Int, NEW n \in Int, NEW from \in Int, NEW len \in Int, NEW S,
         at .. at + n - 1 \subseteq S, from >= at, from + len <= at + n
  PROVE  from .. from + len - 1 \subseteq S
<1>1. from .. from + len - 1 \subseteq at .. at + n - 1
  OBVIOUS
<1> QED BY <1>1

(* a raw descriptor for other bytes *)
Moved(d, at, len) == [d EXCEPT !.at = at, !.len = len]

(* Moving an engine to another range changes nothing but the range.        *)
LEMMA RawMoved ==
  ASSUME NEW d, NEW bits, IsRaw(d, bits), NEW x, NEW y
  PROVE  IsRaw(Moved(d, x, y), bits) /\ Moved(d, x, y).at = x /\ Moved(d, x, y).len = y
BY DEF IsRaw, Moved

(* __ll_lib_inputs_memcpy_start, __ll_lib_outputs_memcpy_start and the     *)
(* start of a filled row: the prolog is written and cleaned before the     *)
(* engines get the rest, so a flat copy within the output keeps the        *)
(* memory sound and nothing dirty.                                         *)
LEMMA FlatStart ==
  ASSUME Safe, pc = "start", NEW dst \in Int, NEW src \in Int, NEW n \in Nat,
         StartsFlat(dst, src, n), IsRaw(p.in, 24), IsRaw(p.out, 24), block # "memset",
         dst .. dst + n - 1 \subseteq OutBytes, src .. src + n - 1 \subseteq InBytes
  PROVE  /\ call' = call /\ block' = block
         /\ Sound(mem', OutBytes) /\ mem'.dirty = {}
         /\ pc' \in {"wait", "end"}
         /\ pc' = "wait" => InsideTensors'
         /\ IsParams(p') /\ IsRaw(p'.in, 24) /\ IsRaw(p'.out, 24)
         /\ p'.tensors = p.tensors /\ p'.at = p.at /\ p'.size = p.size /\ p'.idx = p.idx
         /\ p'.pad = p.pad
<1> DEFINE done == PrologLength(n)
           rest == n - done
<1>1. done \in 0..n
  BY PrologFits
<1>2. call' = call /\ block' = block /\ pc' \in {"wait", "end"} /\ (pc' = "wait" => rest > 0)
  BY DEF StartsFlat, Launches
<1>3. Sound(mem', OutBytes) /\ mem'.dirty = {}
  <2>1. Sound(mem, OutBytes) /\ mem.dirty = {}
    BY DEF Safe
  <2>2. mem' = IF done > 0 THEN Prolog(dst, src, done) ELSE mem
    BY DEF StartsFlat
  <2>3. OutBytes \subseteq Memory
    BY OutputsInMemory DEF Safe
  <2> HIDE DEF done
  <2>4. dst .. dst + done - 1 \subseteq OutBytes
    BY <1>1, PartOfRange
  <2>5. done \in Int /\ dst .. dst + done - 1 \subseteq OutBytes \cap Memory
    BY <1>1, <2>3, <2>4
  <2>6. Sound(Prolog(dst, src, done), OutBytes) /\ Prolog(dst, src, done).dirty = {}
    BY <2>1, <2>5, PrologSound
  <2> QED BY <2>1, <2>2, <2>6
<1>4. p' = IF rest > 0
           THEN [p EXCEPT !.in.at = src + done, !.in.len = rest,
                          !.out.at = dst + done, !.out.len = rest]
           ELSE p
  BY DEF StartsFlat, Launches
<1>5. CASE rest > 0
  <2> HIDE DEF done
  <2> DEFINE in == Moved(p.in, src + done, rest)
             out == Moved(p.out, dst + done, rest)
  <2>1. p' = [p EXCEPT !.in = in, !.out = out]
    BY <1>4, <1>5, Zenon DEF Moved
  <2>2. /\ IsRaw(in, 24) /\ in.at = src + done /\ in.len = rest
        /\ IsRaw(out, 24) /\ out.at = dst + done /\ out.len = rest
    <3> HIDE DEF rest
    <3> QED BY RawMoved
  <2> HIDE DEF in, out
  <2>3. /\ IsParams(p') /\ p'.in = in /\ p'.out = out
        /\ p'.tensors = p.tensors /\ p'.at = p.at /\ p'.size = p.size /\ p'.idx = p.idx
        /\ p'.pad = p.pad
    BY <2>1 DEF Safe, IsParams
  <2>4. /\ Addresses(p'.in) \subseteq src + done .. src + done + rest - 1
        /\ Addresses(p'.out) \subseteq dst + done .. dst + done + rest - 1
    <3>1. src + done \in Int /\ dst + done \in Int /\ rest \in Nat
      BY <1>1
    <3> HIDE DEF rest
    <3> QED BY <2>2, <2>3, <3>1, FlatReach
  <2>5. /\ src + done .. src + done + rest - 1 \subseteq InBytes
        /\ dst + done .. dst + done + rest - 1 \subseteq OutBytes
    <3>1. /\ src + done \in Int /\ dst + done \in Int /\ rest \in Int
          /\ src + done >= src /\ dst + done >= dst
          /\ src + done + rest <= src + n /\ dst + done + rest <= dst + n
      BY <1>1
    <3> HIDE DEF rest
    <3> QED BY <3>1, PartOfRange
  <2>6. OutBytes' = OutBytes /\ InBytes' = InBytes
    BY <1>2, SameTensors
  <2>7. InsideTensors'
    BY <1>2, <2>4, <2>5, <2>6 DEF InsideTensors
  <2> QED BY <1>2, <1>3, <2>2, <2>3, <2>7
<1>6. CASE ~(rest > 0)
  BY <1>2, <1>3, <1>4, <1>6 DEF Safe
<1> QED BY <1>5, <1>6

(* the bytes of a tensor for each index of one of its dimensions *)
Slab(t, dim) ==
  t.bytes * (IF dim = "N" THEN t.shape["C"] * t.shape["H"] * t.shape["W"]
             ELSE IF dim = "C" THEN t.shape["N"] * t.shape["H"] * t.shape["W"]
             ELSE IF dim = "H" THEN t.shape["N"] * t.shape["C"] * t.shape["W"]
             ELSE t.shape["N"] * t.shape["C"] * t.shape["H"])

(* tensors that are parts of another, cut along one dimension *)
PartsOf(whole, parts, dim) ==
  /\ whole \in Tensors /\ parts \in Lists(Tensors) /\ dim \in Dims
  /\ \A i \in DOMAIN parts :
       /\ parts[i].bytes = whole.bytes
       /\ \A d \in Dims \ {dim} : parts[i].shape[d] = whole.shape[d]
  /\ whole.shape[dim] = Total([i \in DOMAIN parts |-> parts[i].shape[dim]])

(* A concatenation is of parts of its output.                              *)
LEMMA ConcatParts ==
  ASSUME call \in Calls, call.op = "Concat", ConcatIsValid
  PROVE  PartsOf(call.out, call.ins, call.dim)
<1>1. call.out \in Tensors /\ call.ins \in Lists(Tensors) /\ call.dim \in Dims
  BY CallIsGiven DEF ConcatIsGiven
<1>2. Dims \ {call.dim} = {"N", "C", "H", "W"} \ {call.dim}
  BY DEF Dims
<1> QED BY <1>1, <1>2, Zenon DEF ConcatIsValid, PartsOf

(* A split is of its input into parts.                                     *)
LEMMA SplitParts ==
  ASSUME call \in Calls, call.op = "Split"
  PROVE  PartsOf(call.in, call.outs, call.dim)
<1>1. SplitIsGiven(call)
  BY CallIsGiven
<1> QED BY <1>1 DEF SplitIsGiven, PartsOf

(* The size of a tensor by one of its dimensions.                          *)
LEMMA SlabTimesSize ==
  ASSUME NEW t \in Tensors, NEW dim \in Dims
  PROVE  /\ Slab(t, dim) \in Nat \ {0}
         /\ Size(t) = Slab(t, dim) * t.shape[dim]
<1> DEFINE b == t.bytes
           n == t.shape["N"]
           c == t.shape["C"]
           h == t.shape["H"]
           w == t.shape["W"]
<1>1. /\ b \in Nat \ {0} /\ n \in Nat \ {0} /\ c \in Nat \ {0} /\ h \in Nat \ {0}
      /\ w \in Nat \ {0}
  BY SizeIsNat
<1>2. Size(t) = b * n * c * h * w
  BY DEF Size
<1>3. Slab(t, dim) = b * (IF dim = "N" THEN c * h * w ELSE IF dim = "C" THEN n * h * w
                          ELSE IF dim = "H" THEN n * c * w ELSE n * c * h)
  BY DEF Slab
<1> HIDE DEF b, n, c, h, w
<1>4. \A x, y \in Nat \ {0} : x * y \in Nat \ {0}
  OBVIOUS
<1>5. Slab(t, dim) \in Nat \ {0}
  BY <1>1, <1>3, <1>4
<1>6. CASE dim = "N"
  <2>1. Slab(t, dim) * n = b * n * c * h * w
    BY <1>1, <1>3, <1>6
  <2> QED BY <1>2, <1>5, <1>6, <2>1 DEF n
<1>7. CASE dim = "C"
  <2>1. Slab(t, dim) * c = b * n * c * h * w
    BY <1>1, <1>3, <1>7
  <2> QED BY <1>2, <1>5, <1>7, <2>1 DEF c
<1>8. CASE dim = "H"
  <2>1. Slab(t, dim) * h = b * n * c * h * w
    BY <1>1, <1>3, <1>8
  <2> QED BY <1>2, <1>5, <1>8, <2>1 DEF h
<1>9. CASE dim = "W"
  <2>1. Slab(t, dim) * w = b * n * c * h * w
    BY <1>1, <1>3, <1>9
  <2> QED BY <1>2, <1>5, <1>9, <2>1 DEF w
<1> QED BY <1>6, <1>7, <1>8, <1>9 DEF Dims

(* the sums over the parts before one of them *)
LEMMA Sums ==
  ASSUME NEW n \in Nat, NEW ns \in [1..n -> Nat], NEW i \in 1..n
  PROVE  /\ Total(First(ns, i - 1)) \in Nat
         /\ Total(First(ns, i)) = Total(First(ns, i - 1)) + ns[i]
         /\ Total(First(ns, i)) \in Nat
         /\ Total(First(ns, i)) <= Total(ns)
         /\ Total(First(ns, 0)) = 0
<1>1. i - 1 \in 0..n /\ i \in 0..n /\ i - 1 \in 0..n - 1 /\ i - 1 + 1 = i
  OBVIOUS
<1>2. Total(First(ns, i - 1)) \in Nat /\ Total(First(ns, i)) \in Nat
  BY <1>1, TotalNat
<1>3. Total(First(ns, i - 1 + 1)) = Total(First(ns, i - 1)) + ns[i - 1 + 1]
  BY <1>1, PrefixSums
<1>4. Total(First(ns, i)) <= Total(ns)
  BY <1>1, TotalMonotone
<1> QED BY <1>1, <1>2, <1>3, <1>4, PrefixSums

(* The parts add up to the whole tensor, in bytes.                         *)
LEMMA PartSizes ==
  ASSUME NEW whole, NEW parts, NEW dim, PartsOf(whole, parts, dim)
  PROVE  /\ \A i \in DOMAIN parts : /\ parts[i] \in Tensors
                                    /\ Slab(parts[i], dim) = Slab(whole, dim)
                                    /\ Size(parts[i]) = Slab(whole, dim) * parts[i].shape[dim]
         /\ Len(parts) \in Nat \ {0} /\ DOMAIN parts = 1..Len(parts)
         /\ SizesOf(parts) \in [1..Len(parts) -> Nat]
         /\ [i \in DOMAIN parts |-> parts[i].shape[dim]] \in [1..Len(parts) -> Nat]
         /\ Total(SizesOf(parts)) = Size(whole)
<1> DEFINE n == Len(parts)
           ns == [i \in 1..n |-> parts[i].shape[dim]]
           f == Slab(whole, dim)
<1>1. n \in Nat \ {0} /\ DOMAIN parts = 1..n /\ \A i \in 1..n : parts[i] \in Tensors
  BY ListElements DEF PartsOf
<1>2. ASSUME NEW i \in 1..n
      PROVE  /\ Slab(parts[i], dim) = f
             /\ Size(parts[i]) = f * parts[i].shape[dim]
             /\ Size(parts[i]) \in Nat
             /\ parts[i].shape[dim] \in Nat
  <2>1. parts[i].bytes = whole.bytes /\ \A d \in Dims \ {dim} : parts[i].shape[d] = whole.shape[d]
    BY <1>1 DEF PartsOf
  <2>2. Slab(parts[i], dim) = f
    BY <2>1 DEF Slab, Dims, PartsOf
  <2>3. Size(parts[i]) = Slab(parts[i], dim) * parts[i].shape[dim]
    BY <1>1, SlabTimesSize DEF PartsOf
  <2>4. Size(parts[i]) \in Nat
    BY <1>1, SizeIsNat
  <2>5. parts[i].shape[dim] \in Nat
    BY <1>1, SizeIsNat DEF PartsOf, Dims
  <2> HIDE DEF f
  <2> QED BY <2>2, <2>3, <2>4, <2>5
<1>3. f \in Nat /\ Size(whole) = f * whole.shape[dim]
  BY SlabTimesSize DEF PartsOf
<1>4. whole.shape[dim] = Total(ns)
  BY <1>1 DEF PartsOf
<1> HIDE DEF f
<1>5. SizesOf(parts) = [i \in 1..n |-> f * ns[i]]
  BY <1>1, <1>2 DEF SizesOf
<1>6. ns \in [1..n -> Nat] /\ ns \in [1..n -> Int]
  BY <1>2
<1>7. SizesOf(parts) \in [1..n -> Nat]
  BY <1>1, <1>2 DEF SizesOf
<1> HIDE DEF n, ns
<1>8. Total(SizesOf(parts)) = Size(whole)
  BY <1>1, <1>3, <1>4, <1>5, <1>6, TotalScaled
<1> QED BY <1>1, <1>2, <1>3, <1>6, <1>7, <1>8 DEF n, ns, f

(* The whole and the parts are tensors.                                    *)
LEMMA PartTensors ==
  ASSUME NEW whole, NEW parts, NEW dim, PartsOf(whole, parts, dim)
  PROVE  /\ whole \in Tensors /\ dim \in Dims
         /\ \A i \in DOMAIN parts : parts[i] \in Tensors
BY ListElements DEF PartsOf

(* A part and all before it fit in the whole. *)
LEMMA PartsFit ==
  ASSUME NEW whole, NEW parts, NEW dim, PartsOf(whole, parts, dim), NEW i \in DOMAIN parts
  PROVE  /\ Total(First(SizesOf(parts), i - 1)) \in Nat
         /\ Total(First(SizesOf(parts), i)) = Total(First(SizesOf(parts), i - 1)) + Size(parts[i])
         /\ Total(First(SizesOf(parts), i)) <= Size(whole)
         /\ Total(First(SizesOf(parts), 0)) = 0
<1>1. /\ DOMAIN parts = 1..Len(parts) /\ Len(parts) \in Nat
      /\ SizesOf(parts) \in [1..Len(parts) -> Nat] /\ Total(SizesOf(parts)) = Size(whole)
  BY PartSizes
<1>2. SizesOf(parts)[i] = Size(parts[i])
  BY DEF SizesOf
<1> QED BY <1>1, <1>2, Sums

(* Each epoch block has its own geometry.                                  *)
LEMMA TurnOfBlock ==
  ASSUME Turn
  PROVE  /\ block = "transfer" => TransferTurn
         /\ block = "memset" => MemsetTurn
         /\ block = "filling" => FillingTurn
         /\ block = "inputs" => InputsTurn
         /\ block = "outputs" => OutputsTurn
         /\ block = "inputsBatched" => BatchedTurn
         /\ block = "splitAton" => SplitAtonTurn
         /\ block = "splitBatched" => SplitBatchedTurn
         /\ block \in {"transfer", "memset", "filling", "inputs", "outputs", "inputsBatched",
                       "splitAton", "splitBatched"}
BY DEF Turn, TransferTurn, MemsetTurn, FillingTurn, InputsTurn, OutputsTurn, BatchedTurn,
       SplitAtonTurn, SplitBatchedTurn

(* where the inputs and outputs of the operators with lists are *)
LEMMA ListBytes ==
  ASSUME call \in Calls
  PROVE  /\ call.op = "Concat" => /\ OutBytes = call.out.at .. call.out.at + Size(call.out) - 1
                                  /\ \A i \in DOMAIN call.ins : Bytes(call.ins[i]) \subseteq InBytes
         /\ call.op = "Split" => /\ InBytes = call.in.at .. call.in.at + Size(call.in) - 1
                                 /\ \A i \in DOMAIN call.outs : Bytes(call.outs[i]) \subseteq OutBytes
<1>1. ASSUME call.op = "Concat"
      PROVE  /\ OutBytes = call.out.at .. call.out.at + Size(call.out) - 1
             /\ \A i \in DOMAIN call.ins : Bytes(call.ins[i]) \subseteq InBytes
  <2>1. OutBytes = Bytes(call.out) /\ InBytes = AllBytes(call.ins)
    BY <1>1 DEF OutBytes, InBytes, Elementwise, Outputs, Inputs, AllBytes
  <2> QED BY <2>1 DEF Bytes, AllBytes
<1>2. ASSUME call.op = "Split"
      PROVE  /\ InBytes = call.in.at .. call.in.at + Size(call.in) - 1
             /\ \A i \in DOMAIN call.outs : Bytes(call.outs[i]) \subseteq OutBytes
  <2>1. InBytes = Bytes(call.in) /\ OutBytes = AllBytes(call.outs)
    BY <1>2 DEF OutBytes, InBytes, Elementwise, Outputs, Inputs, AllBytes
  <2> QED BY <2>1 DEF Bytes, AllBytes
<1> QED BY <1>1, <1>2

(* Part i, after those before it, lies in the whole.                       *)
LEMMA PartInside ==
  ASSUME NEW whole, NEW parts, NEW dim, PartsOf(whole, parts, dim), NEW i \in DOMAIN parts
  PROVE  LET from == whole.at + Total(First(SizesOf(parts), i - 1))
         IN  /\ from \in Int
             /\ from .. from + Size(parts[i]) - 1 \subseteq whole.at .. whole.at + Size(whole) - 1
<1> DEFINE before == Total(First(SizesOf(parts), i - 1))
           n == Size(parts[i])
           all == Size(whole)
           at == whole.at
<1>1. before \in Nat /\ before + n <= all
  BY PartsFit
<1>2. n \in Nat /\ all \in Nat /\ at \in Nat
  <2>1. parts[i] \in Tensors /\ whole \in Tensors
    BY PartTensors
  <2> QED BY <2>1, SizeIsNat
<1> HIDE DEF before, n, all, at
<1>3. at + before \in Int /\ at + before .. at + before + n - 1 \subseteq at .. at + all - 1
  BY <1>1, <1>2
<1> QED BY <1>3 DEF before, n, all, at

(* __ll_lib_inputs_memcpy_start copies the next input to its place in the  *)
(* output.                                                                 *)
LEMMA InputsStart ==
  ASSUME Safe, pc = "start", StartInputs
  PROVE  Safe'
<1>1. InputsTurn /\ block = "inputs" /\ call \in Calls /\ call.op = "Concat"
  BY TurnOfBlock DEF Safe, StartInputs, InputsTurn
<1>2. PartsOf(call.out, call.ins, call.dim)
  BY <1>1, ConcatParts DEF InputsTurn
<1>3. Tensor = call.ins[p.idx] /\ p.idx \in DOMAIN call.ins
  BY <1>1 DEF InputsTurn, OnTurn, Tensor
<1>4. Tensor.at \in Int /\ Size(Tensor) \in Nat
  BY <1>2, <1>3, PartSizes, SizeIsNat
<1>5. p.at \in Int /\ p.at .. p.at + Size(Tensor) - 1 \subseteq OutBytes
  BY <1>1, <1>2, <1>3, PartInside, ListBytes DEF InputsTurn
<1>6. Tensor.at .. Tensor.at + Size(Tensor) - 1 \subseteq InBytes
  BY <1>1, <1>3, ListBytes DEF Bytes
<1> DEFINE dst == p.at
           src == Tensor.at
           n == Size(Tensor)
<1>7. StartsFlat(dst, src, n) /\ IsRaw(p.in, 24) /\ IsRaw(p.out, 24) /\ block # "memset"
  BY <1>1 DEF StartInputs, InputsTurn
<1> HIDE DEF dst, src, n
<1>8. /\ call' = call /\ block' = block
      /\ Sound(mem', OutBytes) /\ mem'.dirty = {}
      /\ pc' \in {"wait", "end"}
      /\ pc' = "wait" => InsideTensors'
      /\ IsParams(p') /\ IsRaw(p'.in, 24) /\ IsRaw(p'.out, 24)
      /\ p'.tensors = p.tensors /\ p'.at = p.at /\ p'.size = p.size /\ p'.idx = p.idx
      /\ p'.pad = p.pad
  BY <1>4, <1>5, <1>6, <1>7, FlatStart DEF dst, src, n
<1>9. InputsTurn'
  BY <1>1, <1>8, SameGeometry DEF InputsTurn, OnTurn
<1>10. Turn'
  BY <1>9 DEF Turn
<1> QED BY <1>8, <1>10, SafeAfter

(* __ll_lib_outputs_memcpy_start copies the next output from its place in  *)
(* the input.                                                              *)
LEMMA OutputsStart ==
  ASSUME Safe, pc = "start", StartOutputs
  PROVE  Safe'
<1>1. OutputsTurn /\ block = "outputs" /\ call \in Calls /\ call.op = "Split"
  BY TurnOfBlock DEF Safe, StartOutputs, OutputsTurn
<1>2. PartsOf(call.in, call.outs, call.dim)
  BY <1>1, SplitParts
<1>3. Tensor = call.outs[p.idx] /\ p.idx \in DOMAIN call.outs
  BY <1>1 DEF OutputsTurn, OnTurn, Tensor
<1>4. Tensor.at \in Int /\ Size(Tensor) \in Nat
  BY <1>2, <1>3, PartSizes, SizeIsNat
<1>5. p.at \in Int /\ p.at .. p.at + Size(Tensor) - 1 \subseteq InBytes
  BY <1>1, <1>2, <1>3, PartInside, ListBytes DEF OutputsTurn
<1>6. Tensor.at .. Tensor.at + Size(Tensor) - 1 \subseteq OutBytes
  BY <1>1, <1>3, ListBytes DEF Bytes
<1> DEFINE dst == Tensor.at
           src == p.at
           n == Size(Tensor)
<1>7. StartsFlat(dst, src, n) /\ IsRaw(p.in, 24) /\ IsRaw(p.out, 24) /\ block # "memset"
  BY <1>1 DEF StartOutputs, OutputsTurn
<1> HIDE DEF dst, src, n
<1>8. /\ call' = call /\ block' = block
      /\ Sound(mem', OutBytes) /\ mem'.dirty = {}
      /\ pc' \in {"wait", "end"}
      /\ pc' = "wait" => InsideTensors'
      /\ IsParams(p') /\ IsRaw(p'.in, 24) /\ IsRaw(p'.out, 24)
      /\ p'.tensors = p.tensors /\ p'.at = p.at /\ p'.size = p.size /\ p'.idx = p.idx
      /\ p'.pad = p.pad
  BY <1>4, <1>5, <1>6, <1>7, FlatStart DEF dst, src, n
<1>9. OutputsTurn'
  BY <1>1, <1>8, SameGeometry DEF OutputsTurn, OnTurn
<1>10. Turn'
  BY <1>9 DEF Turn
<1> QED BY <1>8, <1>10, SafeAfter

(* the turn that follows *)
LEMMA EndFlatSafe ==
  ASSUME Safe, pc = "end", EndFlat
  PROVE  Safe'
<1>1. Turn /\ call \in Calls /\ IsParams(p) /\ mem.dirty = {} /\ Sound(mem, OutBytes)
  BY DEF Safe
<1>2. call' = call /\ block' = block /\ mem' = mem
      /\ p' = [[p EXCEPT !.at = @ + Size(Tensor)] EXCEPT !.idx = p.idx + 1]
      /\ pc' = IF p.idx < Len(p.tensors) THEN "start" ELSE "done"
  BY DEF EndFlat, NextTurn
<1>3. /\ IsParams(p') /\ p'.at = p.at + Size(Tensor) /\ p'.idx = p.idx + 1
      /\ p'.tensors = p.tensors /\ p'.in = p.in /\ p'.out = p.out
  <2> DEFINE x == p.at + Size(Tensor)
  <2>1. p' = [[p EXCEPT !.at = x] EXCEPT !.idx = p.idx + 1]
    BY <1>2
  <2> HIDE DEF x
  <2>2. /\ IsParams(p') /\ p'.at = x /\ p'.idx = p.idx + 1
        /\ p'.tensors = p.tensors /\ p'.in = p.in /\ p'.out = p.out
    BY <1>1, <2>1 DEF IsParams
  <2> QED BY <2>2 DEF x
<1>4. ASSUME NEW whole, NEW parts, NEW dim, PartsOf(whole, parts, dim), OnTurn(parts),
             p.at = whole.at + Total(First(SizesOf(parts), p.idx - 1)), pc' = "start"
      PROVE  /\ p'.tensors = parts /\ p'.idx \in DOMAIN parts
             /\ p'.at = whole.at + Total(First(SizesOf(parts), p'.idx - 1))
  <2>1. DOMAIN parts = 1..Len(parts) /\ Len(parts) \in Nat /\ p.idx \in 1..Len(parts)
    BY <1>4, PartSizes DEF OnTurn
  <2>2. p'.idx \in DOMAIN parts /\ p'.idx - 1 = p.idx
    BY <1>2, <1>3, <1>4, <2>1 DEF OnTurn
  <2>3. p'.at = whole.at + Total(First(SizesOf(parts), p.idx))
    <3> DEFINE before == Total(First(SizesOf(parts), p.idx - 1))
               n == Size(parts[p.idx])
    <3>1. Total(First(SizesOf(parts), p.idx)) = before + n /\ before \in Nat
      BY <1>4, PartsFit DEF OnTurn
    <3>2. n \in Nat /\ whole.at \in Nat
      <4>1. parts[p.idx] \in Tensors /\ whole \in Tensors
        BY <1>4, PartTensors DEF OnTurn
      <4> QED BY <4>1, SizeIsNat
    <3>3. p'.at = whole.at + before + n
      BY <1>3, <1>4 DEF OnTurn, Tensor
    <3> HIDE DEF before, n
    <3> QED BY <3>1, <3>2, <3>3
  <2> QED BY <1>3, <1>4, <2>2, <2>3 DEF OnTurn
<1>5. ASSUME pc' = "start"
      PROVE  Turn'
  <2>1. CASE block = "inputs"
    <3>1. InputsTurn
      BY <1>1, <2>1, TurnOfBlock
    <3>2. PartsOf(call.out, call.ins, call.dim)
      BY <1>1, <3>1, ConcatParts DEF InputsTurn
    <3>3. OnTurn(call.ins)' /\ p'.at = call.out.at + Total(First(SizesOf(call.ins), p'.idx - 1))
      BY <1>2, <1>4, <1>5, <3>1, <3>2 DEF InputsTurn, OnTurn
    <3>4. InputsTurn'
      BY <1>2, <1>3, <3>1, <3>3, SameGeometry DEF InputsTurn
    <3> QED BY <3>4 DEF Turn
  <2>2. CASE block = "outputs"
    <3>1. OutputsTurn
      BY <1>1, <2>2, TurnOfBlock
    <3>2. PartsOf(call.in, call.outs, call.dim)
      BY <1>1, <3>1, SplitParts DEF OutputsTurn
    <3>3. OnTurn(call.outs)' /\ p'.at = call.in.at + Total(First(SizesOf(call.outs), p'.idx - 1))
      BY <1>2, <1>4, <1>5, <3>1, <3>2 DEF OutputsTurn, OnTurn
    <3>4. OutputsTurn'
      BY <1>2, <1>3, <3>1, <3>3, SameGeometry DEF OutputsTurn
    <3> QED BY <3>4 DEF Turn
  <2> QED BY <2>1, <2>2 DEF EndFlat
<1> QED BY <1>1, <1>2, <1>3, <1>5, SafeAfter

-----------------------------------------------------------------------------

(***************************************************************************)
(* Turns over channels: the engine on the whole tensor gets only to the    *)
(* channels of one part.                                                   *)
(***************************************************************************)

(* bytes of some channels, whatever the size of an element *)
LEMMA ChannelBytes ==
  ASSUME NEW t \in Tensors, NEW n \in Nat
  PROVE  /\ ChannelBits(t) \in {8, 16, 24}
         /\ Channels(t, n) \in Nat
         /\ Channels(t, n) * (ChannelBits(t) \div 8) = n * t.bytes
<1>1. t.bytes \in 1..4
  BY SizeIsNat
<1>2. CASE t.bytes = 4
  <2>1. ChannelBits(t) = 16 /\ Channels(t, n) = 2 * n
    BY <1>2 DEF ChannelBits, Channels
  <2> QED BY <2>1, <1>2
<1>3. CASE t.bytes \in 1..3
  <2>1. ChannelBits(t) = 8 * t.bytes /\ Channels(t, n) = n
    BY <1>3 DEF ChannelBits, Channels
  <2>2. t.bytes = 1 \/ t.bytes = 2 \/ t.bytes = 3
    BY <1>3
  <2> QED BY <2>1, <2>2
<1> QED BY <1>1, <1>2, <1>3

(* byte o of pixel x of line y of image f *)
LEMMA PixelBound ==
  ASSUME NEW n \in Nat, NEW h \in Nat, NEW w \in Nat, NEW s \in Nat,
         NEW f \in 0..n - 1, NEW y \in 0..h - 1, NEW x \in 0..w - 1, NEW o \in 0..s - 1
  PROVE  f * (h * (w * s)) + (y * (w * s) + (x * s + o)) \in 0..n * (h * (w * s)) - 1
<1>1. x * s + o \in 0..w * s - 1 /\ w * s \in Nat
  BY RowBound, ProductNat
<1> DEFINE line == w * s
           a == x * s + o
<1>2. line \in Nat /\ a \in 0..line - 1
  BY <1>1
<1> HIDE DEF line, a
<1>3. y * line + a \in 0..h * line - 1 /\ h * line \in Nat
  BY <1>2, RowBound, ProductNat
<1> DEFINE image == h * line
           b == y * line + a
<1>4. image \in Nat /\ b \in 0..image - 1
  BY <1>3
<1> HIDE DEF image, b
<1>5. f * image + b \in 0..n * image - 1
  BY <1>4, RowBound
<1> QED BY <1>5 DEF image, b, line, a

(* An engine that scans pixels stays in the tensor if each frame starts at *)
(* some byte o of an image's first pixel that leaves room for its          *)
(* channels.                                                               *)
LEMMA PixelReach ==
  ASSUME NEW d, NEW t \in Tensors, NEW k \in Nat, ScansPixels(d, t, k), d.frames \in Nat,
         d.at \in Int,
         \A f \in 0..d.frames - 1 :
           \E n \in 0..t.shape["N"] - 1, o \in Nat :
             /\ o + k * t.bytes <= t.bytes * t.shape["C"]
             /\ d.at + FrameOffset(d, f)
                  = t.at + n * (t.shape["H"] * (t.shape["W"] * (t.bytes * t.shape["C"]))) + o
  PROVE  Addresses(d) \subseteq t.at .. t.at + Size(t) - 1
<1> DEFINE s == t.bytes * t.shape["C"]
           h == t.shape["H"]
           w == t.shape["W"]
           m == t.shape["N"]
           deep == k * t.bytes
           at == t.at
<1>1. /\ s \in Nat /\ h \in Nat /\ w \in Nat /\ m \in Nat /\ deep \in Nat /\ at \in Int
      /\ w > 0 /\ s > 0
  <2>1. \A a, b \in Nat \ {0} : a * b \in Nat \ {0}
    OBVIOUS
  <2>2. t.bytes \in Nat \ {0} /\ t.shape["C"] \in Nat \ {0}
    BY SizeIsNat
  <2> QED BY <2>1, <2>2, SizeIsNat, ProductNat
<1>2. /\ d.raw = FALSE /\ d.bits \in {8, 16, 24} /\ d.width = w /\ d.height = h /\ d.pixel = s
      /\ d.depth \in Nat /\ d.depth * (d.bits \div 8) = deep
  BY ChannelBytes DEF ScansPixels
<1>3. LineOffset(d) = w * s
  <2>1. LineOffset(d) = d.width * d.pixel
    <3>1. d.line \in {0, d.pixel * d.width} /\ d.pixel * d.width = d.width * d.pixel
      BY <1>1, <1>2 DEF ScansPixels
    <3> QED BY <3>1 DEF LineOffset
  <2> QED BY <1>2, <2>1
<1>4. Size(t) = m * (h * (w * s))
  <2> DEFINE b == t.bytes
             c == t.shape["C"]
  <2>1. Size(t) = b * m * c * h * w
    BY DEF Size
  <2>2. b \in Nat /\ c \in Nat
    BY SizeIsNat
  <2> HIDE DEF b, c, h, w, m
  <2>3. b * m * c * h * w = m * (h * (w * (b * c)))
    BY <1>1, <2>2
  <2> QED BY <2>1, <2>3 DEF b, c
<1>5. \A f \in 0..d.frames - 1 :
        \E n \in 0..m - 1, o \in Nat :
          o + deep <= s /\ d.at + FrameOffset(d, f) = at + n * (h * (w * s)) + o
  OBVIOUS
<1> HIDE DEF s, h, w, m, deep, at
<1>6. ASSUME NEW a \in Addresses(d)
      PROVE  a \in at .. at + m * (h * (w * s)) - 1
  <2>1. PICK f \in 0..d.frames - 1, y \in 0..d.height - 1, x \in 0..d.width - 1,
            r \in 0..d.depth * (d.bits \div 8) - 1 :
           a = d.at + FrameOffset(d, f) + (y * LineOffset(d) + x * d.pixel + r)
    <3>1. d.width \in Nat /\ d.height \in Nat
      BY <1>1, <1>2
    <3> QED BY <1>2, <3>1, ShapedReach
  <2>2. PICK n \in 0..m - 1, o \in Nat :
          o + deep <= s /\ d.at + FrameOffset(d, f) = at + n * (h * (w * s)) + o
    BY <1>5
  <2>3. /\ y \in 0..h - 1 /\ x \in 0..w - 1 /\ r \in 0..deep - 1
        /\ o + r \in 0..s - 1
    BY <1>1, <1>2, <2>1, <2>2
  <2>4. a = at + n * (h * (w * s)) + o + (y * (w * s) + x * s + r)
    BY <1>2, <1>3, <2>1, <2>2
  <2>5. n * (h * (w * s)) + (y * (w * s) + (x * s + (o + r))) \in 0..m * (h * (w * s)) - 1
    BY <1>1, <2>2, <2>3, PixelBound
  <2> DEFINE u == n * (h * (w * s))
             v == y * (w * s)
             z == x * s
             all == m * (h * (w * s))
  <2>6. u \in Int /\ v \in Int /\ z \in Int /\ all \in Int
    BY <1>1, <2>2, <2>3, ProductNat
  <2>7. a = at + u + o + (v + z + r) /\ u + (v + (z + (o + r))) \in 0..all - 1
    BY <2>4, <2>5
  <2> HIDE DEF u, v, z, all
  <2>8. a \in at .. at + all - 1
    BY <1>1, <2>2, <2>3, <2>6, <2>7
  <2> QED BY <2>8 DEF all
<1> QED BY <1>4, <1>6 DEF at

(* The channels of the parts before part i, and those of part i, are       *)
(* channels of the whole.                                                  *)
LEMMA ChannelSums ==
  ASSUME NEW whole, NEW parts, PartsOf(whole, parts, "C"), NEW i \in DOMAIN parts
  PROVE  /\ Total(First(ChannelsOf(parts), i - 1)) \in Nat
         /\ Total(First(ChannelsOf(parts), i))
              = Total(First(ChannelsOf(parts), i - 1)) + parts[i].shape["C"]
         /\ Total(First(ChannelsOf(parts), i)) <= whole.shape["C"]
         /\ Total(First(ChannelsOf(parts), 0)) = 0
<1>1. DOMAIN parts = 1..Len(parts) /\ Len(parts) \in Nat
  BY ListElements DEF PartsOf
<1>2. ChannelsOf(parts) \in [1..Len(parts) -> Nat]
  <2>1. \A j \in DOMAIN parts : parts[j].shape["C"] \in Nat
    BY PartTensors, SizeIsNat
  <2> QED BY <1>1, <2>1 DEF ChannelsOf
<1>3. Total(ChannelsOf(parts)) = whole.shape["C"] /\ ChannelsOf(parts)[i] = parts[i].shape["C"]
  BY DEF PartsOf, ChannelsOf
<1> QED BY <1>1, <1>2, <1>3, Sums

(* The batches of a tensor are its channels.                               *)
LEMMA BatchFits ==
  ASSUME NEW t \in Tensors
  PROVE  /\ Batches(t) \in Nat \ {0} /\ t.batch \in Nat
         /\ \A f \in 0..Batches(t) - 1 :
              f * t.batch \in Nat /\ f * t.batch + t.batch <= t.shape["C"]
<1> DEFINE c == t.shape["C"]
           b == t.batch
           m == c \div b
<1>1. c \in Nat \ {0} /\ b \in Nat \ {0} /\ c % b = 0
  BY SizeIsNat
<1> HIDE DEF c, b
<1>2. c = b * m /\ m \in Int
  <2>1. c = b * (c \div b) + (c % b) /\ c \div b \in Int
    BY <1>1
  <2> HIDE DEF m
  <2> QED BY <1>1, <2>1 DEF m
<1> HIDE DEF m
<1>3. m > 0
  <2>1. m <= 0 => b * m <= 0
    BY <1>1, <1>2
  <2> QED BY <1>1, <1>2, <2>1
<1>4. ASSUME NEW f \in 0..m - 1
      PROVE  f * b \in Nat /\ f * b + b <= c
  <2>1. f * b + (b - 1) \in 0..m * b - 1
    BY <1>1, <1>2, RowBound
  <2>2. m * b = b * m /\ f * b \in Nat
    BY <1>1, <1>2
  <2> DEFINE x == f * b
             y == b * m
  <2>3. x + (b - 1) \in 0..y - 1 /\ c = y /\ x \in Nat
    BY <1>2, <2>1, <2>2
  <2> HIDE DEF x, y
  <2>4. x + b <= c
    BY <1>1, <2>3
  <2> QED BY <2>2, <2>4 DEF x
<1>5. Batches(t) = m
  BY DEF Batches, m, c, b
<1> QED BY <1>1, <1>2, <1>3, <1>4, <1>5 DEF b, c

(* the same descriptor at another address *)
Placed(d, at) == [d EXCEPT !.at = at]

(* Moving an engine keeps how it scans.                                    *)
LEMMA PlacedScans ==
  ASSUME NEW d, NEW t, NEW k, ScansPixels(d, t, k), NEW at
  PROVE  /\ ScansPixels(Placed(d, at), t, k)
         /\ Placed(d, at).at = at
         /\ Placed(d, at).frames = d.frames /\ Placed(d, at).frame = d.frame
         /\ Placed(d, at).loop = d.loop /\ Placed(d, at).loops = d.loops
BY DEF ScansPixels, Placed, Flat24, Raw

(* offsets of frames: the loop not used, not left, or used by every frame *)
LEMMA FrameOffsets ==
  ASSUME NEW d, NEW f \in Nat
  PROVE  /\ d.loop = 0 => FrameOffset(d, f) = f * d.frame
         /\ d.loop \in Nat /\ f < d.loop /\ d.loops \in Int /\ d.frame \in Int =>
              FrameOffset(d, f) = f * d.frame
         /\ d.loop = 1 /\ d.loops \in Int /\ d.frame \in Int => FrameOffset(d, f) = f * d.loops
<1>1. d.loop = 0 => FrameOffset(d, f) = f * d.frame
  BY DEF FrameOffset
<1>2. ASSUME d.loop \in Nat, f < d.loop, d.loops \in Int, d.frame \in Int
      PROVE  FrameOffset(d, f) = f * d.frame
  <2>1. f \div d.loop = 0 /\ f % d.loop = f
    BY <1>2
  <2>2. FrameOffset(d, f) = (f \div d.loop) * d.loops + (f % d.loop) * d.frame
    BY <1>2 DEF FrameOffset
  <2>3. 0 * d.loops = 0 /\ f * d.frame \in Int
    BY <1>2
  <2> QED BY <2>1, <2>2, <2>3
<1>3. ASSUME d.loop = 1, d.loops \in Int, d.frame \in Int
      PROVE  FrameOffset(d, f) = f * d.loops
  <2>1. f \div 1 = f /\ f % 1 = 0
    OBVIOUS
  <2>2. FrameOffset(d, f) = (f \div 1) * d.loops + (f % 1) * d.frame
    BY <1>3 DEF FrameOffset
  <2>3. 0 * d.frame = 0 /\ f * d.loops \in Int
    BY <1>3
  <2> QED BY <2>1, <2>2, <2>3
<1> QED BY <1>1, <1>2, <1>3

(* A turn of a batched concat writes between the channels of the others.   *)
LEMMA BatchedReach ==
  ASSUME NEW whole, NEW parts, PartsOf(whole, parts, "C"), NEW i \in DOMAIN parts,
         NEW d, ScansPixels(d, whole, parts[i].batch),
         d.at = whole.at + whole.bytes * Total(First(ChannelsOf(parts), i - 1)),
         d.frames = Batches(parts[i]),
         \A f \in 0..d.frames - 1 : FrameOffset(d, f) = f * (parts[i].batch * whole.bytes)
  PROVE  Addresses(d) \subseteq whole.at .. whole.at + Size(whole) - 1
<1> DEFINE t == parts[i]
           before == Total(First(ChannelsOf(parts), i - 1))
           b == whole.bytes
           c == whole.shape["C"]
           k == t.batch
           at == whole.at
           rest == whole.shape["H"] * (whole.shape["W"] * (b * c))
<1>1. whole \in Tensors /\ t \in Tensors
  BY PartTensors
<1>2. before \in Nat /\ before + t.shape["C"] <= c
  BY ChannelSums
<1>3. b \in Nat /\ c \in Nat /\ at \in Nat /\ whole.shape["N"] \in Nat \ {0} /\ rest \in Nat
  BY <1>1, SizeIsNat, ProductNat
<1>4. k \in Nat /\ d.frames \in Nat
      /\ \A f \in 0..d.frames - 1 : f * k \in Nat /\ f * k + k <= t.shape["C"]
  BY <1>1, BatchFits
<1>5. d.at \in Int
  <2> HIDE DEF b, before
  <2> QED BY <1>2, <1>3 DEF b, before
<1>6. ASSUME NEW f \in 0..d.frames - 1
      PROVE  \E n \in 0..whole.shape["N"] - 1, o \in Nat :
               o + k * b <= b * c /\ d.at + FrameOffset(d, f) = at + n * rest + o
  <2> DEFINE o == b * (before + f * k)
  <2>1. f * k \in Nat /\ before + f * k + k <= c
    <3>1. t.shape["C"] \in Nat
      BY <1>1, SizeIsNat
    <3> HIDE DEF before, t, k, c
    <3> QED BY <1>2, <1>3, <1>4, <3>1
  <2>2. o \in Nat /\ o + k * b <= b * c
    <3> DEFINE x == before + f * k
    <3>1. x \in Nat /\ x + k <= c
      BY <1>2, <2>1
    <3> HIDE DEF x, before, k, c, b
    <3>2. b * (x + k) <= b * c
      <4>1. x + k \in Nat
        BY <1>4, <3>1
      <4> QED BY <1>3, <3>1, <4>1, ProductMonotone
    <3>3. b * (x + k) = b * x + k * b /\ b * x \in Nat
      BY <1>3, <1>4, <3>1
    <3> QED BY <3>2, <3>3 DEF x
  <2>3. d.at + FrameOffset(d, f) = at + 0 * rest + o
    <3>1. d.at + FrameOffset(d, f) = at + b * before + f * (k * b)
      OBVIOUS
    <3> HIDE DEF before, k, b, at, rest
    <3>2. b * (before + f * k) = b * before + f * (k * b) /\ 0 * rest = 0
      BY <1>2, <1>3, <1>4
    <3> DEFINE u == b * before
               v == f * (k * b)
    <3>3. u \in Int /\ v \in Int /\ o = u + v
      BY <1>2, <1>3, <1>4, <3>2, ProductNat
    <3>4. d.at + FrameOffset(d, f) = at + u + v
      BY <3>1
    <3> HIDE DEF u, v, o
    <3> QED BY <1>3, <3>2, <3>3, <3>4
  <2>4. 0 \in 0..whole.shape["N"] - 1
    BY <1>3
  <2> HIDE DEF o
  <2> QED BY <2>2, <2>3, <2>4
<1> QED BY <1>1, <1>4, <1>5, <1>6, PixelReach

(* The start block of a batched concatenation moves the input engine to    *)
(* the next input.                                                         *)
LEMMA StartBatchedSafe ==
  ASSUME Safe, pc = "start", StartBatched
  PROVE  Safe'
<1>1. BatchedTurn /\ call \in Calls /\ call.op = "Concat" /\ IsParams(p) /\ ConcatIsValid
  BY TurnOfBlock DEF Safe, StartBatched, BatchedTurn
<1> DEFINE t == call.ins[p.idx]
           in == Moved(p.in, Tensor.at, Size(Tensor))
           out == Placed(p.out, p.at)
<1>2. PartsOf(call.out, call.ins, "C") /\ p.idx \in DOMAIN call.ins /\ Tensor = t
  BY <1>1, ConcatParts DEF BatchedTurn, OnTurn, Tensor
<1>3. t \in Tensors /\ call.out \in Tensors
  BY <1>2, PartTensors
<1>4. t.at \in Nat /\ Size(t) \in Nat /\ Size(t) > 0
  BY <1>3, SizeIsNat
<1>5. /\ call' = call /\ block' = block /\ mem' = mem /\ pc' = "wait"
      /\ p' = [p EXCEPT !.in = in, !.out = out]
  <2>1. /\ call' = call /\ block' = block /\ mem' = mem
        /\ pc' = IF Size(Tensor) > 0 THEN "wait" ELSE "end"
        /\ p' = IF Size(Tensor) > 0 THEN [p EXCEPT !.in.at = Tensor.at, !.in.len = Size(Tensor),
                                                   !.out.at = p.at] ELSE p
    BY DEF StartBatched, Launches
  <2>2. Size(Tensor) > 0
    BY <1>2, <1>4
  <2> QED BY <2>1, <2>2, Zenon DEF Moved, Placed
<1>6. /\ IsRaw(in, ChannelBits(call.out)) /\ in.at = t.at /\ in.len = Size(t)
      /\ ScansPixels(out, call.out, t.batch) /\ out.at = p.at
      /\ out.frames = Batches(t) /\ out.loop = Batches(t)
      /\ out.frame = t.batch * call.out.bytes /\ out.loops \in Nat
  <2>1. IsRaw(in, ChannelBits(call.out)) /\ in.at = t.at /\ in.len = Size(t)
    BY <1>1, <1>2, RawMoved DEF BatchedTurn
  <2> HIDE DEF t
  <2>2. /\ ScansPixels(p.out, call.out, t.batch)
        /\ p.out.frames = Batches(t) /\ p.out.loop = Batches(t)
        /\ p.out.frame = t.batch * call.out.bytes /\ p.out.loops \in Nat
    BY <1>1 DEF BatchedTurn, t
  <2> QED BY <2>1, <2>2, PlacedScans
<1>7. /\ IsParams(p') /\ p'.in = in /\ p'.out = out
      /\ p'.tensors = p.tensors /\ p'.at = p.at /\ p'.idx = p.idx
  <2> HIDE DEF in, out
  <2> QED BY <1>1, <1>5 DEF IsParams
<1>8. InsideTensors'
  <2>1. Addresses(in) \subseteq t.at .. t.at + Size(t) - 1
    <3>1. ChannelBits(call.out) \in {8, 16, 24}
      BY <1>3, ChannelBytes
    <3> QED BY <1>4, <1>6, <3>1, FlatReach
  <2>2. t.at .. t.at + Size(t) - 1 \subseteq InBytes
    BY <1>1, <1>2, ListBytes DEF Bytes
  <2>3. Addresses(out) \subseteq call.out.at .. call.out.at + Size(call.out) - 1
    <3>1. out.at = call.out.at + call.out.bytes * Total(First(ChannelsOf(call.ins), p.idx - 1))
      BY <1>1, <1>6 DEF BatchedTurn, ChannelsBeforeTurn
    <3>2. Batches(t) \in Nat /\ t.batch \in Nat /\ call.out.bytes \in Nat
      <4> HIDE DEF t
      <4>1. Batches(t) \in Nat /\ t.batch \in Nat
        BY <1>3, BatchFits
      <4>2. call.out.bytes \in 1..4
        BY <1>3, SizeIsNat
      <4> QED BY <4>1, <4>2
    <3>3. ASSUME NEW f \in 0..out.frames - 1
          PROVE  FrameOffset(out, f) = f * (t.batch * call.out.bytes)
      <4>1. out.frame \in Int /\ f \in Nat /\ f < out.loop
        BY <1>6, <3>2, ProductNat
      <4> HIDE DEF out
      <4>2. out.loop \in Nat
        BY <1>6, <3>2
      <4> QED BY <1>6, <3>2, <4>1, <4>2, FrameOffsets
    <3> HIDE DEF out
    <3> QED BY <1>2, <1>6, <3>1, <3>3, BatchedReach
  <2>4. call.out.at .. call.out.at + Size(call.out) - 1 = OutBytes
    BY <1>1, ListBytes
  <2>5. OutBytes' = OutBytes /\ InBytes' = InBytes /\ block' # "memset"
    BY <1>1, <1>5, SameTensors DEF BatchedTurn
  <2> HIDE DEF in, out
  <2> QED BY <1>7, <2>1, <2>2, <2>3, <2>4, <2>5 DEF InsideTensors
<1>9. Turn'
  <2>1. BatchedTurn'
    <3> HIDE DEF in, out
    <3>1. ConcatIsValid' /\ call' = call /\ block' = block
      BY <1>1, <1>5, SameGeometry
    <3> QED BY <1>1, <1>6, <1>7, <3>1 DEF BatchedTurn, OnTurn, ChannelsBeforeTurn
  <2> QED BY <2>1 DEF Turn
<1> QED BY <1>5, <1>7, <1>8, <1>9, SafeAfter DEF Safe

(* what the engine of a batched concat is given for the next input *)
LEMMA BatchedOutScans ==
  ASSUME NEW whole \in Tensors, NEW t \in Tensors, t.bytes = whole.bytes, whole.bytes < 4,
         NEW k, NEW d, ScansPixels(d, whole, k)
  PROVE  /\ ScansPixels(BatchedOut(t, d), whole, t.batch)
         /\ BatchedOut(t, d).frames = Batches(t) /\ BatchedOut(t, d).loop = Batches(t)
         /\ BatchedOut(t, d).frame = t.batch * whole.bytes
         /\ BatchedOut(t, d).loops \in Nat
         /\ BatchedOut(t, d).at = d.at
<1> DEFINE depth == Channels(t, t.batch)
           frame == t.batch * t.bytes
           m == t.shape["C"] \div t.batch
           loops == t.shape["H"] * t.shape["W"] * t.batch * t.bytes
           e == [d EXCEPT !.depth = depth, !.frame = frame, !.loop = m, !.frames = m,
                          !.loops = loops]
<1>1. BatchedOut(t, d) = e
  BY Zenon DEF BatchedOut
<1>2. loops \in Nat
  <2>1. t.shape["H"] \in Nat /\ t.shape["W"] \in Nat /\ t.batch \in Nat /\ t.bytes \in Nat
    BY SizeIsNat
  <2> QED BY <2>1, ProductNat
<1>3. depth = Channels(whole, t.batch)
  BY DEF Channels
<1>4. m = Batches(t) /\ frame = t.batch * whole.bytes
  BY DEF Batches
<1> HIDE DEF depth, frame, m, loops
<1>5. /\ DOMAIN e = DOMAIN d
      /\ e.depth = depth /\ e.frame = frame /\ e.loop = m /\ e.frames = m /\ e.loops = loops
      /\ e.raw = d.raw /\ e.bits = d.bits /\ e.width = d.width /\ e.height = d.height
      /\ e.pixel = d.pixel /\ e.line = d.line /\ e.at = d.at
  BY DEF ScansPixels, Flat24, Raw
<1> HIDE DEF e
<1> QED BY <1>1, <1>2, <1>3, <1>4, <1>5 DEF ScansPixels

(* where the channels of the next part start *)
LEMMA NextChannels ==
  ASSUME NEW whole, NEW parts, PartsOf(whole, parts, "C"), NEW i \in DOMAIN parts,
         i < Len(parts)
  PROVE  /\ parts[i] \in Tensors /\ parts[i + 1] \in Tensors /\ i + 1 \in DOMAIN parts
         /\ parts[i + 1].bytes = whole.bytes
         /\ whole.at + whole.bytes * Total(First(ChannelsOf(parts), i - 1))
              + parts[i].shape["C"] * parts[i + 1].bytes
            = whole.at + whole.bytes * Total(First(ChannelsOf(parts), i))
<1>1. DOMAIN parts = 1..Len(parts) /\ Len(parts) \in Nat
  BY ListElements DEF PartsOf
<1>2. i + 1 \in DOMAIN parts
  BY <1>1
<1>3. parts[i] \in Tensors /\ parts[i + 1] \in Tensors /\ whole \in Tensors
  BY <1>2, PartTensors
<1>4. parts[i + 1].bytes = whole.bytes
  BY <1>2 DEF PartsOf
<1> DEFINE before == Total(First(ChannelsOf(parts), i - 1))
           after == Total(First(ChannelsOf(parts), i))
           c == parts[i].shape["C"]
           b == whole.bytes
           at == whole.at
<1>5. before \in Nat /\ after = before + c
  BY ChannelSums
<1>6. c \in Nat /\ b \in Nat /\ at \in Nat
  <2>1. c \in Nat
    BY <1>3, SizeIsNat
  <2>2. whole.bytes \in 1..4 /\ whole.at \in Nat
    BY <1>3, SizeIsNat
  <2> QED BY <2>1, <2>2
<1> HIDE DEF before, after, c, b, at
<1>7. b * (before + c) = b * before + c * b /\ b * before \in Nat /\ c * b \in Nat
  BY <1>5, <1>6
<1>8. at + b * before + c * b = at + b * after
  <2> DEFINE x == b * before
             y == c * b
  <2>1. b * after = x + y /\ x \in Nat /\ y \in Nat
    BY <1>5, <1>7
  <2>2. at + x + y = at + (x + y)
    BY <1>6, <2>1
  <2> QED BY <2>1, <2>2
<1> QED BY <1>2, <1>3, <1>4, <1>8 DEF before, after, c, b, at

(* The end block of a batched concatenation moves the output engine past   *)
(* the channels it wrote.                                                  *)
LEMMA EndBatchedSafe ==
  ASSUME Safe, pc = "end", EndBatched
  PROVE  Safe'
<1>1. BatchedTurn /\ call \in Calls /\ call.op = "Concat" /\ IsParams(p) /\ ConcatIsValid
      /\ mem.dirty = {} /\ Sound(mem, OutBytes)
  BY TurnOfBlock DEF Safe, EndBatched, BatchedTurn
<1>2. PartsOf(call.out, call.ins, "C") /\ p.idx \in DOMAIN call.ins /\ Tensor = call.ins[p.idx]
      /\ p.tensors = call.ins /\ call.out.bytes < 4
  BY <1>1, ConcatParts DEF BatchedTurn, OnTurn, Tensor
<1>3. DOMAIN call.ins = 1..Len(call.ins) /\ Len(call.ins) \in Nat
  BY <1>2, ListElements DEF PartsOf
<1> DEFINE u == call.ins[p.idx + 1]
           at == p.at + Tensor.shape["C"] * u.bytes
           out == BatchedOut(u, p.out)
<1>4. /\ call' = call /\ block' = block /\ mem' = mem
      /\ pc' = IF p.idx < Len(p.tensors) THEN "start" ELSE "done"
  BY DEF EndBatched, NextTurn
<1>5. /\ IsParams(p')
      /\ p.idx < Len(p.tensors) =>
           /\ p'.at = at /\ p'.out = out /\ p'.idx = p.idx + 1
           /\ p'.tensors = p.tensors /\ p'.in = p.in
  <2>1. CASE p.idx = Len(p.tensors)
    <3>1. p' = [p EXCEPT !.idx = p.idx + 1]
      BY <2>1 DEF EndBatched, NextTurn
    <3> QED BY <1>1, <2>1, <3>1 DEF IsParams
  <2>2. CASE p.idx # Len(p.tensors)
    <3>1. p' = [[p EXCEPT !.at = at, !.out = out] EXCEPT !.idx = p.idx + 1]
      BY <1>2, <2>2, Zenon DEF EndBatched, NextTurn, Following
    <3> HIDE DEF at, out
    <3> QED BY <1>1, <3>1 DEF IsParams
  <2> QED BY <2>1, <2>2
<1>6. ASSUME pc' = "start"
      PROVE  Turn'
  <2>1. p.idx < Len(call.ins)
    BY <1>2, <1>4, <1>6
  <2>2. /\ u \in Tensors /\ p.idx + 1 \in DOMAIN call.ins /\ u.bytes = call.out.bytes
        /\ call.out.at + call.out.bytes * ChannelsBeforeTurn(call.ins) + Tensor.shape["C"] * u.bytes
             = call.out.at + call.out.bytes * Total(First(ChannelsOf(call.ins), p.idx))
    BY <1>2, <2>1, NextChannels DEF ChannelsBeforeTurn
  <2>3. at = call.out.at + call.out.bytes * Total(First(ChannelsOf(call.ins), p.idx))
    BY <1>1, <2>2 DEF BatchedTurn
  <2>4. call.out \in Tensors
    BY <1>2, PartTensors
  <2>5. PICK k : ScansPixels(p.out, call.out, k)
    BY <1>1 DEF BatchedTurn
  <2>6. /\ ScansPixels(out, call.out, u.batch)
        /\ out.frames = Batches(u) /\ out.loop = Batches(u)
        /\ out.frame = u.batch * call.out.bytes /\ out.loops \in Nat
    <3> HIDE DEF u
    <3> QED BY <1>2, <2>2, <2>4, <2>5, BatchedOutScans
  <2>7. (p.idx + 1) - 1 = p.idx
    BY <1>2, <1>3
  <2>8. BatchedTurn'
    <3>1. ConcatIsValid' /\ call' = call /\ block' = block
      BY <1>1, <1>4, SameGeometry
    <3>2. /\ p'.at = at /\ p'.out = out /\ p'.idx = p.idx + 1
          /\ p'.tensors = call.ins /\ p'.in = p.in
      BY <1>2, <1>5, <2>1
    <3>3. p'.idx - 1 = p.idx
      BY <2>7, <3>2
    <3>4. call.ins[p'.idx] = u
      BY <3>2
    <3> HIDE DEF at, out, u
    <3>5. /\ p'.idx \in DOMAIN call.ins
          /\ p'.at = call.out.at + call.out.bytes * Total(First(ChannelsOf(call.ins), p'.idx - 1))
      BY <2>2, <2>3, <3>2, <3>3
    <3> QED BY <1>1, <1>2, <2>6, <3>1, <3>2, <3>4, <3>5 DEF BatchedTurn, OnTurn, ChannelsBeforeTurn
  <2> QED BY <2>8 DEF Turn
<1> QED BY <1>1, <1>4, <1>5, <1>6, SafeAfter

(* A turn of a split by whole channels reads them of every pixel.          *)
LEMMA ChannelsReach ==
  ASSUME NEW whole, NEW parts, PartsOf(whole, parts, "C"), NEW i \in DOMAIN parts,
         NEW d, ScansPixels(d, whole, parts[i].shape["C"]),
         d.at = whole.at + whole.bytes * Total(First(ChannelsOf(parts), i - 1)),
         d.frames = whole.shape["N"], d.loop = 0,
         d.frame = d.pixel * whole.shape["H"] * whole.shape["W"]
  PROVE  Addresses(d) \subseteq whole.at .. whole.at + Size(whole) - 1
<1> DEFINE t == parts[i]
           before == Total(First(ChannelsOf(parts), i - 1))
           b == whole.bytes
           c == whole.shape["C"]
           k == t.shape["C"]
           at == whole.at
           h == whole.shape["H"]
           w == whole.shape["W"]
           rest == h * (w * (b * c))
<1>1. whole \in Tensors /\ t \in Tensors
  BY PartTensors
<1>2. before \in Nat /\ before + k <= c
  BY ChannelSums
<1>3. b \in Nat /\ c \in Nat /\ at \in Nat /\ h \in Nat /\ w \in Nat /\ d.frames \in Nat
  <2>1. whole.bytes \in 1..4
    BY <1>1, SizeIsNat
  <2>2. c \in Nat /\ at \in Nat /\ h \in Nat /\ w \in Nat /\ d.frames \in Nat
    BY <1>1, SizeIsNat
  <2> QED BY <2>1, <2>2
<1>4. k \in Nat
  BY <1>1, SizeIsNat
<1>5. d.at \in Int /\ d.at = at + b * before
  <2> HIDE DEF b, before
  <2> QED BY <1>2, <1>3 DEF b, before
<1>6. rest \in Int /\ d.frame = rest
  <2>1. d.frame = (b * c) * h * w
    BY DEF ScansPixels
  <2> HIDE DEF b, c, h, w
  <2> QED BY <1>3, <2>1
<1>7. ASSUME NEW f \in 0..d.frames - 1
      PROVE  \E n \in 0..whole.shape["N"] - 1, o \in Nat :
               o + k * b <= b * c /\ d.at + FrameOffset(d, f) = at + n * rest + o
  <2> DEFINE o == b * before
  <2>1. o \in Nat /\ o + k * b <= b * c
    <3> HIDE DEF before, k, c, b
    <3>1. b * (before + k) <= b * c
      <4>1. before + k \in Nat
        BY <1>2, <1>4
      <4> QED BY <1>2, <1>3, <4>1, ProductMonotone
    <3>2. b * (before + k) = b * before + k * b /\ b * before \in Nat
      BY <1>2, <1>3, <1>4
    <3> QED BY <3>1, <3>2
  <2>2. d.at + FrameOffset(d, f) = at + f * rest + o
    <3>1. FrameOffset(d, f) = f * rest
      BY <1>3, <1>6, FrameOffsets
    <3>2. f * rest \in Int /\ o \in Int
      <4> HIDE DEF rest, o
      <4> QED BY <1>3, <1>6, <2>1
    <3> HIDE DEF rest, o, at
    <3> DEFINE x == f * rest
    <3>3. d.at = at + o
      BY <1>5 DEF o
    <3>4. x \in Int /\ FrameOffset(d, f) = x
      BY <3>1, <3>2
    <3> HIDE DEF x
    <3>5. d.at + FrameOffset(d, f) = at + x + o
      BY <1>3, <3>2, <3>3, <3>4
    <3> QED BY <3>5 DEF x
  <2>3. f \in 0..whole.shape["N"] - 1
    OBVIOUS
  <2> HIDE DEF o, rest
  <2> QED BY <2>1, <2>2, <2>3
<1> QED BY <1>1, <1>3, <1>4, <1>5, <1>7, PixelReach

(* A turn of a split by batches: every frame is a batch further. *)
LEMMA SplitReach ==
  ASSUME call \in Calls, SplitAtonTurn \/ SplitBatchedTurn
  PROVE  Addresses(p.in) \subseteq InBytes
<1>1. PartsOf(call.in, call.outs, "C") /\ p.idx \in DOMAIN call.outs /\ call.op = "Split"
  BY SplitParts DEF SplitAtonTurn, SplitBatchedTurn, OnTurn
<1>2. InBytes = call.in.at .. call.in.at + Size(call.in) - 1
  BY <1>1, ListBytes
<1>3. CASE SplitAtonTurn
  BY <1>1, <1>2, <1>3, ChannelsReach DEF SplitAtonTurn, ChannelsBeforeTurn
<1>4. CASE SplitBatchedTurn
  <2> DEFINE t == call.outs[p.idx]
             d == p.in
  <2>1. /\ ScansPixels(d, call.in, t.batch)
        /\ d.at = call.in.at + call.in.bytes * Total(First(ChannelsOf(call.outs), p.idx - 1))
        /\ d.frames = Batches(t) /\ d.loop = 1 /\ d.loops = t.batch * call.in.bytes
        /\ d.frame \in Nat
    BY <1>4 DEF SplitBatchedTurn, ChannelsBeforeTurn
  <2>2. t \in Tensors /\ call.in \in Tensors
    BY <1>1, PartTensors
  <2>3. Batches(t) \in Nat /\ d.loops \in Nat
    <3> HIDE DEF t
    <3>1. Batches(t) \in Nat /\ t.batch \in Nat
      BY <2>2, BatchFits
    <3>2. call.in.bytes \in 1..4
      BY <2>2, SizeIsNat
    <3> QED BY <2>1, <3>1, <3>2
  <2> HIDE DEF d
  <2>4. \A f \in 0..d.frames - 1 : FrameOffset(d, f) = f * (t.batch * call.in.bytes)
    <3> SUFFICES ASSUME NEW f \in 0..d.frames - 1
                 PROVE  FrameOffset(d, f) = f * (t.batch * call.in.bytes)
      OBVIOUS
    <3>1. f \in Nat
      BY <2>1, <2>3
    <3> QED BY <2>1, <2>3, <3>1, FrameOffsets
  <2>5. Addresses(d) \subseteq call.in.at .. call.in.at + Size(call.in) - 1
    BY <1>1, <2>1, <2>4, BatchedReach
  <2> QED BY <1>2, <2>5 DEF d
<1> QED BY <1>3, <1>4

(* The start block of a split over channels moves the output engine to     *)
(* the next output.                                                        *)
LEMMA StartSplitSafe ==
  ASSUME Safe, pc = "start", StartSplit
  PROVE  Safe'
<1>1. /\ SplitAtonTurn \/ SplitBatchedTurn
      /\ call \in Calls /\ call.op = "Split" /\ IsParams(p)
      /\ block \in {"splitAton", "splitBatched"}
      /\ mem.dirty = {} /\ Sound(mem, OutBytes)
  BY TurnOfBlock DEF Safe, StartSplit, SplitAtonTurn, SplitBatchedTurn
<1> DEFINE t == call.outs[p.idx]
           out == Moved(p.out, t.at, Size(t))
<1>2. /\ PartsOf(call.in, call.outs, "C") /\ p.idx \in DOMAIN call.outs /\ Tensor = t
      /\ IsRaw(p.out, ChannelBits(call.in))
  BY <1>1, SplitParts DEF SplitAtonTurn, SplitBatchedTurn, OnTurn, Tensor
<1>3. t \in Tensors /\ call.in \in Tensors
  BY <1>2, PartTensors
<1>4. t.at \in Nat /\ Size(t) \in Nat /\ Size(t) > 0
  BY <1>3, SizeIsNat
<1>5. /\ call' = call /\ block' = block /\ mem' = mem /\ pc' = "wait"
      /\ p' = [p EXCEPT !.out = out]
  <2>1. /\ call' = call /\ block' = block /\ mem' = mem
        /\ pc' = IF Size(t) > 0 THEN "wait" ELSE "end"
        /\ p' = IF Size(t) > 0 THEN [p EXCEPT !.out.at = t.at, !.out.len = Size(t)] ELSE p
    BY <1>2 DEF StartSplit, Launches
  <2> QED BY <1>4, <2>1, Zenon DEF Moved
<1>6. IsRaw(out, ChannelBits(call.in)) /\ out.at = t.at /\ out.len = Size(t)
  BY <1>2, RawMoved
<1>7. /\ IsParams(p') /\ p'.in = p.in /\ p'.out = out
      /\ p'.tensors = p.tensors /\ p'.at = p.at /\ p'.idx = p.idx
  <2> HIDE DEF out
  <2> QED BY <1>1, <1>5 DEF IsParams
<1>8. InsideTensors'
  <2>1. Addresses(out) \subseteq t.at .. t.at + Size(t) - 1
    <3>1. ChannelBits(call.in) \in {8, 16, 24}
      BY <1>3, ChannelBytes
    <3> QED BY <1>4, <1>6, <3>1, FlatReach
  <2>2. t.at .. t.at + Size(t) - 1 \subseteq OutBytes
    BY <1>1, <1>2, ListBytes DEF Bytes
  <2>3. Addresses(p.in) \subseteq InBytes
    BY <1>1, SplitReach
  <2>4. OutBytes' = OutBytes /\ InBytes' = InBytes /\ block' # "memset"
    BY <1>1, <1>5, SameTensors
  <2> HIDE DEF out
  <2> QED BY <1>7, <2>1, <2>2, <2>3, <2>4 DEF InsideTensors
<1>9. Turn'
  <2> HIDE DEF out, t
  <2>1. call' = call /\ block' = block
    BY <1>5
  <2>2. CASE SplitAtonTurn
    BY <1>6, <1>7, <2>1, <2>2 DEF Turn, SplitAtonTurn, OnTurn, ChannelsBeforeTurn
  <2>3. CASE SplitBatchedTurn
    BY <1>6, <1>7, <2>1, <2>3 DEF Turn, SplitBatchedTurn, OnTurn, ChannelsBeforeTurn
  <2> QED BY <1>1, <2>2, <2>3
<1> QED BY <1>1, <1>5, <1>7, <1>8, <1>9, SafeAfter

(* the reader of a split, for the next output *)
NextPart(d, by, depth) == [d EXCEPT !.at = @ + by, !.depth = depth]
NextBatched(d, by, depth, frames, loops) ==
  [d EXCEPT !.at = @ + by, !.depth = depth, !.frames = frames, !.loops = loops]

(* The input engine of a split, moved on to the channels of the next       *)
(* output.                                                                 *)
LEMMA NextPartScans ==
  ASSUME NEW d, NEW whole, NEW k, ScansPixels(d, whole, k), NEW by, NEW n
  PROVE  LET e == NextPart(d, by, Channels(whole, n))
         IN  /\ ScansPixels(e, whole, n) /\ e.at = d.at + by
             /\ e.frames = d.frames /\ e.loop = d.loop /\ e.frame = d.frame /\ e.pixel = d.pixel
<1> DEFINE depth == Channels(whole, n)
           at == d.at + by
<1>1. NextPart(d, by, Channels(whole, n)) = [d EXCEPT !.at = at, !.depth = depth]
  BY Zenon DEF NextPart
<1> HIDE DEF depth, at
<1> DEFINE e == [d EXCEPT !.at = at, !.depth = depth]
<1>2. /\ DOMAIN e = DOMAIN d /\ e.depth = depth /\ e.at = at
      /\ e.raw = d.raw /\ e.bits = d.bits /\ e.width = d.width /\ e.height = d.height
      /\ e.pixel = d.pixel /\ e.line = d.line
      /\ e.frames = d.frames /\ e.loop = d.loop /\ e.frame = d.frame
  BY DEF ScansPixels, Flat24, Raw
<1> HIDE DEF e
<1> QED BY <1>1, <1>2 DEF e, ScansPixels, depth, at

(* The same for a split in batches.                                        *)
LEMMA NextBatchedScans ==
  ASSUME NEW d, NEW whole, NEW k, ScansPixels(d, whole, k), NEW by, NEW n, NEW frames, NEW loops
  PROVE  LET e == NextBatched(d, by, Channels(whole, n), frames, loops)
         IN  /\ ScansPixels(e, whole, n) /\ e.at = d.at + by
             /\ e.frames = frames /\ e.loops = loops /\ e.loop = d.loop /\ e.frame = d.frame
<1> DEFINE depth == Channels(whole, n)
           at == d.at + by
<1>1. NextBatched(d, by, Channels(whole, n), frames, loops)
        = [d EXCEPT !.at = at, !.depth = depth, !.frames = frames, !.loops = loops]
  BY Zenon DEF NextBatched
<1> HIDE DEF depth, at
<1> DEFINE e == [d EXCEPT !.at = at, !.depth = depth, !.frames = frames, !.loops = loops]
<1>2. /\ DOMAIN e = DOMAIN d /\ e.depth = depth /\ e.at = at
      /\ e.raw = d.raw /\ e.bits = d.bits /\ e.width = d.width /\ e.height = d.height
      /\ e.pixel = d.pixel /\ e.line = d.line
      /\ e.frames = frames /\ e.loops = loops /\ e.loop = d.loop /\ e.frame = d.frame
  BY DEF ScansPixels, Flat24, Raw
<1> HIDE DEF e
<1> QED BY <1>1, <1>2 DEF e, ScansPixels, depth, at

(* The end block of a split over channels moves the input engine past the  *)
(* channels it read.                                                       *)
LEMMA EndSplitAtonSafe ==
  ASSUME Safe, pc = "end", EndSplitAton
  PROVE  Safe'
<1>1. SplitAtonTurn /\ call \in Calls /\ call.op = "Split" /\ IsParams(p)
      /\ mem.dirty = {} /\ Sound(mem, OutBytes)
  BY TurnOfBlock DEF Safe, EndSplitAton, SplitAtonTurn
<1>2. PartsOf(call.in, call.outs, "C") /\ p.idx \in DOMAIN call.outs /\ Tensor = call.outs[p.idx]
      /\ p.tensors = call.outs
  BY <1>1, SplitParts DEF SplitAtonTurn, OnTurn, Tensor
<1>3. DOMAIN call.outs = 1..Len(call.outs) /\ Len(call.outs) \in Nat
  BY <1>2, ListElements DEF PartsOf
<1> DEFINE u == call.outs[p.idx + 1]
           by == Tensor.shape["C"] * u.bytes
           in == NextPart(p.in, by, Channels(u, u.shape["C"]))
<1>4. /\ call' = call /\ block' = block /\ mem' = mem
      /\ pc' = IF p.idx < Len(p.tensors) THEN "start" ELSE "done"
  BY DEF EndSplitAton, NextTurn
<1>5. /\ IsParams(p')
      /\ p.idx < Len(p.tensors) =>
           p'.in = in /\ p'.idx = p.idx + 1 /\ p'.tensors = p.tensors /\ p'.out = p.out
  <2>1. CASE p.idx = Len(p.tensors)
    <3>1. p' = [p EXCEPT !.idx = p.idx + 1]
      BY <2>1 DEF EndSplitAton, NextTurn
    <3> QED BY <1>1, <2>1, <3>1 DEF IsParams
  <2>2. CASE p.idx # Len(p.tensors)
    <3>1. p' = [[p EXCEPT !.in = in] EXCEPT !.idx = p.idx + 1]
      BY <1>2, <2>2, Zenon DEF EndSplitAton, NextTurn, Following, NextPart
    <3> HIDE DEF in
    <3> QED BY <1>1, <3>1 DEF IsParams
  <2> QED BY <2>1, <2>2
<1>6. ASSUME pc' = "start"
      PROVE  Turn'
  <2>1. p.idx < Len(call.outs)
    BY <1>2, <1>4, <1>6
  <2>2. /\ p.idx + 1 \in DOMAIN call.outs /\ u.bytes = call.in.bytes
        /\ call.in.at + call.in.bytes * ChannelsBeforeTurn(call.outs) + by
             = call.in.at + call.in.bytes * Total(First(ChannelsOf(call.outs), p.idx))
    BY <1>2, <2>1, NextChannels DEF ChannelsBeforeTurn
  <2>3. p.in.at + by = call.in.at + call.in.bytes * Total(First(ChannelsOf(call.outs), p.idx))
    BY <1>1, <2>2 DEF SplitAtonTurn
  <2>4. Channels(u, u.shape["C"]) = Channels(call.in, u.shape["C"])
    BY <2>2 DEF Channels
  <2>5. /\ ScansPixels(in, call.in, u.shape["C"]) /\ in.at = p.in.at + by
        /\ in.frames = p.in.frames /\ in.loop = p.in.loop /\ in.frame = p.in.frame
        /\ in.pixel = p.in.pixel
    <3>1. PICK k : ScansPixels(p.in, call.in, k)
      BY <1>1 DEF SplitAtonTurn
    <3> HIDE DEF u, by
    <3> QED BY <2>4, <3>1, NextPartScans
  <2>6. p'.in = in /\ p'.idx = p.idx + 1 /\ p'.tensors = call.outs /\ p'.out = p.out
    BY <1>2, <1>5, <2>1
  <2>7. p'.idx - 1 = p.idx /\ call.outs[p'.idx] = u
    BY <1>2, <1>3, <2>6
  <2>8. call' = call /\ block' = block
    BY <1>4
  <2> HIDE DEF in, u, by
  <2>9. SplitAtonTurn'
    <3>1. p'.in.at = call.in.at + call.in.bytes * Total(First(ChannelsOf(call.outs), p'.idx - 1))
      BY <2>3, <2>5, <2>6, <2>7
    <3>2. p'.idx \in DOMAIN call.outs
      BY <2>2, <2>6
    <3> QED BY <1>1, <2>5, <2>6, <2>7, <2>8, <3>1, <3>2
            DEF SplitAtonTurn, OnTurn, ChannelsBeforeTurn
  <2> QED BY <2>9 DEF Turn
<1> QED BY <1>1, <1>4, <1>5, <1>6, SafeAfter

(* The end block of a batched split does, too.                             *)
LEMMA EndSplitBatchedSafe ==
  ASSUME Safe, pc = "end", EndSplitBatched
  PROVE  Safe'
<1>1. SplitBatchedTurn /\ call \in Calls /\ call.op = "Split" /\ IsParams(p)
      /\ mem.dirty = {} /\ Sound(mem, OutBytes)
  BY TurnOfBlock DEF Safe, EndSplitBatched, SplitBatchedTurn
<1>2. PartsOf(call.in, call.outs, "C") /\ p.idx \in DOMAIN call.outs /\ Tensor = call.outs[p.idx]
      /\ p.tensors = call.outs
  BY <1>1, SplitParts DEF SplitBatchedTurn, OnTurn, Tensor
<1>3. DOMAIN call.outs = 1..Len(call.outs) /\ Len(call.outs) \in Nat
  BY <1>2, ListElements DEF PartsOf
<1> DEFINE u == call.outs[p.idx + 1]
           by == Tensor.shape["C"] * u.bytes
           in == NextBatched(p.in, by, Channels(u, u.batch), u.shape["C"] \div u.batch,
                             u.batch * u.bytes)
<1>4. /\ call' = call /\ block' = block /\ mem' = mem
      /\ pc' = IF p.idx < Len(p.tensors) THEN "start" ELSE "done"
  BY DEF EndSplitBatched, NextTurn
<1>5. /\ IsParams(p')
      /\ p.idx < Len(p.tensors) =>
           p'.in = in /\ p'.idx = p.idx + 1 /\ p'.tensors = p.tensors /\ p'.out = p.out
  <2>1. CASE p.idx = Len(p.tensors)
    <3>1. p' = [p EXCEPT !.idx = p.idx + 1]
      BY <2>1 DEF EndSplitBatched, NextTurn
    <3> QED BY <1>1, <2>1, <3>1 DEF IsParams
  <2>2. CASE p.idx # Len(p.tensors)
    <3>1. p' = [[p EXCEPT !.in = in] EXCEPT !.idx = p.idx + 1]
      BY <1>2, <2>2, Zenon DEF EndSplitBatched, NextTurn, Following, NextBatched
    <3> HIDE DEF in
    <3> QED BY <1>1, <3>1 DEF IsParams
  <2> QED BY <2>1, <2>2
<1>6. ASSUME pc' = "start"
      PROVE  Turn'
  <2>1. p.idx < Len(call.outs)
    BY <1>2, <1>4, <1>6
  <2>2. /\ p.idx + 1 \in DOMAIN call.outs /\ u.bytes = call.in.bytes
        /\ call.in.at + call.in.bytes * ChannelsBeforeTurn(call.outs) + by
             = call.in.at + call.in.bytes * Total(First(ChannelsOf(call.outs), p.idx))
    BY <1>2, <2>1, NextChannels DEF ChannelsBeforeTurn
  <2>3. p.in.at + by = call.in.at + call.in.bytes * Total(First(ChannelsOf(call.outs), p.idx))
    BY <1>1, <2>2 DEF SplitBatchedTurn
  <2>4. Channels(u, u.batch) = Channels(call.in, u.batch)
    BY <2>2 DEF Channels
  <2>5. /\ ScansPixels(in, call.in, u.batch) /\ in.at = p.in.at + by
        /\ in.frames = Batches(u) /\ in.loops = u.batch * call.in.bytes
        /\ in.loop = p.in.loop /\ in.frame = p.in.frame
    <3>1. PICK k : ScansPixels(p.in, call.in, k)
      BY <1>1 DEF SplitBatchedTurn
    <3>2. Batches(u) = u.shape["C"] \div u.batch /\ u.batch * u.bytes = u.batch * call.in.bytes
      BY <2>2 DEF Batches
    <3> HIDE DEF u, by
    <3> QED BY <2>4, <3>1, <3>2, NextBatchedScans
  <2>6. p'.in = in /\ p'.idx = p.idx + 1 /\ p'.tensors = call.outs /\ p'.out = p.out
    BY <1>2, <1>5, <2>1
  <2>7. p'.idx - 1 = p.idx /\ call.outs[p'.idx] = u
    BY <1>2, <1>3, <2>6
  <2>8. call' = call /\ block' = block
    BY <1>4
  <2> HIDE DEF in, u, by
  <2>9. SplitBatchedTurn'
    <3>1. p'.in.at = call.in.at + call.in.bytes * Total(First(ChannelsOf(call.outs), p'.idx - 1))
      BY <2>3, <2>5, <2>6, <2>7
    <3>2. p'.idx \in DOMAIN call.outs
      BY <2>2, <2>6
    <3> QED BY <1>1, <2>5, <2>6, <2>7, <2>8, <3>1, <3>2
            DEF SplitBatchedTurn, OnTurn, ChannelsBeforeTurn
  <2> QED BY <2>9 DEF Turn
<1> QED BY <1>1, <1>4, <1>5, <1>6, SafeAfter

-----------------------------------------------------------------------------

(***************************************************************************)
(* The steps that are not an operator's.                                   *)
(***************************************************************************)

(* Before the call.                                                        *)
LEMMA SafeAtFirst ==
  ASSUME Init
  PROVE  Safe
<1>1. Sound(mem, OutBytes)
  <2>1. /\ mem.dirty = {} /\ mem.cache = <<>> /\ DOMAIN mem.ram = Memory
        /\ \A a \in Memory : mem.ram[a] = a
        /\ IsMemory(mem)
    BY DEF Init, Memory, IsMemory
  <2>2. InLines(mem.dirty) \subseteq DOMAIN mem.cache \cap Memory /\ mem.dirty \subseteq Int
    BY <2>1 DEF InLines
  <2>3. \A a \in Memory \ OutBytes :
          mem.ram[a] = a /\ (a \in DOMAIN mem.cache => mem.cache[a] = a)
    <3>1. \A a : a \notin DOMAIN mem.cache
      BY <2>1
    <3> QED BY <2>1, <3>1
  <2>4. IsMemory(mem) /\ DOMAIN mem.ram = Memory
    BY <2>1
  <2> QED BY <2>2, <2>3, <2>4 DEF Sound
<1>2. IsParams(p) /\ call \in Calls /\ pc = "call" /\ mem.dirty = {}
      /\ \A a \in Memory : mem.ram[a] = a
  BY DEF Init, IsParams, Memory
<1> QED BY <1>1, <1>2 DEF Safe

(* The start block of a single transfer starts its engines.                *)
LEMMA StartTransferSafe ==
  ASSUME Safe, pc = "start", StartTransfer
  PROVE  Safe'
<1>1. /\ Turn /\ IsParams(p) /\ mem.dirty = {} /\ Sound(mem, OutBytes)
      /\ TransferTurn \/ MemsetTurn
  BY TurnOfBlock DEF Safe, StartTransfer
<1>2. call' = call /\ block' = block /\ p' = p /\ mem' = mem /\ pc' = "wait"
  BY DEF StartTransfer
<1>3. InsideTensors'
  BY <1>1, <1>2, SameTensors DEF TransferTurn, MemsetTurn, InsideTensors
<1> QED BY <1>1, <1>2, <1>3, SameTurn, SafeAfter DEF IsParams

(* The engines end: they have written within the output, past the cache.   *)
LEMMA EnginesDoneSafe ==
  ASSUME Safe, EnginesDone
  PROVE  Safe'
<1>1. /\ Turn /\ IsParams(p) /\ mem.dirty = {} /\ Sound(mem, OutBytes) /\ InsideTensors
      /\ call \in Calls
  BY DEF Safe, EnginesDone
<1>2. call' = call /\ block' = block /\ p' = p /\ pc' = "end"
      /\ mem' = [mem EXCEPT !.ram = Transferred(@, p.in, p.out)]
  BY DEF EnginesDone
<1>3. Addresses(p.out) \subseteq OutBytes \cap Memory
  BY <1>1, OutputsInMemory DEF InsideTensors
<1>4. Sound(mem', OutBytes) /\ mem'.dirty = {}
  BY <1>1, <1>2, <1>3, TransferredSound
<1> QED BY <1>1, <1>2, <1>4, SameTurn, SafeAfter DEF IsParams

(* The end block of a single transfer returns to the caller.               *)
LEMMA EndTransferSafe ==
  ASSUME Safe, pc = "end", EndTransfer
  PROVE  Safe'
<1>1. IsParams(p) /\ Sound(mem, OutBytes) /\ mem.dirty = {}
  BY DEF Safe
<1>2. call' = call /\ block' = block /\ p' = p /\ mem' = mem /\ pc' = "done"
  BY DEF EndTransfer
<1> QED BY <1>1, <1>2, SafeAfter DEF IsParams

(* A line may be evicted at any time: outside the output it holds what     *)
(* memory holds.                                                           *)
LEMMA EvictSafe ==
  ASSUME Safe, Evict
  PROVE  Safe'
<1>1. IsParams(p) /\ Sound(mem, OutBytes)
  BY DEF Safe
<1>2. PICK l \in mem.dirty : mem' = WrittenBack(mem, {l})
  BY DEF Evict
<1>3. call' = call /\ block' = block /\ p' = p /\ pc' = pc
  BY DEF Evict
<1>4. pc = "done"
  BY <1>2 DEF Safe
<1>5. {l} \subseteq Int
  BY <1>1, <1>2 DEF Sound
<1>6. Sound(mem', OutBytes)
  BY <1>1, <1>2, <1>5, WrittenBackSound
<1> QED BY <1>1, <1>3, <1>4, <1>6, SafeAfter DEF IsParams

(* A step that changes nothing.                                            *)
LEMMA StutterSafe ==
  ASSUME Safe, UNCHANGED vars
  PROVE  Safe'
<1>1. call' = call /\ block' = block /\ p' = p /\ mem' = mem /\ pc' = pc
  BY DEF vars
<1>2. pc = "wait" => InsideTensors'
  BY <1>1, SameTensors DEF Safe, InsideTensors
<1> QED BY <1>1, <1>2, SameTurn, SafeAfter DEF Safe, IsParams

(* a call that is refused, and one that only the CPU works at *)
LEMMA RejectsSafe ==
  ASSUME Safe, pc = "call", Rejects
  PROVE  Safe'
<1>1. call' = call /\ p' = p /\ mem' = mem /\ pc' = "failed"
  BY DEF Rejects
<1> QED BY <1>1, SafeAfter DEF Safe, IsParams

(* An operator that the CPU does alone returns with dirty lines; all it    *)
(* needs is to write within the output.                                    *)
LEMMA ReturnsSafe ==
  ASSUME Safe, NEW m, Returns(m), Sound(m, OutBytes)
  PROVE  Safe'
<1>1. call' = call /\ p' = p /\ mem' = m /\ pc' = "done"
  BY DEF Returns
<1> QED BY <1>1, SafeAfter DEF Safe, IsParams

(* The same for an operator that is a list of memcpy calls.                *)
LEMMA CopyReturnsSafe ==
  ASSUME Safe, NEW copies, Returns(Copied(mem, copies)), Written(copies) \subseteq OutBytes
  PROVE  Safe'
<1>1. Sound(mem, OutBytes) /\ OutBytes \subseteq Memory
  BY OutputsInMemory DEF Safe
<1>2. Sound(Copied(mem, copies), OutBytes)
  BY <1>1, CopiedSound
<1> QED BY <1>2, ReturnsSafe

(* one that inserts a block *)
LEMMA InsertsSafe ==
  ASSUME Safe, pc = "call", NEW b, NEW q, Inserts(b, q), mem' = mem, IsParams(q), Turn'
  PROVE  Safe'
<1>1. call' = call /\ p' = q /\ pc' = "start"
  BY DEF Inserts
<1>2. Sound(mem', OutBytes) /\ mem'.dirty = {}
  BY DEF Safe
<1> QED BY <1>1, <1>2, SafeAfter DEF IsParams

-----------------------------------------------------------------------------

(***************************************************************************)
(* Operators that insert epoch blocks.                                     *)
(***************************************************************************)

(* The parameters with which an operator inserts its epoch blocks.         *)
LEMMA PreparedParams ==
  ASSUME IsParams(p), NEW ts, NEW in, NEW out, NEW at
  PROVE  /\ IsParams(Prepared(ts, in, out, at))
         /\ Prepared(ts, in, out, at).tensors = ts /\ Prepared(ts, in, out, at).idx = 1
         /\ Prepared(ts, in, out, at).in = in /\ Prepared(ts, in, out, at).out = out
         /\ Prepared(ts, in, out, at).at = at
<1> SUFFICES ASSUME NEW q, q = Prepared(ts, in, out, at)
             PROVE  /\ IsParams(q) /\ q.tensors = ts /\ q.idx = 1
                    /\ q.in = in /\ q.out = out /\ q.at = at
  OBVIOUS
<1> QED BY DEF Prepared, IsParams

(* The engines of the flat copies are in raw mode with channels of 24      *)
(* bits.                                                                   *)
LEMMA FlatIsRaw == IsRaw(Flat24, 24)
BY DEF IsRaw, Flat24, Raw

(* An engine in raw mode is one.                                           *)
LEMMA RawIsRaw ==
  ASSUME NEW at, NEW len, NEW bits
  PROVE  /\ IsRaw(Raw(at, len, bits), bits)
         /\ Raw(at, len, bits).at = at /\ Raw(at, len, bits).len = len
BY DEF IsRaw, Raw

(* nothing is before the first part *)
LEMMA NothingBefore ==
  ASSUME NEW whole, NEW parts, NEW dim, PartsOf(whole, parts, dim)
  PROVE  /\ 1 \in DOMAIN parts /\ parts[1] \in Tensors
         /\ whole.at = whole.at + Total(First(SizesOf(parts), 1 - 1))
         /\ whole.at = whole.at + whole.bytes * Total(First(ChannelsOf(parts), 1 - 1))
         /\ parts[1].bytes = whole.bytes
<1>1. DOMAIN parts = 1..Len(parts) /\ Len(parts) \in Nat \ {0}
  BY ListElements DEF PartsOf
<1>2. 1 \in DOMAIN parts
  BY <1>1
<1>3. DOMAIN First(SizesOf(parts), 1 - 1) = {} /\ DOMAIN First(ChannelsOf(parts), 1 - 1) = {}
  BY DEF First
<1>4. Total(First(SizesOf(parts), 1 - 1)) = 0 /\ Total(First(ChannelsOf(parts), 1 - 1)) = 0
  BY <1>3, TotalEmpty
<1>5. whole \in Tensors /\ parts[1] \in Tensors
  BY <1>2, PartTensors
<1>6. whole.at \in Nat
  BY <1>5, SizeIsNat
<1>7. whole.bytes \in 1..4
  BY <1>5, SizeIsNat
<1>8. parts[1].bytes = whole.bytes
  BY <1>2 DEF PartsOf
<1> DEFINE at == whole.at
           b == whole.bytes
<1>9. at = at + 0 /\ at = at + b * 0
  <2> HIDE DEF at, b
  <2> QED BY <1>6, <1>7 DEF at, b
<1> QED BY <1>2, <1>4, <1>5, <1>8, <1>9

(* LL_ATON_LIB_Concat inserts the flat copies of its inputs.               *)
LEMMA FlatConcatSafe ==
  ASSUME Safe, pc = "call", call.op = "Concat", ConcatIsValid, mem' = mem,
         Inserts("inputs", Prepared(call.ins, Flat24, Flat24, call.out.at))
  PROVE  Safe'
<1> DEFINE q == Prepared(call.ins, Flat24, Flat24, call.out.at)
<1>1. IsParams(p) /\ call \in Calls
  BY DEF Safe
<1>2. PartsOf(call.out, call.ins, call.dim)
  BY <1>1, ConcatParts
<1>3. /\ IsParams(q) /\ q.tensors = call.ins /\ q.idx = 1 /\ q.in = Flat24 /\ q.out = Flat24
      /\ q.at = call.out.at
  BY <1>1, PreparedParams
<1>4. /\ 1 \in DOMAIN call.ins
      /\ call.out.at = call.out.at + Total(First(SizesOf(call.ins), 1 - 1))
  BY <1>2, NothingBefore
<1> HIDE DEF q
<1>5. call' = call /\ block' = "inputs" /\ p' = q
  BY DEF Inserts, q
<1>6. InputsTurn'
  BY <1>3, <1>4, <1>5, FlatIsRaw, SameGeometry DEF InputsTurn, OnTurn
<1> QED BY <1>3, <1>6, InsertsSafe DEF Turn, q

(* LL_ATON_LIB_Split inserts the flat copies of its outputs.               *)
LEMMA FlatSplitSafe ==
  ASSUME Safe, pc = "call", call.op = "Split", mem' = mem,
         Inserts("outputs", Prepared(call.outs, Flat24, Flat24, call.in.at))
  PROVE  Safe'
<1> DEFINE q == Prepared(call.outs, Flat24, Flat24, call.in.at)
<1>1. IsParams(p) /\ call \in Calls
  BY DEF Safe
<1>2. PartsOf(call.in, call.outs, call.dim)
  BY <1>1, SplitParts
<1>3. /\ IsParams(q) /\ q.tensors = call.outs /\ q.idx = 1 /\ q.in = Flat24 /\ q.out = Flat24
      /\ q.at = call.in.at
  BY <1>1, PreparedParams
<1>4. /\ 1 \in DOMAIN call.outs
      /\ call.in.at = call.in.at + Total(First(SizesOf(call.outs), 1 - 1))
  BY <1>2, NothingBefore
<1> HIDE DEF q
<1>5. call' = call /\ block' = "outputs" /\ p' = q
  BY DEF Inserts, q
<1>6. OutputsTurn'
  BY <1>3, <1>4, <1>5, FlatIsRaw DEF OutputsTurn, OnTurn
<1> QED BY <1>3, <1>6, InsertsSafe DEF Turn, q

(* the engine of a batched concat, before it is given an input *)
Geometry(ins, out) ==
  [Raw(out.at, 0, ChannelBits(ins[1])) EXCEPT
     !.raw = FALSE, !.width = ins[1].shape["W"], !.height = ins[1].shape["H"],
     !.pixel = ins[1].bytes * Total([i \in DOMAIN ins |-> ins[i].shape["C"]])]

(* LL_ATON_LIB_Concat inserts the turns that write the channels of one     *)
(* input after those of another.                                           *)
LEMMA BatchedConcatSafe ==
  ASSUME Safe, pc = "call", call.op = "Concat", ConcatIsValid, AxisIsLeftmost, call.dim = "C",
         BatchedConcat(call.ins, call.out), mem' = mem
  PROVE  Safe'
<1> DEFINE t == call.ins[1]
           out == BatchedOut(t, Geometry(call.ins, call.out))
           q == Prepared(call.ins, Whole(t), out, call.out.at)
<1>1. IsParams(p) /\ call \in Calls
  BY DEF Safe
<1>2. PartsOf(call.out, call.ins, "C")
  BY <1>1, ConcatParts
<1>3. /\ 1 \in DOMAIN call.ins /\ t \in Tensors /\ call.out \in Tensors
      /\ call.out.at = call.out.at + call.out.bytes * Total(First(ChannelsOf(call.ins), 1 - 1))
      /\ t.bytes = call.out.bytes
  BY <1>2, NothingBefore, PartTensors
<1>4. /\ t.shape["W"] = call.out.shape["W"] /\ t.shape["H"] = call.out.shape["H"]
      /\ Total([i \in DOMAIN call.ins |-> call.ins[i].shape["C"]]) = call.out.shape["C"]
  BY <1>2, <1>3 DEF PartsOf, Dims
<1>5. call.out.bytes < 4
  BY DEF AxisIsLeftmost
<1>6. /\ ScansPixels(out, call.out, t.batch)
      /\ out.frames = Batches(t) /\ out.loop = Batches(t)
      /\ out.frame = t.batch * call.out.bytes /\ out.loops \in Nat
  <2> DEFINE pixel == t.bytes * Total([i \in DOMAIN call.ins |-> call.ins[i].shape["C"]])
             bits == ChannelBits(t)
             h == t.shape["H"]
             w == t.shape["W"]
             depth == Channels(t, t.batch)
             frame == t.batch * t.bytes
             m == t.shape["C"] \div t.batch
             loops == t.shape["H"] * t.shape["W"] * t.batch * t.bytes
  <2>1. out = [[Raw(call.out.at, 0, bits) EXCEPT
                 !.raw = FALSE, !.width = w, !.height = h, !.pixel = pixel] EXCEPT
                 !.depth = depth, !.frame = frame, !.loop = m, !.frames = m, !.loops = loops]
    BY Zenon DEF BatchedOut, Geometry
  <2>2. loops \in Nat
    <3>1. t.shape["H"] \in Nat /\ t.shape["W"] \in Nat /\ t.batch \in Nat /\ t.bytes \in 1..4
      BY <1>3, SizeIsNat
    <3>2. t.bytes \in Nat
      BY <3>1
    <3> HIDE DEF t
    <3> QED BY <3>1, <3>2, ProductNat
  <2>3. /\ pixel = call.out.bytes * call.out.shape["C"] /\ bits = ChannelBits(call.out)
        /\ h = call.out.shape["H"] /\ w = call.out.shape["W"]
        /\ depth = Channels(call.out, t.batch) /\ frame = t.batch * call.out.bytes
        /\ m = Batches(t)
    BY <1>3, <1>4 DEF ChannelBits, Channels, Batches
  <2> HIDE DEF pixel, bits, h, w, depth, frame, m, loops, out
  <2>4. /\ DOMAIN out = DOMAIN Flat24
        /\ out.raw = FALSE /\ out.bits = bits /\ out.depth = depth /\ out.width = w
        /\ out.height = h /\ out.pixel = pixel /\ out.line = 0
        /\ out.frames = m /\ out.loop = m /\ out.frame = frame /\ out.loops = loops
    BY <2>1 DEF Raw, Flat24
  <2> QED BY <2>2, <2>3, <2>4 DEF ScansPixels
<1>7. IsRaw(Whole(t), ChannelBits(call.out))
  BY <1>3, RawIsRaw DEF Whole, ChannelBits
<1> HIDE DEF out
<1>8. /\ IsParams(q) /\ q.tensors = call.ins /\ q.idx = 1 /\ q.in = Whole(t) /\ q.out = out
      /\ q.at = call.out.at
  BY <1>1, PreparedParams
<1> HIDE DEF q
<1>9. Inserts("inputsBatched", q)
  BY Zenon DEF BatchedConcat, Geometry, q, out
<1>10. call' = call /\ block' = "inputsBatched" /\ p' = q
  BY <1>9 DEF Inserts
<1>11. ConcatIsValid'
  BY <1>10, SameGeometry
<1>12. BatchedTurn'
  <2> HIDE DEF t
  <2>1. call.ins[p'.idx] = t
    BY <1>8, <1>10 DEF t
  <2> QED BY <1>3, <1>5, <1>6, <1>7, <1>8, <1>10, <1>11, <2>1
          DEF BatchedTurn, OnTurn, ChannelsBeforeTurn
<1> QED BY <1>8, <1>9, <1>12, InsertsSafe DEF Turn

(* the reader of a split by channels *)
LEMMA SplitInScans ==
  ASSUME call \in Calls, call.op = "Split", call.dim = "C", NEW k
  PROVE  LET d == SplitIn(call.outs, k)
         IN  /\ ScansPixels(d, call.in, k) /\ d.at = call.in.at /\ d.loop = 0
             /\ d.frame = d.pixel * call.in.shape["H"] * call.in.shape["W"]
             /\ d.frame \in Nat
<1> DEFINE pixel == Total([i \in DOMAIN call.outs |-> call.outs[i].shape["C"]]) * call.in.bytes
           bits == ChannelBits(call.in)
           h == call.in.shape["H"]
           w == call.in.shape["W"]
           depth == Channels(call.in, k)
           line == pixel * w
           frame == pixel * h * w
           at == call.in.at
           d == SplitIn(call.outs, k)
<1>1. d = [Raw(at, 0, bits) EXCEPT
             !.raw = FALSE, !.width = w, !.height = h, !.depth = depth, !.pixel = pixel,
             !.line = line, !.frame = frame]
  BY Zenon DEF SplitIn
<1>2. PartsOf(call.in, call.outs, "C")
  BY SplitParts
<1>3. call.in \in Tensors
  BY <1>2, PartTensors
<1>4. /\ pixel = call.in.bytes * call.in.shape["C"] /\ pixel \in Nat /\ h \in Nat /\ w \in Nat
  <2> DEFINE b == call.in.bytes
             c == call.in.shape["C"]
  <2>1. pixel = c * b
    BY <1>2 DEF PartsOf
  <2>2. b \in 1..4 /\ c \in Nat /\ h \in Nat /\ w \in Nat
    BY <1>3, SizeIsNat
  <2> HIDE DEF b, c, pixel, h, w
  <2>3. c * b = b * c /\ c * b \in Nat
    BY <2>2
  <2> QED BY <2>1, <2>2, <2>3 DEF b, c
<1>5. frame \in Nat
  <2> HIDE DEF pixel, h, w
  <2> QED BY <1>4, ProductNat DEF frame
<1> HIDE DEF pixel, bits, h, w, depth, line, frame, at, d
<1>6. /\ DOMAIN d = DOMAIN Flat24
      /\ d.raw = FALSE /\ d.bits = bits /\ d.depth = depth /\ d.width = w
      /\ d.height = h /\ d.pixel = pixel /\ d.line = line /\ d.loop = 0
      /\ d.frame = frame /\ d.at = at
  BY <1>1 DEF Raw, Flat24
<1>7. /\ ScansPixels(d, call.in, k) /\ d.at = call.in.at /\ d.loop = 0
      /\ d.frame = d.pixel * call.in.shape["H"] * call.in.shape["W"]
      /\ d.frame \in Nat
  BY <1>4, <1>5, <1>6 DEF ScansPixels, bits, h, w, depth, line, frame, at
<1> QED BY <1>7 DEF d

(* Engines with other frames.                                              *)
Framing(d, frames) == [d EXCEPT !.frames = frames]
Batching(d, frames, loops) == [d EXCEPT !.loop = 1, !.frames = frames, !.loops = loops]

(* Setting the frames of an engine keeps how it scans a frame.             *)
LEMMA FramingScans ==
  ASSUME NEW d, NEW t, NEW k, ScansPixels(d, t, k), NEW frames, NEW loops, NEW e,
         e = Framing(d, frames) \/ e = Batching(d, frames, loops)
  PROVE  /\ ScansPixels(e, t, k) /\ e.at = d.at /\ e.frame = d.frame /\ e.pixel = d.pixel
         /\ e.frames = frames
         /\ e = Framing(d, frames) => e.loop = d.loop
         /\ e = Batching(d, frames, loops) => e.loop = 1 /\ e.loops = loops
<1>1. CASE e = Framing(d, frames)
  <2>1. /\ DOMAIN e = DOMAIN d /\ e.depth = d.depth /\ e.at = d.at
        /\ e.raw = d.raw /\ e.bits = d.bits /\ e.width = d.width /\ e.height = d.height
        /\ e.pixel = d.pixel /\ e.line = d.line
        /\ e.frames = frames /\ e.loop = d.loop /\ e.frame = d.frame
    BY <1>1 DEF ScansPixels, Flat24, Raw, Framing
  <2>2. ScansPixels(e, t, k)
    BY <2>1 DEF ScansPixels
  <2>3. CASE e = Batching(d, frames, loops)
    BY <1>1, <2>3, <2>1, <2>2 DEF ScansPixels, Flat24, Raw, Batching
  <2> QED BY <1>1, <2>1, <2>2, <2>3
<1>2. CASE e = Batching(d, frames, loops)
  <2>1. /\ DOMAIN e = DOMAIN d /\ e.depth = d.depth /\ e.at = d.at
        /\ e.raw = d.raw /\ e.bits = d.bits /\ e.width = d.width /\ e.height = d.height
        /\ e.pixel = d.pixel /\ e.line = d.line
        /\ e.frames = frames /\ e.loop = 1 /\ e.loops = loops /\ e.frame = d.frame
    BY <1>2 DEF ScansPixels, Flat24, Raw, Batching
  <2>2. ScansPixels(e, t, k)
    BY <2>1 DEF ScansPixels
  <2>3. CASE e = Framing(d, frames)
    BY <1>2, <2>1, <2>2, <2>3 DEF ScansPixels, Flat24, Raw, Framing
  <2> QED BY <1>2, <2>1, <2>2, <2>3
<1> QED BY <1>1, <1>2

(* LL_ATON_LIB_Split inserts the turns that read the channels of one       *)
(* output after those of another.                                          *)
LEMMA SplitAtonSafe ==
  ASSUME Safe, pc = "call", call.op = "Split", call.dim = "C", mem' = mem,
         Inserts("splitAton", Prepared(call.outs,
           [SplitIn(call.outs, call.outs[1].shape["C"]) EXCEPT !.frames = call.in.shape["N"]],
           Whole(call.outs[1]), call.in.at))
  PROVE  Safe'
<1> DEFINE t == call.outs[1]
           d == SplitIn(call.outs, t.shape["C"])
           in == Framing(d, call.in.shape["N"])
           q == Prepared(call.outs, in, Whole(t), call.in.at)
<1>1. IsParams(p) /\ call \in Calls
  BY DEF Safe
<1>2. PartsOf(call.in, call.outs, "C")
  BY <1>1, SplitParts
<1>3. /\ 1 \in DOMAIN call.outs /\ t \in Tensors
      /\ call.in.at = call.in.at + call.in.bytes * Total(First(ChannelsOf(call.outs), 1 - 1))
      /\ t.bytes = call.in.bytes
  BY <1>2, NothingBefore
<1>4. /\ ScansPixels(d, call.in, t.shape["C"]) /\ d.at = call.in.at /\ d.loop = 0
      /\ d.frame = d.pixel * call.in.shape["H"] * call.in.shape["W"]
  BY <1>1, SplitInScans
<1>5. /\ ScansPixels(in, call.in, t.shape["C"]) /\ in.at = d.at /\ in.frame = d.frame
      /\ in.pixel = d.pixel /\ in.frames = call.in.shape["N"] /\ in.loop = d.loop
  <2> HIDE DEF d
  <2> QED BY <1>4, FramingScans
<1>6. IsRaw(Whole(t), ChannelBits(call.in))
  BY <1>3, RawIsRaw DEF Whole, ChannelBits
<1>7. Inserts("splitAton", q)
  BY Zenon DEF Framing
<1> HIDE DEF in, d
<1>8. IsParams(q) /\ q.tensors = call.outs /\ q.idx = 1 /\ q.in = in /\ q.out = Whole(t)
  BY <1>1, PreparedParams
<1> HIDE DEF q
<1>9. call' = call /\ block' = "splitAton" /\ p' = q
  BY <1>7 DEF Inserts
<1>10. SplitAtonTurn'
  <2> HIDE DEF t
  <2>1. call.outs[p'.idx] = t
    BY <1>8, <1>9 DEF t
  <2> QED BY <1>3, <1>4, <1>5, <1>6, <1>8, <1>9, <2>1
          DEF SplitAtonTurn, OnTurn, ChannelsBeforeTurn
<1> QED BY <1>7, <1>8, <1>10, InsertsSafe DEF Turn

(* The same in batches.                                                    *)
LEMMA SplitBatchedSafe ==
  ASSUME Safe, pc = "call", call.op = "Split", call.dim = "C", mem' = mem,
         Inserts("splitBatched", Prepared(call.outs,
           [SplitIn(call.outs, call.outs[1].batch) EXCEPT !.loop = 1,
              !.frames = call.outs[1].shape["C"] \div call.outs[1].batch,
              !.loops = call.outs[1].batch * call.in.bytes],
           Whole(call.outs[1]), call.in.at))
  PROVE  Safe'
<1> DEFINE t == call.outs[1]
           d == SplitIn(call.outs, t.batch)
           in == Batching(d, t.shape["C"] \div t.batch, t.batch * call.in.bytes)
           q == Prepared(call.outs, in, Whole(t), call.in.at)
<1>1. IsParams(p) /\ call \in Calls
  BY DEF Safe
<1>2. PartsOf(call.in, call.outs, "C")
  BY <1>1, SplitParts
<1>3. /\ 1 \in DOMAIN call.outs /\ t \in Tensors
      /\ call.in.at = call.in.at + call.in.bytes * Total(First(ChannelsOf(call.outs), 1 - 1))
      /\ t.bytes = call.in.bytes
  BY <1>2, NothingBefore
<1>4. /\ ScansPixels(d, call.in, t.batch) /\ d.at = call.in.at /\ d.frame \in Nat
  BY <1>1, SplitInScans
<1>5. /\ ScansPixels(in, call.in, t.batch) /\ in.at = d.at /\ in.frame = d.frame
      /\ in.frames = Batches(t) /\ in.loop = 1 /\ in.loops = t.batch * call.in.bytes
  <2> DEFINE m == t.shape["C"] \div t.batch
             loops == t.batch * call.in.bytes
  <2>1. in = Batching(d, m, loops) /\ m = Batches(t)
    BY DEF Batches
  <2> HIDE DEF d, m, loops, in
  <2>2. /\ ScansPixels(in, call.in, t.batch) /\ in.at = d.at /\ in.frame = d.frame
        /\ in.frames = m /\ in.loop = 1 /\ in.loops = loops
    BY <1>4, <2>1, FramingScans
  <2> QED BY <2>1, <2>2 DEF loops
<1>6. IsRaw(Whole(t), ChannelBits(call.in))
  BY <1>3, RawIsRaw DEF Whole, ChannelBits
<1>7. Inserts("splitBatched", q)
  BY Zenon DEF Batching
<1> HIDE DEF in, d
<1>8. IsParams(q) /\ q.tensors = call.outs /\ q.idx = 1 /\ q.in = in /\ q.out = Whole(t)
  BY <1>1, PreparedParams
<1> HIDE DEF q
<1>9. call' = call /\ block' = "splitBatched" /\ p' = q
  BY <1>7 DEF Inserts
<1>10. SplitBatchedTurn'
  <2> HIDE DEF t
  <2>1. call.outs[p'.idx] = t
    BY <1>8, <1>9 DEF t
  <2> QED BY <1>3, <1>4, <1>5, <1>6, <1>8, <1>9, <2>1
          DEF SplitBatchedTurn, OnTurn, ChannelsBeforeTurn
<1> QED BY <1>7, <1>8, <1>10, InsertsSafe DEF Turn

-----------------------------------------------------------------------------

(***************************************************************************)
(* Concatenations and splits by the CPU: runs of bytes in the two orders   *)
(* of the dimensions.                                                      *)
(***************************************************************************)

(* Products of up to three factors.                                        *)
LEMMA ShortProducts ==
  ASSUME NEW n \in 0..3, NEW ns \in [1..n -> Nat]
  PROVE  /\ n = 0 => Product(ns) = 1
         /\ n = 1 => Product(ns) = ns[1]
         /\ n = 2 => Product(ns) = ns[1] * ns[2]
         /\ n = 3 => Product(ns) = ns[1] * ns[2] * ns[3]
<1>1. /\ Product(First(ns, 0)) = 1
      /\ \A k \in 0..n - 1 : Product(First(ns, k + 1)) = Product(First(ns, k)) * ns[k + 1]
  BY PrefixSums
<1>2. First(ns, n) = ns
  <2>1. n \in Nat
    OBVIOUS
  <2> QED BY <2>1, FirstIsAll
<1>3. CASE n = 0
  BY <1>1, <1>2, <1>3
<1>4. ASSUME n > 0
      PROVE  Product(First(ns, 1)) = ns[1]
  <2>1. Product(First(ns, 0 + 1)) = Product(First(ns, 0)) * ns[0 + 1]
    BY <1>1, <1>4
  <2>2. ns[1] \in Nat
    BY <1>4
  <2> QED BY <1>1, <2>1, <2>2
<1>5. CASE n = 1
  BY <1>2, <1>4, <1>5
<1>6. ASSUME n > 1
      PROVE  Product(First(ns, 2)) = ns[1] * ns[2]
  <2>1. Product(First(ns, 1 + 1)) = Product(First(ns, 1)) * ns[1 + 1]
    BY <1>1, <1>6
  <2> QED BY <1>4, <1>6, <2>1
<1>7. CASE n = 2
  BY <1>2, <1>6, <1>7
<1>8. CASE n = 3
  <2>1. Product(First(ns, 2 + 1)) = Product(First(ns, 2)) * ns[2 + 1]
    BY <1>1, <1>8
  <2> QED BY <1>2, <1>6, <1>8, <2>1
<1> QED BY <1>3, <1>5, <1>7, <1>8

(* Where each dimension is in the two orders.                              *)
LEMMA Positions ==
  /\ Position("N", AtonOrder) = 1 /\ Position("H", AtonOrder) = 2
  /\ Position("W", AtonOrder) = 3 /\ Position("C", AtonOrder) = 4
  /\ Position("N", OnnxOrder) = 1 /\ Position("C", OnnxOrder) = 2
  /\ Position("H", OnnxOrder) = 3 /\ Position("W", OnnxOrder) = 4
<1>1. Position("N", AtonOrder) = 1
  BY DEF Position, AtonOrder
<1>2. Position("H", AtonOrder) = 2
  BY DEF Position, AtonOrder
<1>3. Position("W", AtonOrder) = 3
  BY DEF Position, AtonOrder
<1>4. Position("C", AtonOrder) = 4
  BY DEF Position, AtonOrder
<1>5. Position("N", OnnxOrder) = 1
  BY DEF Position, OnnxOrder
<1>6. Position("C", OnnxOrder) = 2
  BY DEF Position, OnnxOrder
<1>7. Position("H", OnnxOrder) = 3
  BY DEF Position, OnnxOrder
<1>8. Position("W", OnnxOrder) = 4
  BY DEF Position, OnnxOrder
<1> QED BY <1>1, <1>2, <1>3, <1>4, <1>5, <1>6, <1>7, <1>8

(* the sizes inside of a dimension, in an order *)
Inner(t, dim, order) ==
  Product([i \in 1..4 - Position(dim, order) |-> t.shape[order[Position(dim, order) + i]]])

Orders == {AtonOrder, OnnxOrder}

(* the sizes outside of it *)
Outer(t, dim, order) ==
  CASE Position(dim, order) = 1 -> 1
    [] Position(dim, order) = 2 -> t.shape[order[1]]
    [] Position(dim, order) = 3 -> t.shape[order[1]] * t.shape[order[2]]
    [] Position(dim, order) = 4 -> t.shape[order[1]] * t.shape[order[2]] * t.shape[order[3]]

(* The elements of a tensor inside one index of a dimension.               *)
LEMMA InnerIs ==
  ASSUME NEW t \in Tensors, NEW dim \in Dims, NEW order \in Orders
  PROVE  /\ Position(dim, order) \in 1..4 /\ order[Position(dim, order)] = dim
         /\ Position(dim, order) = 1 =>
              Inner(t, dim, order) = t.shape[order[2]] * t.shape[order[3]] * t.shape[order[4]]
         /\ Position(dim, order) = 2 => Inner(t, dim, order) = t.shape[order[3]] * t.shape[order[4]]
         /\ Position(dim, order) = 3 => Inner(t, dim, order) = t.shape[order[4]]
         /\ Position(dim, order) = 4 => Inner(t, dim, order) = 1
<1>1. /\ Position(dim, order) \in 1..4 /\ order[Position(dim, order)] = dim
      /\ \A i \in 1..4 : order[i] \in Dims
  BY Positions DEF Orders, Dims, AtonOrder, OnnxOrder
<1> DEFINE at == Position(dim, order)
           n == 4 - at
           ns == [i \in 1..n |-> t.shape[order[at + i]]]
<1>2. Inner(t, dim, order) = Product(ns)
  BY DEF Inner
<1>3. \A d \in Dims : t.shape[d] \in Nat
  BY SizeIsNat DEF Dims
<1> HIDE DEF at
<1>4. at \in 1..4 /\ n \in 0..3
  BY <1>1 DEF at
<1>5. ns \in [1..n -> Nat]
  <2>1. ASSUME NEW i \in 1..n
        PROVE  t.shape[order[at + i]] \in Nat
    <3>1. at + i \in 1..4
      BY <1>4, <2>1
    <3> QED BY <1>1, <1>3, <3>1
  <2> QED BY <2>1
<1>6. CASE at = 1
  <2>1. n = 3 /\ ns[1] = t.shape[order[2]] /\ ns[2] = t.shape[order[3]] /\ ns[3] = t.shape[order[4]]
    BY <1>6
  <2> HIDE DEF ns, n
  <2>2. Product(ns) = ns[1] * ns[2] * ns[3]
    BY <1>4, <1>5, <2>1, ShortProducts
  <2> QED BY <1>1, <1>2, <1>6, <2>1, <2>2 DEF at
<1>7. CASE at = 2
  <2>1. n = 2 /\ ns[1] = t.shape[order[3]] /\ ns[2] = t.shape[order[4]]
    BY <1>7
  <2> HIDE DEF ns, n
  <2>2. Product(ns) = ns[1] * ns[2]
    BY <1>4, <1>5, <2>1, ShortProducts
  <2> QED BY <1>1, <1>2, <1>7, <2>1, <2>2 DEF at
<1>8. CASE at = 3
  <2>1. n = 1 /\ ns[1] = t.shape[order[4]]
    BY <1>8
  <2> HIDE DEF ns, n
  <2>2. Product(ns) = ns[1]
    BY <1>4, <1>5, <2>1, ShortProducts
  <2> QED BY <1>1, <1>2, <1>8, <2>1, <2>2 DEF at
<1>9. CASE at = 4
  <2>1. n = 0
    BY <1>9
  <2> HIDE DEF ns, n
  <2>2. Product(ns) = 1
    BY <1>4, <1>5, <2>1, ShortProducts
  <2> QED BY <1>1, <1>2, <1>9, <2>1, <2>2 DEF at
<1> QED BY <1>1, <1>4, <1>6, <1>7, <1>8, <1>9 DEF at

(* a tensor is its slices along a dimension *)
LEMMA SizeByDimension ==
  ASSUME NEW t \in Tensors, NEW dim \in Dims, NEW order \in Orders
  PROVE  /\ Outer(t, dim, order) \in Nat \ {0} /\ Inner(t, dim, order) \in Nat \ {0}
         /\ Size(t) = Outer(t, dim, order) * ((t.bytes * Inner(t, dim, order)) * t.shape[dim])
<1> DEFINE b == t.bytes
           n == t.shape["N"]
           c == t.shape["C"]
           h == t.shape["H"]
           w == t.shape["W"]
           at == Position(dim, order)
           inner == Inner(t, dim, order)
           outer == Outer(t, dim, order)
<1>0. \A x, y \in Nat \ {0} : x * y \in Nat \ {0}
  OBVIOUS
<1>1. /\ b \in Nat \ {0} /\ n \in Nat \ {0} /\ c \in Nat \ {0} /\ h \in Nat \ {0} /\ w \in Nat \ {0}
  <2>1. t.bytes \in 1..4
    BY SizeIsNat
  <2> QED BY <2>1, SizeIsNat
<1>2. /\ at \in 1..4 /\ order[at] = dim
      /\ at = 1 => inner = t.shape[order[2]] * t.shape[order[3]] * t.shape[order[4]]
      /\ at = 2 => inner = t.shape[order[3]] * t.shape[order[4]]
      /\ at = 3 => inner = t.shape[order[4]]
      /\ at = 4 => inner = 1
  BY InnerIs
<1>3. /\ at = 1 => outer = 1
      /\ at = 2 => outer = t.shape[order[1]]
      /\ at = 3 => outer = t.shape[order[1]] * t.shape[order[2]]
      /\ at = 4 => outer = t.shape[order[1]] * t.shape[order[2]] * t.shape[order[3]]
  BY DEF Outer
<1>4. Size(t) = b * n * c * h * w
  BY DEF Size
<1>5. CASE order = AtonOrder
  <2>1. /\ t.shape[order[1]] = n /\ t.shape[order[2]] = h /\ t.shape[order[3]] = w
        /\ t.shape[order[4]] = c
    BY <1>5 DEF AtonOrder
  <2> HIDE DEF b, n, c, h, w, at, inner, outer
  <2>2. CASE at = 1
    <3>1. inner = h * w * c /\ outer = 1 /\ t.shape[dim] = n
      BY <1>2, <1>3, <2>1, <2>2
    <3>2. inner \in Nat \ {0} /\ outer \in Nat \ {0}
      BY <1>0, <1>1, <3>1
    <3>3. b * n * c * h * w = (1) * ((b * (h * w * c)) * n)
      BY <1>1
    <3> QED BY <1>4, <3>1, <3>2, <3>3 DEF b, inner, outer
  <2>3. CASE at = 2
    <3>1. inner = w * c /\ outer = n /\ t.shape[dim] = h
      BY <1>2, <1>3, <2>1, <2>3
    <3>2. inner \in Nat \ {0} /\ outer \in Nat \ {0}
      BY <1>0, <1>1, <3>1
    <3>3. b * n * c * h * w = (n) * ((b * (w * c)) * h)
      BY <1>1
    <3> QED BY <1>4, <3>1, <3>2, <3>3 DEF b, inner, outer
  <2>4. CASE at = 3
    <3>1. inner = c /\ outer = n * h /\ t.shape[dim] = w
      BY <1>2, <1>3, <2>1, <2>4
    <3>2. inner \in Nat \ {0} /\ outer \in Nat \ {0}
      BY <1>0, <1>1, <3>1
    <3>3. b * n * c * h * w = (n * h) * ((b * (c)) * w)
      BY <1>1
    <3> QED BY <1>4, <3>1, <3>2, <3>3 DEF b, inner, outer
  <2>5. CASE at = 4
    <3>1. inner = 1 /\ outer = n * h * w /\ t.shape[dim] = c
      BY <1>2, <1>3, <2>1, <2>5
    <3>2. inner \in Nat \ {0} /\ outer \in Nat \ {0}
      BY <1>0, <1>1, <3>1
    <3>3. b * n * c * h * w = (n * h * w) * ((b * (1)) * c)
      BY <1>1
    <3> QED BY <1>4, <3>1, <3>2, <3>3 DEF b, inner, outer
  <2> QED BY <1>2, <2>2, <2>3, <2>4, <2>5
<1>6. CASE order = OnnxOrder
  <2>1. /\ t.shape[order[1]] = n /\ t.shape[order[2]] = c /\ t.shape[order[3]] = h
        /\ t.shape[order[4]] = w
    BY <1>6 DEF OnnxOrder
  <2> HIDE DEF b, n, c, h, w, at, inner, outer
  <2>2. CASE at = 1
    <3>1. inner = c * h * w /\ outer = 1 /\ t.shape[dim] = n
      BY <1>2, <1>3, <2>1, <2>2
    <3>2. inner \in Nat \ {0} /\ outer \in Nat \ {0}
      BY <1>0, <1>1, <3>1
    <3>3. b * n * c * h * w = (1) * ((b * (c * h * w)) * n)
      BY <1>1
    <3> QED BY <1>4, <3>1, <3>2, <3>3 DEF b, inner, outer
  <2>3. CASE at = 2
    <3>1. inner = h * w /\ outer = n /\ t.shape[dim] = c
      BY <1>2, <1>3, <2>1, <2>3
    <3>2. inner \in Nat \ {0} /\ outer \in Nat \ {0}
      BY <1>0, <1>1, <3>1
    <3>3. b * n * c * h * w = (n) * ((b * (h * w)) * c)
      BY <1>1
    <3> QED BY <1>4, <3>1, <3>2, <3>3 DEF b, inner, outer
  <2>4. CASE at = 3
    <3>1. inner = w /\ outer = n * c /\ t.shape[dim] = h
      BY <1>2, <1>3, <2>1, <2>4
    <3>2. inner \in Nat \ {0} /\ outer \in Nat \ {0}
      BY <1>0, <1>1, <3>1
    <3>3. b * n * c * h * w = (n * c) * ((b * (w)) * h)
      BY <1>1
    <3> QED BY <1>4, <3>1, <3>2, <3>3 DEF b, inner, outer
  <2>5. CASE at = 4
    <3>1. inner = 1 /\ outer = n * c * h /\ t.shape[dim] = w
      BY <1>2, <1>3, <2>1, <2>5
    <3>2. inner \in Nat \ {0} /\ outer \in Nat \ {0}
      BY <1>0, <1>1, <3>1
    <3>3. b * n * c * h * w = (n * c * h) * ((b * (1)) * w)
      BY <1>1
    <3> QED BY <1>4, <3>1, <3>2, <3>3 DEF b, inner, outer
  <2> QED BY <1>2, <2>2, <2>3, <2>4, <2>5
<1> QED BY <1>5, <1>6 DEF Orders

(* A common factor cancels.                                                *)
LEMMA Cancel ==
  ASSUME NEW x \in Int, NEW y \in Int, NEW s \in Nat \ {0}, x * s = y * s
  PROVE  x = y
<1>1. (x - y) * s = 0
  BY (x - y) * s = x * s - y * s
<1>2. x - y > 0 => (x - y) * s > 0
  OBVIOUS
<1>3. x - y < 0 => (x - y) * s < 0
  OBVIOUS
<1> QED BY <1>1, <1>2, <1>3

(* how many turns of jump bytes there are from start on *)
LEMMA TurnsOfJump ==
  ASSUME NEW outer \in Nat \ {0}, NEW jump \in Nat \ {0}, NEW start \in 0..jump - 1
  PROVE  (outer * jump - start + jump - 1) \div jump = outer
<1> DEFINE y == outer * jump
           r == jump - 1 - start
<1>1. y \in Nat /\ r \in 0..jump - 1
  BY ProductNat
<1>2. \A q \in Int, s \in 0..jump - 1 : (q * jump + s) \div jump = q
  OBVIOUS
<1>3. (outer * jump + r) \div jump = outer
  BY <1>1, <1>2
<1> HIDE DEF y
<1>4. y - start + jump - 1 = y + r
  BY <1>1
<1> HIDE DEF r
<1> QED BY <1>3, <1>4 DEF y

(* the loops that cut a tensor *)
BaseOf(whole, dim, order) == whole.bytes * Inner(whole, dim, order)
RunOf(whole, parts, dim, order, i) == BaseOf(whole, dim, order) * parts[i].shape[dim]
StartOf(whole, parts, dim, order, i) ==
  Total([j \in 1..i - 1 |-> RunOf(whole, parts, dim, order, j)])
JumpOf(whole, dim, order) == BaseOf(whole, dim, order) * whole.shape[dim]
TurnsOf(whole, parts, dim, order, i) ==
  (Size(whole) - StartOf(whole, parts, dim, order, i) + JumpOf(whole, dim, order) - 1)
    \div JumpOf(whole, dim, order)

(* The runs of bytes that the loops of the software concatenation and      *)
(* split copy.                                                             *)
LEMMA RunsAre ==
  ASSUME NEW whole, NEW parts, NEW dim, NEW order, NEW r \in Runs(whole, parts, dim, order)
  PROVE  \E i \in DOMAIN parts : \E k \in 0..TurnsOf(whole, parts, dim, order, i) - 1 :
           r = [part |-> i,
                whole |-> StartOf(whole, parts, dim, order, i) + k * JumpOf(whole, dim, order),
                off |-> k * RunOf(whole, parts, dim, order, i),
                n |-> RunOf(whole, parts, dim, order, i)]
<1>1. Runs(whole, parts, dim, order) =
        UNION {{[part |-> i,
                 whole |-> StartOf(whole, parts, dim, order, i) + k * JumpOf(whole, dim, order),
                 off |-> k * RunOf(whole, parts, dim, order, i),
                 n |-> RunOf(whole, parts, dim, order, i)]
                : k \in 0..TurnsOf(whole, parts, dim, order, i) - 1} : i \in DOMAIN parts}
  BY Zenon DEF Runs, TurnsOf, StartOf, RunOf, JumpOf, BaseOf, Inner
<1> QED BY <1>1, Zenon

(* Runs and jumps: a run of each part fits in a jump, and both go as       *)
(* often into the part and into the whole.                                 *)
LEMMA RunsGeometry ==
  ASSUME NEW whole, NEW parts, NEW dim, PartsOf(whole, parts, dim), NEW order \in Orders,
         NEW i \in DOMAIN parts
  PROVE  \E outer \in Nat \ {0} :
           LET run == RunOf(whole, parts, dim, order, i)
               jump == JumpOf(whole, dim, order)
               start == StartOf(whole, parts, dim, order, i)
           IN  /\ run \in Nat \ {0} /\ jump \in Nat \ {0} /\ start \in Nat /\ start + run <= jump
               /\ Size(whole) = outer * jump /\ Size(parts[i]) = outer * run
<1> DEFINE base == BaseOf(whole, dim, order)
           outer == Outer(whole, dim, order)
           shapes == [j \in DOMAIN parts |-> parts[j].shape[dim]]
           s == parts[i].shape[dim]
           all == whole.shape[dim]
<1>0. \A x, y \in Nat \ {0} : x * y \in Nat \ {0}
  OBVIOUS
<1>1. whole \in Tensors /\ dim \in Dims /\ parts[i] \in Tensors
  BY PartTensors
<1>2. \A t \in Tensors : t.shape[dim] \in Nat \ {0}
  BY <1>1 DEF Tensors
<1>3. s \in Nat \ {0} /\ all \in Nat \ {0}
  BY <1>1, <1>2
<1>4. outer \in Nat \ {0} /\ base \in Nat \ {0} /\ Size(whole) = outer * (base * all)
  <2>1. /\ outer \in Nat \ {0} /\ Inner(whole, dim, order) \in Nat \ {0}
        /\ Size(whole) = outer * ((whole.bytes * Inner(whole, dim, order)) * all)
    BY <1>1, SizeByDimension
  <2>2. whole.bytes \in 1..4
    BY <1>1, SizeIsNat
  <2>3. whole.bytes \in Nat \ {0}
    BY <2>2
  <2> QED BY <1>0, <2>1, <2>3 DEF BaseOf
<1>5. Size(parts[i]) = outer * (base * s)
  <2> DEFINE slab == Slab(whole, dim)
  <2>1. slab \in Nat \ {0} /\ Size(whole) = slab * all
    BY <1>1, SlabTimesSize
  <2>2. Size(parts[i]) = slab * s
    BY PartSizes
  <2> HIDE DEF slab, base, outer, all, s
  <2>3. outer * (base * all) = (outer * base) * all
    BY <1>3, <1>4
  <2>4. slab = outer * base
    <3>1. outer * base \in Nat \ {0}
      BY <1>0, <1>4
    <3> QED BY <1>3, <1>4, <2>1, <2>3, <3>1, Cancel
  <2>5. (outer * base) * s = outer * (base * s)
    BY <1>3, <1>4
  <2> QED BY <2>2, <2>4, <2>5
<1>6. DOMAIN parts = 1..Len(parts) /\ Len(parts) \in Nat
  BY ListElements DEF PartsOf
<1>7. shapes \in [1..Len(parts) -> Nat] /\ Total(shapes) = all
  <2>1. \A j \in DOMAIN parts : parts[j].shape[dim] \in Nat
    BY <1>2 DEF PartsOf, Lists
  <2> QED BY <1>6, <2>1 DEF PartsOf
<1>8. StartOf(whole, parts, dim, order, i) = base * Total(First(shapes, i - 1))
      /\ Total(First(shapes, i - 1)) \in Nat /\ Total(First(shapes, i - 1)) + s <= all
  <2>1. [j \in 1..i - 1 |-> RunOf(whole, parts, dim, order, j)] =
          [j \in 1..i - 1 |-> base * First(shapes, i - 1)[j]]
    <3>1. ASSUME NEW j \in 1..i - 1
          PROVE  RunOf(whole, parts, dim, order, j) = base * First(shapes, i - 1)[j]
      <4>1. j \in DOMAIN parts /\ First(shapes, i - 1)[j] = shapes[j]
        BY <1>6, <3>1 DEF First
      <4> QED BY <4>1 DEF RunOf
    <3> QED BY <3>1
  <2> HIDE DEF base, shapes
  <2>2. i - 1 \in Nat /\ First(shapes, i - 1) \in [1..i - 1 -> Int] /\ base \in Int
    BY <1>4, <1>6, <1>7 DEF First
  <2>3. Total([j \in 1..i - 1 |-> base * First(shapes, i - 1)[j]])
          = base * Total(First(shapes, i - 1))
    BY <2>2, TotalScaled
  <2>4. StartOf(whole, parts, dim, order, i) = base * Total(First(shapes, i - 1))
    BY <2>1, <2>3 DEF StartOf
  <2>5. /\ Total(First(shapes, i - 1)) \in Nat
        /\ Total(First(shapes, i)) = Total(First(shapes, i - 1)) + shapes[i]
        /\ Total(First(shapes, i)) <= Total(shapes)
    BY <1>6, <1>7, Sums
  <2>6. shapes[i] = s
    BY DEF shapes
  <2> QED BY <1>7, <2>4, <2>5, <2>6
<1> DEFINE before == Total(First(shapes, i - 1))
<1> HIDE DEF base, outer, s, all, before
<1>9. /\ base * s \in Nat \ {0} /\ base * all \in Nat \ {0} /\ base * before \in Nat
      /\ base * before + base * s <= base * all
  <2>1. before \in Nat /\ before + s <= all
    BY <1>8 DEF before
  <2>2. base * (before + s) <= base * all
    BY <1>3, <1>4, <2>1, ProductMonotone
  <2>3. base * (before + s) = base * before + base * s
    BY <1>3, <1>4, <2>1
  <2> QED BY <1>0, <1>3, <1>4, <2>1, <2>2, <2>3
<1>10. /\ RunOf(whole, parts, dim, order, i) = base * s /\ JumpOf(whole, dim, order) = base * all
       /\ StartOf(whole, parts, dim, order, i) = base * before
  BY <1>8 DEF RunOf, JumpOf, base, s, all, before
<1> QED BY <1>4, <1>5, <1>9, <1>10

(* Every run lies in the whole tensor and in its part. *)
LEMMA RunsInside ==
  ASSUME NEW whole, NEW parts, NEW dim, PartsOf(whole, parts, dim), NEW order \in Orders,
         NEW r \in Runs(whole, parts, dim, order)
  PROVE  /\ r.part \in DOMAIN parts
         /\ whole.at + r.whole .. whole.at + r.whole + r.n - 1 \subseteq Bytes(whole)
         /\ parts[r.part].at + r.off .. parts[r.part].at + r.off + r.n - 1
              \subseteq Bytes(parts[r.part])
         /\ r.whole \in Nat /\ r.off \in Nat /\ r.n \in Nat
<1>0. PICK i \in DOMAIN parts : \E k \in 0..TurnsOf(whole, parts, dim, order, i) - 1 :
        r = [part |-> i,
             whole |-> StartOf(whole, parts, dim, order, i) + k * JumpOf(whole, dim, order),
             off |-> k * RunOf(whole, parts, dim, order, i),
             n |-> RunOf(whole, parts, dim, order, i)]
  BY RunsAre
<1>1. PICK k \in 0..TurnsOf(whole, parts, dim, order, i) - 1 :
        r = [part |-> i,
             whole |-> StartOf(whole, parts, dim, order, i) + k * JumpOf(whole, dim, order),
             off |-> k * RunOf(whole, parts, dim, order, i),
             n |-> RunOf(whole, parts, dim, order, i)]
  BY <1>0
<1> DEFINE run == RunOf(whole, parts, dim, order, i)
           jump == JumpOf(whole, dim, order)
           start == StartOf(whole, parts, dim, order, i)
           at == whole.at
           to == parts[i].at
<1>2. PICK outer \in Nat \ {0} :
        /\ run \in Nat \ {0} /\ jump \in Nat \ {0} /\ start \in Nat /\ start + run <= jump
        /\ Size(whole) = outer * jump /\ Size(parts[i]) = outer * run
  BY RunsGeometry
<1>3. whole \in Tensors /\ parts[i] \in Tensors
  BY PartTensors
<1>4. at \in Nat /\ to \in Nat
  BY <1>3, SizeIsNat
<1>5. k \in 0..outer - 1
  <2>1. TurnsOf(whole, parts, dim, order, i) = (outer * jump - start + jump - 1) \div jump
    BY <1>2 DEF TurnsOf
  <2> HIDE DEF run, jump, start
  <2>2. start \in 0..jump - 1
    BY <1>2
  <2> QED BY <1>2, <2>1, <2>2, TurnsOfJump
<1>6. r.part = i /\ r.whole = start + k * jump /\ r.off = k * run /\ r.n = run
  BY <1>1
<1> HIDE DEF run, jump, start, at, to
<1>7. k * jump \in Nat /\ k * run \in Nat
  BY <1>2, <1>5, ProductNat
<1>8. ASSUME NEW a \in at + r.whole .. at + r.whole + r.n - 1
      PROVE  a \in at .. at + outer * jump - 1
  <2> DEFINE x == a - at - k * jump
             y == k * jump
             z == outer * jump
  <2>1. x \in 0..jump - 1 /\ y \in Nat /\ a = at + (y + x) /\ z \in Nat
    BY <1>2, <1>4, <1>6, <1>7, <1>8
  <2>2. k * jump + x \in 0..outer * jump - 1
    BY <1>2, <1>5, <2>1, RowBound
  <2> HIDE DEF x, y, z
  <2>3. y + x \in 0..z - 1
    BY <2>2 DEF y, z
  <2>4. a \in at .. at + z - 1
    BY <1>4, <2>1, <2>3
  <2> QED BY <2>4 DEF z
<1>9. ASSUME NEW a \in to + r.off .. to + r.off + r.n - 1
      PROVE  a \in to .. to + outer * run - 1
  <2> DEFINE x == a - to - k * run
             y == k * run
             z == outer * run
  <2>1. x \in 0..run - 1 /\ y \in Nat /\ a = to + (y + x) /\ z \in Nat
    BY <1>2, <1>4, <1>6, <1>7, <1>9
  <2>2. k * run + x \in 0..outer * run - 1
    BY <1>2, <1>5, <2>1, RowBound
  <2> HIDE DEF x, y, z
  <2>3. y + x \in 0..z - 1
    BY <2>2 DEF y, z
  <2>4. a \in to .. to + z - 1
    BY <1>4, <2>1, <2>3
  <2> QED BY <2>4 DEF z
<1>10. Bytes(whole) = at .. at + outer * jump - 1 /\ Bytes(parts[i]) = to .. to + outer * run - 1
  BY <1>2 DEF Bytes, at, to
<1>11. at + r.whole .. at + r.whole + r.n - 1 \subseteq Bytes(whole)
       /\ to + r.off .. to + r.off + r.n - 1 \subseteq Bytes(parts[i])
  BY <1>8, <1>9, <1>10
<1>12. start + k * jump \in Nat
  BY <1>2, <1>7
<1> QED BY <1>2, <1>6, <1>7, <1>11, <1>12 DEF at, to

(* What a list of memcpy calls writes.                                     *)
LEMMA WrittenIn ==
  ASSUME NEW copies, NEW S,
         \A c \in copies : c.dst \in Int /\ c.n \in Int /\ c.dst .. c.dst + c.n - 1 \subseteq S
  PROVE  Written(copies) \subseteq S
<1>1. ASSUME NEW c \in copies, NEW k \in 0..c.n - 1
      PROVE  c.dst + k \in S
  <2>1. c.dst + k \in c.dst .. c.dst + c.n - 1
    OBVIOUS
  <2> QED BY <2>1
<1> QED BY <1>1 DEF Written

(* The software loop of a concatenation writes within its output.          *)
LEMMA ConcatLoopSafe ==
  ASSUME Safe, pc = "call", call.op = "Concat", ConcatIsValid,
         Returns(ConcatLoop(call.ins, call.out))
  PROVE  Safe'
<1> DEFINE runs == Runs(call.out, call.ins, call.dim, AtonOrder)
           copies == {[dst |-> call.out.at + r.whole, src |-> call.ins[r.part].at + r.off, n |-> r.n]
                      : r \in runs}
<1>1. call \in Calls
  BY DEF Safe
<1>2. PartsOf(call.out, call.ins, call.dim)
  BY <1>1, ConcatParts
<1>3. OutBytes = Bytes(call.out) /\ call.out.at \in Nat
  <2>1. call.out \in Tensors
    BY <1>2, PartTensors
  <2> QED BY <1>1, <2>1, ListBytes, SizeIsNat DEF Bytes
<1>4. AtonOrder \in Orders
  BY DEF Orders
<1>5. ASSUME NEW c \in copies
      PROVE  c.dst \in Int /\ c.n \in Int /\ c.dst .. c.dst + c.n - 1 \subseteq OutBytes
  <2>1. PICK r \in runs : c.dst = call.out.at + r.whole /\ c.n = r.n
    OBVIOUS
  <2>2. /\ call.out.at + r.whole .. call.out.at + r.whole + r.n - 1 \subseteq Bytes(call.out)
        /\ r.whole \in Nat /\ r.n \in Nat
    BY <1>2, <1>4, RunsInside
  <2> QED BY <1>3, <2>1, <2>2
<1> HIDE DEF copies
<1>6. Written(copies) \subseteq OutBytes
  BY <1>5, WrittenIn
<1>7. Returns(Copied(mem, copies))
  BY Zenon DEF ConcatLoop, copies
<1> QED BY <1>6, <1>7, CopyReturnsSafe

(* The software loop of a split writes within its outputs.                 *)
LEMMA SplitLoopSafe ==
  ASSUME Safe, pc = "call", call.op = "Split", NEW order \in Orders, Returns(SplitLoop(order))
  PROVE  Safe'
<1> DEFINE runs == Runs(call.in, call.outs, call.dim, order)
           copies == {[dst |-> call.outs[r.part].at + r.off, src |-> call.in.at + r.whole, n |-> r.n]
                      : r \in runs}
<1>1. call \in Calls
  BY DEF Safe
<1>2. PartsOf(call.in, call.outs, call.dim)
  BY <1>1, SplitParts
<1>3. \A i \in DOMAIN call.outs : Bytes(call.outs[i]) \subseteq OutBytes
  BY <1>1, ListBytes
<1>5. ASSUME NEW c \in copies
      PROVE  c.dst \in Int /\ c.n \in Int /\ c.dst .. c.dst + c.n - 1 \subseteq OutBytes
  <2>1. PICK r \in runs : c.dst = call.outs[r.part].at + r.off /\ c.n = r.n
    OBVIOUS
  <2>2. /\ r.part \in DOMAIN call.outs /\ r.off \in Nat /\ r.n \in Nat
        /\ call.outs[r.part].at + r.off .. call.outs[r.part].at + r.off + r.n - 1
             \subseteq Bytes(call.outs[r.part])
    BY <1>2, RunsInside
  <2>3. call.outs[r.part] \in Tensors
    BY <1>2, <2>2, PartTensors
  <2>4. call.outs[r.part].at \in Nat
    BY <2>3, SizeIsNat
  <2> QED BY <1>3, <2>1, <2>2, <2>4
<1> HIDE DEF copies
<1>6. Written(copies) \subseteq OutBytes
  BY <1>5, WrittenIn
<1>7. Returns(Copied(mem, copies))
  BY Zenon DEF SplitLoop, copies
<1> QED BY <1>6, <1>7, CopyReturnsSafe

(* So does the split by whole tensors.                                     *)
LEMMA SplitFlatSafe ==
  ASSUME Safe, pc = "call", call.op = "Split", Returns(SplitFlat)
  PROVE  Safe'
<1> DEFINE src(i) == call.in.at + Total([j \in 1..i - 1 |-> Size(call.outs[j])])
           copies == {[dst |-> call.outs[i].at, n |-> Size(call.outs[i]), src |-> src(i)]
                      : i \in DOMAIN call.outs}
<1>1. call \in Calls
  BY DEF Safe
<1>2. PartsOf(call.in, call.outs, call.dim)
  BY <1>1, SplitParts
<1>3. \A i \in DOMAIN call.outs : Bytes(call.outs[i]) \subseteq OutBytes
  BY <1>1, ListBytes
<1>5. ASSUME NEW c \in copies
      PROVE  c.dst \in Int /\ c.n \in Int /\ c.dst .. c.dst + c.n - 1 \subseteq OutBytes
  <2>1. PICK i \in DOMAIN call.outs : c.dst = call.outs[i].at /\ c.n = Size(call.outs[i])
    <3> HIDE DEF src
    <3> QED OBVIOUS
  <2>2. call.outs[i] \in Tensors
    BY <1>2, PartTensors
  <2>3. call.outs[i].at \in Nat /\ Size(call.outs[i]) \in Nat
    BY <2>2, SizeIsNat
  <2> QED BY <1>3, <2>1, <2>3 DEF Bytes
<1> HIDE DEF copies
<1>6. Written(copies) \subseteq OutBytes
  BY <1>5, WrittenIn
<1>7. Returns(Copied(mem, copies))
  BY Zenon DEF SplitFlat, copies, src
<1> QED BY <1>6, <1>7, CopyReturnsSafe

(* where a batch of a pixel goes *)
LEMMA BatchInside ==
  ASSUME NEW t \in Tensors, NEW j \in 0..Batches(t) - 1, NEW y \in 0..t.shape["H"] - 1,
         NEW x \in 0..t.shape["W"] - 1
  PROVE  LET n == t.batch * t.bytes
             to == t.at + ((j * t.shape["H"] + y) * t.shape["W"] + x) * n
         IN  n \in Nat /\ to \in Int /\ to .. to + n - 1 \subseteq Bytes(t)
<1> DEFINE at == t.at
           k == t.batch
           b == t.bytes
           m == Batches(t)
           h == t.shape["H"]
           w == t.shape["W"]
           n == k * b
           to == at + ((j * h + y) * w + x) * n
           all == m * (h * (w * n))
<1>1. /\ at \in Nat /\ k \in Nat \ {0} /\ h \in Nat \ {0} /\ w \in Nat \ {0} /\ m \in Nat \ {0}
      /\ b \in Nat \ {0}
  <2>1. t.bytes \in 1..4
    BY SizeIsNat
  <2>2. /\ at \in Nat /\ k \in Nat \ {0} /\ h \in Nat \ {0} /\ w \in Nat \ {0}
    BY SizeIsNat
  <2>3. m \in Nat \ {0}
    BY BatchFits
  <2> QED BY <2>1, <2>2, <2>3
<1>2. n \in Nat
  <2> HIDE DEF k, b
  <2> QED BY <1>1
<1>3. to \in Int /\ ((j * h + y) * w + x) * n = j * (h * (w * n)) + y * (w * n) + x * n
      /\ j * (h * (w * n)) \in Int /\ y * (w * n) \in Int /\ x * n \in Int
      /\ all \in Int
  <2>1. j \in Int /\ y \in Int /\ x \in Int
    BY <1>1
  <2> HIDE DEF at, h, w, n, m
  <2> QED BY <1>1, <1>2, <2>1
<1>4. m * k <= t.shape["C"]
  <2>1. /\ (m - 1) * k \in Nat /\ (m - 1) * k + k <= t.shape["C"]
    <3>1. m - 1 \in 0..m - 1
      BY <1>1
    <3> QED BY <3>1, BatchFits
  <2> HIDE DEF m, k
  <2>2. (m - 1) * k + k = m * k
    BY <1>1
  <2> QED BY <2>1, <2>2
<1>5. all <= Size(t)
  <2> DEFINE c == t.shape["C"]
             f == t.shape["N"]
             rest == b * (h * w)
  <2>1. c \in Nat \ {0} /\ f \in Nat \ {0}
    BY SizeIsNat
  <2>2. Size(t) = b * f * c * h * w
    BY DEF Size
  <2> HIDE DEF c, f, m, k, b, h, w
  <2>3. rest \in Nat
    BY <1>1, ProductNat
  <2>4. (m * k) * rest <= c * rest
    <3>1. m * k \in Nat /\ m * k <= c
      BY <1>1, <1>4 DEF c
    <3> QED BY <2>1, <2>3, <3>1, ProductMonotone
  <2>5. all = (m * k) * rest /\ b * f * c * h * w = f * (c * rest)
    BY <1>1, <2>1
  <2>6. c * rest \in Nat
    BY <2>1, <2>3, ProductNat
  <2>7. 1 * (c * rest) <= f * (c * rest)
    <3>1. 1 \in Nat /\ 1 <= f /\ f \in Nat
      BY <2>1
    <3> QED BY <2>6, <3>1, ProductMonotone
  <2> HIDE DEF all, rest
  <2> DEFINE u == c * rest
             v == f * (c * rest)
             z == (m * k) * rest
  <2>8. u \in Int /\ v \in Int /\ z \in Int /\ z <= u /\ u <= v /\ all = z /\ Size(t) = v
    <3>1. v \in Int /\ z \in Int
      BY <1>1, <2>1, <2>3, <2>6, ProductNat
    <3> QED BY <2>2, <2>4, <2>5, <2>6, <2>7, <3>1
  <2> HIDE DEF u, v, z
  <2> QED BY <2>8
<1>6. ASSUME NEW a \in to .. to + n - 1
      PROVE  a \in at .. at + Size(t) - 1
  <2> DEFINE o == a - to
             u == j * (h * (w * n))
             v == y * (w * n)
             z == x * n
  <2>1. o \in 0..n - 1 /\ a = to + o
    BY <1>2, <1>3, <1>6
  <2>2. u + (v + (z + o)) \in 0..all - 1
    <3>1. j \in 0..m - 1 /\ y \in 0..h - 1 /\ x \in 0..w - 1
      OBVIOUS
    <3> HIDE DEF o, n, h, w, m
    <3> QED BY <1>1, <1>2, <2>1, <3>1, PixelBound
  <2>3. to = at + (u + v + z) /\ u \in Int /\ v \in Int /\ z \in Int /\ Size(t) \in Int
    BY <1>3, SizeIsNat
  <2> HIDE DEF o, u, v, z, all, to, at
  <2> QED BY <1>1, <1>3, <1>5, <2>1, <2>2, <2>3
<1> QED BY <1>2, <1>3, <1>6 DEF Bytes

(* So does the split of channels in batches.                               *)
LEMMA SplitChannelBatchedSafe ==
  ASSUME Safe, pc = "call", call.op = "Split", call.dim = "C", Returns(SplitChannelBatched)
  PROVE  Safe'
<1> DEFINE
      in == call.in
      runs(i) ==
        LET t == call.outs[i]
            n == t.batch * t.bytes
            outer == in.at + ChannelsBefore(call.outs, i) * in.bytes
        IN  {[dst |-> t.at + ((j * in.shape["H"] + y) * in.shape["W"] + x) * n,
              src |-> outer + j * n + (y * in.shape["W"] + x) * in.shape["C"] * in.bytes,
              n |-> n] : j \in 0..(t.shape["C"] \div t.batch) - 1,
                         y \in 0..in.shape["H"] - 1, x \in 0..in.shape["W"] - 1}
      copies == UNION {runs(i) : i \in DOMAIN call.outs}
<1>1. call \in Calls
  BY DEF Safe
<1>2. PartsOf(call.in, call.outs, "C")
  BY <1>1, SplitParts
<1>3. \A i \in DOMAIN call.outs : Bytes(call.outs[i]) \subseteq OutBytes
  BY <1>1, ListBytes
<1>5. ASSUME NEW c \in copies
      PROVE  c.dst \in Int /\ c.n \in Int /\ c.dst .. c.dst + c.n - 1 \subseteq OutBytes
  <2>1. PICK i \in DOMAIN call.outs : c \in runs(i)
    <3> HIDE DEF runs
    <3> QED OBVIOUS
  <2> DEFINE t == call.outs[i]
             n == t.batch * t.bytes
  <2>2. \E j \in 0..Batches(t) - 1, y \in 0..in.shape["H"] - 1, x \in 0..in.shape["W"] - 1 :
          c.dst = t.at + ((j * in.shape["H"] + y) * in.shape["W"] + x) * n /\ c.n = n
    BY <2>1 DEF Batches
  <2>3. t \in Tensors /\ in.shape["H"] = t.shape["H"] /\ in.shape["W"] = t.shape["W"]
    <3>1. t \in Tensors
      BY <1>2, PartTensors
    <3>2. \A d \in Dims \ {"C"} : t.shape[d] = in.shape[d]
      BY <1>2 DEF PartsOf
    <3> QED BY <3>1, <3>2 DEF Dims
  <2>4. PICK j \in 0..Batches(t) - 1, y \in 0..t.shape["H"] - 1, x \in 0..t.shape["W"] - 1 :
          c.dst = t.at + ((j * t.shape["H"] + y) * t.shape["W"] + x) * n /\ c.n = n
    BY <2>2, <2>3
  <2>5. n \in Nat /\ c.dst \in Int /\ c.dst .. c.dst + n - 1 \subseteq Bytes(t)
    <3> HIDE DEF t
    <3> QED BY <2>3, <2>4, BatchInside
  <2>6. Bytes(t) \subseteq OutBytes
    BY <1>3
  <2> HIDE DEF n, t
  <2> QED BY <2>4, <2>5, <2>6
<1> HIDE DEF copies
<1>6. Written(copies) \subseteq OutBytes
  BY <1>5, WrittenIn
<1>7. Returns(Copied(mem, copies))
  BY DEF SplitChannelBatched, copies
<1> QED BY <1>6, <1>7, CopyReturnsSafe

(* LL_ATON_LIB_Concat, with every way out.                                 *)
LEMMA ConcatSafe ==
  ASSUME Safe, Concat
  PROVE  Safe'
<1>1. pc = "call" /\ call.op = "Concat"
  BY DEF Concat
<1>2. CASE Rejects
  BY <1>1, <1>2, RejectsSafe
<1>3. CASE /\ ConcatIsValid /\ mem' = mem
           /\ Inserts("inputs", Prepared(call.ins, Flat24, Flat24, call.out.at))
  BY <1>1, <1>3, FlatConcatSafe
<1>4. CASE /\ ConcatIsValid /\ AxisIsLeftmost /\ call.dim = "C" /\ mem' = mem
           /\ BatchedConcat(call.ins, call.out)
  BY <1>1, <1>4, BatchedConcatSafe
<1>5. CASE ConcatIsValid /\ Returns(ConcatLoop(call.ins, call.out))
  BY <1>1, <1>5, ConcatLoopSafe
<1> QED BY <1>2, <1>3, <1>4, <1>5, Zenon DEF Concat

(* LL_ATON_LIB_Split, with every way out.                                  *)
LEMMA SplitSafe ==
  ASSUME Safe, Split
  PROVE  Safe'
<1>1. pc = "call" /\ call.op = "Split" /\ call \in Calls
  BY DEF Split, Safe
<1>2. call.case \in {"channel_aton", "channel_batched"} => call.dim = "C"
  BY <1>1, CallIsGiven DEF SplitIsGiven
<1>3. AtonOrder \in Orders /\ OnnxOrder \in Orders
  BY DEF Orders
<1>4. CASE Returns(SplitLoop(AtonOrder)) \/ Returns(SplitLoop(OnnxOrder))
  BY <1>1, <1>3, <1>4, SplitLoopSafe
<1>5. CASE call.case = "channel_batched" /\ Returns(SplitChannelBatched)
  BY <1>1, <1>2, <1>5, SplitChannelBatchedSafe
<1>6. CASE Returns(SplitFlat)
  BY <1>1, <1>6, SplitFlatSafe
<1>7. CASE /\ call.case = "channel_aton" /\ mem' = mem
           /\ Inserts("splitAton", Prepared(call.outs,
                [SplitIn(call.outs, call.outs[1].shape["C"]) EXCEPT !.frames = call.in.shape["N"]],
                Whole(call.outs[1]), call.in.at))
  <2>1. call.dim = "C"
    BY <1>2, <1>7
  <2> QED BY <1>1, <1>7, <2>1, SplitAtonSafe, Zenon
<1>8. CASE /\ call.case = "channel_batched" /\ mem' = mem
           /\ Inserts("splitBatched", Prepared(call.outs,
                [SplitIn(call.outs, call.outs[1].batch) EXCEPT !.loop = 1,
                   !.frames = call.outs[1].shape["C"] \div call.outs[1].batch,
                   !.loops = call.outs[1].batch * call.in.bytes],
                Whole(call.outs[1]), call.in.at))
  <2>1. call.dim = "C"
    BY <1>2, <1>8
  <2> QED BY <1>1, <1>8, <2>1, SplitBatchedSafe, Zenon
<1>9. CASE Inserts("outputs", Prepared(call.outs, Flat24, Flat24, call.in.at)) /\ mem' = mem
  BY <1>1, <1>9, FlatSplitSafe
<1> QED BY <1>4, <1>5, <1>6, <1>7, <1>8, <1>9, Zenon DEF Split

-----------------------------------------------------------------------------

(***************************************************************************)
(* Operators that are one transfer: slices, and space to depth and back.   *)
(***************************************************************************)

(* An operator that is one transfer of the engines.                        *)
LEMMA TransferSafe ==
  ASSUME Safe, pc = "call", call.op \in {"Slice", "SpaceToDepth", "DepthToSpace", "Transpose"},
         NEW q, IsParams(q), Addresses(q.out) \subseteq OutBytes, Addresses(q.in) \subseteq InBytes,
         Inserts("transfer", q), mem' = mem
  PROVE  Safe'
<1>1. call' = call /\ block' = "transfer" /\ p' = q
  BY DEF Inserts
<1>2. InsideTensors'
  BY <1>1, SameTensors DEF InsideTensors
<1>3. TransferTurn'
  BY <1>1, <1>2 DEF TransferTurn
<1> QED BY <1>3, InsertsSafe DEF Turn

(* other engines for the same parameters *)
WithEngines(q, in, out) == [q EXCEPT !.in = in, !.out = out]

(* The parameters of a single transfer.                                    *)
LEMMA WithEnginesParams ==
  ASSUME IsParams(p), NEW in, NEW out
  PROVE  /\ IsParams(WithEngines(p, in, out))
         /\ WithEngines(p, in, out).in = in /\ WithEngines(p, in, out).out = out
<1> SUFFICES ASSUME NEW q, q = WithEngines(p, in, out)
             PROVE  IsParams(q) /\ q.in = in /\ q.out = out
  OBVIOUS
<1> QED BY DEF WithEngines, IsParams

(* frames of a raw engine *)
Repeated(d, frame, frames) == [d EXCEPT !.frame = frame, !.frames = frames]

(* Raw frames that do not overlap stay within their number times their     *)
(* distance.                                                               *)
LEMMA RepeatedReach ==
  ASSUME NEW at \in Int, NEW len \in Nat, NEW bits \in {8, 16, 24}, NEW frame \in Nat,
         NEW frames \in Nat, len <= frame
  PROVE  Addresses(Repeated(Raw(at, len, bits), frame, frames))
           \subseteq at .. at + frames * frame - 1
<1> SUFFICES ASSUME NEW a \in Addresses(Repeated(Raw(at, len, bits), frame, frames))
             PROVE  a \in at .. at + frames * frame - 1
  OBVIOUS
<1> DEFINE d == Repeated(Raw(at, len, bits), frame, frames)
<1>1. /\ d.raw = TRUE /\ d.loop = 0 /\ d.at = at /\ d.len = len /\ d.bits = bits
      /\ d.frame = frame /\ d.frames = frames
  BY DEF Repeated, Raw
<1> HIDE DEF d
<1>2. a \in Addresses(d)
  BY DEF d
<1>3. PICK f \in 0..d.frames - 1, b \in 0..d.len - 1 : a = d.at + f * d.frame + b
  BY <1>1, <1>2, RawReach
<1> DEFINE x == f * frame
           all == frames * frame
<1>4. f \in 0..frames - 1 /\ b \in 0..frame - 1 /\ a = at + x + b
  BY <1>1, <1>3
<1>5. x + b \in 0..all - 1 /\ x \in Int /\ all \in Int
  BY <1>4, RowBound
<1> HIDE DEF x, all
<1>6. a \in at .. at + all - 1
  BY <1>4, <1>5
<1> QED BY <1>6 DEF all

(* One raw frame stays within its length.                                  *)
LEMMA RawInside ==
  ASSUME NEW at \in Int, NEW len \in Nat, NEW bits \in {8, 16, 24}
  PROVE  Addresses(Raw(at, len, bits)) \subseteq at .. at + len - 1
<1> DEFINE d == Raw(at, len, bits)
<1>1. IsRaw(d, bits) /\ d.at = at /\ d.len = len
  BY RawIsRaw
<1> HIDE DEF d
<1>2. Addresses(d) \subseteq d.at .. d.at + d.len - 1
  BY <1>1, FlatReach
<1> QED BY <1>1, <1>2 DEF d

(* LL_ATON_LIB_Slice, with every way out.                                  *)
LEMMA SliceSafe ==
  ASSUME Safe, Slice
  PROVE  Safe'
<1>1. pc = "call" /\ call.op = "Slice" /\ call \in Calls /\ IsParams(p)
  BY DEF Slice, Safe
<1> DEFINE to == call.to
           from == call.from
           width == call.width
           rows == call.rows
           line == call.line
           size == width * rows
<1>2. /\ to \in Nat /\ from \in Nat /\ width \in Nat /\ rows \in Nat /\ line \in Nat
      /\ width <= line /\ call.bits \in {8, 16, 24} /\ size \in Nat
      /\ size = rows * width
  <2>1. SliceIsGiven(call)
    BY <1>1, CallIsGiven
  <2>2. /\ to \in Nat /\ from \in Nat /\ width \in Nat /\ rows \in Nat /\ line \in Nat
        /\ width <= line /\ call.bits \in {8, 16, 24}
    BY <2>1 DEF SliceIsGiven
  <2> HIDE DEF width, rows
  <2>3. size \in Nat /\ size = rows * width
    BY <2>2
  <2> QED BY <2>2, <2>3
<1>3. OutBytes = to .. to + size - 1 /\ InBytes = from .. from + line * rows - 1
  <2> DEFINE read == line * rows
  <2>1. OutBytes = to .. to - 1 + size /\ InBytes = from .. from - 1 + read
    BY <1>1 DEF OutBytes, InBytes, Elementwise
  <2>2. read \in Int
    <3> HIDE DEF line, rows
    <3> QED BY <1>2
  <2> HIDE DEF to, from, size, read
  <2>3. to - 1 + size = to + size - 1 /\ from - 1 + read = from + read - 1
    BY <1>2, <2>2
  <2> QED BY <2>1, <2>3 DEF read
<1>4. CASE /\ Returns(Copied(mem, {[dst |-> to + k * width, n |-> width,
                                    src |-> from + k * line] : k \in 0..rows - 1}))
  <2> DEFINE copies == {[dst |-> to + k * width, n |-> width, src |-> from + k * line]
                        : k \in 0..rows - 1}
  <2>1. ASSUME NEW c \in copies
        PROVE  c.dst \in Int /\ c.n \in Int /\ c.dst .. c.dst + c.n - 1 \subseteq OutBytes
    <3>1. PICK k \in 0..rows - 1 : c.dst = to + k * width /\ c.n = width
      OBVIOUS
    <3> HIDE DEF to, width, rows, size
    <3>2. k * width \in Nat
      BY <1>2
    <3>3. ASSUME NEW a \in c.dst .. c.dst + c.n - 1
          PROVE  a \in to .. to + size - 1
      <4> DEFINE x == k * width
                 o == a - c.dst
      <4>1. o \in 0..width - 1 /\ x \in Int /\ a = to + (x + o)
        BY <1>2, <3>1, <3>2, <3>3
      <4>2. x + o \in 0..size - 1
        BY <1>2, <4>1, RowBound
      <4> HIDE DEF x, o
      <4> QED BY <1>2, <4>1, <4>2
    <3>4. c.dst \in Int /\ c.n \in Int
      <4> DEFINE x == k * width
      <4>1. x \in Nat /\ c.dst = to + x
        BY <3>1, <3>2
      <4> HIDE DEF x
      <4> QED BY <1>2, <3>1, <4>1
    <3> QED BY <1>3, <3>3, <3>4
  <2> HIDE DEF copies
  <2>2. Written(copies) \subseteq OutBytes
    BY <2>1, WrittenIn
  <2>3. Returns(Copied(mem, copies))
    BY <1>4, Zenon DEF copies
  <2> QED BY <2>2, <2>3, CopyReturnsSafe
<1>5. CASE /\ Inserts("transfer", [p EXCEPT
                !.in = [Raw(from, width, call.bits) EXCEPT !.frame = line, !.frames = rows],
                !.out = Raw(to, size, call.bits)])
           /\ mem' = mem
  <2> DEFINE in == Repeated(Raw(from, width, call.bits), line, rows)
             out == Raw(to, size, call.bits)
             q == WithEngines(p, in, out)
  <2>1. IsParams(q) /\ q.in = in /\ q.out = out
    BY <1>1, WithEnginesParams
  <2>2. Addresses(out) \subseteq OutBytes
    <3> HIDE DEF size, to
    <3> QED BY <1>2, <1>3, RawInside
  <2>3. Addresses(in) \subseteq InBytes
    <3> HIDE DEF from, width, rows, line
    <3>1. Addresses(in) \subseteq from .. from + rows * line - 1
      BY <1>2, RepeatedReach
    <3>2. rows * line = line * rows
      BY <1>2
    <3> QED BY <1>3, <3>1, <3>2
  <2>4. Inserts("transfer", q)
    BY <1>5, Zenon DEF WithEngines, Repeated
  <2> HIDE DEF q, in, out
  <2> QED BY <1>1, <1>5, <2>1, <2>2, <2>3, <2>4, TransferSafe
<1> QED BY <1>4, <1>5, Zenon DEF Slice

(* a size that is cut into whole blocks *)
LEMMA WholeBlocks ==
  ASSUME NEW n \in Nat, NEW b \in Nat \ {0}, n >= b, (n - b) % b = 0
  PROVE  /\ ((n - b) \div b) + 1 \in Nat \ {0}
         /\ n = (((n - b) \div b) + 1) * b
<1> DEFINE m == n - b
           q == m \div b
<1>1. m \in Nat /\ m % b = 0
  OBVIOUS
<1> HIDE DEF m
<1>2. m = b * (m \div b) + (m % b) /\ m \div b \in Int
  BY <1>1
<1>3. q \in Int /\ m = b * q
  BY <1>1, <1>2
<1> HIDE DEF q
<1>4. q >= 0
  <2>1. q < 0 => b * q < 0
    BY <1>3
  <2> QED BY <1>1, <1>3, <2>1
<1>5. (q + 1) * b = b * q + b
  BY <1>3
<1>6. n = (q + 1) * b
  <2> DEFINE x == b * q
             y == (q + 1) * b
  <2>1. y = x + b /\ m = x /\ x \in Int
    BY <1>1, <1>3, <1>5
  <2> HIDE DEF x, y
  <2>2. n = x + b
    BY <2>1 DEF m
  <2> QED BY <2>1, <2>2 DEF y
<1> QED BY <1>3, <1>4, <1>6 DEF q, m

(* Blocks across and down an image.                                        *)
Across(t, bw) == ((t.shape["W"] - bw) \div bw) + 1
Down(t, bh) == ((t.shape["H"] - bh) \div bh) + 1
CutInBlocks(t, bh, bw) ==
  /\ t \in Tensors /\ bh \in Nat \ {0} /\ bw \in Nat \ {0}
  /\ t.shape["H"] >= bh /\ t.shape["W"] >= bw
  /\ (t.shape["H"] - bh) % bh = 0 /\ (t.shape["W"] - bw) % bw = 0

(* Whole blocks lie across and down the image.                             *)
LEMMA BlockCounts ==
  ASSUME NEW t, NEW bh, NEW bw, CutInBlocks(t, bh, bw)
  PROVE  /\ Across(t, bw) \in Nat \ {0} /\ t.shape["W"] = Across(t, bw) * bw
         /\ Down(t, bh) \in Nat \ {0} /\ t.shape["H"] = Down(t, bh) * bh
<1>1. t.shape["H"] \in Nat /\ t.shape["W"] \in Nat
  BY SizeIsNat DEF CutInBlocks
<1> DEFINE h == t.shape["H"]
           w == t.shape["W"]
<1> HIDE DEF h, w
<1>2. /\ h \in Nat /\ w \in Nat /\ bh \in Nat \ {0} /\ bw \in Nat \ {0}
      /\ h >= bh /\ w >= bw /\ (h - bh) % bh = 0 /\ (w - bw) % bw = 0
  BY <1>1 DEF CutInBlocks, h, w
<1>3. ((w - bw) \div bw) + 1 \in Nat \ {0} /\ w = (((w - bw) \div bw) + 1) * bw
  BY <1>2, WholeBlocks
<1>4. ((h - bh) \div bh) + 1 \in Nat \ {0} /\ h = (((h - bh) \div bh) + 1) * bh
  BY <1>2, WholeBlocks
<1> QED BY <1>3, <1>4 DEF Across, Down, h, w

(* The engine that reads or writes an image block by block stays within    *)
(* the image.                                                              *)
LEMMA BlocksReach ==
  ASSUME NEW t, NEW bh, NEW bw, CutInBlocks(t, bh, bw)
  PROVE  Addresses(Blocks(t, bh, bw)) \subseteq Bytes(t)
<1> DEFINE s == t.shape["C"] * t.bytes
           h == t.shape["H"]
           w == t.shape["W"]
           n == t.shape["N"]
           at == t.at
           across == Across(t, bw)
           down == Down(t, bh)
           line == w * s
           frame == bw * s
           loops == bh * w * s
           frames == n * down * across
           bits == ChannelBits(t)
           depth == Channels(t, t.shape["C"])
           d == Blocks(t, bh, bw)
<1>1. t \in Tensors /\ bh \in Nat \ {0} /\ bw \in Nat \ {0}
  BY DEF CutInBlocks
<1>2. d = [Raw(at, 0, bits) EXCEPT
             !.raw = FALSE, !.width = bw, !.height = bh, !.depth = depth, !.pixel = s,
             !.line = line, !.loop = across, !.frame = frame, !.frames = frames, !.loops = loops]
  BY Zenon DEF Blocks, Across, Down
<1>3. /\ across \in Nat \ {0} /\ w = across * bw
      /\ down \in Nat \ {0} /\ h = down * bh
  BY BlockCounts
<1>4. bits \in {8, 16, 24} /\ depth \in Nat /\ depth * (bits \div 8) = s
  <2>1. t.shape["C"] \in Nat
    BY <1>1, SizeIsNat
  <2> QED BY <1>1, <2>1, ChannelBytes
<1>0. \A x, y \in Nat \ {0} : x * y \in Nat \ {0}
  OBVIOUS
<1>5. /\ s \in Nat \ {0} /\ h \in Nat \ {0} /\ w \in Nat \ {0} /\ n \in Nat \ {0} /\ at \in Nat
  <2>1. t.bytes \in 1..4 /\ t.shape["C"] \in Nat \ {0}
    BY <1>1, SizeIsNat
  <2>2. t.bytes \in Nat \ {0}
    BY <2>1
  <2>3. h \in Nat \ {0} /\ w \in Nat \ {0} /\ n \in Nat \ {0} /\ at \in Nat
    BY <1>1, SizeIsNat
  <2> QED BY <1>0, <2>1, <2>2, <2>3
<1>6. Bytes(t) = at .. at + (n * down) * (bh * (w * s)) - 1
  <2> DEFINE b == t.bytes
             c == t.shape["C"]
  <2>1. Size(t) = b * n * c * h * w /\ s = c * b
    BY DEF Size
  <2>2. c \in Nat
    BY <1>1, SizeIsNat
  <2>3. b \in 1..4
    BY <1>1, SizeIsNat
  <2> HIDE DEF b, c, n, h, w, s, down
  <2>4. Size(t) = b * n * c * (down * bh) * w
    BY <1>3, <2>1
  <2>5. b \in Int /\ c \in Int /\ n \in Int /\ w \in Int /\ down \in Int /\ bh \in Int
    BY <1>1, <1>3, <1>5, <2>2, <2>3
  <2>6. b * n * c * (down * bh) * w = (n * down) * (bh * (w * (c * b)))
    BY <2>5
  <2> QED BY <2>1, <2>4, <2>6 DEF Bytes, at
<1> HIDE DEF s, h, w, n, at, across, down, line, frame, loops, frames, bits, depth, d
<1>7. /\ d.raw = FALSE /\ d.bits = bits /\ d.depth = depth /\ d.width = bw /\ d.height = bh
      /\ d.pixel = s /\ d.line = line /\ d.loop = across /\ d.frame = frame
      /\ d.frames = frames /\ d.loops = loops /\ d.at = at
  BY <1>2 DEF Raw
<1>8. line \in Nat \ {0} /\ frame \in Nat /\ loops \in Nat /\ frames \in Nat
      /\ frames = (n * down) * across /\ n * down \in Nat
  <2>1. line \in Nat \ {0}
    BY <1>0, <1>5 DEF line
  <2>2. frame \in Nat
    BY <1>1, <1>5 DEF frame
  <2>3. loops \in Nat
    BY <1>1, <1>5, ProductNat DEF loops
  <2>4. frames \in Nat /\ n * down \in Nat
    BY <1>3, <1>5, ProductNat DEF frames
  <2> QED BY <2>1, <2>2, <2>3, <2>4 DEF frames
<1>9. ASSUME NEW a \in Addresses(d)
      PROVE  a \in at .. at + (n * down) * (bh * (w * s)) - 1
  <2>1. PICK f \in 0..d.frames - 1, y \in 0..d.height - 1, x \in 0..d.width - 1,
             r \in 0..d.depth * (d.bits \div 8) - 1 :
           a = d.at + FrameOffset(d, f) + (y * LineOffset(d) + x * d.pixel + r)
    BY <1>1, <1>4, <1>7, <1>8, ShapedReach
  <2>2. f \in 0..(n * down) * across - 1 /\ y \in 0..bh - 1 /\ x \in 0..bw - 1 /\ r \in 0..s - 1
    BY <1>4, <1>7, <1>8, <2>1
  <2> DEFINE q == f \div across
             c == f % across
             bx == c * bw + x
             u == q * (bh * (w * s))
             v == y * (w * s)
             z == bx * s
             all == (n * down) * (bh * (w * s))
  <2>3. q \in 0..n * down - 1 /\ c \in 0..across - 1
    BY <1>3, <1>8, <2>2, Division
  <2>4. bx \in 0..w - 1
    <3> HIDE DEF q, c
    <3>1. across \in Nat /\ bw \in Nat
      BY <1>1, <1>3
    <3> QED BY <1>3, <2>2, <2>3, <3>1, RowBound
  <2>5. FrameOffset(d, f) = q * loops + c * frame
    BY <1>3, <1>7 DEF FrameOffset
  <2>6. LineOffset(d) = w * s
    BY <1>7, <1>8 DEF LineOffset, line
  <2>7. a = at + (u + c * frame) + (v + x * s + r)
    <3>1. q * loops = u
      <4> HIDE DEF q
      <4> QED BY <1>1, <1>5, <1>8, <2>3 DEF loops
    <3> HIDE DEF u, q, c, v
    <3>2. y * LineOffset(d) = v
      BY <2>6 DEF v
    <3> QED BY <1>7, <2>1, <2>5, <3>1, <3>2
  <2>8. c * frame + x * s = z
    <3> HIDE DEF q, c
    <3>1. c \in Int /\ x \in Int /\ bw \in Int /\ s \in Int
      BY <1>1, <1>3, <1>5, <2>2, <2>3
    <3>2. c * (bw * s) + x * s = (c * bw + x) * s
      BY <3>1
    <3> QED BY <3>2 DEF frame
  <2>9. u + (v + (z + r)) \in 0..all - 1
    <3>1. n * down \in Nat /\ bh \in Nat /\ w \in Nat /\ s \in Nat
      BY <1>1, <1>5, <1>8
    <3> HIDE DEF q, c, bx
    <3> QED BY <2>2, <2>3, <2>4, <3>1, PixelBound
  <2>10. u \in Int /\ v \in Int /\ z \in Int /\ all \in Int /\ c * frame \in Int /\ x * s \in Int
    <3> HIDE DEF q, c, bx
    <3>1. q \in Int /\ bh \in Int /\ w \in Int /\ s \in Int /\ y \in Int /\ bx \in Int
          /\ n * down \in Int /\ c \in Int /\ x \in Int /\ frame \in Int
      BY <1>1, <1>3, <1>5, <1>8, <2>2, <2>3, <2>4
    <3> QED BY <3>1
  <2> DEFINE e == c * frame
             g == x * s
  <2>11. /\ a = at + (u + e) + (v + g + r) /\ e + g = z /\ e \in Int /\ g \in Int
    BY <2>7, <2>8, <2>10
  <2> HIDE DEF u, v, z, all, e, g
  <2>12. a \in at .. at + all - 1
    BY <1>5, <2>2, <2>9, <2>10, <2>11
  <2> QED BY <2>12 DEF all
<1> QED BY <1>6, <1>9 DEF d

(* The two tensors of such an operator have the same size.                 *)
LEMMA BlocksFitCut ==
  ASSUME NEW image \in Tensors, NEW rows \in Tensors, NEW bh \in Nat \ {0}, NEW bw \in Nat \ {0},
         BlocksFit(image, rows, bh, bw)
  PROVE  /\ CutInBlocks(image, bh, bw) /\ Size(rows) = Size(image)
         /\ ChannelBits(rows) = ChannelBits(image)
<1>1. CutInBlocks(image, bh, bw)
  BY DEF BlocksFit, CutInBlocks
<1> DEFINE b == image.bytes
           n == image.shape["N"]
           c == image.shape["C"]
           h == image.shape["H"]
           w == image.shape["W"]
           down == Down(image, bh)
           across == Across(image, bw)
<1>2. /\ across \in Nat \ {0} /\ w = across * bw
      /\ down \in Nat \ {0} /\ h = down * bh
  BY <1>1, BlockCounts
<1>3. Size(image) = b * n * c * h * w
  BY DEF Size
<1>4. Size(rows) = b * n * (c * bh * bw) * down * across
  BY DEF Size, BlocksFit, Down, Across
<1>5. b \in 1..4 /\ n \in Nat /\ c \in Nat
  BY SizeIsNat
<1>6. ChannelBits(rows) = ChannelBits(image)
  BY DEF ChannelBits, BlocksFit
<1> HIDE DEF b, n, c, h, w, down, across
<1>7. /\ b \in Int /\ n \in Int /\ c \in Int /\ down \in Int
      /\ across \in Int /\ bh \in Int /\ bw \in Int
  BY <1>2, <1>5
<1>8. b * n * (c * bh * bw) * down * across = b * n * c * (down * bh) * (across * bw)
  BY <1>7
<1> QED BY <1>1, <1>2, <1>3, <1>4, <1>6, <1>8

(* What SpaceToDepth and DepthToSpace are given.                           *)
LEMMA BlockTensors ==
  ASSUME call \in Calls, call.op \in {"SpaceToDepth", "DepthToSpace"}
  PROVE  /\ call.in \in Tensors /\ call.out \in Tensors
         /\ call.bh \in Nat \ {0} /\ call.bw \in Nat \ {0}
         /\ OutBytes = Bytes(call.out) /\ InBytes = Bytes(call.in)
<1>1. BlocksAreGiven(call)
  BY CallIsGiven
<1>2. Outputs = <<call.out>> /\ Inputs = <<call.in>>
  BY DEF Outputs, Inputs
<1>3. AllBytes(<<call.out>>) = Bytes(call.out) /\ AllBytes(<<call.in>>) = Bytes(call.in)
  BY DEF AllBytes
<1>4. OutBytes = Bytes(call.out) /\ InBytes = Bytes(call.in)
  BY <1>2, <1>3 DEF OutBytes, InBytes, Elementwise
<1> QED BY <1>1, <1>4 DEF BlocksAreGiven

(* The engine that reads or writes the rows stays within them.             *)
LEMMA WholeReach ==
  ASSUME NEW t \in Tensors, NEW other \in Tensors, Size(other) = Size(t), NEW bits \in {8, 16, 24}
  PROVE  Addresses(Raw(t.at, Size(other), bits)) \subseteq Bytes(t)
<1>1. t.at \in Int /\ Size(t) \in Nat
  BY SizeIsNat
<1> QED BY <1>1, RawInside DEF Bytes

(* SpaceToDepth and DepthToSpace insert one transfer.                      *)
LEMMA PreparedSafe ==
  ASSUME Safe, pc = "call", call.op \in {"SpaceToDepth", "DepthToSpace"}, NEW ts, NEW in, NEW out,
         Inserts("transfer", Prepared(ts, in, out, 0)), mem' = mem,
         Addresses(in) \subseteq InBytes, Addresses(out) \subseteq OutBytes
  PROVE  Safe'
<1> DEFINE q == Prepared(ts, in, out, 0)
<1>1. IsParams(q) /\ q.in = in /\ q.out = out
  BY PreparedParams DEF Safe
<1>2. Inserts("transfer", q)
  OBVIOUS
<1> HIDE DEF q
<1> QED BY <1>1, <1>2, TransferSafe

(* LL_ATON_LIB_SpaceToDepth, with every way out.                           *)
LEMMA SpaceToDepthSafe ==
  ASSUME Safe, SpaceToDepth
  PROVE  Safe'
<1>1. pc = "call" /\ call.op = "SpaceToDepth" /\ call \in Calls
  BY DEF Safe, SpaceToDepth
<1>2. CASE Rejects
  BY <1>1, <1>2, RejectsSafe
<1>3. CASE /\ BlocksFit(call.in, call.out, call.bh, call.bw) /\ mem' = mem
           /\ Inserts("transfer", Prepared(<<call.in>>, Blocks(call.in, call.bh, call.bw),
                Raw(call.out.at, Size(call.in), ChannelBits(call.in)), 0))
  <2>1. /\ call.in \in Tensors /\ call.out \in Tensors
        /\ call.bh \in Nat \ {0} /\ call.bw \in Nat \ {0}
        /\ OutBytes = Bytes(call.out) /\ InBytes = Bytes(call.in)
    BY <1>1, BlockTensors
  <2>2. CutInBlocks(call.in, call.bh, call.bw) /\ Size(call.out) = Size(call.in)
    BY <1>3, <2>1, BlocksFitCut
  <2>3. Addresses(Blocks(call.in, call.bh, call.bw)) \subseteq InBytes
    BY <2>1, <2>2, BlocksReach
  <2>4. ChannelBits(call.in) \in {8, 16, 24}
    BY <2>1, ChannelBytes
  <2>5. Addresses(Raw(call.out.at, Size(call.in), ChannelBits(call.in))) \subseteq OutBytes
    BY <2>1, <2>2, <2>4, WholeReach
  <2> QED BY <1>1, <1>3, <2>3, <2>5, PreparedSafe
<1> QED BY <1>2, <1>3, Zenon DEF SpaceToDepth

(* LL_ATON_LIB_DepthToSpace, with every way out.                           *)
LEMMA DepthToSpaceSafe ==
  ASSUME Safe, DepthToSpace
  PROVE  Safe'
<1>1. pc = "call" /\ call.op = "DepthToSpace" /\ call \in Calls
  BY DEF Safe, DepthToSpace
<1>2. CASE Rejects
  BY <1>1, <1>2, RejectsSafe
<1>3. CASE /\ BlocksFit(call.out, call.in, call.bh, call.bw) /\ mem' = mem
           /\ Inserts("transfer", Prepared(<<call.in>>, Whole(call.in),
                Blocks(call.out, call.bh, call.bw), 0))
  <2>1. /\ call.in \in Tensors /\ call.out \in Tensors
        /\ call.bh \in Nat \ {0} /\ call.bw \in Nat \ {0}
        /\ OutBytes = Bytes(call.out) /\ InBytes = Bytes(call.in)
    BY <1>1, BlockTensors
  <2>2. CutInBlocks(call.out, call.bh, call.bw)
    BY <1>3, <2>1, BlocksFitCut
  <2>3. Addresses(Blocks(call.out, call.bh, call.bw)) \subseteq OutBytes
    BY <2>1, <2>2, BlocksReach
  <2>4. ChannelBits(call.in) \in {8, 16, 24}
    BY <2>1, ChannelBytes
  <2>5. Addresses(Whole(call.in)) \subseteq InBytes
    BY <2>1, <2>4, WholeReach DEF Whole
  <2> QED BY <1>1, <1>3, <2>3, <2>5, PreparedSafe
<1> QED BY <1>2, <1>3, Zenon DEF DepthToSpace

-----------------------------------------------------------------------------

(***************************************************************************)
(* Positions in a tensor of any number of axes, as numbers with a digit    *)
(* for each axis.                                                          *)
(***************************************************************************)

(* The elements of a list after the first i.                               *)
LEMMA Suffix ==
  ASSUME NEW n \in Nat, NEW ns \in [1..n -> Nat], NEW i \in 0..n
  PROVE  /\ Len(ns) = n
         /\ SubSeq(ns, i + 1, Len(ns)) = [j \in 1..n - i |-> ns[i + j]]
<1>1. ns \in Seq(Nat) /\ Len(ns) = n
  OBVIOUS
<1>2. SubSeq(ns, i + 1, n) = [j \in 1..n - i |-> ns[i + j]]
  OBVIOUS
<1> QED BY <1>1, <1>2

(* The first factor can be multiplied last.                                *)
LEMMA ProductHead ==
  ASSUME NEW n \in Nat, NEW ns \in [1..n + 1 -> Nat]
  PROVE  Product(ns) = ns[1] * Product([i \in 1..n |-> ns[1 + i]])
<1> DEFINE tail == [i \in 1..n |-> ns[1 + i]]
           h == ns[1]
           A(k) == Product(First(ns, k))
           B(k) == Product(First(tail, k))
           S == {k \in 0..n : A(k + 1) = h * B(k)}
<1>1. DOMAIN ns = 1..n + 1 /\ DOMAIN tail = 1..n /\ h \in Nat
      /\ tail \in [1..n -> Nat]
  OBVIOUS
<1>2. A(0) = 1 /\ \A k \in 0..n : A(k + 1) = A(k) * ns[k + 1]
  BY <1>1, PrefixSums
<1> HIDE DEF tail
<1>3. B(0) = 1 /\ \A k \in 0..n - 1 : B(k + 1) = B(k) * tail[k + 1]
  BY <1>1, PrefixSums
<1>4. (\A k \in 0..n + 1 : A(k) \in Nat) /\ (\A k \in 0..n : B(k) \in Nat)
  <2>1. \A k \in 0..n + 1 : A(k) \in Nat
    BY ProductIsNat
  <2>2. \A k \in 0..n : B(k) \in Nat
    BY <1>1, ProductIsNat
  <2> QED BY <2>1, <2>2
<1> HIDE DEF A, B, h
<1>5. 0 \in S
  <2>1. A(0 + 1) = A(0) * ns[0 + 1] /\ ns[0 + 1] = h
    BY <1>2 DEF h
  <2> QED BY <1>1, <1>2, <1>3, <2>1
<1>6. ASSUME NEW k \in 0..n - 1, k \in S
      PROVE  k + 1 \in S
  <2>1. A(k + 1 + 1) = A(k + 1) * ns[k + 1 + 1]
    BY <1>2
  <2>2. B(k + 1) = B(k) * tail[k + 1] /\ tail[k + 1] = ns[k + 1 + 1] /\ ns[k + 1 + 1] \in Nat
    <3>1. B(k + 1) = B(k) * tail[k + 1]
      BY <1>3
    <3>2. tail[k + 1] = ns[k + 1 + 1] /\ ns[k + 1 + 1] \in Nat
      BY DEF tail
    <3> QED BY <3>1, <3>2
  <2>3. A(k + 1) = h * B(k) /\ B(k) \in Nat
    BY <1>4, <1>6
  <2> DEFINE x == ns[k + 1 + 1]
             b == B(k)
  <2> HIDE DEF x, b
  <2>4. A(k + 1 + 1) = (h * b) * x /\ B(k + 1) = b * x /\ x \in Nat /\ b \in Nat
    BY <2>1, <2>2, <2>3 DEF x, b
  <2>5. (h * b) * x = h * (b * x)
    BY <1>1, <2>4
  <2> QED BY <2>4, <2>5
<1> HIDE DEF S
<1>7. \A k \in 0..n : k \in S
  BY <1>5, <1>6, BoundedInduction
<1>8. A(n + 1) = h * B(n)
  BY <1>7 DEF S
<1>9. First(ns, n + 1) = ns
  <2>1. n + 1 \in Nat
    OBVIOUS
  <2> QED BY <2>1, FirstIsAll
<1>10. First(tail, n) = tail
  BY <1>1, FirstIsAll
<1> QED BY <1>8, <1>9, <1>10 DEF A, B, h, tail

(* From one axis to the next outer one, the stride grows by the axis' size. *)
LEMMA StrideStep ==
  ASSUME NEW n \in Nat, NEW dims \in [1..n -> Nat], call.bytes \in Nat
  PROVE  /\ Stride(dims, n) = call.bytes
         /\ Stride(dims, 0) = call.bytes * Product(dims)
         /\ \A i \in 1..n : Stride(dims, i - 1) = dims[i] * Stride(dims, i)
         /\ \A i \in 0..n : Stride(dims, i) \in Nat
<1> DEFINE tail(i) == [j \in 1..n - i |-> dims[i + j]]
           b == call.bytes
<1>1. \A i \in 0..n : Stride(dims, i) = b * Product(tail(i))
  BY Suffix DEF Stride
<1>2. \A i \in 0..n : tail(i) \in [1..n - i -> Nat]
  OBVIOUS
<1>3. \A i \in 0..n : Product(tail(i)) \in Nat
  <2> SUFFICES ASSUME NEW i \in 0..n
               PROVE  Product(tail(i)) \in Nat
    OBVIOUS
  <2>1. n - i \in Nat /\ tail(i) \in [1..n - i -> Nat]
    BY <1>2
  <2> HIDE DEF tail
  <2> QED BY <2>1, ProductIsNat
<1>4. Stride(dims, n) = b
  <2>1. DOMAIN tail(n) = {}
    OBVIOUS
  <2> HIDE DEF tail
  <2>2. Product(tail(n)) = 1
    BY <2>1, ProductEmpty
  <2> QED BY <1>1, <2>2
<1>5. Stride(dims, 0) = b * Product(dims)
  <2>1. tail(0) = dims
    OBVIOUS
  <2> QED BY <1>1, <2>1
<1>6. ASSUME NEW i \in 1..n
      PROVE  Stride(dims, i - 1) = dims[i] * Stride(dims, i)
  <2>1. n - i \in Nat /\ tail(i - 1) \in [1..(n - i) + 1 -> Nat]
    OBVIOUS
  <2>2. tail(i - 1)[1] = dims[i] /\ [j \in 1..n - i |-> tail(i - 1)[1 + j]] = tail(i)
    OBVIOUS
  <2>3. Product(tail(i - 1)) = tail(i - 1)[1] * Product([j \in 1..n - i |-> tail(i - 1)[1 + j]])
    <3> HIDE DEF tail
    <3> QED BY <2>1, ProductHead
  <2> DEFINE x == dims[i]
             y == Product(tail(i))
  <2>4. Stride(dims, i - 1) = b * (x * y) /\ Stride(dims, i) = b * y
    <3>1. Stride(dims, i) = b * Product(tail(i)) /\ Stride(dims, i - 1) = b * Product(tail(i - 1))
      <4> HIDE DEF tail
      <4> QED BY <1>1
    <3>2. Product(tail(i - 1)) = dims[i] * Product(tail(i))
      BY <2>2, <2>3, Zenon
    <3> QED BY <3>1, <3>2, Zenon
  <2>5. x \in Nat /\ y \in Nat
    BY <1>3
  <2> HIDE DEF b, x, y
  <2>6. b \in Nat
    BY DEF b
  <2>7. b * (x * y) = x * (b * y)
    BY <2>5, <2>6
  <2> QED BY <2>4, <2>7 DEF x
<1>7. \A i \in 0..n : Stride(dims, i) \in Nat
  <2> HIDE DEF tail
  <2> QED BY <1>1, <1>3, ProductNat
<1> QED BY <1>4, <1>5, <1>6, <1>7

(* A number whose digits are in range is below the weight of its first     *)
(* digit's place: with what is left of each prefix, up to the m-th digit.  *)
LEMMA DigitsBound ==
  ASSUME NEW m \in Nat, NEW w, \A k \in 0..m : w[k] \in Nat, NEW x \in [1..m -> Nat],
         \A k \in 1..m : (x[k] + 1) * w[k] <= w[k - 1]
  PROVE  \A k \in 0..m : /\ Total(First([i \in 1..m |-> w[i] * x[i]], k)) \in Nat
                         /\ Total(First([i \in 1..m |-> w[i] * x[i]], k)) + w[k] <= w[0]
<1> DEFINE ns == [i \in 1..m |-> w[i] * x[i]]
           T(k) == Total(First(ns, k))
           S == {k \in 0..m : T(k) \in Nat /\ T(k) + w[k] <= w[0]}
<1>1. \A k \in 1..m : ns[k] = w[k] * x[k] /\ ns[k] \in Nat
  OBVIOUS
<1>2. T(0) = 0 /\ \A k \in 0..m - 1 : T(k + 1) = T(k) + ns[k + 1]
  BY PrefixSums
<1> HIDE DEF T, ns
<1>3. 0 \in S
  BY <1>2
<1>4. ASSUME NEW k \in 0..m - 1, k \in S
      PROVE  k + 1 \in S
  <2> DEFINE u == w[k + 1]
             y == x[k + 1]
             v == w[k]
             t == T(k)
  <2>1. T(k + 1) = t + ns[k + 1] /\ ns[k + 1] = u * y
    BY <1>1, <1>2
  <2>2. u \in Nat /\ y \in Nat /\ v \in Nat /\ t \in Nat /\ t + v <= w[0] /\ w[0] \in Nat
    BY <1>4
  <2>3. (y + 1) * u <= v
    <3>1. (x[k + 1] + 1) * w[k + 1] <= w[k + 1 - 1] /\ k + 1 - 1 = k
      OBVIOUS
    <3> QED BY <3>1
  <2> HIDE DEF u, y, v, t
  <2>4. (y + 1) * u = u * y + u /\ u * y \in Nat
    BY <2>2
  <2> DEFINE z == u * y
  <2>5. z \in Nat /\ z + u <= v /\ T(k + 1) = t + z
    BY <2>1, <2>3, <2>4
  <2> HIDE DEF z
  <2>6. T(k + 1) \in Nat /\ T(k + 1) + u <= w[0]
    BY <2>2, <2>5
  <2> QED BY <2>6 DEF u
<1> HIDE DEF S
<1>5. \A k \in 0..m : k \in S
  BY <1>3, <1>4, BoundedInduction
<1> QED BY <1>5 DEF S, T, ns

(* an element's place in a tensor of these sizes *)
LEMMA ElementInside ==
  ASSUME NEW n \in Nat, NEW dims \in [1..n -> Nat], call.bytes \in Nat, NEW x \in [1..n -> Nat],
         \A i \in 1..n : x[i] < dims[i]
  PROVE  /\ Total([i \in 1..n |-> Stride(dims, i) * x[i]]) \in Nat
         /\ Total([i \in 1..n |-> Stride(dims, i) * x[i]]) + call.bytes
              <= call.bytes * Product(dims)
<1> DEFINE w == [k \in 0..n |-> Stride(dims, k)]
           ns == [i \in 1..n |-> w[i] * x[i]]
<1>1. /\ Stride(dims, n) = call.bytes /\ Stride(dims, 0) = call.bytes * Product(dims)
      /\ \A i \in 1..n : Stride(dims, i - 1) = dims[i] * Stride(dims, i)
      /\ \A i \in 0..n : Stride(dims, i) \in Nat
  BY StrideStep
<1>2. /\ \A k \in 0..n : w[k] \in Nat
      /\ w[0] = call.bytes * Product(dims) /\ w[n] = call.bytes
      /\ \A k \in 1..n : w[k - 1] = dims[k] * w[k]
  BY <1>1
<1>3. ns = [i \in 1..n |-> Stride(dims, i) * x[i]]
  OBVIOUS
<1> HIDE DEF w
<1>4. ASSUME NEW k \in 1..n
      PROVE  (x[k] + 1) * w[k] <= w[k - 1]
  <2>1. x[k] + 1 \in Nat /\ x[k] + 1 <= dims[k] /\ dims[k] \in Nat /\ w[k] \in Nat
    BY <1>2
  <2>2. (x[k] + 1) * w[k] <= dims[k] * w[k]
    BY <2>1, ProductMonotone
  <2> QED BY <1>2, <2>2
<1>5. \A k \in 0..n : Total(First(ns, k)) \in Nat /\ Total(First(ns, k)) + w[k] <= w[0]
  BY <1>2, <1>4, DigitsBound
<1>6. First(ns, n) = ns
  <2>1. ns \in [1..n -> {ns[i] : i \in 1..n}]
    OBVIOUS
  <2> QED BY <2>1, FirstIsAll
<1>7. Total(ns) \in Nat /\ Total(ns) + w[n] <= w[0]
  <2>1. n \in 0..n
    OBVIOUS
  <2> QED BY <1>5, <1>6, <2>1
<1> HIDE DEF ns
<1> QED BY <1>2, <1>3, <1>7

(* products of sizes of at least one, and of sizes that are not larger *)
LEMMA ProductOrder ==
  ASSUME NEW n \in Nat, NEW as \in [1..n -> Nat \ {0}], NEW bs \in [1..n -> Nat \ {0}],
         \A i \in 1..n : as[i] <= bs[i]
  PROVE  Product(as) \in Nat \ {0} /\ Product(as) <= Product(bs)
<1> DEFINE A(k) == Product(First(as, k))
           B(k) == Product(First(bs, k))
           S == {k \in 0..n : A(k) \in Nat \ {0} /\ B(k) \in Nat /\ A(k) <= B(k)}
<1>1. A(0) = 1 /\ \A k \in 0..n - 1 : A(k + 1) = A(k) * as[k + 1]
  BY PrefixSums
<1>2. B(0) = 1 /\ \A k \in 0..n - 1 : B(k + 1) = B(k) * bs[k + 1]
  BY PrefixSums
<1> HIDE DEF A, B
<1>3. 0 \in S
  BY <1>1, <1>2
<1>4. ASSUME NEW k \in 0..n - 1, k \in S
      PROVE  k + 1 \in S
  <2> DEFINE a == A(k)
             b == B(k)
             x == as[k + 1]
             y == bs[k + 1]
  <2>1. /\ a \in Nat \ {0} /\ b \in Nat /\ a <= b
        /\ x \in Nat \ {0} /\ y \in Nat /\ x <= y
        /\ A(k + 1) = a * x /\ B(k + 1) = b * y
    <3>1. k + 1 \in 1..n /\ k \in Nat
      OBVIOUS
    <3>2. x \in Nat \ {0} /\ y \in Nat /\ x <= y
      BY <3>1
    <3>3. a \in Nat \ {0} /\ b \in Nat /\ a <= b
      BY <1>4
    <3>4. A(k + 1) = a * x /\ B(k + 1) = b * y
      BY <1>1, <1>2
    <3> QED BY <3>2, <3>3, <3>4
  <2> HIDE DEF a, b, x, y
  <2>2. a * x <= b * x /\ b * x <= b * y
    BY <2>1, ProductMonotone
  <2>3. a * x \in Nat \ {0} /\ b * y \in Nat /\ b * x \in Nat
    BY <2>1
  <2>4. a * x <= b * y
    <3> DEFINE u == a * x
               v == b * x
               z == b * y
    <3>1. u \in Nat /\ v \in Nat /\ z \in Nat /\ u <= v /\ v <= z
      BY <2>2, <2>3
    <3> HIDE DEF u, v, z
    <3>2. u <= z
      BY <3>1
    <3> QED BY <3>2 DEF u, z
  <2> QED BY <2>1, <2>3, <2>4
<1> HIDE DEF S
<1>5. \A k \in 0..n : k \in S
  BY <1>3, <1>4, BoundedInduction
<1>6. First(as, n) = as /\ First(bs, n) = bs
  BY FirstIsAll
<1>7. n \in S
  BY <1>5
<1>8. A(n) \in Nat \ {0} /\ A(n) <= B(n)
  BY <1>7 DEF S
<1> QED BY <1>6, <1>8 DEF A, B

(* one factor more *)
LEMMA ProductFactor ==
  ASSUME NEW n \in Nat, NEW as \in [1..n -> Nat], NEW bs \in [1..n -> Nat], NEW j \in 1..n,
         as[j] = 1, \A i \in 1..n : i # j => bs[i] = as[i]
  PROVE  Product(bs) = Product(as) * bs[j]
<1> DEFINE A(k) == Product(First(as, k))
           B(k) == Product(First(bs, k))
           v == bs[j]
           S == {k \in 0..n : B(k) = IF k < j THEN A(k) ELSE A(k) * v}
<1>1. A(0) = 1 /\ \A k \in 0..n - 1 : A(k + 1) = A(k) * as[k + 1]
  BY PrefixSums
<1>2. B(0) = 1 /\ \A k \in 0..n - 1 : B(k + 1) = B(k) * bs[k + 1]
  BY PrefixSums
<1>3. (\A k \in 0..n : A(k) \in Nat) /\ v \in Nat
  BY ProductIsNat
<1> HIDE DEF A, B
<1>4. 0 \in S
  BY <1>1, <1>2
<1>5. ASSUME NEW k \in 0..n - 1, k \in S
      PROVE  k + 1 \in S
  <2> DEFINE a == A(k)
             x == as[k + 1]
             y == bs[k + 1]
  <2>0. k + 1 \in 1..n /\ k \in 0..n /\ j \in Nat
    OBVIOUS
  <2>1. a \in Nat /\ x \in Nat /\ A(k + 1) = a * x /\ B(k + 1) = B(k) * y
    <3>1. a \in Nat /\ x \in Nat
      BY <1>3, <2>0
    <3>2. A(k + 1) = a * x /\ B(k + 1) = B(k) * y
      BY <1>1, <1>2
    <3> QED BY <3>1, <3>2
  <2>9. B(k) = IF k < j THEN a ELSE a * v
    BY <1>5
  <2>10. k + 1 # j => y = x
    BY <2>0
  <2>11. k + 1 = j => y = v /\ x = 1
    OBVIOUS
  <2>2. CASE k + 1 < j
    <3>1. B(k) = a /\ y = x
      <4>1. k < j /\ k + 1 # j
        BY <2>0, <2>2
      <4> HIDE DEF a, x, y, v
      <4> QED BY <2>9, <2>10, <4>1
    <3> HIDE DEF a, x, y
    <3>2. B(k + 1) = A(k + 1)
      BY <2>1, <3>1
    <3> QED BY <2>2, <3>2
  <2>3. CASE k + 1 = j
    <3>1. B(k) = a /\ y = v /\ x = 1
      <4>1. k < j
        BY <2>0, <2>3
      <4> HIDE DEF a, x, y, v
      <4> QED BY <2>3, <2>9, <2>11, <4>1
    <3> HIDE DEF a, x, y, v
    <3>2. B(k + 1) = a * v /\ A(k + 1) = a
      BY <2>1, <3>1
    <3> QED BY <2>3, <3>2
  <2>4. CASE k + 1 > j
    <3>1. B(k) = a * v /\ y = x
      <4>1. ~(k < j) /\ k + 1 # j
        BY <2>0, <2>4
      <4> HIDE DEF a, x, y, v
      <4> QED BY <2>9, <2>10, <4>1
    <3> HIDE DEF a, x, y, v
    <3>2. (a * v) * x = (a * x) * v
      BY <1>3, <2>1
    <3>3. B(k + 1) = A(k + 1) * v
      BY <2>1, <3>1, <3>2
    <3> QED BY <2>4, <3>3
  <2> QED BY <2>0, <2>2, <2>3, <2>4
<1> HIDE DEF S
<1>6. \A k \in 0..n : k \in S
  BY <1>4, <1>5, BoundedInduction
<1>7. First(as, n) = as /\ First(bs, n) = bs
  BY FirstIsAll
<1>8. n \in S
  BY <1>6
<1>9. B(n) = A(n) * v
  <2>1. ~(n < j)
    OBVIOUS
  <2> QED BY <1>8, <2>1 DEF S
<1> QED BY <1>7, <1>9 DEF A, B, v

(* A tensor has no more elements in another order of its axes. *)
LEMMA ProductPermuted ==
  ASSUME NEW n \in Nat, NEW dims \in [1..n -> Nat \ {0}], NEW perm \in [1..n -> 1..n],
         NEW target, \A i \in 1..n : target[perm[i]] = i
  PROVE  Product([o \in 1..n |-> dims[perm[o]]]) <= Product(dims)
<1> DEFINE pd == [o \in 1..n |-> dims[perm[o]]]
           mask(k) == [i \in 1..n |-> IF \E o \in 1..k : perm[o] = i THEN dims[i] ELSE 1]
           P(k) == Product(First(pd, k))
           S == {k \in 0..n : P(k) = Product(mask(k))}
<1>1. P(0) = 1 /\ \A k \in 0..n - 1 : P(k + 1) = P(k) * pd[k + 1]
  BY PrefixSums
<1>2. ASSUME NEW k \in 0..n
      PROVE  mask(k) \in [1..n -> Nat \ {0}] /\ \A i \in 1..n : mask(k)[i] <= dims[i]
  <2>1. ASSUME NEW i \in 1..n
        PROVE  mask(k)[i] \in Nat \ {0} /\ mask(k)[i] <= dims[i]
    <3> DEFINE v == mask(k)[i]
               u == dims[i]
    <3>1. u \in Nat /\ u >= 1
      OBVIOUS
    <3>2. v = 1 \/ v = u
      OBVIOUS
    <3> HIDE DEF v, u
    <3>3. v \in Nat \ {0} /\ v <= u
      BY <3>1, <3>2
    <3> QED BY <3>3 DEF v, u
  <2>2. mask(k) = [i \in 1..n |-> mask(k)[i]]
    OBVIOUS
  <2> HIDE DEF mask
  <2> QED BY <2>1, <2>2
<1>3. \A k \in 0..n - 1 : pd[k + 1] = dims[perm[k + 1]]
  OBVIOUS
<1> HIDE DEF P, pd
<1>4. 0 \in S
  <2> DEFINE ones == [i \in 1..n |-> 1]
  <2>1. mask(0) = ones
    OBVIOUS
  <2> DEFINE A(k) == Product(First(ones, k))
             U == {k \in 0..n : A(k) = 1}
  <2>2. A(0) = 1 /\ \A k \in 0..n - 1 : A(k + 1) = A(k) * ones[k + 1]
    BY PrefixSums
  <2>3. (\A k \in 0..n - 1 : ones[k + 1] = 1) /\ First(ones, n) = ones
    <3>1. ones \in [1..n -> {1}] /\ \A k \in 0..n - 1 : ones[k + 1] = 1
      OBVIOUS
    <3> HIDE DEF ones
    <3> QED BY <3>1, FirstIsAll
  <2> HIDE DEF A, ones
  <2>4. 0 \in U
    BY <2>2
  <2>5. ASSUME NEW k \in 0..n - 1, k \in U
        PROVE  k + 1 \in U
    <3>1. A(k) = 1 /\ A(k + 1) = A(k) * ones[k + 1] /\ ones[k + 1] = 1 /\ k + 1 \in 0..n
      BY <2>2, <2>3, <2>5
    <3>2. A(k + 1) = 1
      BY <3>1
    <3> QED BY <3>1, <3>2
  <2> HIDE DEF U
  <2>6. \A k \in 0..n : k \in U
    BY <2>4, <2>5, BoundedInduction
  <2>7. A(n) = 1
    BY <2>6 DEF U
  <2>8. Product(ones) = 1
    BY <2>3, <2>7 DEF A
  <2> HIDE DEF mask
  <2> QED BY <1>1, <2>1, <2>8
<1>5. ASSUME NEW k \in 0..n - 1, k \in S
      PROVE  k + 1 \in S
  <2> DEFINE j == perm[k + 1]
             as == mask(k)
             bs == mask(k + 1)
  <2>0. k + 1 \in 1..n /\ k \in 0..n /\ k + 1 \in 0..n /\ k \in Nat
    OBVIOUS
  <2>1. j \in 1..n /\ as \in [1..n -> Nat] /\ bs \in [1..n -> Nat]
    <3>1. j \in 1..n
      BY <2>0
    <3>2. as \in [1..n -> Nat \ {0}] /\ bs \in [1..n -> Nat \ {0}]
      BY <1>2, <2>0
    <3> HIDE DEF as, bs, j
    <3> QED BY <3>1, <3>2
  <2>2. as[j] = 1
    <3>1. \A o \in 1..k : perm[o] # perm[k + 1]
      <4> SUFFICES ASSUME NEW o \in 1..k, perm[o] = perm[k + 1]
                   PROVE  FALSE
        OBVIOUS
      <4>1. o \in 1..n /\ o # k + 1
        BY <2>0
      <4>2. target[perm[o]] = o /\ target[perm[k + 1]] = k + 1
        BY <2>0, <4>1
      <4> QED BY <4>1, <4>2
    <3> QED BY <2>1, <3>1
  <2>3. bs[j] = dims[j]
    BY <2>1
  <2>4. \A i \in 1..n : i # j => bs[i] = as[i]
    <3> SUFFICES ASSUME NEW i \in 1..n, i # j
                 PROVE  bs[i] = as[i]
      OBVIOUS
    <3>1. (\E o \in 1..k + 1 : perm[o] = i) <=> (\E o \in 1..k : perm[o] = i)
      <4>1. \A o \in 1..k : o \in 1..k + 1
        BY <2>0
      <4>2. \A o \in 1..k + 1 : o \in 1..k \/ o = k + 1
        BY <2>0
      <4> QED BY <4>1, <4>2
    <3> QED BY <3>1
  <2> HIDE DEF as, bs, j
  <2>5. Product(bs) = Product(as) * bs[j]
    <3>1. ASSUME NEW a, NEW b, NEW l, a \in [1..n -> Nat], b \in [1..n -> Nat], l \in 1..n,
                 a[l] = 1, \A i \in 1..n : i # l => b[i] = a[i]
          PROVE  Product(b) = Product(a) * b[l]
      <4>1. n \in Nat
        OBVIOUS
      <4> QED BY ONLY <3>1, <4>1, ProductFactor
    <3>2. j \in 1..n
      BY <2>1
    <3>3. as \in [1..n -> Nat]
      BY <2>1
    <3>4. bs \in [1..n -> Nat]
      BY <2>1
    <3> QED BY ONLY <2>2, <2>4, <3>1, <3>2, <3>3, <3>4, Zenon
  <2>6. P(k + 1) = P(k) * dims[j]
    BY <1>1, <1>3 DEF j
  <2>7. P(k) = Product(as)
    BY <1>5 DEF as
  <2>8. P(k + 1) = Product(bs)
    BY <2>3, <2>5, <2>6, <2>7
  <2>9. k + 1 \in 0..n
    OBVIOUS
  <2> QED BY <2>8, <2>9 DEF bs
<1> HIDE DEF S
<1>6. \A k \in 0..n : k \in S
  BY <1>4, <1>5, BoundedInduction
<1>7. Product(mask(n)) <= Product(dims)
  <2>1. mask(n) \in [1..n -> Nat \ {0}] /\ \A i \in 1..n : mask(n)[i] <= dims[i]
    BY <1>2
  <2> HIDE DEF mask
  <2> QED BY <2>1, ProductOrder
<1>8. First(pd, n) = pd
  <2>1. pd \in [1..n -> Nat]
    BY DEF pd
  <2> QED BY <2>1, FirstIsAll
<1>9. P(n) = Product(mask(n))
  <2>1. n \in S
    BY <1>6
  <2> QED BY <2>1 DEF S
<1>10. Product(pd) <= Product(dims)
  <2> HIDE DEF mask
  <2> QED BY <1>7, <1>8, <1>9 DEF P
<1> QED BY <1>10 DEF pd

(* A quotient is less than what its divisor is less than by.               *)
LEMMA QuotientBound ==
  ASSUME NEW q \in Int, NEW s \in Nat \ {0}, NEW d \in Nat, NEW m \in Nat, q * s = d, d < m * s
  PROVE  q \in Nat /\ q < m
<1>1. ASSUME q < 0
      PROVE  FALSE
  <2>1. -q \in Nat \ {0}
    BY <1>1
  <2>2. (-q) * s = -(q * s)
    OBVIOUS
  <2>3. (-q) * s >= 1 * s
    BY <2>1, ProductMonotone
  <2> QED BY <2>2, <2>3
<1>2. ASSUME q >= m
      PROVE  FALSE
  <2>1. q \in Nat
    BY <1>2
  <2>2. m * s <= q * s
    BY <1>2, <2>1, ProductMonotone
  <2>3. m * s \in Nat
    BY ProductNat
  <2> QED BY <2>2, <2>3
<1> QED BY <1>1, <1>2

(* the index of the output for an index that is visited *)
LEMMA SliceIndexInside ==
  ASSUME NEW a, call.step[a] \in Int \ {0}, call.start[a] \in Int, call.end[a] \in Int,
         NEW i \in Int, InSlice(a, i), NEW m \in Nat,
         IF call.step[a] > 0 THEN call.start[a] + m * call.step[a] >= call.end[a]
                             ELSE call.start[a] + m * call.step[a] <= call.end[a]
  PROVE  SliceIndex(a, i) \in Nat /\ SliceIndex(a, i) < m
<1> DEFINE s == call.step[a]
           f == call.start[a]
           e == call.end[a]
           q == SliceIndex(a, i)
<1>1. s \in Int \ {0} /\ f \in Int /\ e \in Int /\ q * s = i - f
  BY DEF InSlice
<1>2. q \in Int
  <2>1. CASE s > 0
    <3>1. q = (i - f) \div s
      BY <2>1 DEF SliceIndex
    <3> HIDE DEF q, s, f
    <3> QED BY <1>1, <2>1, <3>1
  <2>2. CASE ~(s > 0)
    <3> DEFINE r == -s
    <3>1. q = (f - i) \div r
      BY <2>2 DEF SliceIndex
    <3>2. r \in Nat \ {0}
      BY <1>1, <2>2
    <3> HIDE DEF q, s, f, r
    <3> QED BY <1>1, <3>1, <3>2
  <2> QED BY <2>1, <2>2
<1>3. CASE s > 0
  <2>1. i >= f /\ i < e /\ f + m * s >= e
    BY <1>3 DEF InSlice
  <2> HIDE DEF s, f, e, q
  <2>2. m * s \in Int
    BY <1>1
  <2>3. i - f \in Nat /\ i - f < m * s /\ s \in Nat \ {0}
    BY <1>1, <1>3, <2>1, <2>2
  <2>4. q \in Nat /\ q < m
    BY <1>1, <1>2, <2>3, QuotientBound
  <2> QED BY <2>4 DEF q
<1>4. CASE s < 0
  <2>1. i > e /\ i <= f /\ f + m * s <= e
    BY <1>4 DEF InSlice
  <2> HIDE DEF s, f, e, q
  <2> DEFINE r == -s
  <2>2. r \in Nat \ {0} /\ m * r = -(m * s) /\ q * r = -(q * s) /\ m * s \in Int
    <3>1. r \in Nat \ {0} /\ s = -r
      BY <1>1, <1>4
    <3> HIDE DEF r
    <3>2. m * (-r) = -(m * r) /\ q * (-r) = -(q * r)
      BY <1>2, <3>1
    <3>3. m * r \in Int /\ q * r \in Int
      BY <1>2, <3>1
    <3> QED BY <3>1, <3>2, <3>3
  <2> HIDE DEF r
  <2>3. f - i \in Nat /\ f - i < m * r
    BY <1>1, <2>1, <2>2
  <2>4. q * r = f - i
    BY <1>1, <2>2
  <2>5. q \in Nat /\ q < m
    BY <1>2, <2>2, <2>3, <2>4, QuotientBound
  <2> QED BY <2>5 DEF q
<1> QED BY <1>1, <1>3, <1>4

(* The facts about a software slice that the proofs below use.             *)
LEMMA SwSliceTyped ==
  ASSUME SwSliceIsGiven(call)
  PROVE  LET n == Len(call.dims)
         IN  /\ n \in Nat /\ DOMAIN call.dims = 1..n
             /\ call.start \in [1..n -> Int] /\ call.end \in [1..n -> Int]
             /\ call.step \in [1..n -> Int \ {0}]
             /\ call.bytes \in 1..4 /\ call.to \in Nat
             /\ Len(call.shape) = n => call.shape \in [1..n -> Nat \ {0}]
<1>1. /\ call.dims \in Sizes /\ call.shape \in Sizes /\ call.start \in Seq(Int)
      /\ call.end \in Seq(Int) /\ call.step \in Seq(Int \ {0})
      /\ call.bytes \in 1..4 /\ call.to \in Nat
      /\ Len(call.start) = Len(call.dims) /\ Len(call.end) = Len(call.dims)
      /\ Len(call.step) = Len(call.dims)
  BY DEF SwSliceIsGiven
<1>2. Len(call.dims) \in Nat \ {0} /\ DOMAIN call.dims = 1..Len(call.dims)
  BY <1>1, ListElements DEF Sizes
<1>3. call.shape \in [1..Len(call.shape) -> Nat \ {0}]
  BY <1>1, ListElements DEF Sizes
<1>4. \A S : \A s \in Seq(S) : s \in [1..Len(s) -> S]
  OBVIOUS
<1> QED BY <1>1, <1>2, <1>3, <1>4

(* The software slice writes within its output, element by element,        *)
(* whatever the signs of its steps.                                        *)
LEMMA SwSliceSafe ==
  ASSUME Safe, SwSlice
  PROVE  Safe'
<1> DEFINE n == Len(call.dims)
           axes == DOMAIN call.dims
           valid == n = Len(call.shape) /\ call.outBytes = call.bytes
           kept == {x \in [axes -> UNION {Visited(a) : a \in axes}] :
                      \A a \in axes : x[a] \in Visited(a) /\ InSlice(a, x[a])}
           dst(x) == call.to + Total([a \in axes |-> Stride(call.shape, a) * SliceIndex(a, x[a])])
           src(x) == call.from + Total([a \in axes |-> Stride(call.dims, a) * x[a]])
           copies == {[dst |-> dst(x), src |-> src(x), n |-> call.bytes] : x \in kept}
<1>1. pc = "call" /\ call.op = "SwSlice" /\ SwSliceIsGiven(call)
  BY CallIsGiven DEF SwSlice, Safe
<1>2. /\ n \in Nat /\ axes = 1..n
      /\ call.start \in [1..n -> Int] /\ call.end \in [1..n -> Int]
      /\ call.step \in [1..n -> Int \ {0}]
      /\ call.bytes \in 1..4 /\ call.to \in Nat
      /\ Len(call.shape) = n => call.shape \in [1..n -> Nat \ {0}]
  BY <1>1, SwSliceTyped, Zenon
<1>3. \/ ~valid /\ Rejects
      \/ valid /\ Returns(Copied(mem, copies))
  BY Zenon DEF SwSlice
<1>4. CASE ~valid /\ Rejects
  BY <1>1, <1>4, RejectsSafe
<1>5. CASE valid /\ Returns(Copied(mem, copies))
  <2>1. OutBytes = call.to .. call.to - 1 + call.bytes * Product(call.shape)
    BY <1>1 DEF OutBytes, Elementwise
  <2>2. ASSUME NEW x \in kept
        PROVE  dst(x) \in Int /\ dst(x) .. dst(x) + call.bytes - 1 \subseteq OutBytes
    <3> DEFINE y == [a \in 1..n |-> SliceIndex(a, x[a])]
    <3>1. ASSUME NEW a \in 1..n
          PROVE  y[a] \in Nat /\ y[a] < call.shape[a]
      <4>1. x[a] \in Visited(a) /\ InSlice(a, x[a])
        BY <1>2
      <4>2. call.step[a] \in Int \ {0} /\ call.start[a] \in Int /\ call.end[a] \in Int
        BY <1>2
      <4>3. x[a] \in Int
        BY <4>1, <4>2 DEF Visited
      <4>4. call.shape[a] \in Nat
        BY <1>2, <1>5
      <4>5. IF call.step[a] > 0 THEN call.start[a] + call.shape[a] * call.step[a] >= call.end[a]
                                ELSE call.start[a] + call.shape[a] * call.step[a] <= call.end[a]
        BY <1>1, <1>2, <1>5 DEF SwSliceIsGiven
      <4>6. SliceIndex(a, x[a]) \in Nat /\ SliceIndex(a, x[a]) < call.shape[a]
        BY <4>1, <4>2, <4>3, <4>4, <4>5, SliceIndexInside
      <4> QED BY <4>6
    <3>2. dst(x) = call.to + Total([a \in 1..n |-> Stride(call.shape, a) * y[a]])
      <4>1. [a \in axes |-> Stride(call.shape, a) * SliceIndex(a, x[a])]
              = [a \in 1..n |-> Stride(call.shape, a) * y[a]]
        BY <1>2
      <4> QED BY <4>1
    <3>3. y \in [1..n -> Nat]
      BY <3>1
    <3>4. call.shape \in [1..n -> Nat] /\ call.bytes \in Nat
      BY <1>2, <1>5
    <3> DEFINE t == Total([a \in 1..n |-> Stride(call.shape, a) * y[a]])
               size == call.bytes * Product(call.shape)
    <3>5. t \in Nat /\ t + call.bytes <= size
      <4> HIDE DEF y
      <4> QED BY <1>2, <3>1, <3>3, <3>4, ElementInside
    <3>6. size \in Nat
      BY <1>2, <3>4, ProductIsNat, ProductNat
    <3>7. dst(x) = call.to + t /\ OutBytes = call.to .. call.to - 1 + size
      BY <2>1, <3>2
    <3> HIDE DEF t, size, y, dst
    <3>8. \A a, b, from, to \in Int :
            a + b <= to => from + a .. from + a + b - 1 \subseteq from .. from - 1 + to
              \/ a < 0
      OBVIOUS
    <3>9. /\ t \in Int /\ call.bytes \in Int /\ call.to \in Int /\ size \in Int
          /\ ~(t < 0) /\ t + call.bytes <= size
      BY <1>2, <3>5, <3>6
    <3>10. call.to + t .. call.to + t + call.bytes - 1 \subseteq call.to .. call.to - 1 + size
      BY <3>8, <3>9
    <3> QED BY <3>7, <3>9, <3>10
  <2> HIDE DEF dst, src, kept
  <2>3. ASSUME NEW c \in copies
        PROVE  c.dst \in Int /\ c.n \in Int /\ c.dst .. c.dst + c.n - 1 \subseteq OutBytes
    <3>1. PICK x \in kept : c.dst = dst(x) /\ c.n = call.bytes
      OBVIOUS
    <3> QED BY <1>2, <2>2, <3>1
  <2> HIDE DEF copies
  <2>4. Written(copies) \subseteq OutBytes
    BY <2>3, WrittenIn
  <2> QED BY <1>5, <2>4, CopyReturnsSafe
<1> QED BY <1>3, <1>4, <1>5

-----------------------------------------------------------------------------

(***************************************************************************)
(* Transpositions: the bytes an output engine of up to four axes reaches.  *)
(***************************************************************************)

(* sums of three and of four numbers, in any order *)
LEMMA ShortTotals ==
  ASSUME NEW n \in {3, 4}, NEW ns \in [1..n -> Nat]
  PROVE  Total(ns) = ns[1] + ns[2] + ns[3] + (IF n = 4 THEN ns[4] ELSE 0)
<1>1. /\ Total(First(ns, 0)) = 0
      /\ \A k \in 0..n - 1 : Total(First(ns, k + 1)) = Total(First(ns, k)) + ns[k + 1]
  BY PrefixSums
<1>2. First(ns, n) = ns
  BY FirstIsAll
<1> DEFINE T(k) == Total(First(ns, k))
<1>3. /\ T(0) = 0 /\ T(0 + 1) = T(0) + ns[0 + 1] /\ T(1 + 1) = T(1) + ns[1 + 1]
      /\ T(2 + 1) = T(2) + ns[2 + 1]
      /\ (n = 4 => T(3 + 1) = T(3) + ns[3 + 1])
  BY <1>1
<1>4. T(n) = Total(ns)
  BY <1>2
<1>5. ns[1] \in Nat /\ ns[2] \in Nat /\ ns[3] \in Nat /\ (n = 4 => ns[4] \in Nat)
  OBVIOUS
<1> HIDE DEF T
<1>6. CASE n = 3
  BY <1>3, <1>4, <1>5, <1>6
<1>7. CASE n = 4
  BY <1>3, <1>4, <1>5, <1>7
<1> QED BY <1>6, <1>7

(* A product of positive factors is positive.                              *)
LEMMA PositiveProduct ==
  ASSUME NEW n \in Nat, NEW ns \in [1..n -> Nat \ {0}]
  PROVE  Product(ns) \in Nat \ {0}
<1>1. \A i \in 1..n : ns[i] <= ns[i]
  OBVIOUS
<1> QED BY <1>1, ProductOrder

(* A sum of three does not depend on the order.                            *)
LEMMA Permuted3 ==
  ASSUME NEW perm \in [1..3 -> 1..3], NEW g \in [1..3 -> Nat],
         \A i, j \in 1..3 : i # j => perm[i] # perm[j]
  PROVE  g[perm[1]] + g[perm[2]] + g[perm[3]] = g[1] + g[2] + g[3]
<1>1. /\ perm[1] \in {1, 2, 3} /\ perm[2] \in {1, 2, 3} /\ perm[3] \in {1, 2, 3}
      /\ perm[1] # perm[2] /\ perm[1] # perm[3] /\ perm[2] # perm[3]
  OBVIOUS
<1>2. g[1] \in Nat /\ g[2] \in Nat /\ g[3] \in Nat
  OBVIOUS
<1> DEFINE a == perm[1]
           b == perm[2]
           c == perm[3]
<1> HIDE DEF a, b, c
<1>3. a \in {1, 2, 3} /\ b \in {1, 2, 3} /\ c \in {1, 2, 3} /\ a # b /\ a # c /\ b # c
  BY <1>1 DEF a, b, c
<1>4. g[a] + g[b] + g[c] = g[1] + g[2] + g[3]
  BY <1>2, <1>3
<1> QED BY <1>4 DEF a, b, c

(* Nor does a sum of four.                                                 *)
LEMMA Permuted4 ==
  ASSUME NEW perm \in [1..4 -> 1..4], NEW g \in [1..4 -> Nat],
         \A i, j \in 1..4 : i # j => perm[i] # perm[j]
  PROVE  g[perm[1]] + g[perm[2]] + g[perm[3]] + g[perm[4]] = g[1] + g[2] + g[3] + g[4]
<1> DEFINE a == perm[1]
           b == perm[2]
           c == perm[3]
           d == perm[4]
<1>1. /\ a \in {1, 2, 3, 4} /\ b \in {1, 2, 3, 4} /\ c \in {1, 2, 3, 4} /\ d \in {1, 2, 3, 4}
      /\ a # b /\ a # c /\ a # d /\ b # c /\ b # d /\ c # d
  OBVIOUS
<1>2. g[1] \in Nat /\ g[2] \in Nat /\ g[3] \in Nat /\ g[4] \in Nat
  OBVIOUS
<1> HIDE DEF a, b, c, d
<1>3. g[a] + g[b] + g[c] + g[d] = g[1] + g[2] + g[3] + g[4]
  BY <1>1, <1>2
<1> QED BY <1>3 DEF a, b, c, d

(* A permutation of three or four takes every value.                       *)
LEMMA Surjective ==
  ASSUME NEW n \in {3, 4}, NEW perm \in [1..n -> 1..n],
         \A i, j \in 1..n : i # j => perm[i] # perm[j], NEW v \in 1..n
  PROVE  \E i \in 1..n : perm[i] = v
<1>1. CASE n = 3
  <2>1. /\ perm[1] \in {1, 2, 3} /\ perm[2] \in {1, 2, 3} /\ perm[3] \in {1, 2, 3}
        /\ perm[1] # perm[2] /\ perm[1] # perm[3] /\ perm[2] # perm[3] /\ v \in {1, 2, 3}
    BY <1>1
  <2> QED BY <1>1, <2>1
<1>2. CASE n = 4
  <2>1. /\ perm[1] \in {1, 2, 3, 4} /\ perm[2] \in {1, 2, 3, 4} /\ perm[3] \in {1, 2, 3, 4}
        /\ perm[4] \in {1, 2, 3, 4}
        /\ perm[1] # perm[2] /\ perm[1] # perm[3] /\ perm[2] # perm[3]
        /\ perm[1] # perm[4] /\ perm[2] # perm[4] /\ perm[3] # perm[4] /\ v \in {1, 2, 3, 4}
    BY <1>2
  <2> QED BY <1>2, <2>1
<1> QED BY <1>1, <1>2

(* The dimensions in the order of the output.                              *)
PermutedDims == [o \in DOMAIN call.dims |-> call.dims[call.perm[o]]]
(* What is used of the assumptions on a transposition.                     *)
TransposeFacts(n) ==
  /\ n = Len(call.dims) /\ n \in Nat \ {0} /\ DOMAIN call.dims = 1..n
  /\ call.dims \in [1..n -> Nat \ {0}] /\ PermutedDims \in [1..n -> Nat \ {0}]
  /\ call.perm \in [1..n -> 1..n]
  /\ \A o \in 1..n : call.target[call.perm[o]] = o
  /\ \A o \in 1..n : call.off[o] = Stride(PermutedDims, o) /\ call.off[o] \in Nat \ {0}
  /\ call.bytes \in 1..4 /\ call.to \in Nat /\ call.from \in Nat
  /\ Product(PermutedDims) \in Nat /\ Product(call.dims) \in Nat
  /\ Product(PermutedDims) <= Product(call.dims)

(* The facts about a transposition that the proofs below use.              *)
LEMMA TransposeIsTyped ==
  ASSUME TransposeIsGiven(call)
  PROVE  TransposeFacts(Len(call.dims))
<1> DEFINE n == Len(call.dims)
<1>1. /\ call.dims \in Sizes /\ call.perm \in Seq(Nat) /\ call.target \in Seq(Nat)
      /\ call.off \in Seq(Nat) /\ call.bytes \in 1..4 /\ call.to \in Nat /\ call.from \in Nat
      /\ Len(call.perm) = n
      /\ \A i \in 1..n : call.perm[i] \in 1..n /\ call.target[call.perm[i]] = i
      /\ \A o \in 1..n :
           call.off[o] = call.bytes * Product([j \in 1..n - o |-> call.dims[call.perm[o + j]]])
  BY DEF TransposeIsGiven
<1>2. n \in Nat \ {0} /\ DOMAIN call.dims = 1..n /\ call.dims \in [1..n -> Nat \ {0}]
  BY <1>1, ListElements DEF Sizes
<1>3. call.perm \in [1..n -> 1..n]
  <2>1. call.perm = [i \in 1..n |-> call.perm[i]]
    <3>1. DOMAIN call.perm = 1..n /\ call.perm = [i \in DOMAIN call.perm |-> call.perm[i]]
      BY <1>1
    <3> QED BY <3>1
  <2> QED BY <1>1, <2>1
<1>4. PermutedDims = [o \in 1..n |-> call.dims[call.perm[o]]]
  BY <1>2 DEF PermutedDims
<1>5. PermutedDims \in [1..n -> Nat \ {0}]
  BY <1>2, <1>3, <1>4
<1>6. ASSUME NEW o \in 1..n
      PROVE  call.off[o] = Stride(PermutedDims, o) /\ call.off[o] \in Nat \ {0}
  <2> DEFINE rest == [j \in 1..n - o |-> call.dims[call.perm[o + j]]]
  <2>1. rest = [j \in 1..n - o |-> PermutedDims[o + j]] /\ rest \in [1..n - o -> Nat \ {0}]
    <3>1. \A j \in 1..n - o : o + j \in 1..n
      OBVIOUS
    <3> QED BY <1>4, <1>5, <3>1
  <2>2. SubSeq(PermutedDims, o + 1, Len(PermutedDims)) = rest
    <3>1. PermutedDims \in [1..n -> Nat] /\ n \in Nat /\ o \in 0..n
      BY <1>2, <1>5
    <3>2. SubSeq(PermutedDims, o + 1, Len(PermutedDims)) = [j \in 1..n - o |-> PermutedDims[o + j]]
      BY <3>1, Suffix
    <3> QED BY <2>1, <3>2, Zenon
  <2>3. Product(rest) \in Nat \ {0}
    <3>1. n - o \in Nat
      BY <1>2
    <3> HIDE DEF rest
    <3> QED BY <2>1, <3>1, PositiveProduct
  <2>4. call.off[o] = call.bytes * Product(rest)
    BY <1>1
  <2> DEFINE m == Product(rest)
  <2>5. call.off[o] = call.bytes * m /\ Stride(PermutedDims, o) = call.bytes * m
    BY <2>2, <2>4, Zenon DEF Stride
  <2> HIDE DEF m
  <2>6. call.bytes \in Nat \ {0} /\ m \in Nat \ {0}
    BY <1>1, <2>3 DEF m
  <2>7. call.bytes * m \in Nat \ {0}
    BY <2>6
  <2> QED BY <2>5, <2>7
<1>7. Product(PermutedDims) \in Nat /\ Product(call.dims) \in Nat
  BY <1>2, <1>5, ProductIsNat
<1>8. Product(PermutedDims) <= Product(call.dims)
  <2>1. \A i \in 1..n : call.target[call.perm[i]] = i
    BY <1>1
  <2>2. n \in Nat
    BY <1>2
  <2> HIDE DEF n
  <2>3. Product([o \in 1..n |-> call.dims[call.perm[o]]]) <= Product(call.dims)
    <3>1. ASSUME NEW dims, dims \in [1..n -> Nat \ {0}], NEW perm, perm \in [1..n -> 1..n],
                 NEW target, \A i \in 1..n : target[perm[i]] = i
          PROVE  Product([o \in 1..n |-> dims[perm[o]]]) <= Product(dims)
      BY ONLY <2>2, <3>1, ProductPermuted
    <3> QED BY ONLY <1>2, <1>3, <2>1, <3>1, Zenon
  <2> QED BY <1>4, <2>3, Zenon
<1> QED BY <1>1, <1>2, <1>3, <1>5, <1>6, <1>7, <1>8 DEF TransposeFacts

(* where an element of the input goes *)
LEMMA TargetInside ==
  ASSUME NEW n, TransposeFacts(n), call.op = "Transpose", NEW x,
         \A i \in 1..n : x[i] \in Nat /\ x[i] < call.dims[i]
  PROVE  LET at == Total([o \in 1..n |-> call.off[o] * x[call.perm[o]]])
         IN  at \in Nat /\ call.to + at .. call.to + at + call.bytes - 1 \subseteq OutBytes
<1> DEFINE y == [o \in 1..n |-> x[call.perm[o]]]
           at == Total([o \in 1..n |-> call.off[o] * x[call.perm[o]]])
           size == call.bytes * Product(call.dims)
<1>1. y \in [1..n -> Nat] /\ \A o \in 1..n : y[o] < PermutedDims[o]
  <2>1. \A o \in 1..n : call.perm[o] \in 1..n /\ PermutedDims[o] = call.dims[call.perm[o]]
    BY DEF TransposeFacts, PermutedDims
  <2> QED BY <2>1
<1>2. [o \in 1..n |-> call.off[o] * x[call.perm[o]]]
        = [o \in 1..n |-> Stride(PermutedDims, o) * y[o]]
  BY DEF TransposeFacts
<1>3. n \in Nat /\ PermutedDims \in [1..n -> Nat] /\ call.bytes \in Nat
  BY DEF TransposeFacts
<1>4. at \in Nat /\ at + call.bytes <= call.bytes * Product(PermutedDims)
  <2> HIDE DEF y
  <2> DEFINE t == Total([o \in 1..n |-> Stride(PermutedDims, o) * y[o]])
  <2>1. t \in Nat /\ t + call.bytes <= call.bytes * Product(PermutedDims)
    BY <1>1, <1>3, ElementInside
  <2>2. at = t
    BY <1>2
  <2> QED BY <2>1, <2>2, Zenon
<1>5. /\ call.bytes * Product(PermutedDims) <= size
      /\ call.bytes * Product(PermutedDims) \in Nat /\ size \in Nat
  <2>1. /\ Product(PermutedDims) \in Nat /\ Product(call.dims) \in Nat /\ call.bytes \in Nat
        /\ Product(PermutedDims) <= Product(call.dims)
    BY DEF TransposeFacts
  <2> QED BY <2>1, ProductMonotone, ProductNat
<1>6. OutBytes = call.to .. call.to - 1 + size
  BY DEF OutBytes, Elementwise
<1> DEFINE small == call.bytes * Product(PermutedDims)
<1> HIDE DEF at, size, small
<1>7. at + call.bytes <= size
  <2>1. at + call.bytes <= small /\ small <= size /\ small \in Nat
    BY <1>4, <1>5 DEF small
  <2> QED BY <1>3, <1>4, <1>5, <2>1
<1>8. call.to + at .. call.to + at + call.bytes - 1 \subseteq OutBytes
  <2>1. call.to \in Nat /\ call.bytes \in Nat /\ at \in Nat /\ size \in Nat
    BY <1>3, <1>4, <1>5 DEF TransposeFacts
  <2> QED BY <1>6, <1>7, <2>1
<1> QED BY <1>4, <1>8 DEF at

(* The offset of the i-th axis in the output.                              *)
W(i) == call.off[call.target[i]]

(* The channels that stand for one element of call.bytes bytes.            *)
LEMMA ElementChannels ==
  ASSUME call.bytes \in 1..4
  PROVE  /\ ChannelBits(Tensor1) \in {8, 16, 24}
         /\ Channels(Tensor1, 1) \in Nat
         /\ Channels(Tensor1, 1) * (ChannelBits(Tensor1) \div 8) = call.bytes
<1>1. call.bytes \in {1, 2, 3, 4}
  OBVIOUS
<1>2. Tensor1.bytes = call.bytes
  BY DEF Tensor1
<1> QED BY <1>1, <1>2 DEF ChannelBits, Channels

(* The output engine of a transposition.                                   *)
LEMMA TransposeShape ==
  ASSUME NEW n, TransposeFacts(n), n \in {3, 4}
  PROVE  LET d == TransposeOut
         IN  /\ d.at = call.to /\ d.raw = FALSE
             /\ d.bits = ChannelBits(Tensor1) /\ d.depth = Channels(Tensor1, 1)
             /\ d.width = call.dims[n] /\ d.pixel = W(n)
             /\ d.height = call.dims[n - 1] /\ d.line = W(n - 1)
             /\ d.loop = call.dims[n - 2] /\ d.frame = W(n - 2)
             /\ n = 4 => d.loops = W(1) /\ d.frames = call.dims[1] * call.dims[2]
             /\ n = 3 => d.loops = 0 /\ d.frames = call.dims[1]
<1>1. n = Len(call.dims)
  BY DEF TransposeFacts
<1> DEFINE bits == ChannelBits(Tensor1)
           depth == Channels(Tensor1, 1)
           a == W(n)
           b == W(n - 1)
           c == W(n - 2)
           e == W(1)
           dn == call.dims[n]
           dm == call.dims[n - 1]
           dl == call.dims[n - 2]
           d1 == call.dims[1]
           f4 == call.dims[1] * call.dims[2]
           plain == [Raw(call.to, 0, bits) EXCEPT !.raw = FALSE, !.depth = depth]
           inner == [plain EXCEPT !.width = dn, !.pixel = a, !.height = dm, !.line = b,
                                  !.loop = dl, !.frame = c]
<1>2. TransposeOut = IF n = 4 THEN [inner EXCEPT !.loops = e, !.frames = f4]
                              ELSE [inner EXCEPT !.frames = d1]
  BY <1>1, Zenon DEF TransposeOut, W
<1> HIDE DEF bits, depth, a, b, c, e, dn, dm, dl, d1, f4
<1>3. /\ inner.at = call.to /\ inner.raw = FALSE /\ inner.bits = bits /\ inner.depth = depth
      /\ inner.width = dn /\ inner.pixel = a /\ inner.height = dm /\ inner.line = b
      /\ inner.loop = dl /\ inner.frame = c /\ inner.loops = 0
      /\ DOMAIN inner = DOMAIN Raw(call.to, 0, bits)
  BY DEF Raw
<1>4. {"loops", "frames", "at"} \subseteq DOMAIN inner
  BY <1>3 DEF Raw
<1> HIDE DEF inner
<1>5. CASE n = 4
  <2>1. TransposeOut = [inner EXCEPT !.loops = e, !.frames = f4]
    BY <1>2, <1>5
  <2> QED BY <1>3, <1>4, <1>5, <2>1 DEF bits, depth, a, b, c, e, dn, dm, dl, f4
<1>6. CASE n = 3
  <2>1. TransposeOut = [inner EXCEPT !.frames = d1]
    BY <1>2, <1>6
  <2> QED BY <1>3, <1>4, <1>6, <2>1 DEF bits, depth, a, b, c, d1, dn, dm, dl
<1> QED BY <1>5, <1>6

(* the strides of the axes of the input, in the output *)
LEMMA Weights ==
  ASSUME NEW n, TransposeFacts(n), n \in {3, 4}
  PROVE  /\ \A i \in 1..n : W(i) \in Nat \ {0}
         /\ \A x \in [1..n -> Nat] :
              Total([o \in 1..n |-> call.off[o] * x[call.perm[o]]])
                = W(1) * x[1] + W(2) * x[2] + W(3) * x[3] + (IF n = 4 THEN W(4) * x[4] ELSE 0)
<1>1. \A i, j \in 1..n : i # j => call.perm[i] # call.perm[j]
  BY DEF TransposeFacts
<1>2. ASSUME NEW i \in 1..n
      PROVE  W(i) \in Nat \ {0}
  <2>1. PICK o \in 1..n : call.perm[o] = i
    <3>1. call.perm \in [1..n -> 1..n]
      BY DEF TransposeFacts
    <3> QED BY <1>1, <3>1, Surjective
  <2> QED BY <2>1 DEF TransposeFacts, W
<1>3. \A o \in 1..n : W(call.perm[o]) = call.off[o] /\ call.perm[o] \in 1..n
  BY DEF TransposeFacts, W
<1>4. ASSUME NEW x \in [1..n -> Nat]
      PROVE  Total([o \in 1..n |-> call.off[o] * x[call.perm[o]]])
               = W(1) * x[1] + W(2) * x[2] + W(3) * x[3] + (IF n = 4 THEN W(4) * x[4] ELSE 0)
  <2> DEFINE g == [i \in 1..n |-> W(i) * x[i]]
             h == [o \in 1..n |-> call.off[o] * x[call.perm[o]]]
  <2>1. \A o \in 1..n : h[o] = g[call.perm[o]]
    BY <1>3
  <2>2. g \in [1..n -> Nat]
    <3>1. ASSUME NEW i \in 1..n
          PROVE  W(i) * x[i] \in Nat
      <4>1. W(i) \in Nat /\ x[i] \in Nat
        BY <1>2
      <4> QED BY <4>1, ProductNat
    <3> QED BY <3>1
  <2>3. h \in [1..n -> Nat]
    <3>1. \A o \in 1..n : g[call.perm[o]] \in Nat
      BY <1>3, <2>2
    <3>2. \A o \in 1..n : h[o] \in Nat
      <4> HIDE DEF g, h
      <4> QED BY <2>1, <3>1
    <3>3. h = [o \in 1..n |-> h[o]]
      OBVIOUS
    <3> HIDE DEF h
    <3> QED BY <3>2, <3>3
  <2>4. g[1] = W(1) * x[1] /\ g[2] = W(2) * x[2] /\ g[3] = W(3) * x[3]
        /\ (n = 4 => g[4] = W(4) * x[4])
    OBVIOUS
  <2>5. call.perm \in [1..n -> 1..n]
    BY DEF TransposeFacts
  <2> HIDE DEF g, h
  <2>6. Total(h) = h[1] + h[2] + h[3] + (IF n = 4 THEN h[4] ELSE 0)
    BY <2>3, ShortTotals
  <2>7. CASE n = 3
    <3>1. g[call.perm[1]] + g[call.perm[2]] + g[call.perm[3]] = g[1] + g[2] + g[3]
      BY <1>1, <2>2, <2>5, <2>7, Permuted3
    <3>2. h[1] = g[call.perm[1]] /\ h[2] = g[call.perm[2]] /\ h[3] = g[call.perm[3]]
      BY <2>1, <2>7
    <3>3. Total(h) = g[1] + g[2] + g[3] + 0
      <4>1. g[1] \in Nat /\ g[2] \in Nat /\ g[3] \in Nat
        BY <2>2, <2>7
      <4>2. Total(h) = g[call.perm[1]] + g[call.perm[2]] + g[call.perm[3]] + 0
        BY <2>6, <2>7, <3>2
      <4> QED BY <3>1, <4>1, <4>2
    <3> QED BY <2>4, <2>7, <3>3 DEF h
  <2>8. CASE n = 4
    <3>1. g[call.perm[1]] + g[call.perm[2]] + g[call.perm[3]] + g[call.perm[4]]
            = g[1] + g[2] + g[3] + g[4]
      BY <1>1, <2>2, <2>5, <2>8, Permuted4
    <3>2. /\ h[1] = g[call.perm[1]] /\ h[2] = g[call.perm[2]] /\ h[3] = g[call.perm[3]]
          /\ h[4] = g[call.perm[4]]
      BY <2>1, <2>8
    <3>3. Total(h) = g[1] + g[2] + g[3] + g[4]
      BY <2>6, <2>8, <3>1, <3>2
    <3> QED BY <2>4, <2>8, <3>3 DEF h
  <2> QED BY <2>7, <2>8
<1> QED BY <1>2, <1>4

(* That engine stays within the output, whatever the permutation.          *)
LEMMA TransposeReach ==
  ASSUME NEW n, TransposeFacts(n), n \in {3, 4}, call.op = "Transpose"
  PROVE  Addresses(TransposeOut) \subseteq OutBytes
<1> DEFINE d == TransposeOut
           bits == ChannelBits(Tensor1)
           depth == Channels(Tensor1, 1)
           size(i) == call.dims[i]
<1>1. /\ d.at = call.to /\ d.raw = FALSE
      /\ d.bits = bits /\ d.depth = depth
      /\ d.width = size(n) /\ d.pixel = W(n)
      /\ d.height = size(n - 1) /\ d.line = W(n - 1)
      /\ d.loop = size(n - 2) /\ d.frame = W(n - 2)
      /\ n = 4 => d.loops = W(1) /\ d.frames = size(1) * size(2)
      /\ n = 3 => d.loops = 0 /\ d.frames = size(1)
  BY TransposeShape
<1>2. \A i \in 1..n : size(i) \in Nat \ {0} /\ W(i) \in Nat \ {0}
  BY Weights DEF TransposeFacts
<1>3. bits \in {8, 16, 24} /\ depth \in Nat /\ depth * (bits \div 8) = call.bytes
      /\ call.bytes \in 1..4 /\ call.to \in Nat
  BY ElementChannels DEF TransposeFacts
<1> HIDE DEF d, bits, depth, size
<1>4. n - 1 \in 1..n /\ n - 2 \in 1..n /\ n \in 1..n /\ 1 \in 1..n /\ 2 \in 1..n
  OBVIOUS
<1>5. d.frames \in Nat /\ d.width \in Nat /\ d.height \in Nat /\ d.depth \in Nat
  <2>1. size(1) \in Nat /\ size(2) \in Nat /\ size(n) \in Nat /\ size(n - 1) \in Nat
    BY <1>2, <1>4
  <2>2. size(1) * size(2) \in Nat
    BY <2>1, ProductNat
  <2>3. d.frames = size(1) \/ d.frames = size(1) * size(2)
    BY <1>1
  <2> QED BY <1>1, <1>3, <2>1, <2>2, <2>3
<1>6. ASSUME NEW a \in Addresses(d)
      PROVE  a \in OutBytes
  <2>1. PICK f \in 0..d.frames - 1, y \in 0..d.height - 1, x \in 0..d.width - 1,
             r \in 0..d.depth * (d.bits \div 8) - 1 :
               a = d.at + FrameOffset(d, f) + (y * LineOffset(d) + x * d.pixel + r)
    BY <1>1, <1>3, <1>5, ShapedReach
  <2>2. y \in Nat /\ y < size(n - 1) /\ x \in Nat /\ x < size(n)
        /\ r \in Nat /\ r < call.bytes
    BY <1>1, <1>2, <1>3, <1>4
  <2>3. LineOffset(d) = W(n - 1) /\ d.pixel = W(n)
    BY <1>1, <1>2, <1>4 DEF LineOffset
  <2>4. \E i1 \in Nat, i2 \in Nat :
          /\ i1 < size(1) /\ (n = 4 => i2 < size(2))
          /\ FrameOffset(d, f) = i1 * W(1) + (IF n = 4 THEN i2 * W(2) ELSE 0)
    <3>1. CASE n = 3
      <4>1. d.loop = size(1) /\ d.frame = W(1) /\ d.loops = 0 /\ d.frames = size(1)
        <5>1. n - 2 = 1
          BY <3>1
        <5> QED BY <1>1, <3>1, <5>1
      <4>2. f \in Nat /\ f < size(1) /\ size(1) \in Nat \ {0} /\ W(1) \in Nat
        BY <1>2, <1>4, <4>1
      <4>3. f \div size(1) = 0 /\ f % size(1) = f
        BY <4>2
      <4>4. FrameOffset(d, f) = f * W(1)
        <5>1. FrameOffset(d, f) = 0 * 0 + f * W(1)
          BY <4>1, <4>2, <4>3 DEF FrameOffset
        <5>2. f * W(1) \in Nat
          BY <4>2, ProductNat
        <5> QED BY <5>1, <5>2
      <4>5. f * W(1) + 0 = f * W(1)
        BY <4>2
      <4> QED BY <3>1, <4>2, <4>4, <4>5
    <3>2. CASE n = 4
      <4>1. d.loop = size(2) /\ d.frame = W(2) /\ d.loops = W(1)
            /\ d.frames = size(1) * size(2)
        <5>1. n - 2 = 2
          BY <3>2
        <5> QED BY <1>1, <3>2, <5>1
      <4>2. size(1) \in Nat /\ size(2) \in Nat \ {0} /\ f \in 0..size(1) * size(2) - 1
        BY <1>2, <1>4, <4>1
      <4>3. f \div size(2) \in 0..size(1) - 1 /\ f % size(2) \in 0..size(2) - 1
        BY <4>2, Division
      <4>4. FrameOffset(d, f) = (f \div size(2)) * W(1) + (f % size(2)) * W(2)
        BY <4>1, <4>2 DEF FrameOffset
      <4> DEFINE q == f \div size(2)
                 m == f % size(2)
      <4> HIDE DEF q, m
      <4>5. q \in Nat /\ q < size(1) /\ m \in Nat /\ m < size(2)
            /\ FrameOffset(d, f) = q * W(1) + m * W(2)
        BY <4>2, <4>3, <4>4 DEF q, m
      <4> QED BY <3>2, <4>5
    <3> QED BY <3>1, <3>2
  <2>5. PICK i1 \in Nat, i2 \in Nat :
          /\ i1 < size(1) /\ (n = 4 => i2 < size(2))
          /\ FrameOffset(d, f) = i1 * W(1) + (IF n = 4 THEN i2 * W(2) ELSE 0)
    BY <2>4
  <2> DEFINE e == IF n = 3 THEN [i \in 1..n |-> IF i = 1 THEN i1 ELSE IF i = 2 THEN y ELSE x]
                  ELSE [i \in 1..n |-> IF i = 1 THEN i1 ELSE IF i = 2 THEN i2
                                       ELSE IF i = 3 THEN y ELSE x]
             t == Total([o \in 1..n |-> call.off[o] * e[call.perm[o]]])
  <2>6. ASSUME NEW i \in 1..n
        PROVE  e[i] \in Nat /\ e[i] < size(i)
    <3>1. CASE n = 3
      <4>1. i \in {1, 2, 3} /\ n - 1 = 2
        BY <3>1
      <4> QED BY <2>2, <2>5, <3>1, <4>1
    <3>2. CASE n = 4
      <4>1. i \in {1, 2, 3, 4} /\ n - 1 = 3
        BY <3>2
      <4> QED BY <2>2, <2>5, <3>2, <4>1
    <3> QED BY <3>1, <3>2
  <2>7. e \in [1..n -> Nat]
    BY <2>2
  <2>8. t = W(1) * e[1] + W(2) * e[2] + W(3) * e[3] + (IF n = 4 THEN W(4) * e[4] ELSE 0)
    <3> HIDE DEF e
    <3> QED BY <2>7, Weights
  <2>9. t \in Nat /\ call.to + t .. call.to + t + call.bytes - 1 \subseteq OutBytes
    <3> HIDE DEF e
    <3>1. \A i \in 1..n : e[i] \in Nat /\ e[i] < call.dims[i]
      BY <2>6 DEF size
    <3> QED BY <3>1, TargetInside
  <2> HIDE DEF t
  <2>10. a = call.to + t + r
    <3>1. CASE n = 3
      <4>1. e[1] = i1 /\ e[2] = y /\ e[3] = x /\ n - 1 = 2
        BY <3>1
      <4> HIDE DEF e
      <4>2. W(1) \in Nat /\ W(2) \in Nat /\ W(3) \in Nat
        BY <1>2, <3>1
      <4>3. t = W(1) * i1 + W(2) * y + W(3) * x + 0
        BY <2>8, <3>1, <4>1
      <4>4. a = call.to + (i1 * W(1) + 0) + (y * W(2) + x * W(3) + r)
        BY <1>1, <2>1, <2>3, <2>5, <3>1, <4>1
      <4> QED BY <1>3, <2>2, <4>2, <4>3, <4>4
    <3>2. CASE n = 4
      <4>1. e[1] = i1 /\ e[2] = i2 /\ e[3] = y /\ e[4] = x /\ n - 1 = 3
        BY <3>2
      <4> HIDE DEF e
      <4>2. W(1) \in Nat /\ W(2) \in Nat /\ W(3) \in Nat /\ W(4) \in Nat
        BY <1>2, <3>2
      <4>3. t = W(1) * i1 + W(2) * i2 + W(3) * y + W(4) * x
        BY <2>8, <3>2, <4>1
      <4>4. a = call.to + (i1 * W(1) + i2 * W(2)) + (y * W(3) + x * W(4) + r)
        BY <1>1, <2>1, <2>3, <2>5, <3>2, <4>1
      <4> QED BY <1>3, <2>2, <4>2, <4>3, <4>4
    <3> QED BY <3>1, <3>2
  <2>11. a \in call.to + t .. call.to + t + call.bytes - 1
    BY <1>3, <2>2, <2>9, <2>10
  <2> QED BY <2>9, <2>11
<1> QED BY <1>6 DEF d

(* LL_ATON_LIB_Transpose, with every way out.                              *)
LEMMA TransposeSafe ==
  ASSUME Safe, Transpose
  PROVE  Safe'
<1> DEFINE n == Len(call.dims)
           size == call.bytes * Product(call.dims)
           dst(x) == call.to + Total([o \in 1..n |-> call.off[o] * x[call.perm[o]]])
           src(x) == call.from + Total([i \in 1..n |-> InOffsets[i] * x[i]])
           copies == {[dst |-> dst(x), src |-> src(x), n |-> call.bytes] : x \in Indices}
           in == Raw(call.from, size, ChannelBits(Tensor1))
<1>1. pc = "call" /\ call.op = "Transpose" /\ IsParams(p) /\ TransposeFacts(n)
  BY CallIsGiven, TransposeIsTyped DEF Transpose, Safe
<1>2. \/ Returns(Copied(mem, copies))
      \/ Rejects
      \/ /\ n \in {3, 4} /\ mem' = mem
         /\ Inserts("transfer", WithEngines(p, in, TransposeOut))
  BY Zenon DEF Transpose, SwTranspose, WithEngines
<1>3. CASE Rejects
  BY <1>1, <1>3, RejectsSafe
<1>4. CASE Returns(Copied(mem, copies))
  <2>1. ASSUME NEW x \in Indices
        PROVE  dst(x) \in Int /\ dst(x) .. dst(x) + call.bytes - 1 \subseteq OutBytes
    <3> DEFINE t == Total([o \in 1..n |-> call.off[o] * x[call.perm[o]]])
    <3>1. \A i \in 1..n : x[i] \in Nat /\ x[i] < call.dims[i]
      <4>1. DOMAIN call.dims = 1..n
        BY <1>1 DEF TransposeFacts
      <4>2. \A i \in 1..n : x[i] \in 0..Max(ToSet(call.dims)) - 1 /\ x[i] < call.dims[i]
        BY <4>1 DEF Indices, IndicesOf
      <4> QED BY <4>2
    <3>2. t \in Nat /\ call.to + t .. call.to + t + call.bytes - 1 \subseteq OutBytes
      <4> HIDE DEF n
      <4> QED BY <1>1, <3>1, TargetInside
    <3>3. call.to \in Nat
      BY <1>1 DEF TransposeFacts
    <3> HIDE DEF t
    <3>4. dst(x) = call.to + t
      BY DEF t
    <3> HIDE DEF dst
    <3> QED BY <3>2, <3>3, <3>4
  <2>2. call.bytes \in Int
    BY <1>1 DEF TransposeFacts
  <2> HIDE DEF dst, src
  <2>3. ASSUME NEW c \in copies
        PROVE  c.dst \in Int /\ c.n \in Int /\ c.dst .. c.dst + c.n - 1 \subseteq OutBytes
    <3>1. PICK x \in Indices : c.dst = dst(x) /\ c.n = call.bytes
      OBVIOUS
    <3> QED BY <2>1, <2>2, <3>1
  <2> HIDE DEF copies
  <2>4. Written(copies) \subseteq OutBytes
    BY <2>3, WrittenIn
  <2> QED BY <1>4, <2>4, CopyReturnsSafe
<1>5. CASE /\ n \in {3, 4} /\ mem' = mem
           /\ Inserts("transfer", WithEngines(p, in, TransposeOut))
  <2>1. Addresses(TransposeOut) \subseteq OutBytes
    BY <1>1, <1>5, TransposeReach
  <2>2. Addresses(in) \subseteq InBytes
    <3>1. call.from \in Nat /\ call.bytes \in Nat /\ Product(call.dims) \in Nat
          /\ ChannelBits(Tensor1) \in {8, 16, 24}
      BY <1>1, ElementChannels DEF TransposeFacts
    <3>2. size \in Nat
      BY <3>1, ProductNat
    <3>3. InBytes = call.from .. call.from - 1 + size
      BY <1>1 DEF InBytes, Elementwise
    <3> HIDE DEF size
    <3>4. Addresses(in) \subseteq call.from .. call.from + size - 1
      BY <3>1, <3>2, RawInside
    <3>5. call.from - 1 + size = call.from + size - 1
      BY <3>1, <3>2
    <3> QED BY <3>3, <3>4, <3>5
  <2> DEFINE q == WithEngines(p, in, TransposeOut)
  <2>3. IsParams(q) /\ q.in = in /\ q.out = TransposeOut
    BY <1>1, WithEnginesParams
  <2> HIDE DEF in
  <2> HIDE DEF q
  <2>4. Inserts("transfer", q) /\ mem' = mem
    BY <1>5 DEF q
  <2> QED BY <1>1, <2>1, <2>2, <2>3, <2>4, TransferSafe
<1> QED BY <1>2, <1>3, <1>4, <1>5

-----------------------------------------------------------------------------

(***************************************************************************)
(* Paddings.  The two pointers of the filling are moved from row to row    *)
(* by increments; they are where the index of the row says.                *)
(***************************************************************************)

(* Sums and products of naturals that the SMT solver has to be given.      *)
LEMMA SplitProduct ==
  ASSUME NEW a \in Nat, NEW b \in Nat, NEW c \in Nat, NEW x \in Nat, NEW y \in Nat
  PROVE  /\ a * x \in Nat /\ b * x \in Nat /\ c * x \in Nat /\ x * y \in Nat
         /\ (a + b + c) * x = a * x + b * x + c * x
         /\ x * (y + 1) = x * y + x
         /\ x * b = b * x
         /\ x * (b + a - 1) = b * x + a * x - x
  OBVIOUS

(* Digits times their weights, and those of some axes only.                *)
Weighted(n, w, x) == [k \in 1..n |-> w[k] * x[k]]
Among(n, w, x, axes) == [k \in 1..n |-> IF k \in axes THEN x[k] * w[k] ELSE 0]

(* One step of counting with digits: digit A goes up, the full ones after  *)
(* it start again; c is the place of the rows that are counted.            *)
GoesUp(k, A, c, m, u, old, new) ==
  /\ k < A \/ k >= c => new[k] = old[k]
  /\ k = A => new[k] = old[k] + 1
  /\ A < k /\ k < c => old[k] = u[k] + m[k] - 1 /\ new[k] = u[k]
IsCarry(n, w, big, m, u, e, c, A, old, new) ==
  /\ n \in Nat /\ \A k \in 0..n : w[k] \in Nat
  /\ big \in [1..n -> Nat] /\ m \in [1..n -> Nat]
  /\ u \in [1..n -> Nat] /\ e \in [1..n -> Nat]
  /\ \A k \in 1..n : big[k] = m[k] + u[k] + e[k] /\ w[k - 1] = big[k] * w[k]
  /\ c \in 1..n /\ A \in 1..c - 1
  /\ old \in [1..n -> Nat] /\ new \in [1..n -> Nat]
  /\ \A k \in 1..n : GoesUp(k, A, c, m, u, old, new)

(* When a count with digits carries, its value goes up by a row and by     *)
(* the padding at the ends of the digits that start again.                 *)
LEMMA Carry ==
  ASSUME NEW n, NEW w, NEW big, NEW m, NEW u, NEW e, NEW c, NEW A, NEW old, NEW new,
         IsCarry(n, w, big, m, u, e, c, A, old, new)
  PROVE  Total(Weighted(n, w, new))
           = Total(Weighted(n, w, old)) + m[c] * w[c]
               + Total(Among(n, w, e, A + 1..c)) + Total(Among(n, w, u, A + 1..c))
<1>0. /\ n \in Nat /\ \A k \in 0..n : w[k] \in Nat
      /\ big \in [1..n -> Nat] /\ m \in [1..n -> Nat]
      /\ u \in [1..n -> Nat] /\ e \in [1..n -> Nat]
      /\ \A k \in 1..n : big[k] = m[k] + u[k] + e[k] /\ w[k - 1] = big[k] * w[k]
      /\ c \in 1..n /\ A \in 1..c - 1
      /\ old \in [1..n -> Nat] /\ new \in [1..n -> Nat]
      /\ \A k \in 1..n : /\ k < A \/ k >= c => new[k] = old[k]
                         /\ k = A => new[k] = old[k] + 1
                         /\ A < k /\ k < c => old[k] = u[k] + m[k] - 1 /\ new[k] = u[k]
  BY Zenon DEF IsCarry, GoesUp
<1>20. \A k \in 1..n : /\ m[k] \in Nat /\ u[k] \in Nat /\ e[k] \in Nat
                       /\ old[k] \in Nat /\ new[k] \in Nat
  <2>1. /\ m \in [1..n -> Nat] /\ u \in [1..n -> Nat] /\ e \in [1..n -> Nat]
        /\ old \in [1..n -> Nat] /\ new \in [1..n -> Nat]
    BY <1>0
  <2> QED BY ONLY <2>1
<1>21. \A k \in 1..n : w[k] \in Nat
  <2>1. n \in Nat /\ \A k \in 0..n : w[k] \in Nat
    BY <1>0
  <2> QED BY ONLY <2>1
<1> USE <1>0
<1> DEFINE f1 == [k \in 1..n |-> w[k] * new[k]]
           f2 == [k \in 1..n |-> w[k] * old[k]]
           f3 == [k \in 1..n |-> IF k \in A + 1..c THEN e[k] * w[k] ELSE 0]
           f4 == [k \in 1..n |-> IF k \in A + 1..c THEN u[k] * w[k] ELSE 0]
           T1(k) == Total(First(f1, k))
           T2(k) == Total(First(f2, k))
           T3(k) == Total(First(f3, k))
           T4(k) == Total(First(f4, k))
           v(k) == IF k < A THEN 0 ELSE IF k < c THEN w[k] ELSE m[c] * w[c]
           S == {k \in 0..n : T1(k) = T2(k) + v(k) + T3(k) + T4(k)}
<1>1. /\ f1 \in [1..n -> Nat] /\ f2 \in [1..n -> Nat]
      /\ f3 \in [1..n -> Nat] /\ f4 \in [1..n -> Nat]
  <2>1. ASSUME NEW k \in 1..n
        PROVE  /\ w[k] * new[k] \in Nat /\ w[k] * old[k] \in Nat
               /\ e[k] * w[k] \in Nat /\ u[k] * w[k] \in Nat
    <3>1. w[k] \in Nat /\ new[k] \in Nat /\ old[k] \in Nat /\ e[k] \in Nat /\ u[k] \in Nat
      BY ONLY <1>20, <1>21
    <3> QED BY <3>1, ProductNat
  <2> QED BY <2>1
<1>2. /\ T1(0) = 0 /\ T2(0) = 0 /\ T3(0) = 0 /\ T4(0) = 0
      /\ \A k \in 0..n - 1 : /\ T1(k + 1) = T1(k) + f1[k + 1]
                             /\ T2(k + 1) = T2(k) + f2[k + 1]
                             /\ T3(k + 1) = T3(k) + f3[k + 1]
                             /\ T4(k + 1) = T4(k) + f4[k + 1]
  <2>1. T1(0) = 0 /\ \A k \in 0..n - 1 : T1(k + 1) = T1(k) + f1[k + 1]
    BY PrefixSums
  <2>2. T2(0) = 0 /\ \A k \in 0..n - 1 : T2(k + 1) = T2(k) + f2[k + 1]
    BY PrefixSums
  <2>3. T3(0) = 0 /\ \A k \in 0..n - 1 : T3(k + 1) = T3(k) + f3[k + 1]
    BY PrefixSums
  <2>4. T4(0) = 0 /\ \A k \in 0..n - 1 : T4(k + 1) = T4(k) + f4[k + 1]
    BY PrefixSums
  <2> HIDE DEF T1, T2, T3, T4, f1, f2, f3, f4
  <2> QED BY <2>1, <2>2, <2>3, <2>4
<1>3. \A k \in 0..n : T1(k) \in Nat /\ T2(k) \in Nat /\ T3(k) \in Nat /\ T4(k) \in Nat
  <2> HIDE DEF f1, f2, f3, f4
  <2> QED BY <1>1, TotalNat
<1>4. ASSUME NEW k \in 1..n
      PROVE  /\ f1[k] = w[k] * new[k] /\ f2[k] = w[k] * old[k]
             /\ A < k /\ k <= c => f3[k] = e[k] * w[k] /\ f4[k] = u[k] * w[k]
             /\ k <= A \/ c < k => f3[k] = 0 /\ f4[k] = 0
  <2>1. f1[k] = w[k] * new[k] /\ f2[k] = w[k] * old[k]
    OBVIOUS
  <2>2. A < k /\ k <= c => k \in A + 1..c
    OBVIOUS
  <2>3. k <= A \/ c < k => k \notin A + 1..c
    OBVIOUS
  <2>4. k \in A + 1..c => f3[k] = e[k] * w[k] /\ f4[k] = u[k] * w[k]
    BY Zenon
  <2>5. k \notin A + 1..c => f3[k] = 0 /\ f4[k] = 0
    BY Zenon
  <2> HIDE DEF f1, f2, f3, f4
  <2> QED BY <2>1, <2>2, <2>3, <2>4, <2>5
<1> HIDE DEF T1, T2, T3, T4, f1, f2, f3, f4
<1>5. 0 \in S
  BY <1>2
<1>6. ASSUME NEW k \in 0..n - 1, k \in S
      PROVE  k + 1 \in S
  <2> DEFINE j == k + 1
             x == w[j]
             y == old[j]
             mj == m[j]
             uj == u[j]
             ej == e[j]
             s == w[k]
  <2>1. j \in 1..n /\ j - 1 = k /\ k \in 0..n /\ A \in Nat /\ c \in Nat
    OBVIOUS
  <2>2. /\ x \in Nat /\ y \in Nat /\ mj \in Nat /\ uj \in Nat /\ ej \in Nat /\ s \in Nat
        /\ s = (mj + uj + ej) * x
        /\ f1[j] = x * new[j] /\ f2[j] = x * y
        /\ T1(j) = T1(k) + f1[j] /\ T2(j) = T2(k) + f2[j]
        /\ T3(j) = T3(k) + f3[j] /\ T4(j) = T4(k) + f4[j]
        /\ T1(k) \in Nat /\ T2(k) \in Nat /\ T3(k) \in Nat /\ T4(k) \in Nat
    <3>1. x \in Nat /\ y \in Nat /\ mj \in Nat /\ uj \in Nat /\ ej \in Nat /\ s \in Nat
      <4>1. w[k] \in Nat
        <5>1. \A i \in 0..n : w[i] \in Nat
          BY <1>0
        <5> QED BY ONLY <2>1, <5>1
      <4>2. w[j] \in Nat /\ old[j] \in Nat /\ m[j] \in Nat /\ u[j] \in Nat /\ e[j] \in Nat
        BY ONLY <1>20, <1>21, <2>1
      <4> QED BY ONLY <4>1, <4>2
    <3>2. s = (mj + uj + ej) * x
      BY <2>1
    <3>3. f1[j] = x * new[j] /\ f2[j] = x * y
      BY <1>4, <2>1
    <3>4. /\ T1(j) = T1(k) + f1[j] /\ T2(j) = T2(k) + f2[j]
          /\ T3(j) = T3(k) + f3[j] /\ T4(j) = T4(k) + f4[j]
      BY <1>2
    <3>5. T1(k) \in Nat /\ T2(k) \in Nat /\ T3(k) \in Nat /\ T4(k) \in Nat
      BY <1>3, <2>1
    <3> QED BY <3>1, <3>2, <3>3, <3>4, <3>5
  <2>3. T1(k) = T2(k) + v(k) + T3(k) + T4(k)
    BY <1>6
  <2>4. /\ j < A \/ j >= c => new[j] = y
        /\ j = A => new[j] = y + 1
        /\ A < j /\ j < c => y = uj + mj - 1 /\ new[j] = uj
    BY <2>1
  <2>5. /\ A < j /\ j <= c => f3[j] = ej * x /\ f4[j] = uj * x
        /\ j <= A \/ c < j => f3[j] = 0 /\ f4[j] = 0
    BY <1>4, <2>1
  <2>6. x * y \in Nat /\ mj * x \in Nat /\ uj * x \in Nat /\ ej * x \in Nat
        /\ s = mj * x + uj * x + ej * x
        /\ x * (y + 1) = x * y + x /\ x * uj = uj * x
        /\ x * (uj + mj - 1) = uj * x + mj * x - x
    <3> HIDE DEF x, y, mj, uj, ej, s
    <3> QED BY ONLY <2>2, SplitProduct
  <2>7. /\ j < A => v(j) = 0 /\ v(k) = 0
        /\ j = A => v(j) = x /\ v(k) = 0
        /\ A < j /\ j < c => v(j) = x /\ v(k) = s
        /\ j = c => v(j) = mj * x /\ v(k) = s
        /\ c < j => v(j) = v(k)
    <3>1. j < A => j < A /\ k < A
      BY <2>1
    <3>2. j = A => ~(j < A) /\ j < c /\ k < A
      BY <2>1
    <3>3. A < j /\ j < c => ~(j < A) /\ j < c /\ ~(k < A) /\ k < c
      BY <2>1
    <3>4. j = c => ~(j < A) /\ ~(j < c) /\ ~(k < A) /\ k < c
      BY <2>1
    <3>5. c < j => ~(j < A) /\ ~(j < c) /\ ~(k < A) /\ ~(k < c)
      BY <2>1
    <3>6. v(k) = IF k < A THEN 0 ELSE IF k < c THEN s ELSE m[c] * w[c]
      OBVIOUS
    <3>7. v(j) = IF j < A THEN 0 ELSE IF j < c THEN x ELSE m[c] * w[c]
      OBVIOUS
    <3>8. j = c => m[c] * w[c] = mj * x
      BY Zenon
    <3> HIDE DEF v, x, s, mj
    <3> QED BY ONLY <3>1, <3>2, <3>3, <3>4, <3>5, <3>6, <3>7, <3>8, Zenon
  <2> HIDE DEF j, x, y, mj, uj, ej, s, v, S
  <2> DEFINE xy == x * y
             mx == mj * x
             ux == uj * x
             ex == ej * x
             g == new[j]
  <2>9. /\ xy \in Nat /\ mx \in Nat /\ ux \in Nat /\ ex \in Nat /\ s = mx + ux + ex
        /\ f2[j] = xy /\ f1[j] = x * g
        /\ x * (y + 1) = xy + x /\ x * uj = ux
        /\ x * (uj + mj - 1) = ux + mx - x
    BY ONLY <2>2, <2>6
  <2>10. /\ A < j /\ j <= c => f3[j] = ex /\ f4[j] = ux
         /\ j <= A \/ c < j => f3[j] = 0 /\ f4[j] = 0
         /\ j = c => v(j) = mx
    BY ONLY <2>5, <2>7
  <2> HIDE DEF xy, mx, ux, ex, g
  <2>11. /\ j < A \/ j >= c => f1[j] = xy
         /\ j = A => f1[j] = xy + x
         /\ A < j /\ j < c => f1[j] = ux /\ xy = ux + mx - x
    <3>1. j < A \/ j >= c => g = y
      BY <2>4 DEF g
    <3>2. j = A => g = y + 1
      BY <2>4 DEF g
    <3>3. A < j /\ j < c => y = uj + mj - 1 /\ g = uj
      BY <2>4 DEF g
    <3>4. xy = x * y
      BY DEF xy
    <3> QED BY ONLY <2>9, <3>1, <3>2, <3>3, <3>4, Zenon
  <2>12. /\ T1(j) = T1(k) + f1[j] /\ T2(j) = T2(k) + f2[j]
         /\ T3(j) = T3(k) + f3[j] /\ T4(j) = T4(k) + f4[j]
         /\ T1(k) \in Nat /\ T2(k) \in Nat /\ T3(k) \in Nat /\ T4(k) \in Nat
         /\ x \in Nat /\ s \in Nat /\ j \in Int
    BY ONLY <2>1, <2>2
  <2>13. j \in Int /\ A \in Int /\ c \in Int /\ A < c
    BY <2>1
  <2>14. v(k) \in Int
    <3>1. m[c] \in Nat /\ w[c] \in Nat /\ w[k] \in Int
      <4>1. c \in 1..n /\ \A i \in 0..n : w[i] \in Nat
        BY <1>0
      <4>2. m[c] \in Nat /\ w[c] \in Nat
        BY ONLY <1>20, <1>21, <4>1
      <4>3. w[k] \in Int
        BY ONLY <2>1, <4>1
      <4> QED BY ONLY <4>2, <4>3
    <3>2. m[c] * w[c] \in Int
      BY ONLY <3>1, ProductNat
    <3>3. v(k) = 0 \/ v(k) = w[k] \/ v(k) = m[c] * w[c]
      BY Zenon DEF v
    <3>4. 0 \in Int
      OBVIOUS
    <3> QED BY <3>1, <3>2, <3>3, <3>4, Zenon
  <2>15. /\ s = mx + ux + ex /\ f2[j] = xy
         /\ xy \in Int /\ mx \in Int /\ ux \in Int /\ ex \in Int /\ x \in Int
    BY ONLY <2>9, <2>12
  <2>8. T1(j) = T2(j) + v(j) + T3(j) + T4(j)
    <3>1. CASE j < A
      <4>1. f1[j] = xy /\ f3[j] = 0 /\ f4[j] = 0 /\ v(j) = 0 /\ v(k) = 0
        BY ONLY <2>7, <2>10, <2>11, <2>13, <3>1
      <4> QED BY ONLY <2>3, <2>12, <2>15, <4>1
    <3>2. CASE j = A
      <4>1. f1[j] = xy + x /\ f3[j] = 0 /\ f4[j] = 0 /\ v(j) = x /\ v(k) = 0
        BY ONLY <2>7, <2>10, <2>11, <2>13, <3>2
      <4> QED BY ONLY <2>3, <2>12, <2>15, <4>1
    <3>3. CASE A < j /\ j < c
      <4>1. f1[j] = ux /\ xy = ux + mx - x /\ f3[j] = ex /\ f4[j] = ux /\ v(j) = x /\ v(k) = s
        BY ONLY <2>7, <2>10, <2>11, <2>13, <3>3
      <4>2. T1(k) = T2(k) + (mx + ux + ex) + T3(k) + T4(k)
        BY ONLY <2>3, <2>15, <4>1, Zenon
      <4>3. T1(j) = T1(k) + ux /\ T2(j) = T2(k) + (ux + mx - x) /\ T3(j) = T3(k) + ex
            /\ T4(j) = T4(k) + ux
        BY ONLY <2>12, <2>15, <4>1, Zenon
      <4>5. T1(k) \in Int /\ T2(k) \in Int /\ T3(k) \in Int /\ T4(k) \in Int
        BY ONLY <2>12
      <4>6. T1(k) + ux = (T2(k) + (ux + mx - x)) + x + (T3(k) + ex) + (T4(k) + ux)
        BY ONLY <2>15, <4>2, <4>5
      <4>4. T1(j) = T2(j) + x + T3(j) + T4(j)
        BY ONLY <4>3, <4>6, Zenon
      <4> QED BY ONLY <4>1, <4>4, Zenon
    <3>4. CASE j = c
      <4>1. f1[j] = xy /\ f3[j] = ex /\ f4[j] = ux /\ v(j) = mx /\ v(k) = s
        BY ONLY <2>7, <2>10, <2>11, <2>13, <3>4
      <4>2. T1(k) = T2(k) + (mx + ux + ex) + T3(k) + T4(k)
        BY ONLY <2>3, <2>15, <4>1, Zenon
      <4>3. T1(j) = T1(k) + xy /\ T2(j) = T2(k) + xy /\ T3(j) = T3(k) + ex
            /\ T4(j) = T4(k) + ux
        BY ONLY <2>12, <2>15, <4>1, Zenon
      <4>5. T1(k) \in Int /\ T2(k) \in Int /\ T3(k) \in Int /\ T4(k) \in Int
        BY ONLY <2>12
      <4>6. T1(k) + xy = (T2(k) + xy) + mx + (T3(k) + ex) + (T4(k) + ux)
        BY ONLY <2>15, <4>2, <4>5
      <4>4. T1(j) = T2(j) + mx + T3(j) + T4(j)
        BY ONLY <4>3, <4>6, Zenon
      <4> QED BY ONLY <4>1, <4>4, Zenon
    <3>5. CASE c < j
      <4>1. f1[j] = xy /\ f3[j] = 0 /\ f4[j] = 0 /\ v(j) = v(k)
        BY ONLY <2>7, <2>10, <2>11, <2>13, <3>5
      <4> QED BY ONLY <2>3, <2>12, <2>15, <4>1, <2>14
    <3> QED BY ONLY <2>13, <3>1, <3>2, <3>3, <3>4, <3>5
  <2> QED BY <2>1, <2>8 DEF S, j
<1>7. v(n) = m[c] * w[c]
  OBVIOUS
<1> HIDE DEF S, v
<1>8. \A k \in 0..n : k \in S
  BY <1>5, <1>6, BoundedInduction
<1>9. T1(n) = T2(n) + m[c] * w[c] + T3(n) + T4(n)
  <2>1. n \in S
    BY <1>8
  <2>2. T1(n) = T2(n) + v(n) + T3(n) + T4(n)
    BY <2>1 DEF S
  <2> QED BY <1>7, <2>2
<1>10. First(f1, n) = f1 /\ First(f2, n) = f2 /\ First(f3, n) = f3 /\ First(f4, n) = f4
  BY <1>1, FirstIsAll
<1>11. Total(f1) = Total(f2) + m[c] * w[c] + Total(f3) + Total(f4)
  BY <1>9, <1>10, Zenon DEF T1, T2, T3, T4
<1> QED BY <1>11, Zenon DEF f1, f2, f3, f4, Weighted, Among

(* a tensor whose axes have what is kept of them, and some before and some *)
(* after it: the output with its pads, the input with what is cropped      *)
IsSide(n, dims, lead, trail) ==
  /\ n \in Nat \ {0} /\ Axes = 1..n /\ DOMAIN call.dims = 1..n
  /\ call.bytes \in Nat \ {0}
  /\ dims \in [1..n -> Nat] /\ lead \in [1..n -> Nat] /\ trail \in [1..n -> Nat]
  /\ MinShape \in [1..n -> Nat]
  /\ \A k \in 1..n : dims[k] = MinShape[k] + lead[k] + trail[k]
(* What is added and cut off at the end of each axis.                      *)
PadsAfter == [a \in Axes |-> Positive(call.end[a])]
CropsAfter == [a \in Axes |-> -Negative(call.end[a])]
(* nothing is padded inside of axis c *)
Unpadded(n, c) == \A k \in c + 1..n : call.start[k] = 0 /\ call.end[k] = 0

(* Both the padded tensor and the cropped one are cut on each axis into a  *)
(* lead, the common part and a trail.                                      *)
LEMMA Sides ==
  ASSUME NEW n, PadFacts(n)
  PROVE  /\ IsSide(n, PaddedDims, PadsOut, PadsAfter)
         /\ IsSide(n, call.dims, CropsIn, CropsAfter)
         /\ \A k \in 1..n : call.start[k] = 0 /\ call.end[k] = 0 =>
              /\ PadsOut[k] = 0 /\ PadsAfter[k] = 0 /\ CropsIn[k] = 0 /\ CropsAfter[k] = 0
<1>1. /\ n \in Nat \ {0} /\ Axes = 1..n /\ DOMAIN call.dims = 1..n
      /\ call.bytes \in Nat \ {0}
      /\ PaddedDims \in [1..n -> Nat] /\ call.dims \in [1..n -> Nat]
      /\ MinShape \in [1..n -> Nat]
  BY DEF PadFacts
<1>2. ASSUME NEW k \in 1..n
      PROVE  /\ PaddedDims[k] = MinShape[k] + PadsOut[k] + PadsAfter[k]
             /\ call.dims[k] = MinShape[k] + CropsIn[k] + CropsAfter[k]
             /\ PadsOut[k] \in Nat /\ PadsAfter[k] \in Nat
             /\ CropsIn[k] \in Nat /\ CropsAfter[k] \in Nat
             /\ call.start[k] = 0 /\ call.end[k] = 0 =>
                  /\ PadsOut[k] = 0 /\ PadsAfter[k] = 0 /\ CropsIn[k] = 0 /\ CropsAfter[k] = 0
  <2>1. /\ PadsOut[k] = Positive(call.start[k]) /\ PadsAfter[k] = Positive(call.end[k])
        /\ CropsIn[k] = -Negative(call.start[k]) /\ CropsAfter[k] = -Negative(call.end[k])
    BY <1>1 DEF PadsOut, PadsAfter, CropsIn, CropsAfter
  <2>2. /\ PaddedDims[k] = MinShape[k] + Positive(call.start[k]) + Positive(call.end[k])
        /\ call.dims[k] = MinShape[k] - Negative(call.start[k]) - Negative(call.end[k])
        /\ Positive(call.start[k]) \in Nat /\ Positive(call.end[k]) \in Nat
        /\ -Negative(call.start[k]) \in Nat /\ -Negative(call.end[k]) \in Nat
    BY DEF PadFacts
  <2>3. Negative(call.start[k]) \in Int /\ Negative(call.end[k]) \in Int /\ MinShape[k] \in Nat
    <3>1. call.start[k] \in Int /\ call.end[k] \in Int
      BY DEF PadFacts
    <3> QED BY <1>1, <3>1 DEF Negative
  <2>4. call.start[k] = 0 /\ call.end[k] = 0 =>
          /\ Positive(call.start[k]) = 0 /\ Positive(call.end[k]) = 0
          /\ -Negative(call.start[k]) = 0 /\ -Negative(call.end[k]) = 0
    <3>1. Positive(0) = 0
      BY DEF Positive
    <3>2. Negative(0) = 0
      BY DEF Negative
    <3>3. -Negative(0) = 0
      BY <3>2
    <3> QED BY <3>1, <3>3, Zenon
  <2> QED BY <2>1, <2>2, <2>3, <2>4
<1>3. /\ PadsOut \in [1..n -> Nat] /\ PadsAfter \in [1..n -> Nat]
      /\ CropsIn \in [1..n -> Nat] /\ CropsAfter \in [1..n -> Nat]
  <2>1. \A k \in 1..n : /\ Positive(call.start[k]) \in Nat /\ Positive(call.end[k]) \in Nat
                        /\ -Negative(call.start[k]) \in Nat /\ -Negative(call.end[k]) \in Nat
    BY DEF PadFacts
  <2> QED BY <1>1, <2>1 DEF PadsOut, PadsAfter, CropsIn, CropsAfter
<1> QED BY <1>1, <1>2, <1>3 DEF IsSide

(* The rows of a padding start at an axis after which nothing is padded.   *)
LEMMA ConsecutiveIsAxis ==
  ASSUME NEW n, PadFacts(n)
  PROVE  ConsecutiveAxis \in 1..n /\ Unpadded(n, ConsecutiveAxis)
<1> DEFINE S == {n} \cup {c \in Axes : \A i \in c..n : call.start[i] = 0 /\ call.end[i] = 0}
<1>1. n = Len(call.dims) /\ n \in Nat \ {0} /\ Axes = 1..n
  BY DEF PadFacts
<1>2. ConsecutiveAxis = Min(S)
  BY <1>1 DEF ConsecutiveAxis
<1>3. S \subseteq 1..n /\ S \subseteq Nat /\ S # {}
  BY <1>1
<1>4. \A c \in S : \A i \in c + 1..n : call.start[i] = 0 /\ call.end[i] = 0
  BY <1>1
<1> HIDE DEF S
<1>5. Min(S) \in S
  <2>1. \E m \in S : \A k \in S : m <= k
    BY <1>3, LeastElement
  <2> QED BY <2>1 DEF Min
<1> QED BY <1>2, <1>3, <1>4, <1>5 DEF Unpadded

(* a row is what is kept of axis c *)
LEMMA RowIsAcross ==
  ASSUME NEW n, NEW dims, NEW lead, NEW trail, IsSide(n, dims, lead, trail), n = Len(call.dims),
         NEW c \in 1..n, \A k \in c + 1..n : lead[k] = 0 /\ trail[k] = 0
  PROVE  RowBytes(c) = MinShape[c] * Stride(dims, c) /\ RowBytes(c) \in Nat
<1>1. /\ n \in Nat /\ MinShape \in [1..n -> Nat] /\ dims \in [1..n -> Nat]
      /\ call.bytes \in Nat /\ DOMAIN call.dims = 1..n /\ n - c \in Nat
  BY DEF IsSide
<1>2. Len(MinShape) = n /\ Len(dims) = n
  BY <1>1
<1>3. RowBytes(c) = Stride(MinShape, c - 1)
  <2>1. c - 1 + 1 = c
    OBVIOUS
  <2> QED BY <1>2, <2>1 DEF RowBytes, Stride
<1>4. Stride(MinShape, c - 1) = MinShape[c] * Stride(MinShape, c) /\ Stride(MinShape, c) \in Nat
  <2>1. \A i \in 1..n : Stride(MinShape, i - 1) = MinShape[i] * Stride(MinShape, i)
    BY <1>1, StrideStep
  <2>2. \A i \in 0..n : Stride(MinShape, i) \in Nat
    BY <1>1, StrideStep
  <2> QED BY <2>1, <2>2
<1>5. Stride(MinShape, c) = Stride(dims, c)
  <2>0. \A ms \in [1..n -> Nat] : SubSeq(ms, c + 1, Len(ms)) = [j \in 1..n - c |-> ms[c + j]]
    <3> SUFFICES ASSUME NEW ms \in [1..n -> Nat]
                 PROVE  SubSeq(ms, c + 1, Len(ms)) = [j \in 1..n - c |-> ms[c + j]]
      OBVIOUS
    <3>1. c \in 0..n
      BY <1>1
    <3> QED BY <1>1, <3>1, Suffix
  <2>1. SubSeq(MinShape, c + 1, Len(MinShape)) = [j \in 1..n - c |-> MinShape[c + j]]
    BY <1>1, <2>0
  <2>2. SubSeq(dims, c + 1, Len(dims)) = [j \in 1..n - c |-> dims[c + j]]
    BY <1>1, <2>0
  <2>3. ASSUME NEW j \in 1..n - c
        PROVE  MinShape[c + j] = dims[c + j]
    <3>1. c + j \in c + 1..n /\ c + j \in 1..n
      BY <1>1
    <3>2. lead[c + j] = 0 /\ trail[c + j] = 0 /\ MinShape[c + j] \in Nat
      BY <1>1, <3>1
    <3>3. dims[c + j] = MinShape[c + j] + lead[c + j] + trail[c + j]
      BY <3>1 DEF IsSide
    <3> QED BY <3>2, <3>3
  <2>4. [j \in 1..n - c |-> MinShape[c + j]] = [j \in 1..n - c |-> dims[c + j]]
    BY <2>3
  <2> QED BY <2>1, <2>2, <2>4 DEF Stride
<1>6. MinShape[c] \in Nat
  BY <1>1
<1> DEFINE x == MinShape[c]
           y == Stride(MinShape, c)
<1>7. x * y \in Nat
  BY <1>4, <1>6, ProductNat
<1> QED BY <1>3, <1>4, <1>5, <1>7

(* the place of a row *)
Place2(dims, lead, w, c) == Offset(dims, Digits(w, c, lead))

(* A row whose index is below the common shape lies in the tensor.         *)
LEMMA PlaceInside ==
  ASSUME NEW n, NEW dims, NEW lead, NEW trail, IsSide(n, dims, lead, trail), n = Len(call.dims),
         NEW c \in 1..n, \A k \in c + 1..n : lead[k] = 0 /\ trail[k] = 0,
         NEW w, w.index \in [Axes -> Nat], \A a \in Axes : a < c => w.index[a] < MinShape[a]
  PROVE  /\ Place2(dims, lead, w, c) \in Nat
         /\ Place2(dims, lead, w, c) + RowBytes(c) <= call.bytes * Product(dims)
<1>1. /\ n \in Nat \ {0} /\ MinShape \in [1..n -> Nat] /\ dims \in [1..n -> Nat] /\ Axes = 1..n
      /\ lead \in [1..n -> Nat] /\ trail \in [1..n -> Nat] /\ call.bytes \in Nat
  BY DEF IsSide
<1> DEFINE s == [k \in 0..n |-> Stride(dims, k)]
           d == Digits(w, c, lead)
           ns == [i \in 1..n |-> s[i] * d[i]]
           T(k) == Total(First(ns, k))
           x == [i \in 1..c - 1 |-> d[i]]
<1>2. /\ \A k \in 0..n : s[k] \in Nat
      /\ s[0] = call.bytes * Product(dims)
      /\ \A k \in 1..n : s[k - 1] = dims[k] * s[k]
  <2>1. /\ Stride(dims, 0) = call.bytes * Product(dims)
        /\ \A i \in 1..n : Stride(dims, i - 1) = dims[i] * Stride(dims, i)
        /\ \A i \in 0..n : Stride(dims, i) \in Nat
    BY <1>1, StrideStep
  <2>2. \A i \in 0..n : s[i] = Stride(dims, i)
    OBVIOUS
  <2>3. 0 \in 0..n /\ \A k \in 1..n : k \in 0..n /\ k - 1 \in 0..n
    BY <1>1
  <2> HIDE DEF s
  <2>4. \A i \in 0..n : s[i] \in Nat
    BY <2>1, <2>2
  <2>5. s[0] = call.bytes * Product(dims)
    BY <2>1, <2>2, <2>3
  <2>6. ASSUME NEW k \in 1..n
        PROVE  s[k - 1] = dims[k] * s[k]
    <3>1. s[k - 1] = Stride(dims, k - 1) /\ s[k] = Stride(dims, k)
      BY <2>2, <2>3
    <3>2. Stride(dims, k - 1) = dims[k] * Stride(dims, k)
      BY <2>1
    <3> QED BY <3>1, <3>2, Zenon
  <2> QED BY <2>4, <2>5, <2>6
<1>3. d \in [1..n -> Nat] /\ d[c] = lead[c] /\ \A k \in c + 1..n : d[k] = 0
  BY <1>1 DEF Digits
<1>4. ASSUME NEW k \in 1..c - 1
      PROVE  d[k] + 1 <= dims[k]
  <2>1. k \in 1..n /\ k < c
    BY <1>1
  <2>2. d[k] = lead[k] + w.index[k] /\ w.index[k] < MinShape[k] /\ w.index[k] \in Nat
    BY <1>1, <2>1 DEF Digits
  <2>3. dims[k] = MinShape[k] + lead[k] + trail[k]
    BY <2>1 DEF IsSide
  <2>4. MinShape[k] \in Nat /\ lead[k] \in Nat /\ trail[k] \in Nat
    BY <1>1, <2>1
  <2> HIDE DEF d
  <2> QED BY <2>2, <2>3, <2>4
<1>5. Place2(dims, lead, w, c) = Total(ns)
  <2>1. ns = [a \in Axes |-> Stride(dims, a) * d[a]]
    BY <1>1
  <2> QED BY <2>1 DEF Place2, Offset
<1> HIDE DEF s, d
<1>6. \A k \in 0..c - 1 : /\ Total(First([i \in 1..c - 1 |-> s[i] * x[i]], k)) \in Nat
                          /\ Total(First([i \in 1..c - 1 |-> s[i] * x[i]], k)) + s[k] <= s[0]
  <2>1. c - 1 \in Nat /\ x \in [1..c - 1 -> Nat] /\ \A k \in 0..c - 1 : s[k] \in Nat
    BY <1>1, <1>2, <1>3
  <2>2. ASSUME NEW k \in 1..c - 1
        PROVE  (x[k] + 1) * s[k] <= s[k - 1]
    <3>1. k \in 1..n /\ x[k] = d[k]
      BY <1>1
    <3>2. d[k] + 1 \in Nat /\ dims[k] \in Nat /\ d[k] + 1 <= dims[k] /\ s[k] \in Nat
      <4>1. d[k] \in Nat /\ dims[k] \in Nat
        BY <1>1, <1>3, <3>1
      <4>2. s[k] \in Nat
        BY <1>2, <3>1
      <4>3. d[k] + 1 <= dims[k]
        BY <1>4
      <4> QED BY ONLY <4>1, <4>2, <4>3
    <3>3. (d[k] + 1) * s[k] <= dims[k] * s[k]
      BY ONLY <3>2, ProductMonotone
    <3>4. s[k - 1] = dims[k] * s[k]
      BY <1>2, <3>1
    <3> HIDE DEF x
    <3> QED BY ONLY <3>1, <3>3, <3>4
  <2> HIDE DEF x
  <2> QED BY <2>1, <2>2, DigitsBound
<1>7. T(c - 1) = Total(First([i \in 1..c - 1 |-> s[i] * x[i]], c - 1))
  <2>1. First(ns, c - 1) = [i \in 1..c - 1 |-> s[i] * d[i]]
    BY <1>1 DEF First
  <2>2. First([i \in 1..c - 1 |-> s[i] * x[i]], c - 1) = [i \in 1..c - 1 |-> s[i] * d[i]]
    BY <1>1 DEF First
  <2> QED BY <2>1, <2>2
<1>8. T(c - 1) \in Nat /\ T(c - 1) + s[c - 1] <= s[0]
  <2>1. c - 1 \in 0..c - 1
    BY <1>1
  <2> HIDE DEF T, x
  <2> QED BY <1>6, <1>7, <2>1
<1>9. \A k \in 1..n : ns[k] = s[k] * d[k]
  OBVIOUS
<1>10. \A k \in 0..n - 1 : T(k + 1) = T(k) + ns[k + 1]
  <2> HIDE DEF ns
  <2>1. DOMAIN ns = 1..n
    BY DEF ns
  <2> QED BY <1>1, <2>1, PrefixSums
<1>11. First(ns, n) = ns
  BY <1>1 DEF First
<1> HIDE DEF T, ns
<1>12. T(c) = T(c - 1) + s[c] * lead[c]
  <2>1. c - 1 \in 0..n - 1 /\ c - 1 + 1 = c
    BY <1>1
  <2>2. T(c) = T(c - 1) + ns[c]
    BY <1>10, <2>1
  <2> QED BY <1>3, <1>9, <2>2
<1>13. T(n) = T(c)
  <2> DEFINE U == {k \in 0..n - c : T(c + k) = T(c)}
  <2>1. 0 \in U
    BY <1>1
  <2>2. ASSUME NEW k \in 0..n - c - 1, k \in U
        PROVE  k + 1 \in U
    <3>1. c + k \in 0..n - 1 /\ c + k + 1 \in c + 1..n /\ c + k + 1 \in 1..n /\ k + 1 \in 0..n - c
          /\ c + (k + 1) = c + k + 1
      BY <1>1
    <3>2. T(c + k + 1) = T(c + k) + ns[c + k + 1]
      BY <1>10, <3>1
    <3>3. ns[c + k + 1] = 0
      <4>1. d[c + k + 1] = 0 /\ s[c + k + 1] \in Nat
        BY <1>2, <1>3, <3>1
      <4>2. ns[c + k + 1] = s[c + k + 1] * d[c + k + 1]
        BY <1>9, <3>1
      <4> QED BY <4>1, <4>2
    <3>4. T(c) \in Nat
      <4>1. s[c] \in Nat /\ lead[c] \in Nat
        BY <1>1, <1>2
      <4>2. s[c] * lead[c] \in Nat
        BY ONLY <4>1, ProductNat
      <4> QED BY <1>8, <1>12, <4>2
    <3>5. T(c + (k + 1)) = T(c)
      BY <2>2, <3>1, <3>2, <3>3, <3>4
    <3> QED BY <3>1, <3>5
  <2>3. n - c \in Nat
    BY <1>1
  <2> HIDE DEF U
  <2>4. \A k \in 0..n - c : k \in U
    BY <2>1, <2>2, <2>3, BoundedInduction
  <2>5. n - c \in U
    BY <2>3, <2>4
  <2>6. c + (n - c) = n
    BY <1>1
  <2> QED BY <2>5, <2>6 DEF U
<1>14. RowBytes(c) = MinShape[c] * s[c]
  <2>1. RowBytes(c) = MinShape[c] * Stride(dims, c)
    BY RowIsAcross
  <2>2. s[c] = Stride(dims, c)
    BY <1>1 DEF s
  <2> QED BY <2>1, <2>2
<1>15. s[c] * lead[c] \in Nat /\ MinShape[c] * s[c] \in Nat
       /\ s[c] * lead[c] + MinShape[c] * s[c] <= s[c - 1]
  <2> DEFINE a == s[c]
             l == lead[c]
             m == MinShape[c]
             t == trail[c]
  <2>1. a \in Nat /\ l \in Nat /\ m \in Nat /\ t \in Nat
    BY <1>1, <1>2
  <2>2. s[c - 1] = (m + l + t) * a
    <3>1. s[c - 1] = dims[c] * s[c]
      BY <1>2
    <3>2. dims[c] = m + l + t
      BY DEF IsSide
    <3> QED BY <3>1, <3>2
  <2> HIDE DEF a, l, m, t
  <2>3. /\ (m + l + t) * a = m * a + l * a + t * a /\ a * l = l * a
        /\ m * a \in Nat /\ l * a \in Nat /\ t * a \in Nat
    BY ONLY <2>1, SplitProduct
  <2>4. a * l \in Nat /\ m * a \in Nat /\ a * l + m * a <= s[c - 1]
    BY ONLY <2>2, <2>3
  <2> QED BY <2>4 DEF a, l, m, t
<1>16. Place2(dims, lead, w, c) = T(c - 1) + s[c] * lead[c]
  BY <1>5, <1>11, <1>12, <1>13 DEF T
<1> DEFINE y == s[c] * lead[c]
           z == MinShape[c] * s[c]
           q == T(c - 1)
           r == s[c - 1]
           all == call.bytes * Product(dims)
<1>17. y \in Nat /\ z \in Nat /\ q \in Nat /\ r \in Nat /\ all \in Nat /\ y + z <= r /\ q + r <= all
  <2>1. c - 1 \in 0..n /\ 0 \in 0..n
    BY <1>1
  <2>2. r \in Nat /\ s[0] \in Nat /\ s[0] = all
    BY <1>2, <2>1
  <2> QED BY <1>8, <1>15, <2>2
<1>18. Place2(dims, lead, w, c) = q + y /\ RowBytes(c) = z
  BY <1>14, <1>16
<1> HIDE DEF y, z, q, r, all
<1>19. q + y \in Nat /\ q + y + z <= all
  BY ONLY <1>17
<1> QED BY <1>18, <1>19 DEF all

(* what the pads of some axes take *)
Skipped(n, dims, pads, axes) ==
  [k \in 1..n |-> IF k \in axes THEN pads[k] * Stride(dims, k) ELSE 0]

(* the pads of the axes up to one, and of those after another *)
LEMMA PaddedIs ==
  ASSUME NEW n, PadFacts(n), NEW axes
  PROVE  /\ Padded(call.start, axes) = Total(Skipped(n, PaddedDims, PadsOut, axes))
         /\ Padded(call.end, axes) = Total(Skipped(n, PaddedDims, PadsAfter, axes))
         /\ Cropped(call.start, axes) = Total(Skipped(n, call.dims, CropsIn, axes))
         /\ Cropped(call.end, axes) = Total(Skipped(n, call.dims, CropsAfter, axes))
<1>1. Axes = 1..n
  BY DEF PadFacts
<1>2. \A k \in 1..n : PadsOut[k] = Positive(call.start[k])
  BY <1>1 DEF PadsOut
<1>3. \A k \in 1..n : PadsAfter[k] = Positive(call.end[k])
  BY <1>1 DEF PadsAfter
<1>4. \A k \in 1..n : CropsIn[k] = -Negative(call.start[k])
  BY <1>1 DEF CropsIn
<1>5. \A k \in 1..n : CropsAfter[k] = -Negative(call.end[k])
  BY <1>1 DEF CropsAfter
<1>6. Padded(call.start, axes)
        = Total([k \in 1..n |-> IF k \in axes THEN PadsOut[k] * Stride(PaddedDims, k) ELSE 0])
  BY <1>1, <1>2 DEF Padded
<1>7. Padded(call.end, axes)
        = Total([k \in 1..n |-> IF k \in axes THEN PadsAfter[k] * Stride(PaddedDims, k) ELSE 0])
  BY <1>1, <1>3 DEF Padded
<1>10. \A k \in 1..n : \A m \in Int :
         -m \in Nat => -m * Stride(call.dims, k) = (-m) * Stride(call.dims, k)
  <2>1. \A k \in 0..n : Stride(call.dims, k) \in Nat
    <3>1. n \in Nat /\ call.dims \in [1..n -> Nat] /\ call.bytes \in Nat
      BY DEF PadFacts
    <3> QED BY <3>1, StrideStep
  <2>2. \A k \in 1..n : k \in 0..n
    OBVIOUS
  <2>3. \A m, x \in Int : -m * x = (-m) * x
    OBVIOUS
  <2> QED BY <2>1, <2>2, <2>3
<1>11. \A k \in 1..n : /\ Negative(call.start[k]) \in Int /\ -Negative(call.start[k]) \in Nat
                       /\ Negative(call.end[k]) \in Int /\ -Negative(call.end[k]) \in Nat
  <2> SUFFICES ASSUME NEW k \in 1..n
               PROVE  /\ Negative(call.start[k]) \in Int /\ -Negative(call.start[k]) \in Nat
                      /\ Negative(call.end[k]) \in Int /\ -Negative(call.end[k]) \in Nat
    OBVIOUS
  <2>1. call.start[k] \in Int /\ call.end[k] \in Int
    BY DEF PadFacts
  <2> QED BY <2>1 DEF Negative
<1>8. Cropped(call.start, axes)
        = Total([k \in 1..n |-> IF k \in axes THEN CropsIn[k] * Stride(call.dims, k) ELSE 0])
  <2>1. \A k \in 1..n : -Negative(call.start[k]) * Stride(call.dims, k)
                         = CropsIn[k] * Stride(call.dims, k)
    BY <1>4, <1>10, <1>11, Zenon
  <2>2. [k \in Axes |-> IF k \in axes THEN -Negative(call.start[k]) * Stride(call.dims, k) ELSE 0]
          = [k \in 1..n |-> IF k \in axes THEN CropsIn[k] * Stride(call.dims, k) ELSE 0]
    BY <1>1, <2>1, Zenon
  <2> QED BY <2>2, Zenon DEF Cropped
<1>9. Cropped(call.end, axes)
        = Total([k \in 1..n |-> IF k \in axes THEN CropsAfter[k] * Stride(call.dims, k) ELSE 0])
  <2>1. \A k \in 1..n : -Negative(call.end[k]) * Stride(call.dims, k)
                         = CropsAfter[k] * Stride(call.dims, k)
    BY <1>5, <1>10, <1>11, Zenon
  <2>2. [k \in Axes |-> IF k \in axes THEN -Negative(call.end[k]) * Stride(call.dims, k) ELSE 0]
          = [k \in 1..n |-> IF k \in axes THEN CropsAfter[k] * Stride(call.dims, k) ELSE 0]
    BY <1>1, <2>1, Zenon
  <2> QED BY <2>2, Zenon DEF Cropped
<1> QED BY <1>6, <1>7, <1>8, <1>9, Zenon DEF Skipped

(* The strides of a tensor.                                                *)
LEMMA SideStrides ==
  ASSUME NEW n, NEW dims, NEW lead, NEW trail, IsSide(n, dims, lead, trail)
  PROVE  /\ Stride(dims, 0) = call.bytes * Product(dims)
         /\ \A i \in 1..n : Stride(dims, i - 1) = dims[i] * Stride(dims, i)
         /\ \A i \in 0..n : Stride(dims, i) \in Nat
<1>1. n \in Nat /\ dims \in [1..n -> Nat] /\ call.bytes \in Nat
  BY DEF IsSide
<1> QED BY <1>1, StrideStep

(* the place of the first row of all *)
LEMMA FirstPlace ==
  ASSUME NEW n, NEW dims, NEW lead, NEW trail, IsSide(n, dims, lead, trail), NEW c \in 1..n,
         NEW w, w.index = [i \in Axes |-> 0]
  PROVE  Place2(dims, lead, w, c)
           = Total(Skipped(n, dims, lead, 1..c))
<1>1. n \in Nat /\ Axes = 1..n /\ lead \in [1..n -> Nat]
  BY DEF IsSide
<1> DEFINE d == Digits(w, c, lead)
<1>2. ASSUME NEW k \in 1..n
      PROVE  Stride(dims, k) * d[k] = IF k \in 1..c THEN lead[k] * Stride(dims, k) ELSE 0
  <2>1. d[k] = IF k \in 1..c THEN lead[k] ELSE 0
    <3>1. lead[k] \in Nat /\ w.index[k] = 0
      BY <1>1
    <3> QED BY <1>1, <3>1 DEF Digits
  <2>2. Stride(dims, k) \in Nat /\ lead[k] \in Nat
    <3>1. k \in 0..n
      BY <1>1
    <3> QED BY <1>1, <3>1, SideStrides
  <2> DEFINE s == Stride(dims, k)
             l == lead[k]
  <2> HIDE DEF d, s, l
  <2>3. s * l = l * s /\ s * 0 = 0
    <3>1. s \in Nat /\ l \in Nat
      BY <2>2 DEF s, l
    <3> QED BY ONLY <3>1
  <2>4. CASE k \in 1..c
    <3>1. d[k] = l
      BY <2>1, <2>4 DEF l
    <3> QED BY <2>3, <2>4, <3>1, Zenon DEF s, l
  <2>5. CASE k \notin 1..c
    <3>1. d[k] = 0
      BY <2>1, <2>5
    <3> QED BY <2>3, <2>5, <3>1, Zenon DEF s
  <2> QED BY <2>4, <2>5
<1> HIDE DEF d
<1>3. [k \in Axes |-> Stride(dims, k) * d[k]]
        = [k \in 1..n |-> IF k \in 1..c THEN lead[k] * Stride(dims, k) ELSE 0]
  BY <1>1, <1>2
<1> QED BY <1>3, Zenon DEF Place2, Offset, Skipped, d

(* The first row is where its index says.                                  *)
LEMMA FirstRowIsRow ==
  ASSUME NEW n, PadFacts(n), NEW c \in 1..n
  PROVE  IsRow(FirstRow(c), c)
<1>1. n \in Nat /\ Axes = 1..n /\ call.to \in Nat /\ call.from \in Nat
  BY DEF PadFacts
<1> DEFINE w == FirstRow(c)
           pads == Padded(call.start, 1..c)
           crops == Cropped(call.start, 1..c)
<1>2. w = [in |-> call.from + crops, out |-> call.to + pads, index |-> [i \in Axes |-> 0]]
  <2> HIDE DEF pads, crops
  <2>1. w = Into([in |-> call.from, out |-> call.to, index |-> [i \in Axes |-> 0]], 1..c)
    BY DEF FirstRow
  <2> QED BY <2>1 DEF Into, pads, crops
<1> HIDE DEF w
<1>3. w.in = call.from + crops /\ w.out = call.to + pads /\ w.index = [i \in Axes |-> 0]
  BY <1>2
<1>4. pads = Place2(PaddedDims, PadsOut, w, c)
  <2>1. IsSide(n, PaddedDims, PadsOut, PadsAfter)
    BY Sides
  <2>2. pads = Total(Skipped(n, PaddedDims, PadsOut, 1..c))
    BY PaddedIs
  <2> HIDE DEF pads
  <2> QED BY <1>3, <2>1, <2>2, FirstPlace
<1>5. crops = Place2(call.dims, CropsIn, w, c)
  <2>1. IsSide(n, call.dims, CropsIn, CropsAfter)
    BY Sides
  <2>2. crops = Total(Skipped(n, call.dims, CropsIn, 1..c))
    BY PaddedIs
  <2> HIDE DEF crops
  <2> QED BY <1>3, <2>1, <2>2, FirstPlace
<1>6. \A a \in Axes : IF a < c THEN w.index[a] < MinShape[a] ELSE w.index[a] = 0
  <2>1. ASSUME NEW a \in 1..n, a < c
        PROVE  MinShape[a] > 0
    <3>1. a # n
      BY <1>1, <2>1
    <3> QED BY <2>1, <3>1 DEF PadFacts
  <2>2. \A a \in Axes : w.index[a] = 0
    BY <1>3
  <2> QED BY <1>1, <2>1, <2>2
<1>7. w = [in |-> w.in, out |-> w.out, index |-> w.index]
  BY <1>2, <1>3
<1>8. w.index \in [Axes -> Nat]
  BY <1>3
<1> HIDE DEF pads, crops
<1> QED BY <1>3, <1>4, <1>5, <1>6, <1>7, <1>8 DEF IsRow, Place2, w

(* w is a row of which v, one further along axis A, is the next *)
Follows(n, c, A, w, v) ==
  /\ A \in 1..c - 1
  /\ w.index \in [1..n -> Nat] /\ v.index \in [1..n -> Nat]
  /\ \A k \in 1..n : /\ k < A => v.index[k] = w.index[k]
                     /\ k = A => v.index[k] = w.index[k] + 1
                     /\ k > A => v.index[k] = 0
                     /\ A < k /\ k < c => w.index[k] = MinShape[k] - 1

(* the place of the row after one, whose index of axis A can go up *)
LEMMA NextPlace ==
  ASSUME NEW n, n = Len(call.dims), NEW dims, NEW lead, NEW trail, IsSide(n, dims, lead, trail),
         NEW c \in 1..n, \A k \in c + 1..n : lead[k] = 0 /\ trail[k] = 0,
         NEW A, NEW w, NEW v, Follows(n, c, A, w, v)
  PROVE  Place2(dims, lead, v, c)
           = Place2(dims, lead, w, c) + RowBytes(c)
               + Total(Skipped(n, dims, trail, A + 1..c)) + Total(Skipped(n, dims, lead, A + 1..c))
<1>0. /\ A \in 1..c - 1 /\ w.index \in [1..n -> Nat] /\ v.index \in [1..n -> Nat]
      /\ \A k \in 1..n : /\ k < A => v.index[k] = w.index[k]
                         /\ k = A => v.index[k] = w.index[k] + 1
                         /\ k > A => v.index[k] = 0
                         /\ A < k /\ k < c => w.index[k] = MinShape[k] - 1
  BY DEF Follows
<1>1. /\ n \in Nat /\ Axes = 1..n /\ lead \in [1..n -> Nat] /\ trail \in [1..n -> Nat]
      /\ MinShape \in [1..n -> Nat] /\ dims \in [1..n -> Nat]
  BY DEF IsSide
<1> DEFINE s == [k \in 0..n |-> Stride(dims, k)]
           old == Digits(w, c, lead)
           new == Digits(v, c, lead)
<1>2. (\A k \in 0..n : s[k] \in Nat) /\ \A k \in 0..n : s[k] = Stride(dims, k)
  BY SideStrides
<1> HIDE DEF s
<1>3. ASSUME NEW k \in 1..n
      PROVE  dims[k] = MinShape[k] + lead[k] + trail[k] /\ s[k - 1] = dims[k] * s[k]
  <2>1. s[k - 1] = Stride(dims, k - 1) /\ s[k] = Stride(dims, k)
    <3>1. k - 1 \in 0..n /\ k \in 0..n
      BY <1>1
    <3> QED BY <1>2, <3>1
  <2>2. Stride(dims, k - 1) = dims[k] * Stride(dims, k)
    BY SideStrides
  <2>3. dims[k] = MinShape[k] + lead[k] + trail[k]
    BY DEF IsSide
  <2> QED BY <2>1, <2>2, <2>3, Zenon
<1>4. old \in [1..n -> Nat] /\ new \in [1..n -> Nat]
  <2>1. ASSUME NEW x, x.index \in [1..n -> Nat]
        PROVE  Digits(x, c, lead) \in [1..n -> Nat]
    <3>1. ASSUME NEW k \in 1..n
          PROVE  lead[k] \in Nat /\ x.index[k] \in Nat
      BY <1>1, <2>1
    <3>2. Digits(x, c, lead)
            = [k \in 1..n |-> IF k < c THEN lead[k] + x.index[k] ELSE IF k = c THEN lead[k] ELSE 0]
      BY <1>1 DEF Digits
    <3> QED BY <3>1, <3>2
  <2> QED BY <1>0, <2>1
<1>5. ASSUME NEW k \in 1..n
      PROVE  /\ k < A \/ k >= c => new[k] = old[k]
             /\ k = A => new[k] = old[k] + 1
             /\ A < k /\ k < c => old[k] = lead[k] + MinShape[k] - 1 /\ new[k] = lead[k]
  <2>1. /\ k < c => old[k] = lead[k] + w.index[k] /\ new[k] = lead[k] + v.index[k]
        /\ k >= c => new[k] = old[k]
    BY <1>1 DEF Digits
  <2>2. /\ k < A => v.index[k] = w.index[k]
        /\ k = A => v.index[k] = w.index[k] + 1
        /\ k > A => v.index[k] = 0
        /\ A < k /\ k < c => w.index[k] = MinShape[k] - 1
    BY <1>0
  <2>3. lead[k] \in Nat /\ w.index[k] \in Nat /\ v.index[k] \in Nat /\ MinShape[k] \in Nat
        /\ k \in Nat /\ A \in Nat /\ c \in Nat /\ A < c
    <3>1. lead[k] \in Nat /\ MinShape[k] \in Nat
      BY <1>1
    <3>2. w.index[k] \in Nat /\ v.index[k] \in Nat
      BY <1>0
    <3>3. k \in Nat /\ A \in Nat /\ c \in Nat /\ A < c
      BY <1>0, <1>1
    <3> QED BY <3>1, <3>2, <3>3
  <2> HIDE DEF old, new
  <2> QED BY ONLY <2>1, <2>2, <2>3
<1> HIDE DEF old, new
<1>6. Total(Weighted(n, s, new))
        = Total(Weighted(n, s, old)) + MinShape[c] * s[c]
            + Total(Among(n, s, trail, A + 1..c)) + Total(Among(n, s, lead, A + 1..c))
  <2>1. \A k \in 0..n : s[k] \in Nat
    BY <1>2
  <2>2. \A k \in 1..n : dims[k] = MinShape[k] + lead[k] + trail[k] /\ s[k - 1] = dims[k] * s[k]
    BY <1>3
  <2>3. \A k \in 1..n : GoesUp(k, A, c, MinShape, lead, old, new)
    BY <1>5, Zenon DEF GoesUp
  <2>4. c \in 1..n /\ A \in 1..c - 1
    BY <1>0
  <2>5. IsCarry(n, s, dims, MinShape, lead, trail, c, A, old, new)
    <3>1. n \in Nat /\ \A k \in 0..n : s[k] \in Nat
      BY <1>1, <2>1, Zenon
    <3>2. /\ dims \in [1..n -> Nat] /\ MinShape \in [1..n -> Nat]
          /\ lead \in [1..n -> Nat] /\ trail \in [1..n -> Nat]
      BY <1>1, Zenon
    <3> QED BY ONLY <1>4, <2>2, <2>3, <2>4, <3>1, <3>2, Zenon DEF IsCarry
  <2> QED BY <2>5, Carry
<1>7. \A k \in 1..n : s[k] = Stride(dims, k)
  <2>1. \A k \in 1..n : k \in 0..n
    OBVIOUS
  <2> QED BY <1>2, <2>1
<1>8. /\ Weighted(n, s, new) = [k \in 1..n |-> Stride(dims, k) * new[k]]
      /\ Weighted(n, s, old) = [k \in 1..n |-> Stride(dims, k) * old[k]]
      /\ Among(n, s, trail, A + 1..c) = Skipped(n, dims, trail, A + 1..c)
      /\ Among(n, s, lead, A + 1..c) = Skipped(n, dims, lead, A + 1..c)
  BY <1>7, Zenon DEF Weighted, Among, Skipped
<1>9. /\ Place2(dims, lead, v, c) = Total([k \in 1..n |-> Stride(dims, k) * new[k]])
      /\ Place2(dims, lead, w, c) = Total([k \in 1..n |-> Stride(dims, k) * old[k]])
  BY <1>1, Zenon DEF Place2, Offset, old, new
<1>10. RowBytes(c) = MinShape[c] * s[c]
  <2>1. RowBytes(c) = MinShape[c] * Stride(dims, c)
    BY RowIsAcross
  <2> QED BY <1>7, <2>1
<1> QED BY <1>6, <1>8, <1>9, <1>10, Zenon

(* Two lists one after the other.                                          *)
LEMMA Joined ==
  ASSUME NEW u \in Seq(Nat), NEW v \in Seq(Nat)
  PROVE  /\ u \o v \in Seq(Nat) /\ Len(u \o v) = Len(u) + Len(v)
         /\ \A k \in 1..Len(u) + Len(v) :
              (u \o v)[k] = IF k <= Len(u) THEN u[k] ELSE v[k - Len(u)]
  OBVIOUS

(* An index with digit A one higher and those after it 0.                  *)
Bumped(x, A) == SubSeq(x, 1, A - 1) \o <<x[A] + 1>> \o [k \in 1..Len(x) - A |-> 0]

(* The index of the next row: one digit goes up and those after it start   *)
(* at 0.                                                                   *)
LEMMA NextIndex ==
  ASSUME NEW n \in Nat, NEW x \in [1..n -> Nat], NEW A \in 1..n
  PROVE  /\ Bumped(x, A) \in [1..n -> Nat]
         /\ \A k \in 1..n : /\ k < A => Bumped(x, A)[k] = x[k]
                            /\ k = A => Bumped(x, A)[k] = x[k] + 1
                            /\ k > A => Bumped(x, A)[k] = 0
<1> DEFINE y == Bumped(x, A)
           u == SubSeq(x, 1, A - 1)
           v == <<x[A] + 1>>
           z == [i \in 1..n - A |-> 0]
<1>1. x \in Seq(Nat) /\ Len(x) = n
  OBVIOUS
<1>2. u \in Seq(Nat) /\ Len(u) = A - 1 /\ \A k \in 1..A - 1 : u[k] = x[k]
  BY <1>1
<1>3. v \in Seq(Nat) /\ Len(v) = 1 /\ v[1] = x[A] + 1
  OBVIOUS
<1>4. z \in Seq(Nat) /\ Len(z) = n - A /\ \A k \in 1..n - A : z[k] = 0
  OBVIOUS
<1>5. y = (u \o v) \o z
  BY <1>1 DEF Bumped
<1> HIDE DEF u, v, z, y
<1>6. u \o v \in Seq(Nat) /\ Len(u \o v) = A /\ (u \o v)[A] = x[A] + 1
      /\ \A k \in 1..A - 1 : (u \o v)[k] = x[k]
  <2>0. u \in Seq(Nat) /\ v \in Seq(Nat) /\ Len(u) + Len(v) = A
    BY <1>2, <1>3
  <2>1. u \o v \in Seq(Nat) /\ Len(u \o v) = A
    BY <2>0, Joined
  <2>2. \A k \in 1..A : (u \o v)[k] = IF k <= Len(u) THEN u[k] ELSE v[k - Len(u)]
    BY <2>0, Joined
  <2>6. A \in 1..A /\ ~(A <= Len(u))
    BY <1>2
  <2>3. (u \o v)[A] = v[A - Len(u)]
    BY <2>2, <2>6
  <2>4. A - Len(u) = 1
    BY <1>2
  <2>5. \A k \in 1..A - 1 : (u \o v)[k] = u[k]
    BY <1>2, <2>2
  <2> QED BY <1>2, <1>3, <2>1, <2>3, <2>4, <2>5
<1> DEFINE h == u \o v
<1> HIDE DEF h
<1>7. h \in Seq(Nat) /\ Len(h) = A /\ h[A] = x[A] + 1 /\ \A k \in 1..A - 1 : h[k] = x[k]
  BY <1>6 DEF h
<1>10. y = h \o z /\ Len(h) + Len(z) = n
  <2>1. y = h \o z
    BY <1>5, Zenon DEF h
  <2>2. Len(h) + Len(z) = n
    BY <1>4, <1>7
  <2> QED BY <2>1, <2>2
<1>8. y \in Seq(Nat) /\ Len(y) = n
  BY <1>4, <1>7, <1>10, Joined
<1>9. \A k \in 1..n : y[k] = IF k <= A THEN h[k] ELSE z[k - A]
  <2>1. \A k \in 1..Len(h) + Len(z) :
          (h \o z)[k] = IF k <= Len(h) THEN h[k] ELSE z[k - Len(h)]
    BY <1>4, <1>7, Joined
  <2> QED BY <1>7, <1>10, <2>1, Zenon
<1>11. ASSUME NEW k \in 1..n
       PROVE  /\ y[k] \in Nat
              /\ k < A => y[k] = x[k]
              /\ k = A => y[k] = x[k] + 1
              /\ k > A => y[k] = 0
  <2>1. CASE k < A
    <3>1. y[k] = h[k] /\ h[k] = x[k] /\ x[k] \in Nat
      BY <1>7, <1>9, <2>1
    <3> QED BY <2>1, <3>1
  <2>2. CASE k = A
    <3>1. y[k] = h[k] /\ h[k] = x[k] + 1 /\ x[k] \in Nat
      BY <1>7, <1>9, <2>2
    <3> QED BY <2>2, <3>1
  <2>3. CASE k > A
    <3>1. k - A \in 1..n - A
      BY <2>3
    <3>2. ~(k <= A) /\ ~(k < A) /\ k # A
      BY <2>3
    <3>3. y[k] = z[k - A]
      BY <1>9, <3>2, Zenon
    <3>4. y[k] = 0
      BY <1>4, <3>1, <3>3, Zenon
    <3> QED BY ONLY <3>2, <3>4
  <2>4. k < A \/ k = A \/ k > A
    OBVIOUS
  <2> QED BY ONLY <2>1, <2>2, <2>3, <2>4
<1>12. y \in [1..n -> Nat]
  BY ONLY <1>8
<1> QED BY <1>11, <1>12, Zenon DEF y

(* The digit that goes up is the last one below its end; those after it    *)
(* are at theirs.                                                          *)
LEMMA LastOpen ==
  ASSUME NEW n, PadFacts(n), NEW c \in 1..n, NEW w, IsRow(w, c), Open(w, c) # {}
  PROVE  LET A == Max(Open(w, c))
         IN  /\ A \in 1..c - 1 /\ w.index[A] + 1 < MinShape[A]
             /\ \A k \in 1..n : A < k /\ k < c => w.index[k] = MinShape[k] - 1
<1> DEFINE S == Open(w, c)
           A == Max(S)
<1>1. n \in Nat /\ Axes = 1..n /\ MinShape \in [1..n -> Nat] /\ w.index \in [Axes -> Nat]
      /\ \A a \in Axes : IF a < c THEN w.index[a] < MinShape[a] ELSE w.index[a] = 0
  BY DEF PadFacts, IsRow
<1>2. S \subseteq Int /\ \A x \in S : x <= c - 1 /\ x \in 1..c - 1 /\ w.index[x] + 1 < MinShape[x]
  BY DEF Open
<1>3. A \in S /\ \A x \in S : x <= A
  <2>1. c - 1 \in Int
    BY <1>1
  <2> HIDE DEF S
  <2> QED BY <1>2, <2>1, GreatestElement DEF S
<1>4. ASSUME NEW k \in 1..n, A < k, k < c
      PROVE  w.index[k] = MinShape[k] - 1
  <2>1. k \notin S
    <3>1. A \in Int
      BY <1>2, <1>3
    <3> HIDE DEF S, A
    <3> QED BY <1>3, <1>4, <3>1
  <2>2. k \in 1..c - 1
    BY <1>1, <1>4
  <2>3. ~(w.index[k] + 1 < MinShape[k])
    BY <2>1, <2>2 DEF Open
  <2>4. w.index[k] \in Nat /\ MinShape[k] \in Nat /\ w.index[k] < MinShape[k]
    BY <1>1, <1>4
  <2> QED BY <2>3, <2>4
<1>5. A \in 1..c - 1 /\ w.index[A] + 1 < MinShape[A]
  BY <1>2, <1>3
<1> QED BY <1>4, <1>5

(* a row after row w, whose index of axis A went up *)
Advanced(n, A, w, v) ==
  /\ v.index \in [1..n -> Nat]
  /\ \A k \in 1..n : /\ k < A => v.index[k] = w.index[k]
                     /\ k = A => v.index[k] = w.index[k] + 1
                     /\ k > A => v.index[k] = 0
ByAway(w, di, do) == [w EXCEPT !.in = @ + di, !.out = @ + do]
Indexed(w, x) == [w EXCEPT !.index = x]

(* Moving a row and indexing it.                                           *)
LEMMA RowMoved ==
  ASSUME NEW i, NEW o, NEW x, NEW w, w = [in |-> i, out |-> o, index |-> x], NEW y, NEW di, NEW do
  PROVE  /\ ByAway(w, di, do) = [in |-> i + di, out |-> o + do, index |-> x]
         /\ Indexed(w, y) = [in |-> i, out |-> o, index |-> y]
<1>1. w.in = i /\ w.out = o /\ w.index = x /\ DOMAIN w = {"in", "out", "index"}
  OBVIOUS
<1>2. Indexed(w, y) = [in |-> i, out |-> o, index |-> y]
  BY DEF Indexed
<1> DEFINE v == [w EXCEPT !.in = w.in + di, !.out = w.out + do]
<1>3. ByAway(w, di, do) = v
  BY DEF ByAway
<1>4. v = [in |-> i + di, out |-> o + do, index |-> x]
  <2> DEFINE a == i + di
             b == o + do
  <2>1. v = [w EXCEPT !.in = a, !.out = b]
    BY <1>1
  <2> HIDE DEF v, a, b
  <2>2. v = [in |-> a, out |-> b, index |-> x]
    BY <2>1
  <2> QED BY <2>2 DEF a, b
<1> QED BY <1>2, <1>3, <1>4, Zenon

(* How far the two pointers of a padding go from one row to the next.      *)
LEMMA NextRowIs ==
  ASSUME NEW n \in Nat, NEW c, NEW w, w = [in |-> w.in, out |-> w.out, index |-> w.index],
         w.index \in [1..n -> Nat], NEW A \in 1..n, A = Max(Open(w, c)), NEW v, v = NextRow(w, c)
  PROVE  /\ v = [in |-> v.in, out |-> v.out, index |-> v.index]
         /\ v.in = w.in + RowBytes(c) + Cropped(call.end, A + 1..c) + Cropped(call.start, A + 1..c)
         /\ v.out = w.out + RowBytes(c) + Padded(call.end, A + 1..c) + Padded(call.start, A + 1..c)
         /\ Advanced(n, A, w, v)
<1> DEFINE r == RowBytes(c)
           ce == Cropped(call.end, A + 1..c)
           cs == Cropped(call.start, A + 1..c)
           pe == Padded(call.end, A + 1..c)
           ps == Padded(call.start, A + 1..c)
           past == ByAway(w, r, r)
           left == ByAway(past, ce, pe)
           turned == Indexed(left, Bumped(left.index, A))
           next == ByAway(turned, cs, ps)
<1>1. v = next
  BY Zenon DEF NextRow, Into, OutOf, ByAway, Indexed, Bumped
<1> HIDE DEF r, ce, cs, pe, ps
<1>2. past = [in |-> w.in + r, out |-> w.out + r, index |-> w.index]
  BY RowMoved
<1> HIDE DEF past
<1>3. left = [in |-> w.in + r + ce, out |-> w.out + r + pe, index |-> w.index]
  BY ONLY <1>2, RowMoved
<1> HIDE DEF left
<1>4. left.index = w.index
  BY ONLY <1>3
<1> DEFINE z == Bumped(w.index, A)
<1>5. turned = Indexed(left, z)
  BY ONLY <1>4
<1> HIDE DEF turned, z
<1>6. turned = [in |-> w.in + r + ce, out |-> w.out + r + pe, index |-> z]
  BY ONLY <1>3, <1>5, RowMoved
<1>7. next = [in |-> w.in + r + ce + cs, out |-> w.out + r + pe + ps, index |-> z]
  BY ONLY <1>6, RowMoved
<1> HIDE DEF next
<1>8. /\ v = [in |-> v.in, out |-> v.out, index |-> v.index]
      /\ v.in = w.in + r + ce + cs /\ v.out = w.out + r + pe + ps /\ v.index = z
  BY ONLY <1>1, <1>7
<1>10. /\ z \in [1..n -> Nat]
       /\ \A k \in 1..n : /\ k < A => z[k] = w.index[k]
                          /\ k = A => z[k] = w.index[k] + 1
                          /\ k > A => z[k] = 0
  BY NextIndex DEF z
<1>11. Advanced(n, A, w, v)
  BY ONLY <1>8, <1>10, Zenon DEF Advanced
<1> QED BY <1>8, <1>11, Zenon DEF r, ce, cs, pe, ps

(* An axis without padding has neither lead nor trail.                     *)
LEMMA UnpaddedSides ==
  ASSUME NEW n, PadFacts(n), NEW c \in 1..n, Unpadded(n, c)
  PROVE  /\ \A k \in c + 1..n : PadsOut[k] = 0 /\ PadsAfter[k] = 0
         /\ \A k \in c + 1..n : CropsIn[k] = 0 /\ CropsAfter[k] = 0
<1> SUFFICES ASSUME NEW k \in c + 1..n
             PROVE  PadsOut[k] = 0 /\ PadsAfter[k] = 0 /\ CropsIn[k] = 0 /\ CropsAfter[k] = 0
  OBVIOUS
<1>1. n \in Nat
  BY DEF PadFacts
<1>2. k \in 1..n
  BY <1>1
<1>3. call.start[k] = 0 /\ call.end[k] = 0
  BY DEF Unpadded
<1> QED BY <1>2, <1>3, Sides

(* A row lies in the output, and the one it comes from in the input.       *)
LEMMA RowInts ==
  ASSUME NEW n, PadFacts(n), NEW c \in 1..n, Unpadded(n, c), NEW w, IsRow(w, c)
  PROVE  /\ w.out \in Nat /\ w.in \in Nat /\ RowBytes(c) \in Nat
         /\ w.out .. w.out + RowBytes(c) - 1 \subseteq call.to .. call.to + PadSize - 1
         /\ w.in .. w.in + RowBytes(c) - 1
              \subseteq call.from .. call.from + call.bytes * Product(call.dims) - 1
<1>1. n = Len(call.dims) /\ call.to \in Nat /\ call.from \in Nat /\ Axes = 1..n /\ n \in Nat
  BY DEF PadFacts
<1>2. /\ IsSide(n, PaddedDims, PadsOut, PadsAfter)
      /\ IsSide(n, call.dims, CropsIn, CropsAfter)
      /\ \A k \in c + 1..n : PadsOut[k] = 0 /\ PadsAfter[k] = 0
      /\ \A k \in c + 1..n : CropsIn[k] = 0 /\ CropsAfter[k] = 0
  BY Sides, UnpaddedSides
<1>3. w.index \in [Axes -> Nat] /\ \A a \in Axes : a < c => w.index[a] < MinShape[a]
  BY DEF IsRow
<1> DEFINE a == Place2(PaddedDims, PadsOut, w, c)
           b == Place2(call.dims, CropsIn, w, c)
           r == RowBytes(c)
           size == call.bytes * Product(call.dims)
<1>4. a \in Nat /\ a + r <= PadSize
  <2>1. a \in Nat /\ a + r <= call.bytes * Product(PaddedDims)
    BY <1>1, <1>2, <1>3, PlaceInside
  <2> QED BY <2>1 DEF PadSize
<1>5. b \in Nat /\ b + r <= size
  BY <1>1, <1>2, <1>3, PlaceInside
<1>6. r \in Nat
  BY <1>1, <1>2, RowIsAcross
<1>7. w.out = call.to + a /\ w.in = call.from + b
  BY Zenon DEF IsRow, Place2
<1>8. PadSize \in Nat /\ size \in Nat
  <2>1. PadSize \in Nat /\ call.dims \in [1..n -> Nat] /\ call.bytes \in Nat
    BY DEF PadFacts
  <2>2. Product(call.dims) \in Nat
    BY <1>1, <2>1, ProductIsNat
  <2> QED BY <2>1, <2>2, ProductNat
<1> HIDE DEF a, b, r, size
<1>9. /\ w.out .. w.out + r - 1 \subseteq call.to .. call.to + PadSize - 1
      /\ w.in .. w.in + r - 1 \subseteq call.from .. call.from + size - 1
  <2>1. \A at, x, l, m \in Nat : x + l <= m => at + x .. at + x + l - 1 \subseteq at .. at + m - 1
    OBVIOUS
  <2> QED BY ONLY <1>1, <1>4, <1>5, <1>6, <1>7, <1>8, <2>1
<1>10. w.out \in Nat /\ w.in \in Nat
  BY ONLY <1>1, <1>4, <1>5, <1>7
<1> QED BY <1>6, <1>9, <1>10 DEF r, size

(* The pointers of the next row are where its index says: the increments   *)
(* add up over any number of axes.                                         *)
LEMMA NextRowIsRow ==
  ASSUME NEW n, PadFacts(n), NEW c \in 1..n, Unpadded(n, c), NEW w, IsRow(w, c), Open(w, c) # {}
  PROVE  IsRow(NextRow(w, c), c)
<1>1. n = Len(call.dims) /\ n \in Nat /\ Axes = 1..n /\ call.to \in Nat /\ call.from \in Nat
      /\ MinShape \in [1..n -> Nat]
  BY DEF PadFacts
<1>2. /\ w = [in |-> w.in, out |-> w.out, index |-> w.index]
      /\ w.index \in [1..n -> Nat]
      /\ \A a \in Axes : IF a < c THEN w.index[a] < MinShape[a] ELSE w.index[a] = 0
      /\ w.out = call.to + Place2(PaddedDims, PadsOut, w, c)
      /\ w.in = call.from + Place2(call.dims, CropsIn, w, c)
  <2>1. w.index \in [1..n -> Nat]
    BY <1>1 DEF IsRow
  <2> QED BY <2>1, Zenon DEF IsRow, Place2
<1> DEFINE A == Max(Open(w, c))
           v == NextRow(w, c)
<1>3. /\ A \in 1..c - 1 /\ w.index[A] + 1 < MinShape[A]
      /\ \A k \in 1..n : A < k /\ k < c => w.index[k] = MinShape[k] - 1
  BY LastOpen, Zenon
<1> HIDE DEF A
<1>4. A \in 1..n
  BY <1>1, <1>3
<1>5. /\ v = [in |-> v.in, out |-> v.out, index |-> v.index]
      /\ v.in = w.in + RowBytes(c) + Cropped(call.end, A + 1..c) + Cropped(call.start, A + 1..c)
      /\ v.out = w.out + RowBytes(c) + Padded(call.end, A + 1..c) + Padded(call.start, A + 1..c)
      /\ Advanced(n, A, w, v)
  <2> HIDE DEF v
  <2>1. A = Max(Open(w, c)) /\ v = NextRow(w, c)
    BY DEF A, v
  <2> QED BY <1>1, <1>2, <1>4, <2>1, NextRowIs
<1> HIDE DEF v
<1>6. /\ IsSide(n, PaddedDims, PadsOut, PadsAfter)
      /\ IsSide(n, call.dims, CropsIn, CropsAfter)
      /\ \A k \in c + 1..n : PadsOut[k] = 0 /\ PadsAfter[k] = 0
      /\ \A k \in c + 1..n : CropsIn[k] = 0 /\ CropsAfter[k] = 0
  BY Sides, UnpaddedSides
<1>7. ASSUME NEW k \in 1..n
      PROVE  /\ k < A => v.index[k] = w.index[k]
             /\ k = A => v.index[k] = w.index[k] + 1
             /\ k > A => v.index[k] = 0
             /\ A < k /\ k < c => w.index[k] = MinShape[k] - 1
  BY <1>3, <1>5 DEF Advanced
<1> DEFINE a == Place2(PaddedDims, PadsOut, w, c)
           b == Place2(call.dims, CropsIn, w, c)
           r == RowBytes(c)
           pe == Total(Skipped(n, PaddedDims, PadsAfter, A + 1..c))
           ps == Total(Skipped(n, PaddedDims, PadsOut, A + 1..c))
           ce == Total(Skipped(n, call.dims, CropsAfter, A + 1..c))
           cs == Total(Skipped(n, call.dims, CropsIn, A + 1..c))
<1>8. v.index \in [1..n -> Nat]
  BY <1>5 DEF Advanced
<1>9. /\ Place2(PaddedDims, PadsOut, v, c) = a + r + pe + ps
      /\ Place2(call.dims, CropsIn, v, c) = b + r + ce + cs
  <2>1. Follows(n, c, A, w, v)
    BY <1>1, <1>2, <1>3, <1>7, <1>8, Zenon DEF Follows
  <2>2. n = Len(call.dims)
    BY <1>1
  <2> QED BY ONLY <1>6, <2>1, <2>2, c \in 1..n, NextPlace
<1>10. /\ Padded(call.end, A + 1..c) = pe /\ Padded(call.start, A + 1..c) = ps
       /\ Cropped(call.end, A + 1..c) = ce /\ Cropped(call.start, A + 1..c) = cs
  BY PaddedIs, Zenon
<1>11. a \in Int /\ b \in Int /\ r \in Int
  <2>1. w.index \in [Axes -> Nat] /\ \A d \in Axes : d < c => w.index[d] < MinShape[d]
    BY DEF IsRow
  <2>2. a \in Nat
    BY <1>1, <1>6, <2>1, PlaceInside
  <2>3. b \in Nat
    BY <1>1, <1>6, <2>1, PlaceInside
  <2>4. r \in Nat
    BY RowInts
  <2> QED BY <2>2, <2>3, <2>4
<1>12. \A dims, pads, s : dims \in [1..n -> Nat] /\ pads \in [1..n -> Nat] =>
         Total(Skipped(n, dims, pads, s)) \in Nat
  <2> SUFFICES ASSUME NEW dims \in [1..n -> Nat], NEW pads \in [1..n -> Nat], NEW s
               PROVE  Total(Skipped(n, dims, pads, s)) \in Nat
    OBVIOUS
  <2>1. call.bytes \in Nat
    BY DEF PadFacts
  <2>2. \A k \in 0..n : Stride(dims, k) \in Nat
    BY <1>1, <2>1, StrideStep
  <2>3. ASSUME NEW k \in 1..n
        PROVE  pads[k] * Stride(dims, k) \in Nat
    <3>1. pads[k] \in Nat /\ Stride(dims, k) \in Nat
      BY <1>1, <2>2
    <3> QED BY ONLY <3>1, ProductNat
  <2>4. Skipped(n, dims, pads, s) \in [1..n -> Nat]
    BY <2>3 DEF Skipped
  <2> QED BY <1>1, <2>4, TotalNat
<1>13. pe \in Int /\ ps \in Int /\ ce \in Int /\ cs \in Int
  <2>1. /\ PaddedDims \in [1..n -> Nat] /\ call.dims \in [1..n -> Nat]
        /\ PadsOut \in [1..n -> Nat] /\ PadsAfter \in [1..n -> Nat]
        /\ CropsIn \in [1..n -> Nat] /\ CropsAfter \in [1..n -> Nat]
    BY <1>6 DEF IsSide
  <2>2. pe \in Nat /\ ps \in Nat
    BY <1>12, <2>1
  <2>3. ce \in Nat /\ cs \in Nat
    BY <1>12, <2>1
  <2> QED BY <2>2, <2>3
<1>14. v.out = call.to + Place2(PaddedDims, PadsOut, v, c)
       /\ v.in = call.from + Place2(call.dims, CropsIn, v, c)
  <2> DEFINE vo == Place2(PaddedDims, PadsOut, v, c)
             vi == Place2(call.dims, CropsIn, v, c)
  <2>1. w.out = call.to + a /\ w.in = call.from + b
    BY <1>2, Zenon
  <2>2. v.out = w.out + r + pe + ps /\ v.in = w.in + r + ce + cs
    BY <1>5, <1>10, Zenon
  <2>3. vo = a + r + pe + ps /\ vi = b + r + ce + cs
    BY <1>9, Zenon
  <2>4. call.to \in Int /\ call.from \in Int
    BY <1>1
  <2> HIDE DEF pe, ps, ce, cs, a, b, r, vo, vi
  <2>5. v.out = call.to + vo /\ v.in = call.from + vi
    BY ONLY <1>11, <1>13, <2>1, <2>2, <2>3, <2>4
  <2> QED BY <2>5 DEF vo, vi
<1>15. \A k \in Axes : IF k < c THEN v.index[k] < MinShape[k] ELSE v.index[k] = 0
  <2> SUFFICES ASSUME NEW k \in 1..n
               PROVE  IF k < c THEN v.index[k] < MinShape[k] ELSE v.index[k] = 0
    BY <1>1
  <2>1. k < c => w.index[k] < MinShape[k]
    BY <1>1, <1>2
  <2>2. w.index[k] \in Nat /\ MinShape[k] \in Nat
    BY <1>1, <1>2
  <2>3. A \in Nat /\ k \in Nat /\ c \in Nat /\ A < c /\ w.index[A] + 1 < MinShape[A]
    BY <1>1, <1>3, <1>4
  <2>4. CASE k = A
    BY <1>7, <2>3, <2>4
  <2>5. CASE k < A
    BY <1>7, <2>1, <2>3, <2>5
  <2>6. CASE k > A
    BY <1>7, <2>1, <2>2, <2>3, <2>6
  <2> QED BY <2>3, <2>4, <2>5, <2>6
<1>16. v.index \in [Axes -> Nat]
  BY <1>1, <1>8
<1>17. v = [in |-> v.in, out |-> v.out, index |-> v.index]
  BY <1>5
<1>18. IsRow(v, c)
  BY <1>14, <1>15, <1>16, <1>17, Zenon DEF IsRow, Place2
<1> QED BY <1>18 DEF v

(* So every row of the filling is where its index says.                    *)
LEMMA RowsAreRows ==
  ASSUME NEW n, PadFacts(n), NEW c \in 1..n, Unpadded(n, c)
  PROVE  \A w \in Rows(c) : IsRow(w, c)
<1> DEFINE shape == SubSeq(MinShape, 1, c - 1)
           N == Product(shape) - 1
           ns == [k \in 1..N |-> k]
<1>1. n \in Nat /\ MinShape \in [1..n -> Nat] /\ \A a \in 1..n : a # n => MinShape[a] > 0
  BY DEF PadFacts
<1>2. N \in Nat
  <2>1. shape = [i \in 1..c - 1 |-> MinShape[i]]
    BY <1>1
  <2>2. \A i \in 1..c - 1 : MinShape[i] \in Nat \ {0}
    BY <1>1
  <2>3. shape \in [1..c - 1 -> Nat \ {0}] /\ c - 1 \in Nat
    <3>1. [i \in 1..c - 1 |-> MinShape[i]] \in [1..c - 1 -> Nat \ {0}]
      BY <2>2
    <3>2. c - 1 \in Nat
      BY <1>1
    <3> QED BY <2>1, <3>1, <3>2, Zenon
  <2> HIDE DEF shape
  <2>4. Product(shape) \in Nat \ {0}
    BY <2>3, PositiveProduct
  <2> QED BY <2>4
<1>3. Rows(c) = Folded(ns, "rows", c)
  BY RowsIsFold
<1>4. PICK m, ks : m \in Nat /\ DOMAIN ks = 1..m /\ Rows(c) = Folded(ks, "rows", c)
  <2> HIDE DEF N
  <2>1. DOMAIN ns = 1..N
    OBVIOUS
  <2> QED BY <1>2, <1>3, <2>1
<1>5. PICK g : /\ Folded(ks, "rows", c) = g[1..m]
               /\ g[{}] = Neutral("rows", c)
               /\ \A k \in 0..m - 1 : g[1..k + 1] = Combined("rows", c, g[1..k], ks[k + 1])
  <2>1. \E g : FoldsTo(g, m, ks, "rows", c)
    BY <1>4, FoldIsFold
  <2> QED BY <2>1, Zenon DEF FoldsTo
<1> DEFINE U == {k \in 0..m : \A w \in g[1..k] : IsRow(w, c)}
<1>6. IsRow(FirstRow(c), c)
  BY FirstRowIsRow
<1>7. 0 \in U
  <2>1. 1..0 = {}
    OBVIOUS
  <2>2. g[1..0] = {FirstRow(c)}
    BY <1>5, <2>1, Zenon DEF Neutral
  <2> QED BY <1>4, <1>6, <2>2
<1>8. ASSUME NEW k \in 0..m - 1, k \in U
      PROVE  k + 1 \in U
  <2>1. g[1..k + 1] = {FirstRow(c)} \cup {NextRow(w, c) : w \in {v \in g[1..k] : Open(v, c) # {}}}
    BY <1>5, Zenon DEF Combined
  <2>2. ASSUME NEW w \in g[1..k], Open(w, c) # {}
        PROVE  IsRow(NextRow(w, c), c)
    <3>1. IsRow(w, c)
      BY <1>8
    <3> QED BY <2>2, <3>1, NextRowIsRow
  <2>3. ASSUME NEW v \in g[1..k + 1]
        PROVE  IsRow(v, c)
    BY <1>6, <2>1, <2>2, Zenon
  <2>4. k + 1 \in 0..m
    BY <1>4
  <2> QED BY <2>3, <2>4
<1>9. \A k \in 0..m : k \in U
  <2> HIDE DEF U
  <2> QED BY <1>4, <1>7, <1>8, BoundedInduction
<1>10. m \in 0..m
  BY <1>4
<1> QED BY <1>4, <1>5, <1>9, <1>10

(* what Pad writes is in the output *)
PadBytes == call.to .. call.to + PadSize - 1

(* The bytes that a padding reads and writes.                              *)
LEMMA PadOutput ==
  ASSUME NEW n, PadFacts(n), call.op = "Pad"
  PROVE  /\ OutBytes = PadBytes /\ PadBytes \subseteq Memory
         /\ InBytes = call.from .. call.from + call.bytes * Product(call.dims) - 1
<1>1. call.to \in Nat /\ PadSize \in Nat /\ call.to + PadSize <= MemorySize /\ call.from \in Nat
      /\ MemorySize \in Nat
  BY SizesAssumption DEF PadFacts, InMemory
<1>2. call.bytes * Product(call.dims) \in Nat
  <2>1. call.dims \in [1..n -> Nat] /\ call.bytes \in Nat /\ n \in Nat
    BY DEF PadFacts
  <2>2. Product(call.dims) \in Nat
    BY <2>1, ProductIsNat
  <2> QED BY <2>1, <2>2, ProductNat
<1>3. OutBytes = call.to .. call.to - 1 + PadSize
  BY DEF OutBytes, Elementwise
<1>4. InBytes = call.from .. call.from - 1 + call.bytes * Product(call.dims)
  BY DEF InBytes, Elementwise
<1> DEFINE s == call.bytes * Product(call.dims)
<1>5. call.to - 1 + PadSize = call.to + PadSize - 1 /\ call.from - 1 + s = call.from + s - 1
  <2> HIDE DEF s
  <2> QED BY <1>1, <1>2 DEF s
<1>6. PadBytes \subseteq Memory
  BY <1>1 DEF PadBytes, Memory
<1> QED BY <1>3, <1>4, <1>5, <1>6 DEF PadBytes

(* The software filling of rows (__ll_aton_lib_pad_filling_sw) writes      *)
(* within the output.                                                      *)
LEMMA SwFillingSound ==
  ASSUME NEW n, PadFacts(n), NEW c \in 1..n, Unpadded(n, c), NEW m, Sound(m, PadBytes),
         PadBytes \subseteq Memory
  PROVE  /\ Sound(SwFilling(m, c), PadBytes)
         /\ SwFilling(m, c).ram = m.ram
         /\ SwFilling(m, c).dirty \subseteq m.dirty \cup LinesOf(PadBytes)
<1> DEFINE copies == {[dst |-> w.out, src |-> w.in, n |-> RowBytes(c)] : w \in Rows(c)}
<1>1. ASSUME NEW x \in copies
      PROVE  x.dst \in Int /\ x.n \in Int /\ x.dst .. x.dst + x.n - 1 \subseteq PadBytes
  <2>1. PICK w \in Rows(c) : x.dst = w.out /\ x.n = RowBytes(c)
    OBVIOUS
  <2>2. IsRow(w, c)
    BY RowsAreRows
  <2>3. w.out \in Nat /\ RowBytes(c) \in Nat /\ w.out .. w.out + RowBytes(c) - 1 \subseteq PadBytes
    BY <2>2, RowInts DEF PadBytes
  <2> QED BY <2>1, <2>3
<1>2. SwFilling(m, c) = Copied(m, copies)
  BY DEF SwFilling
<1> HIDE DEF copies
<1>3. Written(copies) \subseteq PadBytes
  BY <1>1, WrittenIn
<1>4. /\ Sound(Copied(m, copies), PadBytes)
      /\ Copied(m, copies).ram = m.ram
      /\ Copied(m, copies).dirty = m.dirty \cup LinesOf(Written(copies))
  BY <1>3, CopiedSound
<1>5. LinesOf(Written(copies)) \subseteq LinesOf(PadBytes)
  BY <1>3 DEF LinesOf
<1> QED BY <1>2, <1>4, <1>5

-----------------------------------------------------------------------------

(***************************************************************************)
(* The frames of a padding, and its filling by the CPU and by the          *)
(* engines.                                                                *)
(***************************************************************************)

(* the place of a row of an edge of axis a: what is before it on the outer *)
(* axes, the pads of the axis and those inside of it                       *)
LEMMA EdgePlace ==
  ASSUME NEW n, NEW dims, NEW lead, NEW trail, IsSide(n, dims, lead, trail), n = Len(call.dims),
         NEW a \in 1..n, NEW w, w.index \in [Axes -> Nat],
         \A k \in Axes : k < n => w.index[k] < MinShape[k],
         \A k \in a..n - 1 : w.index[k] = 0
  PROVE  \E q \in Nat :
           /\ Place2(dims, lead, w, n)
                = q + lead[a] * Stride(dims, a) + Total(Skipped(n, dims, lead, a + 1..n))
           /\ q + dims[a] * Stride(dims, a) <= call.bytes * Product(dims)
<1>1. /\ n \in Nat \ {0} /\ MinShape \in [1..n -> Nat] /\ dims \in [1..n -> Nat] /\ Axes = 1..n
      /\ lead \in [1..n -> Nat] /\ trail \in [1..n -> Nat] /\ call.bytes \in Nat
  BY DEF IsSide
<1> DEFINE s == [k \in 0..n |-> Stride(dims, k)]
           d == Digits(w, n, lead)
           ns == [i \in 1..n |-> s[i] * d[i]]
           sk == Skipped(n, dims, lead, a + 1..n)
           T(k) == Total(First(ns, k))
           B(k) == Total(First(sk, k))
           x == [i \in 1..a - 1 |-> d[i]]
<1>2. /\ \A k \in 0..n : s[k] \in Nat
      /\ s[0] = call.bytes * Product(dims)
      /\ \A k \in 1..n : s[k - 1] = dims[k] * s[k]
  <2>1. /\ Stride(dims, 0) = call.bytes * Product(dims)
        /\ \A i \in 1..n : Stride(dims, i - 1) = dims[i] * Stride(dims, i)
        /\ \A i \in 0..n : Stride(dims, i) \in Nat
    BY <1>1, StrideStep
  <2>2. \A i \in 0..n : s[i] = Stride(dims, i)
    OBVIOUS
  <2>3. 0 \in 0..n /\ \A k \in 1..n : k \in 0..n /\ k - 1 \in 0..n
    BY <1>1
  <2> HIDE DEF s
  <2>4. \A i \in 0..n : s[i] \in Nat
    BY <2>1, <2>2
  <2>5. s[0] = call.bytes * Product(dims)
    BY <2>1, <2>2, <2>3
  <2>6. ASSUME NEW k \in 1..n
        PROVE  s[k - 1] = dims[k] * s[k]
    <3>1. s[k - 1] = Stride(dims, k - 1) /\ s[k] = Stride(dims, k)
      BY <2>2, <2>3
    <3>2. Stride(dims, k - 1) = dims[k] * Stride(dims, k)
      BY <2>1
    <3> QED BY <3>1, <3>2, Zenon
  <2> QED BY <2>4, <2>5, <2>6
<1>3. d \in [1..n -> Nat] /\ \A k \in a..n : d[k] = lead[k]
  <2>1. d = [k \in 1..n |-> IF k < n THEN lead[k] + w.index[k] ELSE IF k = n THEN lead[k] ELSE 0]
    BY <1>1 DEF Digits
  <2>2. ASSUME NEW k \in 1..n
        PROVE  lead[k] \in Nat /\ w.index[k] \in Nat
    BY <1>1
  <2>3. ASSUME NEW k \in a..n
        PROVE  d[k] = lead[k]
    <3>1. k \in 1..n /\ (k = n \/ k \in a..n - 1)
      BY <1>1
    <3>2. k \in a..n - 1 => w.index[k] = 0
      OBVIOUS
    <3>3. lead[k] \in Nat
      BY <2>2, <3>1
    <3> QED BY <2>1, <3>1, <3>2, <3>3
  <2>4. d \in [1..n -> Nat]
    BY <2>1, <2>2
  <2> QED BY <2>3, <2>4
<1>4. ASSUME NEW k \in 1..a - 1
      PROVE  d[k] + 1 <= dims[k]
  <2>1. k \in 1..n /\ k < n
    BY <1>1
  <2>2. d[k] = lead[k] + w.index[k] /\ w.index[k] < MinShape[k] /\ w.index[k] \in Nat
    BY <1>1, <2>1 DEF Digits
  <2>3. dims[k] = MinShape[k] + lead[k] + trail[k]
    BY <2>1 DEF IsSide
  <2>4. MinShape[k] \in Nat /\ lead[k] \in Nat /\ trail[k] \in Nat
    BY <1>1, <2>1
  <2> HIDE DEF d
  <2> QED BY <2>2, <2>3, <2>4
<1>5. Place2(dims, lead, w, n) = Total(ns)
  <2>1. ns = [i \in Axes |-> Stride(dims, i) * d[i]]
    BY <1>1
  <2> QED BY <2>1 DEF Place2, Offset
<1>14. \A k \in 1..n : sk[k] = IF k \in a + 1..n THEN lead[k] * s[k] ELSE 0
  <2>1. \A k \in 1..n : s[k] = Stride(dims, k)
    OBVIOUS
  <2> HIDE DEF s
  <2> QED BY <2>1 DEF Skipped
<1> HIDE DEF s, d
<1>6. \A k \in 0..a - 1 : /\ Total(First([i \in 1..a - 1 |-> s[i] * x[i]], k)) \in Nat
                          /\ Total(First([i \in 1..a - 1 |-> s[i] * x[i]], k)) + s[k] <= s[0]
  <2>1. a - 1 \in Nat /\ x \in [1..a - 1 -> Nat] /\ \A k \in 0..a - 1 : s[k] \in Nat
    BY <1>1, <1>2, <1>3
  <2>2. ASSUME NEW k \in 1..a - 1
        PROVE  (x[k] + 1) * s[k] <= s[k - 1]
    <3>1. k \in 1..n /\ x[k] = d[k]
      BY <1>1
    <3>2. d[k] + 1 \in Nat /\ dims[k] \in Nat /\ d[k] + 1 <= dims[k] /\ s[k] \in Nat
      <4>1. d[k] \in Nat /\ dims[k] \in Nat
        BY <1>1, <1>3, <3>1
      <4>2. s[k] \in Nat
        BY <1>2, <3>1
      <4>3. d[k] + 1 <= dims[k]
        BY <1>4
      <4> QED BY ONLY <4>1, <4>2, <4>3
    <3>3. (d[k] + 1) * s[k] <= dims[k] * s[k]
      BY ONLY <3>2, ProductMonotone
    <3>4. s[k - 1] = dims[k] * s[k]
      BY <1>2, <3>1
    <3> HIDE DEF x
    <3> QED BY ONLY <3>1, <3>3, <3>4
  <2> HIDE DEF x
  <2> QED BY <2>1, <2>2, DigitsBound
<1>7. T(a - 1) = Total(First([i \in 1..a - 1 |-> s[i] * x[i]], a - 1))
  <2>1. First(ns, a - 1) = [i \in 1..a - 1 |-> s[i] * d[i]]
    BY <1>1 DEF First
  <2>2. First([i \in 1..a - 1 |-> s[i] * x[i]], a - 1) = [i \in 1..a - 1 |-> s[i] * d[i]]
    BY <1>1 DEF First
  <2> QED BY <2>1, <2>2
<1>8. T(a - 1) \in Nat /\ T(a - 1) + s[a - 1] <= s[0]
  <2>1. a - 1 \in 0..a - 1
    BY <1>1
  <2> HIDE DEF T, x
  <2> QED BY <1>6, <1>7, <2>1
<1>9. \A k \in 1..n : ns[k] = s[k] * d[k]
  OBVIOUS
<1>10. \A k \in 0..n - 1 : T(k + 1) = T(k) + ns[k + 1]
  <2> HIDE DEF ns
  <2>1. DOMAIN ns = 1..n
    BY DEF ns
  <2> QED BY <1>1, <2>1, PrefixSums
<1>11. First(ns, n) = ns /\ First(sk, n) = sk
  BY <1>1 DEF First, Skipped
<1>15. B(0) = 0 /\ \A k \in 0..n - 1 : B(k + 1) = B(k) + sk[k + 1]
  <2>1. DOMAIN sk = 1..n
    BY DEF Skipped
  <2> HIDE DEF sk
  <2> QED BY <1>1, <2>1, PrefixSums
<1>16. \A k \in 1..n : s[k] \in Nat /\ lead[k] \in Nat /\ d[k] \in Nat
  <2>1. ASSUME NEW k \in 1..n
        PROVE  s[k] \in Nat /\ lead[k] \in Nat /\ d[k] \in Nat
    <3>1. k \in 0..n
      BY <1>1
    <3>2. s[k] \in Nat
      BY <1>2, <3>1
    <3>3. lead[k] \in Nat /\ d[k] \in Nat
      BY <1>1, <1>3
    <3> QED BY <3>2, <3>3
  <2> QED BY <2>1
<1> HIDE DEF T, ns, B, sk
<1>12. T(a) = T(a - 1) + lead[a] * s[a] /\ T(a) \in Nat
  <2>1. a - 1 \in 0..n - 1 /\ a - 1 + 1 = a /\ a \in a..n /\ a \in 1..n
    BY <1>1
  <2>2. T(a) = T(a - 1) + ns[a]
    BY <1>10, <2>1
  <2>3. ns[a] = s[a] * lead[a]
    BY <1>3, <1>9, <2>1
  <2>4. s[a] * lead[a] = lead[a] * s[a] /\ lead[a] * s[a] \in Nat
    <3>1. s[a] \in Nat /\ lead[a] \in Nat
      BY <1>16
    <3> QED BY ONLY <3>1
  <2> QED BY <1>8, <2>2, <2>3, <2>4
<1>17. \A k \in 0..a : B(k) = 0
  <2> DEFINE U == {k \in 0..a : B(k) = 0}
  <2>1. 0 \in U
    BY <1>15
  <2>2. ASSUME NEW k \in 0..a - 1, k \in U
        PROVE  k + 1 \in U
    <3>1. k \in 0..n - 1 /\ k + 1 \in 1..n /\ k + 1 \notin a + 1..n /\ k + 1 \in 0..a
      BY <1>1
    <3>2. sk[k + 1] = 0
      BY <1>14, <3>1
    <3>3. B(k + 1) = B(k) + sk[k + 1] /\ B(k) = 0
      BY <1>15, <2>2, <3>1
    <3> QED BY <3>1, <3>2, <3>3
  <2>3. \A k \in 0..a : k \in U
    <3>1. a \in Nat
      BY <1>1
    <3> HIDE DEF U
    <3> QED BY <2>1, <2>2, <3>1, BoundedInduction
  <2> QED BY <2>3
<1>13. T(n) = T(a) + B(n)
  <2> DEFINE U == {k \in 0..n - a : B(a + k) \in Int /\ T(a + k) = T(a) + B(a + k)}
  <2>1. 0 \in U
    <3>1. a + 0 = a /\ a \in 0..a /\ 0 \in 0..n - a
      BY <1>1
    <3>2. B(a) = 0
      BY <1>17, <3>1
    <3>3. B(a + 0) \in Int /\ T(a + 0) = T(a) + B(a + 0)
      BY <1>12, <3>1, <3>2
    <3> QED BY <3>1, <3>3
  <2>2. ASSUME NEW k \in 0..n - a - 1, k \in U
        PROVE  k + 1 \in U
    <3>1. a + k \in 0..n - 1 /\ a + k + 1 \in a + 1..n /\ a + k + 1 \in 1..n /\ k + 1 \in 0..n - a
          /\ a + (k + 1) = a + k + 1 /\ a + k + 1 \in a..n
      BY <1>1
    <3> DEFINE j == a + k + 1
    <3>2. T(j) = T(a + k) + ns[j] /\ B(j) = B(a + k) + sk[j]
      BY <1>10, <1>15, <3>1
    <3>3. ns[j] = s[j] * lead[j] /\ sk[j] = lead[j] * s[j]
      <4>1. d[j] = lead[j]
        BY <1>3, <3>1
      <4>2. ns[j] = s[j] * d[j]
        BY <1>9, <3>1
      <4>3. sk[j] = lead[j] * s[j]
        BY <1>14, <3>1
      <4> QED BY <4>1, <4>2, <4>3
    <3>4. s[j] \in Nat /\ lead[j] \in Nat
      BY <1>16, <3>1
    <3>5. B(a + k) \in Int /\ T(a + k) = T(a) + B(a + k)
      BY <2>2
    <3> HIDE DEF j
    <3>6. s[j] * lead[j] = lead[j] * s[j] /\ s[j] * lead[j] \in Nat
      BY ONLY <3>4
    <3>7. B(j) \in Int /\ T(j) = T(a) + B(j)
      <4> DEFINE y == s[j] * lead[j]
      <4>1. y \in Nat /\ ns[j] = y /\ sk[j] = y
        BY <3>3, <3>6
      <4> HIDE DEF y
      <4> QED BY ONLY <1>12, <3>2, <3>5, <4>1
    <3>8. B(a + (k + 1)) \in Int /\ T(a + (k + 1)) = T(a) + B(a + (k + 1))
      BY <3>1, <3>7 DEF j
    <3> QED BY <3>1, <3>8
  <2>3. n - a \in Nat
    BY <1>1
  <2> HIDE DEF U
  <2>4. \A k \in 0..n - a : k \in U
    BY <2>1, <2>2, <2>3, BoundedInduction
  <2>5. n - a \in U
    BY <2>3, <2>4
  <2>6. a + (n - a) = n
    BY <1>1
  <2> QED BY <2>5, <2>6 DEF U
<1>18. T(a - 1) + dims[a] * s[a] <= call.bytes * Product(dims)
  <2>1. s[a - 1] = dims[a] * s[a]
    BY <1>2
  <2> QED BY <1>2, <1>8, <2>1
<1>19. s[a] = Stride(dims, a)
  BY <1>1 DEF s
<1>20. Place2(dims, lead, w, n) = T(a - 1) + lead[a] * s[a] + Total(sk)
  BY <1>5, <1>11, <1>12, <1>13 DEF T, B
<1> DEFINE q == T(a - 1)
<1>21. /\ q \in Nat
       /\ Place2(dims, lead, w, n) = q + lead[a] * Stride(dims, a) + Total(sk)
       /\ q + dims[a] * Stride(dims, a) <= call.bytes * Product(dims)
  BY <1>8, <1>18, <1>19, <1>20, Zenon
<1> HIDE DEF q
<1> QED BY <1>21 DEF sk

(* A frame before or after the common part lies in the padded tensor.      *)
LEMMA FrameFits ==
  ASSUME NEW to \in Nat, NEW q \in Nat, NEW s \in Nat, NEW m \in Nat, NEW l \in Nat, NEW t \in Nat,
         NEW size \in Nat, q + (m + l + t) * s <= size, NEW k \in Nat,
         NEW at \in Int, at = to + q + l * s
  PROVE  /\ k < l => /\ at - (k + 1) * s \in Int
                     /\ at - (k + 1) * s .. at - (k + 1) * s + s - 1 \subseteq to .. to + size - 1
         /\ k < t => /\ at + (m + k) * s \in Int
                     /\ at + (m + k) * s .. at + (m + k) * s + s - 1 \subseteq to .. to + size - 1
<1>1. (m + l + t) * s = m * s + l * s + t * s /\ m * s \in Nat /\ l * s \in Nat /\ t * s \in Nat
  BY SplitProduct
<1>2. (k + 1) * s = k * s + s /\ (m + k) * s = m * s + k * s /\ k * s \in Nat
  OBVIOUS
<1>3. (k < l => (k + 1) * s <= l * s) /\ (k < t => (k + 1) * s <= t * s)
  <2>1. k + 1 \in Nat /\ (k < l => k + 1 <= l) /\ (k < t => k + 1 <= t)
    OBVIOUS
  <2> QED BY <2>1, ProductMonotone
<1> DEFINE ms == m * s
           ls == l * s
           ts == t * s
           ks == k * s
           x == (k + 1) * s
           y == (m + k) * s
<1>4. /\ ms \in Nat /\ ls \in Nat /\ ts \in Nat /\ ks \in Nat /\ x = ks + s /\ y = ms + ks
      /\ k < l => x <= ls
      /\ k < t => x <= ts
      /\ q + (ms + ls + ts) <= size /\ at = to + q + ls
  BY <1>1, <1>2, <1>3
<1> HIDE DEF ms, ls, ts, ks, x, y
<1>5. \A b \in Int : b >= to /\ b + s <= to + size => b .. b + s - 1 \subseteq to .. to + size - 1
  OBVIOUS
<1>6. ASSUME k < l
      PROVE  at - x \in Int /\ at - x >= to /\ at - x + s <= to + size
  BY <1>4, <1>6
<1>7. ASSUME k < t
      PROVE  at + y \in Int /\ at + y >= to /\ at + y + s <= to + size
  BY <1>4, <1>7
<1> QED BY <1>5, <1>6, <1>7 DEF x, y

(* Offsets and strides are naturals.                                       *)
LEMMA SkippedNat ==
  ASSUME NEW n, NEW dims, NEW lead, NEW trail, IsSide(n, dims, lead, trail), NEW axes
  PROVE  Total(Skipped(n, dims, lead, axes)) \in Nat /\ \A k \in 0..n : Stride(dims, k) \in Nat
<1>1. n \in Nat /\ lead \in [1..n -> Nat] /\ dims \in [1..n -> Nat] /\ call.bytes \in Nat
  BY DEF IsSide
<1>2. \A k \in 0..n : Stride(dims, k) \in Nat
  BY <1>1, StrideStep
<1>3. ASSUME NEW k \in 1..n
      PROVE  lead[k] * Stride(dims, k) \in Nat
  <2>1. lead[k] \in Nat /\ Stride(dims, k) \in Nat
    BY <1>1, <1>2
  <2> QED BY ONLY <2>1, ProductNat
<1>4. Skipped(n, dims, lead, axes) \in [1..n -> Nat]
  BY <1>3 DEF Skipped
<1> QED BY <1>1, <1>2, <1>4, TotalNat

(* where the first row of an edge of axis a would be without its pads      *)
EdgeAt(w, a) == w.out - Padded(call.start, a + 1..Len(call.dims))

(* Where the common part begins on the axis whose frames are written.      *)
LEMMA EdgeIs ==
  ASSUME NEW n, PadFacts(n), NEW a \in 1..n, NEW w \in Rows(n), \A i \in a..n - 1 : w.index[i] = 0
  PROVE  \E q \in Nat :
           /\ EdgeAt(w, a) = call.to + q + PadsOut[a] * Stride(PaddedDims, a)
           /\ q + PaddedDims[a] * Stride(PaddedDims, a) <= PadSize
<1>1. n = Len(call.dims) /\ n \in Nat \ {0} /\ Axes = 1..n /\ call.to \in Nat
  BY DEF PadFacts
<1>2. IsSide(n, PaddedDims, PadsOut, PadsAfter)
  BY Sides
<1>3. IsRow(w, n)
  <2>1. n \in 1..n /\ Unpadded(n, n)
    BY <1>1 DEF Unpadded
  <2> QED BY <2>1, RowsAreRows
<1>4. /\ w.index \in [Axes -> Nat] /\ \A k \in Axes : k < n => w.index[k] < MinShape[k]
      /\ w.out = call.to + Place2(PaddedDims, PadsOut, w, n)
  BY <1>3 DEF IsRow, Place2
<1>5. PICK q \in Nat :
        /\ Place2(PaddedDims, PadsOut, w, n)
             = q + PadsOut[a] * Stride(PaddedDims, a)
                 + Total(Skipped(n, PaddedDims, PadsOut, a + 1..n))
        /\ q + PaddedDims[a] * Stride(PaddedDims, a) <= call.bytes * Product(PaddedDims)
  BY <1>1, <1>2, <1>4, EdgePlace
<1>6. Padded(call.start, a + 1..n) = Total(Skipped(n, PaddedDims, PadsOut, a + 1..n))
  BY PaddedIs
<1>7. Total(Skipped(n, PaddedDims, PadsOut, a + 1..n)) \in Nat
  BY <1>2, SkippedNat
<1>8. PadsOut[a] * Stride(PaddedDims, a) \in Nat
  <2>1. PadsOut \in [1..n -> Nat]
    BY <1>2 DEF IsSide
  <2>2. a \in 0..n
    BY <1>1
  <2>3. PadsOut[a] \in Nat /\ Stride(PaddedDims, a) \in Nat
    BY <1>2, <2>1, <2>2, SkippedNat
  <2> QED BY ONLY <2>3, ProductNat
<1> DEFINE t == Total(Skipped(n, PaddedDims, PadsOut, a + 1..n))
           y == PadsOut[a] * Stride(PaddedDims, a)
           at == EdgeAt(w, a)
           place == Place2(PaddedDims, PadsOut, w, n)
<1>9. at = w.out - t
  BY <1>1, <1>6 DEF EdgeAt
<1>10. w.out = call.to + place /\ place = q + y + t /\ t \in Nat /\ y \in Nat
  BY <1>4, <1>5, <1>7, <1>8
<1> HIDE DEF t, y, at, place
<1>11. at = call.to + q + y
  BY <1>1, <1>9, <1>10
<1> QED BY <1>5, <1>11, Zenon DEF at, y, PadSize

(* The frames of an axis lie in the output.                                *)
LEMMA FramesInside ==
  ASSUME NEW n, PadFacts(n), NEW a \in 1..n, NEW c \in Frames(a)
  PROVE  c.dst \in Int /\ c.n \in Int /\ c.dst .. c.dst + c.n - 1 \subseteq PadBytes
<1>1. n = Len(call.dims) /\ n \in Nat \ {0} /\ call.to \in Nat /\ PadSize \in Nat
      /\ call.start \in [1..n -> Int] /\ call.end \in [1..n -> Int]
  BY DEF PadFacts
<1>2. IsSide(n, PaddedDims, PadsOut, PadsAfter)
  BY Sides
<1> DEFINE s == Stride(PaddedDims, a)
           edges == {w \in Rows(n) : \A i \in a..n - 1 : w.index[i] = 0}
<1>3. \/ \E w \in edges, k \in 0..call.start[a] - 1 : c.dst = EdgeAt(w, a) - (k + 1) * s /\ c.n = s
      \/ \E w \in edges, k \in 0..call.end[a] - 1 :
           c.dst = EdgeAt(w, a) + (MinShape[a] + k) * s /\ c.n = s
  <2>1. c \in Frames(a)
    OBVIOUS
  <2> DEFINE first(w) == IF a = n THEN w.in ELSE EdgeAt(w, a)
             c1(w, k) == [dst |-> EdgeAt(w, a) - (k + 1) * s,
                          src |-> first(w) + Mirror(MinShape[a], k) * s, n |-> s]
             c2(w, k) == [dst |-> EdgeAt(w, a) + (MinShape[a] + k) * s, n |-> s,
                          src |-> EdgeAt(w, a) + (MinShape[a] - 1 - Mirror(MinShape[a], k)) * s]
  <2>2. Frames(a) = {c1(w, k) : w \in edges, k \in 0..call.start[a] - 1}
                      \cup {c2(w, k) : w \in edges, k \in 0..call.end[a] - 1}
    BY <1>1 DEF Frames, EdgeAt
  <2>3. /\ \A w, k : c1(w, k).dst = EdgeAt(w, a) - (k + 1) * s /\ c1(w, k).n = s
        /\ \A w, k : c2(w, k).dst = EdgeAt(w, a) + (MinShape[a] + k) * s /\ c2(w, k).n = s
    OBVIOUS
  <2> HIDE DEF c1, c2, edges, s
  <2>4. \/ \E w \in edges, k \in 0..call.start[a] - 1 : c = c1(w, k)
        \/ \E w \in edges, k \in 0..call.end[a] - 1 : c = c2(w, k)
    BY <2>1, <2>2
  <2> QED BY <2>3, <2>4
<1>4. s \in Nat /\ MinShape[a] \in Nat /\ PadsOut[a] \in Nat /\ PadsAfter[a] \in Nat
      /\ PaddedDims[a] = MinShape[a] + PadsOut[a] + PadsAfter[a]
  <2>1. a \in 0..n
    BY <1>1
  <2> QED BY <1>2, <2>1, SkippedNat DEF IsSide
<1>5. (call.start[a] > 0 => PadsOut[a] = call.start[a])
      /\ (call.end[a] > 0 => PadsAfter[a] = call.end[a])
  <2>1. Axes = 1..n
    BY DEF PadFacts
  <2> QED BY <2>1 DEF PadsOut, PadsAfter, Positive
<1>6. ASSUME NEW w \in edges, NEW k \in Nat
      PROVE  /\ k < PadsOut[a] =>
                  /\ EdgeAt(w, a) - (k + 1) * s \in Int
                  /\ EdgeAt(w, a) - (k + 1) * s .. EdgeAt(w, a) - (k + 1) * s + s - 1
                       \subseteq PadBytes
             /\ k < PadsAfter[a] =>
                  /\ EdgeAt(w, a) + (MinShape[a] + k) * s \in Int
                  /\ EdgeAt(w, a) + (MinShape[a] + k) * s
                       .. EdgeAt(w, a) + (MinShape[a] + k) * s + s - 1 \subseteq PadBytes
  <2>1. PICK q \in Nat : /\ EdgeAt(w, a) = call.to + q + PadsOut[a] * s
                         /\ q + PaddedDims[a] * s <= PadSize
    BY EdgeIs
  <2> DEFINE at == EdgeAt(w, a)
             l == PadsOut[a]
             m == MinShape[a]
             t == PadsAfter[a]
             to == call.to
             size == PadSize
  <2>2. /\ at = to + q + l * s /\ q + (m + l + t) * s <= size
        /\ s \in Nat /\ m \in Nat /\ l \in Nat /\ t \in Nat /\ to \in Nat /\ size \in Nat
    BY <1>1, <1>4, <2>1
  <2> HIDE DEF at, s, l, m, t, to, size
  <2>3. at \in Int
    <3>1. l * s \in Nat
      BY ONLY <2>2, ProductNat
    <3> QED BY ONLY <2>2, <3>1, q \in Nat
  <2>4. /\ k < l => /\ at - (k + 1) * s \in Int
                    /\ at - (k + 1) * s .. at - (k + 1) * s + s - 1 \subseteq to .. to + size - 1
        /\ k < t => /\ at + (m + k) * s \in Int
                    /\ at + (m + k) * s .. at + (m + k) * s + s - 1 \subseteq to .. to + size - 1
    BY ONLY <2>2, <2>3, q \in Nat, k \in Nat, FrameFits
  <2> QED BY <2>4, Zenon DEF at, l, m, t, to, size, PadBytes
<1>7. ASSUME NEW w \in edges, NEW k \in 0..call.start[a] - 1,
             c.dst = EdgeAt(w, a) - (k + 1) * s, c.n = s
      PROVE  c.dst \in Int /\ c.dst .. c.dst + c.n - 1 \subseteq PadBytes
  <2>1. call.start[a] \in Int
    BY <1>1
  <2>2. k \in Nat /\ k < PadsOut[a]
    BY <1>5, <2>1
  <2> HIDE DEF s, edges
  <2> QED BY <1>6, <1>7, <2>2
<1>8. ASSUME NEW w \in edges, NEW k \in 0..call.end[a] - 1,
             c.dst = EdgeAt(w, a) + (MinShape[a] + k) * s, c.n = s
      PROVE  c.dst \in Int /\ c.dst .. c.dst + c.n - 1 \subseteq PadBytes
  <2>1. call.end[a] \in Int
    BY <1>1
  <2>2. k \in Nat /\ k < PadsAfter[a]
    BY <1>5, <2>1
  <2> HIDE DEF s, edges
  <2> QED BY <1>6, <1>8, <2>2
<1> HIDE DEF s, edges
<1> QED BY <1>3, <1>4, <1>7, <1>8

(* Writing the frames of all axes keeps a memory sound.                    *)
LEMMA FramedSound ==
  ASSUME NEW n, PadFacts(n), PadBytes \subseteq Memory, NEW ms, \A m \in ms : Sound(m, PadBytes)
  PROVE  \A m \in Framed(ms) : Sound(m, PadBytes)
<1>1. n \in Nat /\ Axes = 1..n
  BY DEF PadFacts
<1> DEFINE as == Reverse([a \in Axes |-> a])
<1>2. DOMAIN as = 1..n /\ \A k \in 1..n : as[k] \in 1..n
  <2>1. [a \in Axes |-> a] = [a \in 1..n |-> a]
    BY <1>1
  <2> DEFINE x == [a \in 1..n |-> a]
  <2>2. x \in Seq(Nat) /\ Len(x) = n
    BY <1>1
  <2>3. as = [i \in 1..n |-> x[n - i + 1]]
    BY <2>1, <2>2 DEF Reverse
  <2>4. \A i \in 1..n : n - i + 1 \in 1..n
    BY <1>1
  <2> QED BY <2>3, <2>4
<1>3. Framed(ms) = Folded(as, "frames", ms)
  BY FramedIsFold
<1>4. PICK ks : /\ DOMAIN ks = 1..n /\ \A k \in 1..n : ks[k] \in 1..n
                /\ Framed(ms) = Folded(ks, "frames", ms)
  <2> HIDE DEF as
  <2> QED BY <1>2, <1>3
<1>5. PICK g : /\ Folded(ks, "frames", ms) = g[1..n]
               /\ g[{}] = Neutral("frames", ms)
               /\ \A k \in 0..n - 1 : g[1..k + 1] = Combined("frames", ms, g[1..k], ks[k + 1])
  <2>1. \E g : FoldsTo(g, n, ks, "frames", ms)
    BY <1>1, <1>4, FoldIsFold
  <2> QED BY <2>1, Zenon DEF FoldsTo
<1> DEFINE U == {k \in 0..n : \A m \in g[1..k] : Sound(m, PadBytes)}
<1>6. 0 \in U
  <2>1. 1..0 = {}
    OBVIOUS
  <2>2. g[1..0] = ms
    BY <1>5, <2>1, Zenon DEF Neutral
  <2> QED BY <1>1, <2>2
<1>7. ASSUME NEW k \in 0..n - 1, k \in U
      PROVE  k + 1 \in U
  <2>1. g[1..k + 1] = {Copied(m, Frames(ks[k + 1])) : m \in g[1..k]}
    BY <1>5, Zenon DEF Combined
  <2>2. ks[k + 1] \in 1..n
    BY <1>1, <1>4
  <2>3. Written(Frames(ks[k + 1])) \subseteq PadBytes
    <3>1. PICK a \in 1..n : a = ks[k + 1]
      BY <2>2
    <3>2. \A c \in Frames(a) :
            c.dst \in Int /\ c.n \in Int /\ c.dst .. c.dst + c.n - 1 \subseteq PadBytes
      BY FramesInside
    <3>3. Written(Frames(a)) \subseteq PadBytes
      BY <3>2, WrittenIn
    <3> QED BY <3>1, <3>3, Zenon
  <2>4. ASSUME NEW m \in g[1..k]
        PROVE  Sound(Copied(m, Frames(ks[k + 1])), PadBytes)
    <3>1. Sound(m, PadBytes)
      BY <1>7
    <3>2. Written(Frames(ks[k + 1])) \subseteq PadBytes \cap Memory
      BY <2>3
    <3> QED BY <3>1, <3>2, CopiedSound
  <2>5. \A m \in g[1..k + 1] : Sound(m, PadBytes)
    BY <2>1, <2>4
  <2>6. k + 1 \in 0..n
    BY <1>1
  <2> QED BY <2>5, <2>6
<1>8. \A k \in 0..n : k \in U
  <2> HIDE DEF U
  <2> QED BY <1>1, <1>6, <1>7, BoundedInduction
<1>9. n \in 0..n
  BY <1>1
<1> QED BY <1>4, <1>5, <1>8, <1>9

(* So does writing them after the engines have filled the rows.            *)
LEMMA FramesInPlaceSound ==
  ASSUME NEW n, PadFacts(n), PadBytes \subseteq Memory, Sound(mem, PadBytes), FramesInPlace
  PROVE  Sound(mem', PadBytes)
<1>1. PICK m \in Framed({mem}) : mem' = CleanRange(m, call.to, PadSize)
  BY DEF FramesInPlace
<1>2. Sound(m, PadBytes)
  <2>1. \A x \in {mem} : Sound(x, PadBytes)
    OBVIOUS
  <2> QED BY <2>1, FramedSound
<1>3. call.to \in Int /\ PadSize \in Int
  BY DEF PadFacts
<1> QED BY <1>1, <1>2, <1>3, CleanSound

(* the parameters of the filling turns that start with the first row *)
Filled(q, size, row) ==
  [q EXCEPT !.in = Flat24, !.out = Flat24, !.size = size, !.pad = row]

(* The parameters of a filling by the engines.                             *)
LEMMA FilledParams ==
  ASSUME NEW q, IsParams(q), NEW size, NEW row
  PROVE  /\ IsParams(Filled(q, size, row))
         /\ Filled(q, size, row).in = Flat24 /\ Filled(q, size, row).out = Flat24
         /\ Filled(q, size, row).size = size /\ Filled(q, size, row).pad = row
<1> SUFFICES ASSUME NEW r, r = Filled(q, size, row)
             PROVE  IsParams(r) /\ r.in = Flat24 /\ r.out = Flat24 /\ r.size = size /\ r.pad = row
  OBVIOUS
<1> QED BY DEF Filled, IsParams

(* A filling by the engines begins with the first row.                     *)
LEMMA FillsByEnginesTurn ==
  ASSUME Safe, call.op = "Pad", call' = call, FillsByEngines, ConsecutiveBytes > 0
  PROVE  IsParams(p') /\ Turn'
<1>1. PadFacts(Len(call.dims)) /\ IsParams(p)
  <2>1. call \in Calls /\ IsParams(p)
    BY DEF Safe
  <2> QED BY <2>1, CallIsGiven, PadIsTyped
<1>2. p' = Filled(p, ConsecutiveBytes, FirstRow(ConsecutiveAxis)) /\ block' = "filling"
  BY Zenon DEF FillsByEngines, Filled
<1>3. /\ IsParams(p') /\ p'.in = Flat24 /\ p'.out = Flat24
      /\ p'.size = ConsecutiveBytes /\ p'.pad = FirstRow(ConsecutiveAxis)
  BY <1>1, <1>2, FilledParams
<1>4. IsRow(FirstRow(ConsecutiveAxis), ConsecutiveAxis)
  BY <1>1, ConsecutiveIsAxis, FirstRowIsRow
<1>5. IsRaw(Flat24, 24)
  BY DEF Flat24, Raw, IsRaw
<1>6. \A w : IsRow(w, ConsecutiveAxis)' <=> IsRow(w, ConsecutiveAxis)
  BY SameGeometry
<1>7. ConsecutiveAxis' = ConsecutiveAxis /\ ConsecutiveBytes' = ConsecutiveBytes
  BY SameGeometry
<1>8. IsRow(p.pad, ConsecutiveAxis)'
  BY <1>3, <1>4, <1>7, SameGeometry DEF IsRow
<1>9. FillingTurn'
  BY <1>2, <1>3, <1>5, <1>7, <1>8 DEF FillingTurn
<1> QED BY <1>3, <1>9 DEF Turn

(* The filling, by the CPU or by the engines, as an operator or as a       *)
(* callback.                                                               *)
LEMMA FillingSafe ==
  ASSUME Safe, call.op = "Pad", call' = call, NEW m, Sound(m, PadBytes),
         m.dirty \subseteq LinesOf(PadBytes), NEW calledBack \in BOOLEAN,
         calledBack => m.dirty = {}, Filling(m, calledBack)
  PROVE  Safe'
<1> DEFINE n == Len(call.dims)
<1>1. PadFacts(n) /\ IsParams(p)
  <2>1. call \in Calls /\ IsParams(p)
    BY DEF Safe
  <2> QED BY <2>1, CallIsGiven, PadIsTyped
<1>2. OutBytes = PadBytes /\ PadBytes \subseteq Memory
  BY <1>1, PadOutput
<1>3. call.to \in Int /\ PadSize \in Int
  BY <1>1 DEF PadFacts
<1>4. ASSUME mem' = m, pc' = "done", p' = p
      PROVE  Safe'
  BY <1>1, <1>2, <1>4, SafeAfter DEF IsParams
<1>5. ASSUME NEW filled, filled = SwFilling(m, ConsecutiveAxis), pc' = "done", p' = p,
             mem' = IF calledBack THEN CleanRange(filled, call.to, PadSize) ELSE filled
      PROVE  Safe'
  <2>1. Sound(filled, PadBytes)
    BY <1>1, <1>2, <1>5, ConsecutiveIsAxis, SwFillingSound
  <2>2. Sound(CleanRange(filled, call.to, PadSize), PadBytes)
    BY <1>3, <2>1, CleanSound
  <2>3. Sound(mem', OutBytes)
    BY <1>2, <1>5, <2>1, <2>2
  <2> QED BY <1>1, <1>5, <2>3, SafeAfter DEF IsParams
<1>6. ASSUME ConsecutiveBytes > 0, FillsByEngines,
             mem' = IF calledBack THEN m ELSE CleanInvalidateRange(m, call.to, PadSize)
      PROVE  Safe'
  <2>1. m.dirty \subseteq LinesOf(call.to .. call.to + PadSize - 1)
    BY DEF PadBytes
  <2>2. /\ Sound(CleanInvalidateRange(m, call.to, PadSize), PadBytes)
        /\ CleanInvalidateRange(m, call.to, PadSize).dirty = {}
    BY <1>3, <2>1, CleanInvalidateSound
  <2>3. Sound(mem', OutBytes) /\ mem'.dirty = {}
    <3>1. CASE calledBack
      BY <1>2, <1>6, <3>1
    <3>2. CASE ~calledBack
      BY <1>2, <1>6, <2>2, <3>2
    <3> QED BY <3>1, <3>2
  <2>4. IsParams(p') /\ Turn'
    BY <1>6, FillsByEnginesTurn
  <2>5. pc' = "start"
    BY <1>6 DEF FillsByEngines
  <2> QED BY <2>3, <2>4, <2>5, SafeAfter
<1> QED BY <1>4, <1>5, <1>6 DEF Filling

(* the CPU writes at most the whole output before the engines repeat it    *)
LEMMA PreloadFits ==
  ASSUME NEW size \in Nat, size >= BusPort
  PROVE  LET pre == Preload(size)
         IN  /\ pre.unit \in 1..size /\ pre.all \in 1..size
             /\ (size - pre.all) \div pre.unit \in Nat
<1> DEFINE least == IF call.bytes \in {1, 3} THEN 3 ELSE 4
           fits(k) == \A j \in 2..k : (size % (j * least)) + j * least <= BusPort
           S == {1} \cup {k \in 2..BusPort \div least : fits(k)}
           n == Max(S)
           u == n * least
<1>1. BusPort \in Nat /\ BusPort >= 6
  BY SizesAssumption, BusAssumption
<1>2. least \in {3, 4}
  OBVIOUS
<1>3. Preload(size) = [unit |-> u, all |-> (size % u) + u]
  BY Zenon DEF Preload
<1> HIDE DEF least
<1>4. BusPort \div least \in Nat /\ BusPort \div least <= BusPort
      /\ \A k \in Int : k <= BusPort \div least => k * least <= BusPort
  <2>1. CASE least = 3
    BY <1>1, <2>1
  <2>2. CASE least = 4
    BY <1>1, <2>2
  <2> QED BY <1>2, <2>1, <2>2
<1> HIDE DEF fits
<1>5. S \subseteq Int /\ (\A k \in S : k <= BusPort) /\ S # {}
  BY <1>1, <1>4
<1>6. n \in S
  <2>1. BusPort \in Int
    BY <1>1
  <2> HIDE DEF S
  <2>2. Max(S) \in S
    BY <1>5, <2>1, GreatestElement
  <2> QED BY <2>2
<1>7. n \in Nat \ {0} /\ u <= BusPort
  <2>1. n = 1 \/ n \in 2..BusPort \div least
    BY <1>6
  <2>2. n = 1 => u <= BusPort
    BY <1>1, <1>2
  <2>3. n \in 2..BusPort \div least => n \in Int /\ n >= 2 /\ n <= BusPort \div least
    BY <1>4
  <2> HIDE DEF n
  <2> QED BY <1>4, <2>1, <2>2, <2>3
<1> HIDE DEF n
<1>8. u \in Nat \ {0}
  BY <1>2, <1>7
<1> HIDE DEF u
<1> DEFINE r == size % u
           d == size \div u
           y == u * d
<1>9. r \in 0..u - 1 /\ d \in Int /\ size = y + r
  BY <1>8
<1>10. d >= 1
  <2>1. d <= 0 => y <= 0
    BY <1>8, <1>9
  <2>2. size >= u
    BY <1>1, <1>7, <1>8
  <2>3. y \in Int
    BY <1>8, <1>9
  <2> HIDE DEF y, r, d
  <2> QED BY <1>8, <1>9, <2>1, <2>2, <2>3
<1>11. y >= u /\ y \in Int
  BY <1>8, <1>9, <1>10
<1> HIDE DEF r, y
<1>12. r + u \in 1..size /\ u \in 1..size
  BY <1>8, <1>9, <1>11
<1>13. \A z \in Nat : z \div u \in Nat
  BY <1>8
<1>14. (size - (r + u)) \div u \in Nat
  <2>1. size - (r + u) \in Nat
    BY <1>12
  <2> QED BY <1>13, <2>1
<1> QED BY <1>3, <1>12, <1>14 DEF r

(* a raw engine that repeats one frame *)
LEMMA SameFrame ==
  ASSUME NEW d, d.raw = TRUE, d.loop = 0, d.at \in Int, d.len \in Nat, d.bits \in {8, 16, 24},
         d.frames \in Nat, d.frame = 0
  PROVE  Addresses(d) \subseteq d.at .. d.at + d.len - 1
<1> SUFFICES ASSUME NEW a \in Addresses(d)
             PROVE  a \in d.at .. d.at + d.len - 1
  OBVIOUS
<1>1. d.frame \in Nat
  OBVIOUS
<1>2. PICK f \in 0..d.frames - 1, b \in 0..d.len - 1 : a = d.at + f * d.frame + b
  BY <1>1, RawReach
<1>3. f * d.frame = 0
  BY <1>2
<1> QED BY <1>2, <1>3

(* A raw frame that is read again stays within its length.                 *)
LEMMA AgainReach ==
  ASSUME NEW at \in Int, NEW len \in Nat, NEW bits \in {8, 16, 24}, NEW frames \in Nat
  PROVE  Addresses([Raw(at, len, bits) EXCEPT !.frames = frames]) \subseteq at .. at + len - 1
<1> DEFINE d == [Raw(at, len, bits) EXCEPT !.frames = frames]
<1>1. /\ d.raw = TRUE /\ d.loop = 0 /\ d.at = at /\ d.len = len /\ d.bits = bits
      /\ d.frame = 0 /\ d.frames = frames
  BY DEF Raw
<1> HIDE DEF d
<1>2. Addresses(d) \subseteq d.at .. d.at + d.len - 1
  BY <1>1, SameFrame
<1> QED BY <1>1, <1>2 DEF d

(* LL_ATON_LIB_Pad inserts the engines that fill the output with the       *)
(* constant (preload, then the whole).                                     *)
LEMMA MemsetSafe ==
  ASSUME Safe, pc = "call", call.op = "Pad", PadMemset
  PROVE  Safe'
<1> DEFINE n == Len(call.dims)
           to == call.to
           size == PadSize
<1>1. PadFacts(n) /\ IsParams(p) /\ mem.dirty = {} /\ Sound(mem, OutBytes)
  <2>1. call \in Calls /\ IsParams(p) /\ mem.dirty = {} /\ Sound(mem, OutBytes)
    BY DEF Safe
  <2> QED BY <2>1, CallIsGiven, PadIsTyped
<1>2. OutBytes = PadBytes /\ PadBytes \subseteq Memory
  BY <1>1, PadOutput
<1>3. to \in Nat /\ size \in Nat /\ PadBytes = to .. to + size - 1
  BY <1>1 DEF PadFacts, PadBytes
<1>4. ASSUME NEW all \in 0..size
      PROVE  LET m == CleanInvalidateRange(Set(mem, to, all), to, all)
             IN  Sound(m, PadBytes) /\ m.dirty = {}
  <2>1. to .. to + all - 1 \subseteq PadBytes \cap Memory
    BY <1>2, <1>3
  <2> DEFINE s == Set(mem, to, all)
  <2>2. to \in Int /\ all \in Int /\ Sound(mem, PadBytes) /\ mem.dirty = {}
    BY <1>1, <1>2, <1>3
  <2>3. Sound(s, PadBytes) /\ s.dirty = LinesOf(to .. to + all - 1)
    <3> HIDE DEF to
    <3>1. /\ Sound(Set(mem, to, all), PadBytes)
          /\ Set(mem, to, all).dirty = mem.dirty \cup LinesOf(to .. to + all - 1)
      BY ONLY <2>1, <2>2, SetSound
    <3> QED BY <2>2, <3>1
  <2> HIDE DEF s
  <2>4. /\ Sound(CleanInvalidateRange(s, to, all), PadBytes)
        /\ CleanInvalidateRange(s, to, all).dirty = {}
    BY <2>2, <2>3, CleanInvalidateSound
  <2> QED BY <2>4 DEF s
<1>5. CASE PadSize < DmaMin + BusPort
  <2> DEFINE m == CleanInvalidateRange(Set(mem, to, size), to, size)
  <2>1. Filling(m, TRUE) /\ call' = call
    BY <1>5 DEF PadMemset
  <2>2. Sound(m, PadBytes) /\ m.dirty = {}
    BY <1>3, <1>4
  <2> HIDE DEF m
  <2> QED BY <2>1, <2>2, FillingSafe
<1>6. CASE ~(PadSize < DmaMin + BusPort)
  <2> DEFINE bits == IF call.bytes \in {1, 3} THEN 24 ELSE 16
             pre == Preload(PadSize)
             unit == pre.unit
             all == pre.all
             in == [Raw(to, unit, bits) EXCEPT !.frames = (size - all) \div unit]
             out == Raw(to + all, size - all, bits)
             q == WithEngines(p, in, out)
  <2>1. unit \in 1..size /\ all \in 1..size /\ (size - all) \div unit \in Nat
    <3>1. PadSize \in Nat /\ PadSize >= BusPort
      BY <1>3, <1>6, SizesAssumption
    <3> QED BY <3>1, PreloadFits
  <2>2. mem' = CleanInvalidateRange(Set(mem, to, all), to, all) /\ Inserts("memset", q)
    BY <1>6, Zenon DEF PadMemset, WithEngines
  <2>3. bits \in {8, 16, 24}
    OBVIOUS
  <2> HIDE DEF bits, unit, all
  <2>4. Addresses(in) \subseteq PadBytes
    <3>1. to \in Int /\ unit \in Nat
      BY <1>3, <2>1
    <3>2. Addresses(in) \subseteq to .. to + unit - 1
      BY <2>1, <2>3, <3>1, AgainReach
    <3>3. to .. to + unit - 1 \subseteq PadBytes
      <4> HIDE DEF to, size
      <4> QED BY <1>3, <2>1
    <3> QED BY <3>2, <3>3
  <2>5. Addresses(out) \subseteq PadBytes
    <3>1. to + all \in Int /\ size - all \in Nat
      BY <1>3, <2>1
    <3>2. Addresses(out) \subseteq to + all .. to + all + (size - all) - 1
      BY <2>3, <3>1, RawInside
    <3>3. to + all .. to + all + (size - all) - 1 \subseteq PadBytes
      <4> HIDE DEF to, size
      <4> QED BY <1>3, <2>1
    <3> QED BY <3>2, <3>3
  <2> HIDE DEF in, out
  <2>6. IsParams(q) /\ q.in = in /\ q.out = out
    BY <1>1, WithEnginesParams
  <2> HIDE DEF q
  <2>7. call' = call /\ p' = q /\ pc' = "start" /\ block' = "memset"
    BY <2>2 DEF Inserts
  <2>8. Sound(mem', PadBytes) /\ mem'.dirty = {}
    <3>1. all \in 0..size
      BY <2>1
    <3> QED BY <1>4, <2>2, <3>1
  <2>9. MemsetTurn'
    <3>1. OutBytes' = PadBytes
      BY <1>2, <2>7, SameTensors
    <3>2. InsideTensors'
      BY <2>4, <2>5, <2>6, <2>7, <3>1 DEF InsideTensors
    <3> QED BY <2>7, <3>2 DEF MemsetTurn
  <2> QED BY <1>2, <2>6, <2>7, <2>8, <2>9, SafeAfter DEF Turn
<1> QED BY <1>5, <1>6

(* LL_ATON_LIB_Pad, with every way out.                                    *)
LEMMA PadSafe ==
  ASSUME Safe, Pad
  PROVE  Safe'
<1> DEFINE n == Len(call.dims)
<1>1. /\ pc = "call" /\ call.op = "Pad" /\ PadFacts(n) /\ IsParams(p) /\ mem.dirty = {}
      /\ Sound(mem, OutBytes)
  <2>1. call \in Calls /\ IsParams(p) /\ mem.dirty = {} /\ Sound(mem, OutBytes) /\ call.op = "Pad"
        /\ pc = "call"
    BY DEF Safe, Pad
  <2> QED BY <2>1, CallIsGiven, PadIsTyped
<1>2. OutBytes = PadBytes /\ PadBytes \subseteq Memory
  BY <1>1, PadOutput
<1>3. ASSUME Filling(Set(mem, call.to, PadSize), FALSE), call' = call
      PROVE  Safe'
  <2> DEFINE m == Set(mem, call.to, PadSize)
  <2>1. call.to \in Int /\ PadSize \in Int
    BY <1>1 DEF PadFacts
  <2>2. call.to .. call.to + PadSize - 1 = PadBytes
    BY DEF PadBytes
  <2>3. Sound(m, PadBytes) /\ m.dirty = mem.dirty \cup LinesOf(PadBytes)
    <3>1. call.to .. call.to + PadSize - 1 \subseteq PadBytes \cap Memory /\ Sound(mem, PadBytes)
      BY <1>1, <1>2, <2>2
    <3>2. /\ Sound(Set(mem, call.to, PadSize), PadBytes)
          /\ Set(mem, call.to, PadSize).dirty
               = mem.dirty \cup LinesOf(call.to .. call.to + PadSize - 1)
      BY ONLY <2>1, <3>1, SetSound
    <3> QED BY <2>2, <3>2
  <2>4. m.dirty \subseteq LinesOf(PadBytes) /\ Filling(m, FALSE)
    BY <1>1, <1>3, <2>3
  <2> HIDE DEF m
  <2> QED BY <1>1, <1>3, <2>3, <2>4, FillingSafe
<1>4. ASSUME NEW m \in Framed({SwFilling(mem, n)}), Returns(m)
      PROVE  Safe'
  <2>1. Unpadded(n, n) /\ n \in 1..n
    <3>1. n \in Nat \ {0}
      BY <1>1 DEF PadFacts
    <3> QED BY <3>1 DEF Unpadded
  <2>2. Sound(SwFilling(mem, n), PadBytes)
    BY <1>1, <1>2, <2>1, SwFillingSound
  <2>3. \A x \in {SwFilling(mem, n)} : Sound(x, PadBytes)
    BY <2>2
  <2>4. Sound(m, PadBytes)
    BY <1>1, <1>2, <2>3, FramedSound
  <2> QED BY <1>2, <1>4, <2>4, ReturnsSafe
<1>5. ASSUME call.mode # "constant", FillsByEngines, UNCHANGED <<call, on, mem>>
      PROVE  Safe'
  <2>1. ConsecutiveBytes > 0
    <3> DEFINE c == ConsecutiveAxis
    <3>1. c \in 1..n
      BY <1>1, ConsecutiveIsAxis
    <3>2. n \in Nat /\ MinShape \in [1..n -> Nat] /\ (\A a \in 1..n : MinShape[a] > 0)
          /\ call.bytes \in 1..4
      BY <1>1, <1>5 DEF PadFacts
    <3> HIDE DEF c
    <3> DEFINE rest == SubSeq(MinShape, c, n)
    <3>3. rest = [i \in 1..n - c + 1 |-> MinShape[c + i - 1]]
      BY <3>1, <3>2
    <3>4. \A i \in 1..n - c + 1 : MinShape[c + i - 1] \in Nat \ {0}
      <4>1. \A i \in 1..n - c + 1 : c + i - 1 \in 1..n
        BY <3>1, <3>2
      <4> QED BY <3>2, <4>1
    <3>5. rest \in [1..n - c + 1 -> Nat \ {0}] /\ n - c + 1 \in Nat
      <4>1. [i \in 1..n - c + 1 |-> MinShape[c + i - 1]] \in [1..n - c + 1 -> Nat \ {0}]
        BY <3>4
      <4>2. n - c + 1 \in Nat
        BY <3>1, <3>2
      <4> QED BY <3>3, <4>1, <4>2, Zenon
    <3> HIDE DEF rest
    <3>6. Product(rest) \in Nat \ {0}
      BY <3>5, PositiveProduct
    <3>7. ConsecutiveBytes = call.bytes * Product(rest)
      BY DEF ConsecutiveBytes, RowBytes, c, rest
    <3>8. \A x \in 1..4, y \in Nat \ {0} : x * y > 0
      OBVIOUS
    <3> QED BY <3>2, <3>6, <3>7, <3>8
  <2>2. IsParams(p') /\ Turn'
    BY <1>1, <1>5, <2>1, FillsByEnginesTurn
  <2>3. pc' = "start" /\ mem' = mem /\ call' = call
    BY <1>5 DEF FillsByEngines
  <2> QED BY <1>1, <2>2, <2>3, SafeAfter
<1> QED BY <1>1, <1>3, <1>4, <1>5, MemsetSafe DEF Pad

-----------------------------------------------------------------------------

(***************************************************************************)
(* The invariant, and what follows from it.                                *)
(***************************************************************************)

(* The start block of a filling copies the next row.                       *)
LEMMA StartFillingSafe ==
  ASSUME Safe, pc = "start", StartFilling
  PROVE  Safe'
<1> DEFINE n == Len(call.dims)
           c == ConsecutiveAxis
           dst == p.pad.out
           src == p.pad.in
           len == p.size
<1>1. Turn /\ call \in Calls /\ FillingTurn
  BY TurnOfBlock DEF Safe, StartFilling
<1>2. PadFacts(n)
  BY <1>1, CallIsGiven, PadIsTyped DEF FillingTurn
<1>3. c \in 1..n /\ Unpadded(n, c)
  BY <1>2, ConsecutiveIsAxis
<1>4. IsRow(p.pad, c) /\ len = RowBytes(c) /\ call.op = "Pad"
  BY <1>1 DEF FillingTurn, ConsecutiveBytes
<1> HIDE DEF c, n
<1>5. /\ dst \in Nat /\ src \in Nat /\ len \in Nat
      /\ dst .. dst + len - 1 \subseteq call.to .. call.to + PadSize - 1
      /\ src .. src + len - 1 \subseteq call.from .. call.from + call.bytes * Product(call.dims) - 1
  BY <1>2, <1>3, <1>4, RowInts
<1>6. OutBytes = PadBytes
      /\ InBytes = call.from .. call.from + call.bytes * Product(call.dims) - 1
  BY <1>2, <1>4, PadOutput
<1>7. dst .. dst + len - 1 \subseteq OutBytes /\ src .. src + len - 1 \subseteq InBytes
  BY <1>5, <1>6 DEF PadBytes
<1>8. StartsFlat(dst, src, len) /\ IsRaw(p.in, 24) /\ IsRaw(p.out, 24) /\ block # "memset"
  BY <1>1 DEF StartFilling, FillingTurn
<1> HIDE DEF dst, src, len
<1>9. /\ call' = call /\ block' = block
      /\ Sound(mem', OutBytes) /\ mem'.dirty = {}
      /\ pc' \in {"wait", "end"}
      /\ pc' = "wait" => InsideTensors'
      /\ IsParams(p') /\ IsRaw(p'.in, 24) /\ IsRaw(p'.out, 24)
      /\ p'.tensors = p.tensors /\ p'.at = p.at /\ p'.size = p.size /\ p'.idx = p.idx
      /\ p'.pad = p.pad
  BY <1>5, <1>7, <1>8, FlatStart
<1>10. FillingTurn'
  <2>1. ConsecutiveAxis' = ConsecutiveAxis /\ ConsecutiveBytes' = ConsecutiveBytes
    BY <1>9, SameGeometry
  <2>2. IsRow(p.pad, ConsecutiveAxis)'
    BY <1>1, <1>9, <2>1, SameGeometry DEF FillingTurn
  <2> QED BY <1>1, <1>9, <2>1, <2>2 DEF FillingTurn
<1> QED BY <1>9, <1>10, SafeAfter DEF Turn

(* The end block of the memset calls the filling back.                     *)
LEMMA EndMemsetSafe ==
  ASSUME Safe, pc = "end", EndMemset
  PROVE  Safe'
<1>1. MemsetTurn /\ call \in Calls /\ mem.dirty = {} /\ Sound(mem, OutBytes)
  BY TurnOfBlock DEF Safe, EndMemset
<1>2. PadFacts(Len(call.dims)) /\ call.op = "Pad"
  BY <1>1, CallIsGiven, PadIsTyped DEF MemsetTurn
<1>3. Sound(mem, PadBytes)
  BY <1>1, <1>2, PadOutput
<1>4. Filling(mem, TRUE) /\ call' = call
  BY DEF EndMemset
<1> QED BY <1>1, <1>2, <1>3, <1>4, FillingSafe

(* the parameters of the turn after one *)
OnRow(q, row) == [q EXCEPT !.pad = row]

(* Going on to another row.                                                *)
LEMMA OnRowParams ==
  ASSUME NEW q, IsParams(q), NEW row
  PROVE  /\ IsParams(OnRow(q, row)) /\ OnRow(q, row).pad = row
         /\ OnRow(q, row).size = q.size
         /\ OnRow(q, row).in = q.in /\ OnRow(q, row).out = q.out
<1> SUFFICES ASSUME NEW r, r = OnRow(q, row)
             PROVE  IsParams(r) /\ r.pad = row /\ r.size = q.size /\ r.in = q.in /\ r.out = q.out
  OBVIOUS
<1> QED BY DEF OnRow, IsParams

(* The end block of a filling goes on to the next row, or writes the       *)
(* frames and returns.                                                     *)
LEMMA EndFillingSafe ==
  ASSUME Safe, pc = "end", EndFilling
  PROVE  Safe'
<1> DEFINE n == Len(call.dims)
           c == ConsecutiveAxis
<1>1. FillingTurn /\ call \in Calls /\ mem.dirty = {} /\ Sound(mem, OutBytes) /\ IsParams(p)
  BY TurnOfBlock DEF Safe, EndFilling
<1>2. PadFacts(n) /\ call.op = "Pad"
  BY <1>1, CallIsGiven, PadIsTyped DEF FillingTurn
<1>3. OutBytes = PadBytes /\ PadBytes \subseteq Memory
  BY <1>2, PadOutput
<1>4. call' = call /\ block' = block
  BY DEF EndFilling
<1>5. CASE Open(p.pad, c) # {}
  <2>1. p' = OnRow(p, NextRow(p.pad, c)) /\ pc' = "start" /\ mem' = mem
    BY <1>5 DEF EndFilling, OnRow
  <2>2. IsRow(NextRow(p.pad, c), c)
    <3>1. c \in 1..n /\ Unpadded(n, c) /\ IsRow(p.pad, c)
      BY <1>1, <1>2, ConsecutiveIsAxis DEF FillingTurn
    <3> QED BY <1>2, <1>5, <3>1, NextRowIsRow
  <2>3. /\ IsParams(p') /\ p'.pad = NextRow(p.pad, c) /\ p'.size = p.size
        /\ p'.in = p.in /\ p'.out = p.out
    BY <1>1, <2>1, OnRowParams
  <2>4. FillingTurn'
    <3>1. ConsecutiveAxis' = ConsecutiveAxis /\ ConsecutiveBytes' = ConsecutiveBytes
      BY <1>4, SameGeometry
    <3>2. IsRow(p.pad, ConsecutiveAxis)'
      BY <1>4, <2>2, <2>3, <3>1, SameGeometry DEF IsRow
    <3> QED BY <1>1, <1>4, <2>3, <3>1, <3>2 DEF FillingTurn
  <2> QED BY <1>1, <1>4, <2>1, <2>3, <2>4, SafeAfter DEF Turn
<1>6. CASE Open(p.pad, c) = {}
  <2>1. p' = p /\ pc' = "done" /\ (mem' = mem \/ FramesInPlace)
    BY <1>6 DEF EndFilling
  <2>2. Sound(mem', OutBytes)
    BY <1>1, <1>2, <1>3, <2>1, FramesInPlaceSound
  <2> QED BY <1>1, <1>4, <2>1, <2>2, SafeAfter DEF IsParams
<1> QED BY <1>5, <1>6

-----------------------------------------------------------------------------

(* Safe holds before any call is made.                                     *)
THEOREM InitIsSafe == Init => Safe
BY SafeAtFirst

(* Safe is inductive: each operator, each start and end block, the end of  *)
(* the engines and each eviction keep it.                                  *)
THEOREM StepIsSafe == Safe /\ [Next]_vars => Safe'
<1> SUFFICES ASSUME Safe, [Next]_vars
             PROVE  Safe'
  OBVIOUS
<1>1. CASE Operator
  BY <1>1, ConcatSafe, SplitSafe, SliceSafe, SwSliceSafe, SpaceToDepthSafe, DepthToSpaceSafe,
     TransposeSafe, PadSafe DEF Operator
<1>2. CASE Start
  <2>1. ASSUME pc = "start", StartInputs \/ StartOutputs
        PROVE  Safe'
    BY <2>1, InputsStart, OutputsStart
  <2> QED
    BY <1>2, <2>1, StartFillingSafe, StartBatchedSafe, StartSplitSafe, StartTransferSafe DEF Start
<1>3. CASE EnginesDone
  BY <1>3, EnginesDoneSafe
<1>4. CASE End
  BY <1>4, EndFlatSafe, EndBatchedSafe, EndSplitAtonSafe, EndSplitBatchedSafe, EndTransferSafe,
     EndMemsetSafe, EndFillingSafe DEF End
<1>5. CASE Evict
  BY <1>5, EvictSafe
<1>6. CASE Finished \/ UNCHANGED vars
  BY <1>6, StutterSafe DEF Finished
<1> QED BY <1>1, <1>2, <1>3, <1>4, <1>5, <1>6 DEF Next

(* Safe holds in every state: for every call that the compiler makes and   *)
(* every memory, line and transfer size, memory and cache outside the      *)
(* output are as they were, no line is dirty before the operator returns,  *)
(* and each turn of the engines stays within the tensors of the call.      *)
THEOREM AlwaysSafe == Spec => []Safe
BY InitIsSafe, StepIsSafe, PTL DEF Spec

(* An operator never changes a byte outside its output, neither in memory  *)
(* nor in the view of the CPU, at any time and whatever lines are          *)
(* evicted.                                                                *)
THEOREM NeighboursStay == Spec => []NeighboursIntact
<1>1. Safe => NeighboursIntact
  <2> SUFFICES ASSUME Safe, NEW a \in DOMAIN mem.ram \ OutBytes
               PROVE  mem.ram[a] = a /\ CpuView(mem)[a] = a
    BY DEF NeighboursIntact
  <2>1. mem.ram[a] = a /\ (a \in DOMAIN mem.cache => mem.cache[a] = a)
    BY DEF Safe, Sound
  <2> QED BY <2>1 DEF CpuView, Over
<1> QED BY <1>1, AlwaysSafe, PTL

(* The engines read within the inputs and write within the outputs, in     *)
(* every turn.                                                             *)
THEOREM EnginesReadAndWriteTheirTensors == Spec => []EnginesStayInside
<1>1. Safe => EnginesStayInside
  BY DEF Safe, InsideTensors, EnginesStayInside
<1> QED BY <1>1, AlwaysSafe, PTL

(* While the engines run no line is dirty: none can be written over their  *)
(* output, and they read nothing older than the cache holds.               *)
THEOREM NoLineIsDirtyUnderEngines == Spec => []NoDirtyLineUnderEngines
<1>1. Safe => NoDirtyLineUnderEngines
  BY DEF Safe, NoDirtyLineUnderEngines
<1> QED BY <1>1, AlwaysSafe, PTL

(* A call that an operator refuses (its checks come before anything it     *)
(* writes) has changed no byte and leaves no line dirty.                   *)
THEOREM RefusedCallsChangeNothing ==
  Spec => [](pc = "failed" => mem.dirty = {} /\ \A a \in DOMAIN mem.ram : mem.ram[a] = a)
<1>1. Safe => (pc = "failed" => mem.dirty = {} /\ \A a \in DOMAIN mem.ram : mem.ram[a] = a)
  BY DEF Safe, Sound
<1> QED BY <1>1, AlwaysSafe, PTL
=============================================================================
