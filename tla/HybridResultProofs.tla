-------------------------- MODULE HybridResultProofs --------------------------
(***************************************************************************)
(* The result of the hybrid operators that copy: Slice, on the NPU and on  *)
(* the CPU, SpaceToDepth, DepthToSpace, Transpose, and of Concat and Split *)
(* the loops of the CPU and the flat turns of the engines.  Every call     *)
(* that is well posed, of any shape and size, and that is not refused      *)
(* leaves in memory each element of the result where the operator's        *)
(* definition puts it, whatever lines are evicted when.  (Transpose takes  *)
(* only ranks above 2 on the CPU, and 3 and 4 on the engines.)             *)
(*                                                                         *)
(* Safe, proved in HybridCopiesProofs, says that nothing else changes.     *)
(* What is added is that the addresses of the writing engine, or the       *)
(* copies of the CPU, are those of the definition, each once: for the cuts *)
(* into blocks by nested quotients and rests, for tensors of any rank by   *)
(* numbering their bytes like the digits of a number of mixed radix, for   *)
(* lists of tensors by cutting such a number at the digit of the axis.     *)
(***************************************************************************)
EXTENDS HybridCopiesProofs, FiniteSetTheorems

(* The bytes that a copy or a transfer brings from f to f[2].              *)
Bytewise == UNION {{<<m[1] + k, m[2] + k>> : k \in 0..ElementBytes - 1} : m \in Moves}

-----------------------------------------------------------------------------
(***************************************************************************)
(* One copy or one transfer does what it should, and what comes after it   *)
(* takes nothing back.                                                     *)
(***************************************************************************)

(* What a call promises depends on the call alone.                         *)
LEMMA SameResult ==
  ASSUME call' = call
  PROVE  (\A s : Holds(s)' <=> Holds(s)) /\ (Apart' <=> Apart)
<1>1. OutBytes' = OutBytes /\ InBytes' = InBytes
  BY SameTensors
<1>2. Moves' = Moves
  BY DEF Moves, Elements, Place, OnnxPlace, Shifted, Before, Deep, Shallow, Stride, Indices,
         IndicesOf, Total, Product, FoldLeft, MapThenFoldSet, Max, ToSet, PadSource, PaddedDims, Axes
<1>3. ElementBytes' = ElementBytes
  BY DEF ElementBytes, Elementwise, Outputs
<1>4. \A s : Holds(s)' <=> Holds(s)
  BY <1>1, <1>2, <1>3 DEF Holds, PassedByte, Zero
<1> QED BY <1>1, <1>4 DEF Apart, Memory

(* The writer puts each byte of the stream where only that byte goes: it   *)
(* is there afterwards.                                                    *)
LEMMA TransferredExact ==
  ASSUME NEW ram, NEW in, NEW out, Count(out) \in Nat,
         \A j, k \in 0..Count(out) - 1 : Address(out, j) = Address(out, k) => j = k,
         NEW k \in 0..Count(out) - 1
  PROVE  Transferred(ram, in, out)[Address(out, k)] = ram[Address(in, k)]
<1> DEFINE moved == {<<Address(out, j), j>> : j \in 0..Count(out) - 1}
           a == Address(out, k)
           here == {m[2] : m \in {x \in moved : x[1] = a}}
<1>1. here = {k}
  <2>1. k \in here
    <3>1. <<a, k>> \in moved /\ <<a, k>>[1] = a /\ <<a, k>>[2] = k
      OBVIOUS
    <3> HIDE DEF moved, a
    <3> QED BY <3>1
  <2>2. ASSUME NEW m \in moved, m[1] = a
        PROVE  m[2] = k
    <3>1. PICK j \in 0..Count(out) - 1 : m = <<Address(out, j), j>>
      OBVIOUS
    <3> QED BY <3>1, <2>2
  <2> HIDE DEF moved, a
  <2> QED BY <2>1, <2>2
<1>2. Max({k}) = k
  BY DEF Max
<1>3. a \in Addresses(out)
  BY DEF Addresses
<1>4. Transferred(ram, in, out)[a] = ram[Address(in, Max(here))]
  BY <1>3, Zenon DEF Transferred, Over
<1> QED BY <1>1, <1>2, <1>4

(* An eviction changes nothing that the CPU sees.                          *)
LEMMA EvictionKeepsView ==
  ASSUME NEW m, NEW out, Sound(m, out), NEW l \in m.dirty
  PROVE  CpuView(WrittenBack(m, {l})) = CpuView(m)
<1> DEFINE gone == InLines({l} \cap m.dirty)
           cm == Cleaned(m, {l})
           ram == Over(Restrict(m.cache, gone), m.ram)
           cache == Restrict(m.cache, DOMAIN m.cache \ InLines({l}))
           wm == WrittenBack(m, {l})
<1>1. {l} \cap m.dirty = {l} /\ gone = InLines({l}) /\ InLines({l}) \subseteq DOMAIN m.cache
  BY DEF Sound, InLines
<1>2. cm = [m EXCEPT !.ram = ram, !.dirty = m.dirty \ {l}]
  BY Zenon DEF Cleaned
<1>3. cm.ram = ram /\ cm.cache = m.cache /\ IsMemory(cm)
  <2> HIDE DEF ram
  <2> QED BY <1>2 DEF Sound, IsMemory
<1>4. wm = [cm EXCEPT !.cache = cache]
  BY <1>3, Zenon DEF WrittenBack
<1>5. wm.ram = ram /\ wm.cache = cache
  <2> HIDE DEF ram, cache, cm, wm
  <2> QED BY <1>3, <1>4 DEF IsMemory
<1>6. /\ DOMAIN ram = InLines({l}) \cup DOMAIN m.ram
      /\ \A a \in DOMAIN ram : ram[a] = IF a \in InLines({l}) THEN m.cache[a] ELSE m.ram[a]
  BY <1>1 DEF Over, Restrict
<1>7. /\ DOMAIN cache = DOMAIN m.cache \ InLines({l})
      /\ \A a \in DOMAIN cache : cache[a] = m.cache[a]
  BY DEF Restrict
<1> HIDE DEF ram, cache, wm
<1> QED BY <1>1, <1>5, <1>6, <1>7 DEF CpuView, Over, wm

(* A list of memcpy calls, each destination byte with one source, puts the *)
(* source's bytes where the CPU sees them.                                 *)
LEMMA CopiedExact ==
  ASSUME NEW m, NEW out, Sound(m, out), NEW copies,
         Written(copies) \subseteq out \cap Memory,
         \A c, d \in copies : \A j \in 0..c.n - 1, k \in 0..d.n - 1 :
            c.dst + j = d.dst + k => c.src + j = d.src + k,
         NEW c \in copies, NEW k \in 0..c.n - 1
  PROVE  CpuView(Copied(m, copies))[c.dst + k] = CpuView(m)[c.src + k]
<1> DEFINE from == UNION {{<<x.dst + j, x.src + j>> : j \in 0..x.n - 1} : x \in copies}
           lm == Loaded(m, {f[2] : f \in from})
           to == {f[1] : f \in from}
           bytes == [a \in to |-> CpuView(m)[(CHOOSE f \in from : f[1] = a)[2]]]
           sm == Stored(lm, bytes)
           a == c.dst + k
<1>1. Copied(m, copies) = sm
  BY Zenon DEF Copied
<1>2. \A f \in from : \E d \in copies : \E j \in 0..d.n - 1 : f = <<d.dst + j, d.src + j>>
  OBVIOUS
<1>3. <<a, c.src + k>> \in from /\ <<a, c.src + k>>[1] = a
  OBVIOUS
<1> HIDE DEF from
<1>4. a \in to
  BY <1>3
<1>5. \A f \in from : f[1] = a => f[2] = c.src + k
  BY <1>2
<1>6. bytes[a] = CpuView(m)[c.src + k]
  BY <1>3, <1>4, <1>5, Zenon
<1>7. Sound(lm, out)
  <2> DEFINE s == {f[2] : f \in from}
  <2> HIDE DEF s
  <2> QED BY LoadedSound DEF s
<1>8. DOMAIN bytes = to
  OBVIOUS
<1> HIDE DEF lm, bytes, to
<1>9. CpuView(sm)[a] = bytes[a]
  <2> DEFINE am == Loaded(lm, DOMAIN bytes)
             new == Over(bytes, am.cache)
             lines == am.dirty \cup LinesOf(DOMAIN bytes)
  <2>1. sm = [am EXCEPT !.cache = new, !.dirty = lines] /\ IsMemory(am)
    BY <1>7, LoadedSound, Zenon DEF Stored, Sound
  <2>2. sm.cache = new
    <3> HIDE DEF am, new, lines, sm
    <3> QED BY <2>1 DEF IsMemory
  <2>3. a \in DOMAIN new /\ new[a] = bytes[a]
    BY <1>4, <1>8 DEF Over
  <2> HIDE DEF sm, new
  <2> QED BY <2>2, <2>3 DEF CpuView, Over
<1> QED BY <1>1, <1>6, <1>9

(* A memory that has every byte of every element where it belongs, and no  *)
(* other byte to hold, is the result.                                      *)
LEMMA AllMoved ==
  ASSUME NEW seen, \A f \in Bytewise : seen[f[1]] = f[2],
         \A a \in OutBytes : \E f \in Bytewise : f[1] = a
  PROVE  Holds(seen)
<1>1. OutBytes \ {f[1] : f \in Bytewise} = {}
  OBVIOUS
<1> QED BY <1>1, Zenon DEF Holds, Bytewise

(* A copy by the CPU of every byte of every element is the result.         *)
LEMMA CopyIsResult ==
  ASSUME Safe, Apart, NEW copies, Written(copies) \subseteq OutBytes,
         \A c, d \in copies : \A j \in 0..c.n - 1, k \in 0..d.n - 1 :
            c.dst + j = d.dst + k => c.src + j = d.src + k,
         \A f \in Bytewise : /\ f[2] \in InBytes
                             /\ \E c \in copies : \E k \in 0..c.n - 1 :
                                  f[1] = c.dst + k /\ f[2] = c.src + k,
         \A a \in OutBytes : \E f \in Bytewise : f[1] = a
  PROVE  Holds(CpuView(Copied(mem, copies)))
<1>1. Sound(mem, OutBytes) /\ OutBytes \subseteq Memory
  BY OutputsInMemory DEF Safe
<1>2. ASSUME NEW f \in Bytewise
      PROVE  CpuView(Copied(mem, copies))[f[1]] = f[2]
  <2>0. PICK c \in copies : \E k \in 0..c.n - 1 : f[1] = c.dst + k /\ f[2] = c.src + k
    OBVIOUS
  <2>1. PICK k \in 0..c.n - 1 : f[1] = c.dst + k /\ f[2] = c.src + k
    BY <2>0
  <2>2. CpuView(Copied(mem, copies))[c.dst + k] = CpuView(mem)[c.src + k]
    BY <1>1, CopiedExact
  <2>3. CpuView(mem)[f[2]] = f[2]
    BY <1>1 DEF Apart, Sound, CpuView, Over
  <2> QED BY <2>1, <2>2, <2>3
<1> QED BY <1>2, AllMoved

(* An operator that returns with the result in the CPU's view.             *)
LEMMA ReturnsInOneGo ==
  ASSUME InOneGo, NEW m, pc = "call", Returns(m), Holds(CpuView(m))
  PROVE  InOneGo'
<1>1. call' = call /\ block' = "none" /\ mem' = m /\ pc' = "done"
  BY DEF Returns, InOneGo
<1>2. \A s : Holds(s)' <=> Holds(s)
  BY <1>1, SameResult
<1>3. CpuView(mem') = CpuView(m)
  BY <1>1
<1>4. Holds(CpuView(mem))'
  BY <1>2, <1>3
<1> QED BY <1>1, <1>4 DEF InOneGo

(* A transfer that brings every byte of every element is the result.       *)
LEMMA TransferInOneGo ==
  ASSUME Safe, Apart, pc = "call", NEW q, Inserts("transfer", q), mem' = mem,
         Count(q.out) \in Nat,
         \A j, k \in 0..Count(q.out) - 1 : Address(q.out, j) = Address(q.out, k) => j = k,
         \A f \in Bytewise : /\ f[2] \in InBytes
                             /\ \E k \in 0..Count(q.out) - 1 :
                                  f[1] = Address(q.out, k) /\ f[2] = Address(q.in, k),
         \A a \in OutBytes : \E f \in Bytewise : f[1] = a
  PROVE  InOneGo'
<1>1. mem.dirty = {} /\ \A a \in Memory : mem.ram[a] = a
  BY DEF Safe
<1>2. ASSUME NEW f \in Bytewise
      PROVE  Transferred(mem.ram, q.in, q.out)[f[1]] = f[2]
  <2>1. PICK k \in 0..Count(q.out) - 1 : f[1] = Address(q.out, k) /\ f[2] = Address(q.in, k)
    OBVIOUS
  <2>2. Transferred(mem.ram, q.in, q.out)[Address(q.out, k)] = mem.ram[Address(q.in, k)]
    BY TransferredExact
  <2> QED BY <1>1, <2>1, <2>2 DEF Apart
<1>3. Holds(Transferred(mem.ram, q.in, q.out))
  BY <1>2, AllMoved
<1>4. call' = call /\ block' = "transfer" /\ p' = q /\ pc' = "start"
  BY DEF Inserts
<1>5. \A s : Holds(s)' <=> Holds(s)
  BY <1>4, SameResult
<1>6. Holds(Transferred(mem.ram, p.in, p.out))'
  BY <1>3, <1>4, <1>5
<1> QED BY <1>1, <1>4, <1>6 DEF InOneGo, Memory

(* What is in place stays there when the engines start, end and stop, and  *)
(* when lines are evicted.                                                 *)
LEMMA LaterStepInOneGo ==
  ASSUME Safe, InOneGo, Start \/ EnginesDone \/ End \/ Evict \/ UNCHANGED vars
  PROVE  InOneGo'
<1>1. /\ pc \in {"start", "wait", "end"} => block = "transfer"
      /\ mem = [ram |-> mem.ram, cache |-> mem.cache, dirty |-> mem.dirty]
  <2>1. ASSUME pc \in {"start", "wait", "end"}
        PROVE  block # "none"
    BY <2>1 DEF Safe, Turn, TransferTurn, MemsetTurn, FillingTurn, InputsTurn, OutputsTurn,
                BatchedTurn, SplitAtonTurn, SplitBatchedTurn
  <2> QED BY <2>1 DEF InOneGo, Safe, Sound, IsMemory
<1>2. CASE Start
  <2>1. StartTransfer /\ pc = "start" /\ block = "transfer"
    BY <1>1, <1>2 DEF Start, StartInputs, StartOutputs, StartFilling, StartBatched, StartSplit
  <2>2. call' = call /\ block' = block /\ p' = p /\ mem' = mem /\ pc' = "wait"
    BY <2>1 DEF StartTransfer
  <2>3. mem.dirty = {} /\ (\A a \in Memory : mem.ram[a] = a) /\ Holds(Transferred(mem.ram, p.in, p.out))
    BY <2>1 DEF InOneGo
  <2>4. \A s : Holds(s)' <=> Holds(s)
    BY <2>2, SameResult
  <2>5. Holds(Transferred(mem.ram, p.in, p.out))'
    BY <2>2, <2>3, <2>4
  <2> QED BY <2>1, <2>2, <2>3, <2>5 DEF InOneGo, Memory
<1>3. CASE EnginesDone
  <2>1. /\ pc = "wait" /\ call' = call /\ block' = block /\ pc' = "end"
        /\ mem' = [mem EXCEPT !.ram = Transferred(mem.ram, p.in, p.out)]
    BY <1>3 DEF EnginesDone
  <2>2. block = "transfer" /\ mem.dirty = {} /\ Holds(Transferred(mem.ram, p.in, p.out))
    BY <1>1, <2>1 DEF InOneGo
  <2> DEFINE s == Transferred(mem.ram, p.in, p.out)
  <2>3. mem'.ram = s /\ mem'.dirty = {}
    <3> HIDE DEF s
    <3> QED BY <1>1, <2>1, <2>2 DEF s
  <2>5. Holds(mem.ram)'
    <3>1. \A x : Holds(x)' <=> Holds(x)
      BY <2>1, SameResult
    <3>2. mem.ram' = s
      BY <2>3
    <3> HIDE DEF s
    <3> QED BY <2>2, <3>1, <3>2 DEF s
  <2> QED BY <2>1, <2>2, <2>3, <2>5 DEF InOneGo
<1>4. CASE End
  <2>1. EndTransfer /\ pc = "end" /\ block = "transfer"
    BY <1>1, <1>4 DEF End, EndFlat, EndBatched, EndSplitAton, EndSplitBatched, EndMemset, EndFilling
  <2>2. call' = call /\ block' = block /\ mem' = mem /\ pc' = "done"
    BY <2>1 DEF EndTransfer
  <2>3. mem.dirty = {} /\ Holds(mem.ram)
    BY <2>1 DEF InOneGo
  <2>4. \A s : Holds(s)' <=> Holds(s)
    BY <2>2, SameResult
  <2>5. Holds(mem.ram)'
    BY <2>2, <2>3, <2>4
  <2> QED BY <2>1, <2>2, <2>3, <2>5 DEF InOneGo
<1>5. CASE Evict
  <2>1. PICK l \in mem.dirty : mem' = WrittenBack(mem, {l})
    BY <1>5 DEF Evict
  <2>2. call' = call /\ block' = block /\ pc' = pc
    BY <1>5 DEF Evict
  <2>3. block = "none"
    BY <2>1 DEF InOneGo
  <2>4. CpuView(mem') = CpuView(mem)
    BY <2>1, EvictionKeepsView DEF Safe
  <2>5. \A s : Holds(s)' <=> Holds(s)
    BY <2>2, SameResult
  <2>6. Holds(CpuView(mem)) => Holds(CpuView(mem))'
    BY <2>4, <2>5
  <2> QED BY <2>2, <2>3, <2>6 DEF InOneGo
<1>6. CASE UNCHANGED vars
  <2>1. call' = call /\ block' = block /\ p' = p /\ mem' = mem /\ pc' = pc
    BY <1>6 DEF vars
  <2>2. \A s : Holds(s)' <=> Holds(s)
    BY <2>1, SameResult
  <2>3. /\ Holds(CpuView(mem)) => Holds(CpuView(mem))'
        /\ Holds(mem.ram) => Holds(mem.ram)'
        /\ Holds(Transferred(mem.ram, p.in, p.out)) => Holds(Transferred(mem.ram, p.in, p.out))'
    BY <2>1, <2>2
  <2> QED BY <2>1, <2>3 DEF InOneGo, Memory
<1> QED BY <1>2, <1>3, <1>4, <1>5, <1>6

(* A call that is refused. *)
LEMMA RejectsInOneGo ==
  ASSUME InOneGo, pc = "call", Rejects
  PROVE  InOneGo'
BY DEF InOneGo, Rejects

(* With InOneGo an operator that ends has its result in memory.            *)
LEMMA InOneGoIsResult ==
  ASSUME Safe, InOneGo, call.op # "Pad"
  PROVE  ResultInMemory
<1>1. OnCpu <=> block = "none"
  BY DEF OnCpu
<1>2. pc = "done" => Holds(IF OnCpu THEN CpuView(mem) ELSE mem.ram)
  BY <1>1 DEF InOneGo
<1>3. pc = "failed" => mem.dirty = {} /\ \A a \in DOMAIN mem.ram : mem.ram[a] = a
  BY DEF Safe, Sound
<1> QED BY <1>2, <1>3 DEF ResultInMemory

(* The elements of a tensor S are copied one by one from src to bytes of   *)
(* their own at dst, as the call promises.                                 *)
ElementCopies(S, dst, src, bytes, copies) ==
  /\ dst \in [S -> Int] /\ src \in [S -> Int] /\ bytes \in Nat
  /\ \A x \in S : \A r \in 0..bytes - 1 : dst[x] + r \in OutBytes /\ src[x] + r \in InBytes
  /\ \A a \in OutBytes : \E x \in S : \E r \in 0..bytes - 1 : a = dst[x] + r
  /\ \A x, y \in S : \A r, s \in 0..bytes - 1 : dst[x] + r = dst[y] + s => x = y /\ r = s
  /\ \A f \in Bytewise : \E x \in S : \E r \in 0..bytes - 1 : f = <<dst[x] + r, src[x] + r>>
  /\ \A x \in S : \A r \in 0..bytes - 1 : <<dst[x] + r, src[x] + r>> \in Bytewise
  /\ copies = {[dst |-> dst[x], src |-> src[x], n |-> bytes] : x \in S}

(* Such copies by the CPU are the result.                                  *)
LEMMA ElementsAreResult ==
  ASSUME Safe, Apart, NEW S, NEW dst, NEW src, NEW bytes, NEW copies,
         ElementCopies(S, dst, src, bytes, copies)
  PROVE  Holds(CpuView(Copied(mem, copies)))
<1>0. /\ dst \in [S -> Int] /\ src \in [S -> Int] /\ bytes \in Nat
      /\ \A x \in S : \A r \in 0..bytes - 1 : dst[x] + r \in OutBytes /\ src[x] + r \in InBytes
      /\ \A a \in OutBytes : \E x \in S : \E r \in 0..bytes - 1 : a = dst[x] + r
      /\ \A x, y \in S : \A r, s \in 0..bytes - 1 : dst[x] + r = dst[y] + s => x = y /\ r = s
      /\ \A f \in Bytewise : \E x \in S : \E r \in 0..bytes - 1 : f = <<dst[x] + r, src[x] + r>>
      /\ \A x \in S : \A r \in 0..bytes - 1 : <<dst[x] + r, src[x] + r>> \in Bytewise
      /\ copies = {[dst |-> dst[x], src |-> src[x], n |-> bytes] : x \in S}
  BY Zenon DEF ElementCopies
<1>1. Written(copies) \subseteq OutBytes
  <2>1. ASSUME NEW x \in S
        PROVE  dst[x] .. dst[x] + bytes - 1 \subseteq OutBytes
    <3>1. ASSUME NEW a \in dst[x] .. dst[x] + bytes - 1
          PROVE  a \in OutBytes
      <4>1. a - dst[x] \in 0..bytes - 1 /\ dst[x] + (a - dst[x]) = a
        BY <1>0
      <4> QED BY <1>0, <4>1
    <3> QED BY <3>1
  <2>2. ASSUME NEW c \in copies
        PROVE  c.dst \in Int /\ c.n \in Int /\ c.dst .. c.dst + c.n - 1 \subseteq OutBytes
    <3>1. PICK x \in S : c = [dst |-> dst[x], src |-> src[x], n |-> bytes]
      BY <1>0
    <3>2. c.dst = dst[x] /\ c.n = bytes
      BY <3>1
    <3> QED BY <1>0, <2>1, <3>2
  <2> QED BY <2>2, WrittenIn
<1>2. ASSUME NEW c \in copies, NEW d \in copies,
             NEW j \in 0..c.n - 1, NEW k \in 0..d.n - 1, c.dst + j = d.dst + k
      PROVE  c.src + j = d.src + k
  <2>1. PICK x \in S : c = [dst |-> dst[x], src |-> src[x], n |-> bytes]
    BY <1>0
  <2>2. PICK y \in S : d = [dst |-> dst[y], src |-> src[y], n |-> bytes]
    BY <1>0
  <2>3. x = y /\ j = k
    BY <1>0, <1>2, <2>1, <2>2
  <2> QED BY <2>1, <2>2, <2>3
<1>3. ASSUME NEW f \in Bytewise
      PROVE  f[2] \in InBytes /\ \E c \in copies : \E k \in 0..c.n - 1 :
                                    f[1] = c.dst + k /\ f[2] = c.src + k
  <2>1. PICK x \in S : \E r \in 0..bytes - 1 : f = <<dst[x] + r, src[x] + r>>
    BY <1>0
  <2>4. PICK r \in 0..bytes - 1 : f = <<dst[x] + r, src[x] + r>>
    BY <1>0, <2>1
  <2> DEFINE c == [dst |-> dst[x], src |-> src[x], n |-> bytes]
  <2>2. c \in copies /\ r \in 0..c.n - 1 /\ f[1] = c.dst + r /\ f[2] = c.src + r
    BY <1>0, <2>4
  <2>3. f[2] \in InBytes
    BY <1>0, <2>4
  <2> QED BY <2>2, <2>3
<1>4. ASSUME NEW a \in OutBytes
      PROVE  \E f \in Bytewise : f[1] = a
  <2>1. PICK x \in S, r \in 0..bytes - 1 : a = dst[x] + r
    BY <1>0
  <2>2. <<dst[x] + r, src[x] + r>> \in Bytewise
    BY <1>0
  <2> QED BY <2>1, <2>2
<1> QED BY <1>1, <1>2, <1>3, <1>4, CopyIsResult

-----------------------------------------------------------------------------
(***************************************************************************)
(* Rows of a slice, transferred by the engines.                            *)
(***************************************************************************)

(* A number is its digits.                                                 *)
LEMMA QuotientAndRest ==
  ASSUME NEW n \in Nat, NEW q \in Int, NEW r \in 0..n - 1
  PROVE  (q * n + r) \div n = q /\ (q * n + r) % n = r
<1> DEFINE k == q * n + r
           d == k \div n - q
<1>1. k \in Int /\ n \in Nat \ {0}
  OBVIOUS
<1>2. k = n * (k \div n) + (k % n) /\ k % n \in 0..n - 1 /\ k \div n \in Int
  <2> HIDE DEF k
  <2> QED BY <1>1
<1>3. n * d = r - (k % n) /\ d \in Int
  <2>1. n * (k \div n) = q * n + r - (k % n)
    BY <1>2
  <2>2. n * d = n * (k \div n) - n * q
    BY <1>2
  <2> QED BY <1>2, <2>1, <2>2
<1> HIDE DEF k, d
<1>4. d >= 1 => n * d >= n * 1
  BY <1>1, <1>3, ProductMonotone
<1>5. d <= -1 => n * (-d) >= n * 1
  <2>1. d <= -1 => -d \in Nat /\ 1 <= -d
    BY <1>3
  <2> QED BY <2>1, <1>1, ProductMonotone
<1>6. n * (-d) = -(n * d)
  BY <1>1, <1>3
<1>7. d = 0
  BY <1>1, <1>2, <1>3, <1>4, <1>5, <1>6
<1>8. k \div n = q
  <2> DEFINE e == k \div n
  <2>1. e \in Int /\ e - q = 0
    BY <1>2, <1>7 DEF d
  <2> HIDE DEF e
  <2>2. e = q
    BY <2>1
  <2> QED BY <2>2 DEF e
<1>9. k % n = r
  <2>1. n * q = q * n
    OBVIOUS
  <2> QED BY <1>2, <1>8, <2>1 DEF k
<1> QED BY <1>8, <1>9 DEF k

(* The k-th byte of a raw engine whose frames are whole channels.          *)
LEMMA RawAddress ==
  ASSUME NEW d, d.raw = TRUE, d.loop = 0, d.at \in Int, d.len \in Nat, d.bits \in {8, 16, 24},
         (d.len * 8) % d.bits = 0, d.frames \in Nat, d.frame \in Int
  PROVE  /\ Count(d) = d.frames * d.len
         /\ \A q \in Int, r \in 0..d.len - 1 : Address(d, q * d.len + r) = d.at + q * d.frame + r
<1> DEFINE n == d.len
<1>1. FrameBytes(d) = n
  <2>1. FrameBytes(d) = ((n * 8) \div d.bits) * (d.bits \div 8)
    BY DEF FrameBytes
  <2> HIDE DEF n
  <2>2. \A b \in {8, 16, 24} : (n * 8) % b = 0 => ((n * 8) \div b) * (b \div 8) = n
    BY DEF n
  <2> QED BY <2>1, <2>2 DEF n
<1>2. ASSUME NEW q \in Int, NEW r \in 0..n - 1
      PROVE  Address(d, q * n + r) = d.at + q * d.frame + r
  <2> DEFINE k == q * n + r
  <2>1. k \div n = q /\ k % n = r
    <3>1. n \in Nat
      OBVIOUS
    <3> HIDE DEF k
    <3>2. k = q * n + r
      BY DEF k
    <3> HIDE DEF n
    <3>3. (q * n + r) \div n = q /\ (q * n + r) % n = r
      BY <3>1, QuotientAndRest
    <3> QED BY <3>2, <3>3
  <2>2. FrameOffset(d, q) = q * d.frame /\ ByteOffset(d, r) = r
    BY DEF FrameOffset, ByteOffset
  <2> HIDE DEF k, n
  <2>3. Address(d, k) = d.at + FrameOffset(d, k \div n) + ByteOffset(d, k % n)
    BY <1>1 DEF Address
  <2> QED BY <2>1, <2>2, <2>3 DEF k
<1> QED BY <1>1, <1>2 DEF Count

(* The k-th byte of a raw engine of one frame of whole channels.           *)
LEMMA RawWhole ==
  ASSUME NEW at \in Int, NEW size \in Nat, NEW bits \in {8, 16, 24}, (size * 8) % bits = 0
  PROVE  /\ Count(Raw(at, size, bits)) = size
         /\ \A k \in 0..size - 1 : Address(Raw(at, size, bits), k) = at + k
<1> DEFINE d == Raw(at, size, bits)
<1>1. IsRaw(d, bits) /\ d.at = at /\ d.len = size
  BY RawIsRaw
<1> HIDE DEF d
<1>2. /\ d.raw = TRUE /\ d.loop = 0 /\ d.at \in Int /\ d.len \in Nat
      /\ d.bits \in {8, 16, 24} /\ (d.len * 8) % d.bits = 0
      /\ d.frames \in Nat /\ d.frame \in Int
  BY <1>1 DEF IsRaw
<1>3. /\ Count(d) = d.frames * d.len
      /\ \A q \in Int, r \in 0..d.len - 1 :
           Address(d, q * d.len + r) = d.at + q * d.frame + r
  BY <1>2, RawAddress
<1>4. /\ Count(d) = d.frames * size
      /\ \A r \in 0..size - 1 : Address(d, 0 * size + r) = at + 0 * d.frame + r
  BY <1>1, <1>3
<1>5. Count(d) = size /\ \A k \in 0..size - 1 : Address(d, k) = at + k
  BY <1>1, <1>4 DEF IsRaw
<1> QED BY <1>5 DEF d

(* Whole channels stay whole when they are repeated.                       *)
LEMMA ChannelsTimes ==
  ASSUME NEW b \in {8, 16, 24}, NEW width \in Nat, (width * 8) % b = 0, NEW rows \in Nat
  PROVE  ((rows * width) * 8) % b = 0
<1> DEFINE c == (width * 8) \div b
<1>1. width * 8 = c * b /\ c \in Int
  OBVIOUS
<1> HIDE DEF c
<1>2. (rows * width) * 8 = (rows * c) * b + 0 /\ rows * c \in Int
  <2>1. (rows * width) * 8 = rows * (width * 8)
    OBVIOUS
  <2>2. rows * (c * b) = (rows * c) * b
    BY <1>1
  <2>3. (rows * c) * b \in Int
    BY <1>1
  <2> QED BY <1>1, <2>1, <2>2, <2>3
<1> QED BY <1>2, QuotientAndRest

(* Slice: the bytes of width of each of its lines.                         *)
LEMMA SliceExact ==
  ASSUME Safe, InOneGo, Apart, Slice, (call.width * 8) % call.bits = 0
  PROVE  InOneGo'
<1>1. pc = "call" /\ call.op = "Slice" /\ call \in Calls /\ IsParams(p)
  BY DEF Slice, Safe
<1> DEFINE to == call.to
           from == call.from
           width == call.width
           rows == call.rows
           line == call.line
           size == width * rows
<1>2. /\ to \in Nat /\ from \in Nat /\ width \in Nat \ {0} /\ rows \in Nat /\ line \in Nat
      /\ width <= line /\ call.bits \in {8, 16, 24} /\ (width * 8) % call.bits = 0
      /\ size \in Nat /\ size = rows * width
  <2>1. SliceIsGiven(call)
    BY <1>1, CallIsGiven
  <2>2. /\ to \in Nat /\ from \in Nat /\ width \in Nat \ {0} /\ rows \in Nat /\ line \in Nat
        /\ width <= line /\ call.bits \in {8, 16, 24}
    BY <2>1 DEF SliceIsGiven
  <2>3. size \in Nat /\ size = rows * width
    <3> HIDE DEF width, rows
    <3> QED BY <2>2
  <2> QED BY <2>2, <2>3
<1>3. OutBytes = to .. to + (size - 1) /\ InBytes = from .. from + (rows * line - 1)
  <2> DEFINE read == line * rows
  <2>1. OutBytes = to .. to - 1 + size /\ InBytes = from .. from - 1 + read
    BY <1>1 DEF OutBytes, InBytes, Elementwise
  <2>2. read \in Int /\ read = rows * line
    <3> HIDE DEF line, rows
    <3> QED BY <1>2
  <2>3. size \in Int /\ to \in Int /\ from \in Int
    BY <1>2
  <2> HIDE DEF to, from, size, read
  <2>4. to - 1 + size = to + (size - 1) /\ from - 1 + read = from + (read - 1)
    BY <2>2, <2>3
  <2>5. OutBytes = to .. to + (size - 1) /\ InBytes = from .. from + (read - 1)
    BY <2>1, <2>4
  <2> QED BY <2>2, <2>5
<1>4. Bytewise = {<<to + (y * width + x), from + (y * line + x)>> : x \in 0..width - 1, y \in 0..rows - 1}
  <2>1. ElementBytes = 1
    BY <1>1 DEF ElementBytes, Elementwise
  <2>2. Moves = {<<to + y * width + x, from + y * line + x>> : x \in 0..width - 1, y \in 0..rows - 1}
    BY <1>1 DEF Moves
  <2> QED BY <1>2, <2>1, <2>2 DEF Bytewise
<1> HIDE DEF to, from, width, rows, line, size
<1>5. ASSUME NEW a \in OutBytes
      PROVE  \E f \in Bytewise : f[1] = a
  <2> DEFINE k == a - to
             y == k \div width
             x == k % width
  <2>1. k \in 0..rows * width - 1
    BY <1>2, <1>3
  <2>2. y \in 0..rows - 1 /\ x \in 0..width - 1 /\ k = y * width + x
    BY <1>2, <2>1, Division
  <2>3. a = to + (y * width + x)
    BY <1>2, <1>3, <2>2
  <2> HIDE DEF k, y, x
  <2>4. <<to + (y * width + x), from + (y * line + x)>> \in Bytewise
    BY <1>4, <2>2
  <2> QED BY <2>3, <2>4
<1>6. ASSUME NEW f \in Bytewise
      PROVE  \E y \in 0..rows - 1, x \in 0..width - 1 :
               f = <<to + (y * width + x), from + (y * line + x)>> /\ f[2] \in InBytes
  <2>1. PICK x \in 0..width - 1, y \in 0..rows - 1 :
               f = <<to + (y * width + x), from + (y * line + x)>>
    BY <1>4
  <2>2. x \in 0..line - 1
    BY <1>2
  <2>3. y * line + x \in 0..rows * line - 1
    BY <1>2, <2>2, RowBound
  <2> DEFINE b == y * line + x
             e == rows * line
  <2> HIDE DEF b, e
  <2>4. from + b \in from .. from + (e - 1)
    BY <1>2, <2>3 DEF b, e
  <2> QED BY <1>3, <2>1, <2>4 DEF b, e
<1>7. CASE /\ Returns(Copied(mem, {[dst |-> to + k * width, n |-> width,
                                    src |-> from + k * line] : k \in 0..rows - 1}))
  <2> DEFINE copies == {[dst |-> to + k * width, n |-> width, src |-> from + k * line]
                        : k \in 0..rows - 1}
  <2>1. Written(copies) \subseteq OutBytes
    <3>1. ASSUME NEW k \in 0..rows - 1, NEW j \in 0..width - 1
          PROVE  to + k * width + j \in OutBytes
      <4>1. k * width + j \in 0..size - 1 /\ k * width \in Int
        BY <1>2, RowBound
      <4> QED BY <1>2, <1>3, <4>1
    <3> QED BY <3>1 DEF Written
  <2>2. ASSUME NEW c \in copies, NEW d \in copies,
               NEW j \in 0..c.n - 1, NEW k \in 0..d.n - 1, c.dst + j = d.dst + k
        PROVE  c.src + j = d.src + k
    <3>1. PICK y \in 0..rows - 1 : c = [dst |-> to + y * width, n |-> width, src |-> from + y * line]
      OBVIOUS
    <3>2. PICK z \in 0..rows - 1 : d = [dst |-> to + z * width, n |-> width, src |-> from + z * line]
      OBVIOUS
    <3>3. y * width + j = z * width + k /\ j \in 0..width - 1 /\ k \in 0..width - 1
      <4>1. y * width \in Int /\ z * width \in Int
        BY <1>2
      <4> QED BY <1>2, <2>2, <3>1, <3>2, <4>1
    <3>4. y = z /\ j = k
      <4>1. width \in Nat /\ y \in Int /\ z \in Int
        BY <1>2
      <4>2. (y * width + j) \div width = y /\ (y * width + j) % width = j
        BY <3>3, <4>1, QuotientAndRest
      <4>3. (z * width + k) \div width = z /\ (z * width + k) % width = k
        BY <3>3, <4>1, QuotientAndRest
      <4> QED BY <3>3, <4>2, <4>3
    <3> QED BY <3>1, <3>2, <3>4
  <2>3. ASSUME NEW f \in Bytewise
        PROVE  f[2] \in InBytes /\ \E c \in copies : \E k \in 0..c.n - 1 :
                                      f[1] = c.dst + k /\ f[2] = c.src + k
    <3>1. PICK y \in 0..rows - 1, x \in 0..width - 1 :
               f = <<to + (y * width + x), from + (y * line + x)>> /\ f[2] \in InBytes
      BY <1>6
    <3> DEFINE c == [dst |-> to + y * width, n |-> width, src |-> from + y * line]
    <3>2. c \in copies /\ x \in 0..c.n - 1
      OBVIOUS
    <3>3. f[1] = c.dst + x /\ f[2] = c.src + x
      <4>1. y * width \in Int /\ y * line \in Int
        BY <1>2
      <4> QED BY <1>2, <3>1, <4>1
    <3> QED BY <3>1, <3>2, <3>3
  <2> HIDE DEF copies
  <2>4. Holds(CpuView(Copied(mem, copies)))
    BY <1>5, <2>1, <2>2, <2>3, CopyIsResult
  <2>5. Returns(Copied(mem, copies))
    BY <1>7, Zenon DEF copies
  <2> QED BY <1>1, <2>4, <2>5, ReturnsInOneGo
<1>8. CASE /\ Inserts("transfer", [p EXCEPT
                !.in = [Raw(from, width, call.bits) EXCEPT !.frame = line, !.frames = rows],
                !.out = Raw(to, size, call.bits)])
           /\ mem' = mem
  <2> DEFINE in == Repeated(Raw(from, width, call.bits), line, rows)
             out == Raw(to, size, call.bits)
             q == WithEngines(p, in, out)
  <2>1. q.in = in /\ q.out = out
    BY <1>1, WithEnginesParams
  <2>2. Inserts("transfer", q)
    BY <1>8, Zenon DEF WithEngines, Repeated
  <2>3. Count(in) = rows * width /\ \A y \in Int, x \in 0..width - 1 :
                                       Address(in, y * width + x) = from + y * line + x
    <3>1. /\ in.raw = TRUE /\ in.loop = 0 /\ in.at = from /\ in.len = width
          /\ in.bits = call.bits /\ in.frames = rows /\ in.frame = line
      BY DEF Repeated, Raw
    <3> HIDE DEF in
    <3>2. /\ Count(in) = in.frames * in.len
          /\ \A y \in Int, r \in 0..in.len - 1 :
               Address(in, y * in.len + r) = in.at + y * in.frame + r
      <4>1. /\ in.at \in Int /\ in.len \in Nat /\ in.bits \in {8, 16, 24}
            /\ (in.len * 8) % in.bits = 0 /\ in.frames \in Nat /\ in.frame \in Int
        BY <1>2, <3>1
      <4> QED BY <3>1, <4>1, RawAddress
    <3> QED BY <3>1, <3>2
  <2>4. Count(out) = size /\ \A k \in 0..size - 1 : Address(out, k) = to + k
    <3>1. (size * 8) % call.bits = 0
      BY <1>2, ChannelsTimes
    <3>2. to \in Int /\ size \in Nat /\ call.bits \in {8, 16, 24}
      BY <1>2
    <3> QED BY <3>1, <3>2, RawWhole, Zenon
  <2> HIDE DEF in, out, q
  <2>5. ASSUME NEW f \in Bytewise
        PROVE  f[2] \in InBytes /\ \E k \in 0..Count(out) - 1 :
                                      f[1] = Address(out, k) /\ f[2] = Address(in, k)
    <3>1. PICK y \in 0..rows - 1, x \in 0..width - 1 :
               f = <<to + (y * width + x), from + (y * line + x)>> /\ f[2] \in InBytes
      BY <1>6
    <3>2. y * width + x \in 0..size - 1 /\ y * line \in Int
      BY <1>2, RowBound
    <3>3. Address(in, y * width + x) = from + (y * line + x)
      <4>1. Address(in, y * width + x) = from + y * line + x
        BY <2>3
      <4> DEFINE l == y * line
                 i == y * width + x
      <4>2. l \in Int /\ from \in Int /\ x \in Int
        BY <1>2
      <4> HIDE DEF l, i
      <4>3. from + l + x = from + (l + x)
        BY <4>2
      <4> QED BY <4>1, <4>3 DEF l, i
    <3>4. Address(out, y * width + x) = to + (y * width + x)
      BY <2>4, <3>2
    <3> QED BY <2>4, <3>1, <3>2, <3>3, <3>4
  <2>6. ASSUME NEW j \in 0..Count(out) - 1, NEW k \in 0..Count(out) - 1,
               Address(out, j) = Address(out, k)
        PROVE  j = k
    BY <1>2, <2>4, <2>6
  <2>7. Count(out) \in Nat
    BY <1>2, <2>4
  <2> QED BY <1>1, <1>5, <1>8, <2>1, <2>2, <2>5, <2>6, <2>7, TransferInOneGo
<1> QED BY <1>7, <1>8, Zenon DEF Slice, to, from, width, rows, line, size

-----------------------------------------------------------------------------
(***************************************************************************)
(* Tensors that are cut into blocks of pixels.                             *)
(***************************************************************************)

(* where byte r of pixel x of line y of frame f comes in the stream of an  *)
(* engine whose pixels are so many bytes deep                              *)
Streamed(d, deep, f, y, x, r) == f * (d.height * (d.width * deep)) + ((y * d.width + x) * deep + r)

(* an engine that is not raw, whose pixels are so many bytes deep          *)
Shaped(d, deep) ==
  /\ d.raw = FALSE /\ d.width \in Nat /\ d.height \in Nat /\ d.depth \in Nat
  /\ d.bits \in {8, 16, 24} /\ deep \in Nat /\ deep = d.depth * (d.bits \div 8)

(* Two ways to count a byte in a frame.                                    *)
LEMMA TwoCounts ==
  ASSUME NEW width \in Nat, NEW deep \in Nat, NEW y \in Int, NEW x \in Int, NEW r \in Int
  PROVE  (y * width + x) * deep + r = y * (width * deep) + (x * deep + r)
<1>1. (y * width + x) * deep = (y * width) * deep + x * deep
  BY ProductNat
<1>2. (y * width) * deep = y * (width * deep)
  OBVIOUS
<1> DEFINE a == (y * width + x) * deep
           b == (y * width) * deep
           c == y * (width * deep)
           e == x * deep
<1>3. a \in Int /\ b \in Int /\ c \in Int /\ e \in Int /\ a = b + e /\ b = c
  BY <1>1, <1>2
<1> HIDE DEF a, b, c, e
<1>4. a + r = c + (e + r)
  BY <1>3
<1> QED BY <1>4 DEF a, c, e

(* What a shaped engine addresses, byte by byte of its stream.             *)
LEMMA ShapedAddress ==
  ASSUME NEW d, NEW deep, Shaped(d, deep), NEW f \in Int,
         NEW y \in 0..d.height - 1, NEW x \in 0..d.width - 1, NEW r \in 0..deep - 1
  PROVE  Address(d, Streamed(d, deep, f, y, x, r))
           = d.at + FrameOffset(d, f) + (y * LineOffset(d) + x * d.pixel + r)
<1> DEFINE n == d.height * (d.width * deep)
           b == (y * d.width + x) * deep + r
           k == f * n + b
           row == d.width * deep
<1>0. /\ d.raw = FALSE /\ d.width \in Nat /\ d.height \in Nat /\ d.depth \in Nat
      /\ d.bits \in {8, 16, 24} /\ deep \in Nat /\ deep = d.depth * (d.bits \div 8)
  BY DEF Shaped
<1>1. FrameBytes(d) = n
  <2>1. FrameBytes(d) = d.width * d.height * d.depth * (d.bits \div 8)
    BY <1>0 DEF FrameBytes
  <2> DEFINE s == d.bits \div 8
  <2>2. s \in Nat
    BY <1>0
  <2> HIDE DEF s
  <2>3. d.width * d.height * d.depth * s = d.height * (d.width * (d.depth * s))
    BY <1>0, <2>2
  <2> QED BY <1>0, <2>1, <2>3 DEF s
<1>2. row \in Nat /\ n \in Nat
  <2>1. row \in Nat
    BY <1>0, ProductNat
  <2> HIDE DEF row
  <2>2. d.height * row \in Nat
    BY <1>0, <2>1, ProductNat
  <2> QED BY <1>0, <2>1, <2>2 DEF row
<1>3. b = y * row + (x * deep + r) /\ x * deep + r \in 0..row - 1
  BY <1>0, TwoCounts, RowBound
<1>4. b \in 0..n - 1
  <2> HIDE DEF row, b
  <2>1. y * row + (x * deep + r) \in 0..d.height * row - 1
    BY <1>0, <1>2, <1>3, RowBound
  <2> QED BY <1>0, <1>3, <2>1 DEF row
<1>5. k \div n = f /\ k % n = b
  <2> HIDE DEF n, b
  <2> QED BY <1>0, <1>2, <1>4, QuotientAndRest
<1>6. b \div row = y
  <2> DEFINE z == x * deep + r
  <2> HIDE DEF row, z
  <2>1. (y * row + z) \div row = y
    <3>1. y \in Int /\ z \in 0..row - 1
      BY <1>0, <1>3 DEF z
    <3> QED BY <1>0, <1>2, <3>1, QuotientAndRest, Zenon
  <2> QED BY <1>0, <1>3, <2>1 DEF z
<1>7. b \div deep = y * d.width + x /\ b % deep = r
  <2>1. y * d.width + x \in Int
    BY <1>0
  <2> QED BY <1>0, <2>1, QuotientAndRest, Zenon
<1>8. (y * d.width + x) % d.width = x
  <2>1. y \in Int
    BY <1>0
  <2> QED BY <1>0, <2>1, QuotientAndRest, Zenon
<1>9. ByteOffset(d, b) = y * LineOffset(d) + x * d.pixel + r
  <2> HIDE DEF b, row
  <2>1. ByteOffset(d, b) = (b \div row) * LineOffset(d) + ((b \div deep) % d.width) * d.pixel + (b % deep)
    BY <1>0, Zenon DEF ByteOffset, row
  <2> QED BY <1>0, <2>1, <1>6, <1>7, <1>8
<1> HIDE DEF k, n, b, row
<1>10. Address(d, k) = d.at + FrameOffset(d, k \div n) + ByteOffset(d, k % n)
  BY <1>0, <1>1 DEF Address
<1>11. Address(d, k) = d.at + FrameOffset(d, f) + (y * LineOffset(d) + x * d.pixel + r)
  BY <1>0, <1>5, <1>9, <1>10
<1> QED BY <1>0, <1>11, Zenon DEF k, n, b, Streamed

(* Every byte of the stream belongs to a pixel.                            *)
LEMMA StreamedAll ==
  ASSUME NEW d, NEW deep, Shaped(d, deep), d.frames \in Nat
  PROVE  /\ Count(d) = d.frames * (d.height * (d.width * deep)) /\ Count(d) \in Nat
         /\ \A f \in 0..d.frames - 1, y \in 0..d.height - 1, x \in 0..d.width - 1, r \in 0..deep - 1 :
              Streamed(d, deep, f, y, x, r) \in 0..Count(d) - 1
         /\ \A k \in 0..Count(d) - 1 :
              \E f \in 0..d.frames - 1, y \in 0..d.height - 1, x \in 0..d.width - 1, r \in 0..deep - 1 :
                k = Streamed(d, deep, f, y, x, r)
<1> DEFINE row == d.width * deep
           n == d.height * row
<1>0. /\ d.raw = FALSE /\ d.width \in Nat /\ d.height \in Nat /\ d.depth \in Nat
      /\ d.bits \in {8, 16, 24} /\ deep \in Nat /\ deep = d.depth * (d.bits \div 8)
  BY DEF Shaped
<1>1. FrameBytes(d) = n
  <2>1. FrameBytes(d) = d.width * d.height * d.depth * (d.bits \div 8)
    BY <1>0 DEF FrameBytes
  <2> DEFINE s == d.bits \div 8
  <2>2. s \in Nat
    BY <1>0
  <2> HIDE DEF s
  <2>3. d.width * d.height * d.depth * s = d.height * (d.width * (d.depth * s))
    BY <1>0, <2>2
  <2> QED BY <1>0, <2>1, <2>3 DEF s
<1>2. row \in Nat /\ n \in Nat
  <2>1. row \in Nat
    BY <1>0, ProductNat
  <2> HIDE DEF row
  <2> QED BY <1>0, <2>1, ProductNat
<1>3. Count(d) = d.frames * n /\ Count(d) \in Nat
  <2> HIDE DEF n
  <2>1. d.frames * n \in Nat
    BY <1>0, <1>2, ProductNat
  <2> QED BY <1>0, <1>1, <2>1 DEF Count
<1>4. ASSUME NEW f \in 0..d.frames - 1, NEW y \in 0..d.height - 1, NEW x \in 0..d.width - 1,
             NEW r \in 0..deep - 1
      PROVE  Streamed(d, deep, f, y, x, r) \in 0..Count(d) - 1
  <2>1. x * deep + r \in 0..row - 1
    BY <1>0, RowBound
  <2>2. y * row + (x * deep + r) \in 0..n - 1
    <3> DEFINE z == x * deep + r
    <3> HIDE DEF row, z
    <3> QED BY <1>0, <1>2, <2>1, RowBound DEF z
  <2> DEFINE b == y * row + (x * deep + r)
  <2>3. Streamed(d, deep, f, y, x, r) = f * n + b
    <3>1. (y * d.width + x) * deep + r = b
      BY <1>0, TwoCounts
    <3> HIDE DEF b
    <3> QED BY <1>0, <3>1 DEF Streamed
  <2> HIDE DEF n, b
  <2>4. f * n + b \in 0..d.frames * n - 1
    BY <1>0, <1>2, <2>2, RowBound DEF b
  <2> QED BY <1>0, <1>3, <2>3, <2>4
<1>5. ASSUME NEW k \in 0..Count(d) - 1
      PROVE  \E f \in 0..d.frames - 1, y \in 0..d.height - 1, x \in 0..d.width - 1, r \in 0..deep - 1 :
               k = Streamed(d, deep, f, y, x, r)
  <2> DEFINE f == k \div n
             b == k % n
             y == b \div row
             z == b % row
             x == z \div deep
             r == z % deep
  <2>1. f \in 0..d.frames - 1 /\ b \in 0..n - 1 /\ k = f * n + b
    <3> HIDE DEF n
    <3> QED BY <1>0, <1>2, <1>3, Division
  <2> HIDE DEF f, b
  <2>2. y \in 0..d.height - 1 /\ z \in 0..row - 1 /\ b = y * row + z
    <3> HIDE DEF row
    <3> QED BY <1>0, <1>2, <2>1, Division
  <2> HIDE DEF y, z
  <2>3. x \in 0..d.width - 1 /\ r \in 0..deep - 1 /\ z = x * deep + r
    <3>1. d.width \in Nat /\ deep \in Nat /\ z \in 0..d.width * deep - 1
      BY <1>0, <2>2
    <3> QED BY ONLY <3>1, Division
  <2> HIDE DEF x, r
  <2>4. b = (y * d.width + x) * deep + r
    BY <1>0, <2>2, <2>3, TwoCounts
  <2>5. k = Streamed(d, deep, f, y, x, r)
    <3> HIDE DEF n
    <3> QED BY <1>0, <2>1, <2>4 DEF Streamed, n
  <2> QED BY <1>0, <2>1, <2>2, <2>3, <2>5
<1> QED BY <1>0, <1>3, <1>4, <1>5

(* the bytes of an image that is cut into blocks: sample, block down and   *)
(* across, line and pixel within the block, byte of the pixel              *)
PixelBytes(t) == t.shape["C"] * t.bytes
Spots(t, bh, bw) ==
  [n : 0..t.shape["N"] - 1, down : 0..Down(t, bh) - 1, across : 0..Across(t, bw) - 1,
   y : 0..bh - 1, x : 0..bw - 1, byte : 0..PixelBytes(t) - 1]
InImage(t, bh, bw, g) ==
  ((g.n * t.shape["H"] + (g.down * bh + g.y)) * t.shape["W"] + (g.across * bw + g.x)) * PixelBytes(t)
    + g.byte
InRows(t, bh, bw, g) ==
  ((g.n * Down(t, bh) + g.down) * Across(t, bw) + g.across) * (bh * (bw * PixelBytes(t)))
    + ((g.y * bw + g.x) * PixelBytes(t) + g.byte)

(* What the bytes of a cut image are counted with.                         *)
LEMMA ImageSizes ==
  ASSUME NEW t, NEW bh, NEW bw, CutInBlocks(t, bh, bw)
  PROVE  /\ t.shape["N"] \in Nat \ {0} /\ t.shape["H"] \in Nat \ {0} /\ t.shape["W"] \in Nat \ {0}
         /\ t.shape["C"] \in Nat \ {0} /\ t.bytes \in 1..4 /\ t.at \in Nat
         /\ Across(t, bw) \in Nat \ {0} /\ t.shape["W"] = Across(t, bw) * bw
         /\ Down(t, bh) \in Nat \ {0} /\ t.shape["H"] = Down(t, bh) * bh
         /\ bh \in Nat \ {0} /\ bw \in Nat \ {0} /\ PixelBytes(t) \in Nat \ {0}
<1>1. t \in Tensors /\ bh \in Nat \ {0} /\ bw \in Nat \ {0}
  BY DEF CutInBlocks
<1>2. /\ t.shape["N"] \in Nat \ {0} /\ t.shape["H"] \in Nat \ {0} /\ t.shape["W"] \in Nat \ {0}
      /\ t.shape["C"] \in Nat \ {0} /\ t.bytes \in 1..4 /\ t.at \in Nat
  BY <1>1, SizeIsNat
<1>3. PixelBytes(t) \in Nat \ {0}
  <2> DEFINE b == t.bytes
             c == t.shape["C"]
  <2>1. b \in Nat \ {0} /\ c \in Nat \ {0}
    BY <1>2
  <2> HIDE DEF b, c
  <2>2. c * b \in Nat \ {0}
    BY <2>1
  <2> QED BY <2>2 DEF PixelBytes, b, c
<1> QED BY <1>1, <1>2, <1>3, BlockCounts

(* an engine that scans an image block by block *)
ScansBlocks(d, t, bh, bw) ==
  /\ d.raw = FALSE /\ d.at = t.at /\ d.width = bw /\ d.height = bh
  /\ d.bits \in {8, 16, 24} /\ d.depth \in Nat
  /\ d.depth * (d.bits \div 8) = PixelBytes(t)
  /\ d.pixel = PixelBytes(t) /\ d.line = t.shape["W"] * PixelBytes(t)
  /\ d.loop = Across(t, bw) /\ d.frame = bw * PixelBytes(t)
  /\ d.frames = t.shape["N"] * Down(t, bh) * Across(t, bw)
  /\ d.loops = bh * t.shape["W"] * PixelBytes(t)

(* What SpaceToDepth and DepthToSpace program for the image.               *)
LEMMA BlocksFields ==
  ASSUME NEW t, NEW bh, NEW bw, CutInBlocks(t, bh, bw)
  PROVE  ScansBlocks(Blocks(t, bh, bw), t, bh, bw)
<1> DEFINE d == Blocks(t, bh, bw)
           s == PixelBytes(t)
           bits == ChannelBits(t)
           depth == Channels(t, t.shape["C"])
           line == t.shape["W"] * s
           across == Across(t, bw)
           frame == bw * s
           frames == t.shape["N"] * Down(t, bh) * across
           loops == bh * t.shape["W"] * s
<1>1. d = [Raw(t.at, 0, bits) EXCEPT
             !.raw = FALSE, !.width = bw, !.height = bh, !.depth = depth, !.pixel = s,
             !.line = line, !.loop = across, !.frame = frame, !.frames = frames, !.loops = loops]
  BY Zenon DEF Blocks, Across, Down, PixelBytes
<1>2. bits \in {8, 16, 24} /\ depth \in Nat /\ depth * (bits \div 8) = s
  BY ImageSizes, ChannelBytes DEF CutInBlocks, PixelBytes
<1> HIDE DEF s, bits, depth, line, across, frame, frames, loops, d
<1>3. /\ d.raw = FALSE /\ d.bits = bits /\ d.depth = depth /\ d.width = bw /\ d.height = bh
      /\ d.pixel = s /\ d.line = line /\ d.loop = across /\ d.frame = frame
      /\ d.frames = frames /\ d.loops = loops /\ d.at = t.at
  BY <1>1 DEF Raw
<1>4. ScansBlocks(d, t, bh, bw)
  BY <1>2, <1>3 DEF ScansBlocks, s, line, across, frame, frames, loops
<1> QED BY <1>4 DEF d

(* Each byte of the stream of such an engine is that of its place in the   *)
(* image.                                                                  *)
LEMMA BlockAddress ==
  ASSUME NEW t, NEW bh, NEW bw, CutInBlocks(t, bh, bw), NEW g \in Spots(t, bh, bw)
  PROVE  Address(Blocks(t, bh, bw), InRows(t, bh, bw, g)) = t.at + InImage(t, bh, bw, g)
<1> DEFINE s == PixelBytes(t)
           h == t.shape["H"]
           w == t.shape["W"]
           across == Across(t, bw)
           down == Down(t, bh)
           d == Blocks(t, bh, bw)
           n == g.n
           v == g.down
           u == g.across
           y == g.y
           x == g.x
           o == g.byte
           q == n * down + v
           f == q * across + u
<1>1. /\ h \in Nat /\ w \in Nat \ {0} /\ across \in Nat \ {0} /\ down \in Nat /\ bh \in Nat /\ bw \in Nat
      /\ s \in Nat \ {0} /\ w = across * bw /\ h = down * bh /\ t.at \in Nat
  BY ImageSizes
<1>2. /\ n \in Nat /\ v \in 0..down - 1 /\ u \in 0..across - 1
      /\ y \in 0..bh - 1 /\ x \in 0..bw - 1 /\ o \in 0..s - 1
  BY DEF Spots
<1>3. /\ d.raw = FALSE /\ d.at = t.at /\ d.width = bw /\ d.height = bh
      /\ d.bits \in {8, 16, 24} /\ d.depth \in Nat /\ d.depth * (d.bits \div 8) = s
      /\ d.pixel = s /\ d.line = w * s /\ d.loop = across /\ d.frame = bw * s
      /\ d.loops = bh * w * s
  <2>1. ScansBlocks(d, t, bh, bw)
    BY BlocksFields
  <2> HIDE DEF d
  <2> QED BY <2>1 DEF ScansBlocks
<1>4. InRows(t, bh, bw, g) = f * (bh * (bw * s)) + ((y * bw + x) * s + o)
  BY DEF InRows
<1>5. InImage(t, bh, bw, g) = ((n * h + (v * bh + y)) * w + (u * bw + x)) * s + o
  BY DEF InImage
<1> HIDE DEF s, h, w, across, down, d, n, v, u, y, x, o
<1>6. q \in Int /\ f \in Int
  <2>1. n * down \in Nat
    BY <1>1, <1>2, ProductNat
  <2>2. q \in Nat
    BY <1>2, <2>1
  <2> HIDE DEF q
  <2>3. q * across \in Nat
    BY <1>1, <2>2, ProductNat
  <2> QED BY <1>2, <2>2, <2>3
<1>7. Streamed(d, s, f, y, x, o) = f * (bh * (bw * s)) + ((y * bw + x) * s + o)
  BY <1>3 DEF Streamed
<1>8. Address(d, Streamed(d, s, f, y, x, o))
        = d.at + FrameOffset(d, f) + (y * LineOffset(d) + x * d.pixel + o)
  <2> HIDE DEF f
  <2>1. y \in 0..d.height - 1 /\ x \in 0..d.width - 1 /\ o \in 0..s - 1
    BY <1>2, <1>3
  <2>2. Shaped(d, s)
    BY <1>1, <1>3 DEF Shaped
  <2> QED BY <1>6, <2>1, <2>2, ShapedAddress
<1>9. FrameOffset(d, f) = q * (bh * w * s) + u * (bw * s)
  <2>1. f \div across = q /\ f % across = u
    <3> HIDE DEF q
    <3> QED BY <1>1, <1>2, <1>6, QuotientAndRest, Zenon
  <2> HIDE DEF f, q
  <2> QED BY <1>1, <1>3, <2>1 DEF FrameOffset
<1>10. LineOffset(d) = w * s
  <2> DEFINE l == w * s
  <2>1. l \in Nat \ {0}
    BY <1>1
  <2> HIDE DEF l
  <2> QED BY <1>3, <2>1 DEF LineOffset, l
<1>11. q * (bh * w * s) + u * (bw * s) + (y * (w * s) + x * s + o)
         = ((n * h + (v * bh + y)) * w + (u * bw + x)) * s + o
  <2>1. n * h + (v * bh + y) = q * bh + y
    <3>1. n * (down * bh) + (v * bh + y) = (n * down + v) * bh + y
      BY <1>1, <1>2
    <3> QED BY <1>1, <3>1
  <2> HIDE DEF q
  <2>2. q * (bh * w * s) + u * (bw * s) + (y * (w * s) + x * s + o)
          = ((q * bh + y) * w + (u * bw + x)) * s + o
    BY <1>1, <1>2, <1>6
  <2> QED BY <2>1, <2>2
<1>12. Address(d, Streamed(d, s, f, y, x, o))
         = d.at + (q * (bh * w * s) + u * (bw * s)) + (y * (w * s) + x * s + o)
  BY <1>3, <1>8, <1>9, <1>10
<1> DEFINE a == q * (bh * w * s) + u * (bw * s)
           b == y * (w * s) + x * s + o
<1>13. a \in Int /\ b \in Int
  <2> HIDE DEF q
  <2> QED BY <1>1, <1>2, <1>6
<1>14. Address(d, Streamed(d, s, f, y, x, o)) = t.at + (a + b)
  <2>1. Address(d, Streamed(d, s, f, y, x, o)) = t.at + a + b
    BY <1>3, <1>12
  <2> HIDE DEF a, b
  <2> QED BY <1>1, <1>13, <2>1
<1> HIDE DEF f
<1>15. Address(d, Streamed(d, s, f, y, x, o)) = t.at + InImage(t, bh, bw, g)
  BY <1>5, <1>11, <1>14
<1> QED BY <1>4, <1>7, <1>15 DEF d, f

(* Each byte of the image comes once in the stream, and each has a place.  *)
LEMMA SpotsAreAll ==
  ASSUME NEW t, NEW bh, NEW bw, CutInBlocks(t, bh, bw)
  PROVE  /\ Count(Blocks(t, bh, bw)) = Size(t)
         /\ \A g \in Spots(t, bh, bw) : InRows(t, bh, bw, g) \in 0..Size(t) - 1
         /\ \A k \in 0..Size(t) - 1 : \E g \in Spots(t, bh, bw) : k = InRows(t, bh, bw, g)
<1> DEFINE s == PixelBytes(t)
           d == Blocks(t, bh, bw)
           across == Across(t, bw)
           down == Down(t, bh)
           n == t.shape["N"]
<1>1. /\ n \in Nat /\ across \in Nat \ {0} /\ down \in Nat /\ bh \in Nat /\ bw \in Nat
      /\ s \in Nat \ {0} /\ t.shape["W"] = across * bw /\ t.shape["H"] = down * bh
      /\ t.bytes \in Nat /\ t.shape["C"] \in Nat
  BY ImageSizes
<1>2. ScansBlocks(d, t, bh, bw)
  BY BlocksFields
<1> HIDE DEF d, across, down
<1>3. /\ Shaped(d, s) /\ d.width = bw /\ d.height = bh /\ d.frames = (n * down) * across
      /\ d.frames \in Nat
  <2>1. n * down \in Nat
    BY <1>1
  <2>2. d.frames = (n * down) * across
    BY <1>2 DEF ScansBlocks, across, down
  <2>3. d.frames \in Nat
    <3> DEFINE m == n * down
    <3> HIDE DEF m
    <3> QED BY <1>1, <2>1, <2>2, ProductNat DEF m
  <2> QED BY <1>1, <1>2, <2>2, <2>3 DEF ScansBlocks, Shaped
<1>4. /\ Count(d) = d.frames * (bh * (bw * s)) /\ Count(d) \in Nat
      /\ \A f \in 0..d.frames - 1, y \in 0..bh - 1, x \in 0..bw - 1, r \in 0..s - 1 :
           Streamed(d, s, f, y, x, r) \in 0..Count(d) - 1
      /\ \A k \in 0..Count(d) - 1 :
           \E f \in 0..d.frames - 1, y \in 0..bh - 1, x \in 0..bw - 1, r \in 0..s - 1 :
             k = Streamed(d, s, f, y, x, r)
  BY <1>3, StreamedAll
<1>5. Count(d) = Size(t)
  <2> DEFINE b == t.bytes
             c == t.shape["C"]
  <2>1. Size(t) = b * n * c * (down * bh) * (across * bw) /\ s = c * b
    BY <1>1 DEF Size, PixelBytes
  <2>2. b \in Int /\ c \in Int /\ n \in Int /\ across \in Int /\ down \in Int
    BY <1>1
  <2> HIDE DEF b, c, n, s
  <2>3. b * n * c * (down * bh) * (across * bw) = ((n * down) * across) * (bh * (bw * (c * b)))
    BY <1>1, <2>2
  <2> QED BY <1>3, <1>4, <2>1, <2>3
<1>6. \A g : InRows(t, bh, bw, g) = Streamed(d, s, (g.n * down + g.down) * across + g.across, g.y, g.x, g.byte)
  BY <1>3 DEF InRows, Streamed, down, across
<1>7. ASSUME NEW g \in Spots(t, bh, bw)
      PROVE  InRows(t, bh, bw, g) \in 0..Size(t) - 1
  <2>1. /\ g.n \in 0..n - 1 /\ g.down \in 0..down - 1 /\ g.across \in 0..across - 1
        /\ g.y \in 0..bh - 1 /\ g.x \in 0..bw - 1 /\ g.byte \in 0..s - 1
    BY DEF Spots, down, across
  <2> DEFINE q == g.n * down + g.down
             f == q * across + g.across
  <2>2. q \in 0..n * down - 1
    BY <1>1, <2>1, RowBound
  <2>3. f \in 0..d.frames - 1
    <3> DEFINE m == n * down
    <3>1. m \in Nat /\ q \in 0..m - 1
      BY <1>1, <2>2
    <3> HIDE DEF q, m
    <3>2. f \in 0..m * across - 1
      BY <1>1, <2>1, <3>1, RowBound
    <3> HIDE DEF f
    <3> QED BY <1>3, <3>2 DEF m
  <2> HIDE DEF f
  <2>4. Streamed(d, s, f, g.y, g.x, g.byte) \in 0..Count(d) - 1
    BY <1>4, <2>1, <2>3
  <2> QED BY <1>5, <1>6, <2>4 DEF f
<1>8. ASSUME NEW k \in 0..Size(t) - 1
      PROVE  \E g \in Spots(t, bh, bw) : k = InRows(t, bh, bw, g)
  <2>1. PICK f \in 0..d.frames - 1, y \in 0..bh - 1, x \in 0..bw - 1, r \in 0..s - 1 :
               k = Streamed(d, s, f, y, x, r)
    BY <1>4, <1>5
  <2> DEFINE q == f \div across
             u == f % across
             i == q \div down
             v == q % down
             g == [n |-> i, down |-> v, across |-> u, y |-> y, x |-> x, byte |-> r]
  <2>2. q \in 0..n * down - 1 /\ u \in 0..across - 1 /\ f = q * across + u
    <3> DEFINE m == n * down
    <3>1. m \in Nat
      BY <1>1
    <3> HIDE DEF m
    <3>2. f \in 0..m * across - 1
      BY <1>3 DEF m
    <3>3. across \in Nat
      BY <1>1
    <3> HIDE DEF q, u
    <3>4. f \div across \in 0..m - 1 /\ f % across \in 0..across - 1
          /\ f = (f \div across) * across + (f % across)
      BY <3>1, <3>2, <3>3, Division
    <3> QED BY <3>4 DEF q, u, m
  <2> HIDE DEF q, u
  <2>3. i \in 0..n - 1 /\ v \in 0..down - 1 /\ q = i * down + v
    BY <1>1, <2>2, Division
  <2> HIDE DEF i, v
  <2>4. g \in Spots(t, bh, bw)
    BY <2>1, <2>2, <2>3 DEF Spots, down, across
  <2>5. /\ g.n = i /\ g.down = v /\ g.across = u /\ g.y = y /\ g.x = x /\ g.byte = r
    OBVIOUS
  <2> HIDE DEF g
  <2>6. k = InRows(t, bh, bw, g)
    BY <1>6, <2>1, <2>2, <2>3, <2>5
  <2> QED BY <2>4, <2>6
<1> QED BY <1>5, <1>7, <1>8 DEF d

(* In the image, too, each byte has one place, and each place a byte.      *)
LEMMA SpotsInImage ==
  ASSUME NEW t, NEW bh, NEW bw, CutInBlocks(t, bh, bw)
  PROVE  /\ \A g \in Spots(t, bh, bw) : InImage(t, bh, bw, g) \in 0..Size(t) - 1
         /\ \A k \in 0..Size(t) - 1 : \E g \in Spots(t, bh, bw) : k = InImage(t, bh, bw, g)
         /\ \A g, h \in Spots(t, bh, bw) : InImage(t, bh, bw, g) = InImage(t, bh, bw, h) => g = h
<1> DEFINE s == PixelBytes(t)
           across == Across(t, bw)
           down == Down(t, bh)
           n == t.shape["N"]
           h == t.shape["H"]
           w == t.shape["W"]
           line(g) == g.down * bh + g.y
           pixel(g) == g.across * bw + g.x
           row(g) == g.n * h + line(g)
           spot(g) == row(g) * w + pixel(g)
<1>1. /\ n \in Nat /\ across \in Nat /\ down \in Nat /\ bh \in Nat /\ bw \in Nat
      /\ s \in Nat /\ w = across * bw /\ h = down * bh /\ w \in Nat /\ h \in Nat
  BY ImageSizes
<1>2. Size(t) = ((n * h) * w) * s
  <2> DEFINE b == t.bytes
             c == t.shape["C"]
  <2>1. Size(t) = b * n * c * h * w /\ s = c * b /\ b \in Int /\ c \in Int
    BY ImageSizes DEF Size, PixelBytes
  <2>2. n \in Int /\ h \in Int /\ w \in Int
    BY <1>1
  <2> HIDE DEF b, c, n, h, w, s
  <2>3. b * n * c * h * w = ((n * h) * w) * (c * b)
    BY <2>1, <2>2
  <2> QED BY <2>1, <2>3
<1>3. \A g : InImage(t, bh, bw, g) = spot(g) * s + g.byte
  BY DEF InImage
<1>4. ASSUME NEW g \in Spots(t, bh, bw)
      PROVE  /\ g.n \in 0..n - 1 /\ g.down \in 0..down - 1 /\ g.across \in 0..across - 1
             /\ g.y \in 0..bh - 1 /\ g.x \in 0..bw - 1 /\ g.byte \in 0..s - 1
  BY DEF Spots
<1> HIDE DEF s, across, down, n, h, w
<1>5. ASSUME NEW g \in Spots(t, bh, bw)
      PROVE  /\ line(g) \in 0..h - 1 /\ pixel(g) \in 0..w - 1 /\ row(g) \in 0..n * h - 1
             /\ spot(g) \in 0..(n * h) * w - 1
             /\ spot(g) * s + g.byte \in 0..((n * h) * w) * s - 1
  <2>1. line(g) \in 0..h - 1
    BY <1>1, <1>4, RowBound
  <2>2. pixel(g) \in 0..w - 1
    BY <1>1, <1>4, RowBound
  <2> HIDE DEF line, pixel
  <2>3. row(g) \in 0..n * h - 1
    BY <1>1, <1>4, <2>1, RowBound
  <2> DEFINE m == n * h
             k == m * w
  <2>4. m \in Nat /\ k \in Nat
    <3>1. m \in Nat
      BY <1>1, ProductNat
    <3> HIDE DEF m
    <3> QED BY <1>1, <3>1, ProductNat
  <2> HIDE DEF row
  <2>5. spot(g) \in 0..k - 1
    <3> HIDE DEF m
    <3> QED BY <1>1, <2>2, <2>3, <2>4, RowBound DEF m
  <2> HIDE DEF spot
  <2>6. spot(g) * s + g.byte \in 0..k * s - 1
    <3> HIDE DEF k
    <3> QED BY <1>1, <1>4, <2>4, <2>5, RowBound
  <2> QED BY <2>1, <2>2, <2>3, <2>5, <2>6
<1>6. ASSUME NEW k \in 0..Size(t) - 1
      PROVE  \E g \in Spots(t, bh, bw) : k = InImage(t, bh, bw, g)
  <2> DEFINE m == n * h
             pixels == m * w
             a == k \div s
             o == k % s
             b == a \div w
             i == a % w
             c == b \div h
             j == b % h
             g == [n |-> c, down |-> j \div bh, across |-> i \div bw, y |-> j % bh, x |-> i % bw, byte |-> o]
  <2>1. m \in Nat /\ pixels \in Nat
    <3>1. m \in Nat
      BY <1>1, ProductNat
    <3> HIDE DEF m
    <3> QED BY <1>1, <3>1, ProductNat
  <2>2. a \in 0..pixels - 1 /\ o \in 0..s - 1 /\ k = a * s + o
    <3>1. k \in 0..pixels * s - 1
      BY <1>2
    <3> HIDE DEF pixels
    <3> QED BY <1>1, <2>1, <3>1, Division
  <2> HIDE DEF a, o
  <2>3. b \in 0..m - 1 /\ i \in 0..w - 1 /\ a = b * w + i
    <3> HIDE DEF m
    <3> QED BY <1>1, <2>1, <2>2, Division
  <2> HIDE DEF b, i
  <2>4. c \in 0..n - 1 /\ j \in 0..h - 1 /\ b = c * h + j
    BY <1>1, <2>3, Division
  <2> HIDE DEF c, j
  <2>5. j \div bh \in 0..down - 1 /\ j % bh \in 0..bh - 1 /\ j = (j \div bh) * bh + (j % bh)
    BY <1>1, <2>4, Division
  <2>6. i \div bw \in 0..across - 1 /\ i % bw \in 0..bw - 1 /\ i = (i \div bw) * bw + (i % bw)
    BY <1>1, <2>3, Division
  <2>7. g \in Spots(t, bh, bw)
    BY <2>2, <2>4, <2>5, <2>6 DEF Spots, s, n, down, across
  <2>8. g.n = c /\ g.byte = o /\ line(g) = j /\ pixel(g) = i
    BY <2>5, <2>6
  <2> HIDE DEF g, line, pixel
  <2>9. spot(g) * s + g.byte = k
    BY <2>2, <2>3, <2>4, <2>8
  <2> QED BY <1>3, <2>7, <2>9
<1>7. ASSUME NEW g \in Spots(t, bh, bw), NEW e \in Spots(t, bh, bw),
             InImage(t, bh, bw, g) = InImage(t, bh, bw, e)
      PROVE  g = e
  <2> HIDE DEF spot
  <2>1. spot(g) = spot(e) /\ g.byte = e.byte
    <3>1. /\ (spot(g) * s + g.byte) \div s = spot(g) /\ (spot(g) * s + g.byte) % s = g.byte
          /\ (spot(e) * s + e.byte) \div s = spot(e) /\ (spot(e) * s + e.byte) % s = e.byte
      <4>1. /\ spot(g) \in Int /\ spot(e) \in Int
            /\ g.byte \in 0..s - 1 /\ e.byte \in 0..s - 1
        BY <1>4, <1>5
      <4> QED BY <1>1, <4>1, QuotientAndRest, Zenon
    <3> QED BY <1>3, <1>7, <3>1
  <2>2. row(g) = row(e) /\ pixel(g) = pixel(e)
    <3> HIDE DEF row, pixel
    <3>1. /\ (row(g) * w + pixel(g)) \div w = row(g) /\ (row(g) * w + pixel(g)) % w = pixel(g)
          /\ (row(e) * w + pixel(e)) \div w = row(e) /\ (row(e) * w + pixel(e)) % w = pixel(e)
      <4>1. /\ row(g) \in Int /\ row(e) \in Int
            /\ pixel(g) \in 0..w - 1 /\ pixel(e) \in 0..w - 1
        BY <1>5
      <4> QED BY <1>1, <4>1, QuotientAndRest, Zenon
    <3> QED BY <2>1, <3>1 DEF spot
  <2>3. g.n = e.n /\ line(g) = line(e)
    <3> HIDE DEF line
    <3>1. /\ (g.n * h + line(g)) \div h = g.n /\ (g.n * h + line(g)) % h = line(g)
          /\ (e.n * h + line(e)) \div h = e.n /\ (e.n * h + line(e)) % h = line(e)
      <4>1. /\ g.n \in Int /\ e.n \in Int
            /\ line(g) \in 0..h - 1 /\ line(e) \in 0..h - 1
        BY <1>4, <1>5
      <4> QED BY <1>1, <4>1, QuotientAndRest, Zenon
    <3> QED BY <2>2, <3>1
  <2>4. g.down = e.down /\ g.y = e.y
    <3>1. /\ (g.down * bh + g.y) \div bh = g.down /\ (g.down * bh + g.y) % bh = g.y
          /\ (e.down * bh + e.y) \div bh = e.down /\ (e.down * bh + e.y) % bh = e.y
      <4>1. /\ g.down \in Int /\ e.down \in Int /\ g.y \in 0..bh - 1 /\ e.y \in 0..bh - 1
        BY <1>4
      <4> QED BY <1>1, <4>1, QuotientAndRest, Zenon
    <3> QED BY <2>3, <3>1
  <2>5. g.across = e.across /\ g.x = e.x
    <3>1. /\ (g.across * bw + g.x) \div bw = g.across /\ (g.across * bw + g.x) % bw = g.x
          /\ (e.across * bw + e.x) \div bw = e.across /\ (e.across * bw + e.x) % bw = e.x
      <4>1. /\ g.across \in Int /\ e.across \in Int /\ g.x \in 0..bw - 1 /\ e.x \in 0..bw - 1
        BY <1>4
      <4> QED BY <1>1, <4>1, QuotientAndRest, Zenon
    <3> QED BY <2>2, <3>1
  <2> QED BY <2>1, <2>3, <2>4, <2>5 DEF Spots
<1> QED BY <1>2, <1>3, <1>5, <1>6, <1>7

(* the element of the image and of the rows that a byte belongs to, and    *)
(* which of its bytes it is                                                *)
ImageElement(t, bh, bw, g) ==
  [N |-> g.n, C |-> g.byte \div t.bytes, H |-> g.down * bh + g.y, W |-> g.across * bw + g.x]
RowElement(t, bw, g) ==
  [N |-> g.n, C |-> (g.y * bw + g.x) * t.shape["C"] + (g.byte \div t.bytes),
   H |-> g.down, W |-> g.across]
ByteOf(t, g) == g.byte % t.bytes

(* Where the elements of a tensor of one batch are.                        *)
LEMMA CanonicalPlace ==
  ASSUME NEW t \in Tensors, Canonical(t), NEW x, x["N"] \in Int, x["C"] \in 0..t.shape["C"] - 1
  PROVE  Place(t, x)
           = t.at + t.bytes * (((x["N"] * t.shape["H"] + x["H"]) * t.shape["W"] + x["W"]) * t.shape["C"]
                                 + x["C"])
<1> DEFINE c == t.shape["C"]
           i == x["N"]
           k == x["C"]
<1>1. c \in Nat \ {0} /\ t.batch = c
  BY SizeIsNat DEF Canonical
<1>2. Place(t, x)
        = t.at + t.bytes * (((((i * (c \div t.batch) + k \div t.batch) * t.shape["H"] + x["H"])
                                * t.shape["W"] + x["W"]) * t.batch) + (k % t.batch))
  BY DEF Place
<1> HIDE DEF c, i, k
<1>3. c \div c = 1 /\ k \div c = 0 /\ k % c = k
  <2>1. k \in 0..c - 1
    BY DEF k, c
  <2>2. (1 * c + 0) \div c = 1
    <3>1. 0 \in 0..c - 1 /\ c \in Nat /\ 1 \in Int
      BY <1>1
    <3> QED BY <3>1, QuotientAndRest, Zenon
  <2>3. (0 * c + k) \div c = 0 /\ (0 * c + k) % c = k
    <3>1. c \in Nat /\ 0 \in Int
      BY <1>1
    <3> QED BY <2>1, <3>1, QuotientAndRest, Zenon
  <2>4. 1 * c + 0 = c /\ 0 * c + k = k
    BY <1>1, <2>1
  <2> QED BY <2>2, <2>3, <2>4
<1>4. i * 1 + 0 = i
  BY DEF i
<1> QED BY <1>1, <1>2, <1>3, <1>4 DEF c, i, k

(* A byte of the pixel is a byte of one of its elements.                   *)
LEMMA ByteOfElement ==
  ASSUME NEW t, t.shape["C"] \in Nat, t.bytes \in Nat, NEW o \in 0..PixelBytes(t) - 1
  PROVE  /\ o \div t.bytes \in 0..t.shape["C"] - 1 /\ o % t.bytes \in 0..t.bytes - 1
         /\ o = (o \div t.bytes) * t.bytes + (o % t.bytes)
BY Division DEF PixelBytes

(* A byte of an image is at the same place, counted by elements or by the  *)
(* blocks.                                                                 *)
LEMMA ImagePlace ==
  ASSUME NEW t, NEW bh, NEW bw, CutInBlocks(t, bh, bw), Canonical(t), NEW g \in Spots(t, bh, bw)
  PROVE  LET x == ImageElement(t, bh, bw, g)
         IN  /\ x \in Elements(t) /\ ByteOf(t, g) \in 0..t.bytes - 1
             /\ Place(t, x) + ByteOf(t, g) = t.at + InImage(t, bh, bw, g)
<1> DEFINE x == ImageElement(t, bh, bw, g)
           h == t.shape["H"]
           w == t.shape["W"]
           c == t.shape["C"]
           b == t.bytes
           k == g.byte \div b
           j == g.byte % b
           y == g.down * bh + g.y
           z == g.across * bw + g.x
           q == (g.n * h + y) * w + z
<1>1. /\ h \in Nat /\ w \in Nat /\ c \in Nat /\ b \in Nat /\ t.at \in Nat /\ bh \in Nat /\ bw \in Nat
      /\ h = Down(t, bh) * bh /\ w = Across(t, bw) * bw
      /\ Down(t, bh) \in Nat /\ Across(t, bw) \in Nat /\ t.shape["N"] \in Nat
  BY ImageSizes
<1>2. /\ g.n \in 0..t.shape["N"] - 1 /\ g.down \in 0..Down(t, bh) - 1
      /\ g.across \in 0..Across(t, bw) - 1 /\ g.y \in 0..bh - 1 /\ g.x \in 0..bw - 1
      /\ g.byte \in 0..PixelBytes(t) - 1
  BY DEF Spots
<1>3. k \in 0..c - 1 /\ j \in 0..b - 1 /\ g.byte = k * b + j
  BY <1>1, <1>2, ByteOfElement
<1>4. y \in 0..h - 1 /\ z \in 0..w - 1
  BY <1>1, <1>2, RowBound
<1>5. x = [N |-> g.n, C |-> k, H |-> y, W |-> z] /\ ByteOf(t, g) = j
  BY DEF ImageElement, ByteOf
<1>6. InImage(t, bh, bw, g) = q * (c * b) + g.byte
  BY DEF InImage, PixelBytes
<1> HIDE DEF x, k, j, y, z
<1>7. x \in Elements(t)
  BY <1>2, <1>3, <1>4, <1>5 DEF Elements, h, w, c
<1>8. Place(t, x) = t.at + b * (q * c + k)
  <2>1. x["N"] = g.n /\ x["C"] = k /\ x["H"] = y /\ x["W"] = z
    BY <1>5
  <2>2. x["N"] \in Int /\ x["C"] \in 0..t.shape["C"] - 1
    BY <1>2, <1>3, <2>1
  <2>3. t \in Tensors
    BY DEF CutInBlocks
  <2> QED BY <2>1, <2>2, <2>3, CanonicalPlace
<1>9. q \in Int
  <2> HIDE DEF h, w
  <2> QED BY <1>1, <1>2, <1>4
<1> HIDE DEF q, c, b, h, w
<1>10. b * (q * c + k) + j = q * (c * b) + g.byte
  BY <1>1, <1>3, <1>9
<1> DEFINE u == b * (q * c + k)
<1>11. u \in Int /\ u + j = InImage(t, bh, bw, g)
  BY <1>1, <1>3, <1>6, <1>9, <1>10
<1> HIDE DEF u
<1>12. t.at + u + j = t.at + InImage(t, bh, bw, g)
  BY <1>1, <1>3, <1>11
<1> QED BY <1>3, <1>5, <1>7, <1>8, <1>12 DEF x, u, b

(* And so is a byte of the rows.                                           *)
LEMMA RowPlace ==
  ASSUME NEW t \in Tensors, NEW rows \in Tensors, NEW bh \in Nat \ {0}, NEW bw \in Nat \ {0},
         BlocksFit(t, rows, bh, bw), Canonical(rows), NEW g \in Spots(t, bh, bw)
  PROVE  LET x == RowElement(t, bw, g)
         IN  /\ x \in Elements(rows)
             /\ Place(rows, x) + ByteOf(t, g) = rows.at + InRows(t, bh, bw, g)
<1> DEFINE x == RowElement(t, bw, g)
           h == Down(t, bh)
           w == Across(t, bw)
           c == t.shape["C"]
           b == t.bytes
           k == g.byte \div b
           j == g.byte % b
           m == g.y * bw + g.x
           i == m * c + k
           q == (g.n * h + g.down) * w + g.across
<1>1. CutInBlocks(t, bh, bw)
  BY BlocksFitCut
<1>2. /\ h \in Nat /\ w \in Nat /\ c \in Nat /\ b \in Nat /\ t.shape["N"] \in Nat /\ rows.at \in Nat
  BY <1>1, ImageSizes, SizeIsNat
<1>3. /\ rows.shape["N"] = t.shape["N"] /\ rows.bytes = b /\ rows.shape["C"] = c * bh * bw
      /\ rows.shape["H"] = h /\ rows.shape["W"] = w
  BY DEF BlocksFit, Down, Across
<1>4. /\ g.n \in 0..t.shape["N"] - 1 /\ g.down \in 0..h - 1 /\ g.across \in 0..w - 1
      /\ g.y \in 0..bh - 1 /\ g.x \in 0..bw - 1 /\ g.byte \in 0..PixelBytes(t) - 1
  BY DEF Spots
<1>5. k \in 0..c - 1 /\ j \in 0..b - 1 /\ g.byte = k * b + j
  BY <1>2, <1>4, ByteOfElement
<1>6. m \in 0..bh * bw - 1
  BY <1>4, RowBound
<1>7. x = [N |-> g.n, C |-> i, H |-> g.down, W |-> g.across] /\ ByteOf(t, g) = j
  BY DEF RowElement, ByteOf
<1>8. InRows(t, bh, bw, g) = q * (bh * (bw * (c * b))) + (m * (c * b) + g.byte)
  BY DEF InRows, PixelBytes
<1> HIDE DEF x, k, j, m, h, w, c, b
<1>9. i \in 0..c * bh * bw - 1
  <2> DEFINE a == bh * bw
  <2>1. a \in Nat /\ c * bh * bw = a * c
    BY <1>2
  <2> HIDE DEF a
  <2>2. i \in 0..a * c - 1
    BY <1>2, <1>5, <1>6, <2>1, RowBound DEF a
  <2> QED BY <2>1, <2>2
<1> HIDE DEF i
<1>10. x \in Elements(rows)
  BY <1>3, <1>4, <1>7, <1>9 DEF Elements
<1>11. Place(rows, x) = rows.at + b * (q * (c * bh * bw) + i)
  <2>1. x["N"] = g.n /\ x["C"] = i /\ x["H"] = g.down /\ x["W"] = g.across
    BY <1>7
  <2>2. x["N"] \in Int /\ x["C"] \in 0..rows.shape["C"] - 1
    BY <1>3, <1>4, <1>9, <2>1
  <2>3. Place(rows, x)
          = rows.at + rows.bytes * (((x["N"] * rows.shape["H"] + x["H"]) * rows.shape["W"] + x["W"])
                                      * rows.shape["C"] + x["C"])
    BY <2>2, CanonicalPlace
  <2> QED BY <1>3, <2>1, <2>3
<1>12. q \in Int
  BY <1>2, <1>4
<1> HIDE DEF q
<1>13. b * (q * (c * bh * bw) + i) + j = q * (bh * (bw * (c * b))) + (m * (c * b) + g.byte)
  <2>1. b * (q * (c * bh * bw) + (m * c + k)) + j
          = q * (bh * (bw * (c * b))) + (m * (c * b) + (k * b + j))
    BY <1>2, <1>5, <1>6, <1>12
  <2> QED BY <1>5, <2>1 DEF i
<1> DEFINE u == b * (q * (c * bh * bw) + i)
<1>14. u \in Int /\ u + j = InRows(t, bh, bw, g)
  <2>1. u \in Int
    BY <1>2, <1>9, <1>12
  <2> QED BY <2>1, <1>8, <1>13
<1> HIDE DEF u
<1>15. rows.at + u + j = rows.at + InRows(t, bh, bw, g)
  BY <1>2, <1>5, <1>14
<1> QED BY <1>7, <1>10, <1>11, <1>15 DEF x, u

(* The elements of image and rows are each other's under Deep and Shallow. *)
LEMMA DeepAndShallow ==
  ASSUME NEW t, CutInBlocks(t, call.bh, call.bw), NEW g \in Spots(t, call.bh, call.bw)
  PROVE  LET x == ImageElement(t, call.bh, call.bw, g)
             r == RowElement(t, call.bw, g)
         IN  Deep(x, t.shape["C"]) = r /\ Shallow(r, t.shape["C"]) = x
<1> DEFINE x == ImageElement(t, call.bh, call.bw, g)
           r == RowElement(t, call.bw, g)
           bh == call.bh
           bw == call.bw
           c == t.shape["C"]
           k == g.byte \div t.bytes
           y == g.down * bh + g.y
           z == g.across * bw + g.x
           m == g.y * bw + g.x
           i == m * c + k
<1>1. /\ c \in Nat \ {0} /\ t.bytes \in Nat /\ bh \in Nat \ {0} /\ bw \in Nat \ {0}
  BY ImageSizes
<1>2. /\ g.n \in Int /\ g.down \in Int /\ g.across \in Int
      /\ g.y \in 0..bh - 1 /\ g.x \in 0..bw - 1 /\ g.byte \in 0..PixelBytes(t) - 1
  BY DEF Spots
<1>3. k \in 0..c - 1
  BY <1>1, <1>2, ByteOfElement
<1>4. x = [N |-> g.n, C |-> k, H |-> y, W |-> z] /\ r = [N |-> g.n, C |-> i, H |-> g.down, W |-> g.across]
  BY DEF ImageElement, RowElement
<1> HIDE DEF x, r, bh, bw, c, k
<1>5. y \div bh = g.down /\ y % bh = g.y
  BY <1>1, <1>2, QuotientAndRest, Zenon
<1>6. z \div bw = g.across /\ z % bw = g.x
  BY <1>1, <1>2, QuotientAndRest, Zenon
<1>7. i \div c = m /\ i % c = k /\ m \in Int
  <2>1. m \in Int
    BY <1>1, <1>2
  <2> HIDE DEF m
  <2> QED BY <1>1, <1>3, <2>1, QuotientAndRest, Zenon
<1>8. m \div bw = g.y /\ m % bw = g.x
  <2>1. g.y \in Int
    BY <1>2
  <2> QED BY <1>1, <1>2, <2>1, QuotientAndRest, Zenon
<1>9. i \div (c * bw) = g.y
  <2> DEFINE n == c * bw
             o == g.x * c + k
  <2>1. n \in Nat /\ o \in 0..n - 1 /\ i = g.y * n + o
    <3>1. o \in 0..bw * c - 1
      BY <1>1, <1>2, <1>3, RowBound
    <3>2. bw * c = n /\ n \in Nat
      BY <1>1
    <3>3. (g.y * bw + g.x) * c + k = g.y * (c * bw) + (g.x * c + k)
      BY <1>1, <1>2, <1>3
    <3> QED BY <3>1, <3>2, <3>3
  <2> HIDE DEF n, o, i
  <2>2. (g.y * n + o) \div n = g.y
    <3>1. g.y \in Int
      BY <1>2
    <3> QED BY <2>1, <3>1, QuotientAndRest, Zenon
  <2> QED BY <2>1, <2>2 DEF n
<1> HIDE DEF y, z, i
<1>10. Deep(x, c) = r
  <2>1. Deep(x, c) = [x EXCEPT !["C"] = k + ((y % bh) * bw + (z % bw)) * c,
                               !["H"] = y \div bh, !["W"] = z \div bw]
    BY <1>4 DEF Deep, bh, bw
  <2>2. k + m * c = i
    BY <1>1, <1>3, <1>7 DEF i
  <2> HIDE DEF m
  <2>3. Deep(x, c) = [x EXCEPT !["C"] = i, !["H"] = g.down, !["W"] = g.across]
    BY <2>1, <2>2, <1>5, <1>6 DEF m
  <2> QED BY <1>4, <2>3
<1>11. Shallow(r, c) = x
  <2>1. Shallow(r, c) = [r EXCEPT !["C"] = i % c, !["H"] = g.down * bh + i \div (c * bw),
                                  !["W"] = g.across * bw + ((i \div c) % bw)]
    BY <1>4 DEF Shallow, bh, bw
  <2>2. Shallow(r, c) = [r EXCEPT !["C"] = k, !["H"] = y, !["W"] = z]
    BY <2>1, <1>7, <1>8, <1>9 DEF y, z
  <2> QED BY <1>4, <2>2
<1> QED BY <1>10, <1>11 DEF x, r, c

(* Each byte of each element is one of those that the engines count.       *)
LEMMA ElementSpots ==
  ASSUME NEW t, NEW bh, NEW bw, CutInBlocks(t, bh, bw),
         NEW x \in Elements(t), NEW j \in 0..t.bytes - 1
  PROVE  \E g \in Spots(t, bh, bw) : x = ImageElement(t, bh, bw, g) /\ j = ByteOf(t, g)
<1> DEFINE b == t.bytes
           h == x["H"]
           w == x["W"]
           o == x["C"] * b + j
           g == [n |-> x["N"], down |-> h \div bh, across |-> w \div bw, y |-> h % bh, x |-> w % bw,
                 byte |-> o]
<1>1. /\ t.shape["H"] = Down(t, bh) * bh /\ t.shape["W"] = Across(t, bw) * bw
      /\ bh \in Nat /\ bw \in Nat /\ Down(t, bh) \in Nat /\ Across(t, bw) \in Nat
      /\ b \in Nat /\ t.shape["C"] \in Nat
  BY ImageSizes
<1>2. /\ x["N"] \in 0..t.shape["N"] - 1 /\ x["C"] \in 0..t.shape["C"] - 1
      /\ h \in 0..t.shape["H"] - 1 /\ w \in 0..t.shape["W"] - 1
      /\ x = [N |-> x["N"], C |-> x["C"], H |-> h, W |-> w]
  BY DEF Elements
<1>3. h \div bh \in 0..Down(t, bh) - 1 /\ h % bh \in 0..bh - 1 /\ h = (h \div bh) * bh + (h % bh)
  BY <1>1, <1>2, Division
<1>4. w \div bw \in 0..Across(t, bw) - 1 /\ w % bw \in 0..bw - 1 /\ w = (w \div bw) * bw + (w % bw)
  BY <1>1, <1>2, Division
<1>5. o \in 0..PixelBytes(t) - 1
  BY <1>1, <1>2, RowBound DEF PixelBytes
<1>6. o \div b = x["C"] /\ o % b = j
  <2>1. x["C"] \in Int
    BY <1>2
  <2> QED BY <1>1, <2>1, QuotientAndRest, Zenon
<1> HIDE DEF h, w, o, b
<1>7. g \in Spots(t, bh, bw)
  BY <1>2, <1>3, <1>4, <1>5 DEF Spots
<1>8. ImageElement(t, bh, bw, g) = x
  <2>1. ImageElement(t, bh, bw, g)
          = [N |-> x["N"], C |-> o \div b, H |-> (h \div bh) * bh + (h % bh),
             W |-> (w \div bw) * bw + (w % bw)]
    BY DEF ImageElement, b
  <2> QED BY <2>1, <1>2, <1>3, <1>4, <1>6
<1>9. ByteOf(t, g) = j
  BY <1>6 DEF ByteOf, b
<1> QED BY <1>7, <1>8, <1>9

(* The elements of the rows are those of the image.                        *)
LEMMA RowSpots ==
  ASSUME NEW t \in Tensors, NEW rows \in Tensors, NEW bh \in Nat \ {0}, NEW bw \in Nat \ {0},
         BlocksFit(t, rows, bh, bw), NEW x \in Elements(rows), NEW j \in 0..rows.bytes - 1
  PROVE  \E g \in Spots(t, bh, bw) : x = RowElement(t, bw, g) /\ j = ByteOf(t, g)
<1> DEFINE b == t.bytes
           c == t.shape["C"]
           i == x["C"]
           m == i \div c
           k == i % c
           o == k * b + j
           g == [n |-> x["N"], down |-> x["H"], across |-> x["W"], y |-> m \div bw, x |-> m % bw,
                 byte |-> o]
<1>0. CutInBlocks(t, bh, bw)
  BY BlocksFitCut
<1>1. b \in Nat /\ c \in Nat
  BY <1>0, ImageSizes
<1>2. /\ rows.shape["N"] = t.shape["N"] /\ rows.bytes = b /\ rows.shape["C"] = c * bh * bw
      /\ rows.shape["H"] = Down(t, bh) /\ rows.shape["W"] = Across(t, bw)
  BY DEF BlocksFit, Down, Across
<1>3. /\ x["N"] \in 0..t.shape["N"] - 1 /\ i \in 0..c * bh * bw - 1
      /\ x["H"] \in 0..Down(t, bh) - 1 /\ x["W"] \in 0..Across(t, bw) - 1
      /\ x = [N |-> x["N"], C |-> i, H |-> x["H"], W |-> x["W"]]
  BY <1>2 DEF Elements
<1>4. m \in 0..bh * bw - 1 /\ k \in 0..c - 1 /\ i = m * c + k
  <2> DEFINE a == bh * bw
  <2>1. a \in Nat /\ c * bh * bw = a * c
    BY <1>1
  <2> HIDE DEF a, i, c
  <2>2. i \in 0..a * c - 1 /\ c \in Nat
    BY <1>1, <1>3, <2>1
  <2>3. i \div c \in 0..a - 1 /\ i % c \in 0..c - 1 /\ i = (i \div c) * c + (i % c)
    BY <2>1, <2>2, Division
  <2> QED BY <2>3 DEF a
<1> HIDE DEF m, k
<1>5. m \div bw \in 0..bh - 1 /\ m % bw \in 0..bw - 1 /\ m = (m \div bw) * bw + (m % bw)
  BY <1>4, Division
<1>6. o \in 0..PixelBytes(t) - 1
  BY <1>1, <1>2, <1>4, RowBound DEF PixelBytes
<1>7. o \div b = k /\ o % b = j
  <2>1. k \in Int /\ j \in 0..b - 1
    BY <1>2, <1>4
  <2> QED BY <1>1, <2>1, QuotientAndRest, Zenon
<1> HIDE DEF o, b, i, c
<1>8. g \in Spots(t, bh, bw)
  BY <1>3, <1>5, <1>6 DEF Spots
<1>9. RowElement(t, bw, g) = x
  <2>1. RowElement(t, bw, g)
          = [N |-> x["N"], C |-> ((m \div bw) * bw + (m % bw)) * c + (o \div b), H |-> x["H"], W |-> x["W"]]
    BY DEF RowElement, b, c
  <2>2. RowElement(t, bw, g) = [N |-> x["N"], C |-> m * c + k, H |-> x["H"], W |-> x["W"]]
    BY <2>1, <1>5, <1>7
  <2> QED BY <2>2, <1>3, <1>4
<1>10. ByteOf(t, g) = j
  BY <1>7 DEF ByteOf, b
<1> QED BY <1>8, <1>9, <1>10

(* SpaceToDepth: its result has each byte of the image in the place in the *)
(* rows where the engines bring it.                                        *)
LEMMA SpaceToDepthMoves ==
  ASSUME call \in Calls, call.op = "SpaceToDepth", Canonical(call.in), Canonical(call.out),
         BlocksFit(call.in, call.out, call.bh, call.bw)
  PROVE  /\ \A f \in Bytewise : \E g \in Spots(call.in, call.bh, call.bw) :
               f = <<call.out.at + InRows(call.in, call.bh, call.bw, g),
                     call.in.at + InImage(call.in, call.bh, call.bw, g)>>
         /\ \A g \in Spots(call.in, call.bh, call.bw) :
               <<call.out.at + InRows(call.in, call.bh, call.bw, g),
                 call.in.at + InImage(call.in, call.bh, call.bw, g)>> \in Bytewise
<1> DEFINE t == call.in
           rows == call.out
           bh == call.bh
           bw == call.bw
           c == t.shape["C"]
<1>1. /\ t \in Tensors /\ rows \in Tensors /\ bh \in Nat \ {0} /\ bw \in Nat \ {0}
  BY BlockTensors
<1>2. CutInBlocks(t, bh, bw)
  BY <1>1, BlocksFitCut
<1>3. ElementBytes = t.bytes
  BY DEF ElementBytes, Elementwise, Outputs, BlocksFit
<1>4. Moves = {<<Place(rows, Deep(x, c)), Place(t, x)>> : x \in Elements(t)}
  BY DEF Moves
<1>5. ASSUME NEW g \in Spots(t, bh, bw)
      PROVE  LET x == ImageElement(t, bh, bw, g)
             IN  /\ x \in Elements(t) /\ ByteOf(t, g) \in 0..t.bytes - 1
                 /\ <<Place(rows, Deep(x, c)) + ByteOf(t, g), Place(t, x) + ByteOf(t, g)>>
                      = <<rows.at + InRows(t, bh, bw, g), t.at + InImage(t, bh, bw, g)>>
  <2>1. Deep(ImageElement(t, bh, bw, g), c) = RowElement(t, bw, g)
    BY <1>2, DeepAndShallow
  <2>2. /\ ImageElement(t, bh, bw, g) \in Elements(t) /\ ByteOf(t, g) \in 0..t.bytes - 1
        /\ Place(t, ImageElement(t, bh, bw, g)) + ByteOf(t, g) = t.at + InImage(t, bh, bw, g)
    BY <1>2, ImagePlace
  <2>3. Place(rows, RowElement(t, bw, g)) + ByteOf(t, g) = rows.at + InRows(t, bh, bw, g)
    BY <1>1, RowPlace
  <2> QED BY <2>1, <2>2, <2>3
<1> HIDE DEF c, t, rows, bh, bw
<1>6. ASSUME NEW f \in Bytewise
      PROVE  \E g \in Spots(t, bh, bw) : f = <<rows.at + InRows(t, bh, bw, g), t.at + InImage(t, bh, bw, g)>>
  <2>1. PICK x \in Elements(t), j \in 0..t.bytes - 1 : f = <<Place(rows, Deep(x, c)) + j, Place(t, x) + j>>
    BY <1>3, <1>4 DEF Bytewise
  <2>2. PICK g \in Spots(t, bh, bw) : x = ImageElement(t, bh, bw, g) /\ j = ByteOf(t, g)
    BY <1>2, ElementSpots
  <2> QED BY <1>5, <2>1, <2>2
<1>7. ASSUME NEW g \in Spots(t, bh, bw)
      PROVE  <<rows.at + InRows(t, bh, bw, g), t.at + InImage(t, bh, bw, g)>> \in Bytewise
  <2> DEFINE x == ImageElement(t, bh, bw, g)
             j == ByteOf(t, g)
             v == <<Place(rows, Deep(x, c)), Place(t, x)>>
  <2>1. /\ x \in Elements(t) /\ j \in 0..t.bytes - 1
        /\ <<Place(rows, Deep(x, c)) + j, Place(t, x) + j>>
             = <<rows.at + InRows(t, bh, bw, g), t.at + InImage(t, bh, bw, g)>>
    BY <1>5
  <2>2. v \in Moves
    BY <1>4, <2>1
  <2>3. <<v[1] + j, v[2] + j>> \in Bytewise
    <3> HIDE DEF v, j
    <3> QED BY <1>3, <2>1, <2>2 DEF Bytewise
  <2> QED BY <2>1, <2>3
<1> QED BY <1>6, <1>7 DEF t, rows, bh, bw

(* DepthToSpace: its result has each byte of the rows in its place in the  *)
(* image.                                                                  *)
LEMMA DepthToSpaceMoves ==
  ASSUME call \in Calls, call.op = "DepthToSpace", Canonical(call.in), Canonical(call.out),
         BlocksFit(call.out, call.in, call.bh, call.bw)
  PROVE  /\ \A f \in Bytewise : \E g \in Spots(call.out, call.bh, call.bw) :
               f = <<call.out.at + InImage(call.out, call.bh, call.bw, g),
                     call.in.at + InRows(call.out, call.bh, call.bw, g)>>
         /\ \A g \in Spots(call.out, call.bh, call.bw) :
               <<call.out.at + InImage(call.out, call.bh, call.bw, g),
                 call.in.at + InRows(call.out, call.bh, call.bw, g)>> \in Bytewise
<1> DEFINE t == call.out
           rows == call.in
           bh == call.bh
           bw == call.bw
           c == t.shape["C"]
<1>1. /\ t \in Tensors /\ rows \in Tensors /\ bh \in Nat \ {0} /\ bw \in Nat \ {0}
  BY BlockTensors
<1>2. CutInBlocks(t, bh, bw)
  BY <1>1, BlocksFitCut
<1>3. ElementBytes = t.bytes /\ rows.bytes = t.bytes
  BY DEF ElementBytes, Elementwise, Outputs, BlocksFit
<1>4. Moves = {<<Place(t, Shallow(x, c)), Place(rows, x)>> : x \in Elements(rows)}
  BY DEF Moves
<1>5. ASSUME NEW g \in Spots(t, bh, bw)
      PROVE  LET x == RowElement(t, bw, g)
             IN  /\ x \in Elements(rows) /\ ByteOf(t, g) \in 0..t.bytes - 1
                 /\ <<Place(t, Shallow(x, c)) + ByteOf(t, g), Place(rows, x) + ByteOf(t, g)>>
                      = <<t.at + InImage(t, bh, bw, g), rows.at + InRows(t, bh, bw, g)>>
  <2>1. Shallow(RowElement(t, bw, g), c) = ImageElement(t, bh, bw, g)
    BY <1>2, DeepAndShallow
  <2>2. /\ ByteOf(t, g) \in 0..t.bytes - 1
        /\ Place(t, ImageElement(t, bh, bw, g)) + ByteOf(t, g) = t.at + InImage(t, bh, bw, g)
    BY <1>2, ImagePlace
  <2>3. /\ RowElement(t, bw, g) \in Elements(rows)
        /\ Place(rows, RowElement(t, bw, g)) + ByteOf(t, g) = rows.at + InRows(t, bh, bw, g)
    BY <1>1, RowPlace
  <2> QED BY <2>1, <2>2, <2>3
<1>0. BlocksFit(t, rows, bh, bw)
  OBVIOUS
<1> HIDE DEF c, t, rows, bh, bw
<1>6. ASSUME NEW f \in Bytewise
      PROVE  \E g \in Spots(t, bh, bw) : f = <<t.at + InImage(t, bh, bw, g), rows.at + InRows(t, bh, bw, g)>>
  <2>1. PICK x \in Elements(rows), j \in 0..t.bytes - 1 : f = <<Place(t, Shallow(x, c)) + j, Place(rows, x) + j>>
    BY <1>3, <1>4 DEF Bytewise
  <2>2. PICK g \in Spots(t, bh, bw) : x = RowElement(t, bw, g) /\ j = ByteOf(t, g)
    BY <1>0, <1>1, <1>3, RowSpots
  <2> QED BY <1>5, <2>1, <2>2
<1>7. ASSUME NEW g \in Spots(t, bh, bw)
      PROVE  <<t.at + InImage(t, bh, bw, g), rows.at + InRows(t, bh, bw, g)>> \in Bytewise
  <2> DEFINE x == RowElement(t, bw, g)
             j == ByteOf(t, g)
             v == <<Place(t, Shallow(x, c)), Place(rows, x)>>
  <2>1. /\ x \in Elements(rows) /\ j \in 0..t.bytes - 1
        /\ <<Place(t, Shallow(x, c)) + j, Place(rows, x) + j>>
             = <<t.at + InImage(t, bh, bw, g), rows.at + InRows(t, bh, bw, g)>>
    BY <1>5
  <2>2. v \in Moves
    BY <1>4, <2>1
  <2>3. <<v[1] + j, v[2] + j>> \in Bytewise
    <3> HIDE DEF v, j
    <3> QED BY <1>3, <2>1, <2>2 DEF Bytewise
  <2> QED BY <2>1, <2>3
<1> QED BY <1>6, <1>7 DEF t, rows, bh, bw

(* A tensor is whole channels.                                             *)
LEMMA TensorChannels ==
  ASSUME NEW t \in Tensors
  PROVE  (Size(t) * 8) % ChannelBits(t) = 0 /\ ChannelBits(t) \in {8, 16, 24} /\ Size(t) \in Nat
<1> DEFINE b == t.bytes
           m == t.shape["N"] * t.shape["C"] * t.shape["H"] * t.shape["W"]
           bits == ChannelBits(t)
<1>1. b \in 1..4 /\ Size(t) \in Nat
  BY SizeIsNat
<1>2. m \in Nat
  <2> DEFINE n == t.shape["N"]
             c == t.shape["C"]
             h == t.shape["H"]
             w == t.shape["W"]
  <2>1. n \in Nat /\ c \in Nat /\ h \in Nat /\ w \in Nat
    BY SizeIsNat
  <2> HIDE DEF n, c, h, w
  <2>2. n * c * h * w \in Nat
    BY <2>1, ProductNat
  <2> QED BY <2>2 DEF n, c, h, w
<1>3. Size(t) = m * b
  <2> DEFINE n == t.shape["N"]
             c == t.shape["C"]
             h == t.shape["H"]
             w == t.shape["W"]
  <2>1. n \in Nat /\ c \in Nat /\ h \in Nat /\ w \in Nat
    BY SizeIsNat
  <2>2. Size(t) = b * n * c * h * w
    BY DEF Size
  <2> HIDE DEF n, c, h, w, b
  <2>3. b * n * c * h * w = (n * c * h * w) * b
    BY <1>1, <2>1
  <2> QED BY <2>2, <2>3 DEF n, c, h, w
<1>4. bits \in {8, 16, 24} /\ (b * 8) % bits = 0
  BY <1>1 DEF ChannelBits
<1> HIDE DEF m, b, bits
<1>5. ((m * b) * 8) % bits = 0
  <2>1. b \in Nat
    BY <1>1
  <2> QED BY <1>2, <1>4, <2>1, ChannelsTimes
<1> QED BY <1>1, <1>3, <1>4, <1>5 DEF bits

(* LL_ATON_LIB_SpaceToDepth: the rows hold the blocks of the image.        *)
LEMMA SpaceToDepthExact ==
  ASSUME Safe, InOneGo, Apart, SpaceToDepth, Canonical(call.in), Canonical(call.out)
  PROVE  InOneGo'
<1> DEFINE t == call.in
           rows == call.out
           bh == call.bh
           bw == call.bw
           in == Blocks(t, bh, bw)
           out == Raw(rows.at, Size(t), ChannelBits(t))
           q == Prepared(<<t>>, in, out, 0)
<1>1. pc = "call" /\ call.op = "SpaceToDepth" /\ call \in Calls
  BY DEF Safe, SpaceToDepth
<1>2. CASE Rejects
  BY <1>1, <1>2, RejectsInOneGo
<1>3. CASE BlocksFit(t, rows, bh, bw) /\ Inserts("transfer", q) /\ mem' = mem
  <2>1. /\ t \in Tensors /\ rows \in Tensors /\ bh \in Nat \ {0} /\ bw \in Nat \ {0}
        /\ OutBytes = Bytes(rows) /\ InBytes = Bytes(t)
    BY <1>1, BlockTensors
  <2>2. CutInBlocks(t, bh, bw) /\ Size(rows) = Size(t)
    BY <1>3, <2>1, BlocksFitCut
  <2>3. rows.at \in Nat /\ t.at \in Nat /\ Size(t) \in Nat
    BY <2>1, SizeIsNat
  <2>4. OutBytes = rows.at .. rows.at + Size(t) - 1 /\ InBytes = t.at .. t.at + Size(t) - 1
    BY <2>1, <2>2 DEF Bytes
  <2>5. q.in = in /\ q.out = out
    BY PreparedParams DEF Safe
  <2>6. Count(out) = Size(t) /\ \A k \in 0..Size(t) - 1 : Address(out, k) = rows.at + k
    <3>1. (Size(t) * 8) % ChannelBits(t) = 0 /\ ChannelBits(t) \in {8, 16, 24} /\ rows.at \in Int
      BY <2>1, <2>3, TensorChannels
    <3> QED BY <2>3, <3>1, RawWhole
  <2>7. /\ \A f \in Bytewise : \E g \in Spots(t, bh, bw) :
               f = <<rows.at + InRows(t, bh, bw, g), t.at + InImage(t, bh, bw, g)>>
        /\ \A g \in Spots(t, bh, bw) :
               <<rows.at + InRows(t, bh, bw, g), t.at + InImage(t, bh, bw, g)>> \in Bytewise
    BY <1>1, <1>3, SpaceToDepthMoves
  <2>8. /\ \A g \in Spots(t, bh, bw) : /\ InRows(t, bh, bw, g) \in 0..Size(t) - 1
                                       /\ InImage(t, bh, bw, g) \in 0..Size(t) - 1
                                       /\ Address(in, InRows(t, bh, bw, g)) = t.at + InImage(t, bh, bw, g)
        /\ \A k \in 0..Size(t) - 1 : \E g \in Spots(t, bh, bw) : k = InRows(t, bh, bw, g)
    BY <2>2, SpotsAreAll, SpotsInImage, BlockAddress
  <2>9. Inserts("transfer", q)
    BY <1>3
  <2> HIDE DEF in, out, q, t, rows, bh, bw
  <2>10. ASSUME NEW f \in Bytewise
         PROVE  f[2] \in InBytes /\ \E k \in 0..Count(q.out) - 1 :
                                      f[1] = Address(q.out, k) /\ f[2] = Address(q.in, k)
    <3>1. PICK g \in Spots(t, bh, bw) :
                 f = <<rows.at + InRows(t, bh, bw, g), t.at + InImage(t, bh, bw, g)>>
      BY <2>7
    <3> DEFINE k == InRows(t, bh, bw, g)
    <3>2. k \in 0..Count(q.out) - 1 /\ f[1] = Address(q.out, k) /\ f[2] = Address(q.in, k)
      BY <2>5, <2>6, <2>8, <3>1
    <3>3. t.at + InImage(t, bh, bw, g) \in InBytes
      <4> DEFINE i == InImage(t, bh, bw, g)
      <4>1. i \in 0..Size(t) - 1
        BY <2>8
      <4> HIDE DEF i
      <4> QED BY <2>3, <2>4, <4>1 DEF i
    <3> QED BY <3>1, <3>2, <3>3
  <2>11. ASSUME NEW a \in OutBytes
         PROVE  \E f \in Bytewise : f[1] = a
    <3>1. a - rows.at \in 0..Size(t) - 1
      BY <2>3, <2>4
    <3>2. PICK g \in Spots(t, bh, bw) : a - rows.at = InRows(t, bh, bw, g)
      BY <2>8, <3>1
    <3>3. a = rows.at + InRows(t, bh, bw, g)
      BY <2>3, <2>4, <3>2
    <3>4. <<rows.at + InRows(t, bh, bw, g), t.at + InImage(t, bh, bw, g)>> \in Bytewise
      BY <2>7
    <3> QED BY <3>3, <3>4
  <2>12. ASSUME NEW j \in 0..Count(q.out) - 1, NEW k \in 0..Count(q.out) - 1,
                Address(q.out, j) = Address(q.out, k)
         PROVE  j = k
    BY <2>3, <2>5, <2>6, <2>12
  <2>13. Count(q.out) \in Nat
    BY <2>3, <2>5, <2>6
  <2>14. mem' = mem
    BY <1>3
  <2> QED BY <1>1, <2>9, <2>10, <2>11, <2>12, <2>13, <2>14, TransferInOneGo
<1> QED BY <1>2, <1>3, Zenon DEF SpaceToDepth

(* LL_ATON_LIB_DepthToSpace: the image is put together from the rows.      *)
LEMMA DepthToSpaceExact ==
  ASSUME Safe, InOneGo, Apart, DepthToSpace, Canonical(call.in), Canonical(call.out)
  PROVE  InOneGo'
<1> DEFINE t == call.out
           rows == call.in
           bh == call.bh
           bw == call.bw
           in == Whole(rows)
           out == Blocks(t, bh, bw)
           q == Prepared(<<rows>>, in, out, 0)
<1>1. pc = "call" /\ call.op = "DepthToSpace" /\ call \in Calls
  BY DEF Safe, DepthToSpace
<1>2. CASE Rejects
  BY <1>1, <1>2, RejectsInOneGo
<1>3. CASE BlocksFit(t, rows, bh, bw) /\ Inserts("transfer", q) /\ mem' = mem
  <2>1. /\ t \in Tensors /\ rows \in Tensors /\ bh \in Nat \ {0} /\ bw \in Nat \ {0}
        /\ OutBytes = Bytes(t) /\ InBytes = Bytes(rows)
    BY <1>1, BlockTensors
  <2>2. CutInBlocks(t, bh, bw) /\ Size(rows) = Size(t)
    BY <1>3, <2>1, BlocksFitCut
  <2>3. rows.at \in Nat /\ t.at \in Nat /\ Size(t) \in Nat
    BY <2>1, SizeIsNat
  <2>4. OutBytes = t.at .. t.at + Size(t) - 1 /\ InBytes = rows.at .. rows.at + Size(t) - 1
    BY <2>1, <2>2 DEF Bytes
  <2>5. q.in = in /\ q.out = out
    BY PreparedParams DEF Safe
  <2>6. \A k \in 0..Size(t) - 1 : Address(in, k) = rows.at + k
    <3>1. (Size(rows) * 8) % ChannelBits(rows) = 0 /\ ChannelBits(rows) \in {8, 16, 24}
          /\ Size(rows) \in Nat /\ rows.at \in Int
      BY <2>1, <2>3, TensorChannels
    <3>2. \A k \in 0..Size(rows) - 1 : Address(in, k) = rows.at + k
      BY <3>1, RawWhole DEF Whole
    <3> QED BY <2>2, <3>2
  <2>7. /\ \A f \in Bytewise : \E g \in Spots(t, bh, bw) :
               f = <<t.at + InImage(t, bh, bw, g), rows.at + InRows(t, bh, bw, g)>>
        /\ \A g \in Spots(t, bh, bw) :
               <<t.at + InImage(t, bh, bw, g), rows.at + InRows(t, bh, bw, g)>> \in Bytewise
    BY <1>1, <1>3, DepthToSpaceMoves
  <2>8. /\ Count(out) = Size(t)
        /\ \A g \in Spots(t, bh, bw) : /\ InRows(t, bh, bw, g) \in 0..Size(t) - 1
                                       /\ InImage(t, bh, bw, g) \in 0..Size(t) - 1
                                       /\ Address(out, InRows(t, bh, bw, g)) = t.at + InImage(t, bh, bw, g)
        /\ \A k \in 0..Size(t) - 1 : \E g \in Spots(t, bh, bw) : k = InRows(t, bh, bw, g)
        /\ \A k \in 0..Size(t) - 1 : \E g \in Spots(t, bh, bw) : k = InImage(t, bh, bw, g)
        /\ \A g, h \in Spots(t, bh, bw) : InImage(t, bh, bw, g) = InImage(t, bh, bw, h) => g = h
    <3>1. \A g \in Spots(t, bh, bw) : Address(out, InRows(t, bh, bw, g)) = t.at + InImage(t, bh, bw, g)
      BY <2>2, BlockAddress
    <3>2. /\ Count(out) = Size(t)
          /\ \A g \in Spots(t, bh, bw) : InRows(t, bh, bw, g) \in 0..Size(t) - 1
          /\ \A k \in 0..Size(t) - 1 : \E g \in Spots(t, bh, bw) : k = InRows(t, bh, bw, g)
      BY <2>2, SpotsAreAll
    <3>3. /\ \A g \in Spots(t, bh, bw) : InImage(t, bh, bw, g) \in 0..Size(t) - 1
          /\ \A k \in 0..Size(t) - 1 : \E g \in Spots(t, bh, bw) : k = InImage(t, bh, bw, g)
          /\ \A g, h \in Spots(t, bh, bw) : InImage(t, bh, bw, g) = InImage(t, bh, bw, h) => g = h
      BY <2>2, SpotsInImage
    <3> QED BY <3>1, <3>2, <3>3
  <2>9. Inserts("transfer", q)
    BY <1>3
  <2> HIDE DEF in, out, q, t, rows, bh, bw
  <2>10. ASSUME NEW f \in Bytewise
         PROVE  f[2] \in InBytes /\ \E k \in 0..Count(q.out) - 1 :
                                      f[1] = Address(q.out, k) /\ f[2] = Address(q.in, k)
    <3>1. PICK g \in Spots(t, bh, bw) :
                 f = <<t.at + InImage(t, bh, bw, g), rows.at + InRows(t, bh, bw, g)>>
      BY <2>7
    <3> DEFINE k == InRows(t, bh, bw, g)
    <3>2. k \in 0..Count(q.out) - 1 /\ f[1] = Address(q.out, k) /\ f[2] = Address(q.in, k)
      BY <2>5, <2>6, <2>8, <3>1
    <3>3. rows.at + k \in InBytes
      <4>1. k \in 0..Size(t) - 1
        BY <2>8
      <4> HIDE DEF k
      <4> QED BY <2>3, <2>4, <4>1
    <3> QED BY <3>1, <3>2, <3>3
  <2>11. ASSUME NEW a \in OutBytes
         PROVE  \E f \in Bytewise : f[1] = a
    <3>1. a - t.at \in 0..Size(t) - 1
      BY <2>3, <2>4
    <3>2. PICK g \in Spots(t, bh, bw) : a - t.at = InImage(t, bh, bw, g)
      BY <2>8, <3>1
    <3>3. a = t.at + InImage(t, bh, bw, g)
      BY <2>3, <2>4, <3>2
    <3>4. <<t.at + InImage(t, bh, bw, g), rows.at + InRows(t, bh, bw, g)>> \in Bytewise
      BY <2>7
    <3> QED BY <3>3, <3>4
  <2>12. ASSUME NEW j \in 0..Count(q.out) - 1, NEW k \in 0..Count(q.out) - 1,
                Address(q.out, j) = Address(q.out, k)
         PROVE  j = k
    <3>1. j \in 0..Size(t) - 1 /\ k \in 0..Size(t) - 1 /\ Address(out, j) = Address(out, k)
      BY <2>5, <2>8, <2>12
    <3>2. PICK g \in Spots(t, bh, bw) : j = InRows(t, bh, bw, g)
      BY <2>8, <3>1
    <3>3. PICK h \in Spots(t, bh, bw) : k = InRows(t, bh, bw, h)
      BY <2>8, <3>1
    <3>4. t.at + InImage(t, bh, bw, g) = t.at + InImage(t, bh, bw, h)
      BY <2>8, <3>1, <3>2, <3>3
    <3>5. InImage(t, bh, bw, g) = InImage(t, bh, bw, h)
      BY <2>3, <2>8, <3>4
    <3> QED BY <2>8, <3>2, <3>3, <3>5
  <2>13. Count(q.out) \in Nat
    BY <2>3, <2>5, <2>8
  <2>14. mem' = mem
    BY <1>3
  <2> QED BY <1>1, <2>9, <2>10, <2>11, <2>12, <2>13, <2>14, TransferInOneGo
<1> QED BY <1>2, <1>3, Zenon DEF DepthToSpace

-----------------------------------------------------------------------------
(***************************************************************************)
(* Tensors of any rank: their bytes are numbered in a mixed radix, an      *)
(* index being a digit for each axis.                                      *)
(***************************************************************************)

(* The weights of the digits of a number with so many values each.         *)
Radix(n, dims, w) ==
  /\ n \in Nat /\ \A k \in 0..n : w[k] \in Nat
  /\ \A k \in 1..n : dims[k] \in Nat /\ w[k - 1] = dims[k] * w[k]
Digit(n, dims, x) == x \in [1..n -> Nat] /\ \A i \in 1..n : x[i] < dims[i]
Number(n, w, x) == Total([i \in 1..n |-> w[i] * x[i]])

(* What is left of a number after its first digits, and of its last place. *)
LEMMA Rests ==
  ASSUME NEW n, NEW dims, NEW w, Radix(n, dims, w), NEW x, Digit(n, dims, x), NEW j \in 0..w[n] - 1
  PROVE  \E rest : /\ rest[0] = Number(n, w, x) + j /\ rest[n] = j
                   /\ \A k \in 0..n : rest[k] \in 0..w[k] - 1
                   /\ \A k \in 0..n - 1 : rest[k] = x[k + 1] * w[k + 1] + rest[k + 1]
<1> DEFINE ns == [i \in 1..n |-> w[i] * x[i]]
           T(k) == Total(First(ns, k))
           rest == [k \in 0..n |-> T(n) - T(k) + j]
           S == {k \in 0..n : rest[n - k] \in 0..w[n - k] - 1}
<1>0. /\ n \in Nat /\ \A k \in 0..n : w[k] \in Nat
      /\ \A k \in 1..n : dims[k] \in Nat /\ w[k - 1] = dims[k] * w[k]
      /\ x \in [1..n -> Nat] /\ \A i \in 1..n : x[i] < dims[i]
  BY DEF Radix, Digit
<1>1. ns \in [1..n -> Nat]
  <2>1. \A i \in 1..n : w[i] * x[i] \in Nat
    BY <1>0, ProductNat
  <2> QED BY <2>1
<1>2. /\ \A k \in 0..n : T(k) \in Nat
      /\ T(0) = 0
      /\ \A k \in 0..n - 1 : T(k + 1) = T(k) + ns[k + 1]
      /\ T(n) = Number(n, w, x)
  <2>1. T(n) = Number(n, w, x)
    <3>1. First(ns, n) = ns
      BY <1>0, <1>1, FirstIsAll
    <3> QED BY <3>1 DEF Number
  <2> HIDE DEF ns
  <2>2. \A k \in 0..n : T(k) \in Nat
    BY <1>0, <1>1, TotalNat
  <2>3. DOMAIN ns = 1..n
    BY <1>1
  <2> QED BY <1>0, <2>1, <2>2, <2>3, PrefixSums
<1>3. \A k \in 0..n - 1 : ns[k + 1] = x[k + 1] * w[k + 1] /\ ns[k + 1] \in Nat
  BY <1>0, <1>1
<1> HIDE DEF ns, T
<1>4. /\ \A k \in 0..n : rest[k] = T(n) - T(k) + j /\ rest[k] \in Int
      /\ rest[0] = Number(n, w, x) + j /\ rest[n] = j
  BY <1>0, <1>2
<1>5. ASSUME NEW k \in 0..n - 1
      PROVE  rest[k] = x[k + 1] * w[k + 1] + rest[k + 1]
  <2> DEFINE z == x[k + 1] * w[k + 1]
  <2>0. k \in 0..n /\ n \in 0..n
    BY <1>0
  <2>1. z \in Nat /\ T(k + 1) = T(k) + z /\ T(k) \in Nat /\ T(n) \in Nat
    <3>1. z \in Nat /\ ns[k + 1] = z
      BY <1>3
    <3>2. T(k + 1) = T(k) + ns[k + 1] /\ T(k) \in Nat /\ T(n) \in Nat
      BY <1>2, <2>0
    <3> QED BY <3>1, <3>2
  <2>2. rest[k] = T(n) - T(k) + j /\ rest[k + 1] = T(n) - T(k + 1) + j
    BY <1>0, <1>4
  <2> HIDE DEF z, rest
  <2>3. rest[k] = z + rest[k + 1]
    BY <2>1, <2>2
  <2> QED BY <2>3 DEF z
<1> HIDE DEF rest
<1>6. 0 \in S
  BY <1>0, <1>4
<1>7. ASSUME NEW k \in 0..n - 1, k \in S
      PROVE  k + 1 \in S
  <2> DEFINE i == n - k
             l == n - (k + 1)
  <2>1. l \in 0..n - 1 /\ i \in 1..n /\ i = l + 1 /\ i - 1 = l /\ k + 1 \in 0..n
    BY <1>0
  <2>2. rest[i] \in 0..w[i] - 1
    BY <1>7
  <2> HIDE DEF i, l
  <2>3. rest[l] = x[i] * w[i] + rest[i] /\ w[l] = dims[i] * w[i]
    BY <1>0, <1>5, <2>1
  <2>4. x[i] \in 0..dims[i] - 1 /\ dims[i] \in Nat /\ w[i] \in Nat
    BY <1>0, <2>1
  <2>5. x[i] * w[i] + rest[i] \in 0..dims[i] * w[i] - 1
    BY <2>2, <2>4, RowBound
  <2>6. rest[l] \in 0..w[l] - 1
    BY <2>3, <2>5
  <2> QED BY <2>1, <2>6 DEF l
<1> HIDE DEF S
<1>8. \A k \in 0..n : k \in S
  BY <1>0, <1>6, <1>7, BoundedInduction
<1>9. ASSUME NEW k \in 0..n
      PROVE  rest[k] \in 0..w[k] - 1
  <2>1. n - k \in 0..n /\ n - (n - k) = k
    BY <1>0
  <2> QED BY <1>8, <2>1 DEF S
<1> QED BY <1>4, <1>5, <1>9

(* No two elements share a byte.                                           *)
LEMMA OneNumber ==
  ASSUME NEW n, NEW dims, NEW w, Radix(n, dims, w), NEW x, Digit(n, dims, x),
         NEW y, Digit(n, dims, y), NEW j \in 0..w[n] - 1, NEW l \in 0..w[n] - 1,
         Number(n, w, x) + j = Number(n, w, y) + l
  PROVE  x = y /\ j = l
<1>0. /\ n \in Nat /\ \A k \in 0..n : w[k] \in Nat
      /\ x \in [1..n -> Nat] /\ y \in [1..n -> Nat]
  BY DEF Radix, Digit
<1>1. PICK r : /\ r[0] = Number(n, w, x) + j /\ r[n] = j
               /\ \A k \in 0..n : r[k] \in 0..w[k] - 1
               /\ \A k \in 0..n - 1 : r[k] = x[k + 1] * w[k + 1] + r[k + 1]
  BY Rests
<1>2. PICK s : /\ s[0] = Number(n, w, y) + l /\ s[n] = l
               /\ \A k \in 0..n : s[k] \in 0..w[k] - 1
               /\ \A k \in 0..n - 1 : s[k] = y[k + 1] * w[k + 1] + s[k + 1]
  BY Rests
<1>3. ASSUME NEW k \in 0..n - 1, r[k] = s[k]
      PROVE  r[k + 1] = s[k + 1] /\ x[k + 1] = y[k + 1]
  <2> DEFINE m == w[k + 1]
             a == x[k + 1]
             b == y[k + 1]
             t == r[k + 1]
             u == s[k + 1]
  <2>1. m \in Nat /\ a \in Int /\ b \in Int /\ t \in 0..m - 1 /\ u \in 0..m - 1
    BY <1>0, <1>1, <1>2
  <2>2. a * m + t = b * m + u
    BY <1>1, <1>2, <1>3
  <2> HIDE DEF m, a, b, t, u
  <2>3. (a * m + t) \div m = a /\ (a * m + t) % m = t
    BY <2>1, QuotientAndRest
  <2>4. (b * m + u) \div m = b /\ (b * m + u) % m = u
    BY <2>1, QuotientAndRest
  <2>5. a = b /\ t = u
    BY <2>2, <2>3, <2>4
  <2> QED BY <2>5 DEF a, b, t, u
<1> DEFINE S == {k \in 0..n : r[k] = s[k]}
<1>4. 0 \in S
  BY <1>0, <1>1, <1>2
<1>5. \A k \in 0..n - 1 : k \in S => k + 1 \in S
  BY <1>0, <1>3
<1> HIDE DEF S
<1>6. \A k \in 0..n : k \in S
  BY <1>0, <1>4, <1>5, BoundedInduction
<1>7. \A k \in 0..n : r[k] = s[k]
  BY <1>6 DEF S
<1>8. ASSUME NEW i \in 1..n
      PROVE  x[i] = y[i]
  <2>1. i - 1 \in 0..n - 1 /\ i - 1 + 1 = i /\ r[i - 1] = s[i - 1]
    BY <1>0, <1>7
  <2> QED BY <1>3, <2>1
<1>9. j = l
  BY <1>0, <1>1, <1>2, <1>7
<1> QED BY <1>0, <1>8, <1>9

(* Every byte belongs to an element.                                       *)
LEMMA EveryNumber ==
  ASSUME NEW n, NEW dims, NEW w, Radix(n, dims, w), NEW v \in 0..w[0] - 1
  PROVE  \E x, j : Digit(n, dims, x) /\ j \in 0..w[n] - 1 /\ v = Number(n, w, x) + j
<1> DEFINE T(x, k) == Total(First([i \in 1..n |-> w[i] * x[i]], k))
           S == {k \in 0..n : \E x \in [1..n -> Nat], r \in 0..w[k] - 1 :
                                (\A i \in 1..k : x[i] < dims[i]) /\ v = T(x, k) + r}
<1>0. /\ n \in Nat /\ \A k \in 0..n : w[k] \in Nat
      /\ \A k \in 1..n : dims[k] \in Nat /\ w[k - 1] = dims[k] * w[k]
  BY DEF Radix
<1>1. ASSUME NEW x \in [1..n -> Nat]
      PROVE  /\ T(x, 0) = 0
             /\ \A k \in 0..n - 1 : T(x, k + 1) = T(x, k) + w[k + 1] * x[k + 1]
             /\ \A k \in 0..n : T(x, k) \in Nat
             /\ T(x, n) = Number(n, w, x)
  <2> DEFINE ns == [i \in 1..n |-> w[i] * x[i]]
  <2>1. ns \in [1..n -> Nat]
    <3>1. \A i \in 1..n : w[i] * x[i] \in Nat
      BY <1>0, ProductNat
    <3> QED BY <3>1
  <2>2. \A k \in 0..n - 1 : ns[k + 1] = w[k + 1] * x[k + 1]
    <3>1. \A k \in 0..n - 1 : k + 1 \in 1..n
      BY <1>0
    <3> QED BY <3>1
  <2>3. First(ns, n) = ns
    BY <1>0, <2>1, FirstIsAll
  <2>4. /\ Total(First(ns, 0)) = 0
        /\ \A k \in 0..n - 1 : Total(First(ns, k + 1)) = Total(First(ns, k)) + ns[k + 1]
        /\ \A k \in 0..n : Total(First(ns, k)) \in Nat
    <3> HIDE DEF ns
    <3>1. DOMAIN ns = 1..n
      BY <2>1
    <3> QED BY <1>0, <2>1, <3>1, PrefixSums, TotalNat
  <2> QED BY <2>2, <2>3, <2>4 DEF Number
<1>2. 0 \in S
  <2> DEFINE x == [i \in 1..n |-> 0]
  <2>1. x \in [1..n -> Nat]
    OBVIOUS
  <2>2. v = T(x, 0) + v
    <3> HIDE DEF x, T
    <3>1. T(x, 0) = 0
      BY <1>1, <2>1
    <3> QED BY <3>1
  <2> HIDE DEF T
  <2> QED BY <1>0, <2>1, <2>2
<1>3. ASSUME NEW k \in 0..n - 1, k \in S
      PROVE  k + 1 \in S
  <2>1. PICK x \in [1..n -> Nat], r \in 0..w[k] - 1 :
               (\A i \in 1..k : x[i] < dims[i]) /\ v = T(x, k) + r
    BY <1>3
  <2> DEFINE m == w[k + 1]
             q == r \div m
             z == r % m
             y == [x EXCEPT ![k + 1] = q]
  <2>2. k + 1 \in 1..n /\ (k + 1) - 1 = k /\ k \in 0..n /\ k + 1 \in 0..n
    BY <1>0
  <2>3. m \in Nat /\ dims[k + 1] \in Nat /\ r \in 0..dims[k + 1] * m - 1
    BY <1>0, <2>2
  <2>4. q \in 0..dims[k + 1] - 1 /\ z \in 0..m - 1 /\ r = q * m + z
    <3> HIDE DEF m
    <3> QED BY <2>3, Division
  <2> HIDE DEF q, z
  <2>5. y \in [1..n -> Nat] /\ \A i \in 1..k + 1 : y[i] < dims[i]
    <3>1. q \in Nat /\ q < dims[k + 1]
      BY <2>3, <2>4
    <3>2. ASSUME NEW i \in 1..k + 1
          PROVE  y[i] < dims[i]
      <4>1. i \in 1..n /\ (i # k + 1 => i \in 1..k)
        BY <1>0, <2>2
      <4> QED BY <2>1, <3>1, <4>1
    <3> QED BY <3>1, <3>2
  <2>6. T(y, k) = T(x, k)
    <3>1. First([i \in 1..n |-> w[i] * y[i]], k) = First([i \in 1..n |-> w[i] * x[i]], k)
      <4>1. \A i \in 1..k : i \in 1..n /\ i # k + 1
        BY <1>0, <2>2
      <4>2. \A i \in 1..k : y[i] = x[i]
        BY <2>1, <4>1
      <4> HIDE DEF y
      <4> QED BY <4>1, <4>2 DEF First
    <3> QED BY <3>1
  <2>7. y[k + 1] = q
    BY <2>2
  <2> HIDE DEF T, y
  <2>8. T(y, k + 1) = T(y, k) + m * q /\ T(y, k) \in Nat
    BY <1>1, <2>2, <2>5, <2>7
  <2> HIDE DEF m
  <2>9. m * q = q * m /\ q * m \in Nat
    BY <2>3, <2>4
  <2>10. v = T(y, k + 1) + z
    BY <2>1, <2>4, <2>6, <2>8, <2>9
  <2> QED BY <2>2, <2>4, <2>5, <2>10 DEF m
<1> HIDE DEF S
<1>4. \A k \in 0..n : k \in S
  BY <1>0, <1>2, <1>3, BoundedInduction
<1>5. n \in S
  BY <1>0, <1>4
<1>6. PICK x \in [1..n -> Nat], r \in 0..w[n] - 1 :
             (\A i \in 1..n : x[i] < dims[i]) /\ v = T(x, n) + r
  BY <1>5 DEF S
<1>7. v = Number(n, w, x) + r /\ Digit(n, dims, x)
  <2> HIDE DEF T
  <2> QED BY <1>1, <1>6 DEF Digit
<1> QED BY <1>7

(* The places of the elements of a tensor, and where one of them is.       *)
Strides(n, dims) == [k \in 0..n |-> Stride(dims, k)]
Spot(n, dims, x) == Number(n, Strides(n, dims), x)

(* A tensor's elements are numbered like numbers.                          *)
LEMMA TensorRadix ==
  ASSUME NEW n \in Nat, NEW dims \in [1..n -> Nat], call.bytes \in Nat
  PROVE  /\ Radix(n, dims, Strides(n, dims))
         /\ Strides(n, dims)[0] = call.bytes * Product(dims)
         /\ Strides(n, dims)[n] = call.bytes
         /\ \A x : Spot(n, dims, x) = Total([i \in 1..n |-> Stride(dims, i) * x[i]])
<1> DEFINE w == Strides(n, dims)
<1>1. \A k \in 0..n : w[k] = Stride(dims, k)
  BY DEF Strides
<1>2. /\ Stride(dims, n) = call.bytes
      /\ Stride(dims, 0) = call.bytes * Product(dims)
      /\ \A i \in 1..n : Stride(dims, i - 1) = dims[i] * Stride(dims, i)
      /\ \A i \in 0..n : Stride(dims, i) \in Nat
  BY StrideStep
<1> HIDE DEF w
<1>3. \A k \in 1..n : k - 1 \in 0..n /\ k \in 0..n
  OBVIOUS
<1>4. \A k \in 1..n : dims[k] \in Nat /\ w[k - 1] = dims[k] * w[k]
  BY <1>1, <1>2, <1>3
<1>5. Radix(n, dims, w)
  BY <1>1, <1>2, <1>4 DEF Radix
<1>6. ASSUME NEW x
      PROVE  Spot(n, dims, x) = Total([i \in 1..n |-> Stride(dims, i) * x[i]])
  <2>1. [i \in 1..n |-> w[i] * x[i]] = [i \in 1..n |-> Stride(dims, i) * x[i]]
    BY <1>1, <1>3
  <2> QED BY <2>1, Zenon DEF Spot, Number, w
<1>7. 0 \in 0..n /\ n \in 0..n
  OBVIOUS
<1> QED BY <1>1, <1>2, <1>5, <1>6, <1>7 DEF w

(* The indexes of the elements are the digits of those numbers.            *)
LEMMA IndexIsDigit ==
  ASSUME NEW n \in Nat \ {0}, NEW dims \in [1..n -> Nat]
  PROVE  \A x : x \in IndicesOf(dims) <=> Digit(n, dims, x)
<1> DEFINE all == ToSet(dims)
<1>1. all = {dims[i] : i \in 1..n} /\ all \subseteq Nat /\ all # {}
  <2>1. all = {dims[i] : i \in 1..n}
    BY DEF ToSet
  <2>2. dims[1] \in all
    BY <2>1
  <2> QED BY <2>1, <2>2
<1>2. \A a \in all : a <= Total(dims)
  <2>1. ASSUME NEW i \in 1..n
        PROVE  dims[i] <= Total(dims)
    <3> DEFINE b == Total(First(dims, i - 1))
    <3>1. b \in Nat /\ Total(First(dims, i)) = b + dims[i] /\ Total(First(dims, i)) <= Total(dims)
      BY Sums
    <3> HIDE DEF b
    <3>2. Total(dims) \in Nat /\ dims[i] \in Nat
      BY TotalNat
    <3> QED BY <3>1, <3>2
  <2> QED BY <1>1, <2>1
<1>3. Total(dims) \in Int
  BY TotalNat
<1> HIDE DEF all
<1>4. Max(all) \in all /\ \A a \in all : a <= Max(all)
  <2>1. all \subseteq Int
    BY <1>1
  <2> QED BY <1>1, <1>2, <1>3, <2>1, GreatestElement
<1>5. DOMAIN dims = 1..n
  OBVIOUS
<1>6. \A x : x \in IndicesOf(dims) <=> /\ x \in [1..n -> 0..Max(all) - 1]
                                       /\ \A i \in 1..n : x[i] < dims[i]
  BY <1>5 DEF IndicesOf, all
<1>7. \A i \in 1..n : dims[i] \in Nat /\ dims[i] <= Max(all)
  BY <1>1, <1>4
<1>8. Max(all) \in Nat
  BY <1>1, <1>4
<1>9. ASSUME NEW x, x \in [1..n -> Nat], \A i \in 1..n : x[i] < dims[i]
      PROVE  x \in [1..n -> 0..Max(all) - 1]
  BY <1>7, <1>8, <1>9
<1>10. ASSUME NEW x, x \in [1..n -> 0..Max(all) - 1]
       PROVE  x \in [1..n -> Nat]
  BY <1>8, <1>10
<1> QED BY <1>6, <1>9, <1>10 DEF Digit

(* Every byte of a tensor is of one element, and of no other.              *)
LEMMA SpotsOfTensor ==
  ASSUME NEW n \in Nat, NEW dims \in [1..n -> Nat], call.bytes \in Nat
  PROVE  /\ \A x : Digit(n, dims, x) => \A r \in 0..call.bytes - 1 :
              Spot(n, dims, x) \in Nat /\ Spot(n, dims, x) + r \in 0..call.bytes * Product(dims) - 1
         /\ \A x, y : Digit(n, dims, x) /\ Digit(n, dims, y) => \A r, s \in 0..call.bytes - 1 :
              Spot(n, dims, x) + r = Spot(n, dims, y) + s => x = y /\ r = s
         /\ \A k \in 0..call.bytes * Product(dims) - 1 : \E x : \E r \in 0..call.bytes - 1 :
              Digit(n, dims, x) /\ k = Spot(n, dims, x) + r
<1> DEFINE w == Strides(n, dims)
           size == call.bytes * Product(dims)
<1>1. /\ Radix(n, dims, w) /\ w[0] = size /\ w[n] = call.bytes
      /\ \A x : Spot(n, dims, x) = Total([i \in 1..n |-> Stride(dims, i) * x[i]])
  BY TensorRadix
<1>2. size \in Nat
  BY ProductIsNat, ProductNat
<1>3. ASSUME NEW x, Digit(n, dims, x), NEW r \in 0..call.bytes - 1
      PROVE  Spot(n, dims, x) \in Nat /\ Spot(n, dims, x) + r \in 0..size - 1
  <2> DEFINE t == Total([i \in 1..n |-> Stride(dims, i) * x[i]])
  <2>1. x \in [1..n -> Nat] /\ \A i \in 1..n : x[i] < dims[i]
    BY <1>3 DEF Digit
  <2>2. t \in Nat /\ t + call.bytes <= size
    BY <2>1, ElementInside
  <2>3. Spot(n, dims, x) = t
    BY <1>1
  <2> HIDE DEF t, size
  <2>4. t + r \in 0..size - 1
    BY <1>2, <2>2
  <2> QED BY <2>2, <2>3, <2>4
<1> HIDE DEF w, size
<1>4. ASSUME NEW x, NEW y, Digit(n, dims, x), Digit(n, dims, y),
             NEW r \in 0..call.bytes - 1, NEW s \in 0..call.bytes - 1,
             Spot(n, dims, x) + r = Spot(n, dims, y) + s
      PROVE  x = y /\ r = s
  <2>1. Number(n, w, x) + r = Number(n, w, y) + s
    BY <1>4 DEF Spot, w
  <2> QED BY <1>1, <1>4, <2>1, OneNumber
<1>5. ASSUME NEW k \in 0..size - 1
      PROVE  \E x : \E r \in 0..call.bytes - 1 : Digit(n, dims, x) /\ k = Spot(n, dims, x) + r
  <2>1. PICK x, r : Digit(n, dims, x) /\ r \in 0..call.bytes - 1 /\ k = Number(n, w, x) + r
    BY <1>1, EveryNumber
  <2> QED BY <2>1 DEF Spot, w
<1> QED BY <1>3, <1>4, <1>5 DEF size

(* A permutation of any number of axes has an inverse on both sides.       *)
LEMMA PermutationOnto ==
  ASSUME NEW n \in Nat, NEW perm \in [1..n -> 1..n], NEW target,
         \A o \in 1..n : target[perm[o]] = o, NEW i \in 1..n
  PROVE  target[i] \in 1..n /\ perm[target[i]] = i
<1>1. IsFiniteSet(1..n) /\ Cardinality(1..n) = Cardinality(1..n)
  BY FS_Interval
<1>2. perm \in Injection(1..n, 1..n)
  BY DEF Injection, IsInjective
<1>3. perm \in Surjection(1..n, 1..n)
  BY <1>1, <1>2, FS_Injection
<1>4. PICK k \in 1..n : perm[k] = i
  BY <1>3 DEF Surjection
<1>5. target[perm[k]] = k
  OBVIOUS
<1> QED BY <1>4, <1>5

-----------------------------------------------------------------------------
(***************************************************************************)
(* Transpositions, on the CPU and with the engine that writes up to four   *)
(* axes.                                                                   *)
(***************************************************************************)

(* where element x of a transposition's input goes                         *)
Target(n, x) == Total([o \in 1..n |-> call.off[o] * x[call.perm[o]]])

(* A transposition has as many elements as its input.                      *)
LEMMA TransposeSize ==
  ASSUME NEW n, TransposeFacts(n)
  PROVE  /\ n \in Nat \ {0} /\ call.dims \in [1..n -> Nat] /\ PermutedDims \in [1..n -> Nat]
         /\ PermutedDims = [o \in 1..n |-> call.dims[call.perm[o]]]
         /\ \A i \in 1..n : call.target[i] \in 1..n /\ call.perm[call.target[i]] = i
         /\ call.bytes * Product(PermutedDims) = call.bytes * Product(call.dims)
         /\ call.bytes * Product(call.dims) \in Nat
<1> DEFINE target == [i \in 1..n |-> call.target[i]]
<1>0. /\ n \in Nat \ {0} /\ DOMAIN call.dims = 1..n
      /\ call.dims \in [1..n -> Nat \ {0}] /\ PermutedDims \in [1..n -> Nat \ {0}]
      /\ call.perm \in [1..n -> 1..n]
      /\ \A o \in 1..n : call.target[call.perm[o]] = o
      /\ call.bytes \in Nat
      /\ Product(PermutedDims) \in Nat /\ Product(call.dims) \in Nat
      /\ Product(PermutedDims) <= Product(call.dims)
  BY DEF TransposeFacts
<1>1. PermutedDims = [o \in 1..n |-> call.dims[call.perm[o]]]
  BY <1>0 DEF PermutedDims
<1>2. \A i \in 1..n : call.target[i] \in 1..n /\ call.perm[call.target[i]] = i
  <2>1. n \in Nat /\ call.perm \in [1..n -> 1..n] /\ \A i \in 1..n : call.target[call.perm[i]] = i
    BY <1>0
  <2> DEFINE perm == call.perm
             back == call.target
  <2> HIDE DEF perm, back
  <2>2. n \in Nat /\ perm \in [1..n -> 1..n] /\ \A i \in 1..n : back[perm[i]] = i
    BY <2>1 DEF perm, back
  <2>4. ASSUME NEW i \in 1..n
        PROVE  back[i] \in 1..n /\ perm[back[i]] = i
    BY <2>2, PermutationOnto
  <2> QED BY <2>4 DEF perm, back
<1>3. Product([o \in 1..n |-> PermutedDims[target[o]]]) <= Product(PermutedDims)
  <2>1. target \in [1..n -> 1..n] /\ \A i \in 1..n : call.perm[target[i]] = i
    BY <1>2
  <2>2. n \in Nat /\ PermutedDims \in [1..n -> Nat \ {0}]
    BY <1>0
  <2> HIDE DEF target
  <2>3. ASSUME NEW dims, dims \in [1..n -> Nat \ {0}], NEW perm, perm \in [1..n -> 1..n],
               NEW back, \A i \in 1..n : back[perm[i]] = i
        PROVE  Product([o \in 1..n |-> dims[perm[o]]]) <= Product(dims)
    BY ONLY <2>2, <2>3, ProductPermuted, ZenonT(60)
  <2> QED BY ONLY <2>1, <2>2, <2>3, Zenon
<1>4. [o \in 1..n |-> PermutedDims[target[o]]] = call.dims
  <2>1. \A i \in 1..n : PermutedDims[target[i]] = call.dims[i]
    BY <1>1, <1>2
  <2>2. call.dims = [i \in 1..n |-> call.dims[i]]
    BY <1>0
  <2> HIDE DEF target
  <2> QED BY <2>1, <2>2
<1>5. Product(PermutedDims) = Product(call.dims)
  <2>1. Product(call.dims) <= Product(PermutedDims)
    BY <1>3, <1>4
  <2> QED BY <1>0, <2>1
<1>6. call.dims \in [1..n -> Nat] /\ PermutedDims \in [1..n -> Nat]
  BY <1>0
<1> QED BY <1>0, <1>1, <1>2, <1>5, <1>6, ProductNat

(* Every byte of the output is of one element of the input.                *)
LEMMA TargetsOfTensor ==
  ASSUME NEW n, TransposeFacts(n)
  PROVE  /\ \A x : Digit(n, call.dims, x) => \A r \in 0..call.bytes - 1 :
              Target(n, x) \in Nat /\ Target(n, x) + r \in 0..call.bytes * Product(call.dims) - 1
         /\ \A x, y : Digit(n, call.dims, x) /\ Digit(n, call.dims, y) => \A r, s \in 0..call.bytes - 1 :
              Target(n, x) + r = Target(n, y) + s => x = y /\ r = s
         /\ \A k \in 0..call.bytes * Product(call.dims) - 1 : \E x : \E r \in 0..call.bytes - 1 :
              Digit(n, call.dims, x) /\ k = Target(n, x) + r
<1> DEFINE dims == call.dims
           perm == call.perm
           target == call.target
           out == PermutedDims
           over(x) == [o \in 1..n |-> x[perm[o]]]
           size == call.bytes * Product(call.dims)
<1>0. /\ n \in Nat \ {0} /\ dims \in [1..n -> Nat] /\ out \in [1..n -> Nat]
      /\ out = [o \in 1..n |-> dims[perm[o]]]
      /\ \A i \in 1..n : target[i] \in 1..n /\ perm[target[i]] = i
      /\ call.bytes * Product(out) = size /\ size \in Nat
  BY TransposeSize
<1>1. /\ \A o \in 1..n : call.off[o] = Stride(out, o)
      /\ \A o \in 1..n : perm[o] \in 1..n /\ target[perm[o]] = o
      /\ call.bytes \in Nat
  <2>1. \A o \in 1..n : call.perm[o] \in 1..n
    BY DEF TransposeFacts
  <2> QED BY <2>1 DEF TransposeFacts
<1>2. /\ \A y : Spot(n, out, y) = Total([i \in 1..n |-> Stride(out, i) * y[i]])
      /\ \A y : Digit(n, out, y) => \A r \in 0..call.bytes - 1 :
              Spot(n, out, y) \in Nat /\ Spot(n, out, y) + r \in 0..size - 1
      /\ \A x, y : Digit(n, out, x) /\ Digit(n, out, y) => \A r, s \in 0..call.bytes - 1 :
              Spot(n, out, x) + r = Spot(n, out, y) + s => x = y /\ r = s
      /\ \A k \in 0..size - 1 : \E y : \E r \in 0..call.bytes - 1 :
              Digit(n, out, y) /\ k = Spot(n, out, y) + r
  <2>1. n \in Nat
    BY <1>0
  <2> HIDE DEF out, size
  <2>3. \A y : Spot(n, out, y) = Total([i \in 1..n |-> Stride(out, i) * y[i]])
    BY <1>0, <1>1, <2>1, TensorRadix
  <2>2. /\ \A y : Digit(n, out, y) => \A r \in 0..call.bytes - 1 :
              Spot(n, out, y) \in Nat /\ Spot(n, out, y) + r \in 0..call.bytes * Product(out) - 1
        /\ \A x, y : Digit(n, out, x) /\ Digit(n, out, y) => \A r, s \in 0..call.bytes - 1 :
              Spot(n, out, x) + r = Spot(n, out, y) + s => x = y /\ r = s
        /\ \A k \in 0..call.bytes * Product(out) - 1 : \E y : \E r \in 0..call.bytes - 1 :
              Digit(n, out, y) /\ k = Spot(n, out, y) + r
    BY <1>0, <1>1, <2>1, SpotsOfTensor
  <2> QED BY <1>0, <2>2, <2>3
<1>3. ASSUME NEW x, Digit(n, dims, x)
      PROVE  Digit(n, out, over(x)) /\ Target(n, x) = Spot(n, out, over(x))
  <2>1. x \in [1..n -> Nat] /\ \A i \in 1..n : x[i] < dims[i]
    BY <1>3 DEF Digit
  <2>2. Digit(n, out, over(x))
    BY <1>0, <1>1, <2>1 DEF Digit
  <2>3. [o \in 1..n |-> call.off[o] * x[perm[o]]] = [i \in 1..n |-> Stride(out, i) * over(x)[i]]
    BY <1>1
  <2>4. Target(n, x) = Spot(n, out, over(x))
    <3> DEFINE y == over(x)
    <3>1. [o \in 1..n |-> call.off[o] * x[perm[o]]] = [i \in 1..n |-> Stride(out, i) * y[i]]
      BY <2>3
    <3> HIDE DEF y
    <3>2. Spot(n, out, y) = Total([i \in 1..n |-> Stride(out, i) * y[i]])
      BY <1>2
    <3>3. Target(n, x) = Spot(n, out, y)
      BY <3>1, <3>2, Zenon DEF Target
    <3> QED BY <3>3 DEF y
  <2> QED BY <2>2, <2>4
<1>4. ASSUME NEW x, NEW y, Digit(n, dims, x), Digit(n, dims, y), over(x) = over(y)
      PROVE  x = y
  <2>1. x \in [1..n -> Nat] /\ y \in [1..n -> Nat]
    BY <1>4 DEF Digit
  <2>2. ASSUME NEW i \in 1..n
        PROVE  x[i] = y[i]
    <3>1. over(x)[target[i]] = x[i] /\ over(y)[target[i]] = y[i]
      BY <1>0
    <3> QED BY <1>4, <3>1
  <2>3. x = [i \in 1..n |-> x[i]] /\ y = [i \in 1..n |-> y[i]]
    BY <2>1
  <2>4. [i \in 1..n |-> x[i]] = [i \in 1..n |-> y[i]]
    BY <2>2
  <2> QED BY <2>3, <2>4, Zenon
<1>5. ASSUME NEW y, Digit(n, out, y)
      PROVE  \E x : Digit(n, dims, x) /\ over(x) = y
  <2> DEFINE x == [i \in 1..n |-> y[target[i]]]
  <2>1. y \in [1..n -> Nat] /\ \A i \in 1..n : y[i] < out[i]
    BY <1>5 DEF Digit
  <2>2. ASSUME NEW i \in 1..n
        PROVE  x[i] \in Nat /\ x[i] < dims[i]
    <3>1. y[target[i]] < out[target[i]] /\ out[target[i]] = dims[i] /\ y[target[i]] \in Nat
      BY <1>0, <2>1
    <3> QED BY <3>1
  <2>3. Digit(n, dims, x)
    BY <2>2 DEF Digit
  <2>4. \A o \in 1..n : over(x)[o] = y[o]
    BY <1>1
  <2>5. over(x) = y
    BY <2>1, <2>4
  <2> QED BY <2>3, <2>5
<1> HIDE DEF dims, perm, target, out, over, size
<1>6. ASSUME NEW x, Digit(n, dims, x), NEW r \in 0..call.bytes - 1
      PROVE  Target(n, x) \in Nat /\ Target(n, x) + r \in 0..size - 1
  BY <1>2, <1>3, <1>6
<1>7. ASSUME NEW x, NEW y, Digit(n, dims, x), Digit(n, dims, y),
             NEW r \in 0..call.bytes - 1, NEW s \in 0..call.bytes - 1,
             Target(n, x) + r = Target(n, y) + s
      PROVE  x = y /\ r = s
  <2>1. Spot(n, out, over(x)) + r = Spot(n, out, over(y)) + s
    BY <1>3, <1>7
  <2>2. over(x) = over(y) /\ r = s
    BY <1>2, <1>3, <1>7, <2>1
  <2> QED BY <1>4, <1>7, <2>2
<1>8. ASSUME NEW k \in 0..size - 1
      PROVE  \E x : \E r \in 0..call.bytes - 1 : Digit(n, dims, x) /\ k = Target(n, x) + r
  <2>1. PICK y : \E r \in 0..call.bytes - 1 : Digit(n, out, y) /\ k = Spot(n, out, y) + r
    BY <1>2
  <2>2. PICK x : Digit(n, dims, x) /\ over(x) = y
    BY <1>5, <2>1
  <2> QED BY <1>3, <2>1, <2>2
<1> QED BY <1>6, <1>7, <1>8 DEF dims, size

(* The bytes that a transposition has to move.                             *)
LEMMA TransposeMoves ==
  ASSUME NEW n, TransposeFacts(n), call.op = "Transpose"
  PROVE  Bytewise = {<<call.to + Target(n, x) + r, call.from + Spot(n, call.dims, x) + r>> :
                       x \in Indices, r \in 0..call.bytes - 1}
<1> DEFINE dims == [o \in 1..n |-> call.dims[call.perm[o]]]
           at(d, x) == Total([i \in 1..n |-> Stride(d, i) * x[i]])
           over(x) == [o \in 1..n |-> x[call.perm[o]]]
<1>1. Moves = {<<call.to + at(dims, over(x)), call.from + at(call.dims, x)>> : x \in Indices}
  <2>1. n = Len(call.dims)
    BY DEF TransposeFacts
  <2> QED BY <2>1 DEF Moves
<1>2. /\ n \in Nat \ {0} /\ call.dims \in [1..n -> Nat] /\ PermutedDims = dims
  BY TransposeSize
<1>3. /\ \A o \in 1..n : call.off[o] = Stride(dims, o)
      /\ \A o \in 1..n : call.perm[o] \in 1..n
      /\ call.bytes \in Nat
  BY <1>2 DEF TransposeFacts
<1>4. ASSUME NEW x
      PROVE  at(dims, over(x)) = Target(n, x) /\ at(call.dims, x) = Spot(n, call.dims, x)
  <2>1. [i \in 1..n |-> Stride(dims, i) * over(x)[i]] = [o \in 1..n |-> call.off[o] * x[call.perm[o]]]
    BY <1>3
  <2>2. at(dims, over(x)) = Target(n, x)
    BY <2>1, Zenon DEF Target
  <2>3. at(call.dims, x) = Spot(n, call.dims, x)
    BY <1>2, <1>3, TensorRadix
  <2> QED BY <2>2, <2>3
<1> HIDE DEF at, over, dims
<1>5. Moves = {<<call.to + Target(n, x), call.from + Spot(n, call.dims, x)>> : x \in Indices}
  BY <1>1, <1>4
<1>6. ElementBytes = call.bytes
  BY DEF ElementBytes, Elementwise
<1>7. ASSUME NEW x, NEW r \in 0..call.bytes - 1
      PROVE  LET m == <<call.to + Target(n, x), call.from + Spot(n, call.dims, x)>>
             IN  <<m[1] + r, m[2] + r>>
                   = <<call.to + Target(n, x) + r, call.from + Spot(n, call.dims, x) + r>>
  OBVIOUS
<1>8. ASSUME NEW f \in Bytewise
      PROVE  \E x \in Indices, r \in 0..call.bytes - 1 :
               f = <<call.to + Target(n, x) + r, call.from + Spot(n, call.dims, x) + r>>
  <2>1. PICK m \in Moves : \E r \in 0..call.bytes - 1 : f = <<m[1] + r, m[2] + r>>
    BY <1>6 DEF Bytewise
  <2>2. PICK x \in Indices : m = <<call.to + Target(n, x), call.from + Spot(n, call.dims, x)>>
    BY <1>5
  <2> QED BY <1>7, <2>1, <2>2
<1>9. ASSUME NEW x \in Indices, NEW r \in 0..call.bytes - 1
      PROVE  <<call.to + Target(n, x) + r, call.from + Spot(n, call.dims, x) + r>> \in Bytewise
  <2> DEFINE m == <<call.to + Target(n, x), call.from + Spot(n, call.dims, x)>>
  <2>1. m \in Moves
    BY <1>5
  <2>2. <<m[1] + r, m[2] + r>> \in Bytewise
    <3> HIDE DEF m
    <3> QED BY <1>6, <2>1 DEF Bytewise
  <2> QED BY <1>7, <2>2
<1> QED BY <1>8, <1>9

(* Where the elements of a transposition are, in the input and the output. *)
LEMMA TransposePlaces ==
  ASSUME NEW n, TransposeFacts(n), call.op = "Transpose"
  PROVE  /\ n \in Nat \ {0} /\ \A x : x \in Indices <=> Digit(n, call.dims, x)
         /\ call.to \in Nat /\ call.from \in Nat /\ call.bytes \in 1..4
         /\ \A x \in Indices : Target(n, x) \in Nat /\ Spot(n, call.dims, x) \in Nat
         /\ \A x \in Indices, r \in 0..call.bytes - 1 :
              call.to + Target(n, x) + r \in OutBytes /\ call.from + Spot(n, call.dims, x) + r \in InBytes
         /\ \A a \in OutBytes : \E x \in Indices, r \in 0..call.bytes - 1 : a = call.to + Target(n, x) + r
         /\ \A x, y \in Indices : \A r, s \in 0..call.bytes - 1 :
              call.to + Target(n, x) + r = call.to + Target(n, y) + s => x = y /\ r = s
<1> DEFINE size == call.bytes * Product(call.dims)
           dims == call.dims
           to == call.to
           from == call.from
           bytes == call.bytes
<1>0. /\ n \in Nat \ {0} /\ dims \in [1..n -> Nat] /\ bytes \in 1..4
      /\ to \in Nat /\ from \in Nat /\ size \in Nat
  BY TransposeSize DEF TransposeFacts
<1>1. \A x : x \in Indices <=> Digit(n, dims, x)
  BY <1>0, IndexIsDigit DEF Indices
<1>2. /\ \A x : Digit(n, dims, x) => \A r \in 0..bytes - 1 :
           Target(n, x) \in Nat /\ Target(n, x) + r \in 0..size - 1
      /\ \A x, y : Digit(n, dims, x) /\ Digit(n, dims, y) => \A r, s \in 0..bytes - 1 :
           Target(n, x) + r = Target(n, y) + s => x = y /\ r = s
      /\ \A k \in 0..size - 1 : \E x : \E r \in 0..bytes - 1 :
           Digit(n, dims, x) /\ k = Target(n, x) + r
  BY TargetsOfTensor
<1>3. \A x : Digit(n, dims, x) => \A r \in 0..bytes - 1 :
           Spot(n, dims, x) \in Nat /\ Spot(n, dims, x) + r \in 0..size - 1
  <2>1. n \in Nat /\ bytes \in Nat
    BY <1>0
  <2> QED BY <1>0, <2>1, SpotsOfTensor
<1>4. OutBytes = to .. to - 1 + size /\ InBytes = from .. from - 1 + size
  BY DEF OutBytes, InBytes, Elementwise
<1> HIDE DEF size, to, from, bytes, dims
<1>5. OutBytes = to .. to + (size - 1) /\ InBytes = from .. from + (size - 1)
  BY <1>0, <1>4
<1>6. 0 \in 0..bytes - 1
  BY <1>0
<1>7. ASSUME NEW x \in Indices, NEW r \in 0..bytes - 1
      PROVE  /\ Target(n, x) \in Nat /\ Spot(n, dims, x) \in Nat
             /\ to + Target(n, x) + r \in OutBytes /\ from + Spot(n, dims, x) + r \in InBytes
  <2> DEFINE t == Target(n, x)
             s == Spot(n, dims, x)
  <2>1. t \in Nat /\ s \in Nat /\ t + r \in 0..size - 1 /\ s + r \in 0..size - 1
    BY <1>1, <1>2, <1>3
  <2> HIDE DEF t, s
  <2>2. to + t + r \in to .. to + (size - 1) /\ from + s + r \in from .. from + (size - 1)
    BY <1>0, <2>1
  <2> QED BY <1>5, <2>1, <2>2 DEF t, s
<1>8. ASSUME NEW a \in OutBytes
      PROVE  \E x \in Indices, r \in 0..bytes - 1 : a = to + Target(n, x) + r
  <2>1. a - to \in 0..size - 1 /\ a \in Int
    BY <1>0, <1>5
  <2>2. PICK x : \E r \in 0..bytes - 1 : Digit(n, dims, x) /\ a - to = Target(n, x) + r
    BY <1>2, <2>1
  <2>3. PICK r \in 0..bytes - 1 : Digit(n, dims, x) /\ a - to = Target(n, x) + r
    BY <2>2
  <2>4. x \in Indices /\ Target(n, x) \in Nat
    BY <1>1, <1>2, <2>3
  <2> DEFINE t == Target(n, x)
  <2> HIDE DEF t
  <2>5. a = to + t + r
    BY <1>0, <2>1, <2>3, <2>4 DEF t
  <2> QED BY <2>4, <2>5 DEF t
<1>9. ASSUME NEW x \in Indices, NEW y \in Indices, NEW r \in 0..bytes - 1, NEW s \in 0..bytes - 1,
             to + Target(n, x) + r = to + Target(n, y) + s
      PROVE  x = y /\ r = s
  <2> DEFINE t == Target(n, x)
             u == Target(n, y)
  <2>1. t \in Nat /\ u \in Nat
    BY <1>7
  <2>2. to + t + r = to + u + s
    BY <1>9
  <2> HIDE DEF t, u
  <2>3. t + r = u + s
    BY <1>0, <2>1, <2>2
  <2> QED BY <1>1, <1>2, <2>3 DEF t, u
<1>10. \A x \in Indices : Target(n, x) \in Nat /\ Spot(n, dims, x) \in Nat
  BY <1>6, <1>7
<1> QED BY <1>0, <1>1, <1>7, <1>8, <1>9, <1>10 DEF to, from, bytes, dims

(* A small transposition, on the CPU.                                      *)
LEMMA SwTransposeExact ==
  ASSUME Safe, InOneGo, Apart, pc = "call", call.op = "Transpose", Returns(SwTranspose)
  PROVE  InOneGo'
<1> DEFINE n == Len(call.dims)
           dst(x) == call.to + Target(n, x)
           src(x) == call.from + Spot(n, call.dims, x)
           bytes == call.bytes
           copies == {[dst |-> dst(x), src |-> src(x), n |-> bytes] : x \in Indices}
<1>1. TransposeFacts(n)
  BY CallIsGiven, TransposeIsTyped DEF Safe
<1>2. /\ n \in Nat \ {0} /\ \A x : x \in Indices <=> Digit(n, call.dims, x)
      /\ call.to \in Nat /\ call.from \in Nat /\ bytes \in 1..4
      /\ \A x \in Indices : Target(n, x) \in Nat /\ Spot(n, call.dims, x) \in Nat
      /\ \A x \in Indices, r \in 0..bytes - 1 : dst(x) + r \in OutBytes /\ src(x) + r \in InBytes
      /\ \A a \in OutBytes : \E x \in Indices, r \in 0..bytes - 1 : a = dst(x) + r
      /\ \A x, y \in Indices : \A r, s \in 0..bytes - 1 : dst(x) + r = dst(y) + s => x = y /\ r = s
  <2> HIDE DEF n
  <2> QED BY <1>1, TransposePlaces
<1>3. Bytewise = {<<dst(x) + r, src(x) + r>> : x \in Indices, r \in 0..bytes - 1}
  <2> HIDE DEF n
  <2> QED BY <1>1, TransposeMoves
<1>4. SwTranspose = Copied(mem, copies)
  <2> DEFINE source(x) == Total([i \in 1..n |-> InOffsets[i] * x[i]])
  <2>1. SwTranspose = Copied(mem, {[dst |-> dst(x), src |-> call.from + source(x), n |-> call.bytes]
                                   : x \in Indices})
    BY Zenon DEF SwTranspose, Target
  <2>2. ASSUME NEW x
        PROVE  source(x) = Spot(n, call.dims, x)
    <3>1. /\ call.dims \in [1..n -> Nat] /\ DOMAIN call.dims = 1..n /\ n \in Nat /\ call.bytes \in Nat
      BY <1>1 DEF TransposeFacts
    <3>2. ASSUME NEW i \in 1..n
          PROVE  InOffsets[i] = Stride(call.dims, i)
      <4>1. InOffsets[i] = call.bytes * Product([j \in 1..n - i |-> call.dims[i + j]])
        BY <3>1 DEF InOffsets
      <4>2. SubSeq(call.dims, i + 1, Len(call.dims)) = [j \in 1..n - i |-> call.dims[i + j]]
        <5>1. i \in 0..n
          BY <3>1
        <5> DEFINE dims == call.dims
        <5>2. SubSeq(dims, i + 1, Len(dims)) = [j \in 1..n - i |-> dims[i + j]]
          <6> HIDE DEF n, dims
          <6>1. dims \in [1..n -> Nat] /\ n \in Nat
            BY <3>1 DEF dims
          <6> QED BY <5>1, <6>1, Suffix
        <5> QED BY <5>2
      <4> QED BY <4>1, <4>2, Zenon DEF Stride
    <3>3. [i \in 1..n |-> InOffsets[i] * x[i]] = [i \in 1..n |-> Stride(call.dims, i) * x[i]]
      BY <3>2
    <3>4. Spot(n, call.dims, x) = Total([i \in 1..n |-> Stride(call.dims, i) * x[i]])
      <4> HIDE DEF n
      <4> QED BY <3>1, TensorRadix
    <3> QED BY <3>3, <3>4
  <2> HIDE DEF source
  <2>3. {[dst |-> dst(x), src |-> call.from + source(x), n |-> call.bytes] : x \in Indices} = copies
    BY <2>2
  <2> QED BY <2>1, <2>3
<1>5. \A x \in Indices : dst(x) \in Int /\ src(x) \in Int
  BY <1>2
<1> HIDE DEF dst, src, n, bytes
<1>6. Holds(CpuView(Copied(mem, copies)))
  <2> DEFINE to == [x \in Indices |-> dst(x)]
             from == [x \in Indices |-> src(x)]
  <2>1. \A x \in Indices : to[x] = dst(x) /\ from[x] = src(x)
    OBVIOUS
  <2>2. to \in [Indices -> Int] /\ from \in [Indices -> Int]
    BY <1>5
  <2>3. copies = {[dst |-> to[x], src |-> from[x], n |-> bytes] : x \in Indices}
    BY <2>1
  <2> HIDE DEF to, from, copies
  <2>4. \A f \in Bytewise : \E x \in Indices : \E r \in 0..bytes - 1 : f = <<to[x] + r, from[x] + r>>
    <3>1. ASSUME NEW f \in Bytewise
          PROVE  \E x \in Indices : \E r \in 0..bytes - 1 : f = <<to[x] + r, from[x] + r>>
      <4>1. PICK x \in Indices, r \in 0..bytes - 1 : f = <<dst(x) + r, src(x) + r>>
        BY <1>3
      <4> QED BY <2>1, <4>1
    <3> QED BY <3>1
  <2>5. \A x \in Indices : \A r \in 0..bytes - 1 : <<to[x] + r, from[x] + r>> \in Bytewise
    BY <1>3, <2>1
  <2>6. \A x \in Indices : \A r \in 0..bytes - 1 : to[x] + r \in OutBytes /\ from[x] + r \in InBytes
    BY <1>2, <2>1
  <2>7. \A a \in OutBytes : \E x \in Indices : \E r \in 0..bytes - 1 : a = to[x] + r
    <3>1. ASSUME NEW a \in OutBytes
          PROVE  \E x \in Indices : \E r \in 0..bytes - 1 : a = to[x] + r
      <4>1. PICK x \in Indices, r \in 0..bytes - 1 : a = dst(x) + r
        BY <1>2
      <4> QED BY <2>1, <4>1
    <3> QED BY <3>1
  <2>8. \A x, y \in Indices : \A r, s \in 0..bytes - 1 : to[x] + r = to[y] + s => x = y /\ r = s
    <3>1. ASSUME NEW x \in Indices, NEW y \in Indices, NEW r \in 0..bytes - 1, NEW s \in 0..bytes - 1,
                 to[x] + r = to[y] + s
          PROVE  x = y /\ r = s
      <4>1. dst(x) + r = dst(y) + s
        BY <2>1, <3>1
      <4> QED BY <1>2, <4>1
    <3> QED BY <3>1
  <2>9. bytes \in Nat
    BY <1>2
  <2>10. ElementCopies(Indices, to, from, bytes, copies)
    BY <2>2, <2>3, <2>4, <2>5, <2>6, <2>7, <2>8, <2>9, Zenon DEF ElementCopies
  <2> QED BY <2>10, ElementsAreResult
<1> QED BY <1>4, <1>6, ReturnsInOneGo

(* The strides of a tensor of three or four axes.                          *)
LEMMA ShortStrides ==
  ASSUME NEW n \in {3, 4}, NEW dims \in [1..n -> Nat], call.bytes \in Nat
  PROVE  /\ \A i \in 0..n : Stride(dims, i) \in Nat
         /\ Stride(dims, n) = call.bytes
         /\ Stride(dims, n - 1) = dims[n] * call.bytes
         /\ Stride(dims, n - 2) = dims[n - 1] * Stride(dims, n - 1)
         /\ Stride(dims, 0) = dims[1] * Stride(dims, 1)
         /\ n = 4 => Stride(dims, 1) = dims[2] * Stride(dims, 2)
         /\ Stride(dims, 0) = call.bytes * Product(dims)
         /\ \A x \in [1..n -> Nat] :
              Spot(n, dims, x) = Stride(dims, 1) * x[1] + Stride(dims, 2) * x[2] + Stride(dims, 3) * x[3]
                                   + (IF n = 4 THEN Stride(dims, 4) * x[4] ELSE 0)
<1>0. n \in Nat /\ {0, 1, 2, 3, n, n - 1, n - 2} \subseteq 0..n /\ {1, 2, 3, n, n - 1, n - 2} \subseteq 1..n
  OBVIOUS
<1>1. /\ Stride(dims, n) = call.bytes
      /\ Stride(dims, 0) = call.bytes * Product(dims)
      /\ \A i \in 1..n : Stride(dims, i - 1) = dims[i] * Stride(dims, i)
      /\ \A i \in 0..n : Stride(dims, i) \in Nat
  BY <1>0, StrideStep
<1>2. /\ Stride(dims, n - 1) = dims[n] * call.bytes
      /\ Stride(dims, n - 2) = dims[n - 1] * Stride(dims, n - 1)
      /\ Stride(dims, 0) = dims[1] * Stride(dims, 1)
      /\ n = 4 => Stride(dims, 1) = dims[2] * Stride(dims, 2)
  <2>1. Stride(dims, n - 1) = dims[n] * Stride(dims, n)
    BY <1>0, <1>1
  <2>2. Stride(dims, (n - 1) - 1) = dims[n - 1] * Stride(dims, n - 1) /\ (n - 1) - 1 = n - 2
    BY <1>0, <1>1
  <2>3. Stride(dims, 1 - 1) = dims[1] * Stride(dims, 1) /\ 1 - 1 = 0
    BY <1>0, <1>1
  <2>4. Stride(dims, 2 - 1) = dims[2] * Stride(dims, 2) /\ 2 - 1 = 1
    BY <1>0, <1>1
  <2> QED BY <1>1, <2>1, <2>2, <2>3, <2>4
<1>3. ASSUME NEW x \in [1..n -> Nat]
      PROVE  Spot(n, dims, x) = Stride(dims, 1) * x[1] + Stride(dims, 2) * x[2] + Stride(dims, 3) * x[3]
                                   + (IF n = 4 THEN Stride(dims, 4) * x[4] ELSE 0)
  <2> DEFINE ns == [i \in 1..n |-> Stride(dims, i) * x[i]]
  <2>1. Spot(n, dims, x) = Total(ns)
    BY <1>0, TensorRadix
  <2>2. ns \in [1..n -> Nat]
    <3>1. ASSUME NEW i \in 1..n
          PROVE  Stride(dims, i) * x[i] \in Nat
      <4>1. i \in 0..n /\ x[i] \in Nat
        OBVIOUS
      <4>2. Stride(dims, i) \in Nat
        BY <1>1, <4>1
      <4> QED BY <4>1, <4>2, ProductNat
    <3> QED BY <3>1
  <2>3. /\ ns[1] = Stride(dims, 1) * x[1] /\ ns[2] = Stride(dims, 2) * x[2]
        /\ ns[3] = Stride(dims, 3) * x[3] /\ (n = 4 => ns[4] = Stride(dims, 4) * x[4])
    OBVIOUS
  <2> HIDE DEF ns
  <2>4. Total(ns) = ns[1] + ns[2] + ns[3] + (IF n = 4 THEN ns[4] ELSE 0)
    BY <2>2, ShortTotals
  <2> QED BY <2>1, <2>3, <2>4
<1> QED BY <1>1, <1>2, <1>3

(* The writing engine puts the bytes, in the order of the input, where     *)
(* their elements belong.                                                  *)
LEMMA TransposeAddress ==
  ASSUME NEW n, TransposeFacts(n), n \in {3, 4}
  PROVE  /\ Count(TransposeOut) = call.bytes * Product(call.dims)
         /\ \A x : Digit(n, call.dims, x) => \A r \in 0..call.bytes - 1 :
              Address(TransposeOut, Spot(n, call.dims, x) + r) = call.to + Target(n, x) + r
<1> DEFINE d == TransposeOut
           dims == call.dims
           b == call.bytes
           S(i) == Stride(dims, i)
<1>1. /\ d.at = call.to /\ d.raw = FALSE
      /\ d.bits = ChannelBits(Tensor1) /\ d.depth = Channels(Tensor1, 1)
      /\ d.width = dims[n] /\ d.pixel = W(n)
      /\ d.height = dims[n - 1] /\ d.line = W(n - 1)
      /\ d.loop = dims[n - 2] /\ d.frame = W(n - 2)
      /\ n = 4 => d.loops = W(1) /\ d.frames = dims[1] * dims[2]
      /\ n = 3 => d.loops = 0 /\ d.frames = dims[1]
  BY TransposeShape
<1>2. /\ \A i \in 1..n : dims[i] \in Nat \ {0} /\ W(i) \in Nat \ {0}
      /\ dims \in [1..n -> Nat] /\ b \in 1..4 /\ call.to \in Nat
  BY Weights DEF TransposeFacts
<1>3. Shaped(d, b) /\ d.line # 0
  <2>1. ChannelBits(Tensor1) \in {8, 16, 24} /\ Channels(Tensor1, 1) \in Nat
        /\ Channels(Tensor1, 1) * (ChannelBits(Tensor1) \div 8) = b
    BY <1>2, ElementChannels
  <2>2. dims[n] \in Nat /\ dims[n - 1] \in Nat /\ W(n - 1) # 0
    BY <1>2
  <2> HIDE DEF d, dims, b
  <2> QED BY <1>1, <1>2, <2>1, <2>2 DEF Shaped
<1>4. /\ \A i \in 0..n : S(i) \in Nat
      /\ S(n) = b /\ S(n - 1) = dims[n] * b /\ S(n - 2) = dims[n - 1] * S(n - 1)
      /\ S(0) = dims[1] * S(1) /\ (n = 4 => S(1) = dims[2] * S(2)) /\ S(0) = b * Product(dims)
      /\ \A x \in [1..n -> Nat] :
           Spot(n, dims, x) = S(1) * x[1] + S(2) * x[2] + S(3) * x[3]
                                + (IF n = 4 THEN S(4) * x[4] ELSE 0)
  <2>1. b \in Nat
    BY <1>2
  <2> QED BY <1>2, <2>1, ShortStrides
<1> HIDE DEF d, dims, b, S
<1>5. d.frames \in Nat
  <2>1. CASE n = 3
    BY <1>1, <1>2, <2>1
  <2>2. CASE n = 4
    <3>1. dims[1] \in Nat /\ dims[2] \in Nat
      BY <1>2, <2>2
    <3> QED BY <1>1, <2>2, <3>1, ProductNat
  <2> QED BY <2>1, <2>2
<1>6. d.height * (d.width * b) = S(n - 2)
  BY <1>1, <1>4
<1>7. Count(d) = b * Product(dims)
  <2>1. Count(d) = d.frames * S(n - 2)
    BY <1>3, <1>5, <1>6, StreamedAll
  <2>2. CASE n = 3
    <3>1. n - 2 = 1
      BY <2>2
    <3> QED BY <1>1, <1>4, <2>1, <2>2, <3>1
  <2>3. CASE n = 4
    <3>1. n - 2 = 2
      BY <2>3
    <3>2. dims[1] \in Nat /\ dims[2] \in Nat /\ S(2) \in Nat
      BY <1>2, <1>4, <2>3
    <3> DEFINE a == dims[1]
               c == dims[2]
               e == S(2)
    <3>3. (a * c) * e = a * (c * e)
      <4> HIDE DEF a, c, e
      <4>1. a \in Nat /\ c \in Nat /\ e \in Nat
        BY <3>2 DEF a, c, e
      <4> QED BY <4>1
    <3>4. Count(d) = (dims[1] * dims[2]) * S(2)
      BY <1>1, <2>1, <2>3, <3>1
    <3> QED BY <1>4, <2>3, <3>3, <3>4
  <2> QED BY <2>2, <2>3
<1>8. ASSUME NEW x, Digit(n, dims, x), NEW r \in 0..b - 1
      PROVE  Address(d, Spot(n, dims, x) + r) = call.to + Target(n, x) + r
  <2>1. x \in [1..n -> Nat] /\ \A i \in 1..n : x[i] < dims[i]
    BY <1>8 DEF Digit
  <2>2. n - 1 \in 1..n /\ n - 2 \in 1..n /\ n \in 1..n
    OBVIOUS
  <2>3. x[n - 1] \in 0..d.height - 1 /\ x[n] \in 0..d.width - 1
    BY <1>1, <1>2, <2>1, <2>2
  <2> DEFINE f == IF n = 3 THEN x[1] ELSE x[1] * dims[2] + x[2]
  <2>4. f \in Int /\ FrameOffset(d, f) = IF n = 3 THEN x[1] * W(1) ELSE x[1] * W(1) + x[2] * W(2)
    <3>1. CASE n = 3
      <4>1. d.loop = dims[1] /\ d.frame = W(1) /\ d.loops = 0 /\ n - 2 = 1
        BY <1>1, <3>1
      <4>2. f = x[1] /\ x[1] \in 0..dims[1] - 1 /\ dims[1] \in Nat \ {0} /\ W(1) \in Nat
        BY <1>2, <2>1, <3>1
      <4> DEFINE m == dims[1]
                 v == x[1]
      <4>3. m \in Nat \ {0} /\ v \in 0..m - 1
        BY <4>2
      <4> HIDE DEF m, v
      <4>4. v \div m = 0 /\ v % m = v
        BY <4>3
      <4>5. FrameOffset(d, f) = (f \div m) * d.loops + (f % m) * d.frame
        BY <4>1, <4>2 DEF FrameOffset, m
      <4>6. FrameOffset(d, f) = 0 * 0 + v * W(1)
        BY <4>1, <4>2, <4>4, <4>5 DEF v
      <4>7. v * W(1) \in Nat
        BY <4>2, <4>3, ProductNat
      <4>8. FrameOffset(d, f) = v * W(1)
        BY <4>6, <4>7
      <4> QED BY <3>1, <4>2, <4>8 DEF v
    <3>2. CASE n = 4
      <4>1. d.loop = dims[2] /\ d.frame = W(2) /\ d.loops = W(1) /\ n - 2 = 2
        BY <1>1, <3>2
      <4>2. /\ f = x[1] * dims[2] + x[2] /\ x[1] \in Nat
            /\ x[2] \in 0..dims[2] - 1 /\ dims[2] \in Nat \ {0}
        BY <1>2, <2>1, <3>2
      <4> DEFINE m == dims[2]
                 v == x[1]
                 u == x[2]
      <4>3. m \in Nat \ {0} /\ v \in Int /\ u \in 0..m - 1 /\ f = v * m + u
        BY <4>2
      <4> HIDE DEF m, v, u, f
      <4>4. f \div m = v /\ f % m = u
        <5>1. m \in Nat /\ v \in Int
          BY <4>3
        <5> QED BY <4>3, <5>1, QuotientAndRest, Zenon
      <4>5. FrameOffset(d, f) = (f \div m) * d.loops + (f % m) * d.frame
        BY <4>1, <4>3 DEF FrameOffset, m
      <4>6. FrameOffset(d, f) = v * W(1) + u * W(2)
        BY <4>1, <4>4, <4>5
      <4> QED BY <3>2, <4>3, <4>6 DEF v, u
    <3> QED BY <3>1, <3>2
  <2> HIDE DEF f
  <2>5. LineOffset(d) = W(n - 1) /\ d.pixel = W(n)
    BY <1>1, <1>3 DEF LineOffset
  <2>6. Address(d, Streamed(d, b, f, x[n - 1], x[n], r))
          = d.at + FrameOffset(d, f) + (x[n - 1] * LineOffset(d) + x[n] * d.pixel + r)
    BY <1>3, <2>3, <2>4, ShapedAddress
  <2>7. Streamed(d, b, f, x[n - 1], x[n], r) = Spot(n, dims, x) + r
    <3> DEFINE y == x[n - 1]
               z == x[n]
    <3>1. y \in Nat /\ z \in Nat /\ d.width \in Nat /\ b \in Nat /\ S(n - 2) \in Nat /\ S(n - 1) \in Nat
      BY <1>1, <1>2, <1>4, <2>1, <2>2
    <3> HIDE DEF y, z
    <3>2. (y * d.width + z) * b + r = y * (d.width * b) + (z * b + r)
      BY <3>1, TwoCounts
    <3>3. d.width * b = S(n - 1)
      BY <1>1, <1>4
    <3>4. Streamed(d, b, f, y, z, r) = f * S(n - 2) + (y * S(n - 1) + (z * b + r))
      BY <1>6, <3>2, <3>3 DEF Streamed
    <3>5. CASE n = 3
      <4>1. n - 2 = 1 /\ n - 1 = 2 /\ f = x[1] /\ y = x[2] /\ z = x[3]
        BY <3>5 DEF y, z, f
      <4>2. Spot(n, dims, x) = S(1) * x[1] + S(2) * x[2] + S(3) * x[3] + 0
        BY <1>4, <2>1, <3>5
      <4>3. S(1) \in Nat /\ S(2) \in Nat /\ S(3) = b /\ b \in Nat /\ x[1] \in Nat /\ x[2] \in Nat /\ x[3] \in Nat
        BY <1>2, <1>4, <2>1, <3>5
      <4>4. Streamed(d, b, f, y, z, r) = x[1] * S(1) + (x[2] * S(2) + (x[3] * b + r))
        BY <3>4, <4>1
      <4> DEFINE i == S(1) * x[1]
                 j == S(2) * x[2]
                 k == b * x[3]
      <4>5. i \in Nat /\ j \in Nat /\ k \in Nat /\ x[1] * S(1) = i /\ x[2] * S(2) = j /\ x[3] * b = k
        BY <4>3, ProductNat
      <4>6. Streamed(d, b, f, y, z, r) = i + (j + (k + r)) /\ Spot(n, dims, x) = i + j + k + 0
        BY <4>2, <4>3, <4>4, <4>5
      <4> HIDE DEF i, j, k
      <4> QED BY <4>5, <4>6 DEF y, z
    <3>6. CASE n = 4
      <4>1. n - 2 = 2 /\ n - 1 = 3 /\ f = x[1] * dims[2] + x[2] /\ y = x[3] /\ z = x[4]
        BY <3>6 DEF y, z, f
      <4>2. Spot(n, dims, x) = S(1) * x[1] + S(2) * x[2] + S(3) * x[3] + S(4) * x[4]
        BY <1>4, <2>1, <3>6
      <4>3. /\ S(1) = dims[2] * S(2) /\ S(2) \in Nat /\ S(3) \in Nat /\ S(4) = b /\ b \in Nat
            /\ x[1] \in Nat /\ x[2] \in Nat /\ x[3] \in Nat /\ x[4] \in Nat /\ dims[2] \in Nat
        BY <1>2, <1>4, <2>1, <3>6
      <4>4. Streamed(d, b, f, y, z, r) = (x[1] * dims[2] + x[2]) * S(2) + (x[3] * S(3) + (x[4] * b + r))
        BY <3>4, <4>1
      <4> DEFINE i == S(1) * x[1]
                 j == S(2) * x[2]
                 k == S(3) * x[3]
                 l == b * x[4]
                 e == x[1]
                 c == dims[2]
                 g == x[2]
                 h == S(2)
      <4>5. (e * c + g) * h = (c * h) * e + h * g
        <5>1. e \in Nat /\ c \in Nat /\ g \in Nat /\ h \in Nat
          BY <4>3
        <5> HIDE DEF e, c, g, h
        <5> QED BY <5>1
      <4>6. i \in Nat /\ j \in Nat /\ k \in Nat /\ l \in Nat /\ x[3] * S(3) = k /\ x[4] * b = l
            /\ (x[1] * dims[2] + x[2]) * S(2) = i + j
        <5>1. S(1) \in Nat
          BY <1>4, <3>6
        <5> QED BY <4>3, <4>5, <5>1, ProductNat
      <4>7. Streamed(d, b, f, y, z, r) = i + j + (k + (l + r)) /\ Spot(n, dims, x) = i + j + k + l
        BY <4>2, <4>3, <4>4, <4>6
      <4> HIDE DEF i, j, k, l
      <4> QED BY <4>6, <4>7 DEF y, z
    <3> QED BY <3>5, <3>6 DEF y, z
  <2>8. Target(n, x) = W(1) * x[1] + W(2) * x[2] + W(3) * x[3] + (IF n = 4 THEN W(4) * x[4] ELSE 0)
    BY <2>1, Weights DEF Target
  <2>9. d.at + FrameOffset(d, f) + (x[n - 1] * LineOffset(d) + x[n] * d.pixel + r)
          = call.to + Target(n, x) + r
    <3>1. CASE n = 3
      <4>1. W(1) \in Nat /\ W(2) \in Nat /\ W(3) \in Nat /\ x[1] \in Nat /\ x[2] \in Nat /\ x[3] \in Nat
        BY <1>2, <2>1, <3>1
      <4>2. d.at = call.to /\ FrameOffset(d, f) = x[1] * W(1) /\ LineOffset(d) = W(2) /\ d.pixel = W(3)
            /\ n - 1 = 2
        BY <1>1, <2>4, <2>5, <3>1
      <4> DEFINE i == W(1) * x[1]
                 j == W(2) * x[2]
                 k == W(3) * x[3]
      <4>3. i \in Nat /\ j \in Nat /\ k \in Nat /\ x[1] * W(1) = i /\ x[2] * W(2) = j /\ x[3] * W(3) = k
        BY <4>1, ProductNat
      <4>4. Target(n, x) = i + j + k + 0
        BY <2>8, <3>1
      <4>5. d.at + FrameOffset(d, f) + (x[n - 1] * LineOffset(d) + x[n] * d.pixel + r)
              = call.to + i + (j + k + r)
        BY <3>1, <4>2, <4>3
      <4> HIDE DEF i, j, k
      <4> QED BY <1>2, <4>3, <4>4, <4>5
    <3>2. CASE n = 4
      <4>1. /\ W(1) \in Nat /\ W(2) \in Nat /\ W(3) \in Nat /\ W(4) \in Nat
            /\ x[1] \in Nat /\ x[2] \in Nat /\ x[3] \in Nat /\ x[4] \in Nat
        BY <1>2, <2>1, <3>2
      <4>2. d.at = call.to /\ FrameOffset(d, f) = x[1] * W(1) + x[2] * W(2) /\ LineOffset(d) = W(3)
            /\ d.pixel = W(4) /\ n - 1 = 3
        BY <1>1, <2>4, <2>5, <3>2
      <4> DEFINE i == W(1) * x[1]
                 j == W(2) * x[2]
                 k == W(3) * x[3]
                 l == W(4) * x[4]
      <4>3. /\ i \in Nat /\ j \in Nat /\ k \in Nat /\ l \in Nat /\ x[1] * W(1) = i /\ x[2] * W(2) = j
            /\ x[3] * W(3) = k /\ x[4] * W(4) = l
        BY <4>1, ProductNat
      <4>4. Target(n, x) = i + j + k + l
        BY <2>8, <3>2
      <4>5. d.at + FrameOffset(d, f) + (x[n - 1] * LineOffset(d) + x[n] * d.pixel + r)
              = call.to + (i + j) + (k + l + r)
        BY <3>2, <4>2, <4>3
      <4> HIDE DEF i, j, k, l
      <4> QED BY <1>2, <4>3, <4>4, <4>5
    <3> QED BY <3>1, <3>2
  <2> QED BY <2>6, <2>7, <2>9
<1> QED BY <1>7, <1>8 DEF d, dims, b

(* LL_ATON_LIB_Transpose, on the CPU or by the engines: every element is   *)
(* where the permutation of the axes puts it.                              *)
LEMMA TransposeExact ==
  ASSUME Safe, InOneGo, Apart, Transpose
  PROVE  InOneGo'
<1> DEFINE n == Len(call.dims)
           dims == call.dims
           size == call.bytes * Product(call.dims)
           bytes == call.bytes
           in == Raw(call.from, size, ChannelBits(Tensor1))
           out == TransposeOut
           q == WithEngines(p, in, out)
           dst(x) == call.to + Target(n, x)
           src(x) == call.from + Spot(n, dims, x)
<1>1. pc = "call" /\ call.op = "Transpose" /\ IsParams(p) /\ TransposeFacts(n)
  BY CallIsGiven, TransposeIsTyped DEF Transpose, Safe
<1>2. \/ Returns(SwTranspose)
      \/ Rejects
      \/ n \in {3, 4} /\ mem' = mem /\ Inserts("transfer", q)
  BY Zenon DEF Transpose, WithEngines
<1>3. CASE Rejects
  BY <1>1, <1>3, RejectsInOneGo
<1>4. CASE Returns(SwTranspose)
  BY <1>1, <1>4, SwTransposeExact
<1>5. CASE n \in {3, 4} /\ mem' = mem /\ Inserts("transfer", q)
  <2>1. q.in = in /\ q.out = out
    BY <1>1, WithEnginesParams
  <2>2. /\ n \in Nat \ {0} /\ \A x : x \in Indices <=> Digit(n, dims, x)
        /\ call.to \in Nat /\ call.from \in Nat /\ bytes \in 1..4
        /\ \A x \in Indices : Target(n, x) \in Nat /\ Spot(n, dims, x) \in Nat
        /\ \A x \in Indices, r \in 0..bytes - 1 : dst(x) + r \in OutBytes /\ src(x) + r \in InBytes
        /\ \A a \in OutBytes : \E x \in Indices, r \in 0..bytes - 1 : a = dst(x) + r
        /\ \A x, y \in Indices : \A r, s \in 0..bytes - 1 : dst(x) + r = dst(y) + s => x = y /\ r = s
    <3> HIDE DEF n
    <3> QED BY <1>1, TransposePlaces
  <2>3. Bytewise = {<<dst(x) + r, src(x) + r>> : x \in Indices, r \in 0..bytes - 1}
    <3> HIDE DEF n
    <3> QED BY <1>1, TransposeMoves
  <2>4. /\ Count(out) = size /\ size \in Nat
        /\ \A x \in Indices, r \in 0..bytes - 1 : Address(out, Spot(n, dims, x) + r) = dst(x) + r
    <3> HIDE DEF n
    <3>1. size \in Nat
      BY <1>1, TransposeSize
    <3>2. Count(out) = size
      BY <1>1, <1>5, TransposeAddress
    <3>3. ASSUME NEW x \in Indices, NEW r \in 0..bytes - 1
          PROVE  Address(out, Spot(n, dims, x) + r) = dst(x) + r
      <4>1. Digit(n, dims, x)
        BY <2>2
      <4> QED BY <1>1, <1>5, <4>1, TransposeAddress
    <3> QED BY <3>1, <3>2, <3>3
  <2>5. /\ \A x \in Indices, r \in 0..bytes - 1 : Spot(n, dims, x) + r \in 0..size - 1
        /\ \A k \in 0..size - 1 : \E x \in Indices, r \in 0..bytes - 1 : k = Spot(n, dims, x) + r
    <3>1. dims \in [1..n -> Nat] /\ n \in Nat /\ bytes \in Nat
      BY <1>1, <2>2, TransposeSize
    <3> HIDE DEF n, dims
    <3>2. /\ \A x : Digit(n, dims, x) => \A r \in 0..bytes - 1 :
               Spot(n, dims, x) + r \in 0..bytes * Product(dims) - 1
          /\ \A k \in 0..bytes * Product(dims) - 1 : \E x : \E r \in 0..bytes - 1 :
               Digit(n, dims, x) /\ k = Spot(n, dims, x) + r
      BY <3>1, SpotsOfTensor
    <3> QED BY <2>2, <3>2 DEF dims
  <2>6. \A k \in 0..size - 1 : Address(in, k) = call.from + k
    <3>1. ChannelBits(Tensor1) \in {8, 16, 24} /\ (bytes * 8) % ChannelBits(Tensor1) = 0
      <4>1. bytes \in {1, 2, 3, 4}
        BY <2>2
      <4>2. Tensor1.bytes = bytes
        BY DEF Tensor1
      <4> QED BY <4>1, <4>2 DEF ChannelBits
    <3>2. size = Product(dims) * bytes /\ Product(dims) \in Nat /\ bytes \in Nat
      <4>1. Product(dims) \in Nat /\ bytes \in Nat
        BY <1>1 DEF TransposeFacts
      <4> DEFINE m == Product(dims)
      <4>2. m \in Nat /\ size = bytes * m
        BY <4>1
      <4> HIDE DEF m, size, bytes
      <4>3. size = m * bytes
        BY <4>1, <4>2
      <4> QED BY <4>1, <4>3 DEF m
    <3>3. (size * 8) % ChannelBits(Tensor1) = 0
      <4> HIDE DEF size, bytes, dims
      <4> QED BY <3>1, <3>2, ChannelsTimes
    <3>4. call.from \in Int /\ size \in Nat
      BY <2>2, <2>4
    <3> HIDE DEF size
    <3> QED BY <3>1, <3>3, <3>4, RawWhole
  <2>7. \A x \in Indices : dst(x) \in Int /\ src(x) \in Int
    BY <2>2
  <2>8. mem' = mem /\ Inserts("transfer", q)
    BY <1>5
  <2>9. \A x \in Indices, r \in 0..bytes - 1 : call.from + (Spot(n, dims, x) + r) = src(x) + r
    <3>1. ASSUME NEW x \in Indices, NEW r \in 0..bytes - 1
          PROVE  call.from + (Spot(n, dims, x) + r) = src(x) + r
      <4> DEFINE s == Spot(n, dims, x)
      <4>1. s \in Nat /\ call.from \in Nat
        BY <2>2
      <4> HIDE DEF s
      <4>2. call.from + (s + r) = call.from + s + r
        BY <4>1
      <4> QED BY <4>2 DEF s
    <3> QED BY <3>1
  <2> HIDE DEF q, in, out, dst, src, n, dims, size, bytes
  <2>10. ASSUME NEW f \in Bytewise
         PROVE  f[2] \in InBytes /\ \E k \in 0..Count(q.out) - 1 :
                                      f[1] = Address(q.out, k) /\ f[2] = Address(q.in, k)
    <3>1. PICK x \in Indices, r \in 0..bytes - 1 : f = <<dst(x) + r, src(x) + r>>
      BY <2>3
    <3> DEFINE k == Spot(n, dims, x) + r
    <3>2. k \in 0..size - 1
      BY <2>5
    <3>3. f[1] = Address(q.out, k)
      BY <2>1, <2>4, <3>1
    <3>4. f[2] = Address(q.in, k)
      BY <2>1, <2>6, <2>9, <3>1, <3>2
    <3>5. f[2] \in InBytes
      BY <2>2, <3>1
    <3> HIDE DEF k
    <3> QED BY <2>1, <2>4, <3>2, <3>3, <3>4, <3>5
  <2>11. ASSUME NEW a \in OutBytes
         PROVE  \E f \in Bytewise : f[1] = a
    <3>1. PICK x \in Indices, r \in 0..bytes - 1 : a = dst(x) + r
      BY <2>2
    <3>2. <<dst(x) + r, src(x) + r>> \in Bytewise
      BY <2>3
    <3> QED BY <3>1, <3>2
  <2>12. ASSUME NEW j \in 0..Count(q.out) - 1, NEW k \in 0..Count(q.out) - 1,
                Address(q.out, j) = Address(q.out, k)
         PROVE  j = k
    <3>1. j \in 0..size - 1 /\ k \in 0..size - 1 /\ Address(out, j) = Address(out, k)
      BY <2>1, <2>4, <2>12
    <3>2. PICK x \in Indices, r \in 0..bytes - 1 : j = Spot(n, dims, x) + r
      BY <2>5, <3>1
    <3>3. PICK y \in Indices, s \in 0..bytes - 1 : k = Spot(n, dims, y) + s
      BY <2>5, <3>1
    <3>4. dst(x) + r = dst(y) + s
      BY <2>4, <3>1, <3>2, <3>3
    <3>5. x = y /\ r = s
      BY <2>2, <3>4
    <3> QED BY <3>2, <3>3, <3>5
  <2>13. Count(q.out) \in Nat
    BY <2>1, <2>4
  <2> QED BY <1>1, <2>8, <2>10, <2>11, <2>12, <2>13, TransferInOneGo
<1> QED BY <1>2, <1>3, <1>4, <1>5

-----------------------------------------------------------------------------
(***************************************************************************)
(* Slices on the CPU, forward and backward.                                *)
(***************************************************************************)

(* A backward and a forward axis of a slice visit the index of each        *)
(* element of the output.                                                  *)
LEMMA SliceAxis ==
  ASSUME NEW a, call.start[a] \in Int, call.end[a] \in Int, call.step[a] \in Int \ {0},
         call.dims[a] \in Nat, call.shape[a] \in Nat \ {0}, Reaches(a), NEW y \in 0..call.shape[a] - 1
  PROVE  LET x == call.start[a] + y * call.step[a]
         IN  x \in 0..call.dims[a] - 1 /\ x \in Visited(a) /\ InSlice(a, x) /\ SliceIndex(a, x) = y
<1> DEFINE start == call.start[a]
           end == call.end[a]
           step == call.step[a]
           m == call.shape[a]
           x == start + y * step
           last == start + (m - 1) * step
<1>0. /\ start \in Int /\ end \in Int /\ step \in Int \ {0} /\ m \in Nat \ {0} /\ call.dims[a] \in Nat
      /\ y \in 0..m - 1
      /\ start \in 0..call.dims[a] - 1 /\ last \in 0..call.dims[a] - 1
      /\ IF step > 0 THEN last < end ELSE last > end /\ (end >= 0 \/ (end = -1 /\ m = 1))
  BY DEF Reaches
<1>1. CASE step > 0
  <2>1. step \in Nat \ {0} /\ y \in Nat /\ m - 1 \in Nat /\ y <= m - 1
    BY <1>0, <1>1
  <2>2. y * step <= (m - 1) * step /\ y * step \in Nat
    <3> HIDE DEF step, m
    <3> QED BY <2>1, ProductMonotone, ProductNat
  <2>3. (y * step + 0) \div step = y
    <3>1. step \in Nat /\ y \in Int /\ 0 \in 0..step - 1
      BY <2>1
    <3> HIDE DEF step
    <3> QED BY <3>1, QuotientAndRest
  <2> DEFINE k == y * step
             l == (m - 1) * step
  <2>4. /\ x = start + k /\ last = start + l /\ k \in Nat /\ k <= l /\ k \div step = y /\ l \in Int
    BY <2>1, <2>2, <2>3
  <2> HIDE DEF k, l, x
  <2>5. x \in 0..call.dims[a] - 1 /\ x \in start..end - 1 /\ x - start = k
    BY <1>0, <1>1, <2>4
  <2>6. SliceIndex(a, x) = y
    <3>1. SliceIndex(a, x) = (x - start) \div step
      BY <1>1 DEF SliceIndex
    <3> QED BY <2>4, <2>5, <3>1
  <2>7. x \in Visited(a)
    BY <1>1, <2>5 DEF Visited
  <2>8. SliceIndex(a, x) * step = x - start
    BY <2>5, <2>6 DEF k
  <2>9. InSlice(a, x)
    BY <1>1, <2>5, <2>8 DEF InSlice
  <2> QED BY <2>5, <2>6, <2>7, <2>9 DEF x
<1>2. CASE ~(step > 0)
  <2> DEFINE back == -step
  <2>1. back \in Nat \ {0} /\ y \in Nat /\ m - 1 \in Nat /\ y <= m - 1 /\ step = -back
    <3>1. back \in Nat \ {0} /\ step = -back
      <4> HIDE DEF step
      <4> QED BY <1>0, <1>2
    <3>2. y \in Nat /\ m - 1 \in Nat /\ y <= m - 1
      <4> HIDE DEF m
      <4> QED BY <1>0
    <3> QED BY <3>1, <3>2
  <2> HIDE DEF back
  <2>2. y * back <= (m - 1) * back /\ y * back \in Nat
    <3> HIDE DEF m
    <3> QED BY <2>1, ProductMonotone, ProductNat
  <2>3. (y * back + 0) \div back = y
    <3>1. back \in Nat /\ y \in Int /\ 0 \in 0..back - 1
      BY <2>1
    <3> QED BY <3>1, QuotientAndRest
  <2>10. y * step = -(y * back) /\ (m - 1) * step = -((m - 1) * back)
    <3> HIDE DEF step
    <3>1. \A z \in Int : z * step = -(z * back)
      BY <2>1
    <3>2. y \in Int /\ m - 1 \in Int
      BY <2>1
    <3> QED BY <3>1, <3>2
  <2> DEFINE k == y * back
             l == (m - 1) * back
  <2>4. /\ x = start - k /\ last = start - l /\ k \in Nat /\ k <= l /\ k \div back = y /\ l \in Int
    <3>1. k \in Nat /\ l \in Int /\ k <= l
      BY <2>1, <2>2
    <3>2. y * step = -k /\ (m - 1) * step = -l
      BY <2>10
    <3>3. k \div back = y
      BY <2>1, <2>2, <2>3
    <3> HIDE DEF k, l
    <3> QED BY <1>0, <3>1, <3>2, <3>3
  <2>11. y = 0 \/ m # 1
    BY <1>0
  <2>12. y = 0 => k = 0
    BY <2>1
  <2> HIDE DEF k, l, x
  <2>5. x \in 0..call.dims[a] - 1 /\ x \in end + 1..start /\ start - x = k /\ (y = 0 => x = start)
    BY <1>0, <1>2, <2>4, <2>12
  <2>6. SliceIndex(a, x) = y
    <3>1. SliceIndex(a, x) = (start - x) \div back
      BY <1>2 DEF SliceIndex, back
    <3> QED BY <2>4, <2>5, <3>1
  <2>7. x \in Visited(a)
    <3>1. Visited(a) = {start} \cup IF end < 0 THEN {} ELSE end + 1..start
      BY <1>2 DEF Visited
    <3>2. CASE y = 0
      BY <2>5, <3>1, <3>2
    <3>3. CASE y # 0
      BY <1>0, <1>2, <2>5, <2>11, <3>1, <3>3
    <3> QED BY <3>2, <3>3
  <2>8. SliceIndex(a, x) * step = x - start
    <3>1. y * step = -k
      BY <2>10 DEF k
    <3>2. -k = x - start
      BY <1>0, <2>4, <2>5
    <3> QED BY <2>6, <3>1, <3>2
  <2>13. end + 1 >= 0
    BY <1>0, <1>2
  <2>9. InSlice(a, x)
    <3>1. x \in end + 1..start
      BY <2>5
    <3>2. SliceIndex(a, x) * call.step[a] = x - call.start[a]
      BY <2>8
    <3> QED BY <1>2, <2>13, <3>1, <3>2 DEF InSlice
  <2> QED BY <2>5, <2>6, <2>7, <2>9 DEF x
<1> QED BY <1>1, <1>2

(* What the software slice finds in a call that it does.                   *)
SliceFacts(n) ==
  /\ n \in Nat \ {0} /\ Len(call.dims) = n /\ DOMAIN call.dims = 1..n
  /\ call.dims \in [1..n -> Nat \ {0}] /\ call.shape \in [1..n -> Nat \ {0}]
  /\ call.start \in [1..n -> Int] /\ call.end \in [1..n -> Int]
  /\ call.step \in [1..n -> Int \ {0}]
  /\ call.bytes \in 1..4 /\ call.to \in Nat /\ call.from \in Nat
  /\ \A a \in 1..n : /\ Reaches(a)
                     /\ IF call.step[a] > 0
                        THEN call.start[a] + call.shape[a] * call.step[a] >= call.end[a]
                        ELSE call.start[a] + call.shape[a] * call.step[a] <= call.end[a]

(* The indexes of an element of the output and of its source.              *)
Sliced(n, x) == [a \in 1..n |-> SliceIndex(a, x[a])]
Sampled(n, y) == [a \in 1..n |-> call.start[a] + y[a] * call.step[a]]
Kept(n) ==
  {x \in [1..n -> UNION {Visited(a) : a \in 1..n}] :
     \A a \in 1..n : x[a] \in Visited(a) /\ InSlice(a, x[a])}

(* The facts hold of a call whose ranks agree.                             *)
LEMMA SliceTyped ==
  ASSUME SwSliceIsGiven(call), Len(call.shape) = Len(call.dims),
         \A a \in DOMAIN call.dims : Reaches(a)
  PROVE  SliceFacts(Len(call.dims))
<1> DEFINE n == Len(call.dims)
<1>1. /\ n \in Nat /\ DOMAIN call.dims = 1..n
      /\ call.start \in [1..n -> Int] /\ call.end \in [1..n -> Int]
      /\ call.step \in [1..n -> Int \ {0}]
      /\ call.bytes \in 1..4 /\ call.to \in Nat
      /\ call.shape \in [1..n -> Nat \ {0}]
  BY SwSliceTyped, Zenon
<1>2. n \in Nat \ {0} /\ call.dims \in [1..n -> Nat \ {0}]
  <2>1. call.dims \in Sizes
    BY DEF SwSliceIsGiven
  <2> QED BY <2>1, ListElements DEF Sizes
<1>3. call.from \in Nat
  BY DEF SwSliceIsGiven
<1>4. \A a \in 1..n : IF call.step[a] > 0
                      THEN call.start[a] + call.shape[a] * call.step[a] >= call.end[a]
                      ELSE call.start[a] + call.shape[a] * call.step[a] <= call.end[a]
  BY <1>1 DEF SwSliceIsGiven
<1> HIDE DEF n
<1> QED BY <1>1, <1>2, <1>3, <1>4, Zenon DEF SliceFacts, n

(* The loops keep exactly the sources of the elements of the output.       *)
LEMMA SampledIsKept ==
  ASSUME NEW n, SliceFacts(n), NEW y, Digit(n, call.shape, y)
  PROVE  /\ Digit(n, call.dims, Sampled(n, y))
         /\ Sampled(n, y) \in Kept(n) /\ Sliced(n, Sampled(n, y)) = y
<1> DEFINE x == Sampled(n, y)
<1>1. y \in [1..n -> Nat] /\ \A a \in 1..n : y[a] < call.shape[a]
  BY DEF Digit
<1>2. ASSUME NEW a \in 1..n
      PROVE  x[a] \in 0..call.dims[a] - 1 /\ x[a] \in Visited(a) /\ InSlice(a, x[a])
             /\ SliceIndex(a, x[a]) = y[a]
  <2>1. /\ call.start[a] \in Int /\ call.end[a] \in Int /\ call.step[a] \in Int \ {0}
        /\ call.dims[a] \in Nat /\ call.shape[a] \in Nat \ {0} /\ Reaches(a)
    BY DEF SliceFacts
  <2>2. y[a] \in 0..call.shape[a] - 1
    BY <1>1, <2>1
  <2>3. x[a] = call.start[a] + y[a] * call.step[a]
    BY DEF Sampled
  <2> QED BY <2>1, <2>2, <2>3, SliceAxis
<1>3. DOMAIN x = 1..n /\ x = [a \in 1..n |-> x[a]]
  BY DEF Sampled
<1>4. x \in [1..n -> Nat] /\ \A a \in 1..n : x[a] < call.dims[a]
  <2>1. \A a \in 1..n : call.dims[a] \in Nat
    BY DEF SliceFacts
  <2> HIDE DEF x
  <2>2. \A a \in 1..n : x[a] \in Nat /\ x[a] < call.dims[a]
    BY <1>2, <2>1
  <2> QED BY <1>3, <2>2
<1> HIDE DEF x
<1>5. x \in Kept(n)
  BY <1>2, <1>3 DEF Kept
<1>6. Sliced(n, x) = y
  BY <1>1, <1>2 DEF Sliced
<1> QED BY <1>4, <1>5, <1>6 DEF Digit, x

(* and nothing else                                                        *)
LEMMA KeptIsSampled ==
  ASSUME NEW n, SliceFacts(n), NEW x \in Kept(n)
  PROVE  Digit(n, call.shape, Sliced(n, x)) /\ x = Sampled(n, Sliced(n, x))
<1> DEFINE y == Sliced(n, x)
<1>1. ASSUME NEW a \in 1..n
      PROVE  y[a] \in Nat /\ y[a] < call.shape[a] /\ x[a] = call.start[a] + y[a] * call.step[a]
  <2>1. x[a] \in Visited(a) /\ InSlice(a, x[a])
    BY DEF Kept
  <2>2. /\ call.start[a] \in Int /\ call.end[a] \in Int /\ call.step[a] \in Int \ {0}
        /\ call.shape[a] \in Nat
        /\ IF call.step[a] > 0 THEN call.start[a] + call.shape[a] * call.step[a] >= call.end[a]
                               ELSE call.start[a] + call.shape[a] * call.step[a] <= call.end[a]
    BY DEF SliceFacts
  <2>3. x[a] \in Int
    BY <2>1, <2>2 DEF Visited
  <2>4. SliceIndex(a, x[a]) \in Nat /\ SliceIndex(a, x[a]) < call.shape[a]
    BY <2>1, <2>2, <2>3, SliceIndexInside
  <2>5. SliceIndex(a, x[a]) * call.step[a] = x[a] - call.start[a]
    BY <2>1 DEF InSlice
  <2>6. y[a] = SliceIndex(a, x[a])
    BY DEF Sliced
  <2> DEFINE k == y[a] * call.step[a]
  <2>7. k = x[a] - call.start[a]
    BY <2>5, <2>6
  <2> HIDE DEF k
  <2>8. x[a] = call.start[a] + k
    BY <2>2, <2>3, <2>7
  <2> QED BY <2>4, <2>6, <2>8 DEF k
<1>2. y = [a \in 1..n |-> y[a]] /\ x = [a \in 1..n |-> x[a]]
  BY DEF Sliced, Kept
<1> HIDE DEF y
<1>3. y \in [1..n -> Nat]
  BY <1>1, <1>2
<1>4. x = Sampled(n, y)
  BY <1>1, <1>2 DEF Sampled
<1> QED BY <1>1, <1>3, <1>4 DEF Digit, y

(* The bytes that a slice has to move.                                     *)
LEMMA SwSliceMoves ==
  ASSUME NEW n, SliceFacts(n), call.op = "SwSlice"
  PROVE  Bytewise = {<<call.to + Spot(n, call.shape, y) + r,
                       call.from + Spot(n, call.dims, Sampled(n, y)) + r>> :
                       y \in IndicesOf(call.shape), r \in 0..call.bytes - 1}
<1> DEFINE Ix == IndicesOf(call.shape)
           at(d, x) == Total([i \in DOMAIN x |-> Stride(d, i) * x[i]])
           over(y) == [i \in DOMAIN y |-> call.start[i] + y[i] * call.step[i]]
           dst(y) == call.to + Spot(n, call.shape, y)
           src(y) == call.from + Spot(n, call.dims, Sampled(n, y))
<1>1. Moves = {<<call.to + at(call.shape, y), call.from + at(call.dims, over(y))>> : y \in Ix}
  BY DEF Moves
<1>2. /\ n \in Nat \ {0} /\ call.dims \in [1..n -> Nat] /\ call.shape \in [1..n -> Nat]
      /\ call.bytes \in Nat
  <2>1. /\ n \in Nat \ {0} /\ call.dims \in [1..n -> Nat \ {0}]
        /\ call.shape \in [1..n -> Nat \ {0}] /\ call.bytes \in 1..4
    BY Zenon DEF SliceFacts
  <2> QED BY <2>1
<1>3. ASSUME NEW y \in Ix
      PROVE  call.to + at(call.shape, y) = dst(y) /\ call.from + at(call.dims, over(y)) = src(y)
  <2>1. DOMAIN y = 1..n
    BY <1>2, IndexIsDigit DEF Digit
  <2>2. over(y) = Sampled(n, y) /\ DOMAIN Sampled(n, y) = 1..n
    BY <2>1 DEF Sampled
  <2>3. ASSUME NEW d, d \in [1..n -> Nat], NEW x, DOMAIN x = 1..n
        PROVE  at(d, x) = Spot(n, d, x)
    <3>1. Spot(n, d, x) = Total([i \in 1..n |-> Stride(d, i) * x[i]])
      BY <1>2, <2>3, TensorRadix
    <3>2. at(d, x) = Total([i \in 1..n |-> Stride(d, i) * x[i]])
      BY <2>3, Zenon
    <3> QED BY <3>1, <3>2
  <2>4. /\ at(call.shape, y) = Spot(n, call.shape, y)
        /\ at(call.dims, Sampled(n, y)) = Spot(n, call.dims, Sampled(n, y))
    <3> HIDE DEF at
    <3> QED BY <1>2, <2>1, <2>2, <2>3
  <2> QED BY <2>2, <2>3, <2>4
<1> HIDE DEF at, over, dst, src
<1>4. Moves = {<<dst(y), src(y)>> : y \in Ix}
  BY <1>1, <1>3
<1>5. ElementBytes = call.bytes
  BY DEF ElementBytes, Elementwise
<1>6. ASSUME NEW f \in Bytewise
      PROVE  \E y \in Ix, r \in 0..call.bytes - 1 : f = <<dst(y) + r, src(y) + r>>
  <2>1. PICK m \in Moves : \E r \in 0..call.bytes - 1 : f = <<m[1] + r, m[2] + r>>
    BY <1>5 DEF Bytewise
  <2>2. PICK y \in Ix : m = <<dst(y), src(y)>>
    BY <1>4
  <2> QED BY <2>1, <2>2
<1>7. ASSUME NEW y \in Ix, NEW r \in 0..call.bytes - 1
      PROVE  <<dst(y) + r, src(y) + r>> \in Bytewise
  <2> DEFINE m == <<dst(y), src(y)>>
  <2>1. m \in Moves
    BY <1>4
  <2>2. <<m[1] + r, m[2] + r>> \in Bytewise
    <3> HIDE DEF m
    <3> QED BY <1>5, <2>1 DEF Bytewise
  <2> QED BY <2>2
<1>8. Bytewise = {<<dst(y) + r, src(y) + r>> : y \in Ix, r \in 0..call.bytes - 1}
  <2> HIDE DEF Ix
  <2> QED BY <1>6, <1>7
<1> QED BY <1>8 DEF dst, src

(* Where the elements of a slice are, in the input and the output.         *)
LEMMA SlicePlaces ==
  ASSUME NEW n, SliceFacts(n), call.op = "SwSlice"
  PROVE  LET dst(y) == call.to + Spot(n, call.shape, y)
             src(y) == call.from + Spot(n, call.dims, Sampled(n, y))
             Ix == IndicesOf(call.shape)
         IN  /\ \A y \in Ix : dst(y) \in Int /\ src(y) \in Int
             /\ \A y \in Ix, r \in 0..call.bytes - 1 : dst(y) + r \in OutBytes /\ src(y) + r \in InBytes
             /\ \A a \in OutBytes : \E y \in Ix, r \in 0..call.bytes - 1 : a = dst(y) + r
             /\ \A x, y \in Ix : \A r, s \in 0..call.bytes - 1 :
                  dst(x) + r = dst(y) + s => x = y /\ r = s
<1> DEFINE Ix == IndicesOf(call.shape)
           S(y) == Spot(n, call.shape, y)
           Q(y) == Spot(n, call.dims, Sampled(n, y))
           dst(y) == call.to + S(y)
           src(y) == call.from + Q(y)
           bytes == call.bytes
           out == call.bytes * Product(call.shape)
           in == call.bytes * Product(call.dims)
           to == call.to
           from == call.from
<1>1. /\ n \in Nat \ {0} /\ call.dims \in [1..n -> Nat] /\ call.shape \in [1..n -> Nat]
      /\ bytes \in Nat \ {0} /\ to \in Nat /\ from \in Nat
  <2>1. /\ n \in Nat \ {0} /\ call.dims \in [1..n -> Nat \ {0}]
        /\ call.shape \in [1..n -> Nat \ {0}] /\ bytes \in 1..4 /\ to \in Nat /\ from \in Nat
    BY Zenon DEF SliceFacts
  <2> HIDE DEF bytes, to, from
  <2> QED BY <2>1
<1>2. \A y : y \in Ix <=> Digit(n, call.shape, y)
  BY <1>1, IndexIsDigit
<1>3. /\ \A y \in Ix : \A r \in 0..bytes - 1 : S(y) \in Nat /\ S(y) + r \in 0..out - 1
      /\ \A x, y \in Ix : \A r, s \in 0..bytes - 1 : S(x) + r = S(y) + s => x = y /\ r = s
      /\ \A k \in 0..out - 1 : \E y \in Ix : \E r \in 0..bytes - 1 : k = S(y) + r
  <2>1. n \in Nat /\ call.bytes \in Nat
    BY <1>1
  <2>2. /\ \A x : Digit(n, call.shape, x) => \A r \in 0..call.bytes - 1 :
              Spot(n, call.shape, x) \in Nat /\ Spot(n, call.shape, x) + r \in 0..call.bytes * Product(call.shape) - 1
        /\ \A x, y : Digit(n, call.shape, x) /\ Digit(n, call.shape, y) => \A r, s \in 0..call.bytes - 1 :
              Spot(n, call.shape, x) + r = Spot(n, call.shape, y) + s => x = y /\ r = s
        /\ \A k \in 0..call.bytes * Product(call.shape) - 1 : \E x : \E r \in 0..call.bytes - 1 :
              Digit(n, call.shape, x) /\ k = Spot(n, call.shape, x) + r
    BY <1>1, <2>1, SpotsOfTensor
  <2> HIDE DEF Ix
  <2> QED BY <1>2, <2>2
<1>4. \A y \in Ix : \A r \in 0..bytes - 1 : Q(y) \in Nat /\ Q(y) + r \in 0..in - 1
  <2>1. n \in Nat /\ call.bytes \in Nat
    BY <1>1
  <2>2. \A y \in Ix : Digit(n, call.dims, Sampled(n, y))
    BY <1>2, SampledIsKept
  <2>3. \A x : Digit(n, call.dims, x) => \A r \in 0..call.bytes - 1 :
           Spot(n, call.dims, x) \in Nat /\ Spot(n, call.dims, x) + r \in 0..call.bytes * Product(call.dims) - 1
    BY <1>1, <2>1, SpotsOfTensor
  <2> HIDE DEF Ix
  <2> QED BY <2>2, <2>3
<1>5. out \in Nat /\ in \in Nat
  BY <1>1, ProductIsNat, ProductNat
<1>6. OutBytes = to .. to - 1 + out /\ InBytes = from .. from - 1 + in
  BY DEF OutBytes, InBytes, Elementwise
<1> HIDE DEF Ix, S, Q, out, in, to, from, bytes
<1>7. 0 \in 0..bytes - 1
  BY <1>1
<1>8. ASSUME NEW y \in Ix, NEW r \in 0..bytes - 1
      PROVE  /\ to + S(y) \in Int /\ from + Q(y) \in Int
             /\ to + S(y) + r \in OutBytes /\ from + Q(y) + r \in InBytes
  <2>1. S(y) \in Nat /\ S(y) + r \in 0..out - 1 /\ Q(y) \in Nat /\ Q(y) + r \in 0..in - 1
    BY <1>3, <1>4
  <2> DEFINE s == S(y)
             q == Q(y)
  <2> HIDE DEF s, q
  <2>2. s \in Nat /\ s + r \in 0..out - 1 /\ q \in Nat /\ q + r \in 0..in - 1
    BY <2>1 DEF s, q
  <2>3. /\ to + s \in Int /\ from + q \in Int
        /\ to + s + r \in to .. to - 1 + out /\ from + q + r \in from .. from - 1 + in
    BY <1>1, <1>5, <2>2
  <2> QED BY <1>6, <2>3 DEF s, q
<1>9. ASSUME NEW a \in OutBytes
      PROVE  \E y \in Ix, r \in 0..bytes - 1 : a = to + S(y) + r
  <2>1. a - to \in 0..out - 1 /\ a \in Int
    BY <1>1, <1>5, <1>6
  <2>2. PICK y \in Ix : \E r \in 0..bytes - 1 : a - to = S(y) + r
    BY <1>3, <2>1
  <2>3. PICK r \in 0..bytes - 1 : a - to = S(y) + r
    BY <2>2
  <2>4. S(y) \in Nat
    BY <1>3, <2>3
  <2> DEFINE s == S(y)
  <2> HIDE DEF s
  <2>5. a = to + s + r
    <3>1. s \in Nat /\ a - to = s + r
      BY <2>3, <2>4 DEF s
    <3> QED BY <1>1, <2>1, <3>1
  <2> QED BY <2>5 DEF s
<1>10. ASSUME NEW x \in Ix, NEW y \in Ix, NEW r \in 0..bytes - 1, NEW s \in 0..bytes - 1,
              to + S(x) + r = to + S(y) + s
       PROVE  x = y /\ r = s
  <2>1. S(x) \in Nat /\ S(y) \in Nat
    BY <1>3
  <2> DEFINE t == S(x)
             u == S(y)
  <2> HIDE DEF t, u
  <2>2. /\ to \in Int /\ t \in Int /\ u \in Int /\ r \in Int /\ s \in Int
        /\ to + t + r = to + u + s
    BY <1>1, <1>10, <2>1 DEF t, u
  <2>3. t + r = u + s
    BY <2>2
  <2> QED BY <1>3, <2>3 DEF t, u
<1>11. \A y \in Ix : to + S(y) \in Int /\ from + Q(y) \in Int
  BY <1>7, <1>8
<1>12. \A y \in Ix, r \in 0..bytes - 1 : to + S(y) + r \in OutBytes /\ from + Q(y) + r \in InBytes
  BY <1>8
<1>13. \A a \in OutBytes : \E y \in Ix, r \in 0..bytes - 1 : a = to + S(y) + r
  BY <1>9
<1>14. \A x, y \in Ix : \A r, s \in 0..bytes - 1 : to + S(x) + r = to + S(y) + s => x = y /\ r = s
  BY <1>10
<1> QED BY <1>11, <1>12, <1>13, <1>14 DEF Ix, S, Q, to, from, bytes

(* The software slice that its ranks allow, on the CPU.                    *)
LEMMA SwSliceExact ==
  ASSUME Safe, InOneGo, Apart, SwSlice,
         Len(call.shape) = Len(call.dims) => \A a \in DOMAIN call.dims : Reaches(a)
  PROVE  InOneGo'
<1> DEFINE axes == DOMAIN call.dims
           n == Len(call.dims)
           Ix == IndicesOf(call.shape)
           dst(y) == call.to + Spot(n, call.shape, y)
           src(y) == call.from + Spot(n, call.dims, Sampled(n, y))
           at(t, dims, x) == t + Total([a \in axes |-> Stride(dims, a) * x[a]])
           kept == {x \in [axes -> UNION {Visited(a) : a \in axes}] :
                      \A a \in axes : x[a] \in Visited(a) /\ InSlice(a, x[a])}
           pairs == {[dst |-> at(call.to, call.shape, [a \in axes |-> SliceIndex(a, x[a])]),
                      src |-> at(call.from, call.dims, x), n |-> call.bytes] : x \in kept}
           bytes == call.bytes
           copies == {[dst |-> dst(y), src |-> src(y), n |-> bytes] : y \in Ix}
<1>1. pc = "call" /\ call.op = "SwSlice" /\ SwSliceIsGiven(call)
  BY CallIsGiven DEF SwSlice, Safe
<1>2. \/ Rejects
      \/ Len(call.shape) = Len(call.dims) /\ Returns(Copied(mem, pairs))
  BY Zenon DEF SwSlice
<1>3. CASE Rejects
  BY <1>1, <1>3, RejectsInOneGo
<1>4. CASE Len(call.shape) = Len(call.dims) /\ Returns(Copied(mem, pairs))
  <2>1. SliceFacts(n)
    BY <1>1, <1>4, SliceTyped
  <2>2. /\ n \in Nat \ {0} /\ axes = 1..n /\ call.dims \in [1..n -> Nat] /\ call.shape \in [1..n -> Nat]
        /\ bytes \in Nat
    <3>1. /\ n \in Nat \ {0} /\ axes = 1..n /\ call.dims \in [1..n -> Nat \ {0}]
          /\ call.shape \in [1..n -> Nat \ {0}] /\ bytes \in 1..4
      BY <2>1, Zenon DEF SliceFacts
    <3> HIDE DEF n, axes, bytes
    <3> QED BY <3>1
  <2>3. \A y : y \in Ix <=> Digit(n, call.shape, y)
    <3> HIDE DEF n
    <3> QED BY <2>2, IndexIsDigit
  <2>4. pairs = copies
    <3>1. kept = Kept(n)
      BY <2>2 DEF Kept
    <3>2. ASSUME NEW x, DOMAIN x = 1..n, NEW d, d \in [1..n -> Nat], NEW t
          PROVE  at(t, d, x) = t + Spot(n, d, x)
      <4>1. Spot(n, d, x) = Total([a \in 1..n |-> Stride(d, a) * x[a]])
        <5> HIDE DEF n
        <5> QED BY <2>2, <3>2, TensorRadix
      <4> QED BY <2>2, <4>1
    <3>3. \A x : [a \in axes |-> SliceIndex(a, x[a])] = Sliced(n, x) /\ DOMAIN Sliced(n, x) = 1..n
      BY <2>2 DEF Sliced
    <3>4. \A x \in Kept(n) : DOMAIN x = 1..n
      BY DEF Kept
    <3> HIDE DEF kept, at, n, bytes, axes, Ix
    <3>5. ASSUME NEW x \in Kept(n)
          PROVE  /\ Sliced(n, x) \in Ix
                 /\ at(call.to, call.shape, [a \in axes |-> SliceIndex(a, x[a])]) = dst(Sliced(n, x))
                 /\ at(call.from, call.dims, x) = src(Sliced(n, x))
      <4>1. Digit(n, call.shape, Sliced(n, x)) /\ x = Sampled(n, Sliced(n, x))
        BY <2>1, KeptIsSampled
      <4> QED BY <2>2, <2>3, <3>2, <3>3, <3>4, <4>1
    <3>6. ASSUME NEW y \in Ix
          PROVE  Sampled(n, y) \in Kept(n) /\ Sliced(n, Sampled(n, y)) = y
      BY <2>1, <2>3, SampledIsKept
    <3> HIDE DEF dst, src
    <3>7. pairs \subseteq copies
      <4>1. ASSUME NEW c \in pairs
            PROVE  c \in copies
        <5>1. PICK x \in Kept(n) :
                c = [dst |-> at(call.to, call.shape, [a \in axes |-> SliceIndex(a, x[a])]),
                     src |-> at(call.from, call.dims, x), n |-> call.bytes]
          BY <3>1
        <5>2. c = [dst |-> dst(Sliced(n, x)), src |-> src(Sliced(n, x)), n |-> bytes]
          BY <3>5, <5>1 DEF bytes
        <5> QED BY <3>5, <5>2
      <4> QED BY <4>1
    <3>8. copies \subseteq pairs
      <4>1. ASSUME NEW c \in copies
            PROVE  c \in pairs
        <5>1. PICK y \in Ix : c = [dst |-> dst(y), src |-> src(y), n |-> bytes]
          OBVIOUS
        <5> DEFINE x == Sampled(n, y)
        <5>2. x \in Kept(n) /\ Sliced(n, x) = y
          BY <3>6
        <5> HIDE DEF x
        <5>3. c = [dst |-> at(call.to, call.shape, [a \in axes |-> SliceIndex(a, x[a])]),
                   src |-> at(call.from, call.dims, x), n |-> call.bytes]
          BY <3>5, <5>1, <5>2 DEF bytes
        <5> QED BY <3>1, <5>2, <5>3
      <4> QED BY <4>1
    <3> QED BY <3>7, <3>8
  <2>5. /\ \A y \in Ix : dst(y) \in Int /\ src(y) \in Int
        /\ \A y \in Ix, r \in 0..bytes - 1 : dst(y) + r \in OutBytes /\ src(y) + r \in InBytes
        /\ \A a \in OutBytes : \E y \in Ix, r \in 0..bytes - 1 : a = dst(y) + r
        /\ \A x, y \in Ix : \A r, s \in 0..bytes - 1 : dst(x) + r = dst(y) + s => x = y /\ r = s
    <3> HIDE DEF n
    <3> QED BY <1>1, <2>1, SlicePlaces
  <2>6. Bytewise = {<<dst(y) + r, src(y) + r>> : y \in Ix, r \in 0..bytes - 1}
    <3> HIDE DEF n
    <3> QED BY <1>1, <2>1, SwSliceMoves
  <2> HIDE DEF pairs
  <2>7. Returns(Copied(mem, copies))
    BY <1>4, <2>4
  <2>8. Holds(CpuView(Copied(mem, copies)))
    <3> DEFINE to == [y \in Ix |-> dst(y)]
               from == [y \in Ix |-> src(y)]
    <3> HIDE DEF dst, src, bytes, Ix
    <3>1. \A y \in Ix : to[y] = dst(y) /\ from[y] = src(y)
      OBVIOUS
    <3>2. to \in [Ix -> Int] /\ from \in [Ix -> Int]
      BY <2>5
    <3>3. copies = {[dst |-> to[y], src |-> from[y], n |-> bytes] : y \in Ix}
      BY <3>1
    <3> HIDE DEF copies
    <3>4. \A f \in Bytewise : \E y \in Ix : \E r \in 0..bytes - 1 : f = <<to[y] + r, from[y] + r>>
      <4>1. ASSUME NEW f \in Bytewise
            PROVE  \E y \in Ix : \E r \in 0..bytes - 1 : f = <<to[y] + r, from[y] + r>>
        <5>1. PICK y \in Ix, r \in 0..bytes - 1 : f = <<dst(y) + r, src(y) + r>>
          BY <2>6
        <5> QED BY <3>1, <5>1
      <4> QED BY <4>1
    <3>9. \A y \in Ix : \A r \in 0..bytes - 1 : <<to[y] + r, from[y] + r>> \in Bytewise
      BY <2>6, <3>1
    <3> HIDE DEF to, from
    <3>5. \A y \in Ix : \A r \in 0..bytes - 1 : to[y] + r \in OutBytes /\ from[y] + r \in InBytes
      BY <2>5, <3>1
    <3>6. \A a \in OutBytes : \E y \in Ix : \E r \in 0..bytes - 1 : a = to[y] + r
      <4>1. ASSUME NEW a \in OutBytes
            PROVE  \E y \in Ix : \E r \in 0..bytes - 1 : a = to[y] + r
        <5>1. PICK y \in Ix, r \in 0..bytes - 1 : a = dst(y) + r
          BY <2>5
        <5> QED BY <3>1, <5>1
      <4> QED BY <4>1
    <3>7. \A x, y \in Ix : \A r, s \in 0..bytes - 1 : to[x] + r = to[y] + s => x = y /\ r = s
      <4>1. ASSUME NEW x \in Ix, NEW y \in Ix, NEW r \in 0..bytes - 1, NEW s \in 0..bytes - 1,
                   to[x] + r = to[y] + s
            PROVE  x = y /\ r = s
        <5>1. dst(x) + r = dst(y) + s
          BY <3>1, <4>1
        <5> QED BY <2>5, <5>1
      <4> QED BY <4>1
    <3>8. bytes \in Nat
      BY <2>2
    <3> HIDE DEF Ix
    <3>10. ElementCopies(Ix, to, from, bytes, copies)
      BY <3>2, <3>3, <3>4, <3>9, <3>5, <3>6, <3>7, <3>8, Zenon DEF ElementCopies
    <3> QED BY <3>10, ElementsAreResult
  <2> QED BY <1>1, <2>7, <2>8, ReturnsInOneGo
<1> QED BY <1>2, <1>3, <1>4

-----------------------------------------------------------------------------
(***************************************************************************)
(* Numbers of five digits, cut at one of them.                             *)
(***************************************************************************)

(* A number of several digits, cut at the digit u: v is u times the size q *)
(* of what follows, and a rest.                                            *)
CutAt(u, q, rest, v) == q \in Nat \ {0} /\ rest \in 0..q - 1 /\ v = u * q + rest

(* Another digit at the end makes the rest one digit longer.               *)
LEMMA NextDigit ==
  ASSUME NEW u \in Int, NEW q, NEW rest, NEW v, CutAt(u, q, rest, v),
         NEW size \in Nat \ {0}, NEW digit \in 0..size - 1
  PROVE  CutAt(u, q * size, rest * size + digit, v * size + digit)
<1>1. q \in Nat \ {0} /\ rest \in 0..q - 1 /\ v = u * q + rest
  BY DEF CutAt
<1>2. rest * size + digit \in 0..q * size - 1
  BY <1>1, RowBound
<1>3. q * size \in Nat \ {0}
  BY <1>1, ProductNat
<1>4. (u * q + rest) * size + digit = u * (q * size) + (rest * size + digit)
  BY <1>1
<1> QED BY <1>1, <1>2, <1>3, <1>4 DEF CutAt

(* A number with nothing after the cut.                                    *)
LEMMA FirstDigit ==
  ASSUME NEW u \in Int
  PROVE  CutAt(u, 1, 0, u)
BY DEF CutAt

(* Five digits x in the sizes s: their number; the digits before a, the    *)
(* digits after it, and their sizes.                                       *)
Horner(s, x) == (((x[1] * s[2] + x[2]) * s[3] + x[3]) * s[4] + x[4]) * s[5] + x[5]
OuterSize(s, a) ==
  CASE a = 1 -> 1 [] a = 2 -> s[1] [] a = 3 -> s[1] * s[2] [] a = 4 -> s[1] * s[2] * s[3]
    [] a = 5 -> s[1] * s[2] * s[3] * s[4]
InnerSize(s, a) ==
  CASE a = 1 -> 1 * s[2] * s[3] * s[4] * s[5] [] a = 2 -> 1 * s[3] * s[4] * s[5]
    [] a = 3 -> 1 * s[4] * s[5] [] a = 4 -> 1 * s[5] [] a = 5 -> 1
HighPart(s, x, a) ==
  CASE a = 1 -> 0 [] a = 2 -> x[1] [] a = 3 -> x[1] * s[2] + x[2]
    [] a = 4 -> (x[1] * s[2] + x[2]) * s[3] + x[3]
    [] a = 5 -> ((x[1] * s[2] + x[2]) * s[3] + x[3]) * s[4] + x[4]
LowPart(s, x, a) ==
  CASE a = 1 -> (((0 * s[2] + x[2]) * s[3] + x[3]) * s[4] + x[4]) * s[5] + x[5]
    [] a = 2 -> ((0 * s[3] + x[3]) * s[4] + x[4]) * s[5] + x[5]
    [] a = 3 -> (0 * s[4] + x[4]) * s[5] + x[5]
    [] a = 4 -> 0 * s[5] + x[5] [] a = 5 -> 0
Sizes5(s) == s[1] * s[2] * s[3] * s[4] * s[5]
FiveDigits(s, x, a) ==
  /\ s[1] \in Nat \ {0} /\ s[2] \in Nat \ {0} /\ s[3] \in Nat \ {0} /\ s[4] \in Nat \ {0}
  /\ s[5] \in Nat \ {0}
  /\ x[1] \in Int /\ x[2] \in Int /\ x[3] \in Int /\ x[4] \in Int /\ x[5] \in Int
  /\ \A i \in 1..5 \ {a} : x[i] \in 0..s[i] - 1

(* The digits from a on are the number of a and what is after it.          *)
LEMMA CutBelow ==
  ASSUME NEW s, NEW x, NEW a \in 1..5, FiveDigits(s, x, a), HighPart(s, x, a) \in Int
  PROVE  CutAt(HighPart(s, x, a) * s[a] + x[a], InnerSize(s, a), LowPart(s, x, a), Horner(s, x))
<1> DEFINE u == HighPart(s, x, a) * s[a] + x[a]
<1>0. u \in Int /\ CutAt(u, 1, 0, u)
  <2>1. s[a] \in Int /\ x[a] \in Int
    BY DEF FiveDigits
  <2>2. u \in Int
    BY <2>1
  <2> HIDE DEF u
  <2> QED BY <2>2, FirstDigit
<1>1. CASE a = 1
  <2>0. /\ x[2] \in 0..s[2] - 1 /\ s[2] \in Nat \ {0} /\ x[3] \in 0..s[3] - 1 /\ s[3] \in Nat \ {0}
        /\ x[4] \in 0..s[4] - 1 /\ s[4] \in Nat \ {0} /\ x[5] \in 0..s[5] - 1 /\ s[5] \in Nat \ {0}
    BY <1>1 DEF FiveDigits
  <2>1. u = x[1]
    BY <1>1 DEF HighPart, FiveDigits
  <2> HIDE DEF u
  <2>2. CutAt(u, 1 * s[2], 0 * s[2] + x[2], u * s[2] + x[2])
    BY <1>0, <2>0, NextDigit
  <2>3. CutAt(u, 1 * s[2] * s[3], (0 * s[2] + x[2]) * s[3] + x[3], (u * s[2] + x[2]) * s[3] + x[3])
    BY <1>0, <2>0, <2>2, NextDigit
  <2>4. CutAt(u, 1 * s[2] * s[3] * s[4], ((0 * s[2] + x[2]) * s[3] + x[3]) * s[4] + x[4],
              ((u * s[2] + x[2]) * s[3] + x[3]) * s[4] + x[4])
    BY <1>0, <2>0, <2>3, NextDigit
  <2>5. CutAt(u, 1 * s[2] * s[3] * s[4] * s[5],
              (((0 * s[2] + x[2]) * s[3] + x[3]) * s[4] + x[4]) * s[5] + x[5],
              (((u * s[2] + x[2]) * s[3] + x[3]) * s[4] + x[4]) * s[5] + x[5])
    BY <1>0, <2>0, <2>4, NextDigit
  <2>6. CutAt(u, InnerSize(s, a), LowPart(s, x, a), Horner(s, x))
    BY <1>1, <2>1, <2>5 DEF InnerSize, LowPart, Horner
  <2> QED BY <2>6 DEF u
<1>2. CASE a = 2
  <2>0. /\ x[3] \in 0..s[3] - 1 /\ s[3] \in Nat \ {0} /\ x[4] \in 0..s[4] - 1 /\ s[4] \in Nat \ {0}
        /\ x[5] \in 0..s[5] - 1 /\ s[5] \in Nat \ {0}
    BY <1>2 DEF FiveDigits
  <2>1. u = x[1] * s[2] + x[2]
    BY <1>2 DEF HighPart, FiveDigits
  <2> HIDE DEF u
  <2>3. CutAt(u, 1 * s[3], 0 * s[3] + x[3], u * s[3] + x[3])
    BY <1>0, <2>0, NextDigit
  <2>4. CutAt(u, 1 * s[3] * s[4], (0 * s[3] + x[3]) * s[4] + x[4], (u * s[3] + x[3]) * s[4] + x[4])
    BY <1>0, <2>0, <2>3, NextDigit
  <2>5. CutAt(u, 1 * s[3] * s[4] * s[5], ((0 * s[3] + x[3]) * s[4] + x[4]) * s[5] + x[5],
              ((u * s[3] + x[3]) * s[4] + x[4]) * s[5] + x[5])
    BY <1>0, <2>0, <2>4, NextDigit
  <2>6. CutAt(u, InnerSize(s, a), LowPart(s, x, a), Horner(s, x))
    BY <1>2, <2>1, <2>5 DEF InnerSize, LowPart, Horner
  <2> QED BY <2>6 DEF u
<1>3. CASE a = 3
  <2>0. /\ x[4] \in 0..s[4] - 1 /\ s[4] \in Nat \ {0} /\ x[5] \in 0..s[5] - 1 /\ s[5] \in Nat \ {0}
    BY <1>3 DEF FiveDigits
  <2>1. u = (x[1] * s[2] + x[2]) * s[3] + x[3]
    BY <1>3 DEF HighPart, FiveDigits
  <2> HIDE DEF u
  <2>4. CutAt(u, 1 * s[4], 0 * s[4] + x[4], u * s[4] + x[4])
    BY <1>0, <2>0, NextDigit
  <2>5. CutAt(u, 1 * s[4] * s[5], (0 * s[4] + x[4]) * s[5] + x[5], (u * s[4] + x[4]) * s[5] + x[5])
    BY <1>0, <2>0, <2>4, NextDigit
  <2>6. CutAt(u, InnerSize(s, a), LowPart(s, x, a), Horner(s, x))
    BY <1>3, <2>1, <2>5 DEF InnerSize, LowPart, Horner
  <2> QED BY <2>6 DEF u
<1>4. CASE a = 4
  <2>0. /\ x[5] \in 0..s[5] - 1 /\ s[5] \in Nat \ {0}
    BY <1>4 DEF FiveDigits
  <2>1. u = ((x[1] * s[2] + x[2]) * s[3] + x[3]) * s[4] + x[4]
    BY <1>4 DEF HighPart, FiveDigits
  <2> HIDE DEF u
  <2>5. CutAt(u, 1 * s[5], 0 * s[5] + x[5], u * s[5] + x[5])
    BY <1>0, <2>0, NextDigit
  <2>6. CutAt(u, InnerSize(s, a), LowPart(s, x, a), Horner(s, x))
    BY <1>4, <2>1, <2>5 DEF InnerSize, LowPart, Horner
  <2> QED BY <2>6 DEF u
<1>5. CASE a = 5
  <2>1. u = Horner(s, x)
    BY <1>5 DEF HighPart, Horner
  <2> HIDE DEF u
  <2>6. CutAt(u, InnerSize(s, a), LowPart(s, x, a), Horner(s, x))
    BY <1>0, <1>5, <2>1 DEF InnerSize, LowPart
  <2> QED BY <2>6 DEF u
<1> QED BY <1>1, <1>2, <1>3, <1>4, <1>5

(* The digits before a are a number below the product of their sizes.      *)
LEMMA HighBound ==
  ASSUME NEW s, NEW x, NEW a \in 1..5, FiveDigits(s, x, a)
  PROVE  HighPart(s, x, a) \in 0..OuterSize(s, a) - 1 /\ OuterSize(s, a) \in Nat \ {0}
<1>1. CASE a = 1
  BY <1>1 DEF HighPart, OuterSize
<1>2. CASE a = 2
  BY <1>2 DEF HighPart, OuterSize, FiveDigits
<1> DEFINE q2 == s[1] * s[2]
           q3 == s[1] * s[2] * s[3]
           q4 == s[1] * s[2] * s[3] * s[4]
           u2 == x[1] * s[2] + x[2]
           u3 == (x[1] * s[2] + x[2]) * s[3] + x[3]
           u4 == ((x[1] * s[2] + x[2]) * s[3] + x[3]) * s[4] + x[4]
<1>3. ASSUME a \in 3..5
      PROVE  q2 \in Nat \ {0} /\ u2 \in 0..q2 - 1
  <2>1. /\ x[1] \in 0..s[1] - 1 /\ s[1] \in Nat \ {0}
        /\ x[2] \in 0..s[2] - 1 /\ s[2] \in Nat \ {0}
    BY <1>3 DEF FiveDigits
  <2> QED BY <2>1, RowBound
<1>4. ASSUME a \in 4..5
      PROVE  q3 \in Nat \ {0} /\ u3 \in 0..q3 - 1
  <2>1. x[3] \in 0..s[3] - 1 /\ s[3] \in Nat \ {0}
    BY <1>4 DEF FiveDigits
  <2>2. q2 \in Nat \ {0} /\ u2 \in 0..q2 - 1 /\ q3 = q2 * s[3] /\ u3 = u2 * s[3] + x[3]
    BY <1>3, <1>4
  <2> HIDE DEF q2, u2, q3, u3
  <2> QED BY <2>1, <2>2, RowBound, ProductNat
<1>5. ASSUME a = 5
      PROVE  q4 \in Nat \ {0} /\ u4 \in 0..q4 - 1
  <2>1. x[4] \in 0..s[4] - 1 /\ s[4] \in Nat \ {0}
    BY <1>5 DEF FiveDigits
  <2>2. q3 \in Nat \ {0} /\ u3 \in 0..q3 - 1 /\ q4 = q3 * s[4] /\ u4 = u3 * s[4] + x[4]
    BY <1>4, <1>5
  <2> HIDE DEF q3, u3, q4, u4
  <2> QED BY <2>1, <2>2, RowBound, ProductNat
<1>6. CASE a = 3
  BY <1>3, <1>6 DEF HighPart, OuterSize
<1>7. CASE a = 4
  BY <1>4, <1>7 DEF HighPart, OuterSize
<1>8. CASE a = 5
  BY <1>5, <1>8 DEF HighPart, OuterSize
<1> QED BY <1>1, <1>2, <1>6, <1>7, <1>8

(* The digit a and its size do not count for the others.                   *)
LEMMA SameSizes ==
  ASSUME NEW s, NEW z, NEW a \in 1..5, \A i \in 1..5 \ {a} : s[i] = z[i]
  PROVE  InnerSize(s, a) = InnerSize(z, a) /\ OuterSize(s, a) = OuterSize(z, a)
BY DEF InnerSize, OuterSize

(* Two numbers, in the sizes s and z, that agree but for digit a.          *)
AgreeBut(s, x, z, y, a) == \A i \in 1..5 \ {a} : s[i] = z[i] /\ x[i] = y[i]

(* Nor does the digit itself count for the digits before and after it.     *)
LEMMA SameDigits ==
  ASSUME NEW s, NEW x, NEW z, NEW y, NEW a \in 1..5, AgreeBut(s, x, z, y, a)
  PROVE  HighPart(s, x, a) = HighPart(z, y, a) /\ LowPart(s, x, a) = LowPart(z, y, a)
<1>1. CASE a = 1
  BY <1>1 DEF HighPart, LowPart, AgreeBut
<1>2. CASE a = 2
  BY <1>2 DEF HighPart, LowPart, AgreeBut
<1>3. CASE a = 3
  BY <1>3 DEF HighPart, LowPart, AgreeBut
<1>4. CASE a = 4
  BY <1>4 DEF HighPart, LowPart, AgreeBut
<1>5. CASE a = 5
  BY <1>5 DEF HighPart, LowPart, AgreeBut
<1> QED BY <1>1, <1>2, <1>3, <1>4, <1>5

(* The sizes are those outside of a, its own and those inside.             *)
LEMMA SizesCut ==
  ASSUME NEW s, NEW a \in 1..5,
         s[1] \in Nat, s[2] \in Nat, s[3] \in Nat, s[4] \in Nat, s[5] \in Nat
  PROVE  Sizes5(s) = OuterSize(s, a) * (s[a] * InnerSize(s, a))
<1>1. CASE a = 1
  BY <1>1 DEF Sizes5, InnerSize, OuterSize
<1>2. CASE a = 2
  BY <1>2 DEF Sizes5, InnerSize, OuterSize
<1>3. CASE a = 3
  BY <1>3 DEF Sizes5, InnerSize, OuterSize
<1>4. CASE a = 4
  BY <1>4 DEF Sizes5, InnerSize, OuterSize
<1>5. CASE a = 5
  BY <1>5 DEF Sizes5, InnerSize, OuterSize
<1> QED BY <1>1, <1>2, <1>3, <1>4, <1>5

(* Every number below the product of the sizes has digits.                 *)
LEMMA HornerOnto ==
  ASSUME NEW s, s[1] \in Nat, s[2] \in Nat, s[3] \in Nat, s[4] \in Nat, s[5] \in Nat,
         NEW v \in 0..Sizes5(s) - 1
  PROVE  \E x \in [1..5 -> Int] : (\A i \in 1..5 : x[i] \in 0..s[i] - 1) /\ v = Horner(s, x)
<1>0. /\ s[1] * s[2] \in Nat /\ s[1] * s[2] * s[3] \in Nat /\ s[1] * s[2] * s[3] * s[4] \in Nat
  BY ProductNat
<1>1. PICK v4 \in 0..s[1] * s[2] * s[3] * s[4] - 1, x5 \in 0..s[5] - 1 : v = v4 * s[5] + x5
  BY <1>0, Division DEF Sizes5
<1>2. PICK v3 \in 0..s[1] * s[2] * s[3] - 1, x4 \in 0..s[4] - 1 : v4 = v3 * s[4] + x4
  BY <1>0, Division
<1>3. PICK v2 \in 0..s[1] * s[2] - 1, x3 \in 0..s[3] - 1 : v3 = v2 * s[3] + x3
  BY <1>0, Division
<1>4. PICK x1 \in 0..s[1] - 1, x2 \in 0..s[2] - 1 : v2 = x1 * s[2] + x2
  BY Division
<1> DEFINE x == <<x1, x2, x3, x4, x5>>
<1>5. x \in [1..5 -> Int] /\ \A i \in 1..5 : x[i] \in 0..s[i] - 1
  OBVIOUS
<1>6. v = Horner(s, x)
  BY <1>1, <1>2, <1>3, <1>4, Zenon DEF Horner
<1> QED BY <1>5, <1>6

-----------------------------------------------------------------------------
(***************************************************************************)
(* Where the elements of a tensor are: their indices are the digits of a   *)
(* number, in an order that depends on the layout.                         *)
(***************************************************************************)

(* Where the elements of a tensor are: in the order of ONNX, in blocks of  *)
(* channels, or with the channels innermost, as in a canonical tensor.     *)
Layouts == {"onnx", "batched", "packed"}
LayoutSizes(l, t) ==
  LET s == t.shape
  IN  CASE l = "onnx" -> <<s["N"], s["C"], s["H"], s["W"], 1>>
        [] l = "batched" -> <<s["N"], s["C"] \div t.batch, s["H"], s["W"], t.batch>>
        [] l = "packed" -> <<s["N"], 1, s["H"], s["W"], s["C"]>>
LayoutDigits(l, t, x) ==
  CASE l = "onnx" -> <<x["N"], x["C"], x["H"], x["W"], 0>>
    [] l = "batched" -> <<x["N"], x["C"] \div t.batch, x["H"], x["W"], x["C"] % t.batch>>
    [] l = "packed" -> <<x["N"], 0, x["H"], x["W"], x["C"]>>
LayoutPlace(l, t, x) == IF l = "onnx" THEN OnnxPlace(t, x) ELSE Place(t, x)
LaidOut(l, t) == t \in Tensors /\ (l = "packed" => Canonical(t))

(* An element is where its digits in the layout, as a number, say.         *)
LEMMA LayoutNumber ==
  ASSUME NEW l \in Layouts, NEW t, LaidOut(l, t), NEW x, \A d \in Dims : x[d] \in Int,
         x["C"] \in 0..t.shape["C"] - 1
  PROVE  LayoutPlace(l, t, x) = t.at + t.bytes * Horner(LayoutSizes(l, t), LayoutDigits(l, t, x))
<1>0. /\ x["N"] \in Int /\ x["C"] \in Int /\ x["H"] \in Int /\ x["W"] \in Int
      /\ t \in Tensors
  BY DEF Dims, LaidOut
<1>1. CASE l = "onnx"
  <2>1. (((x["N"] * t.shape["C"] + x["C"]) * t.shape["H"] + x["H"]) * t.shape["W"] + x["W"]) * 1 + 0
          = ((x["N"] * t.shape["C"] + x["C"]) * t.shape["H"] + x["H"]) * t.shape["W"] + x["W"]
    BY <1>0, SizeIsNat
  <2>2. Horner(LayoutSizes(l, t), LayoutDigits(l, t, x))
          = (((x["N"] * t.shape["C"] + x["C"]) * t.shape["H"] + x["H"]) * t.shape["W"] + x["W"]) * 1 + 0
    BY <1>1 DEF Horner, LayoutSizes, LayoutDigits
  <2> QED BY <1>1, <2>1, <2>2 DEF LayoutPlace, OnnxPlace
<1>2. CASE l = "batched"
  <2>2. Horner(LayoutSizes(l, t), LayoutDigits(l, t, x))
          = (((x["N"] * (t.shape["C"] \div t.batch) + (x["C"] \div t.batch)) * t.shape["H"] + x["H"])
              * t.shape["W"] + x["W"]) * t.batch + (x["C"] % t.batch)
    BY <1>2 DEF Horner, LayoutSizes, LayoutDigits
  <2> QED BY <1>2, <2>2 DEF LayoutPlace, Place
<1>3. CASE l = "packed"
  <2>1. Horner(LayoutSizes(l, t), LayoutDigits(l, t, x))
          = (((x["N"] * 1 + 0) * t.shape["H"] + x["H"]) * t.shape["W"] + x["W"]) * t.shape["C"] + x["C"]
    BY <1>3 DEF Horner, LayoutSizes, LayoutDigits
  <2>2. x["N"] * 1 + 0 = x["N"]
    BY <1>0
  <2>3. Canonical(t)
    BY <1>3 DEF LaidOut
  <2>4. Place(t, x)
           = t.at + t.bytes * (((x["N"] * t.shape["H"] + x["H"]) * t.shape["W"] + x["W"]) * t.shape["C"]
                                 + x["C"])
    BY <1>0, <2>3, CanonicalPlace
  <2> QED BY <1>3, <2>1, <2>2, <2>4 DEF LayoutPlace
<1> QED BY <1>1, <1>2, <1>3 DEF Layouts

(* The sizes of a layout are positive and make up the size of the tensor.  *)
LEMMA LayoutTyped ==
  ASSUME NEW l \in Layouts, NEW t, LaidOut(l, t), NEW s, s = LayoutSizes(l, t)
  PROVE  /\ s[1] \in Nat \ {0} /\ s[2] \in Nat \ {0} /\ s[3] \in Nat \ {0} /\ s[4] \in Nat \ {0}
         /\ s[5] \in Nat \ {0} /\ Size(t) = Sizes5(s) * t.bytes
<1> DEFINE n == t.shape["N"]
           c == t.shape["C"]
           h == t.shape["H"]
           w == t.shape["W"]
           b == t.batch
           m == t.shape["C"] \div t.batch
<1>0. /\ n \in Nat \ {0} /\ c \in Nat \ {0} /\ h \in Nat \ {0} /\ w \in Nat \ {0}
      /\ b \in Nat \ {0} /\ t.bytes \in 1..4 /\ c % b = 0
  BY SizeIsNat DEF LaidOut
<1>1. Size(t) = t.bytes * n * c * h * w
  BY DEF Size
<1>2. CASE l = "onnx"
  <2>1. s = <<n, c, h, w, 1>>
    BY <1>2 DEF LayoutSizes
  <2>2. s[1] = n /\ s[2] = c /\ s[3] = h /\ s[4] = w /\ s[5] = 1
    BY <2>1
  <2> HIDE DEF n, c, h, w
  <2> QED BY <1>0, <1>1, <2>2 DEF Sizes5
<1>3. CASE l = "batched"
  <2>1. s = <<n, m, h, w, b>>
    BY <1>3 DEF LayoutSizes
  <2>2. s[1] = n /\ s[2] = m /\ s[3] = h /\ s[4] = w /\ s[5] = b
    BY <2>1
  <2>3. m \in Nat \ {0} /\ c = m * b
    <3> HIDE DEF n, h, w
    <3>1. m \in Nat /\ c = m * b
      BY <1>0
    <3> QED BY <1>0, <3>1
  <2> HIDE DEF n, c, h, w, b, m
  <2>4. t.bytes * n * (m * b) * h * w = n * m * h * w * b * t.bytes
    BY <1>0, <2>3
  <2> QED BY <1>0, <1>1, <2>2, <2>3, <2>4 DEF Sizes5
<1>4. CASE l = "packed"
  <2>1. s = <<n, 1, h, w, c>>
    BY <1>4 DEF LayoutSizes
  <2>2. s[1] = n /\ s[2] = 1 /\ s[3] = h /\ s[4] = w /\ s[5] = c
    BY <2>1
  <2> HIDE DEF n, c, h, w
  <2> QED BY <1>0, <1>1, <2>2 DEF Sizes5
<1> QED BY <1>2, <1>3, <1>4 DEF Layouts

(* The digits of an element are below the sizes.                           *)
LEMMA ElementDigits ==
  ASSUME NEW l \in Layouts, NEW t, LaidOut(l, t), NEW x \in Elements(t)
  PROVE  /\ \A i \in 1..5 : LayoutDigits(l, t, x)[i] \in 0..LayoutSizes(l, t)[i] - 1
         /\ (\A d \in Dims : x[d] \in 0..t.shape[d] - 1) /\ DOMAIN x = Dims
<1>0. /\ x["N"] \in 0..t.shape["N"] - 1 /\ x["C"] \in 0..t.shape["C"] - 1
      /\ x["H"] \in 0..t.shape["H"] - 1 /\ x["W"] \in 0..t.shape["W"] - 1
      /\ DOMAIN x = Dims
  BY DEF Elements, Dims
<1>1. (\A d \in Dims : x[d] \in 0..t.shape[d] - 1)
  BY <1>0 DEF Dims
<1>2. t \in Tensors /\ t.shape["C"] \in Nat /\ t.batch \in Nat \ {0} /\ t.shape["C"] % t.batch = 0
  BY SizeIsNat DEF LaidOut
<1>3. CASE l = "onnx"
  <2>1. LayoutDigits(l, t, x) = <<x["N"], x["C"], x["H"], x["W"], 0>>
    BY <1>3 DEF LayoutDigits
  <2>2. LayoutSizes(l, t) = <<t.shape["N"], t.shape["C"], t.shape["H"], t.shape["W"], 1>>
    BY <1>3 DEF LayoutSizes
  <2> QED BY <1>0, <1>1, <2>1, <2>2
<1>4. CASE l = "packed"
  <2>1. LayoutDigits(l, t, x) = <<x["N"], 0, x["H"], x["W"], x["C"]>>
    BY <1>4 DEF LayoutDigits
  <2>2. LayoutSizes(l, t) = <<t.shape["N"], 1, t.shape["H"], t.shape["W"], t.shape["C"]>>
    BY <1>4 DEF LayoutSizes
  <2> QED BY <1>0, <1>1, <2>1, <2>2
<1>5. CASE l = "batched"
  <2> DEFINE b == t.batch
             c == t.shape["C"]
             o == x["C"]
  <2>1. o \div b \in 0..(c \div b) - 1 /\ o % b \in 0..b - 1
    <3>1. b \in Nat \ {0} /\ c \in Nat /\ c % b = 0 /\ o \in 0..c - 1
      BY <1>0, <1>2
    <3> HIDE DEF b, c, o
    <3>2. c \div b \in Nat /\ c = (c \div b) * b
      BY <3>1
    <3>3. o \in 0..(c \div b) * b - 1
      BY <3>1, <3>2
    <3> QED BY <3>1, <3>2, <3>3, Division
  <2> HIDE DEF b, c, o
  <2>2. LayoutDigits(l, t, x) = <<x["N"], o \div b, x["H"], x["W"], o % b>>
    BY <1>5 DEF LayoutDigits, b, c, o
  <2>3. LayoutSizes(l, t) = <<t.shape["N"], c \div b, t.shape["H"], t.shape["W"], b>>
    BY <1>5 DEF LayoutSizes, b, c, o
  <2>4. \A i \in 1..5 : LayoutDigits(l, t, x)[i] \in 0..LayoutSizes(l, t)[i] - 1
    BY <1>0, <2>1, <2>2, <2>3
  <2> QED BY <1>0, <1>1, <2>4
<1> QED BY <1>0, <1>1, <1>3, <1>4, <1>5 DEF Layouts

(* Every list of digits below the sizes is that of an element.             *)
LEMMA DigitsOfElement ==
  ASSUME NEW l \in Layouts, NEW t, LaidOut(l, t), NEW y \in [1..5 -> Int],
         \A i \in 1..5 : y[i] \in 0..LayoutSizes(l, t)[i] - 1
  PROVE  \E x \in Elements(t) : LayoutDigits(l, t, x) = y
<1> DEFINE s == LayoutSizes(l, t)
           x(c) == [N |-> y[1], C |-> c, H |-> y[3], W |-> y[4]]
<1>0. t \in Tensors /\ t.shape["C"] \in Nat /\ t.batch \in Nat \ {0} /\ t.shape["C"] % t.batch = 0
  BY SizeIsNat DEF LaidOut
<1>1. s[1] = t.shape["N"] /\ s[3] = t.shape["H"] /\ s[4] = t.shape["W"]
  BY DEF LayoutSizes, Layouts
<1>2. y = <<y[1], y[2], y[3], y[4], y[5]>>
  OBVIOUS
<1>3. ASSUME NEW c \in 0..t.shape["C"] - 1
      PROVE  x(c) \in Elements(t)
  <2>1. y[1] \in 0..t.shape["N"] - 1 /\ y[3] \in 0..t.shape["H"] - 1 /\ y[4] \in 0..t.shape["W"] - 1
    BY <1>1
  <2> QED BY <2>1 DEF Elements
<1>4. CASE l = "onnx"
  <2>1. s[2] = t.shape["C"] /\ s[5] = 1
    BY <1>4 DEF LayoutSizes
  <2>2. y[2] \in 0..t.shape["C"] - 1 /\ y[5] = 0
    BY <2>1
  <2>3. LayoutDigits(l, t, x(y[2])) = <<y[1], y[2], y[3], y[4], 0>>
    BY <1>4 DEF LayoutDigits
  <2> QED BY <1>2, <1>3, <2>2, <2>3
<1>5. CASE l = "packed"
  <2>1. s[5] = t.shape["C"] /\ s[2] = 1
    BY <1>5 DEF LayoutSizes
  <2>2. y[5] \in 0..t.shape["C"] - 1 /\ y[2] = 0
    BY <2>1
  <2>3. LayoutDigits(l, t, x(y[5])) = <<y[1], 0, y[3], y[4], y[5]>>
    BY <1>5 DEF LayoutDigits
  <2> QED BY <1>2, <1>3, <2>2, <2>3
<1>6. CASE l = "batched"
  <2> DEFINE b == t.batch
             c == t.shape["C"]
             o == y[2] * b + y[5]
  <2>1. s[2] = c \div b /\ s[5] = b
    BY <1>6 DEF LayoutSizes
  <2>2. y[2] \in 0..(c \div b) - 1 /\ y[5] \in 0..b - 1
    BY <2>1
  <2>3. o \in 0..c - 1 /\ o \div b = y[2] /\ o % b = y[5]
    <3> DEFINE u == y[2]
               v == y[5]
    <3>1. b \in Nat \ {0} /\ c \in Nat /\ c % b = 0 /\ u \in 0..(c \div b) - 1 /\ v \in 0..b - 1
      BY <1>0, <2>2
    <3> HIDE DEF b, c, u, v
    <3>2. c \div b \in Nat /\ c = (c \div b) * b
      BY <3>1
    <3>3. u * b + v \in 0..(c \div b) * b - 1
      BY <3>1, <3>2, RowBound
    <3>4. (u * b + v) \div b = u /\ (u * b + v) % b = v
      <4>1. b \in Nat /\ u \in Int /\ v \in 0..b - 1
        BY <3>1
      <4> QED BY <4>1, QuotientAndRest, Zenon
    <3> QED BY <3>2, <3>3, <3>4 DEF u, v
  <2>4. LayoutDigits(l, t, x(o)) = <<y[1], o \div b, y[3], y[4], o % b>>
    BY <1>6 DEF LayoutDigits
  <2> HIDE DEF o, b, c
  <2> QED BY <1>2, <1>3, <2>3, <2>4 DEF c
<1> QED BY <1>4, <1>5, <1>6 DEF Layouts

(* Every byte of a tensor is a byte of one of its elements.                *)
LEMMA LayoutOnto ==
  ASSUME NEW l \in Layouts, NEW t, LaidOut(l, t), NEW e \in 0..Size(t) - 1
  PROVE  \E x \in Elements(t), r \in 0..t.bytes - 1 : LayoutPlace(l, t, x) + r = t.at + e
<1> DEFINE s == LayoutSizes(l, t)
<1>0. /\ s[1] \in Nat \ {0} /\ s[2] \in Nat \ {0} /\ s[3] \in Nat \ {0} /\ s[4] \in Nat \ {0}
      /\ s[5] \in Nat \ {0} /\ Size(t) = Sizes5(s) * t.bytes
  BY LayoutTyped
<1>1. t.bytes \in Nat /\ t.at \in Nat
  BY SizeIsNat DEF LaidOut
<1>2. Sizes5(s) \in Nat
  <2> HIDE DEF s
  <2>1. s[1] * s[2] \in Nat
    BY <1>0, ProductNat
  <2>2. s[1] * s[2] * s[3] \in Nat
    BY <1>0, <2>1, ProductNat
  <2>3. s[1] * s[2] * s[3] * s[4] \in Nat
    BY <1>0, <2>2, ProductNat
  <2> QED BY <1>0, <2>3, ProductNat DEF Sizes5
<1> HIDE DEF s
<1>3. PICK v \in 0..Sizes5(s) - 1, r \in 0..t.bytes - 1 : e = v * t.bytes + r
  <2> DEFINE m == Sizes5(s)
             n == t.bytes
  <2>1. m \in Nat /\ n \in Nat /\ e \in 0..m * n - 1
    BY <1>0, <1>1, <1>2
  <2> HIDE DEF m, n
  <2>2. e \div n \in 0..m - 1 /\ e % n \in 0..n - 1 /\ e = (e \div n) * n + (e % n)
    BY <2>1, Division
  <2> QED BY <2>2 DEF m, n
<1>4. PICK y \in [1..5 -> Int] : (\A i \in 1..5 : y[i] \in 0..s[i] - 1) /\ v = Horner(s, y)
  BY <1>0, HornerOnto
<1>5. PICK x \in Elements(t) : LayoutDigits(l, t, x) = y
  BY <1>4, DigitsOfElement DEF s
<1>6. LayoutPlace(l, t, x) = t.at + t.bytes * v
  <2>1. \A d \in Dims : x[d] \in Int /\ (d = "C" => x[d] \in 0..t.shape[d] - 1)
    BY ElementDigits
  <2> QED BY <1>4, <1>5, <2>1, LayoutNumber DEF s, Dims
<1>7. t.at + t.bytes * v + r = t.at + (v * t.bytes + r)
  BY <1>1
<1> QED BY <1>3, <1>6, <1>7

(* A tensor t that is a part of w, cut along dim: which digit is cut, how  *)
(* many indices of dim make one of it, and how many bytes an index of dim  *)
(* is in each of the rounds over the digits outside.                       *)
Cuttable(l, dim, w, t) ==
  /\ l \in Layouts /\ dim \in Dims /\ LaidOut(l, w) /\ LaidOut(l, t)
  /\ t.bytes = w.bytes /\ \A d \in Dims \ {dim} : t.shape[d] = w.shape[d]
  /\ l = "batched" => t.batch = w.batch
CutDigit(l, dim) ==
  CASE dim = "N" -> 1 [] dim = "H" -> 3 [] dim = "W" -> 4
    [] dim = "C" -> IF l = "packed" THEN 5 ELSE 2
CutUnit(l, dim, w) == IF l = "batched" /\ dim = "C" THEN w.batch ELSE 1
Base(l, dim, w) ==
  IF l = "batched" /\ dim = "C" THEN w.shape["H"] * w.shape["W"] * w.bytes
  ELSE InnerSize(LayoutSizes(l, w), CutDigit(l, dim)) * w.bytes
Rounds(l, dim, w) == OuterSize(LayoutSizes(l, w), CutDigit(l, dim))

(* The sizes of the layouts of a part and of the whole differ in the digit *)
(* that is cut, and there as their shapes do.                              *)
LEMMA CutSizes ==
  ASSUME NEW l, NEW dim, NEW w, NEW t, Cuttable(l, dim, w, t)
  PROVE  LET a == CutDigit(l, dim)
             u == CutUnit(l, dim, w)
             s == LayoutSizes(l, t)
             z == LayoutSizes(l, w)
         IN  /\ a \in 1..5 /\ u \in Nat \ {0} /\ \A i \in 1..5 \ {a} : s[i] = z[i]
             /\ s[a] * u = t.shape[dim] /\ z[a] * u = w.shape[dim]
             /\ Base(l, dim, w) * u = InnerSize(z, a) * w.bytes
<1>0. /\ t \in Tensors /\ w \in Tensors /\ l \in Layouts /\ dim \in Dims
  BY DEF Cuttable, LaidOut
<1>1. /\ t.shape["N"] \in Nat \ {0} /\ t.shape["C"] \in Nat \ {0} /\ t.shape["H"] \in Nat \ {0}
      /\ t.shape["W"] \in Nat \ {0} /\ t.batch \in Nat \ {0} /\ t.shape["C"] % t.batch = 0
      /\ w.shape["N"] \in Nat \ {0} /\ w.shape["C"] \in Nat \ {0} /\ w.shape["H"] \in Nat \ {0}
      /\ w.shape["W"] \in Nat \ {0} /\ w.batch \in Nat \ {0} /\ w.shape["C"] % w.batch = 0
      /\ w.bytes \in Nat
  BY <1>0, SizeIsNat
<1>2. /\ dim # "N" => t.shape["N"] = w.shape["N"]
      /\ dim # "C" => t.shape["C"] = w.shape["C"]
      /\ dim # "H" => t.shape["H"] = w.shape["H"]
      /\ dim # "W" => t.shape["W"] = w.shape["W"]
      /\ l = "batched" => t.batch = w.batch
  BY DEF Cuttable, Dims
<1>3. CASE l = "onnx"
  <2>1. /\ LayoutSizes(l, t) = <<t.shape["N"], t.shape["C"], t.shape["H"], t.shape["W"], 1>>
        /\ LayoutSizes(l, w) = <<w.shape["N"], w.shape["C"], w.shape["H"], w.shape["W"], 1>>
    BY <1>3 DEF LayoutSizes
  <2>2. CutUnit(l, dim, w) = 1 /\ Base(l, dim, w) = InnerSize(LayoutSizes(l, w), CutDigit(l, dim)) * w.bytes
    BY <1>3 DEF CutUnit, Base
  <2>3. InnerSize(LayoutSizes(l, w), CutDigit(l, dim)) * w.bytes \in Int
    BY <1>0, <1>1, <1>3, <2>1 DEF InnerSize, CutDigit, Dims
  <2>4. <<dim, CutDigit(l, dim)>> \in {<<"N", 1>>, <<"C", 2>>, <<"H", 3>>, <<"W", 4>>}
    BY <1>0, <1>3 DEF CutDigit, Dims
  <2> QED BY <1>1, <1>2, <2>1, <2>2, <2>3, <2>4
<1>4. CASE l = "packed"
  <2>1. /\ LayoutSizes(l, t) = <<t.shape["N"], 1, t.shape["H"], t.shape["W"], t.shape["C"]>>
        /\ LayoutSizes(l, w) = <<w.shape["N"], 1, w.shape["H"], w.shape["W"], w.shape["C"]>>
    BY <1>4 DEF LayoutSizes
  <2>2. CutUnit(l, dim, w) = 1 /\ Base(l, dim, w) = InnerSize(LayoutSizes(l, w), CutDigit(l, dim)) * w.bytes
    BY <1>4 DEF CutUnit, Base
  <2>3. InnerSize(LayoutSizes(l, w), CutDigit(l, dim)) * w.bytes \in Int
    BY <1>0, <1>1, <1>4, <2>1 DEF InnerSize, CutDigit, Dims
  <2>4. <<dim, CutDigit(l, dim)>> \in {<<"N", 1>>, <<"C", 5>>, <<"H", 3>>, <<"W", 4>>}
    BY <1>0, <1>4 DEF CutDigit, Dims
  <2> QED BY <1>1, <1>2, <2>1, <2>2, <2>3, <2>4
<1>5. CASE l = "batched"
  <2> DEFINE b == w.batch
             c == t.shape["C"]
             e == w.shape["C"]
  <2>0. t.batch = b /\ b \in Nat \ {0} /\ c \in Nat /\ e \in Nat /\ c % b = 0 /\ e % b = 0
    BY <1>1, <1>2, <1>5
  <2>1. /\ LayoutSizes(l, t) = <<t.shape["N"], c \div b, t.shape["H"], t.shape["W"], b>>
        /\ LayoutSizes(l, w) = <<w.shape["N"], e \div b, w.shape["H"], w.shape["W"], b>>
    BY <1>5, <2>0 DEF LayoutSizes
  <2>2. c \div b \in Nat /\ e \div b \in Nat /\ (c \div b) * b = c /\ (e \div b) * b = e
    <3> HIDE DEF b, c, e
    <3> QED BY <2>0
  <2>3. CASE dim = "C"
    <3>1. CutDigit(l, dim) = 2 /\ CutUnit(l, dim, w) = b
      BY <1>5, <2>3 DEF CutDigit, CutUnit
    <3>2. Base(l, dim, w) = w.shape["H"] * w.shape["W"] * w.bytes
      BY <1>5, <2>3 DEF Base
    <3>3. InnerSize(LayoutSizes(l, w), 2) = 1 * w.shape["H"] * w.shape["W"] * b
      BY <2>1 DEF InnerSize
    <3>4. Base(l, dim, w) * b = InnerSize(LayoutSizes(l, w), 2) * w.bytes
      <4> HIDE DEF b, c, e
      <4> QED BY <1>1, <2>0, <3>2, <3>3
    <3> HIDE DEF b
    <3> QED BY <1>2, <2>0, <2>1, <2>2, <2>3, <3>1, <3>4
  <2>4. CASE dim # "C"
    <3>1. CutUnit(l, dim, w) = 1 /\ Base(l, dim, w) = InnerSize(LayoutSizes(l, w), CutDigit(l, dim)) * w.bytes
      BY <2>4 DEF CutUnit, Base
    <3>2. <<dim, CutDigit(l, dim)>> \in {<<"N", 1>>, <<"H", 3>>, <<"W", 4>>}
      BY <1>0, <2>4 DEF CutDigit, Dims
    <3>3. InnerSize(LayoutSizes(l, w), CutDigit(l, dim)) * w.bytes \in Int
      <4>1. \/ InnerSize(LayoutSizes(l, w), CutDigit(l, dim)) = 1 * (e \div b) * w.shape["H"] * w.shape["W"] * b
            \/ InnerSize(LayoutSizes(l, w), CutDigit(l, dim)) = 1 * w.shape["W"] * b
            \/ InnerSize(LayoutSizes(l, w), CutDigit(l, dim)) = 1 * b
        BY <2>1, <3>2 DEF InnerSize
      <4> HIDE DEF b, e
      <4> QED BY <1>1, <2>0, <2>2, <4>1
    <3>4. c = e
      BY <1>2, <2>4
    <3> HIDE DEF b, c, e
    <3> QED BY <1>1, <1>2, <2>1, <2>2, <2>4, <3>1, <3>2, <3>3, <3>4
  <2> QED BY <2>3, <2>4
<1> QED BY <1>0, <1>3, <1>4, <1>5 DEF Layouts

(* An element of a part, shifted by the indices before the part, has the   *)
(* digits of the part but for the one that is cut.                         *)
LEMMA ShiftedDigits ==
  ASSUME NEW l, NEW dim, NEW w, NEW t, Cuttable(l, dim, w, t), NEW x \in Elements(t),
         NEW before \in Nat, before % CutUnit(l, dim, w) = 0,
         before + t.shape[dim] <= w.shape[dim]
  PROVE  LET a == CutDigit(l, dim)
             u == CutUnit(l, dim, w)
             y == LayoutDigits(l, t, x)
             v == LayoutDigits(l, w, Shifted(x, dim, before))
         IN  /\ \A i \in 1..5 \ {a} : y[i] = v[i]
             /\ before \div u \in Nat /\ (before \div u) * u = before
             /\ v[a] = y[a] + (before \div u)
             /\ \A d \in Dims : Shifted(x, dim, before)[d] \in 0..w.shape[d] - 1
<1>0. /\ t \in Tensors /\ w \in Tensors /\ l \in Layouts /\ dim \in Dims
      /\ \A d \in Dims : t.shape[d] \in Nat /\ w.shape[d] \in Nat
  BY SizeIsNat DEF Cuttable, LaidOut, Dims
<1>1. (\A d \in Dims : x[d] \in 0..t.shape[d] - 1) /\ DOMAIN x = Dims
  BY ElementDigits DEF Cuttable
<1> DEFINE f == Shifted(x, dim, before)
<1>2. f[dim] = x[dim] + before /\ \A d \in Dims \ {dim} : f[d] = x[d]
  BY <1>0, <1>1 DEF Shifted
<1>3. \A d \in Dims : f[d] \in 0..w.shape[d] - 1
  BY <1>0, <1>1, <1>2 DEF Cuttable
<1>4. l = "batched" => t.batch = w.batch
  BY DEF Cuttable
<1> HIDE DEF f
<1>5. /\ f["N"] \in Nat /\ f["C"] \in Nat /\ f["H"] \in Nat /\ f["W"] \in Nat
      /\ x["N"] \in Nat /\ x["C"] \in Nat /\ x["H"] \in Nat /\ x["W"] \in Nat
  BY <1>0, <1>1, <1>3 DEF Dims
<1>6. /\ f["N"] = IF dim = "N" THEN x["N"] + before ELSE x["N"]
      /\ f["C"] = IF dim = "C" THEN x["C"] + before ELSE x["C"]
      /\ f["H"] = IF dim = "H" THEN x["H"] + before ELSE x["H"]
      /\ f["W"] = IF dim = "W" THEN x["W"] + before ELSE x["W"]
  BY <1>0, <1>2 DEF Dims
<1>7. before \div 1 = before /\ before * 1 = before
  OBVIOUS
<1>8. CASE l = "onnx"
  <2>1. /\ LayoutDigits(l, t, x) = <<x["N"], x["C"], x["H"], x["W"], 0>>
        /\ LayoutDigits(l, w, f) = <<f["N"], f["C"], f["H"], f["W"], 0>>
    BY <1>8 DEF LayoutDigits
  <2>2. CutUnit(l, dim, w) = 1
    BY <1>8 DEF CutUnit
  <2>4. <<dim, CutDigit(l, dim)>> \in {<<"N", 1>>, <<"C", 2>>, <<"H", 3>>, <<"W", 4>>}
    BY <1>0, <1>8 DEF CutDigit, Dims
  <2> QED BY <1>3, <1>6, <1>7, <2>1, <2>2, <2>4 DEF f
<1>9. CASE l = "packed"
  <2>1. /\ LayoutDigits(l, t, x) = <<x["N"], 0, x["H"], x["W"], x["C"]>>
        /\ LayoutDigits(l, w, f) = <<f["N"], 0, f["H"], f["W"], f["C"]>>
    BY <1>9 DEF LayoutDigits
  <2>2. CutUnit(l, dim, w) = 1
    BY <1>9 DEF CutUnit
  <2>4. <<dim, CutDigit(l, dim)>> \in {<<"N", 1>>, <<"C", 5>>, <<"H", 3>>, <<"W", 4>>}
    BY <1>0, <1>9 DEF CutDigit, Dims
  <2> QED BY <1>3, <1>6, <1>7, <2>1, <2>2, <2>4 DEF f
<1>10. CASE l = "batched"
  <2> DEFINE b == w.batch
             c == x["C"]
             e == f["C"]
  <2>0. t.batch = b /\ b \in Nat \ {0} /\ c \in Nat /\ e \in Nat
    BY <1>0, <1>4, <1>5, <1>10, SizeIsNat
  <2>1. /\ LayoutDigits(l, t, x) = <<x["N"], c \div b, x["H"], x["W"], c % b>>
        /\ LayoutDigits(l, w, f) = <<f["N"], e \div b, f["H"], f["W"], e % b>>
    BY <1>10, <2>0 DEF LayoutDigits
  <2>2. CASE dim = "C"
    <3>1. CutDigit(l, dim) = 2 /\ CutUnit(l, dim, w) = b
      BY <1>10, <2>2 DEF CutDigit, CutUnit
    <3>2. e = c + before /\ before % b = 0
      BY <1>6, <2>2, <3>1
    <3>3. /\ before \div b \in Nat /\ (before \div b) * b = before
          /\ e \div b = (c \div b) + (before \div b) /\ e % b = c % b
      <4> HIDE DEF b, c, e
      <4> DEFINE m == before \div b
                 q == c \div b
                 r == c % b
      <4>1. m \in Nat /\ m * b = before /\ q \in Nat /\ r \in 0..b - 1 /\ c = q * b + r
        BY <2>0, <3>2
      <4> HIDE DEF m, q, r
      <4>2. e = (q + m) * b + r /\ q + m \in Int /\ b \in Nat
        BY <2>0, <3>2, <4>1
      <4>3. ((q + m) * b + r) \div b = q + m /\ ((q + m) * b + r) % b = r
        BY <4>1, <4>2, QuotientAndRest, Zenon
      <4> QED BY <4>1, <4>2, <4>3 DEF m, q, r
    <3> HIDE DEF b, c, e
    <3> QED BY <1>3, <1>6, <2>1, <2>2, <3>1, <3>3 DEF f
  <2>3. CASE dim # "C"
    <3>1. CutUnit(l, dim, w) = 1
      BY <2>3 DEF CutUnit
    <3>2. <<dim, CutDigit(l, dim)>> \in {<<"N", 1>>, <<"H", 3>>, <<"W", 4>>}
      BY <1>0, <2>3 DEF CutDigit, Dims
    <3>3. c = e
      BY <1>6, <2>3
    <3> HIDE DEF b, c, e
    <3> QED BY <1>3, <1>6, <1>7, <2>1, <2>3, <3>1, <3>2, <3>3 DEF f
  <2> QED BY <2>2, <2>3
<1> QED BY <1>0, <1>8, <1>9, <1>10 DEF Layouts

(* The sizes outside and inside of a digit are positive.                   *)
LEMMA InnerIsNat ==
  ASSUME NEW s, NEW a \in 1..5, s[1] \in Nat \ {0}, s[2] \in Nat \ {0}, s[3] \in Nat \ {0},
         s[4] \in Nat \ {0}, s[5] \in Nat \ {0}
  PROVE  InnerSize(s, a) \in Nat \ {0} /\ OuterSize(s, a) \in Nat \ {0} /\ s[a] \in Nat \ {0}
<1>1. s[3] * s[4] \in Nat \ {0} /\ s[4] * s[5] \in Nat \ {0} /\ s[1] * s[2] \in Nat \ {0}
  BY ProductNat
<1>2. /\ (s[3] * s[4]) * s[5] \in Nat \ {0} /\ s[2] * (s[3] * s[4]) \in Nat \ {0}
      /\ s[1] * s[2] * s[3] \in Nat \ {0}
  BY <1>1, ProductNat
<1>3. (s[2] * (s[3] * s[4])) * s[5] \in Nat \ {0} /\ s[1] * s[2] * s[3] * s[4] \in Nat \ {0}
  BY <1>2, ProductNat
<1>4. /\ 1 * s[2] * s[3] * s[4] * s[5] = (s[2] * (s[3] * s[4])) * s[5]
      /\ 1 * s[3] * s[4] * s[5] = (s[3] * s[4]) * s[5]
      /\ 1 * s[4] * s[5] = s[4] * s[5] /\ 1 * s[5] = s[5]
  OBVIOUS
<1>5. InnerSize(s, a) \in {(s[2] * (s[3] * s[4])) * s[5], (s[3] * s[4]) * s[5], s[4] * s[5], s[5], 1}
  BY <1>4 DEF InnerSize
<1>6. OuterSize(s, a) \in {1, s[1], s[1] * s[2], s[1] * s[2] * s[3], s[1] * s[2] * s[3] * s[4]}
  BY DEF OuterSize
<1>7. s[a] \in Nat \ {0}
  OBVIOUS
<1> QED BY <1>1, <1>2, <1>3, <1>5, <1>6, <1>7

(* A part is so many rounds of its share of each.                          *)
LEMMA RoundsOfPart ==
  ASSUME NEW l, NEW dim, NEW w, NEW t, Cuttable(l, dim, w, t)
  PROVE  /\ Rounds(l, dim, w) \in Nat \ {0} /\ Base(l, dim, w) \in Nat \ {0}
         /\ t.shape[dim] \in Nat \ {0} /\ t.at \in Nat /\ t.bytes \in 1..4
         /\ Size(t) = Rounds(l, dim, w) * (Base(l, dim, w) * t.shape[dim])
<1> DEFINE a == CutDigit(l, dim)
           u == CutUnit(l, dim, w)
           s == LayoutSizes(l, t)
           z == LayoutSizes(l, w)
           base == Base(l, dim, w)
           rounds == Rounds(l, dim, w)
           n == InnerSize(z, a)
           d == t.shape[dim]
<1>1. /\ a \in 1..5 /\ u \in Nat \ {0} /\ \A i \in 1..5 \ {a} : s[i] = z[i]
      /\ s[a] * u = d /\ base * u = n * w.bytes
  BY CutSizes
<1>2. /\ l \in Layouts /\ LaidOut(l, t) /\ LaidOut(l, w) /\ t.bytes = w.bytes /\ t.bytes \in 1..4 /\ t.at \in Nat
      /\ d \in Nat \ {0}
  BY SizeIsNat DEF Cuttable, LaidOut, Dims
<1>3. /\ s[1] \in Nat \ {0} /\ s[2] \in Nat \ {0} /\ s[3] \in Nat \ {0} /\ s[4] \in Nat \ {0}
      /\ s[5] \in Nat \ {0} /\ Size(t) = Sizes5(s) * t.bytes
      /\ z[1] \in Nat \ {0} /\ z[2] \in Nat \ {0} /\ z[3] \in Nat \ {0} /\ z[4] \in Nat \ {0}
      /\ z[5] \in Nat \ {0}
  BY <1>2, LayoutTyped
<1>4. base \in Int
  <2>1. w.shape["H"] * w.shape["W"] * w.bytes \in Int
    <3>1. w.shape["H"] \in Nat /\ w.shape["W"] \in Nat /\ w.bytes \in Nat
      BY <1>2, SizeIsNat DEF LaidOut
    <3> QED BY <3>1
  <2>2. InnerSize(LayoutSizes(l, w), CutDigit(l, dim)) * w.bytes \in Int
    <3> HIDE DEF a, z
    <3>1. n \in Nat /\ w.bytes \in Nat
      BY <1>1, <1>2, <1>3, InnerIsNat
    <3>2. n * w.bytes \in Int
      BY <3>1
    <3> QED BY <3>2 DEF a, z
  <2> QED BY <2>1, <2>2 DEF Base
<1>5. n = InnerSize(s, a) /\ rounds = OuterSize(s, a)
  <2>1. rounds = OuterSize(z, a)
    BY DEF Rounds
  <2> HIDE DEF a, s, z, rounds
  <2> QED BY <1>1, <2>1, SameSizes
<1>6. Sizes5(s) = rounds * (s[a] * n)
  <2> HIDE DEF a, s
  <2> QED BY <1>1, <1>3, <1>5, SizesCut
<1>7. n \in Nat \ {0} /\ rounds \in Nat \ {0} /\ s[a] \in Nat \ {0}
  <2> HIDE DEF a, s, n, rounds
  <2> QED BY <1>1, <1>3, <1>5, InnerIsNat
<1> DEFINE sa == s[a]
           bytes == w.bytes
<1>8. /\ sa \in Nat \ {0} /\ sa * u = d /\ base * u = n * bytes /\ Sizes5(s) = rounds * (sa * n)
      /\ Size(t) = Sizes5(s) * bytes /\ bytes \in 1..4
  BY <1>1, <1>2, <1>3, <1>6, <1>7
<1> HIDE DEF a, u, s, base, rounds, n, d, sa, bytes
<1>9. base \in Nat \ {0}
  <2>1. n * bytes > 0
    BY <1>7, <1>8
  <2>2. base > 0
    <3>1. ASSUME base <= 0
          PROVE  base * u <= 0
      BY <1>1, <1>4, <3>1
    <3> QED BY <1>1, <1>4, <1>8, <2>1, <3>1
  <2> QED BY <1>4, <2>2
<1>10. base * d = sa * (n * bytes)
  BY <1>1, <1>4, <1>8
<1>11. Size(t) = rounds * (base * d)
  <2>1. rounds * (sa * n) * bytes = rounds * (sa * (n * bytes))
    BY <1>7, <1>8
  <2> QED BY <1>8, <1>10, <2>1
<1> QED BY <1>2, <1>7, <1>9, <1>11 DEF base, rounds, d

(* Two numbers that differ in digit a are cut there alike.                 *)
LEMMA CutAlike ==
  ASSUME NEW s, NEW y, NEW z, NEW v, NEW a \in 1..5, FiveDigits(s, y, a), FiveDigits(z, v, a),
         \A i \in 1..5 \ {a} : s[i] = z[i] /\ y[i] = v[i]
  PROVE  LET k == HighPart(s, y, a)
             n == InnerSize(z, a)
             rest == LowPart(s, y, a)
         IN  /\ k \in 0..OuterSize(z, a) - 1 /\ k \in Int
             /\ CutAt(k * s[a] + y[a], n, rest, Horner(s, y))
             /\ CutAt(k * z[a] + v[a], n, rest, Horner(z, v))
<1>1. HighPart(s, y, a) = HighPart(z, v, a) /\ LowPart(s, y, a) = LowPart(z, v, a)
  <2>1. AgreeBut(s, y, z, v, a)
    BY DEF AgreeBut
  <2> QED BY <2>1, SameDigits
<1>2. InnerSize(s, a) = InnerSize(z, a) /\ OuterSize(s, a) = OuterSize(z, a)
  BY SameSizes
<1>3. HighPart(s, y, a) \in 0..OuterSize(s, a) - 1 /\ OuterSize(s, a) \in Nat
  BY HighBound
<1>4. HighPart(s, y, a) \in Int
  BY <1>3
<1>5. CutAt(HighPart(s, y, a) * s[a] + y[a], InnerSize(s, a), LowPart(s, y, a), Horner(s, y))
  BY <1>4, CutBelow
<1>6. CutAt(HighPart(z, v, a) * z[a] + v[a], InnerSize(z, a), LowPart(z, v, a), Horner(z, v))
  BY <1>1, <1>4, CutBelow
<1> QED BY <1>1, <1>2, <1>3, <1>4, <1>5, <1>6

(* The byte r of an element of a part is byte j of some round k, in the    *)
(* part and in the whole.                                                  *)
LEMMA LayoutCut ==
  ASSUME NEW l, NEW dim, NEW w, NEW t, Cuttable(l, dim, w, t), NEW x \in Elements(t),
         NEW r \in 0..t.bytes - 1, NEW before \in Nat, before % CutUnit(l, dim, w) = 0,
         before + t.shape[dim] <= w.shape[dim]
  PROVE  LET base == Base(l, dim, w)
             run == base * t.shape[dim]
         IN  \E k \in 0..Rounds(l, dim, w) - 1, j \in 0..run - 1 :
               /\ LayoutPlace(l, t, x) + r = t.at + (k * run + j)
               /\ LayoutPlace(l, w, Shifted(x, dim, before)) + r
                    = w.at + (k * (base * w.shape[dim]) + (base * before + j))
<1> DEFINE a == CutDigit(l, dim)
           u == CutUnit(l, dim, w)
           s == LayoutSizes(l, t)
           z == LayoutSizes(l, w)
           y == LayoutDigits(l, t, x)
           v == LayoutDigits(l, w, Shifted(x, dim, before))
           base == Base(l, dim, w)
           n == InnerSize(z, a)
           d == t.shape[dim]
           e == w.shape[dim]
           sa == s[a]
           za == z[a]
           ya == y[a]
           m == before \div u
           bytes == w.bytes
           k == HighPart(s, y, a)
<1>1. /\ a \in 1..5 /\ u \in Nat \ {0} /\ \A i \in 1..5 \ {a} : s[i] = z[i]
      /\ sa * u = d /\ za * u = e /\ base * u = n * bytes
  BY CutSizes
<1>2. /\ \A i \in 1..5 \ {a} : y[i] = v[i]
      /\ m \in Nat /\ m * u = before /\ v[a] = ya + m
      /\ \A q \in Dims : Shifted(x, dim, before)[q] \in 0..w.shape[q] - 1
  BY ShiftedDigits
<1>3. /\ l \in Layouts /\ LaidOut(l, t) /\ LaidOut(l, w) /\ t.bytes = bytes /\ bytes \in 1..4
      /\ t.at \in Nat /\ w.at \in Nat /\ w \in Tensors
  BY SizeIsNat DEF Cuttable, LaidOut
<1>4. /\ s[1] \in Nat \ {0} /\ s[2] \in Nat \ {0} /\ s[3] \in Nat \ {0} /\ s[4] \in Nat \ {0}
      /\ s[5] \in Nat \ {0}
      /\ z[1] \in Nat \ {0} /\ z[2] \in Nat \ {0} /\ z[3] \in Nat \ {0} /\ z[4] \in Nat \ {0}
      /\ z[5] \in Nat \ {0}
  BY <1>3, LayoutTyped
<1>5. /\ \A i \in 1..5 : y[i] \in 0..s[i] - 1
      /\ \A q \in Dims : x[q] \in 0..t.shape[q] - 1
  BY <1>3, ElementDigits
<1>6. LayoutPlace(l, t, x) = t.at + bytes * Horner(s, y)
  <2>1. \A q \in Dims : x[q] \in Int
    BY <1>5
  <2> QED BY <1>3, <1>5, <2>1, LayoutNumber DEF Dims
<1>7. LayoutPlace(l, w, Shifted(x, dim, before)) = w.at + bytes * Horner(z, v)
  <2>1. \A q \in Dims : Shifted(x, dim, before)[q] \in Int
    BY <1>2
  <2> QED BY <1>2, <1>3, <2>1, LayoutNumber DEF Dims
<1>8. /\ k \in 0..Rounds(l, dim, w) - 1 /\ k \in Int
      /\ CutAt(k * sa + ya, n, LowPart(s, y, a), Horner(s, y))
      /\ CutAt(k * za + (ya + m), n, LowPart(s, y, a), Horner(z, v))
  <2>0. OuterSize(z, a) = Rounds(l, dim, w)
    BY DEF Rounds
  <2> HIDE DEF a, s, z, y, v
  <2>1. FiveDigits(s, y, a)
    BY <1>4, <1>5 DEF FiveDigits
  <2>2. \A i \in 1..5 \ {a} : s[i] = z[i] /\ y[i] = v[i]
    BY <1>1, <1>2
  <2>4. FiveDigits(z, v, a)
    <3>1. v[a] \in Int /\ \A i \in 1..5 \ {a} : v[i] \in 0..z[i] - 1
      BY <1>1, <1>2, <1>5
    <3>2. \A i \in 1..5 : v[i] \in Int
      BY <3>1
    <3> QED BY <1>4, <3>1, <3>2 DEF FiveDigits
  <2>5. a \in 1..5 /\ v[a] = ya + m
    BY <1>1, <1>2
  <2>6. /\ k \in 0..OuterSize(z, a) - 1 /\ k \in Int
        /\ CutAt(k * sa + ya, n, LowPart(s, y, a), Horner(s, y))
        /\ CutAt(k * za + v[a], n, LowPart(s, y, a), Horner(z, v))
    BY <2>1, <2>2, <2>4, <2>5, CutAlike
  <2> QED BY <2>0, <2>5, <2>6
<1>9. sa \in Nat \ {0} /\ za \in Nat \ {0} /\ ya \in 0..sa - 1
  BY <1>1, <1>4, <1>5
<1>10. base \in Nat \ {0} /\ d \in Nat \ {0}
  BY RoundsOfPart
<1> DEFINE hs == Horner(s, y)
           hz == Horner(z, v)
           rest == LowPart(s, y, a)
           f == k * sa + ya
           g == k * za + (ya + m)
<1>11. CutAt(f, n, rest, hs) /\ CutAt(g, n, rest, hz)
  BY <1>8
<1>12. k \in 0..Rounds(l, dim, w) - 1
  BY <1>8
<1> HIDE DEF a, u, s, z, y, v, base, n, d, e, sa, za, ya, m, bytes, k, hs, hz, rest
<1>13. f \in Int /\ g \in Int
  BY <1>2, <1>8, <1>9
<1> HIDE DEF f, g
<1> DEFINE q == n * bytes
           low == rest * bytes + r
<1>14. /\ q \in Nat /\ low \in 0..q - 1
       /\ hs * bytes + r = f * q + low /\ hz * bytes + r = g * q + low
  <2>1. CutAt(f, q, low, hs * bytes + r) /\ CutAt(g, q, low, hz * bytes + r)
    BY <1>3, <1>11, <1>13, NextDigit
  <2> QED BY <2>1 DEF CutAt
<1>15. q = base * u
  BY <1>1
<1> HIDE DEF q, low
<1> DEFINE run == base * d
           j == ya * q + low
<1>16. sa * q = run /\ za * q = base * e /\ m * q = base * before
  <2>1. sa * (base * u) = base * (sa * u) /\ za * (base * u) = base * (za * u) /\ m * (base * u) = base * (m * u)
    BY <1>1, <1>2, <1>9, <1>10
  <2> QED BY <1>1, <1>2, <1>15, <2>1
<1>17. j \in 0..run - 1
  <2>1. j \in 0..sa * q - 1
    BY <1>9, <1>14, RowBound
  <2> QED BY <1>16, <2>1
<1>18. f * q + low = k * run + j
  <2>1. (k * sa + ya) * q + low = k * (sa * q) + (ya * q + low)
    BY <1>8, <1>9, <1>14
  <2> QED BY <1>16, <2>1 DEF f
<1>19. g * q + low = k * (base * e) + (base * before + j)
  <2>1. (k * za + (ya + m)) * q + low = k * (za * q) + (m * q + (ya * q + low))
    BY <1>2, <1>8, <1>9, <1>14
  <2> QED BY <1>16, <2>1 DEF g
<1>20. hs \in Int /\ hz \in Int
  <2>1. n \in Nat /\ rest \in 0..n - 1 /\ hs = f * n + rest /\ hz = g * n + rest
    BY <1>11 DEF CutAt
  <2> QED BY <1>13, <2>1
<1>21. /\ t.at + bytes * hs + r = t.at + (hs * bytes + r)
       /\ w.at + bytes * hz + r = w.at + (hz * bytes + r)
  BY <1>3, <1>20
<1>22. LayoutPlace(l, t, x) = t.at + bytes * hs /\ LayoutPlace(l, w, Shifted(x, dim, before)) = w.at + bytes * hz
  BY <1>6, <1>7 DEF hs, hz
<1>23. /\ LayoutPlace(l, t, x) + r = t.at + (k * run + j)
       /\ LayoutPlace(l, w, Shifted(x, dim, before)) + r = w.at + (k * (base * e) + (base * before + j))
  <2> HIDE DEF run, j
  <2> QED BY <1>14, <1>18, <1>19, <1>21, <1>22
<1> HIDE DEF j
<1> QED BY <1>12, <1>17, <1>23 DEF base, d, e

-----------------------------------------------------------------------------
(***************************************************************************)
(* A tensor cut into parts: where each byte of a part is in the whole.     *)
(***************************************************************************)

(* A number below the sum of a list is in one part of it.                  *)
LEMMA WhichPart ==
  ASSUME NEW n \in Nat, NEW ns \in [1..n -> Nat], NEW v \in 0..Total(ns) - 1
  PROVE  \E i \in 1..n : \E j \in 0..ns[i] - 1 : v = Total(First(ns, i - 1)) + j
<1> DEFINE Goal == \E i \in 1..n : \E j \in 0..ns[i] - 1 : v = Total(First(ns, i - 1)) + j
           S == {k \in 0..n : v < Total(First(ns, k)) => Goal}
<1>1. 0 \in S
  BY PrefixSums
<1>2. ASSUME NEW k \in 0..n - 1, k \in S
      PROVE  k + 1 \in S
  <2> DEFINE i == k + 1
  <2>1. i \in 1..n /\ i - 1 = k
    OBVIOUS
  <2>2. Total(First(ns, k)) \in Nat /\ Total(First(ns, i)) = Total(First(ns, k)) + ns[i] /\ ns[i] \in Nat
    BY <2>1, Sums
  <2>3. CASE v < Total(First(ns, k))
    BY <1>2, <2>1, <2>3
  <2>4. CASE v >= Total(First(ns, k)) /\ v < Total(First(ns, i))
    <3> DEFINE j == v - Total(First(ns, k))
    <3>1. j \in 0..ns[i] - 1 /\ v = Total(First(ns, k)) + j
      BY <2>2, <2>4
    <3>2. v = Total(First(ns, i - 1)) + j
      BY <2>1, <3>1
    <3> HIDE DEF j, i
    <3>3. Goal
      BY <2>1, <3>1, <3>2
    <3> HIDE DEF Goal
    <3> QED BY <2>1, <3>3 DEF i
  <2>5. CASE v >= Total(First(ns, i))
    BY <2>1, <2>2, <2>5
  <2> QED BY <2>2, <2>3, <2>4, <2>5
<1>3. \A k \in 0..n : k \in S
  <2> HIDE DEF S
  <2> QED BY <1>1, <1>2, BoundedInduction
<1>4. First(ns, n) = ns
  BY FirstIsAll
<1>5. n \in S
  <2> HIDE DEF S
  <2> QED BY <1>3
<1>6. v < Total(First(ns, n))
  <2>1. Total(ns) \in Nat
    BY TotalNat
  <2> QED BY <1>4, <2>1
<1> HIDE DEF Goal
<1>7. Goal
  BY <1>5, <1>6
<1> QED BY <1>7 DEF Goal

(* The sum of the first parts grows with their number.                     *)
LEMMA PrefixMonotone ==
  ASSUME NEW n \in Nat, NEW ns \in [1..n -> Nat], NEW a \in 0..n, NEW b \in a..n
  PROVE  Total(First(ns, a)) <= Total(First(ns, b))
<1>1. First(ns, b) \in [1..b -> Nat] /\ b \in Nat /\ a \in 0..b
  BY DEF First
<1>2. First(First(ns, b), a) = First(ns, a)
  BY DEF First
<1>3. Total(First(First(ns, b), a)) <= Total(First(ns, b))
  <2> DEFINE f == First(ns, b)
  <2>1. f \in [1..b -> Nat]
    BY <1>1
  <2> HIDE DEF f
  <2>2. Total(First(f, a)) <= Total(f)
    BY <1>1, <2>1, TotalMonotone
  <2> QED BY <2>2 DEF f
<1> QED BY <1>2, <1>3

(* A number is in one part only, at one place of it.                       *)
LEMMA OnePart ==
  ASSUME NEW n \in Nat, NEW ns \in [1..n -> Nat], NEW i \in 1..n, NEW m \in 1..n,
         NEW j \in 0..ns[i] - 1, NEW l \in 0..ns[m] - 1,
         Total(First(ns, i - 1)) + j = Total(First(ns, m - 1)) + l
  PROVE  i = m /\ j = l
<1>1. /\ Total(First(ns, i - 1)) \in Nat /\ Total(First(ns, i)) = Total(First(ns, i - 1)) + ns[i]
      /\ Total(First(ns, m - 1)) \in Nat /\ Total(First(ns, m)) = Total(First(ns, m - 1)) + ns[m]
      /\ ns[i] \in Nat /\ ns[m] \in Nat
  BY Sums
<1>2. i < m => Total(First(ns, i)) <= Total(First(ns, m - 1))
  <2>1. ASSUME i < m
        PROVE  i \in 0..n /\ m - 1 \in i..n
    BY <2>1
  <2> QED BY <2>1, PrefixMonotone
<1>3. m < i => Total(First(ns, m)) <= Total(First(ns, i - 1))
  <2>1. ASSUME m < i
        PROVE  m \in 0..n /\ i - 1 \in m..n
    BY <2>1
  <2> QED BY <2>1, PrefixMonotone
<1>4. i = m
  <2> DEFINE a == Total(First(ns, i - 1))
             b == Total(First(ns, m - 1))
             c == ns[i]
             d == ns[m]
  <2>1. /\ a \in Nat /\ b \in Nat /\ c \in Nat /\ d \in Nat /\ j \in 0..c - 1 /\ l \in 0..d - 1
        /\ a + j = b + l /\ (i < m => a + c <= b) /\ (m < i => b + d <= a)
    BY <1>1, <1>2, <1>3
  <2> HIDE DEF a, b, c, d
  <2> QED BY <2>1
<1> QED BY <1>1, <1>4

(* A tensor w and the tensors it is cut into along dim.                    *)
IsCut(l, dim, w, parts) ==
  PartsOf(w, parts, dim) /\ \A i \in DOMAIN parts : Cuttable(l, dim, w, parts[i])

(* The indices before a part are whole blocks of channels, and leave room  *)
(* for the part.                                                           *)
LEMMA BeforePart ==
  ASSUME NEW l, NEW dim, NEW w, NEW parts, IsCut(l, dim, w, parts), NEW i \in DOMAIN parts
  PROVE  LET before == Before(parts, i, dim)
         IN  /\ before \in Nat /\ before % CutUnit(l, dim, w) = 0
             /\ before + parts[i].shape[dim] <= w.shape[dim]
<1> DEFINE n == Len(parts)
           ns == [k \in DOMAIN parts |-> parts[k].shape[dim]]
           u == CutUnit(l, dim, w)
           ms == [k \in 1..n |-> ns[k] \div u]
<1>1. n \in Nat /\ DOMAIN parts = 1..n /\ ns \in [1..n -> Nat] /\ Total(ns) = w.shape[dim]
  BY PartSizes DEF IsCut, PartsOf
<1>2. Before(parts, i, dim) = Total(First(ns, i - 1))
  <2>1. [j \in 1..i - 1 |-> parts[j].shape[dim]] = First(ns, i - 1)
    BY <1>1 DEF First
  <2> QED BY <2>1 DEF Before
<1>3. /\ Total(First(ns, i - 1)) \in Nat /\ Total(First(ns, i)) = Total(First(ns, i - 1)) + ns[i]
      /\ Total(First(ns, i)) <= Total(ns)
  <2> HIDE DEF ns, n
  <2> QED BY <1>1, Sums
<1>4. u \in Nat \ {0} /\ \A k \in 1..n : ns[k] \div u \in Nat /\ ns[k] = u * (ns[k] \div u)
  <2>1. u \in Nat \ {0}
    BY CutSizes DEF IsCut
  <2>2. ASSUME NEW k \in 1..n
        PROVE  ns[k] % u = 0 /\ ns[k] \in Nat
    <3> DEFINE t == parts[k]
    <3>0. ns[k] = t.shape[dim] /\ t \in Tensors /\ Cuttable(l, dim, w, t) /\ ns[k] \in Nat
      BY <1>1 DEF IsCut, Cuttable, LaidOut
    <3>1. CASE l = "batched" /\ dim = "C"
      <4>1. u = t.batch
        BY <3>0, <3>1 DEF CutUnit, Cuttable
      <4> QED BY <3>0, <3>1, <4>1, SizeIsNat
    <3>2. CASE ~(l = "batched" /\ dim = "C")
      <4>1. u = 1
        BY <3>2 DEF CutUnit
      <4> HIDE DEF u, ns, t
      <4> QED BY <3>0, <4>1
    <3> QED BY <3>1, <3>2
  <2> HIDE DEF u, ns, n
  <2>3. ASSUME NEW k \in 1..n
        PROVE  ns[k] \div u \in Nat /\ ns[k] = u * (ns[k] \div u)
    <3> DEFINE x == ns[k]
    <3>1. x % u = 0 /\ x \in Nat
      BY <2>2
    <3> HIDE DEF x
    <3>2. x \div u \in Nat /\ x = u * (x \div u)
      BY <2>1, <3>1
    <3> QED BY <3>2 DEF x
  <2> QED BY <2>1, <2>3
<1>5. Total(First(ns, i - 1)) = u * Total(First(ms, i - 1)) /\ Total(First(ms, i - 1)) \in Nat
  <2>1. ms \in [1..n -> Nat]
    BY <1>4
  <2> HIDE DEF ms, u
  <2> DEFINE fs == First(ms, i - 1)
  <2>2. fs \in [1..i - 1 -> Int] /\ i - 1 \in Nat /\ u \in Int
    BY <1>1, <1>4, <2>1 DEF First
  <2>3. \A k \in 1..i - 1 : fs[k] = ms[k]
    BY DEF First
  <2>4. First(ns, i - 1) = [k \in 1..i - 1 |-> u * fs[k]]
    <3>1. \A k \in 1..i - 1 : ns[k] = u * fs[k]
      <4> SUFFICES ASSUME NEW k \in 1..i - 1
                   PROVE  ns[k] = u * fs[k]
        OBVIOUS
      <4>1. k \in 1..n
        BY <1>1
      <4>2. fs[k] = ms[k]
        BY <2>3
      <4>3. ms[k] = ns[k] \div u
        BY <4>1 DEF ms
      <4>4. ns[k] = u * (ns[k] \div u)
        BY <1>4, <4>1
      <4> HIDE DEF ns, n, fs
      <4> QED BY <4>2, <4>3, <4>4
    <3> HIDE DEF ns, fs
    <3> QED BY <3>1 DEF First
  <2> HIDE DEF fs, ns
  <2>5. Total([k \in 1..i - 1 |-> u * fs[k]]) = u * Total(fs)
    BY <2>2, TotalScaled
  <2>6. Total(First(ms, i - 1)) \in Nat
    BY <1>1, <2>1, Sums
  <2> QED BY <2>4, <2>5, <2>6 DEF fs
<1>6. Total(First(ns, i - 1)) % u = 0
  <2> DEFINE m == Total(First(ms, i - 1))
  <2>1. m \in Nat /\ u \in Nat \ {0} /\ Total(First(ns, i - 1)) = m * u + 0
    BY <1>4, <1>5
  <2> HIDE DEF m, u, ns
  <2>2. 0 \in 0..u - 1 /\ m \in Int /\ u \in Nat
    BY <2>1
  <2>3. (m * u + 0) % u = 0
    BY <2>2, QuotientAndRest
  <2> QED BY <2>1, <2>3
<1>7. ns[i] = parts[i].shape[dim] /\ ns[i] \in Nat
  BY <1>1
<1> HIDE DEF ns, u
<1> QED BY <1>1, <1>2, <1>3, <1>6, <1>7 DEF u

(* A tensor's bytes of each round, and where byte e of part i is in w.     *)
Share(l, dim, w, t) == Base(l, dim, w) * t.shape[dim]
Lead(l, dim, w, parts, i) == Base(l, dim, w) * Before(parts, i, dim)
DealtTo(l, dim, w, parts, i, e) ==
  LET run == Share(l, dim, w, parts[i])
  IN  w.at + ((e \div run) * Share(l, dim, w, w) + (Lead(l, dim, w, parts, i) + (e % run)))

(* The shares of the parts make up that of the whole, and the lead of a    *)
(* part is the shares before it.                                           *)
LEMMA ShareFacts ==
  ASSUME NEW l, NEW dim, NEW w, NEW parts, IsCut(l, dim, w, parts)
  PROVE  LET n == Len(parts)
             runs == [i \in 1..n |-> Share(l, dim, w, parts[i])]
             rounds == Rounds(l, dim, w)
         IN  /\ n \in Nat \ {0} /\ DOMAIN parts = 1..n /\ w \in Tensors /\ w.at \in Nat
             /\ rounds \in Nat \ {0} /\ Size(w) = rounds * Share(l, dim, w, w)
             /\ Share(l, dim, w, w) \in Nat \ {0}
             /\ runs \in [1..n -> Nat \ {0}] /\ Total(runs) = Share(l, dim, w, w)
             /\ \A i \in 1..n : /\ Size(parts[i]) = rounds * runs[i] /\ parts[i].at \in Nat
                                /\ parts[i] \in Tensors /\ parts[i].bytes = w.bytes
                                /\ Share(l, dim, w, parts[i]) \in Nat \ {0}
                                /\ Lead(l, dim, w, parts, i) = Total(First(runs, i - 1))
<1> DEFINE n == Len(parts)
           ns == [i \in DOMAIN parts |-> parts[i].shape[dim]]
           base == Base(l, dim, w)
           runs == [i \in 1..n |-> Share(l, dim, w, parts[i])]
           rounds == Rounds(l, dim, w)
<1>1. /\ n \in Nat \ {0} /\ DOMAIN parts = 1..n /\ ns \in [1..n -> Nat] /\ Total(ns) = w.shape[dim]
      /\ w \in Tensors /\ dim \in Dims
  BY PartSizes DEF IsCut, PartsOf
<1>2. ASSUME NEW i \in 1..n
      PROVE  /\ Cuttable(l, dim, w, parts[i]) /\ rounds \in Nat \ {0} /\ base \in Nat \ {0}
             /\ parts[i].shape[dim] \in Nat \ {0} /\ parts[i].at \in Nat
             /\ Size(parts[i]) = rounds * (base * parts[i].shape[dim])
             /\ parts[i] \in Tensors /\ parts[i].bytes = w.bytes
  <2>1. Cuttable(l, dim, w, parts[i])
    BY <1>1 DEF IsCut
  <2> QED BY <2>1, RoundsOfPart DEF Cuttable, LaidOut
<1>3. base \in Nat \ {0} /\ rounds \in Nat \ {0} /\ Cuttable(l, dim, w, w)
  <2>1. 1 \in 1..n
    BY <1>1
  <2>2. Cuttable(l, dim, w, parts[1])
    BY <1>2, <2>1
  <2>3. Cuttable(l, dim, w, w)
    BY <2>2 DEF Cuttable
  <2> QED BY <1>2, <2>1, <2>3
<1>4. /\ Size(w) = rounds * (base * w.shape[dim]) /\ w.shape[dim] \in Nat \ {0} /\ w.at \in Nat
  BY <1>3, RoundsOfPart
<1>5. Share(l, dim, w, w) = base * w.shape[dim] /\ \A i \in 1..n : Share(l, dim, w, parts[i]) = base * ns[i]
  BY <1>1 DEF Share
<1>6. \A i \in 1..n : ns[i] = parts[i].shape[dim] /\ ns[i] \in Nat \ {0}
  BY <1>1, <1>2
<1> HIDE DEF base, rounds, ns, n
<1>7. runs = [i \in 1..n |-> base * ns[i]]
  BY <1>5
<1>8. Total(runs) = base * Total(ns)
  <2>1. n \in Nat /\ ns \in [1..n -> Int] /\ base \in Int
    BY <1>1, <1>3
  <2>2. Total([i \in 1..n |-> base * ns[i]]) = base * Total(ns)
    BY <2>1, TotalScaled
  <2> QED BY <1>7, <2>2
<1>9. \A i \in 1..n : base * ns[i] \in Nat \ {0}
  BY <1>3, <1>6, ProductNat
<1>10. Share(l, dim, w, w) \in Nat \ {0}
  BY <1>3, <1>4, <1>5, ProductNat
<1>11. ASSUME NEW i \in 1..n
       PROVE  Lead(l, dim, w, parts, i) = Total(First(runs, i - 1))
  <2> DEFINE fs == First(ns, i - 1)
  <2>1. fs \in [1..i - 1 -> Int] /\ i - 1 \in Nat /\ base \in Int
    <3>1. \A k \in 1..i - 1 : k \in 1..n
      BY <1>1
    <3> QED BY <1>1, <1>3, <3>1 DEF First
  <2>2. First(runs, i - 1) = [k \in 1..i - 1 |-> base * fs[k]]
    <3>1. ASSUME NEW k \in 1..i - 1
          PROVE  runs[k] = base * fs[k]
      <4>1. k \in 1..n
        BY <1>1
      <4> QED BY <1>7, <4>1 DEF First
    <3> HIDE DEF runs, fs
    <3> QED BY <3>1 DEF First
  <2>3. Before(parts, i, dim) = Total(fs)
    <3>1. [j \in 1..i - 1 |-> parts[j].shape[dim]] = fs
      <4>1. \A j \in 1..i - 1 : j \in 1..n
        BY <1>1
      <4> QED BY <1>6, <4>1 DEF First
    <3> QED BY <3>1 DEF Before
  <2> HIDE DEF fs, runs
  <2>4. Total([k \in 1..i - 1 |-> base * fs[k]]) = base * Total(fs)
    BY <2>1, TotalScaled
  <2> QED BY <2>2, <2>3, <2>4 DEF Lead, base
<1>12. \A i \in 1..n : runs[i] = Share(l, dim, w, parts[i]) /\ Share(l, dim, w, parts[i]) \in Nat \ {0}
  BY <1>5, <1>9
<1>13. runs \in [1..n -> Nat \ {0}]
  BY <1>7, <1>9
<1>14. \A i \in 1..n : Size(parts[i]) = rounds * runs[i]
  <2> HIDE DEF runs
  <2> QED BY <1>2, <1>5, <1>6, <1>12
<1>15. Size(w) = rounds * Share(l, dim, w, w)
  BY <1>4, <1>5
<1>16. Total(runs) = Share(l, dim, w, w)
  BY <1>1, <1>5, <1>8
<1> HIDE DEF runs
<1> QED BY <1>1, <1>2, <1>3, <1>4, <1>10, <1>11, <1>12, <1>13, <1>14, <1>15, <1>16 DEF runs, rounds, n

(* Byte r of an element of a part is byte e of the part, and is where e is *)
(* in the whole; and every byte of the part is one of an element.          *)
LEMMA ElementIsDealt ==
  ASSUME NEW l, NEW dim, NEW w, NEW parts, IsCut(l, dim, w, parts), NEW i \in DOMAIN parts,
         NEW x \in Elements(parts[i]), NEW r \in 0..w.bytes - 1
  PROVE  \E e \in 0..Size(parts[i]) - 1 :
           /\ LayoutPlace(l, parts[i], x) + r = parts[i].at + e
           /\ LayoutPlace(l, w, Shifted(x, dim, Before(parts, i, dim))) + r
                = DealtTo(l, dim, w, parts, i, e)
<1> DEFINE t == parts[i]
           base == Base(l, dim, w)
           run == base * t.shape[dim]
           before == Before(parts, i, dim)
           rounds == Rounds(l, dim, w)
<1>1. /\ Cuttable(l, dim, w, t) /\ t.bytes = w.bytes /\ i \in 1..Len(parts)
      /\ rounds \in Nat \ {0} /\ run \in Nat \ {0} /\ Size(t) = rounds * run
  <2>1. /\ i \in 1..Len(parts) /\ parts[i].bytes = w.bytes /\ Share(l, dim, w, parts[i]) \in Nat \ {0}
        /\ rounds \in Nat \ {0} /\ Share(l, dim, w, parts[i]) = run
    <3>1. DOMAIN parts = 1..Len(parts) /\ rounds \in Nat \ {0}
      BY ShareFacts
    <3>2. i \in 1..Len(parts)
      BY <3>1
    <3>3. Cuttable(l, dim, w, t)
      BY DEF IsCut
    <3>4. base \in Nat \ {0} /\ t.shape[dim] \in Nat \ {0}
      BY <3>3, RoundsOfPart
    <3>5. base * t.shape[dim] \in Nat \ {0}
      <4> HIDE DEF base, t
      <4> QED BY <3>4, ProductNat
    <3> QED BY <3>1, <3>2, <3>3, <3>5 DEF Share, Cuttable
  <2>2. Cuttable(l, dim, w, t)
    BY DEF IsCut
  <2> QED BY <2>1, <2>2, RoundsOfPart
<1>2. before \in Nat /\ before % CutUnit(l, dim, w) = 0 /\ before + t.shape[dim] <= w.shape[dim]
  BY BeforePart
<1>3. r \in 0..t.bytes - 1 /\ x \in Elements(t)
  BY <1>1
<1> HIDE DEF t, before
<1>4. PICK k \in 0..rounds - 1, j \in 0..run - 1 :
        /\ LayoutPlace(l, t, x) + r = t.at + (k * run + j)
        /\ LayoutPlace(l, w, Shifted(x, dim, before)) + r
             = w.at + (k * (base * w.shape[dim]) + (base * before + j))
  BY <1>1, <1>2, <1>3, LayoutCut
<1> DEFINE e == k * run + j
<1> HIDE DEF run, rounds
<1>5. e \in 0..Size(t) - 1
  BY <1>1, RowBound
<1>6. e \div run = k /\ e % run = j
  <2>1. run \in Nat /\ k \in Int /\ j \in 0..run - 1
    BY <1>1, <1>4
  <2> QED BY <2>1, QuotientAndRest
<1>7. DealtTo(l, dim, w, parts, i, e) = w.at + (k * (base * w.shape[dim]) + (base * before + j))
  <2>1. /\ Share(l, dim, w, parts[i]) = run /\ Share(l, dim, w, w) = base * w.shape[dim]
        /\ Lead(l, dim, w, parts, i) = base * before
    BY DEF Share, Lead, run, t, before
  <2> HIDE DEF e, base
  <2> QED BY <1>6, <2>1 DEF DealtTo
<1> HIDE DEF e
<1>8. LayoutPlace(l, t, x) + r = t.at + e
  BY <1>4 DEF e
<1> QED BY <1>4, <1>5, <1>7, <1>8 DEF t, before

(* And every byte of a part, with where it is dealt to, is one of an       *)
(* element.                                                                *)
LEMMA DealtIsElement ==
  ASSUME NEW l, NEW dim, NEW w, NEW parts, IsCut(l, dim, w, parts), NEW i \in DOMAIN parts,
         NEW e \in 0..Size(parts[i]) - 1
  PROVE  \E x \in Elements(parts[i]), r \in 0..w.bytes - 1 :
           /\ LayoutPlace(l, parts[i], x) + r = parts[i].at + e
           /\ LayoutPlace(l, w, Shifted(x, dim, Before(parts, i, dim))) + r
                = DealtTo(l, dim, w, parts, i, e)
<1>1. /\ l \in Layouts /\ LaidOut(l, parts[i]) /\ parts[i].bytes = w.bytes /\ parts[i].at \in Nat
  BY SizeIsNat DEF IsCut, Cuttable, LaidOut
<1>2. PICK x \in Elements(parts[i]), r \in 0..parts[i].bytes - 1 :
        LayoutPlace(l, parts[i], x) + r = parts[i].at + e
  BY <1>1, LayoutOnto
<1>3. PICK d \in 0..Size(parts[i]) - 1 :
        /\ LayoutPlace(l, parts[i], x) + r = parts[i].at + d
        /\ LayoutPlace(l, w, Shifted(x, dim, Before(parts, i, dim))) + r
             = DealtTo(l, dim, w, parts, i, d)
  BY <1>1, ElementIsDealt
<1>4. d = e
  <2>1. parts[i].at + d = parts[i].at + e /\ d \in Int /\ e \in Int
    BY <1>2, <1>3
  <2> QED BY <1>1, <2>1
<1> QED BY <1>1, <1>2, <1>3, <1>4

(* Concat: byte e of an input belongs where it is dealt to in the output.  *)
LEMMA ConcatMoves ==
  ASSUME call.op = "Concat", NEW l, l # "onnx", IsCut(l, call.dim, call.out, call.ins)
  PROVE  /\ \A f \in Bytewise : \E i \in DOMAIN call.ins : \E e \in 0..Size(call.ins[i]) - 1 :
               f = <<DealtTo(l, call.dim, call.out, call.ins, i, e), call.ins[i].at + e>>
         /\ \A i \in DOMAIN call.ins : \A e \in 0..Size(call.ins[i]) - 1 :
               <<DealtTo(l, call.dim, call.out, call.ins, i, e), call.ins[i].at + e>> \in Bytewise
<1> DEFINE w == call.out
           parts == call.ins
           dim == call.dim
           to(i, x) == LayoutPlace(l, w, Shifted(x, dim, Before(parts, i, dim)))
           from(i, x) == LayoutPlace(l, parts[i], x)
           bytes == w.bytes
<1>1. ElementBytes = bytes
  BY DEF ElementBytes, Elementwise, Outputs
<1>2. Moves = UNION {{<<to(i, x), from(i, x)>> : x \in Elements(parts[i])} : i \in DOMAIN parts}
  BY DEF Moves, LayoutPlace
<1>3. Bytewise = UNION {{<<m[1] + k, m[2] + k>> : k \in 0..bytes - 1} : m \in Moves}
  BY <1>1 DEF Bytewise
<1>4. \A i \in DOMAIN parts : \A x \in Elements(parts[i]), r \in 0..bytes - 1 :
        \E e \in 0..Size(parts[i]) - 1 :
          from(i, x) + r = parts[i].at + e /\ to(i, x) + r = DealtTo(l, dim, w, parts, i, e)
  BY ElementIsDealt
<1>5. \A i \in DOMAIN parts : \A e \in 0..Size(parts[i]) - 1 :
        \E x \in Elements(parts[i]), r \in 0..bytes - 1 :
          from(i, x) + r = parts[i].at + e /\ to(i, x) + r = DealtTo(l, dim, w, parts, i, e)
  BY DealtIsElement
<1> HIDE DEF w, parts, dim, to, from, bytes
<1>6. ASSUME NEW f \in Bytewise
      PROVE  \E i \in DOMAIN parts : \E e \in 0..Size(parts[i]) - 1 :
               f = <<DealtTo(l, dim, w, parts, i, e), parts[i].at + e>>
  <2>0. PICK i \in DOMAIN parts : \E x \in Elements(parts[i]), r \in 0..bytes - 1 :
          f = <<to(i, x) + r, from(i, x) + r>>
    BY <1>2, <1>3
  <2>1. PICK x \in Elements(parts[i]), r \in 0..bytes - 1 : f = <<to(i, x) + r, from(i, x) + r>>
    BY <2>0
  <2>2. PICK e \in 0..Size(parts[i]) - 1 :
          from(i, x) + r = parts[i].at + e /\ to(i, x) + r = DealtTo(l, dim, w, parts, i, e)
    BY <1>4
  <2> QED BY <2>1, <2>2
<1>7. ASSUME NEW i \in DOMAIN parts, NEW e \in 0..Size(parts[i]) - 1
      PROVE  <<DealtTo(l, dim, w, parts, i, e), parts[i].at + e>> \in Bytewise
  <2>1. PICK x \in Elements(parts[i]), r \in 0..bytes - 1 :
          from(i, x) + r = parts[i].at + e /\ to(i, x) + r = DealtTo(l, dim, w, parts, i, e)
    BY <1>5
  <2>2. <<to(i, x), from(i, x)>> \in Moves
    BY <1>2
  <2> DEFINE m == <<to(i, x), from(i, x)>>
  <2>3. <<m[1] + r, m[2] + r>> \in Bytewise
    <3> HIDE DEF m
    <3>1. m \in Moves
      BY <2>2 DEF m
    <3> QED BY <1>3, <3>1
  <2> QED BY <2>1, <2>3
<1> QED BY <1>6, <1>7 DEF w, parts, dim

(* Split: byte e of an output is taken from where it is dealt to.          *)
LEMMA SplitMoves ==
  ASSUME call.op = "Split", NEW l, l = "onnx" <=> call.case = "sw_onnx",
         IsCut(l, call.dim, call.in, call.outs)
  PROVE  /\ \A f \in Bytewise : \E i \in DOMAIN call.outs : \E e \in 0..Size(call.outs[i]) - 1 :
               f = <<call.outs[i].at + e, DealtTo(l, call.dim, call.in, call.outs, i, e)>>
         /\ \A i \in DOMAIN call.outs : \A e \in 0..Size(call.outs[i]) - 1 :
               <<call.outs[i].at + e, DealtTo(l, call.dim, call.in, call.outs, i, e)>> \in Bytewise
<1> DEFINE w == call.in
           parts == call.outs
           dim == call.dim
           from(i, x) == LayoutPlace(l, w, Shifted(x, dim, Before(parts, i, dim)))
           to(i, x) == LayoutPlace(l, parts[i], x)
           bytes == w.bytes
<1>1. ElementBytes = bytes
  <2>1. ElementBytes = call.outs[1].bytes
    BY DEF ElementBytes, Elementwise, Outputs
  <2>2. 1 \in DOMAIN parts /\ parts[1].bytes = w.bytes
    <3>1. PartsOf(w, parts, dim)
      BY DEF IsCut
    <3> HIDE DEF w, parts, dim
    <3>2. DOMAIN parts = 1..Len(parts) /\ Len(parts) \in Nat \ {0}
      BY <3>1, PartSizes
    <3>3. 1 \in DOMAIN parts
      BY <3>2
    <3> QED BY <3>1, <3>3 DEF PartsOf
  <2> QED BY <2>1, <2>2
<1>2. Moves = UNION {{<<to(i, x), from(i, x)>> : x \in Elements(parts[i])} : i \in DOMAIN parts}
  BY DEF Moves, LayoutPlace
<1>3. Bytewise = UNION {{<<m[1] + k, m[2] + k>> : k \in 0..bytes - 1} : m \in Moves}
  BY <1>1 DEF Bytewise
<1>4. \A i \in DOMAIN parts : \A x \in Elements(parts[i]), r \in 0..bytes - 1 :
        \E e \in 0..Size(parts[i]) - 1 :
          to(i, x) + r = parts[i].at + e /\ from(i, x) + r = DealtTo(l, dim, w, parts, i, e)
  BY ElementIsDealt
<1>5. \A i \in DOMAIN parts : \A e \in 0..Size(parts[i]) - 1 :
        \E x \in Elements(parts[i]), r \in 0..bytes - 1 :
          to(i, x) + r = parts[i].at + e /\ from(i, x) + r = DealtTo(l, dim, w, parts, i, e)
  BY DealtIsElement
<1> HIDE DEF w, parts, dim, to, from, bytes
<1>6. ASSUME NEW f \in Bytewise
      PROVE  \E i \in DOMAIN parts : \E e \in 0..Size(parts[i]) - 1 :
               f = <<parts[i].at + e, DealtTo(l, dim, w, parts, i, e)>>
  <2>0. PICK i \in DOMAIN parts : \E x \in Elements(parts[i]), r \in 0..bytes - 1 :
          f = <<to(i, x) + r, from(i, x) + r>>
    BY <1>2, <1>3
  <2>1. PICK x \in Elements(parts[i]), r \in 0..bytes - 1 : f = <<to(i, x) + r, from(i, x) + r>>
    BY <2>0
  <2>2. PICK e \in 0..Size(parts[i]) - 1 :
          to(i, x) + r = parts[i].at + e /\ from(i, x) + r = DealtTo(l, dim, w, parts, i, e)
    BY <1>4
  <2> QED BY <2>1, <2>2
<1>7. ASSUME NEW i \in DOMAIN parts, NEW e \in 0..Size(parts[i]) - 1
      PROVE  <<parts[i].at + e, DealtTo(l, dim, w, parts, i, e)>> \in Bytewise
  <2>1. PICK x \in Elements(parts[i]), r \in 0..bytes - 1 :
          to(i, x) + r = parts[i].at + e /\ from(i, x) + r = DealtTo(l, dim, w, parts, i, e)
    BY <1>5
  <2>2. <<to(i, x), from(i, x)>> \in Moves
    BY <1>2
  <2> DEFINE m == <<to(i, x), from(i, x)>>
  <2>3. <<m[1] + r, m[2] + r>> \in Bytewise
    <3> HIDE DEF m
    <3>1. m \in Moves
      BY <2>2 DEF m
    <3> QED BY <1>3, <3>1
  <2> QED BY <2>1, <2>3
<1> QED BY <1>6, <1>7 DEF w, parts, dim
Shares(l, dim, w, parts) == [k \in 1..Len(parts) |-> Share(l, dim, w, parts[k])]

(* A byte of a part is in one round, at one byte of the part's share.      *)
LEMMA RoundOfByte ==
  ASSUME NEW l, NEW dim, NEW w, NEW parts, IsCut(l, dim, w, parts), NEW i \in DOMAIN parts
  PROVE  LET runs == Shares(l, dim, w, parts)
             all == Share(l, dim, w, w)
             rounds == Rounds(l, dim, w)
         IN  /\ i \in 1..Len(parts) /\ Len(parts) \in Nat /\ runs \in [1..Len(parts) -> Nat]
             /\ runs[i] \in Nat \ {0} /\ all \in Nat \ {0} /\ rounds \in Nat \ {0} /\ w.at \in Nat
             /\ Total(runs) = all /\ Size(w) = rounds * all /\ Size(parts[i]) = rounds * runs[i]
             /\ Total(First(runs, i - 1)) \in Nat /\ Total(First(runs, i - 1)) + runs[i] <= all
             /\ \A e \in 0..Size(parts[i]) - 1 :
                  /\ e \div runs[i] \in 0..rounds - 1 /\ e % runs[i] \in 0..runs[i] - 1
                  /\ e = (e \div runs[i]) * runs[i] + (e % runs[i])
                  /\ DealtTo(l, dim, w, parts, i, e)
                       = w.at + ((e \div runs[i]) * all + (Total(First(runs, i - 1)) + (e % runs[i])))
<1> DEFINE n == Len(parts)
           runs == Shares(l, dim, w, parts)
           all == Share(l, dim, w, w)
           rounds == Rounds(l, dim, w)
<1>1. /\ n \in Nat \ {0} /\ DOMAIN parts = 1..n /\ w.at \in Nat
      /\ rounds \in Nat \ {0} /\ Size(w) = rounds * all /\ all \in Nat \ {0}
      /\ runs \in [1..n -> Nat \ {0}] /\ Total(runs) = all
  BY ShareFacts DEF Shares
<1>2. i \in 1..n
  BY <1>1
<1>3. Size(parts[i]) = rounds * runs[i] /\ Lead(l, dim, w, parts, i) = Total(First(runs, i - 1))
  BY <1>2, ShareFacts DEF Shares
<1>4. runs[i] = Share(l, dim, w, parts[i]) /\ runs[i] \in Nat \ {0}
  BY <1>1, <1>2 DEF Shares
<1>8. all = Share(l, dim, w, w)
  OBVIOUS
<1> HIDE DEF n, runs, all, rounds
<1>5. /\ Total(First(runs, i - 1)) \in Nat
      /\ Total(First(runs, i)) = Total(First(runs, i - 1)) + runs[i]
      /\ Total(First(runs, i)) <= Total(runs)
  <2>1. n \in Nat /\ runs \in [1..n -> Nat]
    BY <1>1
  <2> QED BY <1>2, <2>1, Sums
<1>6. ASSUME NEW e \in 0..Size(parts[i]) - 1
      PROVE  /\ e \div runs[i] \in 0..rounds - 1 /\ e % runs[i] \in 0..runs[i] - 1
             /\ e = (e \div runs[i]) * runs[i] + (e % runs[i])
             /\ DealtTo(l, dim, w, parts, i, e)
                  = w.at + ((e \div runs[i]) * all + (Total(First(runs, i - 1)) + (e % runs[i])))
  <2>1. rounds \in Nat /\ runs[i] \in Nat /\ e \in 0..rounds * runs[i] - 1
    BY <1>1, <1>3, <1>4
  <2>2. /\ e \div runs[i] \in 0..rounds - 1 /\ e % runs[i] \in 0..runs[i] - 1
        /\ e = (e \div runs[i]) * runs[i] + (e % runs[i])
    BY <2>1, Division
  <2> QED BY <1>3, <1>4, <1>8, <2>2 DEF DealtTo
<1>7. runs \in [1..n -> Nat]
  BY <1>1
<1> QED BY <1>1, <1>2, <1>3, <1>4, <1>5, <1>6, <1>7 DEF n, runs, all, rounds

(* The bytes of the parts are dealt to those of the whole, each to one.    *)
LEMMA DealtInside ==
  ASSUME NEW l, NEW dim, NEW w, NEW parts, IsCut(l, dim, w, parts), NEW i \in DOMAIN parts,
         NEW e \in 0..Size(parts[i]) - 1
  PROVE  DealtTo(l, dim, w, parts, i, e) \in Bytes(w)
<1> DEFINE runs == Shares(l, dim, w, parts)
           all == Share(l, dim, w, w)
           rounds == Rounds(l, dim, w)
           q == e \div runs[i]
           v == Total(First(runs, i - 1)) + (e % runs[i])
<1>1. /\ all \in Nat \ {0} /\ rounds \in Nat \ {0} /\ w.at \in Nat /\ Size(w) = rounds * all
      /\ Total(First(runs, i - 1)) \in Nat /\ Total(First(runs, i - 1)) + runs[i] <= all
      /\ q \in 0..rounds - 1 /\ e % runs[i] \in 0..runs[i] - 1 /\ runs[i] \in Nat
      /\ DealtTo(l, dim, w, parts, i, e) = w.at + (q * all + v)
  BY RoundOfByte
<1> HIDE DEF runs, all, rounds, q
<1>2. v \in 0..all - 1
  BY <1>1
<1> HIDE DEF v
<1>3. q * all + v \in 0..rounds * all - 1
  BY <1>1, <1>2, RowBound
<1> QED BY <1>1, <1>3 DEF Bytes

(* Every byte of the whole is dealt to by a byte of a part.                *)
LEMMA DealtOnto ==
  ASSUME NEW l, NEW dim, NEW w, NEW parts, IsCut(l, dim, w, parts), NEW a \in Bytes(w)
  PROVE  \E i \in DOMAIN parts : \E e \in 0..Size(parts[i]) - 1 : a = DealtTo(l, dim, w, parts, i, e)
<1> DEFINE n == Len(parts)
           runs == Shares(l, dim, w, parts)
           all == Share(l, dim, w, w)
           rounds == Rounds(l, dim, w)
           b == a - w.at
           q == b \div all
           v == b % all
<1>1. /\ n \in Nat \ {0} /\ DOMAIN parts = 1..n /\ w.at \in Nat
      /\ rounds \in Nat \ {0} /\ Size(w) = rounds * all /\ all \in Nat \ {0}
      /\ runs \in [1..n -> Nat] /\ Total(runs) = all
  BY ShareFacts DEF Shares
<1>2. b \in 0..rounds * all - 1 /\ a = w.at + b
  <2> HIDE DEF all, rounds
  <2> QED BY <1>1 DEF Bytes
<1>3. \A i \in 1..n : /\ Size(parts[i]) = rounds * runs[i] /\ runs[i] \in Nat \ {0}
                      /\ \A e \in 0..Size(parts[i]) - 1 :
                           DealtTo(l, dim, w, parts, i, e)
                             = w.at + ((e \div runs[i]) * all + (Total(First(runs, i - 1)) + (e % runs[i])))
  <2>2. ASSUME NEW i \in 1..n
        PROVE  /\ Size(parts[i]) = rounds * runs[i] /\ runs[i] \in Nat \ {0}
               /\ \A e \in 0..Size(parts[i]) - 1 :
                    DealtTo(l, dim, w, parts, i, e)
                      = w.at + ((e \div runs[i]) * all + (Total(First(runs, i - 1)) + (e % runs[i])))
    <3>1. i \in DOMAIN parts
      BY <1>1
    <3> QED BY <3>1, RoundOfByte
  <2> QED BY <2>2
<1> HIDE DEF n, runs, all, rounds, b
<1>4. q \in 0..rounds - 1 /\ v \in 0..all - 1 /\ b = q * all + v
  BY <1>1, <1>2, Division
<1> HIDE DEF q, v
<1>5. PICK i \in 1..n : \E j \in 0..runs[i] - 1 : v = Total(First(runs, i - 1)) + j
  <2>1. n \in Nat /\ v \in 0..Total(runs) - 1
    BY <1>1, <1>4
  <2> QED BY <1>1, <2>1, WhichPart
<1>6. PICK j \in 0..runs[i] - 1 : v = Total(First(runs, i - 1)) + j
  BY <1>5
<1> DEFINE e == q * runs[i] + j
           run == runs[i]
<1>7. run \in Nat \ {0} /\ Size(parts[i]) = rounds * run
  BY <1>3
<1>8. e \in 0..Size(parts[i]) - 1 /\ e \div run = q /\ e % run = j
  <2> HIDE DEF run
  <2>1. run \in Nat /\ rounds \in Nat /\ j \in 0..run - 1 /\ q \in Int
    BY <1>1, <1>4, <1>7 DEF run
  <2>2. q * run + j \in 0..rounds * run - 1
    BY <1>4, <2>1, RowBound
  <2>3. (q * run + j) \div run = q /\ (q * run + j) % run = j
    BY <2>1, QuotientAndRest
  <2> QED BY <1>7, <2>2, <2>3 DEF run
<1> HIDE DEF e
<1>9. DealtTo(l, dim, w, parts, i, e) = w.at + (q * all + (Total(First(runs, i - 1)) + j))
  BY <1>3, <1>8
<1>10. DealtTo(l, dim, w, parts, i, e) = a
  BY <1>2, <1>4, <1>6, <1>9
<1>11. i \in DOMAIN parts
  BY <1>1
<1> QED BY <1>8, <1>10, <1>11

(* The round of a byte, and its place in the row of the shares.            *)
LEMMA ByteInRound ==
  ASSUME NEW l, NEW dim, NEW w, NEW parts, IsCut(l, dim, w, parts), NEW i \in DOMAIN parts,
         NEW e \in 0..Size(parts[i]) - 1
  PROVE  LET runs == Shares(l, dim, w, parts)
             all == Share(l, dim, w, w)
             before == Total(First(runs, i - 1))
         IN  /\ i \in 1..Len(parts) /\ Len(parts) \in Nat /\ runs \in [1..Len(parts) -> Nat]
             /\ all \in Nat /\ w.at \in Nat
             /\ \E q \in Int, j \in 0..runs[i] - 1 :
                  /\ e = q * runs[i] + j /\ before + j \in 0..all - 1
                  /\ DealtTo(l, dim, w, parts, i, e) = w.at + (q * all + (before + j))
<1> DEFINE n == Len(parts)
           runs == Shares(l, dim, w, parts)
           all == Share(l, dim, w, w)
           before == Total(First(runs, i - 1))
           q == e \div runs[i]
           j == e % runs[i]
<1>1. /\ i \in 1..n /\ n \in Nat /\ runs \in [1..n -> Nat] /\ all \in Nat /\ w.at \in Nat
      /\ before \in Nat /\ before + runs[i] <= all
      /\ q \in Int /\ j \in 0..runs[i] - 1 /\ e = q * runs[i] + j
      /\ DealtTo(l, dim, w, parts, i, e) = w.at + (q * all + (before + j))
  BY RoundOfByte
<1> HIDE DEF q, j
<1>2. before + j \in 0..all - 1
  <2> HIDE DEF before, all, runs
  <2> QED BY <1>1
<1> HIDE DEF n, runs, all, before
<1>3. \E x \in Int, y \in 0..runs[i] - 1 :
         /\ e = x * runs[i] + y /\ before + y \in 0..all - 1
         /\ DealtTo(l, dim, w, parts, i, e) = w.at + (x * all + (before + y))
  BY <1>1, <1>2
<1> QED BY <1>1, <1>3 DEF n, runs, all, before

(* No two bytes of the parts are dealt to the same byte of the whole.      *)
LEMMA DealtOnce ==
  ASSUME NEW l, NEW dim, NEW w, NEW parts, IsCut(l, dim, w, parts),
         NEW i \in DOMAIN parts, NEW e \in 0..Size(parts[i]) - 1,
         NEW m \in DOMAIN parts, NEW d \in 0..Size(parts[m]) - 1,
         DealtTo(l, dim, w, parts, i, e) = DealtTo(l, dim, w, parts, m, d)
  PROVE  i = m /\ e = d
<1> DEFINE n == Len(parts)
           runs == Shares(l, dim, w, parts)
           all == Share(l, dim, w, w)
           u == Total(First(runs, i - 1))
           v == Total(First(runs, m - 1))
<1>1. /\ i \in 1..n /\ m \in 1..n /\ n \in Nat /\ runs \in [1..n -> Nat] /\ all \in Nat /\ w.at \in Nat
  BY ByteInRound
<1>2. PICK q \in Int, j \in 0..runs[i] - 1 :
         /\ e = q * runs[i] + j /\ u + j \in 0..all - 1
         /\ DealtTo(l, dim, w, parts, i, e) = w.at + (q * all + (u + j))
  BY ByteInRound
<1>3. PICK s \in Int, k \in 0..runs[m] - 1 :
         /\ d = s * runs[m] + k /\ v + k \in 0..all - 1
         /\ DealtTo(l, dim, w, parts, m, d) = w.at + (s * all + (v + k))
  BY ByteInRound
<1> HIDE DEF n, runs, all, u, v
<1> DEFINE x == u + j
           y == v + k
<1>4. x \in 0..all - 1 /\ y \in 0..all - 1 /\ w.at + (q * all + x) = w.at + (s * all + y)
  BY <1>2, <1>3
<1> HIDE DEF x, y
<1>5. q * all + x = s * all + y
  <2> DEFINE a == q * all + x
             b == s * all + y
  <2>1. a \in Int /\ b \in Int /\ w.at + a = w.at + b
    <3>1. q * all \in Int /\ s * all \in Int
      BY <1>1, <1>2, <1>3
    <3> QED BY <1>4, <3>1
  <2> DEFINE at == w.at
  <2>3. at \in Int /\ a \in Int /\ b \in Int /\ at + a = at + b
    BY <1>1, <2>1
  <2> HIDE DEF a, b, at
  <2>2. a = b
    BY <2>3
  <2> QED BY <2>2 DEF a, b
<1>6. q = s /\ x = y
  <2>1. (q * all + x) \div all = q /\ (q * all + x) % all = x
    BY <1>1, <1>4, QuotientAndRest
  <2>2. (s * all + y) \div all = s /\ (s * all + y) % all = y
    BY <1>1, <1>4, QuotientAndRest
  <2> QED BY <1>5, <2>1, <2>2
<1>7. i = m /\ j = k
  <2>1. Total(First(runs, i - 1)) + j = Total(First(runs, m - 1)) + k
    BY <1>6 DEF x, y, u, v
  <2>2. j \in 0..runs[i] - 1 /\ k \in 0..runs[m] - 1
    BY <1>2, <1>3
  <2>3. \A a, b \in 1..n : \A f \in 0..runs[a] - 1, g \in 0..runs[b] - 1 :
          Total(First(runs, a - 1)) + f = Total(First(runs, b - 1)) + g => a = b /\ f = g
    BY <1>1, OnePart
  <2> QED BY <1>1, <2>1, <2>2, <2>3
<1> QED BY <1>2, <1>3, <1>6, <1>7

-----------------------------------------------------------------------------
(***************************************************************************)
(* The loops of Concat and Split on the CPU copy each byte of each part to *)
(* or from where it is in the whole.                                       *)
(***************************************************************************)

(* The order in which a loop on the CPU takes the dimensions.              *)
OrderOf(l) == IF l = "onnx" THEN OnnxOrder ELSE AtonOrder

(* The base of the loops is that of the layout they are for.               *)
LEMMA LoopBase ==
  ASSUME NEW l, NEW dim, NEW w, NEW parts, IsCut(l, dim, w, parts), l # "batched"
  PROVE  BaseOf(w, dim, OrderOf(l)) = Base(l, dim, w)
<1> DEFINE s == w.shape
           inner == InnerSize(LayoutSizes(l, w), CutDigit(l, dim))
<1>1. /\ w \in Tensors /\ dim \in Dims /\ l \in {"onnx", "packed"}
      /\ OrderOf(l) \in Orders
  <2>1. w \in Tensors /\ dim \in Dims /\ 1 \in DOMAIN parts
    BY PartTensors, NothingBefore DEF IsCut
  <2>2. l \in {"onnx", "packed"}
    BY <2>1 DEF IsCut, Cuttable, Layouts
  <2> QED BY <2>1, <2>2 DEF OrderOf, Orders
<1>2. /\ s["N"] \in Nat /\ s["C"] \in Nat /\ s["H"] \in Nat /\ s["W"] \in Nat /\ w.bytes \in Nat
  <2>1. w.bytes \in 1..4
    BY <1>1, SizeIsNat
  <2> QED BY <1>1, <2>1, SizeIsNat
<1>3. Base(l, dim, w) = inner * w.bytes
  BY DEF Base
<1>4. Inner(w, dim, OrderOf(l)) = inner
  <2>1. CASE l = "packed"
    <3>1. /\ dim = "N" => Inner(w, dim, OrderOf(l)) = s["H"] * s["W"] * s["C"]
          /\ dim = "H" => Inner(w, dim, OrderOf(l)) = s["W"] * s["C"]
          /\ dim = "W" => Inner(w, dim, OrderOf(l)) = s["C"]
          /\ dim = "C" => Inner(w, dim, OrderOf(l)) = 1
      BY <1>1, <2>1, InnerIs, Positions DEF OrderOf, AtonOrder
    <3>2. /\ dim = "N" => inner = 1 * 1 * s["H"] * s["W"] * s["C"]
          /\ dim = "H" => inner = 1 * s["W"] * s["C"]
          /\ dim = "W" => inner = 1 * s["C"]
          /\ dim = "C" => inner = 1
      BY <2>1 DEF InnerSize, LayoutSizes, CutDigit
    <3> HIDE DEF s, inner
    <3> QED BY <1>1, <1>2, <3>1, <3>2 DEF Dims
  <2>2. CASE l = "onnx"
    <3>1. /\ dim = "N" => Inner(w, dim, OrderOf(l)) = s["C"] * s["H"] * s["W"]
          /\ dim = "C" => Inner(w, dim, OrderOf(l)) = s["H"] * s["W"]
          /\ dim = "H" => Inner(w, dim, OrderOf(l)) = s["W"]
          /\ dim = "W" => Inner(w, dim, OrderOf(l)) = 1
      BY <1>1, <2>2, InnerIs, Positions DEF OrderOf, OnnxOrder
    <3>2. /\ dim = "N" => inner = 1 * s["C"] * s["H"] * s["W"] * 1
          /\ dim = "C" => inner = 1 * s["H"] * s["W"] * 1
          /\ dim = "H" => inner = 1 * s["W"] * 1
          /\ dim = "W" => inner = 1 * 1
      BY <2>2 DEF InnerSize, LayoutSizes, CutDigit
    <3> HIDE DEF s, inner
    <3> QED BY <1>1, <1>2, <3>1, <3>2 DEF Dims
  <2> QED BY <1>1, <2>1, <2>2
<1>5. inner \in Nat
  <2>1. Inner(w, dim, OrderOf(l)) \in Nat
    BY <1>1, SizeByDimension
  <2> QED BY <1>4, <2>1
<1>6. BaseOf(w, dim, OrderOf(l)) = w.bytes * inner
  BY <1>4 DEF BaseOf
<1> HIDE DEF inner
<1>7. w.bytes * inner = inner * w.bytes
  BY <1>2, <1>5
<1> QED BY <1>3, <1>6, <1>7

(* Where the loops take each run, how long it is, and how many there are.  *)
LEMMA LoopRuns ==
  ASSUME NEW l, NEW dim, NEW w, NEW parts, IsCut(l, dim, w, parts), l # "batched",
         NEW i \in DOMAIN parts
  PROVE  /\ RunOf(w, parts, dim, OrderOf(l), i) = Shares(l, dim, w, parts)[i]
         /\ JumpOf(w, dim, OrderOf(l)) = Share(l, dim, w, w)
         /\ StartOf(w, parts, dim, OrderOf(l), i) = Total(First(Shares(l, dim, w, parts), i - 1))
         /\ TurnsOf(w, parts, dim, OrderOf(l), i) = Rounds(l, dim, w)
<1> DEFINE n == Len(parts)
           runs == Shares(l, dim, w, parts)
           all == Share(l, dim, w, w)
           rounds == Rounds(l, dim, w)
           before == Total(First(runs, i - 1))
           order == OrderOf(l)
<1>1. BaseOf(w, dim, order) = Base(l, dim, w)
  BY LoopBase
<1>2. /\ i \in 1..n /\ n \in Nat /\ runs[i] \in Nat \ {0} /\ all \in Nat \ {0} /\ rounds \in Nat \ {0}
      /\ Size(w) = rounds * all /\ before \in Nat /\ before + runs[i] <= all
  BY RoundOfByte
<1>3. \A j \in 1..n : RunOf(w, parts, dim, order, j) = runs[j]
  BY <1>1 DEF RunOf, Shares, Share
<1>4. JumpOf(w, dim, order) = all
  BY <1>1 DEF JumpOf, Share
<1>5. StartOf(w, parts, dim, order, i) = before
  <2>1. \A j \in 1..i - 1 : j \in 1..n
    BY <1>2
  <2>2. \A j \in 1..i - 1 : RunOf(w, parts, dim, order, j) = runs[j]
    BY <1>3, <2>1
  <2>3. [j \in 1..i - 1 |-> RunOf(w, parts, dim, order, j)] = First(runs, i - 1)
    BY <2>2, Zenon DEF First
  <2> QED BY <2>3 DEF StartOf
<1>6. TurnsOf(w, parts, dim, order, i) = (rounds * all - before + all - 1) \div all
  BY <1>2, <1>4, <1>5 DEF TurnsOf
<1> HIDE DEF runs, all, rounds, before, n, order
<1>7. before \in 0..all - 1
  BY <1>2
<1>8. (rounds * all - before + all - 1) \div all = rounds
  BY <1>2, <1>7, TurnsOfJump
<1> QED BY <1>2, <1>3, <1>4, <1>5, <1>6, <1>8 DEF runs, all, rounds, before, order

(* The loops copy every byte of every part, from or to where it is dealt.  *)
LEMMA LoopBytes ==
  ASSUME NEW l, NEW dim, NEW w, NEW parts, IsCut(l, dim, w, parts), l # "batched"
  PROVE  LET rs == Runs(w, parts, dim, OrderOf(l))
         IN  /\ \A r \in rs : /\ r.part \in DOMAIN parts /\ r.whole \in Nat /\ r.off \in Nat /\ r.n \in Nat
                              /\ \A j \in 0..r.n - 1 :
                                   /\ r.off + j \in 0..Size(parts[r.part]) - 1
                                   /\ DealtTo(l, dim, w, parts, r.part, r.off + j) = w.at + r.whole + j
             /\ \A i \in DOMAIN parts : \A e \in 0..Size(parts[i]) - 1 :
                  \E r \in rs : r.part = i /\ \E j \in 0..r.n - 1 : e = r.off + j
<1> DEFINE order == OrderOf(l)
           runs == Shares(l, dim, w, parts)
           all == Share(l, dim, w, w)
           rounds == Rounds(l, dim, w)
           before(i) == Total(First(runs, i - 1))
           Run(i, k) == [part |-> i, whole |-> before(i) + k * all, off |-> k * runs[i], n |-> runs[i]]
           rs == Runs(w, parts, dim, order)
<1>1. rs = UNION {{Run(i, k) : k \in 0..rounds - 1} : i \in DOMAIN parts}
  <2>1. rs = UNION {{[part |-> i,
                      whole |-> StartOf(w, parts, dim, order, i) + k * JumpOf(w, dim, order),
                      off |-> k * RunOf(w, parts, dim, order, i),
                      n |-> RunOf(w, parts, dim, order, i)]
                     : k \in 0..TurnsOf(w, parts, dim, order, i) - 1} : i \in DOMAIN parts}
    BY Zenon DEF Runs, TurnsOf, StartOf, RunOf, JumpOf, BaseOf, Inner
  <2>2. \A i \in DOMAIN parts :
          /\ RunOf(w, parts, dim, order, i) = runs[i] /\ JumpOf(w, dim, order) = all
          /\ StartOf(w, parts, dim, order, i) = before(i)
          /\ TurnsOf(w, parts, dim, order, i) = rounds
    BY LoopRuns
  <2> DEFINE Loop(i) == {[part |-> i,
                          whole |-> StartOf(w, parts, dim, order, i) + k * JumpOf(w, dim, order),
                          off |-> k * RunOf(w, parts, dim, order, i),
                          n |-> RunOf(w, parts, dim, order, i)]
                         : k \in 0..TurnsOf(w, parts, dim, order, i) - 1}
             Deal(i) == {Run(i, k) : k \in 0..rounds - 1}
  <2> HIDE DEF order, runs, all, rounds, before, rs
  <2>3. ASSUME NEW i \in DOMAIN parts
        PROVE  Loop(i) = Deal(i)
    BY <2>2
  <2>4. rs = UNION {Loop(i) : i \in DOMAIN parts}
    BY <2>1
  <2> HIDE DEF Loop, Deal
  <2>5. {Loop(i) : i \in DOMAIN parts} = {Deal(i) : i \in DOMAIN parts}
    BY <2>3
  <2> QED BY <2>4, <2>5 DEF Deal
<1>2. \A i \in DOMAIN parts :
        /\ runs[i] \in Nat \ {0} /\ all \in Nat \ {0} /\ rounds \in Nat \ {0} /\ w.at \in Nat
        /\ Size(parts[i]) = rounds * runs[i] /\ before(i) \in Nat
  BY RoundOfByte
<1>3. ASSUME NEW i \in DOMAIN parts, NEW e \in 0..Size(parts[i]) - 1
      PROVE  /\ e \div runs[i] \in 0..rounds - 1 /\ e % runs[i] \in 0..runs[i] - 1
             /\ e = (e \div runs[i]) * runs[i] + (e % runs[i])
             /\ DealtTo(l, dim, w, parts, i, e)
                  = w.at + ((e \div runs[i]) * all + (before(i) + (e % runs[i])))
  BY RoundOfByte
<1> HIDE DEF order, runs, all, rounds, before, rs
<1>4. ASSUME NEW r \in rs
      PROVE  /\ r.part \in DOMAIN parts /\ r.whole \in Nat /\ r.off \in Nat /\ r.n \in Nat
             /\ \A j \in 0..r.n - 1 :
                  /\ r.off + j \in 0..Size(parts[r.part]) - 1
                  /\ DealtTo(l, dim, w, parts, r.part, r.off + j) = w.at + r.whole + j
  <2>1. PICK i \in DOMAIN parts : \E k \in 0..rounds - 1 : r = Run(i, k)
    BY <1>1
  <2>2. PICK k \in 0..rounds - 1 : r = Run(i, k)
    BY <2>1
  <2> DEFINE run == runs[i]
             first == before(i)
  <2>3. r.part = i /\ r.whole = first + k * all /\ r.off = k * run /\ r.n = run
    BY <2>2
  <2>4. /\ run \in Nat \ {0} /\ all \in Nat \ {0} /\ rounds \in Nat \ {0} /\ w.at \in Nat
        /\ Size(parts[i]) = rounds * run /\ first \in Nat
    BY <1>2
  <2>5. ASSUME NEW j \in 0..run - 1
        PROVE  /\ k * run + j \in 0..Size(parts[i]) - 1
               /\ DealtTo(l, dim, w, parts, i, k * run + j) = w.at + (first + k * all) + j
    <3> DEFINE e == k * run + j
    <3> HIDE DEF run, first
    <3>1. e \in 0..Size(parts[i]) - 1
      BY <2>4, RowBound
    <3>2. e \div run = k /\ e % run = j
      <4>1. run \in Nat /\ k \in Int
        BY <2>4
      <4> QED BY <4>1, QuotientAndRest
    <3>3. DealtTo(l, dim, w, parts, i, e) = w.at + (k * all + (first + j))
      <4> HIDE DEF e
      <4>1. DealtTo(l, dim, w, parts, i, e) = w.at + ((e \div run) * all + (first + (e % run)))
        BY <1>3, <3>1 DEF run, first
      <4> QED BY <3>2, <4>1
    <3>4. w.at + (k * all + (first + j)) = w.at + (first + k * all) + j
      <4> DEFINE z == k * all
      <4>1. z \in Int
        BY <2>4
      <4> HIDE DEF z
      <4> QED BY <2>4, <4>1
    <3> QED BY <3>1, <3>3, <3>4
  <2> HIDE DEF run, first
  <2>6. k * run \in Nat /\ first + k * all \in Nat
    <3>1. k \in Nat
      BY <2>4
    <3>2. k * run \in Nat /\ k * all \in Nat
      BY <2>4, <3>1, ProductNat
    <3> QED BY <2>4, <3>2
  <2> HIDE DEF Run
  <2> QED BY <2>3, <2>4, <2>5, <2>6
<1>5. ASSUME NEW i \in DOMAIN parts, NEW e \in 0..Size(parts[i]) - 1
      PROVE  \E r \in rs : r.part = i /\ \E j \in 0..r.n - 1 : e = r.off + j
  <2> DEFINE k == e \div runs[i]
             j == e % runs[i]
             r == Run(i, k)
  <2>1. k \in 0..rounds - 1 /\ j \in 0..runs[i] - 1 /\ e = k * runs[i] + j
    BY <1>3
  <2> HIDE DEF k, j
  <2>2. r \in rs
    BY <1>1, <2>1
  <2>3. r.part = i /\ r.off = k * runs[i] /\ r.n = runs[i]
    OBVIOUS
  <2> HIDE DEF r
  <2> QED BY <2>1, <2>2, <2>3
<1> QED BY <1>4, <1>5 DEF rs, order

(* What is moved fills the output from the input, each byte from one.      *)
Fills ==
  /\ \A f \in Bytewise : f[1] \in OutBytes /\ f[2] \in InBytes
  /\ \A a \in OutBytes : \E f \in Bytewise : f[1] = a
  /\ \A f, g \in Bytewise : f[1] = g[1] => f[2] = g[2]

(* Copies by the CPU of just the bytes that are moved compute the result.  *)
LEMMA CopiedPairs ==
  ASSUME Safe, Apart, Fills, NEW copies,
         \A c \in copies : \A j \in 0..c.n - 1 : <<c.dst + j, c.src + j>> \in Bytewise,
         \A f \in Bytewise : \E c \in copies : \E j \in 0..c.n - 1 : f = <<c.dst + j, c.src + j>>
  PROVE  Holds(CpuView(Copied(mem, copies)))
<1>1. Written(copies) \subseteq OutBytes
  <2>1. ASSUME NEW c \in copies, NEW j \in 0..c.n - 1
        PROVE  c.dst + j \in OutBytes
    <3> DEFINE f == <<c.dst + j, c.src + j>>
    <3>1. f \in Bytewise /\ f[1] = c.dst + j
      OBVIOUS
    <3> HIDE DEF f
    <3> QED BY <3>1 DEF Fills
  <2> QED BY <2>1 DEF Written
<1>2. ASSUME NEW c \in copies, NEW d \in copies, NEW j \in 0..c.n - 1, NEW k \in 0..d.n - 1,
             c.dst + j = d.dst + k
      PROVE  c.src + j = d.src + k
  <2> DEFINE f == <<c.dst + j, c.src + j>>
             g == <<d.dst + k, d.src + k>>
  <2>1. f \in Bytewise /\ g \in Bytewise /\ f[1] = g[1] /\ f[2] = c.src + j /\ g[2] = d.src + k
    BY <1>2
  <2> HIDE DEF f, g
  <2> QED BY <2>1 DEF Fills
<1>3. ASSUME NEW f \in Bytewise
      PROVE  /\ f[2] \in InBytes
             /\ \E c \in copies : \E k \in 0..c.n - 1 : f[1] = c.dst + k /\ f[2] = c.src + k
  <2>1. PICK c \in copies : \E j \in 0..c.n - 1 : f = <<c.dst + j, c.src + j>>
    OBVIOUS
  <2>2. PICK j \in 0..c.n - 1 : f = <<c.dst + j, c.src + j>>
    BY <2>1
  <2>3. f[1] = c.dst + j /\ f[2] = c.src + j
    BY <2>2
  <2> QED BY <2>3 DEF Fills
<1>4. \A a \in OutBytes : \E f \in Bytewise : f[1] = a
  BY DEF Fills
<1> QED BY <1>1, <1>2, <1>3, <1>4, CopyIsResult

(* A concatenation fills its output.                                       *)
LEMMA ConcatFills ==
  ASSUME call \in Calls, call.op = "Concat", NEW l, l # "onnx", IsCut(l, call.dim, call.out, call.ins)
  PROVE  Fills
<1> DEFINE w == call.out
           parts == call.ins
           to(i, e) == DealtTo(l, call.dim, w, parts, i, e)
<1>1. ASSUME NEW i \in DOMAIN parts, NEW e \in 0..Size(parts[i]) - 1
      PROVE  /\ to(i, e) \in OutBytes /\ parts[i].at + e \in InBytes
             /\ <<to(i, e), parts[i].at + e>> \in Bytewise
  <2>1. to(i, e) \in Bytes(w)
    BY DealtInside
  <2>2. OutBytes = Bytes(w) /\ Bytes(parts[i]) \subseteq InBytes
    BY ListBytes DEF Bytes
  <2>3. parts[i].at + e \in Bytes(parts[i])
    <3>1. parts[i] \in Tensors
      BY PartTensors DEF IsCut
    <3>2. parts[i].at \in Nat /\ Size(parts[i]) \in Nat
      BY <3>1, SizeIsNat
    <3> QED BY <3>2 DEF Bytes
  <2> QED BY <2>1, <2>2, <2>3, ConcatMoves
<1>2. \A f \in Bytewise : \E i \in DOMAIN parts : \E e \in 0..Size(parts[i]) - 1 :
        f = <<to(i, e), parts[i].at + e>>
  BY ConcatMoves
<1>3. ASSUME NEW a \in OutBytes
      PROVE  \E i \in DOMAIN parts : \E e \in 0..Size(parts[i]) - 1 : a = to(i, e)
  <2>1. a \in Bytes(w)
    BY ListBytes DEF Bytes
  <2> QED BY <2>1, DealtOnto
<1>4. ASSUME NEW i \in DOMAIN parts, NEW e \in 0..Size(parts[i]) - 1,
             NEW m \in DOMAIN parts, NEW d \in 0..Size(parts[m]) - 1, to(i, e) = to(m, d)
      PROVE  i = m /\ e = d
  BY <1>4, DealtOnce
<1> HIDE DEF w, parts, to
<1>5. ASSUME NEW f \in Bytewise
      PROVE  f[1] \in OutBytes /\ f[2] \in InBytes
  BY <1>1, <1>2
<1>6. ASSUME NEW a \in OutBytes
      PROVE  \E f \in Bytewise : f[1] = a
  <2>1. PICK i \in DOMAIN parts : \E e \in 0..Size(parts[i]) - 1 : a = to(i, e)
    BY <1>3
  <2>2. PICK e \in 0..Size(parts[i]) - 1 : a = to(i, e)
    BY <2>1
  <2> DEFINE f == <<to(i, e), parts[i].at + e>>
  <2>3. f \in Bytewise /\ f[1] = a
    BY <1>1, <2>2
  <2> HIDE DEF f
  <2> QED BY <2>3
<1>7. ASSUME NEW f \in Bytewise, NEW g \in Bytewise, f[1] = g[1]
      PROVE  f[2] = g[2]
  <2>1. PICK i \in DOMAIN parts : \E e \in 0..Size(parts[i]) - 1 : f = <<to(i, e), parts[i].at + e>>
    BY <1>2
  <2>2. PICK e \in 0..Size(parts[i]) - 1 : f = <<to(i, e), parts[i].at + e>>
    BY <2>1
  <2>3. PICK m \in DOMAIN parts : \E d \in 0..Size(parts[m]) - 1 : g = <<to(m, d), parts[m].at + d>>
    BY <1>2
  <2>4. PICK d \in 0..Size(parts[m]) - 1 : g = <<to(m, d), parts[m].at + d>>
    BY <2>3
  <2>5. to(i, e) = to(m, d)
    BY <1>7, <2>2, <2>4
  <2>6. i = m /\ e = d
    BY <1>4, <2>5
  <2> QED BY <2>2, <2>4, <2>6
<1> QED BY <1>5, <1>6, <1>7 DEF Fills

(* A split fills its outputs, when they do not overlap.                    *)
LEMMA SplitFills ==
  ASSUME call \in Calls, call.op = "Split", NEW l, l = "onnx" <=> call.case = "sw_onnx",
         IsCut(l, call.dim, call.in, call.outs), OutputsApart
  PROVE  Fills
<1> DEFINE w == call.in
           parts == call.outs
           from(i, e) == DealtTo(l, call.dim, w, parts, i, e)
<1>1. ASSUME NEW i \in DOMAIN parts
      PROVE  parts[i].at \in Nat /\ Size(parts[i]) \in Nat
  <2>1. parts[i] \in Tensors
    BY PartTensors DEF IsCut
  <2> QED BY <2>1, SizeIsNat
<1>2. ASSUME NEW i \in DOMAIN parts, NEW e \in 0..Size(parts[i]) - 1
      PROVE  /\ parts[i].at + e \in Bytes(parts[i]) /\ parts[i].at + e \in OutBytes
             /\ from(i, e) \in InBytes
             /\ <<parts[i].at + e, from(i, e)>> \in Bytewise
  <2>1. from(i, e) \in Bytes(w)
    BY DealtInside
  <2>2. InBytes = Bytes(w) /\ Bytes(parts[i]) \subseteq OutBytes
    BY ListBytes DEF Bytes
  <2>3. parts[i].at + e \in Bytes(parts[i])
    BY <1>1 DEF Bytes
  <2> QED BY <2>1, <2>2, <2>3, SplitMoves
<1>3. \A f \in Bytewise : \E i \in DOMAIN parts : \E e \in 0..Size(parts[i]) - 1 :
        f = <<parts[i].at + e, from(i, e)>>
  BY SplitMoves
<1>4. ASSUME NEW a \in OutBytes
      PROVE  \E i \in DOMAIN parts : \E e \in 0..Size(parts[i]) - 1 : a = parts[i].at + e
  <2>1. OutBytes = UNION {Bytes(parts[i]) : i \in DOMAIN parts}
    BY DEF OutBytes, Elementwise, Outputs, AllBytes
  <2>2. PICK i \in DOMAIN parts : a \in Bytes(parts[i])
    BY <2>1
  <2> DEFINE e == a - parts[i].at
  <2>3. e \in 0..Size(parts[i]) - 1 /\ a = parts[i].at + e
    BY <1>1, <2>2 DEF Bytes
  <2> QED BY <2>3
<1>5. ASSUME NEW i \in DOMAIN parts, NEW m \in DOMAIN parts, i # m
      PROVE  Bytes(parts[i]) \cap Bytes(parts[m]) = {}
  BY <1>5 DEF OutputsApart
<1> HIDE DEF w, parts, from
<1>6. ASSUME NEW f \in Bytewise
      PROVE  f[1] \in OutBytes /\ f[2] \in InBytes
  BY <1>2, <1>3
<1>7. ASSUME NEW a \in OutBytes
      PROVE  \E f \in Bytewise : f[1] = a
  <2>1. PICK i \in DOMAIN parts : \E e \in 0..Size(parts[i]) - 1 : a = parts[i].at + e
    BY <1>4
  <2>2. PICK e \in 0..Size(parts[i]) - 1 : a = parts[i].at + e
    BY <2>1
  <2> DEFINE f == <<parts[i].at + e, from(i, e)>>
  <2>3. f \in Bytewise /\ f[1] = a
    BY <1>2, <2>2
  <2> HIDE DEF f
  <2> QED BY <2>3
<1>8. ASSUME NEW f \in Bytewise, NEW g \in Bytewise, f[1] = g[1]
      PROVE  f[2] = g[2]
  <2>1. PICK i \in DOMAIN parts : \E e \in 0..Size(parts[i]) - 1 : f = <<parts[i].at + e, from(i, e)>>
    BY <1>3
  <2>2. PICK e \in 0..Size(parts[i]) - 1 : f = <<parts[i].at + e, from(i, e)>>
    BY <2>1
  <2>3. PICK m \in DOMAIN parts : \E d \in 0..Size(parts[m]) - 1 : g = <<parts[m].at + d, from(m, d)>>
    BY <1>3
  <2>4. PICK d \in 0..Size(parts[m]) - 1 : g = <<parts[m].at + d, from(m, d)>>
    BY <2>3
  <2>5. parts[i].at + e = parts[m].at + d
    BY <1>8, <2>2, <2>4
  <2>6. i = m
    <3>1. parts[i].at + e \in Bytes(parts[i]) /\ parts[m].at + d \in Bytes(parts[m])
      BY <1>2
    <3> QED BY <1>5, <2>5, <3>1
  <2>7. e = d
    <3> DEFINE at == parts[i].at
    <3>1. at \in Nat /\ at + e = at + d /\ e \in Int /\ d \in Int
      BY <1>1, <2>5, <2>6
    <3> HIDE DEF at
    <3> QED BY <3>1
  <2> QED BY <2>2, <2>4, <2>6, <2>7
<1> QED BY <1>6, <1>7, <1>8 DEF Fills

(* The loops of a concatenation on the CPU.                                *)
LEMMA LoopedConcat ==
  ASSUME Safe, Apart, call.op = "Concat", IsCut("packed", call.dim, call.out, call.ins)
  PROVE  Holds(CpuView(ConcatLoop(call.ins, call.out)))
<1> DEFINE w == call.out
           parts == call.ins
           l == "packed"
           rs == Runs(w, parts, call.dim, OrderOf(l))
           Copy(r) == [dst |-> w.at + r.whole, src |-> parts[r.part].at + r.off, n |-> r.n]
           copies == {Copy(r) : r \in rs}
           to(i, e) == DealtTo(l, call.dim, w, parts, i, e)
<1>1. ConcatLoop(call.ins, call.out) = Copied(mem, copies)
  <2>1. ConcatLoop(call.ins, call.out)
          = Copied(mem, {Copy(r) : r \in Runs(w, parts, call.dim, AtonOrder)})
    BY Zenon DEF ConcatLoop
  <2>2. OrderOf(l) = AtonOrder
    BY DEF OrderOf
  <2> QED BY <2>1, <2>2
<1>3. /\ \A r \in rs : /\ r.part \in DOMAIN parts /\ r.whole \in Nat /\ r.off \in Nat /\ r.n \in Nat
                       /\ \A j \in 0..r.n - 1 :
                            /\ r.off + j \in 0..Size(parts[r.part]) - 1
                            /\ to(r.part, r.off + j) = w.at + r.whole + j
      /\ \A i \in DOMAIN parts : \A e \in 0..Size(parts[i]) - 1 :
           \E r \in rs : r.part = i /\ \E j \in 0..r.n - 1 : e = r.off + j
  <2>1. l # "batched" /\ IsCut(l, call.dim, call.out, call.ins)
    OBVIOUS
  <2> HIDE DEF l
  <2> QED BY <2>1, LoopBytes
<1>4. Fills
  BY ConcatFills DEF Safe
<1>5. /\ \A f \in Bytewise : \E i \in DOMAIN parts : \E e \in 0..Size(parts[i]) - 1 :
           f = <<to(i, e), parts[i].at + e>>
      /\ \A i \in DOMAIN parts : \A e \in 0..Size(parts[i]) - 1 :
           <<to(i, e), parts[i].at + e>> \in Bytewise
  BY ConcatMoves
<1>6. \A i \in DOMAIN parts : parts[i].at \in Nat
  BY PartTensors, SizeIsNat DEF IsCut
<1> HIDE DEF w, parts, l, rs, to
<1>7. ASSUME NEW r \in rs, NEW j \in 0..r.n - 1
      PROVE  <<w.at + r.whole + j, parts[r.part].at + r.off + j>> \in Bytewise
  <2>1. <<to(r.part, r.off + j), parts[r.part].at + (r.off + j)>> \in Bytewise
    BY <1>3, <1>5
  <2>2. parts[r.part].at + (r.off + j) = parts[r.part].at + r.off + j
    BY <1>3, <1>6
  <2> QED BY <1>3, <2>1, <2>2
<1>8. ASSUME NEW f \in Bytewise
      PROVE  \E r \in rs : \E j \in 0..r.n - 1 :
               f = <<w.at + r.whole + j, parts[r.part].at + r.off + j>>
  <2>1. PICK i \in DOMAIN parts : \E e \in 0..Size(parts[i]) - 1 : f = <<to(i, e), parts[i].at + e>>
    BY <1>5
  <2>2. PICK e \in 0..Size(parts[i]) - 1 : f = <<to(i, e), parts[i].at + e>>
    BY <2>1
  <2>3. PICK r \in rs : r.part = i /\ \E j \in 0..r.n - 1 : e = r.off + j
    BY <1>3
  <2>4. PICK j \in 0..r.n - 1 : e = r.off + j
    BY <2>3
  <2>5. to(i, e) = w.at + r.whole + j
    BY <1>3, <2>3, <2>4
  <2>6. parts[i].at + e = parts[r.part].at + r.off + j
    BY <1>3, <1>6, <2>3, <2>4
  <2> QED BY <2>2, <2>5, <2>6
<1>9. \A c \in copies : \A j \in 0..c.n - 1 : <<c.dst + j, c.src + j>> \in Bytewise
  BY <1>7
<1>10. \A f \in Bytewise : \E c \in copies : \E j \in 0..c.n - 1 : f = <<c.dst + j, c.src + j>>
  <2>1. ASSUME NEW f \in Bytewise
        PROVE  \E c \in copies : \E j \in 0..c.n - 1 : f = <<c.dst + j, c.src + j>>
    <3>1. PICK r \in rs : \E j \in 0..r.n - 1 :
                 f = <<w.at + r.whole + j, parts[r.part].at + r.off + j>>
      BY <1>8
    <3>2. Copy(r) \in copies
      OBVIOUS
    <3>3. /\ Copy(r).dst = w.at + r.whole /\ Copy(r).src = parts[r.part].at + r.off
          /\ Copy(r).n = r.n
      OBVIOUS
    <3> HIDE DEF Copy, copies
    <3> QED BY <3>1, <3>2, <3>3
  <2> QED BY <2>1
<1> HIDE DEF copies
<1> QED BY <1>1, <1>4, <1>9, <1>10, CopiedPairs

(* The loops of a split on the CPU.                                        *)
LEMMA LoopedSplit ==
  ASSUME Safe, Apart, call.op = "Split", NEW l, l = "onnx" <=> call.case = "sw_onnx", l # "batched",
         IsCut(l, call.dim, call.in, call.outs), OutputsApart
  PROVE  Holds(CpuView(SplitLoop(OrderOf(l))))
<1> DEFINE w == call.in
           parts == call.outs
           rs == Runs(w, parts, call.dim, OrderOf(l))
           Copy(r) == [dst |-> parts[r.part].at + r.off, src |-> w.at + r.whole, n |-> r.n]
           copies == {Copy(r) : r \in rs}
           from(i, e) == DealtTo(l, call.dim, w, parts, i, e)
<1>1. SplitLoop(OrderOf(l)) = Copied(mem, copies)
  BY Zenon DEF SplitLoop
<1>3. /\ \A r \in rs : /\ r.part \in DOMAIN parts /\ r.whole \in Nat /\ r.off \in Nat /\ r.n \in Nat
                       /\ \A j \in 0..r.n - 1 :
                            /\ r.off + j \in 0..Size(parts[r.part]) - 1
                            /\ from(r.part, r.off + j) = w.at + r.whole + j
      /\ \A i \in DOMAIN parts : \A e \in 0..Size(parts[i]) - 1 :
           \E r \in rs : r.part = i /\ \E j \in 0..r.n - 1 : e = r.off + j
  BY LoopBytes
<1>4. Fills
  BY SplitFills DEF Safe
<1>5. /\ \A f \in Bytewise : \E i \in DOMAIN parts : \E e \in 0..Size(parts[i]) - 1 :
           f = <<parts[i].at + e, from(i, e)>>
      /\ \A i \in DOMAIN parts : \A e \in 0..Size(parts[i]) - 1 :
           <<parts[i].at + e, from(i, e)>> \in Bytewise
  BY SplitMoves
<1>6. \A i \in DOMAIN parts : parts[i].at \in Nat
  BY PartTensors, SizeIsNat DEF IsCut
<1> HIDE DEF w, parts, rs, from
<1>7. ASSUME NEW r \in rs, NEW j \in 0..r.n - 1
      PROVE  <<parts[r.part].at + r.off + j, w.at + r.whole + j>> \in Bytewise
  <2>1. <<parts[r.part].at + (r.off + j), from(r.part, r.off + j)>> \in Bytewise
    BY <1>3, <1>5
  <2>2. parts[r.part].at + (r.off + j) = parts[r.part].at + r.off + j
    BY <1>3, <1>6
  <2> QED BY <1>3, <2>1, <2>2
<1>8. ASSUME NEW f \in Bytewise
      PROVE  \E r \in rs : \E j \in 0..r.n - 1 :
               f = <<parts[r.part].at + r.off + j, w.at + r.whole + j>>
  <2>1. PICK i \in DOMAIN parts : \E e \in 0..Size(parts[i]) - 1 : f = <<parts[i].at + e, from(i, e)>>
    BY <1>5
  <2>2. PICK e \in 0..Size(parts[i]) - 1 : f = <<parts[i].at + e, from(i, e)>>
    BY <2>1
  <2>3. PICK r \in rs : r.part = i /\ \E j \in 0..r.n - 1 : e = r.off + j
    BY <1>3
  <2>4. PICK j \in 0..r.n - 1 : e = r.off + j
    BY <2>3
  <2>5. from(i, e) = w.at + r.whole + j
    BY <1>3, <2>3, <2>4
  <2>6. parts[i].at + e = parts[r.part].at + r.off + j
    BY <1>3, <1>6, <2>3, <2>4
  <2> QED BY <2>2, <2>5, <2>6
<1>9. \A c \in copies : \A j \in 0..c.n - 1 : <<c.dst + j, c.src + j>> \in Bytewise
  BY <1>7
<1>10. \A f \in Bytewise : \E c \in copies : \E j \in 0..c.n - 1 : f = <<c.dst + j, c.src + j>>
  <2>1. ASSUME NEW f \in Bytewise
        PROVE  \E c \in copies : \E j \in 0..c.n - 1 : f = <<c.dst + j, c.src + j>>
    <3>1. PICK r \in rs : \E j \in 0..r.n - 1 :
                 f = <<parts[r.part].at + r.off + j, w.at + r.whole + j>>
      BY <1>8
    <3>2. Copy(r) \in copies
      OBVIOUS
    <3>3. /\ Copy(r).dst = parts[r.part].at + r.off /\ Copy(r).src = w.at + r.whole
          /\ Copy(r).n = r.n
      OBVIOUS
    <3> HIDE DEF Copy, copies
    <3> QED BY <3>1, <3>2, <3>3
  <2> QED BY <2>1
<1> HIDE DEF copies
<1> QED BY <1>1, <1>4, <1>9, <1>10, CopiedPairs

-----------------------------------------------------------------------------
(***************************************************************************)
(* Flat concatenations and splits: each piece is one run of the bundle.    *)
(***************************************************************************)

(* In one round, a piece is dealt to the bytes after the pieces before.    *)
LEMMA FlatDeal ==
  ASSUME NEW l, NEW dim, NEW w, NEW parts, IsCut(l, dim, w, parts), Rounds(l, dim, w) = 1,
         NEW i \in DOMAIN parts, NEW e \in 0..Size(parts[i]) - 1
  PROVE  DealtTo(l, dim, w, parts, i, e) = w.at + Total(First(SizesOf(parts), i - 1)) + e
<1> DEFINE n == Len(parts)
           runs == Shares(l, dim, w, parts)
           all == Share(l, dim, w, w)
           before == Total(First(runs, i - 1))
           q == e \div runs[i]
           j == e % runs[i]
<1>1. /\ i \in 1..n /\ w.at \in Nat /\ all \in Nat /\ runs[i] \in Nat /\ before \in Nat
      /\ q \in 0..1 - 1 /\ e = q * runs[i] + j /\ j \in 0..runs[i] - 1
      /\ DealtTo(l, dim, w, parts, i, e) = w.at + (q * all + (before + j))
  BY RoundOfByte
<1>2. First(runs, i - 1) = First(SizesOf(parts), i - 1)
  <2>1. ASSUME NEW k \in 1..i - 1
        PROVE  runs[k] = SizesOf(parts)[k]
    <3>1. DOMAIN parts = 1..n
      BY ShareFacts
    <3>2. k \in DOMAIN parts
      BY <1>1, <3>1
    <3>3. runs[k] \in Nat /\ Size(parts[k]) = 1 * runs[k]
      BY <3>2, RoundOfByte
    <3> HIDE DEF runs
    <3> QED BY <3>2, <3>3 DEF SizesOf
  <2> HIDE DEF runs
  <2> QED BY <2>1 DEF First
<1> HIDE DEF n, runs, all, before, q, j
<1>3. q = 0 /\ j \in Int
  BY <1>1
<1>4. e = j /\ q * all = 0
  BY <1>1, <1>3
<1>5. before = Total(First(SizesOf(parts), i - 1))
  BY <1>2 DEF before
<1>6. w.at + (0 + (before + e)) = w.at + before + e
  BY <1>1, <1>3, <1>4
<1> QED BY <1>1, <1>4, <1>5, <1>6

(* A flat call is cut in one round.                                        *)
LEMMA FlatIsCut ==
  ASSUME PartsOf(Bundle, Pieces, call.dim), Flat
  PROVE  IsCut("batched", call.dim, Bundle, Pieces) /\ Rounds("batched", call.dim, Bundle) = 1
<1> DEFINE w == Bundle
           parts == Pieces
           dim == call.dim
           l == "batched"
<1>1. PartsOf(w, parts, dim) /\ w \in Tensors /\ \A i \in DOMAIN parts : parts[i] \in Tensors
  BY PartTensors
<1>2. \A i \in DOMAIN parts : parts[i].batch = w.batch
  BY DEF Flat, SameBatches
<1>3. IsCut(l, dim, w, parts)
  <2> HIDE DEF w, parts, dim
  <2> QED BY <1>1, <1>2 DEF IsCut, PartsOf, Cuttable, LaidOut, Layouts
<1>4. Rounds(l, dim, w) = 1
  <2> DEFINE s == w.shape
             b == s["C"] \div w.batch
  <2>1. /\ dim = "N" => Rounds(l, dim, w) = 1
        /\ dim = "C" => Rounds(l, dim, w) = s["N"]
        /\ dim = "H" => Rounds(l, dim, w) = s["N"] * b
        /\ dim = "W" => Rounds(l, dim, w) = s["N"] * b * s["H"]
    <3> HIDE DEF w, dim
    <3> QED BY DEF Rounds, OuterSize, LayoutSizes, CutDigit
  <2>2. \/ dim = "N"
        \/ s["N"] = 1 /\ dim = "C"
        \/ s["N"] = 1 /\ dim = "H" /\ w.batch = s["C"]
        \/ s["N"] = 1 /\ dim = "W" /\ w.batch = s["C"] /\ s["H"] = 1
    BY DEF Flat, NothingOutside, Canonical
  <2>3. s["C"] \in Nat \ {0}
    BY <1>1, SizeIsNat
  <2>4. w.batch = s["C"] => b = 1
    <3> DEFINE c == s["C"]
    <3> SUFFICES ASSUME w.batch = c
                 PROVE  c \div c = 1
      BY DEF b
    <3> HIDE DEF c, s
    <3>1. c \in Nat \ {0}
      BY <2>3 DEF c
    <3>2. (1 * c + 0) \div c = 1
      <4>1. 0 \in 0..c - 1
        BY <3>1
      <4> QED BY <3>1, <4>1, QuotientAndRest
    <3> QED BY <3>1, <3>2
  <2> HIDE DEF s, b
  <2> QED BY <2>1, <2>2, <2>4
<1> QED BY <1>3, <1>4

(* The calls that put together or cut a list of tensors have the parts of  *)
(* the whole.                                                              *)
LEMMA ListParts ==
  ASSUME call \in Calls, (call.op = "Concat" /\ ConcatIsValid) \/ call.op = "Split"
  PROVE  PartsOf(Bundle, Pieces, call.dim)
BY ConcatParts, SplitParts DEF Bundle, Pieces

(* What the turns of a flat call and a flat split on the CPU have to move. *)
LEMMA FlatMoves ==
  ASSUME call \in Calls, Flat,
         \/ call.op = "Concat" /\ ConcatIsValid
         \/ call.op = "Split" /\ OutputsApart /\ call.case = "flat"
  PROVE  /\ Fills
         /\ \A f \in Bytewise : \E i \in DOMAIN Pieces : \E e \in 0..Size(Pieces[i]) - 1 :
              f = <<To(i) + e, From(i) + e>>
         /\ \A i \in DOMAIN Pieces :
              /\ To(i) \in Nat /\ From(i) \in Nat /\ Size(Pieces[i]) \in Nat
              /\ \A e \in 0..Size(Pieces[i]) - 1 :
                   /\ <<To(i) + e, From(i) + e>> \in Bytewise
                   /\ To(i) + e \in OutBytes /\ From(i) + e \in InBytes
<1>1. /\ PartsOf(Bundle, Pieces, call.dim)
      /\ IsCut("batched", call.dim, Bundle, Pieces) /\ Rounds("batched", call.dim, Bundle) = 1
  BY ListParts, FlatIsCut
<1>2. ASSUME NEW i \in DOMAIN Pieces
      PROVE  /\ InBundle(i) \in Nat /\ Pieces[i].at \in Nat /\ Size(Pieces[i]) \in Nat
             /\ \A e \in 0..Size(Pieces[i]) - 1 :
                  DealtTo("batched", call.dim, Bundle, Pieces, i, e) = InBundle(i) + e
  <2>1. /\ Bundle \in Tensors /\ Pieces[i] \in Tensors
    BY <1>1, PartTensors
  <2>2. Bundle.at \in Nat /\ Pieces[i].at \in Nat /\ Size(Pieces[i]) \in Nat
    BY <2>1, SizeIsNat
  <2>3. Total(First(SizesOf(Pieces), i - 1)) \in Nat
    BY <1>1, PartsFit
  <2>4. \A e \in 0..Size(Pieces[i]) - 1 :
          DealtTo("batched", call.dim, Bundle, Pieces, i, e)
            = Bundle.at + Total(First(SizesOf(Pieces), i - 1)) + e
    BY <1>1, FlatDeal
  <2> QED BY <2>2, <2>3, <2>4 DEF InBundle
<1>3. CASE call.op = "Concat" /\ ConcatIsValid
  <2>1. Bundle = call.out /\ Pieces = call.ins /\ \A i : To(i) = InBundle(i) /\ From(i) = Pieces[i].at
    BY <1>3 DEF Bundle, Pieces, To, From
  <2>2. IsCut("batched", call.dim, call.out, call.ins)
    BY <1>1, <2>1
  <2>3. Fills
    BY <1>3, <2>2, ConcatFills
  <2>4. /\ \A f \in Bytewise : \E i \in DOMAIN Pieces : \E e \in 0..Size(Pieces[i]) - 1 :
             f = <<DealtTo("batched", call.dim, Bundle, Pieces, i, e), Pieces[i].at + e>>
        /\ \A i \in DOMAIN Pieces : \A e \in 0..Size(Pieces[i]) - 1 :
             <<DealtTo("batched", call.dim, Bundle, Pieces, i, e), Pieces[i].at + e>> \in Bytewise
    BY <1>3, <2>1, <2>2, ConcatMoves
  <2>5. /\ \A f \in Bytewise : \E i \in DOMAIN Pieces : \E e \in 0..Size(Pieces[i]) - 1 :
             f = <<To(i) + e, From(i) + e>>
        /\ \A i \in DOMAIN Pieces : \A e \in 0..Size(Pieces[i]) - 1 :
             <<To(i) + e, From(i) + e>> \in Bytewise
    BY <1>2, <2>1, <2>4
  <2>6. ASSUME NEW i \in DOMAIN Pieces, NEW e \in 0..Size(Pieces[i]) - 1
        PROVE  To(i) + e \in OutBytes /\ From(i) + e \in InBytes
    <3> DEFINE f == <<To(i) + e, From(i) + e>>
    <3>1. f \in Bytewise /\ f[1] = To(i) + e /\ f[2] = From(i) + e
      BY <2>5
    <3> HIDE DEF f
    <3> QED BY <2>3, <3>1 DEF Fills
  <2> QED BY <1>2, <2>1, <2>3, <2>5, <2>6
<1>4. CASE call.op = "Split" /\ OutputsApart /\ call.case = "flat"
  <2>1. Bundle = call.in /\ Pieces = call.outs /\ \A i : To(i) = Pieces[i].at /\ From(i) = InBundle(i)
    BY <1>4 DEF Bundle, Pieces, To, From
  <2>2. IsCut("batched", call.dim, call.in, call.outs)
    BY <1>1, <2>1
  <2>3. Fills
    BY <1>4, <2>2, SplitFills
  <2>4. /\ \A f \in Bytewise : \E i \in DOMAIN Pieces : \E e \in 0..Size(Pieces[i]) - 1 :
             f = <<Pieces[i].at + e, DealtTo("batched", call.dim, Bundle, Pieces, i, e)>>
        /\ \A i \in DOMAIN Pieces : \A e \in 0..Size(Pieces[i]) - 1 :
             <<Pieces[i].at + e, DealtTo("batched", call.dim, Bundle, Pieces, i, e)>> \in Bytewise
    BY <1>4, <2>1, <2>2, SplitMoves
  <2>5. /\ \A f \in Bytewise : \E i \in DOMAIN Pieces : \E e \in 0..Size(Pieces[i]) - 1 :
             f = <<To(i) + e, From(i) + e>>
        /\ \A i \in DOMAIN Pieces : \A e \in 0..Size(Pieces[i]) - 1 :
             <<To(i) + e, From(i) + e>> \in Bytewise
    BY <1>2, <2>1, <2>4
  <2>6. ASSUME NEW i \in DOMAIN Pieces, NEW e \in 0..Size(Pieces[i]) - 1
        PROVE  To(i) + e \in OutBytes /\ From(i) + e \in InBytes
    <3> DEFINE f == <<To(i) + e, From(i) + e>>
    <3>1. f \in Bytewise /\ f[1] = To(i) + e /\ f[2] = From(i) + e
      BY <2>5
    <3> HIDE DEF f
    <3> QED BY <2>3, <3>1 DEF Fills
  <2> QED BY <1>2, <2>1, <2>3, <2>5, <2>6
<1> QED BY <1>3, <1>4

(* A flat split on the CPU copies each output from its place in the input. *)
LEMMA FlatSplitCopied ==
  ASSUME Safe, Apart, Flat, call.op = "Split", OutputsApart, call.case = "flat"
  PROVE  Holds(CpuView(SplitFlat))
<1> DEFINE Copy(i) == [dst |-> To(i), n |-> Size(Pieces[i]), src |-> From(i)]
           copies == {Copy(i) : i \in DOMAIN Pieces}
<1>1. /\ Fills
      /\ \A f \in Bytewise : \E i \in DOMAIN Pieces : \E e \in 0..Size(Pieces[i]) - 1 :
           f = <<To(i) + e, From(i) + e>>
      /\ \A i \in DOMAIN Pieces : \A e \in 0..Size(Pieces[i]) - 1 :
           <<To(i) + e, From(i) + e>> \in Bytewise
  BY FlatMoves DEF Safe
<1>2. SplitFlat = Copied(mem, copies)
  <2> DEFINE Src(i) == call.in.at + Total([j \in 1..i - 1 |-> Size(call.outs[j])])
  <2>1. SplitFlat = Copied(mem, {[dst |-> call.outs[i].at, n |-> Size(call.outs[i]), src |-> Src(i)]
                                 : i \in DOMAIN call.outs})
    BY Zenon DEF SplitFlat
  <2>2. Pieces = call.outs /\ Bundle = call.in
    BY DEF Pieces, Bundle
  <2>3. ASSUME NEW i \in DOMAIN call.outs
        PROVE  [dst |-> call.outs[i].at, n |-> Size(call.outs[i]), src |-> Src(i)] = Copy(i)
    <3>1. [j \in 1..i - 1 |-> Size(call.outs[j])] = First(SizesOf(Pieces), i - 1)
      <4>1. DOMAIN call.outs = 1..Len(call.outs) /\ Len(call.outs) \in Nat
        BY SplitParts, PartSizes DEF Safe
      <4>2. \A j \in 1..i - 1 : j \in DOMAIN call.outs
        BY <4>1
      <4> QED BY <2>2, <4>2 DEF First, SizesOf
    <3>2. Src(i) = From(i) /\ call.outs[i].at = To(i)
      BY <2>2, <3>1 DEF From, To, InBundle
    <3> HIDE DEF Src
    <3> QED BY <2>2, <3>2
  <2> HIDE DEF Copy, Src
  <2>4. {[dst |-> call.outs[i].at, n |-> Size(call.outs[i]), src |-> Src(i)] : i \in DOMAIN call.outs}
          = {Copy(i) : i \in DOMAIN Pieces}
    BY <2>2, <2>3
  <2> QED BY <2>1, <2>4
<1>3. \A c \in copies : \A j \in 0..c.n - 1 : <<c.dst + j, c.src + j>> \in Bytewise
  BY <1>1
<1>4. ASSUME NEW f \in Bytewise
      PROVE  \E c \in copies : \E j \in 0..c.n - 1 : f = <<c.dst + j, c.src + j>>
  <2>1. PICK i \in DOMAIN Pieces : \E e \in 0..Size(Pieces[i]) - 1 : f = <<To(i) + e, From(i) + e>>
    BY <1>1
  <2>2. Copy(i) \in copies /\ Copy(i).dst = To(i) /\ Copy(i).src = From(i) /\ Copy(i).n = Size(Pieces[i])
    OBVIOUS
  <2> HIDE DEF Copy, copies
  <2> QED BY <2>1, <2>2
<1> HIDE DEF copies
<1> QED BY <1>1, <1>2, <1>3, <1>4, CopiedPairs

-----------------------------------------------------------------------------
(***************************************************************************)
(* The turns of a flat call: a prolog by the CPU, the rest by the engines. *)
(***************************************************************************)

(* What the CPU sees of a byte that it only loads does not change.         *)
LEMMA LoadedView ==
  ASSUME NEW m, NEW out, Sound(m, out), NEW bytes, NEW a \in Memory
  PROVE  CpuView(Loaded(m, bytes))[a] = CpuView(m)[a]
<1> DEFINE lm == Loaded(m, bytes)
           fill == [x \in InLines(LinesOf(bytes)) |-> m.ram[x]]
           cache == Over(m.cache, fill)
<1>1. lm = [m EXCEPT !.cache = cache]
  BY Zenon DEF Loaded
<1>2. lm.ram = m.ram /\ lm.cache = cache
  <2> HIDE DEF cache, lm
  <2> QED BY <1>1 DEF Sound, IsMemory
<1>3. /\ DOMAIN cache = DOMAIN m.cache \cup DOMAIN fill
      /\ \A x \in DOMAIN cache : cache[x] = IF x \in DOMAIN m.cache THEN m.cache[x] ELSE m.ram[x]
  BY DEF Over
<1> HIDE DEF lm, cache, fill
<1>4. a \in DOMAIN m.ram
  BY DEF Sound
<1> QED BY <1>2, <1>3, <1>4 DEF CpuView, Over, lm

(* Nor does what the CPU sees of a byte that is not copied to.             *)
LEMMA CopiedElsewhere ==
  ASSUME NEW m, NEW out, Sound(m, out), NEW copies, Written(copies) \subseteq out \cap Memory,
         NEW a \in Memory, a \notin Written(copies)
  PROVE  CpuView(Copied(m, copies))[a] = CpuView(m)[a]
<1> DEFINE from == UNION {{<<x.dst + j, x.src + j>> : j \in 0..x.n - 1} : x \in copies}
           lm == Loaded(m, {f[2] : f \in from})
           to == {f[1] : f \in from}
           bytes == [b \in to |-> CpuView(m)[(CHOOSE f \in from : f[1] = b)[2]]]
           sm == Stored(lm, bytes)
<1>1. Copied(m, copies) = sm
  BY Zenon DEF Copied
<1>2. a \notin to
  <2>1. \A f \in from : \E d \in copies : \E j \in 0..d.n - 1 : f = <<d.dst + j, d.src + j>>
    OBVIOUS
  <2>2. \A f \in from : f[1] \in Written(copies)
    BY <2>1 DEF Written
  <2> HIDE DEF from
  <2> QED BY <2>2
<1>3. DOMAIN bytes = to
  OBVIOUS
<1>4. Sound(lm, out) /\ CpuView(lm)[a] = CpuView(m)[a]
  <2> DEFINE s == {f[2] : f \in from}
  <2> HIDE DEF s
  <2> QED BY LoadedSound, LoadedView DEF s
<1> HIDE DEF lm, bytes, to
<1>5. CpuView(sm)[a] = CpuView(Loaded(lm, DOMAIN bytes))[a]
  <2> DEFINE am == Loaded(lm, DOMAIN bytes)
             new == Over(bytes, am.cache)
             lines == am.dirty \cup LinesOf(DOMAIN bytes)
  <2>1. sm = [am EXCEPT !.cache = new, !.dirty = lines] /\ IsMemory(am)
    BY <1>4, LoadedSound, Zenon DEF Stored, Sound
  <2>2. sm.cache = new /\ sm.ram = am.ram
    <3> HIDE DEF am, new, lines, sm
    <3> QED BY <2>1 DEF IsMemory
  <2>3. /\ a \in DOMAIN new <=> a \in DOMAIN am.cache
        /\ a \in DOMAIN new => new[a] = am.cache[a]
        /\ a \in DOMAIN am.ram /\ am.ram = m.ram
    <3>1. Sound(am, out)
      BY <1>4, LoadedSound
    <3>2. DOMAIN am.ram = Memory
      BY <3>1 DEF Sound
    <3>3. a \notin DOMAIN bytes
      BY <1>2, <1>3
    <3>4. am.ram = lm.ram /\ lm.ram = m.ram
      <4>1. am.ram = lm.ram
        BY <1>4, LoadedSound
      <4> DEFINE s == {f[2] : f \in from}
      <4> HIDE DEF s
      <4>2. Loaded(m, s).ram = m.ram
        BY LoadedSound
      <4> QED BY <4>1, <4>2 DEF s, lm
    <3> HIDE DEF am
    <3> QED BY <3>2, <3>3, <3>4 DEF Over
  <2> HIDE DEF sm, new, am
  <2> QED BY <2>2, <2>3 DEF CpuView, Over, am
<1>6. CpuView(Loaded(lm, DOMAIN bytes))[a] = CpuView(lm)[a]
  BY <1>4, LoadedView
<1> QED BY <1>1, <1>4, <1>5, <1>6

(* A prolog of n bytes from src, in the input, to dst, in the output, and  *)
(* what it leaves.                                                         *)
PrologFrom(out, in, dst, src, n) ==
  /\ Sound(mem, out) /\ mem.dirty = {} /\ DOMAIN mem.cache \cap out = {}
  /\ out \subseteq Memory /\ in \subseteq Memory \ out /\ InLines(LinesOf(in)) \cap out = {}
  /\ dst \in Int /\ src \in Int /\ n \in Int
  /\ dst .. dst + n - 1 \subseteq out /\ src .. src + n - 1 \subseteq in
PrologDone(m, out, dst, src, n) ==
  /\ DOMAIN m.cache \cap out = {}
  /\ \A k \in 0..n - 1 : m.ram[dst + k] = src + k
  /\ \A a \in out \ (dst .. dst + n - 1) : m.ram[a] = mem.ram[a]

(* The prolog of a flat copy, cleaned and invalidated: the bytes it copied *)
(* are in memory, and no byte of the output is left in the cache, unless   *)
(* the input shares a line with it.                                        *)
LEMMA PrologExact ==
  ASSUME NEW out, NEW in, NEW dst, NEW src, NEW n, PrologFrom(out, in, dst, src, n),
         NEW m, m = Prolog(dst, src, n)
  PROVE  PrologDone(m, out, dst, src, n)
<1>0. /\ Sound(mem, out) /\ mem.dirty = {} /\ DOMAIN mem.cache \cap out = {}
      /\ out \subseteq Memory /\ in \subseteq Memory \ out /\ InLines(LinesOf(in)) \cap out = {}
      /\ dst \in Int /\ src \in Int /\ n \in Int
      /\ dst .. dst + n - 1 \subseteq out /\ src .. src + n - 1 \subseteq in
  BY DEF PrologFrom
<1> USE <1>0
<1> DEFINE one == [dst |-> dst, src |-> src, n |-> n]
           copies == {one}
           to == dst .. dst + n - 1
           cm == Copied(mem, copies)
           lines == LinesOf(to)
<1>1. Written(copies) = to
  BY WrittenOne
<1>2. one.dst = dst /\ one.src = src /\ one.n = n
  OBVIOUS
<1>3. m = WrittenBack(cm, lines) /\ lines \subseteq Int
  BY RangeIsInt DEF Prolog, CleanInvalidateRange
<1>4. /\ Sound(cm, out) /\ cm.ram = mem.ram /\ cm.dirty = lines
  <2>1. Written(copies) \subseteq out \cap Memory
    BY <1>1
  <2> HIDE DEF copies
  <2> QED BY <1>1, <2>1, CopiedSound
<1>5. \A k \in 0..n - 1 : CpuView(cm)[dst + k] = src + k
  <2>1. ASSUME NEW k \in 0..n - 1
        PROVE  CpuView(cm)[dst + k] = CpuView(mem)[src + k]
    <3>1. Written(copies) \subseteq out \cap Memory
      BY <1>1
    <3>2. \A c, d \in copies : \A j \in 0..c.n - 1, l \in 0..d.n - 1 :
             c.dst + j = d.dst + l => c.src + j = d.src + l
      BY <1>2
    <3>3. one \in copies /\ k \in 0..one.n - 1
      BY <1>2
    <3> HIDE DEF copies, one
    <3>4. CpuView(Copied(mem, copies))[one.dst + k] = CpuView(mem)[one.src + k]
      BY <3>1, <3>2, <3>3, CopiedExact
    <3> QED BY <1>2, <3>4
  <2>2. ASSUME NEW k \in 0..n - 1
        PROVE  CpuView(mem)[src + k] = src + k
    <3>1. src + k \in in
      OBVIOUS
    <3> QED BY <3>1 DEF CpuView, Over, Sound
  <2> QED BY <2>1, <2>2
<1>6. \A a \in out \ to : CpuView(cm)[a] = mem.ram[a]
  <2>1. SUFFICES ASSUME NEW a \in out \ to
                 PROVE  CpuView(cm)[a] = mem.ram[a]
    OBVIOUS
  <2>2. CpuView(cm)[a] = CpuView(mem)[a]
    BY <1>1, CopiedElsewhere
  <2>3. CpuView(mem)[a] = mem.ram[a]
    BY DEF CpuView, Over, Sound
  <2> QED BY <2>2, <2>3
<1>7. \A a \in out : m.ram[a] = CpuView(cm)[a]
  <2> DEFINE gone == InLines(lines \cap cm.dirty)
             new == Over(Restrict(cm.cache, gone), cm.ram)
             dm == Cleaned(cm, lines)
  <2>1. m.ram = dm.ram
    BY <1>3, <1>4, WrittenBackSound
  <2>2. dm.ram = new
    <3>1. dm = [cm EXCEPT !.ram = new, !.dirty = @ \ lines]
      BY Zenon DEF Cleaned
    <3>2. IsMemory(cm)
      BY <1>4 DEF Sound
    <3> HIDE DEF new, dm, cm, lines
    <3> QED BY <3>1, <3>2 DEF IsMemory
  <2>3. gone = InLines(lines) /\ gone \subseteq DOMAIN cm.cache
    <3>1. lines \cap cm.dirty = lines /\ gone = InLines(cm.dirty)
      BY <1>4
    <3> HIDE DEF cm, lines, gone
    <3> QED BY <1>4, <3>1 DEF Sound
  <2>4. \A a \in out : new[a] = IF a \in gone THEN cm.cache[a] ELSE mem.ram[a]
    BY <1>4 DEF Over, Restrict, Sound
  <2>5. \A a \in out \ gone : a \notin to
    <3>1. to \subseteq InLines(lines)
      BY LinesOfIff, RangeIsInt
    <3> QED BY <2>3, <3>1
  <2> HIDE DEF gone, new, dm
  <2>6. SUFFICES ASSUME NEW a \in out
                 PROVE  new[a] = CpuView(cm)[a]
    BY <2>1, <2>2
  <2>7. CASE a \in gone
    <3>1. a \in DOMAIN cm.cache
      BY <2>3, <2>7
    <3> HIDE DEF cm
    <3> QED BY <2>4, <2>7, <3>1 DEF CpuView, Over
  <2>8. CASE a \notin gone
    BY <1>6, <2>4, <2>5, <2>8
  <2> QED BY <2>7, <2>8
<1>8. DOMAIN m.cache \cap out = {}
  <2> DEFINE dm == Cleaned(cm, lines)
             new == Restrict(dm.cache, DOMAIN dm.cache \ InLines(lines))
  <2>1. dm.cache = cm.cache /\ Sound(dm, out)
    BY <1>3, <1>4, CleanedSound
  <2>2. m.cache = new
    <3>1. m = [dm EXCEPT !.cache = new]
      BY <1>3, Zenon DEF WrittenBack
    <3>2. IsMemory(dm)
      BY <2>1 DEF Sound
    <3> HIDE DEF new, dm
    <3> QED BY <3>1, <3>2 DEF IsMemory
  <2>3. DOMAIN new = DOMAIN cm.cache \ InLines(lines)
    BY <2>1 DEF Restrict
  <2>4. DOMAIN cm.cache \subseteq DOMAIN mem.cache \cup InLines(LinesOf(in)) \cup InLines(lines)
    <3> DEFINE from == UNION {{<<x.dst + j, x.src + j>> : j \in 0..x.n - 1} : x \in copies}
               s == {f[2] : f \in from}
               lm == Loaded(mem, s)
               tos == {f[1] : f \in from}
               bytes == [b \in tos |-> CpuView(mem)[(CHOOSE f \in from : f[1] = b)[2]]]
    <3>1. cm = Stored(lm, bytes)
      BY Zenon DEF Copied
    <3>2. \A f \in from : f[1] \in to /\ f[2] \in in
      <4>1. \A f \in from : \E j \in 0..n - 1 : f = <<dst + j, src + j>>
        OBVIOUS
      <4>2. \A j \in 0..n - 1 : dst + j \in to /\ src + j \in in
        OBVIOUS
      <4> HIDE DEF from, to
      <4>3. ASSUME NEW f \in from
            PROVE  f[1] \in to /\ f[2] \in in
        <5>1. PICK j \in 0..n - 1 : f = <<dst + j, src + j>>
          BY <4>1
        <5>2. f[1] = dst + j /\ f[2] = src + j
          BY <5>1
        <5> QED BY <4>2, <5>1, <5>2, Zenon
      <4> QED BY <4>3
    <3> HIDE DEF from
    <3>3. DOMAIN bytes = tos /\ tos \subseteq to /\ s \subseteq in
      BY <3>2
    <3> HIDE DEF bytes, tos, s
    <3>4. Sound(lm, out) /\ DOMAIN lm.cache = DOMAIN mem.cache \cup InLines(LinesOf(s))
      BY LoadedSound
    <3>5. DOMAIN bytes \subseteq out \cap Memory
      BY <3>3
    <3> HIDE DEF lm, to
    <3>6. DOMAIN Stored(lm, bytes).cache = DOMAIN lm.cache \cup InLines(LinesOf(DOMAIN bytes))
      BY <3>4, <3>5, StoredSound
    <3>7. /\ InLines(LinesOf(s)) \subseteq InLines(LinesOf(in))
          /\ InLines(LinesOf(DOMAIN bytes)) \subseteq InLines(LinesOf(to))
      BY <3>3 DEF InLines, LinesOf
    <3> QED BY <3>1, <3>4, <3>6, <3>7 DEF lines
  <2> HIDE DEF new, cm, lines
  <2> QED BY <2>2, <2>3, <2>4
<1> HIDE DEF cm
<1>9. \A k \in 0..n - 1 : dst + k \in out
  OBVIOUS
<1> QED BY <1>5, <1>6, <1>7, <1>8, <1>9 DEF PrologDone

(* These depend on the call alone.                                         *)
LEMMA SamePieces ==
  ASSUME call' = call
  PROVE  /\ Pieces' = Pieces /\ (FlatCall' <=> FlatCall) /\ OutBytes' = OutBytes
         /\ \A i : To(i)' = To(i) /\ From(i)' = From(i)
         /\ \A ram, i, n : Brought(ram, i, n)' <=> Brought(ram, i, n)
<1>1. Pieces' = Pieces /\ Bundle' = Bundle
  BY DEF Pieces, Bundle
<1>2. \A i : To(i)' = To(i) /\ From(i)' = From(i)
  BY <1>1 DEF To, From, InBundle
<1>3. OutBytes' = OutBytes /\ InBytes' = InBytes
  BY SameTensors
<1>4. (Apart' <=> Apart) /\ (ConcatIsValid' <=> ConcatIsValid) /\ (OutputsApart' <=> OutputsApart)
  BY SameResult, SameGeometry DEF OutputsApart
<1>5. (Flat' <=> Flat) /\ (LinesApart' <=> LinesApart)
  BY <1>1, <1>3 DEF Flat, SameBatches, NothingOutside, LinesApart, Canonical
<1>6. \A ram, i, n : Brought(ram, i, n)' <=> Brought(ram, i, n)
  BY <1>2 DEF Brought
<1> QED BY <1>1, <1>2, <1>3, <1>4, <1>5, <1>6 DEF FlatCall

(* In such a call, FlatMoves holds, and a turn has its piece.              *)
LEMMA FlatPieces ==
  ASSUME call \in Calls, FlatCall
  PROVE  /\ Fills
         /\ \A f \in Bytewise : \E i \in DOMAIN Pieces : \E e \in 0..Size(Pieces[i]) - 1 :
              f = <<To(i) + e, From(i) + e>>
         /\ \A i \in DOMAIN Pieces :
              /\ To(i) \in Nat /\ From(i) \in Nat /\ Size(Pieces[i]) \in Nat
              /\ \A e \in 0..Size(Pieces[i]) - 1 :
                   /\ <<To(i) + e, From(i) + e>> \in Bytewise
                   /\ To(i) + e \in OutBytes /\ From(i) + e \in InBytes
              /\ To(i) .. To(i) + Size(Pieces[i]) - 1 \subseteq OutBytes
              /\ From(i) .. From(i) + Size(Pieces[i]) - 1 \subseteq InBytes
         /\ DOMAIN Pieces = 1..Len(Pieces) /\ Len(Pieces) \in Nat \ {0}
<1>1. /\ Fills
      /\ \A f \in Bytewise : \E i \in DOMAIN Pieces : \E e \in 0..Size(Pieces[i]) - 1 :
           f = <<To(i) + e, From(i) + e>>
      /\ \A i \in DOMAIN Pieces :
           /\ To(i) \in Nat /\ From(i) \in Nat /\ Size(Pieces[i]) \in Nat
           /\ \A e \in 0..Size(Pieces[i]) - 1 :
                /\ <<To(i) + e, From(i) + e>> \in Bytewise
                /\ To(i) + e \in OutBytes /\ From(i) + e \in InBytes
  BY FlatMoves DEF FlatCall
<1>2. PartsOf(Bundle, Pieces, call.dim)
  BY ListParts DEF FlatCall
<1>3. DOMAIN Pieces = 1..Len(Pieces) /\ Len(Pieces) \in Nat \ {0}
  BY <1>2, PartSizes
<1>4. ASSUME NEW at \in Nat, NEW n \in Nat, NEW S, \A e \in 0..n - 1 : at + e \in S
      PROVE  at .. at + n - 1 \subseteq S
  <2> SUFFICES ASSUME NEW a \in at .. at + n - 1
               PROVE  a \in S
    OBVIOUS
  <2>1. a - at \in 0..n - 1 /\ at + (a - at) = a
    OBVIOUS
  <2> QED BY <1>4, <2>1
<1>5. ASSUME NEW i \in DOMAIN Pieces
      PROVE  /\ To(i) .. To(i) + Size(Pieces[i]) - 1 \subseteq OutBytes
             /\ From(i) .. From(i) + Size(Pieces[i]) - 1 \subseteq InBytes
  BY <1>1, <1>4
<1> QED BY <1>1, <1>3, <1>5

(* Bytes that are overwritten with what belongs there stay in place.       *)
LEMMA StaysBrought ==
  ASSUME call \in Calls, FlatCall, NEW i \in DOMAIN Pieces, NEW n \in 0..Size(Pieces[i]), NEW ram, NEW new,
         Brought(ram, i, n), \A a \in OutBytes : new[a] = ram[a] \/ <<a, new[a]>> \in Bytewise
  PROVE  Brought(new, i, n)
<1> SUFFICES ASSUME NEW k \in 0..n - 1
             PROVE  new[To(i) + k] = From(i) + k
  BY DEF Brought
<1> DEFINE a == To(i) + k
           g == <<a, From(i) + k>>
<1>1. Size(Pieces[i]) \in Nat
  BY FlatPieces
<1>2. k \in 0..Size(Pieces[i]) - 1
  BY <1>1
<1>3. g \in Bytewise /\ a \in OutBytes /\ Fills
  BY <1>2, FlatPieces
<1>4. ram[a] = From(i) + k
  BY DEF Brought
<1>5. ASSUME <<a, new[a]>> \in Bytewise
      PROVE  new[a] = From(i) + k
  <2> DEFINE f == <<a, new[a]>>
  <2>1. f[1] = g[1] /\ f[2] = new[a] /\ g[2] = From(i) + k
    OBVIOUS
  <2> HIDE DEF f, g
  <2> QED BY <1>3, <1>5, <2>1 DEF Fills, f
<1> QED BY <1>3, <1>4, <1>5

(* When all pieces are in place, memory is the result.                     *)
LEMMA AllBrought ==
  ASSUME call \in Calls, FlatCall, NEW ram,
         \A i \in DOMAIN Pieces : Brought(ram, i, Size(Pieces[i]))
  PROVE  Holds(ram)
<1>1. ASSUME NEW f \in Bytewise
      PROVE  ram[f[1]] = f[2]
  <2>1. PICK i \in DOMAIN Pieces : \E e \in 0..Size(Pieces[i]) - 1 : f = <<To(i) + e, From(i) + e>>
    BY FlatPieces
  <2> QED BY <2>1 DEF Brought
<1>2. \A a \in OutBytes : \E f \in Bytewise : f[1] = a
  BY FlatPieces DEF Fills
<1> QED BY <1>1, <1>2, AllMoved

(* What a step has to show to be in the turns of a flat call.              *)
LEMMA FlatTurnsAfter ==
  ASSUME call' = call, FlatCall, block' \in {"inputs", "outputs"},
         pc' \in {"start", "wait", "end", "done"},
         mem'.dirty = {}, DOMAIN mem'.cache \cap OutBytes = {},
         \A i \in DOMAIN Pieces : pc' = "done" \/ i < p'.idx => Brought(mem'.ram, i, Size(Pieces[i])),
         pc' = "wait" => Halfway(mem'.ram, p'.idx, p'.in, p'.out),
         pc' = "end" => Brought(mem'.ram, p'.idx, Size(Pieces[p'.idx]))
  PROVE  FlatTurns'
<1>1. /\ Pieces' = Pieces /\ FlatCall' /\ OutBytes' = OutBytes
      /\ \A i : To(i)' = To(i) /\ From(i)' = From(i)
      /\ \A ram, i, n : Brought(ram, i, n)' <=> Brought(ram, i, n)
  BY SamePieces
<1>2. (\A i \in DOMAIN Pieces : pc = "done" \/ i < p.idx => Brought(mem.ram, i, Size(Pieces[i])))'
  BY <1>1
<1>3. pc' = "wait" =>
        LET done == Size(Pieces[p'.idx]) - p'.in.len
        IN  /\ p'.in.len \in 0..Size(Pieces[p'.idx]) /\ p'.in.len % 3 = 0 /\ p'.out.len = p'.in.len
            /\ p'.in.at = From(p'.idx) + done /\ p'.out.at = To(p'.idx) + done
            /\ Brought(mem'.ram, p'.idx, done)
  BY Zenon DEF Halfway
<1>4. (pc = "wait" =>
        LET done == Size(Pieces[p.idx]) - p.in.len
        IN  /\ p.in.len \in 0..Size(Pieces[p.idx]) /\ p.in.len % 3 = 0 /\ p.out.len = p.in.len
            /\ p.in.at = From(p.idx) + done /\ p.out.at = To(p.idx) + done
            /\ Brought(mem.ram, p.idx, done))'
  BY <1>1, <1>3
<1>5. (pc = "end" => Brought(mem.ram, p.idx, Size(Pieces[p.idx])))'
  BY <1>1
<1> QED BY <1>1, <1>2, <1>4, <1>5 DEF FlatTurns, Halfway

(* The piece of a turn, and where the turn copies it from and to.          *)
LEMMA TurnPiece ==
  ASSUME Safe, FlatTurns, pc \in {"start", "wait", "end"}
  PROVE  /\ p.idx \in DOMAIN Pieces /\ p.tensors = Pieces /\ Tensor = Pieces[p.idx]
         /\ IsRaw(p.in, 24) /\ IsRaw(p.out, 24)
         /\ block = "inputs" => p.at = To(p.idx) /\ Tensor.at = From(p.idx)
         /\ block = "outputs" => Tensor.at = To(p.idx) /\ p.at = From(p.idx)
<1>1. Turn /\ block \in {"inputs", "outputs"}
  BY DEF Safe, FlatTurns
<1>2. CASE block = "inputs"
  <2>1. InputsTurn
    BY <1>1, <1>2, TurnOfBlock
  <2>2. Pieces = call.ins /\ Bundle = call.out /\ call.op = "Concat"
    BY <2>1 DEF InputsTurn, Pieces, Bundle
  <2> QED BY <1>2, <2>1, <2>2 DEF InputsTurn, OnTurn, Tensor, To, From, InBundle
<1>3. CASE block = "outputs"
  <2>1. OutputsTurn
    BY <1>1, <1>3, TurnOfBlock
  <2>2. Pieces = call.outs /\ Bundle = call.in /\ call.op = "Split"
    BY <2>1 DEF OutputsTurn, Pieces, Bundle
  <2> QED BY <1>3, <2>1, <2>2 DEF OutputsTurn, OnTurn, Tensor, To, From, InBundle
<1> QED BY <1>1, <1>2, <1>3

(* The start of a turn: its prolog is in place.                            *)
LEMMA FlatTurnStarts ==
  ASSUME Safe, FlatTurns, pc = "start", StartsFlat(To(p.idx), From(p.idx), Size(Pieces[p.idx]))
  PROVE  FlatTurns'
<1> DEFINE i == p.idx
           dst == To(i)
           src == From(i)
           n == Size(Pieces[i])
           done == PrologLength(n)
           rest == n - done
<1>1. /\ call \in Calls /\ Sound(mem, OutBytes) /\ mem.dirty = {} /\ IsParams(p)
      /\ FlatCall /\ DOMAIN mem.cache \cap OutBytes = {} /\ block \in {"inputs", "outputs"}
      /\ \A j \in DOMAIN Pieces : j < i => Brought(mem.ram, j, Size(Pieces[j]))
  BY DEF Safe, FlatTurns
<1>2. i \in DOMAIN Pieces /\ IsRaw(p.in, 24) /\ IsRaw(p.out, 24)
  BY TurnPiece
<1>3. /\ dst \in Nat /\ src \in Nat /\ n \in Nat
      /\ dst .. dst + n - 1 \subseteq OutBytes /\ src .. src + n - 1 \subseteq InBytes
      /\ \A e \in 0..n - 1 : <<dst + e, src + e>> \in Bytewise
  BY <1>1, <1>2, FlatPieces
<1>4. done \in 0..n /\ rest % 3 = 0
  BY <1>3, PrologLeavesWholeChannels
<1>5. StartsFlat(dst, src, n)
  OBVIOUS
<1> HIDE DEF dst, src, n, done
<1>6. /\ call' = call /\ block' = block /\ mem'.dirty = {} /\ pc' \in {"wait", "end"} /\ p'.idx = i
  <2>1. dst \in Int /\ src \in Int /\ block # "memset"
    BY <1>1, <1>3
  <2> HIDE DEF i
  <2>2. /\ call' = call /\ block' = block /\ mem'.dirty = {} /\ pc' \in {"wait", "end"}
        /\ p'.idx = p.idx
    BY <1>2, <1>3, <1>5, <2>1, FlatStart DEF i
  <2> QED BY <2>2 DEF i
<1>7. /\ mem' = IF done > 0 THEN Prolog(dst, src, done) ELSE mem
      /\ pc' = IF rest > 0 THEN "wait" ELSE "end"
      /\ p' = IF rest > 0 THEN [p EXCEPT !.in.at = src + done, !.in.len = rest,
                                         !.out.at = dst + done, !.out.len = rest]
              ELSE p
  BY <1>5 DEF StartsFlat, Launches, done
<1> HIDE DEF i
<1>8. /\ DOMAIN mem'.cache \cap OutBytes = {}
      /\ \A k \in 0..done - 1 : mem'.ram[dst + k] = src + k
      /\ \A a \in OutBytes \ (dst .. dst + done - 1) : mem'.ram[a] = mem.ram[a]
  <2>1. CASE done > 0
    <3>1. /\ dst .. dst + done - 1 \subseteq OutBytes /\ src .. src + done - 1 \subseteq InBytes
      BY <1>3, <1>4, PartOfRange
    <3>2. OutBytes \subseteq Memory /\ InBytes \subseteq Memory \ OutBytes
          /\ InLines(LinesOf(InBytes)) \cap OutBytes = {}
      BY <1>1, OutputsInMemory DEF FlatCall, Apart, LinesApart
    <3>3. mem' = Prolog(dst, src, done) /\ dst \in Int /\ src \in Int /\ done \in Int
      BY <1>3, <1>4, <1>7, <2>1
    <3> DEFINE out == OutBytes
               in == InBytes
               m == Prolog(dst, src, done)
    <3>4. /\ Sound(mem, out) /\ mem.dirty = {} /\ DOMAIN mem.cache \cap out = {}
          /\ out \subseteq Memory /\ in \subseteq Memory \ out /\ InLines(LinesOf(in)) \cap out = {}
          /\ dst .. dst + done - 1 \subseteq out /\ src .. src + done - 1 \subseteq in
      BY <1>1, <3>1, <3>2
    <3>6. m = Prolog(dst, src, done) /\ dst \in Int /\ src \in Int /\ done \in Int
      BY <3>3
    <3> HIDE DEF out, in, m
    <3>7. PrologFrom(out, in, dst, src, done)
      BY <3>4, <3>6 DEF PrologFrom
    <3>8. PrologDone(m, out, dst, src, done)
      BY <3>6, <3>7, PrologExact
    <3>5. /\ DOMAIN m.cache \cap out = {}
          /\ \A k \in 0..done - 1 : m.ram[dst + k] = src + k
          /\ \A a \in out \ (dst .. dst + done - 1) : m.ram[a] = mem.ram[a]
      BY <3>8 DEF PrologDone
    <3> QED BY <3>3, <3>5, <3>6 DEF out
  <2>2. CASE ~(done > 0)
    <3>1. done = 0 /\ mem' = mem
      BY <1>4, <1>7, <2>2, <1>3
    <3>2. 0..done - 1 = {} /\ dst .. dst + done - 1 = {}
      BY <1>3, <3>1
    <3> QED BY <1>1, <3>1, <3>2
  <2> QED BY <2>1, <2>2
<1>9. Brought(mem'.ram, i, done)
  BY <1>8 DEF Brought, dst, src
<1>10. \A a \in OutBytes : mem'.ram[a] = mem.ram[a] \/ <<a, mem'.ram[a]>> \in Bytewise
  <2>1. SUFFICES ASSUME NEW a \in OutBytes, a \in dst .. dst + done - 1
                 PROVE  <<a, mem'.ram[a]>> \in Bytewise
    BY <1>8
  <2>2. a - dst \in 0..done - 1 /\ dst + (a - dst) = a
    <3>1. dst \in Int /\ done \in Int
      BY <1>3, <1>4
    <3> QED BY <2>1, <3>1
  <2>3. a - dst \in 0..n - 1
    BY <1>3, <1>4, <2>2
  <2>4. mem'.ram[a] = src + (a - dst)
    BY <1>8, <2>2
  <2>5. <<dst + (a - dst), src + (a - dst)>> \in Bytewise
    BY <1>3, <2>3
  <2> QED BY <2>2, <2>4, <2>5
<1>11. ASSUME NEW j \in DOMAIN Pieces, j < i
       PROVE  Brought(mem'.ram, j, Size(Pieces[j]))
  <2>1. Size(Pieces[j]) \in 0..Size(Pieces[j])
    BY <1>1, FlatPieces
  <2> QED BY <1>1, <1>10, <1>11, <2>1, StaysBrought
<1>12. CASE rest > 0
  <2> DEFINE in == Moved(p.in, src + done, rest)
             out == Moved(p.out, dst + done, rest)
  <2>1. p' = [p EXCEPT !.in = in, !.out = out]
    BY <1>7, <1>12, Zenon DEF Moved
  <2>2. /\ in.at = src + done /\ in.len = rest /\ out.at = dst + done /\ out.len = rest
    <3> HIDE DEF rest
    <3> QED BY <1>2, RawMoved
  <2> HIDE DEF in, out
  <2>3. p'.in = in /\ p'.out = out
    BY <1>1, <2>1 DEF IsParams
  <2>4. n - rest = done /\ rest \in 0..n
    BY <1>3, <1>4
  <2>5. Halfway(mem'.ram, i, in, out)
    <3> DEFINE had == Size(Pieces[i]) - in.len
    <3>1. had = done
      BY <2>2, <2>4 DEF n
    <3>2. /\ in.len \in 0..Size(Pieces[i]) /\ in.len % 3 = 0 /\ out.len = in.len
          /\ in.at = From(i) + had /\ out.at = To(i) + had
          /\ Brought(mem'.ram, i, had)
      BY <1>4, <1>9, <2>2, <2>4, <3>1 DEF n, dst, src
    <3> HIDE DEF had
    <3> QED BY <3>2, Zenon DEF Halfway, had
  <2>6. pc' = "wait"
    BY <1>7, <1>12
  <2> QED BY <1>1, <1>6, <1>8, <1>11, <2>3, <2>5, <2>6, FlatTurnsAfter
<1>13. CASE ~(rest > 0)
  <2>1. pc' = "end" /\ done = n
    BY <1>3, <1>4, <1>7, <1>13
  <2>2. Brought(mem'.ram, i, Size(Pieces[i]))
    BY <1>9, <2>1 DEF n
  <2> QED BY <1>1, <1>6, <1>8, <1>11, <2>1, <2>2, FlatTurnsAfter
<1> QED BY <1>12, <1>13

(* A byte that a transfer does not address stays.                          *)
LEMMA TransferredElsewhere ==
  ASSUME NEW ram, NEW in, NEW out, NEW a, a \in DOMAIN ram, a \notin Addresses(out)
  PROVE  Transferred(ram, in, out)[a] = ram[a]
BY Zenon DEF Transferred, Over

(* The engines of a turn bring what its prolog left.                       *)
LEMMA FlatTurnTransfers ==
  ASSUME Safe, FlatTurns, EnginesDone
  PROVE  FlatTurns'
<1> DEFINE i == p.idx
           n == Size(Pieces[i])
           len == p.in.len
           done == n - len
           ram == Transferred(mem.ram, p.in, p.out)
<1>1. /\ call \in Calls /\ Sound(mem, OutBytes) /\ mem.dirty = {} /\ pc = "wait"
      /\ FlatCall /\ DOMAIN mem.cache \cap OutBytes = {} /\ block \in {"inputs", "outputs"}
      /\ \A j \in DOMAIN Pieces : j < i => Brought(mem.ram, j, Size(Pieces[j]))
  BY DEF Safe, FlatTurns, EnginesDone
<1>2. i \in DOMAIN Pieces /\ IsRaw(p.in, 24) /\ IsRaw(p.out, 24)
  BY <1>1, TurnPiece
<1>3. /\ To(i) \in Nat /\ From(i) \in Nat /\ n \in Nat
      /\ \A e \in 0..n - 1 : /\ <<To(i) + e, From(i) + e>> \in Bytewise
                             /\ To(i) + e \in OutBytes /\ From(i) + e \in InBytes
  BY <1>1, <1>2, FlatPieces
<1>4. /\ len \in 0..n /\ len % 3 = 0 /\ p.out.len = len
      /\ p.in.at = From(i) + done /\ p.out.at = To(i) + done
      /\ Brought(mem.ram, i, done)
  BY <1>1, Zenon DEF FlatTurns, Halfway
<1>5. call' = call /\ block' = block /\ pc' = "end" /\ p' = p /\ mem' = [mem EXCEPT !.ram = ram]
  BY DEF EnginesDone
<1>6. mem'.ram = ram /\ mem'.cache = mem.cache /\ mem'.dirty = mem.dirty
  <2> HIDE DEF ram
  <2> QED BY <1>1, <1>5 DEF Sound, IsMemory
<1> HIDE DEF i, n, len
<1>7. done \in 0..n /\ done \in Int /\ len \in Nat
  BY <1>3, <1>4
<1> DEFINE src == From(i) + done
           dst == To(i) + done
<1>8. src \in Int /\ dst \in Int /\ p.in.at = src /\ p.out.at = dst
  BY <1>3, <1>4, <1>7
<1>9. \A e \in 0..len - 1 : src + e = From(i) + (done + e) /\ dst + e = To(i) + (done + e)
                            /\ done + e \in 0..n - 1
  BY <1>3, <1>4, <1>7
<1> HIDE DEF done, src, dst
<1>10. /\ Count(p.in) = len /\ \A e \in 0..len - 1 : Address(p.in, e) = src + e
       /\ Count(p.out) = len /\ \A e \in 0..len - 1 : Address(p.out, e) = dst + e
  <2>1. ASSUME NEW d, IsRaw(d, 24), d.len = len, NEW at \in Int, d.at = at
        PROVE  Count(d) = len /\ \A e \in 0..len - 1 : Address(d, e) = at + e
    <3>1. /\ d.raw = TRUE /\ d.loop = 0 /\ d.at \in Int /\ d.len \in Nat /\ d.bits \in {8, 16, 24}
          /\ d.frames = 1 /\ d.frame = 0 /\ d.bits = 24
      BY <1>7, <2>1 DEF IsRaw
    <3>2. (d.len * 8) % d.bits = 0
      <4>1. (len * 8) % 24 = 0
        BY <1>4, <1>7
      <4> QED BY <2>1, <3>1, <4>1
    <3>3. /\ Count(d) = d.frames * d.len
          /\ \A q \in Int, r \in 0..d.len - 1 : Address(d, q * d.len + r) = d.at + q * d.frame + r
      <4>1. d.frames \in Nat /\ d.frame \in Int
        BY <3>1
      <4> QED BY <3>1, <3>2, <4>1, RawAddress
    <3>4. Count(d) = len
      BY <1>7, <2>1, <3>1, <3>3
    <3>5. ASSUME NEW e \in 0..len - 1
          PROVE  Address(d, e) = at + e
      <4>1. Address(d, 0 * d.len + e) = d.at + 0 * d.frame + e
        BY <2>1, <3>3
      <4>2. 0 * d.len + e = e /\ d.at + 0 * d.frame + e = at + e
        BY <1>7, <2>1, <3>1
      <4> QED BY <4>1, <4>2
    <3> QED BY <3>4, <3>5
  <2>2. p.in.len = len /\ p.out.len = len
    BY <1>4 DEF len
  <2> QED BY <1>2, <1>8, <2>1, <2>2
<1>11. \A e \in 0..len - 1 : ram[dst + e] = src + e
  <2> SUFFICES ASSUME NEW e \in 0..len - 1
               PROVE  ram[dst + e] = src + e
    OBVIOUS
  <2>1. \A j, k \in 0..Count(p.out) - 1 : Address(p.out, j) = Address(p.out, k) => j = k
    BY <1>7, <1>8, <1>10
  <2>2. Count(p.out) \in Nat /\ e \in 0..Count(p.out) - 1
    BY <1>7, <1>10
  <2>3. ram[Address(p.out, e)] = mem.ram[Address(p.in, e)]
    BY <2>1, <2>2, TransferredExact
  <2>4. src + e \in InBytes
    BY <1>3, <1>9
  <2>5. mem.ram[src + e] = src + e
    BY <1>1, <2>4 DEF Sound, FlatCall, Apart
  <2> QED BY <1>10, <2>3, <2>5
<1>12. \A a \in OutBytes : ram[a] = mem.ram[a] \/ \E e \in 0..len - 1 : a = dst + e
  <2> SUFFICES ASSUME NEW a \in OutBytes, a \in Addresses(p.out) \/ a \notin Addresses(p.out)
               PROVE  ram[a] = mem.ram[a] \/ \E e \in 0..len - 1 : a = dst + e
    OBVIOUS
  <2>1. ASSUME a \in Addresses(p.out)
        PROVE  \E e \in 0..len - 1 : a = dst + e
    BY <1>10, <2>1 DEF Addresses
  <2>2. a \in DOMAIN mem.ram
    BY <1>1, OutputsInMemory DEF Sound
  <2> QED BY <2>1, <2>2, TransferredElsewhere
<1> HIDE DEF ram
<1>13. \A a \in OutBytes : ram[a] = mem.ram[a] \/ <<a, ram[a]>> \in Bytewise
  <2> SUFFICES ASSUME NEW a \in OutBytes, NEW e \in 0..len - 1, a = dst + e
               PROVE  <<a, ram[a]>> \in Bytewise
    BY <1>12
  <2> QED BY <1>3, <1>9, <1>11
<1>14. Brought(ram, i, n)
  <2>1. Brought(ram, i, done)
    BY <1>1, <1>2, <1>4, <1>7, <1>13, StaysBrought DEF n, done
  <2> SUFFICES ASSUME NEW k \in 0..n - 1
               PROVE  ram[To(i) + k] = From(i) + k
    BY DEF Brought
  <2>2. CASE k < done
    BY <1>7, <2>1, <2>2 DEF Brought
  <2>3. CASE ~(k < done)
    <3>1. k - done \in 0..len - 1 /\ done + (k - done) = k
      BY <1>3, <1>4, <1>7, <2>3 DEF done
    <3> QED BY <1>9, <1>11, <3>1
  <2> QED BY <2>2, <2>3
<1>15. ASSUME NEW j \in DOMAIN Pieces, j < i
       PROVE  Brought(ram, j, Size(Pieces[j]))
  <2>1. Size(Pieces[j]) \in 0..Size(Pieces[j])
    BY <1>1, FlatPieces
  <2> QED BY <1>1, <1>13, <1>15, <2>1, StaysBrought
<1>16. \A j \in DOMAIN Pieces : pc' = "done" \/ j < p'.idx => Brought(mem'.ram, j, Size(Pieces[j]))
  BY <1>5, <1>6, <1>15 DEF i
<1>17. Brought(mem'.ram, p'.idx, Size(Pieces[p'.idx]))
  BY <1>5, <1>6, <1>14 DEF i, n
<1> QED BY <1>1, <1>5, <1>6, <1>16, <1>17, FlatTurnsAfter

(* The end of a turn goes on to the next piece.                            *)
LEMMA FlatTurnEnds ==
  ASSUME Safe, FlatTurns, pc = "end", EndFlat
  PROVE  FlatTurns'
<1>1. /\ call \in Calls /\ mem.dirty = {} /\ FlatCall /\ DOMAIN mem.cache \cap OutBytes = {}
      /\ block \in {"inputs", "outputs"} /\ IsParams(p)
      /\ \A j \in DOMAIN Pieces : j < p.idx => Brought(mem.ram, j, Size(Pieces[j]))
      /\ Brought(mem.ram, p.idx, Size(Pieces[p.idx]))
  BY DEF Safe, FlatTurns
<1>2. p.idx \in DOMAIN Pieces /\ p.tensors = Pieces
  BY TurnPiece
<1>3. DOMAIN Pieces = 1..Len(Pieces) /\ Len(Pieces) \in Nat \ {0}
  BY <1>1, FlatPieces
<1>4. call' = call /\ block' = block /\ mem' = mem
      /\ p' = [[p EXCEPT !.at = @ + Size(Tensor)] EXCEPT !.idx = p.idx + 1]
      /\ pc' = IF p.idx < Len(p.tensors) THEN "start" ELSE "done"
  BY DEF EndFlat, NextTurn
<1>5. p'.idx = p.idx + 1
  <2> DEFINE x == p.at + Size(Tensor)
  <2>1. p' = [[p EXCEPT !.at = x] EXCEPT !.idx = p.idx + 1]
    BY <1>4
  <2> HIDE DEF x
  <2> QED BY <1>1, <2>1 DEF IsParams
<1>6. \A j \in DOMAIN Pieces : pc' = "done" \/ j < p'.idx => j < p.idx \/ j = p.idx
  BY <1>2, <1>3, <1>4, <1>5
<1>7. \A j \in DOMAIN Pieces : pc' = "done" \/ j < p'.idx => Brought(mem'.ram, j, Size(Pieces[j]))
  BY <1>1, <1>4, <1>6
<1> QED BY <1>1, <1>4, <1>7, FlatTurnsAfter

(* Flat turns begin with all pieces to do.                                 *)
LEMMA FlatTurnsBegin ==
  ASSUME Safe, Cold, FlatCall, pc = "call", NEW b \in {"inputs", "outputs"}, NEW at,
         Inserts(b, Prepared(Pieces, Flat24, Flat24, at)), mem' = mem
  PROVE  FlatTurns'
<1>1. /\ call' = call /\ block' = b /\ p' = Prepared(Pieces, Flat24, Flat24, at)
      /\ pc' = "start"
  BY DEF Inserts
<1>2. p'.idx = 1
  BY <1>1, PreparedParams DEF Safe
<1>3. mem'.dirty = {} /\ DOMAIN mem'.cache \cap OutBytes = {}
  BY DEF Safe, Cold
<1>4. \A j \in DOMAIN Pieces : ~(j < 1)
  BY FlatPieces DEF Safe
<1> QED BY <1>1, <1>2, <1>3, <1>4, FlatTurnsAfter

(* Every step from a flat turn is one.                                     *)
LEMMA StepInFlatTurns ==
  ASSUME Safe, FlatTurns, [Next]_vars
  PROVE  FlatTurns'
<1>1. /\ pc \in {"start", "wait", "end", "done"} /\ block \in {"inputs", "outputs"}
      /\ mem.dirty = {} /\ FlatCall /\ DOMAIN mem.cache \cap OutBytes = {}
  BY DEF FlatTurns
<1>2. ~Operator
  BY <1>1 DEF Operator, Concat, Split, Slice, SwSlice, SpaceToDepth, DepthToSpace, Transpose, Pad
<1>3. CASE Start
  <2>1. pc = "start" /\ (StartInputs \/ StartOutputs)
    BY <1>1, <1>3 DEF Start, StartFilling, StartBatched, StartSplit, StartTransfer
  <2>2. /\ Tensor = Pieces[p.idx]
        /\ block = "inputs" => p.at = To(p.idx) /\ Tensor.at = From(p.idx)
        /\ block = "outputs" => Tensor.at = To(p.idx) /\ p.at = From(p.idx)
    BY <2>1, TurnPiece
  <2>3. StartsFlat(To(p.idx), From(p.idx), Size(Pieces[p.idx]))
    <3>1. CASE StartInputs
      <4>1. p.at = To(p.idx) /\ Tensor.at = From(p.idx) /\ Size(Tensor) = Size(Pieces[p.idx])
            /\ StartsFlat(p.at, Tensor.at, Size(Tensor))
        BY <2>2, <3>1 DEF StartInputs
      <4> QED BY <4>1
    <3>2. CASE StartOutputs
      <4>1. p.at = From(p.idx) /\ Tensor.at = To(p.idx) /\ Size(Tensor) = Size(Pieces[p.idx])
            /\ StartsFlat(Tensor.at, p.at, Size(Tensor))
        BY <2>2, <3>2 DEF StartOutputs
      <4> QED BY <4>1
    <3> QED BY <2>1, <3>1, <3>2
  <2> QED BY <2>1, <2>3, FlatTurnStarts
<1>4. CASE EnginesDone
  BY <1>4, FlatTurnTransfers
<1>5. CASE End
  <2>1. pc = "end" /\ EndFlat
    BY <1>1, <1>5 DEF End, EndBatched, EndSplitAton, EndSplitBatched, EndTransfer, EndMemset, EndFilling
  <2> QED BY <2>1, FlatTurnEnds
<1>6. ~Evict
  BY <1>1 DEF Evict
<1>7. CASE UNCHANGED vars
  <2>1. call' = call /\ pc' = pc /\ block' = block /\ p' = p /\ mem' = mem
    BY <1>7 DEF vars
  <2>2. pc = "wait" => Halfway(mem.ram, p.idx, p.in, p.out)
    BY Zenon DEF FlatTurns, Halfway
  <2>3. /\ \A i \in DOMAIN Pieces : pc = "done" \/ i < p.idx => Brought(mem.ram, i, Size(Pieces[i]))
        /\ pc = "end" => Brought(mem.ram, p.idx, Size(Pieces[p.idx]))
    BY DEF FlatTurns
  <2> QED BY <1>1, <2>1, <2>2, <2>3, FlatTurnsAfter
<1> QED BY <1>2, <1>3, <1>4, <1>5, <1>6, <1>7 DEF Next, Finished

(* With the last piece in place, memory holds the result.                  *)
LEMMA FlatTurnsAreResult ==
  ASSUME Safe, FlatTurns
  PROVE  ResultInMemory
<1>1. pc # "failed" /\ ~OnCpu
  BY DEF FlatTurns, OnCpu
<1>2. ASSUME pc = "done"
      PROVE  Holds(mem.ram)
  <2>1. call \in Calls /\ FlatCall /\ \A i \in DOMAIN Pieces : Brought(mem.ram, i, Size(Pieces[i]))
    BY <1>2 DEF Safe, FlatTurns
  <2> QED BY <2>1, AllBrought
<1> QED BY <1>1, <1>2, Zenon DEF ResultInMemory

(* A list of tensors of one batch each is cut with the channels innermost, *)
(* and any list in the order of ONNX.                                      *)
LEMMA LoopsAreCut ==
  ASSUME PartsOf(Bundle, Pieces, call.dim)
  PROVE  /\ IsCut("onnx", call.dim, Bundle, Pieces)
         /\ AllCanonical => IsCut("packed", call.dim, Bundle, Pieces)
<1> DEFINE w == Bundle
           parts == Pieces
           dim == call.dim
<1>1. PartsOf(w, parts, dim) /\ w \in Tensors /\ \A i \in DOMAIN parts : parts[i] \in Tensors
  BY PartTensors
<1>2. AllCanonical => Canonical(w) /\ \A i \in DOMAIN parts : Canonical(parts[i])
  BY DEF AllCanonical
<1> HIDE DEF w, parts, dim
<1>3. IsCut("onnx", dim, w, parts)
  BY <1>1 DEF IsCut, PartsOf, Cuttable, LaidOut, Layouts
<1>4. AllCanonical => IsCut("packed", dim, w, parts)
  BY <1>1, <1>2 DEF IsCut, PartsOf, Cuttable, LaidOut, Layouts
<1> QED BY <1>3, <1>4 DEF w, parts, dim

(* LL_ATON_LIB_Concat: its loops on the CPU, or the first of its turns.    *)
LEMMA ConcatExact ==
  ASSUME Safe, InOneGo, Cold, Apart, WellCut, Concat
  PROVE  InOneGo' \/ FlatTurns'
<1>1. pc = "call" /\ call.op = "Concat" /\ call \in Calls /\ Pieces = call.ins /\ Bundle = call.out
  BY DEF Concat, Safe, Pieces, Bundle
<1>2. IF AxisIsLeftmost THEN Flat /\ LinesApart ELSE AllCanonical
  BY <1>1 DEF WellCut
<1>3. CASE Rejects
  BY <1>1, <1>3, RejectsInOneGo
<1>4. CASE ConcatIsValid /\ AxisIsLeftmost /\ ~Rejects
  <2>1. FlatCall
    BY <1>1, <1>2, <1>4 DEF FlatCall
  <2>2. call.ins[1].batch = call.out.batch
    <3>1. 1 \in DOMAIN Pieces
      BY <1>1, <2>1, FlatPieces
    <3> QED BY <1>1, <2>1, <3>1 DEF FlatCall, Flat, SameBatches
  <2>3. Inserts("inputs", Prepared(call.ins, Flat24, Flat24, call.out.at)) /\ mem' = mem
    BY <1>4, <2>2 DEF Concat
  <2> QED BY <1>1, <2>1, <2>3, FlatTurnsBegin
<1>5. CASE ConcatIsValid /\ ~AxisIsLeftmost /\ ~Rejects
  <2>1. Returns(ConcatLoop(call.ins, call.out))
    BY <1>5 DEF Concat
  <2>2. IsCut("packed", call.dim, call.out, call.ins)
    <3>1. PartsOf(Bundle, Pieces, call.dim) /\ AllCanonical
      BY <1>1, <1>2, <1>5, ListParts
    <3> QED BY <1>1, <3>1, LoopsAreCut
  <2>3. Holds(CpuView(ConcatLoop(call.ins, call.out)))
    BY <1>1, <2>2, LoopedConcat
  <2> QED BY <1>1, <2>1, <2>3, ReturnsInOneGo
<1> QED BY <1>3, <1>4, <1>5 DEF Concat

(* LL_ATON_LIB_Split: its loops or its copies on the CPU, or the first of  *)
(* its turns.                                                              *)
LEMMA SplitExact ==
  ASSUME Safe, InOneGo, Cold, Apart, WellCut, Split
  PROVE  InOneGo' \/ FlatTurns'
<1>1. pc = "call" /\ call.op = "Split" /\ call \in Calls /\ Pieces = call.outs /\ Bundle = call.in
  BY DEF Split, Safe, Pieces, Bundle
<1>2. /\ OutputsApart
      /\ \/ call.case = "flat" /\ Flat /\ (ByEngines => LinesApart)
         \/ call.case = "sw_onnx"
         \/ call.case = "sw_aton" /\ AllCanonical
         \/ call.case = "channel_aton" /\ ~ByEngines /\ AllCanonical
  BY <1>1 DEF WellCut
<1>3. /\ IsCut("onnx", call.dim, call.in, call.outs)
      /\ AllCanonical => IsCut("packed", call.dim, call.in, call.outs)
  BY <1>1, ListParts, LoopsAreCut
<1>4. CASE call.case = "sw_onnx"
  <2>1. Holds(CpuView(SplitLoop(OrderOf("onnx"))))
    BY <1>1, <1>2, <1>3, <1>4, LoopedSplit
  <2>2. Returns(SplitLoop(OnnxOrder))
    BY <1>4 DEF Split
  <2> QED BY <1>1, <2>1, <2>2, ReturnsInOneGo DEF OrderOf
<1>5. CASE /\ AllCanonical
          /\ \/ call.case = "sw_aton"
             \/ (call.case = "channel_aton" /\ ~ByEngines)
  <2>1. Holds(CpuView(SplitLoop(OrderOf("packed"))))
    BY <1>1, <1>2, <1>3, <1>5, LoopedSplit
  <2>2. Returns(SplitLoop(AtonOrder))
    BY <1>5 DEF Split
  <2> QED BY <1>1, <2>1, <2>2, ReturnsInOneGo DEF OrderOf
<1>6. CASE call.case = "flat" /\ Flat /\ ~ByEngines
  <2>1. Returns(SplitFlat)
    BY <1>6 DEF Split
  <2> QED BY <1>1, <1>2, <1>6, <2>1, FlatSplitCopied, ReturnsInOneGo
<1>7. CASE call.case = "flat" /\ Flat /\ ByEngines /\ LinesApart
  <2>1. FlatCall
    BY <1>1, <1>2, <1>7 DEF FlatCall
  <2>2. Inserts("outputs", Prepared(call.outs, Flat24, Flat24, call.in.at)) /\ mem' = mem
    BY <1>7 DEF Split
  <2> QED BY <1>1, <2>1, <2>2, FlatTurnsBegin
<1> QED BY <1>2, <1>4, <1>5, <1>6, <1>7

(* The cache stays empty until the operator begins.                        *)
LEMMA StepStaysCold ==
  ASSUME Safe, Cold, [Next]_vars
  PROVE  Cold'
<1>1. CASE pc = "call"
  <2>1. ~Evict
    BY <1>1 DEF Evict, Safe
  <2>2. CASE Operator
    <3>1. pc' # "call"
      BY <2>2 DEF Operator, Concat, Split, Slice, SwSlice, SpaceToDepth, DepthToSpace, Transpose, Pad,
                  Inserts, Returns, Rejects, BatchedConcat, PadMemset, Filling, FillsByEngines
    <3> QED BY <3>1 DEF Cold
  <2>3. CASE UNCHANGED vars
    BY <2>3 DEF vars, Cold
  <2> QED BY <1>1, <2>1, <2>2, <2>3 DEF Next, Start, EnginesDone, End, Finished
<1>2. CASE pc # "call"
  <2>1. pc' # "call"
    <3>1. CASE Start
      BY <3>1 DEF Start, StartFilling, StartBatched, StartSplit, StartTransfer, StartInputs,
                  StartOutputs, StartsFlat, Launches
    <3>2. CASE End
      BY <3>2 DEF End, EndFlat, EndBatched, EndSplitAton, EndSplitBatched, EndTransfer, EndMemset,
                  EndFilling, NextTurn, Filling, FillsByEngines
    <3>3. CASE EnginesDone \/ Evict \/ Finished \/ UNCHANGED vars
      BY <1>2, <3>3 DEF EnginesDone, Evict, Finished, vars
    <3>4. ~Operator
      BY <1>2 DEF Operator, Concat, Split, Slice, SwSlice, SpaceToDepth, DepthToSpace, Transpose, Pad
    <3> QED BY <3>1, <3>2, <3>3, <3>4 DEF Next
  <2> QED BY <2>1 DEF Cold
<1> QED BY <1>1, <1>2

-----------------------------------------------------------------------------
(***************************************************************************)
(* Every step of a well-posed call.                                        *)
(***************************************************************************)

(* No step changes the call.                                               *)
LEMMA SameCall ==
  ASSUME [Next]_vars
  PROVE  call' = call
<1>1. CASE Operator
  BY <1>1 DEF Operator, Concat, Split, Slice, SwSlice, SpaceToDepth, DepthToSpace, Transpose, Pad,
              Inserts, Returns, Rejects, BatchedConcat, PadMemset, Filling, FillsByEngines
<1>2. CASE Start
  BY <1>2 DEF Start, StartFilling, StartBatched, StartSplit, StartTransfer, StartInputs,
              StartOutputs, StartsFlat, Launches
<1>3. CASE EnginesDone
  BY <1>3 DEF EnginesDone
<1>4. CASE End
  BY <1>4 DEF End, EndFlat, EndBatched, EndSplitAton, EndSplitBatched, EndTransfer, EndMemset,
              EndFilling, NextTurn, Filling
<1>5. CASE Evict
  BY <1>5 DEF Evict
<1>6. CASE Finished \/ UNCHANGED vars
  BY <1>6 DEF Finished, vars
<1> QED BY <1>1, <1>2, <1>3, <1>4, <1>5, <1>6 DEF Next

(* Nor what makes a concatenation or a split one that computes its result. *)
LEMMA WellCutStays ==
  ASSUME call' = call
  PROVE  WellCut' <=> WellCut
<1>1. OutBytes' = OutBytes /\ InBytes' = InBytes
  BY SameTensors
<1>2. LinesApart' <=> LinesApart
  BY <1>1 DEF LinesApart, InLines, LinesOf
<1>3. (Flat' <=> Flat) /\ (AllCanonical' <=> AllCanonical)
  BY DEF Flat, SameBatches, NothingOutside, AllCanonical, Canonical, Pieces, Bundle
<1>4. OutputsApart' <=> OutputsApart
  BY DEF OutputsApart, Bytes, Size
<1>5. (AxisIsLeftmost' <=> AxisIsLeftmost) /\ (ByEngines' <=> ByEngines)
  BY DEF AxisIsLeftmost, ByEngines, Canonical, Size
<1> QED BY <1>2, <1>3, <1>4, <1>5 DEF WellCut

(* So a well-posed call stays one.                                         *)
LEMMA WellPosedStays ==
  ASSUME [Next]_vars
  PROVE  WellPosed' <=> WellPosed
<1>1. call' = call
  BY SameCall
<1>2. Apart' <=> Apart
  BY <1>1, SameResult
<1>3. (\A a \in DOMAIN call.dims : Reaches(a))' <=> \A a \in DOMAIN call.dims : Reaches(a)
  BY <1>1 DEF Reaches
<1>4. (Canonical(call.in) /\ Canonical(call.out))' <=> Canonical(call.in) /\ Canonical(call.out)
  BY <1>1 DEF Canonical
<1>5. WellCut' <=> WellCut
  BY <1>1, WellCutStays
<1> QED BY <1>1, <1>2, <1>3, <1>4, <1>5 DEF WellPosed

(* The operators of a well-posed call compute the result in one go, or     *)
(* begin the turns that do.                                                *)
LEMMA WellPosedOperator ==
  ASSUME Safe, Cold, WellPosed, InOneGo, Operator
  PROVE  InOneGo' \/ FlatTurns'
<1>1. Concat \/ Split \/ Slice \/ SwSlice \/ SpaceToDepth \/ DepthToSpace \/ Transpose
  BY DEF Operator, WellPosed, WellCut, Pad
<1>2. CASE Slice
  <2>1. Apart /\ (call.width * 8) % call.bits = 0
    BY <1>2 DEF Slice, WellPosed, WellCut
  <2> QED BY <1>2, <2>1, SliceExact
<1>3. CASE SwSlice
  <2>1. Apart /\ (Len(call.shape) = Len(call.dims) => \A a \in DOMAIN call.dims : Reaches(a))
    BY <1>3 DEF SwSlice, WellPosed, WellCut
  <2> QED BY <1>3, <2>1, SwSliceExact
<1>4. CASE SpaceToDepth
  <2>1. Apart /\ Canonical(call.in) /\ Canonical(call.out)
    BY <1>4 DEF SpaceToDepth, WellPosed, WellCut
  <2> QED BY <1>4, <2>1, SpaceToDepthExact
<1>5. CASE DepthToSpace
  <2>1. Apart /\ Canonical(call.in) /\ Canonical(call.out)
    BY <1>5 DEF DepthToSpace, WellPosed, WellCut
  <2> QED BY <1>5, <2>1, DepthToSpaceExact
<1>6. CASE Transpose
  BY <1>6, TransposeExact DEF WellPosed
<1>7. CASE Concat
  <2>1. Apart /\ WellCut
    BY <1>7 DEF Concat, WellPosed
  <2> QED BY <1>7, <2>1, ConcatExact
<1>8. CASE Split
  <2>1. Apart /\ WellCut
    BY <1>8 DEF Split, WellPosed
  <2> QED BY <1>8, <2>1, SplitExact
<1> QED BY <1>1, <1>2, <1>3, <1>4, <1>5, <1>6, <1>7, <1>8

(* OnItsWay is kept by every step.                                         *)
LEMMA StepOnItsWay ==
  ASSUME Safe, OnItsWay, [Next]_vars
  PROVE  OnItsWay'
<1>1. Cold'
  BY StepStaysCold DEF OnItsWay
<1>2. ASSUME WellPosed
      PROVE  InOneGo' \/ FlatTurns'
  <2>1. CASE FlatTurns
    BY <2>1, StepInFlatTurns
  <2>2. CASE InOneGo /\ Operator
    BY <1>2, <2>2, WellPosedOperator DEF OnItsWay
  <2>3. CASE InOneGo /\ (Start \/ EnginesDone \/ End \/ Evict \/ UNCHANGED vars)
    BY <2>3, LaterStepInOneGo
  <2> QED BY <1>2, <2>1, <2>2, <2>3 DEF OnItsWay, Next, Finished
<1> QED BY <1>1, <1>2, WellPosedStays DEF OnItsWay

(* When a well-posed call is done, which a call that is refused never is,  *)
(* memory holds each element of the result where the definition of the     *)
(* operator (LL_ATON_LIB_Concat and so on) puts it: a line of the cache    *)
(* takes nothing back, a turn copies nothing twice and leaves no byte out. *)
THEOREM WellPosedCallsComputeTheirResult == Spec => [](WellPosed => ResultInMemory)
<1>1. Init => OnItsWay
  BY DEF Init, InOneGo, OnItsWay, Cold
<1>2. Safe /\ OnItsWay /\ [Next]_vars => OnItsWay'
  BY StepOnItsWay
<1>3. Safe /\ OnItsWay => (WellPosed => ResultInMemory)
  <2>1. WellPosed => call.op # "Pad"
    BY DEF WellPosed, WellCut
  <2> QED BY <2>1, InOneGoIsResult, FlatTurnsAreResult DEF OnItsWay
<1> QED BY <1>1, <1>2, <1>3, AlwaysSafe, PTL DEF Spec
=============================================================================
