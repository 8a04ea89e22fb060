--------------------------- MODULE DyldInfoProofs ---------------------------
(***************************************************************************)
(* Proofs about the compressed rebase and bind information, for all images *)
(* that satisfy InputsAssumption: the phases that rewrite the opcodes      *)
(* never change what a reader makes of them, which is what was asked for.  *)
(***************************************************************************)
EXTENDS DyldInfo, ProofLemmas

-----------------------------------------------------------------------------
(***************************************************************************)
(* Unsigned arithmetic.                                                    *)
(***************************************************************************)

\* A remainder is in range, and one in range is itself.
LEMMA UnsignedType ==
  ASSUME NEW x \in Int
  PROVE  Unsigned(x) \in 0 .. Modulus - 1 /\ (x \in 0 .. Modulus - 1 => Unsigned(x) = x)
<1>1. Modulus \in Nat /\ Modulus > 0
  BY SizesAssumption
<1> QED BY <1>1 DEF Unsigned

\* Numbers that differ by a multiple have one remainder.
LEMMA UnsignedShift ==
  ASSUME NEW x \in Int, NEW q \in Int
  PROVE  Unsigned(x + Modulus * q) = Unsigned(x)
<1>1. Modulus \in Nat /\ Modulus > 0
  BY SizesAssumption
<1> DEFINE d == x \div Modulus
           r == x % Modulus
           e == (x + Modulus * q) \div Modulus
           s == (x + Modulus * q) % Modulus
<1>2. d \in Int /\ r \in 0 .. Modulus - 1 /\ x = Modulus * d + r
  BY <1>1
<1>3. x + Modulus * q \in Int
  BY <1>1
<1>4. e \in Int /\ s \in 0 .. Modulus - 1 /\ x + Modulus * q = Modulus * e + s
  <2> DEFINE y == x + Modulus * q
  <2>1. y \in Int
    BY <1>3
  <2> HIDE DEF y
  <2>2. (y \div Modulus) \in Int /\ y % Modulus \in 0 .. Modulus - 1
        /\ y = Modulus * (y \div Modulus) + (y % Modulus)
    BY <1>1, <2>1
  <2> QED BY <2>2 DEF y
<1> HIDE DEF d, r, e, s
<1>5. Modulus * (d + q - e) = s - r
  <2>1. Modulus * (d + q - e) = Modulus * d + Modulus * q - Modulus * e
    BY <1>1, <1>2, <1>4
  <2> QED BY <1>1, <1>2, <1>3, <1>4, <2>1
<1>6. d + q - e = 0
  <2> DEFINE f == d + q - e
  <2>1. f \in Int /\ Modulus * f = s - r
    BY <1>2, <1>4, <1>5
  <2> HIDE DEF f
  <2>2. f >= 1 => Modulus * f >= Modulus
    BY <1>1, <2>1
  <2>3. f <= -1 => Modulus * f <= -Modulus
    BY <1>1, <2>1
  <2>4. f = 0
    BY <1>1, <1>2, <1>4, <2>1, <2>2, <2>3
  <2> QED BY <2>4 DEF f
<1>7. s = r
  BY <1>1, <1>2, <1>4, <1>5, <1>6
<1> QED BY <1>7 DEF s, r, Unsigned

\* A remainder may be taken before a sum.
LEMMA UnsignedSum ==
  ASSUME NEW x \in Int, NEW y \in Int
  PROVE  /\ Unsigned(Unsigned(x) + y) = Unsigned(x + y)
         /\ Unsigned(y + Unsigned(x)) = Unsigned(y + x)
<1>1. Modulus \in Nat /\ Modulus > 0
  BY SizesAssumption
<1> DEFINE d == x \div Modulus
<1>2. d \in Int /\ Unsigned(x) \in Int /\ x = Modulus * d + Unsigned(x)
  BY <1>1 DEF Unsigned
<1> HIDE DEF d
<1> DEFINE u == Unsigned(x)
<1>3. u \in Int /\ x + y = (u + y) + Modulus * d /\ y + x = (u + y) + Modulus * d
  <2> DEFINE w == Modulus * d
  <2>1. w \in Int /\ u \in Int /\ x = w + u
    BY <1>1, <1>2
  <2> HIDE DEF w, u
  <2>2. x + y = (u + y) + w /\ y + x = (u + y) + w
    BY <2>1
  <2> QED BY <2>1, <2>2 DEF w
<1> HIDE DEF u
<1>4. Unsigned((u + y) + Modulus * d) = Unsigned(u + y)
  BY <1>2, <1>3, UnsignedShift
<1>5. Unsigned(x + y) = Unsigned(u + y) /\ Unsigned(y + x) = Unsigned(u + y)
  BY <1>3, <1>4
<1>6. y + u = u + y
  BY <1>3
<1> QED BY <1>5, <1>6 DEF u

-----------------------------------------------------------------------------
(***************************************************************************)
(* The decoder.                                                            *)
(***************************************************************************)

\* The states of the decoder while it reads ops.
Run(ops, d) ==
  d = [i \in 0 .. Len(ops) |-> IF i = 0 THEN DecodeStart ELSE DecodeStep(d[i - 1], ops[i])]

\* The decoder can read any opcodes.
LEMMA RunExists ==
  ASSUME NEW ops, IsSeq(ops)
  PROVE  \E d : Run(ops, d)
<1> DEFINE n == Len(ops)
           Part(g, m) == g = [i \in 0 .. m |-> IF i = 0 THEN DecodeStart
                                               ELSE DecodeStep(g[i - 1], ops[i])]
           T == {m \in 0 .. n : ~\E g : Part(g, m)}
<1>1. n \in Nat
  BY SeqLen
<1> HIDE DEF n
<1>2. \E g : Part(g, 0)
  <2> DEFINE g == [i \in 0 .. 0 |-> DecodeStart]
  <2>1. g = [i \in 0 .. 0 |-> IF i = 0 THEN DecodeStart ELSE DecodeStep(g[i - 1], ops[i])]
    OBVIOUS
  <2> HIDE DEF g
  <2> QED BY <2>1
<1>3. ASSUME NEW m \in 1 .. n, \E g : Part(g, m - 1)
      PROVE  \E g : Part(g, m)
  <2>1. PICK g : Part(g, m - 1)
    BY <1>3
  <2> DEFINE h == [i \in 0 .. m |-> IF i = m THEN DecodeStep(g[m - 1], ops[m]) ELSE g[i]]
  <2>2. ASSUME NEW i \in 0 .. m
        PROVE  h[i] = IF i = 0 THEN DecodeStart ELSE DecodeStep(h[i - 1], ops[i])
    <3>1. h[i] = IF i = m THEN DecodeStep(g[m - 1], ops[m]) ELSE g[i]
      OBVIOUS
    <3>2. i # 0 => h[i - 1] = g[i - 1]
      <4> SUFFICES ASSUME i # 0 PROVE h[i - 1] = g[i - 1]
        OBVIOUS
      <4>1. i - 1 \in 0 .. m /\ i - 1 # m
        OBVIOUS
      <4> QED BY <4>1
    <3> HIDE DEF h
    <3>3. CASE i = m
      <4>1. i # 0
        BY <3>3
      <4> QED BY <3>1, <3>2, <3>3, <4>1
    <3>4. CASE i # m
      <4>1. i \in 0 .. m - 1
        BY <3>4
      <4>2. g[i] = IF i = 0 THEN DecodeStart ELSE DecodeStep(g[i - 1], ops[i])
        BY <2>1, <4>1
      <4> QED BY <3>1, <3>2, <3>4, <4>2
    <3> QED BY <3>3, <3>4
  <2>3. h = [i \in 0 .. m |-> h[i]]
    OBVIOUS
  <2> HIDE DEF h
  <2>4. Part(h, m)
    BY <2>2, <2>3
  <2> QED BY <2>4
<1> HIDE DEF Part
<1>4. T \in SUBSET Nat /\ \A m : m \in T <=> m \in 0 .. n /\ ~\E g : Part(g, m)
  OBVIOUS
<1> HIDE DEF T
<1>5. T = {}
  <2> SUFFICES ASSUME T # {} PROVE FALSE
    OBVIOUS
  <2>1. PICK m \in T : \A j \in T : m <= j
    BY <1>4, LeastNat
  <2>2. m \in 1 .. n /\ ~\E g : Part(g, m)
    BY <1>1, <1>2, <1>4
  <2>3. m - 1 \in 0 .. n /\ ~(m <= m - 1)
    BY <1>1, <2>2
  <2>4. \E g : Part(g, m - 1)
    BY <1>4, <2>1, <2>3
  <2> QED BY <1>3, <2>2, <2>4
<1>6. n \in 0 .. n
  BY <1>1
<1>7. PICK g : Part(g, n)
  BY <1>4, <1>5, <1>6
<1> QED BY <1>7 DEF Part, n, Run

\* It reads them in one way.
LEMMA RunUnique ==
  ASSUME NEW ops, IsSeq(ops), NEW d, Run(ops, d), NEW e, Run(ops, e)
  PROVE  d = e
<1> DEFINE n == Len(ops)
           T == {i \in 0 .. n : d[i] # e[i]}
<1>1. n \in Nat
  BY SeqLen
<1>2. /\ d = [i \in 0 .. n |-> d[i]] /\ e = [i \in 0 .. n |-> e[i]]
      /\ \A i \in 0 .. n : d[i] = IF i = 0 THEN DecodeStart ELSE DecodeStep(d[i - 1], ops[i])
      /\ \A i \in 0 .. n : e[i] = IF i = 0 THEN DecodeStart ELSE DecodeStep(e[i - 1], ops[i])
  BY Zenon DEF Run
<1> HIDE DEF n
<1>3. T \in SUBSET Nat /\ \A i : i \in T <=> i \in 0 .. n /\ d[i] # e[i]
  OBVIOUS
<1> HIDE DEF T
<1>4. T = {}
  <2> SUFFICES ASSUME T # {} PROVE FALSE
    OBVIOUS
  <2>1. PICK m \in T : \A j \in T : m <= j
    BY <1>3, LeastNat
  <2>2. m \in 0 .. n /\ d[m] # e[m]
    BY <1>3, <2>1
  <2>3. m # 0
    BY <1>2, <2>2
  <2>4. m - 1 \in 0 .. n /\ ~(m <= m - 1)
    BY <1>1, <2>2, <2>3
  <2>5. d[m - 1] = e[m - 1]
    BY <1>3, <2>1, <2>4
  <2>6. d[m] = DecodeStep(d[m - 1], ops[m]) /\ e[m] = DecodeStep(e[m - 1], ops[m])
    BY <1>2, <2>2, <2>3, Zenon
  <2> QED BY <2>2, <2>5, <2>6, Zenon
<1>5. \A i \in 0 .. n : d[i] = e[i]
  BY <1>3, <1>4
<1> QED BY <1>2, <1>5

\* What is decoded is the state at the end.
LEMMA RunDecoded ==
  ASSUME NEW ops, IsSeq(ops), NEW d, Run(ops, d)
  PROVE  Decoded(ops) = d[Len(ops)]
<1> DEFINE e == CHOOSE f : f = [i \in 0 .. Len(ops) |->
                   IF i = 0 THEN DecodeStart ELSE DecodeStep(f[i - 1], ops[i])]
<1>1. Decoded(ops) = e[Len(ops)]
  BY Zenon DEF Decoded
<1>2. Run(ops, e)
  BY Zenon DEF Run
<1> HIDE DEF e
<1> QED BY <1>1, <1>2, RunUnique, Zenon

\* A state in which the decoder can make a fixup, and the opcodes that make it.
Placed(d) == d.seg \in DOMAIN input.segs /\ d.off \in 0 .. Modulus - 1
Fixes(o) == o.op \in {"DO", "DO_IMM", "DO_ADD", "DO_ADD_IMM", "DO_SKIP"}

\* The decoder reads ops, being able to make each fixup.
Reads(ops, d) ==
  Run(ops, d) /\ \A i \in 1 .. Len(ops) : Fixes(ops[i]) => Placed(d[i - 1])
Readable(ops) == IsSeq(ops) /\ \E d : Reads(ops, d)

\* In new the n opcodes of ops after the first p are replaced by one.
Replaces(ops, new, p, n) ==
  /\ IsSeq(new) /\ p \in Nat /\ n \in Nat /\ n >= 1
  /\ p + n <= Len(ops) /\ Len(new) = (Len(ops) - n) + 1
  /\ \A i \in 1 .. p : new[i] = ops[i]
  /\ \A i \in p + 2 .. Len(new) : new[i] = ops[i + n - 1]
  /\ Fixes(new[p + 1]) => Fixes(ops[p + 1])

\* n opcodes are replaced by one that does as much.
LEMMA Rewritten ==
  ASSUME NEW ops, NEW new, NEW p, NEW n, Readable(ops), Replaces(ops, new, p, n),
         \A d : Reads(ops, d) => DecodeStep(d[p], new[p + 1]) = d[p + n]
  PROVE  Readable(new) /\ Decoded(new) = Decoded(ops)
<1>1. PICK d : Reads(ops, d)
  BY DEF Readable
<1>2. DecodeStep(d[p], new[p + 1]) = d[p + n]
  BY <1>1
<1> DEFINE N == Len(ops)
           M == Len(new)
           e == [i \in 0 .. M |-> IF i <= p THEN d[i] ELSE d[i + n - 1]]
<1>3. /\ N \in Nat /\ M \in Nat /\ M = (N - n) + 1 /\ p + n <= N
      /\ p \in Nat /\ n \in Nat /\ n >= 1
  BY SeqLen DEF Readable, Replaces
<1>4. \A i \in 0 .. N : d[i] = IF i = 0 THEN DecodeStart ELSE DecodeStep(d[i - 1], ops[i])
  BY <1>1, Zenon DEF Reads, Run
<1> HIDE DEF N, M
<1>5. e = [i \in 0 .. M |-> e[i]] /\ \A i \in 0 .. M : e[i] = IF i <= p THEN d[i] ELSE d[i + n - 1]
  OBVIOUS
<1> HIDE DEF e
<1>6. /\ \A i \in 1 .. p : new[i] = ops[i]
      /\ \A i \in p + 2 .. M : new[i] = ops[i + n - 1]
      /\ Fixes(new[p + 1]) => Fixes(ops[p + 1])
  BY DEF Replaces, M
<1>7. ASSUME NEW i \in 0 .. M
      PROVE  e[i] = IF i = 0 THEN DecodeStart ELSE DecodeStep(e[i - 1], new[i])
  <2>1. CASE i = 0
    <3>1. 0 \in 0 .. N /\ 0 \in 0 .. M /\ 0 <= p
      BY <1>3
    <3> QED BY <1>4, <1>5, <2>1, <3>1
  <2>2. CASE i \in 1 .. p
    <3>1. i - 1 \in 0 .. M /\ i - 1 <= p /\ i <= p /\ i \in 0 .. N /\ i # 0
      BY <1>3, <2>2
    <3>2. e[i] = d[i] /\ e[i - 1] = d[i - 1]
      BY <1>5, <3>1
    <3>3. d[i] = DecodeStep(d[i - 1], ops[i])
      BY <1>4, <3>1
    <3> QED BY <1>6, <2>2, <3>1, <3>2, <3>3
  <2>3. CASE i = p + 1
    <3>1. i - 1 = p /\ ~(i <= p) /\ i # 0 /\ i + n - 1 = p + n
      BY <1>3, <2>3
    <3>2. i - 1 \in 0 .. M /\ i - 1 <= p
      BY <1>3, <2>3
    <3>3. e[i] = d[p + n] /\ e[i - 1] = d[p]
      BY <1>5, <3>1, <3>2
    <3> QED BY <1>2, <2>3, <3>1, <3>3
  <2>4. CASE i \in p + 2 .. M
    <3>1. i - 1 \in 0 .. M /\ ~(i - 1 <= p) /\ ~(i <= p) /\ i # 0
      BY <1>3, <2>4
    <3>2. i + n - 1 \in 0 .. N /\ i + n - 1 # 0 /\ (i + n - 1) - 1 = (i - 1) + n - 1
      BY <1>3, <2>4
    <3>3. e[i] = d[i + n - 1] /\ e[i - 1] = d[(i - 1) + n - 1]
      BY <1>5, <3>1
    <3>4. d[i + n - 1] = DecodeStep(d[(i + n - 1) - 1], ops[i + n - 1])
      BY <1>4, <3>2
    <3>5. new[i] = ops[i + n - 1]
      BY <1>6, <2>4
    <3> QED BY <3>1, <3>2, <3>3, <3>4, <3>5
  <2>5. i = 0 \/ i \in 1 .. p \/ i = p + 1 \/ i \in p + 2 .. M
    BY <1>3
  <2> QED BY <2>1, <2>2, <2>3, <2>4, <2>5
<1>8. Run(new, e)
  BY <1>5, <1>7 DEF Run, M
<1>9. ASSUME NEW i \in 1 .. M, Fixes(new[i]) PROVE Placed(e[i - 1])
  <2>0. \A j \in 1 .. N : Fixes(ops[j]) => Placed(d[j - 1])
    BY <1>1 DEF Reads, N
  <2>1. CASE i \in 1 .. p + 1
    <3>1. i - 1 \in 0 .. M /\ i - 1 <= p /\ i \in 1 .. N
      BY <1>3, <2>1
    <3>2. e[i - 1] = d[i - 1]
      BY <1>5, <3>1
    <3>3. Fixes(ops[i])
      <4>1. CASE i \in 1 .. p
        BY <1>6, <1>9, <4>1
      <4>2. CASE i = p + 1
        BY <1>6, <1>9, <4>2
      <4> QED BY <1>3, <2>1, <4>1, <4>2
    <3> QED BY <2>0, <3>1, <3>2, <3>3
  <2>2. CASE i \in p + 2 .. M
    <3>1. i - 1 \in 0 .. M /\ ~(i - 1 <= p) /\ i + n - 1 \in 1 .. N
          /\ (i + n - 1) - 1 = (i - 1) + n - 1
      BY <1>3, <2>2
    <3>2. e[i - 1] = d[(i - 1) + n - 1]
      BY <1>5, <3>1
    <3>3. Fixes(ops[i + n - 1])
      BY <1>6, <1>9, <2>2
    <3>4. Placed(d[(i + n - 1) - 1])
      BY <2>0, <3>1, <3>3
    <3> QED BY <3>1, <3>2, <3>4
  <2> QED BY <1>3, <2>1, <2>2
<1>10. Readable(new)
  BY <1>8, <1>9 DEF Readable, Reads, Replaces, M
<1>11. Decoded(new) = e[M] /\ Decoded(ops) = d[N]
  BY <1>1, <1>8, RunDecoded DEF Readable, Reads, Replaces, M, N
<1>12. e[M] = d[N]
  <2>1. M \in 0 .. M /\ ~(M <= p) /\ M + n - 1 = N
    BY <1>3
  <2> QED BY <1>5, <2>1
<1> QED BY <1>10, <1>11, <1>12

-----------------------------------------------------------------------------
(***************************************************************************)
(* What the opcodes do.                                                    *)
(***************************************************************************)

\* A state of the decoder has its fields.
IsState(d) ==
  /\ d = [seg |-> d.seg, off |-> d.off, type |-> d.type, lib |-> d.lib, sym |-> d.sym, flags |-> d.flags,
          addend |-> d.addend, found |-> d.found, count |-> d.count, bad |-> d.bad]
  /\ d.count \in Int /\ d.bad \in BOOLEAN

\* The opcodes of the encoders, before and after immediate encodings are used.
SettingOps == {"SET_TYPE", "SET_LIB", "SET_SYM", "SET_ADDEND", "SET_SEGMENT"}
PlainOps == SettingOps \cup {"ADD_ADDR", "DO", "DO_ADD", "DO_SKIP"}
ImmediateOps == {"SET_LIB_IMM", "SET_LIB_SPECIAL", "ADD_ADDR_IMM", "DO_IMM", "DO_ADD_IMM"}
OpOK(o) ==
  /\ o = [op |-> o.op, a |-> o.a, b |-> o.b]
  /\ o.op \in PlainOps \cup ImmediateOps /\ o.a \in Int /\ o.b \in Int
  /\ o.op = "DO" => o.a >= 1
  /\ o.op = "SET_LIB" => o.a >= -15

\* The address of the fixup after n more, and what the decoder notes of it.
FixAddress(d, n, skip) ==
  Unsigned((input.segs[d.seg].start + d.off) + n * (PtrSize + skip))
Found(d, a) ==
  [type |-> d.type, lib |-> d.lib, sym |-> d.sym, flags |-> d.flags, addend |-> d.addend, address |-> a]
Outside(d, a) == a < input.segs[d.seg].start \/ a >= input.segs[d.seg].vmend

\* A state with four fields changed.
LEMMA StateExcept ==
  ASSUME NEW d, IsState(d), NEW o, NEW f, NEW c, NEW b
  PROVE  [d EXCEPT !.off = o, !.found = f, !.count = c, !.bad = b]
           = [seg |-> d.seg, off |-> o, type |-> d.type, lib |-> d.lib, sym |-> d.sym, flags |-> d.flags,
              addend |-> d.addend, found |-> f, count |-> c, bad |-> b]
<1> DEFINE R(x, y, z, v) == [seg |-> d.seg, off |-> x, type |-> d.type, lib |-> d.lib,
                             sym |-> d.sym, flags |-> d.flags, addend |-> d.addend, found |-> y, count |-> z,
                             bad |-> v]
           d1 == [d EXCEPT !.off = o]
           d2 == [d1 EXCEPT !.found = f]
           d3 == [d2 EXCEPT !.count = c]
           d4 == [d3 EXCEPT !.bad = b]
<1>1. d = R(d.off, d.found, d.count, d.bad)
  BY DEF IsState
<1>2. \A x, y, z, v : \A w : [R(x, y, z, v) EXCEPT !.off = w] = R(w, y, z, v)
  OBVIOUS
<1>3. \A x, y, z, v : \A w : [R(x, y, z, v) EXCEPT !.found = w] = R(x, w, z, v)
  OBVIOUS
<1>4. \A x, y, z, v : \A w : [R(x, y, z, v) EXCEPT !.count = w] = R(x, y, w, v)
  OBVIOUS
<1>5. \A x, y, z, v : \A w : [R(x, y, z, v) EXCEPT !.bad = w] = R(x, y, z, w)
  OBVIOUS
<1>6. [d EXCEPT !.off = o, !.found = f, !.count = c, !.bad = b] = d4
  OBVIOUS
<1> HIDE DEF R
<1>7. d1 = R(o, d.found, d.count, d.bad)
  BY <1>1, <1>2
<1> HIDE DEF d1
<1>8. d2 = R(o, f, d.count, d.bad)
  BY <1>3, <1>7
<1> HIDE DEF d2
<1>9. d3 = R(o, f, c, d.bad)
  BY <1>4, <1>8
<1> HIDE DEF d3
<1>10. d4 = R(o, f, c, b)
  BY <1>5, <1>9
<1> HIDE DEF d4
<1> QED BY <1>6, <1>10, Zenon DEF R

\* Fix changes four fields.
LEMMA FixShape ==
  ASSUME NEW d, IsState(d), NEW n, NEW skip
  PROVE  Fix(d, n, skip) =
           [seg |-> d.seg, off |-> Unsigned(d.off + n * (PtrSize + skip)), type |-> d.type,
            lib |-> d.lib, sym |-> d.sym, flags |-> d.flags, addend |-> d.addend,
            found |-> d.found \cup {Found(d, FixAddress(d, k, skip)) : k \in 0 .. (n - 1)},
            count |-> d.count + n,
            bad |-> (d.bad \/ \E k \in 0 .. (n - 1) : Outside(d, FixAddress(d, k, skip)))]
<1> DEFINE f == d.found \cup {Found(d, FixAddress(d, k, skip)) : k \in 0 .. (n - 1)}
           b == (d.bad \/ \E k \in 0 .. (n - 1) : Outside(d, FixAddress(d, k, skip)))
           o == Unsigned(d.off + n * (PtrSize + skip))
           c == d.count + n
<1>1. Fix(d, n, skip) = [d EXCEPT !.off = o, !.found = f, !.count = c, !.bad = b]
  BY Zenon DEF Fix, Found, FixAddress, Outside
<1> HIDE DEF f, b, o, c
<1> DEFINE r == Fix(d, n, skip)
<1>2. r = [d EXCEPT !.off = o, !.found = f, !.count = c, !.bad = b]
  BY <1>1
<1> HIDE DEF r
<1>3. r = [seg |-> d.seg, off |-> o, type |-> d.type, lib |-> d.lib, sym |-> d.sym, flags |-> d.flags,
           addend |-> d.addend, found |-> f, count |-> c, bad |-> b]
  BY <1>2, StateExcept
<1> QED BY <1>3 DEF r, f, b, o, c

\* A step of the decoder ends in a state.
LEMMA StepState ==
  ASSUME NEW d, IsState(d), NEW o, OpOK(o)
  PROVE  IsState(DecodeStep(d, o))
<1>1. \A n \in Int : \A skip : IsState(Fix(d, n, skip))
  <2> SUFFICES ASSUME NEW n \in Int, NEW skip PROVE IsState(Fix(d, n, skip))
    OBVIOUS
  <2> DEFINE f == d.found \cup {Found(d, FixAddress(d, k, skip)) : k \in 0 .. (n - 1)}
             b == (d.bad \/ \E k \in 0 .. (n - 1) : Outside(d, FixAddress(d, k, skip)))
             u == Unsigned(d.off + n * (PtrSize + skip))
  <2>1. Fix(d, n, skip) = [seg |-> d.seg, off |-> u, type |-> d.type, lib |-> d.lib,
                           sym |-> d.sym, flags |-> d.flags, addend |-> d.addend, found |-> f,
                           count |-> d.count + n, bad |-> b]
    BY FixShape
  <2>2. b \in BOOLEAN /\ d.count + n \in Int
    BY DEF IsState
  <2> HIDE DEF f, b, u
  <2> QED BY <2>1, <2>2 DEF IsState
<1>2. CASE o.op \in {"DO", "DO_IMM"}
  BY <1>1, <1>2 DEF DecodeStep, OpOK
<1>3. CASE o.op \in {"DO_ADD", "DO_ADD_IMM"}
  BY <1>1, <1>3 DEF DecodeStep, OpOK
<1>4. CASE o.op = "DO_SKIP"
  BY <1>1, <1>4 DEF DecodeStep, OpOK
<1>5. CASE o.op \in {"ADD_ADDR", "ADD_ADDR_IMM"}
  <2>1. DecodeStep(d, o) = [d EXCEPT !.off = DecodeStep(d, o).off]
    BY <1>5 DEF DecodeStep, IsState
  <2> QED BY <2>1 DEF IsState
<1>6. CASE o.op = "SET_SEGMENT"
  BY <1>6 DEF DecodeStep, IsState
<1>7. CASE o.op \in {"SET_TYPE", "SET_SYM", "SET_ADDEND"}
  BY <1>7 DEF DecodeStep, IsState
<1>8. CASE o.op \in {"SET_LIB", "SET_LIB_IMM", "SET_LIB_SPECIAL"}
  BY <1>8 DEF DecodeStep, IsState
<1> QED BY <1>2, <1>3, <1>4, <1>5, <1>6, <1>7, <1>8
     DEF OpOK, PlainOps, SettingOps, ImmediateOps

\* All states of a run are states.
LEMMA RunStates ==
  ASSUME NEW ops, IsSeq(ops), \A i \in DOMAIN ops : OpOK(ops[i]), NEW d, Run(ops, d)
  PROVE  /\ \A i \in 0 .. Len(ops) : IsState(d[i])
         /\ \A i \in 1 .. Len(ops) : d[i] = DecodeStep(d[i - 1], ops[i])
<1> DEFINE n == Len(ops)
           T == {i \in 0 .. n : ~IsState(d[i])}
<1>1. n \in Nat /\ DOMAIN ops = 1 .. n
  BY SeqLen
<1>2. \A i \in 0 .. n : d[i] = IF i = 0 THEN DecodeStart ELSE DecodeStep(d[i - 1], ops[i])
  BY Zenon DEF Run
<1> HIDE DEF n
<1>3. \A i \in 1 .. n : d[i] = DecodeStep(d[i - 1], ops[i])
  <2>1. \A i \in 1 .. n : i \in 0 .. n /\ i # 0
    BY <1>1
  <2> QED BY <1>2, <2>1, Zenon
<1>4. T \in SUBSET Nat /\ \A i : i \in T <=> i \in 0 .. n /\ ~IsState(d[i])
  OBVIOUS
<1> HIDE DEF T
<1>5. T = {}
  <2> SUFFICES ASSUME T # {} PROVE FALSE
    OBVIOUS
  <2>1. PICK m \in T : \A j \in T : m <= j
    BY <1>4, LeastNat
  <2>2. m \in 0 .. n /\ ~IsState(d[m])
    BY <1>4, <2>1
  <2>3. m # 0
    <3>1. IsState(DecodeStart)
      BY DEF IsState, DecodeStart
    <3> QED BY <1>2, <2>2, <3>1
  <2>4. m \in 1 .. n /\ m - 1 \in 0 .. n /\ ~(m <= m - 1)
    BY <1>1, <2>2, <2>3
  <2>5. IsState(d[m - 1])
    BY <1>4, <2>1, <2>4
  <2>6. OpOK(ops[m])
    BY <1>1, <2>4
  <2>7. IsState(DecodeStep(d[m - 1], ops[m]))
    BY <2>5, <2>6, StepState
  <2>8. d[m] = DecodeStep(d[m - 1], ops[m])
    BY <1>3, <2>4
  <2> QED BY <2>2, <2>7, <2>8
<1> QED BY <1>3, <1>4, <1>5 DEF n

\* One fixup more, at the same distance.
LEMMA FixFix ==
  ASSUME ImageOK(input), NEW d, IsState(d), Placed(d), NEW n \in Nat, NEW skip \in Int
  PROVE  /\ Fix(Fix(d, n, skip), 1, skip) = Fix(d, n + 1, skip)
         /\ IsState(Fix(d, n, skip)) /\ Placed(Fix(d, n, skip))
<1> DEFINE w == PtrSize + skip
           start == input.segs[d.seg].start
           e == Fix(d, n, skip)
           at(k) == FixAddress(d, k, skip)
<1>1. w \in Int /\ start \in Int /\ d.off \in Int /\ d.count \in Int /\ d.bad \in BOOLEAN
  BY SizesAssumption DEF ImageOK, Placed, IsState
<1> DEFINE f == d.found \cup {Found(d, at(k)) : k \in 0 .. (n - 1)}
           b == (d.bad \/ \E k \in 0 .. (n - 1) : Outside(d, at(k)))
           u == Unsigned(d.off + n * w)
<1>2. e = [seg |-> d.seg, off |-> u, type |-> d.type, lib |-> d.lib, sym |-> d.sym, flags |-> d.flags,
           addend |-> d.addend, found |-> f, count |-> d.count + n, bad |-> b]
  BY FixShape
<1>3. b \in BOOLEAN
  BY <1>1
<1>4. n * w \in Int /\ n * w + w = (n + 1) * w /\ 1 * w = w /\ 0 * w = 0
  BY <1>1
<1>5. u \in 0 .. Modulus - 1
  BY <1>1, <1>4, UnsignedType
<1>6. Unsigned(u + 1 * w) = Unsigned(d.off + (n + 1) * w)
  <2> DEFINE t == d.off + n * w
  <2>1. Unsigned(u + w) = Unsigned((d.off + n * w) + w)
    <3>1. t \in Int
      BY <1>1, <1>4
    <3> HIDE DEF t, w
    <3>2. Unsigned(Unsigned(t) + w) = Unsigned(t + w)
      BY <1>1, <3>1, UnsignedSum
    <3> QED BY <3>2 DEF t
  <2>2. (d.off + n * w) + w = d.off + (n + 1) * w
    BY <1>1, <1>4
  <2> QED BY <1>4, <2>1, <2>2
<1>7. Unsigned((start + u) + 0 * w) = at(n)
  <2>1. Unsigned(start + u) = Unsigned(start + (d.off + n * w))
    BY <1>1, <1>4, UnsignedSum
  <2>2. start + (d.off + n * w) = (start + d.off) + n * w /\ (start + u) + 0 * w = start + u
    BY <1>1, <1>4, <1>5
  <2> QED BY <2>1, <2>2 DEF FixAddress
<1> HIDE DEF at, f, b, u, w
<1>8. IsState(e) /\ Placed(e)
  BY <1>1, <1>2, <1>3, <1>5 DEF IsState, Placed
<1>9. /\ e.seg = d.seg /\ e.off = u /\ e.type = d.type /\ e.lib = d.lib /\ e.sym = d.sym
      /\ e.flags = d.flags /\ e.addend = d.addend /\ e.found = f /\ e.count = d.count + n /\ e.bad = b
  BY <1>2
<1> HIDE DEF e
<1> DEFINE g == e.found \cup {Found(e, FixAddress(e, k, skip)) : k \in 0 .. (1 - 1)}
           c == (e.bad \/ \E k \in 0 .. (1 - 1) : Outside(e, FixAddress(e, k, skip)))
           v == Unsigned(e.off + 1 * (PtrSize + skip))
           f1 == d.found \cup {Found(d, FixAddress(d, k, skip)) : k \in 0 .. ((n + 1) - 1)}
           b1 == (d.bad \/ \E k \in 0 .. ((n + 1) - 1) : Outside(d, FixAddress(d, k, skip)))
           u1 == Unsigned(d.off + (n + 1) * (PtrSize + skip))
<1>10. Fix(e, 1, skip) = [seg |-> e.seg, off |-> v, type |-> e.type, lib |-> e.lib,
            sym |-> e.sym, flags |-> e.flags, addend |-> e.addend, found |-> g, count |-> e.count + 1, bad |-> c]
  BY <1>8, FixShape
<1>11. Fix(d, n + 1, skip) = [seg |-> d.seg, off |-> u1, type |-> d.type, lib |-> d.lib,
            sym |-> d.sym, flags |-> d.flags, addend |-> d.addend, found |-> f1, count |-> d.count + (n + 1),
            bad |-> b1]
  BY FixShape
<1>12. v = u1
  BY <1>6, <1>9 DEF w
<1>13. FixAddress(e, 0, skip) = at(n)
  BY <1>7, <1>9 DEF w, FixAddress
<1>14. /\ \A a : Found(e, a) = Found(d, a) /\ (Outside(e, a) <=> Outside(d, a))
       /\ 0 .. (1 - 1) = {0} /\ 0 .. ((n + 1) - 1) = (0 .. (n - 1)) \cup {n}
  BY <1>9 DEF Found, Outside
<1>15. g = f1
  <2>1. {Found(e, FixAddress(e, k, skip)) : k \in 0 .. (1 - 1)} = {Found(d, at(n))}
    BY <1>13, <1>14
  <2>2. {Found(d, at(k)) : k \in 0 .. ((n + 1) - 1)}
           = {Found(d, at(k)) : k \in 0 .. (n - 1)} \cup {Found(d, at(n))}
    BY <1>14
  <2>3. f1 = d.found \cup {Found(d, at(k)) : k \in 0 .. ((n + 1) - 1)}
    BY Zenon DEF at
  <2>4. g = f \cup {Found(d, at(n))}
    BY <1>9, <2>1
  <2> HIDE DEF g, f1
  <2> QED BY <2>2, <2>3, <2>4 DEF f
<1>16. c <=> b1
  <2>1. c <=> b \/ Outside(d, at(n))
    BY <1>9, <1>13, <1>14
  <2>2. b1 <=> (d.bad \/ \E k \in 0 .. ((n + 1) - 1) : Outside(d, at(k)))
    BY Zenon DEF at
  <2> HIDE DEF c, b1
  <2> QED BY <1>14, <2>1, <2>2 DEF b
<1>17. c \in BOOLEAN /\ b1 \in BOOLEAN
  BY <1>1, <1>3, <1>9
<1>18. e.count + 1 = d.count + (n + 1)
  BY <1>1, <1>9
<1> HIDE DEF g, c, v, f1, b1, u1
<1>19. c = b1
  BY <1>16, <1>17
<1>20. Fix(e, 1, skip) = Fix(d, n + 1, skip)
  BY <1>9, <1>10, <1>11, <1>12, <1>15, <1>18, <1>19
<1> QED BY <1>8, <1>20 DEF e

\* A rebase or bind and an addition are what the combined opcode does.
LEMMA PairStep ==
  ASSUME ImageOK(input), NEW d, IsState(d), Placed(d), NEW a \in Int
  PROVE  [Fix(d, 1, 0) EXCEPT !.off = Unsigned(@ + a)] = Fix(d, 1, a)
<1> DEFINE start == input.segs[d.seg].start
           u(s) == Unsigned(d.off + 1 * (PtrSize + s))
           f(s) == d.found \cup {Found(d, FixAddress(d, k, s)) : k \in 0 .. (1 - 1)}
           b(s) == (d.bad \/ \E k \in 0 .. (1 - 1) : Outside(d, FixAddress(d, k, s)))
           R(o, g, c) == [seg |-> d.seg, off |-> o, type |-> d.type, lib |-> d.lib,
                          sym |-> d.sym, flags |-> d.flags, addend |-> d.addend, found |-> g,
                          count |-> d.count + 1, bad |-> c]
<1>1. /\ start \in Int /\ d.off \in Int /\ d.bad \in BOOLEAN /\ PtrSize \in Int
  BY SizesAssumption DEF ImageOK, Placed, IsState
<1>2. \A s : Fix(d, 1, s) = R(u(s), f(s), b(s))
  BY FixShape
<1>3. Unsigned(u(0) + a) = u(a)
  <2> DEFINE t == d.off + 1 * (PtrSize + 0)
  <2>1. t \in Int /\ t + a = d.off + 1 * (PtrSize + a)
    BY <1>1
  <2> HIDE DEF t
  <2>2. Unsigned(Unsigned(t) + a) = Unsigned(t + a)
    BY <2>1, UnsignedSum
  <2> QED BY <2>1, <2>2 DEF t
<1>4. FixAddress(d, 0, 0) = FixAddress(d, 0, a)
  <2>1. 0 * (PtrSize + 0) = 0 * (PtrSize + a)
    BY <1>1
  <2> QED BY <2>1 DEF FixAddress
<1>5. 0 .. (1 - 1) = {0}
  OBVIOUS
<1>6. f(0) = f(a) /\ (b(0) <=> b(a)) /\ b(0) \in BOOLEAN /\ b(a) \in BOOLEAN
  BY <1>1, <1>4, <1>5
<1>7. \A o, g, c : R(o, g, c).off = o /\ \A w : [R(o, g, c) EXCEPT !.off = w] = R(w, g, c)
  OBVIOUS
<1> HIDE DEF u, f, b, R
<1>8. b(0) = b(a)
  BY <1>6
<1> DEFINE e == Fix(d, 1, 0)
<1>9. e = R(u(0), f(0), b(0))
  BY <1>2
<1> HIDE DEF e
<1>10. [e EXCEPT !.off = Unsigned(e.off + a)] = R(u(a), f(0), b(0))
  BY <1>3, <1>7, <1>9
<1>11. Fix(d, 1, a) = R(u(a), f(0), b(0))
  BY <1>2, <1>6, <1>8
<1> QED BY <1>10, <1>11 DEF e

\* From place p on, n opcodes make a fixup each, skip bytes apart.
FixRun(ops, d, p, n, skip) ==
  /\ IsSeq(ops) /\ (\A i \in DOMAIN ops : OpOK(ops[i])) /\ Reads(ops, d)
  /\ p \in Nat /\ n \in Nat /\ n >= 1 /\ p + n <= Len(ops) /\ skip \in Int
  /\ \A i \in p + 1 .. p + n : Fixes(ops[i]) /\ \A x : DecodeStep(x, ops[i]) = Fix(x, 1, skip)

\* n opcodes that each make one fixup make n.
LEMMA RunOfFixes ==
  ASSUME ImageOK(input), NEW ops, NEW d, NEW p, NEW n, NEW skip, FixRun(ops, d, p, n, skip)
  PROVE  d[p + n] = Fix(d[p], n, skip)
<1>0. /\ IsSeq(ops) /\ (\A i \in DOMAIN ops : OpOK(ops[i])) /\ Reads(ops, d)
      /\ p \in Nat /\ n \in Nat /\ n >= 1 /\ p + n <= Len(ops) /\ skip \in Int
      /\ \A i \in p + 1 .. p + n :
           Fixes(ops[i]) /\ \A x : DecodeStep(x, ops[i]) = Fix(x, 1, skip)
  BY Zenon DEF FixRun
<1> USE <1>0
<1> DEFINE T == {j \in 1 .. n : d[p + j] # Fix(d[p], j, skip)}
<1>1. Len(ops) \in Nat
  BY SeqLen
<1>2. /\ \A i \in 0 .. Len(ops) : IsState(d[i])
      /\ \A i \in 1 .. Len(ops) : d[i] = DecodeStep(d[i - 1], ops[i])
  BY RunStates DEF Reads
<1>3. IsState(d[p]) /\ Placed(d[p])
  <2>1. p \in 0 .. Len(ops) /\ p + 1 \in 1 .. Len(ops) /\ (p + 1) - 1 = p /\ p + 1 \in p + 1 .. p + n
    BY <1>1
  <2> QED BY <1>2, <2>1 DEF Reads
<1>4. d[p + 1] = Fix(d[p], 1, skip)
  <2>1. p + 1 \in 1 .. Len(ops) /\ (p + 1) - 1 = p /\ p + 1 \in p + 1 .. p + n
    BY <1>1
  <2> QED BY <1>2, <2>1
<1>5. T \in SUBSET Nat /\ \A j : j \in T <=> j \in 1 .. n /\ d[p + j] # Fix(d[p], j, skip)
  OBVIOUS
<1> HIDE DEF T
<1>6. T = {}
  <2> SUFFICES ASSUME T # {} PROVE FALSE
    OBVIOUS
  <2>1. PICK m \in T : \A j \in T : m <= j
    BY <1>5, LeastNat
  <2>2. m \in 1 .. n /\ d[p + m] # Fix(d[p], m, skip)
    BY <1>5, <2>1
  <2>3. m # 1
    BY <1>4, <2>2
  <2> DEFINE k == m - 1
  <2>4. k \in 1 .. n /\ k \in Nat /\ ~(m <= k) /\ k + 1 = m
    BY <2>2, <2>3
  <2>5. p + m \in 1 .. Len(ops) /\ (p + m) - 1 = p + k /\ p + m \in p + 1 .. p + n
    BY <1>1, <2>2
  <2> HIDE DEF k
  <2>6. d[p + k] = Fix(d[p], k, skip)
    BY <1>5, <2>1, <2>4
  <2>7. d[p + m] = Fix(d[p + k], 1, skip)
    BY <1>2, <2>5
  <2>8. Fix(Fix(d[p], k, skip), 1, skip) = Fix(d[p], k + 1, skip)
    BY <1>3, <2>4, FixFix
  <2> QED BY <2>2, <2>4, <2>6, <2>7, <2>8
<1> QED BY <1>5, <1>6

\* An immediate encoding does what the opcode did.
LEMMA ImmediateStep ==
  ASSUME NEW d, NEW o, OpOK(o), o.op \in PlainOps
  PROVE  /\ OpOK(Immediate(o)) /\ (Fixes(Immediate(o)) <=> Fixes(o))
         /\ DecodeStep(d, Immediate(o)) = DecodeStep(d, o)
<1>1. PtrSize \in Nat /\ PtrSize > 0
  BY SizesAssumption
<1>2. o.a \in Int /\ o.b \in Int /\ (o.op = "SET_LIB" => o.a >= -15)
  BY DEF OpOK
<1> DEFINE q == o.a \div PtrSize
<1>3. q \in Int /\ (o.a % PtrSize = 0 => q * PtrSize = o.a)
  <2>1. \A x \in Int : x \div PtrSize \in Int /\ x = PtrSize * (x \div PtrSize) + (x % PtrSize)
    BY <1>1
  <2>2. q \in Int /\ o.a = PtrSize * q + (o.a % PtrSize)
    BY <1>2, <2>1
  <2> HIDE DEF q
  <2>3. PtrSize * q \in Int /\ PtrSize * q = q * PtrSize
    BY <1>1, <2>2
  <2> QED BY <1>2, <2>2, <2>3
<1> HIDE DEF q
<1>4. CASE Immediate(o) = o
  BY <1>4
<1>5. CASE o.op = "ADD_ADDR" /\ Immediate(o) = Op("ADD_ADDR_IMM", q, 0) /\ o.a % PtrSize = 0
  BY <1>2, <1>3, <1>5 DEF DecodeStep, OpOK, Op, Fixes, ImmediateOps
<1>6. CASE o.op = "DO" /\ Immediate(o) = Op("DO_IMM", o.a, 0)
  BY <1>2, <1>6 DEF DecodeStep, OpOK, Op, Fixes, ImmediateOps
<1>7. CASE o.op = "DO_ADD" /\ Immediate(o) = Op("DO_ADD_IMM", q, 0) /\ o.a % PtrSize = 0
  BY <1>2, <1>3, <1>7 DEF DecodeStep, OpOK, Op, Fixes, ImmediateOps
<1>8. CASE o.op = "SET_LIB" /\ Immediate(o) = Op("SET_LIB_IMM", o.a, 0)
  BY <1>2, <1>8 DEF DecodeStep, OpOK, Op, Fixes, ImmediateOps
<1>9. CASE o.op = "SET_LIB" /\ o.a <= 0 /\ Immediate(o) = Op("SET_LIB_SPECIAL", o.a % 16, 0)
  <2> DEFINE r == o.a % 16
  <2>1. r \in Int /\ (IF r = 0 THEN 0 ELSE r - 16) = o.a
    BY <1>2, <1>9
  <2> HIDE DEF r
  <2>2. Immediate(o) = Op("SET_LIB_SPECIAL", r, 0)
    BY <1>9 DEF r
  <2> QED BY <1>9, <2>1, <2>2 DEF DecodeStep, OpOK, Op, Fixes, ImmediateOps
<1>10. \/ Immediate(o) = o
       \/ o.op = "ADD_ADDR" /\ Immediate(o) = Op("ADD_ADDR_IMM", q, 0) /\ o.a % PtrSize = 0
       \/ o.op = "DO" /\ Immediate(o) = Op("DO_IMM", o.a, 0)
       \/ o.op = "DO_ADD" /\ Immediate(o) = Op("DO_ADD_IMM", q, 0) /\ o.a % PtrSize = 0
       \/ o.op = "SET_LIB" /\ Immediate(o) = Op("SET_LIB_IMM", o.a, 0)
       \/ o.op = "SET_LIB" /\ o.a <= 0 /\ Immediate(o) = Op("SET_LIB_SPECIAL", o.a % 16, 0)
  BY DEF Immediate, q
<1> QED BY <1>4, <1>5, <1>6, <1>7, <1>8, <1>9, <1>10

\* An opcode more.
LEMMA DecodedAppend ==
  ASSUME NEW ops, Readable(ops), NEW o, Fixes(o) => Placed(Decoded(ops))
  PROVE  /\ Readable(Append(ops, o))
         /\ Decoded(Append(ops, o)) = DecodeStep(Decoded(ops), o)
<1> DEFINE n == Len(ops)
           new == Append(ops, o)
<1>1. PICK d : Reads(ops, d)
  BY DEF Readable
<1>2. /\ n \in Nat /\ IsSeq(new) /\ Len(new) = n + 1 /\ new[n + 1] = o
      /\ \A i \in 1 .. n : new[i] = ops[i]
  BY SeqLen, SeqAppend DEF Readable
<1>3. Decoded(ops) = d[n]
  BY <1>1, RunDecoded DEF Readable, Reads
<1>4. /\ \A i \in 0 .. n : d[i] = IF i = 0 THEN DecodeStart ELSE DecodeStep(d[i - 1], ops[i])
      /\ \A i \in 1 .. n : Fixes(ops[i]) => Placed(d[i - 1])
  BY <1>1, Zenon DEF Reads, Run
<1> HIDE DEF n, new
<1> DEFINE e == [i \in 0 .. n + 1 |-> IF i = n + 1 THEN DecodeStep(d[n], o) ELSE d[i]]
<1>5. /\ e = [i \in 0 .. n + 1 |-> e[i]] /\ e[n + 1] = DecodeStep(d[n], o)
      /\ \A i \in 0 .. n : e[i] = d[i]
  BY <1>2
<1> HIDE DEF e
<1>6. ASSUME NEW i \in 0 .. n + 1
      PROVE  e[i] = IF i = 0 THEN DecodeStart ELSE DecodeStep(e[i - 1], new[i])
  <2>1. CASE i = n + 1
    <3>1. i # 0 /\ i - 1 = n /\ n \in 0 .. n
      BY <1>2, <2>1
    <3> QED BY <1>2, <1>5, <2>1, <3>1
  <2>2. CASE i = 0
    <3>1. 0 \in 0 .. n
      BY <1>2
    <3> QED BY <1>4, <1>5, <2>2, <3>1
  <2>3. CASE i \in 1 .. n
    <3>1. i \in 0 .. n /\ i # 0 /\ i - 1 \in 0 .. n
      BY <1>2, <2>3
    <3>2. e[i] = d[i] /\ e[i - 1] = d[i - 1] /\ new[i] = ops[i]
      BY <1>2, <1>5, <2>3, <3>1
    <3>3. d[i] = DecodeStep(d[i - 1], ops[i])
      BY <1>4, <3>1
    <3> QED BY <3>1, <3>2, <3>3
  <2> QED BY <1>2, <2>1, <2>2, <2>3
<1>7. Run(new, e)
  BY <1>2, <1>5, <1>6 DEF Run
<1>8. ASSUME NEW i \in 1 .. n + 1, Fixes(new[i]) PROVE Placed(e[i - 1])
  <2>1. CASE i = n + 1
    <3>1. i - 1 = n /\ n \in 0 .. n
      BY <1>2, <2>1
    <3> QED BY <1>2, <1>3, <1>5, <1>8, <2>1, <3>1
  <2>2. CASE i \in 1 .. n
    <3>1. i - 1 \in 0 .. n
      BY <1>2, <2>2
    <3> QED BY <1>2, <1>4, <1>5, <1>8, <2>2, <3>1
  <2> QED BY <1>2, <2>1, <2>2
<1>9. Readable(new)
  BY <1>2, <1>7, <1>8 DEF Readable, Reads
<1>10. Decoded(new) = e[n + 1]
  BY <1>2, <1>7, RunDecoded
<1> QED BY <1>3, <1>5, <1>9, <1>10 DEF new

-----------------------------------------------------------------------------
(***************************************************************************)
(* The phases.                                                             *)
(***************************************************************************)

\* The opcodes written and those left to read.
Joined(o, m, s) == o \o SubSeq(m, s, Len(m))

\* Its length, and where its opcodes come from.
JoinShape(o, m, s, j) ==
  /\ IsSeq(j) /\ Len(j) = Len(o) + ((Len(m) - s) + 1)
  /\ \A i \in 1 .. Len(o) : j[i] = o[i]
  /\ \A i \in s .. Len(m) : j[Len(o) + ((i - s) + 1)] = m[i]

LEMMA JoinedShape ==
  ASSUME NEW o, IsSeq(o), NEW m, IsSeq(m), NEW s \in Nat, s >= 1, s <= Len(m) + 1
  PROVE  JoinShape(o, m, s, Joined(o, m, s))
<1> DEFINE S == {o[i] : i \in DOMAIN o} \cup {m[i] : i \in DOMAIN m}
           t == SubSeq(m, s, Len(m))
<1>1. /\ Len(o) \in Nat /\ Len(m) \in Nat /\ DOMAIN o = 1 .. Len(o) /\ DOMAIN m = 1 .. Len(m)
      /\ o \in Seq({o[i] : i \in DOMAIN o}) /\ m \in Seq({m[i] : i \in DOMAIN m})
  BY SeqLen
<1>2. {o[i] : i \in DOMAIN o} \subseteq S /\ {m[i] : i \in DOMAIN m} \subseteq S
  OBVIOUS
<1> HIDE DEF S
<1>3. o \in Seq(S) /\ m \in Seq(S)
  BY <1>1, <1>2, SeqMonotonic
<1>4. /\ t \in Seq(S) /\ Len(t) = (Len(m) - s) + 1
      /\ \A i \in 1 .. (Len(m) - s) + 1 : t[i] = m[s + i - 1]
  <2>1. Len(t) = IF s <= Len(m) THEN Len(m) - s + 1 ELSE 0
    BY <1>1, <1>3, SubSeqProperties
  <2>2. t \in Seq(S)
    BY <1>1, <1>3, SubSeqProperties
  <2>3. \A i \in 1 .. Len(m) - s + 1 : t[i] = m[s + i - 1]
    BY <1>1, <1>3, SubSeqProperties
  <2> QED BY <1>1, <2>1, <2>2, <2>3
<1> HIDE DEF t
<1>5. /\ o \o t \in Seq(S) /\ Len(o \o t) = Len(o) + Len(t)
      /\ \A i \in 1 .. Len(o) + Len(t) : (o \o t)[i] = IF i <= Len(o) THEN o[i] ELSE t[i - Len(o)]
  BY <1>3, <1>4, ConcatProperties
<1>6. Joined(o, m, s) = o \o t
  BY DEF Joined, t
<1>7. IsSeq(o \o t)
  BY <1>5, SeqIs
<1>8. ASSUME NEW i \in 1 .. Len(o) PROVE (o \o t)[i] = o[i]
  BY <1>1, <1>4, <1>5
<1>9. ASSUME NEW i \in s .. Len(m) PROVE (o \o t)[Len(o) + ((i - s) + 1)] = m[i]
  <2> DEFINE k == Len(o) + ((i - s) + 1)
  <2>1. k \in 1 .. Len(o) + Len(t) /\ ~(k <= Len(o)) /\ k - Len(o) = (i - s) + 1
        /\ (i - s) + 1 \in 1 .. (Len(m) - s) + 1 /\ s + ((i - s) + 1) - 1 = i
    BY <1>1, <1>4
  <2> HIDE DEF k
  <2>2. (o \o t)[k] = t[k - Len(o)]
    BY <1>5, <2>1
  <2>3. t[(i - s) + 1] = m[s + ((i - s) + 1) - 1]
    BY <1>4, <2>1
  <2> QED BY <2>1, <2>2, <2>3 DEF k
<1> QED BY <1>4, <1>5, <1>6, <1>7, <1>8, <1>9 DEF JoinShape

\* When none are written, those left to read are all.
LEMMA JoinedWhole ==
  ASSUME NEW m, IsSeq(m)
  PROVE  Joined(<<>>, m, 1) = m
<1> DEFINE j == Joined(<<>>, m, 1)
<1>1. Len(m) \in Nat /\ DOMAIN m = 1 .. Len(m) /\ m = [i \in DOMAIN m |-> m[i]]
  BY SeqLen DEF IsSeq
<1>2. IsSeq(<<>>) /\ Len(<<>>) = 0
  <2>1. <<>> \in Seq({}) /\ Len(<<>>) = 0
    OBVIOUS
  <2> QED BY <2>1, SeqIs
<1>3. JoinShape(<<>>, m, 1, j)
  <2>1. 1 \in Nat /\ 1 >= 1 /\ 1 <= Len(m) + 1
    BY <1>1
  <2> QED BY <1>2, <2>1, JoinedShape, Zenon
<1> HIDE DEF j
<1>4. IsSeq(j) /\ Len(j) = Len(m)
  BY <1>1, <1>2, <1>3 DEF JoinShape
<1>5. ASSUME NEW i \in 1 .. Len(m) PROVE j[i] = m[i]
  <2>1. j[Len(<<>>) + ((i - 1) + 1)] = m[i]
    BY <1>3 DEF JoinShape
  <2>2. Len(<<>>) + ((i - 1) + 1) = i
    BY <1>1, <1>2
  <2> QED BY <2>1, <2>2
<1>6. DOMAIN j = 1 .. Len(m) /\ j = [i \in DOMAIN j |-> j[i]]
  BY <1>4, SeqLen DEF IsSeq
<1> QED BY <1>1, <1>5, <1>6 DEF j

\* An iteration that reads n opcodes and writes one replaces them.
LEMMA JoinedReplaces ==
  ASSUME NEW o, IsSeq(o), NEW m, IsSeq(m), NEW s \in Nat, s >= 1, NEW n \in Nat, n >= 1,
         s + n <= Len(m) + 1, NEW x, Fixes(x) => Fixes(m[s])
  PROVE  /\ Replaces(Joined(o, m, s), Joined(Append(o, x), m, s + n), Len(o), n)
         /\ Joined(Append(o, x), m, s + n)[Len(o) + 1] = x
<1> DEFINE new == Append(o, x)
           old == Joined(o, m, s)
           res == Joined(new, m, s + n)
<1>1. Len(o) \in Nat /\ Len(m) \in Nat
  BY SeqLen
<1>2. /\ IsSeq(new) /\ Len(new) = Len(o) + 1 /\ new[Len(o) + 1] = x
      /\ \A i \in 1 .. Len(o) : new[i] = o[i]
  BY SeqAppend
<1> HIDE DEF new
<1>3. /\ IsSeq(old) /\ Len(old) = Len(o) + ((Len(m) - s) + 1)
      /\ \A i \in 1 .. Len(o) : old[i] = o[i]
      /\ \A i \in s .. Len(m) : old[Len(o) + ((i - s) + 1)] = m[i]
  BY <1>1, JoinedShape DEF JoinShape
<1>4. /\ IsSeq(res) /\ Len(res) = Len(new) + ((Len(m) - (s + n)) + 1)
      /\ \A i \in 1 .. Len(new) : res[i] = new[i]
      /\ \A i \in s + n .. Len(m) : res[Len(new) + ((i - (s + n)) + 1)] = m[i]
  <2> DEFINE v == s + n
  <2>1. v \in Nat /\ v >= 1 /\ v <= Len(m) + 1
    BY <1>1
  <2> HIDE DEF v
  <2>2. JoinShape(new, m, v, Joined(new, m, v))
    BY <1>2, <2>1, JoinedShape
  <2> QED BY <2>2, Zenon DEF v, JoinShape
<1> HIDE DEF old, res
<1>5. Len(o) + n <= Len(old) /\ Len(res) = (Len(old) - n) + 1
  BY <1>1, <1>2, <1>3, <1>4
<1>6. ASSUME NEW i \in 1 .. Len(o) PROVE res[i] = old[i]
  <2>1. i \in 1 .. Len(new)
    BY <1>1, <1>2
  <2> QED BY <1>2, <1>3, <1>4, <2>1
<1>7. res[Len(o) + 1] = x
  <2>1. Len(o) + 1 \in 1 .. Len(new)
    BY <1>1, <1>2
  <2> QED BY <1>2, <1>4, <2>1
<1>8. ASSUME NEW i \in Len(o) + 2 .. Len(res) PROVE res[i] = old[i + n - 1]
  <2> DEFINE k == (i - Len(new)) + (s + n) - 1
  <2>1. k \in s + n .. Len(m) /\ Len(new) + ((k - (s + n)) + 1) = i
        /\ k \in s .. Len(m) /\ Len(o) + ((k - s) + 1) = i + n - 1
    BY <1>1, <1>2, <1>3, <1>4
  <2> HIDE DEF k
  <2>2. res[Len(new) + ((k - (s + n)) + 1)] = m[k] /\ old[Len(o) + ((k - s) + 1)] = m[k]
    BY <1>3, <1>4, <2>1
  <2> QED BY <2>1, <2>2
<1>9. old[Len(o) + 1] = m[s]
  <2>1. s \in s .. Len(m) /\ Len(o) + ((s - s) + 1) = Len(o) + 1
    BY <1>1
  <2> QED BY <1>3, <2>1
<1>10. Replaces(old, res, Len(o), n)
  BY <1>1, <1>4, <1>5, <1>6, <1>7, <1>8, <1>9 DEF Replaces
<1> QED BY <1>7, <1>10 DEF old, res, new

\* The kinds of opcodes a phase reads and writes.
Kinds ==
  /\ input \in Inputs /\ phase \in {"fixups", "runs", "pairs", "skips", "imm", "done"}
  /\ IsSeq(mid) /\ IsSeq(out) /\ src \in Nat /\ src >= 1 /\ src <= Len(mid) + 1
  /\ \A i \in DOMAIN mid : OpOK(mid[i])
  /\ \A i \in DOMAIN out : OpOK(out[i])
  /\ phase # "done" => \A i \in DOMAIN mid : mid[i].op \in PlainOps
  /\ phase \notin {"imm", "done"} => \A i \in DOMAIN out : out[i].op \in PlainOps
  /\ phase \in {"fixups", "runs"} => \A i \in DOMAIN mid : mid[i].op = "DO" => mid[i].a = 1
  /\ phase = "fixups" => src = 1 /\ out = <<>>

\* All opcodes, as they stand.
LEMMA OpcodesShape ==
  ASSUME Kinds
  PROVE  /\ Opcodes = Joined(out, mid, src) /\ IsSeq(Opcodes)
         /\ \A i \in DOMAIN Opcodes : OpOK(Opcodes[i])
         /\ \A i \in src .. Len(mid) : Opcodes[Len(out) + ((i - src) + 1)] = mid[i]
         /\ Len(Opcodes) = Len(out) + ((Len(mid) - src) + 1)
<1>1. Opcodes = Joined(out, mid, src)
  BY Zenon DEF Opcodes, Joined
<1>2. /\ Len(mid) \in Nat /\ Len(out) \in Nat /\ DOMAIN mid = 1 .. Len(mid)
      /\ DOMAIN out = 1 .. Len(out) /\ src \in Nat /\ src >= 1 /\ src <= Len(mid) + 1
  BY SeqLen DEF Kinds
<1>3. /\ IsSeq(Opcodes) /\ Len(Opcodes) = Len(out) + ((Len(mid) - src) + 1)
      /\ \A i \in 1 .. Len(out) : Opcodes[i] = out[i]
      /\ \A i \in src .. Len(mid) : Opcodes[Len(out) + ((i - src) + 1)] = mid[i]
  <2> DEFINE J == Joined(out, mid, src)
  <2>1. IsSeq(mid) /\ IsSeq(out)
    BY DEF Kinds
  <2>2. JoinShape(out, mid, src, J)
    BY <1>2, <2>1, JoinedShape
  <2> HIDE DEF J
  <2>3. Opcodes = J
    BY <1>1 DEF J
  <2> QED BY <2>2, <2>3, Zenon DEF JoinShape
<1>4. DOMAIN Opcodes = 1 .. Len(Opcodes)
  BY <1>3, SeqLen
<1> HIDE DEF Opcodes
<1>5. ASSUME NEW i \in 1 .. Len(Opcodes) PROVE OpOK(Opcodes[i])
  <2>1. CASE i <= Len(out)
    <3>1. i \in 1 .. Len(out)
      BY <1>2, <1>3, <2>1
    <3> QED BY <1>2, <1>3, <3>1 DEF Kinds
  <2>2. CASE ~(i <= Len(out))
    <3> DEFINE k == ((i - Len(out)) + src) - 1
    <3>1. k \in src .. Len(mid) /\ Len(out) + ((k - src) + 1) = i /\ k \in 1 .. Len(mid)
      BY <1>2, <1>3, <2>2
    <3> HIDE DEF k
    <3> QED BY <1>2, <1>3, <3>1 DEF Kinds
  <2> QED BY <2>1, <2>2
<1> QED BY <1>1, <1>3, <1>4, <1>5

\* A run of places is found: RunLength is its length.
LEMMA RunLengthOK ==
  ASSUME Kinds, src <= Len(mid), NEW alike \in SUBSET DOMAIN mid, src \in alike
  PROVE  /\ RunLength(alike) \in Nat /\ RunLength(alike) >= 1
         /\ src + RunLength(alike) <= Len(mid) + 1
         /\ \A i \in src .. (src + RunLength(alike)) - 1 : i \in alike
<1> DEFINE N == Len(mid) - src + 1
           T == {n \in 1 .. N : src + n \notin alike}
           P(n) == src .. (src + n - 1) \subseteq alike /\ src + n \notin alike
<1>1. Len(mid) \in Nat /\ DOMAIN mid = 1 .. Len(mid) /\ src \in Nat /\ src >= 1
  BY SeqLen DEF Kinds
<1>2. N \in Nat /\ N >= 1 /\ N \in 1 .. N
  BY <1>1
<1>3. T \in SUBSET Nat /\ N \in T
  <2>1. src + N \notin 1 .. Len(mid)
    BY <1>1
  <2> QED BY <1>1, <1>2, <2>1
<1>4. PICK n \in T : \A j \in T : n <= j
  BY <1>3, LeastNat
<1>5. n \in 1 .. N /\ src + n \notin alike
  BY <1>4
<1>6. ASSUME NEW i \in src .. (src + n - 1) PROVE i \in alike
  <2>1. CASE i = src
    BY <2>1
  <2>2. CASE i # src
    <3> DEFINE j == i - src
    <3>1. j \in 1 .. N /\ ~(n <= j) /\ src + j = i
      BY <1>1, <1>2, <1>5, <2>2
    <3> HIDE DEF j
    <3>2. j \notin T
      BY <1>4, <3>1
    <3> QED BY <3>1, <3>2
  <2> QED BY <2>1, <2>2
<1>7. P(n)
  BY <1>5, <1>6
<1>8. RunLength(alike) \in 1 .. N /\ P(RunLength(alike))
  <2>1. \E k \in 1 .. N : P(k)
    BY <1>5, <1>7
  <2>2. RunLength(alike) = CHOOSE k \in 1 .. N : P(k)
    BY Zenon DEF RunLength
  <2> HIDE DEF P, N
  <2> QED BY <2>1, <2>2
<1> HIDE DEF T
<1> QED BY <1>1, <1>2, <1>8

\* What is decoded in the next state.
LEMMA DecodedNext ==
  ASSUME UNCHANGED input, NEW new, Opcodes' = new
  PROVE  Decoded(Opcodes)' = Decoded(new) /\ (Readable(Opcodes)' <=> Readable(new))
<1>1. Decoded(Opcodes)' = Decoded(new)
  BY SMT DEF Decoded, DecodeStep, Fix
<1>2. Readable(Opcodes)' <=> Readable(new)
  BY SMT DEF Readable, Reads, Run, Placed, DecodeStep, Fix
<1> QED BY <1>1, <1>2

\* An iteration that writes an opcode which does what those it reads do.
Does(n, op) ==
  /\ n \in Nat /\ n >= 1 /\ src + n <= Len(mid) + 1
  /\ OpOK(op) /\ (Fixes(op) => Fixes(mid[src]))
  /\ \A d : Reads(Opcodes, d) => DecodeStep(d[Len(out)], op) = d[Len(out) + n]

LEMMA RewriteKeeps ==
  ASSUME Kinds, Readable(Opcodes), NEW ph \in {"runs", "pairs", "skips", "imm"}, NEW n, NEW op,
         Rewrite(ph, n, op), Does(n, op), ph = "imm" \/ op.op \in PlainOps
  PROVE  Kinds' /\ Readable(Opcodes)' /\ Decoded(Opcodes)' = Decoded(Opcodes)
<1> DEFINE new == Joined(Append(out, op), mid, src + n)
<1>0. /\ n \in Nat /\ n >= 1 /\ src + n <= Len(mid) + 1
      /\ OpOK(op) /\ (Fixes(op) => Fixes(mid[src]))
      /\ \A d : Reads(Opcodes, d) => DecodeStep(d[Len(out)], op) = d[Len(out) + n]
  BY DEF Does
<1>1. /\ phase = ph /\ src' = src + n /\ out' = Append(out, op) /\ mid' = mid
      /\ UNCHANGED <<input, phase>>
  BY Zenon DEF Rewrite
<1>2. /\ IsSeq(mid) /\ IsSeq(out) /\ src \in Nat /\ src >= 1
      /\ Len(mid) \in Nat /\ Len(out) \in Nat
      /\ Opcodes = Joined(out, mid, src)
  BY SeqLen, OpcodesShape DEF Kinds
<1>3. Opcodes' = new
  BY <1>1, Zenon DEF Opcodes, Joined
<1>4. Replaces(Opcodes, new, Len(out), n) /\ new[Len(out) + 1] = op
  <2>1. Replaces(Joined(out, mid, src), new, Len(out), n) /\ new[Len(out) + 1] = op
    BY <1>0, <1>2, JoinedReplaces
  <2> QED BY <1>2, <2>1, Zenon
<1> HIDE DEF new
<1>5. Readable(new) /\ Decoded(new) = Decoded(Opcodes)
  <2>1. \A d : Reads(Opcodes, d) => DecodeStep(d[Len(out)], new[Len(out) + 1]) = d[Len(out) + n]
    BY <1>0, <1>4, Zenon
  <2> DEFINE ops == Opcodes
             p == Len(out)
  <2>2. Readable(ops) /\ Replaces(ops, new, p, n)
        /\ \A d : Reads(ops, d) => DecodeStep(d[p], new[p + 1]) = d[p + n]
    BY <1>4, <2>1, Zenon
  <2> HIDE DEF ops, p
  <2>3. Readable(new) /\ Decoded(new) = Decoded(ops)
    BY <2>2, Rewritten, Zenon
  <2> QED BY <2>3 DEF ops
<1>6. Kinds'
  <2> DEFINE o == Append(out, op)
  <2>1. IsSeq(o) /\ DOMAIN o = 1 .. Len(o) /\ Len(o) = Len(out) + 1 /\ DOMAIN out = 1 .. Len(out)
        /\ (\A i \in 1 .. Len(out) : o[i] = out[i]) /\ o[Len(out) + 1] = op
    <3>1. IsSeq(o)
      BY <1>2, SeqAppend
    <3> QED BY <1>2, <3>1, SeqAppend, SeqLen
  <2> HIDE DEF o
  <2>2. \A i \in DOMAIN o : OpOK(o[i])
    BY <1>0, <1>2, <2>1 DEF Kinds
  <2>3. phase \notin {"imm", "done"} => \A i \in DOMAIN o : o[i].op \in PlainOps
    BY <1>1, <1>2, <2>1 DEF Kinds
  <2>4. out' = o
    BY <1>1 DEF o
  <2>5. src' \in Nat /\ src' >= 1 /\ src' <= Len(mid) + 1
    BY <1>0, <1>1, <1>2
  <2> QED BY <1>1, <2>1, <2>2, <2>3, <2>4, <2>5 DEF Kinds
<1> QED BY <1>1, <1>3, <1>5, <1>6, DecodedNext

\* The decoder at the opcodes left to read.
LEMMA ReadsOn ==
  ASSUME Kinds, NEW d, Reads(Opcodes, d), NEW i \in src .. Len(mid)
  PROVE  LET k == Len(out) + (i - src)
         IN  /\ k \in 0 .. Len(Opcodes) /\ IsState(d[k])
             /\ d[k + 1] = DecodeStep(d[k], mid[i]) /\ OpOK(mid[i])
             /\ Fixes(mid[i]) => Placed(d[k])
<1> DEFINE k == Len(out) + (i - src)
           ops == Opcodes
<1>1. /\ Len(mid) \in Nat /\ Len(out) \in Nat /\ src \in Nat /\ src >= 1
      /\ DOMAIN mid = 1 .. Len(mid)
  BY SeqLen DEF Kinds
<1>2. /\ IsSeq(ops) /\ (\A j \in DOMAIN ops : OpOK(ops[j])) /\ Reads(ops, d)
      /\ Len(ops) = Len(out) + ((Len(mid) - src) + 1)
      /\ ops[Len(out) + ((i - src) + 1)] = mid[i]
  BY OpcodesShape
<1> HIDE DEF ops
<1>3. k \in 0 .. Len(ops) /\ k + 1 \in 1 .. Len(ops) /\ (k + 1) - 1 = k
      /\ Len(out) + ((i - src) + 1) = k + 1 /\ i \in 1 .. Len(mid)
  BY <1>1, <1>2
<1> HIDE DEF k
<1>4. ops[k + 1] = mid[i]
  BY <1>2, <1>3
<1>5. /\ \A j \in 0 .. Len(ops) : IsState(d[j])
      /\ \A j \in 1 .. Len(ops) : d[j] = DecodeStep(d[j - 1], ops[j])
  BY <1>2, RunStates DEF Reads
<1>6. IsState(d[k]) /\ d[k + 1] = DecodeStep(d[k], mid[i])
  BY <1>3, <1>4, <1>5
<1>7. Fixes(mid[i]) => Placed(d[k])
  BY <1>2, <1>3, <1>4 DEF Reads
<1>8. OpOK(mid[i])
  BY <1>1, <1>3 DEF Kinds
<1> QED BY <1>3, <1>6, <1>7, <1>8 DEF k, ops

\* An opcode is left as it is.
LEMMA CopyDoes ==
  ASSUME Kinds, src <= Len(mid)
  PROVE  Does(1, mid[src]) /\ (phase # "done" => mid[src].op \in PlainOps)
<1>1. /\ Len(mid) \in Nat /\ Len(out) \in Nat /\ src \in Nat /\ src >= 1
      /\ DOMAIN mid = 1 .. Len(mid) /\ src \in src .. Len(mid) /\ src \in 1 .. Len(mid)
  BY SeqLen DEF Kinds
<1>2. ASSUME NEW d, Reads(Opcodes, d)
      PROVE  DecodeStep(d[Len(out)], mid[src]) = d[Len(out) + 1]
  <2>1. Len(out) + (src - src) = Len(out)
    BY <1>1
  <2>2. d[(Len(out) + (src - src)) + 1] = DecodeStep(d[Len(out) + (src - src)], mid[src])
    BY <1>1, <1>2, ReadsOn
  <2> QED BY <2>1, <2>2
<1>3. OpOK(mid[src]) /\ (phase # "done" => mid[src].op \in PlainOps)
  BY <1>1 DEF Kinds
<1> QED BY <1>1, <1>2, <1>3 DEF Does

\* A run of opcodes that each make a fixup, skip bytes apart.
LEMMA RunDoes ==
  ASSUME Kinds, ImageOK(input), src <= Len(mid), NEW alike \in SUBSET DOMAIN mid, src \in alike,
         NEW skip \in Int, NEW op, OpOK(op), \A x : DecodeStep(x, op) = Fix(x, RunLength(alike), skip),
         \A i \in alike : Fixes(mid[i]) /\ \A x : DecodeStep(x, mid[i]) = Fix(x, 1, skip)
  PROVE  Does(RunLength(alike), op)
<1> DEFINE n == RunLength(alike)
           p == Len(out)
           ops == Opcodes
<1>1. /\ Len(mid) \in Nat /\ p \in Nat /\ src \in Nat /\ src >= 1
      /\ DOMAIN mid = 1 .. Len(mid)
  BY SeqLen DEF Kinds
<1>2. n \in Nat /\ n >= 1 /\ src + n <= Len(mid) + 1 /\ \A i \in src .. (src + n) - 1 : i \in alike
  BY RunLengthOK
<1>3. /\ IsSeq(ops) /\ (\A j \in DOMAIN ops : OpOK(ops[j]))
      /\ Len(ops) = p + ((Len(mid) - src) + 1)
      /\ \A i \in src .. Len(mid) : ops[p + ((i - src) + 1)] = mid[i]
  BY OpcodesShape
<1>4. \A x : DecodeStep(x, op) = Fix(x, n, skip)
  OBVIOUS
<1> HIDE DEF n, p, ops
<1>5. ASSUME NEW i \in p + 1 .. p + n
      PROVE  Fixes(ops[i]) /\ \A x : DecodeStep(x, ops[i]) = Fix(x, 1, skip)
  <2> DEFINE k == ((i - p) + src) - 1
  <2>1. k \in src .. Len(mid) /\ p + ((k - src) + 1) = i /\ k \in src .. (src + n) - 1
    BY <1>1, <1>2
  <2> HIDE DEF k
  <2>2. ops[i] = mid[k] /\ k \in alike
    BY <1>2, <1>3, <2>1
  <2> QED BY <2>2
<1>6. p + n <= Len(ops)
  BY <1>1, <1>2, <1>3
<1>7. ASSUME NEW d, Reads(ops, d) PROVE DecodeStep(d[p], op) = d[p + n]
  <2>1. d[p + n] = Fix(d[p], n, skip)
    <3>1. \A i \in p + 1 .. p + n : Fixes(ops[i]) /\ \A x : DecodeStep(x, ops[i]) = Fix(x, 1, skip)
      BY <1>5, Zenon
    <3>2. FixRun(ops, d, p, n, skip)
      BY <1>1, <1>2, <1>3, <1>6, <1>7, <3>1, Zenon DEF FixRun
    <3> QED BY <3>2, RunOfFixes
  <2> QED BY <1>4, <2>1
<1>8. Fixes(mid[src])
  OBVIOUS
<1> QED BY <1>2, <1>7, <1>8 DEF Does, n, p, ops

\* The phases keep the opcodes readable and what is read from them.
Kept == Kinds' /\ Readable(Opcodes)' /\ Decoded(Opcodes)' = Decoded(Opcodes)

LEMMA CopyKeeps ==
  ASSUME Kinds, Readable(Opcodes), NEW ph \in {"runs", "pairs", "skips"}, Rewrite(ph, 1, mid[src])
  PROVE  Kept
<1>1. phase = ph /\ src <= Len(mid)
  BY Zenon DEF Rewrite
<1>2. phase # "done" /\ ph \in {"runs", "pairs", "skips", "imm"}
  BY <1>1
<1>3. Does(1, mid[src]) /\ mid[src].op \in PlainOps
  BY <1>1, <1>2, CopyDoes
<1> QED BY <1>2, <1>3, RewriteKeeps, Zenon DEF Kept

LEMMA RunsKeep ==
  ASSUME Kinds, Readable(Opcodes), RunsPhase
  PROVE  Kept
<1> DEFINE alike == {i \in DOMAIN mid : Is(i, "DO")}
           n == RunLength(alike)
           op == Op("DO", n, 0)
<1>0. "runs" \in {"runs", "pairs", "skips"} /\ "runs" \in {"runs", "pairs", "skips", "imm"}
  OBVIOUS
<1>1. CASE ~Is(src, "DO")
  <2>1. Rewrite("runs", 1, mid[src])
    BY <1>1, Zenon DEF RunsPhase
  <2> QED BY <1>0, <2>1, CopyKeeps, Zenon
<1>2. CASE Is(src, "DO")
  <2>1. Rewrite("runs", n, op)
    BY <1>2, Zenon DEF RunsPhase
  <2>2. phase = "runs" /\ src <= Len(mid)
    BY <2>1, Zenon DEF Rewrite
  <2>3. src \in alike /\ alike \in SUBSET DOMAIN mid
    BY <1>2, <2>2, SeqLen DEF Kinds
  <2>4. ImageOK(input)
    BY InputsAssumption DEF Kinds
  <2>5. ASSUME NEW i \in alike
        PROVE  Fixes(mid[i]) /\ \A x : DecodeStep(x, mid[i]) = Fix(x, 1, 0)
    <3>1. mid[i].op = "DO" /\ mid[i].a = 1
      BY <2>2 DEF Kinds, Is
    <3> QED BY <3>1 DEF Fixes, DecodeStep
  <2> HIDE DEF alike
  <2>6. n \in Nat /\ n >= 1
    BY <2>2, <2>3, RunLengthOK
  <2> HIDE DEF n
  <2>7. OpOK(op) /\ op.op \in PlainOps /\ \A x : DecodeStep(x, op) = Fix(x, n, 0)
    BY <2>6 DEF OpOK, Op, PlainOps, DecodeStep
  <2> HIDE DEF op
  <2>8. Does(n, op)
    <3>1. \A x : DecodeStep(x, op) = Fix(x, RunLength(alike), 0)
      BY <2>7 DEF n
    <3>2. \A i \in alike : Fixes(mid[i]) /\ \A x : DecodeStep(x, mid[i]) = Fix(x, 1, 0)
      BY <2>5, Zenon
    <3>3. 0 \in Int
      OBVIOUS
    <3> QED BY <2>2, <2>3, <2>4, <2>7, <3>1, <3>2, <3>3, RunDoes, Zenon DEF n
  <2> QED BY <1>0, <2>1, <2>7, <2>8, RewriteKeeps, Zenon DEF Kept
<1> QED BY <1>1, <1>2

LEMMA SkipsKeep ==
  ASSUME Kinds, Readable(Opcodes), SkipsPhase
  PROVE  Kept
<1> DEFINE alike == {i \in DOMAIN mid : Is(i, "DO_ADD") /\ mid[i].a = mid[src].a}
           worth == IF input.kind = "rebase" THEN 3 ELSE 2
           n == RunLength(alike)
           op == Op("DO_SKIP", n, mid[src].a)
<1>0. "skips" \in {"runs", "pairs", "skips"} /\ "skips" \in {"runs", "pairs", "skips", "imm"}
  OBVIOUS
<1>1. CASE ~(Is(src, "DO_ADD") /\ n >= worth)
  <2>1. Rewrite("skips", 1, mid[src])
    BY <1>1, Zenon DEF SkipsPhase
  <2> QED BY <1>0, <2>1, CopyKeeps, Zenon
<1>2. CASE Is(src, "DO_ADD") /\ n >= worth
  <2>1. Rewrite("skips", n, op)
    BY <1>2, Zenon DEF SkipsPhase
  <2>2. phase = "skips" /\ src <= Len(mid)
    BY <2>1, Zenon DEF Rewrite
  <2>3. src \in alike /\ alike \in SUBSET DOMAIN mid
    BY <1>2, <2>2, SeqLen DEF Kinds
  <2>4. ImageOK(input)
    BY InputsAssumption DEF Kinds
  <2>5. ASSUME NEW i \in alike
        PROVE  Fixes(mid[i]) /\ \A x : DecodeStep(x, mid[i]) = Fix(x, 1, mid[src].a)
    <3>1. mid[i].op = "DO_ADD" /\ mid[i].a = mid[src].a
      BY DEF Is
    <3> QED BY <3>1 DEF Fixes, DecodeStep
  <2>6. mid[src].a \in Int
    BY <2>3 DEF Kinds, OpOK
  <2> HIDE DEF alike
  <2>7. n \in Nat /\ n >= 1
    BY <2>2, <2>3, RunLengthOK
  <2> HIDE DEF n
  <2>8. OpOK(op) /\ op.op \in PlainOps /\ \A x : DecodeStep(x, op) = Fix(x, n, mid[src].a)
    BY <2>6, <2>7 DEF OpOK, Op, PlainOps, DecodeStep
  <2> HIDE DEF op
  <2>9. Does(n, op)
    <3>1. \A x : DecodeStep(x, op) = Fix(x, RunLength(alike), mid[src].a)
      BY <2>8 DEF n
    <3>2. \A i \in alike : Fixes(mid[i]) /\ \A x : DecodeStep(x, mid[i]) = Fix(x, 1, mid[src].a)
      BY <2>5, Zenon
    <3> QED BY <2>2, <2>3, <2>4, <2>6, <2>8, <3>1, <3>2, RunDoes, Zenon DEF n
  <2> QED BY <1>0, <2>1, <2>8, <2>9, RewriteKeeps, Zenon DEF Kept
<1> QED BY <1>1, <1>2

LEMMA PairsKeep ==
  ASSUME Kinds, Readable(Opcodes), PairsPhase
  PROVE  Kept
<1> DEFINE op == Op("DO_ADD", mid[src + 1].a, 0)
           pair == Is(src, "DO") /\ mid[src].a = 1 /\ Is(src + 1, "ADD_ADDR")
<1>0. "pairs" \in {"runs", "pairs", "skips"} /\ "pairs" \in {"runs", "pairs", "skips", "imm"}
  OBVIOUS
<1>1. CASE ~pair
  <2>1. Rewrite("pairs", 1, mid[src])
    BY <1>1, Zenon DEF PairsPhase
  <2> QED BY <1>0, <2>1, CopyKeeps, Zenon
<1>2. CASE pair
  <2>1. Rewrite("pairs", 2, op)
    BY <1>2, Zenon DEF PairsPhase
  <2>2. ImageOK(input)
    BY InputsAssumption DEF Kinds
  <2>3. /\ mid[src].op = "DO" /\ mid[src].a = 1 /\ mid[src + 1].op = "ADD_ADDR"
        /\ src + 1 <= Len(mid) /\ src \in Nat /\ src >= 1 /\ Len(mid) \in Nat /\ Len(out) \in Nat
    BY <1>2, SeqLen DEF Is, Kinds
  <2>4. src \in src .. Len(mid) /\ src + 1 \in src .. Len(mid)
    BY <2>3
  <2>5. mid[src + 1].a \in Int
    <3>1. src + 1 \in DOMAIN mid
      BY <2>3, SeqLen DEF Kinds
    <3> QED BY <3>1 DEF Kinds, OpOK
  <2>6. OpOK(op) /\ op.op \in PlainOps /\ \A x : DecodeStep(x, op) = Fix(x, 1, mid[src + 1].a)
    BY <2>5 DEF OpOK, Op, PlainOps, DecodeStep
  <2> HIDE DEF op
  <2>7. ASSUME NEW d, Reads(Opcodes, d)
        PROVE  DecodeStep(d[Len(out)], op) = d[Len(out) + 2]
    <3> DEFINE p == Len(out)
    <3>1. p + (src - src) = p /\ p + ((src + 1) - src) = p + 1 /\ (p + 1) + 1 = p + 2
      BY <2>3
    <3>2. /\ IsState(d[p + (src - src)])
          /\ d[(p + (src - src)) + 1] = DecodeStep(d[p + (src - src)], mid[src])
          /\ Fixes(mid[src]) => Placed(d[p + (src - src)])
      BY <2>4, <2>7, ReadsOn
    <3>3. d[(p + ((src + 1) - src)) + 1] = DecodeStep(d[p + ((src + 1) - src)], mid[src + 1])
      <4> DEFINE s == src + 1
      <4>1. s \in src .. Len(mid)
        BY <2>4
      <4> HIDE DEF s
      <4>2. d[(p + (s - src)) + 1] = DecodeStep(d[p + (s - src)], mid[s])
        BY <2>7, <4>1, ReadsOn
      <4> QED BY <4>2 DEF s
    <3>4. IsState(d[p]) /\ Placed(d[p]) /\ d[p + 1] = DecodeStep(d[p], mid[src])
          /\ d[p + 2] = DecodeStep(d[p + 1], mid[src + 1])
      BY <2>3, <3>1, <3>2, <3>3 DEF Fixes
    <3>5. d[p + 1] = Fix(d[p], 1, 0)
      BY <2>3, <3>4 DEF DecodeStep
    <3>6. d[p + 2] = [d[p + 1] EXCEPT !.off = Unsigned(@ + mid[src + 1].a)]
      BY <2>3, <3>4 DEF DecodeStep
    <3>7. d[p + 2] = Fix(d[p], 1, mid[src + 1].a)
      BY <2>2, <2>5, <3>4, <3>5, <3>6, PairStep
    <3> QED BY <2>6, <3>7
  <2>8. Does(2, op)
    BY <2>3, <2>6, <2>7 DEF Does, Fixes
  <2> QED BY <1>0, <2>1, <2>6, <2>8, RewriteKeeps, Zenon DEF Kept
<1> QED BY <1>1, <1>2

LEMMA ImmediateKeeps ==
  ASSUME Kinds, Readable(Opcodes), ImmediatePhase
  PROVE  Kept
<1>0. "imm" \in {"runs", "pairs", "skips", "imm"}
  OBVIOUS
<1>1. Rewrite("imm", 1, Immediate(mid[src]))
  BY Zenon DEF ImmediatePhase
<1>2. phase = "imm" /\ src <= Len(mid)
  BY <1>1, Zenon DEF Rewrite
<1>3. Does(1, mid[src]) /\ mid[src].op \in PlainOps
  <2>1. phase # "done"
    BY <1>2
  <2> QED BY <1>2, <2>1, CopyDoes
<1> DEFINE o == mid[src]
           op == Immediate(o)
<1>4. OpOK(o) /\ o.op \in PlainOps
  BY <1>3, Zenon DEF Does
<1> HIDE DEF o
<1>5. OpOK(op) /\ (Fixes(op) <=> Fixes(o)) /\ \A d : DecodeStep(d, op) = DecodeStep(d, o)
  BY <1>4, ImmediateStep, Zenon
<1> HIDE DEF op
<1>6. Does(1, op)
  BY <1>3, <1>5, Zenon DEF Does, o
<1>7. Rewrite("imm", 1, op)
  BY <1>1 DEF op, o
<1> QED BY <1>0, <1>6, <1>7, RewriteKeeps, Zenon DEF Kept

\* The vector that has been written is the one that is read next.
LEMMA EndKeeps ==
  ASSUME Kinds, Readable(Opcodes), EndPhases
  PROVE  Kept
<1>1. PICK ph, next : EndPhase(ph, next) /\ <<ph, next>> \in {<<"runs", "pairs">>, <<"pairs", "skips">>,
                          <<"skips", "imm">>, <<"imm", "done">>}
  BY Zenon DEF EndPhases
<1>2. /\ phase = ph /\ src > Len(mid) /\ mid' = out /\ src' = 1 /\ out' = <<>> /\ phase' = next
      /\ UNCHANGED input
  BY <1>1, Zenon DEF EndPhase
<1>3. \/ phase = "runs" /\ phase' = "pairs"
      \/ phase = "pairs" /\ phase' = "skips"
      \/ phase = "skips" /\ phase' = "imm"
      \/ phase = "imm" /\ phase' = "done"
  BY <1>1, <1>2
<1>4. /\ IsSeq(mid) /\ IsSeq(out) /\ Len(mid) \in Nat /\ Len(out) \in Nat
      /\ src \in Nat /\ src <= Len(mid) + 1 /\ src = Len(mid) + 1
  BY <1>2, SeqLen DEF Kinds
<1>5. IsSeq(<<>>) /\ Len(<<>>) = 0
  <2>1. <<>> \in Seq({}) /\ Len(<<>>) = 0
    OBVIOUS
  <2> QED BY <2>1, SeqIs
<1>6. Kinds'
  BY <1>2, <1>3, <1>4, <1>5 DEF Kinds
<1> DEFINE old == Joined(out, mid, src)
<1>7. Opcodes' = out
  <2>1. Opcodes' = Joined(<<>>, out, 1)
    BY <1>2, Zenon DEF Opcodes, Joined
  <2> QED BY <1>4, <2>1, JoinedWhole
<1>8. Opcodes = old
  BY Zenon DEF Opcodes, Joined
<1>9. JoinShape(out, mid, src, old)
  BY <1>4, JoinedShape DEF Kinds
<1> HIDE DEF old
<1>10. IsSeq(old) /\ Len(old) = Len(out) /\ \A i \in 1 .. Len(out) : old[i] = out[i]
  BY <1>4, <1>9 DEF JoinShape
<1>11. out = old
  <2>1. /\ DOMAIN out = 1 .. Len(out) /\ DOMAIN old = 1 .. Len(out)
        /\ out = [i \in DOMAIN out |-> out[i]] /\ old = [i \in DOMAIN old |-> old[i]]
    BY <1>4, <1>10, SeqLen DEF IsSeq
  <2> QED BY <1>10, <2>1
<1>12. Opcodes' = old /\ Readable(old) /\ Decoded(Opcodes) = Decoded(old)
  BY <1>7, <1>8, <1>11
<1> QED BY <1>2, <1>6, <1>12, DecodedNext, Zenon DEF Kept

-----------------------------------------------------------------------------
(***************************************************************************)
(* The first loop.                                                         *)
(***************************************************************************)

\* A state of the decoder from its fields.
State(seg, off, type, lib, sym, flags, addend, found, count, bad) ==
  [seg |-> seg, off |-> off, type |-> type, lib |-> lib, sym |-> sym, flags |-> flags, addend |-> addend,
   found |-> found, count |-> count, bad |-> bad]

\* The opcodes the first loop writes.
FirstOps(ops) ==
  /\ Readable(ops)
  /\ \A i \in DOMAIN ops : /\ OpOK(ops[i]) /\ ops[i].op \in PlainOps
                           /\ ops[i].op = "DO" => ops[i].a = 1
FirstOp(o) == OpOK(o) /\ o.op \in PlainOps /\ (o.op = "DO" => o.a = 1)

\* One opcode more, or none.
LEMMA DecodedWhen ==
  ASSUME NEW ops, FirstOps(ops), NEW c \in BOOLEAN, NEW o, c => FirstOp(o),
         c /\ Fixes(o) => Placed(Decoded(ops))
  PROVE  /\ FirstOps(ops \o When(c, o))
         /\ Decoded(ops \o When(c, o)) = IF c THEN DecodeStep(Decoded(ops), o) ELSE Decoded(ops)
<1>1. IsSeq(ops) /\ Len(ops) \in Nat /\ DOMAIN ops = 1 .. Len(ops)
      /\ ops \in Seq({ops[i] : i \in DOMAIN ops})
  BY SeqLen DEF FirstOps, Readable
<1>2. CASE ~c
  <2>1. When(c, o) = <<>>
    BY <1>2 DEF When
  <2>2. ops \o <<>> = ops
    BY <1>1, ConcatEmptySeq
  <2> QED BY <1>2, <2>1, <2>2
<1>3. CASE c
  <2> DEFINE S == {ops[i] : i \in DOMAIN ops} \cup {o}
             new == Append(ops, o)
  <2>1. When(c, o) = <<o>>
    BY <1>3 DEF When
  <2>2. ops \in Seq(S) /\ o \in S
    <3>1. {ops[i] : i \in DOMAIN ops} \subseteq S /\ o \in S
      OBVIOUS
    <3> QED BY <1>1, <3>1, SeqMonotonic
  <2> HIDE DEF S
  <2>3. ops \o When(c, o) = new
    BY <2>1, <2>2, AppendIsConcat
  <2>4. Readable(new) /\ Decoded(new) = DecodeStep(Decoded(ops), o)
    BY <1>3, DecodedAppend DEF FirstOps
  <2>5. /\ DOMAIN new = 1 .. Len(new) /\ Len(new) = Len(ops) + 1 /\ new[Len(ops) + 1] = o
        /\ \A i \in 1 .. Len(ops) : new[i] = ops[i]
    BY <1>1, <2>4, SeqAppend, SeqLen DEF Readable
  <2> HIDE DEF new
  <2>6. FirstOp(o)
    BY <1>3
  <2>7. FirstOps(new)
    <3> SUFFICES ASSUME NEW i \in 1 .. Len(ops) + 1
                 PROVE  OpOK(new[i]) /\ new[i].op \in PlainOps /\ (new[i].op = "DO" => new[i].a = 1)
      BY <2>4, <2>5 DEF FirstOps
    <3>1. CASE i = Len(ops) + 1
      BY <2>5, <2>6, <3>1 DEF FirstOp
    <3>2. CASE i # Len(ops) + 1
      <4>1. i \in 1 .. Len(ops)
        BY <1>1, <3>2
      <4> QED BY <1>1, <2>5, <4>1 DEF FirstOps
    <3> QED BY <3>1, <3>2
  <2> QED BY <1>3, <2>3, <2>4, <2>7
<1> QED BY <1>2, <1>3

\* What is decoded has its fields.
LEMMA DecodedState ==
  ASSUME NEW ops, FirstOps(ops)
  PROVE  IsState(Decoded(ops))
<1>1. PICK d : Reads(ops, d)
  BY DEF FirstOps, Readable
<1>2. IsSeq(ops) /\ \A i \in DOMAIN ops : OpOK(ops[i])
  BY DEF FirstOps, Readable
<1>3. Run(ops, d)
  BY <1>1 DEF Reads
<1>4. Len(ops) \in 0 .. Len(ops)
  BY <1>2, SeqLen
<1>5. IsState(d[Len(ops)])
  BY <1>2, <1>3, <1>4, RunStates
<1> QED BY <1>2, <1>3, <1>5, RunDecoded

\* The segment of a fixup is found, and it is the only one.
LEMMA SegmentFound ==
  ASSUME ImageOK(input), NEW it \in input.info
  PROVE  LET s == findSegment(it.address)
         IN  /\ s \in DOMAIN input.segs
             /\ input.segs[s].start <= it.address /\ it.address + PtrSize <= input.segs[s].end
             /\ \A t \in DOMAIN input.segs :
                  input.segs[t].start <= it.address /\ it.address < input.segs[t].end => t = s
<1> DEFINE segs == input.segs
           a == it.address
           P(i) == segs[i].start <= a /\ a < segs[i].end
           s == findSegment(a)
<1>1. FixupOK(input, it)
  BY DEF ImageOK
<1>2. a \in Nat /\ \E t \in DOMAIN segs : segs[t].start <= a /\ a + PtrSize <= segs[t].end
  BY <1>1 DEF FixupOK
<1>3. /\ \A t \in DOMAIN segs : segs[t].start \in Nat /\ segs[t].end \in Nat
      /\ \A t, u \in DOMAIN segs : t = u \/ segs[t].end <= segs[u].start \/ segs[u].end <= segs[t].start
  BY DEF ImageOK
<1>4. PICK t \in DOMAIN segs : segs[t].start <= a /\ a + PtrSize <= segs[t].end
  BY <1>2
<1>5. P(t)
  BY <1>2, <1>3, <1>4, SizesAssumption
<1>6. s \in DOMAIN segs /\ P(s)
  <2>1. s = CHOOSE i \in DOMAIN segs : P(i)
    BY Zenon DEF findSegment
  <2> HIDE DEF P
  <2> QED BY <1>5, <2>1
<1> HIDE DEF s
<1>7. ASSUME NEW u \in DOMAIN segs, P(u) PROVE u = s
  BY <1>2, <1>3, <1>6, <1>7
<1>8. t = s
  BY <1>5, <1>7
<1> QED BY <1>4, <1>6, <1>7, <1>8 DEF s

\* The fixups are ordered: some fixup is the next.
LEMMA NextFixup ==
  ASSUME ImageOK(input), NEW S \in SUBSET input.info, S # {}
  PROVE  LET it == CHOOSE x \in S : \A y \in S \ {x} : Less(x, y)
         IN  it \in S /\ \A y \in S \ {it} : Less(it, y)
<1>1. \A x \in S : /\ x.lib \in Int /\ x.lib >= -15 /\ x.sym \in Nat /\ x.type \in Nat
                   /\ x.flags \in {0, 1} /\ x.address \in Nat
  BY DEF ImageOK, FixupOK
<1>2. \A x, y \in S : x.lib = y.lib /\ x.sym = y.sym /\ x.type = y.type /\ x.address = y.address
                        => x = y
  BY DEF ImageOK
<1>3. PICK a \in S : \A y \in S : a.lib <= y.lib
  <2> DEFINE T == {x.lib + 15 : x \in S}
  <2>1. T \in SUBSET Nat /\ T # {}
    BY <1>1
  <2>2. PICK k \in T : \A j \in T : k <= j
    BY <2>1, LeastNat
  <2>3. PICK a \in S : k = a.lib + 15
    BY <2>2
  <2>4. ASSUME NEW y \in S PROVE a.lib <= y.lib
    <3>1. y.lib + 15 \in T
      OBVIOUS
    <3> HIDE DEF T
    <3>2. k <= y.lib + 15
      BY <2>2, <3>1
    <3> QED BY <1>1, <2>3, <3>2
  <2> QED BY <2>4
<1> DEFINE A == {x \in S : x.lib = a.lib}
<1>4. PICK b \in A : \A y \in A : b.sym <= y.sym
  <2> DEFINE T == {x.sym : x \in A}
  <2>1. T \in SUBSET Nat /\ T # {}
    BY <1>1
  <2>2. PICK k \in T : \A j \in T : k <= j
    BY <2>1, LeastNat
  <2>3. PICK b \in A : k = b.sym
    BY <2>2
  <2>4. ASSUME NEW y \in A PROVE b.sym <= y.sym
    <3>1. y.sym \in T
      OBVIOUS
    <3> HIDE DEF T
    <3> QED BY <2>2, <2>3, <3>1
  <2> QED BY <2>4
<1> DEFINE B == {x \in A : x.sym = b.sym}
<1>5. PICK c \in B : \A y \in B : c.type <= y.type
  <2> DEFINE T == {x.type : x \in B}
  <2>1. T \in SUBSET Nat /\ T # {}
    BY <1>1
  <2>2. PICK k \in T : \A j \in T : k <= j
    BY <2>1, LeastNat
  <2>3. PICK c \in B : k = c.type
    BY <2>2
  <2>4. ASSUME NEW y \in B PROVE c.type <= y.type
    <3>1. y.type \in T
      OBVIOUS
    <3> HIDE DEF T
    <3> QED BY <2>2, <2>3, <3>1
  <2> QED BY <2>4
<1> DEFINE F == {x \in B : x.type = c.type}
<1>9. PICK h \in F : \A y \in F : h.flags >= y.flags
  <2>1. \A x \in F : x.flags \in {0, 1}
    BY <1>1
  <2>2. c \in F
    OBVIOUS
  <2> HIDE DEF F
  <2> QED BY <2>1, <2>2
<1> DEFINE C == {x \in F : x.flags = h.flags}
<1>6. PICK e \in C : \A y \in C : e.address <= y.address
  <2> DEFINE T == {x.address : x \in C}
  <2>1. T \in SUBSET Nat /\ T # {}
    BY <1>1
  <2>2. PICK k \in T : \A j \in T : k <= j
    BY <2>1, LeastNat
  <2>3. PICK e \in C : k = e.address
    BY <2>2
  <2>4. ASSUME NEW y \in C PROVE e.address <= y.address
    <3>1. y.address \in T
      OBVIOUS
    <3> HIDE DEF T
    <3> QED BY <2>2, <2>3, <3>1
  <2> QED BY <2>4
<1> DEFINE P(x) == \A y \in S \ {x} : Less(x, y)
<1>7. e \in S /\ P(e)
  <2>1. e \in S /\ e.lib = a.lib /\ e.sym = b.sym /\ e.type = c.type /\ e.flags = h.flags
    BY <1>6
  <2>2. ASSUME NEW y \in S, y # e PROVE Less(e, y)
    <3>1. CASE y.lib # a.lib
      BY <1>1, <1>3, <2>1, <3>1 DEF Less
    <3>2. CASE y.lib = a.lib /\ y.sym # b.sym
      BY <1>1, <1>4, <2>1, <3>2 DEF Less
    <3>3. CASE y.lib = a.lib /\ y.sym = b.sym /\ y.type # c.type
      BY <1>1, <1>5, <2>1, <3>3 DEF Less
    <3>5. CASE y.lib = a.lib /\ y.sym = b.sym /\ y.type = c.type /\ y.flags # h.flags
      <4>1. y \in F
        BY <3>5
      <4>2. h.flags >= y.flags /\ h.flags \in {0, 1} /\ y.flags \in {0, 1}
        BY <1>1, <1>9, <4>1
      <4> HIDE DEF F
      <4> QED BY <2>1, <3>5, <4>2 DEF Less
    <3>4. CASE y.lib = a.lib /\ y.sym = b.sym /\ y.type = c.type /\ y.flags = h.flags
      <4>1. e.address <= y.address
        BY <1>6, <3>4
      <4>2. e.address # y.address
        BY <1>2, <2>1, <2>2, <3>4
      <4> QED BY <1>1, <2>1, <3>4, <4>1, <4>2 DEF Less
    <3> QED BY <3>1, <3>2, <3>3, <3>4, <3>5
  <2> QED BY <2>1, <2>2
<1> DEFINE it == CHOOSE x \in S : P(x)
<1>8. it \in S /\ P(it)
  <2> HIDE DEF P
  <2> QED BY <1>7
<1> QED BY <1>8, Zenon

\* Binds may be made past the end of a segment when one is right there.
FixupAtEnd == \E x \in input.info : \E s \in DOMAIN input.segs : x.address = input.segs[s].end
MayTouch == input.kind # "rebase" /\ FixupAtEnd

\* The decoder is at fixup x, in segment seg.
AtFixup(x, seg, off) ==
  /\ seg \in DOMAIN input.segs /\ off \in 0 .. Modulus - 1
  /\ Unsigned(input.segs[seg].start + off) = x.address
  /\ ~MayTouch => /\ input.segs[seg].start <= x.address
                  /\ x.address + PtrSize <= input.segs[seg].end

\* The loop before the first fixup, and after fixup x, with what is decoded
\* of the opcodes it has written.
AtStart(d) ==
  /\ todo = input.info /\ d = DecodeStart
  /\ cur = [start |-> 0, end |-> 0, type |-> 0, lib |-> -100, sym |-> -100,
            address |-> Modulus - 1, addend |-> 0]
After(x, d) ==
  /\ \A y \in todo : Less(x, y)
  /\ d.type = x.type /\ d.lib = x.lib /\ d.sym = x.sym /\ d.addend = x.addend
  /\ \E y \in input.info \ todo : y.sym = x.sym /\ y.flags = d.flags
  /\ cur.type = x.type /\ cur.lib = x.lib /\ cur.sym = x.sym /\ cur.addend = x.addend
  /\ Placed(d)
  /\ cur.start = input.segs[d.seg].start /\ cur.end = input.segs[d.seg].end
  /\ Unsigned(input.segs[d.seg].start + d.off) = x.address + PtrSize
  /\ cur.address = IF input.kind = "rebase" /\ x.address + PtrSize >= cur.end THEN 0
                                                                      ELSE x.address + PtrSize
  /\ ~MayTouch => cur.start <= x.address /\ x.address + PtrSize <= cur.end
LoopState(d) == AtStart(d) \/ \E x \in input.info : After(x, d)

\* Where the decoder is once it has read what MoveTo writes.
Jumps(it) == cur.address # it.address /\ (it.address < cur.start \/ it.address >= cur.end)
SegAfter(it, d) == IF Jumps(it) THEN findSegment(it.address) ELSE d.seg
OffAfter(it, d) ==
  IF Jumps(it) THEN it.address - input.segs[findSegment(it.address)].start
  ELSE IF cur.address = it.address THEN d.off
  ELSE Unsigned(d.off + Unsigned(it.address - cur.address))

\* The flags it has once it has read a SET_SYM, if there is one.
FlagsAfter(it, d) == IF input.kind = "bind" /\ cur.sym # it.sym THEN it.flags ELSE d.flags

\* What is known of a fixup and of a segment.
LEMMA FixupFacts ==
  ASSUME ImageOK(input), NEW x \in input.info
  PROVE  /\ x.address \in Nat /\ x.address > 0 /\ x.address + PtrSize < Modulus
         /\ x.type \in Nat /\ x.lib \in Int /\ x.lib >= -15 /\ x.sym \in Nat /\ x.flags \in {0, 1}
         /\ x.addend \in Int
         /\ x = [type |-> x.type, lib |-> x.lib, sym |-> x.sym, flags |-> x.flags, addend |-> x.addend,
                 address |-> x.address]
         /\ input.kind = "rebase" => x.lib = 0 /\ x.sym = 0 /\ x.flags = 0 /\ x.addend = 0
<1>1. /\ x \in [type : Nat, lib : Int, sym : Nat, flags : {0, 1}, address : Nat, addend : Int]
      /\ x.address > 0 /\ x.lib >= -15
      /\ input.kind = "rebase" => x.lib = 0 /\ x.sym = 0 /\ x.flags = 0 /\ x.addend = 0
      /\ \E s \in DOMAIN input.segs :
           input.segs[s].start <= x.address /\ x.address + PtrSize <= input.segs[s].end
  BY Zenon DEF ImageOK, FixupOK
<1>2. PICK s \in DOMAIN input.segs : x.address + PtrSize <= input.segs[s].end
  BY <1>1
<1>3. input.segs[s].end \in Nat /\ input.segs[s].end < Modulus
  BY DEF ImageOK
<1>4. x.address + PtrSize < Modulus
  BY <1>1, <1>2, <1>3, SizesAssumption
<1> QED BY <1>1, <1>4

LEMMA SegmentFacts ==
  ASSUME ImageOK(input), NEW s \in DOMAIN input.segs
  PROVE  /\ input.segs[s].start \in Nat /\ input.segs[s].end \in Nat /\ input.segs[s].vmend \in Nat
         /\ input.segs[s].end <= input.segs[s].vmend /\ input.segs[s].end < Modulus
BY DEF ImageOK

\* It is at the fixup.
LEMMA MoveLands ==
  ASSUME ImageOK(input), NEW it \in input.info, it \in todo, NEW d, LoopState(d)
  PROVE  AtFixup(it, SegAfter(it, d), OffAfter(it, d))
<1> DEFINE a == it.address
           s == findSegment(a)
           segs == input.segs
<1>1. a \in Nat /\ a > 0 /\ a + PtrSize < Modulus /\ PtrSize \in Nat /\ PtrSize > 0 /\ Modulus \in Nat
  BY FixupFacts, SizesAssumption
<1>2. /\ s \in DOMAIN segs /\ segs[s].start <= a /\ a + PtrSize <= segs[s].end
      /\ \A t \in DOMAIN segs : segs[t].start <= a /\ a < segs[t].end => t = s
  BY SegmentFound
<1> HIDE DEF s
<1>3. CASE Jumps(it)
  <2>1. SegAfter(it, d) = s /\ OffAfter(it, d) = a - segs[s].start
    BY <1>3 DEF SegAfter, OffAfter, s
  <2>2. segs[s].start \in Nat
    BY <1>2, SegmentFacts
  <2>3. a - segs[s].start \in 0 .. Modulus - 1 /\ segs[s].start + (a - segs[s].start) = a
    BY <1>1, <1>2, <2>2
  <2>4. Unsigned(a) = a
    <3>1. a \in Int /\ a \in 0 .. Modulus - 1
      BY <1>1
    <3> QED BY <3>1, UnsignedType
  <2> QED BY <1>2, <2>1, <2>3, <2>4 DEF AtFixup
<1>4. CASE ~Jumps(it)
  <2>0. SegAfter(it, d) = d.seg
    BY <1>4 DEF SegAfter
  <2>1. ~AtStart(d)
    <3> SUFFICES ASSUME AtStart(d) PROVE FALSE
      OBVIOUS
    <3>1. cur.address = Modulus - 1 /\ cur.end = 0
      BY DEF AtStart
    <3> QED BY <1>1, <1>4, <3>1 DEF Jumps
  <2>2. PICK x \in input.info : After(x, d)
    BY <2>1 DEF LoopState
  <2>3. Less(x, it)
    BY <2>2 DEF After
  <2> DEFINE g == d.seg
             st == segs[g].start
             en == segs[g].end
  <2>4. /\ g \in DOMAIN segs /\ d.off \in 0 .. Modulus - 1 /\ cur.start = st /\ cur.end = en
        /\ Unsigned(st + d.off) = x.address + PtrSize
        /\ cur.address = IF input.kind = "rebase" /\ x.address + PtrSize >= en THEN 0
                                                                       ELSE x.address + PtrSize
        /\ ~MayTouch => st <= x.address /\ x.address + PtrSize <= en
    BY <2>2 DEF After, Placed
  <2>5. st \in Nat /\ en \in Nat /\ x.address \in Nat
    BY <2>4, SegmentFacts, FixupFacts
  <2> HIDE DEF g
  <2>6. CASE cur.address = a
    <3>1. OffAfter(it, d) = d.off
      BY <1>4, <2>6 DEF OffAfter
    <3>2. a = x.address + PtrSize /\ (input.kind = "rebase" => a < en)
      BY <1>1, <2>4, <2>5, <2>6
    <3>3. ASSUME ~MayTouch PROVE st <= a /\ a + PtrSize <= en
      <4>1. st <= a /\ a <= en
        BY <1>1, <2>4, <2>5, <3>2, <3>3
      <4>2. a # en
        <5>1. CASE input.kind = "rebase"
          BY <1>1, <2>5, <3>2, <5>1
        <5>2. CASE ~FixupAtEnd
          BY <2>4, <5>2 DEF FixupAtEnd
        <5> QED BY <3>3, <5>1, <5>2 DEF MayTouch
      <4>3. g = s
        BY <1>1, <1>2, <2>4, <2>5, <4>1, <4>2
      <4> QED BY <1>2, <4>3
    <3> QED BY <2>0, <2>4, <3>1, <3>2, <3>3 DEF AtFixup, g
  <2>7. CASE cur.address # a
    <3>1. st <= a /\ a < en
      BY <1>1, <1>4, <2>4, <2>5, <2>7 DEF Jumps
    <3>2. g = s
      BY <1>2, <2>4, <3>1
    <3>3. st <= a /\ a + PtrSize <= en
      BY <1>2, <3>2
    <3>4. cur.address = x.address + PtrSize
      <4> SUFFICES ASSUME input.kind = "rebase", x.address + PtrSize >= en PROVE FALSE
        BY <2>4
      <4>1. st <= x.address /\ x.address + PtrSize <= en
        BY <2>4 DEF MayTouch
      <4>2. {x.address, it.address} \subseteq st .. en - 1
        BY <1>1, <2>5, <3>1, <4>1
      <4>3. x.type = it.type
        BY <2>4, <4>2 DEF ImageOK
      <4>4. x.lib = 0 /\ x.sym = 0 /\ it.lib = 0 /\ it.sym = 0 /\ x.type \in Nat
            /\ x.flags = 0 /\ it.flags = 0
        BY FixupFacts
      <4>5. x.address < a
        BY <2>3, <4>3, <4>4 DEF Less
      <4> QED BY <1>1, <2>5, <3>3, <4>5
    <3> DEFINE c == x.address + PtrSize
               m == Unsigned(a - c)
    <3>5. OffAfter(it, d) = Unsigned(d.off + m)
      BY <1>4, <2>7, <3>4 DEF OffAfter
    <3>6. c \in Int /\ a - c \in Int /\ d.off \in Int /\ st \in Int /\ d.off + (a - c) \in Int
      BY <1>1, <2>4, <2>5
    <3>7. Unsigned(d.off + m) = Unsigned(d.off + (a - c))
      <4> DEFINE u == a - c
      <4>1. u \in Int /\ d.off \in Int
        BY <3>6
      <4> HIDE DEF u
      <4>2. Unsigned(d.off + Unsigned(u)) = Unsigned(d.off + u)
        BY <4>1, UnsignedSum
      <4> QED BY <4>2 DEF u
    <3> DEFINE v == d.off + (a - c)
               w == st + d.off
    <3>8. v \in Int /\ st + v = w + (a - c) /\ c + (a - c) = a /\ w \in Int
      BY <1>1, <3>6
    <3>9. Unsigned(st + Unsigned(v)) = a
      <4>1. Unsigned(st + Unsigned(v)) = Unsigned(st + v)
        <5> HIDE DEF v
        <5> QED BY <3>6, <3>8, UnsignedSum
      <4>2. Unsigned(Unsigned(w) + (a - c)) = Unsigned(w + (a - c))
        <5> DEFINE u == a - c
        <5>1. u \in Int /\ w \in Int
          BY <3>6, <3>8
        <5> HIDE DEF u, w
        <5>2. Unsigned(Unsigned(w) + u) = Unsigned(w + u)
          BY <5>1, UnsignedSum
        <5> QED BY <5>2 DEF u
      <4>3. Unsigned(w) = c
        BY <2>4
      <4>4. Unsigned(a) = a
        <5>1. a \in Int /\ a \in 0 .. Modulus - 1
          BY <1>1
        <5> QED BY <5>1, UnsignedType
      <4> HIDE DEF v, w, c
      <4> QED BY <3>8, <4>1, <4>2, <4>3, <4>4
    <3>10. Unsigned(v) \in 0 .. Modulus - 1
      BY <3>8, UnsignedType
    <3> QED BY <2>0, <2>4, <3>3, <3>5, <3>7, <3>9, <3>10 DEF AtFixup, g
  <2> QED BY <2>6, <2>7
<1> QED BY <1>3, <1>4

\* Before the fixup itself the decoder has all of it.
LEMMA DecodedFixup ==
  ASSUME ImageOK(input), NEW it \in input.info, it \in todo, NEW ops, FirstOps(ops),
         LoopState(Decoded(ops))
  PROVE  LET new == ops
                      \o When(input.kind = "bind" /\ cur.lib # it.lib, Op("SET_LIB", it.lib, 0))
                      \o When(input.kind = "bind" /\ cur.sym # it.sym, Op("SET_SYM", it.sym, it.flags))
                      \o When(cur.type # it.type, Op("SET_TYPE", it.type, 0))
                      \o MoveTo(it)
                      \o When(cur.addend # it.addend, Op("SET_ADDEND", it.addend, 0))
                      \o <<Op("DO", 1, 0)>>
             d == Decoded(ops)
         IN  /\ FirstOps(new)
             /\ Decoded(new) = Fix(State(SegAfter(it, d), OffAfter(it, d), it.type, it.lib, it.sym,
                                         FlagsAfter(it, d), it.addend, d.found, d.count, d.bad), 1, 0)
<1> DEFINE d == Decoded(ops)
           sg == SegAfter(it, d)
           of == OffAfter(it, d)
           fl == FlagsAfter(it, d)
           c1 == input.kind = "bind" /\ cur.lib # it.lib
           c2 == input.kind = "bind" /\ cur.sym # it.sym
           c3 == cur.type # it.type
           c5 == cur.addend # it.addend
           o1 == Op("SET_LIB", it.lib, 0)
           o2 == Op("SET_SYM", it.sym, it.flags)
           o3 == Op("SET_TYPE", it.type, 0)
           o5 == Op("SET_ADDEND", it.addend, 0)
           n1 == ops \o When(c1, o1)
           n2 == n1 \o When(c2, o2)
           n3 == n2 \o When(c3, o3)
           c4 == cur.address # it.address
           s == findSegment(it.address)
           o4 == IF Jumps(it) THEN Op("SET_SEGMENT", s, it.address - input.segs[s].start)
                              ELSE Op("ADD_ADDR", Unsigned(it.address - cur.address), 0)
           o6 == Op("DO", 1, 0)
           n4 == n3 \o When(c4, o4)
           n5 == n4 \o When(c5, o5)
           n6 == n5 \o When(TRUE, o6)
<1>1. IsState(d)
  BY DecodedState
<1>2. /\ it.type \in Nat /\ it.lib \in Int /\ it.lib >= -15 /\ it.sym \in Nat /\ it.addend \in Int
      /\ it.flags \in Int /\ it.address \in Nat
      /\ input.kind = "rebase" => it.lib = 0 /\ it.sym = 0
      /\ input.kind \in {"rebase", "bind"}
  BY FixupFacts DEF ImageOK
<1>3. /\ FirstOp(o1) /\ FirstOp(o2) /\ FirstOp(o3) /\ FirstOp(o5)
      /\ ~Fixes(o1) /\ ~Fixes(o2) /\ ~Fixes(o3) /\ ~Fixes(o5)
  BY <1>2 DEF FirstOp, OpOK, Op, PlainOps, SettingOps, Fixes
<1>4. AtFixup(it, sg, of)
  BY MoveLands
<1>5. /\ c1 \/ d.lib = it.lib
      /\ c2 \/ d.sym = it.sym
      /\ c3 \/ d.type = it.type
      /\ c5 \/ d.addend = it.addend
  <2>1. CASE AtStart(d)
    BY <1>2, <2>1 DEF AtStart, DecodeStart
  <2>2. CASE \E x \in input.info : After(x, d)
    <3>1. PICK x \in input.info : After(x, d)
      BY <2>2
    <3>2. input.kind = "rebase" => x.lib = 0 /\ x.sym = 0
      BY FixupFacts
    <3>3. /\ d.type = x.type /\ d.lib = x.lib /\ d.sym = x.sym /\ d.addend = x.addend
          /\ cur.type = x.type /\ cur.lib = x.lib /\ cur.sym = x.sym /\ cur.addend = x.addend
      BY <3>1, Zenon DEF After
    <3> QED BY <1>2, <3>2, <3>3
  <2> QED BY <2>1, <2>2 DEF LoopState
<1>6. MoveTo(it) = When(c4, o4) /\ <<o6>> = When(TRUE, o6)
  BY DEF MoveTo, When, Jumps
<1>7. FirstOp(o4) /\ ~Fixes(o4)
  <2>1. CASE Jumps(it)
    <3>1. s \in DOMAIN input.segs
      BY SegmentFound
    <3>2. s \in Int /\ input.segs[s].start \in Int
      BY <3>1, SegmentFacts DEF ImageOK
    <3> HIDE DEF s
    <3> QED BY <1>2, <2>1, <3>2 DEF FirstOp, OpOK, Op, PlainOps, SettingOps, Fixes
  <2>2. CASE ~Jumps(it)
    <3>0. cur.address \in Int
      <4>1. CASE AtStart(d)
        BY <4>1, SizesAssumption DEF AtStart
      <4>2. CASE \E x \in input.info : After(x, d)
        <5>1. PICK x \in input.info : After(x, d)
          BY <4>2
        <5>2. x.address \in Nat
          BY FixupFacts
        <5>3. cur.address = 0 \/ cur.address = x.address + PtrSize
          BY <5>1 DEF After
        <5> QED BY <5>2, <5>3, SizesAssumption
      <4> QED BY <4>1, <4>2 DEF LoopState
    <3>1. Unsigned(it.address - cur.address) \in Int
      <4> DEFINE u == it.address - cur.address
      <4>1. u \in Int
        BY <1>2, <3>0
      <4> HIDE DEF u
      <4>2. Unsigned(u) \in 0 .. Modulus - 1
        BY <4>1, UnsignedType
      <4> QED BY <4>2, SizesAssumption DEF u
    <3> QED BY <2>2, <3>1 DEF FirstOp, OpOK, Op, PlainOps, Fixes
  <2> QED BY <2>1, <2>2
<1>8. FirstOp(o6) /\ c1 \in BOOLEAN /\ c2 \in BOOLEAN /\ c3 \in BOOLEAN /\ c4 \in BOOLEAN /\ c5 \in BOOLEAN
  BY DEF FirstOp, OpOK, Op, PlainOps
<1> DEFINE d0 == State(d.seg, d.off, d.type, d.lib, d.sym, d.flags, d.addend, d.found, d.count, d.bad)
           d1 == State(d.seg, d.off, d.type, it.lib, d.sym, d.flags, d.addend, d.found, d.count, d.bad)
           d2 == State(d.seg, d.off, d.type, it.lib, it.sym, fl, d.addend, d.found, d.count, d.bad)
           d3 == State(d.seg, d.off, it.type, it.lib, it.sym, fl, d.addend, d.found, d.count, d.bad)
           d4 == State(sg, of, it.type, it.lib, it.sym, fl, d.addend, d.found, d.count, d.bad)
           d5 == State(sg, of, it.type, it.lib, it.sym, fl, it.addend, d.found, d.count, d.bad)
<1>9. d = d0
  BY <1>1 DEF IsState, State
<1>10. (c4 => DecodeStep(d3, o4) = d4) /\ (~c4 => d3 = d4)
  <2>1. CASE Jumps(it)
    <3> DEFINE f == it.address - input.segs[s].start
    <3>1. o4 = Op("SET_SEGMENT", s, f) /\ sg = s /\ of = f /\ c4
      BY <2>1 DEF SegAfter, OffAfter, Jumps
    <3> HIDE DEF d, sg, of, o4, s, f, c4, fl
    <3>2. DecodeStep(d3, Op("SET_SEGMENT", s, f))
            = State(s, f, it.type, it.lib, it.sym, fl, d.addend, d.found, d.count, d.bad)
      BY DEF DecodeStep, Op, State
    <3> QED BY <3>1, <3>2
  <2>2. CASE ~Jumps(it) /\ c4
    <3> DEFINE m == Unsigned(it.address - cur.address)
               u == Unsigned(d.off + m)
    <3>1. o4 = Op("ADD_ADDR", m, 0) /\ sg = d.seg /\ of = u
      BY <2>2 DEF SegAfter, OffAfter
    <3> HIDE DEF d, sg, of, o4, m, fl
    <3>2. DecodeStep(d3, Op("ADD_ADDR", m, 0)) = [d3 EXCEPT !.off = Unsigned(@ + m)]
      BY DEF DecodeStep, Op
    <3>3. d3.off = d.off
      BY DEF State
    <3>4. [d3 EXCEPT !.off = Unsigned(@ + m)] = [d3 EXCEPT !.off = u]
      BY <3>3, Zenon
    <3> HIDE DEF u
    <3>5. [d3 EXCEPT !.off = u]
            = State(d.seg, u, it.type, it.lib, it.sym, fl, d.addend, d.found, d.count, d.bad)
      BY DEF State
    <3> QED BY <2>2, <3>1, <3>2, <3>4, <3>5
  <2>3. CASE ~c4
    <3>1. sg = d.seg /\ of = d.off
      BY <2>3 DEF SegAfter, OffAfter, Jumps
    <3> QED BY <2>3, <3>1
  <2> QED BY <2>1, <2>2, <2>3
<1>24. (c2 => fl = it.flags) /\ (~c2 => fl = d.flags)
  BY DEF FlagsAfter
<1> HIDE DEF d, sg, of, fl, o4, c4, s
<1>11. DecodeStep(d0, o1) = d1
  BY DEF DecodeStep, Op, State
<1>12. c2 => DecodeStep(d1, o2) = d2
  <2>1. DecodeStep(d1, o2)
          = State(d.seg, d.off, d.type, it.lib, it.sym, it.flags, d.addend, d.found, d.count, d.bad)
    BY DEF DecodeStep, Op, State
  <2> QED BY <1>24, <2>1, Zenon
<1>13. DecodeStep(d2, o3) = d3
  BY DEF DecodeStep, Op, State
<1>14. DecodeStep(d4, o5) = d5
  BY DEF DecodeStep, Op, State
<1>15. /\ ~c1 => d0 = d1
       /\ ~c2 => d1 = d2
       /\ ~c3 => d2 = d3
       /\ ~c5 => d4 = d5
  BY <1>5, <1>24, Zenon
<1>16. Placed(d5) /\ \A x : DecodeStep(x, o6) = Fix(x, 1, 0)
  BY <1>4 DEF Placed, AtFixup, State, DecodeStep, Op
<1> HIDE DEF c1, c2, c3, c5, d0, d1, d2, d3, d4, d5, o1, o2, o3, o5, o6
<1>17. FirstOps(n1) /\ Decoded(n1) = d1
  BY <1>3, <1>8, <1>9, <1>11, <1>15, DecodedWhen DEF d
<1> HIDE DEF n1
<1>18. FirstOps(n2) /\ Decoded(n2) = d2
  BY <1>3, <1>8, <1>12, <1>15, <1>17, DecodedWhen
<1> HIDE DEF n2
<1>19. FirstOps(n3) /\ Decoded(n3) = d3
  BY <1>3, <1>8, <1>13, <1>15, <1>18, DecodedWhen
<1> HIDE DEF n3
<1>20. FirstOps(n4) /\ Decoded(n4) = d4
  BY <1>7, <1>8, <1>10, <1>19, DecodedWhen
<1> HIDE DEF n4
<1>21. FirstOps(n5) /\ Decoded(n5) = d5
  BY <1>3, <1>8, <1>14, <1>15, <1>20, DecodedWhen
<1> HIDE DEF n5
<1>22. FirstOps(n6) /\ Decoded(n6) = Fix(d5, 1, 0)
  BY <1>8, <1>16, <1>21, DecodedWhen
<1> HIDE DEF n6
<1>23. n6 = ((((((ops \o When(c1, o1)) \o When(c2, o2)) \o When(c3, o3)) \o MoveTo(it))
                  \o When(c5, o5)) \o <<o6>>)
  BY <1>6, Zenon DEF n6, n5, n4, n3, n2, n1
<1> QED BY <1>22, <1>23, Zenon DEF c1, c2, c3, c5, o1, o2, o3, o5, o6, d5, sg, of, fl, d

\* The loop is in the segment the decoder is in.
LEMMA LoopSegment ==
  ASSUME ImageOK(input), NEW it \in input.info, it \in todo, NEW d, LoopState(d)
  PROVE  /\ InSegment(it).start = input.segs[SegAfter(it, d)].start
         /\ InSegment(it).end = input.segs[SegAfter(it, d)].end
<1>1. CASE Jumps(it)
  BY <1>1 DEF InSegment, SegAfter, Jumps
<1>2. CASE ~Jumps(it)
  <2>1. ~AtStart(d)
    <3> SUFFICES ASSUME AtStart(d) PROVE FALSE
      OBVIOUS
    <3>1. cur.address = Modulus - 1 /\ cur.end = 0
      BY DEF AtStart
    <3>2. it.address \in Nat /\ it.address + PtrSize < Modulus
      BY FixupFacts
    <3> QED BY <1>2, <3>1, <3>2, SizesAssumption DEF Jumps
  <2>2. PICK x \in input.info : After(x, d)
    BY <2>1 DEF LoopState
  <2>3. cur.start = input.segs[d.seg].start /\ cur.end = input.segs[d.seg].end
    BY <2>2, Zenon DEF After
  <2>4. InSegment(it) = [start |-> cur.start, end |-> cur.end] /\ SegAfter(it, d) = d.seg
    BY <1>2, Zenon DEF InSegment, SegAfter, Jumps
  <2> QED BY <2>3, <2>4
<1> QED BY <1>1, <1>2

\* A fixup is made where it was asked for.
Labelled(it, fl) == [type |-> it.type, lib |-> it.lib, sym |-> it.sym, flags |-> fl,
                     addend |-> it.addend, address |-> it.address]
Made(it, seg, fl, f, c, b, d) ==
  /\ d.seg = seg /\ d.off \in 0 .. Modulus - 1
  /\ Unsigned(input.segs[seg].start + d.off) = it.address + PtrSize
  /\ d.type = it.type /\ d.lib = it.lib /\ d.sym = it.sym /\ d.addend = it.addend
  /\ d.flags = fl /\ d.found = f \cup {Labelled(it, fl)} /\ d.count = c + 1 /\ (~MayTouch => d.bad = b)

LEMMA FixOne ==
  ASSUME ImageOK(input), NEW it \in input.info, NEW seg, NEW off, AtFixup(it, seg, off),
         NEW fl, NEW f, NEW c \in Int, NEW b \in BOOLEAN
  PROVE  Made(it, seg, fl, f, c, b,
              Fix(State(seg, off, it.type, it.lib, it.sym, fl, it.addend, f, c, b), 1, 0))
<1> DEFINE e == State(seg, off, it.type, it.lib, it.sym, fl, it.addend, f, c, b)
           st == input.segs[seg].start
           w == 1 * (PtrSize + 0)
           u == Unsigned(off + w)
           ff == e.found \cup {Found(e, FixAddress(e, k, 0)) : k \in 0 .. (1 - 1)}
           bb == (e.bad \/ \E k \in 0 .. (1 - 1) : Outside(e, FixAddress(e, k, 0)))
           d == Fix(e, 1, 0)
<1>1. IsState(e) /\ e.seg = seg /\ e.off = off /\ e.found = f /\ e.count = c /\ e.bad = b
      /\ e.type = it.type /\ e.lib = it.lib /\ e.sym = it.sym /\ e.addend = it.addend
      /\ e.flags = fl
  BY DEF IsState, State
<1>2. /\ seg \in DOMAIN input.segs /\ off \in 0 .. Modulus - 1 /\ Unsigned(st + off) = it.address
      /\ ~MayTouch => st <= it.address /\ it.address + PtrSize <= input.segs[seg].end
  BY Zenon DEF AtFixup
<1>3. /\ st \in Nat /\ input.segs[seg].end \in Nat /\ input.segs[seg].vmend \in Nat
      /\ input.segs[seg].end <= input.segs[seg].vmend
  BY <1>2, SegmentFacts
<1>4. it.address \in Nat /\ it.address + PtrSize < Modulus
  BY FixupFacts
<1>5. Modulus \in Nat /\ PtrSize \in Nat /\ PtrSize > 0 /\ w = PtrSize /\ off \in Int /\ off + w \in Int
  BY <1>2, SizesAssumption
<1> HIDE DEF e
<1>6. d = [seg |-> e.seg, off |-> Unsigned(e.off + w), type |-> e.type, lib |-> e.lib, sym |-> e.sym, flags |-> e.flags,
           addend |-> e.addend, found |-> ff, count |-> e.count + 1, bad |-> bb]
  BY <1>1, FixShape, Zenon
<1>7. \A k \in 0 .. (1 - 1) : FixAddress(e, k, 0) = it.address
  <2> SUFFICES ASSUME NEW k \in 0 .. (1 - 1) PROVE FixAddress(e, k, 0) = it.address
    OBVIOUS
  <2>1. k * (PtrSize + 0) = 0 /\ (st + off) + 0 = st + off
    BY <1>3, <1>5
  <2>2. FixAddress(e, k, 0) = Unsigned((st + off) + k * (PtrSize + 0))
    BY <1>1 DEF FixAddress
  <2> QED BY <1>2, <2>1, <2>2
<1>8. ff = f \cup {Labelled(it, fl)}
  <2>1. Found(e, it.address) = Labelled(it, fl)
    BY <1>1, Zenon DEF Found, Labelled
  <2>2. 0 \in 0 .. (1 - 1)
    OBVIOUS
  <2>3. {Found(e, FixAddress(e, k, 0)) : k \in 0 .. (1 - 1)} = {Labelled(it, fl)}
    BY <1>7, <2>1, <2>2
  <2> QED BY <1>1, <2>3
<1>9. ~MayTouch => bb = b
  <2> SUFFICES ASSUME ~MayTouch PROVE bb = b
    OBVIOUS
  <2>1. ~Outside(e, it.address)
    <3>1. st <= it.address /\ it.address + PtrSize <= input.segs[seg].end
      BY <1>2
    <3> QED BY <1>1, <1>3, <1>4, <1>5, <3>1 DEF Outside
  <2> QED BY <1>1, <1>7, <2>1
<1>10. u \in 0 .. Modulus - 1 /\ Unsigned(st + u) = it.address + PtrSize
  <2> DEFINE v == off + w
             z == st + off
  <2>1. v \in Int /\ st \in Int /\ st + v = z + PtrSize /\ z \in Int
    BY <1>3, <1>5
  <2>2. Unsigned(z) = it.address
    BY <1>2
  <2>3. it.address + PtrSize \in Int /\ it.address + PtrSize \in 0 .. Modulus - 1
    BY <1>4, <1>5
  <2> HIDE DEF v, z
  <2>4. u = Unsigned(v)
    BY DEF v
  <2> HIDE DEF u
  <2>5. Unsigned(v) \in 0 .. Modulus - 1
    BY <2>1, UnsignedType
  <2>6. Unsigned(st + Unsigned(v)) = Unsigned(st + v)
    BY <2>1, UnsignedSum
  <2>7. Unsigned(Unsigned(z) + PtrSize) = Unsigned(z + PtrSize)
    BY <1>5, <2>1, UnsignedSum
  <2>8. Unsigned(it.address + PtrSize) = it.address + PtrSize
    BY <2>3, UnsignedType
  <2> QED BY <2>1, <2>2, <2>4, <2>5, <2>6, <2>7, <2>8
<1>11. e.off + w = off + w
  BY <1>1
<1> HIDE DEF d, ff, bb, u
<1>12. d = [seg |-> seg, off |-> u, type |-> it.type, lib |-> it.lib, sym |-> it.sym,
            flags |-> fl, addend |-> it.addend, found |-> ff, count |-> c + 1, bad |-> bb]
  BY <1>1, <1>6, <1>11, Zenon DEF u
<1>13. /\ d.seg = seg /\ d.off = u /\ d.type = it.type /\ d.lib = it.lib /\ d.sym = it.sym
       /\ d.flags = fl /\ d.addend = it.addend /\ d.found = ff /\ d.count = c + 1 /\ d.bad = bb
  BY <1>12
<1>14. Made(it, seg, fl, f, c, b, d)
  BY <1>8, <1>9, <1>10, <1>13 DEF Made
<1> QED BY <1>14, Zenon DEF d, e

-----------------------------------------------------------------------------
(***************************************************************************)
(* The invariant.                                                          *)
(***************************************************************************)

\* What is decoded is what the loop has reached.
Says(d) ==
  /\ {Bare(x) : x \in d.found} = {Bare(x) : x \in input.info \ todo}
  /\ d.count = Cardinality(input.info \ todo)
  /\ \A x \in d.found : \E y \in input.info \ todo : y.sym = x.sym /\ y.flags = x.flags
  /\ ~MayTouch => ~d.bad

\* The opcodes can be read and say what was asked for so far; in the first
\* loop, its variables are what the decoder has after the last fixup.
Inv ==
  /\ Kinds /\ Readable(Opcodes) /\ todo \subseteq input.info
  /\ Says(Decoded(Opcodes))
  /\ phase = "fixups" => LoopState(Decoded(Opcodes))

LEMMA InvInit == Init => Inv
<1> SUFFICES ASSUME Init PROVE Inv
  OBVIOUS
<1>1. /\ input \in Inputs /\ phase = "fixups" /\ todo = input.info
      /\ mid = <<>> /\ src = 1 /\ out = <<>>
      /\ cur = [start |-> 0, end |-> 0, type |-> 0, lib |-> -100, sym |-> -100,
                address |-> Modulus - 1, addend |-> 0]
  BY Zenon DEF Init
<1>2. IsSeq(<<>>) /\ Len(<<>>) = 0 /\ DOMAIN <<>> = 1 .. 0
  <2>1. <<>> \in Seq({}) /\ Len(<<>>) = 0
    OBVIOUS
  <2>2. IsSeq(<<>>)
    BY <2>1, SeqIs
  <2> QED BY <2>1, <2>2, SeqLen
<1>3. Opcodes = <<>>
  <2>1. Joined(<<>>, <<>>, 1) = <<>>
    BY <1>2, JoinedWhole
  <2> QED BY <1>1, <2>1, Zenon DEF Opcodes, Joined
<1>4. Kinds
  BY <1>1, <1>2 DEF Kinds
<1>5. PICK d : Run(<<>>, d)
  BY <1>2, RunExists
<1>6. d[0] = DecodeStart
  <2>1. \A i \in 0 .. Len(<<>>) : d[i] = IF i = 0 THEN DecodeStart ELSE DecodeStep(d[i - 1], <<>>[i])
    BY <1>5, Zenon DEF Run
  <2>2. 0 \in 0 .. Len(<<>>)
    BY <1>2
  <2> QED BY <2>1, <2>2
<1>7. Decoded(<<>>) = DecodeStart
  BY <1>2, <1>5, <1>6, RunDecoded
<1>8. Readable(<<>>)
  BY <1>2, <1>5 DEF Readable, Reads
<1>9. Says(DecodeStart)
  <2>1. input.info \ todo = {} /\ Cardinality({}) = 0
    BY <1>1, FS_EmptySet
  <2> QED BY <2>1 DEF Says, DecodeStart
<1>10. LoopState(DecodeStart)
  BY <1>1 DEF LoopState, AtStart
<1> QED BY <1>1, <1>3, <1>4, <1>7, <1>8, <1>9, <1>10 DEF Inv

LEMMA InvFixup ==
  ASSUME Inv, EncodeFixup
  PROVE  Inv'
<1>0. PICK it : it = CHOOSE x \in todo : \A y \in todo \ {x} : Less(x, y)
  OBVIOUS
<1> DEFINE new == mid
              \o When(input.kind = "bind" /\ cur.lib # it.lib, Op("SET_LIB", it.lib, 0))
              \o When(input.kind = "bind" /\ cur.sym # it.sym, Op("SET_SYM", it.sym, it.flags))
              \o When(cur.type # it.type, Op("SET_TYPE", it.type, 0))
              \o MoveTo(it)
              \o When(cur.addend # it.addend, Op("SET_ADDEND", it.addend, 0))
              \o <<Op("DO", 1, 0)>>
           d == Decoded(mid)
           sg == SegAfter(it, d)
           of == OffAfter(it, d)
           fl == FlagsAfter(it, d)
           e == Fix(State(sg, of, it.type, it.lib, it.sym, fl, it.addend, d.found, d.count, d.bad), 1, 0)
<1>1. /\ phase = "fixups" /\ todo # {} /\ mid' = new /\ todo' = todo \ {it}
      /\ cur' = [start |-> InSegment(it).start, end |-> InSegment(it).end, type |-> it.type,
                 lib |-> it.lib, sym |-> it.sym, address |-> NextAddress(it),
                 addend |-> it.addend]
      /\ UNCHANGED <<input, phase, src, out>>
  BY <1>0, Zenon DEF EncodeFixup
<1>2. /\ Kinds /\ Readable(Opcodes) /\ todo \subseteq input.info
      /\ Says(Decoded(Opcodes)) /\ LoopState(Decoded(Opcodes))
  BY <1>1 DEF Inv
<1>3. src = 1 /\ out = <<>> /\ IsSeq(mid) /\ input \in Inputs
  BY <1>1, <1>2 DEF Kinds
<1>4. ImageOK(input)
  BY <1>3, InputsAssumption
<1>5. Opcodes = mid
  <2>1. Opcodes = Joined(<<>>, mid, 1)
    BY <1>3, Zenon DEF Opcodes, Joined
  <2> QED BY <1>3, <2>1, JoinedWhole
<1>6. it \in todo /\ it \in input.info /\ \A y \in todo \ {it} : Less(it, y)
  <2>1. todo \in SUBSET input.info /\ todo # {}
    BY <1>1, <1>2
  <2>2. LET x0 == CHOOSE x \in todo : \A y \in todo \ {x} : Less(x, y)
        IN  x0 \in todo /\ \A y \in todo \ {x0} : Less(x0, y)
    BY <1>4, <2>1, NextFixup, Zenon
  <2>3. it \in todo /\ \A y \in todo \ {it} : Less(it, y)
    BY <1>0, <2>2, Zenon
  <2> QED BY <2>1, <2>3
<1>7. FirstOps(mid) /\ LoopState(d) /\ Says(d)
  BY <1>1, <1>2, <1>5 DEF FirstOps, Kinds
<1>8. FirstOps(new) /\ Decoded(new) = e
  BY <1>4, <1>6, <1>7, DecodedFixup, Zenon
<1> HIDE DEF new
<1>9. AtFixup(it, sg, of)
  BY <1>4, <1>6, <1>7, MoveLands
<1>10. d.count \in Int /\ d.bad \in BOOLEAN
  BY <1>7, DecodedState DEF IsState
<1>11. InSegment(it).start = input.segs[sg].start /\ InSegment(it).end = input.segs[sg].end
  BY <1>4, <1>6, <1>7, LoopSegment
<1>22. \E y \in input.info \ (todo \ {it}) : y.sym = it.sym /\ y.flags = fl
  <2>1. it \in input.info \ (todo \ {it})
    BY <1>6
  <2>2. CASE input.kind = "bind" /\ cur.sym # it.sym
    BY <2>1, <2>2 DEF FlagsAfter
  <2>3. CASE ~(input.kind = "bind" /\ cur.sym # it.sym)
    <3>1. fl = d.flags
      BY <2>3 DEF FlagsAfter
    <3>2. /\ it.sym \in Nat /\ (input.kind = "rebase" => it.sym = 0 /\ it.flags = 0)
          /\ input.kind \in {"rebase", "bind"}
      BY <1>4, <1>6, FixupFacts DEF ImageOK
    <3>3. CASE AtStart(d)
      <4>1. cur.sym = -100 /\ d.flags = 0
        BY <3>3 DEF AtStart, DecodeStart
      <4> QED BY <2>1, <2>3, <3>1, <3>2, <4>1
    <3>4. CASE \E x \in input.info : After(x, d)
      <4>1. PICK x \in input.info : After(x, d)
        BY <3>4
      <4>2. PICK y \in input.info \ todo : y.sym = x.sym /\ y.flags = d.flags
        BY <4>1, Zenon DEF After
      <4>3. cur.sym = x.sym
        BY <4>1, Zenon DEF After
      <4>4. input.kind = "rebase" => x.sym = 0
        BY <1>4, FixupFacts
      <4>5. x.sym = it.sym
        BY <2>3, <3>2, <4>3, <4>4
      <4> QED BY <3>1, <4>2, <4>5
    <3> QED BY <1>7, <3>3, <3>4 DEF LoopState
  <2> QED BY <2>2, <2>3
<1> HIDE DEF d, sg, of, fl
<1> DEFINE f == d.found
           c == d.count
           b == d.bad
<1> HIDE DEF f, c, b
<1>12. /\ e.seg = sg /\ e.off \in 0 .. Modulus - 1
       /\ Unsigned(input.segs[sg].start + e.off) = it.address + PtrSize
       /\ e.type = it.type /\ e.lib = it.lib /\ e.sym = it.sym /\ e.addend = it.addend
       /\ e.flags = fl /\ e.found = d.found \cup {Labelled(it, fl)} /\ e.count = d.count + 1 /\ (~MayTouch => e.bad = d.bad)
  <2> DEFINE g == Fix(State(sg, of, it.type, it.lib, it.sym, fl, it.addend, f, c, b), 1, 0)
  <2>1. c \in Int /\ b \in BOOLEAN
    BY <1>10 DEF c, b
  <2>2. Made(it, sg, fl, f, c, b, g)
    BY <1>4, <1>6, <1>9, <2>1, FixOne
  <2> QED BY <2>2, Zenon DEF f, c, b, Made
<1> HIDE DEF e
<1>13. Opcodes' = new
  <2>1. IsSeq(new)
    BY <1>8 DEF FirstOps, Readable
  <2>2. Opcodes' = Joined(<<>>, new, 1)
    BY <1>1, <1>3, Zenon DEF Opcodes, Joined
  <2> QED BY <2>1, <2>2, JoinedWhole
<1>14. Decoded(Opcodes)' = e /\ Readable(Opcodes)'
  <2>1. Decoded(Opcodes)' = Decoded(new) /\ (Readable(Opcodes)' <=> Readable(new))
    BY <1>1, <1>13, DecodedNext
  <2> QED BY <1>8, <2>1 DEF FirstOps
<1>15. Kinds'
  <2>1. IsSeq(new) /\ Len(new) \in Nat
    BY <1>8, SeqLen DEF FirstOps, Readable
  <2>2. \A i \in DOMAIN new : OpOK(new[i]) /\ new[i].op \in PlainOps /\ (new[i].op = "DO" => new[i].a = 1)
    BY <1>8 DEF FirstOps
  <2>3. IsSeq(out) /\ (\A i \in DOMAIN out : OpOK(out[i])) /\ \A i \in DOMAIN out : out[i].op \in PlainOps
    BY <1>1, <1>2 DEF Kinds
  <2>4. phase \notin {"imm", "done"} /\ 1 \in Nat /\ 1 >= 1 /\ 1 <= Len(new) + 1
    BY <1>1, <2>1
  <2> QED BY <1>1, <1>3, <2>1, <2>2, <2>3, <2>4 DEF Kinds
<1> DEFINE S == input.info \ todo
           T == input.info \ (todo \ {it})
<1>16. T = S \cup {it} /\ it \notin S /\ Cardinality(T) = Cardinality(S) + 1 /\ Cardinality(S) \in Int
  <2>1. T = S \cup {it} /\ it \notin S
    BY <1>6
  <2>2. IsFiniteSet(input.info)
    BY <1>4 DEF ImageOK
  <2>3. S \in SUBSET input.info
    OBVIOUS
  <2> HIDE DEF S, T
  <2>4. IsFiniteSet(S) /\ Cardinality(S) \in Nat
    BY <2>2, <2>3, FS_Subset, FS_CardinalityType
  <2>5. Cardinality(S \cup {it}) = Cardinality(S) + 1
    BY <2>1, <2>4, FS_AddElement
  <2> QED BY <2>1, <2>4, <2>5
<1>17. /\ {Bare(x) : x \in d.found} = {Bare(x) : x \in S} /\ d.count = Cardinality(S)
       /\ \A x \in d.found : \E y \in S : y.sym = x.sym /\ y.flags = x.flags
       /\ ~MayTouch => ~d.bad
  BY <1>7, Zenon DEF Says
<1>18. Says(Decoded(Opcodes))'
  <2> DEFINE l == Labelled(it, fl)
  <2>3. Bare(l) = Bare(it) /\ l.sym = it.sym /\ l.flags = fl
    BY DEF Labelled, Bare
  <2>4. T = S \cup {it} /\ e.found = d.found \cup {l}
    BY <1>12, <1>16
  <2>5. \E y \in T : y.sym = it.sym /\ y.flags = fl
    BY <1>22
  <2>6. e.count = Cardinality(T) /\ (~MayTouch => ~e.bad)
    BY <1>12, <1>16, <1>17
  <2> HIDE DEF S, T, l
  <2>7. {Bare(x) : x \in e.found} = {Bare(x) : x \in T}
    BY <1>17, <2>3, <2>4
  <2>8. \A x \in e.found : \E y \in T : y.sym = x.sym /\ y.flags = x.flags
    BY <1>17, <2>3, <2>4, <2>5
  <2>1. /\ {Bare(x) : x \in e.found} = {Bare(x) : x \in T} /\ e.count = Cardinality(T)
        /\ \A x \in e.found : \E y \in T : y.sym = x.sym /\ y.flags = x.flags
        /\ ~MayTouch => ~e.bad
    BY <2>6, <2>7, <2>8
  <2>2. MayTouch' <=> MayTouch
    BY <1>1 DEF MayTouch, FixupAtEnd
  <2> QED BY <1>1, <1>14, <2>1, <2>2, Zenon DEF Says, T
<1>19. After(it, Decoded(Opcodes))'
  <2>1. MayTouch' <=> MayTouch
    BY <1>1 DEF MayTouch, FixupAtEnd
  <2>2. \A y \in todo' : Less(it, y)
    BY <1>1, <1>6
  <2>3. /\ cur'.start = input.segs[sg].start /\ cur'.end = input.segs[sg].end
        /\ cur'.type = it.type /\ cur'.lib = it.lib /\ cur'.sym = it.sym /\ cur'.addend = it.addend
        /\ cur'.address = NextAddress(it)
    BY <1>1, <1>11
  <2>4. NextAddress(it) = IF input.kind = "rebase" /\ it.address + PtrSize >= cur'.end
                          THEN 0 ELSE it.address + PtrSize
    BY <1>11, <2>3 DEF NextAddress
  <2>5. /\ sg \in DOMAIN input.segs
        /\ ~MayTouch => /\ input.segs[sg].start <= it.address
                        /\ it.address + PtrSize <= input.segs[sg].end
    BY <1>9, Zenon DEF AtFixup
  <2>6. /\ cur'.start = input.segs[e.seg].start /\ cur'.end = input.segs[e.seg].end
        /\ cur'.address = (IF input.kind = "rebase" /\ it.address + PtrSize >= cur'.end
                           THEN 0 ELSE it.address + PtrSize)
        /\ Unsigned(input.segs[e.seg].start + e.off) = it.address + PtrSize
        /\ ~MayTouch => cur'.start <= it.address /\ it.address + PtrSize <= cur'.end
        /\ e.seg \in DOMAIN input.segs /\ e.off \in 0 .. Modulus - 1
    BY <1>12, <2>3, <2>4, <2>5
  <2>7. input' = input /\ \E y \in input.info \ todo' : y.sym = it.sym /\ y.flags = e.flags
    BY <1>1, <1>12, <1>22
  <2> QED BY <1>12, <1>14, <2>1, <2>2, <2>3, <2>6, <2>7 DEF After, Placed
<1>20. LoopState(Decoded(Opcodes))'
  BY <1>1, <1>6, <1>19 DEF LoopState
<1>21. (todo \subseteq input.info)'
  BY <1>1, <1>2
<1> QED BY <1>14, <1>15, <1>18, <1>20, <1>21 DEF Inv

\* From the first loop to the phases, and on through them.
LEMMA InvPhases ==
  ASSUME Inv, EndFixups \/ RunsPhase \/ PairsPhase \/ SkipsPhase \/ ImmediatePhase \/ EndPhases
  PROVE  Inv' /\ Decoded(Opcodes)' = Decoded(Opcodes)
<1>1. Kinds /\ Readable(Opcodes)
  BY DEF Inv
<1>2. Kept
  <2>1. CASE EndFixups
    <3>1. UNCHANGED <<input, mid, src, out>> /\ phase = "fixups" /\ phase' \in {"runs", "pairs"}
      BY <2>1 DEF EndFixups
    <3>2. Opcodes' = Opcodes
      BY <3>1 DEF Opcodes
    <3> DEFINE ops == Opcodes
    <3>3. Opcodes' = ops /\ input' = input
      BY <3>1, <3>2
    <3>4. Kinds'
      BY <1>1, <3>1 DEF Kinds
    <3>5. Decoded(Opcodes)' = Decoded(Opcodes) /\ (Readable(Opcodes)' <=> Readable(Opcodes))
      BY <3>3, DecodedNext
    <3> QED BY <1>1, <3>4, <3>5 DEF Kept
  <2>2. CASE RunsPhase
    BY <1>1, <2>2, RunsKeep
  <2>3. CASE PairsPhase
    BY <1>1, <2>3, PairsKeep
  <2>4. CASE SkipsPhase
    BY <1>1, <2>4, SkipsKeep
  <2>5. CASE ImmediatePhase
    BY <1>1, <2>5, ImmediateKeeps
  <2>6. CASE EndPhases
    BY <1>1, <2>6, EndKeeps
  <2> QED BY <2>1, <2>2, <2>3, <2>4, <2>5, <2>6
<1>3. UNCHANGED <<input, todo>> /\ phase' # "fixups"
  BY Zenon DEF EndFixups, RunsPhase, PairsPhase, SkipsPhase, ImmediatePhase, EndPhases, Rewrite, EndPhase
<1>4. Says(Decoded(Opcodes))'
  <2>1. MayTouch' <=> MayTouch
    BY <1>3 DEF MayTouch, FixupAtEnd
  <2>2. Says(Decoded(Opcodes)) /\ Decoded(Opcodes)' = Decoded(Opcodes)
    BY <1>2 DEF Inv, Kept
  <2> QED BY <1>3, <2>1, <2>2 DEF Says
<1>5. (todo \subseteq input.info)'
  BY <1>3 DEF Inv
<1> QED BY <1>2, <1>3, <1>4, <1>5 DEF Inv, Kept

LEMMA InvStep ==
  ASSUME Inv, [Next]_vars
  PROVE  /\ Inv'
         /\ phase # "fixups" => Decoded(Opcodes)' = Decoded(Opcodes)
<1>1. CASE EncodeFixup
  <2>1. phase = "fixups"
    BY <1>1 DEF EncodeFixup
  <2> QED BY <1>1, <2>1, InvFixup
<1>2. CASE EndFixups \/ RunsPhase \/ PairsPhase \/ SkipsPhase \/ ImmediatePhase \/ EndPhases
  BY <1>2, InvPhases
<1>3. CASE UNCHANGED vars
  <2>1. UNCHANGED <<input, phase, todo, cur, mid, src, out>>
    BY <1>3 DEF vars
  <2> DEFINE ops == Opcodes
  <2>2. Opcodes' = ops
    BY <2>1, Zenon DEF Opcodes
  <2>3. Decoded(Opcodes)' = Decoded(Opcodes) /\ (Readable(Opcodes)' <=> Readable(Opcodes))
    BY <2>1, <2>2, DecodedNext
  <2>4. Kinds'
    BY <2>1 DEF Inv, Kinds
  <2> DEFINE d == Decoded(Opcodes)
  <2>5. Says(d) /\ (phase = "fixups" => LoopState(d)) /\ Decoded(Opcodes)' = d
    BY <2>3 DEF Inv
  <2> HIDE DEF d
  <2>6. Says(Decoded(Opcodes))' /\ (phase' = "fixups" => LoopState(Decoded(Opcodes))')
    BY <2>1, <2>5 DEF Says, LoopState, AtStart, After, Placed, MayTouch, FixupAtEnd
  <2> QED BY <2>1, <2>3, <2>4, <2>6 DEF Inv
<1> QED BY <1>1, <1>2, <1>3 DEF Next, Encode, Done

-----------------------------------------------------------------------------
(***************************************************************************)
(* The theorems.                                                           *)
(***************************************************************************)

\* For every image, at every iteration of both encoders, the opcodes written
\* and left to read are decoded to exactly the fixups the first loop has
\* reached, each made once, with flags that some reference to its symbol has:
\* SameFixups (LinkEdit.hpp, encodeV1).
THEOREM FixupsDecoded == Spec => []SameFixups
<1>1. Inv => SameFixups
  BY Zenon DEF Inv, Says, SameFixups
<1>2. Inv /\ [Next]_vars => Inv'
  BY InvStep
<1> QED BY <1>1, <1>2, InvInit, PTL DEF Spec

\* No fixup is made outside the segment set last, for rebases wherever the
\* segments are, and for binds when none is right behind the end of a segment:
\* what the run with touching segments shows to go wrong is the only case.
THEOREM FixupsInside == Spec => [](input.kind = "rebase" \/ ~FixupAtEnd => InsideSegments)
<1>1. Inv => (input.kind = "rebase" \/ ~FixupAtEnd => InsideSegments)
  BY Zenon DEF Inv, Says, InsideSegments, MayTouch
<1>2. Inv /\ [Next]_vars => Inv'
  BY InvStep
<1> QED BY <1>1, <1>2, InvInit, PTL DEF Spec

\* After the first loop what is decoded stays the same.
PhasesKeepMeaning == [][phase # "fixups" => Decoded(Opcodes)' = Decoded(Opcodes)]_vars

\* The phases of encodeV1 never change what a reader makes of the opcodes,
\* neither when an iteration replaces some of them nor when a phase ends.
THEOREM MeaningKept == Spec => PhasesKeepMeaning
<1>1. Inv /\ [Next]_vars => [phase # "fixups" => Decoded(Opcodes)' = Decoded(Opcodes)]_vars
  BY InvStep
<1>2. Inv /\ [Next]_vars => Inv'
  BY InvStep
<1> QED BY <1>1, <1>2, InvInit, PTL DEF Spec, PhasesKeepMeaning
=============================================================================
