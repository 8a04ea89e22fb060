---------------------------- MODULE ProofLemmas ----------------------------
(***************************************************************************)
(* Facts about natural numbers, sequences and recursive functions that the *)
(* proofs of several components need.                                      *)
(***************************************************************************)
EXTENDS Integers, Lists, SequencesExt, SequenceTheorems, FiniteSetTheorems,
        WellFoundedInduction, TLAPS

\* A sequence, of whatever elements.
IsSeq(s) == \E n \in Nat : s = [i \in 1 .. n |-> s[i]]

-----------------------------------------------------------------------------
(***************************************************************************)
(* Least elements.                                                         *)
(***************************************************************************)

\* A nonempty set of natural numbers has a least element.
LEMMA LeastNat ==
  ASSUME NEW T \in SUBSET Nat, T # {}
  PROVE  \E k \in T : \A j \in T : k <= j
<1>1. PICK k \in T : \A j \in T : ~ (<<j, k>> \in OpToRel(<, Nat))
  BY WFMin, NatLessThanWellFounded
<1>2. \A j \in T : ~ (j < k)
  BY <1>1 DEF OpToRel
<1> QED BY <1>2

-----------------------------------------------------------------------------
(***************************************************************************)
(* Sequences.                                                              *)
(***************************************************************************)

\* A sequence has a length, which gives its domain.
LEMMA SeqLen ==
  ASSUME NEW s, IsSeq(s)
  PROVE  /\ Len(s) \in Nat /\ DOMAIN s = 1 .. Len(s)
         /\ s \in Seq({s[i] : i \in DOMAIN s})
         /\ s = <<>> <=> Len(s) = 0
<1>1. PICK n \in Nat : s = [i \in 1 .. n |-> s[i]]
  BY DEF IsSeq
<1>2. s \in [1 .. n -> {s[i] : i \in DOMAIN s}]
  BY <1>1
<1>3. s \in Seq({s[i] : i \in DOMAIN s})
  BY <1>2, SeqDef
<1> QED BY <1>3, LenProperties, EmptySeq

\* Elements of a set make sequences.
LEMMA SeqIs ==
  ASSUME NEW S, NEW s \in Seq(S)
  PROVE  IsSeq(s)
<1>1. Len(s) \in Nat /\ s \in [1 .. Len(s) -> S]
  BY LenProperties
<1>2. s = [i \in 1 .. Len(s) |-> s[i]]
  BY <1>1
<1> QED BY <1>1, <1>2 DEF IsSeq

\* Append adds one element after the others.
LEMMA SeqAppend ==
  ASSUME NEW s, IsSeq(s), NEW e
  PROVE  /\ IsSeq(Append(s, e)) /\ Len(Append(s, e)) = Len(s) + 1
         /\ \A i \in 1 .. Len(s) : Append(s, e)[i] = s[i]
         /\ Append(s, e)[Len(s) + 1] = e
<1> DEFINE S == {s[i] : i \in DOMAIN s} \cup {e}
<1>1. s \in Seq({s[i] : i \in DOMAIN s}) /\ {s[i] : i \in DOMAIN s} \subseteq S
  BY SeqLen
<1> HIDE DEF S
<1>3. s \in Seq(S)
  BY <1>1, SeqMonotonic
<1>4. e \in S
  BY DEF S
<1>2. /\ Append(s, e) \in Seq(S) /\ Len(Append(s, e)) = Len(s) + 1
      /\ \A i \in 1 .. Len(s) : Append(s, e)[i] = s[i]
      /\ Append(s, e)[Len(s) + 1] = e
  BY <1>3, <1>4, AppendProperties
<1> QED BY <1>2, SeqIs

\* Replacing an element keeps the length.
LEMMA SeqExcept ==
  ASSUME NEW s, IsSeq(s), NEW t, DOMAIN t = DOMAIN s, t = [i \in DOMAIN s |-> t[i]]
  PROVE  IsSeq(t) /\ Len(t) = Len(s)
<1>1. Len(s) \in Nat /\ DOMAIN s = 1 .. Len(s)
  BY SeqLen
<1>2. IsSeq(t)
  BY <1>1 DEF IsSeq
<1>3. Len(t) \in Nat /\ DOMAIN t = 1 .. Len(t)
  BY <1>2, SeqLen
<1> QED BY <1>1, <1>2, <1>3

-----------------------------------------------------------------------------
(***************************************************************************)
(* Powers of two, counted as the subsets of a set.                         *)
(***************************************************************************)

\* A power of two is a positive number.
LEMMA PowerOfTwo ==
  ASSUME NEW n \in Nat
  PROVE  2^n \in Nat /\ 2^n > 0
<1>1. IsFiniteSet(1 .. n) /\ Cardinality(1 .. n) = n
  BY FS_Interval
<1>2. IsFiniteSet(SUBSET (1 .. n)) /\ Cardinality(SUBSET (1 .. n)) = 2^n
  BY <1>1, FS_SUBSET
<1>3. {} \in SUBSET (1 .. n)
  OBVIOUS
<1>4. 2^n \in Nat /\ 2^n # 0
  BY <1>2, <1>3, FS_CardinalityType, FS_EmptySet
<1> QED BY <1>4

\* A power of two from the second on is a multiple of four.
LEMMA PowerOfFour ==
  ASSUME NEW n \in Nat, n >= 2
  PROVE  \E q \in Nat : 2^n = 4 * q
<1> DEFINE S == 1 .. n - 2
           D == {n - 1, n}
           both == [x \in (SUBSET S) \X (SUBSET D) |-> x[1] \cup x[2]]
<1>1. /\ IsFiniteSet(S) /\ Cardinality(S) = n - 2 /\ n - 2 \in Nat
      /\ IsFiniteSet(1 .. n) /\ Cardinality(1 .. n) = n
  BY FS_Interval
<1>2. IsFiniteSet(D) /\ Cardinality(D) = 2
  <2>1. IsFiniteSet({n - 1}) /\ Cardinality({n - 1}) = 1
    BY FS_Singleton
  <2>2. D = {n - 1} \cup {n} /\ n \notin {n - 1}
    OBVIOUS
  <2> QED BY <2>1, <2>2, FS_AddElement
<1>3. /\ IsFiniteSet(SUBSET S) /\ IsFiniteSet(SUBSET D) /\ IsFiniteSet(SUBSET (1 .. n))
      /\ Cardinality(SUBSET S) = 2^(n - 2) /\ Cardinality(SUBSET D) = 2^2
      /\ Cardinality(SUBSET (1 .. n)) = 2^n
  BY <1>1, <1>2, FS_SUBSET
<1>4. /\ IsFiniteSet((SUBSET S) \X (SUBSET D))
      /\ Cardinality((SUBSET S) \X (SUBSET D)) = 2^(n - 2) * 2^2
  <2> HIDE DEF S, D
  <2> QED BY <1>3, FS_Product, ZenonT(30)
<1>5. both \in Bijection((SUBSET S) \X (SUBSET D), SUBSET (1 .. n))
  <2>1. S \cap D = {} /\ S \cup D = 1 .. n
    OBVIOUS
  <2> HIDE DEF S, D
  <2>2. both \in [(SUBSET S) \X (SUBSET D) -> SUBSET (1 .. n)]
    BY <2>1
  <2>3. \A x, y \in (SUBSET S) \X (SUBSET D) : both[x] = both[y] => x = y
    <3> TAKE x, y \in (SUBSET S) \X (SUBSET D)
    <3>1. x[1] = both[x] \cap S /\ x[2] = both[x] \cap D
      BY <2>1
    <3>2. y[1] = both[y] \cap S /\ y[2] = both[y] \cap D
      BY <2>1
    <3> HIDE DEF both
    <3> QED BY <3>1, <3>2
  <2>4. \A z \in SUBSET (1 .. n) : \E x \in (SUBSET S) \X (SUBSET D) : both[x] = z
    <3> TAKE z \in SUBSET (1 .. n)
    <3>1. <<z \cap S, z \cap D>> \in (SUBSET S) \X (SUBSET D)
      OBVIOUS
    <3>2. both[<<z \cap S, z \cap D>>] = (z \cap S) \cup (z \cap D)
      BY <3>1
    <3>3. (z \cap S) \cup (z \cap D) = z
      BY <2>1
    <3> QED BY <3>1, <3>2, <3>3
  <2> HIDE DEF both
  <2> QED BY <2>2, <2>3, <2>4 DEF Bijection, Injection, Surjection, IsInjective
<1>6. 2^n = 2^(n - 2) * 4
  <2>1. ExistsBijection((SUBSET S) \X (SUBSET D), SUBSET (1 .. n))
    BY <1>5 DEF ExistsBijection
  <2>2. 2^2 = 4
    OBVIOUS
  <2> HIDE DEF S, D
  <2> QED BY <1>3, <1>4, <2>1, <2>2, FS_Bijection
<1> QED BY <1>1, <1>6, PowerOfTwo

\* What is added to a number to make it a multiple does so.
LEMMA RoundedUp ==
  ASSUME NEW v \in Int, NEW m \in Nat, m > 0
  PROVE  /\ (-v) % m \in 0 .. m - 1
         /\ \A q \in Nat : m = 4 * q => (v + ((-v) % m)) % 4 = 0
<1> DEFINE d == (-v) \div m
           r == (-v) % m
<1>1. r \in 0 .. m - 1 /\ d \in Int /\ -v = m * d + r
  OBVIOUS
<1> HIDE DEF d, r
<1>2. ASSUME NEW q \in Nat, m = 4 * q
      PROVE  (v + r) % 4 = 0
  <2>1. v + r = -(m * d)
    BY <1>1
  <2>2. m * d = 4 * (q * d) /\ q * d \in Int
    BY <1>1, <1>2
  <2> QED BY <2>1, <2>2
<1> QED BY <1>1, <1>2 DEF d, r

-----------------------------------------------------------------------------
(***************************************************************************)
(* Recursive functions.                                                    *)
(***************************************************************************)

\* n steps of functions on a set, one after the other, and their results.
StepsOn(X, n, F) == F \in [1 .. n -> [X -> X]]
ResultsOf(X, n, a, F, g) ==
  g \in [0 .. n -> X] /\ g[0] = a /\ \A k \in 1 .. n : g[k] = F[k][g[k - 1]]

\* There are such results.
LEMMA Iterated ==
  ASSUME NEW X, NEW n \in Nat, NEW a \in X, NEW F, StepsOn(X, n, F)
  PROVE  \E g : ResultsOf(X, n, a, F, g)
<1>0. F \in [1 .. n -> [X -> X]]
  BY DEF StepsOn
<1> DEFINE P(m) == {g \in [0 .. m -> X] :
                      g[0] = a /\ \A k \in 1 .. m : g[k] = F[k][g[k - 1]]}
           T == {m \in 0 .. n : P(m) = {}}
<1>1. P(0) # {}
  <2>1. [k \in 0 .. 0 |-> a] \in P(0)
    OBVIOUS
  <2> QED BY <2>1
<1>2. ASSUME NEW m \in 1 .. n, P(m - 1) # {}
      PROVE  P(m) # {}
  <2>1. PICK g \in [0 .. m - 1 -> X] :
          g[0] = a /\ \A k \in 1 .. m - 1 : g[k] = F[k][g[k - 1]]
    BY <1>2
  <2> DEFINE h == [k \in 0 .. m |-> IF k = m THEN F[m][g[m - 1]] ELSE g[k]]
  <2>2. g[m - 1] \in X /\ F[m][g[m - 1]] \in X
    BY <1>0, <2>1
  <2>3. h \in [0 .. m -> X]
    BY <2>1, <2>2
  <2>4. h[0] = a
    BY <2>1
  <2>5. ASSUME NEW k \in 1 .. m PROVE h[k] = F[k][h[k - 1]]
    <3>1. k - 1 \in 0 .. m /\ k - 1 # m /\ h[k - 1] = g[k - 1]
      OBVIOUS
    <3>2. CASE k = m
      BY <3>1, <3>2
    <3>3. CASE k # m
      <4>1. k \in 1 .. m - 1 /\ h[k] = g[k]
        BY <3>3
      <4> HIDE DEF h
      <4> QED BY <2>1, <3>1, <4>1
    <3> QED BY <3>2, <3>3
  <2> HIDE DEF h
  <2>6. h \in P(m)
    BY <2>3, <2>4, <2>5
  <2> QED BY <2>6
<1> HIDE DEF P
<1>3. T \in SUBSET Nat /\ \A m : m \in T <=> m \in 0 .. n /\ P(m) = {}
  OBVIOUS
<1> HIDE DEF T
<1>4. T = {}
  <2> SUFFICES ASSUME T # {} PROVE FALSE
    OBVIOUS
  <2>1. PICK m \in T : \A j \in T : m <= j
    BY <1>3, LeastNat
  <2>2. m \in 1 .. n /\ P(m) = {}
    BY <1>1, <1>3
  <2>3. m - 1 \in 0 .. n /\ ~(m <= m - 1)
    BY <2>2
  <2>4. P(m - 1) # {}
    BY <1>3, <2>1, <2>3
  <2> QED BY <1>2, <2>2, <2>4
<1>5. P(n) # {}
  <2>1. n \in 0 .. n
    OBVIOUS
  <2> QED BY <1>3, <1>4, <2>1
<1> QED BY <1>5 DEF P, ResultsOf

-----------------------------------------------------------------------------
(***************************************************************************)
(* Filters.                                                                *)
(***************************************************************************)

\* The filter of the first i elements of a sequence, for each i.
Filtered(E, s, S, kept) ==
  /\ kept \in [0 .. Len(s) -> Seq(E \cap S)] /\ kept[0] = <<>>
  /\ \A k \in 1 .. Len(s) :
       kept[k] = IF s[k] \in S THEN Append(kept[k - 1], s[k]) ELSE kept[k - 1]

\* The filter of a sequence is the last of them.
LEMMA OnlyFilters ==
  ASSUME NEW E, NEW s \in Seq(E), NEW S
  PROVE  \E kept : Filtered(E, s, S, kept) /\ Only(s, S) = kept[Len(s)]
<1> DEFINE n == Len(s)
           X == Seq(E \cap S)
           F == [i \in 1 .. n |-> [t \in X |-> IF s[i] \in S THEN Append(t, s[i]) ELSE t]]
           filter(e) == [i \in 0 .. n |-> IF i = 0 THEN <<>>
                           ELSE IF s[i] \in S THEN Append(e[i - 1], s[i]) ELSE e[i - 1]]
           kept == CHOOSE e : e = filter(e)
<1>1. n \in Nat /\ \A i \in 1 .. n : s[i] \in E
  BY LenProperties, ElementOfSeq
<1>2. <<>> \in X
  BY EmptySeq
<1>3. F \in [1 .. n -> [X -> X]]
  <2>1. ASSUME NEW i \in 1 .. n, NEW t \in X, s[i] \in S PROVE Append(t, s[i]) \in X
    BY <1>1, <2>1, AppendProperties
  <2> HIDE DEF X
  <2> QED BY <2>1
<1>4. \A i \in 1 .. n : \A t \in X : F[i][t] = IF s[i] \in S THEN Append(t, s[i]) ELSE t
  OBVIOUS
<1> HIDE DEF F, X, n
<1>5. PICK d : ResultsOf(X, n, <<>>, F, d)
  <2>1. n \in Nat /\ StepsOn(X, n, F)
    BY <1>1, <1>3 DEF StepsOn
  <2> QED BY <1>2, <2>1, Iterated
<1>6. d \in [0 .. n -> X] /\ d[0] = <<>> /\ \A k \in 1 .. n : d[k] = F[k][d[k - 1]]
  BY <1>5 DEF ResultsOf
<1>7. Only(s, S) = kept[n]
  BY Zenon DEF Only, n
<1>8. d = filter(d)
  <2>1. ASSUME NEW k \in 0 .. n
        PROVE  d[k] = IF k = 0 THEN <<>>
                      ELSE IF s[k] \in S THEN Append(d[k - 1], s[k]) ELSE d[k - 1]
    <3>1. CASE k = 0
      BY <1>6, <3>1
    <3>2. CASE k # 0
      <4>1. k \in 1 .. n /\ k - 1 \in 0 .. n
        BY <1>1, <3>2
      <4>2. d[k - 1] \in X
        BY <1>6, <4>1
      <4>3. d[k] = F[k][d[k - 1]]
        BY <1>6, <4>1
      <4> QED BY <1>4, <3>2, <4>1, <4>2, <4>3
    <3> QED BY <3>1, <3>2
  <2>2. d = [k \in 0 .. n |-> d[k]]
    BY <1>6
  <2> QED BY <2>1, <2>2
<1>9. kept = filter(kept)
  BY <1>8, Zenon
<1> HIDE DEF kept
<1>10. \A k \in 0 .. n : kept[k] = IF k = 0 THEN <<>>
                      ELSE IF s[k] \in S THEN Append(kept[k - 1], s[k]) ELSE kept[k - 1]
  BY <1>9, Zenon
<1> DEFINE T == {k \in 0 .. n : kept[k] \notin X}
<1>11. T \in SUBSET Nat /\ \A k : k \in T <=> k \in 0 .. n /\ kept[k] \notin X
  BY <1>1
<1> HIDE DEF T
<1>12. T = {}
  <2> SUFFICES ASSUME T # {} PROVE FALSE
    OBVIOUS
  <2>1. PICK k \in T : \A l \in T : k <= l
    BY <1>11, LeastNat
  <2>2. k \in 1 .. n
    BY <1>1, <1>2, <1>10, <1>11
  <2>3. k - 1 \in 0 .. n /\ ~(k <= k - 1)
    BY <1>1, <2>2
  <2>4. kept[k - 1] \in X
    BY <1>11, <2>1, <2>3
  <2>5. kept[k] = IF s[k] \in S THEN Append(kept[k - 1], s[k]) ELSE kept[k - 1]
    BY <1>10, <2>2
  <2>6. s[k] \in S => Append(kept[k - 1], s[k]) \in X
    BY <1>1, <2>2, <2>4, AppendProperties DEF X
  <2> QED BY <1>11, <2>1, <2>4, <2>5, <2>6
<1>13. kept \in [0 .. n -> X]
  <2>1. kept = [k \in 0 .. n |-> kept[k]]
    BY <1>9
  <2>2. \A k \in 0 .. n : kept[k] \in X
    BY <1>11, <1>12
  <2> QED BY <2>1, <2>2
<1>14. kept[0] = <<>>
  BY <1>1, <1>10
<1>15. \A k \in 1 .. n : kept[k] = IF s[k] \in S THEN Append(kept[k - 1], s[k]) ELSE kept[k - 1]
  BY <1>10
<1>16. Filtered(E, s, S, kept)
  BY <1>13, <1>14, <1>15 DEF Filtered, X, n
<1> QED BY <1>7, <1>16 DEF n

\* The filter of a sequence keeps elements of the set alone.
LEMMA OnlyElements ==
  ASSUME NEW E, NEW s \in Seq(E), NEW S
  PROVE  Only(s, S) \in Seq(E \cap S)
<1>1. PICK kept : Filtered(E, s, S, kept) /\ Only(s, S) = kept[Len(s)]
  BY OnlyFilters
<1>2. Len(s) \in Nat
  BY LenProperties
<1>3. Len(s) \in 0 .. Len(s)
  BY <1>2
<1> QED BY <1>1, <1>3 DEF Filtered

\* The filter of a sequence keeps every element of the set.
LEMMA OnlyKeeps ==
  ASSUME NEW E, NEW s \in Seq(E), NEW S, NEW i \in DOMAIN s, s[i] \in S
  PROVE  \E j \in DOMAIN Only(s, S) : Only(s, S)[j] = s[i]
<1>1. PICK kept : Filtered(E, s, S, kept) /\ Only(s, S) = kept[Len(s)]
  BY OnlyFilters
<1> DEFINE n == Len(s)
           X == Seq(E \cap S)
           Has(q) == \E j \in DOMAIN q : q[j] = s[i]
<1>2. n \in Nat /\ i \in 1 .. n
  BY LenProperties
<1>3. /\ kept \in [0 .. n -> X]
      /\ \A k \in 1 .. n :
           kept[k] = IF s[k] \in S THEN Append(kept[k - 1], s[k]) ELSE kept[k - 1]
  BY <1>1 DEF Filtered
<1>4. ASSUME NEW q \in X, NEW x PROVE Has(q) => Has(Append(q, x))
  <2>1. IsSeq(q) /\ Len(q) \in Nat /\ DOMAIN q = 1 .. Len(q)
    BY SeqIs, SeqLen
  <2>2. IsSeq(Append(q, x)) /\ Len(Append(q, x)) = Len(q) + 1
        /\ \A j \in 1 .. Len(q) : Append(q, x)[j] = q[j]
    BY <2>1, SeqAppend
  <2>3. DOMAIN Append(q, x) = 1 .. Len(q) + 1
    BY <2>2, SeqLen
  <2> QED BY <2>1, <2>2, <2>3
<1>5. ASSUME NEW q \in X PROVE Has(Append(q, s[i]))
  <2>1. IsSeq(q) /\ Len(q) \in Nat
    BY SeqIs, SeqLen
  <2>2. IsSeq(Append(q, s[i])) /\ Len(Append(q, s[i])) = Len(q) + 1
        /\ Append(q, s[i])[Len(q) + 1] = s[i]
    BY <2>1, SeqAppend
  <2>3. DOMAIN Append(q, s[i]) = 1 .. Len(q) + 1
    BY <2>2, SeqLen
  <2> QED BY <2>1, <2>2, <2>3
<1> HIDE DEF n, X, Has
<1> DEFINE T == {k \in i .. n : ~Has(kept[k])}
<1>6. T \in SUBSET Nat /\ \A k : k \in T <=> k \in i .. n /\ ~Has(kept[k])
  BY <1>2
<1> HIDE DEF T
<1>7. T = {}
  <2> SUFFICES ASSUME T # {} PROVE FALSE
    OBVIOUS
  <2>1. PICK k \in T : \A l \in T : k <= l
    BY <1>6, LeastNat
  <2>2. k \in 1 .. n /\ k \in i .. n /\ ~Has(kept[k])
    BY <1>2, <1>6
  <2>3. k - 1 \in 0 .. n /\ kept[k - 1] \in X
    BY <1>2, <1>3, <2>2
  <2>4. kept[k] = IF s[k] \in S THEN Append(kept[k - 1], s[k]) ELSE kept[k - 1]
    BY <1>3, <2>2
  <2>5. CASE k = i
    BY <1>5, <2>2, <2>3, <2>4, <2>5
  <2>6. CASE k # i
    <3>1. k - 1 \in i .. n /\ ~(k <= k - 1)
      BY <1>2, <2>2, <2>6
    <3>2. Has(kept[k - 1])
      BY <1>6, <2>1, <3>1
    <3>3. Has(Append(kept[k - 1], s[k]))
      BY <1>4, <2>3, <3>2
    <3> QED BY <2>2, <2>4, <3>2, <3>3
  <2> QED BY <2>5, <2>6
<1>8. Has(kept[n])
  <2>1. n \in i .. n
    BY <1>2
  <2> QED BY <1>6, <1>7, <2>1
<1> QED BY <1>1, <1>8 DEF Has, n

\* The filter of a sequence is the sequence if the set has all its elements.
LEMMA OnlyAll ==
  ASSUME NEW E, NEW s \in Seq(E), NEW S, \A i \in DOMAIN s : s[i] \in S
  PROVE  Only(s, S) = s
<1>1. PICK kept : Filtered(E, s, S, kept) /\ Only(s, S) = kept[Len(s)]
  BY OnlyFilters
<1> DEFINE n == Len(s)
           X == Seq(E \cap S)
           Agrees(k) == Len(kept[k]) = k /\ \A j \in 1 .. k : kept[k][j] = s[j]
<1>2. n \in Nat /\ DOMAIN s = 1 .. n /\ s = [j \in 1 .. n |-> s[j]]
  BY LenProperties
<1>3. /\ kept \in [0 .. n -> X] /\ kept[0] = <<>>
      /\ \A k \in 1 .. n : kept[k] = Append(kept[k - 1], s[k])
  BY <1>1, <1>2 DEF Filtered
<1> HIDE DEF n, X
<1>4. Agrees(0)
  BY <1>3
<1>5. ASSUME NEW k \in 1 .. n, Agrees(k - 1) PROVE Agrees(k)
  <2>1. k - 1 \in 0 .. n
    BY <1>2
  <2>2. IsSeq(kept[k - 1])
    BY <1>3, <2>1, SeqIs DEF X
  <2>3. /\ Len(kept[k]) = Len(kept[k - 1]) + 1
        /\ \A i \in 1 .. Len(kept[k - 1]) : kept[k][i] = kept[k - 1][i]
        /\ kept[k][Len(kept[k - 1]) + 1] = s[k]
    BY <1>3, <2>2, SeqAppend
  <2>4. Len(kept[k - 1]) = k - 1 /\ \A j \in 1 .. (k - 1) : kept[k - 1][j] = s[j]
    BY <1>5
  <2>5. (k - 1) + 1 = k
    BY <1>2
  <2>6. Len(kept[k]) = k /\ kept[k][k] = s[k]
    BY <2>3, <2>4, <2>5, Zenon
  <2>7. ASSUME NEW j \in 1 .. (k - 1) PROVE kept[k][j] = s[j]
    BY <2>3, <2>4, Zenon
  <2>8. \A j \in 1 .. k : j = k \/ j \in 1 .. (k - 1)
    BY <1>2
  <2>9. \A j \in 1 .. k : kept[k][j] = s[j]
    BY <2>6, <2>7, <2>8, Zenon
  <2> QED BY <2>6, <2>9
<1> HIDE DEF Agrees
<1> DEFINE T == {k \in 0 .. n : ~Agrees(k)}
<1>6. T \in SUBSET Nat /\ \A k : k \in T <=> k \in 0 .. n /\ ~Agrees(k)
  BY <1>2
<1> HIDE DEF T
<1>7. T = {}
  <2> SUFFICES ASSUME T # {} PROVE FALSE
    OBVIOUS
  <2>1. PICK k \in T : \A l \in T : k <= l
    BY <1>6, LeastNat
  <2>2. k \in 0 .. n /\ ~Agrees(k) /\ k # 0
    BY <1>4, <1>6
  <2>3. k \in 1 .. n /\ k - 1 \in 0 .. n /\ ~(k <= k - 1)
    BY <1>2, <2>2
  <2>4. Agrees(k - 1)
    BY <1>6, <2>1, <2>3
  <2> QED BY <1>5, <2>2, <2>3, <2>4
<1>8. Agrees(n)
  <2>1. n \in 0 .. n
    BY <1>2
  <2> QED BY <1>6, <1>7, <2>1
<1>9. kept[n] \in X
  BY <1>2, <1>3
<1>10. kept[n] = [j \in 1 .. n |-> kept[n][j]]
  <2>1. Len(kept[n]) = n
    BY <1>8 DEF Agrees
  <2> QED BY <1>9, <2>1, LenProperties DEF X
<1>11. \A j \in 1 .. n : kept[n][j] = s[j]
  BY <1>8 DEF Agrees
<1>12. kept[n] = s
  BY <1>2, <1>10, <1>11
<1> QED BY <1>1, <1>12 DEF n

\* The first lists of a list of lists put one after the other, for each number.
Flattening(S, q, f) ==
  /\ f \in [1 .. Len(q) -> Seq(S)]
  /\ \A i \in 1 .. Len(q) : f[i] = IF i = 1 THEN q[i] ELSE f[i - 1] \o q[i]

\* All of them put one after the other are the last of these.
LEMMA Flattens ==
  ASSUME NEW S, NEW q \in Seq(Seq(S)), Len(q) # 0
  PROVE  \E f : Flattening(S, q, f) /\ FlattenSeq(q) = f[Len(q)]
<1> DEFINE n == Len(q)
           X == Seq(S)
           F == [i \in 1 .. n |-> [t \in X |-> t \o q[i]]]
           flat(e) == [i \in 1 .. n |-> IF i = 1 THEN q[i] ELSE e[i - 1] \o q[i]]
           flatten == CHOOSE e : e = flat(e)
<1>1. n \in Nat /\ \A i \in 1 .. n : q[i] \in X
  BY LenProperties, ElementOfSeq
<1>2. <<>> \in X
  BY EmptySeq
<1>3. \A s, t \in X : s \o t \in X
  BY ConcatProperties
<1>4. \A s \in X : <<>> \o s = s
  BY ConcatEmptySeq
<1>5. FlattenSeq(q) = IF n = 0 THEN q ELSE flatten[n]
  BY Zenon DEF FlattenSeq
<1> HIDE DEF X
<1>6. StepsOn(X, n, F) /\ \A i \in 1 .. n : \A t \in X : F[i][t] = t \o q[i]
  BY <1>1, <1>3 DEF StepsOn
<1> HIDE DEF F, n
<1>7. PICK g : ResultsOf(X, n, <<>>, F, g)
  BY <1>1, <1>2, <1>6, Iterated
<1>8. g \in [0 .. n -> X] /\ g[0] = <<>> /\ \A k \in 1 .. n : g[k] = g[k - 1] \o q[k]
  <2>1. g \in [0 .. n -> X] /\ g[0] = <<>> /\ \A k \in 1 .. n : g[k] = F[k][g[k - 1]]
    BY <1>7 DEF ResultsOf
  <2>2. ASSUME NEW k \in 1 .. n PROVE g[k] = g[k - 1] \o q[k]
    <3>1. k - 1 \in 0 .. n
      BY <1>1
    <3>2. g[k - 1] \in X /\ g[k] = F[k][g[k - 1]]
      BY <2>1, <3>1
    <3> QED BY <1>6, <3>2
  <2> QED BY <2>1, <2>2
<1> DEFINE h == [i \in 1 .. n |-> g[i]]
<1>9. h = flat(h)
  <2>1. ASSUME NEW i \in 1 .. n PROVE g[i] = IF i = 1 THEN q[i] ELSE h[i - 1] \o q[i]
    <3>1. CASE i = 1
      <4>1. g[i] = g[i - 1] \o q[i]
        BY <1>8
      <4>3. i - 1 = 0
        BY <3>1
      <4>4. g[i - 1] = <<>>
        BY <1>8, <4>3, Zenon
      <4>2. g[i] = <<>> \o q[i] /\ q[i] \in X
        BY <1>1, <4>1, <4>4, Zenon
      <4> QED BY <1>4, <3>1, <4>2, Zenon
    <3>2. CASE i # 1
      <4>1. i - 1 \in 1 .. n
        BY <1>1, <3>2
      <4>2. h[i - 1] = g[i - 1]
        BY <4>1
      <4>3. g[i] = g[i - 1] \o q[i]
        BY <1>8
      <4> HIDE DEF h
      <4> QED BY <3>2, <4>2, <4>3
    <3> QED BY <3>1, <3>2
  <2> QED BY <2>1
<1> HIDE DEF h
<1>10. flatten = flat(flatten)
  BY <1>9, Zenon
<1> HIDE DEF flatten
<1>11. \A i \in 1 .. n : flatten[i] = IF i = 1 THEN q[i] ELSE flatten[i - 1] \o q[i]
  BY <1>10, Zenon
<1> DEFINE T == {i \in 1 .. n : flatten[i] \notin X}
<1>12. T \in SUBSET Nat /\ \A i : i \in T <=> i \in 1 .. n /\ flatten[i] \notin X
  BY <1>1
<1> HIDE DEF T
<1>13. T = {}
  <2> SUFFICES ASSUME T # {} PROVE FALSE
    OBVIOUS
  <2>1. PICK i \in T : \A j \in T : i <= j
    BY <1>12, LeastNat
  <2>2. i \in 1 .. n /\ i # 1
    BY <1>1, <1>11, <1>12
  <2>3. i - 1 \in 1 .. n /\ ~(i <= i - 1)
    BY <1>1, <2>2
  <2>4. flatten[i - 1] \in X
    BY <1>12, <2>1, <2>3
  <2>5. flatten[i] = flatten[i - 1] \o q[i]
    BY <1>11, <2>2
  <2> QED BY <1>1, <1>3, <1>12, <2>1, <2>2, <2>4, <2>5
<1>14. flatten \in [1 .. n -> X]
  <2>1. flatten = [i \in 1 .. n |-> flatten[i]]
    BY <1>10
  <2>2. \A i \in 1 .. n : flatten[i] \in X
    BY <1>12, <1>13
  <2> QED BY <2>1, <2>2
<1>15. Flattening(S, q, flatten)
  BY <1>11, <1>14 DEF Flattening, X, n
<1> QED BY <1>5, <1>15 DEF n

\* Lists of elements of a set make one of these.
LEMMA Flattened ==
  ASSUME NEW S, NEW q \in Seq(Seq(S))
  PROVE  FlattenSeq(q) \in Seq(S)
<1>1. Len(q) \in Nat
  BY LenProperties
<1>2. CASE Len(q) = 0
  <2>1. q = <<>> /\ FlattenSeq(q) = q
    BY <1>2, EmptySeq DEF FlattenSeq
  <2> QED BY <2>1, EmptySeq
<1>3. CASE Len(q) # 0
  <2>1. PICK f : Flattening(S, q, f) /\ FlattenSeq(q) = f[Len(q)]
    BY <1>3, Flattens
  <2>2. Len(q) \in 1 .. Len(q)
    BY <1>1, <1>3
  <2> QED BY <2>1, <2>2 DEF Flattening
<1> QED BY <1>2, <1>3

\* No element of any of the lists is lost.
LEMMA FlattenKeeps ==
  ASSUME NEW S, NEW q \in Seq(Seq(S)), NEW i \in DOMAIN q, NEW x \in Range(q[i])
  PROVE  x \in Range(FlattenSeq(q))
<1> DEFINE n == Len(q)
           X == Seq(S)
<1>1. n \in Nat /\ i \in 1 .. n /\ \A k \in 1 .. n : q[k] \in X
  BY LenProperties, ElementOfSeq
<1>2. PICK f : Flattening(S, q, f) /\ FlattenSeq(q) = f[n]
  <2>1. Len(q) # 0
    BY <1>1
  <2> QED BY <2>1, Flattens
<1>3. /\ f \in [1 .. n -> X]
      /\ \A k \in 1 .. n : f[k] = IF k = 1 THEN q[k] ELSE f[k - 1] \o q[k]
  BY <1>2 DEF Flattening
<1>4. ASSUME NEW s \in X, NEW t \in X, x \in Range(s) \/ x \in Range(t)
      PROVE  x \in Range(s \o t)
  BY <1>4, RangeConcatenation
<1> HIDE DEF n, X
<1> DEFINE T == {k \in i .. n : x \notin Range(f[k])}
<1>5. T \in SUBSET Nat /\ \A k : k \in T <=> k \in i .. n /\ x \notin Range(f[k])
  BY <1>1
<1> HIDE DEF T
<1>6. T = {}
  <2> SUFFICES ASSUME T # {} PROVE FALSE
    OBVIOUS
  <2>1. PICK k \in T : \A l \in T : k <= l
    BY <1>5, LeastNat
  <2>2. k \in 1 .. n /\ k \in i .. n /\ x \notin Range(f[k])
    BY <1>1, <1>5
  <2>3. f[k] = IF k = 1 THEN q[k] ELSE f[k - 1] \o q[k]
    BY <1>3, <2>2
  <2>4. CASE k = 1
    <3>1. k = i
      BY <1>1, <2>2, <2>4
    <3> QED BY <2>2, <2>3, <2>4, <3>1
  <2>5. CASE k # 1
    <3>1. k - 1 \in 1 .. n /\ ~(k <= k - 1)
      BY <1>1, <2>2, <2>5
    <3>2. f[k - 1] \in X /\ q[k] \in X
      BY <1>1, <1>3, <2>2, <3>1
    <3>3. CASE k = i
      BY <1>4, <2>2, <2>3, <2>5, <3>2, <3>3
    <3>4. CASE k # i
      <4>1. k - 1 \in i .. n
        BY <1>1, <2>2, <3>4
      <4>2. x \in Range(f[k - 1])
        BY <1>5, <2>1, <3>1, <4>1
      <4> QED BY <1>4, <2>2, <2>3, <2>5, <3>2, <4>2
    <3> QED BY <3>3, <3>4
  <2> QED BY <2>4, <2>5
<1>7. n \in i .. n
  BY <1>1
<1> QED BY <1>2, <1>5, <1>6, <1>7

-----------------------------------------------------------------------------
(***************************************************************************)
(* Lists without repetition.                                               *)
(***************************************************************************)

\* No element of C is twice in the list.
DistinctIn(s, C) == \A i, j \in DOMAIN s : s[i] = s[j] /\ s[i] \in C => i = j

\* Two such lists with nothing in common make one.
LEMMA ConcatDistinct ==
  ASSUME NEW S, NEW s \in Seq(S), NEW t \in Seq(S), NEW C, DistinctIn(s, C), DistinctIn(t, C),
         Range(s) \cap Range(t) \cap C = {}
  PROVE  DistinctIn(s \o t, C)
<1> DEFINE u == s \o t
<1>1. /\ Len(s) \in Nat /\ DOMAIN s = 1 .. Len(s) /\ Len(t) \in Nat /\ DOMAIN t = 1 .. Len(t)
      /\ u \in Seq(S) /\ Len(u) = Len(s) + Len(t)
      /\ \A i \in 1 .. Len(s) + Len(t) : u[i] = IF i <= Len(s) THEN s[i] ELSE t[i - Len(s)]
  BY ConcatProperties, LenProperties
<1>2. DOMAIN u = 1 .. Len(s) + Len(t)
  BY <1>1, LenProperties
<1> HIDE DEF u
<1>3. \A i \in DOMAIN u : \/ i \in DOMAIN s /\ u[i] = s[i]
                          \/ i - Len(s) \in DOMAIN t /\ u[i] = t[i - Len(s)] /\ i \in Int
  BY <1>1, <1>2
<1>4. \A i \in DOMAIN s, j \in DOMAIN t : s[i] \in C => s[i] # t[j]
  BY DEF Range
<1>5. ASSUME NEW i \in DOMAIN u, NEW j \in DOMAIN u, u[i] = u[j], u[i] \in C PROVE i = j
  <2>1. CASE i \in DOMAIN s /\ u[i] = s[i] /\ j \in DOMAIN s /\ u[j] = s[j]
    BY <1>5, <2>1 DEF DistinctIn
  <2>2. CASE i \in DOMAIN s /\ u[i] = s[i] /\ j - Len(s) \in DOMAIN t /\ u[j] = t[j - Len(s)]
    BY <1>4, <1>5, <2>2, Zenon
  <2>3. CASE j \in DOMAIN s /\ u[j] = s[j] /\ i - Len(s) \in DOMAIN t /\ u[i] = t[i - Len(s)]
    BY <1>4, <1>5, <2>3, Zenon
  <2>4. CASE /\ i - Len(s) \in DOMAIN t /\ u[i] = t[i - Len(s)] /\ i \in Int
             /\ j - Len(s) \in DOMAIN t /\ u[j] = t[j - Len(s)] /\ j \in Int
    <3>1. i - Len(s) = j - Len(s)
      BY <1>5, <2>4, Zenon DEF DistinctIn
    <3> QED BY <1>1, <2>4, <3>1
  <2> QED BY <1>3, <2>1, <2>2, <2>3, <2>4
<1>6. DistinctIn(u, C)
  BY <1>5 DEF DistinctIn
<1> QED BY <1>6 DEF u

\* A filter repeats nothing.
LEMMA OnlyDistinct ==
  ASSUME NEW E, NEW s \in Seq(E), NEW S, NEW C, DistinctIn(s, C)
  PROVE  DistinctIn(Only(s, S), C)
<1>1. PICK kept : Filtered(E, s, S, kept) /\ Only(s, S) = kept[Len(s)]
  BY OnlyFilters
<1> DEFINE n == Len(s)
           X == Seq(E \cap S)
           From(k) == \A j \in DOMAIN kept[k] : \E i \in 1 .. k : kept[k][j] = s[i]
           Good(k) == DistinctIn(kept[k], C) /\ From(k)
<1>2. n \in Nat /\ DOMAIN s = 1 .. n
  BY LenProperties
<1>3. /\ kept \in [0 .. n -> X] /\ kept[0] = <<>>
      /\ \A k \in 1 .. n :
           kept[k] = IF s[k] \in S THEN Append(kept[k - 1], s[k]) ELSE kept[k - 1]
  BY <1>1 DEF Filtered
<1> HIDE DEF n, X
<1>4. Good(0)
  <2>1. DOMAIN kept[0] = {}
    BY <1>3
  <2> QED BY <2>1 DEF DistinctIn
<1>5. ASSUME NEW k \in 1 .. n, Good(k - 1) PROVE Good(k)
  <2>1. k - 1 \in 0 .. n /\ (\A i \in 1 .. (k - 1) : i \in 1 .. k /\ i \in DOMAIN s /\ i # k)
        /\ k \in 1 .. k /\ k \in DOMAIN s
    BY <1>2
  <2>2. IsSeq(kept[k - 1])
    BY <1>3, <2>1, SeqIs DEF X
  <2>3. DistinctIn(kept[k - 1], C)
        /\ \A j \in DOMAIN kept[k - 1] : \E i \in 1 .. (k - 1) : kept[k - 1][j] = s[i]
    BY <1>5
  <2> DEFINE old == kept[k - 1]
  <2>4. /\ Len(old) \in Nat /\ DOMAIN old = 1 .. Len(old)
        /\ IsSeq(Append(old, s[k])) /\ Len(Append(old, s[k])) = Len(old) + 1
        /\ \A i \in 1 .. Len(old) : Append(old, s[k])[i] = old[i]
        /\ Append(old, s[k])[Len(old) + 1] = s[k]
    BY <2>2, SeqLen, SeqAppend
  <2>5. DOMAIN Append(old, s[k]) = 1 .. Len(old) + 1
    BY <2>4, SeqLen
  <2> HIDE DEF old
  <2>6. CASE kept[k] = old
    <3>1. From(k)
      BY <2>1, <2>3, <2>6, Zenon DEF old
    <3> QED BY <2>3, <2>6, <3>1 DEF old
  <2>7. CASE kept[k] = Append(old, s[k])
    <3> DEFINE new == Append(old, s[k])
    <3>1. /\ \A i \in DOMAIN new : (i \in DOMAIN old /\ new[i] = old[i]) \/ i = Len(old) + 1
          /\ new[Len(old) + 1] = s[k]
      BY <2>4, <2>5
    <3> HIDE DEF new
    <3>2. \A i \in DOMAIN old : \E h \in 1 .. (k - 1) : old[i] = s[h]
      BY <2>3 DEF old
    <3>3. \A i \in DOMAIN old : s[k] \in C => old[i] # s[k]
      <4> SUFFICES ASSUME NEW i \in DOMAIN old, s[k] \in C, old[i] = s[k] PROVE FALSE
        OBVIOUS
      <4>1. PICK h \in 1 .. (k - 1) : old[i] = s[h]
        BY <3>2
      <4>2. h \in DOMAIN s /\ h # k /\ k \in DOMAIN s
        BY <2>1
      <4> QED BY <4>1, <4>2, Zenon DEF DistinctIn
    <3>4. DistinctIn(new, C)
      <4> SUFFICES ASSUME NEW i \in DOMAIN new, NEW j \in DOMAIN new,
                          new[i] = new[j], new[i] \in C
                   PROVE  i = j
        BY DEF DistinctIn
      <4>1. DistinctIn(old, C)
        BY <2>3 DEF old
      <4>2. CASE i \in DOMAIN old /\ new[i] = old[i] /\ j \in DOMAIN old /\ new[j] = old[j]
        BY <4>1, <4>2, Zenon DEF DistinctIn
      <4>3. CASE i \in DOMAIN old /\ new[i] = old[i] /\ j = Len(old) + 1
        BY <3>1, <3>3, <4>3, Zenon
      <4>4. CASE j \in DOMAIN old /\ new[j] = old[j] /\ i = Len(old) + 1
        BY <3>1, <3>3, <4>4, Zenon
      <4>5. CASE i = Len(old) + 1 /\ j = Len(old) + 1
        BY <4>5
      <4> QED BY <3>1, <4>2, <4>3, <4>4, <4>5, Zenon
    <3>5. \A j \in DOMAIN new : \E i \in 1 .. k : new[j] = s[i]
      BY <2>1, <3>1, <3>2, Zenon
    <3>6. kept[k] = new
      BY <2>7 DEF new
    <3>7. From(k)
      BY <3>5, <3>6, Zenon
    <3> QED BY <3>4, <3>6, <3>7
  <2>8. kept[k] = old \/ kept[k] = Append(old, s[k])
    BY <1>3 DEF old
  <2> QED BY <2>6, <2>7, <2>8
<1> HIDE DEF Good
<1> DEFINE T == {k \in 0 .. n : ~Good(k)}
<1>6. T \in SUBSET Nat /\ \A k : k \in T <=> k \in 0 .. n /\ ~Good(k)
  BY <1>2
<1> HIDE DEF T
<1>7. T = {}
  <2> SUFFICES ASSUME T # {} PROVE FALSE
    OBVIOUS
  <2>1. PICK k \in T : \A l \in T : k <= l
    BY <1>6, LeastNat
  <2>2. k \in 0 .. n /\ ~Good(k) /\ k # 0
    BY <1>4, <1>6
  <2>3. k \in 1 .. n /\ k - 1 \in 0 .. n /\ ~(k <= k - 1)
    BY <1>2, <2>2
  <2>4. Good(k - 1)
    BY <1>6, <2>1, <2>3
  <2> QED BY <1>5, <2>2, <2>3, <2>4
<1>8. Good(n)
  <2>1. n \in 0 .. n
    BY <1>2
  <2> QED BY <1>6, <1>7, <2>1
<1>9. DistinctIn(kept[n], C)
  BY <1>8 DEF Good
<1> QED BY <1>1, <1>9 DEF n

\* Lists that repeat nothing and have nothing in common make such a list, and
\* one of them has each of its elements.
LEMMA FlattenDistinct ==
  ASSUME NEW S, NEW q \in Seq(Seq(S)), \A i \in DOMAIN q : DistinctIn(q[i], S),
         \A i, j \in DOMAIN q : Range(q[i]) \cap Range(q[j]) # {} => i = j
  PROVE  /\ DistinctIn(FlattenSeq(q), S)
         /\ \A x \in Range(FlattenSeq(q)) : \E i \in DOMAIN q : x \in Range(q[i])
<1> DEFINE n == Len(q)
           X == Seq(S)
<1>1. n \in Nat /\ DOMAIN q = 1 .. n /\ \A k \in 1 .. n : q[k] \in X
  BY LenProperties, ElementOfSeq
<1>2. CASE n = 0
  <2>1. q = <<>> /\ FlattenSeq(q) = q
    BY <1>2, EmptySeq DEF FlattenSeq
  <2>2. DOMAIN FlattenSeq(q) = {}
    BY <2>1
  <2> QED BY <2>2 DEF DistinctIn, Range
<1>3. CASE n # 0
  <2>1. PICK f : Flattening(S, q, f) /\ FlattenSeq(q) = f[n]
    BY <1>3, Flattens
  <2>2. /\ f \in [1 .. n -> X]
        /\ \A k \in 1 .. n : f[k] = IF k = 1 THEN q[k] ELSE f[k - 1] \o q[k]
    BY <2>1 DEF Flattening
  <2> DEFINE From(k) == \A x \in Range(f[k]) : \E i \in 1 .. k : x \in Range(q[i])
             Good(k) == DistinctIn(f[k], S) /\ From(k)
  <2>3. ASSUME NEW s \in X, NEW t \in X
        PROVE  Range(s \o t) = Range(s) \cup Range(t)
    BY RangeConcatenation
  <2>4. ASSUME NEW s \in X, NEW t \in X, DistinctIn(s, S), DistinctIn(t, S),
               Range(s) \cap Range(t) = {}
        PROVE  DistinctIn(s \o t, S)
    <3>1. Range(s) \cap Range(t) \cap S = {}
      BY <2>4
    <3> QED BY <2>4, <3>1, ConcatDistinct
  <2> HIDE DEF n, X
  <2>5. Good(1)
    <3>1. 1 \in 1 .. n /\ 1 \in 1 .. 1
      BY <1>1, <1>3
    <3>2. f[1] = q[1]
      BY <2>2, <3>1
    <3> QED BY <1>1, <3>1, <3>2
  <2>6. ASSUME NEW k \in 1 .. n, k # 1, Good(k - 1) PROVE Good(k)
    <3>1. k - 1 \in 1 .. n /\ k \in 1 .. k
          /\ (\A i \in 1 .. (k - 1) : i \in 1 .. k /\ i \in 1 .. n /\ i # k)
      BY <1>1, <2>6
    <3>2. f[k] = f[k - 1] \o q[k] /\ f[k - 1] \in X /\ q[k] \in X
      BY <1>1, <2>2, <2>6, <3>1
    <3>3. DistinctIn(f[k - 1], S)
          /\ \A x \in Range(f[k - 1]) : \E i \in 1 .. (k - 1) : x \in Range(q[i])
      BY <2>6
    <3>4. Range(f[k - 1]) \cap Range(q[k]) = {}
      <4> SUFFICES ASSUME NEW x, x \in Range(f[k - 1]), x \in Range(q[k]) PROVE FALSE
        OBVIOUS
      <4>1. PICK i \in 1 .. (k - 1) : x \in Range(q[i])
        BY <3>3
      <4>2. Range(q[i]) \cap Range(q[k]) # {}
        BY <4>1
      <4>3. i \in DOMAIN q /\ k \in DOMAIN q /\ i # k
        BY <1>1, <3>1
      <4> QED BY <4>2, <4>3
    <3>5. DistinctIn(q[k], S)
      BY <1>1
    <3>6. DistinctIn(f[k], S)
      BY <2>4, <3>2, <3>3, <3>4, <3>5
    <3>7. Range(f[k]) = Range(f[k - 1]) \cup Range(q[k])
      BY <2>3, <3>2
    <3>8. From(k)
      BY <3>1, <3>3, <3>7, Zenon
    <3> QED BY <3>6, <3>8
  <2> HIDE DEF Good
  <2> DEFINE T == {k \in 1 .. n : ~Good(k)}
  <2>7. T \in SUBSET Nat /\ \A k : k \in T <=> k \in 1 .. n /\ ~Good(k)
    BY <1>1
  <2> HIDE DEF T
  <2>8. T = {}
    <3> SUFFICES ASSUME T # {} PROVE FALSE
      OBVIOUS
    <3>1. PICK k \in T : \A l \in T : k <= l
      BY <2>7, LeastNat
    <3>2. k \in 1 .. n /\ ~Good(k) /\ k # 1
      BY <2>5, <2>7
    <3>3. k - 1 \in 1 .. n /\ ~(k <= k - 1)
      BY <1>1, <3>2
    <3>4. Good(k - 1)
      BY <2>7, <3>1, <3>3
    <3> QED BY <2>6, <3>2, <3>4
  <2>9. Good(n)
    <3>1. n \in 1 .. n
      BY <1>1, <1>3
    <3> QED BY <2>7, <2>8, <3>1
  <2> QED BY <1>1, <2>1, <2>9 DEF Good
<1> QED BY <1>2, <1>3
=============================================================================
