---------------------------- MODULE RelaxProofs ----------------------------
(***************************************************************************)
(* Proofs about the assembler's layout, for any unit: any sections, any    *)
(* chains of frags, any symbols.  A frag is converted to exactly the bytes *)
(* between its address and the next one's, a branch that stays short       *)
(* reaches its target, and an .org leads where it says.                    *)
(***************************************************************************)
EXTENDS Relax, ProofLemmas, TLAPS

-----------------------------------------------------------------------------
(***************************************************************************)
(* The inductive invariant.  Its parts that speak of one frag are given    *)
(* the unit and the fields, so that they can be carried over a step.       *)
(***************************************************************************)

FragOf(u, s, i) == u.sect[s].frags[i]
LenOf(u, s) == Len(u.sect[s].frags)

\* The bytes of the variable part of a frag f of type ty in state st that
\* begins at a.
VarSize(arm, f, ty, st, a) ==
  CASE ty = "rs_fill"   -> f.fill
    [] ty = "rs_align"  -> Padding(f, a)
    [] ty = "rs_leb128" -> st
    [] OTHER -> IF arm THEN st ELSE md_relax_table[st].length

\* With its present size the frag ends at next; a jump that is still relaxed
\* stays in its section.  Nothing is known of an .org.
Link(u, s, i, T, X, S, A, next) ==
  /\ T[s][i] = "rs_machine_dependent" /\ ~u.arm => FragOf(u, s, i).sym.sec = s
  /\ T[s][i] # "rs_org" =>
       next = A[s][i] + X[s][i]
                + VarSize(u.arm, FragOf(u, s, i), T[s][i], S[s][i], A[s][i] + X[s][i])

\* The difference of an rs_leb128 of section s is one of two symbols of one
\* section, which is laid out with s or before it: "they may be refering to
\* sections such that their sizes too must be known first".
LebKnown(u, s, f) ==
  /\ f.sub.sec = f.sym.sec /\ ~u.sect[f.sym.sec].zerofill
  /\ u.sect[f.sym.sec].pass <= u.sect[s].pass

\* An instruction in a short state whose field begins at end reaches v.
Reaches(arm, s, f, ty, st, end, v) ==
  ty = "rs_machine_dependent" =>
    /\ ~arm /\ st % 4 \in {0, 1} => f.off + v - end \in -127 .. 128
    /\ arm /\ st = 2 /\ f.op = "branch" =>
         f.sym.sec = s /\ f.off + v - (end + 4) \in -(2^f.bits) .. (2^f.bits - 1)
    /\ arm /\ st = 2 /\ f.op = "adr" /\ f.sym.sec = s =>
         f.off + v - ((end + 4) \div 4) * 4 \in 0 .. 1020

\* The state of the frag is the one that the addresses A call for.
Settled(u, s, i, T, X, S, A) ==
  LET f == FragOf(u, s, i)
  IN  /\ T[s][i] = "rs_leb128" /\ LebKnown(u, s, f) =>
           S[s][i] = sizeof_leb128(LebValue(A, f), f.sign)
      /\ Reaches(u.arm, s, f, T[s][i], S[s][i], A[s][i] + X[s][i], Sym(A, f.sym))

\* The layout has a field for every frag.
Shape(u, F) ==
  /\ DOMAIN F = 1 .. Len(u.sect)
  /\ \A s \in 1 .. Len(u.sect) : DOMAIN F[s] = 1 .. LenOf(u, s)

\* The values of the fields of one frag.
FieldsOK(u, s, i, T, X, S, A, L) ==
  LET f == FragOf(u, s, i)
  IN  /\ T[s][i] \in {f.type, "rs_fill"} /\ X[s][i] \in Nat
      /\ S[s][i] \in Int
      /\ T[s][i] = "rs_machine_dependent" /\ ~u.arm => S[s][i] \in 0 .. 11
      /\ A[s][i] \in Int /\ L[s][i] \in Int

Active == pc \in {"guess", "relax"}

Typed ==
  /\ unit \in Units
  /\ Shape(unit, fr_type) /\ Shape(unit, fr_fix) /\ Shape(unit, fr_state)
  /\ Shape(unit, fr_address) /\ Shape(unit, last_fr_address)
  /\ DOMAIN align = Sects /\ \A s \in Sects : align[s] \in Nat
  /\ \A s \in Sects : \A i \in Frags(s) :
       FieldsOK(unit, s, i, fr_type, fr_fix, fr_state, fr_address, last_fr_address)
  /\ address \in Int /\ stretch \in Int /\ sec \in Nat \ {0} /\ cur \in Nat \ {0}

\* Where layout_addresses is.
Place ==
  /\ pc \in {"enter", "guess", "relax", "slide", "convert", "done"}
  /\ pc \in {"enter", "guess", "relax"} => layout_pass \in 0 .. 2
  /\ pc \in {"slide", "convert", "done"} => layout_pass = 3
  /\ pc = "enter" => sec \in 1 .. Len(unit.sect) + 1
  /\ Active => sec \in Sects /\ ~Zerofill(sec) /\ unit.sect[sec].pass = layout_pass
  /\ pc = "guess" => cur \in Frags(sec)
  /\ pc = "relax" => cur \in 1 .. Len(unit.sect[sec].frags) + 1

\* The first guess has given the frags before cur their places.
Guessing ==
  pc = "guess" => \A i \in 1 .. cur - 1 :
    Link(unit, sec, i, fr_type, fr_fix, fr_state, fr_address,
         IF i = cur - 1 THEN address ELSE fr_address[sec][i + 1])

\* Before cur the frags follow each other with their new sizes, from cur on
\* with their old ones, and at cur they are stretch apart.  A pass on which
\* nothing has stretched has met frags whose states were right.
Relaxing ==
  pc = "relax" =>
    /\ \A i \in 1 .. Len(unit.sect[sec].frags) - 1 :
         Link(unit, sec, i, fr_type, fr_fix, fr_state, fr_address,
              fr_address[sec][i + 1] + (IF i = cur - 1 THEN stretch ELSE 0))
    /\ ~stretched =>
         /\ stretch = 0
         /\ \A i \in 1 .. Len(unit.sect[sec].frags) - 1 : i < cur =>
              Settled(unit, sec, i, fr_type, fr_fix, fr_state, fr_address)

\* Only the section at hand has other addresses than the last call of
\* relax_section left.
Kept ==
  pc \in {"enter", "guess", "relax", "slide"} => \A s \in Sects : \A i \in Frags(s) :
    ~(Active /\ s = sec) => fr_address[s][i] = last_fr_address[s][i]

\* A section that this round of this pass, or an earlier pass, is done with.
Earlier(s) == unit.sect[s].pass < layout_pass
Laid(s) == Earlier(s) \/ (unit.sect[s].pass = layout_pass /\ s < sec)

\* Such a section is a chain of frags without a gap, and its states are right
\* unless the round has changed an address since.
LaidOut ==
  \A s \in Sects : ~Zerofill(s) /\ Laid(s) => \A i \in 1 .. Len(unit.sect[s].frags) - 1 :
    /\ Link(unit, s, i, fr_type, fr_fix, fr_state, last_fr_address, last_fr_address[s][i + 1])
    /\ Earlier(s) \/ ~changed =>
         Settled(unit, s, i, fr_type, fr_fix, fr_state, last_fr_address)

\* A section has slid as a whole, by a multiple of four if it is aligned to one.
SlidBy(s) == fr_address[s][1] - last_fr_address[s][1]
Slid ==
  pc \in {"convert", "done"} => \A s \in Sects : ~Zerofill(s) =>
    /\ \A i \in Frags(s) : fr_address[s][i] = last_fr_address[s][i] + SlidBy(s)
    /\ align[s] >= 2 => SlidBy(s) % 4 = 0

\* What the conversion has written.
Wrote ==
  pc = "done" =>
    /\ DOMAIN bytes = Sects /\ \A s \in Sects : DOMAIN bytes[s] = Frags(s)
    /\ \A s \in Sects : ~Zerofill(s) => \A i \in Frags(s) : bytes[s][i] = Converted(s, i)

IInv == Typed /\ Place /\ Guessing /\ Relaxing /\ Kept /\ LaidOut /\ Slid /\ Wrote

-----------------------------------------------------------------------------
(***************************************************************************)
(* Sizes.                                                                  *)
(***************************************************************************)

\* The assumption on units, for the one at hand.
LEMMA TheUnit ==
  ASSUME NEW u \in Units
  PROVE  /\ Len(u.sect) \in Nat
         /\ \A s \in 1 .. Len(u.sect) :
              /\ u.sect[s].zerofill \in BOOLEAN /\ u.sect[s].pass \in 0 .. 2
              /\ u.sect[s].align \in Nat /\ u.sect[s].size \in Nat
              /\ LenOf(u, s) \in Nat \ {0}
              /\ \A i \in 1 .. LenOf(u, s) : FragOK(u, FragOf(u, s, i))
              /\ FragOf(u, s, LenOf(u, s)).type = "rs_fill"
BY UnitsAssumption DEF LenOf, FragOf

\* A table of reach, length and next state: a short form has a longer one, of
\* another length, and the conversion writes the length of the table.
LEMMA RelaxTable ==
  ASSUME NEW st \in 0 .. 11
  PROVE  /\ md_relax_table[st].length \in Nat /\ Extension(st) = md_relax_table[st].length
         /\ st % 4 \in {0, 1} =>
              /\ md_relax_table[st].more = st + 2 /\ st + 2 \in 0 .. 11 /\ st + 2 # 0
              /\ md_relax_table[st].length = 1
              /\ md_relax_table[st].forward = 128 /\ md_relax_table[st].backward = -127
              /\ md_relax_table[st + 2].length # 1
         /\ st % 4 \notin {0, 1} => md_relax_table[st].more = 0
<1>1. st \in {0, 1, 2, 3, 4, 5, 6, 7, 8, 9, 10, 11}
  OBVIOUS
<1> QED BY <1>1 DEF md_relax_table, Extension

\* A padding is a number.
LEMMA PaddingType ==
  ASSUME NEW f, f.exp \in Nat, f.max \in Nat, NEW a \in Int
  PROVE  Padding(f, a) \in Nat
<1>1. 2^f.exp \in Nat /\ 2^f.exp > 0
  BY PowerOfTwo
<1>2. (-a) % (2^f.exp) \in Nat
  BY <1>1
<1> QED BY <1>2 DEF Padding, relax_align

\* The length of a leb128 is a number.
LEMMA LebType ==
  ASSUME NEW v, NEW g
  PROVE  sizeof_leb128(v, g) \in Nat
<1>1. IsFiniteSet(0 .. 3)
  <2>1. 0 .. 3 \in SUBSET Nat /\ \A n \in 0 .. 3 : n <= 3
    OBVIOUS
  <2> QED BY <2>1, FS_BoundedSetOfNaturals
<1>2. ASSUME NEW P \in SUBSET (0 .. 3) PROVE Cardinality(P) \in Nat
  BY <1>1, FS_Subset, FS_CardinalityType
<1>3. Cardinality({n \in 0 .. 2 : v \notin -(64 * 128^n) .. (64 * 128^n - 1)}) \in Nat
  <2>1. {n \in 0 .. 2 : v \notin -(64 * 128^n) .. (64 * 128^n - 1)} \in SUBSET (0 .. 3)
    OBVIOUS
  <2> QED BY <1>2, <2>1
<1>4. Cardinality({n \in 1 .. 3 : v >= 128^n}) \in Nat
  <2>1. {n \in 1 .. 3 : v >= 128^n} \in SUBSET (0 .. 3)
    OBVIOUS
  <2> QED BY <1>2, <2>1
<1> QED BY <1>3, <1>4 DEF sizeof_leb128

\* The size of a variable part is a number.
LEMMA VarType ==
  ASSUME NEW u, NEW f, FragOK(u, f), NEW ty \in {f.type, "rs_fill"}, NEW st \in Int,
         ty = "rs_machine_dependent" /\ ~u.arm => st \in 0 .. 11, ty # "rs_org", NEW a \in Int
  PROVE  VarSize(u.arm, f, ty, st, a) \in Int
<1>1. CASE ty \in {"rs_fill", "rs_leb128"}
  BY <1>1 DEF VarSize, FragOK
<1>2. CASE ty = "rs_align"
  BY <1>2, PaddingType DEF VarSize, FragOK
<1>3. CASE ty = "rs_machine_dependent"
  BY <1>3, RelaxTable DEF VarSize
<1> QED BY <1>1, <1>2, <1>3 DEF FragOK
-----------------------------------------------------------------------------
(***************************************************************************)
(* What a step leaves alone.                                               *)
(***************************************************************************)

\* G is F but for the field of one frag.
Same(u, s, i, F, G) ==
  \A t \in 1 .. Len(u.sect) : \A j \in 1 .. LenOf(u, t) : t # s \/ j # i => G[t][j] = F[t][j]

\* A link depends on the fields of the frag alone.
LEMMA LinkSame ==
  ASSUME NEW u, NEW s, NEW i, NEW T, NEW X, NEW S, NEW A, NEW next,
         NEW T1, NEW X1, NEW S1, NEW A1,
         T1[s][i] = T[s][i], X1[s][i] = X[s][i], S1[s][i] = S[s][i], A1[s][i] = A[s][i],
         Link(u, s, i, T, X, S, A, next)
  PROVE  Link(u, s, i, T1, X1, S1, A1, next)
BY DEF Link

\* The right state depends on the fields of the frag, the addresses of its
\* section and the addresses of sections that are laid out with it or before it.
LEMMA SettledSame ==
  ASSUME NEW u \in Units, NEW s \in 1 .. Len(u.sect), NEW i \in 1 .. LenOf(u, s),
         ~u.sect[s].zerofill,
         NEW T, NEW X, NEW S, NEW A, NEW next, NEW T1, NEW X1, NEW S1, NEW A1,
         T[s][i] \in {FragOf(u, s, i).type, "rs_fill"},
         T1[s][i] = T[s][i], X1[s][i] = X[s][i], S1[s][i] = S[s][i],
         \A t \in 1 .. Len(u.sect) : \A j \in 1 .. LenOf(u, t) :
           ~u.sect[t].zerofill /\ u.sect[t].pass <= u.sect[s].pass => A1[t][j] = A[t][j],
         Link(u, s, i, T, X, S, A, next), Settled(u, s, i, T, X, S, A)
  PROVE  Settled(u, s, i, T1, X1, S1, A1)
<1> DEFINE f == FragOf(u, s, i)
<1>1. FragOK(u, f) /\ u.sect[s].pass \in Int
  BY TheUnit
<1>2. A1[s][i] = A[s][i]
  BY <1>1
<1>3. ASSUME NEW y, y = f.sym \/ y = f.sub, y.sec # 0, ~u.sect[y.sec].zerofill,
             u.sect[y.sec].pass <= u.sect[s].pass
      PROVE  Sym(A1, y) = Sym(A, y)
  <2>1. y.sec \in 1 .. Len(u.sect) /\ y.frag \in 1 .. LenOf(u, y.sec)
    BY <1>1, <1>3 DEF FragOK, LenOf
  <2> QED BY <1>3, <2>1 DEF Sym
<1>4. s # 0 /\ u.sect[s].pass <= u.sect[s].pass
  BY <1>1
<1>5. T[s][i] = "rs_leb128" => f.sym.sec # 0 /\ f.sub.sec # 0
  BY <1>1 DEF FragOK
<1> HIDE DEF f
<1>6. ASSUME T[s][i] = "rs_leb128", LebKnown(u, s, f)
      PROVE  LebValue(A1, f) = LebValue(A, f)
  <2>1. Sym(A1, f.sym) = Sym(A, f.sym)
    BY <1>3, <1>5, <1>6 DEF LebKnown
  <2>2. Sym(A1, f.sub) = Sym(A, f.sub)
    BY <1>3, <1>5, <1>6 DEF LebKnown
  <2> QED BY <2>1, <2>2 DEF LebValue
<1>7. ASSUME f.sym.sec = s PROVE Sym(A1, f.sym) = Sym(A, f.sym)
  BY <1>3, <1>4, <1>7
<1>8. T[s][i] = "rs_machine_dependent" /\ ~u.arm => f.sym.sec = s
  BY DEF Link, f
<1>9. Reaches(u.arm, s, f, T[s][i], S[s][i], A[s][i] + X[s][i], Sym(A, f.sym))
  BY DEF Settled, f
<1>10. Reaches(u.arm, s, f, T[s][i], S[s][i], A[s][i] + X[s][i], Sym(A1, f.sym))
  <2>1. CASE f.sym.sec = s
    BY <1>7, <1>9, <2>1
  <2>2. CASE f.sym.sec # s
    BY <1>8, <1>9, <2>2 DEF Reaches
  <2> QED BY <2>1, <2>2
<1>11. Reaches(u.arm, s, f, T1[s][i], S1[s][i], A1[s][i] + X1[s][i], Sym(A1, f.sym))
  BY <1>2, <1>10
<1>12. T1[s][i] = "rs_leb128" /\ LebKnown(u, s, f) =>
        S1[s][i] = sizeof_leb128(LebValue(A1, f), f.sign)
  BY <1>6 DEF Settled, f
<1> QED BY <1>11, <1>12 DEF Settled, f

\* While one section is laid out, nothing changes for those that are done.
LEMMA OthersKept ==
  ASSUME Typed, Place, LaidOut, Active,
         Same(unit, sec, cur, fr_type, fr_type'), Same(unit, sec, cur, fr_fix, fr_fix'),
         Same(unit, sec, cur, fr_state, fr_state'),
         UNCHANGED <<unit, last_fr_address, layout_pass, sec, changed>>
  PROVE  LaidOut'
<1> SUFFICES ASSUME NEW s \in Sects, ~Zerofill(s), Laid(s),
                    NEW i \in 1 .. Len(unit.sect[s].frags) - 1
             PROVE  /\ Link(unit, s, i, fr_type', fr_fix', fr_state', last_fr_address,
                            last_fr_address[s][i + 1])
                    /\ Earlier(s) \/ ~changed =>
                         Settled(unit, s, i, fr_type', fr_fix', fr_state', last_fr_address)
  BY DEF LaidOut, Laid, Earlier, Sects, Zerofill
<1>1. unit \in Units /\ s \in 1 .. Len(unit.sect) /\ s # sec /\ ~unit.sect[s].zerofill
  BY TheUnit DEF Typed, Place, Laid, Earlier, Sects, Zerofill, Active
<1>2. i \in 1 .. LenOf(unit, s)
  BY <1>1, TheUnit DEF LenOf
<1>3. /\ fr_type'[s][i] = fr_type[s][i] /\ fr_fix'[s][i] = fr_fix[s][i]
      /\ fr_state'[s][i] = fr_state[s][i]
  BY <1>1, <1>2 DEF Same
<1>4. fr_type[s][i] \in {FragOf(unit, s, i).type, "rs_fill"}
  BY <1>2 DEF Typed, FieldsOK, Sects, Frags, LenOf
<1>5. Link(unit, s, i, fr_type, fr_fix, fr_state, last_fr_address, last_fr_address[s][i + 1])
  BY DEF LaidOut
<1>6. Link(unit, s, i, fr_type', fr_fix', fr_state', last_fr_address, last_fr_address[s][i + 1])
  BY <1>3, <1>5, LinkSame
<1>7. ASSUME Earlier(s) \/ ~changed
      PROVE  Settled(unit, s, i, fr_type', fr_fix', fr_state', last_fr_address)
  <2>1. Settled(unit, s, i, fr_type, fr_fix, fr_state, last_fr_address)
    BY <1>7 DEF LaidOut
  <2> QED BY <1>1, <1>2, <1>3, <1>4, <1>5, <2>1, SettledSame
<1> QED BY <1>6, <1>7
-----------------------------------------------------------------------------
(***************************************************************************)
(* The loops of layout_addresses.                                          *)
(***************************************************************************)

\* No section is laid out before the first pass.
LEMMA NoneLaid ==
  ASSUME Init
  PROVE  \A s \in Sects : ~Laid(s)
<1>1. unit \in Units /\ sec = 1 /\ layout_pass = 0
  BY DEF Init
<1>2. \A s \in Sects : s \in Nat \ {0} /\ unit.sect[s].pass \in 0 .. 2
  BY <1>1, TheUnit DEF Sects
<1> QED BY <1>1, <1>2 DEF Laid, Earlier

\* Nothing is laid out at first.
LEMMA InitInv == Init => IInv
<1> SUFFICES ASSUME Init PROVE IInv
  OBVIOUS
<1>0. unit \in Units /\ pc = "enter" /\ sec = 1 /\ layout_pass = 0 /\ ~Active
  BY DEF Init, Active
<1>1. Typed
  <2>1. /\ Shape(unit, fr_type) /\ Shape(unit, fr_fix) /\ Shape(unit, fr_state)
        /\ Shape(unit, fr_address) /\ Shape(unit, last_fr_address)
    BY DEF Init, Shape, Sects, Frags, LenOf
  <2>2. DOMAIN align = Sects /\ \A s \in Sects : align[s] \in Nat
    BY <1>0, TheUnit DEF Init, Sects
  <2>3. ASSUME NEW s \in Sects, NEW i \in Frags(s)
        PROVE  FieldsOK(unit, s, i, fr_type, fr_fix, fr_state, fr_address, last_fr_address)
    <3>1. FragOK(unit, FragOf(unit, s, i))
      BY <1>0, TheUnit DEF Sects, Frags, LenOf
    <3>2. /\ fr_type[s][i] = FragOf(unit, s, i).type /\ fr_fix[s][i] = FragOf(unit, s, i).fix
          /\ fr_state[s][i] = FragOf(unit, s, i).state
          /\ fr_address[s][i] = 0 /\ last_fr_address[s][i] = 0
      BY DEF Init, Frag, FragOf
    <3> QED BY <3>1, <3>2 DEF FieldsOK, FragOK
  <2>4. address \in Int /\ stretch \in Int /\ sec \in Nat \ {0} /\ cur \in Nat \ {0}
    BY DEF Init
  <2> QED BY <1>0, <2>1, <2>2, <2>3, <2>4 DEF Typed
<1>2. Place
  BY <1>0, TheUnit DEF Place
<1>3. Guessing /\ Relaxing /\ Slid /\ Wrote
  BY <1>0 DEF Guessing, Relaxing, Slid, Wrote
<1>4. Kept
  BY DEF Kept, Init
<1>5. LaidOut
  BY NoneLaid DEF LaidOut
<1> QED BY <1>1, <1>2, <1>3, <1>4, <1>5 DEF IInv

\* A step of the loops over the sections keeps the frags.
LEMMA LoopStep ==
  ASSUME Typed, UNCHANGED <<unit, fragVars>>, sec' \in Nat \ {0}, cur' \in Nat \ {0},
         address' \in Int, stretch' \in Int
  PROVE  Typed'
BY DEF Typed, fragVars, Sects, Frags

\* A section that is skipped has been laid out or has its turn on another pass.
LEMMA SkipSectionInv ==
  ASSUME IInv, SkipSection
  PROVE  IInv'
<1>1. /\ pc = "enter" /\ pc' = "enter" /\ sec' = sec + 1 /\ sec \in 1 .. Len(unit.sect)
      /\ UNCHANGED <<unit, fr_type, fr_fix, fr_state, fr_address, last_fr_address, align,
                     layout_pass, cur, address, stretch, changed>>
  BY DEF SkipSection, fragVars, Sects
<1>2. unit \in Units /\ Len(unit.sect) \in Nat /\ layout_pass \in 0 .. 2
  BY <1>1, TheUnit DEF IInv, Typed, Place
<1>3. Typed'
  <2>1. Typed /\ address \in Int /\ stretch \in Int /\ sec \in Nat \ {0} /\ cur \in Nat \ {0}
    BY DEF IInv, Typed
  <2>2. /\ sec' \in Nat \ {0} /\ cur' \in Nat \ {0}
        /\ address' \in Int /\ stretch' \in Int
    BY <1>1, <2>1 DEF Sects
  <2>3. UNCHANGED <<unit, fragVars>>
    BY <1>1 DEF fragVars
  <2> QED BY <2>1, <2>2, <2>3, LoopStep
<1>4. Place'
  BY <1>1, <1>2 DEF IInv, Place, Active
<1>5. Guessing' /\ Relaxing' /\ Slid' /\ Wrote'
  BY <1>1 DEF Guessing, Relaxing, Slid, Wrote
<1>6. Kept'
  BY <1>1 DEF IInv, Kept, Active, Sects, Frags
<1>7. LaidOut'
  <2>1. ASSUME NEW s \in Sects, ~Zerofill(s), Laid(s)' PROVE Laid(s)
    <3>1. s # sec \/ unit.sect[s].pass # layout_pass
      BY <2>1 DEF SkipSection
    <3> QED BY <1>1, <1>2, <2>1, <3>1, TheUnit DEF Laid, Earlier, Sects
  <2>2. \A s : Earlier(s)' <=> Earlier(s)
    BY <1>1 DEF Earlier
  <2> QED BY <1>1, <2>1, <2>2 DEF IInv, LaidOut, Sects, Zerofill
<1> QED BY <1>3, <1>4, <1>5, <1>6, <1>7 DEF IInv

\* relax_section starts with the first guess.
LEMMA EnterSectionInv ==
  ASSUME IInv, EnterSection
  PROVE  IInv'
<1>1. /\ pc = "enter" /\ pc' = "guess" /\ cur' = 1 /\ address' = 0 /\ sec \in Sects
      /\ unit.sect[sec].pass = layout_pass /\ ~Zerofill(sec)
      /\ UNCHANGED <<unit, fr_type, fr_fix, fr_state, fr_address, last_fr_address, align,
                     layout_pass, sec, stretch, changed>>
  BY DEF EnterSection, fragVars
<1>2. unit \in Units /\ Len(unit.sect) \in Nat /\ Len(unit.sect[sec].frags) \in Nat \ {0}
  BY <1>1, TheUnit DEF IInv, Typed, LenOf, Sects
<1>3. Typed'
  <2>1. Typed /\ address \in Int /\ stretch \in Int /\ sec \in Nat \ {0} /\ cur \in Nat \ {0}
    BY DEF IInv, Typed
  <2>2. /\ sec' \in Nat \ {0} /\ cur' \in Nat \ {0}
        /\ address' \in Int /\ stretch' \in Int
    BY <1>1, <2>1 DEF Sects
  <2>3. UNCHANGED <<unit, fragVars>>
    BY <1>1 DEF fragVars
  <2> QED BY <2>1, <2>2, <2>3, LoopStep
<1>4. Place'
  BY <1>1, <1>2 DEF IInv, Place, Active, Sects, Frags, Zerofill
<1>5. Guessing' /\ Relaxing' /\ Slid' /\ Wrote'
  BY <1>1 DEF Guessing, Relaxing, Slid, Wrote
<1>6. Kept'
  BY <1>1 DEF IInv, Kept, Active, Sects, Frags
<1>7. LaidOut'
  BY <1>1 DEF IInv, LaidOut, Laid, Earlier, Sects, Zerofill
<1> QED BY <1>3, <1>4, <1>5, <1>6, <1>7 DEF IInv

\* A round that has changed no address is the last one of its pass.
LEMMA EndRoundInv ==
  ASSUME IInv, EndRound
  PROVE  IInv'
<1>1. /\ pc = "enter" /\ sec' = 1 /\ ~changed' /\ sec \notin Sects
      /\ layout_pass' = IF changed THEN layout_pass ELSE layout_pass + 1
      /\ pc' = IF ~changed /\ layout_pass = 2 THEN "slide" ELSE "enter"
      /\ UNCHANGED <<unit, fr_type, fr_fix, fr_state, fr_address, last_fr_address, align,
                     cur, address, stretch>>
  BY DEF EndRound, fragVars
<1>2. unit \in Units /\ Len(unit.sect) \in Nat /\ layout_pass \in 0 .. 2
      /\ sec = Len(unit.sect) + 1
  BY <1>1, TheUnit DEF IInv, Typed, Place, Sects
<1>3. Typed'
  <2>1. Typed /\ address \in Int /\ stretch \in Int /\ sec \in Nat \ {0} /\ cur \in Nat \ {0}
    BY DEF IInv, Typed
  <2>2. /\ sec' \in Nat \ {0} /\ cur' \in Nat \ {0}
        /\ address' \in Int /\ stretch' \in Int
    BY <1>1, <2>1 DEF Sects
  <2>3. UNCHANGED <<unit, fragVars>>
    BY <1>1 DEF fragVars
  <2> QED BY <2>1, <2>2, <2>3, LoopStep
<1>4. Place'
  BY <1>1, <1>2 DEF Place, Active
<1>5. Guessing' /\ Relaxing' /\ Slid' /\ Wrote'
  BY <1>1 DEF Guessing, Relaxing, Slid, Wrote
<1>6. Kept'
  BY <1>1 DEF IInv, Kept, Active, Sects, Frags
<1>7. LaidOut'
  <2>1. ASSUME NEW s \in Sects, Laid(s)'
        PROVE  Laid(s) /\ (Earlier(s) \/ ~changed)
    <3>1. unit.sect[s].pass \in Int /\ s \in 1 .. Len(unit.sect)
      BY <1>2, TheUnit DEF Sects
    <3> QED BY <1>1, <1>2, <2>1, <3>1 DEF Laid, Earlier
  <2> QED BY <1>1, <2>1 DEF IInv, LaidOut, Sects, Zerofill
<1> QED BY <1>3, <1>4, <1>5, <1>6, <1>7 DEF IInv
-----------------------------------------------------------------------------
(***************************************************************************)
(* The first guess.                                                        *)
(***************************************************************************)

\* New fields of one frag are typed if its own are.
LEMMA FieldsStep ==
  ASSUME Typed, sec \in Sects, cur \in Frags(sec), UNCHANGED <<unit, last_fr_address, sec>>,
         Shape(unit, fr_type'), Shape(unit, fr_fix'), Shape(unit, fr_state'),
         Shape(unit, fr_address'), Same(unit, sec, cur, fr_address, fr_address'),
         Same(unit, sec, cur, fr_type, fr_type'), Same(unit, sec, cur, fr_fix, fr_fix'),
         Same(unit, sec, cur, fr_state, fr_state'),
         FieldsOK(unit, sec, cur, fr_type', fr_fix', fr_state', fr_address', last_fr_address),
         DOMAIN align' = Sects, \A s \in Sects : align'[s] \in Nat,
         cur' \in Nat \ {0}, address' \in Int, stretch' \in Int
  PROVE  Typed'
<1>1. ASSUME NEW s \in Sects, NEW i \in Frags(s)
      PROVE  FieldsOK(unit, s, i, fr_type', fr_fix', fr_state', fr_address', last_fr_address)
  <2>1. CASE s = sec /\ i = cur
    BY <2>1
  <2>2. CASE s # sec \/ i # cur
    <3>1. /\ fr_type'[s][i] = fr_type[s][i] /\ fr_fix'[s][i] = fr_fix[s][i]
          /\ fr_state'[s][i] = fr_state[s][i] /\ fr_address'[s][i] = fr_address[s][i]
      BY <1>1, <2>2 DEF Same, Sects, Frags, LenOf
    <3>2. FieldsOK(unit, s, i, fr_type, fr_fix, fr_state, fr_address, last_fr_address)
      BY DEF Typed
    <3> QED BY <3>1, <3>2 DEF FieldsOK
  <2> QED BY <2>1, <2>2
<1> QED BY <1>1 DEF Typed, Sects, Frags

\* A frag of the first guess gets its address, and the next one follows it.
LEMMA GuessStep ==
  ASSUME IInv, pc = "guess", NEW a \in Int, GuessAddress, NextGuess(a),
         Shape(unit, fr_type'), Shape(unit, fr_fix'), Shape(unit, fr_state'),
         Same(unit, sec, cur, fr_type, fr_type'), Same(unit, sec, cur, fr_fix, fr_fix'),
         Same(unit, sec, cur, fr_state, fr_state'),
         FieldsOK(unit, sec, cur, fr_type', fr_fix', fr_state', fr_address', last_fr_address),
         DOMAIN align' = Sects, \A s \in Sects : align'[s] \in Nat,
         Link(unit, sec, cur, fr_type', fr_fix', fr_state', fr_address', a),
         UNCHANGED <<unit, last_fr_address, layout_pass, sec, changed>>
  PROVE  IInv'
<1> DEFINE n == LenOf(unit, sec)
<1>1. /\ unit \in Units /\ sec \in 1 .. Len(unit.sect) /\ sec \in Sects /\ Active
      /\ n \in Nat \ {0} /\ cur \in 1 .. n /\ cur \in Frags(sec) /\ cur \in Int
      /\ Typed /\ Place /\ LaidOut /\ stretch \in Int
  BY TheUnit DEF IInv, Typed, Place, Active, Sects, Frags, LenOf
<1>2. /\ Shape(unit, fr_address') /\ Same(unit, sec, cur, fr_address, fr_address')
      /\ fr_address'[sec][cur] = address
  <2>1. fr_address' = [fr_address EXCEPT ![sec][cur] = address] /\ Shape(unit, fr_address)
    BY <1>1 DEF GuessAddress, Typed
  <2> QED BY <1>1, <2>1 DEF Shape, Same
<1>3. /\ cur' \in Nat \ {0} /\ address' \in Int /\ stretch' \in Int
      /\ pc' \in {"guess", "relax"}
  BY <1>1 DEF NextGuess
<1>4. Typed'
  BY <1>1, <1>2, <1>3, FieldsStep
<1>5. LaidOut'
  BY <1>1, OthersKept
<1>6. Kept'
  <2> SUFFICES ASSUME NEW s \in Sects, NEW i \in Frags(s), s # sec
               PROVE  fr_address'[s][i] = last_fr_address[s][i]
    BY <1>1, <1>3 DEF Kept, Active, Sects, Frags
  <2>1. fr_address'[s][i] = fr_address[s][i]
    BY <1>2 DEF Same, Sects, Frags, LenOf
  <2>2. fr_address[s][i] = last_fr_address[s][i]
    BY DEF IInv, Kept
  <2> QED BY <2>1, <2>2
<1>7. ASSUME NEW i \in 1 .. cur - 1
      PROVE  Link(unit, sec, i, fr_type', fr_fix', fr_state', fr_address', fr_address'[sec][i + 1])
  <2>1. i \in 1 .. n /\ i + 1 \in 1 .. n /\ i # cur
    BY <1>1, <1>7
  <2>2. /\ fr_type'[sec][i] = fr_type[sec][i] /\ fr_fix'[sec][i] = fr_fix[sec][i]
        /\ fr_state'[sec][i] = fr_state[sec][i] /\ fr_address'[sec][i] = fr_address[sec][i]
    BY <1>1, <1>2, <2>1 DEF Same
  <2>3. fr_address'[sec][i + 1] = IF i = cur - 1 THEN address ELSE fr_address[sec][i + 1]
    <3>1. CASE i = cur - 1
      BY <1>1, <1>2, <3>1
    <3>2. CASE i # cur - 1
      <4>1. i + 1 # cur
        BY <1>1, <3>2
      <4> QED BY <1>1, <1>2, <2>1, <3>2, <4>1 DEF Same
    <3> QED BY <3>1, <3>2
  <2>4. Link(unit, sec, i, fr_type, fr_fix, fr_state, fr_address, fr_address'[sec][i + 1])
    BY <2>3 DEF IInv, Guessing
  <2> QED BY <2>2, <2>4, LinkSame
<1>8. CASE cur < n
  <2>1. pc' = "guess" /\ cur' = cur + 1 /\ address' = a /\ cur' - 1 = cur
    BY <1>1, <1>8 DEF NextGuess, LenOf
  <2>2. Place'
    BY <1>1, <1>8, <2>1 DEF Place, Active, Sects, Frags, Zerofill, LenOf
  <2>3. Guessing'
    <3> SUFFICES ASSUME NEW i \in 1 .. cur
                 PROVE  Link(unit, sec, i, fr_type', fr_fix', fr_state', fr_address',
                             IF i = cur THEN a ELSE fr_address'[sec][i + 1])
      BY <2>1 DEF Guessing
    <3>1. CASE i = cur
      BY <3>1
    <3>2. CASE i \in 1 .. cur - 1
      BY <1>7, <3>2
    <3> QED BY <1>1, <3>1, <3>2
  <2>4. Relaxing' /\ Slid' /\ Wrote'
    BY <2>1 DEF Relaxing, Slid, Wrote
  <2> QED BY <1>4, <1>5, <1>6, <2>2, <2>3, <2>4 DEF IInv
<1>9. CASE ~(cur < n)
  <2>1. pc' = "relax" /\ cur' = 1 /\ stretch' = 0 /\ ~stretched' /\ cur = n
    BY <1>1, <1>9 DEF NextGuess, LenOf
  <2>2. Place'
    BY <1>1, <2>1 DEF Place, Active, Sects, Frags, Zerofill, LenOf
  <2>3. Guessing' /\ Slid' /\ Wrote'
    BY <2>1 DEF Guessing, Slid, Wrote
  <2>4. Relaxing'
    <3>1. ASSUME NEW i \in 1 .. n - 1
          PROVE  Link(unit, sec, i, fr_type', fr_fix', fr_state', fr_address',
                      fr_address'[sec][i + 1] + (IF i = 0 THEN 0 ELSE 0))
      <4>1. i + 1 \in 1 .. n
        BY <1>1, <3>1
      <4>2. fr_address'[sec][i + 1] \in Int
        BY <1>1, <1>4, <4>1 DEF Typed, FieldsOK, Sects, Frags, LenOf
      <4>3. fr_address'[sec][i + 1] + (IF i = 0 THEN 0 ELSE 0) = fr_address'[sec][i + 1]
        BY <4>2
      <4> QED BY <1>7, <2>1, <3>1, <4>3
    <3>2. \A i \in 1 .. n - 1 : ~(i < cur')
      BY <1>1, <2>1
    <3>3. \A i \in 1 .. n - 1 : (i = cur' - 1) <=> (i = 0)
      BY <1>1, <2>1
    <3> QED BY <2>1, <3>1, <3>2, <3>3 DEF Relaxing, LenOf
  <2> QED BY <1>4, <1>5, <1>6, <2>2, <2>3, <2>4 DEF IInv
<1> QED BY <1>8, <1>9

\* What is known of the frag at hand.
LEMMA TheFrag ==
  ASSUME IInv, Active, cur \in Frags(sec)
  PROVE  /\ unit \in Units /\ sec \in 1 .. Len(unit.sect) /\ cur \in 1 .. LenOf(unit, sec)
         /\ Frag(sec, cur) = FragOf(unit, sec, cur) /\ FragOK(unit, Frag(sec, cur))
         /\ FieldsOK(unit, sec, cur, fr_type, fr_fix, fr_state, fr_address, last_fr_address)
         /\ Shape(unit, fr_type) /\ Shape(unit, fr_fix) /\ Shape(unit, fr_state)
         /\ Shape(unit, fr_address) /\ stretch \in Int /\ address \in Int
         /\ fr_fix[sec][cur] \in Nat /\ FixEnd \in Int
         /\ DOMAIN align = Sects /\ \A s \in Sects : align[s] \in Nat
         /\ \A F : Same(unit, sec, cur, F, F)
<1>1. unit \in Units /\ sec \in 1 .. Len(unit.sect) /\ cur \in 1 .. LenOf(unit, sec)
  BY DEF IInv, Typed, Place, Sects, Frags, LenOf
<1>2. Frag(sec, cur) = FragOf(unit, sec, cur) /\ FragOK(unit, Frag(sec, cur))
  BY <1>1, TheUnit DEF Frag, FragOf
<1>3. FieldsOK(unit, sec, cur, fr_type, fr_fix, fr_state, fr_address, last_fr_address)
  BY <1>1 DEF IInv, Typed, Sects, Frags, LenOf
<1>4. fr_fix[sec][cur] \in Nat /\ FixEnd \in Int
  BY <1>3 DEF FieldsOK, FixEnd, IInv, Typed
<1> QED BY <1>1, <1>2, <1>3, <1>4 DEF IInv, Typed, Same

\* The address that the first guess gives.
LEMMA GuessedAddress ==
  ASSUME IInv, pc = "guess", GuessAddress
  PROVE  fr_address'[sec][cur] = address
<1>1. Active /\ cur \in Frags(sec)
  BY DEF IInv, Place, Active
<1>2. /\ sec \in 1 .. Len(unit.sect) /\ cur \in 1 .. LenOf(unit, sec)
      /\ Shape(unit, fr_address)
  BY <1>1, TheFrag
<1> QED BY <1>2 DEF GuessAddress, Shape

\* rs_fill and rs_org.
LEMMA GuessFillInv ==
  ASSUME IInv, GuessFill
  PROVE  IInv'
<1>1. pc = "guess" /\ GuessAddress /\ NextGuess(FixEnd + Frag(sec, cur).fill)
      /\ fr_type[sec][cur] \in {"rs_fill", "rs_org"}
      /\ UNCHANGED <<unit, fr_type, fr_fix, fr_state, last_fr_address, align, layout_pass,
                     sec, changed>>
  BY DEF GuessFill
<1>2. Active /\ cur \in Frags(sec)
  BY <1>1 DEF IInv, Place, Active
<1>3. fr_address'[sec][cur] = address
  BY <1>1, GuessedAddress
<1>4. FixEnd + Frag(sec, cur).fill \in Int
  BY <1>2, TheFrag DEF FragOK
<1>5. FieldsOK(unit, sec, cur, fr_type, fr_fix, fr_state, fr_address', last_fr_address)
  BY <1>2, <1>3, TheFrag DEF FieldsOK
<1>6. Link(unit, sec, cur, fr_type, fr_fix, fr_state, fr_address', FixEnd + Frag(sec, cur).fill)
  BY <1>1, <1>2, <1>3, TheFrag DEF Link, VarSize, FixEnd
<1> QED BY <1>1, <1>2, <1>4, <1>5, <1>6, TheFrag, GuessStep

\* rs_align.
LEMMA GuessAlignInv ==
  ASSUME IInv, GuessAlign
  PROVE  IInv'
<1> DEFINE f == Frag(sec, cur)
<1>1. pc = "guess" /\ GuessAddress /\ NextGuess(FixEnd + Padding(f, FixEnd))
      /\ fr_type[sec][cur] = "rs_align"
      /\ UNCHANGED <<unit, fr_type, fr_fix, fr_state, last_fr_address, layout_pass,
                     sec, changed>>
      /\ \/ align' = align
         \/ align' = [align EXCEPT ![sec] = f.exp]
  BY DEF GuessAlign
<1>2. Active /\ cur \in Frags(sec)
  BY <1>1 DEF IInv, Place, Active
<1>3. fr_address'[sec][cur] = address
  BY <1>1, GuessedAddress
<1>4. f.exp \in Nat /\ f.max \in Nat /\ FixEnd \in Int
  BY <1>2, TheFrag DEF FragOK
<1>5. FixEnd + Padding(f, FixEnd) \in Int
  BY <1>4, PaddingType
<1>6. FieldsOK(unit, sec, cur, fr_type, fr_fix, fr_state, fr_address', last_fr_address)
  BY <1>2, <1>3, TheFrag DEF FieldsOK
<1>7. Link(unit, sec, cur, fr_type, fr_fix, fr_state, fr_address', FixEnd + Padding(f, FixEnd))
  BY <1>1, <1>2, <1>3, TheFrag DEF Link, VarSize, FixEnd
<1>8. DOMAIN align' = Sects /\ \A s \in Sects : align'[s] \in Nat
  BY <1>1, <1>2, <1>4, TheFrag
<1> HIDE DEF f
<1> QED BY <1>1, <1>2, <1>5, <1>6, <1>7, <1>8, TheFrag, GuessStep

\* md_estimate_size_before_relax of i386.c: a jump that leaves the section is
\* a fill of its long form from then on.
LEMMA GuessJumpInv ==
  ASSUME IInv, GuessJump
  PROVE  IInv'
<1> DEFINE f  == Frag(sec, cur)
           st == fr_state[sec][cur]
           n  == md_relax_table[IF md_relax_table[st].more = 0 THEN st
                                ELSE md_relax_table[st].more].length
<1>1. pc = "guess" /\ GuessAddress /\ fr_type[sec][cur] = "rs_machine_dependent" /\ ~unit.arm
      /\ UNCHANGED <<unit, fr_state, last_fr_address, align, layout_pass, sec, changed>>
  BY DEF GuessJump
<1>2. Active /\ cur \in Frags(sec)
  BY <1>1 DEF IInv, Place, Active
<1>3. fr_address'[sec][cur] = address
  BY <1>1, GuessedAddress
<1>4. st \in 0 .. 11
  BY <1>1, <1>2, TheFrag DEF FieldsOK
<1>5. n \in Nat /\ md_relax_table[st].length \in Nat
  BY <1>4, RelaxTable
<1>6. /\ fr_fix[sec][cur] \in Nat /\ FixEnd \in Int /\ address \in Int
      /\ Frag(sec, cur) = FragOf(unit, sec, cur) /\ f.fill = 0
      /\ FixEnd = address + fr_fix[sec][cur]
  <2>1. f.type = "rs_machine_dependent" /\ FragOK(unit, f)
    BY <1>1, <1>2, TheFrag DEF FieldsOK
  <2> QED BY <1>2, <2>1, TheFrag DEF FragOK, FixEnd
<1>7. CASE f.sym.sec # sec
  <2>1. /\ fr_fix' = [fr_fix EXCEPT ![sec][cur] = fr_fix[sec][cur] + n]
        /\ fr_type' = [fr_type EXCEPT ![sec][cur] = "rs_fill"]
        /\ NextGuess(FixEnd + n)
    BY <1>7 DEF GuessJump
  <2> HIDE DEF n
  <2>2. /\ Shape(unit, fr_type') /\ Same(unit, sec, cur, fr_type, fr_type')
        /\ fr_type'[sec][cur] = "rs_fill"
    BY <1>2, <2>1, TheFrag DEF Shape, Same
  <2>3. /\ Shape(unit, fr_fix') /\ Same(unit, sec, cur, fr_fix, fr_fix')
        /\ fr_fix'[sec][cur] = fr_fix[sec][cur] + n
    BY <1>2, <2>1, TheFrag DEF Shape, Same
  <2>4. FieldsOK(unit, sec, cur, fr_type', fr_fix', fr_state, fr_address', last_fr_address)
    BY <1>2, <1>3, <1>5, <1>6, <2>2, <2>3, TheFrag, SMTT(30) DEF FieldsOK
  <2>5. FixEnd + n = address + (fr_fix[sec][cur] + n) + 0
    BY <1>5, <1>6
  <2>6. Link(unit, sec, cur, fr_type', fr_fix', fr_state, fr_address', FixEnd + n)
    BY <1>3, <1>6, <2>2, <2>3, <2>5 DEF Link, VarSize
  <2>7. FixEnd + n \in Int
    BY <1>5, <1>6
  <2> QED BY <1>1, <1>2, <2>1, <2>2, <2>3, <2>4, <2>6, <2>7, TheFrag, GuessStep
<1>8. CASE f.sym.sec = sec
  <2> DEFINE len == md_relax_table[st].length
  <2>1. NextGuess(FixEnd + len) /\ UNCHANGED <<fr_fix, fr_type>>
    BY <1>8 DEF GuessJump
  <2>2. FieldsOK(unit, sec, cur, fr_type, fr_fix, fr_state, fr_address', last_fr_address)
    BY <1>2, <1>3, TheFrag DEF FieldsOK
  <2>3. Link(unit, sec, cur, fr_type, fr_fix, fr_state, fr_address', FixEnd + len)
    BY <1>1, <1>3, <1>6, <1>8 DEF Link, VarSize
  <2> HIDE DEF len
  <2>4. FixEnd + len \in Int
    BY <1>5, <1>6 DEF len
  <2> QED BY <1>1, <1>2, <2>1, <2>2, <2>3, <2>4, TheFrag, GuessStep
<1> QED BY <1>7, <1>8

\* An rs_leb128, and md_estimate_size_before_relax of arm.c.
LEMMA GuessSmallestInv ==
  ASSUME IInv, GuessSmallest
  PROVE  IInv'
<1> DEFINE n == IF fr_type[sec][cur] = "rs_leb128" THEN 1 ELSE 2
<1>1. pc = "guess" /\ GuessAddress /\ NextGuess(FixEnd + n)
      /\ \/ fr_type[sec][cur] = "rs_leb128"
         \/ fr_type[sec][cur] = "rs_machine_dependent" /\ unit.arm
      /\ fr_state' = [fr_state EXCEPT ![sec][cur] = n]
      /\ UNCHANGED <<unit, fr_type, fr_fix, last_fr_address, align, layout_pass, sec, changed>>
  BY DEF GuessSmallest
<1>2. Active /\ cur \in Frags(sec)
  BY <1>1 DEF IInv, Place, Active
<1>3. fr_address'[sec][cur] = address
  BY <1>1, GuessedAddress
<1>4. n \in Nat
  OBVIOUS
<1> HIDE DEF n
<1>5. /\ Shape(unit, fr_state') /\ Same(unit, sec, cur, fr_state, fr_state')
      /\ fr_state'[sec][cur] = n
  BY <1>1, <1>2, TheFrag DEF Shape, Same
<1>6. FieldsOK(unit, sec, cur, fr_type, fr_fix, fr_state', fr_address', last_fr_address)
  BY <1>1, <1>2, <1>3, <1>4, <1>5, TheFrag, SMTT(30) DEF FieldsOK
<1>7. Link(unit, sec, cur, fr_type, fr_fix, fr_state', fr_address', FixEnd + n)
  BY <1>1, <1>2, <1>3, <1>5, TheFrag DEF Link, VarSize, FixEnd
<1>8. FixEnd + n \in Int
  BY <1>2, <1>4, TheFrag
<1> QED BY <1>1, <1>2, <1>5, <1>6, <1>7, <1>8, TheFrag, GuessStep

-----------------------------------------------------------------------------
(***************************************************************************)
(* The passes.                                                             *)
(***************************************************************************)

\* The frag at hand moves by stretch.
LEMMA FragMoves ==
  ASSUME IInv, pc = "relax", cur \in Frags(sec), fr_address' = Moved
  PROVE  /\ Active /\ Shape(unit, fr_address') /\ Same(unit, sec, cur, fr_address, fr_address')
         /\ fr_address'[sec][cur] = fr_address[sec][cur] + stretch
         /\ fr_address[sec][cur] \in Int /\ fr_address'[sec][cur] \in Int
         /\ \A s \in 1 .. Len(unit.sect) : \A i \in 1 .. LenOf(unit, s) :
              fr_address'[s][i] \in Int
         /\ cur < LenOf(unit, sec) =>
              /\ cur + 1 \in 1 .. LenOf(unit, sec)
              /\ fr_address[sec][cur + 1] \in Int
              /\ Link(unit, sec, cur, fr_type, fr_fix, fr_state, fr_address,
                      fr_address[sec][cur + 1])
<1>1. Active /\ stretch \in Int
  BY DEF Active, IInv, Typed
<1>2. /\ sec \in 1 .. Len(unit.sect) /\ cur \in 1 .. LenOf(unit, sec)
      /\ Shape(unit, fr_address) /\ LenOf(unit, sec) \in Nat
      /\ fr_address[sec][cur] \in Int
  BY <1>1, TheFrag, TheUnit DEF FieldsOK
<1>3. fr_address' = [fr_address EXCEPT ![sec][cur] = fr_address[sec][cur] + stretch]
  BY DEF Moved
<1>4. /\ Shape(unit, fr_address') /\ Same(unit, sec, cur, fr_address, fr_address')
      /\ fr_address'[sec][cur] = fr_address[sec][cur] + stretch
  BY <1>2, <1>3 DEF Shape, Same
<1>5. \A s \in 1 .. Len(unit.sect) : \A i \in 1 .. LenOf(unit, s) : fr_address[s][i] \in Int
  BY DEF IInv, Typed, FieldsOK, Sects, Frags, LenOf
<1>6. \A s \in 1 .. Len(unit.sect) : \A i \in 1 .. LenOf(unit, s) : fr_address'[s][i] \in Int
  BY <1>1, <1>2, <1>4, <1>5 DEF Same
<1>7. ASSUME cur < LenOf(unit, sec)
      PROVE  /\ cur + 1 \in 1 .. LenOf(unit, sec) /\ fr_address[sec][cur + 1] \in Int
             /\ Link(unit, sec, cur, fr_type, fr_fix, fr_state, fr_address,
                     fr_address[sec][cur + 1])
  <2>1. cur + 1 \in 1 .. LenOf(unit, sec) /\ cur \in 1 .. LenOf(unit, sec) - 1 /\ cur # cur - 1
    BY <1>2, <1>7
  <2>2. fr_address[sec][cur + 1] \in Int
    BY <1>2, <1>5, <2>1
  <2>3. Link(unit, sec, cur, fr_type, fr_fix, fr_state, fr_address, fr_address[sec][cur + 1] + 0)
    BY <2>1 DEF IInv, Relaxing, LenOf
  <2>4. fr_address[sec][cur + 1] + 0 = fr_address[sec][cur + 1]
    BY <2>2
  <2> QED BY <2>1, <2>2, <2>3, <2>4
<1> QED BY <1>1, <1>2, <1>4, <1>6, <1>7

\* A frag of a pass moves and grows.  The one after it will move by as much
\* more, and if nothing has moved or grown the state must have been right.
LEMMA GrowStep ==
  ASSUME IInv, pc = "relax", cur \in Frags(sec), NEW g \in Int, Grow(g),
         Shape(unit, fr_type'), Shape(unit, fr_fix'), Shape(unit, fr_state'),
         Same(unit, sec, cur, fr_type, fr_type'), Same(unit, sec, cur, fr_fix, fr_fix'),
         Same(unit, sec, cur, fr_state, fr_state'),
         FieldsOK(unit, sec, cur, fr_type', fr_fix', fr_state', fr_address', last_fr_address),
         cur < LenOf(unit, sec) =>
           Link(unit, sec, cur, fr_type', fr_fix', fr_state', fr_address',
                fr_address[sec][cur + 1] + (stretch + g)),
         cur < LenOf(unit, sec) /\ stretch = 0 /\ g = 0 =>
           Settled(unit, sec, cur, fr_type', fr_fix', fr_state', fr_address')
  PROVE  IInv'
<1> DEFINE n == LenOf(unit, sec)
<1>1. /\ fr_address' = Moved /\ stretch' = stretch + g /\ cur' = cur + 1
      /\ (~stretched' => ~stretched /\ g = 0)
      /\ UNCHANGED <<unit, last_fr_address, align, pc, layout_pass, sec, address, changed>>
  BY DEF Grow
<1>2. /\ unit \in Units /\ sec \in 1 .. Len(unit.sect) /\ sec \in Sects /\ Active
      /\ n \in Nat \ {0} /\ cur \in 1 .. n /\ cur \in Int /\ ~unit.sect[sec].zerofill
      /\ Typed /\ Place /\ LaidOut /\ stretch \in Int /\ address \in Int
      /\ DOMAIN align = Sects /\ \A s \in Sects : align[s] \in Nat
  BY TheUnit DEF IInv, Typed, Place, Active, Sects, Frags, LenOf, Zerofill
<1>3. /\ Shape(unit, fr_address') /\ Same(unit, sec, cur, fr_address, fr_address')
      /\ fr_address'[sec][cur] = fr_address[sec][cur] + stretch
      /\ fr_address[sec][cur] \in Int
      /\ \A s \in 1 .. Len(unit.sect) : \A i \in 1 .. LenOf(unit, s) : fr_address'[s][i] \in Int
  BY <1>1, FragMoves
<1>4. Typed'
  <2>1. cur' \in Nat \ {0} /\ address' \in Int /\ stretch' \in Int
    BY <1>1, <1>2
  <2> QED BY <1>1, <1>2, <1>3, <2>1, FieldsStep
<1>5. LaidOut'
  BY <1>1, <1>2, OthersKept
<1>6. Kept'
  <2> SUFFICES ASSUME NEW s \in Sects, NEW i \in Frags(s), s # sec
               PROVE  fr_address'[s][i] = last_fr_address[s][i]
    BY <1>1, <1>2 DEF Kept, Active, Sects, Frags
  <2>1. fr_address'[s][i] = fr_address[s][i]
    BY <1>3 DEF Same, Sects, Frags, LenOf
  <2>2. fr_address[s][i] = last_fr_address[s][i]
    BY DEF IInv, Kept
  <2> QED BY <2>1, <2>2
<1>7. Place' /\ Guessing' /\ Slid' /\ Wrote'
  <2>1. Place'
    BY <1>1, <1>2 DEF Place, Active, Sects, Frags, Zerofill, LenOf
  <2>2. Guessing' /\ Slid' /\ Wrote'
    BY <1>1 DEF Guessing, Slid, Wrote
  <2> QED BY <2>1, <2>2
<1> DEFINE next(i) == fr_address'[sec][i + 1] + (IF i = cur THEN stretch' ELSE 0)
<1>8. ASSUME NEW i \in 1 .. n - 1
      PROVE  Link(unit, sec, i, fr_type', fr_fix', fr_state', fr_address', next(i))
  <2>1. i \in 1 .. n /\ i + 1 \in 1 .. n /\ i \in Int
    BY <1>2, <1>8
  <2>2. CASE i = cur
    <3>1. fr_address'[sec][i + 1] = fr_address[sec][cur + 1]
      <4>1. cur + 1 \in 1 .. LenOf(unit, sec) /\ cur + 1 # cur
        BY <2>1, <2>2
      <4>2. fr_address'[sec][cur + 1] = fr_address[sec][cur + 1]
        BY <1>2, <1>3, <4>1 DEF Same
      <4> QED BY <2>2, <4>2
    <3>2. cur < n
      BY <1>2, <1>8, <2>2
    <3> QED BY <1>1, <2>2, <3>1, <3>2
  <2>3. CASE i # cur
    <3>1. /\ fr_type'[sec][i] = fr_type[sec][i] /\ fr_fix'[sec][i] = fr_fix[sec][i]
          /\ fr_state'[sec][i] = fr_state[sec][i] /\ fr_address'[sec][i] = fr_address[sec][i]
      BY <1>2, <1>3, <2>1, <2>3 DEF Same
    <3>2. fr_address'[sec][i + 1] \in Int
      BY <1>2, <1>3, <2>1
    <3>3. next(i) = fr_address[sec][i + 1] + (IF i = cur - 1 THEN stretch ELSE 0)
      <4>1. CASE i = cur - 1
        <5>1. i + 1 = cur
          BY <1>2, <4>1
        <5> QED BY <1>2, <1>3, <2>3, <4>1, <5>1
      <4>2. CASE i # cur - 1
        <5>1. i + 1 # cur
          BY <1>2, <2>1, <4>2
        <5>2. fr_address'[sec][i + 1] = fr_address[sec][i + 1]
          BY <1>2, <1>3, <2>1, <5>1 DEF Same
        <5> QED BY <2>3, <4>2, <5>2
      <4> QED BY <4>1, <4>2
    <3> HIDE DEF next
    <3>4. Link(unit, sec, i, fr_type, fr_fix, fr_state, fr_address, next(i))
      BY <1>8, <3>3 DEF IInv, Relaxing, LenOf
    <3> QED BY <3>1, <3>4, LinkSame
  <2> QED BY <2>2, <2>3
<1>9. ASSUME ~stretched'
      PROVE  /\ stretch' = 0
             /\ \A i \in 1 .. n - 1 : i < cur + 1 =>
                  Settled(unit, sec, i, fr_type', fr_fix', fr_state', fr_address')
  <2>1. g = 0 /\ stretch = 0 /\ ~stretched
    BY <1>1, <1>9 DEF IInv, Relaxing
  <2>2. \A s \in 1 .. Len(unit.sect) : \A i \in 1 .. LenOf(unit, s) :
          fr_address'[s][i] = fr_address[s][i]
    BY <1>3, <2>1 DEF Same
  <2>3. ASSUME NEW i \in 1 .. n - 1, i < cur
        PROVE  Settled(unit, sec, i, fr_type', fr_fix', fr_state', fr_address')
    <3>1. i \in 1 .. LenOf(unit, sec) /\ i # cur
      BY <1>2, <2>3
    <3>2. /\ fr_type'[sec][i] = fr_type[sec][i] /\ fr_fix'[sec][i] = fr_fix[sec][i]
          /\ fr_state'[sec][i] = fr_state[sec][i]
      BY <1>2, <3>1 DEF Same
    <3>3. Settled(unit, sec, i, fr_type, fr_fix, fr_state, fr_address)
      BY <2>1, <2>3 DEF IInv, Relaxing, LenOf
    <3>4. PICK e : Link(unit, sec, i, fr_type, fr_fix, fr_state, fr_address, e)
      BY <2>3 DEF IInv, Relaxing, LenOf
    <3>5. fr_type[sec][i] \in {FragOf(unit, sec, i).type, "rs_fill"}
      BY <1>2, <3>1 DEF Typed, FieldsOK, Sects, Frags, LenOf
    <3> QED BY <1>2, <2>2, <3>1, <3>2, <3>3, <3>4, <3>5, SettledSame
  <2>4. ASSUME NEW i \in 1 .. n - 1, i = cur
        PROVE  Settled(unit, sec, i, fr_type', fr_fix', fr_state', fr_address')
    <3>1. cur < n
      BY <1>2, <2>4
    <3> QED BY <2>1, <2>4, <3>1
  <2>5. stretch' = 0
    BY <1>1, <2>1
  <2>6. \A i \in 1 .. n - 1 : i < cur + 1 => i < cur \/ i = cur
    BY <1>2
  <2> QED BY <2>3, <2>4, <2>5, <2>6
<1>10. Relaxing'
  <2>1. cur' - 1 = cur /\ cur' = cur + 1
    BY <1>1, <1>2
  <2> HIDE DEF next
  <2>2. \A i \in 1 .. n - 1 :
          Link(unit, sec, i, fr_type', fr_fix', fr_state', fr_address',
               fr_address'[sec][i + 1] + (IF i = cur' - 1 THEN stretch' ELSE 0))
    BY <1>8, <2>1 DEF next
  <2> QED BY <1>1, <1>9, <2>1, <2>2 DEF Relaxing, LenOf
<1> QED BY <1>4, <1>5, <1>6, <1>7, <1>10 DEF IInv

\* The last frag of a section is an rs_fill.
LEMMA NotTheLast ==
  ASSUME IInv, Active, cur \in Frags(sec), fr_type[sec][cur] # "rs_fill"
  PROVE  cur < LenOf(unit, sec)
<1>1. /\ unit \in Units /\ sec \in 1 .. Len(unit.sect) /\ cur \in 1 .. LenOf(unit, sec)
      /\ FieldsOK(unit, sec, cur, fr_type, fr_fix, fr_state, fr_address, last_fr_address)
  BY TheFrag
<1>2. cur # LenOf(unit, sec)
  BY <1>1, TheUnit DEF FieldsOK
<1>3. LenOf(unit, sec) \in Nat
  BY <1>1, TheUnit
<1> QED BY <1>1, <1>2, <1>3

\* A symbol of a frag at hand has a value.
LEMMA SymType ==
  ASSUME NEW u, NEW f, FragOK(u, f), NEW y, y = f.sym \/ y = f.sub, y.sec # 0, NEW A,
         \A s \in 1 .. Len(u.sect) : \A i \in 1 .. LenOf(u, s) : A[s][i] \in Int
  PROVE  Sym(A, y) \in Int
<1>1. y.sec \in 1 .. Len(u.sect) /\ y.frag \in 1 .. LenOf(u, y.sec) /\ y.value \in Int
  BY SMTT(30) DEF FragOK, LenOf
<1> QED BY <1>1 DEF Sym

\* rs_fill.
LEMMA RelaxFillInv ==
  ASSUME IInv, RelaxFill
  PROVE  IInv'
<1>1. /\ pc = "relax" /\ cur \in Frags(sec) /\ fr_type[sec][cur] = "rs_fill" /\ Grow(0)
      /\ fr_address' = Moved /\ UNCHANGED <<fr_type, fr_fix, fr_state>>
  BY DEF RelaxFill, At, Grow
<1> DEFINE f == FragOf(unit, sec, cur)
<1>2. Active
  BY <1>1 DEF Active
<1>3. FragOK(unit, f) /\ stretch \in Int /\ fr_fix[sec][cur] \in Nat
  BY <1>1, <1>2, TheFrag
<1>4. /\ fr_address'[sec][cur] = fr_address[sec][cur] + stretch
      /\ fr_address[sec][cur] \in Int /\ fr_address'[sec][cur] \in Int
  BY <1>1, FragMoves
<1>5. FieldsOK(unit, sec, cur, fr_type, fr_fix, fr_state, fr_address', last_fr_address)
  BY <1>1, <1>2, <1>4, TheFrag DEF FieldsOK
<1>6. ASSUME cur < LenOf(unit, sec)
      PROVE  Link(unit, sec, cur, fr_type, fr_fix, fr_state, fr_address',
                  fr_address[sec][cur + 1] + (stretch + 0))
  <2>1. Link(unit, sec, cur, fr_type, fr_fix, fr_state, fr_address, fr_address[sec][cur + 1])
    BY <1>1, <1>6, FragMoves
  <2>2. fr_address[sec][cur + 1] = fr_address[sec][cur] + fr_fix[sec][cur] + f.fill
    BY <1>1, <2>1 DEF Link, VarSize
  <2>3. f.fill \in Nat
    BY <1>3 DEF FragOK
  <2>4. fr_address[sec][cur + 1] + (stretch + 0)
          = fr_address'[sec][cur] + fr_fix[sec][cur] + f.fill
    BY <1>3, <1>4, <2>2, <2>3
  <2> QED BY <1>1, <2>4 DEF Link, VarSize
<1>7. Settled(unit, sec, cur, fr_type, fr_fix, fr_state, fr_address')
  BY <1>1 DEF Settled, Reaches
<1> QED BY <1>1, <1>2, <1>5, <1>6, <1>7, TheFrag, GrowStep

\* rs_align: the padding is the one of the new address.
LEMMA RelaxAlignInv ==
  ASSUME IInv, RelaxAlign
  PROVE  IInv'
<1> DEFINE f == FragOf(unit, sec, cur)
           old == Padding(f, fr_address[sec][cur] + fr_fix[sec][cur])
           new == Padding(f, fr_address'[sec][cur] + fr_fix[sec][cur])
<1>1. /\ pc = "relax" /\ cur \in Frags(sec) /\ fr_type[sec][cur] = "rs_align"
      /\ fr_address' = Moved /\ Grow(new - old) /\ UNCHANGED <<fr_type, fr_fix, fr_state>>
  BY DEF RelaxAlign, At, Grow, Frag, FragOf
<1>2. Active
  BY <1>1 DEF Active
<1>3. FragOK(unit, f) /\ stretch \in Int /\ fr_fix[sec][cur] \in Nat
  BY <1>1, <1>2, TheFrag
<1>4. /\ fr_address'[sec][cur] = fr_address[sec][cur] + stretch
      /\ fr_address[sec][cur] \in Int /\ fr_address'[sec][cur] \in Int
  BY <1>1, FragMoves
<1>5. old \in Nat /\ new \in Nat
  <2>1. f.exp \in Nat /\ f.max \in Nat
    BY <1>3 DEF FragOK
  <2>2. /\ fr_address[sec][cur] + fr_fix[sec][cur] \in Int
        /\ fr_address'[sec][cur] + fr_fix[sec][cur] \in Int
    BY <1>3, <1>4
  <2> HIDE DEF f
  <2> QED BY <2>1, <2>2, PaddingType
<1>6. FieldsOK(unit, sec, cur, fr_type, fr_fix, fr_state, fr_address', last_fr_address)
  BY <1>1, <1>2, <1>4, TheFrag DEF FieldsOK
<1>7. ASSUME cur < LenOf(unit, sec)
      PROVE  Link(unit, sec, cur, fr_type, fr_fix, fr_state, fr_address',
                  fr_address[sec][cur + 1] + (stretch + (new - old)))
  <2>1. Link(unit, sec, cur, fr_type, fr_fix, fr_state, fr_address, fr_address[sec][cur + 1])
    BY <1>1, <1>7, FragMoves
  <2>2. fr_address[sec][cur + 1] = fr_address[sec][cur] + fr_fix[sec][cur] + old
    BY <1>1, <2>1 DEF Link, VarSize
  <2> HIDE DEF old
  <2>3. fr_address[sec][cur + 1] + (stretch + (new - old))
          = fr_address'[sec][cur] + fr_fix[sec][cur] + new
    <3> HIDE DEF new
    <3> QED BY <1>3, <1>4, <1>5, <2>2
  <2> QED BY <1>1, <2>3 DEF Link, VarSize
<1>8. Settled(unit, sec, cur, fr_type, fr_fix, fr_state, fr_address')
  BY <1>1 DEF Settled, Reaches
<1>9. new - old \in Int
  BY <1>5
<1> HIDE DEF new, old
<1> QED BY <1>1, <1>2, <1>6, <1>7, <1>8, <1>9, TheFrag, GrowStep

\* rs_org.
LEMMA RelaxOrgInv ==
  ASSUME IInv, RelaxOrg
  PROVE  IInv'
<1> DEFINE f == Frag(sec, cur)
           ahead == OrgTarget(Moved, f) - fr_address[sec][cur + 1]
           g == (IF ahead > 0 THEN ahead ELSE 0) - stretch
<1>1. /\ pc = "relax" /\ cur \in Frags(sec) /\ fr_type[sec][cur] = "rs_org"
      /\ Grow(g) /\ UNCHANGED <<fr_type, fr_fix, fr_state>> /\ fr_address' = Moved
  BY DEF RelaxOrg, At, Grow
<1>2. Active
  BY <1>1 DEF Active
<1>3. FragOK(unit, f) /\ stretch \in Int
  BY <1>1, <1>2, TheFrag
<1>4. /\ fr_address'[sec][cur] \in Int /\ fr_address[sec][cur + 1] \in Int
      /\ \A s \in 1 .. Len(unit.sect) : \A i \in 1 .. LenOf(unit, s) : fr_address'[s][i] \in Int
  BY <1>1, <1>2, FragMoves, NotTheLast
<1>5. OrgTarget(Moved, f) \in Int
  <2>1. CASE f.sym.sec = 0
    BY <1>3, <2>1 DEF OrgTarget, FragOK
  <2>2. CASE f.sym.sec # 0
    <3>1. Sym(Moved, f.sym) \in Int
      BY <1>1, <1>3, <1>4, <2>2, SymType
    <3>2. f.off \in Int
      BY <1>3 DEF FragOK
    <3> QED BY <2>2, <3>1, <3>2 DEF OrgTarget
  <2> QED BY <2>1, <2>2
<1>6. g \in Int
  <2> HIDE DEF f
  <2> QED BY <1>3, <1>4, <1>5
<1>7. FieldsOK(unit, sec, cur, fr_type, fr_fix, fr_state, fr_address', last_fr_address)
  BY <1>1, <1>2, <1>4, TheFrag DEF FieldsOK
<1> HIDE DEF g
<1>8. \A next : Link(unit, sec, cur, fr_type, fr_fix, fr_state, fr_address', next)
  BY <1>1 DEF Link
<1>9. Settled(unit, sec, cur, fr_type, fr_fix, fr_state, fr_address')
  BY <1>1 DEF Settled, Reaches
<1> QED BY <1>1, <1>2, <1>6, <1>7, <1>8, <1>9, TheFrag, GrowStep

\* A frag whose state is its size changes it: a leb128, or a Thumb instruction
\* that is not converted yet.
LEMMA RelaxState ==
  ASSUME IInv, pc = "relax", cur \in Frags(sec), NEW n \in Nat, Grow(n - fr_state[sec][cur]),
         \/ fr_type[sec][cur] = "rs_leb128"
         \/ fr_type[sec][cur] = "rs_machine_dependent" /\ unit.arm,
         Shape(unit, fr_type'), Shape(unit, fr_fix'), Shape(unit, fr_state'),
         Same(unit, sec, cur, fr_type, fr_type'), Same(unit, sec, cur, fr_fix, fr_fix'),
         Same(unit, sec, cur, fr_state, fr_state'), fr_state'[sec][cur] = n,
         \/ /\ fr_type'[sec][cur] = fr_type[sec][cur] /\ fr_fix'[sec][cur] = fr_fix[sec][cur]
            /\ stretch = 0 =>
                 Settled(unit, sec, cur, fr_type', fr_fix', fr_state', fr_address')
         \/ fr_type'[sec][cur] = "rs_fill" /\ fr_fix'[sec][cur] = fr_fix[sec][cur] + n
  PROVE  IInv'
<1> DEFINE f == FragOf(unit, sec, cur)
           g == n - fr_state[sec][cur]
           next == fr_address[sec][cur + 1] + (stretch + g)
<1>1. Active /\ fr_address' = Moved /\ Grow(g)
  BY DEF Active, Grow
<1>2. /\ FragOK(unit, f) /\ stretch \in Int /\ fr_fix[sec][cur] \in Nat
      /\ fr_state[sec][cur] \in Int /\ fr_type[sec][cur] = f.type
      /\ last_fr_address[sec][cur] \in Int
  BY <1>1, TheFrag DEF FieldsOK
<1>3. f.fill = 0
  BY <1>2 DEF FragOK
<1>4. /\ fr_address'[sec][cur] = fr_address[sec][cur] + stretch
      /\ fr_address[sec][cur] \in Int /\ fr_address'[sec][cur] \in Int
      /\ Link(unit, sec, cur, fr_type, fr_fix, fr_state, fr_address, fr_address[sec][cur + 1])
  BY <1>1, FragMoves, NotTheLast
<1>5. fr_address[sec][cur + 1] = fr_address[sec][cur] + fr_fix[sec][cur] + fr_state[sec][cur]
  BY <1>4 DEF Link, VarSize
<1>6. g \in Int /\ next = fr_address'[sec][cur] + fr_fix[sec][cur] + n
  BY <1>2, <1>4, <1>5
<1> HIDE DEF g, next
<1>7. CASE /\ fr_type'[sec][cur] = fr_type[sec][cur] /\ fr_fix'[sec][cur] = fr_fix[sec][cur]
           /\ stretch = 0 => Settled(unit, sec, cur, fr_type', fr_fix', fr_state', fr_address')
  <2>1. FieldsOK(unit, sec, cur, fr_type', fr_fix', fr_state', fr_address', last_fr_address)
    BY <1>2, <1>4, <1>7 DEF FieldsOK
  <2>2. Link(unit, sec, cur, fr_type', fr_fix', fr_state', fr_address', next)
    BY <1>6, <1>7 DEF Link, VarSize
  <2> QED BY <1>1, <1>6, <1>7, <2>1, <2>2, GrowStep DEF next
<1>8. CASE fr_type'[sec][cur] = "rs_fill" /\ fr_fix'[sec][cur] = fr_fix[sec][cur] + n
  <2>1. FieldsOK(unit, sec, cur, fr_type', fr_fix', fr_state', fr_address', last_fr_address)
    BY <1>2, <1>4, <1>8 DEF FieldsOK
  <2>2. next = fr_address'[sec][cur] + (fr_fix[sec][cur] + n) + 0
    BY <1>2, <1>4, <1>6
  <2>3. Link(unit, sec, cur, fr_type', fr_fix', fr_state', fr_address', next)
    BY <1>3, <1>8, <2>2 DEF Link, VarSize
  <2>4. Settled(unit, sec, cur, fr_type', fr_fix', fr_state', fr_address')
    BY <1>8 DEF Settled, Reaches
  <2> QED BY <1>1, <1>6, <2>1, <2>3, <2>4, GrowStep DEF next
<1> QED BY <1>7, <1>8

\* rs_leb128.
LEMMA RelaxLebInv ==
  ASSUME IInv, RelaxLeb
  PROVE  IInv'
<1> DEFINE f == FragOf(unit, sec, cur)
           n == sizeof_leb128(LebValue(fr_address', f), f.sign)
<1>1. /\ pc = "relax" /\ cur \in Frags(sec) /\ fr_type[sec][cur] = "rs_leb128"
      /\ Grow(n - fr_state[sec][cur])
      /\ fr_state' = [fr_state EXCEPT ![sec][cur] = n] /\ UNCHANGED <<fr_type, fr_fix>>
  BY DEF RelaxLeb, At, Grow, Frag, FragOf
<1>2. n \in Nat
  BY LebType
<1>3. ASSUME fr_state'[sec][cur] = n
      PROVE  Settled(unit, sec, cur, fr_type', fr_fix', fr_state', fr_address')
  BY <1>1, <1>3 DEF Settled, Reaches
<1> HIDE DEF n
<1>4. Active
  BY <1>1 DEF Active
<1>5. /\ Shape(unit, fr_state') /\ Same(unit, sec, cur, fr_state, fr_state')
      /\ fr_state'[sec][cur] = n
  BY <1>1, <1>4, TheFrag DEF Shape, Same
<1> QED BY <1>1, <1>2, <1>3, <1>4, <1>5, TheFrag, RelaxState

\* When nothing has moved, a Thumb instruction of two bytes reaches.
LEMMA ThumbReach ==
  ASSUME NEW A, NEW f, stretch = 0, f.op \in {"adr", "branch", "imm"}, f.off \in Int,
         f.op # "imm" => Sym(A, f.sym) \in Int,
         A[sec][cur] \in Int, fr_fix[sec][cur] \in Nat
  PROVE  Reaches(TRUE, sec, f, "rs_machine_dependent", ArmSize(A, f),
                 A[sec][cur] + fr_fix[sec][cur], Sym(A, f.sym))
<1> DEFINE end == A[sec][cur] + fr_fix[sec][cur]
           v == Sym(A, f.sym)
           to == relaxed_symbol_addr(A, f)
           low == -(2^f.bits) .. (2^f.bits - 1)
           pcv == ((end + 4) \div 4) * 4
<1>1. f.op # "imm" => to = f.off + v
  BY DEF relaxed_symbol_addr
<1>2. f.op = "branch" /\ ArmSize(A, f) = 2 => f.sym.sec = sec /\ to - (end + 4) \in low
  <2> HIDE DEF to, low
  <2>1. relax_branch(A, f) = IF f.sym.sec = sec /\ to - (end + 4) \in low THEN 2 ELSE 4
    BY Zenon DEF relax_branch, to, low
  <2>2. f.op = "branch" => ArmSize(A, f) = relax_branch(A, f)
    BY DEF ArmSize
  <2> HIDE DEF end
  <2> QED BY <2>1, <2>2
<1>3. f.op = "adr" /\ ArmSize(A, f) = 2 => to - pcv \in 0 .. 1020
  <2> HIDE DEF to
  <2>1. relax_adr(A, f) = IF to % 4 = 0 /\ to - pcv \in 0 .. 1020 THEN 2 ELSE 4
    BY Zenon DEF relax_adr, to
  <2>2. f.op = "adr" => ArmSize(A, f) = relax_adr(A, f)
    BY DEF ArmSize
  <2> HIDE DEF end, pcv
  <2> QED BY <2>1, <2>2
<1>4. f.op = "branch" /\ ArmSize(A, f) = 2 => f.sym.sec = sec /\ f.off + v - (end + 4) \in low
  <2>1. f.op = "branch" => f.off + v - (end + 4) = to - (end + 4)
    <3>1. end + 4 \in Int
      OBVIOUS
    <3> HIDE DEF to, end
    <3> QED BY <1>1, <3>1
  <2> HIDE DEF to, low, end, v
  <2> QED BY <1>2, <2>1, Zenon
<1>5. f.op = "adr" /\ ArmSize(A, f) = 2 => f.off + v - pcv \in 0 .. 1020
  <2>1. f.op = "adr" => f.off + v - pcv = to - pcv
    <3>1. pcv \in Int
      OBVIOUS
    <3> HIDE DEF to, pcv
    <3> QED BY <1>1, <3>1
  <2>2. ASSUME f.op = "adr", ArmSize(A, f) = 2 PROVE f.off + v - pcv \in 0 .. 1020
    <3> DEFINE moved == to - pcv
               plain == f.off + v - pcv
    <3>1. moved \in 0 .. 1020
      BY <1>3, <2>2, Zenon
    <3>2. plain = moved
      BY <2>1, <2>2, Zenon
    <3>3. plain \in 0 .. 1020
      <4> HIDE DEF moved, plain
      <4> QED BY <3>1, <3>2
    <3> QED BY <3>3, Zenon
  <2> QED BY <2>2, Zenon
<1> HIDE DEF to, end, v
<1>6. Reaches(TRUE, sec, f, "rs_machine_dependent", ArmSize(A, f), end, v)
  BY <1>4, <1>5, Zenon DEF Reaches, low, pcv
<1> QED BY <1>6, Zenon DEF end, v

\* arm_relax_frag: a size of two is one that reaches when nothing has moved.
LEMMA RelaxThumbInv ==
  ASSUME IInv, RelaxThumb
  PROVE  IInv'
<1> DEFINE f == Frag(sec, cur)
           n == ArmSize(fr_address', f)
<1>1. /\ pc = "relax" /\ cur \in Frags(sec) /\ fr_type[sec][cur] = "rs_machine_dependent"
      /\ unit.arm /\ Grow(n - fr_state[sec][cur]) /\ fr_address' = Moved
      /\ fr_state' = [fr_state EXCEPT ![sec][cur] = n]
      /\ \/ UNCHANGED <<fr_type, fr_fix>>
         \/ /\ fr_fix' = [fr_fix EXCEPT ![sec][cur] = fr_fix[sec][cur] + n]
            /\ fr_type' = [fr_type EXCEPT ![sec][cur] = "rs_fill"]
  BY DEF RelaxThumb, At, Grow
<1>2. Active
  BY <1>1 DEF Active
<1>3. /\ FragOK(unit, f) /\ stretch \in Int /\ fr_fix[sec][cur] \in Nat
      /\ fr_type[sec][cur] = f.type /\ f = FragOf(unit, sec, cur)
  BY <1>1, <1>2, TheFrag DEF FieldsOK
<1>4. /\ f.op \in {"adr", "branch", "imm"} /\ (f.op # "imm" => f.sym.sec # 0)
      /\ f.off \in Int /\ f.bits \in Nat
  BY <1>1, <1>3 DEF FragOK
<1>5. /\ fr_address'[sec][cur] \in Int
      /\ \A s \in 1 .. Len(unit.sect) : \A i \in 1 .. LenOf(unit, s) : fr_address'[s][i] \in Int
  BY <1>1, FragMoves
<1>6. n \in {2, 4}
  BY <1>4 DEF ArmSize, relax_adr, relax_branch, relax_immediate
<1> DEFINE end == fr_address'[sec][cur] + fr_fix[sec][cur]
           v == Sym(fr_address', f.sym)
<1>7. ASSUME stretch = 0
      PROVE  Reaches(unit.arm, sec, f, "rs_machine_dependent", n, end, v)
  <2>1. f.op # "imm" => v \in Int
    BY <1>3, <1>4, <1>5, SymType
  <2>2. Reaches(TRUE, sec, f, "rs_machine_dependent", n, end, v)
    <3> HIDE DEF f
    <3> QED BY <1>3, <1>4, <1>5, <1>7, <2>1, ThumbReach
  <2> QED BY <1>1, <2>2 DEF Reaches
<1>8. ASSUME stretch = 0, fr_type'[sec][cur] = fr_type[sec][cur],
             fr_fix'[sec][cur] = fr_fix[sec][cur], fr_state'[sec][cur] = n
      PROVE  Settled(unit, sec, cur, fr_type', fr_fix', fr_state', fr_address')
  <2> HIDE DEF n, f
  <2> QED BY <1>1, <1>3, <1>7, <1>8 DEF Settled
<1> HIDE DEF n
<1>9. /\ Shape(unit, fr_state') /\ Same(unit, sec, cur, fr_state, fr_state')
      /\ fr_state'[sec][cur] = n
  <2>1. /\ sec \in 1 .. Len(unit.sect) /\ cur \in 1 .. LenOf(unit, sec)
        /\ Shape(unit, fr_state) /\ fr_state' = [fr_state EXCEPT ![sec][cur] = n]
    BY <1>1, <1>2, TheFrag
  <2> QED BY <2>1 DEF Shape, Same
<1>10. /\ Shape(unit, fr_type') /\ Same(unit, sec, cur, fr_type, fr_type')
       /\ Shape(unit, fr_fix') /\ Same(unit, sec, cur, fr_fix, fr_fix')
       /\ \/ /\ fr_type'[sec][cur] = fr_type[sec][cur]
             /\ fr_fix'[sec][cur] = fr_fix[sec][cur]
          \/ /\ fr_type'[sec][cur] = "rs_fill"
             /\ fr_fix'[sec][cur] = fr_fix[sec][cur] + n
  <2>1. CASE UNCHANGED <<fr_type, fr_fix>>
    BY <1>1, <1>2, <2>1, TheFrag
  <2>2. CASE /\ fr_fix' = [fr_fix EXCEPT ![sec][cur] = fr_fix[sec][cur] + n]
             /\ fr_type' = [fr_type EXCEPT ![sec][cur] = "rs_fill"]
    <3>1. /\ sec \in 1 .. Len(unit.sect) /\ cur \in 1 .. LenOf(unit, sec)
          /\ Shape(unit, fr_type) /\ Shape(unit, fr_fix)
      BY <1>1, <1>2, TheFrag
    <3>2. /\ Shape(unit, fr_type') /\ Same(unit, sec, cur, fr_type, fr_type')
          /\ fr_type'[sec][cur] = "rs_fill"
      BY <2>2, <3>1 DEF Shape, Same
    <3>3. /\ Shape(unit, fr_fix') /\ Same(unit, sec, cur, fr_fix, fr_fix')
          /\ fr_fix'[sec][cur] = fr_fix[sec][cur] + n
      BY <2>2, <3>1 DEF Shape, Same
    <3> QED BY <3>2, <3>3
  <2> QED BY <1>1, <2>1, <2>2
<1>11. n \in Nat
  BY <1>6
<1> HIDE DEF f
<1> QED BY <1>1, <1>8, <1>9, <1>10, <1>11, RelaxState

\* An i386 jump: a step of the table makes it longer, so a pass on which it
\* has not grown has found it in reach.
LEMMA RelaxJumpInv ==
  ASSUME IInv, RelaxJump
  PROVE  IInv'
<1> DEFINE f   == Frag(sec, cur)
           st  == fr_state[sec][cur]
           far == fr_address[f.sym.sec][f.sym.frag] >= fr_address[sec][cur] /\ f.sym.frag > cur
           aim == f.off + Sym(Moved, f.sym) + (IF far THEN stretch ELSE 0)
                    - Moved[sec][cur] - fr_fix[sec][cur]
           reach(t) == IF aim < 0 THEN aim >= t.backward ELSE aim <= t.forward
           new == IF md_relax_table[st].more = 0 \/ reach(md_relax_table[st])
                  THEN st ELSE md_relax_table[st].more
           g == md_relax_table[new].length - md_relax_table[st].length
           next == fr_address[sec][cur + 1] + (stretch + g)
<1>1. /\ pc = "relax" /\ cur \in Frags(sec) /\ fr_type[sec][cur] = "rs_machine_dependent"
      /\ ~unit.arm /\ Grow(g) /\ fr_address' = Moved
      /\ fr_state' = [fr_state EXCEPT ![sec][cur] = new] /\ UNCHANGED <<fr_type, fr_fix>>
  BY DEF RelaxJump, At, Grow
<1>2. Active
  BY <1>1 DEF Active
<1>3. /\ FragOK(unit, f) /\ stretch \in Int /\ fr_fix[sec][cur] \in Nat
      /\ fr_type[sec][cur] = f.type /\ f = FragOf(unit, sec, cur) /\ st \in 0 .. 11
      /\ last_fr_address[sec][cur] \in Int
  BY <1>1, <1>2, TheFrag DEF FieldsOK
<1>4. /\ fr_address'[sec][cur] = fr_address[sec][cur] + stretch
      /\ fr_address[sec][cur] \in Int /\ fr_address'[sec][cur] \in Int
      /\ \A s \in 1 .. Len(unit.sect) : \A i \in 1 .. LenOf(unit, s) : fr_address'[s][i] \in Int
      /\ Link(unit, sec, cur, fr_type, fr_fix, fr_state, fr_address, fr_address[sec][cur + 1])
  BY <1>1, <1>2, FragMoves, NotTheLast
<1>5. /\ f.sym.sec = sec
      /\ fr_address[sec][cur + 1]
           = fr_address[sec][cur] + fr_fix[sec][cur] + md_relax_table[st].length
  BY <1>1, <1>3, <1>4 DEF Link, VarSize
<1>6. f.off \in Int /\ Sym(fr_address', f.sym) \in Int
  <2>1. sec # 0
    BY DEF IInv, Typed
  <2> QED BY <1>3, <1>4, <1>5, <2>1, SymType DEF FragOK
<1>7. /\ new \in 0 .. 11 /\ (g = 0 => new = st)
      /\ md_relax_table[new].length \in Nat /\ md_relax_table[st].length \in Nat
  <2> HIDE DEF aim, f
  <2>1. new = st \/ (new = md_relax_table[st].more /\ md_relax_table[st].more # 0)
    OBVIOUS
  <2> HIDE DEF new, st
  <2>2. /\ md_relax_table[st].length \in Nat
        /\ st % 4 \in {0, 1} =>
             /\ md_relax_table[st].more = st + 2 /\ st + 2 \in 0 .. 11
             /\ md_relax_table[st].length = 1 /\ md_relax_table[st + 2].length # 1
        /\ st % 4 \notin {0, 1} => md_relax_table[st].more = 0
    BY <1>3, RelaxTable
  <2>3. CASE new = st
    BY <1>3, <2>2, <2>3
  <2>4. CASE new # st
    <3>1. new = st + 2 /\ new \in 0 .. 11 /\ md_relax_table[st].length = 1
          /\ md_relax_table[new].length # 1
      BY <1>3, <2>1, <2>2, <2>4
    <3>2. md_relax_table[new].length \in Nat
      BY <3>1, RelaxTable
    <3> QED BY <3>1, <3>2
  <2> QED BY <2>3, <2>4
<1>8. ASSUME stretch = 0, new = st, st % 4 \in {0, 1}
      PROVE  f.off + Sym(fr_address', f.sym) - (fr_address'[sec][cur] + fr_fix[sec][cur])
               \in -127 .. 128
  <2>1. aim = f.off + Sym(fr_address', f.sym) - (fr_address'[sec][cur] + fr_fix[sec][cur])
        /\ aim \in Int
    <3>1. (IF far THEN stretch ELSE 0) = 0
      BY <1>8
    <3>2. Moved = fr_address'
      BY <1>1
    <3>3. aim = f.off + Sym(fr_address', f.sym) + 0 - fr_address'[sec][cur] - fr_fix[sec][cur]
      <4> HIDE DEF f, far
      <4> QED BY <3>1, <3>2, Zenon
    <3>4. \A a, b, c, d \in Int : a + b + 0 - c - d = a + b - (c + d) /\ a + b - (c + d) \in Int
      OBVIOUS
    <3>5. fr_fix[sec][cur] \in Int
      BY <1>3
    <3> HIDE DEF f, far, aim
    <3> QED BY <1>4, <1>6, <3>3, <3>4, <3>5
  <2>2. /\ md_relax_table[st].more = st + 2 /\ st + 2 # 0
        /\ md_relax_table[st].forward = 128 /\ md_relax_table[st].backward = -127
    BY <1>3, <1>8, RelaxTable
  <2> HIDE DEF aim, f
  <2>3. reach(md_relax_table[st])
    <3>1. st \in Int /\ st # st + 2
      BY <1>3
    <3> QED BY <1>8, <2>2, <3>1
  <2>4. aim \in -127 .. 128
    BY <2>1, <2>2, <2>3
  <2> QED BY <2>1, <2>4, Zenon
<1> HIDE DEF new
<1>9. g \in Int /\ next = fr_address'[sec][cur] + fr_fix[sec][cur] + md_relax_table[new].length
  <2>1. /\ fr_fix[sec][cur] \in Int /\ md_relax_table[new].length \in Int
        /\ md_relax_table[st].length \in Int
        /\ stretch \in Int /\ fr_address[sec][cur] \in Int
    BY <1>3, <1>4, <1>7
  <2> HIDE DEF st
  <2>2. /\ g \in Int
        /\ fr_address[sec][cur] + fr_fix[sec][cur] + md_relax_table[st].length + (stretch + g)
             = fr_address[sec][cur] + stretch + fr_fix[sec][cur] + md_relax_table[new].length
    BY <2>1
  <2> HIDE DEF g
  <2> QED BY <1>4, <1>5, <2>2
<1> HIDE DEF g, next, st
<1>10. /\ Shape(unit, fr_state') /\ Same(unit, sec, cur, fr_state, fr_state')
       /\ fr_state'[sec][cur] = new
  BY <1>1, <1>2, TheFrag DEF Shape, Same
<1>11. FieldsOK(unit, sec, cur, fr_type, fr_fix, fr_state', fr_address', last_fr_address)
  BY <1>3, <1>4, <1>7, <1>10 DEF FieldsOK
<1>12. Link(unit, sec, cur, fr_type, fr_fix, fr_state', fr_address', next)
  BY <1>1, <1>3, <1>5, <1>9, <1>10 DEF Link, VarSize
<1>13. ASSUME stretch = 0, g = 0
       PROVE  Settled(unit, sec, cur, fr_type, fr_fix, fr_state', fr_address')
  <2>1. Reaches(unit.arm, sec, f, fr_type[sec][cur], new,
                fr_address'[sec][cur] + fr_fix[sec][cur], Sym(fr_address', f.sym))
    <3> HIDE DEF f
    <3> QED BY <1>1, <1>7, <1>8, <1>13 DEF Reaches
  <2> HIDE DEF f
  <2> QED BY <1>1, <1>3, <1>10, <2>1 DEF Settled
<1> QED BY <1>1, <1>2, <1>9, <1>10, <1>11, <1>12, <1>13, TheFrag, GrowStep DEF next

\* while(stretched), and the return of relax_section: the section is laid
\* out, and the sections before it still are unless it has changed.
LEMMA EndPassInv ==
  ASSUME IInv, EndPass
  PROVE  IInv'
<1> DEFINE n == LenOf(unit, sec)
<1>1. /\ pc = "relax" /\ cur \notin Frags(sec)
      /\ UNCHANGED <<unit, fr_type, fr_fix, fr_state, fr_address, align, layout_pass, address>>
  BY DEF EndPass
<1>2. /\ unit \in Units /\ Len(unit.sect) \in Nat /\ sec \in 1 .. Len(unit.sect)
      /\ n \in Nat \ {0} /\ cur = n + 1 /\ Active
      /\ ~unit.sect[sec].zerofill /\ unit.sect[sec].pass = layout_pass
      /\ layout_pass \in 0 .. 2 /\ stretch \in Int /\ address \in Int
  <2>1. unit \in Units /\ sec \in 1 .. Len(unit.sect) /\ Active /\ cur \in 1 .. n + 1
    BY <1>1 DEF IInv, Typed, Place, Active, Sects, LenOf
  <2>2. n \in Nat \ {0} /\ Len(unit.sect) \in Nat
    BY <2>1, TheUnit
  <2>3. cur = n + 1
    BY <1>1, <2>1, <2>2 DEF Frags, LenOf
  <2> QED BY <1>1, <2>1, <2>2, <2>3 DEF IInv, Typed, Place, Active, Zerofill
<1>3. ASSUME NEW i \in 1 .. n - 1
      PROVE  /\ i \in 1 .. LenOf(unit, sec) /\ i + 1 \in 1 .. LenOf(unit, sec) /\ i < cur
             /\ Link(unit, sec, i, fr_type, fr_fix, fr_state, fr_address, fr_address[sec][i + 1] + 0)
  <2>1. i \in 1 .. n /\ i + 1 \in 1 .. n /\ i < cur /\ i # cur - 1
    BY <1>2, <1>3
  <2>2. Link(unit, sec, i, fr_type, fr_fix, fr_state, fr_address,
             fr_address[sec][i + 1] + (IF i = cur - 1 THEN stretch ELSE 0))
    BY <1>1, <1>3 DEF IInv, Relaxing, LenOf
  <2> QED BY <2>1, <2>2
<1>4. CASE stretched
  <2>1. /\ cur' = 1 /\ stretch' = 0 /\ stretched' = FALSE
        /\ UNCHANGED <<last_fr_address, changed, sec, pc>>
    BY <1>4 DEF EndPass
  <2>2. Typed'
    BY <1>1, <1>2, <2>1, LoopStep DEF IInv, fragVars
  <2>3. Place'
    BY <1>1, <1>2, <2>1 DEF IInv, Place, Active, Sects, Zerofill, LenOf
  <2>4. Guessing' /\ Slid' /\ Wrote'
    BY <1>1, <2>1 DEF Guessing, Slid, Wrote
  <2>5. Relaxing'
    <3>1. \A i \in 1 .. n - 1 : i # 1 - 1 /\ ~(i < 1)
      BY <1>2
    <3> QED BY <1>1, <1>3, <2>1, <3>1 DEF Relaxing, LenOf
  <2>6. Kept'
    BY <1>1, <2>1 DEF IInv, Kept, Active, Sects, Frags
  <2>7. LaidOut'
    BY <1>1, <2>1 DEF IInv, LaidOut, Laid, Earlier, Sects, Zerofill
  <2> QED BY <2>2, <2>3, <2>4, <2>5, <2>6, <2>7 DEF IInv
<1>5. CASE ~stretched
  <2>1. /\ (~changed' => ~changed /\ last_fr_address[sec] = fr_address[sec])
        /\ last_fr_address' = [last_fr_address EXCEPT ![sec] = fr_address[sec]]
        /\ sec' = sec + 1 /\ pc' = "enter" /\ cur' = cur /\ stretch' = stretch
    BY <1>5 DEF EndPass
  <2>2. /\ \A s \in 1 .. Len(unit.sect) : s # sec => last_fr_address'[s] = last_fr_address[s]
        /\ last_fr_address'[sec] = fr_address[sec] /\ Shape(unit, last_fr_address')
    BY <1>2, <2>1 DEF IInv, Typed, Shape
  <2>3. \A s \in 1 .. Len(unit.sect) : \A i \in 1 .. LenOf(unit, s) :
          last_fr_address'[s][i] = fr_address[s][i]
    BY <1>1, <2>2 DEF IInv, Kept, Sects, Frags, LenOf
  <2>4. Typed'
    <3>1. \A s \in Sects : \A i \in Frags(s) :
            FieldsOK(unit, s, i, fr_type, fr_fix, fr_state, fr_address, last_fr_address')
      BY <2>3 DEF IInv, Typed, FieldsOK, Sects, Frags, LenOf
    <3>2. sec' \in Nat \ {0}
      BY <1>2, <2>1
    <3> QED BY <1>1, <2>1, <2>2, <3>1, <3>2 DEF IInv, Typed, Sects, Frags
  <2>5. Place'
    BY <1>1, <1>2, <2>1 DEF IInv, Place, Active
  <2>6. Guessing' /\ Relaxing' /\ Slid' /\ Wrote'
    BY <2>1 DEF Guessing, Relaxing, Slid, Wrote
  <2>7. Kept'
    BY <1>1, <2>3 DEF Kept, Sects, Frags, LenOf
  <2>8. ASSUME NEW s \in Sects, ~Zerofill(s), Laid(s)', NEW i \in 1 .. LenOf(unit, s) - 1
        PROVE  /\ Link(unit, s, i, fr_type, fr_fix, fr_state, last_fr_address',
                       last_fr_address'[s][i + 1])
               /\ Earlier(s) \/ ~changed' =>
                    Settled(unit, s, i, fr_type, fr_fix, fr_state, last_fr_address')
    <3>1. /\ s \in 1 .. Len(unit.sect) /\ ~unit.sect[s].zerofill /\ LenOf(unit, s) \in Nat
          /\ unit.sect[s].pass \in 0 .. 2
      BY <1>2, <2>8, TheUnit DEF Sects, Zerofill
    <3>2. i \in 1 .. LenOf(unit, s) /\ i + 1 \in 1 .. LenOf(unit, s)
      BY <3>1
    <3>3. fr_type[s][i] \in {FragOf(unit, s, i).type, "rs_fill"}
          /\ fr_address[s][i + 1] \in Int
      BY <3>1, <3>2 DEF IInv, Typed, FieldsOK, Sects, Frags, LenOf
    <3>4. unit \in Units /\ s \in 1 .. Len(unit.sect) /\ i \in 1 .. LenOf(unit, s)
      BY <1>2, <3>1, <3>2
    <3>5. ~unit.sect[s].zerofill /\ fr_type[s][i] \in {FragOf(unit, s, i).type, "rs_fill"}
      BY <3>1, <3>3
    <3>6. CASE s = sec
      <4>1. Link(unit, s, i, fr_type, fr_fix, fr_state, fr_address, last_fr_address'[s][i + 1])
        <5>1. last_fr_address'[s][i + 1] = fr_address[s][i + 1] + 0
          BY <2>2, <3>3, <3>6
        <5> QED BY <1>3, <2>8, <3>6, <5>1
      <4>2. last_fr_address'[s][i] = fr_address[s][i]
        BY <2>2, <3>6
      <4>3. Settled(unit, s, i, fr_type, fr_fix, fr_state, fr_address)
        BY <1>1, <1>3, <1>5, <2>8, <3>6 DEF IInv, Relaxing, LenOf
      <4>4. Settled(unit, s, i, fr_type, fr_fix, fr_state, last_fr_address')
        BY <2>3, <3>4, <3>5, <4>1, <4>3, SettledSame
      <4> QED BY <4>1, <4>2, <4>4, LinkSame
    <3>7. CASE s # sec
      <4>1. Laid(s)
        BY <1>1, <1>2, <2>1, <2>8, <3>1, <3>7 DEF Laid, Earlier
      <4>2. /\ Link(unit, s, i, fr_type, fr_fix, fr_state, last_fr_address, last_fr_address[s][i + 1])
            /\ Earlier(s) \/ ~changed =>
                 Settled(unit, s, i, fr_type, fr_fix, fr_state, last_fr_address)
        BY <2>8, <4>1 DEF IInv, LaidOut, LenOf
      <4>3. last_fr_address'[s] = last_fr_address[s]
        BY <2>2, <3>1, <3>7
      <4>4. Link(unit, s, i, fr_type, fr_fix, fr_state, last_fr_address', last_fr_address'[s][i + 1])
        BY <4>2, <4>3, LinkSame
      <4>5. ASSUME Earlier(s) \/ ~changed'
            PROVE  Settled(unit, s, i, fr_type, fr_fix, fr_state, last_fr_address')
        <5>1. Settled(unit, s, i, fr_type, fr_fix, fr_state, last_fr_address)
          BY <2>1, <4>2, <4>5
        <5>2. ASSUME NEW t \in 1 .. Len(unit.sect), unit.sect[t].pass <= unit.sect[s].pass
              PROVE  last_fr_address'[t] = last_fr_address[t]
          <6>1. CASE Earlier(s)
            <7>1. t # sec
              BY <1>2, <3>1, <5>2, <6>1 DEF Earlier
            <7> QED BY <2>2, <7>1
          <6>2. CASE ~changed'
            BY <2>1, <2>2, <6>2
          <6> QED BY <4>5, <6>1, <6>2
        <5>3. \A t \in 1 .. Len(unit.sect) : \A j \in 1 .. LenOf(unit, t) :
                ~unit.sect[t].zerofill /\ unit.sect[t].pass <= unit.sect[s].pass
                  => last_fr_address'[t][j] = last_fr_address[t][j]
          BY <5>2
        <5> QED BY <3>4, <3>5, <4>2, <5>1, <5>3, SettledSame
      <4> QED BY <4>4, <4>5
    <3> QED BY <3>6, <3>7
  <2>9. LaidOut'
    <3>1. \A s : Earlier(s)' <=> Earlier(s)
      BY <1>1 DEF Earlier
    <3> QED BY <1>1, <2>8, <3>1 DEF LaidOut, Sects, Zerofill, LenOf
  <2> QED BY <2>4, <2>5, <2>6, <2>7, <2>9 DEF IInv
<1> QED BY <1>4, <1>5
-----------------------------------------------------------------------------
(***************************************************************************)
(* The sections are placed and converted.                                  *)
(***************************************************************************)

\* A section has a size and an alignment.
LEMMA SectionTypes ==
  ASSUME IInv, NEW s \in Sects
  PROVE  /\ Zerofill(s) \in BOOLEAN /\ SectSize(s) \in Int /\ align[s] \in Nat
         /\ 2^align[s] \in Nat /\ 2^align[s] > 0 /\ Len(unit.sect) \in Nat
         /\ Len(unit.sect[s].frags) \in Nat \ {0}
<1>1. unit \in Units /\ s \in 1 .. Len(unit.sect) /\ align[s] \in Nat
  BY DEF IInv, Typed, Sects
<1>2. /\ Zerofill(s) \in BOOLEAN /\ unit.sect[s].size \in Nat /\ Len(unit.sect) \in Nat
      /\ Len(unit.sect[s].frags) \in Nat \ {0}
  BY <1>1, TheUnit DEF Zerofill, LenOf
<1>3. fr_address[s][Len(unit.sect[s].frags)] \in Int
  <2>1. Len(unit.sect[s].frags) \in Frags(s)
    BY <1>2 DEF Frags
  <2> QED BY <2>1 DEF IInv, Typed, FieldsOK
<1>4. SectSize(s) \in Int
  BY <1>2, <1>3 DEF SectSize
<1> QED BY <1>1, <1>2, <1>4, PowerOfTwo

\* The two loops have a result after every turn.
LEMMA SlideEndType ==
  ASSUME IInv, NEW j \in 0 .. 2 * Len(unit.sect)
  PROVE  SlideEnd[j] \in Int
<1> DEFINE n == Len(unit.sect)
           at(k) == IF k <= n THEN k ELSE k - n
           skips(k) == Zerofill(at(k)) = (k <= n)
           step(k, v) == IF skips(k) THEN v ELSE rnd(v, 2^align[at(k)]) + SectSize(at(k))
           turn(e) == [k \in 0 .. 2 * n |-> IF k = 0 THEN 0 ELSE step(k, e[k - 1])]
           d == CHOOSE e : e = turn(e)
<1>1. n \in Nat
  BY TheUnit DEF IInv, Typed
<1>2. ASSUME NEW k \in 1 .. 2 * n PROVE at(k) \in Sects
  BY <1>1 DEF Sects
<1>3. ASSUME NEW k \in 1 .. 2 * n, NEW v \in Int PROVE step(k, v) \in Int
  <2>1. /\ SectSize(at(k)) \in Int /\ 2^align[at(k)] \in Nat /\ 2^align[at(k)] > 0
    BY <1>2, SectionTypes
  <2>2. (-v) % 2^align[at(k)] \in Int
    BY <2>1, RoundedUp
  <2>3. rnd(v, 2^align[at(k)]) + SectSize(at(k)) \in Int
    BY <2>1, <2>2 DEF rnd
  <2> HIDE DEF at, skips
  <2> QED BY <2>3
<1>4. SlideEnd = d
  BY Zenon DEF SlideEnd
<1> HIDE DEF step
<1>5. \E e : e = turn(e)
  <2> DEFINE F == [k \in 1 .. 2 * n |-> [v \in Int |-> step(k, v)]]
  <2>1. StepsOn(Int, 2 * n, F) /\ 2 * n \in Nat /\ 0 \in Int
    BY <1>1, <1>3 DEF StepsOn
  <2>2. \A k \in 1 .. 2 * n : \A v \in Int : F[k][v] = step(k, v)
    OBVIOUS
  <2> HIDE DEF F, n
  <2>6. PICK g : ResultsOf(Int, 2 * n, 0, F, g)
    BY <2>1, Iterated
  <2>3. /\ g \in [0 .. 2 * n -> Int] /\ g[0] = 0
        /\ \A k \in 1 .. 2 * n : g[k] = F[k][g[k - 1]]
    BY <2>6 DEF ResultsOf
  <2>4. ASSUME NEW k \in 0 .. 2 * n PROVE g[k] = IF k = 0 THEN 0 ELSE step(k, g[k - 1])
    <3>1. CASE k = 0
      BY <2>3, <3>1
    <3>2. CASE k # 0
      <4>1. k \in 1 .. 2 * n /\ k - 1 \in 0 .. 2 * n
        BY <2>1, <3>2
      <4> QED BY <2>2, <2>3, <3>2, <4>1
    <3> QED BY <3>1, <3>2
  <2>5. g = turn(g)
    BY <2>3, <2>4
  <2> QED BY <2>5
<1>6. d = turn(d)
  BY <1>5, Zenon
<1> HIDE DEF d, n
<1>7. \A k \in 0 .. 2 * n : d[k] = IF k = 0 THEN 0 ELSE step(k, d[k - 1])
  BY <1>6, Zenon
<1> DEFINE T == {k \in 0 .. 2 * n : d[k] \notin Int}
<1>8. T \in SUBSET Nat /\ \A k : k \in T <=> k \in 0 .. 2 * n /\ d[k] \notin Int
  BY <1>1
<1> HIDE DEF T
<1>9. T = {}
  <2> SUFFICES ASSUME T # {} PROVE FALSE
    OBVIOUS
  <2>1. PICK k \in T : \A l \in T : k <= l
    BY <1>8, LeastNat
  <2>2. k \in 0 .. 2 * n /\ d[k] \notin Int
    BY <1>8
  <2>3. k # 0
    BY <1>7, <2>2
  <2>4. k \in 1 .. 2 * n /\ k - 1 \in 0 .. 2 * n /\ ~(k <= k - 1)
    BY <1>1, <2>2, <2>3
  <2>5. d[k - 1] \in Int
    BY <1>8, <2>1, <2>4
  <2>6. step(k, d[k - 1]) \in Int
    BY <1>3, <2>4, <2>5
  <2> QED BY <1>7, <2>2, <2>3, <2>6
<1> QED BY <1>4, <1>8, <1>9 DEF n

\* A section starts at a multiple of four if it is aligned to one.
LEMMA SectStartType ==
  ASSUME IInv, NEW s \in Sects
  PROVE  SectStart(s) \in Int /\ (align[s] >= 2 => SectStart(s) % 4 = 0)
<1> DEFINE k == IF Zerofill(s) THEN Len(unit.sect) + s - 1 ELSE s - 1
           v == SlideEnd[k]
           m == 2^align[s]
<1>1. align[s] \in Nat /\ m \in Nat /\ m > 0 /\ Len(unit.sect) \in Nat
  BY SectionTypes
<1>2. k \in 0 .. 2 * Len(unit.sect)
  BY <1>1 DEF Sects
<1> HIDE DEF k
<1>3. v \in Int
  BY <1>2, SlideEndType
<1>4. SectStart(s) = v + ((-v) % m)
  BY DEF SectStart, rnd, k
<1> HIDE DEF v
<1>5. ASSUME align[s] >= 2 PROVE \E q \in Nat : m = 4 * q
  BY <1>1, <1>5, PowerOfFour
<1> HIDE DEF m
<1>6. /\ (-v) % m \in 0 .. m - 1
      /\ \A q \in Nat : m = 4 * q => (v + ((-v) % m)) % 4 = 0
  BY <1>1, <1>3, RoundedUp
<1>7. (-v) % m \in Int
  BY <1>1, <1>6
<1>8. SectStart(s) \in Int
  BY <1>3, <1>4, <1>7
<1>9. align[s] >= 2 => SectStart(s) % 4 = 0
  BY <1>4, <1>5, <1>6
<1> QED BY <1>8, <1>9

\* The addresses become absolute.
LEMMA SlideInv ==
  ASSUME IInv, Slide
  PROVE  IInv'
<1>1. /\ pc = "slide" /\ pc' = "convert"
      /\ UNCHANGED <<unit, fr_type, fr_fix, fr_state, last_fr_address, align, layout_pass,
                     sec, cur, address, stretch, stretched, changed>>
  BY DEF Slide
<1>2. unit \in Units /\ Shape(unit, fr_address')
  BY DEF IInv, Typed, Slide, Shape, Sects, Frags, LenOf
<1>3. ASSUME NEW s \in Sects, NEW i \in Frags(s)
      PROVE  /\ fr_address'[s][i] \in Int /\ fr_address[s][i] \in Int
             /\ ~Zerofill(s) => fr_address'[s][i] = SectStart(s) + fr_address[s][i]
  <2>1. SectStart(s) \in Int /\ SectSize(s) \in Int /\ fr_address[s][i] \in Int
    BY SectStartType, SectionTypes DEF IInv, Typed, FieldsOK
  <2>2. fr_address'[s][i] = SectStart(s) + (IF Zerofill(s) THEN (IF i = 1 THEN 0 ELSE SectSize(s))
                                            ELSE fr_address[s][i])
    BY DEF Slide
  <2> QED BY <2>1, <2>2
<1>4. Typed'
  <2>1. \A s \in Sects : \A i \in Frags(s) :
          FieldsOK(unit, s, i, fr_type, fr_fix, fr_state, fr_address', last_fr_address)
    BY <1>3 DEF IInv, Typed, FieldsOK
  <2> QED BY <1>1, <1>2, <2>1 DEF IInv, Typed, Sects, Frags
<1>5. Place' /\ Guessing' /\ Relaxing' /\ Kept' /\ Wrote'
  BY <1>1 DEF IInv, Place, Guessing, Relaxing, Kept, Wrote, Active
<1>6. LaidOut'
  BY <1>1 DEF IInv, LaidOut, Laid, Earlier, Sects, Zerofill
<1>7. ASSUME NEW s \in Sects, ~Zerofill(s)
      PROVE  /\ \A i \in Frags(s) : fr_address'[s][i]
                  = last_fr_address[s][i] + (fr_address'[s][1] - last_fr_address[s][1])
             /\ align[s] >= 2 => (fr_address'[s][1] - last_fr_address[s][1]) % 4 = 0
  <2>1. ASSUME NEW i \in Frags(s)
        PROVE  /\ last_fr_address[s][i] \in Int
               /\ fr_address'[s][i] = SectStart(s) + last_fr_address[s][i]
    <3>1. fr_address[s][i] = last_fr_address[s][i]
      BY <1>1 DEF IInv, Kept, Active
    <3> QED BY <1>3, <1>7, <3>1
  <2>2. 1 \in Frags(s)
    BY SectionTypes DEF Frags
  <2>3. SectStart(s) \in Int /\ (align[s] >= 2 => SectStart(s) % 4 = 0)
    BY SectStartType
  <2>4. fr_address'[s][1] - last_fr_address[s][1] = SectStart(s)
    BY <2>1, <2>2, <2>3
  <2>5. ASSUME NEW i \in Frags(s) PROVE fr_address'[s][i] = last_fr_address[s][i] + SectStart(s)
    BY <2>1, <2>3
  <2> QED BY <2>3, <2>4, <2>5
<1>8. Slid'
  BY <1>1, <1>7 DEF Slid, SlidBy, Sects, Frags, Zerofill
<1> QED BY <1>4, <1>5, <1>6, <1>8 DEF IInv

\* Every frag is written as what the conversion makes of it.
LEMMA ConvertInv ==
  ASSUME IInv, Convert
  PROVE  IInv'
<1>1. /\ pc = "convert" /\ pc' = "done"
      /\ UNCHANGED <<unit, fr_type, fr_fix, fr_state, fr_address, last_fr_address, align,
                     layout_pass, sec, cur, address, stretch, stretched, changed>>
  BY DEF Convert, fragVars
<1>2. Typed'
  <2>1. Typed /\ address \in Int /\ stretch \in Int /\ sec \in Nat \ {0} /\ cur \in Nat \ {0}
    BY DEF IInv, Typed
  <2>2. /\ sec' \in Nat \ {0} /\ cur' \in Nat \ {0}
        /\ address' \in Int /\ stretch' \in Int
    BY <1>1, <2>1 DEF Sects
  <2>3. UNCHANGED <<unit, fragVars>>
    BY <1>1 DEF fragVars
  <2> QED BY <2>1, <2>2, <2>3, LoopStep
<1>3. Place' /\ Guessing' /\ Relaxing' /\ Kept'
  BY <1>1 DEF IInv, Place, Guessing, Relaxing, Kept, Active
<1>4. LaidOut' /\ Slid'
  BY <1>1 DEF IInv, LaidOut, Laid, Earlier, Slid, SlidBy, Sects, Frags, Zerofill
<1>5. Wrote'
  <2>1. bytes' = [s \in Sects |-> [i \in Frags(s) |-> IF Zerofill(s) THEN 0 ELSE Converted(s, i)]]
    BY DEF Convert
  <2>2. \A s \in Sects : \A i \in Frags(s) : Converted(s, i)' = Converted(s, i)
    BY <1>1 DEF Converted, Frag, Extension
  <2>3. Sects' = Sects /\ \A s : Frags(s)' = Frags(s) /\ Zerofill(s)' = Zerofill(s)
    BY <1>1 DEF Sects, Frags, Zerofill
  <2> QED BY <2>1, <2>2, <2>3 DEF Wrote
<1> QED BY <1>2, <1>3, <1>4, <1>5 DEF IInv

\* The invariant holds initially and every step keeps it.
LEMMA Invariance == Spec => []IInv
<1>1. Init => IInv
  BY InitInv
<1>2. IInv /\ [Next]_vars => IInv'
  <2> SUFFICES ASSUME IInv, [Next]_vars PROVE IInv'
    OBVIOUS
  <2>1. CASE Layout
    BY <2>1, SkipSectionInv, EnterSectionInv, EndRoundInv, SlideInv, ConvertInv DEF Layout
  <2>2. CASE Guess
    BY <2>2, GuessFillInv, GuessAlignInv, GuessJumpInv, GuessSmallestInv DEF Guess
  <2>3. CASE RelaxPass
    BY <2>3, RelaxFillInv, RelaxAlignInv, RelaxOrgInv, RelaxJumpInv, RelaxThumbInv, RelaxLebInv,
       EndPassInv DEF RelaxPass
  <2>4. CASE UNCHANGED vars
    <3>1. UNCHANGED <<unit, fr_type, fr_fix, fr_state, fr_address, last_fr_address, align, pc,
                      layout_pass, sec, cur, address, stretch, stretched, changed, bytes>>
      BY <2>4 DEF vars, fragVars
    <3>2. Typed' /\ Place' /\ Guessing' /\ Relaxing' /\ Kept' /\ LaidOut' /\ Slid'
      BY <3>1 DEF IInv, Typed, Place, Guessing, Relaxing, Kept, LaidOut, Slid, SlidBy, Laid, Earlier,
                  Active, Sects, Frags, Zerofill
    <3>3. Wrote'
      <4>1. \A s \in Sects : \A i \in Frags(s) : Converted(s, i)' = Converted(s, i)
        BY <3>1 DEF Converted, Frag, Extension
      <4>2. Sects' = Sects /\ \A s : Frags(s)' = Frags(s) /\ Zerofill(s)' = Zerofill(s)
        BY <3>1 DEF Sects, Frags, Zerofill
      <4> QED BY <3>1, <4>1, <4>2 DEF IInv, Wrote
    <3> QED BY <3>2, <3>3 DEF IInv
  <2> QED BY <2>1, <2>2, <2>3, <2>4 DEF Next, Done
<1> QED BY <1>1, <1>2, PTL DEF Spec

-----------------------------------------------------------------------------
(***************************************************************************)
(* What the layout has achieved when the frags are converted.              *)
(***************************************************************************)

\* The symbols of every rs_leb128 are of one section, laid out in time.
LebsKnown ==
  \A s \in Sects : \A i \in Frags(s) :
    Frag(s, i).type = "rs_leb128" => LebKnown(unit, s, Frag(s, i))

\* Every Thumb adr is of a symbol of its section, which is aligned to words.
AdrsAligned ==
  \A s \in Sects : \A i \in Frags(s) :
    unit.arm /\ Frag(s, i).type = "rs_machine_dependent" /\ Frag(s, i).op = "adr"
      => Frag(s, i).sym.sec = s /\ align[s] >= 2

\* A symbol of a section moves with it.
LEMMA SymSlid ==
  ASSUME IInv, pc = "done", NEW s \in Sects, NEW i \in Frags(s), NEW y,
         y = Frag(s, i).sym \/ y = Frag(s, i).sub, y.sec # 0, y.sec \in Sects => ~Zerofill(y.sec)
  PROVE  /\ Sym(fr_address, y) = Sym(last_fr_address, y) + SlidBy(y.sec)
         /\ Sym(last_fr_address, y) \in Int /\ SlidBy(y.sec) \in Int
<1>1. FragOK(unit, Frag(s, i))
  BY TheUnit DEF IInv, Typed, Frag, FragOf, Sects, Frags, LenOf
<1>2. y.sec \in Sects /\ y.frag \in Frags(y.sec) /\ y.value \in Int
  BY <1>1, SMTT(30) DEF FragOK, Sects, Frags
<1> DEFINE a == fr_address[y.sec][y.frag]
           l == last_fr_address[y.sec][y.frag]
<1>3. 1 \in Frags(y.sec)
  BY <1>2, SectionTypes DEF Frags
<1>4. l \in Int /\ SlidBy(y.sec) \in Int
  BY <1>2, <1>3 DEF IInv, Typed, FieldsOK, SlidBy
<1>5. a = l + SlidBy(y.sec)
  BY <1>2 DEF IInv, Slid
<1>6. y.value + a = y.value + l + SlidBy(y.sec) /\ y.value + l \in Int
  <2> HIDE DEF a, l
  <2> QED BY <1>2, <1>4, <1>5
<1> QED BY <1>4, <1>6 DEF Sym

\* A frag that is written: the addresses around it, its link and its state.
LEMMA FragWritten ==
  ASSUME IInv, pc = "done", NEW s \in Sects, NEW i \in Frags(s), ~Zerofill(s),
         i < Len(unit.sect[s].frags)
  PROVE  LET L == last_fr_address
         IN  /\ FragOK(unit, Frag(s, i)) /\ Frag(s, i) = FragOf(unit, s, i)
             /\ FieldsOK(unit, s, i, fr_type, fr_fix, fr_state, fr_address, L)
             /\ L[s][i] \in Int /\ L[s][i + 1] \in Int /\ SlidBy(s) \in Int
             /\ fr_address[s][i] = L[s][i] + SlidBy(s)
             /\ fr_address[s][i + 1] = L[s][i + 1] + SlidBy(s)
             /\ (align[s] >= 2 => SlidBy(s) % 4 = 0)
             /\ Link(unit, s, i, fr_type, fr_fix, fr_state, L, L[s][i + 1])
             /\ Settled(unit, s, i, fr_type, fr_fix, fr_state, L)
<1>1. unit \in Units /\ s \in 1 .. Len(unit.sect) /\ i \in 1 .. LenOf(unit, s)
  BY DEF IInv, Typed, Sects, Frags, LenOf
<1>2. /\ FragOK(unit, Frag(s, i)) /\ Frag(s, i) = FragOf(unit, s, i)
      /\ LenOf(unit, s) \in Nat \ {0} /\ unit.sect[s].pass \in 0 .. 2
  BY <1>1, TheUnit DEF Frag, FragOf
<1>3. i + 1 \in Frags(s) /\ 1 \in Frags(s) /\ i \in 1 .. LenOf(unit, s) - 1
  BY <1>1, <1>2 DEF Frags, LenOf
<1>4. /\ FieldsOK(unit, s, i, fr_type, fr_fix, fr_state, fr_address, last_fr_address)
      /\ last_fr_address[s][i] \in Int /\ last_fr_address[s][i + 1] \in Int
      /\ SlidBy(s) \in Int
  BY <1>3 DEF IInv, Typed, FieldsOK, SlidBy
<1>5. /\ fr_address[s][i] = last_fr_address[s][i] + SlidBy(s)
      /\ fr_address[s][i + 1] = last_fr_address[s][i + 1] + SlidBy(s)
      /\ (align[s] >= 2 => SlidBy(s) % 4 = 0)
  BY <1>3 DEF IInv, Slid
<1>6. Earlier(s) /\ Laid(s)
  BY <1>2 DEF IInv, Place, Earlier, Laid
<1>7. /\ Link(unit, s, i, fr_type, fr_fix, fr_state, last_fr_address, last_fr_address[s][i + 1])
      /\ Settled(unit, s, i, fr_type, fr_fix, fr_state, last_fr_address)
  BY <1>3, <1>6 DEF IInv, LaidOut, LenOf
<1> QED BY <1>2, <1>4, <1>5, <1>7

\* The members of Written.
LEMMA WrittenFrag ==
  ASSUME NEW p \in Written
  PROVE  /\ p[1] \in Sects /\ p[2] \in Frags(p[1]) /\ ~Zerofill(p[1])
         /\ p[2] < Len(unit.sect[p[1]].frags)
BY DEF Written

\* layout_addresses(): every frag is converted to exactly the bytes between
\* its address and the next frag's, whatever the sections, the frags and the
\* order in which they grew, but for an .org that the layout has passed.
THEOREM FragsFilled == Spec => [](LebsKnown => BytesFillTheFrags)
<1>1. IInv /\ LebsKnown => BytesFillTheFrags
  <2> SUFFICES ASSUME IInv, LebsKnown, pc = "done", NEW s \in Sects, NEW i \in Frags(s),
                      ~Zerofill(s), i < Len(unit.sect[s].frags), ~PastTarget(s, i)
               PROVE  bytes[s][i] = fr_address[s][i + 1] - fr_address[s][i]
    BY WrittenFrag DEF BytesFillTheFrags
  <2> DEFINE f == Frag(s, i)
             l == last_fr_address[s][i]
             m == last_fr_address[s][i + 1]
             d == SlidBy(s)
             x == fr_fix[s][i]
             st == fr_state[s][i]
             n == fr_address[s][i + 1] - fr_address[s][i] - x
  <2>1. /\ FragOK(unit, f) /\ f = FragOf(unit, s, i)
        /\ FieldsOK(unit, s, i, fr_type, fr_fix, fr_state, fr_address, last_fr_address)
        /\ l \in Int /\ m \in Int /\ d \in Int
        /\ fr_address[s][i] = l + d /\ fr_address[s][i + 1] = m + d
        /\ Link(unit, s, i, fr_type, fr_fix, fr_state, last_fr_address, m)
        /\ Settled(unit, s, i, fr_type, fr_fix, fr_state, last_fr_address)
    BY FragWritten
  <2>2. /\ fr_type[s][i] \in {f.type, "rs_fill"} /\ x \in Nat /\ st \in Int
        /\ fr_type[s][i] = "rs_machine_dependent" /\ ~unit.arm => st \in 0 .. 11
        /\ fr_type[s][i] \in {"rs_fill", "rs_align", "rs_org", "rs_machine_dependent", "rs_leb128"}
        /\ f.exp \in Nat /\ f.max \in Nat /\ f.fill \in Nat
    BY <2>1 DEF FieldsOK, FragOK
  <2>3. bytes[s][i] = Converted(s, i)
    BY DEF IInv, Wrote
  <2>4. fr_address[s][i + 1] - fr_address[s][i] = m - l /\ n = m - l - x
    <3> HIDE DEF l, m, d, x, f
    <3> QED BY <2>1, <2>2
  <2>5. fr_type[s][i] # "rs_org" =>
          m = l + x + VarSize(unit.arm, f, fr_type[s][i], st, l + x)
    BY <2>1 DEF Link
  <2> HIDE DEF f, l, m, d, x, st, n
  <2>6. CASE fr_type[s][i] = "rs_fill"
    <3>1. Converted(s, i) = x + f.fill
      BY <2>6 DEF Converted, f, x
    <3>2. m = l + x + f.fill
      BY <2>5, <2>6 DEF VarSize
    <3> QED BY <2>1, <2>2, <2>3, <2>4, <3>1, <3>2
  <2>7. CASE fr_type[s][i] = "rs_align"
    <3>1. Converted(s, i) = x + (IF n < 0 THEN 0 ELSE n)
      BY <2>7 DEF Converted, n, x
    <3>2. l + x \in Int
      BY <2>1, <2>2
    <3>3. Padding(f, l + x) \in Nat
      BY <2>2, <3>2, PaddingType
    <3>4. m = l + x + Padding(f, l + x)
      BY <2>5, <2>7 DEF VarSize
    <3>5. ~(n < 0) /\ n \in Int
      <4>1. \A a, b, p \in Int : (a + b + p) - a - b = p
        OBVIOUS
      <4>2. l \in Int /\ x \in Int /\ Padding(f, l + x) \in Int
        BY <2>1, <2>2, <3>3
      <4>3. n = Padding(f, l + x)
        BY <2>4, <3>4, <4>1, <4>2
      <4> QED BY <3>3, <4>3
    <3>6. bytes[s][i] = x + n
      BY <2>3, <3>1, <3>5
    <3> QED BY <2>1, <2>2, <2>4, <3>6
  <2>8. CASE fr_type[s][i] = "rs_org"
    <3>1. Converted(s, i) = x + (IF n < 0 THEN 0 ELSE n)
      BY <2>8 DEF Converted, n, x
    <3>2. ~(fr_address[s][i + 1] < fr_address[s][i] + x)
      BY <2>8 DEF PastTarget, x
    <3>3. ~(n < 0) /\ n \in Int
      BY <2>1, <2>2, <2>4, <3>2
    <3>4. bytes[s][i] = x + n
      BY <2>3, <3>1, <3>3
    <3> QED BY <2>1, <2>2, <2>4, <3>4
  <2>9. CASE fr_type[s][i] = "rs_leb128"
    <3>1. Converted(s, i) = x + sizeof_leb128(LebValue(fr_address, f), f.sign)
      BY <2>9 DEF Converted, f, x
    <3>2. LebKnown(unit, s, f) /\ f.sym.sec # 0 /\ f.sub.sec # 0
      BY <2>1, <2>2, <2>9 DEF LebsKnown, FragOK, f
    <3>3. st = sizeof_leb128(LebValue(last_fr_address, f), f.sign)
      BY <2>1, <2>9, <3>2 DEF Settled, st
    <3>4. f.sub.sec = f.sym.sec /\ ~Zerofill(f.sym.sec)
      BY <3>2 DEF LebKnown, Zerofill
    <3> DEFINE a == Sym(last_fr_address, f.sym)
               b == Sym(last_fr_address, f.sub)
               e == SlidBy(f.sym.sec)
    <3>5. /\ Sym(fr_address, f.sym) = a + e /\ a \in Int /\ e \in Int
          /\ Sym(fr_address, f.sub) = b + e /\ b \in Int
      BY <3>2, <3>4, SymSlid DEF f
    <3>6. f.off \in Int
      BY <2>1 DEF FragOK
    <3>7. LebValue(fr_address, f) = LebValue(last_fr_address, f)
      <4>1. a + e - (b + e) + f.off = a - b + f.off
        <5> HIDE DEF a, b, e
        <5> QED BY <3>5, <3>6
      <4> QED BY <3>5, <4>1 DEF LebValue
    <3>8. Converted(s, i) = x + st
      BY <3>1, <3>3, <3>7
    <3>9. m = l + x + st
      BY <2>5, <2>9 DEF VarSize
    <3> QED BY <2>1, <2>2, <2>3, <2>4, <3>8, <3>9
  <2>10. CASE fr_type[s][i] = "rs_machine_dependent"
    <3> DEFINE z == IF unit.arm THEN st ELSE md_relax_table[st].length
    <3>1. Converted(s, i) = x + (IF unit.arm THEN st ELSE Extension(st))
      BY <2>10 DEF Converted, x, st
    <3>2. z \in Int /\ Converted(s, i) = x + z
      <4>1. CASE unit.arm
        BY <2>2, <3>1, <4>1
      <4>2. CASE ~unit.arm
        <5>1. st \in 0 .. 11
          BY <2>2, <2>10, <4>2
        <5>2. md_relax_table[st].length \in Nat /\ Extension(st) = md_relax_table[st].length
          BY <5>1, RelaxTable
        <5> QED BY <3>1, <4>2, <5>2
      <4> QED BY <4>1, <4>2
    <3>3. m = l + x + z
      BY <2>5, <2>10 DEF VarSize
    <3> HIDE DEF z
    <3> QED BY <2>1, <2>2, <2>3, <2>4, <3>2, <3>3
  <2> QED BY <2>2, <2>6, <2>7, <2>8, <2>9, <2>10
<1> QED BY <1>1, Invariance, PTL

\* relax_section(): a jump that has kept its short form, a narrow Thumb
\* branch and a narrow adr reach their targets with the final addresses.
THEOREM ShortBranchesReach == Spec => [](AdrsAligned => BranchesReach)
<1>1. IInv /\ AdrsAligned => BranchesReach
  <2> SUFFICES ASSUME IInv, AdrsAligned, pc = "done", NEW s \in Sects, NEW i \in Frags(s),
                      ~Zerofill(s), i < Len(unit.sect[s].frags),
                      fr_type[s][i] = "rs_machine_dependent"
               PROVE  LET f == Frag(s, i)
                          pcv == fr_address[s][i] + fr_fix[s][i] + 4
                      IN  IF unit.arm
                          THEN /\ fr_state[s][i] = 2 /\ f.op = "branch" =>
                                    f.off + Sym(fr_address, f.sym) - pcv
                                      \in -(2^f.bits) .. (2^f.bits - 1)
                               /\ fr_state[s][i] = 2 /\ f.op = "adr" =>
                                    f.off + Sym(fr_address, f.sym) - 4 * (pcv \div 4) \in 0 .. 1020
                          ELSE fr_state[s][i] % 4 \in {0, 1} => Displacement(s, i) \in -128 .. 127
    BY WrittenFrag DEF BranchesReach
  <2> DEFINE f == Frag(s, i)
             l == last_fr_address[s][i]
             m == last_fr_address[s][i + 1]
             d == SlidBy(s)
             x == fr_fix[s][i]
             st == fr_state[s][i]
             v == Sym(last_fr_address, f.sym)
             pcv == fr_address[s][i] + x + 4
             low == -(2^f.bits) .. (2^f.bits - 1)
  <2>1. /\ FragOK(unit, f) /\ f = FragOf(unit, s, i)
        /\ FieldsOK(unit, s, i, fr_type, fr_fix, fr_state, fr_address, last_fr_address)
        /\ l \in Int /\ m \in Int /\ d \in Int
        /\ fr_address[s][i] = l + d /\ fr_address[s][i + 1] = m + d
        /\ (align[s] >= 2 => d % 4 = 0)
        /\ Link(unit, s, i, fr_type, fr_fix, fr_state, last_fr_address, m)
        /\ Settled(unit, s, i, fr_type, fr_fix, fr_state, last_fr_address)
    BY FragWritten
  <2>2. x \in Nat /\ (~unit.arm => st \in 0 .. 11) /\ f.off \in Int /\ f.type = fr_type[s][i]
    BY <2>1 DEF FieldsOK, FragOK
  <2>3. Reaches(unit.arm, s, f, "rs_machine_dependent", st, l + x, v)
    BY <2>1 DEF Settled
  <2>4. ~unit.arm => f.sym.sec = s /\ m = l + x + md_relax_table[st].length
    BY <2>1 DEF Link, VarSize
  <2>5. ASSUME f.sym.sec = s
        PROVE  Sym(fr_address, f.sym) = v + d /\ v \in Int
    <3>1. s # 0
      BY SectionTypes DEF Sects
    <3> QED BY <2>5, <3>1, SymSlid
  <2>6. pcv = l + d + x + 4
    BY <2>1
  <2> HIDE DEF f, l, m, d, x, st, v, pcv, low
  <2>7. CASE ~unit.arm
    <3> SUFFICES ASSUME st % 4 \in {0, 1}
                 PROVE  Displacement(s, i) \in -128 .. 127
      BY <2>7 DEF st
    <3>1. f.off + v - (l + x) \in -127 .. 128
      BY <2>3, <2>7 DEF Reaches
    <3>2. md_relax_table[st].length = 1
      BY <2>2, <2>7, RelaxTable
    <3>3. Displacement(s, i) = f.off + (v + d) - (m + d)
      BY <2>1, <2>4, <2>5, <2>7 DEF Displacement, f
    <3>4. m = l + x + 1 /\ v \in Int
      BY <2>4, <2>5, <2>7, <3>2
    <3>5. f.off + (v + d) - (m + d) = (f.off + v - (l + x)) - 1
      BY <2>1, <2>2, <3>4
    <3>6. \A a \in -127 .. 128 : a - 1 \in -128 .. 127
      OBVIOUS
    <3> QED BY <3>1, <3>3, <3>5, <3>6, ZenonT(30)
  <2>8. CASE unit.arm
    <3>1. ASSUME st = 2, f.op = "branch"
          PROVE  f.off + Sym(fr_address, f.sym) - pcv \in low
      <4>1. f.sym.sec = s /\ f.off + v - (l + x + 4) \in low
        BY <2>3, <2>8, <3>1, Zenon DEF Reaches, low
      <4>2. f.off + Sym(fr_address, f.sym) - pcv = f.off + v - (l + x + 4)
        BY <2>1, <2>2, <2>5, <2>6, <4>1
      <4> QED BY <4>1, <4>2, Zenon
    <3>2. ASSUME st = 2, f.op = "adr"
          PROVE  f.off + Sym(fr_address, f.sym) - 4 * (pcv \div 4) \in 0 .. 1020
      <4>1. f.sym.sec = s /\ d % 4 = 0
        BY <2>1, <2>2, <2>8, <3>2 DEF AdrsAligned, f
      <4>2. f.off + v - ((l + x + 4) \div 4) * 4 \in 0 .. 1020
        BY <2>3, <2>8, <3>2, <4>1, Zenon DEF Reaches
      <4>3. \A a, b \in Int : b % 4 = 0 => 4 * ((a + b) \div 4) = (a \div 4) * 4 + b
        OBVIOUS
      <4> DEFINE a == l + x + 4
                 w == a \div 4
      <4>4. a \in Int /\ w \in Int /\ pcv = a + d
        BY <2>1, <2>2, <2>6
      <4> HIDE DEF a
      <4>5. 4 * (pcv \div 4) = w * 4 + d
        BY <2>1, <4>1, <4>3, <4>4
      <4> HIDE DEF w
      <4>6. f.off + Sym(fr_address, f.sym) - 4 * (pcv \div 4) = f.off + v - w * 4
        BY <2>1, <2>2, <2>5, <4>1, <4>4, <4>5
      <4> QED BY <4>2, <4>6, Zenon DEF w, a
    <3> QED BY <2>8, <3>1, <3>2, ZenonT(30) DEF f, st, x, pcv, low
  <2> QED BY <2>7, <2>8, Zenon DEF f, st, x, pcv
<1> QED BY <1>1, Invariance, PTL
-----------------------------------------------------------------------------
(***************************************************************************)
(* Where an .org leads.                                                    *)
(***************************************************************************)

\* A section in which a frag never shrinks: it has no rs_leb128 and no Thumb
\* instruction to relax.  Its .orgs name an address of the section: "had
\* better be in the right segment", or as_bad.
Plain(u, s) ==
  \A i \in 1 .. LenOf(u, s) :
    /\ FragOf(u, s, i).type # "rs_leb128"
    /\ u.arm => FragOf(u, s, i).type # "rs_machine_dependent"
    /\ FragOf(u, s, i).type = "rs_org" => FragOf(u, s, i).sym.sec \in {0, s}

\* What follows the .org is not beyond both the end of its fixed part and its
\* target.
Bounded(u, s, i, X, A, next) ==
  next <= A[s][i] + X[s][i] \/ next <= OrgTarget(A, FragOf(u, s, i))

\* It is not short of the target.
Far(u, s, i, A) == OrgTarget(A, FragOf(u, s, i)) <= A[s][i + 1]

IsOrg(s, i) == FragOf(unit, s, i).type = "rs_org"

\* No .org is converted to anything else.
OrgsStay == \A s \in Sects : \A i \in Frags(s) : IsOrg(s, i) => fr_type[s][i] = "rs_org"

\* A section starts at zero until it slides.
FromZero ==
  /\ \A s \in Sects : last_fr_address[s][1] = 0
  /\ pc = "guess" => IF cur = 1 THEN address = 0 ELSE fr_address[sec][1] = 0
  /\ pc = "relax" => fr_address[sec][1] = 0 /\ (cur = 1 => stretch = 0)

\* The first guess gives an .org no room.
OrgsGuessed ==
  pc = "guess" => \A i \in 1 .. cur - 1 : IsOrg(sec, i) =>
    (IF i = cur - 1 THEN address ELSE fr_address[sec][i + 1])
      = fr_address[sec][i] + fr_fix[sec][i]

\* In a pass over a plain section everything moves forwards, so that what was
\* not beyond the target of an .org is not beyond it now; a pass on which
\* nothing has stretched has met .orgs that were not short of it.
OrgsRelaxed ==
  pc = "relax" /\ Plain(unit, sec) =>
    /\ stretch >= 0
    /\ \A i \in 1 .. Len(unit.sect[sec].frags) - 1 : IsOrg(sec, i) =>
         /\ Bounded(unit, sec, i, fr_fix, fr_address,
                    fr_address[sec][i + 1] + (IF i = cur - 1 THEN stretch ELSE 0))
         /\ ~stretched /\ i < cur => Far(unit, sec, i, fr_address)

OrgsLaidOut ==
  \A s \in Sects : ~Zerofill(s) /\ Laid(s) /\ Plain(unit, s) =>
    \A i \in 1 .. Len(unit.sect[s].frags) - 1 : IsOrg(s, i) =>
      /\ Bounded(unit, s, i, fr_fix, last_fr_address, last_fr_address[s][i + 1])
      /\ Far(unit, s, i, last_fr_address)

OInv == OrgsStay /\ FromZero /\ OrgsGuessed /\ OrgsRelaxed /\ OrgsLaidOut

\* The remainder is what is left below m.
LEMMA ModuloUnique ==
  ASSUME NEW m \in Nat \ {0}, NEW q \in Int, NEW r \in 0 .. m - 1
  PROVE  (m * q + r) % m = r
<1> DEFINE v == m * q + r
           d == v \div m
           t == v % m
<1>1. v \in Int /\ d \in Int /\ t \in 0 .. m - 1 /\ v = m * d + t
  <2>1. v \in Int
    OBVIOUS
  <2> HIDE DEF v
  <2> QED BY <2>1
<1> HIDE DEF d, t
<1>2. m * (d - q) = r - t
  <2>1. m * d \in Int /\ m * q \in Int /\ m * (d - q) = m * d - m * q
    BY <1>1
  <2> QED BY <1>1, <2>1
<1>3. d - q \in Int /\ m * (d - q) < m /\ m * (d - q) > -m
  BY <1>1, <1>2
<1>4. \A e \in Int : e >= 1 => m * e >= m
  OBVIOUS
<1>5. \A e \in Int : e <= -1 => m * e <= -m
  OBVIOUS
<1>6. d - q = 0
  BY <1>1, <1>3, <1>4, <1>5
<1>7. r = t
  BY <1>1, <1>2, <1>6
<1> QED BY <1>7 DEF t

\* Further on, an alignment ends further on or at the same place: a padding
\* that is given up because it is too long was passed over.
LEMMA AlignGrows ==
  ASSUME NEW f, f.exp \in Nat, f.max \in Nat, NEW x \in Int, NEW y \in Int, x <= y
  PROVE  x + Padding(f, x) <= y + Padding(f, y)
<1> DEFINE m == 2^f.exp
           n(a) == (-a) % m
<1>1. m \in Nat \ {0}
  BY PowerOfTwo
<1> HIDE DEF m
<1>2. n(x) \in 0 .. m - 1 /\ n(y) \in 0 .. m - 1
  BY <1>1
<1>3. y < x + n(x) => y + n(y) = x + n(x)
  <2> SUFFICES ASSUME y < x + n(x) PROVE n(y) = (-y) - ((-x) - n(x))
    BY <1>2
  <2> DEFINE q == (-x) \div m
             r == (-y) - m * q
  <2>1. q \in Int /\ -x = m * q + n(x)
    BY <1>1
  <2> HIDE DEF q
  <2>2. m * q \in Int
    BY <1>1, <2>1
  <2>3. r \in 0 .. m - 1 /\ -y = m * q + r
    <3> HIDE DEF n
    <3> QED BY <1>1, <1>2, <2>1, <2>2
  <2>4. (-y) % m = r
    BY <1>1, <2>1, <2>2, <2>3, ModuloUnique
  <2> QED BY <1>2, <2>1, <2>2, <2>4
<1>4. \A a : Padding(f, a) = IF f.max # 0 /\ n(a) > f.max THEN 0 ELSE n(a)
  BY DEF Padding, relax_align, m
<1> HIDE DEF n
<1> QED BY <1>2, <1>3, <1>4


\* If no address falls, no target does.
LEMMA TargetGrows ==
  ASSUME NEW u, NEW f, FragOK(u, f), NEW A, NEW B,
         \A s \in 1 .. Len(u.sect) : \A i \in 1 .. LenOf(u, s) :
           A[s][i] \in Int /\ B[s][i] \in Int /\ A[s][i] <= B[s][i]
  PROVE  OrgTarget(A, f) \in Int /\ OrgTarget(B, f) \in Int /\ OrgTarget(A, f) <= OrgTarget(B, f)
<1>1. f.off \in Int
  BY DEF FragOK
<1>2. CASE f.sym.sec = 0
  BY <1>1, <1>2 DEF OrgTarget
<1>3. CASE f.sym.sec # 0
  <2> DEFINE y == f.sym
  <2>1. y.sec \in 1 .. Len(u.sect) /\ y.frag \in 1 .. LenOf(u, y.sec) /\ y.value \in Int
    BY <1>3, SMTT(30) DEF FragOK, LenOf
  <2>2. /\ A[y.sec][y.frag] \in Int /\ B[y.sec][y.frag] \in Int
        /\ A[y.sec][y.frag] <= B[y.sec][y.frag]
    BY <2>1
  <2> HIDE DEF y
  <2>3. Sym(A, y) \in Int /\ Sym(B, y) \in Int /\ Sym(A, y) <= Sym(B, y)
    BY <2>1, <2>2 DEF Sym
  <2> QED BY <1>1, <1>3, <2>3 DEF OrgTarget, y
<1> QED BY <1>2, <1>3

\* The frags of section s are at B as they are at A, but d further on.
MovedBy(u, s, A, B, d) ==
  d \in Int /\ \A i \in 1 .. LenOf(u, s) : A[s][i] \in Int /\ B[s][i] = A[s][i] + d

\* The target of an .org of a plain section depends on the addresses of its
\* section alone.
LEMMA TargetHere ==
  ASSUME NEW u, NEW s, NEW f, FragOK(u, f), f.sym.sec \in {0, s}, s # 0, NEW A, NEW B, NEW d,
         MovedBy(u, s, A, B, d)
  PROVE  /\ OrgTarget(A, f) \in Int
         /\ f.sym.sec # 0 => OrgTarget(B, f) = OrgTarget(A, f) + d
<1>1. f.off \in Int /\ d \in Int
  BY DEF FragOK, MovedBy
<1>2. CASE f.sym.sec = 0
  BY <1>1, <1>2 DEF OrgTarget
<1>3. CASE f.sym.sec # 0
  <2> DEFINE y == f.sym
  <2>1. y.sec = s /\ y.frag \in 1 .. LenOf(u, s) /\ y.value \in Int
    BY <1>3, SMTT(30) DEF FragOK, LenOf
  <2>2. A[y.sec][y.frag] \in Int /\ B[y.sec][y.frag] = A[y.sec][y.frag] + d
    BY <2>1 DEF MovedBy
  <2> HIDE DEF y
  <2>3. Sym(A, y) \in Int /\ Sym(B, y) = Sym(A, y) + d
    BY <1>1, <2>1, <2>2 DEF Sym
  <2> QED BY <1>1, <1>3, <2>3 DEF OrgTarget, y
<1> QED BY <1>2, <1>3

\* While one section is laid out, the .orgs of the others stay where they are.
LEMMA OthersOrgs ==
  ASSUME Typed, Place, OrgsLaidOut, Active, Same(unit, sec, cur, fr_fix, fr_fix'),
         UNCHANGED <<unit, last_fr_address, layout_pass, sec>>
  PROVE  OrgsLaidOut'
<1> SUFFICES ASSUME NEW s \in Sects, ~Zerofill(s), Laid(s), Plain(unit, s),
                    NEW i \in 1 .. Len(unit.sect[s].frags) - 1, IsOrg(s, i)
             PROVE  /\ Bounded(unit, s, i, fr_fix', last_fr_address, last_fr_address[s][i + 1])
                    /\ Far(unit, s, i, last_fr_address)
  BY DEF OrgsLaidOut, Laid, Earlier, Sects, Zerofill, IsOrg
<1>1. unit \in Units /\ s \in 1 .. Len(unit.sect) /\ s # sec
  BY TheUnit DEF Typed, Place, Laid, Earlier, Sects, Active
<1>2. i \in 1 .. LenOf(unit, s)
  BY <1>1, TheUnit DEF LenOf
<1>3. fr_fix'[s][i] = fr_fix[s][i]
  BY <1>1, <1>2 DEF Same
<1>4. /\ Bounded(unit, s, i, fr_fix, last_fr_address, last_fr_address[s][i + 1])
      /\ Far(unit, s, i, last_fr_address)
  BY DEF OrgsLaidOut
<1> QED BY <1>3, <1>4 DEF Bounded

\* An .org that is not touched stays one.
LEMMA StayStep ==
  ASSUME IInv, OrgsStay, Active, cur \in Frags(sec), UNCHANGED <<unit, sec>>,
         Same(unit, sec, cur, fr_type, fr_type'),
         IsOrg(sec, cur) => fr_type'[sec][cur] = "rs_org"
  PROVE  OrgsStay'
<1> SUFFICES ASSUME NEW s \in Sects, NEW i \in Frags(s), IsOrg(s, i)
             PROVE  fr_type'[s][i] = "rs_org"
  BY DEF OrgsStay, Sects, Frags, IsOrg
<1>1. CASE s = sec /\ i = cur
  BY <1>1
<1>2. CASE s # sec \/ i # cur
  BY <1>2 DEF OrgsStay, Same, Sects, Frags, LenOf
<1> QED BY <1>1, <1>2

\* A frag of the first guess: an .org takes no room.
LEMMA GuessOrgs ==
  ASSUME IInv, OInv, IInv', pc = "guess", NEW a \in Int, GuessAddress, NextGuess(a),
         Same(unit, sec, cur, fr_type, fr_type'), Same(unit, sec, cur, fr_fix, fr_fix'),
         IsOrg(sec, cur) => /\ fr_type'[sec][cur] = "rs_org"
                            /\ a = address + fr_fix'[sec][cur],
         UNCHANGED <<unit, last_fr_address, layout_pass, sec>>
  PROVE  OInv'
<1> DEFINE n == LenOf(unit, sec)
<1>1. /\ unit \in Units /\ sec \in 1 .. Len(unit.sect) /\ sec \in Sects /\ Active
      /\ n \in Nat \ {0} /\ cur \in 1 .. n /\ cur \in Frags(sec) /\ cur \in Int
      /\ Typed /\ Place /\ 1 \in 1 .. n
  <2>1. unit \in Units /\ sec \in Sects /\ Active /\ cur \in Frags(sec) /\ Typed /\ Place
    BY DEF IInv, Typed, Place, Active
  <2>2. sec \in 1 .. Len(unit.sect) /\ cur \in 1 .. n
    BY <2>1 DEF Sects, Frags, LenOf
  <2>3. n \in Nat \ {0}
    BY <2>1, <2>2, TheUnit
  <2> QED BY <2>1, <2>2, <2>3
<1>2. fr_address'[sec][cur] = address /\ Same(unit, sec, cur, fr_address, fr_address')
  <2>1. fr_address' = [fr_address EXCEPT ![sec][cur] = address] /\ Shape(unit, fr_address)
    BY <1>1 DEF GuessAddress, Typed
  <2> QED BY <1>1, <2>1 DEF Shape, Same
<1>3. OrgsStay' /\ OrgsLaidOut'
  BY <1>1, StayStep, OthersOrgs DEF OInv
<1>4. fr_address'[sec][1] = 0
  <2>1. CASE cur = 1
    BY <1>2, <2>1 DEF OInv, FromZero
  <2>2. CASE cur # 1
    BY <1>1, <1>2, <2>2 DEF OInv, FromZero, Same
  <2> QED BY <2>1, <2>2
<1>5. ASSUME NEW i \in 1 .. cur - 1, IsOrg(sec, i)
      PROVE  fr_address'[sec][i + 1] = fr_address'[sec][i] + fr_fix'[sec][i]
  <2>1. i \in 1 .. n /\ i + 1 \in 1 .. n /\ i # cur
    BY <1>1, <1>5
  <2>2. fr_fix'[sec][i] = fr_fix[sec][i] /\ fr_address'[sec][i] = fr_address[sec][i]
    BY <1>1, <1>2, <2>1 DEF Same
  <2>3. fr_address'[sec][i + 1] = IF i = cur - 1 THEN address ELSE fr_address[sec][i + 1]
    <3>1. CASE i = cur - 1
      BY <1>1, <1>2, <3>1
    <3>2. CASE i # cur - 1
      <4>1. i + 1 # cur
        BY <1>1, <3>2
      <4> QED BY <1>1, <1>2, <2>1, <3>2, <4>1 DEF Same
    <3> QED BY <3>1, <3>2
  <2> QED BY <1>5, <2>2, <2>3 DEF OInv, OrgsGuessed
<1>6. CASE cur < n
  <2>1. pc' = "guess" /\ cur' = cur + 1 /\ address' = a /\ cur' - 1 = cur /\ cur' # 1
    BY <1>1, <1>6 DEF NextGuess, LenOf
  <2>2. FromZero'
    BY <1>4, <2>1 DEF OInv, FromZero, Sects
  <2>3. OrgsGuessed'
    <3> SUFFICES ASSUME NEW i \in 1 .. cur, IsOrg(sec, i)
                 PROVE  (IF i = cur THEN a ELSE fr_address'[sec][i + 1])
                          = fr_address'[sec][i] + fr_fix'[sec][i]
      BY <2>1 DEF OrgsGuessed, IsOrg
    <3>1. CASE i = cur
      BY <1>2, <3>1
    <3>2. CASE i # cur
      <4>1. i \in 1 .. cur - 1
        BY <1>1, <3>2
      <4> QED BY <1>5, <3>2, <4>1
    <3> QED BY <3>1, <3>2
  <2>4. OrgsRelaxed'
    BY <2>1 DEF OrgsRelaxed
  <2> QED BY <1>3, <2>2, <2>3, <2>4 DEF OInv
<1>7. CASE ~(cur < n)
  <2>1. pc' = "relax" /\ cur' = 1 /\ stretch' = 0 /\ cur = n
    BY <1>1, <1>7 DEF NextGuess, LenOf
  <2>2. FromZero'
    BY <1>4, <2>1 DEF OInv, FromZero, Sects
  <2>3. OrgsGuessed'
    BY <2>1 DEF OrgsGuessed
  <2>4. ASSUME NEW i \in 1 .. n - 1, IsOrg(sec, i)
        PROVE  /\ i # cur' - 1 /\ ~(i < cur')
               /\ Bounded(unit, sec, i, fr_fix', fr_address', fr_address'[sec][i + 1] + 0)
    <3>1. i # cur' - 1 /\ ~(i < cur') /\ i + 1 \in 1 .. n /\ i \in 1 .. n
      BY <1>1, <2>1, <2>4
    <3>2. fr_address'[sec][i + 1] \in Int
      BY <1>1, <3>1 DEF IInv, Typed, FieldsOK, Sects, Frags, LenOf
    <3>3. fr_address'[sec][i + 1] = fr_address'[sec][i] + fr_fix'[sec][i]
      BY <1>5, <2>1, <2>4
    <3> QED BY <3>1, <3>2, <3>3 DEF Bounded
  <2>5. OrgsRelaxed'
    BY <2>1, <2>4 DEF OrgsRelaxed, LenOf, IsOrg
  <2> QED BY <1>3, <2>2, <2>3, <2>5 DEF OInv
<1> QED BY <1>6, <1>7

\* A frag of a pass.  In a plain section nothing moves backwards, so what was
\* not beyond a target is not beyond it now.
LEMMA GrowOrgs ==
  ASSUME IInv, OInv, IInv', pc = "relax", cur \in Frags(sec), NEW g \in Int, Grow(g),
         Same(unit, sec, cur, fr_type, fr_type'), Same(unit, sec, cur, fr_fix, fr_fix'),
         Plain(unit, sec) => stretch + g >= 0,
         IsOrg(sec, cur) =>
           /\ fr_type'[sec][cur] = "rs_org" /\ fr_fix'[sec][cur] = fr_fix[sec][cur]
           /\ LET ahead == OrgTarget(fr_address', FragOf(unit, sec, cur)) - fr_address[sec][cur + 1]
              IN  g = (IF ahead > 0 THEN ahead ELSE 0) - stretch
  PROVE  OInv'
<1> DEFINE n == LenOf(unit, sec)
           A == fr_address
           B == fr_address'
<1>1. /\ fr_address' = Moved /\ stretch' = stretch + g /\ cur' = cur + 1
      /\ (~stretched' => ~stretched /\ g = 0)
      /\ UNCHANGED <<unit, last_fr_address, pc, layout_pass, sec>>
  BY DEF Grow
<1>2. /\ unit \in Units /\ sec \in 1 .. Len(unit.sect) /\ sec \in Sects /\ Active
      /\ n \in Nat \ {0} /\ cur \in 1 .. n /\ cur \in Int
      /\ Typed /\ Place /\ stretch \in Int /\ 1 \in 1 .. n
  <2>1. /\ unit \in Units /\ sec \in Sects /\ Active /\ Typed /\ Place
        /\ stretch \in Int
    BY DEF IInv, Typed, Place, Active
  <2>2. sec \in 1 .. Len(unit.sect) /\ cur \in 1 .. n
    BY <2>1 DEF Sects, Frags, LenOf
  <2>3. n \in Nat \ {0}
    BY <2>1, <2>2, TheUnit
  <2> QED BY <2>1, <2>2, <2>3
<1>3. /\ Same(unit, sec, cur, A, B) /\ B[sec][cur] = A[sec][cur] + stretch
      /\ A[sec][cur] \in Int
      /\ \A s \in 1 .. Len(unit.sect) : \A i \in 1 .. LenOf(unit, s) : B[s][i] \in Int
  BY <1>1, FragMoves
<1>4. \A s \in 1 .. Len(unit.sect) : \A i \in 1 .. LenOf(unit, s) : A[s][i] \in Int
  BY DEF IInv, Typed, FieldsOK, Sects, Frags, LenOf
<1>5. OrgsStay' /\ OrgsLaidOut'
  BY <1>1, <1>2, StayStep, OthersOrgs DEF OInv
<1>6. FromZero'
  <2>1. B[sec][1] = 0
    <3>1. CASE cur = 1
      <4>1. stretch = 0 /\ A[sec][1] = 0
        BY <3>1 DEF OInv, FromZero
      <4>2. B[sec][1] = A[sec][1] + stretch
        BY <1>3, <3>1
      <4> QED BY <4>1, <4>2
    <3>2. CASE cur # 1
      BY <1>2, <1>3, <3>2 DEF OInv, FromZero, Same
    <3> QED BY <3>1, <3>2
  <2>2. cur' # 1
    BY <1>1, <1>2
  <2> QED BY <1>1, <2>1, <2>2 DEF OInv, FromZero, Sects
<1>7. OrgsGuessed'
  BY <1>1 DEF OrgsGuessed
<1>8. ASSUME Plain(unit, sec), NEW i \in 1 .. n - 1, IsOrg(sec, i)
      PROVE  /\ Bounded(unit, sec, i, fr_fix', B, B[sec][i + 1] + (IF i = cur THEN stretch' ELSE 0))
             /\ ~stretched' /\ i < cur + 1 => Far(unit, sec, i, B)
  <2> DEFINE f == FragOf(unit, sec, i)
             old == A[sec][i + 1] + (IF i = cur - 1 THEN stretch ELSE 0)
             new == B[sec][i + 1] + (IF i = cur THEN stretch' ELSE 0)
             S == OrgTarget(A, f)
             T == OrgTarget(B, f)
  <2>1. i \in 1 .. n /\ i + 1 \in 1 .. n /\ i \in Int
    BY <1>2, <1>8
  <2>2. /\ stretch >= 0 /\ Bounded(unit, sec, i, fr_fix, A, old)
        /\ ~stretched /\ i < cur => Far(unit, sec, i, A)
    BY <1>8 DEF OInv, OrgsRelaxed, LenOf
  <2>3. \A s \in 1 .. Len(unit.sect) : \A j \in 1 .. LenOf(unit, s) : A[s][j] <= B[s][j]
    <3> SUFFICES ASSUME NEW s \in 1 .. Len(unit.sect), NEW j \in 1 .. LenOf(unit, s)
                 PROVE  A[s][j] <= B[s][j]
      OBVIOUS
    <3>1. CASE s = sec /\ j = cur
      BY <1>2, <1>3, <2>2, <3>1
    <3>2. CASE s # sec \/ j # cur
      <4>1. B[s][j] = A[s][j]
        BY <1>3, <3>2 DEF Same
      <4> QED BY <1>4, <4>1
    <3> QED BY <3>1, <3>2
  <2>4. FragOK(unit, f)
    BY <1>2, <2>1, TheUnit
  <2>5. S \in Int /\ T \in Int /\ S <= T
    <3> HIDE DEF A, B, f
    <3> QED BY <1>3, <1>4, <2>3, <2>4, TargetGrows
  <2>6. /\ A[sec][i] \in Int /\ B[sec][i] \in Int /\ A[sec][i] <= B[sec][i]
        /\ A[sec][i + 1] \in Int /\ B[sec][i + 1] \in Int
        /\ fr_fix[sec][i] \in Nat /\ fr_fix'[sec][i] = fr_fix[sec][i]
    <3>1. fr_fix[sec][i] \in Nat
      BY <1>2, <2>1 DEF Typed, FieldsOK, Sects, Frags, LenOf
    <3>2. fr_fix'[sec][i] = fr_fix[sec][i]
      BY <1>2, <1>8, <2>1 DEF Same
    <3> QED BY <1>2, <1>3, <1>4, <2>1, <2>3, <3>1, <3>2
  <2>7. old <= A[sec][i] + fr_fix[sec][i] \/ old <= S
    BY <2>2 DEF Bounded
  <2>8. CASE i = cur
    <3> DEFINE ahead == T - A[sec][cur + 1]
    <3>1. g = (IF ahead > 0 THEN ahead ELSE 0) - stretch
      BY <1>8, <2>8
    <3>2. B[sec][i + 1] = A[sec][i + 1]
      BY <1>2, <1>3, <2>1, <2>8 DEF Same
    <3>3. new = A[sec][i + 1] + (IF ahead > 0 THEN ahead ELSE 0) /\ old = A[sec][i + 1]
      <4>1. new = A[sec][i + 1] + (stretch + g) /\ old = A[sec][i + 1] + 0
        BY <1>1, <1>2, <2>8, <3>2
      <4>2. stretch + g = IF ahead > 0 THEN ahead ELSE 0
        <5>1. ahead \in Int
          BY <2>5, <2>6, <2>8
        <5> HIDE DEF ahead
        <5> QED BY <1>2, <3>1, <5>1
      <4> HIDE DEF ahead, new, old
      <4> QED BY <2>6, <4>1, <4>2
    <3>4. new <= B[sec][i] + fr_fix'[sec][i] \/ new <= T
      <4> HIDE DEF T, A, B, S, new, old
      <4> QED BY <2>5, <2>6, <2>7, <2>8, <3>3
    <3>5. ASSUME ~stretched' PROVE T <= B[sec][i + 1]
      <4>1. g = 0 /\ stretch = 0
        BY <1>1, <3>5 DEF IInv, Relaxing
      <4> HIDE DEF T, A, B
      <4> QED BY <2>5, <2>6, <2>8, <3>1, <3>2, <4>1
    <3> QED BY <3>4, <3>5 DEF Bounded, Far
  <2>9. CASE i # cur
    <3>1. new = old
      <4>1. CASE i = cur - 1
        <5>1. i + 1 = cur
          BY <1>2, <4>1
        <5> QED BY <1>2, <1>3, <2>9, <4>1, <5>1
      <4>2. CASE i # cur - 1
        <5>1. i + 1 # cur
          BY <1>2, <2>1, <4>2
        <5>2. B[sec][i + 1] = A[sec][i + 1]
          BY <1>2, <1>3, <2>1, <5>1 DEF Same
        <5> QED BY <2>9, <4>2, <5>2
      <4> QED BY <4>1, <4>2
    <3>2. new <= B[sec][i] + fr_fix'[sec][i] \/ new <= T
      <4>1. old \in Int
        BY <1>2, <2>6
      <4> HIDE DEF T, A, B, S, new, old
      <4> QED BY <2>5, <2>6, <2>7, <3>1, <4>1
    <3>3. ASSUME ~stretched', i < cur + 1 PROVE T <= B[sec][i + 1]
      <4>1. stretch = 0 /\ ~stretched
        BY <1>1, <3>3 DEF IInv, Relaxing
      <4>2. \A s \in 1 .. Len(unit.sect) : \A j \in 1 .. LenOf(unit, s) : B[s][j] = A[s][j]
        BY <1>3, <4>1 DEF Same
      <4>3. T <= S
        <5>1. \A s \in 1 .. Len(unit.sect) : \A j \in 1 .. LenOf(unit, s) : B[s][j] <= A[s][j]
          BY <1>4, <4>2
        <5> HIDE DEF A, B, f
        <5> QED BY <1>3, <1>4, <2>4, <5>1, TargetGrows
      <4>4. S <= A[sec][i + 1]
        <5>1. i < cur
          BY <1>2, <2>1, <2>9, <3>3
        <5> QED BY <2>2, <4>1, <5>1 DEF Far
      <4>5. B[sec][i + 1] = A[sec][i + 1]
        BY <1>2, <2>1, <4>2
      <4> HIDE DEF T, A, B, S
      <4> QED BY <2>5, <2>6, <4>3, <4>4, <4>5
    <3> QED BY <3>2, <3>3 DEF Bounded, Far
  <2> QED BY <2>8, <2>9
<1>9. OrgsRelaxed'
  <2>1. cur' - 1 = cur /\ cur' = cur + 1
    BY <1>1, <1>2
  <2>2. Plain(unit, sec) => stretch' >= 0
    BY <1>1
  <2> QED BY <1>1, <1>8, <2>1, <2>2 DEF OrgsRelaxed, LenOf, IsOrg
<1> QED BY <1>5, <1>6, <1>7, <1>9 DEF OInv

-----------------------------------------------------------------------------
(***************************************************************************)
(* The actions of the first guess and of the passes keep the .orgs.        *)
(***************************************************************************)

LEMMA GuessFillOrgs ==
  ASSUME IInv, OInv, IInv', GuessFill
  PROVE  OInv'
<1>1. /\ pc = "guess" /\ GuessAddress /\ NextGuess(FixEnd + Frag(sec, cur).fill)
      /\ UNCHANGED <<unit, fr_type, fr_fix, last_fr_address, layout_pass, sec>>
  BY DEF GuessFill
<1>2. Active /\ cur \in Frags(sec)
  BY <1>1 DEF IInv, Place, Active
<1>3. /\ FixEnd + Frag(sec, cur).fill \in Int /\ FixEnd \in Int
      /\ Same(unit, sec, cur, fr_type, fr_type') /\ Same(unit, sec, cur, fr_fix, fr_fix')
  BY <1>1, <1>2, TheFrag DEF FragOK
<1>4. ASSUME IsOrg(sec, cur)
      PROVE  fr_type[sec][cur] = "rs_org" /\ FixEnd + Frag(sec, cur).fill = address + fr_fix[sec][cur]
  <2>1. fr_type[sec][cur] = "rs_org"
    BY <1>2, <1>4 DEF OInv, OrgsStay, IInv, Place
  <2>2. Frag(sec, cur).fill = 0
    BY <1>2, <1>4, TheFrag DEF FragOK, IsOrg
  <2> QED BY <1>3, <2>1, <2>2 DEF FixEnd
<1> QED BY <1>1, <1>3, <1>4, GuessOrgs

LEMMA GuessAlignOrgs ==
  ASSUME IInv, OInv, IInv', GuessAlign
  PROVE  OInv'
<1> DEFINE f == Frag(sec, cur)
<1>1. /\ pc = "guess" /\ GuessAddress /\ NextGuess(FixEnd + Padding(f, FixEnd))
      /\ fr_type[sec][cur] = "rs_align"
      /\ UNCHANGED <<unit, fr_type, fr_fix, last_fr_address, layout_pass, sec>>
  BY DEF GuessAlign
<1>2. Active /\ cur \in Frags(sec)
  BY <1>1 DEF IInv, Place, Active
<1>3. /\ FixEnd \in Int /\ f.exp \in Nat /\ f.max \in Nat
      /\ Same(unit, sec, cur, fr_type, fr_type') /\ Same(unit, sec, cur, fr_fix, fr_fix')
  BY <1>1, <1>2, TheFrag DEF FragOK
<1>4. ~IsOrg(sec, cur)
  BY <1>1, <1>2 DEF OInv, OrgsStay, IInv, Place
<1> HIDE DEF f
<1>5. FixEnd + Padding(f, FixEnd) \in Int
  BY <1>3, PaddingType
<1> QED BY <1>1, <1>3, <1>4, <1>5, GuessOrgs

LEMMA GuessSmallestOrgs ==
  ASSUME IInv, OInv, IInv', GuessSmallest
  PROVE  OInv'
<1> DEFINE n == IF fr_type[sec][cur] = "rs_leb128" THEN 1 ELSE 2
<1>1. /\ pc = "guess" /\ GuessAddress /\ NextGuess(FixEnd + n)
      /\ fr_type[sec][cur] \in {"rs_leb128", "rs_machine_dependent"}
      /\ UNCHANGED <<unit, fr_type, fr_fix, last_fr_address, layout_pass, sec>>
  BY DEF GuessSmallest
<1>2. Active /\ cur \in Frags(sec)
  BY <1>1 DEF IInv, Place, Active
<1>3. /\ FixEnd + n \in Int
      /\ Same(unit, sec, cur, fr_type, fr_type') /\ Same(unit, sec, cur, fr_fix, fr_fix')
  BY <1>1, <1>2, TheFrag
<1>4. ~IsOrg(sec, cur)
  BY <1>1, <1>2 DEF OInv, OrgsStay, IInv, Place
<1> QED BY <1>1, <1>3, <1>4, GuessOrgs

LEMMA GuessJumpOrgs ==
  ASSUME IInv, OInv, IInv', GuessJump
  PROVE  OInv'
<1> DEFINE f == Frag(sec, cur)
           st == fr_state[sec][cur]
           m == md_relax_table[IF md_relax_table[st].more = 0 THEN st ELSE md_relax_table[st].more].length
<1>1. /\ pc = "guess" /\ GuessAddress /\ fr_type[sec][cur] = "rs_machine_dependent" /\ ~unit.arm
      /\ UNCHANGED <<unit, last_fr_address, layout_pass, sec>>
  BY DEF GuessJump
<1>2. Active /\ cur \in Frags(sec)
  BY <1>1 DEF IInv, Place, Active
<1>3. /\ FixEnd \in Int /\ st \in 0 .. 11 /\ Shape(unit, fr_type) /\ Shape(unit, fr_fix)
      /\ sec \in 1 .. Len(unit.sect) /\ cur \in 1 .. LenOf(unit, sec)
      /\ \A F : Same(unit, sec, cur, F, F)
  BY <1>1, <1>2, TheFrag DEF FieldsOK
<1>4. ~IsOrg(sec, cur)
  BY <1>1, <1>2 DEF OInv, OrgsStay, IInv, Place
<1>5. m \in Nat /\ md_relax_table[st].length \in Nat
  <2>1. \A t \in 0 .. 11 : /\ md_relax_table[t].more = 0 \/ md_relax_table[t].more \in 0 .. 11
                          /\ md_relax_table[t].length \in Nat
    <3> TAKE t \in 0 .. 11
    <3> QED BY RelaxTable
  <2> HIDE DEF st
  <2>2. (IF md_relax_table[st].more = 0 THEN st ELSE md_relax_table[st].more) \in 0 .. 11
    BY <1>3, <2>1
  <2> QED BY <1>3, <2>1, <2>2
<1>6. CASE f.sym.sec # sec
  <2>1. /\ fr_fix' = [fr_fix EXCEPT ![sec][cur] = @ + m]
        /\ fr_type' = [fr_type EXCEPT ![sec][cur] = "rs_fill"] /\ NextGuess(FixEnd + m)
    BY <1>6 DEF GuessJump
  <2> HIDE DEF m
  <2>2. Same(unit, sec, cur, fr_type, fr_type') /\ Same(unit, sec, cur, fr_fix, fr_fix')
    BY <1>3, <2>1 DEF Same, Shape
  <2>3. FixEnd + m \in Int
    BY <1>3, <1>5
  <2> QED BY <1>1, <1>4, <2>1, <2>2, <2>3, GuessOrgs
<1>7. CASE f.sym.sec = sec
  <2> DEFINE a == FixEnd + md_relax_table[st].length
  <2>1. NextGuess(a) /\ UNCHANGED <<fr_fix, fr_type>>
    BY <1>7 DEF GuessJump
  <2>2. a \in Int /\ Same(unit, sec, cur, fr_type, fr_type') /\ Same(unit, sec, cur, fr_fix, fr_fix')
    BY <1>3, <1>5, <2>1
  <2> HIDE DEF a
  <2> QED BY <1>1, <1>4, <2>1, <2>2, GuessOrgs
<1> QED BY <1>6, <1>7

LEMMA RelaxFillOrgs ==
  ASSUME IInv, OInv, IInv', RelaxFill
  PROVE  OInv'
<1>1. /\ pc = "relax" /\ cur \in Frags(sec) /\ fr_type[sec][cur] = "rs_fill" /\ Grow(0)
      /\ UNCHANGED <<fr_type, fr_fix>>
  BY DEF RelaxFill, At
<1>2. Active /\ sec \in Sects
  BY <1>1 DEF Active, IInv, Place
<1>3. /\ Same(unit, sec, cur, fr_type, fr_type') /\ Same(unit, sec, cur, fr_fix, fr_fix')
      /\ stretch \in Int
  BY <1>1, <1>2, TheFrag
<1>4. ~IsOrg(sec, cur)
  BY <1>1, <1>2 DEF OInv, OrgsStay
<1>5. Plain(unit, sec) => stretch + 0 >= 0
  BY <1>1, <1>3 DEF OInv, OrgsRelaxed
<1> QED BY <1>1, <1>3, <1>4, <1>5, GrowOrgs

LEMMA RelaxAlignOrgs ==
  ASSUME IInv, OInv, IInv', RelaxAlign
  PROVE  OInv'
<1> DEFINE f == FragOf(unit, sec, cur)
           x == fr_address[sec][cur] + fr_fix[sec][cur]
           y == fr_address'[sec][cur] + fr_fix[sec][cur]
           g == Padding(f, y) - Padding(f, x)
<1>1. /\ pc = "relax" /\ cur \in Frags(sec) /\ fr_type[sec][cur] = "rs_align"
      /\ fr_address' = Moved /\ Grow(g) /\ UNCHANGED <<fr_type, fr_fix>>
  BY DEF RelaxAlign, At, Grow, Frag, FragOf
<1>2. Active /\ sec \in Sects
  BY <1>1 DEF Active, IInv, Place
<1>3. /\ Same(unit, sec, cur, fr_type, fr_type') /\ Same(unit, sec, cur, fr_fix, fr_fix')
      /\ stretch \in Int /\ FragOK(unit, f) /\ fr_fix[sec][cur] \in Nat
  BY <1>1, <1>2, TheFrag
<1>4. x \in Int /\ y = x + stretch
  <2>1. fr_address'[sec][cur] = fr_address[sec][cur] + stretch /\ fr_address[sec][cur] \in Int
    BY <1>1, FragMoves
  <2> QED BY <1>3, <2>1
<1>5. ~IsOrg(sec, cur)
  BY <1>1, <1>2 DEF OInv, OrgsStay
<1>6. f.exp \in Nat /\ f.max \in Nat
  BY <1>3 DEF FragOK
<1>7. Plain(unit, sec) => stretch >= 0
  BY <1>1 DEF OInv, OrgsRelaxed
<1> HIDE DEF f, x, y
<1>8. Padding(f, x) \in Nat /\ Padding(f, y) \in Nat
  BY <1>3, <1>4, <1>6, PaddingType
<1>9. Plain(unit, sec) => x + Padding(f, x) <= y + Padding(f, y)
  BY <1>3, <1>4, <1>6, <1>7, AlignGrows
<1>10. g \in Int /\ (Plain(unit, sec) => stretch + g >= 0)
  BY <1>3, <1>4, <1>8, <1>9
<1> HIDE DEF g
<1> QED BY <1>1, <1>3, <1>5, <1>10, GrowOrgs

LEMMA RelaxOrgOrgs ==
  ASSUME IInv, OInv, IInv', RelaxOrg
  PROVE  OInv'
<1> DEFINE f == FragOf(unit, sec, cur)
           ahead == OrgTarget(fr_address', f) - fr_address[sec][cur + 1]
           g == (IF ahead > 0 THEN ahead ELSE 0) - stretch
<1>1. /\ pc = "relax" /\ cur \in Frags(sec) /\ fr_type[sec][cur] = "rs_org"
      /\ fr_address' = Moved /\ Grow(g) /\ UNCHANGED <<fr_type, fr_fix>>
  BY DEF RelaxOrg, At, Grow, Frag, FragOf
<1>2. Active /\ sec \in Sects
  BY <1>1 DEF Active, IInv, Place
<1>3. /\ Same(unit, sec, cur, fr_type, fr_type') /\ Same(unit, sec, cur, fr_fix, fr_fix')
      /\ stretch \in Int /\ FragOK(unit, f)
  BY <1>1, <1>2, TheFrag
<1>4. /\ fr_address[sec][cur + 1] \in Int
      /\ \A s \in 1 .. Len(unit.sect) : \A i \in 1 .. LenOf(unit, s) : fr_address'[s][i] \in Int
  BY <1>1, <1>2, FragMoves, NotTheLast
<1>5. OrgTarget(fr_address', f) \in Int
  <2>1. \A s \in 1 .. Len(unit.sect) : \A i \in 1 .. LenOf(unit, s) :
          fr_address'[s][i] <= fr_address'[s][i]
    BY <1>4
  <2> HIDE DEF f
  <2> QED BY <1>3, <1>4, <2>1, TargetGrows
<1>6. g \in Int /\ stretch + g >= 0
  <2>1. ahead \in Int
    BY <1>4, <1>5
  <2> HIDE DEF ahead
  <2> QED BY <1>3, <2>1
<1>7. g = (IF ahead > 0 THEN ahead ELSE 0) - stretch
  OBVIOUS
<1> HIDE DEF g
<1> QED BY <1>1, <1>3, <1>6, <1>7, GrowOrgs

\* A frag that is of no plain section.
LEMMA RelaxOthersOrgs ==
  ASSUME IInv, OInv, IInv', RelaxLeb \/ RelaxThumb
  PROVE  OInv'
<1>1. /\ pc = "relax" /\ cur \in Frags(sec)
      /\ \/ fr_type[sec][cur] = "rs_leb128"
         \/ fr_type[sec][cur] = "rs_machine_dependent" /\ unit.arm
  BY DEF RelaxLeb, RelaxThumb, At
<1>2. Active /\ sec \in Sects
  BY <1>1 DEF Active, IInv, Place
<1>3. /\ Shape(unit, fr_type) /\ Shape(unit, fr_fix) /\ sec \in 1 .. Len(unit.sect)
      /\ cur \in 1 .. LenOf(unit, sec) /\ \A F : Same(unit, sec, cur, F, F)
      /\ fr_type[sec][cur] \in {FragOf(unit, sec, cur).type, "rs_fill"}
      /\ fr_state[sec][cur] \in Int
  BY <1>1, <1>2, TheFrag DEF FieldsOK
<1>4. ~Plain(unit, sec) /\ ~IsOrg(sec, cur)
  BY <1>1, <1>3 DEF Plain, IsOrg
<1>5. /\ Same(unit, sec, cur, fr_type, fr_type') /\ Same(unit, sec, cur, fr_fix, fr_fix')
  <2>1. CASE UNCHANGED <<fr_type, fr_fix>>
    BY <1>3, <2>1
  <2>2. CASE /\ \E n : fr_fix' = [fr_fix EXCEPT ![sec][cur] = @ + n]
             /\ fr_type' = [fr_type EXCEPT ![sec][cur] = "rs_fill"]
    BY <1>3, <2>2 DEF Same, Shape
  <2> QED BY <2>1, <2>2 DEF RelaxLeb, RelaxThumb
<1>6. PICK g \in Int : Grow(g)
  <2>1. \A v, b : sizeof_leb128(v, b) \in Int
    BY LebType
  <2>2. CASE RelaxLeb
    BY <1>3, <2>1, <2>2 DEF RelaxLeb
  <2>3. CASE RelaxThumb
    <3>1. ArmSize(Moved, Frag(sec, cur)) \in {2, 4}
      <4>1. FragOK(unit, Frag(sec, cur)) /\ Frag(sec, cur).type = "rs_machine_dependent" /\ unit.arm
        BY <1>1, <1>2, <1>3, <2>3, TheFrag DEF RelaxThumb, At
      <4>2. Frag(sec, cur).op \in {"adr", "branch", "imm"}
        BY <4>1 DEF FragOK
      <4> QED BY <4>2 DEF ArmSize, relax_adr, relax_branch, relax_immediate
    <3> QED BY <1>3, <2>3, <3>1 DEF RelaxThumb
  <2> QED BY <2>2, <2>3
<1> QED BY <1>1, <1>4, <1>5, <1>6, GrowOrgs

LEMMA RelaxJumpOrgs ==
  ASSUME IInv, OInv, IInv', RelaxJump
  PROVE  OInv'
<1> DEFINE st == fr_state[sec][cur]
<1>1. /\ pc = "relax" /\ cur \in Frags(sec) /\ fr_type[sec][cur] = "rs_machine_dependent"
      /\ ~unit.arm /\ UNCHANGED <<fr_type, fr_fix>>
  BY DEF RelaxJump, At
<1>2. Active /\ sec \in Sects
  BY <1>1 DEF Active, IInv, Place
<1>3. /\ Same(unit, sec, cur, fr_type, fr_type') /\ Same(unit, sec, cur, fr_fix, fr_fix')
      /\ stretch \in Int /\ st \in 0 .. 11
  BY <1>1, <1>2, TheFrag DEF FieldsOK
<1>4. ~IsOrg(sec, cur)
  BY <1>1, <1>2 DEF OInv, OrgsStay
<1>5. PICK new \in {st, md_relax_table[st].more} :
        /\ Grow(md_relax_table[new].length - md_relax_table[st].length)
        /\ md_relax_table[st].more = 0 => new = st
  BY DEF RelaxJump
<1> DEFINE g == md_relax_table[new].length - md_relax_table[st].length
<1>6. g \in Int /\ g >= 0
  <2>1. st \in {0, 1, 2, 3, 4, 5, 6, 7, 8, 9, 10, 11}
    BY <1>3
  <2> HIDE DEF st
  <2>2. \A t \in 0 .. 11 : md_relax_table[t].length \in Nat \ {0}
    <3> SUFFICES ASSUME NEW t \in {0, 1, 2, 3, 4, 5, 6, 7, 8, 9, 10, 11}
                 PROVE  md_relax_table[t].length \in Nat \ {0}
      OBVIOUS
    <3> QED BY DEF md_relax_table
  <2>3. CASE new = st
    BY <1>3, <2>2, <2>3
  <2>4. CASE new # st
    <3>1. /\ md_relax_table[st].length = 1 /\ new = md_relax_table[st].more
          /\ md_relax_table[st].more \in 0 .. 11
      BY <1>3, <1>5, <2>4, RelaxTable
    <3> QED BY <2>2, <3>1
  <2> QED BY <2>3, <2>4
<1>7. Plain(unit, sec) => stretch + g >= 0
  <2>1. Plain(unit, sec) => stretch >= 0
    BY <1>1 DEF OInv, OrgsRelaxed
  <2> HIDE DEF g
  <2> QED BY <1>3, <1>6, <2>1
<1>8. Grow(g)
  BY <1>5
<1> HIDE DEF g
<1> QED BY <1>1, <1>3, <1>4, <1>6, <1>7, <1>8, GrowOrgs

\* The loops over the sections, the slide and the conversion move no .org
\* against its section.
LEMMA LayoutOrgs ==
  ASSUME IInv, OInv, Layout
  PROVE  OInv'
<1>1. UNCHANGED <<unit, fr_type, fr_fix, last_fr_address>> /\ pc' # "relax"
      /\ pc \in {"enter", "slide", "convert"}
  BY DEF Layout, SkipSection, EnterSection, EndRound, Slide, Convert, fragVars
<1>2. unit \in Units /\ Len(unit.sect) \in Nat
  BY TheUnit DEF IInv, Typed
<1>3. OrgsStay' /\ OrgsRelaxed'
  BY <1>1 DEF OInv, OrgsStay, OrgsRelaxed, IsOrg, Sects, Frags
<1>4. FromZero' /\ OrgsGuessed'
  <2>1. pc' = "guess" => cur' = 1 /\ address' = 0
    BY <1>1 DEF Layout, SkipSection, EnterSection, EndRound, Slide, Convert
  <2>2. 1 .. 1 - 1 = {}
    OBVIOUS
  <2> QED BY <1>1, <2>1, <2>2 DEF OInv, FromZero, OrgsGuessed, Sects
<1>5. OrgsLaidOut'
  <2>1. ASSUME NEW s \in Sects, Laid(s)', ~Zerofill(s)
        PROVE  Laid(s)
    <3>1. unit.sect[s].pass \in Int /\ s \in 1 .. Len(unit.sect) /\ s \in Int
      BY <1>2, TheUnit DEF Sects
    <3>2. CASE EndRound
      <4>1. /\ sec = Len(unit.sect) + 1 /\ layout_pass \in 0 .. 2 /\ sec' = 1 /\ unit' = unit
            /\ layout_pass' \in {layout_pass, layout_pass + 1}
        BY <1>2, <3>2 DEF EndRound, IInv, Place, Sects
      <4> QED BY <1>2, <2>1, <3>1, <4>1 DEF Laid, Earlier
    <3>3. CASE SkipSection
      <4>1. /\ sec' = sec + 1 /\ layout_pass' = layout_pass /\ unit' = unit /\ sec \in Int
            /\ unit.sect[sec].pass # layout_pass \/ Zerofill(sec)
        BY <3>3 DEF SkipSection, Sects
      <4>2. s < sec + 1 => s < sec \/ s = sec
        BY <3>1, <4>1
      <4> QED BY <2>1, <4>1, <4>2 DEF Laid, Earlier
    <3>4. CASE EnterSection \/ Slide \/ Convert
      BY <2>1, <3>4 DEF EnterSection, Slide, Convert, Laid, Earlier
    <3> QED BY <3>2, <3>3, <3>4 DEF Layout
  <2> QED BY <1>1, <2>1 DEF OInv, OrgsLaidOut, Sects, Zerofill, IsOrg
<1> QED BY <1>3, <1>4, <1>5 DEF OInv

\* The section at hand is left after a pass on which nothing stretched.
LEMMA EndPassOrgs ==
  ASSUME IInv, OInv, IInv', EndPass
  PROVE  OInv'
<1> DEFINE n == LenOf(unit, sec)
<1>1. /\ pc = "relax" /\ cur \notin Frags(sec)
      /\ UNCHANGED <<unit, fr_type, fr_fix, fr_address, layout_pass>>
  BY DEF EndPass
<1>2. /\ unit \in Units /\ Len(unit.sect) \in Nat /\ sec \in 1 .. Len(unit.sect)
      /\ n \in Nat \ {0} /\ cur = n + 1 /\ sec \in Int /\ unit.sect[sec].pass = layout_pass
  <2>1. unit \in Units /\ sec \in 1 .. Len(unit.sect) /\ cur \in 1 .. n + 1
        /\ unit.sect[sec].pass = layout_pass
    BY <1>1 DEF IInv, Typed, Place, Active, Sects, LenOf
  <2>2. n \in Nat \ {0} /\ Len(unit.sect) \in Nat
    BY <2>1, TheUnit
  <2> QED BY <1>1, <2>1, <2>2 DEF Frags, LenOf
<1>3. OrgsStay'
  BY <1>1 DEF OInv, OrgsStay, IsOrg, Sects, Frags
<1>4. ASSUME Plain(unit, sec), NEW i \in 1 .. n - 1, IsOrg(sec, i)
      PROVE  /\ Bounded(unit, sec, i, fr_fix, fr_address, fr_address[sec][i + 1] + 0)
             /\ Bounded(unit, sec, i, fr_fix, fr_address, fr_address[sec][i + 1])
             /\ ~stretched => Far(unit, sec, i, fr_address)
  <2>1. i # cur - 1 /\ i < cur /\ i + 1 \in 1 .. n
    BY <1>2, <1>4
  <2>2. /\ Bounded(unit, sec, i, fr_fix, fr_address, fr_address[sec][i + 1] + 0)
        /\ ~stretched => Far(unit, sec, i, fr_address)
    BY <1>1, <1>4, <2>1 DEF OInv, OrgsRelaxed, LenOf
  <2>3. fr_address[sec][i + 1] \in Int
    BY <1>2, <2>1 DEF IInv, Typed, FieldsOK, Sects, Frags, LenOf
  <2>4. fr_address[sec][i + 1] + 0 = fr_address[sec][i + 1]
    BY <2>3
  <2> QED BY <2>2, <2>4
<1>5. CASE stretched
  <2>1. cur' = 1 /\ stretch' = 0 /\ UNCHANGED <<last_fr_address, sec, pc>>
    BY <1>5 DEF EndPass
  <2>2. FromZero' /\ OrgsGuessed'
    BY <1>1, <2>1 DEF OInv, FromZero, OrgsGuessed, Sects
  <2>3. OrgsLaidOut'
    BY <1>1, <2>1 DEF OInv, OrgsLaidOut, Laid, Earlier, Sects, Zerofill, IsOrg
  <2>4. OrgsRelaxed'
    <3>1. \A i \in 1 .. n - 1 : i # 1 - 1 /\ ~(i < 1)
      BY <1>2
    <3> QED BY <1>1, <1>4, <2>1, <3>1 DEF OrgsRelaxed, LenOf, IsOrg
  <2> QED BY <1>3, <2>2, <2>3, <2>4 DEF OInv
<1>6. CASE ~stretched
  <2>1. /\ last_fr_address' = [last_fr_address EXCEPT ![sec] = fr_address[sec]]
        /\ sec' = sec + 1 /\ pc' = "enter"
    BY <1>6 DEF EndPass
  <2>2. /\ \A s \in 1 .. Len(unit.sect) : s # sec => last_fr_address'[s] = last_fr_address[s]
        /\ last_fr_address'[sec] = fr_address[sec]
    BY <1>2, <2>1 DEF IInv, Typed, Shape
  <2>3. FromZero' /\ OrgsGuessed' /\ OrgsRelaxed'
    <3>1. \A s \in Sects : last_fr_address'[s][1] = 0
      BY <1>1, <2>2 DEF OInv, FromZero, Sects
    <3> QED BY <1>1, <2>1, <3>1 DEF FromZero, OrgsGuessed, OrgsRelaxed, Sects
  <2>4. OrgsLaidOut'
    <3> SUFFICES ASSUME NEW s \in 1 .. Len(unit.sect), ~Zerofill(s), Laid(s)', Plain(unit, s),
                        NEW i \in 1 .. LenOf(unit, s) - 1, IsOrg(s, i)
                 PROVE  /\ Bounded(unit, s, i, fr_fix, last_fr_address', last_fr_address'[s][i + 1])
                        /\ Far(unit, s, i, last_fr_address')
      BY <1>1 DEF OrgsLaidOut, Sects, Zerofill, IsOrg, LenOf
    <3> DEFINE f == FragOf(unit, s, i)
               B == last_fr_address'
    <3>1. /\ LenOf(unit, s) \in Nat /\ i \in 1 .. LenOf(unit, s) /\ i + 1 \in 1 .. LenOf(unit, s)
      BY <1>2, TheUnit
    <3>2. FragOK(unit, f) /\ f.sym.sec \in {0, s} /\ s # 0
      BY <1>2, <3>1, TheUnit DEF Plain, IsOrg
    <3>3. \A A : (\A j \in 1 .. LenOf(unit, s) : A[s][j] \in Int /\ B[s][j] = A[s][j])
            => OrgTarget(B, f) = OrgTarget(A, f)
      <4> SUFFICES ASSUME NEW A, \A j \in 1 .. LenOf(unit, s) : A[s][j] \in Int /\ B[s][j] = A[s][j]
                   PROVE  OrgTarget(B, f) = OrgTarget(A, f)
        OBVIOUS
      <4>1. MovedBy(unit, s, A, B, 0)
        BY DEF MovedBy
      <4> HIDE DEF f, B
      <4>2. OrgTarget(A, f) \in Int
        BY <3>2, <4>1, TargetHere
      <4>3. ASSUME f.sym.sec # 0 PROVE OrgTarget(B, f) = OrgTarget(A, f) + 0
        BY <3>2, <4>1, <4>3, TargetHere
      <4>4. ASSUME f.sym.sec = 0 PROVE OrgTarget(B, f) = OrgTarget(A, f)
        BY <4>4 DEF OrgTarget
      <4> QED BY <4>2, <4>3, <4>4
    <3>4. CASE s = sec
      <4>1. OrgTarget(B, f) = OrgTarget(fr_address, f)
        <5>1. \A j \in 1 .. LenOf(unit, s) : fr_address[s][j] \in Int /\ B[s][j] = fr_address[s][j]
          BY <2>2, <3>4 DEF IInv, Typed, FieldsOK, Sects, Frags, LenOf
        <5> HIDE DEF f, B
        <5> QED BY <3>3, <5>1
      <4>2. /\ Bounded(unit, s, i, fr_fix, fr_address, fr_address[s][i + 1])
            /\ Far(unit, s, i, fr_address)
        BY <1>4, <1>6, <3>4
      <4> QED BY <2>2, <3>4, <4>1, <4>2 DEF Bounded, Far
    <3>5. CASE s # sec
      <4>1. OrgTarget(B, f) = OrgTarget(last_fr_address, f)
        <5>1. \A j \in 1 .. LenOf(unit, s) :
                last_fr_address[s][j] \in Int /\ B[s][j] = last_fr_address[s][j]
          BY <2>2, <3>5 DEF IInv, Typed, FieldsOK, Sects, Frags, LenOf
        <5> HIDE DEF f, B
        <5> QED BY <3>3, <5>1
      <4>2. Laid(s)
        <5>1. s < sec + 1 => s < sec
          BY <1>2, <3>5
        <5> QED BY <1>1, <2>1, <5>1 DEF Laid, Earlier
      <4>3. /\ Bounded(unit, s, i, fr_fix, last_fr_address, last_fr_address[s][i + 1])
            /\ Far(unit, s, i, last_fr_address)
        BY <4>2 DEF OInv, OrgsLaidOut, Sects, LenOf
      <4> QED BY <2>2, <3>5, <4>1, <4>3 DEF Bounded, Far
    <3> QED BY <3>4, <3>5
  <2> QED BY <1>3, <2>3, <2>4 DEF OInv
<1> QED BY <1>5, <1>6

LEMMA OrgInvariance == Spec => []OInv
<1>1. Init => OInv
  <2> SUFFICES ASSUME Init PROVE OInv
    OBVIOUS
  <2>1. IInv
    BY InitInv
  <2>2. unit \in Units /\ pc = "enter" /\ sec = 1 /\ layout_pass = 0
    BY DEF Init
  <2>3. OrgsStay
    BY DEF Init, OrgsStay, IsOrg, Frag, FragOf
  <2>4. FromZero
    <3>1. \A s \in Sects : 1 \in Frags(s)
      BY <2>2, TheUnit DEF Sects, Frags, LenOf
    <3>2. \A s \in Sects : last_fr_address[s][1] = 0
      BY <3>1 DEF Init
    <3> QED BY <2>2, <3>2 DEF FromZero
  <2>5. OrgsGuessed /\ OrgsRelaxed
    BY <2>2 DEF OrgsGuessed, OrgsRelaxed
  <2>6. OrgsLaidOut
    BY NoneLaid DEF OrgsLaidOut
  <2> QED BY <2>3, <2>4, <2>5, <2>6 DEF OInv
<1>2. IInv /\ IInv' /\ OInv /\ [Next]_vars => OInv'
  <2> SUFFICES ASSUME IInv, IInv', OInv, [Next]_vars PROVE OInv'
    OBVIOUS
  <2>1. CASE Layout
    BY <2>1, LayoutOrgs
  <2>2. CASE Guess
    BY <2>2, GuessFillOrgs, GuessAlignOrgs, GuessJumpOrgs, GuessSmallestOrgs DEF Guess
  <2>3. CASE RelaxPass
    BY <2>3, RelaxFillOrgs, RelaxAlignOrgs, RelaxOrgOrgs, RelaxJumpOrgs, RelaxOthersOrgs,
       EndPassOrgs DEF RelaxPass
  <2>4. CASE UNCHANGED vars
    <3>1. UNCHANGED <<unit, fr_type, fr_fix, fr_address, last_fr_address, pc, layout_pass, sec, cur,
                      address, stretch, stretched>>
      BY <2>4 DEF vars, fragVars
    <3> QED BY <3>1 DEF OInv, OrgsStay, FromZero, OrgsGuessed, OrgsRelaxed, OrgsLaidOut, Laid,
                        Earlier, Sects, Frags, Zerofill, IsOrg
  <2> QED BY <2>1, <2>2, <2>3, <2>4 DEF Next, Done
<1> QED BY <1>1, <1>2, Invariance, PTL DEF Spec

\* Every .org is in a section where nothing shrinks, and names an address of it.
OrgsPlain ==
  \A s \in Sects : (\E i \in Frags(s) : IsOrg(s, i)) => Plain(unit, s)

\* rs_org: whatever the frags around it and however often they grew, what
\* follows an .org is at the address the .org names, unless the section has
\* passed it.  A section that shrinks is left out: the pass compares with
\* where the next frag was before, so it is never moved back to a target that
\* came down.
THEOREM OrgsArrive == Spec => [](OrgsPlain => OrgReached)
<1>1. IInv /\ OInv /\ OrgsPlain => OrgReached
  <2> SUFFICES ASSUME IInv, OInv, OrgsPlain, pc = "done", NEW s \in Sects, NEW i \in Frags(s),
                      ~Zerofill(s), i < Len(unit.sect[s].frags), Frag(s, i).type = "rs_org",
                      OrgAddress(s, i) >= fr_address[s][i] + fr_fix[s][i]
               PROVE  fr_address[s][i + 1] = OrgAddress(s, i)
    BY WrittenFrag DEF OrgReached
  <2> DEFINE f == FragOf(unit, s, i)
             L == last_fr_address
             d == SlidBy(s)
             T == OrgTarget(L, f)
  <2>1. /\ FragOK(unit, f) /\ Frag(s, i) = f /\ fr_fix[s][i] \in Nat
        /\ L[s][i] \in Int /\ L[s][i + 1] \in Int /\ d \in Int
        /\ fr_address[s][i] = L[s][i] + d /\ fr_address[s][i + 1] = L[s][i + 1] + d
    BY FragWritten DEF FieldsOK
  <2>2. IsOrg(s, i) /\ Plain(unit, s) /\ f.sym.sec \in {0, s}
    BY <2>1 DEF OrgsPlain, IsOrg, Plain, Frags, LenOf
  <2>3. /\ unit \in Units /\ s \in 1 .. Len(unit.sect) /\ s # 0
        /\ LenOf(unit, s) \in Nat \ {0} /\ i \in 1 .. LenOf(unit, s) - 1 /\ 1 \in Frags(s)
        /\ unit.sect[s].pass \in 0 .. 2
    <3>1. unit \in Units /\ s \in 1 .. Len(unit.sect)
      BY DEF IInv, Typed, Sects
    <3>2. LenOf(unit, s) \in Nat \ {0} /\ unit.sect[s].pass \in 0 .. 2 /\ Len(unit.sect) \in Nat
      BY <3>1, TheUnit
    <3>3. i \in 1 .. LenOf(unit, s) /\ i < LenOf(unit, s)
      BY DEF Frags, LenOf
    <3>4. i \in 1 .. LenOf(unit, s) - 1 /\ 1 \in 1 .. LenOf(unit, s) /\ s # 0
      BY <3>1, <3>2, <3>3
    <3> QED BY <3>1, <3>2, <3>4 DEF Frags, LenOf
  <2>4. Laid(s)
    BY <2>3 DEF IInv, Place, Laid, Earlier
  <2>5. (L[s][i + 1] <= L[s][i] + fr_fix[s][i] \/ L[s][i + 1] <= T) /\ T <= L[s][i + 1]
    BY <2>2, <2>3, <2>4 DEF OInv, OrgsLaidOut, Bounded, Far, LenOf
  <2>6. fr_address[s][1] = d
    <3>1. L[s][1] = 0 /\ fr_address[s][1] \in Int
      BY <2>3 DEF OInv, FromZero, IInv, Typed, FieldsOK
    <3> QED BY <3>1 DEF SlidBy
  <2>7. /\ T \in Int /\ (f.sym.sec = 0 => OrgTarget(fr_address, f) = T)
        /\ (f.sym.sec # 0 => OrgTarget(fr_address, f) = T + d)
    <3>1. MovedBy(unit, s, L, fr_address, d)
      <4>1. \A j \in 1 .. LenOf(unit, s) : L[s][j] \in Int /\ fr_address[s][j] = L[s][j] + d
        BY DEF IInv, Typed, FieldsOK, Slid, Frags, LenOf
      <4> HIDE DEF L, d
      <4> QED BY <2>1, <4>1 DEF MovedBy
    <3>2. FragOK(unit, f) /\ f.sym.sec \in {0, s} /\ s # 0
      BY <2>1, <2>2, <2>3
    <3> HIDE DEF L, d, f
    <3>3. T \in Int
      BY <3>1, <3>2, TargetHere
    <3>4. ASSUME f.sym.sec = 0 PROVE OrgTarget(fr_address, f) = T
      BY <3>4 DEF OrgTarget
    <3>5. ASSUME f.sym.sec # 0 PROVE OrgTarget(fr_address, f) = T + d
      BY <3>1, <3>2, <3>5, TargetHere
    <3> QED BY <3>3, <3>4, <3>5
  <2>8. OrgAddress(s, i) = T + d
    <3> HIDE DEF T, d
    <3> QED BY <2>1, <2>6, <2>7 DEF OrgAddress
  <2>9. L[s][i + 1] = T
    <3>1. T \in Int /\ T + d >= (L[s][i] + d) + fr_fix[s][i]
      BY <2>1, <2>7, <2>8
    <3>2. \A a, b, x, m, t \in Int :
            (b <= a + x \/ b <= t) /\ t <= b /\ t + m >= (a + m) + x => b = t
      OBVIOUS
    <3>3. fr_fix[s][i] \in Int
      BY <2>1
    <3> HIDE DEF T, d, L
    <3> QED BY <2>1, <2>5, <3>1, <3>2, <3>3
  <2> HIDE DEF T, d, L
  <2> QED BY <2>1, <2>8, <2>9
<1> QED BY <1>1, Invariance, OrgInvariance, PTL
=============================================================================
