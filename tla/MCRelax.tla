------------------------------ MODULE MCRelax ------------------------------
(***************************************************************************)
(* Units for the model of the assembler's layout: one text section of four *)
(* frags whose sizes are chosen so that the short forms are just long      *)
(* enough, just too short, or made too short by a frag that grows, a data  *)
(* section with leb128 differences of text labels, and a zerofill section. *)
(***************************************************************************)
EXTENDS Relax, FiniteSetsExt

Here(s, i) == [sec |-> s, frag |-> i, value |-> 0]
NoSym == [sec |-> 0, frag |-> 0, value |-> 0]

Blank == [type |-> "rs_fill", fix |-> 0, fill |-> 0, exp |-> 0, max |-> 0, sym |-> NoSym,
          sub |-> NoSym, off |-> 0, state |-> 0, op |-> "", bits |-> 0, shift |-> 0,
          sign |-> FALSE]
Last == Blank

Fills(fixes, n) == {[Blank EXCEPT !.fix = x, !.fill = n] : x \in fixes}
Aligns(fixes, exps, maxs) ==
  {[Blank EXCEPT !.type = "rs_align", !.fix = x, !.exp = e, !.max = m] :
     x \in fixes, e \in exps, m \in maxs}
Orgs(fixes, syms, offs) ==
  {[Blank EXCEPT !.type = "rs_org", !.fix = x, !.sym = y, !.off = o] :
     x \in fixes, y \in syms, o \in offs}
Jumps(fixes, states, syms) ==
  {[Blank EXCEPT !.type = "rs_machine_dependent", !.fix = x, !.state = st, !.sym = y] :
     x \in fixes, st \in states, y \in syms}
Branches(fixes, syms) ==
  {[Blank EXCEPT !.type = "rs_machine_dependent", !.op = "branch", !.bits = 8,
                 !.fix = x, !.sym = y] : x \in fixes, y \in syms}
Adrs(fixes, syms) ==
  {[Blank EXCEPT !.type = "rs_machine_dependent", !.op = "adr", !.fix = x, !.sym = y] :
     x \in fixes, y \in syms}
Imms(offs, syms) ==
  {[Blank EXCEPT !.type = "rs_machine_dependent", !.op = "imm", !.bits = 5, !.shift = 2,
                 !.off = o, !.sym = y] : o \in offs, y \in syms}
Lebs(add, sub, offs, signs) ==
  {[Blank EXCEPT !.type = "rs_leb128", !.sym = add, !.sub = sub, !.off = o, !.sign = g] :
     o \in offs, g \in signs}

\* Reading a directive raises the alignment of the section for an .align
\* without a maximum, and a leb128 that is not a constant puts the section
\* into layout pass 1.
Section(frags) ==
  [zerofill |-> FALSE, size |-> 0, frags |-> frags,
   pass |-> IF \E i \in DOMAIN frags : frags[i].type = "rs_leb128" THEN 1 ELSE 0,
   align |-> Max({0} \cup {frags[i].exp : i \in {j \in DOMAIN frags : frags[j].max = 0}})]
Bss == [pass |-> 0, zerofill |-> TRUE, align |-> 3, size |-> 5, frags |-> <<Blank, Blank>>]
OneByte == Section(<<[Blank EXCEPT !.fix = 1], Last>>)

\* Text of four frags, preceded by a one-byte section that takes it off its
\* natural alignment, and followed by leb128 differences of its labels.
Unit(arm, a, b, c, d, l) ==
  [arm |-> arm,
   sect |-> <<OneByte, Section(<<a, b, c, d, Last>>), Bss,
              Section(<<l, [Blank EXCEPT !.fix = 3], Last>>)>>]
LebsOfText(i, j) == Lebs(Here(2, i), Here(2, j), {0}, {TRUE})

\* i386: jumps, alignments and .orgs, from and to any of the frags.
Labels == {Here(2, i) : i \in 1..5}
I386First == Jumps({60}, {0, 5}, Labels)
I386Second == Jumps({66, 126}, {0}, {Here(2, 1), Here(2, 4), Here(2, 5)})
                \cup Aligns({62}, {4}, {0, 4})
                \cup Orgs({62}, {Here(2, 1)}, {67}) \cup Orgs({61}, {NoSym}, {70, 130})
I386Third == Jumps({1}, {4}, {Here(2, 1), Here(2, 2), Here(2, 5), Here(1, 1)})
               \cup Aligns({61, 64}, {4}, {0, 9})
I386Fourth == Jumps({1}, {8}, {Here(2, 1), Here(2, 2), Here(2, 3)}) \cup Fills({65}, 2)
I386Units == {Unit(FALSE, a, b, c, d, l) : a \in I386First, b \in I386Second, c \in I386Third,
                                           d \in I386Fourth, l \in LebsOfText(5, 2)}

\* i386 with a leb128 in the text, which is guessed at one byte every time
\* the section is relaxed.
LebUnits == {Unit(FALSE, a, b, c, d, l) :
               a \in Lebs(Here(2, 5), Here(2, 1), {0}, BOOLEAN),
               b \in Orgs({60, 61}, {NoSym, Here(2, 1)}, {61, 62, 70}) \cup Aligns({60}, {2, 4}, {0}),
               c \in Jumps({1}, {0}, Labels),
               d \in Fills({50, 120}, 2) \cup Jumps({60}, {0}, {Here(2, 1), Here(2, 2)}),
               l \in LebsOfText(5, 2)}

\* ARM: Thumb branches (reach 256), adr (reach 1020 and a target at a
\* multiple of four) and immediates.
ThumbFirst == Branches({250}, Labels) \cup Adrs({2}, {Here(2, 3), Here(2, 4), Here(2, 5)})
ThumbSecond == Branches({2}, {Here(2, 1), Here(2, 5)}) \cup Adrs({0}, {Here(2, 4), Here(2, 5)})
                 \cup Imms({4, 6}, {NoSym}) \cup Imms({4}, {Here(2, 1)})
ThumbThird == Branches({0}, {Here(2, 5)}) \cup Aligns({0, 1014}, {2}, {0, 3})
ThumbFourth == Branches({2}, {Here(2, 1)}) \cup Adrs({0}, {Here(2, 5)}) \cup Fills({252}, 2)
ThumbUnits == {Unit(TRUE, a, b, c, d, l) : a \in ThumbFirst, b \in ThumbSecond, c \in ThumbThird,
                                           d \in ThumbFourth, l \in LebsOfText(5, 1)}

RelaxUnits == I386Units \cup LebUnits \cup ThumbUnits
=============================================================================
