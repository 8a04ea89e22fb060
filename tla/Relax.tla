------------------------------- MODULE Relax -------------------------------
(***************************************************************************)
(* How the assembler gives every frag its address: layout_addresses() and  *)
(* relax_section() of as/layout.c with the i386 and the ARM rules that     *)
(* decide how long a machine dependent frag is.                            *)
(*                                                                         *)
(* A section is a chain of frags.  A frag is fr_fix bytes followed by a    *)
(* variable part, whose size depends on addresses that depend in turn on   *)
(* the sizes of all variable parts.  relax_section makes a first guess and *)
(* then passes over the chain until nothing grows or shrinks;              *)
(* layout_addresses calls it until no address changes, places the sections *)
(* one after the other and converts the frags to bytes.                    *)
(*                                                                         *)
(* A unit is chosen in Init.  The fields of struct frag that never change  *)
(* are in the unit; the ones the layout changes are variables.  fr_state   *)
(* stands for the one field that holds the size of the variable part:      *)
(* fr_subtype of an i386 jump, fr_var of a Thumb instruction, fr_offset of *)
(* an rs_leb128.                                                           *)
(***************************************************************************)
EXTENDS Integers, Sequences, FiniteSets

CONSTANT Units        \* the assembled files considered

VARIABLES
  unit,               \* the file: [arm, sect]
  fr_type,            \* fr_type[s][i], frag_wane makes it rs_fill
  fr_fix,             \* fr_fix[s][i]
  fr_state,           \* fr_state[s][i]
  fr_address,         \* fr_address[s][i]
  last_fr_address,    \* the address the previous relax_section left
  align,              \* frch_section.align of each section
  pc, layout_pass,    \* where layout_addresses is
  sec, cur,           \* frchainP and fragP
  address,            \* of the first guess
  stretch, stretched, \* of the current pass over the chain
  changed,            \* some relax_section of this round changed an address
  bytes               \* bytes[s][i]: how many bytes the frag is written as

fragVars == <<fr_type, fr_fix, fr_state, fr_address, last_fr_address, align>>
vars == <<unit, fragVars, pc, layout_pass, sec, cur, address, stretch,
          stretched, changed, bytes>>

Sects == 1..Len(unit.sect)
Frags(s) == 1..Len(unit.sect[s].frags)
Frag(s, i) == unit.sect[s].frags[i]
Zerofill(s) == unit.sect[s].zerofill

\* A frag of a section of u.  Only an rs_fill repeats something: frag_wane
\* leaves zero in the others.
FragOK(u, f) ==
  /\ f.type \in {"rs_fill", "rs_align", "rs_org", "rs_machine_dependent", "rs_leb128"}
  /\ f.fix \in Nat /\ f.fill \in Nat /\ f.exp \in Nat /\ f.max \in Nat /\ f.off \in Int
  /\ f.state \in Int
  /\ f.type # "rs_fill" => f.fill = 0
  /\ \A y \in {f.sym, f.sub} : y.sec # 0 =>
       /\ y.sec \in 1..Len(u.sect) /\ y.frag \in 1..Len(u.sect[y.sec].frags)
       /\ y.value \in Int
  /\ f.type = "rs_leb128" => f.sym.sec # 0 /\ f.sub.sec # 0
  /\ f.type = "rs_machine_dependent" =>
       IF u.arm THEN /\ f.op \in {"adr", "branch", "imm"} /\ f.bits \in Nat /\ f.shift \in Nat
                     /\ f.op # "imm" => f.sym.sec # 0
                ELSE f.state \in 0..11

\* Every section ends with the ".fill 0" that layout_addresses adds.
ASSUME UnitsAssumption ==
  \A u \in Units :
    /\ Len(u.sect) \in Nat
    /\ \A s \in 1..Len(u.sect) :
         /\ u.sect[s].zerofill \in BOOLEAN /\ u.sect[s].pass \in 0..2
         /\ u.sect[s].align \in Nat /\ u.sect[s].size \in Nat
         /\ Len(u.sect[s].frags) \in Nat \ {0}
         /\ \A i \in 1..Len(u.sect[s].frags) : FragOK(u, u.sect[s].frags[i])
         /\ LET f == u.sect[s].frags[Len(u.sect[s].frags)]
            IN  f.type = "rs_fill" /\ f.fix = 0 /\ f.fill = 0

----------------------------------------------------------------------------
(* The size of a variable part.                                            *)

\* Mutant of md_relax_table: a dword conditional jump is given the length of
\* a dword unconditional one.
RelaxTableShort ==
  LET Small(more) == [forward |-> 128, backward |-> -127, length |-> 1, more |-> more]
      Big(n)      == [forward |-> 0, backward |-> 0, length |-> n, more |-> 0]
  IN  [st \in 0..11 |->
        CASE st % 4 \in {0, 1} -> Small(st + 2)
          [] st % 4 = 2 -> Big(4)
          [] st % 4 = 3 -> Big(<<2, 3, 4>>[1 + st \div 4])]

\* Mutant of md_relax_table: the byte of the displacement is not counted in
\* the reach backwards.
RelaxTableReach ==
  [st \in 0..11 |-> [RelaxTableShort[st] EXCEPT
     !.backward = IF st % 4 \in {0, 1} THEN -128 ELSE 0,
     !.length = IF st \in {6, 10} THEN 5 ELSE @]]

\* md_relax_table of i386.c: the reach of a state, its length and the state
\* to try next (0: none).  State 4 * type + size; the sizes are SMALL,
\* SMALL16, BIG and BIG16, the types UNCOND_JUMP, COND_JUMP, COND_JUMP86.
md_relax_table ==
  LET Small(more) == [forward |-> 128, backward |-> -127, length |-> 1, more |-> more]
      Big(n)      == [forward |-> 0, backward |-> 0, length |-> n, more |-> 0]
  IN  [st \in 0..11 |->
        CASE st % 4 \in {0, 1} -> Small(st + 2)
          [] st % 4 = 2 -> Big(IF st = 2 THEN 4 ELSE 5)
          [] st % 4 = 3 -> Big(<<2, 3, 4>>[1 + st \div 4])]

\* sizeof_leb128: a negative difference is a huge unsigned number.
sizeof_leb128(value, sign) ==
  IF sign THEN 1 + Cardinality({n \in 0..2 : value \notin -(64 * 128^n)..(64 * 128^n - 1)})
  ELSE IF value < 0 THEN 5
       ELSE 1 + Cardinality({n \in 1..3 : value >= 128^n})

relax_align(a, exp) == (-a) % 2^exp

\* The padding of an rs_align at address a, none if it takes more than the
\* maximum the directive allows.
Padding(f, a) ==
  LET n == relax_align(a, f.exp) IN IF f.max # 0 /\ n > f.max THEN 0 ELSE n

\* The value of a symbol when the frags are at A.
Sym(A, y) == y.value + A[y.sec][y.frag]

\* relax_immediate of arm.c, for a field of f.bits bits scaled by f.shift.  An
\* operand with a symbol is always wide.
relax_immediate(f) ==
  IF \/ f.sym.sec # 0
     \/ f.off % 2^f.shift # 0 \/ f.off \notin 0..(2^(f.shift + f.bits) - 1) THEN 4 ELSE 2

\* relaxed_symbol_addr: a frag that this pass has not reached yet will move
\* by stretch as well.  The code compares the relax_marker of the two frags
\* whatever their sections; only an adr to another section would tell, which
\* is not modelled.
relaxed_symbol_addr(A, f) ==
  Sym(A, f.sym) + f.off
    + (IF stretch # 0 /\ f.sym.sec = sec /\ f.sym.frag > cur THEN stretch ELSE 0)

relax_adr(A, f) ==
  LET val == relaxed_symbol_addr(A, f)
      pcv == ((A[sec][cur] + fr_fix[sec][cur] + 4) \div 4) * 4
  IN  IF val % 4 = 0 /\ val - pcv \in 0..1020 THEN 2 ELSE 4

relax_branch(A, f) ==
  LET val == relaxed_symbol_addr(A, f) - (A[sec][cur] + fr_fix[sec][cur] + 4)
  IN  IF f.sym.sec = sec /\ val \in -(2^f.bits)..(2^f.bits - 1) THEN 2 ELSE 4

\* The part of arm_relax_frag that chooses the size.
ArmSize(A, f) ==
  CASE f.op = "adr"    -> relax_adr(A, f)
    [] f.op = "branch" -> relax_branch(A, f)
    [] f.op = "imm"    -> relax_immediate(f)

----------------------------------------------------------------------------
Init ==
  /\ unit \in Units
  /\ fr_type = [s \in Sects |-> [i \in Frags(s) |-> Frag(s, i).type]]
  /\ fr_fix = [s \in Sects |-> [i \in Frags(s) |-> Frag(s, i).fix]]
  /\ fr_state = [s \in Sects |-> [i \in Frags(s) |-> Frag(s, i).state]]
  /\ fr_address = [s \in Sects |-> [i \in Frags(s) |-> 0]]
  /\ last_fr_address = [s \in Sects |-> [i \in Frags(s) |-> 0]]
  /\ align = [s \in Sects |-> unit.sect[s].align]
  /\ pc = "enter" /\ layout_pass = 0 /\ sec = 1 /\ cur = 1 /\ address = 0
  /\ stretch = 0 /\ stretched = FALSE /\ changed = FALSE
  /\ bytes = [s \in Sects |-> [i \in Frags(s) |-> 0]]

\* A section of another layout pass, or a zerofill section.
SkipSection ==
  /\ pc = "enter" /\ sec \in Sects
  /\ unit.sect[sec].pass # layout_pass \/ Zerofill(sec)
  /\ sec' = sec + 1
  /\ UNCHANGED <<unit, fragVars, pc, layout_pass, cur, address, stretch, stretched, changed, bytes>>

\* The call of relax_section.
EnterSection ==
  /\ pc = "enter" /\ sec \in Sects
  /\ unit.sect[sec].pass = layout_pass /\ ~Zerofill(sec)
  /\ pc' = "guess" /\ cur' = 1 /\ address' = 0
  /\ UNCHANGED <<unit, fragVars, layout_pass, sec, stretch, stretched, changed, bytes>>

\* Mutant of EndRound: relax_section is called once for every section.
EndRoundOnce ==
  /\ pc = "enter" /\ sec \notin Sects
  /\ sec' = 1 /\ changed' = FALSE
  /\ layout_pass' = layout_pass + 1
  /\ pc' = IF layout_pass = 2 THEN "slide" ELSE "enter"
  /\ UNCHANGED <<unit, fragVars, cur, address, stretch, stretched, bytes>>

\* while(changed != 0), and the next layout_pass.
EndRound ==
  /\ pc = "enter" /\ sec \notin Sects
  /\ sec' = 1 /\ changed' = FALSE
  /\ layout_pass' = IF changed THEN layout_pass ELSE layout_pass + 1
  /\ pc' = IF ~changed /\ layout_pass = 2 THEN "slide" ELSE "enter"
  /\ UNCHANGED <<unit, fragVars, cur, address, stretch, stretched, bytes>>

----------------------------------------------------------------------------
(* relax_section: the first guess.                                         *)

\* Moves on to the next frag of the first-guess loop, or to the passes.
NextGuess(a) ==
  IF cur < Len(unit.sect[sec].frags)
  THEN pc' = pc /\ cur' = cur + 1 /\ address' = a /\ UNCHANGED <<stretch, stretched>>
  ELSE pc' = "relax" /\ cur' = 1 /\ address' = a /\ stretch' = 0 /\ stretched' = FALSE

\* The address of the frag, and with it the end of its fixed part.
GuessAddress == fr_address' = [fr_address EXCEPT ![sec][cur] = address]
FixEnd == address + fr_fix[sec][cur]

\* rs_fill, and rs_org, which is assumed to be nugatory.
GuessFill ==
  /\ pc = "guess" /\ fr_type[sec][cur] \in {"rs_fill", "rs_org"}
  /\ GuessAddress
  /\ NextGuess(FixEnd + Frag(sec, cur).fill)
  /\ UNCHANGED <<unit, fr_type, fr_fix, fr_state, last_fr_address, align,
                 layout_pass, sec, changed, bytes>>

\* rs_align: an alignment with a maximum that can be done becomes the
\* alignment of the section if it is larger.
GuessAlign ==
  LET f == Frag(sec, cur)
      n == relax_align(FixEnd, f.exp)
  IN  /\ pc = "guess" /\ fr_type[sec][cur] = "rs_align"
      /\ GuessAddress
      /\ align' = IF f.max # 0 /\ n <= f.max /\ align[sec] < f.exp
                  THEN [align EXCEPT ![sec] = f.exp] ELSE align
      /\ NextGuess(FixEnd + Padding(f, FixEnd))
      /\ UNCHANGED <<unit, fr_type, fr_fix, fr_state, last_fr_address,
                     layout_pass, sec, changed, bytes>>

\* md_estimate_size_before_relax of i386.c: a jump out of the section takes
\* its long form at once and is no longer relaxed, any other one is guessed
\* at its current state.
GuessJump ==
  LET f == Frag(sec, cur)
      st == fr_state[sec][cur]
      n == md_relax_table[IF md_relax_table[st].more = 0 THEN st ELSE md_relax_table[st].more].length
  IN  /\ pc = "guess" /\ fr_type[sec][cur] = "rs_machine_dependent" /\ ~unit.arm
      /\ GuessAddress
      /\ IF f.sym.sec # sec
         THEN /\ fr_fix' = [fr_fix EXCEPT ![sec][cur] = @ + n]
              /\ fr_type' = [fr_type EXCEPT ![sec][cur] = "rs_fill"]
              /\ NextGuess(FixEnd + n)
         ELSE /\ NextGuess(FixEnd + md_relax_table[st].length)
              /\ UNCHANGED <<fr_fix, fr_type>>
      /\ UNCHANGED <<unit, fr_state, last_fr_address, align, layout_pass, sec, changed, bytes>>

\* md_estimate_size_before_relax of arm.c ("Assume everything fits in 2
\* bytes"), and the first guess 1 of an rs_leb128.
GuessSmallest ==
  LET n == IF fr_type[sec][cur] = "rs_leb128" THEN 1 ELSE 2
  IN  /\ pc = "guess"
      /\ \/ fr_type[sec][cur] = "rs_leb128"
         \/ fr_type[sec][cur] = "rs_machine_dependent" /\ unit.arm
      /\ GuessAddress
      /\ fr_state' = [fr_state EXCEPT ![sec][cur] = n]
      /\ NextGuess(FixEnd + n)
      /\ UNCHANGED <<unit, fr_type, fr_fix, last_fr_address, align, layout_pass,
                     sec, changed, bytes>>

----------------------------------------------------------------------------
(* relax_section: the passes.                                              *)

\* The addresses with the frag at cur moved by the growth so far.
Moved == [fr_address EXCEPT ![sec][cur] = @ + stretch]

\* The end of every case of the switch: stretch and stretched count growth.
Grow(growth) ==
  /\ fr_address' = Moved
  /\ stretch' = stretch + growth
  /\ stretched' = (stretched \/ growth # 0)
  /\ cur' = cur + 1
  /\ UNCHANGED <<unit, last_fr_address, align, pc, layout_pass, sec, address, changed, bytes>>

\* The frag at hand, of one of the types given.
At(types) == pc = "relax" /\ cur \in Frags(sec) /\ fr_type[sec][cur] \in types

RelaxFill == At({"rs_fill"}) /\ Grow(0) /\ UNCHANGED <<fr_type, fr_fix, fr_state>>

RelaxAlign ==
  LET f == Frag(sec, cur)
      Pad(A) == Padding(f, A[sec][cur] + fr_fix[sec][cur])
  IN  /\ At({"rs_align"})
      /\ Grow(Pad(Moved) - Pad(fr_address))
      /\ UNCHANGED <<fr_type, fr_fix, fr_state>>

\* rs_org: the frag after it goes to the target, never backwards.
OrgTarget(A, f) == f.off + (IF f.sym.sec = 0 THEN 0 ELSE Sym(A, f.sym))

\* Mutant of RelaxOrg: the growth is not made absolute.
RelaxOrgRelative ==
  LET ahead == OrgTarget(Moved, Frag(sec, cur)) - fr_address[sec][cur + 1]
  IN  /\ At({"rs_org"})
      /\ Grow(IF ahead > 0 THEN ahead ELSE 0)
      /\ UNCHANGED <<fr_type, fr_fix, fr_state>>

RelaxOrg ==
  LET after == fr_address[sec][cur + 1]
      ahead == OrgTarget(Moved, Frag(sec, cur)) - after
  IN  /\ At({"rs_org"})
      /\ Grow((IF ahead > 0 THEN ahead ELSE 0) - stretch)
      /\ UNCHANGED <<fr_type, fr_fix, fr_state>>

\* An i386 jump grows, state by state, until it reaches its target.
RelaxJump ==
  LET f   == Frag(sec, cur)
      st  == fr_state[sec][cur]
      far == fr_address[f.sym.sec][f.sym.frag] >= fr_address[sec][cur] /\ f.sym.frag > cur
      aim == f.off + Sym(Moved, f.sym) + (IF far THEN stretch ELSE 0)
               - Moved[sec][cur] - fr_fix[sec][cur]
      Reaches(t) == IF aim < 0 THEN aim >= t.backward ELSE aim <= t.forward
      new == IF md_relax_table[st].more = 0 \/ Reaches(md_relax_table[st])
             THEN st ELSE md_relax_table[st].more
  IN  /\ At({"rs_machine_dependent"}) /\ ~unit.arm
      /\ Grow(md_relax_table[new].length - md_relax_table[st].length)
      /\ fr_state' = [fr_state EXCEPT ![sec][cur] = new]
      /\ UNCHANGED <<fr_type, fr_fix>>

\* Mutant of RelaxThumb: no instruction is ever frozen.
RelaxThumbFree ==
  LET n == ArmSize(Moved, Frag(sec, cur))
  IN  /\ At({"rs_machine_dependent"}) /\ unit.arm
      /\ Grow(n - fr_state[sec][cur])
      /\ fr_state' = [fr_state EXCEPT ![sec][cur] = n]
      /\ UNCHANGED <<fr_fix, fr_type>>

\* arm_relax_frag: a Thumb instruction may grow and shrink, and one that is
\* wide where nothing before it grew on this pass is converted for good.
RelaxThumb ==
  LET n == ArmSize(Moved, Frag(sec, cur))
  IN  /\ At({"rs_machine_dependent"}) /\ unit.arm
      /\ Grow(n - fr_state[sec][cur])
      /\ fr_state' = [fr_state EXCEPT ![sec][cur] = n]
      /\ IF stretch <= 0 /\ n > 2
         THEN /\ fr_fix' = [fr_fix EXCEPT ![sec][cur] = @ + n]
              /\ fr_type' = [fr_type EXCEPT ![sec][cur] = "rs_fill"]
         ELSE UNCHANGED <<fr_fix, fr_type>>

\* The value of a leb128: the difference of two symbols and a number.
LebValue(A, f) == Sym(A, f.sym) - Sym(A, f.sub) + f.off

RelaxLeb ==
  LET f == Frag(sec, cur)
      n == sizeof_leb128(LebValue(Moved, f), f.sign)
  IN  /\ At({"rs_leb128"})
      /\ Grow(n - fr_state[sec][cur])
      /\ fr_state' = [fr_state EXCEPT ![sec][cur] = n]
      /\ UNCHANGED <<fr_type, fr_fix>>

\* while(stretched): another pass, or the comparison with the addresses the
\* previous call left and the return.
EndPass ==
  /\ pc = "relax" /\ cur \notin Frags(sec)
  /\ IF stretched
     THEN /\ cur' = 1 /\ stretch' = 0 /\ stretched' = FALSE
          /\ UNCHANGED <<last_fr_address, changed, sec, pc>>
     ELSE /\ changed' = (changed \/ last_fr_address[sec] # fr_address[sec])
          /\ last_fr_address' = [last_fr_address EXCEPT ![sec] = fr_address[sec]]
          /\ sec' = sec + 1 /\ pc' = "enter"
          /\ UNCHANGED <<cur, stretch, stretched>>
  /\ UNCHANGED <<unit, fr_type, fr_fix, fr_state, fr_address, align, layout_pass, address, bytes>>

----------------------------------------------------------------------------
(* The rest of layout_addresses.                                           *)

rnd(v, r) == v + ((-v) % r)

SectSize(s) == IF Zerofill(s) THEN unit.sect[s].size ELSE fr_address[s][Len(unit.sect[s].frags)]

\* slide after k turns of the two loops over the sections, the first of which
\* skips the zerofill sections and the second the others.
SlideEnd ==
  LET n == Len(unit.sect)
      e[k \in 0..2*n] ==
        LET s == IF k <= n THEN k ELSE k - n
        IN  IF k = 0 THEN 0
            ELSE IF Zerofill(s) = (k <= n) THEN e[k-1]
            ELSE rnd(e[k-1], 2^align[s]) + SectSize(s)
  IN  e

\* Where a section starts.
SectStart(s) ==
  rnd(SlideEnd[IF Zerofill(s) THEN Len(unit.sect) + s - 1 ELSE s - 1], 2^align[s])

\* The addresses become absolute.
Slide ==
  /\ pc = "slide" /\ pc' = "convert"
  /\ fr_address' = [s \in Sects |-> [i \in Frags(s) |->
        SectStart(s) + (IF Zerofill(s) THEN (IF i = 1 THEN 0 ELSE SectSize(s))
                                       ELSE fr_address[s][i])]]
  /\ UNCHANGED <<unit, fr_type, fr_fix, fr_state, last_fr_address, align, layout_pass,
                 sec, cur, address, stretch, stretched, changed, bytes>>

\* The bytes md_convert_frag of i386.c adds to a frag.
Extension(st) == CASE st % 4 \in {0, 1} -> 1
                   [] st % 4 = 2 -> IF st = 2 THEN 4 ELSE 5
                   [] st % 4 = 3 -> <<2, 3, 4>>[1 + st \div 4]

\* An rs_org whose target the layout has already passed: as_warn.
PastTarget(s, i) == fr_type[s][i] = "rs_org" /\ fr_address[s][i+1] < fr_address[s][i] + fr_fix[s][i]

\* How many bytes a frag is written as: its fixed part and what the
\* conversion makes of the variable part.
Converted(s, i) ==
  LET f == Frag(s, i)
      n == fr_address[s][i+1] - fr_address[s][i] - fr_fix[s][i]
  IN  fr_fix[s][i] +
      CASE fr_type[s][i] = "rs_fill" -> f.fill
        [] fr_type[s][i] \in {"rs_align", "rs_org"} -> IF n < 0 THEN 0 ELSE n
        [] fr_type[s][i] = "rs_leb128" -> sizeof_leb128(LebValue(fr_address, f), f.sign)
        [] fr_type[s][i] = "rs_machine_dependent" ->
             IF unit.arm THEN fr_state[s][i] ELSE Extension(fr_state[s][i])

Convert ==
  /\ pc = "convert" /\ pc' = "done"
  /\ bytes' = [s \in Sects |-> [i \in Frags(s) |-> IF Zerofill(s) THEN 0 ELSE Converted(s, i)]]
  /\ UNCHANGED <<unit, fragVars, layout_pass, sec, cur, address, stretch, stretched, changed>>

Done == pc = "done" /\ UNCHANGED vars

Layout == SkipSection \/ EnterSection \/ EndRound \/ Slide \/ Convert
Guess == GuessFill \/ GuessAlign \/ GuessJump \/ GuessSmallest
RelaxPass == RelaxFill \/ RelaxAlign \/ RelaxOrg \/ RelaxJump \/ RelaxThumb \/ RelaxLeb \/ EndPass
Next == Layout \/ Guess \/ RelaxPass \/ Done

\* One thread that is never blocked.
Spec == Init /\ [][Next]_vars /\ WF_vars(Layout \/ Guess \/ RelaxPass)

----------------------------------------------------------------------------
(* Properties.                                                             *)

TypeOK ==
  /\ pc \in {"enter", "guess", "relax", "slide", "convert", "done"}
  /\ layout_pass \in 0..3 /\ sec \in 1..(Len(unit.sect) + 1)
  /\ cur \in Nat \ {0} /\ stretch \in Int /\ stretched \in BOOLEAN /\ changed \in BOOLEAN
  /\ \A s \in Sects : \A i \in Frags(s) :
       /\ fr_type[s][i] \in {Frag(s, i).type, "rs_fill"}
       /\ fr_fix[s][i] \in Nat /\ fr_address[s][i] \in Nat /\ bytes[s][i] \in Nat

\* The frags that are written, without the ".fill 0" at the end.
Written == {p \in UNION {{s} \X Frags(s) : s \in Sects} :
              ~Zerofill(p[1]) /\ p[2] < Len(unit.sect[p[1]].frags)}

\* "We now have valid fr_address'es for each frag": the bytes a frag is
\* converted to end exactly where the next frag starts.  The passes only ever
\* move addresses by differences of sizes, so one size that is not the size
\* the conversion writes shifts everything after it against its symbols.
BytesFillTheFrags ==
  pc = "done" => \A p \in Written :
    LET s == p[1] i == p[2]
    IN  PastTarget(s, i) \/ bytes[s][i] = fr_address[s][i+1] - fr_address[s][i]

\* The distance from the end of an instruction to its target.
Displacement(s, i) == Frag(s, i).off + Sym(fr_address, Frag(s, i).sym) - fr_address[s][i+1]

\* A branch that stays short reaches its target with the final addresses,
\* though it was sized on a pass that moved frags before and after it
\* ("If this is not so, it will be because some frag between grows, and that
\* will force another pass"): the byte md_convert_frag writes holds the
\* displacement, and a narrow Thumb branch or adr is in range.
BranchesReach ==
  pc = "done" => \A p \in Written :
    LET s == p[1] i == p[2] f == Frag(s, i)
        pcv == fr_address[s][i] + fr_fix[s][i] + 4
    IN  fr_type[s][i] = "rs_machine_dependent" =>
        IF unit.arm
        THEN /\ fr_state[s][i] = 2 /\ f.op = "branch" =>
                  f.off + Sym(fr_address, f.sym) - pcv \in -(2^f.bits)..(2^f.bits - 1)
             /\ fr_state[s][i] = 2 /\ f.op = "adr" =>
                  f.off + Sym(fr_address, f.sym) - 4 * (pcv \div 4) \in 0..1020
        ELSE fr_state[s][i] % 4 \in {0, 1} => Displacement(s, i) \in -128..127

\* An alignment that is done is an alignment of the final address: "If so and
\* this alignment is larger than any previous alignment then this becomes the
\* section's alignment".  relax_section works with addresses relative to the
\* section, so the section must start at a multiple as well.
AlignmentKept ==
  pc = "done" => \A p \in Written :
    LET s == p[1] i == p[2] f == Frag(s, i)
        n == relax_align(fr_address[s][i] - fr_address[s][1] + fr_fix[s][i], f.exp)
    IN  f.type = "rs_align" /\ (f.max = 0 \/ n <= f.max) => fr_address[s][i+1] % 2^f.exp = 0

\* The address an .org names.
OrgAddress(s, i) ==
  OrgTarget(fr_address, Frag(s, i)) + (IF Frag(s, i).sym.sec = 0 THEN fr_address[s][1] ELSE 0)

\* What follows an .org is at the address the .org names, however often the
\* frags before it moved, unless the section is already past it.
OrgReached ==
  pc = "done" => \A p \in Written :
    LET s == p[1] i == p[2]
    IN  Frag(s, i).type = "rs_org" /\ OrgAddress(s, i) >= fr_address[s][i] + fr_fix[s][i]
          => fr_address[s][i+1] = OrgAddress(s, i)

\* "This avoids infinite loops": the passes, and the rounds over the
\* sections, come to an end.  A leb128 may shrink and nothing freezes it: it
\* holds where no leb128 falls as it grows (b: .uleb128 b-e+129, e: does, and
\* is one byte and two bytes long in turn for ever).
LayoutEnds == <>(pc = "done")
=============================================================================
