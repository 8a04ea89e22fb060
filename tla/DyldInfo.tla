------------------------------ MODULE DyldInfo ------------------------------
(***************************************************************************)
(* The compressed rebase and bind information of an image: the encoders    *)
(* RebaseInfoAtom::encodeV1 and BindingInfoAtom::encodeV1 of LinkEdit.hpp, *)
(* and the decoder every reader of it shares (otool/dyld_bind_info.c and   *)
(* machochecker.cpp).                                                      *)
(*                                                                         *)
(* An encoder walks the sorted fixups and writes one opcode at a time into *)
(* a vector, mid; each optimization phase then rewrites the vector in      *)
(* place, reading at src and writing at dst <= src.  Here out is what has  *)
(* been written below dst and mid from src on is what is left to read.     *)
(* Addresses are unsigned: they wrap at Modulus, 2^64 in the code.         *)
(***************************************************************************)
EXTENDS Integers, Sequences, FiniteSets

CONSTANTS
  PtrSize,      \* sizeof(pint_t)
  Modulus,      \* addresses are modulo this
  Inputs        \* [kind, segs, info]: "rebase" or "bind", the segments and the set of fixups

ASSUME SizesAssumption == PtrSize \in Nat \ {0} /\ Modulus \in Nat /\ 15 * PtrSize < Modulus

\* A fixup is for a pointer that lies in a segment; nothing is at address 0,
\* where a mach header or __PAGEZERO is.  Special ordinals of libraries are
\* small negative numbers, and a rebase is for no library.  The flags are those
\* of the reference: BIND_SYMBOL_FLAGS_WEAK_IMPORT is 1, and two references to
\* one symbol need not agree on it.
FixupOK(image, x) ==
  /\ x \in [type : Nat, lib : Int, sym : Nat, flags : {0, 1}, address : Nat, addend : Int]
  /\ x.address > 0 /\ x.lib >= -15
  /\ image.kind = "rebase" => x.lib = 0 /\ x.sym = 0 /\ x.flags = 0 /\ x.addend = 0
  /\ \E s \in DOMAIN image.segs :
       image.segs[s].start <= x.address /\ x.address + PtrSize <= image.segs[s].end

\* Segments do not overlap, no two fixups are alike but for the addend and the
\* flags, and whether its segment is read-only gives a rebase its type.
ImageOK(image) ==
  LET segs == image.segs
  IN  /\ image.kind \in {"rebase", "bind"}
      /\ Len(segs) \in Nat /\ DOMAIN segs = 1..Len(segs)
      /\ \A s \in DOMAIN segs :
           /\ segs[s].start \in Nat /\ segs[s].end \in Nat /\ segs[s].vmend \in Nat
           /\ segs[s].end <= segs[s].vmend /\ segs[s].end < Modulus
      /\ \A s, t \in DOMAIN segs :
           s = t \/ segs[s].end <= segs[t].start \/ segs[t].end <= segs[s].start
      /\ IsFiniteSet(image.info) /\ \A x \in image.info : FixupOK(image, x)
      /\ \A x, y \in image.info :
           /\ x.lib = y.lib /\ x.sym = y.sym /\ x.type = y.type /\ x.address = y.address
                => x = y
           /\ image.kind = "rebase" => \A s \in DOMAIN segs :
                {x.address, y.address} \subseteq segs[s].start .. segs[s].end - 1
                  => x.type = y.type
ASSUME InputsAssumption == \A i \in Inputs : ImageOK(i)

VARIABLES
  input,        \* the image being encoded
  phase,        \* the loop the encoder is in
  todo,         \* the fixups the first loop has not reached
  cur,          \* its variables: segment, type, ordinal, symbol, address, addend
  mid, src, out \* the opcodes

vars == <<input, phase, todo, cur, mid, src, out>>

Unsigned(n) == n % Modulus
Op(op, a, b) == [op |-> op, a |-> a, b |-> b]

\* RebaseInfo and BindingInfo operator<: by library, symbol, type and flags,
\* weak imports first, then by address.  A rebase has only type and address.
Less(x, y) ==
  \/ x.lib < y.lib
  \/ x.lib = y.lib /\ x.sym < y.sym
  \/ x.lib = y.lib /\ x.sym = y.sym /\ x.type < y.type
  \/ x.lib = y.lib /\ x.sym = y.sym /\ x.type = y.type /\ x.flags > y.flags
  \/ /\ x.lib = y.lib /\ x.sym = y.sym /\ x.type = y.type /\ x.flags = y.flags
     /\ x.address < y.address

\* OutputFile::findSegment
findSegment(a) == CHOOSE i \in DOMAIN input.segs :
                    input.segs[i].start <= a /\ a < input.segs[i].end

Init ==
  /\ input \in Inputs
  /\ phase = "fixups" /\ todo = input.info
  /\ cur = [start |-> 0, end |-> 0, type |-> 0, lib |-> -100, sym |-> -100,
            address |-> Modulus - 1, addend |-> 0]
  /\ mid = <<>> /\ src = 1 /\ out = <<>>

----------------------------------------------------------------------------
(* The first loop: one fixup, the opcodes that set what has changed since   *)
(* the previous one, and the fixup itself.                                 *)

When(c, op) == IF c THEN <<op>> ELSE <<>>

\* Sets the address if it is not where the previous fixup left it.
MoveTo(it) ==
  LET seg == findSegment(it.address)
  IN  IF cur.address = it.address THEN <<>>
      ELSE IF it.address < cur.start \/ it.address >= cur.end
           THEN <<Op("SET_SEGMENT", seg, it.address - input.segs[seg].start)>>
           ELSE <<Op("ADD_ADDR", Unsigned(it.address - cur.address), 0)>>

\* The segment the loop is in after it.
InSegment(it) ==
  LET seg == input.segs[findSegment(it.address)]
      new == cur.address # it.address /\ (it.address < cur.start \/ it.address >= cur.end)
  IN  IF new THEN [start |-> seg.start, end |-> seg.end]
             ELSE [start |-> cur.start, end |-> cur.end]

\* Mutant of NextAddress: no reset at the end of the segment.
NextAddressKept(it) == it.address + PtrSize

\* Where the next fixup is expected.  The rebase encoder forgets the address
\* at the end of a segment, so that the next segment is always set.
NextAddress(it) ==
  LET a == it.address + PtrSize
  IN  IF input.kind = "rebase" /\ a >= InSegment(it).end THEN 0 ELSE a

\* The flags are written with the name, and the name only when it changes.
EncodeFixup ==
  /\ phase = "fixups" /\ todo # {}
  /\ LET it == CHOOSE x \in todo : \A y \in todo \ {x} : Less(x, y)
     IN  /\ mid' = mid
              \o When(input.kind = "bind" /\ cur.lib # it.lib, Op("SET_LIB", it.lib, 0))
              \o When(input.kind = "bind" /\ cur.sym # it.sym, Op("SET_SYM", it.sym, it.flags))
              \o When(cur.type # it.type, Op("SET_TYPE", it.type, 0))
              \o MoveTo(it)
              \o When(cur.addend # it.addend, Op("SET_ADDEND", it.addend, 0))
              \o <<Op("DO", 1, 0)>>
         /\ cur' = [start |-> InSegment(it).start, end |-> InSegment(it).end, type |-> it.type,
                    lib |-> it.lib, sym |-> it.sym, address |-> NextAddress(it),
                    addend |-> it.addend]
         /\ todo' = todo \ {it}
  /\ UNCHANGED <<input, phase, src, out>>

EndFixups ==
  /\ phase = "fixups" /\ todo = {}
  /\ phase' = IF input.kind = "rebase" THEN "runs" ELSE "pairs"
  /\ UNCHANGED <<input, todo, cur, mid, src, out>>

----------------------------------------------------------------------------
(* The phases.                                                             *)

\* One iteration: n opcodes are read, op is written.
Rewrite(ph, n, op) ==
  /\ phase = ph /\ src <= Len(mid)
  /\ src' = src + n /\ out' = Append(out, op)
  /\ UNCHANGED <<input, phase, todo, cur, mid>>

\* The end of a phase: dst->opcode = DONE, and the vector is read again.
EndPhase(ph, next) ==
  /\ phase = ph /\ src > Len(mid)
  /\ mid' = out /\ src' = 1 /\ out' = <<>> /\ phase' = next
  /\ UNCHANGED <<input, todo, cur>>

Is(i, op) == i <= Len(mid) /\ mid[i].op = op

\* How many of the places alike follow each other from src on.
RunLength(alike) ==
  CHOOSE n \in 1..(Len(mid) - src + 1) :
    src..(src + n - 1) \subseteq alike /\ src + n \notin alike

\* Rebase phase 1, "compress packed runs of pointers".
RunsPhase ==
  LET alike == {i \in DOMAIN mid : Is(i, "DO")}
  IN  IF Is(src, "DO")
      THEN Rewrite("runs", RunLength(alike), Op("DO", RunLength(alike), 0))
      ELSE Rewrite("runs", 1, mid[src])

\* Mutant of PairsPhase: a run of several pointers is taken for one.
PairsPhaseAnyRun ==
  IF Is(src, "DO") /\ Is(src + 1, "ADD_ADDR")
  THEN Rewrite("pairs", 2, Op("DO_ADD", mid[src + 1].a, 0))
  ELSE Rewrite("pairs", 1, mid[src])

\* Rebase phase 2 and bind phase 1, "combine rebase/add pairs".
PairsPhase ==
  IF Is(src, "DO") /\ mid[src].a = 1 /\ Is(src + 1, "ADD_ADDR")
  THEN Rewrite("pairs", 2, Op("DO_ADD", mid[src + 1].a, 0))
  ELSE Rewrite("pairs", 1, mid[src])

\* Rebase phase 3 and bind phase 2, "compress packed runs of ... with same
\* addr delta", worth it from three on for a rebase and from two for a bind.
SkipsPhase ==
  LET alike == {i \in DOMAIN mid : Is(i, "DO_ADD") /\ mid[i].a = mid[src].a}
      worth == IF input.kind = "rebase" THEN 3 ELSE 2
  IN  IF Is(src, "DO_ADD") /\ RunLength(alike) >= worth
      THEN Rewrite("skips", RunLength(alike), Op("DO_SKIP", RunLength(alike), mid[src].a))
      ELSE Rewrite("skips", 1, mid[src])

\* Rebase phase 4 and bind phase 3, "use immediate encodings": an operand
\* goes into the low four bits of the opcode.
Immediate(op) ==
  LET scaled == op.a < 15 * PtrSize /\ op.a % PtrSize = 0
  IN  CASE input.kind = "rebase" /\ op.op = "ADD_ADDR" /\ scaled
             -> Op("ADD_ADDR_IMM", op.a \div PtrSize, 0)
        [] input.kind = "rebase" /\ op.op = "DO" /\ op.a < 15 -> Op("DO_IMM", op.a, 0)
        [] input.kind = "bind" /\ op.op = "DO_ADD" /\ scaled
             -> Op("DO_ADD_IMM", op.a \div PtrSize, 0)
        [] input.kind = "bind" /\ op.op = "SET_LIB" /\ op.a \in 1..15 -> Op("SET_LIB_IMM", op.a, 0)
        [] input.kind = "bind" /\ op.op = "SET_LIB" /\ op.a <= 0
             -> Op("SET_LIB_SPECIAL", op.a % 16, 0)
        [] OTHER -> op

ImmediatePhase == Rewrite("imm", 1, Immediate(mid[src]))

EndPhases == \/ EndPhase("runs", "pairs") \/ EndPhase("pairs", "skips")
             \/ EndPhase("skips", "imm") \/ EndPhase("imm", "done")

Done == phase = "done" /\ UNCHANGED vars

Encode == EncodeFixup \/ EndFixups \/ RunsPhase \/ PairsPhase \/ SkipsPhase
            \/ ImmediatePhase \/ EndPhases
Next == Encode \/ Done

Spec == Init /\ [][Next]_vars

----------------------------------------------------------------------------
(* The decoder.                                                            *)

DecodeStart == [seg |-> 0, off |-> 0, type |-> 0, lib |-> 0, sym |-> 0, flags |-> 0,
                addend |-> 0, found |-> {}, count |-> 0, bad |-> FALSE]

\* n fixups, PtrSize + skip bytes apart, as the loops of the decoder make
\* them; checkSegAndOffset complains of one outside the segment.
Fix(d, n, skip) ==
  LET seg == input.segs[d.seg]
      at(k) == Unsigned(seg.start + d.off + k * (PtrSize + skip))
  IN  [d EXCEPT
        !.off = Unsigned(@ + n * (PtrSize + skip)),
        !.found = @ \cup {[type |-> d.type, lib |-> d.lib, sym |-> d.sym, flags |-> d.flags,
                           addend |-> d.addend, address |-> at(k)] : k \in 0..(n - 1)},
        !.count = @ + n,
        !.bad = @ \/ \E k \in 0..(n - 1) : at(k) < seg.start \/ at(k) >= seg.vmend]

DecodeStep(d, o) ==
  CASE o.op = "SET_TYPE"     -> [d EXCEPT !.type = o.a]
    [] o.op \in {"SET_LIB", "SET_LIB_IMM"} -> [d EXCEPT !.lib = o.a]
    [] o.op = "SET_LIB_SPECIAL" -> [d EXCEPT !.lib = IF o.a = 0 THEN 0 ELSE o.a - 16]
    [] o.op = "SET_SYM"      -> [d EXCEPT !.sym = o.a, !.flags = o.b]
    [] o.op = "SET_ADDEND"   -> [d EXCEPT !.addend = o.a]
    [] o.op = "SET_SEGMENT"  -> [d EXCEPT !.seg = o.a, !.off = o.b]
    [] o.op = "ADD_ADDR"     -> [d EXCEPT !.off = Unsigned(@ + o.a)]
    [] o.op = "ADD_ADDR_IMM" -> [d EXCEPT !.off = Unsigned(@ + o.a * PtrSize)]
    [] o.op \in {"DO", "DO_IMM"} -> Fix(d, o.a, 0)
    [] o.op = "DO_ADD"       -> Fix(d, 1, o.a)
    [] o.op = "DO_ADD_IMM"   -> Fix(d, 1, o.a * PtrSize)
    [] o.op = "DO_SKIP"      -> Fix(d, o.a, o.b)

Decoded(ops) ==
  LET d[i \in 0..Len(ops)] == IF i = 0 THEN DecodeStart ELSE DecodeStep(d[i-1], ops[i])
  IN  d[Len(ops)]

----------------------------------------------------------------------------
(* Properties.                                                             *)

\* The opcodes as they stand: what has been written and what is left.
Opcodes == out \o SubSeq(mid, src, Len(mid))

TypeOK ==
  /\ phase \in {"fixups", "runs", "pairs", "skips", "imm", "done"}
  /\ todo \subseteq input.info /\ src \in 1..(Len(mid) + 1)
  /\ \A i \in DOMAIN Opcodes : Opcodes[i].a \in Int /\ Opcodes[i].b \in 0..(Modulus - 1)

\* A fixup but for the flags of its symbol.
Bare(x) == [type |-> x.type, lib |-> x.lib, sym |-> x.sym, address |-> x.address,
            addend |-> x.addend]

\* What the opcodes say is what was asked for, at every iteration of every
\* phase: each fixup once, with its own library, symbol, type, address and
\* addend, though the binds of a symbol are in order of address only within
\* its weak imports and within the others.  A phase only looks at two or three
\* opcodes and keeps no address.  The flags a fixup is decoded with are those
\* of some fixup of its symbol: its own, if the references to it agree, and
\* else those of the first, although "the default is non-weak".
SameFixups ==
  LET d == Decoded(Opcodes)
      asked == input.info \ todo
  IN  /\ {Bare(x) : x \in d.found} = {Bare(x) : x \in asked}
      /\ d.count = Cardinality(asked)
      /\ \A x \in d.found : \E y \in asked : y.sym = x.sym /\ y.flags = x.flags

\* "bad segOffset, too large": every fixup is made in the segment set last,
\* though the encoder sets a segment only when an address is not the one it
\* expected.
InsideSegments == ~Decoded(Opcodes).bad
=============================================================================
