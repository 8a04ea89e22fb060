----------------------------- MODULE MCResolver -----------------------------
(***************************************************************************)
(* Small links: a main object, an archive of two members, a second archive *)
(* or one that is auto-linked, and a dylib.  Name 1 is the entry point.    *)
(***************************************************************************)
EXTENDS Resolver

AtomOf(n, f, def, comb, refs) ==
  [key |-> n, ordinal |-> f, path |-> f, definition |-> def, combine |-> comb,
   scope |-> "global", size |-> 1, alignment |-> 0, isLTO |-> FALSE,
   autoHide |-> FALSE, machHeader |-> FALSE, refs |-> refs, isData |-> TRUE,
   keep |-> FALSE, support |-> FALSE]
Strongly(n, f, refs) == AtomOf(n, f, "regular", "never", refs)
Weakly(n, f, refs) == AtomOf(n, f, "regular", "byName", refs)
Common(n, f) == AtomOf(n, f, "tentative", "byName", {})
Code(a) == [a EXCEPT !.isData = FALSE]
Hidden(a) == [a EXCEPT !.scope = "translationUnit"]

File(as, opts) == [atoms |-> as, options |-> opts]
Library(kind, files) ==
  [kind |-> kind, members |-> files, force |-> FALSE, strong |-> {}, weak |-> {}]
Dylib(strong, weak) ==
  [kind |-> "dylib", members |-> <<>>, force |-> FALSE, strong |-> strong,
   weak |-> weak]

Link(libs, ins, implicit) ==
  [libs |-> libs, inputs |-> ins, implicit |-> implicit, undefs |-> <<1>>,
   entry |-> 1]

\* The main object refers to 2, and either to 3 too or it has a 3 of its own.
Mains ==
  {File(<<Strongly(1, 1, {2, 3})>>, {})} \cup
  {File(<<Strongly(1, 1, {2}), a>>, {}) :
     a \in {Common(3, 1), Weakly(3, 1, {4}), Strongly(3, 1, {})}}
\* What the archives hold: 2 by way of others, overrides of 3, a 4.  Nothing
\* defines 6.
FirstMembers ==
  {File(<<Strongly(2, 11, r)>> \o rest, {}) :
     r \in {{}, {3}, {4}}, rest \in {<<>>, <<Common(4, 11)>>, <<Strongly(3, 11, {})>>}}
SecondMembers ==
  {File(<<a>>, {}) :
     a \in {Strongly(3, 12, {4}), Code(Strongly(3, 12, {})), Weakly(3, 12, {6})}}
ThirdMembers ==
  {File(<<Strongly(4, 13, {3})>>, {}),
   File(<<Weakly(4, 13, {5}), Weakly(3, 13, {})>>, {})}
Dylibs == {Dylib({}, {}), Dylib({3, 4}, {}), Dylib({4}, {2, 3})}

\* The dylib is listed before the archives, after them, or only re-exported.
PlainLinks ==
  {Link(<<Library("object", <<main>>), Library("archive", <<m1, m2>>),
          [Library("archive", <<m3>>) EXCEPT !.force = forced], dylib>>,
        ins, IF ins = <<1, 2, 3>> THEN {4} ELSE {}) :
     main \in Mains, m1 \in FirstMembers, m2 \in SecondMembers,
     m3 \in ThirdMembers, dylib \in Dylibs, forced \in BOOLEAN,
     ins \in {<<1, 4, 2, 3>>, <<3, 2, 1, 4>>, <<1, 2, 3>>}}

PlainFiles == Mains \cup FirstMembers \cup SecondMembers \cup ThirdMembers

FileAtoms(files) == UNION {Range(f.atoms) : f \in files}
MadeAtoms ==
  {UndefinedProxyAtom(n) : n \in Names} \cup {BoundaryAtom(n) : n \in Names}
    \cup {ExportAtom(n, l, w, weak) : n \in Names, l \in {4},
             w \in {"listed", "implicit"}, weak \in BOOLEAN}

PlainAtoms == FileAtoms(PlainFiles) \cup MadeAtoms
NoneOf == [a \in Atoms |-> {}]

-----------------------------------------------------------------------------
(***************************************************************************)
(* Links for -dead_strip and auto-linking.  A static 6 is the FDE of its   *)
(* file's 2; a static 7 is what the file's 2 or 3 refers to directly; 8 is *)
(* a literal, which the atoms of names 1 and 2 refer to.                   *)
(***************************************************************************)

Fde(f) == Hidden(Strongly(6, f, {}))
Local(f, refs) == Hidden(Strongly(7, f, refs))
Literal(f) == [AtomOf(8, f, "regular", "byContent", {}) EXCEPT
                 !.alignment = IF f > 1 THEN 2 ELSE 0]
Kept(a) == [a EXCEPT !.keep = TRUE]
Support(a) == [a EXCEPT !.support = TRUE]

StripMains ==
  {File(<<Strongly(1, 1, r), Literal(1)>> \o rest, opts) :
     r \in {{2}, {3}}, opts \in {{}, {5}},
     rest \in {<<>>, <<Weakly(2, 1, {4}), Fde(1), Local(1, {})>>,
               <<Support(Hidden(Strongly(4, 1, {2})))>>,
               <<Strongly(3, 1, {9})>>, <<Kept(Strongly(4, 1, {5}))>>}}
StripMembers ==
  UNION {{File(<<Literal(f), fn, Fde(f), Local(f, IF f = 11 THEN {} ELSE {4})>>,
               opts) :
            fn \in {Strongly(2, f, {3}), Weakly(2, f, {})}, opts \in {{}, {5, 6}}} :
         f \in {11, 21}}
StripOthers ==
  {File(<<Strongly(3, 12, {2}), Strongly(5, 12, {}), Weakly(2, 12, {}), Fde(12)>>, {}),
   File(<<Common(3, 12), Strongly(5, 12, {})>>, {4})}
AutoMembers == {File(<<Strongly(4, 13, {2})>>, {}), File(<<Strongly(3, 13, {4})>>, {})}

\* A chain of auto-linked archives whose last one is found too late for the
\* search, and is searched for the initial undefine 4 by the dead strip.
LateMain == File(<<Strongly(1, 31, {5, 9})>>, {})
LateFirst == File(<<Strongly(9, 32, {})>>, {3})
LateSecond == File(<<Strongly(5, 33, {})>>, {4})
LateLast == File(<<Strongly(4, 34, {})>>, {})
LateFiles == {LateMain, LateFirst, LateSecond, LateLast}
LateLink(main, last) ==
  [Link(<<Library("object", <<main>>), Library("archive", <<LateFirst>>),
          Library("archive", <<LateSecond>>), Library("archive", <<last>>)>>,
        <<1, 2>>, {}) EXCEPT !.undefs = <<1, 4>>]

\* The same, when the late member also defines a name that the entry point,
\* already marked live, refers to.
LateCaller == File(<<Strongly(1, 31, {3, 5, 9})>>, {})
LateBoth == File(<<Strongly(4, 34, {}), Strongly(3, 34, {})>>, {})
LateLinks == {LateLink(main, last) : main \in {LateMain, LateCaller}, last \in {LateLast, LateBoth}}
LateAtoms == FileAtoms(LateFiles \cup {LateCaller, LateBoth}) \cup MadeAtoms

StripLinks ==
  {LateLink(LateMain, LateLast)} \cup
  {Link([l \in 1 .. 5 |->
           CASE l = 1 -> Library("object", <<main>>)
             [] l = 2 -> Library("archive", <<m1>>)
             [] l = 3 -> Library("archive", <<m2>>)
             [] l = 4 -> dylib
             [] l = 5 -> Library("archive", <<m3>>)],
        <<1, 2, 3>>, {}) :
     main \in StripMains, m1 \in StripMembers, m2 \in StripOthers,
     m3 \in AutoMembers, dylib \in {Dylib({4}, {}), Dylib({3}, {4})}}

StripAtoms ==
  FileAtoms(StripMains \cup StripMembers \cup StripOthers \cup AutoMembers
              \cup LateFiles)
    \cup MadeAtoms

SameFile(a, b) == a.ordinal = b.ordinal /\ a # b
StripDirect ==
  [a \in StripAtoms |-> IF a.key = 2 /\ a.definition = "regular"
     THEN {b \in StripAtoms : SameFile(a, b) /\ b.key = 7 /\ Static(b)} ELSE {}]
StripSubordinates ==
  [a \in StripAtoms |-> IF a.key = 2 /\ a.definition = "regular"
     THEN {b \in StripAtoms : SameFile(a, b) /\ b.key = 6 /\ Static(b)} ELSE {}]
StripContentRefs ==
  [a \in StripAtoms |-> IF a.key \in {1, 2} /\ a.definition = "regular"
     THEN {b \in StripAtoms : SameFile(a, b) /\ b.key = 8} ELSE {}]

=============================================================================
