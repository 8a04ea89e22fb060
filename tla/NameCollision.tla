--------------------------- MODULE NameCollision ---------------------------
(***************************************************************************)
(* Which of two atoms with one name the linker keeps: the class            *)
(* NameCollisionResolution of SymbolTable.cpp.  Atom a is the new one      *)
(* (_atomA) and b the one in the table (_atomB).                           *)
(*                                                                         *)
(* An atom is a record with the attributes the decision reads: name,       *)
(* definition, combine, scope, ordinal, size, alignment, isLTO, autoHide,  *)
(* machHeader (it is in a section of type typeMachHeader), and path (its   *)
(* file's).  A lower ordinal has the higher precedence (ld.hpp, Ordinal).  *)
(***************************************************************************)
EXTENDS Integers

CONSTANT CommonsMode    \* _options.commonsMode(): -commons

ASSUME CommonsAssumption ==
  CommonsMode \in {"ignoreDylibs", "overriddenByDylibs", "conflictsError"}

\* Weak definitions are combined by name; combineNever is a strong one.
IsWeak(a) == a.combine = "byName"

PickAtomA == {"A"}
PickAtomB == {"B"}
\* _chosen is never assigned: either outcome of the comparison that reads it.
Uninitialized == {"A", "B"}
\* pickAtom throws: nothing is chosen.
Throws == {}

PickAOrB(pickA) == IF pickA THEN PickAtomA ELSE PickAtomB
PickHigherOrdinal(a, b) == PickAOrB(a.ordinal < b.ordinal)
PickLowerOrdinal(a, b) == PickAOrB(a.ordinal > b.ordinal)
\* Mutant of PickLargerSize: of equal sizes the earlier file's.
PickLargerOrEarlier(a, b) ==
  IF a.size = b.size THEN PickHigherOrdinal(a, b) ELSE PickAOrB(a.size > b.size)
\* Of commons of one size, the one of the later file.
PickLargerSize(a, b) ==
  IF a.size = b.size THEN PickLowerOrdinal(a, b) ELSE PickAOrB(a.size > b.size)
\* Mutant of PickGreaterAlignment: the comparison reversed.
PickSmallerAlignment(a, b) == PickAOrB(a.alignment < b.alignment)
\* Of equal alignments, the one in the table.
PickGreaterAlignment(a, b) == PickAOrB(a.alignment > b.alignment)

PickBetweenWeak(a, b) ==
  CASE a.isLTO # b.isLTO -> PickAOrB(~a.isLTO)
    [] a.isLTO = b.isLTO /\ a.autoHide # b.autoHide -> PickAOrB(~a.autoHide)
    [] a.isLTO = b.isLTO /\ a.autoHide /\ b.autoHide ->
         PickGreaterAlignment(a, b)
    [] a.isLTO = b.isLTO /\ ~a.autoHide /\ ~b.autoHide ->
         IF a.scope # b.scope THEN PickAOrB(a.scope = "global")
         ELSE PickGreaterAlignment(a, b)

\* Two strong definitions: duplicates, unless one is the mach header's.
AreDuplicates(a, b) ==
  /\ a.definition = "regular" /\ b.definition = "regular"
  /\ ~IsWeak(a) /\ ~IsWeak(b)
  /\ ~a.machHeader /\ ~b.machHeader

\* Mutant of PickBetweenRegularAtoms: weak against strong by file order.
PickEarlierRegular(a, b, duplicates) ==
  CASE IsWeak(a) /\ IsWeak(b)   -> PickBetweenWeak(a, b)
    [] IsWeak(a) # IsWeak(b)    -> PickHigherOrdinal(a, b)
    [] ~IsWeak(a) /\ ~IsWeak(b) -> PickLowerOrdinal(a, b)
\* With kError, two strong definitions leave the choice unmade.
PickBetweenRegularAtoms(a, b, duplicates) ==
  CASE IsWeak(a) /\ IsWeak(b)   -> PickBetweenWeak(a, b)
    [] IsWeak(a) /\ ~IsWeak(b)  -> PickAtomB
    [] ~IsWeak(a) /\ IsWeak(b)  -> PickAtomA
    [] ~IsWeak(a) /\ ~IsWeak(b) ->
         IF a.machHeader THEN PickAtomA
         ELSE IF b.machHeader THEN PickAtomB
         ELSE IF duplicates = "error" THEN Uninitialized
         ELSE PickLowerOrdinal(a, b)

PickProxyAtom(a, b) ==
  IF IsWeak(a) THEN PickAtomB ELSE IF IsWeak(b) THEN PickAtomA ELSE Throws

PickCommonsMode(tentative, proxy) ==
  CASE CommonsMode = "ignoreDylibs"       -> tentative
    [] CommonsMode = "overriddenByDylibs" -> proxy
    [] CommonsMode = "conflictsError"     -> Throws

\* pickAtom: the outcomes of the comparison, by the two definitions.
Chosen(a, b, duplicates) ==
  LET da == a.definition
      db == b.definition
  IN  CASE da = "regular" /\ db = "regular" ->
             PickBetweenRegularAtoms(a, b, duplicates)
        [] da = "regular" /\ db \in {"tentative", "proxy"}  -> PickAtomA
        [] da = "regular" /\ db = "absolute"   -> PickHigherOrdinal(a, b)
        [] da = "tentative" /\ db = "regular"  -> PickAtomB
        [] da = "tentative" /\ db = "tentative" -> PickLargerSize(a, b)
        [] da = "tentative" /\ db = "absolute" -> PickHigherOrdinal(a, b)
        [] da = "tentative" /\ db = "proxy"    -> PickCommonsMode(PickAtomA, PickAtomB)
        [] da = "absolute" /\ db \in {"regular", "absolute"} ->
             PickHigherOrdinal(a, b)
        [] da = "absolute" /\ db \in {"tentative", "proxy"} -> PickAtomA
        [] da = "proxy" /\ db \in {"regular", "absolute"} -> PickAtomB
        [] da = "proxy" /\ db = "tentative"    -> PickCommonsMode(PickAtomB, PickAtomA)
        [] da = "proxy" /\ db = "proxy"        -> PickProxyAtom(a, b)

\* _reportDuplicate
ReportDuplicate(a, b, duplicates) ==
  \/ AreDuplicates(a, b) /\ duplicates \in {"error", "warning"}
  \/ a.definition = "regular" /\ b.definition = "absolute"
  \/ a.definition = "absolute" /\ b.definition \in {"regular", "absolute"}

=============================================================================
