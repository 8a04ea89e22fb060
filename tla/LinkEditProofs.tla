--------------------------- MODULE LinkEditProofs ---------------------------
(***************************************************************************)
(* Proofs about the symbol table of the output: an index that is written   *)
(* is the place of its symbol, and none is missing.                        *)
(***************************************************************************)
EXTENDS LinkEdit, ProofLemmas

-----------------------------------------------------------------------------
(***************************************************************************)
(* The sort by name.                                                       *)
(***************************************************************************)

\* What comes before place i of a list when it is sorted by f.
Before(n, f, i) == {j \in 1 .. n : f[j] < f[i] \/ (f[j] = f[i] /\ j < i)}

\* Two places of a list are never before as many others, and each is before
\* another one of the list.
LEMMA Ranks ==
  ASSUME NEW n \in Nat, NEW f \in [1 .. n -> Nat], NEW i \in 1 .. n
  PROVE  /\ Cardinality(Before(n, f, i)) + 1 \in 1 .. n
         /\ \A k \in 1 .. n :
              Cardinality(Before(n, f, k)) = Cardinality(Before(n, f, i)) => k = i
<1>1. IsFiniteSet(1 .. n) /\ Cardinality(1 .. n) = n
  BY FS_Interval
<1>2. ASSUME NEW k \in 1 .. n
      PROVE  IsFiniteSet(Before(n, f, k)) /\ Cardinality(Before(n, f, k)) \in Nat
             /\ k \notin Before(n, f, k)
  <2>1. Before(n, f, k) \in SUBSET (1 .. n) /\ k \notin Before(n, f, k)
    BY DEF Before
  <2> QED BY <1>1, <2>1, FS_Subset, FS_CardinalityType
<1>3. ASSUME NEW k \in 1 .. n, NEW l \in 1 .. n, k \in Before(n, f, l)
      PROVE  Cardinality(Before(n, f, k)) < Cardinality(Before(n, f, l))
  <2>1. Before(n, f, k) \cup {k} \in SUBSET Before(n, f, l)
    BY <1>3 DEF Before
  <2>2. Cardinality(Before(n, f, k) \cup {k}) <= Cardinality(Before(n, f, l))
    BY <1>2, <2>1, FS_Subset
  <2>3. Cardinality(Before(n, f, k) \cup {k}) = Cardinality(Before(n, f, k)) + 1
    BY <1>2, FS_AddElement
  <2> QED BY <1>2, <2>2, <2>3
<1>4. Cardinality(Before(n, f, i)) + 1 <= n
  <2>1. Before(n, f, i) \cup {i} \in SUBSET (1 .. n)
    BY DEF Before
  <2>2. Cardinality(Before(n, f, i) \cup {i}) <= n
    BY <1>1, <2>1, FS_Subset
  <2>3. Cardinality(Before(n, f, i) \cup {i}) = Cardinality(Before(n, f, i)) + 1
    BY <1>2, FS_AddElement
  <2> QED BY <2>2, <2>3
<1>5. ASSUME NEW k \in 1 .. n, k # i PROVE k \in Before(n, f, i) \/ i \in Before(n, f, k)
  <2>1. f[k] \in Nat /\ f[i] \in Nat
    OBVIOUS
  <2> QED BY <1>5, <2>1 DEF Before
<1>6. ASSUME NEW k \in 1 .. n, k # i
      PROVE  Cardinality(Before(n, f, k)) # Cardinality(Before(n, f, i))
  <2>1. Cardinality(Before(n, f, k)) \in Nat /\ Cardinality(Before(n, f, i)) \in Nat
    BY <1>2
  <2>2. \/ Cardinality(Before(n, f, k)) < Cardinality(Before(n, f, i))
        \/ Cardinality(Before(n, f, i)) < Cardinality(Before(n, f, k))
    BY <1>3, <1>5, <1>6
  <2> QED BY <2>1, <2>2
<1> QED BY <1>2, <1>4, <1>6

\* The atoms of a link.
LEMMA TheAtoms ==
  ASSUME link \in Links
  PROVE  /\ Len(link.atoms) \in Nat /\ Atoms = 1 .. Len(link.atoms)
         /\ \A a \in Atoms : AtomOK(link, Atom(a))
BY LinksAssumption DEF Atoms, Atom

\* std::sort loses no atom of a list.
LEMMA SortKeeps ==
  ASSUME link \in Links, NEW list \in Seq(Atoms)
  PROVE  IsSeq(ByName(list)) /\ Range(list) \subseteq Range(ByName(list))
<1> DEFINE n == Len(list)
           f == [i \in 1 .. n |-> Atom(list[i]).name]
           rank(i) == Cardinality({j \in DOMAIN list : Atom(list[j]).name < Atom(list[i]).name
                        \/ (Atom(list[j]).name = Atom(list[i]).name /\ j < i)}) + 1
<1>1. n \in Nat /\ DOMAIN list = 1 .. n /\ \A i \in 1 .. n : list[i] \in Atoms
  BY LenProperties, ElementOfSeq
<1>2. f \in [1 .. n -> Nat]
  BY <1>1, TheAtoms DEF AtomOK
<1>3. ByName(list) = [k \in DOMAIN list |-> list[CHOOSE i \in DOMAIN list : rank(i) = k]]
  BY DEF ByName
<1>4. ASSUME NEW i \in 1 .. n PROVE rank(i) = Cardinality(Before(n, f, i)) + 1
  <2>1. ASSUME NEW j \in 1 .. n
        PROVE  (Atom(list[j]).name < Atom(list[i]).name
                  \/ (Atom(list[j]).name = Atom(list[i]).name /\ j < i))
                 <=> (f[j] < f[i] \/ (f[j] = f[i] /\ j < i))
    OBVIOUS
  <2>2. {j \in DOMAIN list : Atom(list[j]).name < Atom(list[i]).name
                        \/ (Atom(list[j]).name = Atom(list[i]).name /\ j < i)}
          = Before(n, f, i)
    BY <1>1, <2>1 DEF Before
  <2> QED BY <2>2
<1> HIDE DEF f, rank, n
<1>5. IsSeq(ByName(list))
  <2>1. ByName(list) = [k \in 1 .. n |-> ByName(list)[k]]
    BY <1>1, <1>3
  <2> QED BY <1>1, <2>1 DEF IsSeq
<1>6. ASSUME NEW i \in 1 .. n PROVE list[i] \in Range(ByName(list))
  <2> DEFINE k == rank(i)
  <2>1. k \in 1 .. n /\ \A j \in 1 .. n : rank(j) = k => j = i
    <3>1. /\ Cardinality(Before(n, f, i)) + 1 \in 1 .. n
          /\ \A j \in 1 .. n :
               Cardinality(Before(n, f, j)) = Cardinality(Before(n, f, i)) => j = i
      BY <1>1, <1>2, Ranks
    <3>2. ASSUME NEW j \in 1 .. n
          PROVE  Cardinality(Before(n, f, j)) \in Int /\ rank(j) = Cardinality(Before(n, f, j)) + 1
      <4>1. Cardinality(Before(n, f, j)) \in Nat
        <5>1. IsFiniteSet(1 .. n) /\ Before(n, f, j) \in SUBSET (1 .. n)
          BY <1>1, FS_Interval DEF Before
        <5> QED BY <5>1, FS_Subset, FS_CardinalityType
      <4> QED BY <1>4, <4>1
    <3> QED BY <1>4, <3>1, <3>2
  <2>2. (CHOOSE j \in DOMAIN list : rank(j) = k) = i
    BY <1>1, <2>1
  <2> HIDE DEF k
  <2>3. ByName(list)[k] = list[i] /\ k \in DOMAIN ByName(list)
    BY <1>1, <1>3, <2>1, <2>2
  <2> QED BY <2>3 DEF Range
<1> QED BY <1>1, <1>5, <1>6 DEF Range

\* The stabs that are copied from the files: of no atom, or of one of a file
\* with stabs.
LEMMA StabsCopied ==
  ASSUME link \in Links
  PROVE  CopiedStabs \in Seq({s \in StabSet : s.atom = 0 \/ s.atom \in withStabs})
<1> DEFINE kept(f) == {s \in Range(link.files[f].stabs) : s.atom = 0 \/ s.atom \in withStabs}
           q == [f \in DOMAIN link.files |->
                   IF \E a \in withStabs : Atom(a).file = f
                   THEN Only(link.files[f].stabs, kept(f)) ELSE <<>>]
           S == {s \in StabSet : s.atom = 0 \/ s.atom \in withStabs}
<1>1. CopiedStabs = FlattenSeq(q)
  BY Zenon DEF CopiedStabs
<1>2. /\ Len(link.files) \in Nat /\ DOMAIN link.files = 1 .. Len(link.files)
      /\ \A f \in DOMAIN link.files : link.files[f].stabs \in Seq(StabSet)
  BY LinksAssumption
<1>3. ASSUME NEW f \in DOMAIN link.files PROVE Only(link.files[f].stabs, kept(f)) \in Seq(S)
  <2>1. Only(link.files[f].stabs, kept(f)) \in Seq(StabSet \cap kept(f))
    BY <1>2, OnlyElements
  <2>2. StabSet \cap kept(f) \subseteq S
    OBVIOUS
  <2> HIDE DEF kept, S
  <2> QED BY <2>1, <2>2, SeqMonotonic
<1> HIDE DEF kept, S
<1>4. <<>> \in Seq(S)
  BY EmptySeq
<1>5. q \in [1 .. Len(link.files) -> Seq(S)]
  BY <1>2, <1>3, <1>4
<1>6. q \in Seq(Seq(S))
  BY <1>2, <1>5, SeqDef
<1> HIDE DEF q
<1>7. CopiedStabs \in Seq(S)
  BY <1>1, <1>6, Flattened
<1> QED BY <1>7 DEF S

-----------------------------------------------------------------------------
(***************************************************************************)
(* The inductive invariant.                                                *)
(***************************************************************************)

\* Whether an atom is to be in the symbol table of what is linked.
InTable(a) == \/ Atom(a).incl \in {"in", "inAndNeverStrip"}
              \/ link.object /\ Atom(a).incl # "notIn"

\* What is found by its symbol is to be in the table.  An object file may have
\* a global symbol whose name begins with l or L: its parser makes it one
\* that images, or all outputs, leave out.
NamesInTable ==
  \A a \in Atoms :
    /\ Atom(a).def # "proxy"
    /\ Atom(a).scope = "global" \/ (link.object /\ Atom(a).def \in {"tentative", "absolute"})
    => InTable(a)

\* And what a relocation is forced to name has a label: the code without one
\* that an arm branch reaches from the other mode does not, and has no index.
HasSymbols ==
  /\ NamesInTable
  /\ \A a \in Relocated : Forced(a, Atom(a).ref) => HasLabel(Atom(a).ref)

\* The atoms of scope s and inclusion i that phase 3 may find by an index.
NeededAs(a, s, i) ==
  \/ Atom(a).def = "proxy"
  \/ link.object /\ (i # "notIn" \/ HasLabel(a))
  \/ HasSymbols /\ (s = "global" \/ (link.object /\ Atom(a).def \in {"tentative", "absolute"}))

Labels(a) == ~(link.opts.removeEHLabels /\ Atom(a).sect = "CFI")
Listed(a) == a \in Range(imported) \/ a \in Range(exported) \/ a \in Range(localAtoms)

\* Phase 1: the lists, and that each atom that will be found by its index is
\* on one of them as soon as the partition has passed it.
NotesInv ==
  /\ notes \in {"collect", "emit", "done"}
  /\ noted \in SUBSET Atoms /\ withStabs \in SUBSET Atoms /\ stabs \in Seq(StabSet)

ListsInv ==
  /\ part \in {"atoms", "done"} /\ partAt \in Nat
  /\ scope \in [Atoms -> Scopes] /\ incl \in [Atoms -> Inclusions]
  /\ localAtoms \in Seq(Atoms) /\ IsSeq(imported) /\ IsSeq(exported)
  /\ part = "atoms" => imported \in Seq(Atoms) /\ exported \in Seq(Atoms)
  /\ 0 < partAt /\ (part = "done" => partAt \notin Atoms)
  /\ \A k \in DOMAIN localAtoms : Labels(localAtoms[k])

AtomInv(a) ==
  /\ partAt <= a => scope[a] = Atom(a).scope /\ incl[a] = Atom(a).incl
  /\ a < partAt /\ a \in Referenced /\ NeededAs(a, scope[a], incl[a]) => Listed(a)

\* Phases 2 and 3: the parts of the table, and the index of each atom.
Globals == Len(stabs) + Len(localAtoms)
Imports == Globals + Len(exported)

Indexed(a) ==
  \/ \E k \in 1 .. Len(localAtoms) : localAtoms[k] = a /\ index[a] = k - 1
  \/ \E k \in 1 .. Len(imported) : imported[k] = a /\ index[a] = Imports + k - 1
  \/ \E k \in 1 .. Len(exported) : exported[k] = a /\ index[a] = Globals + k - 1
  \/ index[a] = -1 /\ ~Listed(a)

EncodedInv ==
  IF "symbols" \in tasks
  THEN count = [locals |-> Len(localAtoms), globals |-> Len(exported), imports |-> Len(imported)]
  ELSE /\ count = [locals |-> Len(localAtoms) + Len(stabs), globals |-> Len(exported),
                   imports |-> Len(imported)]
       /\ symtab = [locals |-> [k \in 1 .. (Len(localAtoms) + Len(stabs)) |->
                                  IF k <= Len(localAtoms) THEN localAtoms[k] ELSE 0],
                    globals |-> exported, imports |-> imported]

BeforePhase3 ==
  /\ tasks = {"symbols", "relocs"} /\ indirect = {} /\ relocs = {} /\ ~exceptionMsg
  /\ index = [a \in Atoms |-> -1]
  /\ start = [locals |-> 0, globals |-> 0, imports |-> 0]
  /\ count = [locals |-> 0, globals |-> 0, imports |-> 0]

InPhase3 ==
  /\ start = [locals |-> 0, globals |-> Globals, imports |-> Imports]
  /\ \A a \in Atoms : Indexed(a)
  /\ \A p \in indirect \cup relocs : p[1] \in Atoms /\ p[2] = index[p[1]] /\ p[2] # -1
  /\ HasSymbols => ~exceptionMsg
  /\ EncodedInv

TableInv ==
  /\ phase \in 1 .. 4
  /\ 1 < phase => notes = "done" /\ part = "done"
  /\ phase = 4 => tasks = {}
  /\ phase \in 1 .. 2 => BeforePhase3
  /\ phase \in 3 .. 4 => InPhase3

LInv == link \in Links /\ NotesInv /\ ListsInv /\ (\A a \in Atoms : AtomInv(a)) /\ TableInv

-----------------------------------------------------------------------------
(***************************************************************************)
(* Phase 1.                                                                *)
(***************************************************************************)

\* What the partition makes of an atom before it goes on a list.
LEMMA ClarifiedAtom ==
  ASSUME link \in Links, NEW a \in Atoms,
         scope[a] = Atom(a).scope, incl[a] = Atom(a).incl
  PROVE  /\ Clarified(a).scope \in Scopes /\ Clarified(a).incl \in Inclusions
         /\ Clarified(a).scope = "global" =>
              Atom(a).scope = "global" \/ Atom(a).incl = "inAndNeverStrip"
         /\ Atom(a).scope = "global" /\ ~Atom(a).autoHide => Clarified(a).scope = "global"
         /\ link.object => Clarified(a).incl # "notInFinalLinkedImages"
         /\ Atom(a).sect # "CFI" /\ InTable(a) =>
              Clarified(a).incl \in {"in", "inAndNeverStrip"}
                \/ (link.object /\ Clarified(a).incl # "notIn")
         /\ Atom(a).sect = "CFI" /\ link.opts.removeEHLabels =>
              Clarified(a).incl \in {"notIn", "notInFinalLinkedImages"}
<1> DEFINE i == CASE link.object /\ Atom(a).sect = "CFI" ->
                       IF link.opts.removeEHLabels THEN "notIn" ELSE "in"
                [] link.object /\ Atom(a).sect # "CFI" /\ incl[a] = "notInFinalLinkedImages" -> "in"
                [] OTHER -> incl[a]
           global == i = "inAndNeverStrip" /\ scope[a] = "linkageUnit" /\ link.opts.dylib
           hidden == Atom(a).autoHide /\ ~link.object /\ Atom(a).name \notin link.opts.exportList
           s == IF hidden THEN "linkageUnit" ELSE IF global THEN "global" ELSE scope[a]
<1>1. Clarified(a) = [incl |-> i, scope |-> s]
  BY Zenon DEF Clarified
<1>2. Clarified(a).incl = i /\ Clarified(a).scope = s
  BY <1>1
<1>3. AtomOK(link, Atom(a))
  BY TheAtoms
<1>4. /\ link.object /\ Atom(a).sect = "CFI" /\ link.opts.removeEHLabels => i = "notIn"
      /\ link.object /\ Atom(a).sect = "CFI" /\ ~link.opts.removeEHLabels => i = "in"
      /\ link.object /\ Atom(a).sect # "CFI" /\ incl[a] = "notInFinalLinkedImages" => i = "in"
      /\ link.object /\ Atom(a).sect # "CFI" /\ incl[a] # "notInFinalLinkedImages" => i = incl[a]
      /\ ~link.object => i = incl[a]
  OBVIOUS
<1> HIDE DEF i
<1>5. /\ s \in Scopes /\ i \in Inclusions
      /\ s = "global" => Atom(a).scope = "global" \/ i = "inAndNeverStrip"
      /\ Atom(a).scope = "global" /\ ~Atom(a).autoHide => s = "global"
  BY <1>3, <1>4 DEF AtomOK, Scopes, Inclusions
<1>6. /\ i = "inAndNeverStrip" => Atom(a).incl = "inAndNeverStrip"
      /\ link.object => i # "notInFinalLinkedImages"
      /\ Atom(a).sect # "CFI" /\ InTable(a) =>
           i \in {"in", "inAndNeverStrip"} \/ (link.object /\ i # "notIn")
      /\ Atom(a).sect = "CFI" /\ link.opts.removeEHLabels => i \in {"notIn", "notInFinalLinkedImages"}
  BY <1>3, <1>4 DEF AtomOK, InTable
<1> HIDE DEF s
<1> QED BY <1>2, <1>5, <1>6

\* Where the partition puts an atom.
PlacedOK(a, p) ==
  /\ p.scope \in Scopes /\ p.incl \in Inclusions
  /\ p.to \in SUBSET {"imported", "exported", "local"}
  /\ NeededAs(a, p.scope, p.incl) => p.to # {}
  /\ "local" \in p.to => Labels(a)

LEMMA PlacedAtom ==
  ASSUME link \in Links, NEW a \in Atoms,
         scope[a] = Atom(a).scope, incl[a] = Atom(a).incl
  PROVE  PlacedOK(a, Placed(a))
<1> DEFINE c == Clarified(a)
<1>1. AtomOK(link, Atom(a))
  BY TheAtoms
<1>2. /\ c.scope \in Scopes /\ c.incl \in Inclusions
      /\ c.scope = "global" => Atom(a).scope = "global" \/ Atom(a).incl = "inAndNeverStrip"
      /\ Atom(a).scope = "global" /\ ~Atom(a).autoHide => c.scope = "global"
      /\ link.object => c.incl # "notInFinalLinkedImages"
      /\ Atom(a).sect # "CFI" /\ InTable(a) =>
           c.incl \in {"in", "inAndNeverStrip"} \/ (link.object /\ c.incl # "notIn")
      /\ Atom(a).sect = "CFI" /\ link.opts.removeEHLabels =>
           c.incl \in {"notIn", "notInFinalLinkedImages"}
  BY ClarifiedAtom
<1> DEFINE To(lists) == [incl |-> c.incl, scope |-> c.scope, to |-> lists]
           cstring == link.object /\ Arch64 /\ Atom(a).sect = "cstring"
           temp == link.object /\ Atom(a).sect = "tempAlias"
           left == \/ c.incl \in {"notInFinalLinkedImages", "notIn"}
                   \/ c.incl = "inWithRandomAutoStripLabel" /\ ~link.object
           common == Atom(a).def = "tentative" /\ link.object
           proxyTo == (IF Atom(a).alias THEN {} ELSE {"imported"})
                        \cup (IF c.scope = "global" THEN {"exported"} ELSE {})
           commonTo == {IF link.opts.makeTentativeDefinitionsReal THEN "exported" ELSE "imported"}
<1>3. Placed(a) =
        IF cstring THEN [incl |-> "in", scope |-> c.scope, to |-> {"local"}]
        ELSE IF temp THEN [incl |-> incl[a], scope |-> scope[a], to |-> {"imported"}]
        ELSE IF Atom(a).sect = "proxies" THEN To(proxyTo)
        ELSE IF left THEN To({})
        ELSE IF common THEN To(commonTo)
        ELSE IF link.object THEN PlacedInObject(a, c) ELSE PlacedInImage(a, c)
  BY Zenon DEF Placed
<1>4. \A s, i, t : [incl |-> i, scope |-> s, to |-> t].incl = i
                   /\ [incl |-> i, scope |-> s, to |-> t].scope = s
                   /\ [incl |-> i, scope |-> s, to |-> t].to = t
  OBVIOUS
<1>5. HasSymbols /\ Atom(a).def # "proxy"
        /\ (c.scope = "global" \/ (link.object /\ Atom(a).def \in {"tentative", "absolute"}))
        => InTable(a)
  BY <1>2 DEF HasSymbols, NamesInTable, InTable
<1> HIDE DEF c
<1>7. CASE cstring
  <2>1. Placed(a) = [incl |-> "in", scope |-> c.scope, to |-> {"local"}]
    BY <1>3, <1>7, Zenon
  <2> QED BY <1>2, <1>7, <2>1 DEF PlacedOK, Labels, Inclusions
<1>8. CASE ~cstring /\ temp
  <2>1. Placed(a) = [incl |-> incl[a], scope |-> scope[a], to |-> {"imported"}]
    BY <1>3, <1>8, Zenon
  <2> QED BY <1>1, <2>1 DEF PlacedOK, AtomOK
<1>9. CASE ~cstring /\ ~temp /\ Atom(a).sect = "proxies"
  <2>1. Placed(a) = To(proxyTo)
    BY <1>3, <1>9, Zenon
  <2>2. proxyTo # {} /\ proxyTo \in SUBSET {"imported", "exported"}
    BY <1>1, <1>2, <1>9 DEF AtomOK
  <2> HIDE DEF proxyTo
  <2> QED BY <1>2, <2>1, <2>2 DEF PlacedOK
<1>10. CASE ~cstring /\ ~temp /\ Atom(a).sect # "proxies" /\ left
  <2>1. Placed(a) = To({})
    BY <1>3, <1>10, Zenon
  <2>2. Atom(a).def # "proxy" /\ ~(link.object /\ (c.incl # "notIn" \/ HasLabel(a)))
    BY <1>1, <1>2, <1>10 DEF AtomOK, InTable, HasLabel
  <2>3. ~(HasSymbols /\ (c.scope = "global" \/ (link.object /\ Atom(a).def \in {"tentative", "absolute"})))
    BY <1>1, <1>2, <1>5, <1>10, <2>2 DEF AtomOK
  <2>4. ~NeededAs(a, c.scope, c.incl)
    BY <2>2, <2>3 DEF NeededAs
  <2> QED BY <1>2, <2>1, <2>4 DEF PlacedOK
<1> DEFINE rest == ~cstring /\ ~temp /\ Atom(a).sect # "proxies" /\ ~left
<1>11. rest => Labels(a)
  BY <1>2 DEF Labels
<1>12. CASE rest /\ common
  <2>1. Placed(a) = To(commonTo)
    BY <1>3, <1>12, Zenon
  <2> QED BY <1>2, <2>1 DEF PlacedOK
<1>13. CASE rest /\ ~common /\ link.object
  <2>1. Placed(a) = PlacedInObject(a, c)
    BY <1>3, <1>13, Zenon
  <2>2. \E s \in {c.scope, "translationUnit"}, i \in {c.incl, "inWithRandomAutoStripLabel"},
           t \in {{"exported"}, {"local"}} :
          PlacedInObject(a, c) = [incl |-> i, scope |-> s, to |-> t]
    BY <1>2 DEF PlacedInObject, Scopes
  <2> QED BY <1>2, <1>11, <1>13, <2>1, <2>2 DEF PlacedOK, Scopes, Inclusions
<1>14. CASE rest /\ ~common /\ ~link.object
  <2>1. Placed(a) = PlacedInImage(a, c)
    BY <1>3, <1>14, Zenon
  <2>2. \/ c.scope = "global" /\ PlacedInImage(a, c) = To({"exported"})
        \/ c.scope # "global" /\ PlacedInImage(a, c) = To({"local"})
        \/ /\ c.scope # "global"
           /\ PlacedInImage(a, c) = [incl |-> "notIn", scope |-> c.scope, to |-> {}]
    BY DEF PlacedInImage
  <2>3. c.scope # "global" => ~NeededAs(a, c.scope, "notIn")
    BY <1>1, <1>14 DEF NeededAs, AtomOK
  <2> QED BY <1>2, <1>11, <1>14, <2>1, <2>2, <2>3 DEF PlacedOK, Inclusions
<1> QED BY <1>7, <1>8, <1>9, <1>10, <1>12, <1>13, <1>14

\* What the invariant says of phase 1 stays when its variables do.
LEMMA NotesKept ==
  ASSUME NotesInv, link' = link, UNCHANGED noteVars
  PROVE  NotesInv'
BY DEF NotesInv, noteVars, Atoms

LEMMA ListsKept ==
  ASSUME ListsInv, \A a \in Atoms : AtomInv(a), link' = link, UNCHANGED partVars
  PROVE  ListsInv' /\ \A a \in Atoms' : AtomInv(a)'
<1>1. /\ scope' = scope /\ incl' = incl /\ part' = part /\ partAt' = partAt
      /\ imported' = imported /\ exported' = exported /\ localAtoms' = localAtoms
  BY DEF partVars
<1>2. Atoms' = Atoms /\ HasSymbols' = HasSymbols
  BY DEF Atoms, HasSymbols, NamesInTable, InTable, HasLabel, Relocated, Forced, Atom
<1>3. ListsInv'
  BY <1>1, <1>2 DEF ListsInv, Labels, Atom
<1>4. ASSUME NEW a \in Atoms PROVE AtomInv(a)'
  <2>1. AtomInv(a)
    OBVIOUS
  <2> QED BY <1>1, <1>2, <2>1 DEF AtomInv, NeededAs, Referenced, HasLabel, Listed, Atom
<1> QED BY <1>2, <1>3, <1>4

LEMMA TableKept ==
  ASSUME TableInv, phase = 1, phase' = 1, link' = link, UNCHANGED tableVars
  PROVE  TableInv'
BY DEF TableInv, BeforePhase3, tableVars, Atoms

LEMMA InitInv ==
  ASSUME Init
  PROVE  LInv
<1>1. link \in Links /\ Len(link.atoms) \in Nat /\ Atoms = 1 .. Len(link.atoms)
      /\ \A a \in Atoms : AtomOK(link, Atom(a))
  BY TheAtoms DEF Init
<1>2. <<>> \in Seq(StabSet) /\ <<>> \in Seq(Atoms)
  BY EmptySeq
<1>3. IsSeq(<<>>)
  BY <1>2, SeqIs
<1>4. NotesInv
  BY <1>2 DEF Init, NotesInv
<1>5. scope \in [Atoms -> Scopes] /\ incl \in [Atoms -> Inclusions]
  BY <1>1 DEF Init, AtomOK
<1>6. ListsInv
  BY <1>2, <1>3, <1>5 DEF Init, ListsInv
<1>7. \A a \in Atoms : AtomInv(a)
  BY <1>1 DEF Init, AtomInv
<1>8. TableInv
  BY DEF Init, TableInv, BeforePhase3
<1> QED BY <1>1, <1>4, <1>6, <1>7, <1>8 DEF LInv

\* A note is one of a symbol or of nothing.
LEMMA NoteAdded ==
  ASSUME LInv, NEW a \in Atoms, NEW tu
  PROVE  Unit(a, tu) \in Seq(StabSet) /\ Symbol(a) \in Seq(StabSet)
<1>1. a \in Nat
  BY TheAtoms DEF LInv
<1>2. ASSUME NEW t \in StabTypes, NEW b \in Nat PROVE Stab(t, b) \in StabSet
  BY DEF Stab, StabSet
<1>3. \A t1, t2, t3, t4 \in StabSet : <<t1, t2, t3, t4>> \in Seq(StabSet)
  OBVIOUS
<1>4. (\A t \in StabSet : <<t>> \in Seq(StabSet)) /\ <<>> \in Seq(StabSet)
  OBVIOUS
<1>5. Unit(a, tu) \in Seq(StabSet)
  <2>1. Stab("SO", 0) \in StabSet /\ Stab("OSO", 0) \in StabSet
    BY <1>2 DEF StabTypes
  <2> QED BY <1>3, <1>4, <2>1 DEF Unit
<1>6. /\ Stab("BNSYM", a) \in StabSet /\ Stab("FUN", a) \in StabSet /\ Stab("ENSYM", a) \in StabSet
      /\ Stab("STSYM", a) \in StabSet /\ Stab("GSYM", a) \in StabSet
  BY <1>1, <1>2 DEF StabTypes
<1>7. /\ <<Stab("BNSYM", a), Stab("FUN", a), Stab("FUN", a), Stab("ENSYM", a)>> \in Seq(StabSet)
      /\ <<Stab("STSYM", a)>> \in Seq(StabSet) /\ <<Stab("GSYM", a)>> \in Seq(StabSet)
  BY <1>3, <1>4, <1>6
<1>8. Symbol(a) \in Seq(StabSet)
  BY <1>7 DEF Symbol
<1> QED BY <1>5, <1>8

LEMMA NotesStep ==
  ASSUME LInv, Notes
  PROVE  LInv'
<1>1. link' = link /\ UNCHANGED partVars /\ UNCHANGED tableVars /\ phase = 1 /\ phase' = 1
  BY DEF Notes, CollectNote, EndCollect, EmitNote, EndNotes
<1>2. Atoms' = Atoms
  BY <1>1 DEF Atoms
<1>3. NotesInv
  BY DEF LInv
<1>4. ASSUME CollectNote PROVE NotesInv'
  <2>1. /\ noteAt \in Atoms /\ notes' = notes /\ stabs' = stabs
        /\ noted' \in SUBSET (noted \cup {noteAt}) /\ withStabs' \in SUBSET (withStabs \cup {noteAt})
    BY <1>4 DEF CollectNote
  <2> QED BY <1>2, <1>3, <2>1 DEF NotesInv
<1>5. ASSUME EndCollect PROVE NotesInv'
  BY <1>2, <1>3, <1>5 DEF NotesInv, EndCollect
<1>6. ASSUME EmitNote PROVE NotesInv'
  <2>1. PICK a \in noted :
          /\ LET tu == FileOf(a).tu
                 flat == tu # curTU /\ FileOf(a).flat
             IN  stabs' = IF tu = 0 \/ flat THEN stabs ELSE stabs \o Unit(a, tu) \o Symbol(a)
          /\ noted' = noted \ {a}
    BY <1>6 DEF EmitNote
  <2>2. a \in Atoms /\ stabs \in Seq(StabSet)
    BY <1>3 DEF NotesInv
  <2>3. \A tu : Unit(a, tu) \in Seq(StabSet) /\ Symbol(a) \in Seq(StabSet)
    BY <2>2, NoteAdded
  <2>4. \A tu : stabs \o Unit(a, tu) \o Symbol(a) \in Seq(StabSet)
    BY <2>2, <2>3, ConcatProperties
  <2>5. stabs' \in Seq(StabSet)
    BY <2>1, <2>2, <2>4
  <2>6. notes' = notes /\ withStabs' = withStabs
    BY <1>6 DEF EmitNote
  <2> QED BY <1>2, <1>3, <2>1, <2>5, <2>6 DEF NotesInv
<1>7. ASSUME EndNotes PROVE NotesInv'
  <2> DEFINE last == IF \E k \in DOMAIN stabs : stabs[k].type = "OSO" THEN <<Stab("SO", 0)>> ELSE <<>>
  <2>1. /\ stabs' = stabs \o last \o CopiedStabs
        /\ notes' = "done" /\ noted' = noted /\ withStabs' = withStabs
    BY <1>7 DEF EndNotes
  <2>2. stabs \in Seq(StabSet) /\ CopiedStabs \in Seq(StabSet)
    <3>1. {s \in StabSet : s.atom = 0 \/ s.atom \in withStabs} \subseteq StabSet
      OBVIOUS
    <3>2. CopiedStabs \in Seq({s \in StabSet : s.atom = 0 \/ s.atom \in withStabs})
      BY StabsCopied DEF LInv
    <3> QED BY <1>3, <3>1, <3>2, SeqMonotonic DEF NotesInv
  <2>3. last \in Seq(StabSet)
    <3>1. Stab("SO", 0) \in StabSet
      BY DEF Stab, StabSet, StabTypes
    <3> QED BY <3>1
  <2> HIDE DEF last
  <2>4. stabs' \in Seq(StabSet)
    BY <2>1, <2>2, <2>3, ConcatProperties
  <2> QED BY <1>2, <1>3, <2>1, <2>4 DEF NotesInv
<1>8. NotesInv'
  BY <1>4, <1>5, <1>6, <1>7 DEF Notes
<1>9. link' \in Links /\ ListsInv' /\ (\A a \in Atoms' : AtomInv(a)') /\ TableInv'
  BY <1>1, ListsKept, TableKept DEF LInv
<1> QED BY <1>8, <1>9 DEF LInv

\* A list to which an atom is added has what it had, the atom and no other.
LEMMA ListGrows ==
  ASSUME NEW S, NEW list \in Seq(S), NEW e \in S
  PROVE  /\ Append(list, e) \in Seq(S) /\ IsSeq(Append(list, e))
         /\ Range(Append(list, e)) = Range(list) \cup {e}
<1>1. IsSeq(list) /\ Len(list) \in Nat /\ DOMAIN list = 1 .. Len(list)
  BY SeqIs, LenProperties
<1>2. /\ IsSeq(Append(list, e)) /\ Len(Append(list, e)) = Len(list) + 1
      /\ \A i \in 1 .. Len(list) : Append(list, e)[i] = list[i]
      /\ Append(list, e)[Len(list) + 1] = e
  BY <1>1, SeqAppend
<1>3. DOMAIN Append(list, e) = 1 .. (Len(list) + 1)
  BY <1>2, SeqLen
<1>4. Append(list, e) \in Seq(S)
  BY AppendProperties
<1>5. \A i \in 1 .. (Len(list) + 1) : i \in 1 .. Len(list) \/ i = Len(list) + 1
  BY <1>1
<1>6. \A i \in 1 .. Len(list) : i \in 1 .. (Len(list) + 1)
  BY <1>1
<1>7. Len(list) + 1 \in 1 .. (Len(list) + 1)
  BY <1>1
<1>8. ASSUME NEW x \in Range(Append(list, e)) PROVE x \in Range(list) \cup {e}
  BY <1>1, <1>2, <1>3, <1>5 DEF Range
<1>9. ASSUME NEW x \in Range(list) \cup {e} PROVE x \in Range(Append(list, e))
  BY <1>1, <1>2, <1>3, <1>6, <1>7 DEF Range
<1> QED BY <1>2, <1>4, <1>8, <1>9

LEMMA PartitionStep ==
  ASSUME LInv, PartitionAtom
  PROVE  LInv'
<1> DEFINE p == Placed(partAt)
           Add(list, name) == IF name \in p.to THEN Append(list, partAt) ELSE list
<1>1. /\ link' = link /\ UNCHANGED noteVars /\ UNCHANGED tableVars /\ phase = 1 /\ phase' = 1
      /\ part = "atoms" /\ part' = part /\ partAt \in Atoms /\ partAt' = partAt + 1
      /\ scope' = [scope EXCEPT ![partAt] = p.scope] /\ incl' = [incl EXCEPT ![partAt] = p.incl]
      /\ imported' = Add(imported, "imported") /\ exported' = Add(exported, "exported")
      /\ localAtoms' = Add(localAtoms, "local")
  BY DEF PartitionAtom
<1>2. /\ Atoms' = Atoms /\ HasSymbols' = HasSymbols
      /\ Len(link.atoms) \in Nat /\ Atoms = 1 .. Len(link.atoms)
  BY <1>1, TheAtoms
     DEF LInv, Atoms, HasSymbols, NamesInTable, InTable, HasLabel, Relocated, Forced, Atom
<1>3. ListsInv /\ AtomInv(partAt) /\ partAt \in Nat
  BY <1>1, <1>2 DEF LInv
<1>4. PlacedOK(partAt, p)
  <2>1. scope[partAt] = Atom(partAt).scope /\ incl[partAt] = Atom(partAt).incl
    BY <1>3 DEF AtomInv
  <2> QED BY <1>1, <2>1, PlacedAtom DEF LInv
<1> HIDE DEF p
<1>5. /\ localAtoms \in Seq(Atoms) /\ imported \in Seq(Atoms) /\ exported \in Seq(Atoms)
      /\ IsSeq(imported) /\ IsSeq(exported)
  BY <1>1, <1>3 DEF ListsInv
<1>6. ASSUME NEW list \in Seq(Atoms), NEW name
      PROVE  /\ Add(list, name) \in Seq(Atoms) /\ IsSeq(Add(list, name))
             /\ Range(list) \in SUBSET Range(Add(list, name))
             /\ name \in p.to => partAt \in Range(Add(list, name))
             /\ Range(Add(list, name)) \in SUBSET (Range(list) \cup (IF name \in p.to THEN {partAt} ELSE {}))
  BY <1>1, ListGrows, SeqIs
<1>7. /\ imported' \in Seq(Atoms) /\ exported' \in Seq(Atoms) /\ localAtoms' \in Seq(Atoms)
      /\ IsSeq(imported') /\ IsSeq(exported')
      /\ Range(imported) \in SUBSET Range(imported') /\ Range(exported) \in SUBSET Range(exported')
      /\ Range(localAtoms) \in SUBSET Range(localAtoms')
      /\ "imported" \in p.to => partAt \in Range(imported')
      /\ "exported" \in p.to => partAt \in Range(exported')
      /\ "local" \in p.to => partAt \in Range(localAtoms')
      /\ Range(localAtoms') \in SUBSET (Range(localAtoms) \cup (IF "local" \in p.to THEN {partAt} ELSE {}))
  BY <1>1, <1>5, <1>6
<1> HIDE DEF Add
<1>8. /\ scope' \in [Atoms -> Scopes] /\ incl' \in [Atoms -> Inclusions]
      /\ scope'[partAt] = p.scope /\ incl'[partAt] = p.incl
      /\ \A a \in Atoms \ {partAt} : scope'[a] = scope[a] /\ incl'[a] = incl[a]
  BY <1>1, <1>3, <1>4 DEF ListsInv, PlacedOK
<1>9. (\A k \in DOMAIN localAtoms : Labels(localAtoms[k]))'
  <2>1. \A x \in Range(localAtoms') : Labels(x)
    <3>1. \A x \in Range(localAtoms) : Labels(x)
      BY <1>3 DEF ListsInv, Range
    <3>2. "local" \in p.to => Labels(partAt)
      BY <1>4 DEF PlacedOK
    <3> QED BY <1>7, <3>1, <3>2
  <2>2. ASSUME NEW k \in DOMAIN localAtoms' PROVE localAtoms'[k] \in Range(localAtoms')
    BY DEF Range
  <2>3. ASSUME NEW k \in DOMAIN localAtoms' PROVE Labels(localAtoms[k])'
    BY <1>1, <2>1, <2>2 DEF Labels, Atom
  <2> QED BY <2>3
<1>10. ListsInv'
  BY <1>1, <1>2, <1>3, <1>7, <1>8, <1>9 DEF ListsInv
<1>11. ASSUME NEW a \in Atoms PROVE AtomInv(a)'
  <2>1. a \in Nat /\ AtomInv(a)
    BY <1>2 DEF LInv
  <2>2. Listed(a) => Listed(a)'
    BY <1>7 DEF Listed
  <2>3. CASE a = partAt
    <3>1. ~(partAt' <= a)
      BY <1>1, <2>1, <2>3
    <3>2. NeededAs(a, scope[a], incl[a])' => NeededAs(partAt, p.scope, p.incl)
      BY <1>1, <1>2, <1>8, <2>3 DEF NeededAs, HasLabel, Atom
    <3>3. NeededAs(a, scope[a], incl[a])' => Listed(a)'
      <4>1. p.to # {} => partAt \in Range(imported') \/ partAt \in Range(exported') \/ partAt \in Range(localAtoms')
        BY <1>4, <1>7 DEF PlacedOK
      <4> QED BY <1>4, <2>3, <3>2, <4>1 DEF PlacedOK, Listed
    <3> QED BY <3>1, <3>3 DEF AtomInv
  <2>4. CASE a # partAt
    <3>1. (partAt' <= a => partAt <= a) /\ (a < partAt' => a < partAt)
      BY <1>1, <1>3, <2>1, <2>4
    <3>2. scope'[a] = scope[a] /\ incl'[a] = incl[a] /\ Atom(a)' = Atom(a)
      BY <1>1, <1>8, <2>4 DEF Atom
    <3>3. /\ NeededAs(a, scope[a], incl[a])' => NeededAs(a, scope[a], incl[a])
          /\ Referenced' = Referenced
      BY <1>1, <1>2, <3>2 DEF NeededAs, HasLabel, Referenced, Atom
    <3> QED BY <2>1, <2>2, <3>1, <3>2, <3>3 DEF AtomInv
  <2> QED BY <2>3, <2>4
<1>12. link' \in Links /\ NotesInv' /\ TableInv'
  BY <1>1, NotesKept, TableKept DEF LInv
<1> QED BY <1>2, <1>10, <1>11, <1>12 DEF LInv

LEMMA EndPartitionStep ==
  ASSUME LInv, EndPartition
  PROVE  LInv'
<1>1. /\ link' = link /\ UNCHANGED noteVars /\ UNCHANGED tableVars /\ phase = 1 /\ phase' = 1
      /\ part = "atoms" /\ part' = "done" /\ partAt \notin Atoms /\ partAt' = partAt
      /\ scope' = scope /\ incl' = incl /\ localAtoms' = localAtoms
      /\ imported' = ByName(IF link.opts.kext THEN Only(imported, Referenced) ELSE imported)
      /\ exported' = ByName(exported)
  BY DEF EndPartition, TableInv
<1>2. Atoms' = Atoms /\ HasSymbols' = HasSymbols
  BY <1>1 DEF Atoms, HasSymbols, NamesInTable, InTable, HasLabel, Relocated, Forced, Atom
<1>3. ListsInv
  BY DEF LInv
<1>4. /\ IsSeq(imported') /\ Range(imported) \cap Referenced \in SUBSET Range(imported')
      /\ IsSeq(exported') /\ Range(exported) \in SUBSET Range(exported')
  <2>1. PICK list : list = IF link.opts.kext THEN Only(imported, Referenced) ELSE imported
    OBVIOUS
  <2>2. imported \in Seq(Atoms) /\ exported \in Seq(Atoms) /\ link \in Links
    BY <1>1, <1>3 DEF ListsInv, LInv
  <2>3. list \in Seq(Atoms)
    <3>1. Only(imported, Referenced) \in Seq(Atoms \cap Referenced)
      BY <2>2, OnlyElements
    <3>2. Only(imported, Referenced) \in Seq(Atoms)
      BY <3>1, SeqMonotonic
    <3> QED BY <2>1, <2>2, <3>2
  <2>4. Range(imported) \cap Referenced \in SUBSET Range(list)
    <3>1. ASSUME NEW i \in DOMAIN imported, imported[i] \in Referenced
          PROVE  \E j \in DOMAIN Only(imported, Referenced) : Only(imported, Referenced)[j] = imported[i]
      BY <2>2, <3>1, OnlyKeeps
    <3> QED BY <2>1, <3>1 DEF Range
  <2>5. imported' = ByName(list)
    BY <1>1, <2>1
  <2>6. IsSeq(ByName(list)) /\ Range(list) \subseteq Range(ByName(list))
    BY <2>2, <2>3, SortKeeps
  <2>7. IsSeq(exported') /\ Range(exported) \subseteq Range(exported')
    BY <1>1, <2>2, SortKeeps
  <2> QED BY <2>4, <2>5, <2>6, <2>7
<1>5. ListsInv'
  BY <1>1, <1>2, <1>3, <1>4 DEF ListsInv, Labels, Atom
<1>6. ASSUME NEW a \in Atoms PROVE AtomInv(a)'
  <2>1. AtomInv(a)
    BY DEF LInv
  <2>2. a \in Referenced /\ Listed(a) => Listed(a)'
    BY <1>1, <1>4 DEF Listed
  <2>3. /\ NeededAs(a, scope[a], incl[a])' => NeededAs(a, scope[a], incl[a])
        /\ Referenced' = Referenced /\ Atom(a)' = Atom(a)
    BY <1>1, <1>2 DEF NeededAs, HasLabel, Referenced, Atom
  <2> QED BY <1>1, <2>1, <2>2, <2>3 DEF AtomInv
<1>7. link' \in Links /\ NotesInv' /\ TableInv'
  BY <1>1, NotesKept, TableKept DEF LInv
<1> QED BY <1>2, <1>5, <1>6, <1>7 DEF LInv

-----------------------------------------------------------------------------
(***************************************************************************)
(* Phases 2 and 3.                                                         *)
(***************************************************************************)

\* The lengths that the indexes are made of.
LEMMA Lengths ==
  ASSUME LInv
  PROVE  /\ Len(stabs) \in Nat /\ Len(localAtoms) \in Nat
         /\ Len(exported) \in Nat /\ Len(imported) \in Nat
         /\ Globals \in Nat /\ Imports \in Nat
         /\ DOMAIN localAtoms = 1 .. Len(localAtoms) /\ DOMAIN exported = 1 .. Len(exported)
         /\ DOMAIN imported = 1 .. Len(imported)
<1>1. /\ stabs \in Seq(StabSet) /\ localAtoms \in Seq(Atoms)
      /\ IsSeq(imported) /\ IsSeq(exported)
  BY DEF LInv, NotesInv, ListsInv
<1>2. /\ Len(stabs) \in Nat /\ Len(localAtoms) \in Nat /\ DOMAIN localAtoms = 1 .. Len(localAtoms)
  BY <1>1, LenProperties
<1>3. /\ Len(exported) \in Nat /\ Len(imported) \in Nat
      /\ DOMAIN exported = 1 .. Len(exported) /\ DOMAIN imported = 1 .. Len(imported)
  BY <1>1, SeqLen
<1> QED BY <1>2, <1>3 DEF Globals, Imports

\* The local atoms that get an index, and those that get an entry, are all.
LEMMA AllLabelled ==
  ASSUME LInv
  PROVE  Labelled = localAtoms /\ LocalEntries = localAtoms
<1>1. localAtoms \in Seq(Atoms) /\ \A k \in DOMAIN localAtoms : Labels(localAtoms[k])
  BY DEF LInv, ListsInv
<1>2. \A k \in DOMAIN localAtoms : localAtoms[k] \in Atoms
  BY <1>1, ElementOfSeq, LenProperties
<1>3. \A k \in DOMAIN localAtoms :
        /\ localAtoms[k] \in {a \in Atoms : ~(link.opts.removeEHLabels /\ Atom(a).sect = "CFI")}
        /\ localAtoms[k] \in
             {a \in Atoms : ~(link.object /\ link.opts.removeEHLabels /\ Atom(a).sect = "CFI")}
  BY <1>1, <1>2 DEF Labels
<1>4. Labelled = localAtoms
  BY <1>1, <1>3, OnlyAll DEF Labelled
<1>5. LocalEntries = localAtoms
  BY <1>1, <1>3, OnlyAll DEF LocalEntries
<1> QED BY <1>4, <1>5

LEMMA EndPhase1Step ==
  ASSUME LInv, EndPhase1
  PROVE  LInv'
<1>1. /\ link' = link /\ UNCHANGED noteVars /\ UNCHANGED partVars /\ UNCHANGED tableVars
      /\ phase = 1 /\ phase' = 2 /\ notes = "done" /\ part = "done"
  BY DEF EndPhase1
<1>2. TableInv'
  BY <1>1 DEF LInv, TableInv, BeforePhase3, tableVars, noteVars, partVars, Atoms
<1> QED BY <1>1, <1>2, NotesKept, ListsKept DEF LInv

LEMMA AssignStep ==
  ASSUME LInv, assignSymbolIndexes
  PROVE  LInv'
<1> DEFINE ix(a) ==
      CASE In(localAtoms, a) -> PlaceIn(localAtoms, a) - 1
        [] ~In(localAtoms, a) /\ In(imported, a) -> Imports + PlaceIn(imported, a) - 1
        [] ~In(localAtoms, a) /\ ~In(imported, a) /\ In(exported, a)
             -> Globals + PlaceIn(exported, a) - 1
        [] OTHER -> -1
<1>1. /\ link' = link /\ UNCHANGED noteVars /\ UNCHANGED partVars
      /\ phase = 2 /\ phase' = 3 /\ symtab' = symtab
      /\ indirect' = indirect /\ relocs' = relocs /\ tasks' = tasks /\ exceptionMsg' = exceptionMsg
  BY DEF assignSymbolIndexes
<1>2. /\ stabs' = stabs /\ localAtoms' = localAtoms /\ exported' = exported /\ imported' = imported
      /\ notes' = notes /\ part' = part /\ Atoms' = Atoms /\ HasSymbols' = HasSymbols
      /\ Globals' = Globals /\ Imports' = Imports
  BY <1>1 DEF noteVars, partVars, Atoms, HasSymbols, NamesInTable, InTable, HasLabel, Relocated,
              Forced, Atom, Globals, Imports
<1>3. /\ index' = [a \in Atoms |-> ix(a)]
      /\ start' = [locals |-> 0, globals |-> Globals, imports |-> Imports]
      /\ count' = [locals |-> Len(localAtoms), globals |-> Len(exported), imports |-> Len(imported)]
  <2>1. Labelled = localAtoms
    BY AllLabelled
  <2> QED BY <2>1 DEF assignSymbolIndexes, Globals, Imports
<1>4. ASSUME NEW list, NEW a, In(list, a)
      PROVE  PlaceIn(list, a) \in DOMAIN list /\ list[PlaceIn(list, a)] = a
  BY <1>4 DEF In, PlaceIn
<1>5. ASSUME NEW a \in Atoms PROVE Indexed(a)'
  <2>1. index'[a] = ix(a)
    BY <1>3
  <2>2. /\ DOMAIN localAtoms = 1 .. Len(localAtoms) /\ DOMAIN exported = 1 .. Len(exported)
        /\ DOMAIN imported = 1 .. Len(imported)
    BY Lengths
  <2>3. CASE In(localAtoms, a)
    <3>1. ix(a) = PlaceIn(localAtoms, a) - 1
      BY <2>3
    <3>2. PlaceIn(localAtoms, a) \in 1 .. Len(localAtoms) /\ localAtoms[PlaceIn(localAtoms, a)] = a
      BY <1>4, <2>2, <2>3
    <3> QED BY <1>2, <2>1, <3>1, <3>2 DEF Indexed
  <2>4. CASE ~In(localAtoms, a) /\ In(imported, a)
    <3>1. ix(a) = Imports + PlaceIn(imported, a) - 1
      BY <2>4
    <3>2. PlaceIn(imported, a) \in 1 .. Len(imported) /\ imported[PlaceIn(imported, a)] = a
      BY <1>4, <2>2, <2>4
    <3> QED BY <1>2, <2>1, <3>1, <3>2 DEF Indexed
  <2>5. CASE ~In(localAtoms, a) /\ ~In(imported, a) /\ In(exported, a)
    <3>1. ix(a) = Globals + PlaceIn(exported, a) - 1
      BY <2>5
    <3>2. PlaceIn(exported, a) \in 1 .. Len(exported) /\ exported[PlaceIn(exported, a)] = a
      BY <1>4, <2>2, <2>5
    <3> QED BY <1>2, <2>1, <3>1, <3>2 DEF Indexed
  <2>6. CASE ~In(localAtoms, a) /\ ~In(imported, a) /\ ~In(exported, a)
    <3>1. ix(a) = -1
      BY <2>6
    <3>2. ~Listed(a)
      BY <2>6 DEF Listed, Range, In
    <3>3. ~Listed(a)'
      BY <1>2, <3>2 DEF Listed
    <3> QED BY <2>1, <3>1, <3>3 DEF Indexed
  <2> QED BY <2>3, <2>4, <2>5, <2>6
<1> HIDE DEF ix
<1>6. BeforePhase3 /\ notes = "done" /\ part = "done"
  BY <1>1 DEF LInv, TableInv
<1>7. EncodedInv'
  BY <1>1, <1>2, <1>3, <1>6 DEF EncodedInv, BeforePhase3
<1>8. InPhase3'
  BY <1>1, <1>2, <1>3, <1>5, <1>6, <1>7 DEF InPhase3, BeforePhase3
<1>9. TableInv'
  BY <1>1, <1>2, <1>6, <1>8 DEF TableInv
<1> QED BY <1>1, <1>9, NotesKept, ListsKept DEF LInv

\* An atom that phase 3 finds by its index has one.
LEMMA IndexFound ==
  ASSUME LInv, phase = 3, NEW a \in Atoms, a \in Referenced, NeededAs(a, scope[a], incl[a])
  PROVE  index[a] # -1
<1>1. Indexed(a) /\ AtomInv(a) /\ partAt \notin Atoms /\ 0 < partAt /\ partAt \in Nat
  BY DEF LInv, TableInv, InPhase3, ListsInv
<1>2. a < partAt
  BY <1>1, TheAtoms DEF LInv
<1>3. Listed(a)
  BY <1>1, <1>2 DEF AtomInv
<1> QED BY <1>1, <1>3, Lengths DEF Indexed

\* Everything that a table or a relocation names is an atom, and one that
\* phase 1 has put on a list.
LEMMA TargetsFound ==
  ASSUME LInv, phase = 3
  PROVE  /\ \A t \in IndirectTargets : t \in Atoms /\ (HasSymbols /\ ByIndex(t) => index[t] # -1)
         /\ \A t \in ExternalTargets : t \in Atoms /\ (HasSymbols => index[t] # -1)
<1>1. /\ Len(link.atoms) \in Nat /\ Atoms = 1 .. Len(link.atoms)
      /\ \A a \in Atoms : AtomOK(link, Atom(a))
  BY TheAtoms DEF LInv
<1>2. \A a \in Atoms : Atom(a).ref \in 0 .. Len(link.atoms)
  BY <1>1 DEF AtomOK
<1>3. \A t \in IndirectTargets : t \in Atoms /\ t \in Referenced
  BY <1>1, <1>2 DEF IndirectTargets, Referenced
<1>4. \A a \in Relocated : Atom(a).ref \in Atoms /\ Atom(a).ref \in Referenced /\ link.object
  BY <1>1, <1>2 DEF Relocated, Referenced
<1>5. ASSUME NEW t \in Atoms, t \in Referenced, HasSymbols, ByIndex(t) PROVE index[t] # -1
  <2>1. Atom(t).def \in {"regular", "tentative", "absolute", "proxy"}
    BY <1>1 DEF AtomOK
  <2>2. NeededAs(t, scope[t], incl[t])
    BY <1>5, <2>1 DEF ByIndex, NeededAs
  <2> QED BY <1>5, <2>2, IndexFound
<1>6. ASSUME NEW t \in ExternalTargets PROVE t \in Atoms /\ (HasSymbols => index[t] # -1)
  <2>1. PICK a \in Relocated : t = Atom(a).ref /\ useExternalSectionReloc(a, t)
    BY DEF ExternalTargets
  <2>2. HasSymbols /\ Forced(a, t) => HasLabel(t)
    BY <2>1 DEF HasSymbols
  <2>3. HasSymbols => NeededAs(t, scope[t], incl[t])
    BY <1>4, <2>1, <2>2 DEF useExternalSectionReloc, NeededAs
  <2> QED BY <1>4, <2>1, <2>3, IndexFound
<1> QED BY <1>3, <1>5, <1>6

\* Phase 3 leaves the lists and the indexes as they are.
LEMMA IndexesKept ==
  ASSUME LInv, link' = link, UNCHANGED noteVars, UNCHANGED partVars, index' = index
  PROVE  /\ Atoms' = Atoms /\ HasSymbols' = HasSymbols
         /\ Globals' = Globals /\ Imports' = Imports
         /\ stabs' = stabs /\ localAtoms' = localAtoms /\ exported' = exported /\ imported' = imported
         /\ notes' = notes /\ part' = part
         /\ \A a \in Atoms : Indexed(a) => Indexed(a)'
<1>1. /\ stabs' = stabs /\ localAtoms' = localAtoms /\ exported' = exported /\ imported' = imported
      /\ notes' = notes /\ part' = part
  BY DEF noteVars, partVars
<1>2. /\ Atoms' = Atoms /\ HasSymbols' = HasSymbols /\ Globals' = Globals /\ Imports' = Imports
  BY <1>1 DEF Atoms, HasSymbols, NamesInTable, InTable, HasLabel, Relocated, Forced, Atom,
              Globals, Imports
<1>3. ASSUME NEW a \in Atoms, Indexed(a) PROVE Indexed(a)'
  BY <1>1, <1>2, <1>3 DEF Indexed, Listed
<1> QED BY <1>1, <1>2, <1>3

LEMMA EncodeStep ==
  ASSUME LInv, EncodeSymbols
  PROVE  LInv'
<1> DEFINE targets == {t \in IndirectTargets : ByIndex(t)}
           table == [k \in 1 .. (Len(LocalEntries) + Len(stabs)) |->
                       IF k <= Len(LocalEntries) THEN LocalEntries[k] ELSE 0]
<1>1. /\ link' = link /\ UNCHANGED noteVars /\ UNCHANGED partVars
      /\ phase = 3 /\ phase' = 3 /\ index' = index /\ start' = start /\ relocs' = relocs
      /\ "symbols" \in tasks /\ tasks' = tasks \ {"symbols"}
      /\ indirect' = (IF Missing(targets) THEN {} ELSE Indexes(targets))
      /\ exceptionMsg' = (exceptionMsg \/ Missing(targets))
  BY DEF EncodeSymbols
<1>2. symtab' = [locals |-> table, globals |-> exported, imports |-> imported]
      /\ count' = [count EXCEPT !.locals = @ + Len(stabs)]
  BY DEF EncodeSymbols
<1> HIDE DEF table
<1>3. InPhase3 /\ notes = "done" /\ part = "done"
  BY <1>1 DEF LInv, TableInv
<1>4. /\ Atoms' = Atoms /\ HasSymbols' = HasSymbols /\ Globals' = Globals /\ Imports' = Imports
      /\ stabs' = stabs /\ localAtoms' = localAtoms /\ exported' = exported /\ imported' = imported
      /\ notes' = notes /\ part' = part /\ \A a \in Atoms : Indexed(a) => Indexed(a)'
  BY <1>1, IndexesKept
<1>5. EncodedInv'
  <2>1. LocalEntries = localAtoms
    BY AllLabelled
  <2>2. table = [k \in 1 .. (Len(localAtoms) + Len(stabs)) |->
                   IF k <= Len(localAtoms) THEN localAtoms[k] ELSE 0]
    BY <2>1 DEF table
  <2>3. count = [locals |-> Len(localAtoms), globals |-> Len(exported), imports |-> Len(imported)]
    BY <1>1, <1>3 DEF InPhase3, EncodedInv
  <2>4. count' = [locals |-> Len(localAtoms) + Len(stabs), globals |-> Len(exported),
                  imports |-> Len(imported)]
    BY <1>2, <2>3
  <2>5. "symbols" \notin tasks'
    BY <1>1
  <2>6. symtab' = [locals |-> [k \in 1 .. (Len(localAtoms) + Len(stabs)) |->
                                 IF k <= Len(localAtoms) THEN localAtoms[k] ELSE 0],
                   globals |-> exported, imports |-> imported]
    BY <1>2, <2>2
  <2> QED BY <1>4, <2>4, <2>5, <2>6 DEF EncodedInv
<1>6. \A t \in targets : t \in Atoms /\ (HasSymbols => index[t] # -1)
  BY <1>1, TargetsFound
<1> HIDE DEF targets
<1>7. HasSymbols => ~exceptionMsg'
  BY <1>1, <1>3, <1>6 DEF InPhase3, Missing
<1>8. \A p \in indirect' : p[1] \in Atoms /\ p[2] = index[p[1]] /\ p[2] # -1
  BY <1>1, <1>6 DEF Missing, Indexes
<1>9. InPhase3'
  <2>1. start' = [locals |-> 0, globals |-> Globals, imports |-> Imports]
    BY <1>1, <1>3 DEF InPhase3
  <2>2. \A a \in Atoms : Indexed(a)'
    BY <1>3, <1>4 DEF InPhase3
  <2>3. \A p \in relocs' : p[1] \in Atoms /\ p[2] = index[p[1]] /\ p[2] # -1
    BY <1>1, <1>3 DEF InPhase3
  <2> QED BY <1>1, <1>4, <1>5, <1>7, <1>8, <2>1, <2>2, <2>3 DEF InPhase3
<1>10. TableInv'
  BY <1>1, <1>3, <1>4, <1>9 DEF TableInv
<1> QED BY <1>1, <1>10, NotesKept, ListsKept DEF LInv

LEMMA RelocsStep ==
  ASSUME LInv, AddSectionRelocs
  PROVE  LInv'
<1> DEFINE targets == ExternalTargets
<1>1. /\ link' = link /\ UNCHANGED noteVars /\ UNCHANGED partVars
      /\ phase = 3 /\ phase' = 3 /\ index' = index /\ start' = start /\ indirect' = indirect
      /\ count' = count /\ symtab' = symtab /\ tasks' = tasks \ {"relocs"}
      /\ relocs' = (IF Missing(targets) THEN {} ELSE Indexes(targets))
      /\ exceptionMsg' = (exceptionMsg \/ Missing(targets))
  BY DEF AddSectionRelocs
<1>2. InPhase3 /\ notes = "done" /\ part = "done"
  BY <1>1 DEF LInv, TableInv
<1>3. /\ Atoms' = Atoms /\ HasSymbols' = HasSymbols /\ Globals' = Globals /\ Imports' = Imports
      /\ stabs' = stabs /\ localAtoms' = localAtoms /\ exported' = exported /\ imported' = imported
      /\ notes' = notes /\ part' = part /\ \A a \in Atoms : Indexed(a) => Indexed(a)'
  BY <1>1, IndexesKept
<1>4. EncodedInv'
  BY <1>1, <1>2, <1>3 DEF InPhase3, EncodedInv
<1>5. \A t \in targets : t \in Atoms /\ (HasSymbols => index[t] # -1)
  BY <1>1, TargetsFound
<1> HIDE DEF targets
<1>6. HasSymbols => ~exceptionMsg'
  BY <1>1, <1>2, <1>5 DEF InPhase3, Missing
<1>7. \A p \in relocs' : p[1] \in Atoms /\ p[2] = index[p[1]] /\ p[2] # -1
  BY <1>1, <1>5 DEF Missing, Indexes
<1>8. InPhase3'
  <2>1. start' = [locals |-> 0, globals |-> Globals, imports |-> Imports]
    BY <1>1, <1>2 DEF InPhase3
  <2>2. \A a \in Atoms : Indexed(a)'
    BY <1>2, <1>3 DEF InPhase3
  <2>3. \A p \in indirect' : p[1] \in Atoms /\ p[2] = index[p[1]] /\ p[2] # -1
    BY <1>1, <1>2 DEF InPhase3
  <2> QED BY <1>1, <1>3, <1>4, <1>6, <1>7, <2>1, <2>2, <2>3 DEF InPhase3
<1>9. TableInv'
  BY <1>1, <1>2, <1>3, <1>8 DEF TableInv
<1> QED BY <1>1, <1>9, NotesKept, ListsKept DEF LInv

\* The steps that leave the tables as they are: the end, and a stutter.
LEMMA LastStep ==
  ASSUME LInv, link' = link, UNCHANGED noteVars, UNCHANGED partVars, UNCHANGED tableVars,
         phase' = phase \/ (phase = 3 /\ tasks = {} /\ phase' = 4)
  PROVE  LInv'
<1>1. /\ index' = index /\ start' = start /\ count' = count /\ symtab' = symtab
      /\ indirect' = indirect /\ relocs' = relocs /\ tasks' = tasks /\ exceptionMsg' = exceptionMsg
  BY DEF tableVars
<1>2. /\ Atoms' = Atoms /\ HasSymbols' = HasSymbols /\ Globals' = Globals /\ Imports' = Imports
      /\ stabs' = stabs /\ localAtoms' = localAtoms /\ exported' = exported /\ imported' = imported
      /\ notes' = notes /\ part' = part /\ \A a \in Atoms : Indexed(a) => Indexed(a)'
  BY <1>1, IndexesKept
<1>3. BeforePhase3 => BeforePhase3'
  BY <1>1, <1>2 DEF BeforePhase3
<1>4. EncodedInv => EncodedInv'
  BY <1>1, <1>2 DEF EncodedInv
<1>5. InPhase3 => InPhase3'
  <2> SUFFICES ASSUME InPhase3 PROVE InPhase3'
    OBVIOUS
  <2>1. EncodedInv' /\ \A a \in Atoms : Indexed(a)'
    BY <1>2, <1>4 DEF InPhase3
  <2> QED BY <1>1, <1>2, <2>1 DEF InPhase3
<1>6. TableInv'
  <2>1. TableInv
    BY DEF LInv
  <2> QED BY <1>1, <1>2, <1>3, <1>5, <2>1 DEF TableInv
<1> QED BY <1>6, NotesKept, ListsKept DEF LInv

LEMMA StepInv ==
  ASSUME LInv, [Next]_vars
  PROVE  LInv'
<1>1. CASE Notes
  BY <1>1, NotesStep
<1>2. CASE Partition
  BY <1>2, PartitionStep, EndPartitionStep DEF Partition
<1>3. CASE EndPhase1
  BY <1>3, EndPhase1Step
<1>4. CASE assignSymbolIndexes
  BY <1>4, AssignStep
<1>5. CASE EncodeSymbols
  BY <1>5, EncodeStep
<1>6. CASE AddSectionRelocs
  BY <1>6, RelocsStep
<1>7. CASE EndPhase3
  BY <1>7, LastStep DEF EndPhase3
<1>8. CASE Done \/ UNCHANGED vars
  BY <1>8, LastStep DEF Done, vars
<1> QED BY <1>1, <1>2, <1>3, <1>4, <1>5, <1>6, <1>7, <1>8 DEF Next

LEMMA Invariance == Spec => []LInv
<1>1. Init => LInv
  BY InitInv
<1>2. LInv /\ [Next]_vars => LInv'
  BY StepInv
<1> QED BY <1>1, <1>2, PTL DEF Spec

-----------------------------------------------------------------------------
(***************************************************************************)
(* The theorems.                                                           *)
(***************************************************************************)

\* The state keeps its types, and no index is past the end of the table.
THEOREM TypeCorrect == Spec => []TypeOK
<1>1. LInv => TypeOK
  <2> SUFFICES ASSUME LInv PROVE TypeOK
    OBVIOUS
  <2>1. phase \in 1 .. 4 /\ NotesInv /\ ListsInv
    BY DEF LInv, TableInv
  <2>2. ASSUME NEW a \in Atoms PROVE index[a] \in -1 .. (start.imports + count.imports)
    <3>1. CASE phase \in 1 .. 2
      <4>1. BeforePhase3
        BY <3>1 DEF LInv, TableInv
      <4> QED BY <4>1 DEF BeforePhase3
    <3>2. CASE phase \in 3 .. 4
      <4>1. InPhase3
        BY <3>2 DEF LInv, TableInv
      <4>2. start.imports = Imports /\ count.imports = Len(imported) /\ Indexed(a)
        BY <4>1 DEF InPhase3, EncodedInv
      <4>3. Globals <= Imports /\ Len(localAtoms) <= Globals
        BY Lengths DEF Globals, Imports
      <4>4. Globals + Len(exported) = Imports
        BY DEF Imports
      <4>5. /\ Len(localAtoms) \in Nat /\ Len(exported) \in Nat /\ Len(imported) \in Nat
            /\ Globals \in Nat /\ Imports \in Nat
        BY Lengths
      <4>6. index[a] \in Int /\ -1 <= index[a] /\ index[a] <= Imports + Len(imported)
        <5>1. CASE \E k \in 1 .. Len(localAtoms) : index[a] = k - 1
          BY <4>3, <4>5, <5>1
        <5>2. CASE \E k \in 1 .. Len(imported) : index[a] = Imports + k - 1
          BY <4>5, <5>2
        <5>3. CASE \E k \in 1 .. Len(exported) : index[a] = Globals + k - 1
          BY <4>4, <4>5, <5>3
        <5>4. CASE index[a] = -1
          BY <4>5, <5>4
        <5> QED BY <4>2, <5>1, <5>2, <5>3, <5>4 DEF Indexed
      <4> QED BY <4>2, <4>5, <4>6
    <3> QED BY <2>1, <3>1, <3>2
  <2> QED BY <2>1, <2>2 DEF TypeOK, NotesInv, ListsInv
<1> QED BY <1>1, Invariance, PTL

\* An index that phase 2 assigns and phase 3 writes into an indirect symbol
\* table or a relocation is the place of that very symbol in the table that
\* phase 3 makes, whatever the atoms, the options and the order in which the
\* tasks of a phase take their steps.
THEOREM IndexesArePositions == Spec => []IndexIsPosition
<1>1. LInv => IndexIsPosition
  <2> SUFFICES ASSUME LInv, phase = 4 PROVE IndexIsPosition
    BY DEF IndexIsPosition
  <2>1. InPhase3 /\ tasks = {}
    BY DEF LInv, TableInv
  <2> DEFINE table == [k \in 1 .. (Len(localAtoms) + Len(stabs)) |->
                         IF k <= Len(localAtoms) THEN localAtoms[k] ELSE 0]
  <2>2. /\ start.locals = 0 /\ start.globals = Globals /\ start.imports = Imports
        /\ count.locals = Len(localAtoms) + Len(stabs) /\ count.globals = Len(exported)
        /\ symtab.locals = table /\ symtab.globals = exported /\ symtab.imports = imported
    BY <2>1 DEF InPhase3, EncodedInv
  <2>3. /\ Len(stabs) \in Nat /\ Len(localAtoms) \in Nat
        /\ Len(exported) \in Nat /\ Len(imported) \in Nat /\ Globals \in Nat /\ Imports \in Nat
        /\ Globals = Len(stabs) + Len(localAtoms) /\ Imports = Globals + Len(exported)
    BY Lengths DEF Globals, Imports
  <2>4. Len(table) = Len(localAtoms) + Len(stabs)
    BY <2>3
  <2>5. \A k \in 1 .. Len(localAtoms) : table[k] = localAtoms[k]
    BY <2>3
  <2> HIDE DEF table
  <2>6. ASSUME NEW a \in Atoms, Indexed(a), index[a] # -1 PROVE At(index[a]) = a
    <3>1. CASE \E k \in 1 .. Len(localAtoms) : localAtoms[k] = a /\ index[a] = k - 1
      <4>1. PICK k \in 1 .. Len(localAtoms) : localAtoms[k] = a /\ index[a] = k - 1
        BY <3>1
      <4>2. k - 1 < Globals /\ k - 1 < Imports /\ (k - 1) + 1 = k
        BY <2>3
      <4>3. At(k - 1) = symtab.locals[k - 1 + 1]
        BY <2>2, <2>3, <4>2 DEF At
      <4> QED BY <2>2, <2>5, <4>1, <4>2, <4>3
    <3>2. CASE \E k \in 1 .. Len(imported) : imported[k] = a /\ index[a] = Imports + k - 1
      <4>1. PICK k \in 1 .. Len(imported) : imported[k] = a /\ index[a] = Imports + k - 1
        BY <3>2
      <4>2. Imports + k - 1 >= Imports /\ (Imports + k - 1) - Imports + 1 = k
        BY <2>3
      <4>3. At(Imports + k - 1) = symtab.imports[(Imports + k - 1) - Imports + 1]
        BY <2>2, <2>3, <4>2 DEF At
      <4> QED BY <2>2, <4>1, <4>2, <4>3
    <3>3. CASE \E k \in 1 .. Len(exported) : exported[k] = a /\ index[a] = Globals + k - 1
      <4>1. PICK k \in 1 .. Len(exported) : exported[k] = a /\ index[a] = Globals + k - 1
        BY <3>3
      <4>2. /\ Globals + k - 1 >= Globals /\ Globals + k - 1 < Imports
            /\ ~(Globals + k - 1 >= Imports) /\ (Globals + k - 1) - Globals + 1 = k
        BY <2>3
      <4> QED BY <2>2, <4>1, <4>2 DEF At
    <3> QED BY <2>6, <3>1, <3>2, <3>3 DEF Indexed
  <2>7. \A p \in indirect \cup relocs : At(p[2]) = p[1]
    BY <2>1, <2>6 DEF InPhase3
  <2> QED BY <2>2, <2>3, <2>4, <2>7 DEF IndexIsPosition
<1> QED BY <1>1, Invariance, PTL

\* Where every symbol that is found by its name is to be in the symbol table,
\* what phase 3 refers to by index is what phase 1 put in the table: the
\* exception "atom is missing a symbolIndex" is thrown only for an object file
\* in which a relocation is forced to name an atom that has no label.
THEOREM NoneMissing == Spec => [](NamesInTable => NoIndexMissing)
<1>1. LInv /\ HasSymbols => ~exceptionMsg
  BY DEF LInv, TableInv, BeforePhase3, InPhase3
<1>2. LInv => (NamesInTable => NoIndexMissing)
  BY <1>1, Zenon DEF HasSymbols, NoIndexMissing
<1> QED BY <1>2, Invariance, PTL

-----------------------------------------------------------------------------
(***************************************************************************)
(* The debug notes.                                                        *)
(***************************************************************************)

\* A link that keeps its local symbols, and whose files without a directory in
\* their paths are of translation units of their own.
KeepsAll == link.opts.debug /\ \A a \in Atoms : keepLocalSymbol(a)
UnitsApart ==
  \A f, g \in DOMAIN link.files :
    f # g /\ link.files[f].flat /\ link.files[f].tu # 0 => link.files[f].tu # link.files[g].tu

\* Notable, of an atom whose inclusion is i.
NotableAs(a, i) ==
  /\ i # "notIn" /\ (i # "notInFinalLinkedImages" \/ link.object) /\ i # "inWithRandomAutoStripLabel"
  /\ Atom(a).def \notin {"absolute", "proxy"}
  /\ Atom(a).sect \notin {"CFI", "cstring"} /\ ~Atom(a).empty

\* What the notes read of an atom is what they would have read at first.
ReadsAs(a, s, i) ==
  /\ NotableAs(a, i) <=> NotableAs(a, Atom(a).incl)
  /\ NotableAs(a, Atom(a).incl) => (s = "translationUnit" <=> Atom(a).scope = "translationUnit")

\* The atoms that are to be collected, their order and their units.
Firsts ==
  {a \in Atoms : /\ NotableAs(a, Atom(a).incl)
                 /\ Atom(a).file # 0 /\ FileOf(a).debug = "dwarf"}
Precedes(a, b) == Atom(a).file < Atom(b).file \/ (Atom(a).file = Atom(b).file /\ a < b)
UnitOf(a) == FileOf(a).tu

\* The atoms with notes of a symbol.
Telling == {a \in NotedAtFirst : Atom(a).sect # "llvm"}

\* The notes that are written are those of the atoms that are done.
Told(s) == s.type \in {"FUN", "STSYM", "GSYM"} /\ s.atom \notin withStabs \cup {0}
StabsInv ==
  /\ \A s \in Range(stabs) :
       Told(s) => s.atom \in Telling \ noted /\ s.type = TypeAtFirst(s.atom)
  /\ \A a \in Telling \ noted : Stab(TypeAtFirst(a), a) \in Range(stabs)

\* The atoms are done in their order, and the unit is that of the last file.
EmitInv ==
  /\ noted \in SUBSET Firsts
  /\ \A a \in Firsts \ noted, b \in noted : Precedes(a, b)
  /\ curTU = 0 \/ \E b \in Firsts \ noted : UnitOf(b) = curTU
  /\ \A b \in Firsts \ noted, c \in noted :
       Atom(b).file = Atom(c).file /\ UnitOf(c) # 0 => curTU = UnitOf(c)

NInv ==
  /\ \A a \in Atoms : ReadsAs(a, scope[a], incl[a])
  /\ withStabs \cap Firsts = {} /\ noteAt \in Nat /\ 0 < noteAt
  /\ notes = "collect" =>
       noted = {a \in Firsts : a < noteAt} /\ stabs = <<>> /\ curTU = 0
  /\ notes = "emit" => EmitInv /\ StabsInv
  /\ notes = "done" => noted = {} /\ StabsInv

\* The partition of a link that keeps its local symbols changes nothing that
\* the notes read.
LEMMA PlacedReads ==
  ASSUME link \in Links, NEW a \in Atoms, keepLocalSymbol(a),
         scope[a] = Atom(a).scope, incl[a] = Atom(a).incl
  PROVE  ReadsAs(a, Placed(a).scope, Placed(a).incl)
<1> DEFINE c == Clarified(a)
           To(lists) == [incl |-> c.incl, scope |-> c.scope, to |-> lists]
<1> SUFFICES ASSUME Atom(a).def \notin {"absolute", "proxy"}, Atom(a).sect \notin {"CFI", "cstring"}
             PROVE  ReadsAs(a, Placed(a).scope, Placed(a).incl)
  BY DEF ReadsAs, NotableAs
<1>1. AtomOK(link, Atom(a))
  BY TheAtoms
<1>2. /\ c.scope \in Scopes
      /\ c.incl = IF link.object /\ incl[a] = "notInFinalLinkedImages" THEN "in" ELSE incl[a]
      /\ c.scope = "translationUnit" <=> Atom(a).scope = "translationUnit"
  <2>1. c.scope \in Scopes
    BY ClarifiedAtom
  <2>2. c.incl = IF link.object /\ incl[a] = "notInFinalLinkedImages" THEN "in" ELSE incl[a]
    BY DEF Clarified
  <2>3. /\ c.scope \in {"linkageUnit", "global", scope[a]}
        /\ c.scope # scope[a] => Atom(a).autoHide \/ scope[a] = "linkageUnit"
    BY DEF Clarified
  <2> QED BY <1>1, <2>1, <2>2, <2>3 DEF AtomOK
<1>3. ReadsAs(a, c.scope, c.incl)
  BY <1>2 DEF ReadsAs, NotableAs
<1>4. \/ Placed(a).incl = incl[a] /\ Placed(a).scope = scope[a]
      \/ Placed(a).incl = c.incl /\ Placed(a).scope = c.scope
      \/ Placed(a).incl = PlacedInObject(a, c).incl /\ Placed(a).scope = PlacedInObject(a, c).scope
           /\ link.object
      \/ Placed(a).incl = PlacedInImage(a, c).incl /\ Placed(a).scope = PlacedInImage(a, c).scope
  BY DEF Placed
<1> HIDE DEF c
<1>5. /\ PlacedInImage(a, c).incl = c.incl /\ PlacedInImage(a, c).scope = c.scope
  BY DEF PlacedInImage
<1>6. /\ PlacedInObject(a, c).incl = c.incl
      /\ PlacedInObject(a, c).scope = c.scope \/ c.incl = "inWithRandomAutoStripLabel"
  BY <1>2 DEF PlacedInObject, Scopes
<1>7. ReadsAs(a, scope[a], incl[a])
  BY DEF ReadsAs
<1>8. ASSUME c.incl = "inWithRandomAutoStripLabel"
      PROVE  ReadsAs(a, PlacedInObject(a, c).scope, PlacedInObject(a, c).incl)
  BY <1>2, <1>6, <1>8 DEF ReadsAs, NotableAs
<1> QED BY <1>3, <1>4, <1>5, <1>6, <1>7, <1>8, Zenon

\* All this is about the link, which stays.
LEMMA SameLink ==
  ASSUME link' = link
  PROVE  /\ Atoms' = Atoms /\ Firsts' = Firsts /\ Telling' = Telling
         /\ \A a : Atom(a)' = Atom(a) /\ UnitOf(a)' = UnitOf(a) /\ TypeAtFirst(a)' = TypeAtFirst(a)
<1>1. Atoms' = Atoms /\ \A a : Atom(a)' = Atom(a) /\ FileOf(a)' = FileOf(a)
  BY DEF Atoms, Atom, FileOf
<1>2. \A a : UnitOf(a)' = UnitOf(a) /\ TypeAtFirst(a)' = TypeAtFirst(a)
  BY <1>1 DEF UnitOf, TypeAtFirst
<1>3. Firsts' = Firsts
  BY <1>1 DEF Firsts, NotableAs
<1>4. \A a : NotableAtFirst(a)' <=> NotableAtFirst(a)
  BY <1>1 DEF NotableAtFirst
<1>5. NotedAtFirst' = NotedAtFirst
  BY <1>1, <1>4 DEF NotedAtFirst
<1>6. Telling' = Telling
  BY <1>1, <1>5 DEF Telling
<1> QED BY <1>1, <1>2, <1>3, <1>6

LEMMA ReadsStay ==
  ASSUME link' = link, NEW a, scope'[a] = scope[a], incl'[a] = incl[a],
         ReadsAs(a, scope[a], incl[a])
  PROVE  ReadsAs(a, scope[a], incl[a])'
BY DEF ReadsAs, NotableAs, Atom

LEMMA EmitStays ==
  ASSUME link' = link, UNCHANGED noteVars
  PROVE  (EmitInv => EmitInv') /\ (StabsInv => StabsInv')
<1>1. noted' = noted /\ curTU' = curTU /\ stabs' = stabs /\ withStabs' = withStabs
  BY DEF noteVars
<1>2. /\ Firsts' = Firsts /\ Telling' = Telling
      /\ \A a : Atom(a)' = Atom(a) /\ UnitOf(a)' = UnitOf(a) /\ TypeAtFirst(a)' = TypeAtFirst(a)
  BY SameLink
<1>3. EmitInv => EmitInv'
  BY <1>1, <1>2 DEF EmitInv, Precedes
<1>4. StabsInv => StabsInv'
  BY <1>1, <1>2 DEF StabsInv, Told, Stab
<1> QED BY <1>3, <1>4

LEMMA NInvStays ==
  ASSUME NInv, link' = link, UNCHANGED noteVars,
         \A a \in Atoms : ReadsAs(a, scope[a], incl[a])'
  PROVE  NInv'
<1>1. /\ notes' = notes /\ noteAt' = noteAt /\ noted' = noted /\ withStabs' = withStabs
      /\ curTU' = curTU /\ stabs' = stabs
  BY DEF noteVars
<1>2. Atoms' = Atoms /\ Firsts' = Firsts
  BY SameLink
<1>3. (EmitInv => EmitInv') /\ (StabsInv => StabsInv')
  BY EmitStays
<1> QED BY <1>1, <1>2, <1>3 DEF NInv

LEMMA InitNInv ==
  ASSUME Init, KeepsAll
  PROVE  NInv
<1>1. \A a \in Atoms : a \in Nat /\ ~(a < 1)
  BY TheAtoms DEF Init
<1>2. \A a \in Atoms : ReadsAs(a, scope[a], incl[a])
  BY DEF Init, ReadsAs
<1>3. {a \in Firsts : a < 1} = {}
  BY <1>1 DEF Firsts
<1> QED BY <1>2, <1>3 DEF Init, KeepsAll, NInv

LEMMA PartitionNInv ==
  ASSUME LInv, KeepsAll, NInv, PartitionAtom
  PROVE  NInv'
<1>1. /\ link' = link /\ UNCHANGED noteVars /\ partAt \in Atoms
      /\ scope' = [scope EXCEPT ![partAt] = Placed(partAt).scope]
      /\ incl' = [incl EXCEPT ![partAt] = Placed(partAt).incl]
  BY DEF PartitionAtom
<1>2. scope \in [Atoms -> Scopes] /\ incl \in [Atoms -> Inclusions]
  BY DEF LInv, ListsInv
<1>3. ReadsAs(partAt, Placed(partAt).scope, Placed(partAt).incl)
  <2>1. AtomInv(partAt) /\ partAt \in Nat
    BY <1>1 DEF LInv, ListsInv
  <2>2. scope[partAt] = Atom(partAt).scope /\ incl[partAt] = Atom(partAt).incl
    BY <2>1 DEF AtomInv
  <2>3. keepLocalSymbol(partAt)
    BY <1>1 DEF KeepsAll
  <2> QED BY <1>1, <2>2, <2>3, PlacedReads DEF LInv
<1>4. scope'[partAt] = Placed(partAt).scope /\ incl'[partAt] = Placed(partAt).incl
  BY <1>1, <1>2
<1>5. ASSUME NEW a \in Atoms PROVE ReadsAs(a, scope[a], incl[a])'
  <2>1. CASE a = partAt
    <3>1. ReadsAs(a, scope'[a], incl'[a])
      BY <1>3, <1>4, <2>1
    <3> QED BY <1>1, <3>1 DEF ReadsAs, NotableAs, Atom
  <2>2. CASE a # partAt
    <3>1. scope'[a] = scope[a] /\ incl'[a] = incl[a]
      BY <1>1, <1>2, <2>2
    <3>2. ReadsAs(a, scope[a], incl[a])
      BY DEF NInv
    <3> QED BY <1>1, <3>1, <3>2, ReadsStay
  <2> QED BY <2>1, <2>2
<1> QED BY <1>1, <1>5, NInvStays

LEMMA CollectNInv ==
  ASSUME LInv, NInv, CollectNote \/ EndCollect
  PROVE  NInv'
<1>1. link' = link /\ scope' = scope /\ incl' = incl /\ notes = "collect"
  BY DEF CollectNote, EndCollect, partVars
<1>2. /\ Atoms' = Atoms /\ Firsts' = Firsts /\ Telling' = Telling
      /\ \A a \in Atoms : a \in Nat
  BY <1>1, SameLink, TheAtoms DEF LInv
<1>3. (\A a \in Atoms : ReadsAs(a, scope[a], incl[a]))'
  BY <1>1, <1>2, ReadsStay DEF NInv
<1>4. /\ noted = {a \in Firsts : a < noteAt} /\ stabs = <<>> /\ curTU = 0
      /\ withStabs \cap Firsts = {} /\ noteAt \in Nat /\ 0 < noteAt
  BY <1>1 DEF NInv
<1>5. CASE CollectNote
  <2> DEFINE Has(d) == Atom(noteAt).file # 0 /\ FileOf(noteAt).debug = d
  <2>1. /\ noteAt \in Atoms /\ noteAt' = noteAt + 1 /\ notes' = notes
        /\ stabs' = stabs /\ curTU' = curTU
        /\ noted' = noted \cup {a \in {noteAt} : Notable(a) /\ Has("dwarf")}
        /\ withStabs' = withStabs \cup {a \in {noteAt} : Notable(a) /\ Has("stabs")}
    BY <1>5 DEF CollectNote
  <2>2. Notable(noteAt) <=> NotableAs(noteAt, Atom(noteAt).incl)
    <3>1. Notable(noteAt) <=> NotableAs(noteAt, incl[noteAt])
      BY DEF Notable, NotableAs
    <3> QED BY <2>1, <3>1 DEF NInv, ReadsAs
  <2>3. noteAt \in Firsts <=> Notable(noteAt) /\ Has("dwarf")
    BY <2>1, <2>2 DEF Firsts
  <2>4. withStabs' \cap Firsts = {}
    BY <1>4, <2>1, <2>3
  <2> HIDE DEF Has
  <2>5. \A a \in Firsts : a \in Nat
    BY <1>2 DEF Firsts
  <2>6. noted' = {a \in Firsts : a < noteAt'}
    BY <1>4, <2>1, <2>3, <2>5
  <2> QED BY <1>1, <1>2, <1>3, <1>4, <2>1, <2>4, <2>6 DEF NInv
<1>6. CASE EndCollect
  <2>1. /\ noteAt \notin Atoms /\ notes' = "emit" /\ noteAt' = noteAt /\ noted' = noted
        /\ withStabs' = withStabs /\ curTU' = curTU /\ stabs' = stabs
    BY <1>6 DEF EndCollect
  <2>2. noted = Firsts
    <3>1. \A a \in Atoms : a < noteAt
      BY <1>4, <2>1, TheAtoms DEF LInv
    <3> QED BY <1>4, <3>1 DEF Firsts
  <2>3. Telling \ noted = {}
    BY <2>2 DEF Telling, NotedAtFirst, NotableAtFirst, Firsts, NotableAs
  <2>4. EmitInv'
    BY <1>2, <1>4, <2>1, <2>2 DEF EmitInv
  <2>5. Range(stabs') = {}
    BY <1>4, <2>1 DEF Range
  <2>6. StabsInv'
    BY <1>2, <2>1, <2>3, <2>5 DEF StabsInv
  <2> QED BY <1>2, <1>3, <1>4, <2>1, <2>4, <2>6 DEF NInv
<1> QED BY <1>5, <1>6

LEMMA RangesOfTuples ==
  /\ Range(<<>>) = {}
  /\ \A x : Range(<<x>>) = {x}
  /\ \A w, x, y, z : Range(<<w, x, y, z>>) = {w, x, y, z}
BY DEF Range

LEMMA RangeOfThree ==
  ASSUME NEW S, NEW u \in Seq(S), NEW v \in Seq(S), NEW w \in Seq(S)
  PROVE  Range(u \o v \o w) = Range(u) \cup Range(v) \cup Range(w)
<1>1. PICK t : t = u \o v
  OBVIOUS
<1>2. t \in Seq(S) /\ Range(t) = Range(u) \cup Range(v)
  BY <1>1, ConcatProperties, RangeConcatenation
<1>3. Range(t \o w) = Range(t) \cup Range(w)
  BY <1>2, RangeConcatenation
<1> QED BY <1>1, <1>2, <1>3, Zenon

\* The notes of an atom are of its type, and those of a unit of none.
LEMMA NotesOfAtom ==
  ASSUME NEW a \in Firsts, NEW tu, ReadsAs(a, scope[a], incl[a])
  PROVE  /\ \A s \in Range(Unit(a, tu)) : ~Told(s)
         /\ \A s \in Range(Symbol(a)) :
              Told(s) => s.atom = a /\ s.type = TypeAtFirst(a) /\ Atom(a).sect # "llvm"
         /\ Atom(a).sect # "llvm" => Stab(TypeAtFirst(a), a) \in Range(Symbol(a))
<1>1. \A t, b : Stab(t, b).type = t /\ Stab(t, b).atom = b
  BY DEF Stab
<1>2. \A s \in Range(Unit(a, tu)) : ~Told(s)
  <2>1. Range(Unit(a, tu)) \in SUBSET {Stab("SO", 0), Stab("OSO", 0)}
    BY RangesOfTuples DEF Unit
  <2> QED BY <1>1, <2>1 DEF Told
<1>3. CASE Atom(a).sect = "code"
  <2>1. Range(Symbol(a)) = {Stab("BNSYM", a), Stab("FUN", a), Stab("ENSYM", a)}
    BY <1>3, RangesOfTuples DEF Symbol
  <2>2. TypeAtFirst(a) = "FUN"
    BY <1>3 DEF TypeAtFirst
  <2> QED BY <1>1, <1>2, <1>3, <2>1, <2>2 DEF Told
<1>4. CASE Atom(a).sect \notin {"code", "llvm"}
  <2>1. scope[a] = "translationUnit" <=> Atom(a).scope = "translationUnit"
    BY DEF ReadsAs, Firsts
  <2>2. Range(Symbol(a)) = {Stab(TypeAtFirst(a), a)}
    BY <1>4, <2>1, RangesOfTuples DEF Symbol, TypeAtFirst
  <2> QED BY <1>1, <1>2, <1>4, <2>2 DEF Told
<1>5. CASE Atom(a).sect = "llvm"
  <2>1. Range(Symbol(a)) = {}
    BY <1>5, RangesOfTuples DEF Symbol
  <2> QED BY <1>2, <1>5, <2>1
<1> QED BY <1>3, <1>4, <1>5

\* The next atom has notes exactly if it would have them alone.
LEMMA NextNoted ==
  ASSUME LInv, UnitsApart, EmitInv, NEW a \in noted,
         \A b \in noted \ {a} : Precedes(a, b)
  PROVE  a \in NotedAtFirst <=> UnitOf(a) # 0 /\ ~(UnitOf(a) # curTU /\ FileOf(a).flat)
<1>1. a \in Firsts /\ noted \in SUBSET Firsts
  BY DEF EmitInv
<1>2. ASSUME NEW b \in Firsts
      PROVE  /\ b \in Atoms /\ b \in Nat /\ Atom(b).file \in Nat /\ Atom(b).file \in DOMAIN link.files
             /\ NotableAtFirst(b) <=> UnitOf(b) # 0
  <2>1. b \in Atoms /\ b \in Nat /\ AtomOK(link, Atom(b)) /\ Atom(b).file # 0
    BY TheAtoms DEF LInv, Firsts
  <2>2. Len(link.files) \in Nat /\ DOMAIN link.files = 1 .. Len(link.files)
    BY LinksAssumption DEF LInv
  <2>3. Atom(b).file \in Nat /\ Atom(b).file \in DOMAIN link.files
    BY <2>1, <2>2 DEF AtomOK
  <2>4. NotableAtFirst(b) <=> UnitOf(b) # 0
    BY DEF Firsts, NotableAtFirst, NotableAs, UnitOf
  <2> QED BY <2>1, <2>3, <2>4
<1>3. ASSUME UnitOf(a) # 0, FileOf(a).flat,
             \E b \in Atoms : NotableAtFirst(b) /\ b < a /\ Atom(b).file = Atom(a).file
      PROVE  UnitOf(a) = curTU
  <2>1. PICK b \in Atoms : NotableAtFirst(b) /\ b < a /\ Atom(b).file = Atom(a).file
    BY <1>3
  <2>2. b \in Firsts
    BY <2>1 DEF NotableAtFirst, Firsts, NotableAs
  <2>3. b \notin noted
    BY <1>1, <1>2, <2>1, <2>2 DEF Precedes
  <2> QED BY <1>3, <2>1, <2>2, <2>3 DEF EmitInv
<1>4. ASSUME UnitOf(a) # 0, FileOf(a).flat, UnitOf(a) = curTU
      PROVE  \E b \in Atoms : NotableAtFirst(b) /\ b < a /\ Atom(b).file = Atom(a).file
  <2>1. PICK b \in Firsts \ noted : UnitOf(b) = curTU
    BY <1>4 DEF EmitInv
  <2>2. Atom(b).file = Atom(a).file
    <3>1. link.files[Atom(a).file].tu = link.files[Atom(b).file].tu
      BY <1>4, <2>1 DEF UnitOf, FileOf
    <3>2. link.files[Atom(a).file].flat /\ link.files[Atom(a).file].tu # 0
      BY <1>4 DEF UnitOf, FileOf
    <3>3. Atom(a).file \in DOMAIN link.files /\ Atom(b).file \in DOMAIN link.files
      BY <1>1, <1>2
    <3> QED BY <3>1, <3>2, <3>3 DEF UnitsApart
  <2>3. b < a
    <3>1. Precedes(b, a)
      BY <2>1 DEF EmitInv
    <3> QED BY <1>1, <1>2, <2>2, <3>1 DEF Precedes
  <2>4. b \in Atoms /\ NotableAtFirst(b)
    BY <1>2, <1>4, <2>1
  <2> QED BY <2>2, <2>3, <2>4
<1>5. a \in NotedAtFirst <=>
        /\ UnitOf(a) # 0
        /\ FileOf(a).flat => \E b \in Atoms : NotableAtFirst(b) /\ b < a /\ Atom(b).file = Atom(a).file
  BY <1>1, <1>2 DEF NotedAtFirst
<1> QED BY <1>3, <1>4, <1>5

LEMMA EmitNInv ==
  ASSUME LInv, UnitsApart, NInv, EmitNote
  PROVE  NInv'
<1>1. PICK a \in noted :
        /\ \A b \in noted \ {a} :
             Atom(a).file < Atom(b).file \/ (Atom(a).file = Atom(b).file /\ a < b)
        /\ LET tu == FileOf(a).tu
               flat == tu # curTU /\ FileOf(a).flat
           IN  /\ stabs' = IF tu = 0 \/ flat THEN stabs ELSE stabs \o Unit(a, tu) \o Symbol(a)
               /\ curTU' = IF tu = 0 THEN curTU ELSE tu
        /\ noted' = noted \ {a}
  BY DEF EmitNote
<1> DEFINE tells == UnitOf(a) # 0 /\ ~(UnitOf(a) # curTU /\ FileOf(a).flat)
<1>2. /\ stabs' = IF tells THEN stabs \o Unit(a, UnitOf(a)) \o Symbol(a) ELSE stabs
      /\ curTU' = IF UnitOf(a) = 0 THEN curTU ELSE UnitOf(a)
      /\ \A b \in noted \ {a} : Precedes(a, b)
  BY <1>1 DEF UnitOf, Precedes
<1>3. /\ link' = link /\ scope' = scope /\ incl' = incl /\ noteAt' = noteAt
      /\ withStabs' = withStabs /\ notes = "emit" /\ notes' = notes
  BY DEF EmitNote, partVars
<1>4. /\ Atoms' = Atoms /\ Firsts' = Firsts /\ Telling' = Telling
      /\ \A b : Atom(b)' = Atom(b) /\ UnitOf(b)' = UnitOf(b) /\ TypeAtFirst(b)' = TypeAtFirst(b)
  BY <1>3, SameLink
<1>5. (\A b \in Atoms : ReadsAs(b, scope[b], incl[b]))'
  BY <1>3, <1>4, ReadsStay DEF NInv
<1>6. EmitInv /\ StabsInv /\ a \in Firsts /\ noted \in SUBSET Firsts /\ noted' = noted \ {a}
  BY <1>1, <1>3 DEF NInv, EmitInv
<1>7. a \in NotedAtFirst <=> tells
  BY <1>2, <1>6, NextNoted
<1> HIDE DEF tells
<1>8. \A b \in Firsts : Atom(b).file \in Nat
  BY TheAtoms DEF LInv, Firsts, AtomOK
<1>9. \A b \in Firsts \ noted' : b = a \/ b \in Firsts \ noted
  BY <1>6
<1>10. EmitInv'
  <2>1. \A b \in Firsts \ noted', c \in noted' : Precedes(b, c)
    BY <1>2, <1>6, <1>9 DEF EmitInv
  <2>2. curTU' = 0 \/ \E b \in Firsts \ noted' : UnitOf(b) = curTU'
    BY <1>2, <1>6 DEF EmitInv
  <2>3. ASSUME NEW b \in Firsts \ noted', NEW c \in noted',
               Atom(b).file = Atom(c).file, UnitOf(c) # 0
        PROVE  curTU' = UnitOf(c)
    <3>1. Atom(a).file = Atom(c).file
      <4>1. CASE b = a
        BY <2>3, <4>1
      <4>2. CASE b \in Firsts \ noted
        <5>1. Precedes(b, a) /\ Precedes(a, c)
          BY <1>2, <1>6, <4>2 DEF EmitInv
        <5>2. Atom(a).file \in Nat /\ Atom(b).file \in Nat /\ Atom(c).file \in Nat
          BY <1>6, <1>8
        <5> QED BY <2>3, <5>1, <5>2 DEF Precedes
      <4> QED BY <1>9, <4>1, <4>2
    <3>2. UnitOf(a) = UnitOf(c)
      BY <3>1 DEF UnitOf, FileOf
    <3> QED BY <1>2, <2>3, <3>2
  <2>4. noted' \in SUBSET Firsts
    BY <1>6
  <2>5. (\A b \in Firsts \ noted, c \in noted : Precedes(b, c))'
    BY <1>4, <2>1 DEF Precedes
  <2>6. (\A b \in Firsts \ noted, c \in noted :
           Atom(b).file = Atom(c).file /\ UnitOf(c) # 0 => curTU = UnitOf(c))'
    BY <1>4, <2>3
  <2>7. (curTU = 0 \/ \E b \in Firsts \ noted : UnitOf(b) = curTU)'
    BY <1>4, <2>2
  <2> QED BY <1>4, <2>4, <2>5, <2>6, <2>7 DEF EmitInv
<1>11. /\ \A s \in Range(stabs) :
            Told(s) => s.atom \in Telling \ noted /\ s.type = TypeAtFirst(s.atom)
       /\ \A b \in Telling \ noted : Stab(TypeAtFirst(b), b) \in Range(stabs)
  BY <1>6 DEF StabsInv
<1>12. /\ \A s \in Range(stabs') :
            Told(s) => s.atom \in Telling \ noted' /\ s.type = TypeAtFirst(s.atom)
       /\ \A b \in Telling \ noted' : Stab(TypeAtFirst(b), b) \in Range(stabs')
  <2>1. CASE tells
    <3>1. ReadsAs(a, scope[a], incl[a]) /\ a \in Atoms
      BY <1>6 DEF NInv, Firsts
    <3>2. /\ \A s \in Range(Unit(a, UnitOf(a))) : ~Told(s)
          /\ \A s \in Range(Symbol(a)) :
               Told(s) => s.atom = a /\ s.type = TypeAtFirst(a) /\ Atom(a).sect # "llvm"
          /\ Atom(a).sect # "llvm" => Stab(TypeAtFirst(a), a) \in Range(Symbol(a))
      BY <1>6, <3>1, NotesOfAtom
    <3>3. /\ Unit(a, UnitOf(a)) \in Seq(StabSet) /\ Symbol(a) \in Seq(StabSet)
          /\ stabs \in Seq(StabSet)
      BY <3>1, NoteAdded DEF LInv, NotesInv
    <3>4. Range(stabs') = Range(stabs) \cup Range(Unit(a, UnitOf(a))) \cup Range(Symbol(a))
      BY <1>2, <2>1, <3>3, RangeOfThree
    <3>5. a \in Telling <=> Atom(a).sect # "llvm"
      BY <1>7, <2>1 DEF Telling
    <3> QED BY <1>1, <1>11, <3>2, <3>4, <3>5
  <2>2. CASE ~tells
    <3>1. a \notin Telling
      BY <1>7, <2>2 DEF Telling
    <3> QED BY <1>2, <1>6, <1>11, <2>2, <3>1
  <2> QED BY <2>1, <2>2
<1>13. StabsInv'
  BY <1>3, <1>4, <1>12 DEF StabsInv, Told, Stab
<1> QED BY <1>3, <1>4, <1>5, <1>10, <1>13 DEF NInv

LEMMA EndNotesNInv ==
  ASSUME LInv, NInv, EndNotes
  PROVE  NInv'
<1> DEFINE last == IF \E k \in DOMAIN stabs : stabs[k].type = "OSO" THEN <<Stab("SO", 0)>> ELSE <<>>
<1>1. /\ link' = link /\ scope' = scope /\ incl' = incl /\ noteAt' = noteAt /\ withStabs' = withStabs
      /\ notes = "emit" /\ notes' = "done" /\ noted = {} /\ noted' = noted
      /\ stabs' = stabs \o last \o CopiedStabs
  BY DEF EndNotes, partVars
<1>2. /\ Atoms' = Atoms /\ Firsts' = Firsts /\ Telling' = Telling
      /\ \A b : TypeAtFirst(b)' = TypeAtFirst(b)
  BY <1>1, SameLink
<1>3. (\A b \in Atoms : ReadsAs(b, scope[b], incl[b]))'
  BY <1>1, <1>2, ReadsStay DEF NInv
<1>4. StabsInv /\ stabs \in Seq(StabSet)
  BY <1>1 DEF NInv, LInv, NotesInv
<1>5. last \in Seq(StabSet) /\ \A s \in Range(last) : ~Told(s)
  <2>1. Stab("SO", 0) \in StabSet /\ Stab("SO", 0).atom = 0
    BY DEF Stab, StabSet, StabTypes
  <2>2. Range(last) \in SUBSET {Stab("SO", 0)}
    BY RangesOfTuples
  <2> QED BY <2>1, <2>2 DEF Told
<1> HIDE DEF last
<1>6. CopiedStabs \in Seq({s \in StabSet : ~Told(s)})
  <2>1. {s \in StabSet : s.atom = 0 \/ s.atom \in withStabs} \subseteq {s \in StabSet : ~Told(s)}
    BY DEF Told
  <2>2. CopiedStabs \in Seq({s \in StabSet : s.atom = 0 \/ s.atom \in withStabs})
    BY StabsCopied DEF LInv
  <2> QED BY <2>1, <2>2, SeqMonotonic
<1>7. CopiedStabs \in Seq(StabSet) /\ \A s \in Range(CopiedStabs) : ~Told(s)
  <2>1. Range(CopiedStabs) \in SUBSET {s \in StabSet : ~Told(s)}
    BY <1>6, RangeOfSeq
  <2>2. {s \in StabSet : ~Told(s)} \subseteq StabSet
    OBVIOUS
  <2>3. CopiedStabs \in Seq(StabSet)
    BY <1>6, <2>2, SeqMonotonic
  <2> QED BY <2>1, <2>3
<1>8. Range(stabs') = Range(stabs) \cup Range(last) \cup Range(CopiedStabs)
  BY <1>1, <1>4, <1>5, <1>7, RangeOfThree
<1>9. /\ \A s \in Range(stabs') :
           Told(s) => s.atom \in Telling \ noted' /\ s.type = TypeAtFirst(s.atom)
      /\ \A b \in Telling \ noted' : Stab(TypeAtFirst(b), b) \in Range(stabs')
  BY <1>1, <1>4, <1>5, <1>7, <1>8 DEF StabsInv
<1>10. StabsInv'
  BY <1>1, <1>2, <1>9 DEF StabsInv, Told, Stab
<1> QED BY <1>1, <1>2, <1>3, <1>10 DEF NInv

LEMMA NextNInv ==
  ASSUME LInv, KeepsAll, UnitsApart, NInv, [Next]_vars
  PROVE  NInv'
<1>1. CASE Notes
  BY <1>1, CollectNInv, EmitNInv, EndNotesNInv DEF Notes
<1>2. CASE PartitionAtom
  BY <1>2, PartitionNInv
<1>3. ASSUME link' = link, UNCHANGED noteVars, scope' = scope, incl' = incl PROVE NInv'
  <2>1. \A a \in Atoms : ReadsAs(a, scope[a], incl[a])'
    BY <1>3, ReadsStay DEF NInv
  <2> QED BY <1>3, <2>1, NInvStays
<1>4. CASE EndPartition \/ EndPhase1 \/ assignSymbolIndexes \/ EncodeSymbols \/ AddSectionRelocs
             \/ EndPhase3 \/ Done \/ UNCHANGED vars
  <2>1. link' = link /\ UNCHANGED noteVars /\ scope' = scope /\ incl' = incl
    BY <1>4 DEF EndPartition, EndPhase1, assignSymbolIndexes, EncodeSymbols, AddSectionRelocs,
                EndPhase3, Done, vars, partVars
  <2> QED BY <1>3, <2>1
<1> QED BY <1>1, <1>2, <1>4 DEF Next, Partition

\* In a link that keeps its local symbols the partition, which runs at the same
\* time and without a lock, takes no debug note from an atom, gives it none
\* and changes the type of none, whatever the interleaving.
THEOREM NotesUndisturbed == Spec => [](UnitsApart => NotesAsIfAlone)
<1> DEFINE Inv == KeepsAll /\ UnitsApart => NInv
<1>1. Init => Inv
  BY InitNInv
<1>2. LInv /\ Inv /\ [Next]_vars => Inv'
  <2> SUFFICES ASSUME LInv, Inv, [Next]_vars, (KeepsAll /\ UnitsApart)' PROVE NInv'
    OBVIOUS
  <2>1. link' = link
    BY DEF Next, Notes, Partition, CollectNote, EndCollect, EmitNote, EndNotes, PartitionAtom,
           EndPartition, EndPhase1, assignSymbolIndexes, EncodeSymbols, AddSectionRelocs,
           EndPhase3, Done, vars
  <2>2. KeepsAll /\ UnitsApart
    BY <2>1 DEF KeepsAll, UnitsApart, Atoms, keepLocalSymbol, Atom
  <2> QED BY <2>2, NextNInv
<1>3. LInv /\ Inv => (UnitsApart => NotesAsIfAlone)
  <2> SUFFICES ASSUME LInv, NInv, notes = "done" PROVE NotesAsIfAlone
    BY DEF NotesAsIfAlone, KeepsAll
  <2> DEFINE tells(j) == /\ stabs[j].type \in {"FUN", "STSYM", "GSYM"}
                         /\ stabs[j].atom \notin withStabs \cup {0}
             written == {<<s.atom, s.type>> : s \in {stabs[k] : k \in {j \in DOMAIN stabs : tells(j)}}}
  <2>1. /\ \A s \in Range(stabs) : Told(s) => s.atom \in Telling /\ s.type = TypeAtFirst(s.atom)
        /\ \A a \in Telling : Stab(TypeAtFirst(a), a) \in Range(stabs)
    BY DEF NInv, StabsInv
  <2>2. ASSUME NEW x \in written PROVE x \in {<<a, TypeAtFirst(a)>> : a \in Telling}
    <3>1. PICK k \in DOMAIN stabs : tells(k) /\ x = <<stabs[k].atom, stabs[k].type>>
      OBVIOUS
    <3>2. stabs[k] \in Range(stabs) /\ Told(stabs[k])
      BY <3>1 DEF Range, Told
    <3> QED BY <2>1, <3>1, <3>2
  <2>3. ASSUME NEW a \in Telling PROVE <<a, TypeAtFirst(a)>> \in written
    <3>1. PICK k \in DOMAIN stabs : stabs[k] = Stab(TypeAtFirst(a), a)
      BY <2>1 DEF Range
    <3>2. stabs[k].atom = a /\ stabs[k].type = TypeAtFirst(a)
      BY <3>1 DEF Stab
    <3>3. a \in Firsts
      BY DEF Telling, NotedAtFirst, NotableAtFirst, Firsts, NotableAs
    <3>4. a \notin withStabs /\ a # 0
      BY <3>3, TheAtoms DEF NInv, LInv, Firsts
    <3>5. tells(k)
      BY <3>2, <3>4 DEF TypeAtFirst
    <3> QED BY <3>2, <3>5
  <2>4. written = {<<a, TypeAtFirst(a)>> : a \in Telling}
    BY <2>2, <2>3
  <2> QED BY <2>4 DEF NotesAsIfAlone, Telling
<1> QED BY <1>1, <1>2, <1>3, Invariance, PTL DEF Spec
=============================================================================
