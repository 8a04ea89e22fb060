--------------------------- MODULE ResolverProofs ---------------------------
(***************************************************************************)
(* Proofs about the symbol table and the resolver that fills it: that a    *)
(* slot keeps the best of the atoms of its name, which members of archives *)
(* are loaded, that a link that succeeds has no duplicate symbol, that the *)
(* search goes on until no library defines what is undefined, and that the *)
(* output has one atom of each name.                                       *)
(***************************************************************************)
EXTENDS Resolver, ProofLemmas

-----------------------------------------------------------------------------
(***************************************************************************)
(* The symbol table, for all names, atoms and fixups and in whatever order *)
(* the atoms arrive.                                                       *)
(***************************************************************************)

\* What the slots hold: atoms that were added, or literals a fixup refers to.
BoundAdded ==
  \A k \in Keys : binding[k] # NULL =>
    ~Static(binding[k]) /\ (ByContent(binding[k]) \/ binding[k] \in added)

\* A slot never becomes empty again.
AddedBound == \A a \in added : ~Static(a) => binding[a.key] # NULL

\* An atom that is still to come is not marked, unless it is a literal.
FreshNames ==
  \A a \in Atoms \ added : ~ByContent(a) /\ ~Dependent(a) => a \notin coalesced

\* A literal that lost its slot lost it to one that is at least as aligned.
LostContents ==
  \A a \in Atoms : ByContent(a) /\ ~Dependent(a) /\ a \in coalesced =>
    /\ binding[a.key] # NULL
    /\ binding[a.key] # a
    /\ a.alignment <= binding[a.key].alignment

\* The inductive invariant behind TableTypeOK and BoundOrCoalesced.
TInv ==
  /\ TableTypeOK /\ BoundAdded /\ AddedBound
  /\ FreshNames /\ LostContents /\ BoundOrCoalesced

-----------------------------------------------------------------------------
(***************************************************************************)
(* What one step does to the slots.                                        *)
(***************************************************************************)

\* BindReferences fills empty slots only, and only with literals.
LEMMA References ==
  ASSUME NEW a \in Atoms, NEW table \in [Keys -> Atoms \cup {NULL}],
         BindReferences(a, table)
  PROVE  /\ binding' \in [Keys -> Atoms \cup {NULL}]
         /\ \A k \in Keys :
              \/ binding'[k] = table[k]
              \/ /\ table[k] = NULL /\ k \notin slots /\ binding'[k] # NULL
                 /\ binding'[k] \in ContentRefs[a]
                 /\ binding'[k] \in Atoms
                 /\ binding'[k].key = k /\ ByContent(binding'[k])
<1>1. ASSUME NEW k \in Keys, \E t \in ContentRefs[a] : t.key = k
      PROVE  LET t == CHOOSE t \in ContentRefs[a] : t.key = k
             IN  /\ t \in ContentRefs[a] /\ t \in Atoms
                 /\ t.key = k /\ ByContent(t) /\ t # NULL
  BY <1>1, AtomsAssumption
<1>2. binding' = [k \in Keys |->
                    IF /\ k \notin slots /\ table[k] = NULL
                       /\ \E t \in ContentRefs[a] : t.key = k
                    THEN CHOOSE t \in ContentRefs[a] : t.key = k
                    ELSE table[k]]
  BY DEF BindReferences
<1>3. ASSUME NEW k \in Keys
      PROVE  /\ binding'[k] \in Atoms \cup {NULL}
             /\ \/ binding'[k] = table[k]
                \/ /\ table[k] = NULL /\ k \notin slots /\ binding'[k] # NULL
                   /\ binding'[k] \in ContentRefs[a]
                   /\ binding'[k] \in Atoms
                   /\ binding'[k].key = k /\ ByContent(binding'[k])
  <2>1. CASE /\ k \notin slots /\ table[k] = NULL
             /\ \E t \in ContentRefs[a] : t.key = k
    <3>1. binding'[k] = CHOOSE t \in ContentRefs[a] : t.key = k
      BY <1>2, <2>1
    <3> QED BY <1>1, <2>1, <3>1
  <2>2. CASE ~(/\ k \notin slots /\ table[k] = NULL
               /\ \E t \in ContentRefs[a] : t.key = k)
    BY <1>2, <2>2
  <2> QED BY <2>1, <2>2
<1> QED BY <1>2, <1>3

\* The cases of DoAtom that do not throw: the table that BindReferences starts
\* from and the atom that is marked.
LEMMA DoAtomCases ==
  ASSUME TableTypeOK, NEW a \in Atoms, DoAtom(a), thrown' = FALSE
  PROVE  /\ added' = added \cup {a}
         /\ slots' = slots \cup (IF Static(a) THEN {} ELSE {a.key})
                       \cup a.refs \cup {t.key : t \in ContentRefs[a]}
         /\ initialDone' = initialDone
         /\ \/ /\ Static(a)
               /\ BindReferences(a, binding) /\ coalesced' = coalesced
               /\ dupErrors' = dupErrors /\ dupWarnings' = dupWarnings
            \/ /\ ~Static(a) /\ binding[a.key] = NULL
               /\ BindReferences(a, WithAtom(a)) /\ coalesced' = coalesced
               /\ dupErrors' = dupErrors /\ dupWarnings' = dupWarnings
            \/ /\ ~Static(a) /\ ByContent(a)
               /\ binding[a.key] # NULL
               /\ a.alignment > binding[a.key].alignment
               /\ BindReferences(a, WithAtom(a))
               /\ MarkCoalescedAway(binding[a.key])
               /\ dupErrors' = dupErrors /\ dupWarnings' = dupWarnings
            \/ /\ ~Static(a) /\ ByContent(a)
               /\ binding[a.key] # NULL
               /\ a.alignment <= binding[a.key].alignment
               /\ BindReferences(a, binding)
               /\ IF binding[a.key] = a THEN coalesced' = coalesced
                  ELSE MarkCoalescedAway(a)
               /\ dupErrors' = dupErrors /\ dupWarnings' = dupWarnings
            \/ /\ ~Static(a) /\ ~ByContent(a)
               /\ binding[a.key] # NULL
               /\ "A" \in Chosen(a, binding[a.key], Treatment)
               /\ BindReferences(a, WithAtom(a))
               /\ MarkCoalescedAway(binding[a.key])
               /\ RecordDuplicates(a, binding[a.key])
            \/ /\ ~Static(a) /\ ~ByContent(a)
               /\ binding[a.key] # NULL
               /\ "B" \in Chosen(a, binding[a.key], Treatment)
               /\ BindReferences(a, binding) /\ MarkCoalescedAway(a)
               /\ RecordDuplicates(a, binding[a.key])
<1>1. a.key \in Keys /\ a.alignment \in Nat
  BY AtomsAssumption DEF Keys
<1>2. binding[a.key] # NULL => binding[a.key] \in Atoms
                               /\ binding[a.key].alignment \in Nat
  BY <1>1, AtomsAssumption DEF TableTypeOK
<1>3. /\ added' = added \cup {a}
      /\ slots' = slots \cup (IF Static(a) THEN {} ELSE {a.key})
                    \cup a.refs \cup {t.key : t \in ContentRefs[a]}
      /\ initialDone' = initialDone
  BY DEF DoAtom, OwnSlot
<1>4. CASE Static(a)
  BY <1>3, <1>4 DEF DoAtom, SkipStatic
<1>5. CASE ~Static(a) /\ ByContent(a)
  <2>1. AddByContent(a)
    BY <1>5 DEF DoAtom
  <2> QED BY <1>1, <1>2, <1>3, <1>5, <2>1 DEF AddByContent
<1>6. CASE ~Static(a) /\ ~ByContent(a)
  <2>1. AddByName(a)
    BY <1>6 DEF DoAtom
  <2>2. CASE binding[a.key] = NULL
    BY <1>3, <1>6, <2>1, <2>2 DEF AddByName
  <2>3. CASE binding[a.key] # NULL
    <3>1. Chosen(a, binding[a.key], Treatment) # Throws
      BY <2>1, <2>3 DEF AddByName
    <3> QED BY <1>3, <1>6, <2>1, <2>3, <3>1
            DEF AddByName
  <2> QED BY <2>2, <2>3
<1> QED BY <1>4, <1>5, <1>6

\* A step that throws makes a slot at most.
LEMMA DoAtomThrows ==
  ASSUME TableTypeOK, NEW a \in Atoms, DoAtom(a), thrown' # FALSE, thrown = FALSE
  PROVE  /\ thrown' = TRUE
         /\ slots' = slots \cup {a.key}
         /\ UNCHANGED <<binding, added, coalesced, dupErrors, dupWarnings,
                        initialDone>>
<1>1. ~Static(a) /\ ~ByContent(a)
  BY DEF DoAtom, SkipStatic, AddByContent
<1>2. AddByName(a)
  BY <1>1 DEF DoAtom
<1> QED BY <1>1, <1>2 DEF AddByName, DoAtom, OwnSlot

-----------------------------------------------------------------------------
(***************************************************************************)
(* The inductive invariant.                                                *)
(***************************************************************************)

\* The slot of an atom's key and its place among names and contents.
LEMMA AtomKey ==
  ASSUME NEW a \in Atoms
  PROVE  /\ a.key \in Keys /\ a # NULL /\ a.alignment \in Nat
         /\ ByContent(a) => a.key \in Contents /\ a.key \notin Names /\ ~Static(a)
         /\ ~ByContent(a) => a.key \in Names /\ a.key \notin Contents
         /\ a.refs \subseteq Names
         /\ {t.key : t \in ContentRefs[a]} \subseteq Keys
         /\ Subordinates[a] \subseteq Atoms
         /\ \A s \in Subordinates[a] : Dependent(s)
BY AtomsAssumption DEF Keys, Dependent

\* The atom a slot holds.
LEMMA BoundAtom ==
  ASSUME TInv, NEW k \in Keys, binding[k] # NULL
  PROVE  /\ binding[k] \in Atoms /\ binding[k].key = k /\ k \in slots
         /\ ~Static(binding[k])
         /\ k \in Names => binding[k] \in added /\ ~ByContent(binding[k])
<1>1. binding[k] \in Atoms /\ binding[k].key = k /\ k \in slots
  BY DEF TInv, TableTypeOK
<1>2. k \in Names => ~ByContent(binding[k])
  BY <1>1, AtomKey
<1> QED BY <1>1, <1>2 DEF TInv, BoundAdded

\* What RecordDuplicates does to the lists of one name.
LEMMA Recorded ==
  ASSUME TInv, NEW a \in Atoms, a.key \in Names, NEW b \in Atoms,
         RecordDuplicates(a, b)
  PROVE  /\ dupErrors' \in [Names -> SUBSET Atoms]
         /\ dupWarnings' \in [Names -> SUBSET Atoms]
         /\ \A n \in Names : /\ dupErrors[n] \subseteq dupErrors'[n]
                             /\ dupWarnings[n] \subseteq dupWarnings'[n]
         /\ ReportDuplicate(a, b, Treatment) /\ Treatment # "suppress" =>
              \E x, y \in dupErrors'[a.key] \cup dupWarnings'[a.key] :
                x.path = a.path /\ y.path = b.path
<1> DEFINE with(list) == [list EXCEPT ![a.key] =
                            AddDuplicate(AddDuplicate(@, b), a)]
<1>1. ASSUME NEW s \in SUBSET Atoms
      PROVE  LET t == AddDuplicate(AddDuplicate(s, b), a)
             IN  /\ t \in SUBSET Atoms /\ s \subseteq t
                 /\ \E x, y \in t : x.path = a.path /\ y.path = b.path
  BY DEF AddDuplicate
<1>2. ASSUME NEW list \in [Names -> SUBSET Atoms]
      PROVE  /\ with(list) \in [Names -> SUBSET Atoms]
             /\ \A n \in Names : list[n] \subseteq with(list)[n]
             /\ \E x, y \in with(list)[a.key] :
                  x.path = a.path /\ y.path = b.path
  BY <1>1
<1>3. dupErrors \in [Names -> SUBSET Atoms] /\ dupWarnings \in [Names -> SUBSET Atoms]
  BY DEF TInv, TableTypeOK
<1>4. /\ dupErrors' = IF ReportDuplicate(a, b, Treatment) /\ Treatment = "error"
                      THEN with(dupErrors) ELSE dupErrors
      /\ dupWarnings' = IF ReportDuplicate(a, b, Treatment) /\ Treatment = "warning"
                        THEN with(dupWarnings) ELSE dupWarnings
  BY DEF RecordDuplicates
<1>5. Treatment \in {"error", "warning", "suppress"}
  BY DEF Treatment
<1> HIDE DEF with
<1> QED BY <1>2, <1>3, <1>4, <1>5

\* The initial table satisfies the invariant.
LEMMA InitTInv == TableInit => TInv
BY DEF TableInit, TInv, TableTypeOK, BoundAdded, AddedBound, FreshNames,
       LostContents, BoundOrCoalesced

\* One more atom, none of whose collisions throws, keeps the invariant.
LEMMA DoAtomTInv ==
  ASSUME TInv, NEW a \in Atoms, a \notin added, DoAtom(a), thrown = FALSE,
         thrown' = FALSE
  PROVE  TInv'
<1> USE AtomKey
<1>0. TableTypeOK /\ binding \in [Keys -> Atoms \cup {NULL}]
  BY DEF TInv, TableTypeOK
<1>1. WithAtom(a) \in [Keys -> Atoms \cup {NULL}]
  BY <1>0 DEF WithAtom
<1>2. \A k \in Keys : WithAtom(a)[k] = IF k = a.key THEN a ELSE binding[k]
  BY <1>0 DEF WithAtom
<1>3. added' = added \cup {a}
  BY <1>0, DoAtomCases
<1>4. slots' = slots \cup (IF Static(a) THEN {} ELSE {a.key})
                 \cup a.refs \cup {t.key : t \in ContentRefs[a]}
  BY <1>0, DoAtomCases
<1> DEFINE Filled(k) == /\ k \notin slots /\ binding'[k] # NULL
                        /\ binding'[k] \in ContentRefs[a]
                        /\ binding'[k] \in Atoms
                        /\ binding'[k].key = k /\ ByContent(binding'[k])
\* Every slot but a's: kept, or filled with a literal.
<1>5. /\ binding' \in [Keys -> Atoms \cup {NULL}]
      /\ \A k \in Keys : k # a.key => \/ binding'[k] = binding[k]
                                      \/ binding[k] = NULL /\ Filled(k)
  <2>1. BindReferences(a, binding) \/ BindReferences(a, WithAtom(a))
    BY <1>0, DoAtomCases
  <2> QED BY <2>1, <1>0, <1>1, <1>2, References
\* a's slot.
<1>6. \/ /\ Static(a) /\ coalesced' = coalesced
         /\ \/ binding'[a.key] = binding[a.key]
            \/ binding[a.key] = NULL /\ Filled(a.key)
      \/ /\ ~Static(a) /\ binding[a.key] = NULL /\ binding'[a.key] = a
         /\ coalesced' = coalesced
      \/ /\ ~Static(a) /\ binding[a.key] # NULL /\ binding'[a.key] = a
         /\ binding[a.key] # a
         /\ coalesced' = coalesced \cup {binding[a.key]} \cup Subordinates[binding[a.key]]
         /\ ByContent(a) => a.alignment > binding[a.key].alignment
      \/ /\ ~Static(a) /\ binding[a.key] # NULL /\ binding[a.key] # a
         /\ binding'[a.key] = binding[a.key]
         /\ coalesced' = coalesced \cup {a} \cup Subordinates[a]
         /\ ByContent(a) => a.alignment <= binding[a.key].alignment
      \/ /\ ~Static(a) /\ binding[a.key] = a /\ binding'[a.key] = a /\ ByContent(a)
         /\ coalesced' = coalesced
  <2>1. binding[a.key] # NULL => /\ binding[a.key].alignment \in Nat
                                 /\ ~ByContent(a) => binding[a.key] # a
    BY BoundAtom
  <2>2. ASSUME BindReferences(a, binding)
        PROVE  \/ binding'[a.key] = binding[a.key]
               \/ binding[a.key] = NULL /\ Filled(a.key)
    BY <2>2, <1>0, References
  <2>3. ASSUME BindReferences(a, WithAtom(a)) PROVE binding'[a.key] = a
    BY <2>3, <1>1, <1>2, References
  <2>4. a.alignment \in Nat
    OBVIOUS
  <2> HIDE AtomKey DEF Filled
  <2>5. CASE Static(a) /\ BindReferences(a, binding) /\ coalesced' = coalesced
    BY <2>2, <2>5
  <2>6. CASE /\ ~Static(a) /\ binding[a.key] = NULL
             /\ BindReferences(a, WithAtom(a)) /\ coalesced' = coalesced
    BY <2>3, <2>6
  <2>7. CASE /\ ~Static(a) /\ binding[a.key] # NULL
             /\ ~ByContent(a) \/ a.alignment > binding[a.key].alignment
             /\ BindReferences(a, WithAtom(a))
             /\ MarkCoalescedAway(binding[a.key])
    BY <2>1, <2>3, <2>4, <2>7 DEF MarkCoalescedAway
  <2>8. CASE /\ ~Static(a) /\ binding[a.key] # NULL /\ binding[a.key] # a
             /\ ~ByContent(a) \/ a.alignment <= binding[a.key].alignment
             /\ BindReferences(a, binding)
             /\ MarkCoalescedAway(a)
    BY <2>2, <2>8 DEF MarkCoalescedAway
  <2>9. CASE /\ ~Static(a) /\ ByContent(a) /\ binding[a.key] = a
             /\ BindReferences(a, binding) /\ coalesced' = coalesced
             /\ binding[a.key] # NULL
    BY <2>2, <2>9
  <2>10. \/ Static(a) /\ BindReferences(a, binding) /\ coalesced' = coalesced
         \/ /\ ~Static(a) /\ binding[a.key] = NULL
            /\ BindReferences(a, WithAtom(a)) /\ coalesced' = coalesced
         \/ /\ ~Static(a) /\ binding[a.key] # NULL
            /\ ~ByContent(a) \/ a.alignment > binding[a.key].alignment
            /\ BindReferences(a, WithAtom(a))
            /\ MarkCoalescedAway(binding[a.key])
         \/ /\ ~Static(a) /\ binding[a.key] # NULL /\ binding[a.key] # a
            /\ ~ByContent(a) \/ a.alignment <= binding[a.key].alignment
            /\ BindReferences(a, binding)
            /\ MarkCoalescedAway(a)
         \/ /\ ~Static(a) /\ ByContent(a) /\ binding[a.key] = a
            /\ BindReferences(a, binding) /\ coalesced' = coalesced
            /\ binding[a.key] # NULL
    BY <2>1, <1>0, DoAtomCases
  <2> QED BY <2>5, <2>6, <2>7, <2>8, <2>9, <2>10
<1>7. binding[a.key] # NULL =>
        /\ binding[a.key] \in Atoms /\ binding[a.key].key = a.key
        /\ binding[a.key].alignment \in Nat
        /\ ~Static(binding[a.key])
        /\ ~ByContent(a) => binding[a.key] \in added /\ ~ByContent(binding[a.key])
  BY BoundAtom
<1>8. TableTypeOK'
  <2>1. slots' \subseteq Keys /\ added' \subseteq Atoms
    BY <1>0, <1>3, <1>4 DEF TableTypeOK, Keys
  <2>2. coalesced' \subseteq Atoms
    BY <1>0, <1>6, <1>7 DEF TableTypeOK
  <2>3. ASSUME NEW k \in Keys, binding'[k] # NULL
        PROVE  binding'[k].key = k /\ k \in slots'
    <3>1. binding[k] # NULL => binding[k].key = k /\ k \in slots
      BY <1>0 DEF TableTypeOK
    <3>2. Filled(k) => k \in slots'
      BY <1>4
    <3> QED BY <2>3, <3>1, <3>2, <1>4, <1>5, <1>6
  <2>4. dupErrors' \in [Names -> SUBSET Atoms] /\ dupWarnings' \in [Names -> SUBSET Atoms]
    <3>1. \/ dupErrors' = dupErrors /\ dupWarnings' = dupWarnings
          \/ /\ ~ByContent(a) /\ binding[a.key] # NULL
             /\ RecordDuplicates(a, binding[a.key])
      BY <1>0, DoAtomCases
    <3>2. CASE dupErrors' = dupErrors /\ dupWarnings' = dupWarnings
      BY <3>2, <1>0 DEF TableTypeOK
    <3>3. CASE /\ ~ByContent(a) /\ binding[a.key] # NULL
               /\ RecordDuplicates(a, binding[a.key])
      BY <3>3, <1>7, Recorded
    <3> QED BY <3>1, <3>2, <3>3
  <2>5. initialDone' \in BOOLEAN /\ thrown' \in BOOLEAN
    BY <1>0, DoAtomCases DEF TableTypeOK
  <2> QED BY <2>1, <2>2, <2>3, <2>4, <2>5, <1>5 DEF TableTypeOK
<1>9. BoundAdded'
  <2> SUFFICES ASSUME NEW k \in Keys, binding'[k] # NULL
               PROVE  /\ ~Static(binding'[k])
                      /\ ByContent(binding'[k]) \/ binding'[k] \in added'
    BY DEF BoundAdded, Static, ByContent
  <2>1. binding[k] # NULL => /\ ~Static(binding[k])
                             /\ ByContent(binding[k]) \/ binding[k] \in added
    BY DEF TInv, BoundAdded
  <2> QED BY <2>1, <1>3, <1>5, <1>6
<1>10. AddedBound'
  <2> SUFFICES ASSUME NEW b \in added', ~Static(b) PROVE binding'[b.key] # NULL
    BY DEF AddedBound, Static
  <2>1. b \in added => binding[b.key] # NULL /\ b.key \in Keys
    BY <1>0 DEF TInv, AddedBound, TableTypeOK
  <2> QED BY <2>1, <1>3, <1>5, <1>6
<1>11. FreshNames'
  <2> SUFFICES ASSUME NEW b \in Atoms \ added', ~ByContent(b), ~Dependent(b)
               PROVE  b \notin coalesced'
    BY DEF FreshNames, ByContent, Dependent
  <2>1. b \notin coalesced /\ b \notin added /\ b # a
    BY <1>3 DEF TInv, FreshNames
  <2>2. b \notin Subordinates[a]
    BY DEF Dependent
  <2>3. binding[a.key] # NULL => b # binding[a.key] /\ b \notin Subordinates[binding[a.key]]
    <3>1. CASE ByContent(a)
      <4>1. binding[a.key] # NULL => binding[a.key].key \notin Names
        BY <3>1, <1>7
      <4> QED BY <4>1, <1>7 DEF Dependent
    <3>2. CASE ~ByContent(a)
      BY <3>2, <2>1, <1>7 DEF Dependent
    <3> QED BY <3>1, <3>2
  <2> QED BY <2>1, <2>2, <2>3, <1>6
<1>12. LostContents'
  <2> SUFFICES ASSUME NEW b \in Atoms, ByContent(b), ~Dependent(b), b \in coalesced'
               PROVE  /\ binding'[b.key] # NULL
                      /\ binding'[b.key] # b
                      /\ b.alignment <= binding'[b.key].alignment
    BY DEF LostContents, ByContent, Dependent
  <2>1. b \in coalesced => /\ binding[b.key] # NULL
                           /\ binding[b.key] # b
                           /\ b.alignment <= binding[b.key].alignment
    BY DEF TInv, LostContents
  <2>2. CASE b \in coalesced /\ b.key # a.key
    BY <2>1, <2>2, <1>5
  <2>3. CASE b \in coalesced /\ b.key = a.key
    <3>1. ByContent(a)
      BY <2>3
    <3> QED BY <2>1, <2>3, <3>1, <1>6, <1>7
  <2>4. CASE b \notin coalesced
    <3>1. b \notin Subordinates[a]
      BY DEF Dependent
    <3>2. binding[a.key] # NULL => b \notin Subordinates[binding[a.key]]
      BY <1>7 DEF Dependent
    <3>3. \/ b = a
          \/ binding[a.key] # NULL /\ b = binding[a.key]
      BY <2>4, <3>1, <3>2, <1>6
    <3>4. ByContent(a)
      BY <3>3, <1>7
    <3> QED BY <2>4, <3>1, <3>2, <3>3, <3>4, <1>6, <1>7
  <2> QED BY <2>2, <2>3, <2>4
<1>13. BoundOrCoalesced'
  <2> SUFFICES ASSUME NEW b \in added', ~Static(b), ~Dependent(b)
               PROVE  (binding'[b.key] = b) <=> (b \notin coalesced')
    BY DEF BoundOrCoalesced, Static, Dependent
  <2>0. b \in Atoms
    BY <1>3, <1>0 DEF TableTypeOK
  <2>1. b \in added => ((binding[b.key] = b) <=> (b \notin coalesced))
    BY DEF TInv, BoundOrCoalesced
  <2>2. b \notin Subordinates[a]
    BY DEF Dependent
  <2>3. binding[a.key] # NULL => b \notin Subordinates[binding[a.key]]
    BY <1>7 DEF Dependent
  <2>4. b \in coalesced /\ ByContent(b) =>
          /\ binding[b.key] # NULL
          /\ binding[b.key] # b
          /\ b.alignment <= binding[b.key].alignment
    BY <2>0 DEF TInv, LostContents
  <2>5. CASE b = a
    <3>1. CASE ByContent(a)
      <4>1. ByContent(b)
        BY <2>5, <3>1
      <4> QED BY <2>0, <2>2, <2>3, <2>4, <2>5, <4>1, <1>6, <1>7
    <3>2. CASE ~ByContent(a)
      <4>1. a \notin coalesced
        BY <3>2, <2>5 DEF TInv, FreshNames
      <4>2. binding[a.key] # NULL => binding[a.key] # a
        BY <3>2, <1>7
      <4> QED BY <2>2, <2>3, <2>5, <4>1, <4>2, <3>2, <1>6, <1>7
    <3> QED BY <3>1, <3>2
  <2>6. CASE b # a /\ b.key = a.key
    <3>1. b \in added
      BY <2>6, <1>3
    <3>2. binding[a.key] # NULL
      BY <2>6, <3>1 DEF TInv, AddedBound
    <3> QED BY <2>0, <2>1, <2>2, <2>3, <2>6, <3>1, <3>2, <1>6
  <2>7. CASE b # a /\ b.key # a.key
    <3>1. b \in added
      BY <2>7, <1>3
    <3>2. binding[b.key] # NULL
      BY <3>1 DEF TInv, AddedBound
    <3>3. binding'[b.key] = binding[b.key]
      BY <2>0, <2>7, <3>2, <1>5
    <3>4. binding[a.key] # NULL => b # binding[a.key]
      BY <2>7, <1>7
    <3> QED BY <2>1, <2>2, <2>3, <2>7, <3>1, <3>3, <3>4, <1>6
  <2> QED BY <2>5, <2>6, <2>7
<1> QED BY <1>8, <1>9, <1>10, <1>11, <1>12, <1>13 DEF TInv

\* Every step of the table keeps the invariant.
LEMMA NextTInv == TInv /\ [TableNext]_tableVars => TInv'
<1> SUFFICES ASSUME TInv, [TableNext]_tableVars PROVE TInv'
  OBVIOUS
<1> USE DEF TInv, TableTypeOK, BoundAdded, AddedBound, FreshNames, LostContents,
            BoundOrCoalesced, Static, ByContent, Dependent
<1>1. CASE UNCHANGED tableVars
  BY <1>1 DEF tableVars
<1>2. ASSUME NEW n \in Names, FindSlotForName(n) PROVE TInv'
  BY <1>2 DEF FindSlotForName, Keys
<1>3. CASE CompleteInitialFiles
  BY <1>3 DEF CompleteInitialFiles
<1>4. ASSUME NEW a \in Atoms, ~thrown, MayArrive(a), DoAtom(a) PROVE TInv'
  <2>1. thrown = FALSE
    BY <1>4
  <2>2. CASE thrown' = FALSE
    BY <1>4, <2>1, <2>2, DoAtomTInv DEF MayArrive
  <2>3. CASE thrown' # FALSE
    <3>1. /\ thrown' = TRUE /\ slots' = slots \cup {a.key}
          /\ UNCHANGED <<binding, added, coalesced, dupErrors, dupWarnings,
                         initialDone>>
      BY <1>4, <2>1, <2>3, DoAtomThrows
    <3>2. a.key \in Keys
      BY AtomKey
    <3> QED BY <3>1, <3>2
  <2> QED BY <2>2, <2>3
<1> QED BY <1>1, <1>2, <1>3, <1>4 DEF TableNext

\* Every reachable state satisfies the invariant.
LEMMA Invariance == TableSpec => []TInv
BY InitTInv, NextTInv, PTL DEF TableSpec

\* Every slot holds an atom of its own key or nothing, and the lists, marks and
\* slots stay within their sets (the types of SymbolTable's members).
THEOREM TableTypeCorrect == TableSpec => []TableTypeOK
<1>1. TInv => TableTypeOK
  BY DEF TInv
<1> QED BY <1>1, Invariance, PTL

\* The table and removeCoalescedAwayAtoms agree about every atom: one that was
\* added is bound or marked, never both and never neither.
THEOREM BoundXorCoalesced == TableSpec => []BoundOrCoalesced
<1>1. TInv => BoundOrCoalesced
  BY DEF TInv
<1> QED BY <1>1, Invariance, PTL

-----------------------------------------------------------------------------
(***************************************************************************)
(* Which definition of a name wins.                                        *)
(***************************************************************************)

\* What a step does to one name: nothing, its first atom, or a collision that
\* keeps one of the two atoms Chosen allows and lists the duplicates.
LEMMA NameStep ==
  ASSUME TInv, [TableNext]_tableVars, NEW n \in Names
  PROVE  \/ /\ AtomsOf(n)' = AtomsOf(n) /\ binding'[n] = binding[n]
            /\ dupErrors[n] \subseteq dupErrors'[n]
            /\ dupWarnings[n] \subseteq dupWarnings'[n]
         \/ \E a \in Atoms :
              /\ AtomsOf(n)' = {a} /\ AtomsOf(n) = {} /\ binding'[n] = a
         \/ \E a \in Atoms :
              /\ ~Static(a) /\ a \notin AtomsOf(n)
              /\ AtomsOf(n)' = AtomsOf(n) \cup {a}
              /\ binding[n] \in AtomsOf(n) /\ a.key = n
              /\ \/ "A" \in Chosen(a, binding[n], Treatment) /\ binding'[n] = a
                 \/ /\ "B" \in Chosen(a, binding[n], Treatment)
                    /\ binding'[n] = binding[n]
              /\ dupErrors[n] \subseteq dupErrors'[n]
              /\ dupWarnings[n] \subseteq dupWarnings'[n]
              /\ ReportDuplicate(a, binding[n], Treatment) /\ Treatment # "suppress"
                   => \E x, y \in dupErrors'[n] \cup dupWarnings'[n] :
                        x.path = a.path /\ y.path = binding[n].path
<1> DEFINE Same == /\ AtomsOf(n)' = AtomsOf(n) /\ binding'[n] = binding[n]
                   /\ dupErrors[n] \subseteq dupErrors'[n]
                   /\ dupWarnings[n] \subseteq dupWarnings'[n]
<1>1. CASE UNCHANGED tableVars
  BY <1>1 DEF tableVars, AtomsOf, Static
<1>2. ASSUME NEW m \in Names, FindSlotForName(m) PROVE Same
  BY <1>2 DEF FindSlotForName, AtomsOf, Static
<1>3. CASE CompleteInitialFiles
  BY <1>3 DEF CompleteInitialFiles, AtomsOf, Static
<1>4. ASSUME NEW a \in Atoms, ~thrown, MayArrive(a), DoAtom(a), thrown' # FALSE
      PROVE  Same
  <2>1. TableTypeOK /\ thrown = FALSE
    BY <1>4 DEF TInv
  <2> QED BY <1>4, <2>1, DoAtomThrows DEF AtomsOf, Static
<1>5. ASSUME NEW a \in Atoms, ~thrown, MayArrive(a), DoAtom(a), thrown' = FALSE,
             a.key # n \/ Static(a)
      PROVE  Same
  <2>1. TableTypeOK /\ binding \in [Keys -> Atoms \cup {NULL}] /\ n \in Keys
    BY DEF TInv, TableTypeOK, Keys
  <2>2. added' = added \cup {a}
    BY <1>5, <2>1, DoAtomCases
  <2>3. AtomsOf(n)' = AtomsOf(n)
    BY <1>5, <2>2 DEF AtomsOf, Static
  <2>4. \/ BindReferences(a, binding)
        \/ BindReferences(a, WithAtom(a)) /\ ~Static(a)
    BY <1>5, <2>1, DoAtomCases
  <2>5. /\ WithAtom(a) \in [Keys -> Atoms \cup {NULL}]
        /\ a.key # n => WithAtom(a)[n] = binding[n]
    BY <2>1, AtomKey DEF WithAtom
  <2>6. binding'[n] = binding[n]
    <3>1. ASSUME binding'[n] \in Atoms, binding'[n].key = n, ByContent(binding'[n])
          PROVE  FALSE
      BY <3>1, AtomKey
    <3> QED BY <1>5, <2>1, <2>4, <2>5, <3>1, References
  <2>7. \/ dupErrors' = dupErrors /\ dupWarnings' = dupWarnings
        \/ /\ ~ByContent(a) /\ binding[a.key] # NULL
           /\ RecordDuplicates(a, binding[a.key])
    BY <1>5, <2>1, DoAtomCases
  <2>8. /\ dupErrors[n] \subseteq dupErrors'[n]
        /\ dupWarnings[n] \subseteq dupWarnings'[n]
    <3>1. CASE dupErrors' = dupErrors /\ dupWarnings' = dupWarnings
      BY <3>1
    <3>2. CASE /\ ~ByContent(a) /\ binding[a.key] # NULL
               /\ RecordDuplicates(a, binding[a.key])
      <4>1. a.key \in Names /\ a.key \in Keys
        BY <3>2, AtomKey
      <4>2. binding[a.key] \in Atoms
        BY <3>2, <4>1, BoundAtom
      <4> QED BY <3>2, <4>1, <4>2, Recorded
    <3> QED BY <2>7, <3>1, <3>2
  <2> QED BY <2>3, <2>6, <2>8
<1>6. ASSUME NEW a \in Atoms, ~thrown, MayArrive(a), DoAtom(a), thrown' = FALSE,
             a.key = n, ~Static(a), binding[n] = NULL
      PROVE  AtomsOf(n)' = {a} /\ AtomsOf(n) = {} /\ binding'[n] = a
  <2>1. TableTypeOK /\ binding \in [Keys -> Atoms \cup {NULL}] /\ n \in Keys
    BY DEF TInv, TableTypeOK, Keys
  <2>2. added' = added \cup {a} /\ BindReferences(a, WithAtom(a))
    BY <1>6, <2>1, DoAtomCases
  <2>3. AtomsOf(n) = {}
    BY <1>6 DEF AtomsOf, TInv, AddedBound
  <2>4. WithAtom(a) \in [Keys -> Atoms \cup {NULL}] /\ WithAtom(a)[n] = a /\ a # NULL
    BY <1>6, <2>1, AtomKey DEF WithAtom
  <2>5. binding'[n] = a
    BY <2>1, <2>2, <2>4, References
  <2>6. AtomsOf(n)' = AtomsOf(n) \cup {a}
    BY <1>6, <2>2 DEF AtomsOf, Static
  <2> QED BY <2>3, <2>5, <2>6
<1>7. ASSUME NEW a \in Atoms, ~thrown, MayArrive(a), DoAtom(a), thrown' = FALSE,
             a.key = n, ~Static(a), binding[n] # NULL
      PROVE  /\ a \notin AtomsOf(n)
             /\ AtomsOf(n)' = AtomsOf(n) \cup {a}
             /\ binding[n] \in AtomsOf(n)
             /\ \/ "A" \in Chosen(a, binding[n], Treatment) /\ binding'[n] = a
                \/ /\ "B" \in Chosen(a, binding[n], Treatment)
                   /\ binding'[n] = binding[n]
             /\ dupErrors[n] \subseteq dupErrors'[n]
             /\ dupWarnings[n] \subseteq dupWarnings'[n]
             /\ ReportDuplicate(a, binding[n], Treatment) /\ Treatment # "suppress"
                  => \E x, y \in dupErrors'[n] \cup dupWarnings'[n] :
                       x.path = a.path /\ y.path = binding[n].path
  <2>1. TableTypeOK /\ binding \in [Keys -> Atoms \cup {NULL}] /\ n \in Keys
    BY DEF TInv, TableTypeOK, Keys
  <2>2. ~ByContent(a)
    BY <1>7, AtomKey
  <2>3. /\ added' = added \cup {a} /\ RecordDuplicates(a, binding[n])
        /\ \/ "A" \in Chosen(a, binding[n], Treatment) /\ BindReferences(a, WithAtom(a))
           \/ "B" \in Chosen(a, binding[n], Treatment) /\ BindReferences(a, binding)
    BY <1>7, <2>1, <2>2, DoAtomCases
  <2>4. binding[n] \in Atoms /\ binding[n] \in AtomsOf(n)
    BY <1>7, <2>1, BoundAtom DEF AtomsOf
  <2>5. WithAtom(a) \in [Keys -> Atoms \cup {NULL}] /\ WithAtom(a)[n] = a /\ a # NULL
    BY <1>7, <2>1, AtomKey DEF WithAtom
  <2>6. \/ "A" \in Chosen(a, binding[n], Treatment) /\ binding'[n] = a
        \/ "B" \in Chosen(a, binding[n], Treatment) /\ binding'[n] = binding[n]
    BY <1>7, <2>1, <2>3, <2>5, References
  <2>7. AtomsOf(n)' = AtomsOf(n) \cup {a}
    BY <1>7, <2>3 DEF AtomsOf, Static
  <2>8. a \notin AtomsOf(n)
    BY <1>7 DEF MayArrive, AtomsOf
  <2>9. /\ dupErrors[n] \subseteq dupErrors'[n]
        /\ dupWarnings[n] \subseteq dupWarnings'[n]
        /\ ReportDuplicate(a, binding[n], Treatment) /\ Treatment # "suppress"
             => \E x, y \in dupErrors'[n] \cup dupWarnings'[n] :
                  x.path = a.path /\ y.path = binding[n].path
    BY <1>7, <2>3, <2>4, Recorded
  <2> QED BY <2>4, <2>6, <2>7, <2>8, <2>9
<1> QED
  <2>1. CASE \E a \in Atoms : ~thrown /\ MayArrive(a) /\ DoAtom(a)
    <3>1. PICK a \in Atoms : ~thrown /\ MayArrive(a) /\ DoAtom(a)
      BY <2>1
    <3> HIDE DEF Same
    <3>2. \/ Same
          \/ AtomsOf(n)' = {a} /\ AtomsOf(n) = {} /\ binding'[n] = a
          \/ /\ a.key = n /\ ~Static(a) /\ binding[n] # NULL /\ thrown' = FALSE
      BY <3>1, <1>4, <1>5, <1>6
    <3> USE DEF Same
    <3>3. CASE Same
      BY <3>3
    <3>4. CASE AtomsOf(n)' = {a} /\ AtomsOf(n) = {} /\ binding'[n] = a
      BY <3>4
    <3>5. CASE a.key = n /\ ~Static(a) /\ binding[n] # NULL /\ thrown' = FALSE
      BY <3>1, <3>5, <1>7
    <3> QED BY <3>2, <3>3, <3>4, <3>5
  <2> QED BY <2>1, <1>1, <1>2, <1>3 DEF TableNext

\* A collision between a strong definition and one that is not absolute keeps
\* a strong one.
LEMMA StrongKept ==
  ASSUME NEW a \in Atoms, NEW b \in Atoms, NEW d, Strong(a) \/ Strong(b),
         a.definition # "absolute", b.definition # "absolute"
  PROVE  /\ "A" \in Chosen(a, b, d) => Strong(a)
         /\ "B" \in Chosen(a, b, d) => Strong(b)
<1>1. /\ a.definition \in {"regular", "tentative", "proxy"}
      /\ b.definition \in {"regular", "tentative", "proxy"}
  BY AtomsAssumption
<1>2. CASE a.definition = "regular" /\ b.definition = "regular"
  <2>1. Chosen(a, b, d) = PickBetweenRegularAtoms(a, b, d)
    BY <1>2 DEF Chosen
  <2> QED BY <1>2, <2>1 DEF PickBetweenRegularAtoms, Strong, PickAtomA, PickAtomB
<1>3. CASE a.definition = "regular" /\ b.definition # "regular"
  <2>1. Chosen(a, b, d) = PickAtomA
    BY <1>1, <1>3 DEF Chosen
  <2> QED BY <1>3, <2>1 DEF Strong, PickAtomA
<1>4. CASE a.definition # "regular" /\ b.definition = "regular"
  <2>1. Chosen(a, b, d) = PickAtomB
    BY <1>1, <1>4 DEF Chosen
  <2> QED BY <1>4, <2>1 DEF Strong, PickAtomB
<1> QED BY <1>1, <1>2, <1>3, <1>4 DEF Strong

\* StrongWins is kept by every step.
LEMMA NextStrong == TInv /\ StrongWins /\ [TableNext]_tableVars => StrongWins'
<1> SUFFICES ASSUME TInv, StrongWins, [TableNext]_tableVars, NEW n \in Names,
                    \E a \in AtomsOf(n)' : Strong(a),
                    \A a \in AtomsOf(n)' : a.definition # "absolute"
             PROVE  binding'[n] # NULL /\ Strong(binding'[n])
  BY DEF StrongWins, Strong
<1>0. AtomsOf(n) \subseteq Atoms
  BY DEF TInv, TableTypeOK, AtomsOf
<1>1. CASE AtomsOf(n)' = AtomsOf(n) /\ binding'[n] = binding[n]
  BY <1>1 DEF StrongWins
<1>2. ASSUME NEW a \in Atoms, AtomsOf(n)' = {a}, binding'[n] = a
      PROVE  binding'[n] # NULL /\ Strong(binding'[n])
  BY <1>2, AtomKey
<1>3. ASSUME NEW a \in Atoms, AtomsOf(n)' = AtomsOf(n) \cup {a},
             binding[n] \in AtomsOf(n),
             \/ "A" \in Chosen(a, binding[n], Treatment) /\ binding'[n] = a
             \/ "B" \in Chosen(a, binding[n], Treatment) /\ binding'[n] = binding[n]
      PROVE  binding'[n] # NULL /\ Strong(binding'[n])
  <2>1. binding[n] \in Atoms /\ binding[n] # NULL /\ a # NULL
    BY <1>0, <1>3, AtomKey
  <2>2. Strong(a) \/ Strong(binding[n])
    BY <1>3 DEF StrongWins
  <2>3. a.definition # "absolute" /\ binding[n].definition # "absolute"
    BY <1>3
  <2> QED BY <1>3, <2>1, <2>2, <2>3, StrongKept
<1> QED BY <1>1, <1>2, <1>3, NameStep

\* Once a strong definition of a name was loaded, a strong one is bound,
\* whatever weak, tentative or dylib definitions come before or after it.
THEOREM StrongDefinitionWins == TableSpec => []StrongWins
<1>1. TableInit => StrongWins
  BY DEF TableInit, StrongWins, AtomsOf
<1> QED BY <1>1, NextStrong, Invariance, PTL DEF TableSpec

\* Two tentative definitions: the larger one is kept, then the later one.
LEMMA LargerKept ==
  ASSUME NEW a \in Atoms, NEW b \in Atoms, NEW d,
         a.definition = "tentative", b.definition = "tentative"
  PROVE  /\ "A" \in Chosen(a, b, d) =>
              a.size > b.size \/ (a.size = b.size /\ a.ordinal > b.ordinal)
         /\ "B" \in Chosen(a, b, d) =>
              a.size < b.size \/ (a.size = b.size /\ a.ordinal <= b.ordinal)
<1>1. Chosen(a, b, d) = PickLargerSize(a, b)
  BY DEF Chosen
<1>2. /\ a.size \in Nat /\ b.size \in Nat /\ a.ordinal \in Nat /\ b.ordinal \in Nat
  BY AtomsAssumption
<1> QED BY <1>1, <1>2 DEF PickLargerSize, PickLowerOrdinal, PickAOrB, PickAtomA,
                          PickAtomB

\* LargestCommon is kept by every step.
LEMMA NextLargest == TInv /\ LargestCommon /\ [TableNext]_tableVars => LargestCommon'
<1> DEFINE Kinds == IF CommonsMode = "ignoreDylibs"
                    THEN {"tentative", "proxy"} ELSE {"tentative"}
           Beats(b, a) == /\ b.definition = "tentative"
                          /\ b.size >= a.size
                          /\ b.size = a.size => b.ordinal >= a.ordinal
<1> SUFFICES ASSUME TInv, LargestCommon, [TableNext]_tableVars, NEW n \in Names,
                    \A a \in AtomsOf(n)' : a.definition \in Kinds,
                    NEW c \in AtomsOf(n)', c.definition = "tentative"
             PROVE  Beats(binding'[n], c)
  BY DEF LargestCommon
<1>0. AtomsOf(n) \subseteq Atoms
  BY DEF TInv, TableTypeOK, AtomsOf
<1>1. CASE AtomsOf(n)' = AtomsOf(n) /\ binding'[n] = binding[n]
  BY <1>1 DEF LargestCommon
<1>2. ASSUME NEW a \in Atoms, AtomsOf(n)' = {a}, binding'[n] = a
      PROVE  Beats(binding'[n], c)
  <2>1. a.size \in Nat /\ a.ordinal \in Nat /\ c = a
    BY <1>2, AtomsAssumption
  <2> QED BY <1>2, <2>1
<1>3. ASSUME NEW a \in Atoms, AtomsOf(n)' = AtomsOf(n) \cup {a},
             binding[n] \in AtomsOf(n),
             \/ "A" \in Chosen(a, binding[n], Treatment) /\ binding'[n] = a
             \/ "B" \in Chosen(a, binding[n], Treatment) /\ binding'[n] = binding[n]
      PROVE  Beats(binding'[n], c)
  <2> DEFINE b == binding[n]
  <2>1. b \in Atoms /\ c \in Atoms /\ a.definition \in Kinds /\ b.definition \in Kinds
    BY <1>0, <1>3
  <2>2. c # a => c \in AtomsOf(n) /\ Beats(b, c)
    BY <1>3 DEF LargestCommon
  <2>3. \A x \in {a, b, c} : x.size \in Nat /\ x.ordinal \in Nat
    BY <2>1, AtomsAssumption
  <2> HIDE DEF b
  <2>4. CASE a.definition = "tentative" /\ b.definition = "tentative"
    <3>1. /\ "A" \in Chosen(a, b, Treatment) =>
               a.size > b.size \/ (a.size = b.size /\ a.ordinal > b.ordinal)
          /\ "B" \in Chosen(a, b, Treatment) =>
               a.size < b.size \/ (a.size = b.size /\ a.ordinal <= b.ordinal)
      BY <2>1, <2>4, LargerKept
    <3>2. \/ "A" \in Chosen(a, b, Treatment) /\ binding'[n] = a
          \/ "B" \in Chosen(a, b, Treatment) /\ binding'[n] = b
      BY <1>3 DEF b
    <3> QED BY <2>2, <2>3, <2>4, <3>1, <3>2
  <2>5. CASE a.definition = "tentative" /\ b.definition = "proxy"
    <3>1. c = a
      BY <2>2, <2>5
    <3>2. CommonsMode = "ignoreDylibs"
      BY <2>1, <2>5
    <3>3. Chosen(a, b, Treatment) = PickAtomA
      BY <2>5, <3>2 DEF Chosen, PickCommonsMode
    <3>4. binding'[n] = a
      BY <1>3, <3>3 DEF b, PickAtomA
    <3> QED BY <2>3, <2>5, <3>1, <3>4
  <2>6. CASE a.definition = "proxy"
    <3>1. c # a /\ b.definition = "tentative"
      BY <2>2, <2>6
    <3>2. CommonsMode = "ignoreDylibs"
      BY <2>1, <2>6
    <3>3. Chosen(a, b, Treatment) = PickAtomB
      BY <2>6, <3>1, <3>2 DEF Chosen, PickCommonsMode
    <3>4. binding'[n] = b
      BY <1>3, <3>3 DEF b, PickAtomB
    <3> QED BY <2>2, <3>1, <3>4
  <2> QED BY <2>1, <2>4, <2>5, <2>6
<1> QED BY <1>1, <1>2, <1>3, NameStep

\* The common block of a name is never smaller than any tentative definition
\* of it that was loaded.
THEOREM LargestCommonWins == TableSpec => []LargestCommon
<1>1. TableInit => LargestCommon
  BY DEF TableInit, LargestCommon, AtomsOf
<1> QED BY <1>1, NextLargest, Invariance, PTL DEF TableSpec

\* PickBetweenWeak agrees with Preferable, which is a strict weak order.
LEMMA WeakKept ==
  ASSUME NEW a \in Atoms, NEW b \in Atoms, ~Static(a), ~Static(b)
  PROVE  /\ ~Preferable(a, a)
         /\ "B" \in PickBetweenWeak(a, b) => ~Preferable(a, b)
         /\ "A" \in PickBetweenWeak(a, b) =>
              \A c \in Atoms : ~Static(c) /\ ~Preferable(c, b) => ~Preferable(c, a)
<1>1. \A x \in Atoms : /\ x.isLTO \in BOOLEAN /\ x.autoHide \in BOOLEAN
                       /\ x.alignment \in Nat
                       /\ ~Static(x) => x.scope \in {"linkageUnit", "global"}
  BY AtomsAssumption DEF Static
<1>2. ~Preferable(a, a)
  BY <1>1 DEF Preferable
<1> USE DEF PickAOrB, PickAtomA, PickAtomB, PickGreaterAlignment
<1>3. CASE a.isLTO # b.isLTO
  <2>1. PickBetweenWeak(a, b) = PickAOrB(~a.isLTO)
    BY <1>1, <1>3 DEF PickBetweenWeak
  <2> QED BY <1>1, <1>2, <1>3, <2>1 DEF Preferable
<1>4. CASE a.isLTO = b.isLTO /\ a.autoHide # b.autoHide
  <2>1. PickBetweenWeak(a, b) = PickAOrB(~a.autoHide)
    BY <1>1, <1>4 DEF PickBetweenWeak
  <2> QED BY <1>1, <1>2, <1>4, <2>1 DEF Preferable
<1>5. CASE a.isLTO = b.isLTO /\ a.autoHide = b.autoHide
           /\ (a.autoHide \/ a.scope = b.scope)
  <2>1. PickBetweenWeak(a, b) = PickGreaterAlignment(a, b)
    BY <1>1, <1>5 DEF PickBetweenWeak
  <2> QED BY <1>1, <1>2, <1>5, <2>1 DEF Preferable
<1>6. CASE a.isLTO = b.isLTO /\ a.autoHide = b.autoHide
           /\ ~a.autoHide /\ a.scope # b.scope
  <2>1. PickBetweenWeak(a, b) = PickAOrB(a.scope = "global")
    BY <1>1, <1>6 DEF PickBetweenWeak
  <2> QED BY <1>1, <1>2, <1>6, <2>1 DEF Preferable
<1> QED BY <1>3, <1>4, <1>5, <1>6

\* BestWeak is kept by every step.
LEMMA NextBest == TInv /\ BestWeak /\ [TableNext]_tableVars => BestWeak'
<1> SUFFICES ASSUME TInv, BestWeak, [TableNext]_tableVars, NEW n \in Names,
                    \A a \in AtomsOf(n)' : a.definition = "regular" /\ IsWeak(a),
                    NEW c \in AtomsOf(n)'
             PROVE  ~Preferable(c, binding'[n])
  BY DEF BestWeak, IsWeak, Preferable
<1>0. AtomsOf(n) \subseteq Atoms /\ \A x \in AtomsOf(n) : ~Static(x)
  BY DEF TInv, TableTypeOK, AtomsOf
<1>1. CASE AtomsOf(n)' = AtomsOf(n) /\ binding'[n] = binding[n]
  BY <1>1 DEF BestWeak
<1>2. ASSUME NEW a \in Atoms, AtomsOf(n)' = {a}, binding'[n] = a
      PROVE  ~Preferable(c, binding'[n])
  <2>1. a \in AtomsOf(n)' /\ c = a
    BY <1>2
  <2>2. ~Static(a)
    BY <2>1 DEF AtomsOf, Static
  <2> QED BY <1>2, <2>1, <2>2, WeakKept
<1>3. ASSUME NEW a \in Atoms, AtomsOf(n)' = AtomsOf(n) \cup {a}, ~Static(a),
             binding[n] \in AtomsOf(n),
             \/ "A" \in Chosen(a, binding[n], Treatment) /\ binding'[n] = a
             \/ "B" \in Chosen(a, binding[n], Treatment) /\ binding'[n] = binding[n]
      PROVE  ~Preferable(c, binding'[n])
  <2> DEFINE b == binding[n]
  <2>1. b \in Atoms /\ c \in Atoms /\ ~Static(b) /\ ~Static(c)
    BY <1>0, <1>3
  <2>2. c # a => ~Preferable(c, b)
    BY <1>3 DEF BestWeak
  <2>3. Chosen(a, b, Treatment) = PickBetweenWeak(a, b)
    <3>1. /\ a.definition = "regular" /\ b.definition = "regular"
          /\ IsWeak(a) /\ IsWeak(b)
      BY <1>3
    <3> HIDE DEF b
    <3> QED BY <3>1 DEF Chosen, PickBetweenRegularAtoms
  <2>4. \/ "A" \in PickBetweenWeak(a, b) /\ binding'[n] = a
        \/ "B" \in PickBetweenWeak(a, b) /\ binding'[n] = b
    BY <1>3, <2>3
  <2> HIDE DEF b
  <2> QED BY <1>3, <2>1, <2>2, <2>4, WeakKept
<1> QED BY <1>1, <1>2, <1>3, NameStep

\* The weak definition that is kept does not depend on luck: no other one that
\* was loaded is preferable to it.
THEOREM BestWeakWins == TableSpec => []BestWeak
<1>1. TableInit => BestWeak
  BY DEF TableInit, BestWeak, AtomsOf
<1> QED BY <1>1, NextBest, Invariance, PTL DEF TableSpec

\* DuplicatesListed is kept by every step.
LEMMA NextListed ==
  TInv /\ StrongWins /\ DuplicatesListed /\ [TableNext]_tableVars => DuplicatesListed'
<1> SUFFICES ASSUME TInv, StrongWins, DuplicatesListed, [TableNext]_tableVars,
                    ~(DeadCodeStrip /\ AllowDeadDuplicates),
                    NEW n \in Names, NEW c \in AtomsOf(n)', NEW d \in AtomsOf(n)',
                    c # d, AreDuplicates(c, d),
                    \A x \in AtomsOf(n)' : ~x.machHeader /\ x.definition # "absolute"
             PROVE  \E x \in dupErrors'[n] \cup dupWarnings'[n] : x.path = c.path
  BY DEF DuplicatesListed, AreDuplicates, IsWeak
<1>0. AtomsOf(n) \subseteq Atoms
  BY DEF TInv, TableTypeOK, AtomsOf
<1>1. CASE /\ AtomsOf(n)' = AtomsOf(n)
           /\ dupErrors[n] \subseteq dupErrors'[n]
           /\ dupWarnings[n] \subseteq dupWarnings'[n]
  BY <1>1 DEF DuplicatesListed
<1>2. ASSUME NEW a \in Atoms, AtomsOf(n)' = {a} PROVE FALSE
  BY <1>2
<1>3. ASSUME NEW a \in Atoms, AtomsOf(n)' = AtomsOf(n) \cup {a}, a \notin AtomsOf(n),
             binding[n] \in AtomsOf(n),
             dupErrors[n] \subseteq dupErrors'[n],
             dupWarnings[n] \subseteq dupWarnings'[n],
             ReportDuplicate(a, binding[n], Treatment) /\ Treatment # "suppress"
               => \E x, y \in dupErrors'[n] \cup dupWarnings'[n] :
                    x.path = a.path /\ y.path = binding[n].path
      PROVE  \E x \in dupErrors'[n] \cup dupWarnings'[n] : x.path = c.path
  <2>1. CASE c # a /\ d # a
    BY <1>3, <2>1 DEF DuplicatesListed
  <2>2. CASE c = a \/ d = a
    <3>1. Treatment \in {"error", "warning"}
      BY DEF Treatment
    <3>2. PICK e \in AtomsOf(n) : Strong(e) /\ AreDuplicates(a, e) /\ (e = c \/ e = d)
      BY <1>3, <2>2 DEF AreDuplicates, Strong
    <3>3. Strong(binding[n])
      BY <1>3, <3>2 DEF StrongWins
    <3>4. AreDuplicates(a, binding[n])
      BY <1>3, <3>2, <3>3 DEF AreDuplicates, Strong
    <3>5. \E x, y \in dupErrors'[n] \cup dupWarnings'[n] :
            x.path = a.path /\ y.path = binding[n].path
      BY <1>3, <3>1, <3>4 DEF ReportDuplicate
    <3>6. CASE c = a \/ c = binding[n]
      BY <3>5, <3>6
    <3>7. CASE c # a /\ c # binding[n]
      <4>1. c \in AtomsOf(n) /\ AreDuplicates(c, binding[n])
        BY <1>3, <3>3, <3>7 DEF AreDuplicates, Strong
      <4> QED BY <1>3, <3>7, <4>1 DEF DuplicatesListed
    <3> QED BY <3>6, <3>7
  <2> QED BY <2>1, <2>2
<1> QED BY <1>1, <1>2, <1>3, NameStep

\* The path of every strong definition that has a rival is in the lists that
\* checkDuplicateSymbols reports.
THEOREM DuplicatesAreListed == TableSpec => []DuplicatesListed
<1>1. TableInit => DuplicatesListed
  BY DEF TableInit, DuplicatesListed, AtomsOf
<1> QED BY <1>1, NextListed, StrongDefinitionWins, Invariance, PTL DEF TableSpec

-----------------------------------------------------------------------------
(***************************************************************************)
(* Groups.                                                                 *)
(***************************************************************************)

\* A marked atom takes its group along, and the table never marks a static
\* atom but as one of a group.
GroupsMarked ==
  /\ \A a \in coalesced : Subordinates[a] \subseteq coalesced
  /\ \A s \in coalesced : Static(s) =>
       \E a \in coalesced : ~Static(a) /\ s \in Subordinates[a]

\* An FDE or LSDA belongs to one atom that the table knows.
OneLeader ==
  \A a, b \in Atoms : \A s \in Subordinates[a] \cap Subordinates[b] :
    Static(s) /\ ~Static(a) /\ ~Static(b) => a = b

\* A group is marked as a whole.
LEMMA GroupMarked ==
  ASSUME GroupsMarked, NEW x \in Atoms, ~Static(x), MarkCoalescedAway(x)
  PROVE  GroupsMarked'
<1>1. coalesced' = coalesced \cup {x} \cup Subordinates[x]
  BY DEF MarkCoalescedAway
<1>2. \A s \in Subordinates[x] : Subordinates[s] \subseteq Subordinates[x]
  BY AtomsAssumption
<1>3. ASSUME NEW a \in coalesced' PROVE Subordinates[a] \subseteq coalesced'
  BY <1>1, <1>2 DEF GroupsMarked
<1>4. ASSUME NEW s \in coalesced', Static(s)
      PROVE  \E a \in coalesced' : ~Static(a) /\ s \in Subordinates[a]
  <2>1. CASE s \in coalesced
    BY <1>1, <1>4, <2>1 DEF GroupsMarked
  <2>2. CASE s \in Subordinates[x]
    BY <1>1, <2>2
  <2> QED BY <1>1, <1>4, <2>1, <2>2
<1> QED BY <1>3, <1>4 DEF GroupsMarked

\* Every step of the table marks whole groups.
LEMMA NextGroups == TInv /\ GroupsMarked /\ [TableNext]_tableVars => GroupsMarked'
<1> SUFFICES ASSUME TInv, GroupsMarked, [TableNext]_tableVars PROVE GroupsMarked'
  OBVIOUS
<1>1. ASSUME UNCHANGED coalesced PROVE GroupsMarked'
  BY <1>1 DEF GroupsMarked
<1>2. CASE UNCHANGED tableVars
  BY <1>1, <1>2 DEF tableVars
<1>3. ASSUME NEW n \in Names, FindSlotForName(n) PROVE GroupsMarked'
  BY <1>1, <1>3 DEF FindSlotForName
<1>4. CASE CompleteInitialFiles
  BY <1>1, <1>4 DEF CompleteInitialFiles
<1>5. ASSUME NEW a \in Atoms, DoAtom(a), thrown = FALSE PROVE GroupsMarked'
  <2>1. TableTypeOK /\ a.key \in Keys
    BY AtomKey DEF TInv
  <2>2. CASE thrown' # FALSE
    BY <1>1, <1>5, <2>1, <2>2, DoAtomThrows
  <2>3. CASE thrown' = FALSE
    <3>1. binding[a.key] # NULL => binding[a.key] \in Atoms /\ ~Static(binding[a.key])
      BY <2>1, BoundAtom
    <3>2. \/ coalesced' = coalesced
          \/ ~Static(a) /\ MarkCoalescedAway(a)
          \/ binding[a.key] # NULL /\ MarkCoalescedAway(binding[a.key])
      BY <1>5, <2>1, <2>3, DoAtomCases
    <3> QED BY <1>1, <1>5, <3>1, <3>2, GroupMarked
  <2> QED BY <2>2, <2>3
<1>6. thrown \in BOOLEAN
  BY DEF TInv, TableTypeOK
<1> QED BY <1>2, <1>3, <1>4, <1>5, <1>6 DEF TableNext

\* markCoalescedAway: the unwind information and LSDA of an atom that the table
\* knows go exactly when the atom does, for any groups in which they have one
\* such leader and whatever collides.
THEOREM GroupsFollowLeader == TableSpec => [](OneLeader => GroupsFollow)
<1>1. TableInit => GroupsMarked
  BY DEF TableInit, GroupsMarked
<1>2. TInv /\ GroupsMarked /\ OneLeader => GroupsFollow
  <2> SUFFICES ASSUME TInv, GroupsMarked, OneLeader, NEW a \in added, NEW s \in Subordinates[a],
                      ~Static(a), Static(s), ~Dependent(a)
               PROVE  (s \in coalesced) = (binding[a.key] # a)
    BY DEF GroupsFollow
  <2>1. a \in Atoms /\ coalesced \subseteq Atoms
    BY DEF TInv, TableTypeOK
  <2>2. s \in coalesced <=> a \in coalesced
    BY <2>1 DEF GroupsMarked, OneLeader
  <2>3. binding[a.key] = a <=> a \notin coalesced
    BY DEF TInv, BoundOrCoalesced
  <2> QED BY <2>2, <2>3
<1>3. TableSpec => [](TInv /\ GroupsMarked)
  BY <1>1, Invariance, NextGroups, PTL DEF TableSpec
<1> QED BY <1>2, <1>3, PTL

-----------------------------------------------------------------------------
(***************************************************************************)
(* Lists.                                                                  *)
(***************************************************************************)

\* Every place of the sorted list has an element: the one with as many
\* smaller ones.
LEMMA SortedElements ==
  ASSUME NEW S \in SUBSET Nat, IsFiniteSet(S)
  PROVE  /\ Sorted(S) \in Seq(S) /\ Cardinality(S) \in Nat /\ Len(Sorted(S)) = Cardinality(S)
         /\ DistinctIn(Sorted(S), S)
<1> DEFINE n == Cardinality(S)
           below(x) == {y \in S : y < x}
           T == {i \in Nat : i < n /\ ~\E x \in S : Cardinality(below(x)) = i}
<1>1. n \in Nat
  BY FS_CardinalityType
<1>2. ASSUME NEW x \in S PROVE IsFiniteSet(below(x)) /\ Cardinality(below(x)) \in Nat
  BY FS_Subset, FS_CardinalityType
<1>3. S # {} => \E x \in S : Cardinality(below(x)) = 0
  <2> SUFFICES ASSUME S # {} PROVE \E x \in S : Cardinality(below(x)) = 0
    OBVIOUS
  <2>1. PICK x \in S : \A y \in S : x <= y
    BY LeastNat
  <2>2. below(x) = {}
    <3>1. \A y \in S : ~(y < x)
      BY <2>1
    <3> QED BY <3>1
  <2>3. Cardinality({}) = 0
    BY FS_EmptySet
  <2> QED BY <2>2, <2>3
<1>4. ASSUME NEW x \in S, Cardinality(below(x)) + 1 < n
      PROVE  \E y \in S : Cardinality(below(y)) = Cardinality(below(x)) + 1
  <2> DEFINE above == {y \in S : x < y}
  <2>1. x \notin below(x) /\ IsFiniteSet(below(x) \cup {x})
        /\ Cardinality(below(x) \cup {x}) = Cardinality(below(x)) + 1
    BY <1>2, FS_AddElement
  <2>2. above # {}
    <3> SUFFICES ASSUME above = {} PROVE FALSE
      OBVIOUS
    <3>1. S = below(x) \cup {x}
      <4>1. \A y \in S : y < x \/ y = x \/ x < y
        OBVIOUS
      <4>2. \A y \in S : ~(x < y)
        OBVIOUS
      <4>3. \A y \in S : y < x \/ y = x
        BY <4>1, <4>2
      <4> QED BY <4>3
    <3> HIDE DEF below
    <3> QED BY <1>1, <1>2, <1>4, <2>1, <3>1
  <2>3. above \in SUBSET Nat
    OBVIOUS
  <2>4. PICK y \in above : \A z \in above : y <= z
    BY <2>2, <2>3, LeastNat
  <2>5. below(y) = below(x) \cup {x}
    <3>1. y \in S /\ x < y /\ \A z \in S : x < z => y <= z
      BY <2>4
    <3>2. \A z \in S : z < y <=> z < x \/ z = x
      BY <3>1
    <3> QED BY <3>2
  <2>6. y \in S
    BY <2>4
  <2> HIDE DEF below, above
  <2> QED BY <2>1, <2>5, <2>6
<1> HIDE DEF below
<1>5. T \in SUBSET Nat
      /\ \A i : i \in T <=> i \in Nat /\ i < n /\ ~\E x \in S : Cardinality(below(x)) = i
  OBVIOUS
<1> HIDE DEF T
<1>6. T = {}
  <2> SUFFICES ASSUME T # {} PROVE FALSE
    OBVIOUS
  <2>1. PICK i \in T : \A j \in T : i <= j
    BY <1>5, LeastNat
  <2>2. i \in Nat /\ i < n /\ ~\E x \in S : Cardinality(below(x)) = i
    BY <1>5
  <2>3. i # 0
    <3>1. S # {}
      BY <1>1, <2>2, FS_EmptySet
    <3> QED BY <1>3, <2>2, <3>1
  <2>4. i - 1 \in Nat /\ i - 1 < n /\ ~(i <= i - 1)
    BY <1>1, <2>2, <2>3
  <2>5. PICK x \in S : Cardinality(below(x)) = i - 1
    BY <1>5, <2>1, <2>4
  <2>6. Cardinality(below(x)) + 1 = i
    BY <2>2, <2>5
  <2> QED BY <1>4, <2>2, <2>6
<1> DEFINE place(i) == CHOOSE x \in S : Cardinality(below(x)) = i - 1
<1>7. ASSUME NEW i \in 1 .. n PROVE place(i) \in S /\ Cardinality(below(place(i))) = i - 1
  <2>1. i - 1 \in Nat /\ i - 1 < n
    BY <1>1
  <2>2. \E x \in S : Cardinality(below(x)) = i - 1
    BY <1>5, <1>6, <2>1
  <2> QED BY <2>2
<1>8. Sorted(S) = [i \in 1 .. n |-> place(i)]
  BY Zenon DEF Sorted, below
<1>9. Sorted(S) \in [1 .. n -> S]
  <2> HIDE DEF place
  <2> QED BY <1>7, <1>8
<1>10. Sorted(S) \in Seq(S)
  BY <1>1, <1>9, SeqDef
<1>12. DistinctIn(Sorted(S), S)
  <2> SUFFICES ASSUME NEW i \in DOMAIN Sorted(S), NEW j \in DOMAIN Sorted(S),
                      Sorted(S)[i] = Sorted(S)[j]
               PROVE  i = j
    BY DEF DistinctIn
  <2>1. i \in 1 .. n /\ j \in 1 .. n
    BY <1>9
  <2>2. place(i) = place(j)
    BY <1>8, <2>1
  <2> HIDE DEF place
  <2>3. i - 1 = j - 1
    BY <1>7, <2>1, <2>2
  <2> QED BY <1>1, <2>1, <2>3
<1> HIDE DEF n
<1>11. Len(Sorted(S)) = n
  BY <1>1, <1>9, <1>10, LenProperties
<1> QED BY <1>1, <1>10, <1>11, <1>12 DEF n

-----------------------------------------------------------------------------
(***************************************************************************)
(* What a search finds.                                                    *)
(***************************************************************************)

\* Every element has its place in the sorted list.
LEMMA SortedKeeps ==
  ASSUME NEW S \in SUBSET Nat, IsFiniteSet(S), NEW x \in S
  PROVE  x \in Range(Sorted(S))
<1> DEFINE n == Cardinality(S)
           below(y) == {z \in S : z < y}
           r == Cardinality(below(x))
<1>1. n \in Nat
  BY FS_CardinalityType
<1>2. ASSUME NEW y \in S PROVE IsFiniteSet(below(y)) /\ Cardinality(below(y)) \in Nat
  BY FS_Subset, FS_CardinalityType
<1>3. ASSUME NEW y \in S, NEW T \in SUBSET S, below(y) \subseteq T, y \in T
      PROVE  Cardinality(below(y)) < Cardinality(T)
  <2>1. y \notin below(y) /\ IsFiniteSet(T)
    <3>1. ~(y < y)
      OBVIOUS
    <3>2. IsFiniteSet(T)
      BY FS_Subset, Zenon
    <3> QED BY <3>1, <3>2
  <2> HIDE DEF below
  <2>2. below(y) # T
    BY <1>3, <2>1
  <2>3. Cardinality(below(y)) <= Cardinality(T)
        /\ (Cardinality(below(y)) = Cardinality(T) => below(y) = T)
    BY <1>3, <2>1, FS_Subset
  <2>4. Cardinality(T) \in Nat
    BY <2>1, FS_CardinalityType
  <2> QED BY <1>2, <2>2, <2>3, <2>4
<1>4. r \in 0 .. n - 1
  <2>1. below(x) \subseteq S
    OBVIOUS
  <2> HIDE DEF below
  <2>2. r \in Nat /\ r < n
    BY <1>2, <1>3, <2>1
  <2> QED BY <1>1, <2>2
<1>5. ASSUME NEW y \in S, Cardinality(below(y)) = r PROVE y = x
  <2>0. \A u, v, w \in S : u < v /\ v < w => u < w
    OBVIOUS
  <2>1. y < x => below(y) \subseteq below(x) /\ y \in below(x)
    BY <2>0, Zenon
  <2>2. x < y => below(x) \subseteq below(y) /\ x \in below(y)
    BY <2>0, Zenon
  <2>3. below(x) \in SUBSET S /\ below(y) \in SUBSET S
    OBVIOUS
  <2>4. Cardinality(below(y)) \in Nat
    BY <1>2
  <2>5. x \in Nat /\ y \in Nat
    OBVIOUS
  <2> HIDE DEF below
  <2>6. ~(y < x)
    <3> SUFFICES ASSUME y < x PROVE FALSE
      OBVIOUS
    <3>1. Cardinality(below(y)) < Cardinality(below(x))
      BY <1>3, <2>1, <2>3
    <3> QED BY <1>5, <2>4, <3>1
  <2>7. ~(x < y)
    <3> SUFFICES ASSUME x < y PROVE FALSE
      OBVIOUS
    <3>1. Cardinality(below(x)) < Cardinality(below(y))
      BY <1>3, <2>2, <2>3
    <3> QED BY <1>5, <2>4, <3>1
  <2> QED BY <2>5, <2>6, <2>7
<1> HIDE DEF below
<1> DEFINE place(i) == CHOOSE y \in S : Cardinality(below(y)) = i - 1
<1>6. r + 1 \in 1 .. n /\ (r + 1) - 1 = r
  BY <1>1, <1>4
<1>7. place(r + 1) = x
  BY <1>5, <1>6
<1>8. Sorted(S) = [i \in 1 .. n |-> place(i)]
  BY Zenon DEF Sorted, below
<1> HIDE DEF place, r, n
<1> QED BY <1>6, <1>7, <1>8 DEF Range

\* The link and its search list.
LinkOK ==
  /\ link \in Links
  /\ searchLibs \in Seq(DOMAIN link.libs)

\* The libraries of a link.
LEMMA TheLink ==
  ASSUME link \in Links
  PROVE  /\ DOMAIN link.libs \subseteq Nat /\ IsFiniteSet(DOMAIN link.libs)
         /\ link.inputs \in Seq(DOMAIN link.libs) /\ link.implicit \subseteq DOMAIN link.libs
         /\ link.undefs \in Seq(Names) /\ link.entry \in Range(link.undefs) \cup {NULL}
BY LinksAssumption

\* The members of a library.
LEMMA TheLib ==
  ASSUME link \in Links, NEW l \in DOMAIN link.libs
  PROVE  /\ Lib(l).kind \in {"object", "archive", "dylib"}
         /\ Members(l) = 1 .. Len(Lib(l).members) /\ Len(Lib(l).members) \in Nat
         /\ \A m \in Members(l) : Lib(l).members[m].atoms \in Seq(Atoms)
BY LinksAssumption DEF LibOK, Lib, Members

\* The first member that defines a name is found when there is one.
LEMMA TheMember ==
  ASSUME link \in Links, NEW l \in DOMAIN link.libs, NEW n, HasMember(l, n)
  PROVE  MemberFor(l, n) \in Members(l) /\ Defines(Lib(l).members[MemberFor(l, n)], n)
<1> DEFINE D == {m \in Members(l) : Defines(Lib(l).members[m], n)}
<1>1. D \in SUBSET Nat /\ D # {}
  BY TheLib DEF HasMember
<1>2. PICK m \in D : \A k \in D : m <= k
  BY <1>1, LeastNat
<1>3. ASSUME NEW k \in Members(l), k < m PROVE ~Defines(Lib(l).members[k], n)
  <2>1. k \in Nat /\ m \in Nat /\ ~(m <= k)
    BY <1>1, <1>3, TheLib
  <2> QED BY <1>2, <2>1
<1>4. \E i \in Members(l) : /\ Defines(Lib(l).members[i], n)
                            /\ \A k \in Members(l) : k < i => ~Defines(Lib(l).members[k], n)
  BY <1>2, <1>3
<1> QED BY <1>4, Zenon DEF MemberFor

\* The atoms of a file that is loaded as a whole.
LEMMA TheAtoms ==
  ASSUME link \in Links, NEW l \in DOMAIN link.libs
  PROVE  AllAtoms(l) \in Seq(Atoms)
<1> DEFINE q == [m \in Members(l) |-> Lib(l).members[m].atoms]
<1>1. q \in [1 .. Len(Lib(l).members) -> Seq(Atoms)] /\ Len(Lib(l).members) \in Nat
  BY TheLib
<1>2. q \in Seq(Seq(Atoms))
  BY <1>1, SeqDef
<1> HIDE DEF q
<1>3. FlattenSeq(q) \in Seq(Atoms)
  BY <1>2, Flattened
<1> QED BY <1>3 DEF q, AllAtoms

\* The libraries in the order of the search.
LEMMA TheOrder ==
  ASSUME LinkOK, NEW dylibs
  PROVE  SearchOrder(dylibs) \in Seq((DOMAIN link.libs) \X {"listed", "implicit"})
<1> DEFINE P == (DOMAIN link.libs) \X {"listed", "implicit"}
           s == [i \in DOMAIN searchLibs |-> <<searchLibs[i], "listed">>]
           t == [i \in DOMAIN ImplicitDylibs |-> <<ImplicitDylibs[i], "implicit">>]
<1>1. ASSUME NEW q \in Seq(DOMAIN link.libs), NEW w \in {"listed", "implicit"}
      PROVE  [i \in DOMAIN q |-> <<q[i], w>>] \in Seq(P)
  <2>1. Len(q) \in Nat /\ DOMAIN q = 1 .. Len(q) /\ \A i \in DOMAIN q : q[i] \in DOMAIN link.libs
    BY LenProperties, ElementOfSeq
  <2>2. [i \in DOMAIN q |-> <<q[i], w>>] \in [1 .. Len(q) -> P]
    BY <2>1
  <2> QED BY <2>1, <2>2, SeqDef
<1>2. s \in Seq(P)
  BY <1>1 DEF LinkOK
<1>3. ImplicitDylibs \in Seq(DOMAIN link.libs)
  <2> DEFINE S == link.implicit \cup AutoLinkedDylibs
  <2>1. Range(searchLibs) \subseteq DOMAIN link.libs
    BY RangeOfSeq DEF LinkOK
  <2>2. S \subseteq DOMAIN link.libs /\ DOMAIN link.libs \subseteq Nat
        /\ IsFiniteSet(DOMAIN link.libs)
    BY <2>1, TheLink DEF LinkOK, AutoLinkedDylibs
  <2> HIDE DEF S
  <2>3. S \in SUBSET Nat /\ IsFiniteSet(S)
    BY <2>2, FS_Subset
  <2>4. Sorted(S) \in Seq(S)
    BY <2>3, SortedElements
  <2>5. Sorted(S) \in Seq(DOMAIN link.libs)
    BY <2>2, <2>4, SeqMonotonic
  <2> QED BY <2>5 DEF S, ImplicitDylibs
<1>4. t \in Seq(P)
  BY <1>1, <1>3
<1>5. <<>> \in Seq(P)
  BY EmptySeq
<1>6. SearchOrder(dylibs) = s \o IF dylibs THEN t ELSE <<>>
  BY DEF SearchOrder
<1> HIDE DEF s, t, P
<1>7. s \o t \in Seq(P) /\ s \o <<>> \in Seq(P)
  BY <1>2, <1>4, <1>5, ConcatProperties
<1>8. SearchOrder(dylibs) \in Seq(P)
  BY <1>6, <1>7
<1> QED BY <1>8 DEF P

\* Every library that a search returns has an answer.
LEMMA TheAnswerers ==
  ASSUME LinkOK, NEW n, NEW dylibs, NEW archives, NEW dataOnly
  PROVE  Answerers(n, dylibs, archives, dataOnly)
           \in Seq({e \in (DOMAIN link.libs) \X {"listed", "implicit"} :
                      Answers(e[1], n, dylibs, archives, dataOnly)})
<1> DEFINE P == (DOMAIN link.libs) \X {"listed", "implicit"}
           A == {e \in P : Answers(e[1], n, dylibs, archives, dataOnly)}
           libs == SearchOrder(dylibs)
           B == {e \in Range(libs) : Answers(e[1], n, dylibs, archives, dataOnly)}
           order == Only(libs, B)
           ends == {i \in DOMAIN order : n \notin Lib(order[i][1]).weak}
           cut == CHOOSE i \in ends : \A j \in ends : i <= j
<1>1. libs \in Seq(P)
  BY TheOrder
<1>2. P \cap B \subseteq A
  OBVIOUS
<1>3. Answerers(n, dylibs, archives, dataOnly)
        = IF ends = {} THEN order ELSE SubSeq(order, 1, cut)
  BY Zenon DEF Answerers
<1> HIDE DEF P, A, B, libs
<1>4. order \in Seq(P \cap B)
  BY <1>1, OnlyElements
<1>5. order \in Seq(A)
  BY <1>2, <1>4, SeqMonotonic
<1>6. Len(order) \in Nat /\ DOMAIN order = 1 .. Len(order)
  BY <1>5, LenProperties
<1>7. ends \subseteq 1 .. Len(order)
  BY <1>6
<1> HIDE DEF order, ends
<1>8. ASSUME ends # {} PROVE SubSeq(order, 1, cut) \in Seq(A)
  <2>1. ends \in SUBSET Nat
    BY <1>6, <1>7
  <2>2. \E i \in ends : \A j \in ends : i <= j
    BY <1>8, <2>1, LeastNat
  <2>3. cut \in ends
    BY <2>2
  <2> HIDE DEF cut
  <2>4. cut \in 1 .. Len(order)
    BY <1>7, <2>3
  <2>5. \A i \in 1 .. cut : order[i] \in A
    BY <1>5, <1>6, <2>4, ElementOfSeq
  <2>6. 1 \in 1 .. Len(order) + 1 /\ cut \in 0 .. Len(order)
    BY <1>6, <2>4
  <2> QED BY <1>5, <2>6, SubSeqProperties
<1>9. Answerers(n, dylibs, archives, dataOnly) \in Seq(A)
  BY <1>3, <1>5, <1>8
<1> QED BY <1>9 DEF A, P

\* The libraries of linker options join the search list.
LEMMA OptionsAdded ==
  ASSUME LinkOK, NEW opts, AddLinkerOptionLibraries(opts)
  PROVE  /\ searchLibs' \in Seq(DOMAIN link.libs)
         /\ processed' = {} => processed = {} /\ searchLibs' = searchLibs
<1> DEFINE new == opts \ processed
           S == {l \in new \cap DOMAIN link.libs : l \notin Range(searchLibs) \cup link.implicit}
<1>1. searchLibs' = searchLibs \o Sorted(S) /\ processed' = processed \cup new
  BY DEF AddLinkerOptionLibraries
<1>2. S \subseteq DOMAIN link.libs /\ (new = {} => S = {})
  OBVIOUS
<1> HIDE DEF S
<1>3. S \in SUBSET Nat /\ IsFiniteSet(S)
  BY <1>2, TheLink, FS_Subset DEF LinkOK
<1>4. Sorted(S) \in Seq(S) /\ Len(Sorted(S)) = Cardinality(S)
  BY <1>3, SortedElements
<1>5. Sorted(S) \in Seq(DOMAIN link.libs)
  BY <1>2, <1>4, SeqMonotonic
<1>6. searchLibs' \in Seq(DOMAIN link.libs)
  BY <1>1, <1>5, ConcatProperties DEF LinkOK
<1>7. S = {} => Sorted(S) = <<>>
  BY <1>4, EmptySeq, FS_EmptySet
<1>8. searchLibs \o <<>> = searchLibs
  BY ConcatEmptySeq DEF LinkOK
<1> HIDE DEF new
<1> QED BY <1>1, <1>2, <1>6, <1>7, <1>8

\* What a search hands over and what it loads: a member that is loaded defines
\* the name that is searched for.
LEMMA Searched ==
  ASSUME LinkOK, NEW n \in Names, NEW dylibs, NEW archives, NEW dataOnly,
         SearchLibraries(n, dylibs, archives, dataOnly)
  PROVE  /\ todo' \in Seq(Atoms)
         /\ searchLibs' \in Seq(DOMAIN link.libs)
         /\ \A m \in loaded' \ loaded : Defines(Lib(m[1]).members[m[2]], n)
         /\ loaded \subseteq loaded'
         /\ processed' = {} => processed = {} /\ searchLibs' = searchLibs
         /\ Answerers(n, dylibs, archives, dataOnly) # <<>>
              => \E a \in Range(todo') : a.key = n /\ ~Static(a)
<1> DEFINE found == Answerers(n, dylibs, archives, dataOnly)
           A == {e \in (DOMAIN link.libs) \X {"listed", "implicit"} :
                   Answers(e[1], n, dylibs, archives, dataOnly)}
           inArch == {i \in DOMAIN found : Lib(found[i][1]).kind = "archive"}
           members == {<<found[i][1], MemberFor(found[i][1], n)>> : i \in inArch}
           given(e) == IF Lib(e[1]).kind = "archive"
                       THEN Lib(e[1]).members[MemberFor(e[1], n)].atoms
                       ELSE <<ExportAtom(n, e[1], e[2], n \in Lib(e[1]).weak)>>
           opts == UNION {Lib(m[1]).members[m[2]].options : m \in members}
<1>1. /\ todo' = FlattenSeq([i \in DOMAIN found |-> given(found[i])])
      /\ loaded' = loaded \cup members
      /\ AddLinkerOptionLibraries(opts)
  BY Zenon DEF SearchLibraries
<1>2. found \in Seq(A)
  BY TheAnswerers
<1>3. link \in Links
  BY DEF LinkOK
<1>4. ASSUME NEW e \in A
      PROVE  /\ e[1] \in DOMAIN link.libs /\ e[2] \in {"listed", "implicit"}
             /\ Lib(e[1]).kind = "archive" =>
                  /\ MemberFor(e[1], n) \in Members(e[1])
                  /\ Defines(Lib(e[1]).members[MemberFor(e[1], n)], n)
             /\ Lib(e[1]).kind # "archive" =>
                  Lib(e[1]).kind = "dylib" /\ n \in Lib(e[1]).strong \cup Lib(e[1]).weak
  <2>1. /\ e[1] \in DOMAIN link.libs /\ e[2] \in {"listed", "implicit"}
        /\ Answers(e[1], n, dylibs, archives, dataOnly)
    OBVIOUS
  <2> HIDE DEF A
  <2>2. \/ Lib(e[1]).kind = "dylib" /\ n \in Lib(e[1]).strong \cup Lib(e[1]).weak
        \/ Lib(e[1]).kind = "archive" /\ HasMember(e[1], n)
    BY <2>1 DEF Answers, DylibAnswers, ArchiveAnswers
  <2>3. CASE Lib(e[1]).kind = "dylib" /\ n \in Lib(e[1]).strong \cup Lib(e[1]).weak
    BY <2>1, <2>3
  <2>4. CASE Lib(e[1]).kind = "archive" /\ HasMember(e[1], n)
    <3>1. /\ MemberFor(e[1], n) \in Members(e[1])
          /\ Defines(Lib(e[1]).members[MemberFor(e[1], n)], n)
      BY <1>3, <2>1, <2>4, TheMember
    <3> QED BY <2>1, <2>4, <3>1
  <2> QED BY <2>2, <2>3, <2>4
<1>5. ASSUME NEW e \in A PROVE given(e) \in Seq(Atoms)
  <2>1. CASE Lib(e[1]).kind = "archive"
    <3>1. Lib(e[1]).members[MemberFor(e[1], n)].atoms \in Seq(Atoms)
      BY <1>3, <1>4, <2>1, TheLib
    <3> QED BY <2>1, <3>1
  <2>2. CASE Lib(e[1]).kind # "archive"
    <3>1. e[1] \in DOMAIN link.libs /\ e[2] \in {"listed", "implicit"}
          /\ Lib(e[1]).kind = "dylib" /\ n \in Lib(e[1]).strong \cup Lib(e[1]).weak
      BY <1>4, <2>2
    <3>2. ExportAtom(n, e[1], e[2], n \in Lib(e[1]).weak) \in Atoms
      BY <1>3, <3>1, MadeAssumption DEF Lib
    <3> QED BY <2>2, <3>2
  <2> QED BY <2>1, <2>2
<1>10. ASSUME NEW e \in A PROVE \E a \in Range(given(e)) : a.key = n /\ ~Static(a)
  <2>1. CASE Lib(e[1]).kind = "archive"
    BY <1>4, <2>1 DEF Defines
  <2>2. CASE Lib(e[1]).kind # "archive"
    <3> DEFINE x == ExportAtom(n, e[1], e[2], n \in Lib(e[1]).weak)
    <3>1. x.key = n /\ ~Static(x)
      BY DEF ExportAtom, MadeAtom, Static
    <3> HIDE DEF x
    <3>2. given(e) = <<x>>
      BY <2>2 DEF x
    <3>3. x \in Range(<<x>>)
      BY DEF Range
    <3> QED BY <3>1, <3>2, <3>3
  <2> QED BY <2>1, <2>2
<1> HIDE DEF A, found, given, opts
<1>6. Len(found) \in Nat /\ DOMAIN found = 1 .. Len(found) /\ \A i \in DOMAIN found : found[i] \in A
  BY <1>2, LenProperties, ElementOfSeq
<1>7. todo' \in Seq(Atoms)
  <2>1. [i \in DOMAIN found |-> given(found[i])] \in [1 .. Len(found) -> Seq(Atoms)]
    BY <1>5, <1>6
  <2>2. [i \in DOMAIN found |-> given(found[i])] \in Seq(Seq(Atoms))
    BY <1>6, <2>1, SeqDef
  <2> QED BY <1>1, <2>2, Flattened
<1>8. ASSUME NEW m \in members PROVE Defines(Lib(m[1]).members[m[2]], n)
  <2>1. PICK i \in inArch : m = <<found[i][1], MemberFor(found[i][1], n)>>
    OBVIOUS
  <2>2. found[i] \in A /\ Lib(found[i][1]).kind = "archive"
    BY <1>6
  <2>3. Defines(Lib(found[i][1]).members[MemberFor(found[i][1], n)], n)
    BY <1>4, <2>2
  <2>4. m[1] = found[i][1] /\ m[2] = MemberFor(found[i][1], n)
    BY <2>1
  <2> QED BY <2>3, <2>4
<1>9. /\ searchLibs' \in Seq(DOMAIN link.libs)
      /\ processed' = {} => processed = {} /\ searchLibs' = searchLibs
  BY <1>1, OptionsAdded
<1>11. ASSUME found # <<>> PROVE \E a \in Range(todo') : a.key = n /\ ~Static(a)
  <2> DEFINE q == [i \in DOMAIN found |-> given(found[i])]
  <2>1. 1 \in DOMAIN found
    BY <1>2, <1>6, <1>11, EmptySeq
  <2>2. q \in [1 .. Len(found) -> Seq(Atoms)] /\ q[1] = given(found[1]) /\ DOMAIN q = DOMAIN found
    BY <1>5, <1>6, <2>1
  <2>3. todo' = FlattenSeq(q)
    BY <1>1
  <2> HIDE DEF q
  <2>4. q \in Seq(Seq(Atoms))
    BY <1>6, <2>2, SeqDef
  <2>5. PICK a \in Range(given(found[1])) : a.key = n /\ ~Static(a)
    BY <1>6, <1>10, <2>1
  <2>6. a \in Range(FlattenSeq(q))
    BY <2>1, <2>2, <2>4, <2>5, FlattenKeeps
  <2> QED BY <2>3, <2>5, <2>6
<1> HIDE DEF members
<1> QED BY <1>1, <1>7, <1>8, <1>9, <1>11 DEF found

-----------------------------------------------------------------------------
(***************************************************************************)
(* What doAtom does to the table, whatever atoms arrive.                   *)
(***************************************************************************)

\* What RecordDuplicates does to the lists.
LEMMA ListsGrow ==
  ASSUME TableTypeOK, NEW a \in Atoms, a.key \in Names, NEW b \in Atoms,
         RecordDuplicates(a, b)
  PROVE  /\ dupErrors' \in [Names -> SUBSET Atoms]
         /\ dupWarnings' \in [Names -> SUBSET Atoms]
         /\ \A n \in Names : dupErrors[n] \subseteq dupErrors'[n]
         /\ ReportDuplicate(a, b, Treatment) /\ Treatment = "error" => dupErrors'[a.key] # {}
<1> DEFINE with(list) == [list EXCEPT ![a.key] =
                            AddDuplicate(AddDuplicate(@, b), a)]
<1>1. ASSUME NEW s \in SUBSET Atoms
      PROVE  LET t == AddDuplicate(AddDuplicate(s, b), a)
             IN  t \in SUBSET Atoms /\ s \subseteq t /\ t # {}
  BY DEF AddDuplicate
<1>2. ASSUME NEW list \in [Names -> SUBSET Atoms]
      PROVE  /\ with(list) \in [Names -> SUBSET Atoms]
             /\ \A n \in Names : list[n] \subseteq with(list)[n]
             /\ with(list)[a.key] # {}
  BY <1>1
<1>3. dupErrors \in [Names -> SUBSET Atoms] /\ dupWarnings \in [Names -> SUBSET Atoms]
  BY DEF TableTypeOK
<1>4. /\ dupErrors' = IF ReportDuplicate(a, b, Treatment) /\ Treatment = "error"
                      THEN with(dupErrors) ELSE dupErrors
      /\ dupWarnings' = IF ReportDuplicate(a, b, Treatment) /\ Treatment = "warning"
                        THEN with(dupWarnings) ELSE dupWarnings
  BY DEF RecordDuplicates
<1> HIDE DEF with
<1> QED BY <1>2, <1>3, <1>4

\* The slots after doAtom: its own, when it takes it, and those of literals.
LEMMA SlotsFilled ==
  ASSUME TableTypeOK, NEW a \in Atoms, DoAtom(a), thrown' = FALSE
  PROVE  /\ binding' \in [Keys -> Atoms \cup {NULL}]
         /\ \A k \in Keys :
              \/ binding'[k] = binding[k]
              \/ binding'[k] = a /\ k = a.key /\ ~Static(a)
              \/ /\ binding'[k] \in ContentRefs[a] /\ binding'[k] \in Atoms
                 /\ binding'[k].key = k /\ ByContent(binding'[k])
         /\ BindReferences(a, WithAtom(a)) => binding'[a.key] = a
         /\ BindReferences(a, binding) /\ a.key \in Names => binding'[a.key] = binding[a.key]
<1>1. binding \in [Keys -> Atoms \cup {NULL}]
  BY DEF TableTypeOK
<1>2. /\ WithAtom(a) \in [Keys -> Atoms \cup {NULL}]
      /\ \A k \in Keys : WithAtom(a)[k] = IF k = a.key THEN a ELSE binding[k]
  BY <1>1, AtomKey DEF WithAtom
<1>3. \/ BindReferences(a, binding)
      \/ BindReferences(a, WithAtom(a)) /\ ~Static(a)
  BY DoAtomCases
<1>4. CASE BindReferences(a, binding)
  <2>1. /\ binding' \in [Keys -> Atoms \cup {NULL}]
        /\ \A k \in Keys :
             \/ binding'[k] = binding[k]
             \/ /\ binding'[k] \in ContentRefs[a] /\ binding'[k] \in Atoms
                /\ binding'[k].key = k /\ ByContent(binding'[k])
    BY <1>1, <1>4, References
  <2>2. a.key \in Keys /\ (a.key \in Names => binding'[a.key] = binding[a.key])
    BY <2>1, AtomKey DEF Keys
  <2>3. BindReferences(a, WithAtom(a)) => binding'[a.key] = a
    <3> SUFFICES ASSUME BindReferences(a, WithAtom(a)) PROVE binding'[a.key] = a
      OBVIOUS
    <3> QED BY <1>2, <2>2, AtomKey, References
  <2> QED BY <2>1, <2>2, <2>3
<1>5. CASE BindReferences(a, WithAtom(a)) /\ ~Static(a)
  <2>1. /\ binding' \in [Keys -> Atoms \cup {NULL}]
        /\ \A k \in Keys :
             \/ binding'[k] = WithAtom(a)[k]
             \/ /\ WithAtom(a)[k] = NULL
                /\ binding'[k] \in ContentRefs[a] /\ binding'[k] \in Atoms
                /\ binding'[k].key = k /\ ByContent(binding'[k])
    BY <1>2, <1>5, References
  <2>2. a.key \in Keys /\ a # NULL
    BY AtomKey
  <2>3. binding'[a.key] = a
    BY <1>2, <2>1, <2>2
  <2>4. BindReferences(a, binding) /\ a.key \in Names => binding'[a.key] = binding[a.key]
    BY <1>4
  <2> QED BY <1>2, <1>5, <2>1, <2>3, <2>4
<1> QED BY <1>3, <1>4, <1>5

\* doAtom keeps the type of the table, and forgets nothing.
LEMMA TypeStep ==
  ASSUME TableTypeOK, NEW a \in Atoms, DoAtom(a), thrown = FALSE
  PROVE  TableTypeOK' /\ slots \subseteq slots' /\ added \subseteq added' /\ thrown' \in BOOLEAN
<1>1. CASE thrown' # FALSE
  <2>1. /\ thrown' = TRUE /\ slots' = slots \cup {a.key}
        /\ UNCHANGED <<binding, added, coalesced, dupErrors, dupWarnings, initialDone>>
    BY <1>1, DoAtomThrows
  <2>2. a.key \in Keys
    BY AtomKey
  <2> QED BY <2>1, <2>2 DEF TableTypeOK
<1>2. CASE thrown' = FALSE
  <2>1. /\ added' = added \cup {a} /\ initialDone' = initialDone
        /\ slots' = slots \cup (IF Static(a) THEN {} ELSE {a.key})
                      \cup a.refs \cup {t.key : t \in ContentRefs[a]}
    BY <1>2, DoAtomCases
  <2>2. /\ a.key \in Keys /\ a.refs \subseteq Names
        /\ {t.key : t \in ContentRefs[a]} \subseteq Keys
    BY AtomKey
  <2>3. slots' \subseteq Keys /\ added' \subseteq Atoms /\ slots \subseteq slots'
    BY <2>1, <2>2 DEF TableTypeOK, Keys
  <2>4. binding' \in [Keys -> Atoms \cup {NULL}]
    BY <1>2, SlotsFilled
  <2>5. ASSUME NEW k \in Keys, binding'[k] # NULL PROVE binding'[k].key = k /\ k \in slots'
    <3>1. CASE binding'[k] = binding[k]
      BY <2>3, <2>5, <3>1 DEF TableTypeOK
    <3>2. CASE binding'[k] = a /\ k = a.key /\ ~Static(a)
      BY <2>1, <3>2
    <3>3. CASE binding'[k] \in ContentRefs[a] /\ binding'[k].key = k
      BY <2>1, <3>3
    <3> QED BY <1>2, <3>1, <3>2, <3>3, SlotsFilled
  <2>6. binding[a.key] # NULL => binding[a.key] \in Atoms
    BY <2>2 DEF TableTypeOK
  <2>7. coalesced' \subseteq Atoms
    <3>1. /\ Subordinates[a] \subseteq Atoms
          /\ binding[a.key] # NULL => Subordinates[binding[a.key]] \subseteq Atoms
      BY <2>6, AtomKey
    <3>2. \/ coalesced' = coalesced
          \/ coalesced' = coalesced \cup {a} \cup Subordinates[a]
          \/ /\ binding[a.key] # NULL
             /\ coalesced' = coalesced \cup {binding[a.key]} \cup Subordinates[binding[a.key]]
      BY <1>2, DoAtomCases DEF MarkCoalescedAway
    <3>3. coalesced \subseteq Atoms
      BY DEF TableTypeOK
    <3> QED BY <2>6, <3>1, <3>2, <3>3
  <2>8. dupErrors' \in [Names -> SUBSET Atoms] /\ dupWarnings' \in [Names -> SUBSET Atoms]
    <3>1. \/ dupErrors' = dupErrors /\ dupWarnings' = dupWarnings
          \/ ~ByContent(a) /\ binding[a.key] # NULL /\ RecordDuplicates(a, binding[a.key])
      BY <1>2, DoAtomCases
    <3>2. CASE dupErrors' = dupErrors /\ dupWarnings' = dupWarnings
      BY <3>2 DEF TableTypeOK
    <3>3. CASE ~ByContent(a) /\ binding[a.key] # NULL /\ RecordDuplicates(a, binding[a.key])
      BY <2>6, <3>3, AtomKey, ListsGrow
    <3> QED BY <3>1, <3>2, <3>3
  <2>9. initialDone' \in BOOLEAN /\ thrown' \in BOOLEAN
    BY <1>2, <2>1 DEF TableTypeOK
  <2> QED BY <2>1, <2>3, <2>4, <2>5, <2>7, <2>8, <2>9 DEF TableTypeOK
<1> QED BY <1>1, <1>2

\* What a name is bound to has been taken by the table.
NamesAdded ==
  \A n \in Names : binding[n] # NULL => binding[n] \in added /\ ~Static(binding[n])

\* Without -dead_strip, while no duplicate of a name is listed, a strong
\* definition of it is the one its slot holds: the next strong or absolute one
\* meets it there and is listed.  The mach header's atom is never listed.
SingleStrong ==
  ~DeadCodeStrip =>
    \A n \in Names :
      dupErrors[n] = {} /\ (\A c \in AtomsOf(n) : ~c.machHeader)
        => \A a \in AtomsOf(n) : Strong(a) => binding[n] = a

\* What doAtom does to one name.
LEMMA OneNameStep ==
  ASSUME TableTypeOK, NEW a \in Atoms, DoAtom(a), thrown = FALSE, NEW n \in Names
  PROVE  \/ /\ AtomsOf(n)' = AtomsOf(n) /\ binding'[n] = binding[n]
            /\ dupErrors[n] \subseteq dupErrors'[n]
         \/ /\ a.key = n /\ ~Static(a) /\ AtomsOf(n)' = AtomsOf(n) \cup {a}
            /\ binding[n] = NULL /\ binding'[n] = a
            /\ dupErrors[n] \subseteq dupErrors'[n]
         \/ /\ a.key = n /\ ~Static(a) /\ AtomsOf(n)' = AtomsOf(n) \cup {a}
            /\ binding[n] # NULL
            /\ \/ "A" \in Chosen(a, binding[n], Treatment) /\ binding'[n] = a
               \/ "B" \in Chosen(a, binding[n], Treatment) /\ binding'[n] = binding[n]
            /\ dupErrors[n] \subseteq dupErrors'[n]
            /\ ReportDuplicate(a, binding[n], Treatment) /\ Treatment = "error"
                 => dupErrors'[n] # {}
<1>1. n \in Keys /\ a.key \in Keys
  BY AtomKey DEF Keys
<1>2. CASE thrown' # FALSE
  BY <1>2, DoAtomThrows DEF AtomsOf, Static
<1>3. ASSUME thrown' = FALSE PROVE added' = added \cup {a}
  BY <1>3, DoAtomCases
<1>4. ASSUME thrown' = FALSE PROVE dupErrors[n] \subseteq dupErrors'[n]
  <2>1. \/ dupErrors' = dupErrors
        \/ ~ByContent(a) /\ binding[a.key] # NULL /\ RecordDuplicates(a, binding[a.key])
    BY <1>4, DoAtomCases
  <2>2. binding[a.key] # NULL => binding[a.key] \in Atoms
    BY <1>1 DEF TableTypeOK
  <2> QED BY <2>1, <2>2, AtomKey, ListsGrow
<1>5. CASE thrown' = FALSE /\ (a.key # n \/ Static(a))
  <2>1. AtomsOf(n)' = AtomsOf(n)
    BY <1>3, <1>5 DEF AtomsOf, Static
  <2>2. binding'[n] = binding[n]
    <3>1. ASSUME binding'[n] \in Atoms, binding'[n].key = n, ByContent(binding'[n])
          PROVE  FALSE
      BY <3>1, AtomKey
    <3> QED BY <1>1, <1>5, <3>1, SlotsFilled
  <2> QED BY <1>4, <1>5, <2>1, <2>2
<1>6. CASE thrown' = FALSE /\ a.key = n /\ ~Static(a)
  <2>1. AtomsOf(n)' = AtomsOf(n) \cup {a}
    BY <1>3, <1>6 DEF AtomsOf, Static
  <2>2. ~ByContent(a)
    BY <1>6, AtomKey
  <2>3. /\ BindReferences(a, WithAtom(a)) => binding'[n] = a
        /\ BindReferences(a, binding) => binding'[n] = binding[n]
    BY <1>6, SlotsFilled
  <2>4. CASE binding[n] = NULL
    <3>1. BindReferences(a, WithAtom(a))
      BY <1>6, <2>2, <2>4, DoAtomCases
    <3> QED BY <1>4, <1>6, <2>1, <2>3, <2>4, <3>1
  <2>5. CASE binding[n] # NULL
    <3>1. /\ \/ "A" \in Chosen(a, binding[n], Treatment) /\ BindReferences(a, WithAtom(a))
             \/ "B" \in Chosen(a, binding[n], Treatment) /\ BindReferences(a, binding)
          /\ RecordDuplicates(a, binding[n])
      BY <1>6, <2>2, <2>5, DoAtomCases
    <3>2. binding[n] \in Atoms
      BY <1>1, <2>5 DEF TableTypeOK
    <3>3. ReportDuplicate(a, binding[n], Treatment) /\ Treatment = "error"
            => dupErrors'[n] # {}
      BY <1>6, <3>1, <3>2, ListsGrow
    <3> QED BY <1>4, <1>6, <2>1, <2>3, <2>5, <3>1, <3>3
  <2> QED BY <2>4, <2>5
<1> QED BY <1>2, <1>5, <1>6

\* An atom that meets a strong definition leaves it where it is or is listed.
LEMMA StrongStays ==
  ASSUME NEW a \in Atoms, NEW b \in Atoms, ~a.machHeader, ~b.machHeader,
         ~ReportDuplicate(a, b, "error")
  PROVE  /\ Strong(b) => ~Strong(a) /\ "A" \notin Chosen(a, b, "error")
         /\ Strong(a) => "B" \notin Chosen(a, b, "error")
<1>1. /\ a.definition \in {"regular", "tentative", "absolute", "proxy"}
      /\ b.definition \in {"regular", "tentative", "absolute", "proxy"}
  BY AtomsAssumption
<1>2. ASSUME Strong(b) PROVE ~Strong(a)
  BY <1>2 DEF ReportDuplicate, AreDuplicates, Strong
<1>3. ASSUME Strong(b) PROVE "A" \notin Chosen(a, b, "error")
  <2>1. b.definition = "regular" /\ ~IsWeak(b)
    BY <1>3 DEF Strong
  <2>2. a.definition # "absolute" /\ (a.definition = "regular" => IsWeak(a))
    BY <1>1, <1>2, <1>3, <2>1 DEF ReportDuplicate, Strong
  <2>3. Chosen(a, b, "error") = PickAtomB
    <3>1. CASE a.definition = "regular"
      BY <2>1, <2>2, <3>1 DEF Chosen, PickBetweenRegularAtoms
    <3>2. CASE a.definition = "tentative"
      BY <2>1, <3>2 DEF Chosen
    <3>3. CASE a.definition = "proxy"
      BY <2>1, <3>3 DEF Chosen
    <3> QED BY <1>1, <2>2, <3>1, <3>2, <3>3
  <2> QED BY <2>3 DEF PickAtomB
<1>4. ASSUME Strong(a) PROVE "B" \notin Chosen(a, b, "error")
  <2>1. a.definition = "regular" /\ ~IsWeak(a)
    BY <1>4 DEF Strong
  <2>2. b.definition # "absolute" /\ (b.definition = "regular" => IsWeak(b))
    BY <1>2, <1>4, <2>1 DEF ReportDuplicate, Strong
  <2>3. Chosen(a, b, "error") = PickAtomA
    <3>1. CASE b.definition = "regular"
      BY <2>1, <2>2, <3>1 DEF Chosen, PickBetweenRegularAtoms
    <3>2. CASE b.definition = "tentative"
      BY <2>1, <3>2 DEF Chosen
    <3>3. CASE b.definition = "proxy"
      BY <2>1, <3>3 DEF Chosen
    <3> QED BY <1>1, <2>2, <3>1, <3>2, <3>3
  <2> QED BY <2>3 DEF PickAtomA
<1> QED BY <1>2, <1>3, <1>4

\* doAtom keeps both.
LEMMA NamesStep ==
  ASSUME TableTypeOK, NamesAdded, SingleStrong, NEW a \in Atoms, DoAtom(a), thrown = FALSE
  PROVE  NamesAdded' /\ SingleStrong'
<1>1. added \subseteq added'
  BY TypeStep
<1>2. NamesAdded'
  <2>1. ASSUME NEW n \in Names, binding'[n] # NULL
        PROVE  binding'[n] \in added' /\ ~Static(binding'[n])
    <3>1. CASE AtomsOf(n)' = AtomsOf(n) \cup {a} /\ binding'[n] = a /\ ~Static(a)
      <4>1. a \in added'
        BY <3>1 DEF AtomsOf
      <4> QED BY <3>1, <4>1
    <3>2. CASE binding'[n] = binding[n]
      BY <1>1, <2>1, <3>2 DEF NamesAdded
    <3> QED BY <3>1, <3>2, OneNameStep
  <2> QED BY <2>1 DEF NamesAdded, Static
<1>3. SingleStrong'
  <2>1. SUFFICES ASSUME ~DeadCodeStrip, NEW n \in Names, dupErrors'[n] = {},
                        \A c \in AtomsOf(n)' : ~c.machHeader,
                        NEW s \in AtomsOf(n)', Strong(s)
                 PROVE  binding'[n] = s
    BY DEF SingleStrong, Strong, IsWeak
  <2>2. Treatment = "error"
    BY <2>1 DEF Treatment
  <2>3. /\ AtomsOf(n) \subseteq AtomsOf(n)' /\ dupErrors[n] = {}
        /\ \A c \in AtomsOf(n) : ~c.machHeader
    BY <2>1, OneNameStep
  <2>4. s \in AtomsOf(n) => binding[n] = s
    BY <2>1, <2>3 DEF SingleStrong
  <2>5. CASE AtomsOf(n)' = AtomsOf(n) /\ binding'[n] = binding[n]
    BY <2>1, <2>4, <2>5
  <2>6. CASE AtomsOf(n)' = AtomsOf(n) \cup {a} /\ binding[n] = NULL /\ binding'[n] = a
    <3>1. AtomsOf(n) \subseteq Atoms /\ NULL \notin Atoms
      BY AtomsAssumption DEF TableTypeOK, AtomsOf
    <3> QED BY <2>1, <2>4, <2>6, <3>1
  <2>7. CASE /\ a.key = n /\ ~Static(a) /\ AtomsOf(n)' = AtomsOf(n) \cup {a}
             /\ binding[n] # NULL
             /\ \/ "A" \in Chosen(a, binding[n], Treatment) /\ binding'[n] = a
                \/ "B" \in Chosen(a, binding[n], Treatment) /\ binding'[n] = binding[n]
             /\ ReportDuplicate(a, binding[n], Treatment) /\ Treatment = "error"
                  => dupErrors'[n] # {}
    <3>1. binding[n] \in added /\ ~Static(binding[n])
      BY <2>7 DEF NamesAdded
    <3>2. binding[n] \in AtomsOf(n) /\ binding[n] \in Atoms
      BY <2>7, <3>1 DEF AtomsOf, TableTypeOK, Keys
    <3>3. ~a.machHeader /\ ~binding[n].machHeader
      BY <2>1, <2>3, <2>7, <3>2
    <3>4. ~ReportDuplicate(a, binding[n], "error")
      BY <2>1, <2>2, <2>7
    <3>5. /\ Strong(binding[n]) => ~Strong(a) /\ "A" \notin Chosen(a, binding[n], "error")
          /\ Strong(a) => "B" \notin Chosen(a, binding[n], "error")
      BY <3>2, <3>3, <3>4, StrongStays
    <3>6. CASE s = a
      BY <2>1, <2>2, <2>7, <3>5, <3>6
    <3>7. CASE s \in AtomsOf(n)
      BY <2>1, <2>2, <2>4, <2>7, <3>5, <3>7
    <3> QED BY <2>1, <2>7, <3>6, <3>7
  <2> QED BY <2>5, <2>6, <2>7, OneNameStep
<1> QED BY <1>2, <1>3

-----------------------------------------------------------------------------
(***************************************************************************)
(* The inductive invariant.                                                *)
(***************************************************************************)

\* What the lists of the resolver hold.  A name that is to be looked at has a
\* slot: something refers to it.
ListsOK ==
  /\ LinkOK
  /\ inputs \in Seq(DOMAIN link.libs)
  /\ todo \in Seq(Atoms)
  /\ pending \in Seq(Names \cap slots)

\* Where resolve() is.
Standing ==
  /\ phase \notin {"inputs", "failed"} => Range(link.undefs) \subseteq slots
  /\ phase # "failed" => thrown = FALSE
  /\ phase = "mark" => pending # <<>>
  /\ phase = "done" => todo = <<>>
  /\ phase = "done" /\ ~DeadCodeStrip => \A n \in Names : dupErrors[n] = {}

RInv == TableTypeOK /\ NamesAdded /\ SingleStrong /\ ListsOK /\ Standing

\* A step that adds no atom to the table.
LEMMA TableKept ==
  ASSUME TableTypeOK, NamesAdded, SingleStrong,
         UNCHANGED <<binding, added, coalesced, dupErrors, dupWarnings, thrown>>,
         slots \subseteq slots', slots' \subseteq Keys, initialDone' \in BOOLEAN
  PROVE  TableTypeOK' /\ NamesAdded' /\ SingleStrong'
<1>1. TableTypeOK'
  BY DEF TableTypeOK
<1>2. NamesAdded'
  BY DEF NamesAdded, Static
<1>3. \A n : AtomsOf(n)' = AtomsOf(n)
  BY DEF AtomsOf, Static
<1>4. SingleStrong'
  BY <1>3 DEF SingleStrong, Strong, IsWeak
<1> QED BY <1>1, <1>2, <1>4

\* A step that leaves the table alone.
LEMMA Quiet ==
  ASSUME RInv, UNCHANGED <<tableVars, link>>, inputs' \in Seq(DOMAIN link.libs),
         searchLibs' \in Seq(DOMAIN link.libs), todo' \in Seq(Atoms),
         pending' \in Seq(Names \cap slots), Standing'
  PROVE  RInv'
<1>1. /\ UNCHANGED <<binding, added, coalesced, dupErrors, dupWarnings, thrown>>
      /\ slots' = slots /\ initialDone' = initialDone
  BY DEF tableVars
<1>2. slots \subseteq Keys /\ initialDone \in BOOLEAN
  BY DEF RInv, TableTypeOK
<1>3. TableTypeOK' /\ NamesAdded' /\ SingleStrong'
  BY <1>1, <1>2, TableKept DEF RInv
<1>4. ListsOK'
  BY <1>1 DEF RInv, ListsOK, LinkOK
<1> QED BY <1>3, <1>4 DEF RInv

\* A list of names that have slots.
LEMMA SortedNames ==
  ASSUME NEW S, S \subseteq Names \cap slots
  PROVE  Sorted(S) \in Seq(Names \cap slots)
<1>1. S \in SUBSET Nat /\ IsFiniteSet(S)
  BY LinksAssumption, FS_Subset
<1>2. Sorted(S) \in Seq(S)
  BY <1>1, SortedElements
<1> QED BY <1>2, SeqMonotonic

\* The names whose slots are empty and those that are commons.
LEMMA NamesOfTable ==
  ASSUME TableTypeOK
  PROVE  Undefines \subseteq Names \cap slots /\ TentativeDefs \subseteq Names \cap slots
BY DEF TableTypeOK, Undefines, TentativeDefs, IsTentative, Keys

\* The next name of a loop.
LEMMA NextName ==
  ASSUME RInv, pending # <<>>
  PROVE  Head(pending) \in Names \cap slots /\ Tail(pending) \in Seq(Names \cap slots)
BY HeadTailProperties DEF RInv, ListsOK

\* No name at all.
LEMMA NoName == <<>> \in Seq(Names \cap slots) /\ <<>> \in Seq(Atoms)
BY EmptySeq

\* The first state.
LEMMA InitRInv == Init => RInv
<1> SUFFICES ASSUME Init PROVE RInv
  OBVIOUS
<1>1. TableTypeOK
  BY InitTInv DEF Init, TInv
<1>2. added = {} /\ \A n \in Names : binding[n] = NULL
  BY DEF Init, TableInit, Keys
<1>3. NamesAdded
  BY <1>2 DEF NamesAdded
<1>4. SingleStrong
  BY <1>2 DEF SingleStrong, AtomsOf
<1>5. link \in Links /\ phase = "inputs" /\ inputs = link.inputs /\ todo = <<>>
      /\ searchLibs = <<>> /\ pending = <<>> /\ thrown = FALSE
  BY DEF Init, TableInit
<1>6. ListsOK
  BY <1>5, TheLink, EmptySeq DEF ListsOK, LinkOK
<1>7. Standing
  BY <1>5 DEF Standing
<1> QED BY <1>1, <1>3, <1>4, <1>6, <1>7 DEF RInv

\* doAtom of an atom that was handed over.
LEMMA DeliverRInv ==
  ASSUME RInv, Deliver
  PROVE  RInv'
<1>1. /\ todo # <<>> /\ phase # "failed" /\ DoAtom(Head(todo)) /\ todo' = Tail(todo)
      /\ phase' = IF thrown' THEN "failed" ELSE phase
      /\ UNCHANGED <<link, inputs, searchLibs, pending>>
  BY DEF Deliver, Idle
<1>2. Head(todo) \in Atoms /\ Tail(todo) \in Seq(Atoms)
  BY <1>1, HeadTailProperties DEF RInv, ListsOK
<1>3. thrown = FALSE
  BY <1>1 DEF RInv, Standing
<1>4. TableTypeOK' /\ slots \subseteq slots' /\ thrown' \in BOOLEAN
  BY <1>1, <1>2, <1>3, TypeStep DEF RInv
<1>5. NamesAdded' /\ SingleStrong'
  BY <1>1, <1>2, <1>3, NamesStep DEF RInv
<1>6. pending \in Seq(Names \cap slots')
  <2>1. Names \cap slots \subseteq Names \cap slots'
    BY <1>4
  <2> QED BY <2>1, SeqMonotonic DEF RInv, ListsOK
<1>7. ListsOK'
  BY <1>1, <1>2, <1>6 DEF RInv, ListsOK, LinkOK
<1>8. Standing'
  <2>1. phase # "done"
    BY <1>1 DEF RInv, Standing
  <2> QED BY <1>1, <1>4, <2>1 DEF RInv, Standing
<1> QED BY <1>4, <1>5, <1>7, <1>8 DEF RInv

\* The next file of the command line.
LEMMA LoadInputRInv ==
  ASSUME RInv, LoadInput
  PROVE  RInv'
<1> DEFINE l == Head(inputs)
           all == Lib(l).kind = "object" \/ Lib(l).force
<1>1. /\ phase = "inputs" /\ inputs # <<>> /\ inputs' = Tail(inputs) /\ phase' = "inputs"
      /\ todo' = IF all THEN AllAtoms(l) ELSE <<>>
      /\ searchLibs' = IF Lib(l).kind = "object" THEN searchLibs ELSE Append(searchLibs, l)
      /\ UNCHANGED <<link, pending, tableVars>>
  BY DEF LoadInput
<1>2. /\ inputs \in Seq(DOMAIN link.libs) /\ link \in Links
      /\ searchLibs \in Seq(DOMAIN link.libs) /\ pending \in Seq(Names \cap slots)
  BY DEF RInv, ListsOK, LinkOK
<1>3. l \in DOMAIN link.libs /\ Tail(inputs) \in Seq(DOMAIN link.libs)
  BY <1>1, <1>2, HeadTailProperties
<1>4. todo' \in Seq(Atoms)
  BY <1>1, <1>2, <1>3, TheAtoms, EmptySeq
<1>5. searchLibs' \in Seq(DOMAIN link.libs)
  BY <1>1, <1>2, <1>3, AppendProperties
<1>6. Standing'
  BY <1>1 DEF RInv, Standing, tableVars
<1> QED BY <1>1, <1>2, <1>3, <1>4, <1>5, <1>6, Quiet

\* The end of the command line: the initial undefines get slots.
LEMMA CompleteInputsRInv ==
  ASSUME RInv, CompleteInputs
  PROVE  RInv'
<1>1. /\ phase = "inputs" /\ phase' = "outer" /\ AddLinkerOptionLibraries(options)
      /\ initialDone' = TRUE /\ slots' = slots \cup Range(link.undefs)
      /\ UNCHANGED <<link, inputs, todo, pending, binding, added, coalesced, dupErrors,
                     dupWarnings, thrown>>
  BY DEF CompleteInputs
<1>2. link \in Links /\ LinkOK
  BY DEF RInv, ListsOK, LinkOK
<1>3. Range(link.undefs) \subseteq Names
  BY <1>2, TheLink, RangeOfSeq
<1>4. slots \subseteq slots' /\ slots' \subseteq Keys
  BY <1>1, <1>3 DEF RInv, TableTypeOK, Keys
<1>5. TableTypeOK' /\ NamesAdded' /\ SingleStrong'
  BY <1>1, <1>4, TableKept DEF RInv
<1>7. searchLibs' \in Seq(DOMAIN link.libs)
  BY <1>1, <1>2, OptionsAdded
<1>8. pending \in Seq(Names \cap slots')
  <2>1. Names \cap slots \subseteq Names \cap slots'
    BY <1>1
  <2> QED BY <2>1, SeqMonotonic DEF RInv, ListsOK
<1>9. ListsOK'
  BY <1>1, <1>7, <1>8 DEF RInv, ListsOK, LinkOK
<1>10. Standing'
  BY <1>1 DEF RInv, Standing
<1> QED BY <1>5, <1>9, <1>10 DEF RInv

\* The loops of resolveAllUndefines list the names they look at.
LEMMA LoopRInv ==
  ASSUME RInv, OuterTest \/ InnerTest \/ EndLoop
  PROVE  RInv'
<1>1. /\ phase \notin {"inputs", "failed"} /\ phase' \notin {"inputs", "failed", "mark", "done"}
      /\ pending' \in {pending, <<>>, Sorted(Undefines), Sorted(TentativeDefs)}
      /\ UNCHANGED <<tableVars, link, inputs, searchLibs, todo>>
  BY DEF OuterTest, InnerTest, EndLoop, otherVars
<1>2. pending' \in Seq(Names \cap slots)
  <2>1. /\ pending \in Seq(Names \cap slots) /\ <<>> \in Seq(Names \cap slots)
        /\ Sorted(Undefines) \in Seq(Names \cap slots)
        /\ Sorted(TentativeDefs) \in Seq(Names \cap slots)
    BY NoName, NamesOfTable, SortedNames DEF RInv, ListsOK
  <2> QED BY <1>1, <2>1
<1>3. Standing'
  BY <1>1 DEF RInv, Standing, tableVars
<1>4. /\ inputs' \in Seq(DOMAIN link.libs) /\ searchLibs' \in Seq(DOMAIN link.libs)
      /\ todo' \in Seq(Atoms)
  BY <1>1 DEF RInv, ListsOK, LinkOK
<1> QED BY <1>1, <1>2, <1>3, <1>4, Quiet

\* A step that searches for the name n, or skips it.
Searches(n) ==
  \/ SkipSearch
  \/ ~HasName(n) /\ todo' = <<BoundaryAtom(n)>> /\ UNCHANGED <<loaded, searchLibs, processed>>
  \/ (HasName(n) => IsTentative(n))
     /\ \E dylibs, archives, dataOnly \in BOOLEAN : SearchLibraries(n, dylibs, archives, dataOnly)

\* The steps that search look at the next name of their loop.
LEMMA SearchSteps ==
  ASSUME ResolveUndefine \/ OverrideTentative \/ SearchRoot \/ CheckCollision
  PROVE  /\ pending # <<>> /\ phase \in {"pass", "options", "tents", "roots", "collide"}
         /\ \/ phase' = phase /\ pending' = Tail(pending)
            \/ phase' = "mark" /\ pending' = pending
         /\ UNCHANGED <<tableVars, link, inputs, atoms>>
         /\ Searches(Head(pending))
<1>1. TRUE \in BOOLEAN /\ FALSE \in BOOLEAN /\ (CommonsMode = "overriddenByDylibs") \in BOOLEAN
  OBVIOUS
<1>2. CASE ResolveUndefine
  BY <1>1, <1>2 DEF ResolveUndefine, Searches, otherVars, HasName
<1>3. CASE OverrideTentative
  BY <1>1, <1>3 DEF OverrideTentative, Searches, otherVars
<1>4. CASE SearchRoot
  BY <1>1, <1>4 DEF SearchRoot, Searches, otherVars, HasName
<1>5. CASE CheckCollision
  BY <1>1, <1>5 DEF CheckCollision, Searches, otherVars
<1> QED BY <1>2, <1>3, <1>4, <1>5

LEMMA SearchRInv ==
  ASSUME RInv, ResolveUndefine \/ OverrideTentative \/ SearchRoot \/ CheckCollision
  PROVE  RInv'
<1>1. /\ pending # <<>> /\ phase \in {"pass", "options", "tents", "roots", "collide"}
      /\ \/ phase' = phase /\ pending' = Tail(pending)
         \/ phase' = "mark" /\ pending' = pending
      /\ UNCHANGED <<tableVars, link, inputs>>
      /\ Searches(Head(pending))
  BY SearchSteps
<1>2. Head(pending) \in Names /\ Tail(pending) \in Seq(Names \cap slots)
  BY <1>1, NextName
<1>3. LinkOK /\ link \in Links /\ todo \in Seq(Atoms) /\ searchLibs \in Seq(DOMAIN link.libs)
      /\ inputs \in Seq(DOMAIN link.libs) /\ pending \in Seq(Names \cap slots)
  BY DEF RInv, ListsOK, LinkOK
<1>4. todo' \in Seq(Atoms) /\ searchLibs' \in Seq(DOMAIN link.libs)
  <2>1. CASE SkipSearch
    BY <1>3, <2>1 DEF SkipSearch
  <2>2. CASE todo' = <<BoundaryAtom(Head(pending))>> /\ searchLibs' = searchLibs
    <3>1. BoundaryAtom(Head(pending)) \in Atoms
      BY <1>2, MadeAssumption
    <3> QED BY <1>3, <2>2, <3>1
  <2>3. ASSUME NEW d, NEW a, NEW o, SearchLibraries(Head(pending), d, a, o)
        PROVE  todo' \in Seq(Atoms) /\ searchLibs' \in Seq(DOMAIN link.libs)
    BY <1>2, <1>3, <2>3, Searched
  <2> QED BY <1>1, <2>1, <2>2, <2>3 DEF Searches
<1>5. Standing'
  BY <1>1 DEF RInv, Standing, tableVars
<1>6. pending' \in Seq(Names \cap slots) /\ inputs' \in Seq(DOMAIN link.libs)
  BY <1>1, <1>2, <1>3
<1> QED BY <1>1, <1>4, <1>5, <1>6, Quiet

\* Proxies are handed over for what may stay undefined, and the roots listed.
LEMMA MakeProxiesRInv ==
  ASSUME RInv, MakeProxies
  PROVE  RInv'
<1> DEFINE S == IF UndefinedError THEN Undefines \cap AllowedUndefines ELSE Undefines
           names == Sorted(S)
           roots == (IF link.entry = NULL THEN <<>> ELSE <<link.entry>>) \o link.undefs
<1>1. /\ phase = "proxies" /\ phase' \in {"roots", "check"}
      /\ todo' = [i \in DOMAIN names |-> UndefinedProxyAtom(names[i])]
      /\ pending' = IF ~DeadCodeStrip THEN <<>> ELSE roots
      /\ UNCHANGED <<tableVars, link, inputs, searchLibs>>
  BY DEF MakeProxies, otherVars
<1>2. /\ link \in Links /\ Range(link.undefs) \subseteq slots
      /\ inputs \in Seq(DOMAIN link.libs) /\ searchLibs \in Seq(DOMAIN link.libs)
  BY <1>1 DEF RInv, Standing, ListsOK, LinkOK
<1>3. todo' \in Seq(Atoms)
  <2>1. S \subseteq Names \cap slots
    BY NamesOfTable DEF RInv
  <2> HIDE DEF S
  <2>2. names \in Seq(Names \cap slots)
    BY <2>1, SortedNames
  <2> HIDE DEF names
  <2>3. Len(names) \in Nat /\ DOMAIN names = 1 .. Len(names) /\ \A i \in DOMAIN names : names[i] \in Names
    BY <2>2, LenProperties, ElementOfSeq
  <2>4. \A i \in DOMAIN names : UndefinedProxyAtom(names[i]) \in Atoms
    BY <2>3, MadeAssumption
  <2>5. [i \in DOMAIN names |-> UndefinedProxyAtom(names[i])] \in [1 .. Len(names) -> Atoms]
    BY <2>3, <2>4
  <2>6. [i \in DOMAIN names |-> UndefinedProxyAtom(names[i])] \in Seq(Atoms)
    BY <2>3, <2>5, SeqDef
  <2> QED BY <1>1, <2>6
<1>4. roots \in Seq(Names \cap slots)
  <2>1. link.undefs \in Seq(Names) /\ link.entry \in Range(link.undefs) \cup {NULL}
    BY <1>2, TheLink
  <2>2. Range(link.undefs) \subseteq Names \cap slots
    BY <1>2, <2>1, RangeOfSeq
  <2>3. link.undefs \in Seq(Range(link.undefs))
    <3>1. Len(link.undefs) \in Nat /\ link.undefs \in [1 .. Len(link.undefs) -> Names]
      BY <2>1, LenProperties
    <3>2. link.undefs \in [1 .. Len(link.undefs) -> Range(link.undefs)]
      BY <3>1 DEF Range
    <3> QED BY <3>1, <3>2, SeqDef
  <2>4. link.undefs \in Seq(Names \cap slots)
    BY <2>2, <2>3, SeqMonotonic
  <2>5. (IF link.entry = NULL THEN <<>> ELSE <<link.entry>>) \in Seq(Names \cap slots)
    <3>1. link.entry # NULL => link.entry \in Names \cap slots
      BY <2>1, <2>2
    <3>2. <<>> \in Seq(Names \cap slots)
      BY NoName
    <3>3. link.entry # NULL => <<link.entry>> \in Seq(Names \cap slots)
      BY <3>1
    <3> QED BY <3>2, <3>3
  <2> QED BY <2>4, <2>5, ConcatProperties
<1> HIDE DEF roots, names
<1>5. pending' \in Seq(Names \cap slots)
  BY <1>1, <1>4, NoName
<1>6. Standing'
  BY <1>1 DEF RInv, Standing, tableVars
<1>7. inputs' \in Seq(DOMAIN link.libs) /\ searchLibs' \in Seq(DOMAIN link.libs)
  BY <1>1, <1>2
<1> QED BY <1>1, <1>3, <1>5, <1>6, <1>7, Quiet

\* The steps of deadStripOptimize that mark and strip.
LEMMA MarkRInv ==
  ASSUME RInv, MarkRoot \/ MarkKept \/ MarkSupport \/ StripDead
  PROVE  RInv'
<1>1. /\ phase \in {"mark", "roots", "support"}
      /\ phase' \in {"roots", "failed", "support", "check"}
      /\ pending' = pending \/ (phase = "mark" /\ pending' = Tail(pending))
      /\ UNCHANGED <<tableVars, link, inputs, searchLibs, todo>>
  BY DEF MarkRoot, MarkKept, MarkSupport, StripDead
<1>2. pending' \in Seq(Names \cap slots)
  <2>1. CASE pending' = pending
    BY <2>1 DEF RInv, ListsOK
  <2>2. CASE phase = "mark" /\ pending' = Tail(pending)
    <3>1. pending # <<>>
      BY <2>2 DEF RInv, Standing
    <3> QED BY <2>2, <3>1, NextName
  <2> QED BY <1>1, <2>1, <2>2
<1>3. Standing'
  BY <1>1 DEF RInv, Standing, tableVars
<1>4. /\ inputs' \in Seq(DOMAIN link.libs) /\ searchLibs' \in Seq(DOMAIN link.libs)
      /\ todo' \in Seq(Atoms)
  BY <1>1 DEF RInv, ListsOK, LinkOK
<1> QED BY <1>1, <1>2, <1>3, <1>4, Quiet

\* The checks at the end.
LEMMA CheckRInv ==
  ASSUME RInv, CheckUndefines \/ Finish
  PROVE  RInv'
<1> DEFINE S == {n \in TentativeDefs : binding[n].scope = "global"}
<1>1. /\ phase \in {"check", "collide"} /\ phase' \in {"failed", "collide", "done"}
      /\ phase' = "done" => todo = <<>> /\ ~DuplicateFound
      /\ pending' \in {pending, Sorted(S)}
      /\ UNCHANGED <<tableVars, link, inputs, searchLibs, todo>>
  BY DEF CheckUndefines, Finish, Idle, otherVars
<1>2. pending' \in Seq(Names \cap slots)
  <2>1. S \subseteq Names \cap slots
    BY NamesOfTable DEF RInv
  <2> HIDE DEF S
  <2>2. pending \in Seq(Names \cap slots) /\ Sorted(S) \in Seq(Names \cap slots)
    BY <2>1, SortedNames DEF RInv, ListsOK
  <2> QED BY <1>1, <2>2
<1>3. Standing'
  <2>1. phase' = "done" /\ ~DeadCodeStrip => \A n \in Names : dupErrors[n] = {}
    BY <1>1 DEF DuplicateFound
  <2> QED BY <1>1, <2>1 DEF RInv, Standing, tableVars
<1>4. /\ inputs' \in Seq(DOMAIN link.libs) /\ searchLibs' \in Seq(DOMAIN link.libs)
      /\ todo' \in Seq(Atoms)
  BY <1>1 DEF RInv, ListsOK, LinkOK
<1> QED BY <1>1, <1>2, <1>3, <1>4, Quiet

\* Every step keeps the invariant.
LEMMA NextRInv == RInv /\ [Next]_vars => RInv'
<1> SUFFICES ASSUME RInv, [Next]_vars PROVE RInv'
  OBVIOUS
<1>1. CASE UNCHANGED vars
  <2>1. UNCHANGED <<tableVars, link, inputs, searchLibs, todo, pending, phase>>
    BY <1>1 DEF vars, resolverVars
  <2>2. /\ inputs' \in Seq(DOMAIN link.libs) /\ searchLibs' \in Seq(DOMAIN link.libs)
        /\ todo' \in Seq(Atoms) /\ pending' \in Seq(Names \cap slots)
    BY <2>1 DEF RInv, ListsOK, LinkOK
  <2>3. Standing'
    BY <2>1 DEF RInv, Standing, tableVars
  <2> QED BY <2>1, <2>2, <2>3, Quiet
<1>2. CASE Step
  BY <1>2, DeliverRInv, LoadInputRInv, CompleteInputsRInv, LoopRInv, SearchRInv,
     MakeProxiesRInv, MarkRInv, CheckRInv DEF Step
<1> QED BY <1>1, <1>2 DEF Next, Terminated

LEMMA ResolverInvariance == Spec => []RInv
BY InitRInv, NextRInv, PTL DEF Spec

-----------------------------------------------------------------------------
(***************************************************************************)
(* What is loaded, and duplicates.                                         *)
(***************************************************************************)

\* A step loads a member only for a name that is referred to, that nothing or
\* a common defines, and that the member defines (OnlyNeededMembers).
LEMMA LoadsNeeded ==
  ASSUME RInv, [Next]_vars, NEW m \in loaded' \ loaded
  PROVE  \E n \in Names \cap slots :
           /\ Defines(Lib(m[1]).members[m[2]], n)
           /\ binding[n] = NULL \/ IsTentative(n)
<1>1. ResolveUndefine \/ OverrideTentative \/ SearchRoot \/ CheckCollision
  BY DEF Next, Step, Terminated, Deliver, LoadInput, CompleteInputs, OuterTest, InnerTest,
         EndLoop, MakeProxies, MarkRoot, MarkKept, MarkSupport, StripDead, CheckUndefines,
         Finish, vars, resolverVars
<1> DEFINE n == Head(pending)
<1>2. pending # <<>> /\ Searches(n)
  BY <1>1, SearchSteps
<1>3. n \in Names \cap slots
  BY <1>2, NextName
<1> HIDE DEF n
<1>4. PICK d, a, o \in BOOLEAN :
        (HasName(n) => IsTentative(n)) /\ SearchLibraries(n, d, a, o)
  BY <1>2 DEF Searches, SkipSearch
<1>5. Defines(Lib(m[1]).members[m[2]], n)
  BY <1>3, <1>4, Searched DEF RInv, ListsOK
<1> QED BY <1>3, <1>4, <1>5 DEF HasName

\* resolveCurrentUndefines checks again before it searches: for all links, a
\* member of an archive is loaded only when it is needed.
THEOREM MembersNeeded == Spec => OnlyNeededMembers
<1>1. RInv /\ [Next]_vars =>
        [\A m \in loaded' \ loaded :
           \E n \in Names \cap slots :
             /\ Defines(Lib(m[1]).members[m[2]], n)
             /\ binding[n] = NULL \/ IsTentative(n)]_vars
  BY LoadsNeeded
<1> QED BY <1>1, ResolverInvariance, PTL DEF Spec, OnlyNeededMembers

\* No other definition has the name of a mach header's atom.
HeadersApart ==
  \A a, b \in added :
    a.machHeader /\ a.key = b.key /\ ~Static(a) /\ ~Static(b) => b.machHeader

\* checkDuplicateSymbols: for all links without -dead_strip, one that succeeds
\* has met no name with two strong definitions, whichever of them an archive or
\* an auto-linked library brought, and when.  An atom of the mach header hides a
\* definition of its name: pickBetweenRegularAtoms prefers it without a report.
THEOREM DuplicatesFail == Spec => [](HeadersApart => NoSilentDuplicate)
<1>1. RInv => (HeadersApart => NoSilentDuplicate)
  <2> SUFFICES ASSUME RInv, HeadersApart, phase = "done", ~DeadCodeStrip,
                      NEW n \in Names, NEW a \in AtomsOf(n), NEW b \in AtomsOf(n),
                      AreDuplicates(a, b)
               PROVE  a = b
    BY DEF NoSilentDuplicate
  <2>1. Strong(a) /\ Strong(b) /\ ~a.machHeader
    BY DEF AreDuplicates, Strong
  <2>2. \A c \in AtomsOf(n) : ~c.machHeader
    BY <2>1 DEF AtomsOf, HeadersApart
  <2>3. dupErrors[n] = {}
    BY DEF RInv, Standing
  <2>4. binding[n] = a /\ binding[n] = b
    BY <2>1, <2>2, <2>3 DEF RInv, SingleStrong
  <2> QED BY <2>4
<1> QED BY <1>1, ResolverInvariance, PTL
-----------------------------------------------------------------------------
(***************************************************************************)
(* The search is complete.                                                 *)
(***************************************************************************)

\* No library has an answer for n.
Unanswered(n) == \A e \in Range(SearchOrder(TRUE)) : ~Answers(e[1], n, TRUE, TRUE, FALSE)
AllUnanswered == \A n \in Undefines : Unanswered(n)

\* A definition of n is being handed over.
Coming(n) == \E a \in Range(todo) : a.key = n /\ ~Static(a)

\* What the search has reached, as long as no linker option was seen.  The
\* count taken at the start of a loop tells whether a slot was made since: if
\* none was, an undefined name is unanswered, or the loop has not come to it, or
\* its definition was found and is on its way.
Progress ==
  /\ phase = "pass" /\ innerGen = Cardinality(slots) =>
       \A n \in Undefines : Unanswered(n) \/ n \in Range(pending) \/ Coming(n)
  /\ phase = "inner" /\ innerGen = Cardinality(slots) => AllUnanswered
  /\ phase \in {"tents", "outer"} /\ gen = Cardinality(slots) => AllUnanswered
  /\ phase = "options" => pending = <<>> /\ todo = <<>> /\ AllUnanswered
  /\ phase = "proxies" => AllUnanswered

\* The counts are those of earlier states.
Counts ==
  /\ gen \in Int /\ gen <= Cardinality(slots)
  /\ innerGen \in Int /\ innerGen <= Cardinality(slots)
  /\ phase = "inputs" => gen = -1
  /\ phase \in {"outer", "inner", "proxies"} => todo = <<>>

SearchInv == Counts /\ (processed = {} => Progress)

\* The size of the table only grows, and tells whether a slot was made.
LEMMA SlotCount ==
  ASSUME NEW S, S \subseteq Keys, NEW T, T \subseteq S
  PROVE  /\ Cardinality(S) \in Nat /\ Cardinality(T) \in Nat
         /\ Cardinality(T) <= Cardinality(S)
         /\ Cardinality(S) = Cardinality(T) => S = T
<1>1. IsFiniteSet(Keys)
  BY LinksAssumption, FS_Union DEF Keys
<1>2. IsFiniteSet(S)
  BY <1>1, FS_Subset
<1>3. IsFiniteSet(T)
  BY <1>2, FS_Subset
<1> QED BY <1>2, <1>3, FS_Subset, FS_CardinalityType

\* An element of a list is the first or one of the others.
LEMMA HeadOrTail ==
  ASSUME NEW S, NEW s \in Seq(S), s # <<>>, NEW x \in Range(s)
  PROVE  x = Head(s) \/ x \in Range(Tail(s))
<1>1. /\ Len(s) \in Nat /\ DOMAIN s = 1 .. Len(s)
      /\ Tail(s) \in Seq(S) /\ Len(Tail(s)) = Len(s) - 1
      /\ \A i \in 1 .. Len(Tail(s)) : Tail(s)[i] = s[i + 1]
      /\ Head(s) = s[1]
  BY HeadTailProperties, LenProperties
<1>2. PICK i \in 1 .. Len(s) : x = s[i]
  BY <1>1 DEF Range
<1>3. CASE i = 1
  BY <1>1, <1>2, <1>3
<1>4. CASE i # 1
  <2>1. i - 1 \in 1 .. Len(Tail(s)) /\ (i - 1) + 1 = i
    BY <1>1, <1>2, <1>4
  <2>2. Tail(s)[i - 1] = x
    BY <1>1, <1>2, <2>1
  <2>3. DOMAIN Tail(s) = 1 .. Len(Tail(s))
    BY <1>1, LenProperties
  <2> QED BY <2>1, <2>2, <2>3 DEF Range
<1> QED BY <1>3, <1>4

\* A search finds nothing exactly when no library has an answer.
LEMMA NothingFound ==
  ASSUME LinkOK, NEW n
  PROVE  Unanswered(n) <=> Answerers(n, TRUE, TRUE, FALSE) = <<>>
<1> DEFINE P == (DOMAIN link.libs) \X {"listed", "implicit"}
           libs == SearchOrder(TRUE)
           B == {e \in Range(libs) : Answers(e[1], n, TRUE, TRUE, FALSE)}
           order == Only(libs, B)
           ends == {i \in DOMAIN order : n \notin Lib(order[i][1]).weak}
           cut == CHOOSE i \in ends : \A j \in ends : i <= j
<1>1. libs \in Seq(P)
  BY TheOrder
<1>2. Unanswered(n) <=> B = {}
  BY DEF Unanswered
<1>3. Answerers(n, TRUE, TRUE, FALSE) = IF ends = {} THEN order ELSE SubSeq(order, 1, cut)
  BY Zenon DEF Answerers
<1>4. B \subseteq Range(libs)
  OBVIOUS
<1> HIDE DEF P, B, libs
<1>5. order \in Seq(P \cap B)
  BY <1>1, OnlyElements
<1>6. Len(order) \in Nat /\ DOMAIN order = 1 .. Len(order)
  BY <1>5, LenProperties
<1>7. ends \subseteq 1 .. Len(order)
  BY <1>6
<1>8. ASSUME B = {} PROVE Answerers(n, TRUE, TRUE, FALSE) = <<>>
  <2>1. order \in Seq({})
    BY <1>5, <1>8
  <2> HIDE DEF order, ends
  <2>2. Len(order) = 0
    BY <1>6, <2>1, ElementOfSeq
  <2>3. order = <<>> /\ ends = {}
    BY <1>5, <1>7, <2>2, EmptySeq
  <2> QED BY <1>3, <2>3
<1>9. ASSUME B # {} PROVE Answerers(n, TRUE, TRUE, FALSE) # <<>>
  <2>1. PICK i \in DOMAIN libs : libs[i] \in B
    BY <1>4, <1>9 DEF Range
  <2>2. PICK j \in DOMAIN order : order[j] = libs[i]
    BY <1>1, <2>1, OnlyKeeps
  <2> HIDE DEF order, ends
  <2>3. Len(order) >= 1
    BY <1>6, <2>2
  <2>6. ASSUME NEW q, Len(q) >= 1 PROVE q # <<>>
    BY <2>6
  <2>4. CASE ends = {}
    BY <1>3, <2>3, <2>4, <2>6
  <2>5. CASE ends # {}
    <3>1. ends \in SUBSET Nat
      BY <1>6, <1>7
    <3>2. \E k \in ends : \A m \in ends : k <= m
      BY <2>5, <3>1, LeastNat
    <3>3. cut \in ends
      BY <3>2
    <3> HIDE DEF cut
    <3>4. cut \in 1 .. Len(order)
      BY <1>7, <3>3
    <3>5. 1 \in 1 .. Len(order) + 1 /\ cut \in 0 .. Len(order)
      BY <1>6, <3>4
    <3>6. Len(SubSeq(order, 1, cut)) = IF 1 <= cut THEN cut - 1 + 1 ELSE 0
      BY <1>5, <3>5, SubSeqProperties
    <3>7. Len(SubSeq(order, 1, cut)) >= 1
      BY <1>6, <3>4, <3>6
    <3>8. SubSeq(order, 1, cut) # <<>>
      BY <2>6, <3>7
    <3> QED BY <1>3, <2>5, <3>8
  <2> QED BY <2>4, <2>5
<1> QED BY <1>2, <1>8, <1>9

\* What no library answers stays so: a member that is loaded answers no more.
LEMMA UnansweredStays ==
  ASSUME link' = link, searchLibs' = searchLibs, loaded \subseteq loaded',
         NEW n, Unanswered(n)
  PROVE  Unanswered(n)'
<1>1. SearchOrder(TRUE)' = SearchOrder(TRUE)
  BY DEF SearchOrder, ImplicitDylibs, AutoLinkedDylibs, Lib
<1>2. ASSUME NEW l, Answers(l, n, TRUE, TRUE, FALSE)' PROVE Answers(l, n, TRUE, TRUE, FALSE)
  BY <1>2 DEF Answers, DylibAnswers, ArchiveAnswers, HasMember, MemberFor, Members, Lib,
              Defines, Static
<1> QED BY <1>1, <1>2 DEF Unanswered

LEMMA AllStay ==
  ASSUME link' = link, searchLibs' = searchLibs, loaded \subseteq loaded',
         Undefines' \subseteq Undefines, AllUnanswered
  PROVE  AllUnanswered'
BY UnansweredStays DEF AllUnanswered
\* doAtom of what was handed over: the name it defines is undefined no more.
LEMMA DeliverSearch ==
  ASSUME RInv, SearchInv, Deliver
  PROVE  SearchInv'
<1> DEFINE a == Head(todo)
<1>1. /\ todo # <<>> /\ phase # "failed" /\ DoAtom(a) /\ todo' = Tail(todo)
      /\ phase' = IF thrown' THEN "failed" ELSE phase
      /\ UNCHANGED <<link, searchLibs, processed, loaded, pending, gen, innerGen>>
  BY DEF Deliver, Idle
<1>2. a \in Atoms /\ todo \in Seq(Atoms)
  BY <1>1, HeadTailProperties DEF RInv, ListsOK
<1> HIDE DEF a
<1>3. thrown = FALSE /\ TableTypeOK
  BY <1>1 DEF RInv, Standing
<1>4. slots \subseteq slots' /\ slots' \subseteq Keys /\ thrown' \in BOOLEAN
  BY <1>1, <1>2, <1>3, TypeStep DEF TableTypeOK
<1>5. /\ Cardinality(slots') \in Nat /\ Cardinality(slots) \in Nat
      /\ Cardinality(slots) <= Cardinality(slots')
      /\ Cardinality(slots') = Cardinality(slots) => slots' = slots
  BY <1>4, SlotCount
<1>6. Counts'
  BY <1>1, <1>4, <1>5 DEF SearchInv, Counts
<1>7. ASSUME NEW g, g \in {gen, innerGen}, g = Cardinality(slots')
      PROVE  slots' = slots /\ g = Cardinality(slots)
  <2>1. g \in Int /\ g <= Cardinality(slots)
    BY <1>7 DEF SearchInv, Counts
  <2> QED BY <1>5, <1>7, <2>1
<1>8. ASSUME slots' = slots PROVE Undefines' \subseteq Undefines
  <2>1. ASSUME NEW n \in Names, binding'[n] = NULL PROVE binding[n] = NULL
    BY <1>1, <1>2, <1>3, <2>1, OneNameStep, AtomKey
  <2> QED BY <1>8, <2>1 DEF Undefines
<1>9. ASSUME thrown' = FALSE, NEW n \in Names, binding[n] = NULL, binding'[n] = NULL, Coming(n)
      PROVE  Coming(n)'
  <2>1. PICK b \in Range(todo) : b.key = n /\ ~Static(b)
    BY <1>9 DEF Coming
  <2>2. ASSUME b = a PROVE FALSE
    <3>1. a.key = n /\ ~Static(a) /\ ~ByContent(a)
      BY <1>2, <1>9, <2>1, <2>2, AtomKey
    <3>2. BindReferences(a, WithAtom(a))
      BY <1>1, <1>2, <1>3, <1>9, <3>1, DoAtomCases
    <3>3. binding'[n] = a
      BY <1>1, <1>2, <1>3, <1>9, <3>1, <3>2, SlotsFilled
    <3> QED BY <1>2, <1>9, <3>3, AtomKey
  <2>3. b \in Range(Tail(todo))
    BY <1>1, <1>2, <2>2, HeadOrTail DEF a
  <2> QED BY <1>1, <2>1, <2>3 DEF Coming, Static
<1>10. ASSUME processed' = {} PROVE Progress'
  <2>1. Progress
    BY <1>1, <1>10 DEF SearchInv
  <2>2. CASE thrown' # FALSE
    BY <1>1, <1>4, <2>2 DEF Progress
  <2>3. CASE thrown' = FALSE
    <3>1. phase' = phase
      BY <1>1, <2>3
    <3>2. phase \notin {"outer", "inner", "proxies", "options"}
      BY <1>1, <2>1 DEF SearchInv, Counts, Progress
    <3>3. ASSUME phase = "pass", innerGen = Cardinality(slots'), NEW n \in Undefines'
          PROVE  Unanswered(n)' \/ n \in Range(pending) \/ Coming(n)'
      <4>1. slots' = slots /\ innerGen = Cardinality(slots)
        BY <1>7, <3>3
      <4>2. n \in Undefines /\ n \in Names /\ binding[n] = NULL /\ binding'[n] = NULL
        BY <1>8, <3>3, <4>1 DEF Undefines
      <4>3. Unanswered(n) \/ n \in Range(pending) \/ Coming(n)
        BY <2>1, <3>3, <4>1, <4>2 DEF Progress
      <4>4. Unanswered(n) => Unanswered(n)'
        BY <1>1, UnansweredStays
      <4> QED BY <1>9, <2>3, <4>2, <4>3, <4>4
    <3>4. ASSUME phase = "tents", gen = Cardinality(slots') PROVE AllUnanswered'
      <4>1. slots' = slots /\ gen = Cardinality(slots)
        BY <1>7, <3>4
      <4>2. AllUnanswered /\ Undefines' \subseteq Undefines
        BY <1>8, <2>1, <3>4, <4>1 DEF Progress
      <4> QED BY <1>1, <4>2, AllStay
    <3> QED BY <1>1, <3>1, <3>2, <3>3, <3>4 DEF Progress
  <2> QED BY <2>2, <2>3
<1> QED BY <1>6, <1>10 DEF SearchInv

\* The files of the command line.
LEMMA InputsSearch ==
  ASSUME RInv, SearchInv, LoadInput \/ CompleteInputs
  PROVE  SearchInv'
<1>1. /\ phase = "inputs" /\ UNCHANGED <<link, gen, innerGen>>
      /\ \/ phase' = "inputs" /\ slots' = slots
         \/ phase' = "outer" /\ slots' = slots \cup Range(link.undefs) /\ todo = <<>> /\ todo' = todo
  BY DEF LoadInput, CompleteInputs, tableVars, Idle
<1>2. link \in Links /\ slots \subseteq Keys
  BY DEF RInv, ListsOK, LinkOK, TableTypeOK
<1>3. Range(link.undefs) \subseteq Names
  BY <1>2, TheLink, RangeOfSeq
<1>4. slots \subseteq slots' /\ slots' \subseteq Keys
  BY <1>1, <1>2, <1>3 DEF Keys
<1>5. /\ Cardinality(slots') \in Nat /\ Cardinality(slots) \in Nat
      /\ Cardinality(slots) <= Cardinality(slots')
  BY <1>4, SlotCount
<1>6. gen = -1 /\ innerGen \in Int /\ innerGen <= Cardinality(slots)
  BY <1>1 DEF SearchInv, Counts
<1>7. Counts'
  BY <1>1, <1>5, <1>6 DEF Counts
<1>8. gen' # Cardinality(slots')
  BY <1>1, <1>5, <1>6
<1>9. Progress'
  BY <1>1, <1>8 DEF Progress
<1> QED BY <1>7, <1>9 DEF SearchInv

\* The tests of the loops and their ends.
LEMMA LoopSearch ==
  ASSUME RInv, SearchInv, OuterTest \/ InnerTest \/ EndLoop
  PROVE  SearchInv'
<1>1. /\ todo = <<>> /\ todo' = todo
      /\ UNCHANGED <<tableVars, link, searchLibs, processed, loaded>>
  BY DEF OuterTest, InnerTest, EndLoop, otherVars, Idle
<1>2. slots' = slots /\ binding' = binding
  BY <1>1 DEF tableVars
<1>3. Undefines' = Undefines
  BY <1>2 DEF Undefines
<1>4. AllUnanswered => AllUnanswered'
  BY <1>1, <1>3, AllStay
<1>5. slots \subseteq Keys /\ Cardinality(slots) \in Nat
  BY SlotCount DEF RInv, TableTypeOK
<1>6. /\ gen \in Int /\ gen <= Cardinality(slots)
      /\ innerGen \in Int /\ innerGen <= Cardinality(slots)
  BY DEF SearchInv, Counts
<1>7. processed' = {} => Progress
  BY <1>1 DEF SearchInv
<1>8. CASE OuterTest
  <2>1. /\ phase = "outer" /\ gen' = gen
        /\ IF gen # Cardinality(slots) THEN innerGen' = -1 /\ phase' = "inner"
           ELSE /\ phase' = "options" /\ innerGen' = innerGen
                /\ pending' = IF processed = {} THEN <<>> ELSE Sorted(Undefines)
    BY <1>8 DEF OuterTest, updateCount
  <2>2. Counts'
    BY <1>1, <1>2, <1>5, <1>6, <2>1 DEF Counts
  <2>3. CASE gen # Cardinality(slots)
    <3>1. phase' = "inner" /\ innerGen' # Cardinality(slots')
      BY <1>2, <1>5, <2>1, <2>3
    <3> QED BY <2>2, <3>1 DEF SearchInv, Progress
  <2>4. CASE gen = Cardinality(slots)
    <3>1. processed' = {} => AllUnanswered'
      BY <1>4, <1>7, <2>1, <2>4 DEF Progress
    <3>2. phase' = "options" /\ (processed' = {} => pending' = <<>>)
      BY <1>1, <2>1, <2>4
    <3> QED BY <1>1, <2>2, <3>1, <3>2 DEF SearchInv, Progress
  <2> QED BY <2>3, <2>4
<1>9. CASE InnerTest
  <2>1. /\ phase = "inner"
        /\ IF innerGen # Cardinality(slots)
           THEN /\ innerGen' = Cardinality(slots) /\ gen' = gen
                /\ pending' = Sorted(Undefines) /\ phase' = "pass"
           ELSE gen' = innerGen /\ innerGen' = innerGen /\ phase' = "tents"
    BY <1>9 DEF InnerTest, updateCount
  <2>2. Counts'
    BY <1>1, <1>2, <1>5, <1>6, <2>1 DEF Counts
  <2>3. CASE innerGen # Cardinality(slots)
    <3>1. Undefines \in SUBSET Nat /\ IsFiniteSet(Undefines)
      BY LinksAssumption, FS_Subset DEF Undefines
    <3>2. \A n \in Undefines : n \in Range(Sorted(Undefines))
      BY <3>1, SortedKeeps
    <3>3. phase' = "pass" /\ pending' = Sorted(Undefines)
      BY <2>1, <2>3
    <3>4. \A n \in Undefines' : n \in Range(pending')
      BY <1>3, <3>2, <3>3
    <3> QED BY <2>2, <3>3, <3>4 DEF SearchInv, Progress
  <2>4. CASE innerGen = Cardinality(slots)
    <3>1. processed' = {} => AllUnanswered'
      BY <1>4, <1>7, <2>1, <2>4 DEF Progress
    <3>2. phase' = "tents"
      BY <2>1, <2>4
    <3> QED BY <2>2, <3>1, <3>2 DEF SearchInv, Progress
  <2> QED BY <2>3, <2>4
<1>10. CASE EndLoop
  <2>1. /\ pending = <<>> /\ gen' = gen /\ innerGen' = innerGen
        /\ \/ phase = "pass" /\ phase' = "inner"
           \/ phase = "tents" /\ phase' = "outer"
           \/ phase = "options" /\ phase' = "proxies"
    BY <1>10 DEF EndLoop
  <2>2. Counts'
    BY <1>1, <1>2, <1>5, <1>6, <2>1 DEF Counts
  <2>3. ASSUME NEW n PROVE ~(n \in Range(pending)) /\ ~Coming(n)
    BY <1>1, <2>1 DEF Coming, Range
  <2>4. CASE phase = "pass" /\ phase' = "inner"
    <3>1. processed' = {} /\ innerGen = Cardinality(slots) => AllUnanswered
      BY <1>7, <2>3, <2>4 DEF Progress, AllUnanswered
    <3> QED BY <1>2, <1>4, <2>1, <2>2, <2>4, <3>1 DEF SearchInv, Progress
  <2>5. CASE phase = "tents" /\ phase' = "outer"
    <3>1. processed' = {} /\ gen = Cardinality(slots) => AllUnanswered
      BY <1>7, <2>5 DEF Progress
    <3> QED BY <1>2, <1>4, <2>1, <2>2, <2>5, <3>1 DEF SearchInv, Progress
  <2>6. CASE phase = "options" /\ phase' = "proxies"
    <3>1. processed' = {} => AllUnanswered
      BY <1>7, <2>6 DEF Progress
    <3> QED BY <1>4, <2>2, <2>6, <3>1 DEF SearchInv, Progress
  <2> QED BY <2>1, <2>4, <2>5, <2>6
<1> QED BY <1>8, <1>9, <1>10
\* A search for a name that is undefined: what is found is on its way, and no
\* library joins the list unless a linker option is seen.
LEMMA SearchedName ==
  ASSUME RInv, ResolveUndefine, processed' = {}
  PROVE  /\ processed = {} /\ searchLibs' = searchLibs /\ loaded \subseteq loaded'
         /\ \/ HasName(Head(pending)) \/ Unanswered(Head(pending))
            \/ \E a \in Range(todo') : a.key = Head(pending) /\ ~Static(a)
<1> DEFINE n == Head(pending)
<1>1. /\ pending # <<>>
      /\ IF HasName(n) THEN SkipSearch
         ELSE IF /\ phase = "pass" /\ n \in BoundaryNames
                 /\ Answerers(n, TRUE, TRUE, FALSE) = <<>>
         THEN todo' = <<BoundaryAtom(n)>> /\ UNCHANGED <<loaded, searchLibs, processed>>
         ELSE SearchLibraries(n, TRUE, TRUE, FALSE)
  BY DEF ResolveUndefine
<1>2. LinkOK /\ n \in Names
  BY <1>1, NextName DEF RInv, ListsOK
<1>3. Unanswered(n) <=> Answerers(n, TRUE, TRUE, FALSE) = <<>>
  BY <1>2, NothingFound
<1> HIDE DEF n
<1>4. CASE SkipSearch /\ HasName(n)
  BY <1>4 DEF SkipSearch, n
<1>5. CASE UNCHANGED <<loaded, searchLibs, processed>> /\ Answerers(n, TRUE, TRUE, FALSE) = <<>>
  BY <1>3, <1>5 DEF n
<1>6. CASE SearchLibraries(n, TRUE, TRUE, FALSE)
  <2>1. /\ loaded \subseteq loaded'
        /\ processed' = {} => processed = {} /\ searchLibs' = searchLibs
        /\ Answerers(n, TRUE, TRUE, FALSE) # <<>>
             => \E a \in Range(todo') : a.key = n /\ ~Static(a)
    BY <1>2, <1>6, Searched
  <2> QED BY <1>3, <2>1 DEF n
<1> QED BY <1>1, <1>4, <1>5, <1>6

\* The loop goes on to the next name.
LEMMA NameSearched ==
  ASSUME RInv, ResolveUndefine, NEW n \in Undefines, processed' = {}, phase = "pass",
         Unanswered(n) \/ n \in Range(pending) \/ Coming(n)
  PROVE  Unanswered(n)' \/ n \in Range(Tail(pending)) \/ Coming(n)'
<1>1. pending # <<>> /\ todo = <<>> /\ link' = link
  BY DEF ResolveUndefine, Idle, otherVars
<1>2. /\ searchLibs' = searchLibs /\ loaded \subseteq loaded'
      /\ \/ HasName(Head(pending)) \/ Unanswered(Head(pending))
         \/ \E a \in Range(todo') : a.key = Head(pending) /\ ~Static(a)
  BY SearchedName
<1>3. Unanswered(n) => Unanswered(n)'
  BY <1>1, <1>2, UnansweredStays
<1>4. ~Coming(n)
  BY <1>1 DEF Coming, Range
<1>5. CASE n = Head(pending)
  <2>1. ~HasName(n)
    BY DEF Undefines, HasName
  <2>2. CASE Unanswered(n)
    BY <1>3, <2>2
  <2>3. CASE \E a \in Range(todo') : a.key = n /\ ~Static(a)
    BY <2>3 DEF Coming, Static
  <2> QED BY <1>2, <1>5, <2>1, <2>2, <2>3
<1>6. CASE n \in Range(pending) /\ n # Head(pending)
  <2>1. pending \in Seq(Names \cap slots)
    BY DEF RInv, ListsOK
  <2> QED BY <1>1, <1>6, <2>1, HeadOrTail
<1> QED BY <1>3, <1>4, <1>5, <1>6

\* The searches of the loops.
LEMMA SearchesSearch ==
  ASSUME RInv, SearchInv, ResolveUndefine \/ OverrideTentative
  PROVE  SearchInv'
<1>1. /\ phase \in {"pass", "options", "tents"} /\ phase' = phase /\ pending # <<>>
      /\ pending' = Tail(pending) /\ UNCHANGED <<tableVars, link, gen, innerGen>>
  BY DEF ResolveUndefine, OverrideTentative, otherVars
<1>2. slots' = slots /\ binding' = binding
  BY <1>1 DEF tableVars
<1>3. Undefines' = Undefines
  BY <1>2 DEF Undefines
<1>4. Counts'
  BY <1>1, <1>2 DEF SearchInv, Counts
<1>5. ASSUME processed' = {} PROVE Progress'
  <2>1. processed = {} /\ searchLibs' = searchLibs /\ loaded \subseteq loaded'
    <3>1. CASE ResolveUndefine
      BY <1>5, <3>1, SearchedName
    <3>2. CASE OverrideTentative
      <4>1. \/ SkipSearch
            \/ \E d : SearchLibraries(Head(pending), d, TRUE, TRUE)
        BY <3>2 DEF OverrideTentative
      <4>2. LinkOK /\ Head(pending) \in Names
        BY <1>1, NextName DEF RInv, ListsOK
      <4>3. CASE SkipSearch
        BY <1>5, <4>3 DEF SkipSearch
      <4>4. CASE \E d : SearchLibraries(Head(pending), d, TRUE, TRUE)
        BY <1>5, <4>2, <4>4, Searched
      <4> QED BY <4>1, <4>3, <4>4
    <3> QED BY <3>1, <3>2
  <2>2. Progress
    BY <2>1 DEF SearchInv
  <2>3. phase # "options"
    BY <1>1, <2>2 DEF Progress
  <2>4. CASE phase = "tents"
    <3>1. gen = Cardinality(slots) => AllUnanswered
      BY <2>2, <2>4 DEF Progress
    <3>2. AllUnanswered => AllUnanswered'
      BY <1>1, <1>3, <2>1, AllStay
    <3> QED BY <1>1, <1>2, <2>4, <3>1, <3>2 DEF Progress
  <2>5. CASE phase = "pass"
    <3>1. ResolveUndefine
      BY <2>5 DEF OverrideTentative
    <3>2. ASSUME innerGen = Cardinality(slots), NEW n \in Undefines'
          PROVE  Unanswered(n)' \/ n \in Range(Tail(pending)) \/ Coming(n)'
      <4>1. n \in Undefines
        BY <1>3, <3>2
      <4>2. Unanswered(n) \/ n \in Range(pending) \/ Coming(n)
        BY <2>2, <2>5, <3>2, <4>1 DEF Progress
      <4> QED BY <1>5, <2>5, <3>1, <4>1, <4>2, NameSearched
    <3> QED BY <1>1, <1>2, <2>5, <3>2 DEF Progress
  <2> QED BY <1>1, <2>3, <2>4, <2>5
<1> QED BY <1>4, <1>5 DEF SearchInv

\* The steps after the search, and steps that do nothing.
LEMMA LaterSearch ==
  ASSUME SearchInv,
         \/ MakeProxies \/ SearchRoot \/ MarkRoot \/ MarkKept \/ MarkSupport
         \/ StripDead \/ CheckUndefines \/ CheckCollision \/ Finish
  PROVE  SearchInv'
<1>1. /\ phase' \in {"roots", "check", "mark", "failed", "support", "collide", "done"}
      /\ UNCHANGED <<tableVars, gen, innerGen>>
  BY DEF MakeProxies, SearchRoot, MarkRoot, MarkKept, MarkSupport, StripDead,
         CheckUndefines, CheckCollision, Finish
<1>2. slots' = slots
  BY <1>1 DEF tableVars
<1>3. Counts'
  BY <1>1, <1>2 DEF SearchInv, Counts
<1>4. Progress'
  BY <1>1 DEF Progress
<1> QED BY <1>3, <1>4 DEF SearchInv

LEMMA IdleSearch ==
  ASSUME SearchInv, UNCHANGED vars
  PROVE  SearchInv'
<1>1. /\ UNCHANGED <<phase, todo, pending, gen, innerGen, processed, link, searchLibs, loaded>>
      /\ slots' = slots /\ binding' = binding
  BY DEF vars, resolverVars, tableVars
<1>2. Undefines' = Undefines
  BY <1>1 DEF Undefines
<1>3. AllUnanswered => AllUnanswered'
  BY <1>1, <1>2, AllStay
<1>4. ASSUME NEW n PROVE (Unanswered(n) => Unanswered(n)') /\ (Coming(n) => Coming(n)')
  BY <1>1, UnansweredStays DEF Coming, Static
<1>5. Counts'
  BY <1>1 DEF SearchInv, Counts
<1>6. Progress => Progress'
  BY <1>1, <1>2, <1>3, <1>4 DEF Progress
<1> QED BY <1>1, <1>5, <1>6 DEF SearchInv

\* The first state.
LEMMA InitSearch == Init => SearchInv
<1> SUFFICES ASSUME Init PROVE SearchInv
  OBVIOUS
<1>1. phase = "inputs" /\ gen = -1 /\ innerGen = -1 /\ slots = {}
  BY DEF Init, TableInit
<1>2. Cardinality(slots) = 0
  BY <1>1, FS_EmptySet
<1> QED BY <1>1, <1>2 DEF SearchInv, Counts, Progress

LEMMA NextSearch == RInv /\ SearchInv /\ [Next]_vars => SearchInv'
BY DeliverSearch, InputsSearch, LoopSearch, SearchesSearch, LaterSearch, IdleSearch
   DEF Next, Step, Terminated

\* resolveAllUndefines repeats its loops until the table stops growing: for all
\* links without linker options, when it is done with the libraries none of
\* them defines a name that is still undefined.  With linker options that does
\* not hold of all links: the last loop goes over the names once, and a member
\* that it loads may refer to a name that a library searched before defines.
THEOREM SearchComplete == Spec => [](processed = {} => Complete)
<1>1. RInv /\ SearchInv => (processed = {} => Complete)
  <2> SUFFICES ASSUME RInv, SearchInv, processed = {}, phase = "proxies", NEW n \in Undefines
               PROVE  Answerers(n, TRUE, TRUE, FALSE) = <<>>
    BY DEF Complete
  <2>1. Unanswered(n)
    BY DEF SearchInv, Progress, AllUnanswered
  <2> QED BY <2>1, NothingFound DEF RInv, ListsOK
<1>2. Spec => []SearchInv
  BY InitSearch, NextSearch, ResolverInvariance, PTL DEF Spec
<1> QED BY <1>1, <1>2, ResolverInvariance, PTL

-----------------------------------------------------------------------------
(***************************************************************************)
(* One definition of a name.                                               *)
(***************************************************************************)

\* The atoms of a member, and the members whose atoms are still to come.
Parsed(l, m) == Range(Lib(l).members[m].atoms)
Waiting(l, m) ==
  \/ l \in Range(inputs)
  \/ Lib(l).kind = "archive" /\ ~Lib(l).force /\ <<l, m>> \notin loaded

\* No file is handed over twice, and no library is searched twice for a name.
FilesOnce ==
  /\ phase # "inputs" => inputs = <<>>
  /\ DistinctIn(inputs, DOMAIN link.libs) /\ DistinctIn(searchLibs, DOMAIN link.libs)
  /\ Range(inputs) \cap Range(searchLibs) = {}

\* What is handed over was not handed over before, unless it is a proxy that
\* lost its name; so nothing that is kept is in the list of atoms twice.
AtomsOnce ==
  /\ DistinctIn(todo, Atoms)
  /\ \A a \in Range(todo) \cap added : a \in coalesced
  /\ \A l \in DOMAIN link.libs : \A m \in Members(l) :
       Waiting(l, m) => Parsed(l, m) \cap (added \cup Range(todo)) = {}
  /\ atoms \in Seq(added) /\ DistinctIn(atoms, Atoms \ coalesced)
  /\ phase = "done" => Range(atoms) \cap coalesced = {}

\* An atom that lost its name is marked: the table keeps one of a name.
KeptBound == \A a \in added : ~Static(a) /\ a \notin coalesced => binding[a.key] = a

OInv == phase # "failed" => FilesOnce /\ AtomsOnce /\ KeptBound

\* What FilesAssumption says of the files of the link.
LEMMA TheFiles ==
  ASSUME link \in Links
  PROVE  /\ IsInjective(link.inputs) /\ \A l \in link.implicit : Lib(l).kind = "dylib"
         /\ \A l \in DOMAIN link.libs : \A m \in Members(l) :
              /\ IsInjective(Lib(l).members[m].atoms)
              /\ \A a \in Parsed(l, m) : a.definition # "proxy" /\ a # BoundaryAtom(a.key)
              /\ \A h \in DOMAIN link.libs : \A i \in Members(h) :
                   Parsed(l, m) \cap Parsed(h, i) # {} => l = h /\ m = i
BY FilesAssumption, Zenon DEF FilesApart, Parsed, Lib, Members

\* A list that repeats nothing repeats nothing of a set.
LEMMA InjectiveDistinct ==
  ASSUME NEW s, IsInjective(s), NEW C
  PROVE  DistinctIn(s, C)
BY DEF IsInjective, DistinctIn

\* doAtom marks the atom that does not get the name, or that loses it.
LEMMA KeptStep ==
  ASSUME TableTypeOK, KeptBound, NEW a \in Atoms, DoAtom(a), thrown' = FALSE
  PROVE  /\ KeptBound' /\ coalesced \subseteq coalesced' /\ added' = added \cup {a}
<1> DEFINE Table(t) == \A k \in Keys : t[k] # NULL => binding'[k] = t[k]
<1>1. added' = added \cup {a}
  BY DEF DoAtom
<1>2. a.key \in Keys /\ a # NULL /\ binding \in [Keys -> Atoms \cup {NULL}]
      /\ added \subseteq Atoms /\ \A b \in Atoms : b.key \in Keys /\ b # NULL
  BY AtomsAssumption DEF Keys, TableTypeOK
<1>3. ASSUME NEW t, BindReferences(a, t) PROVE Table(t)
  BY <1>3 DEF BindReferences
<1>4. /\ WithAtom(a)[a.key] = a
      /\ \A k \in Keys : k # a.key => WithAtom(a)[k] = binding[k]
  BY <1>2 DEF WithAtom
<1>5. coalesced \subseteq coalesced'
  BY DEF DoAtom, SkipStatic, AddByContent, AddByName, MarkCoalescedAway
<1>6. \/ BindReferences(a, binding) /\ (Static(a) \/ a \in coalesced' \/ binding[a.key] = a)
      \/ BindReferences(a, WithAtom(a)) /\ (binding[a.key] = NULL \/ binding[a.key] \in coalesced')
  <2>1. CASE Static(a)
    BY <2>1 DEF DoAtom, SkipStatic
  <2>2. CASE ~Static(a) /\ ByContent(a)
    BY <2>2 DEF DoAtom, AddByContent, MarkCoalescedAway
  <2>3. CASE ~Static(a) /\ ~ByContent(a)
    BY <2>3 DEF DoAtom, AddByName, MarkCoalescedAway
  <2> QED BY <2>1, <2>2, <2>3
<1> HIDE DEF Table
<1>7. ASSUME NEW b \in added', ~Static(b), b \notin coalesced' PROVE binding'[b.key] = b
  <2>1. b \in Atoms /\ b.key \in Keys /\ b # NULL
    BY <1>1, <1>2, <1>7
  <2>2. b # a => binding[b.key] = b
    BY <1>1, <1>5, <1>7 DEF KeptBound
  <2>3. CASE BindReferences(a, binding) /\ (Static(a) \/ a \in coalesced' \/ binding[a.key] = a)
    <3>1. binding[b.key] = b
      BY <1>7, <2>2, <2>3
    <3> QED BY <1>3, <2>1, <2>3, <3>1 DEF Table
  <2>4. CASE /\ BindReferences(a, WithAtom(a))
             /\ binding[a.key] = NULL \/ binding[a.key] \in coalesced'
    <3>1. CASE b = a
      BY <1>3, <1>4, <2>1, <2>4, <3>1 DEF Table
    <3>2. CASE b # a
      <4>1. b.key # a.key
        BY <1>7, <2>1, <2>2, <2>4, <3>2
      <4>2. WithAtom(a)[b.key] = b
        BY <1>4, <2>1, <2>2, <3>2, <4>1
      <4> QED BY <1>3, <2>1, <2>4, <4>2 DEF Table
    <3> QED BY <3>1, <3>2
  <2> QED BY <1>6, <2>3, <2>4
<1>8. KeptBound'
  BY <1>7 DEF KeptBound, Static
<1> QED BY <1>1, <1>5, <1>8

\* A library is in the order of a search once, and no archive is implicit.
LEMMA OrderDistinct ==
  ASSUME LinkOK, DistinctIn(searchLibs, DOMAIN link.libs), NEW dylibs
  PROVE  /\ DistinctIn(SearchOrder(dylibs), (DOMAIN link.libs) \X {"listed", "implicit"})
         /\ \A e \in Range(SearchOrder(dylibs)) : Lib(e[1]).kind = "archive" => e[2] = "listed"
<1> DEFINE P == (DOMAIN link.libs) \X {"listed", "implicit"}
           mark(q, w) == [i \in DOMAIN q |-> <<q[i], w>>]
           s == mark(searchLibs, "listed")
           t == mark(ImplicitDylibs, "implicit")
           S == link.implicit \cup AutoLinkedDylibs
<1>1. ASSUME NEW q \in Seq(DOMAIN link.libs), NEW w \in {"listed", "implicit"},
             DistinctIn(q, DOMAIN link.libs)
      PROVE  /\ mark(q, w) \in Seq(P) /\ DistinctIn(mark(q, w), P)
             /\ \A e \in Range(mark(q, w)) : e[2] = w /\ e[1] \in Range(q)
  <2>1. Len(q) \in Nat /\ DOMAIN q = 1 .. Len(q) /\ \A i \in DOMAIN q : q[i] \in DOMAIN link.libs
    BY LenProperties, ElementOfSeq
  <2>2. mark(q, w) \in [1 .. Len(q) -> P]
    BY <2>1
  <2>3. mark(q, w) \in Seq(P)
    BY <2>1, <2>2, SeqDef
  <2>4. DOMAIN mark(q, w) = DOMAIN q /\ \A i \in DOMAIN q : mark(q, w)[i] = <<q[i], w>>
    OBVIOUS
  <2> HIDE DEF mark
  <2>5. DistinctIn(mark(q, w), P)
    BY <1>1, <2>1, <2>4 DEF DistinctIn
  <2>6. \A e \in Range(mark(q, w)) : e[2] = w /\ e[1] \in Range(q)
    BY <2>4 DEF Range
  <2> QED BY <2>3, <2>5, <2>6
<1>2. Range(searchLibs) \subseteq DOMAIN link.libs
  BY RangeOfSeq DEF LinkOK
<1>3. /\ S \subseteq DOMAIN link.libs /\ DOMAIN link.libs \subseteq Nat
      /\ IsFiniteSet(DOMAIN link.libs) /\ \A l \in S : Lib(l).kind = "dylib"
  BY <1>2, TheLink, TheFiles DEF LinkOK, AutoLinkedDylibs
<1> HIDE DEF S
<1>4. S \in SUBSET Nat /\ IsFiniteSet(S)
  BY <1>3, FS_Subset
<1>5. Sorted(S) \in Seq(S) /\ DistinctIn(Sorted(S), S)
  BY <1>4, SortedElements
<1>6. Sorted(S) \in Seq(DOMAIN link.libs) /\ Range(Sorted(S)) \subseteq S
  BY <1>3, <1>5, SeqMonotonic, RangeOfSeq
<1>7. DistinctIn(Sorted(S), DOMAIN link.libs)
  BY <1>5, <1>6 DEF DistinctIn, Range
<1>8. ImplicitDylibs = Sorted(S)
  BY DEF ImplicitDylibs, S
<1> HIDE DEF mark
<1>9. /\ s \in Seq(P) /\ DistinctIn(s, P) /\ \A e \in Range(s) : e[2] = "listed"
  BY <1>1 DEF LinkOK
<1>10. /\ t \in Seq(P) /\ DistinctIn(t, P)
       /\ \A e \in Range(t) : e[2] = "implicit" /\ Lib(e[1]).kind = "dylib"
  <2>1. /\ t \in Seq(P) /\ DistinctIn(t, P)
        /\ \A e \in Range(t) : e[2] = "implicit" /\ e[1] \in Range(Sorted(S))
    BY <1>1, <1>6, <1>7, <1>8
  <2> QED BY <1>3, <1>6, <2>1
<1>11. SearchOrder(dylibs) = s \o IF dylibs THEN t ELSE <<>>
  BY DEF SearchOrder, mark
<1> HIDE DEF s, t, P
<1>12. DistinctIn(s \o t, P) /\ Range(s \o t) = Range(s) \cup Range(t)
  <2>1. Range(s) \cap Range(t) \cap P = {}
    BY <1>9, <1>10
  <2> QED BY <1>9, <1>10, <2>1, ConcatDistinct, RangeConcatenation
<1>13. s \o <<>> = s
  BY <1>9, ConcatEmptySeq
<1>14. /\ DistinctIn(SearchOrder(dylibs), P)
       /\ \A e \in Range(SearchOrder(dylibs)) : Lib(e[1]).kind = "archive" => e[2] = "listed"
  <2>1. CASE dylibs
    BY <1>9, <1>10, <1>11, <1>12, <2>1
  <2>2. CASE ~dylibs
    BY <1>9, <1>11, <1>13, <2>2
  <2> QED BY <2>1, <2>2
<1> QED BY <1>14 DEF P

\* The libraries that a search returns: none twice.
LEMMA AnswerersDistinct ==
  ASSUME LinkOK, DistinctIn(searchLibs, DOMAIN link.libs),
         NEW n, NEW dylibs, NEW archives, NEW dataOnly
  PROVE  LET found == Answerers(n, dylibs, archives, dataOnly)
         IN  /\ IsInjective(found)
             /\ \A i \in DOMAIN found : Lib(found[i][1]).kind = "archive" => found[i][2] = "listed"
<1> DEFINE P == (DOMAIN link.libs) \X {"listed", "implicit"}
           libs == SearchOrder(dylibs)
           B == {e \in Range(libs) : Answers(e[1], n, dylibs, archives, dataOnly)}
           order == Only(libs, B)
           ends == {i \in DOMAIN order : n \notin Lib(order[i][1]).weak}
           cut == CHOOSE i \in ends : \A j \in ends : i <= j
           found == Answerers(n, dylibs, archives, dataOnly)
<1>1. libs \in Seq(P)
  BY TheOrder
<1>2. /\ DistinctIn(libs, P)
      /\ \A e \in Range(libs) : Lib(e[1]).kind = "archive" => e[2] = "listed"
  BY OrderDistinct
<1>3. found = IF ends = {} THEN order ELSE SubSeq(order, 1, cut)
  BY Zenon DEF Answerers
<1>4. B \subseteq Range(libs)
  OBVIOUS
<1> HIDE DEF P, B, libs
<1>5. order \in Seq(P \cap B) /\ DistinctIn(order, P)
  BY <1>1, <1>2, OnlyElements, OnlyDistinct
<1>6. /\ Len(order) \in Nat /\ DOMAIN order = 1 .. Len(order)
      /\ \A i \in DOMAIN order : order[i] \in P \cap B
  BY <1>5, LenProperties, ElementOfSeq
<1>7. ends \subseteq 1 .. Len(order)
  BY <1>6
<1> HIDE DEF order, ends
<1>8. /\ IsInjective(order)
      /\ \A i \in DOMAIN order : Lib(order[i][1]).kind = "archive" => order[i][2] = "listed"
  BY <1>2, <1>4, <1>5, <1>6 DEF IsInjective, DistinctIn
<1>9. ASSUME ends # {}
      PROVE  \E k \in 1 .. Len(order) : /\ found = SubSeq(order, 1, k) /\ DOMAIN found = 1 .. k
                                        /\ \A i \in 1 .. k : found[i] = order[i]
  <2>1. ends \in SUBSET Nat
    BY <1>6, <1>7
  <2>2. \E i \in ends : \A j \in ends : i <= j
    BY <1>9, <2>1, LeastNat
  <2>3. cut \in ends
    BY <2>2
  <2>4. found = SubSeq(order, 1, cut)
    BY <1>3, <1>9
  <2> HIDE DEF cut, found
  <2>5. cut \in 1 .. Len(order)
    BY <1>7, <2>3
  <2>6. 1 \in 1 .. Len(order) + 1 /\ cut \in 0 .. Len(order)
    BY <1>6, <2>5
  <2>7. \A i \in 1 .. cut : i \in 1 .. (cut - 1 + 1) /\ 1 + i - 1 = i
    BY <1>6, <2>5
  <2>8. /\ SubSeq(order, 1, cut) \in Seq(P \cap B)
        /\ Len(SubSeq(order, 1, cut)) = cut
        /\ \A i \in 1 .. cut : SubSeq(order, 1, cut)[i] = order[i]
    BY <1>5, <1>6, <2>5, <2>6, <2>7, SubSeqProperties
  <2>9. DOMAIN SubSeq(order, 1, cut) = 1 .. cut
    BY <2>8, LenProperties
  <2> QED BY <2>4, <2>5, <2>8, <2>9
<1>10. /\ IsInjective(found)
       /\ \A i \in DOMAIN found : Lib(found[i][1]).kind = "archive" => found[i][2] = "listed"
  <2>1. CASE ends = {}
    BY <1>3, <1>8, <2>1, Zenon
  <2>2. CASE ends # {}
    <3>1. PICK k \in 1 .. Len(order) : /\ DOMAIN found = 1 .. k
                                       /\ \A i \in 1 .. k : found[i] = order[i]
      BY <1>9, <2>2
    <3> HIDE DEF found
    <3>2. \A i \in DOMAIN found : i \in DOMAIN order /\ found[i] = order[i]
      BY <1>6, <3>1
    <3> QED BY <1>8, <3>2, Zenon DEF IsInjective
  <2> QED BY <2>1, <2>2
<1> QED BY <1>10, Zenon DEF found

\* A library that joins the search list is not in it.
LEMMA OptionsDistinct ==
  ASSUME LinkOK, DistinctIn(searchLibs, DOMAIN link.libs), NEW opts,
         AddLinkerOptionLibraries(opts)
  PROVE  DistinctIn(searchLibs', DOMAIN link.libs)
<1> DEFINE S == {l \in (opts \ processed) \cap DOMAIN link.libs :
                   l \notin Range(searchLibs) \cup link.implicit}
<1>1. searchLibs' = searchLibs \o Sorted(S)
  BY DEF AddLinkerOptionLibraries
<1>2. S \subseteq DOMAIN link.libs /\ S \cap Range(searchLibs) = {}
  OBVIOUS
<1> HIDE DEF S
<1>3. S \in SUBSET Nat /\ IsFiniteSet(S)
  BY <1>2, TheLink, FS_Subset DEF LinkOK
<1>4. Sorted(S) \in Seq(S) /\ DistinctIn(Sorted(S), S)
  BY <1>3, SortedElements
<1>5. Sorted(S) \in Seq(DOMAIN link.libs) /\ Range(Sorted(S)) \subseteq S
  BY <1>2, <1>4, SeqMonotonic, RangeOfSeq
<1>6. DistinctIn(Sorted(S), DOMAIN link.libs)
  BY <1>4, <1>5 DEF DistinctIn, Range
<1>7. Range(searchLibs) \cap Range(Sorted(S)) \cap DOMAIN link.libs = {}
  BY <1>2, <1>5
<1> QED BY <1>1, <1>5, <1>6, <1>7, ConcatDistinct DEF LinkOK

\* The atoms that a search hands over were not handed over before and are
\* different, and the members they come from are not waiting any more.
LEMMA SearchedOnce ==
  ASSUME LinkOK, FilesOnce, AtomsOnce, KeptBound, inputs = <<>>,
         NEW n \in Names, HasName(n) => IsTentative(n),
         NEW dylibs, NEW archives, NEW dataOnly, UNCHANGED <<link, inputs>>,
         SearchLibraries(n, dylibs, archives, dataOnly)
  PROVE  /\ DistinctIn(todo', Atoms) /\ DistinctIn(searchLibs', DOMAIN link.libs)
         /\ \A a \in Range(todo') \cap added : a \in coalesced
         /\ \A l \in DOMAIN link.libs : \A m \in Members(l) :
              Waiting(l, m)' => Parsed(l, m) \cap (added \cup Range(todo')) = {}
<1> DEFINE found == Answerers(n, dylibs, archives, dataOnly)
           A == {e \in (DOMAIN link.libs) \X {"listed", "implicit"} :
                   Answers(e[1], n, dylibs, archives, dataOnly)}
           inArch == {i \in DOMAIN found : Lib(found[i][1]).kind = "archive"}
           members == {<<found[i][1], MemberFor(found[i][1], n)>> : i \in inArch}
           proxy(e) == ExportAtom(n, e[1], e[2], n \in Lib(e[1]).weak)
           given(e) == IF Lib(e[1]).kind = "archive"
                       THEN Lib(e[1]).members[MemberFor(e[1], n)].atoms
                       ELSE <<proxy(e)>>
           opts == UNION {Lib(m[1]).members[m[2]].options : m \in members}
           q == [i \in DOMAIN found |-> given(found[i])]
<1>1. /\ todo' = FlattenSeq(q) /\ loaded' = loaded \cup members
      /\ AddLinkerOptionLibraries(opts)
  BY Zenon DEF SearchLibraries
<1>2. found \in Seq(A)
  BY TheAnswerers
<1>3. link \in Links /\ DistinctIn(searchLibs, DOMAIN link.libs)
  BY DEF LinkOK, FilesOnce
<1>4. /\ IsInjective(found)
      /\ \A i \in DOMAIN found : Lib(found[i][1]).kind = "archive" => found[i][2] = "listed"
  BY <1>3, AnswerersDistinct
<1>5. DistinctIn(searchLibs', DOMAIN link.libs)
  BY <1>1, <1>3, OptionsDistinct
<1>6. ASSUME NEW e \in A
      PROVE  /\ e[1] \in DOMAIN link.libs /\ e[1] \in Nat /\ e = <<e[1], e[2]>>
             /\ e[2] \in {"listed", "implicit"}
             /\ Lib(e[1]).kind = "archive" =>
                  MemberFor(e[1], n) \in Members(e[1]) /\ Waiting(e[1], MemberFor(e[1], n))
             /\ Lib(e[1]).kind # "archive" =>
                  Lib(e[1]).kind = "dylib" /\ n \in Lib(e[1]).strong \cup Lib(e[1]).weak
  <2>1. /\ e[1] \in DOMAIN link.libs /\ e[2] \in {"listed", "implicit"} /\ e = <<e[1], e[2]>>
        /\ Answers(e[1], n, dylibs, archives, dataOnly)
    OBVIOUS
  <2> HIDE DEF A
  <2>2. e[1] \in Nat
    BY <1>3, <2>1, TheLink
  <2>3. \/ Lib(e[1]).kind = "dylib" /\ n \in Lib(e[1]).strong \cup Lib(e[1]).weak
        \/ /\ Lib(e[1]).kind = "archive" /\ HasMember(e[1], n)
           /\ Waiting(e[1], MemberFor(e[1], n))
    BY <2>1 DEF Answers, DylibAnswers, ArchiveAnswers, Waiting
  <2>4. HasMember(e[1], n) => MemberFor(e[1], n) \in Members(e[1])
    BY <1>3, <2>1, TheMember
  <2> QED BY <2>1, <2>2, <2>3, <2>4
<1>7. ASSUME NEW e \in A
      PROVE  /\ proxy(e).key = n /\ proxy(e).path = e[1] /\ proxy(e).definition = "proxy"
             /\ proxy(e).ordinal = IF e[2] = "listed" THEN e[1] ELSE 100 + e[1]
             /\ ~Static(proxy(e))
  BY DEF ExportAtom, MadeAtom, Static
<1>8. ASSUME NEW e \in A, Lib(e[1]).kind # "archive" PROVE proxy(e) \in Atoms
  <2>1. e[1] \in DOMAIN link.libs /\ e[2] \in {"listed", "implicit"}
        /\ Lib(e[1]).kind = "dylib" /\ n \in Lib(e[1]).strong \cup Lib(e[1]).weak
    BY <1>6, <1>8
  <2> QED BY <1>3, <2>1, MadeAssumption DEF Lib
<1> DEFINE file(e) == <<e[1], MemberFor(e[1], n)>>
<1> HIDE DEF A, found, opts, proxy
\* A list of answers is that of a member that was waiting, or one proxy.
<1>9. ASSUME NEW e \in A
      PROVE  /\ given(e) \in Seq(Atoms) /\ DistinctIn(given(e), Atoms)
             /\ \/ /\ Lib(e[1]).kind = "archive" /\ Waiting(e[1], MemberFor(e[1], n))
                   /\ e[1] \in DOMAIN link.libs /\ MemberFor(e[1], n) \in Members(e[1])
                   /\ Range(given(e)) = Parsed(e[1], MemberFor(e[1], n))
                \/ Lib(e[1]).kind # "archive" /\ Range(given(e)) = {proxy(e)}
  <2>1. CASE Lib(e[1]).kind = "archive"
    <3>1. /\ e[1] \in DOMAIN link.libs /\ MemberFor(e[1], n) \in Members(e[1])
          /\ Waiting(e[1], MemberFor(e[1], n))
      BY <1>6, <2>1
    <3>2. Lib(e[1]).members[MemberFor(e[1], n)].atoms \in Seq(Atoms)
      BY <1>3, <3>1, TheLib
    <3>3. IsInjective(Lib(e[1]).members[MemberFor(e[1], n)].atoms)
      BY <1>3, <3>1, TheFiles
    <3>4. given(e) = Lib(e[1]).members[MemberFor(e[1], n)].atoms
      BY <2>1
    <3> HIDE DEF given
    <3> QED BY <2>1, <3>1, <3>2, <3>3, <3>4, InjectiveDistinct DEF Parsed
  <2>2. CASE Lib(e[1]).kind # "archive"
    <3>1. given(e) = <<proxy(e)>> /\ proxy(e) \in Atoms
      BY <1>8, <2>2
    <3> HIDE DEF given
    <3>2. DistinctIn(given(e), Atoms) /\ Range(given(e)) = {proxy(e)} /\ given(e) \in Seq(Atoms)
      BY <3>1 DEF DistinctIn, Range
    <3> QED BY <2>2, <3>2
  <2> QED BY <2>1, <2>2
<1> HIDE DEF given
<1>10. /\ Len(found) \in Nat /\ DOMAIN found = 1 .. Len(found)
       /\ \A i \in DOMAIN found : found[i] \in A
  BY <1>2, LenProperties, ElementOfSeq
<1>11. q \in Seq(Seq(Atoms)) /\ DOMAIN q = DOMAIN found
       /\ \A i \in DOMAIN found : q[i] = given(found[i])
  <2>1. q \in [1 .. Len(found) -> Seq(Atoms)]
    BY <1>9, <1>10
  <2> QED BY <1>10, <2>1, SeqDef
<1> HIDE DEF q
<1>12. ASSUME NEW i \in DOMAIN q, NEW j \in DOMAIN q, Range(q[i]) \cap Range(q[j]) # {}
       PROVE  i = j
  <2> DEFINE e == found[i]
             g == found[j]
  <2>1. /\ e \in A /\ g \in A /\ Range(given(e)) \cap Range(given(g)) # {}
        /\ (e = g => i = j)
        /\ (Lib(e[1]).kind = "archive" => e[2] = "listed")
        /\ (Lib(g[1]).kind = "archive" => g[2] = "listed")
    BY <1>4, <1>10, <1>11, <1>12 DEF IsInjective
  <2> HIDE DEF e, g
  <2>2. PICK x : x \in Range(given(e)) /\ x \in Range(given(g))
    BY <2>1
  <2>3. e = <<e[1], e[2]>> /\ g = <<g[1], g[2]>>
    BY <1>6, <2>1
  <2>4. CASE Lib(e[1]).kind = "archive" /\ Lib(g[1]).kind = "archive"
    <3>1. /\ x \in Parsed(e[1], MemberFor(e[1], n)) /\ x \in Parsed(g[1], MemberFor(g[1], n))
          /\ e[1] \in DOMAIN link.libs /\ MemberFor(e[1], n) \in Members(e[1])
          /\ g[1] \in DOMAIN link.libs /\ MemberFor(g[1], n) \in Members(g[1])
      BY <1>9, <2>1, <2>2, <2>4
    <3>2. Parsed(e[1], MemberFor(e[1], n)) \cap Parsed(g[1], MemberFor(g[1], n)) # {}
      BY <3>1
    <3>3. e[1] = g[1]
      BY <1>3, <3>1, <3>2, TheFiles
    <3> QED BY <2>1, <2>3, <2>4, <3>3
  <2>5. ASSUME NEW a \in A, NEW b \in A, Lib(a[1]).kind = "archive", Lib(b[1]).kind # "archive",
               x \in Range(given(a)), x \in Range(given(b))
        PROVE  FALSE
    <3>1. x = proxy(b) /\ x \in Parsed(a[1], MemberFor(a[1], n))
          /\ a[1] \in DOMAIN link.libs /\ MemberFor(a[1], n) \in Members(a[1])
      BY <1>9, <2>5
    <3>2. x.definition = "proxy"
      BY <1>7, <3>1
    <3> QED BY <1>3, <3>1, <3>2, TheFiles
  <2>6. CASE Lib(e[1]).kind # "archive" /\ Lib(g[1]).kind # "archive"
    <3>1. proxy(e) = proxy(g)
      BY <1>9, <2>1, <2>2, <2>6
    <3>2. e[1] = g[1] /\ e[1] \in Nat
          /\ (IF e[2] = "listed" THEN e[1] ELSE 100 + e[1])
               = (IF g[2] = "listed" THEN g[1] ELSE 100 + g[1])
          /\ e[2] \in {"listed", "implicit"} /\ g[2] \in {"listed", "implicit"}
      BY <1>6, <1>7, <2>1, <3>1
    <3>3. e[2] = g[2]
      BY <3>2
    <3> QED BY <2>1, <2>3, <3>2, <3>3
  <2> QED BY <2>1, <2>2, <2>4, <2>5, <2>6
<1>13. /\ DistinctIn(todo', Atoms)
       /\ \A x \in Range(todo') : \E i \in DOMAIN found : x \in Range(given(found[i]))
  <2>1. \A i \in DOMAIN q : DistinctIn(q[i], Atoms)
    BY <1>9, <1>10, <1>11
  <2>2. /\ DistinctIn(FlattenSeq(q), Atoms)
        /\ \A x \in Range(FlattenSeq(q)) : \E i \in DOMAIN q : x \in Range(q[i])
    BY <1>11, <1>12, <2>1, FlattenDistinct
  <2> QED BY <1>1, <1>11, <2>2
<1>14. ASSUME NEW x \in Range(todo') \cap added PROVE x \in coalesced
  <2>1. PICK i \in DOMAIN found : x \in Range(given(found[i]))
    BY <1>13
  <2> DEFINE e == found[i]
  <2>2. e \in A /\ x \in Range(given(e))
    BY <1>10, <2>1
  <2> HIDE DEF e
  <2>3. CASE Lib(e[1]).kind = "archive"
    <3>1. /\ x \in Parsed(e[1], MemberFor(e[1], n)) /\ Waiting(e[1], MemberFor(e[1], n))
          /\ e[1] \in DOMAIN link.libs /\ MemberFor(e[1], n) \in Members(e[1])
      BY <1>9, <2>2, <2>3
    <3>2. Parsed(e[1], MemberFor(e[1], n)) \cap (added \cup Range(todo)) = {}
      BY <3>1 DEF AtomsOnce
    <3> QED BY <3>1, <3>2
  <2>4. CASE Lib(e[1]).kind # "archive"
    <3>1. x = proxy(e) /\ x \in added
      BY <1>9, <2>2, <2>4
    <3>2. x.key = n /\ x.definition = "proxy" /\ ~Static(x) /\ x \in Atoms
      BY <1>7, <1>8, <2>2, <2>4, <3>1
    <3>3. x \notin coalesced => binding[n] = x
      BY <3>1, <3>2 DEF KeptBound
    <3> QED BY <3>2, <3>3, AtomsAssumption DEF HasName, IsTentative
  <2> QED BY <2>3, <2>4
<1>15. ASSUME NEW l \in DOMAIN link.libs, NEW m \in Members(l), Waiting(l, m)'
       PROVE  Parsed(l, m) \cap (added \cup Range(todo')) = {}
  <2>1. /\ Lib(l).kind = "archive" /\ ~Lib(l).force /\ <<l, m>> \notin loaded'
    <3>1. Range(inputs') = {}
      BY DEF Range
    <3> QED BY <1>15, <3>1 DEF Waiting, Lib
  <2>2. Waiting(l, m) /\ <<l, m>> \notin members
    BY <1>1, <2>1 DEF Waiting
  <2>3. Parsed(l, m) \cap added = {}
    BY <2>2 DEF AtomsOnce
  <2>4. ASSUME NEW x \in Parsed(l, m), x \in Range(todo') PROVE FALSE
    <3>1. PICK i \in DOMAIN found : x \in Range(given(found[i]))
      BY <1>13, <2>4
    <3> DEFINE e == found[i]
    <3>2. e \in A /\ x \in Range(given(e))
          /\ (Lib(e[1]).kind = "archive" => <<e[1], MemberFor(e[1], n)>> \in members)
      BY <1>10, <3>1
    <3> HIDE DEF e, members
    <3>3. CASE Lib(e[1]).kind = "archive"
      <4>1. /\ x \in Parsed(e[1], MemberFor(e[1], n))
            /\ e[1] \in DOMAIN link.libs /\ MemberFor(e[1], n) \in Members(e[1])
        BY <1>9, <3>2, <3>3
      <4>2. Parsed(l, m) \cap Parsed(e[1], MemberFor(e[1], n)) # {}
        BY <2>4, <4>1
      <4>3. l = e[1] /\ m = MemberFor(e[1], n)
        BY <1>3, <4>1, <4>2, TheFiles
      <4> QED BY <2>2, <3>2, <3>3, <4>3
    <3>4. CASE Lib(e[1]).kind # "archive"
      <4>1. x = proxy(e)
        BY <1>9, <3>2, <3>4
      <4>2. x.definition = "proxy"
        BY <1>7, <3>2, <4>1
      <4> QED BY <1>3, <2>4, <4>2, TheFiles
    <3> QED BY <3>3, <3>4
  <2> QED BY <2>3, <2>4
<1> QED BY <1>5, <1>13, <1>14, <1>15

\* The first element of a list is not among the others.
LEMMA HeadDistinct ==
  ASSUME NEW S, NEW s \in Seq(S), s # <<>>, NEW C, DistinctIn(s, C)
  PROVE  /\ Range(s) = {Head(s)} \cup Range(Tail(s)) /\ DistinctIn(Tail(s), C)
         /\ Head(s) \in C => Head(s) \notin Range(Tail(s))
<1>1. /\ Len(s) \in Nat /\ Len(s) # 0 /\ DOMAIN s = 1 .. Len(s) /\ Head(s) = s[1]
      /\ Tail(s) \in Seq(S) /\ Len(Tail(s)) = Len(s) - 1
      /\ \A i \in 1 .. Len(Tail(s)) : Tail(s)[i] = s[i + 1]
  BY HeadTailProperties, LenProperties, EmptySeq
<1>2. DOMAIN Tail(s) = 1 .. Len(s) - 1
  BY <1>1, LenProperties
<1>3. /\ \A i \in DOMAIN Tail(s) : i + 1 \in DOMAIN s /\ Tail(s)[i] = s[i + 1] /\ i + 1 # 1 /\ i \in Int
      /\ \A i \in DOMAIN s : i = 1 \/ (i - 1 \in DOMAIN Tail(s) /\ s[i] = Tail(s)[i - 1])
      /\ 1 \in DOMAIN s
  BY <1>1, <1>2
<1>4. DistinctIn(Tail(s), C)
  <2> SUFFICES ASSUME NEW i \in DOMAIN Tail(s), NEW j \in DOMAIN Tail(s),
                      Tail(s)[i] = Tail(s)[j], Tail(s)[i] \in C
               PROVE  i = j
    BY DEF DistinctIn
  <2>1. i + 1 = j + 1
    BY <1>3, Zenon DEF DistinctIn
  <2> QED BY <1>3, <2>1
<1>5. Range(s) = {Head(s)} \cup Range(Tail(s))
  <2>1. ASSUME NEW y \in Range(s) PROVE y = Head(s) \/ y \in Range(Tail(s))
    <3>1. PICK i \in DOMAIN s : s[i] = y
      BY DEF Range
    <3>2. CASE i = 1
      BY <1>1, <3>1, <3>2
    <3>3. CASE i # 1
      <4>1. i - 1 \in DOMAIN Tail(s) /\ Tail(s)[i - 1] = y
        BY <1>3, <3>1, <3>3
      <4> QED BY <4>1, Zenon DEF Range
    <3> QED BY <3>2, <3>3
  <2>2. ASSUME NEW y \in Range(Tail(s)) PROVE y \in Range(s)
    <3>1. PICK i \in DOMAIN Tail(s) : Tail(s)[i] = y
      BY DEF Range
    <3>2. i + 1 \in DOMAIN s /\ s[i + 1] = y
      BY <1>3, <3>1
    <3> QED BY <3>2, Zenon DEF Range
  <2>3. Head(s) \in Range(s)
    BY <1>1, <1>3, Zenon DEF Range
  <2> QED BY <2>1, <2>2, <2>3
<1>6. ASSUME Head(s) \in C, Head(s) \in Range(Tail(s)) PROVE FALSE
  <2>1. PICK i \in DOMAIN Tail(s) : Tail(s)[i] = Head(s)
    BY <1>6 DEF Range
  <2>2. s[i + 1] = s[1] /\ i + 1 \in DOMAIN s /\ i + 1 # 1 /\ 1 \in DOMAIN s /\ s[1] \in C
    BY <1>1, <1>3, <1>6, <2>1
  <2> QED BY <2>2, Zenon DEF DistinctIn
<1> QED BY <1>4, <1>5, <1>6

\* A new element at the end.
LEMMA AppendDistinct ==
  ASSUME NEW S, NEW s \in Seq(S), NEW x, NEW C, DistinctIn(s, C), x \in C => x \notin Range(s)
  PROVE  /\ Range(Append(s, x)) = Range(s) \cup {x} /\ DistinctIn(Append(s, x), C)
<1> DEFINE u == Append(s, x)
<1>1. IsSeq(s) /\ Len(s) \in Nat /\ DOMAIN s = 1 .. Len(s)
  BY SeqIs, SeqLen
<1>2. IsSeq(u) /\ Len(u) = Len(s) + 1 /\ (\A i \in 1 .. Len(s) : u[i] = s[i]) /\ u[Len(s) + 1] = x
  BY <1>1, SeqAppend
<1>3. DOMAIN u = 1 .. Len(s) + 1
  BY <1>2, SeqLen
<1> HIDE DEF u
<1>4. /\ \A i \in DOMAIN u : (i \in DOMAIN s /\ u[i] = s[i]) \/ (i = Len(s) + 1 /\ u[i] = x)
      /\ \A i \in DOMAIN s : i \in DOMAIN u /\ u[i] = s[i]
      /\ Len(s) + 1 \in DOMAIN u /\ u[Len(s) + 1] = x
  BY <1>1, <1>2, <1>3
<1>5. Range(u) = Range(s) \cup {x}
  BY <1>4, Zenon DEF Range
<1>6. \A i \in DOMAIN s : s[i] = x => x \notin C
  BY Zenon DEF Range
<1>7. ASSUME NEW i \in DOMAIN u, NEW j \in DOMAIN u, u[i] = u[j], u[i] \in C PROVE i = j
  BY <1>4, <1>6, <1>7, Zenon DEF DistinctIn
<1>8. DistinctIn(u, C)
  BY <1>7 DEF DistinctIn
<1> QED BY <1>5, <1>8 DEF u

\* The first state.
LEMMA InitOInv == Init => OInv
<1> SUFFICES ASSUME Init PROVE OInv
  OBVIOUS
<1>1. /\ link \in Links /\ phase = "inputs" /\ inputs = link.inputs /\ todo = <<>> /\ atoms = <<>>
      /\ searchLibs = <<>> /\ added = {}
  BY DEF Init, TableInit
<1>2. Range(<<>>) = {} /\ (\A C : DistinctIn(<<>>, C)) /\ <<>> \in Seq({})
  BY EmptySeq DEF Range, DistinctIn
<1>3. DistinctIn(inputs, DOMAIN link.libs)
  BY <1>1, TheFiles, InjectiveDistinct
<1>4. FilesOnce
  BY <1>1, <1>2, <1>3, Zenon DEF FilesOnce
<1>5. AtomsOnce
  <2>1. /\ DistinctIn(todo, Atoms) /\ Range(todo) = {} /\ atoms \in Seq(added)
        /\ DistinctIn(atoms, Atoms \ coalesced) /\ phase # "done"
    BY <1>1, <1>2
  <2> QED BY <1>1, <2>1 DEF AtomsOnce
<1>6. KeptBound
  BY <1>1 DEF KeptBound
<1> QED BY <1>4, <1>5, <1>6 DEF OInv

\* The atom that is handed over is new, or lost its name before and is marked.
LEMMA DeliverOInv ==
  ASSUME RInv, OInv, Deliver
  PROVE  OInv'
<1> SUFFICES ASSUME phase' # "failed" PROVE FilesOnce' /\ AtomsOnce' /\ KeptBound'
  BY DEF OInv
<1> DEFINE x == Head(todo)
<1>1. /\ todo # <<>> /\ phase # "failed" /\ DoAtom(x) /\ todo' = Tail(todo)
      /\ atoms' = Append(atoms, x)
      /\ phase' = IF thrown' THEN "failed" ELSE phase
      /\ UNCHANGED <<link, inputs, searchLibs, loaded>>
  BY DEF Deliver, Idle
<1>2. FilesOnce /\ AtomsOnce /\ KeptBound
  BY <1>1 DEF OInv
<1>3. todo \in Seq(Atoms) /\ x \in Atoms
  BY <1>1, HeadTailProperties DEF RInv, ListsOK
<1>4. thrown = FALSE /\ TableTypeOK /\ phase # "done"
  BY <1>1 DEF RInv, Standing
<1>5. thrown' \in BOOLEAN
  BY <1>1, <1>3, <1>4, TypeStep
<1>6. thrown' = FALSE /\ phase' = phase
  BY <1>1, <1>5
<1>7. KeptBound' /\ coalesced \subseteq coalesced' /\ added' = added \cup {x}
  BY <1>1, <1>2, <1>3, <1>4, <1>6, KeptStep
<1>8. /\ Range(todo) = {x} \cup Range(Tail(todo)) /\ DistinctIn(Tail(todo), Atoms)
      /\ x \notin Range(Tail(todo))
  BY <1>1, <1>2, <1>3, HeadDistinct DEF AtomsOnce
<1>9. FilesOnce'
  BY <1>1, <1>2, <1>6 DEF FilesOnce
<1> HIDE DEF x
<1>10. \A a \in Range(todo') \cap added' : a \in coalesced'
  BY <1>1, <1>2, <1>7, <1>8 DEF AtomsOnce
<1>11. ASSUME NEW l \in DOMAIN link'.libs, NEW m \in Members(l)', Waiting(l, m)'
       PROVE  Parsed(l, m)' \cap (added' \cup Range(todo')) = {}
  <2>1. l \in DOMAIN link.libs /\ m \in Members(l) /\ Waiting(l, m) /\ Parsed(l, m)' = Parsed(l, m)
    BY <1>1, <1>11 DEF Members, Waiting, Parsed, Lib
  <2>2. Parsed(l, m) \cap (added \cup Range(todo)) = {}
    BY <1>2, <2>1 DEF AtomsOnce
  <2> QED BY <1>1, <1>7, <1>8, <2>1, <2>2
<1>12. atoms \in Seq(added) /\ DistinctIn(atoms, Atoms \ coalesced)
  BY <1>2 DEF AtomsOnce
<1>13. atoms' \in Seq(added')
  <2>1. atoms \in Seq(added') /\ x \in added'
    BY <1>7, <1>12, SeqMonotonic
  <2> QED BY <1>1, <2>1, AppendProperties
<1>14. DistinctIn(atoms', Atoms \ coalesced')
  <2>1. DistinctIn(atoms, Atoms \ coalesced')
    BY <1>7, <1>12 DEF DistinctIn
  <2>2. Range(atoms) \subseteq added
    BY <1>12, RangeOfSeq
  <2>3. x \in Range(atoms) => x \in coalesced'
    BY <1>2, <1>7, <1>8, <2>2 DEF AtomsOnce
  <2> QED BY <1>1, <1>12, <2>1, <2>3, AppendDistinct
<1>15. AtomsOnce'
  BY <1>1, <1>4, <1>6, <1>8, <1>10, <1>11, <1>13, <1>14 DEF AtomsOnce
<1> QED BY <1>7, <1>9, <1>15

\* A step after the command line that adds nothing to the table and leaves the
\* list of atoms alone.
LEMMA OnceStep ==
  ASSUME FilesOnce, AtomsOnce, KeptBound, phase # "inputs", phase' # "done",
         UNCHANGED <<link, inputs, atoms, binding, added, coalesced>>,
         DistinctIn(todo', Atoms), DistinctIn(searchLibs', DOMAIN link.libs),
         \A a \in Range(todo') \cap added : a \in coalesced,
         \A l \in DOMAIN link.libs : \A m \in Members(l) :
           Waiting(l, m)' => Parsed(l, m) \cap (added \cup Range(todo')) = {}
  PROVE  OInv'
<1>1. inputs = <<>> /\ inputs' = <<>>
  BY DEF FilesOnce
<1>2. Range(inputs') = {}
  BY <1>1 DEF Range
<1>3. DistinctIn(inputs', DOMAIN link'.libs)
  BY <1>1 DEF DistinctIn
<1>4. FilesOnce'
  BY <1>1, <1>2, <1>3 DEF FilesOnce
<1>5. \A l : Members(l)' = Members(l) /\ \A m : Parsed(l, m)' = Parsed(l, m)
  BY DEF Members, Parsed, Lib
<1>6. \A l \in DOMAIN link'.libs : \A m \in Members(l)' :
        Waiting(l, m)' => Parsed(l, m)' \cap (added' \cup Range(todo')) = {}
  BY <1>5
<1>7. AtomsOnce'
  BY <1>6 DEF AtomsOnce
<1>8. KeptBound'
  BY DEF KeptBound, Static
<1> QED BY <1>4, <1>7, <1>8 DEF OInv

\* A step after the command line that hands over nothing.
LEMMA IdleOInv ==
  ASSUME OInv, phase \notin {"inputs", "failed"}, phase' # "done",
         UNCHANGED <<link, inputs, atoms, todo, searchLibs, loaded, tableVars>>
  PROVE  OInv'
<1>1. FilesOnce /\ AtomsOnce /\ KeptBound
  BY DEF OInv
<1>2. UNCHANGED <<binding, added, coalesced>>
  BY DEF tableVars
<1>3. ASSUME NEW l \in DOMAIN link.libs, NEW m \in Members(l), Waiting(l, m)'
      PROVE  Parsed(l, m) \cap (added \cup Range(todo')) = {}
  <2>1. Waiting(l, m)
    BY <1>3 DEF Waiting, Lib
  <2> QED BY <1>1, <2>1 DEF AtomsOnce
<1>4. /\ DistinctIn(todo', Atoms) /\ DistinctIn(searchLibs', DOMAIN link.libs)
      /\ \A a \in Range(todo') \cap added : a \in coalesced
  BY <1>1 DEF FilesOnce, AtomsOnce
<1> QED BY <1>1, <1>2, <1>3, <1>4, OnceStep

\* The next file of the command line hands over atoms that nobody has seen.
LEMMA LoadInputOInv ==
  ASSUME RInv, OInv, LoadInput
  PROVE  OInv'
<1> DEFINE l == Head(inputs)
           all == Lib(l).kind = "object" \/ Lib(l).force
           q == [m \in Members(l) |-> Lib(l).members[m].atoms]
<1>1. /\ phase = "inputs" /\ inputs # <<>> /\ inputs' = Tail(inputs) /\ phase' = "inputs"
      /\ todo' = IF all THEN AllAtoms(l) ELSE <<>>
      /\ searchLibs' = IF Lib(l).kind = "object" THEN searchLibs ELSE Append(searchLibs, l)
      /\ UNCHANGED <<link, atoms, loaded, tableVars>>
  BY DEF LoadInput
<1>2. UNCHANGED <<binding, added, coalesced>>
  BY <1>1 DEF tableVars
<1>3. FilesOnce /\ AtomsOnce /\ KeptBound
  BY <1>1 DEF OInv
<1>4. /\ inputs \in Seq(DOMAIN link.libs) /\ searchLibs \in Seq(DOMAIN link.libs)
      /\ link \in Links
  BY DEF RInv, ListsOK, LinkOK
<1>5. l \in DOMAIN link.libs
  BY <1>1, <1>4, HeadTailProperties
<1>6. /\ Range(inputs) = {l} \cup Range(Tail(inputs)) /\ DistinctIn(Tail(inputs), DOMAIN link.libs)
      /\ l \notin Range(Tail(inputs))
  BY <1>1, <1>3, <1>4, <1>5, HeadDistinct DEF FilesOnce
<1>7. \A m \in Members(l) : Waiting(l, m)
  BY <1>6 DEF Waiting
<1>8. q \in Seq(Seq(Atoms)) /\ DOMAIN q = Members(l)
      /\ \A m \in Members(l) : q[m] = Lib(l).members[m].atoms
  <2>1. q \in [1 .. Len(Lib(l).members) -> Seq(Atoms)] /\ Len(Lib(l).members) \in Nat
    BY <1>4, <1>5, TheLib
  <2> QED BY <2>1, SeqDef
<1>9. AllAtoms(l) = FlattenSeq(q)
  BY DEF AllAtoms
<1> HIDE DEF l, q
<1>10. /\ DistinctIn(AllAtoms(l), Atoms)
       /\ \A a \in Range(AllAtoms(l)) : \E m \in Members(l) : a \in Parsed(l, m)
  <2>1. \A m \in DOMAIN q : DistinctIn(q[m], Atoms) /\ Range(q[m]) = Parsed(l, m)
    BY <1>4, <1>5, <1>8, TheFiles, InjectiveDistinct DEF Parsed
  <2>2. \A m, i \in DOMAIN q : Range(q[m]) \cap Range(q[i]) # {} => m = i
    BY <1>4, <1>5, <1>8, <2>1, TheFiles
  <2>3. /\ DistinctIn(FlattenSeq(q), Atoms)
        /\ \A a \in Range(FlattenSeq(q)) : \E m \in DOMAIN q : a \in Range(q[m])
    BY <1>8, <2>1, <2>2, FlattenDistinct
  <2> QED BY <1>8, <1>9, <2>1, <2>3
<1>11. /\ DistinctIn(todo', Atoms)
       /\ \A a \in Range(todo') : all /\ \E m \in Members(l) : a \in Parsed(l, m)
  <2>1. CASE all
    BY <1>1, <1>10, <2>1
  <2>2. CASE ~all
    <3>1. todo' = <<>>
      BY <1>1, <2>2
    <3>2. DOMAIN todo' = {}
      BY <3>1
    <3> QED BY <3>2 DEF DistinctIn, Range
  <2> QED BY <2>1, <2>2
<1>12. Range(todo') \cap added = {}
  <2> SUFFICES ASSUME NEW a \in Range(todo'), a \in added PROVE FALSE
    OBVIOUS
  <2>1. PICK m \in Members(l) : a \in Parsed(l, m)
    BY <1>11
  <2>2. Parsed(l, m) \cap (added \cup Range(todo)) = {}
    BY <1>3, <1>5, <1>7 DEF AtomsOnce
  <2> QED BY <2>1, <2>2
<1>13. ASSUME NEW h \in DOMAIN link.libs, NEW i \in Members(h), Waiting(h, i)'
       PROVE  Parsed(h, i) \cap (added \cup Range(todo')) = {}
  <2>1. \/ h \in Range(Tail(inputs))
        \/ Lib(h).kind = "archive" /\ ~Lib(h).force /\ <<h, i>> \notin loaded
    BY <1>1, <1>13 DEF Waiting, Lib
  <2>2. Waiting(h, i)
    BY <1>6, <2>1 DEF Waiting
  <2>3. Parsed(h, i) \cap added = {}
    BY <1>3, <2>2 DEF AtomsOnce
  <2>4. ASSUME NEW a \in Parsed(h, i), a \in Range(todo') PROVE FALSE
    <3>1. PICK m \in Members(l) : a \in Parsed(l, m)
      BY <1>11, <2>4
    <3>2. Parsed(h, i) \cap Parsed(l, m) # {}
      BY <2>4, <3>1
    <3>3. h = l
      BY <1>4, <1>5, <3>2, TheFiles
    <3>4. Lib(l).kind = "object" \/ Lib(l).force
      BY <1>11, <2>4
    <3> QED BY <1>6, <2>1, <3>3, <3>4
  <2> QED BY <2>3, <2>4
<1> HIDE DEF all
<1>14. /\ DistinctIn(searchLibs', DOMAIN link.libs)
       /\ Range(Tail(inputs)) \cap Range(searchLibs') = {}
  <2>1. /\ DistinctIn(searchLibs, DOMAIN link.libs) /\ Range(inputs) \cap Range(searchLibs) = {}
    BY <1>3 DEF FilesOnce
  <2>2. l \notin Range(searchLibs)
    BY <1>6, <2>1
  <2>3. /\ DistinctIn(Append(searchLibs, l), DOMAIN link.libs)
        /\ Range(Append(searchLibs, l)) = Range(searchLibs) \cup {l}
    BY <1>4, <2>1, <2>2, AppendDistinct
  <2>4. searchLibs' = searchLibs \/ searchLibs' = Append(searchLibs, l)
    BY <1>1
  <2>5. CASE searchLibs' = searchLibs
    BY <1>6, <2>1, <2>5
  <2>6. CASE searchLibs' = Append(searchLibs, l)
    <3>1. Range(searchLibs') = Range(searchLibs) \cup {l}
      BY <2>3, <2>6
    <3>2. Range(Tail(inputs)) \cap Range(searchLibs') = {}
      BY <1>6, <2>1, <3>1
    <3> QED BY <2>3, <2>6, <3>2
  <2> QED BY <2>4, <2>5, <2>6
<1>15. FilesOnce'
  BY <1>1, <1>6, <1>14 DEF FilesOnce
<1>16. \A h : Members(h)' = Members(h) /\ \A m : Parsed(h, m)' = Parsed(h, m)
  BY <1>1 DEF Members, Parsed, Lib
<1>17. \A h \in DOMAIN link'.libs : \A i \in Members(h)' :
         Waiting(h, i)' => Parsed(h, i)' \cap (added' \cup Range(todo')) = {}
  BY <1>1, <1>2, <1>13, <1>16
<1>18. atoms' \in Seq(added') /\ DistinctIn(atoms', Atoms \ coalesced')
  BY <1>1, <1>2, <1>3 DEF AtomsOnce
<1>19. AtomsOnce'
  BY <1>1, <1>2, <1>11, <1>12, <1>17, <1>18 DEF AtomsOnce
<1>20. KeptBound'
  BY <1>2, <1>3 DEF KeptBound, Static
<1> QED BY <1>15, <1>19, <1>20 DEF OInv

\* The end of the command line.
LEMMA CompleteInputsOInv ==
  ASSUME RInv, OInv, CompleteInputs
  PROVE  OInv'
<1>1. /\ phase = "inputs" /\ inputs = <<>> /\ phase' = "outer" /\ AddLinkerOptionLibraries(options)
      /\ UNCHANGED <<link, inputs, todo, atoms, loaded, binding, added, coalesced>>
  BY DEF CompleteInputs
<1>2. FilesOnce /\ AtomsOnce /\ KeptBound
  BY <1>1 DEF OInv
<1>3. LinkOK
  BY DEF RInv, ListsOK
<1>4. DistinctIn(searchLibs', DOMAIN link.libs)
  BY <1>1, <1>2, <1>3, OptionsDistinct DEF FilesOnce
<1>5. Range(inputs') = {} /\ DistinctIn(inputs', DOMAIN link'.libs)
  <2>1. inputs' = <<>>
    BY <1>1
  <2> QED BY <2>1 DEF Range, DistinctIn
<1>6. FilesOnce'
  BY <1>1, <1>4, <1>5 DEF FilesOnce
<1>7. \A h : Members(h)' = Members(h)
             /\ \A m : Parsed(h, m)' = Parsed(h, m) /\ Waiting(h, m)' = Waiting(h, m)
  BY <1>1 DEF Members, Parsed, Waiting, Lib
<1>8. \A h \in DOMAIN link'.libs : \A i \in Members(h)' :
        Waiting(h, i)' => Parsed(h, i)' \cap (added' \cup Range(todo')) = {}
  BY <1>1, <1>2, <1>7 DEF AtomsOnce
<1>9. AtomsOnce'
  BY <1>1, <1>2, <1>8 DEF AtomsOnce
<1>10. KeptBound'
  BY <1>1, <1>2 DEF KeptBound, Static
<1> QED BY <1>6, <1>9, <1>10 DEF OInv

\* A search hands over new atoms, or proxies of a name that was not bound to one.
LEMMA SearchOInv ==
  ASSUME RInv, OInv, ResolveUndefine \/ OverrideTentative \/ SearchRoot \/ CheckCollision
  PROVE  OInv'
<1>1. /\ pending # <<>> /\ phase \in {"pass", "options", "tents", "roots", "collide"}
      /\ phase' = phase \/ phase' = "mark"
      /\ UNCHANGED <<tableVars, link, inputs, atoms>>
      /\ Searches(Head(pending))
  BY SearchSteps
<1>2. Head(pending) \in Names
  BY <1>1, NextName
<1>3. FilesOnce /\ AtomsOnce /\ KeptBound
  BY <1>1 DEF OInv
<1>4. /\ UNCHANGED <<binding, added, coalesced>> /\ phase # "inputs" /\ phase' # "done"
      /\ phase # "failed"
  BY <1>1 DEF tableVars
<1>5. inputs = <<>> /\ LinkOK /\ link \in Links
  BY <1>3, <1>4 DEF FilesOnce, RInv, ListsOK, LinkOK
<1> DEFINE n == Head(pending)
<1>6. CASE SkipSearch
  BY <1>1, <1>4, <1>6, IdleOInv DEF SkipSearch
<1>7. CASE ~HasName(n) /\ todo' = <<BoundaryAtom(n)>> /\ UNCHANGED <<loaded, searchLibs, processed>>
  <2> DEFINE x == BoundaryAtom(n)
  <2>1. x.key = n /\ ~Static(x)
    BY DEF BoundaryAtom, MadeAtom, Static
  <2>5. x = BoundaryAtom(x.key)
    BY <2>1
  <2>6. todo' = <<x>> /\ x \in Atoms
    BY <1>2, <1>7, MadeAssumption
  <2> HIDE DEF x
  <2>2. Range(todo') = {x} /\ DistinctIn(todo', Atoms)
    BY <2>6 DEF Range, DistinctIn
  <2>3. x \in added => x \in coalesced
    BY <1>3, <1>7, <2>1, <2>6, AtomsAssumption DEF KeptBound, HasName
  <2>4. ASSUME NEW l \in DOMAIN link.libs, NEW m \in Members(l), Waiting(l, m)'
        PROVE  Parsed(l, m) \cap (added \cup Range(todo')) = {}
    <3>1. Waiting(l, m)
      BY <1>1, <1>7, <2>4 DEF Waiting, Lib
    <3>2. Parsed(l, m) \cap added = {}
      BY <1>3, <3>1 DEF AtomsOnce
    <3>3. x \notin Parsed(l, m)
      BY <1>5, <2>5, TheFiles
    <3> QED BY <2>2, <3>2, <3>3
  <2>7. \A a \in Range(todo') \cap added : a \in coalesced
    BY <2>2, <2>3
  <2>8. DistinctIn(searchLibs', DOMAIN link.libs)
    BY <1>3, <1>7 DEF FilesOnce
  <2> QED BY <1>1, <1>3, <1>4, <2>2, <2>4, <2>7, <2>8, OnceStep
<1>8. ASSUME NEW d, NEW a, NEW o, HasName(n) => IsTentative(n), SearchLibraries(n, d, a, o)
      PROVE  OInv'
  <2>1. /\ DistinctIn(todo', Atoms) /\ DistinctIn(searchLibs', DOMAIN link.libs)
        /\ \A b \in Range(todo') \cap added : b \in coalesced
        /\ \A l \in DOMAIN link.libs : \A m \in Members(l) :
             Waiting(l, m)' => Parsed(l, m) \cap (added \cup Range(todo')) = {}
    BY <1>1, <1>2, <1>3, <1>5, <1>8, SearchedOnce
  <2> QED BY <1>1, <1>3, <1>4, <2>1, OnceStep
<1> QED BY <1>1, <1>6, <1>7, <1>8 DEF Searches

\* A proxy is made for each name that is undefined, once.
LEMMA MakeProxiesOInv ==
  ASSUME RInv, OInv, MakeProxies
  PROVE  OInv'
<1> DEFINE S == IF UndefinedError THEN Undefines \cap AllowedUndefines ELSE Undefines
           names == Sorted(S)
           proxies == [i \in DOMAIN names |-> UndefinedProxyAtom(names[i])]
<1>1. /\ phase = "proxies" /\ phase' \in {"roots", "check"} /\ todo' = proxies
      /\ UNCHANGED <<tableVars, link, inputs, searchLibs, atoms, loaded>>
  BY DEF MakeProxies, otherVars
<1>2. S \subseteq Names \cap slots /\ \A n \in S : binding[n] = NULL
  BY NamesOfTable DEF RInv, Undefines
<1> HIDE DEF S
<1>3. S \in SUBSET Nat /\ IsFiniteSet(S)
  BY <1>2, LinksAssumption, FS_Subset
<1>4. names \in Seq(S) /\ DistinctIn(names, S)
  BY <1>3, SortedElements
<1> HIDE DEF names
<1>5. \A i \in DOMAIN names : names[i] \in S
  BY <1>4, ElementOfSeq, LenProperties
<1>6. \A n : /\ UndefinedProxyAtom(n).key = n /\ UndefinedProxyAtom(n).definition = "proxy"
             /\ ~Static(UndefinedProxyAtom(n))
  BY DEF UndefinedProxyAtom, MadeAtom, Static
<1>7. \A n \in S : UndefinedProxyAtom(n) \in Atoms
  BY <1>2, MadeAssumption
<1>8. DOMAIN proxies = DOMAIN names
      /\ \A i \in DOMAIN names : proxies[i] = UndefinedProxyAtom(names[i])
  OBVIOUS
<1> HIDE DEF proxies
<1>9. DistinctIn(proxies, Atoms)
  <2> SUFFICES ASSUME NEW i \in DOMAIN proxies, NEW j \in DOMAIN proxies, proxies[i] = proxies[j]
               PROVE  i = j
    BY DEF DistinctIn
  <2>1. names[i] = names[j] /\ i \in DOMAIN names /\ j \in DOMAIN names
    BY <1>6, <1>8
  <2> QED BY <1>4, <1>5, <2>1 DEF DistinctIn
<1>10. \A a \in Range(proxies) : \E n \in S : a = UndefinedProxyAtom(n)
  BY <1>5, <1>8 DEF Range
<1>11. FilesOnce /\ AtomsOnce /\ KeptBound
  BY <1>1 DEF OInv
<1>12. ASSUME NEW a \in Range(proxies) \cap added PROVE a \in coalesced
  <2>1. PICK n \in S : a = UndefinedProxyAtom(n)
    BY <1>10
  <2>2. a.key = n /\ ~Static(a) /\ a \in Atoms /\ binding[n] = NULL
    BY <1>2, <1>6, <1>7, <2>1
  <2> QED BY <1>11, <2>2, AtomsAssumption DEF KeptBound
<1>13. ASSUME NEW l \in DOMAIN link.libs, NEW m \in Members(l), Waiting(l, m)'
       PROVE  Parsed(l, m) \cap (added \cup Range(proxies)) = {}
  <2>1. Waiting(l, m)
    BY <1>1, <1>13 DEF Waiting, Lib
  <2>2. Parsed(l, m) \cap added = {}
    BY <1>11, <2>1 DEF AtomsOnce
  <2>3. \A a \in Range(proxies) : a.definition = "proxy"
    BY <1>6, <1>10
  <2>4. link \in Links
    BY DEF RInv, ListsOK, LinkOK
  <2>5. \A a \in Parsed(l, m) : a.definition # "proxy"
    BY <2>4, TheFiles
  <2> QED BY <2>2, <2>3, <2>5
<1>14. /\ UNCHANGED <<binding, added, coalesced>> /\ phase # "inputs" /\ phase' # "done"
       /\ DistinctIn(searchLibs', DOMAIN link.libs)
  BY <1>1, <1>11 DEF tableVars, FilesOnce
<1> QED BY <1>1, <1>9, <1>11, <1>12, <1>13, <1>14, OnceStep

\* deadStripOptimize and removeCoalescedAwayAtoms leave a part of the list.
LEMMA FilterOInv ==
  ASSUME OInv, StripDead \/ Finish
  PROVE  OInv'
<1> SUFFICES ASSUME phase' # "failed" PROVE FilesOnce' /\ AtomsOnce' /\ KeptBound'
  BY DEF OInv
<1>1. /\ phase \in {"support", "collide"} /\ phase' \in {"check", "done"}
      /\ UNCHANGED <<link, inputs, searchLibs, todo, loaded, tableVars>>
      /\ \E S : atoms' = Only(atoms, S) /\ (phase' = "done" => S = Range(atoms) \ coalesced)
  BY DEF StripDead, Finish
<1>2. UNCHANGED <<binding, added, coalesced>>
  BY <1>1 DEF tableVars
<1>3. FilesOnce /\ AtomsOnce /\ KeptBound
  BY <1>1 DEF OInv
<1>4. PICK S : atoms' = Only(atoms, S) /\ (phase' = "done" => S = Range(atoms) \ coalesced)
  BY <1>1
<1>5. atoms \in Seq(added) /\ DistinctIn(atoms, Atoms \ coalesced)
  BY <1>3 DEF AtomsOnce
<1>6. atoms' \in Seq(added \cap S) /\ DistinctIn(atoms', Atoms \ coalesced)
  BY <1>4, <1>5, OnlyElements, OnlyDistinct
<1>7. atoms' \in Seq(added) /\ Range(atoms') \subseteq added \cap S
  <2>1. added \cap S \subseteq added
    OBVIOUS
  <2> QED BY <1>6, <2>1, SeqMonotonic, RangeOfSeq
<1>8. phase' = "done" => Range(atoms') \cap coalesced = {}
  BY <1>4, <1>7
<1>9. FilesOnce'
  BY <1>1, <1>3 DEF FilesOnce
<1>10. \A h : Members(h)' = Members(h)
              /\ \A m : Parsed(h, m)' = Parsed(h, m) /\ Waiting(h, m)' = Waiting(h, m)
  BY <1>1 DEF Members, Parsed, Waiting, Lib
<1>11. \A h \in DOMAIN link'.libs : \A i \in Members(h)' :
         Waiting(h, i)' => Parsed(h, i)' \cap (added' \cup Range(todo')) = {}
  BY <1>1, <1>2, <1>3, <1>10 DEF AtomsOnce
<1>12. AtomsOnce'
  BY <1>1, <1>2, <1>3, <1>6, <1>7, <1>8, <1>11 DEF AtomsOnce
<1>13. KeptBound'
  BY <1>2, <1>3 DEF KeptBound, Static
<1> QED BY <1>9, <1>12, <1>13

\* Every step keeps the invariant.
LEMMA NextOInv == RInv /\ OInv /\ [Next]_vars => OInv'
<1> SUFFICES ASSUME RInv, OInv, [Next]_vars PROVE OInv'
  OBVIOUS
<1>1. CASE UNCHANGED vars
  <2>1. UNCHANGED <<link, phase, inputs, todo, atoms, searchLibs, loaded, binding, added, coalesced>>
    BY <1>1 DEF vars, resolverVars, tableVars
  <2>2. \A h : Members(h)' = Members(h)
               /\ \A m : Parsed(h, m)' = Parsed(h, m) /\ Waiting(h, m)' = Waiting(h, m)
    BY <2>1 DEF Members, Parsed, Waiting, Lib
  <2>3. AtomsOnce => AtomsOnce'
    BY <2>1, <2>2 DEF AtomsOnce
  <2>4. (FilesOnce => FilesOnce') /\ (KeptBound => KeptBound')
    BY <2>1 DEF FilesOnce, KeptBound, Static
  <2> QED BY <2>1, <2>3, <2>4 DEF OInv
<1>2. CASE OuterTest \/ InnerTest \/ EndLoop \/ MarkRoot \/ MarkKept \/ MarkSupport \/ CheckUndefines
  <2>1. /\ phase \notin {"inputs", "failed"} /\ phase' # "done"
        /\ UNCHANGED <<link, inputs, atoms, todo, searchLibs, loaded, tableVars>>
    BY <1>2 DEF OuterTest, InnerTest, EndLoop, MarkRoot, MarkKept, MarkSupport, CheckUndefines,
                otherVars
  <2> QED BY <2>1, IdleOInv
<1> QED BY <1>1, <1>2, DeliverOInv, LoadInputOInv, CompleteInputsOInv, SearchOInv, MakeProxiesOInv,
           FilterOInv DEF Next, Step, Terminated

\* removeCoalescedAwayAtoms: for all links, what is left is one atom of each
\* name and no atom twice, although archives, dylibs and auto-linked libraries
\* are searched again and again and a proxy may be handed over a second time.
THEOREM OneOfAName == Spec => []OneDefinition
<1>1. RInv /\ OInv => OneDefinition
  <2> SUFFICES ASSUME RInv, OInv, phase = "done", NEW i \in DOMAIN atoms, NEW j \in DOMAIN atoms,
                      \/ atoms[i] = atoms[j]
                      \/ /\ ~Static(atoms[i]) /\ ~Static(atoms[j])
                         /\ atoms[i].key = atoms[j].key
               PROVE  i = j
    BY DEF OneDefinition
  <2>1. /\ AtomsOnce /\ KeptBound /\ atoms \in Seq(added) /\ DistinctIn(atoms, Atoms \ coalesced)
        /\ Range(atoms) \cap coalesced = {} /\ added \subseteq Atoms
    BY DEF OInv, AtomsOnce, RInv, TableTypeOK
  <2>2. /\ atoms[i] \in added \ coalesced /\ atoms[j] \in added \ coalesced
        /\ atoms[i] \in Atoms \ coalesced
    <3>1. atoms[i] \in Range(atoms) /\ atoms[j] \in Range(atoms)
      BY DEF Range
    <3> QED BY <2>1, <3>1, RangeOfSeq
  <2>3. atoms[i] = atoms[j]
    BY <2>1, <2>2 DEF KeptBound
  <2> QED BY <2>1, <2>2, <2>3 DEF DistinctIn
<1>2. RInv /\ OInv /\ [Next]_vars => OInv'
  BY NextOInv
<1> QED BY <1>1, <1>2, InitOInv, ResolverInvariance, PTL DEF Spec

=============================================================================
