---------------------------- MODULE SymbolTable ----------------------------
(***************************************************************************)
(* ld64's SymbolTable, as the Resolver drives it while it loads atoms:     *)
(* by-name and by-content slots of the indirect binding table, collisions, *)
(* coalescing and the lists of duplicate symbols.                          *)
(*                                                                         *)
(* An atom is a record (see NameCollision) with two more fields: key, its  *)
(* name or, for an atom coalesced by content or by references, the class   *)
(* of atoms it can be coalesced with; and refs, the names its fixups are   *)
(* bound to by name.  The slot of a key is written binding[key]; slots     *)
(* holds the keys that have one, so that updateCount() is its cardinality. *)
(*                                                                         *)
(* A function's FDE and LSDA are its group subordinates, and so is the     *)
(* atom an alt_entry atom belongs to: Subordinates gives all the atoms     *)
(* that markCoalescedAway reaches from an atom.                            *)
(***************************************************************************)
EXTENDS NameCollision, FiniteSets

CONSTANTS
  Names,                \* symbol names
  Contents,             \* classes of atoms coalesced by content or references
  Atoms,                \* the atoms the input files may hold
  ContentRefs,          \* the atoms an atom's fixups are bound to by content
  Subordinates,         \* the atoms removed with an atom (group subordinates)
  NULL,                 \* an empty slot
  DeadCodeStrip,        \* _options.deadCodeStrip()
  AllowDeadDuplicates   \* _options.allowDeadDuplicates()

Keys == Names \cup Contents

ByContent(a) == a.combine = "byContent"
Static(a) == a.scope = "translationUnit"

ASSUME AtomsAssumption ==
  /\ NULL \notin Atoms
  /\ Names \cap Contents = {}
  /\ DeadCodeStrip \in BOOLEAN /\ AllowDeadDuplicates \in BOOLEAN
  /\ \A a \in Atoms :
       /\ a.key \in IF ByContent(a) THEN Contents ELSE Names
       /\ ByContent(a) => ~Static(a)
       /\ a.combine \in {"never", "byName", "byContent"}
       /\ a.definition \in {"regular", "tentative", "absolute", "proxy"}
       /\ a.ordinal \in Nat /\ a.size \in Nat /\ a.alignment \in Nat
       /\ a.isLTO \in BOOLEAN /\ a.autoHide \in BOOLEAN
       /\ a.scope \in {"translationUnit", "linkageUnit", "global"}
       /\ a.machHeader \in BOOLEAN
       /\ a.refs \subseteq Names
       /\ ContentRefs[a] \subseteq {t \in Atoms : ByContent(t)}
       /\ \A t, u \in ContentRefs[a] : t.key = u.key => t = u
       /\ Subordinates[a] \subseteq Atoms
       /\ \A s \in Subordinates[a] : Subordinates[s] \subseteq Subordinates[a]

VARIABLES
  slots,         \* the keys that have a slot
  binding,       \* _indirectBindingTable, by key
  added,         \* the atoms add() has taken
  coalesced,     \* the atoms marked coalescedAway
  dupErrors,     \* _duplicateSymbolErrors
  dupWarnings,   \* _duplicateSymbolWarnings
  initialDone,   \* _completedInitialObjectFiles
  thrown         \* a collision threw: the link fails

tableVars == <<slots, binding, added, coalesced, dupErrors, dupWarnings,
               initialDone, thrown>>

TableInit ==
  /\ slots = {}
  /\ binding = [k \in Keys |-> NULL]
  /\ added = {}
  /\ coalesced = {}
  /\ dupErrors = [n \in Names |-> {}]
  /\ dupWarnings = [n \in Names |-> {}]
  /\ initialDone = FALSE
  /\ thrown = FALSE

-----------------------------------------------------------------------------

\* How doAtom tells the table to treat duplicates.
Treatment ==
  IF ~DeadCodeStrip THEN "error"
  ELSE IF AllowDeadDuplicates THEN "suppress"
  ELSE IF initialDone THEN "warning" ELSE "error"

\* Mutant of AddDuplicate: only the first atom is listed.
FirstDuplicate(atoms, a) == IF atoms # {} THEN atoms ELSE {a}
\* addDuplicateSymbol: an atom joins the list unless its file's path is there.
AddDuplicate(atoms, a) ==
  IF \E b \in atoms : b.path = a.path THEN atoms ELSE atoms \cup {a}

RecordDuplicates(a, existing) ==
  LET both(list) == [list EXCEPT ![a.key] =
                       AddDuplicate(AddDuplicate(@, existing), a)]
      report == ReportDuplicate(a, existing, Treatment)
  IN  /\ dupErrors' = IF report /\ Treatment = "error"
                      THEN both(dupErrors) ELSE dupErrors
      /\ dupWarnings' = IF report /\ Treatment = "warning"
                        THEN both(dupWarnings) ELSE dupWarnings

\* Mutants of MarkCoalescedAway: the atom, or its group, is left out.
MarkGroupOnly(a) == coalesced' = coalesced \cup Subordinates[a]
MarkAtomOnly(a) == coalesced' = coalesced \cup {a}
\* markCoalescedAway follows the group fixups.
MarkCoalescedAway(a) == coalesced' = coalesced \cup {a} \cup Subordinates[a]

\* The table once a is added, after convertReferencesToIndirect of its fixups
\* that are bound by content: findSlotForContent and findSlotForReferences put
\* the target in the slot they make for it.
BindReferences(a, table) ==
  binding' = [k \in Keys |->
                IF /\ k \notin slots /\ table[k] = NULL
                   /\ \E t \in ContentRefs[a] : t.key = k
                THEN CHOOSE t \in ContentRefs[a] : t.key = k
                ELSE table[k]]

WithAtom(a) == [binding EXCEPT ![a.key] = a]

\* addByName.  findSlotForName has made the slot before a collision throws.
AddByName(a) ==
  LET existing == binding[a.key]
      chosen   == Chosen(a, existing, Treatment)
  IN  IF existing = NULL
      THEN /\ BindReferences(a, WithAtom(a))
           /\ UNCHANGED <<coalesced, dupErrors, dupWarnings, thrown>>
      ELSE IF chosen = Throws
      THEN /\ thrown' = TRUE
           /\ UNCHANGED <<binding, coalesced, dupErrors, dupWarnings>>
      ELSE /\ RecordDuplicates(a, existing)
           /\ \/ /\ "A" \in chosen
                 /\ BindReferences(a, WithAtom(a))
                 /\ MarkCoalescedAway(existing)
              \/ /\ "B" \in chosen
                 /\ BindReferences(a, binding)
                 /\ MarkCoalescedAway(a)
           /\ UNCHANGED thrown

\* addByContent and addByReferences: the existing atom stays unless the new
\* one needs a greater alignment.  A reference may have put the new atom
\* itself in the slot already.
AddByContent(a) ==
  LET existing == binding[a.key]
  IN  /\ IF existing = NULL
         THEN /\ BindReferences(a, WithAtom(a))
              /\ UNCHANGED coalesced
         ELSE IF a.alignment > existing.alignment
         THEN /\ BindReferences(a, WithAtom(a))
              /\ MarkCoalescedAway(existing)
         ELSE /\ BindReferences(a, binding)
              /\ IF existing = a THEN UNCHANGED coalesced
                 ELSE MarkCoalescedAway(a)
      /\ UNCHANGED <<dupErrors, dupWarnings, thrown>>

\* The table does not see static atoms; their references get slots all the same.
SkipStatic(a) ==
  /\ BindReferences(a, binding)
  /\ UNCHANGED <<coalesced, dupErrors, dupWarnings, thrown>>

\* The slot that findSlotForName, -Content or -References makes for an atom.
OwnSlot(a) == IF Static(a) THEN {} ELSE {a.key}

\* Resolver::doAtom: add the atom to the table, then convertReferencesToIndirect
\* gives whatever it refers to a slot.  A throw in add ends the handler.
DoAtom(a) ==
  /\ IF Static(a) THEN SkipStatic(a)
     ELSE IF ByContent(a) THEN AddByContent(a)
     ELSE AddByName(a)
  /\ added' = IF thrown' THEN added ELSE added \cup {a}
  /\ slots' = slots
               \cup OwnSlot(a)
               \cup (IF thrown' THEN {}
                     ELSE a.refs \cup {t.key : t \in ContentRefs[a]})
  /\ UNCHANGED initialDone

\* addInitialUndefines and every other findSlotForName of a name without atom.
FindSlotForName(n) ==
  /\ n \notin slots
  /\ slots' = slots \cup {n}
  /\ UNCHANGED <<binding, added, coalesced, dupErrors, dupWarnings, initialDone,
                 thrown>>

\* buildAtomList returns: the initial files are loaded.
CompleteInitialFiles ==
  /\ ~initialDone
  /\ initialDone' = TRUE
  /\ UNCHANGED <<slots, binding, added, coalesced, dupErrors, dupWarnings,
                 thrown>>

-----------------------------------------------------------------------------
(***************************************************************************)
(* The table under any order of atoms (the module Resolver gives the order *)
(* of the linker).  A file, which an ordinal stands for, hands over each   *)
(* of its atoms once and defines a name once.                              *)
(***************************************************************************)

MayArrive(a) ==
  /\ a \notin added
  /\ \A b \in added : b.ordinal = a.ordinal /\ b.key = a.key
                      => ByContent(a) \/ Static(a) \/ Static(b)

TableNext ==
  /\ ~thrown
  /\ \/ \E a \in Atoms : MayArrive(a) /\ DoAtom(a)
     \/ \E n \in Names : FindSlotForName(n)
     \/ CompleteInitialFiles

TableSpec == TableInit /\ [][TableNext]_tableVars

-----------------------------------------------------------------------------
(***************************************************************************)
(* Properties.                                                             *)
(***************************************************************************)

\* The type of the table: a slot holds an atom of its key, or nothing.
TableTypeOK ==
  /\ slots \subseteq Keys
  /\ binding \in [Keys -> Atoms \cup {NULL}]
  /\ \A k \in Keys : binding[k] # NULL => binding[k].key = k /\ k \in slots
  /\ added \subseteq Atoms
  /\ coalesced \subseteq Atoms
  /\ dupErrors \in [Names -> SUBSET Atoms]
  /\ dupWarnings \in [Names -> SUBSET Atoms]
  /\ initialDone \in BOOLEAN
  /\ thrown \in BOOLEAN

\* The atoms that go with another one.
Dependent(a) == \E b \in Atoms : a \in Subordinates[b]

\* Every atom the table took is either the one its slot holds or marked
\* coalescedAway, and never both, whatever collisions followed and whether or
\* not a reference had put it in its slot early: removeCoalescedAwayAtoms
\* neither drops the atom a fixup is bound to nor keeps two of a name.
BoundOrCoalesced ==
  \A a \in added :
    ~Static(a) /\ ~Dependent(a)
      => (binding[a.key] = a) = (a \notin coalesced)

\* The unwind information and LSDA of a function that the table knows are kept
\* exactly when the function is, in whatever order they arrive:
\* markCoalescedAway's loop over the group fixups.
GroupsFollow ==
  \A a \in added : \A s \in Subordinates[a] :
    ~Static(a) /\ Static(s) /\ ~Dependent(a)
      => (s \in coalesced) = (binding[a.key] # a)

Strong(a) == a.definition = "regular" /\ ~IsWeak(a)
AtomsOf(n) == {a \in added : a.key = n /\ ~Static(a)}

\* A strong definition is never lost to a weak, tentative or dylib one,
\* whichever of them were loaded before and after it (pickAtom,
\* pickBetweenRegularAtoms).  Only an absolute symbol may replace it.
StrongWins ==
  \A n \in Names :
    /\ \E a \in AtomsOf(n) : Strong(a)
    /\ \A a \in AtomsOf(n) : a.definition # "absolute"
    => binding[n] # NULL /\ Strong(binding[n])

\* Which weak definition the comments of pickBetweenRegularAtoms prefer: mach-o
\* over bitcode, then not auto-hidden, then the more visible, then the one of
\* greater alignment.
Preferable(a, b) ==
  \/ ~a.isLTO /\ b.isLTO
  \/ /\ a.isLTO = b.isLTO
     /\ \/ ~a.autoHide /\ b.autoHide
        \/ /\ ~a.autoHide /\ ~b.autoHide
           /\ a.scope = "global" /\ b.scope # "global"
        \/ /\ a.autoHide = b.autoHide
           /\ a.autoHide \/ a.scope = b.scope
           /\ a.alignment > b.alignment

\* Among weak definitions only, the table ends with one that none of the
\* others is preferable to, in whatever order they were loaded.
BestWeak ==
  \A n \in Names :
    (\A a \in AtomsOf(n) : a.definition = "regular" /\ IsWeak(a))
      => \A a \in AtomsOf(n) : ~Preferable(a, binding[n])

\* Among tentative definitions (and dylib symbols, when -commons ignores
\* them) the table ends with a largest one, and of those with the one of the
\* highest ordinal: common blocks of one name never shrink.
LargestCommon ==
  \A n \in Names :
    /\ \A a \in AtomsOf(n) :
         a.definition \in IF CommonsMode = "ignoreDylibs"
                          THEN {"tentative", "proxy"} ELSE {"tentative"}
    => \A a \in AtomsOf(n) :
         a.definition = "tentative" =>
           /\ binding[n].definition = "tentative"
           /\ binding[n].size >= a.size
           /\ binding[n].size = a.size => binding[n].ordinal >= a.ordinal

\* Two strong definitions of a name are never accepted silently: the file of
\* each is in the list of duplicates, although the atom the table went on
\* with is one of them, unless duplicates are suppressed.  (The mach header's
\* atom is never a duplicate, and a weak atom that replaces an absolute one
\* hides an earlier strong one, which is listed then.)
DuplicatesListed ==
  ~(DeadCodeStrip /\ AllowDeadDuplicates) =>
    \A n \in Names :
      \A a, b \in AtomsOf(n) :
        /\ a # b /\ AreDuplicates(a, b)
        /\ \A c \in AtomsOf(n) : ~c.machHeader /\ c.definition # "absolute"
        => \E d \in dupErrors[n] \cup dupWarnings[n] : d.path = a.path

=============================================================================
