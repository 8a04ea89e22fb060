------------------------------ MODULE LinkEdit ------------------------------
(***************************************************************************)
(* OutputFile::buildLINKEDITContent: how the linker makes the symbol table *)
(* and what refers to it by index.                                         *)
(*                                                                         *)
(* Phase 1 runs synthesizeDebugNotes and partitionSymbolTable at the same  *)
(* time on a dispatch queue, phase 2 is assignSymbolIndexes, and phase 3   *)
(* encodes the symbol table and the indirect symbol table in one block of  *)
(* the queue and makes the relocations in another.  Both tasks of phase 1  *)
(* go over the same atoms: the notes read the scope of an atom and whether *)
(* it is in the symbol table, and the partition sets both.  They take no   *)
(* lock; a step here is what a task does with one atom.                    *)
(*                                                                         *)
(* The atoms of the image are numbered in the order of the sections.       *)
(***************************************************************************)
EXTENDS Integers, Sequences, FiniteSets, Lists, SequencesExt

CONSTANT Links      \* what is linked: [object, opts, files, atoms]

Scopes == {"translationUnit", "linkageUnit", "global"}
Inclusions == {"notIn", "notInFinalLinkedImages", "in", "inAndNeverStrip",
               "inWithRandomAutoStripLabel"}
Stab(type, a) == [type |-> type, atom |-> a]
\* The types of stabs that the linker makes or looks for, and the others.
StabTypes == {"SO", "OSO", "BNSYM", "ENSYM", "FUN", "STSYM", "GSYM", "other"}
StabSet == [type : StabTypes, atom : Nat]

\* An atom that the parsers and the resolver make: the imports are what is in
\* the section of the proxies, a proxy with an alias of the command line is
\* re-exported, only what is global can be hidden, and an .eh atom has a label
\* that final images leave out.  The reference of an atom whose branch is TRUE
\* is the branch instruction of an arm function.
AtomOK(k, a) ==
  /\ a.name \in Nat /\ a.scope \in Scopes /\ a.incl \in Inclusions
  /\ a.def \in {"regular", "tentative", "absolute", "proxy"}
  /\ a.ref \in 0..Len(k.atoms) /\ a.file \in 0..Len(k.files)
  /\ a.autoHide => a.scope # "translationUnit"
  /\ (a.def = "proxy") = (a.sect = "proxies")
  /\ a.sect = "proxies" /\ a.alias => a.scope = "global" /\ ~a.autoHide
  /\ a.sect = "CFI" => /\ a.def = "regular" /\ a.scope = "translationUnit"
                       /\ a.incl = "notInFinalLinkedImages"

ASSUME LinksAssumption ==
  \A k \in Links :
    /\ Len(k.atoms) \in Nat /\ DOMAIN k.atoms = 1..Len(k.atoms)
    /\ \A a \in DOMAIN k.atoms : AtomOK(k, k.atoms[a])
    /\ Len(k.files) \in Nat /\ DOMAIN k.files = 1..Len(k.files)
    /\ \A f \in DOMAIN k.files : k.files[f].stabs \in Seq(StabSet)

VARIABLES
  link,             \* the link
  scope, incl,      \* Atom::_scope and Atom::_symbolTableInclusion
  notes, noteAt,    \* where synthesizeDebugNotes is
  noted, withStabs, \* its allStabs and atomsWithStabs
  curTU,            \* its curTUPath
  stabs,            \* state.stabs
  part, partAt,     \* where partitionSymbolTable is
  imported, exported, localAtoms,  \* _importedAtoms, _exportedAtoms, _localAtoms
  phase,
  index,            \* Atom::_outputSymbolIndex, -1 for none
  start,            \* _localSymbolsStartIndex, _globalSymbolsStartIndex, ...
  count,            \* _localSymbolsCount, _globalSymbolsCount, _importSymbolsCount
  symtab,           \* the entries encoded: locals and stabs, globals, imports
  indirect, relocs, \* the symbol indexes written elsewhere: <<target, index>>
  tasks,            \* the blocks of phase 3 that have not run
  exceptionMsg

noteVars == <<notes, noteAt, noted, withStabs, curTU, stabs>>
partVars == <<scope, incl, part, partAt, imported, exported, localAtoms>>
tableVars == <<index, start, count, symtab, indirect, relocs, tasks, exceptionMsg>>
vars == <<link, noteVars, partVars, phase, tableVars>>

Atoms == 1..Len(link.atoms)
Atom(a) == link.atoms[a]
FileOf(a) == link.files[Atom(a).file]
\* "x86_64" stands for the architectures whose relocations are all external.
Arch64 == link.opts.arch = "x86_64"

Init ==
  /\ link \in Links
  /\ scope = [a \in Atoms |-> Atom(a).scope] /\ incl = [a \in Atoms |-> Atom(a).incl]
  /\ notes = IF link.opts.debug THEN "collect" ELSE "done"
  /\ noteAt = 1 /\ noted = {} /\ withStabs = {} /\ curTU = 0 /\ stabs = <<>>
  /\ part = "atoms" /\ partAt = 1 /\ imported = <<>> /\ exported = <<>> /\ localAtoms = <<>>
  /\ phase = 1
  /\ index = [a \in Atoms |-> -1]
  /\ start = [locals |-> 0, globals |-> 0, imports |-> 0]
  /\ count = [locals |-> 0, globals |-> 0, imports |-> 0]
  /\ symtab = [locals |-> <<>>, globals |-> <<>>, imports |-> <<>>]
  /\ indirect = {} /\ relocs = {} /\ tasks = {"symbols", "relocs"} /\ exceptionMsg = FALSE

----------------------------------------------------------------------------
(* synthesizeDebugNotes.                                                   *)

\* The atoms that get debug notes: "no stabs for atoms that would not be in
\* the symbol table", none for absolute symbols, imports, .eh atoms, string
\* literals and empty atoms.
Notable(a) ==
  /\ incl[a] # "notIn"
  /\ incl[a] # "notInFinalLinkedImages" \/ link.object
  /\ incl[a] # "inWithRandomAutoStripLabel"
  /\ Atom(a).def \notin {"absolute", "proxy"}
  /\ Atom(a).sect \notin {"CFI", "cstring"} /\ ~Atom(a).empty

CollectNote ==
  /\ phase = 1 /\ notes = "collect" /\ noteAt \in Atoms
  /\ LET Has(d) == Atom(noteAt).file # 0 /\ FileOf(noteAt).debug = d
     IN  /\ noted' = noted \cup {a \in {noteAt} : Notable(a) /\ Has("dwarf")}
         /\ withStabs' = withStabs \cup {a \in {noteAt} : Notable(a) /\ Has("stabs")}
  /\ noteAt' = noteAt + 1
  /\ UNCHANGED <<link, notes, curTU, stabs, partVars, phase, tableVars>>

EndCollect ==
  /\ phase = 1 /\ notes = "collect" /\ noteAt \notin Atoms
  /\ notes' = "emit"
  /\ UNCHANGED <<link, noteAt, noted, withStabs, curTU, stabs, partVars, phase, tableVars>>

\* The notes of one atom.  A path without a slash ends it early; the notes of
\* a new translation unit begin with the end of the one before.
Unit(a, tu) == IF tu = curTU THEN <<>>
               ELSE <<Stab("SO", 0), Stab("SO", 0), Stab("SO", 0), Stab("OSO", 0)>>
Symbol(a) ==
  CASE Atom(a).sect = "llvm" -> <<>>    \* "no debug notes for meta data"
    [] Atom(a).sect = "code" -> <<Stab("BNSYM", a), Stab("FUN", a), Stab("FUN", a), Stab("ENSYM", a)>>
    [] Atom(a).sect \notin {"code", "llvm"} /\ scope[a] = "translationUnit" -> <<Stab("STSYM", a)>>
    [] OTHER -> <<Stab("GSYM", a)>>

\* The atoms come file by file, in the order of the command line.
EmitNote ==
  /\ phase = 1 /\ notes = "emit" /\ noted # {}
  /\ \E a \in noted :
       /\ \A b \in noted \ {a} :
            Atom(a).file < Atom(b).file \/ (Atom(a).file = Atom(b).file /\ a < b)
       /\ LET tu == FileOf(a).tu
              flat == tu # curTU /\ FileOf(a).flat
          IN  /\ stabs' = IF tu = 0 \/ flat THEN stabs ELSE stabs \o Unit(a, tu) \o Symbol(a)
              /\ curTU' = IF tu = 0 THEN curTU ELSE tu
       /\ noted' = noted \ {a}
  /\ UNCHANGED <<link, notes, noteAt, withStabs, partVars, phase, tableVars>>

\* The stabs of an object file that belong to no atom or to one that is left.
\* The address an N_SO gets is left out.
CopiedStabs ==
  LET kept(f) == {s \in Range(link.files[f].stabs) : s.atom = 0 \/ s.atom \in withStabs}
  IN  FlattenSeq([f \in DOMAIN link.files |->
        IF \E a \in withStabs : Atom(a).file = f
        THEN Only(link.files[f].stabs, kept(f)) ELSE <<>>])

\* The end of the last unit, and "copy any stabs from .o files".
EndNotes ==
  /\ phase = 1 /\ notes = "emit" /\ noted = {}
  /\ LET wroteStartSO == \E k \in DOMAIN stabs : stabs[k].type = "OSO"
     IN  stabs' = stabs \o (IF wroteStartSO THEN <<Stab("SO", 0)>> ELSE <<>>) \o CopiedStabs
  /\ notes' = "done"
  /\ UNCHANGED <<link, noteAt, noted, withStabs, curTU, partVars, phase, tableVars>>

----------------------------------------------------------------------------
(* partitionSymbolTable.                                                   *)

keepLocalSymbol(a) == Atom(a).name \in link.opts.keep

\* Mutant of Clarified: a symbol that is hidden is made static.
ClarifiedStatic(a) ==
  LET i == CASE link.object /\ Atom(a).sect = "CFI" ->
                    IF link.opts.removeEHLabels THEN "notIn" ELSE "in"
             [] link.object /\ Atom(a).sect # "CFI" /\ incl[a] = "notInFinalLinkedImages" -> "in"
             [] OTHER -> incl[a]
      global == i = "inAndNeverStrip" /\ scope[a] = "linkageUnit" /\ link.opts.dylib
      hidden == Atom(a).autoHide /\ ~link.object /\ Atom(a).name \notin link.opts.exportList
  IN  [incl |-> i,
       scope |-> IF hidden THEN "translationUnit" ELSE IF global THEN "global" ELSE scope[a]]

\* What becomes of an atom: its scope and inclusion, and the lists it is put
\* on.  First what changes its inclusion and scope whatever list it goes to.
Clarified(a) ==
  LET i == CASE link.object /\ Atom(a).sect = "CFI" ->
                    IF link.opts.removeEHLabels THEN "notIn" ELSE "in"
             [] link.object /\ Atom(a).sect # "CFI" /\ incl[a] = "notInFinalLinkedImages" -> "in"
             [] OTHER -> incl[a]
      global == i = "inAndNeverStrip" /\ scope[a] = "linkageUnit" /\ link.opts.dylib
      hidden == Atom(a).autoHide /\ ~link.object /\ Atom(a).name \notin link.opts.exportList
  IN  [incl |-> i,
       scope |-> IF hidden THEN "linkageUnit" ELSE IF global THEN "global" ELSE scope[a]]

\* "Do not strip symbol if its alt_entry alias has global visibility"
NextIsGlobalEntry(a) == a + 1 \in Atoms /\ Atom(a + 1).altEntry /\ scope[a + 1] = "global"

\* The last switch, on the scope, in an object file and in another image.
PlacedInObject(a, c) ==
  LET To(list) == [incl |-> c.incl, scope |-> c.scope, to |-> {list}]
      Stripped == [incl |-> "inWithRandomAutoStripLabel", scope |-> c.scope, to |-> {"local"}]
  IN  CASE c.scope = "global" -> To("exported")
        [] c.scope = "translationUnit" ->
             IF keepLocalSymbol(a) \/ NextIsGlobalEntry(a) THEN To("local") ELSE Stripped
        [] c.scope = "linkageUnit" /\ link.opts.keepPrivateExterns ->
             IF c.incl = "inWithRandomAutoStripLabel"
             THEN [incl |-> c.incl, scope |-> "translationUnit", to |-> {"local"}]
             ELSE To("exported")
        [] c.scope = "linkageUnit" /\ ~link.opts.keepPrivateExterns ->
             IF keepLocalSymbol(a) THEN To("local") ELSE Stripped
PlacedInImage(a, c) ==
  LET To(list) == [incl |-> c.incl, scope |-> c.scope, to |-> {list}]
      neverStrip == c.scope = "linkageUnit" /\ c.incl = "inAndNeverStrip" /\ ~link.opts.compressed
  IN  CASE c.scope = "global" -> To("exported")
        [] c.scope # "global" /\ (keepLocalSymbol(a) \/ neverStrip) -> To("local")
        [] c.scope # "global" /\ ~keepLocalSymbol(a) /\ ~neverStrip ->
             [incl |-> "notIn", scope |-> c.scope, to |-> {}]

\* Each line is one early end of the loop body, in the order of the code.
Placed(a) ==
  LET c == Clarified(a)
      To(lists) == [incl |-> c.incl, scope |-> c.scope, to |-> lists]
      As(i, lists) == [incl |-> i, scope |-> c.scope, to |-> lists]
  IN  IF link.object /\ Arch64 /\ Atom(a).sect = "cstring" THEN As("in", {"local"})
      ELSE IF link.object /\ Atom(a).sect = "tempAlias"
      THEN [incl |-> incl[a], scope |-> scope[a], to |-> {"imported"}]
      ELSE IF Atom(a).sect = "proxies"
      THEN To((IF Atom(a).alias THEN {} ELSE {"imported"})
                \cup (IF c.scope = "global" THEN {"exported"} ELSE {}))
      ELSE IF \/ c.incl \in {"notInFinalLinkedImages", "notIn"}
              \/ c.incl = "inWithRandomAutoStripLabel" /\ ~link.object THEN To({})
      ELSE IF Atom(a).def = "tentative" /\ link.object
      THEN To({IF link.opts.makeTentativeDefinitionsReal THEN "exported" ELSE "imported"})
      ELSE IF link.object THEN PlacedInObject(a, c) ELSE PlacedInImage(a, c)

PartitionAtom ==
  /\ phase = 1 /\ part = "atoms" /\ partAt \in Atoms
  /\ LET p == Placed(partAt)
         Add(list, name) == IF name \in p.to THEN Append(list, partAt) ELSE list
     IN  /\ scope' = [scope EXCEPT ![partAt] = p.scope]
         /\ incl' = [incl EXCEPT ![partAt] = p.incl]
         /\ imported' = Add(imported, "imported")
         /\ exported' = Add(exported, "exported")
         /\ localAtoms' = Add(localAtoms, "local")
  /\ partAt' = partAt + 1
  /\ UNCHANGED <<link, noteVars, part, phase, tableVars>>

\* std::sort with AtomByNameSorter.
ByName(list) ==
  LET rank(i) == Cardinality({j \in DOMAIN list : Atom(list[j]).name < Atom(list[i]).name
                                \/ (Atom(list[j]).name = Atom(list[i]).name /\ j < i)}) + 1
  IN  [k \in DOMAIN list |-> list[CHOOSE i \in DOMAIN list : rank(i) = k]]

\* What an atom refers to: in a kext with a list of exports "remove any
\* unreferenced _importedAtoms".
Referenced == {Atom(a).ref : a \in Atoms}

EndPartition ==
  /\ phase = 1 /\ part = "atoms" /\ partAt \notin Atoms
  /\ imported' = ByName(IF link.opts.kext THEN Only(imported, Referenced) ELSE imported)
  /\ exported' = ByName(exported)
  /\ part' = "done"
  /\ UNCHANGED <<link, noteVars, scope, incl, partAt, localAtoms, phase, tableVars>>

----------------------------------------------------------------------------
(* dispatch_group_wait and assignSymbolIndexes.                            *)

EndPhase1 ==
  /\ phase = 1 /\ notes = "done" /\ part = "done"
  /\ phase' = 2
  /\ UNCHANGED <<link, noteVars, partVars, tableVars>>

\* The local atoms that get an index.
Labelled ==
  Only(localAtoms, {a \in Atoms : ~(link.opts.removeEHLabels /\ Atom(a).sect = "CFI")})

PlaceIn(list, a) == CHOOSE k \in DOMAIN list : list[k] = a
In(list, a) == \E k \in DOMAIN list : list[k] = a

\* Mutant of assignSymbolIndexes: no space is reserved for the stabs.
assignWithoutStabs ==
  LET locals == Len(localAtoms)
      globals == locals + Len(exported)
  IN  /\ phase = 2 /\ phase' = 3
      /\ index' = [a \in Atoms |->
            CASE In(Labelled, a) -> PlaceIn(Labelled, a) - 1
              [] ~In(Labelled, a) /\ In(imported, a) -> globals + PlaceIn(imported, a) - 1
              [] ~In(Labelled, a) /\ ~In(imported, a) /\ In(exported, a)
                   -> locals + PlaceIn(exported, a) - 1
              [] OTHER -> -1]
      /\ start' = [locals |-> 0, globals |-> locals, imports |-> globals]
      /\ count' = [locals |-> Len(Labelled), globals |-> Len(exported), imports |-> Len(imported)]
      /\ UNCHANGED <<link, noteVars, partVars, symtab, indirect, relocs, tasks, exceptionMsg>>

\* Exported atoms first, then imported ones and local ones: an atom on two
\* lists keeps the last index it is given.
assignSymbolIndexes ==
  LET locals == Len(stabs) + Len(localAtoms)
      globals == locals + Len(exported)
  IN  /\ phase = 2 /\ phase' = 3
      /\ index' = [a \in Atoms |->
            CASE In(Labelled, a) -> PlaceIn(Labelled, a) - 1
              [] ~In(Labelled, a) /\ In(imported, a) -> globals + PlaceIn(imported, a) - 1
              [] ~In(Labelled, a) /\ ~In(imported, a) /\ In(exported, a)
                   -> locals + PlaceIn(exported, a) - 1
              [] OTHER -> -1]
      /\ start' = [locals |-> 0, globals |-> locals, imports |-> globals]
      /\ count' = [locals |-> Len(Labelled), globals |-> Len(exported), imports |-> Len(imported)]
      /\ UNCHANGED <<link, noteVars, partVars, symtab, indirect, relocs, tasks, exceptionMsg>>

----------------------------------------------------------------------------
(* Phase 3.                                                                *)

\* symbolIndex: "internal error: atom is missing a symbolIndex".
Indexes(targets) == {<<t, index[t]>> : t \in targets}
Missing(targets) == \E t \in targets : index[t] = -1

\* symIndexOfNonLazyPointerAtom: the targets of non-lazy pointers that are
\* found by their index, in a two-level namespace.  A pointer without a target
\* is the slot of the image loader's cache.
ByIndex(t) ==
  CASE Atom(t).def = "regular" -> scope[t] = "global" /\ (link.object \/ Atom(t).byName)
    [] Atom(t).def \in {"tentative", "absolute"} -> link.object
    [] Atom(t).def = "proxy" -> TRUE
IndirectTargets == {Atom(a).ref : a \in {b \in Atoms : Atom(b).sect = "nonLazyPointer"}} \ {0}

\* addLocal makes no entry for an .eh atom without a label.
LocalEntries ==
  Only(localAtoms, {a \in Atoms : ~(link.object /\ link.opts.removeEHLabels /\ Atom(a).sect = "CFI")})

\* The block that encodes the symbol table and then the indirect one.
EncodeSymbols ==
  /\ phase = 3 /\ "symbols" \in tasks
  /\ tasks' = tasks \ {"symbols"}
  /\ symtab' = [locals |-> [k \in 1..(Len(LocalEntries) + Len(stabs)) |->
                              IF k <= Len(LocalEntries) THEN LocalEntries[k] ELSE 0],
                globals |-> exported, imports |-> imported]
  /\ count' = [count EXCEPT !.locals = @ + Len(stabs)]
  /\ LET targets == {t \in IndirectTargets : ByIndex(t)}
     IN  /\ indirect' = IF Missing(targets) THEN {} ELSE Indexes(targets)
         /\ exceptionMsg' = (exceptionMsg \/ Missing(targets))
  /\ UNCHANGED <<link, noteVars, partVars, phase, index, start, relocs>>

\* In an object file a branch of arm that switches between ARM and Thumb is
\* made an external relocation, "since no way to do local reloc for 'b'", and
\* so is a reference of i386 to a thread local variable.
Forced(a, t) ==
  /\ link.object
  /\ \/ link.opts.arch = "arm" /\ Atom(a).branch /\ Atom(a).thumb # Atom(t).thumb
     \/ link.opts.arch = "i386" /\ Atom(t).tlv

\* Mutant of useExternalSectionReloc: what phase 1 made of a target is
\* not asked, only whether it was to be in the table before phase 1.
useExternalAtFirst(a, t) ==
  IF Arch64 THEN Atom(t).incl # "notIn"
  ELSE \/ Forced(a, t)
       \/ Atom(t).def = "proxy"
       \/ Atom(t).def = "tentative" /\ ~link.opts.makeTentativeDefinitionsReal
       \/ scope[t] = "global" /\ Atom(t).byName /\ Atom(t).def = "regular"

useExternalSectionReloc(a, t) ==
  IF Arch64 THEN incl[t] # "notIn"
  ELSE \/ Forced(a, t)
       \/ Atom(t).def = "proxy"
       \/ Atom(t).def = "tentative" /\ ~link.opts.makeTentativeDefinitionsReal
       \/ scope[t] = "global" /\ Atom(t).byName /\ Atom(t).def = "regular"

\* The atoms whose references addSectionRelocs makes relocations for.
Relocated == {a \in Atoms : /\ link.object /\ Atom(a).ref # 0
                            /\ ~(Atom(a).sect = "CFI" /\ link.opts.removeEHLabels)
                            /\ Atom(a).sect # "nonLazyPointer" /\ Atom(a).def # "tentative"}

\* What is given an external relocation: sectSymNum writes R_ABS for an
\* absolute symbol, and the symbol index for any other.
ExternalTargets ==
  {Atom(a).ref : a \in {b \in Relocated : /\ useExternalSectionReloc(b, Atom(b).ref)
                                         /\ Atom(Atom(b).ref).def # "absolute"}}

\* The block that makes the relocations of an object file.
AddSectionRelocs ==
  /\ phase = 3 /\ "relocs" \in tasks
  /\ tasks' = tasks \ {"relocs"}
  /\ relocs' = IF Missing(ExternalTargets) THEN {} ELSE Indexes(ExternalTargets)
  /\ exceptionMsg' = (exceptionMsg \/ Missing(ExternalTargets))
  /\ UNCHANGED <<link, noteVars, partVars, phase, index, start, count, symtab, indirect>>

EndPhase3 ==
  /\ phase = 3 /\ tasks = {}
  /\ phase' = 4
  /\ UNCHANGED <<link, noteVars, partVars, tableVars>>

Done == phase = 4 /\ UNCHANGED vars

Notes == CollectNote \/ EndCollect \/ EmitNote \/ EndNotes
Partition == PartitionAtom \/ EndPartition
Next == Notes \/ Partition \/ EndPhase1 \/ assignSymbolIndexes
          \/ EncodeSymbols \/ AddSectionRelocs \/ EndPhase3 \/ Done

Spec == Init /\ [][Next]_vars

----------------------------------------------------------------------------
(* Properties.                                                             *)

TypeOK ==
  /\ phase \in 1..4 /\ notes \in {"collect", "emit", "done"} /\ part \in {"atoms", "done"}
  /\ \A a \in Atoms :
       /\ scope[a] \in Scopes /\ incl[a] \in Inclusions
       /\ index[a] \in -1..(start.imports + count.imports)
  /\ noted \subseteq Atoms /\ withStabs \subseteq Atoms

\* The atoms with notes and the kind of their notes when nothing else runs.
\* The first atom of a path without a slash has none, and neither has bitcode.
NotableAtFirst(a) ==
  /\ Atom(a).incl \notin {"notIn", "inWithRandomAutoStripLabel"}
  /\ Atom(a).incl # "notInFinalLinkedImages" \/ link.object
  /\ Atom(a).def \notin {"absolute", "proxy"}
  /\ Atom(a).sect \notin {"CFI", "cstring"} /\ ~Atom(a).empty
  /\ Atom(a).file # 0 /\ FileOf(a).debug = "dwarf" /\ FileOf(a).tu # 0
NotedAtFirst == {a \in Atoms : NotableAtFirst(a) /\
  (FileOf(a).flat => \E b \in Atoms : NotableAtFirst(b) /\ b < a /\ Atom(b).file = Atom(a).file)}
TypeAtFirst(a) ==
  IF Atom(a).sect = "code" THEN "FUN"
  ELSE IF Atom(a).scope = "translationUnit" THEN "STSYM" ELSE "GSYM"

\* "build state.stabs and _importedAtoms, _exportedAtoms, _localAtoms in
\* parallel": in a link that keeps its local symbols the debug notes are the
\* ones of the atoms as they were before phase 1, however far the partition
\* has got when each atom is looked at, though it changes what the notes read.
NotesAsIfAlone ==
  (notes = "done" /\ link.opts.debug /\ \A a \in Atoms : keepLocalSymbol(a)) =>
    {<<s.atom, s.type>> : s \in {stabs[k] : k \in {j \in DOMAIN stabs :
        /\ stabs[j].type \in {"FUN", "STSYM", "GSYM"}
        /\ stabs[j].atom \notin withStabs \cup {0}}}}
      = {<<a, TypeAtFirst(a)>> : a \in {b \in NotedAtFirst : Atom(b).sect # "llvm"}}

\* "no stabs for atoms that would not be in the symbol table".
NotesOfSymbols ==
  phase > 1 => \A k \in DOMAIN stabs :
    stabs[k].atom # 0 => \/ In(exported, stabs[k].atom) \/ In(localAtoms, stabs[k].atom)
                         \/ In(imported, stabs[k].atom)

\* The symbol table as copyRawContent writes it: position to atom, 0 for a
\* stab.
At(i) ==
  CASE i >= start.imports -> symtab.imports[i - start.imports + 1]
    [] i >= start.globals /\ i < start.imports -> symtab.globals[i - start.globals + 1]
    [] OTHER -> symtab.locals[i + 1]

\* The indexes are assigned in phase 2 and the entries are made in phase 3 by
\* other code, which skips and orders atoms on its own: an index that is
\* written into an indirect symbol table or a relocation is the place of that
\* very symbol, and the parts of the table neither overlap nor leave a gap.
IndexIsPosition ==
  phase = 4 =>
    /\ \A p \in indirect \cup relocs : At(p[2]) = p[1]
    /\ start.locals + count.locals = start.globals /\ Len(symtab.locals) = count.locals
    /\ start.globals + count.globals = start.imports /\ Len(symtab.globals) = count.globals

\* An atom of an object file that is in its table whatever the options.
HasLabel(a) == Atom(a).incl # "notIn" /\ Atom(a).sect # "CFI"

\* "internal error: atom is missing a symbolIndex": what phase 3 refers to by
\* index is what phase 1 put in the table, though each decides it anew from
\* the scope and the inclusion of the target.  A relocation that is forced
\* asks neither, and is the only way to the error: its target is code that has
\* no label.
NoIndexMissing ==
  exceptionMsg => \E a \in Relocated : Forced(a, Atom(a).ref) /\ ~HasLabel(Atom(a).ref)
=============================================================================
