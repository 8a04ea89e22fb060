------------------------------ MODULE Resolver ------------------------------
(***************************************************************************)
(* Resolver::resolve of ld64: load the atoms of the input files, search    *)
(* the libraries until nothing undefined can be found any more, follow the *)
(* auto-link options of what was loaded, mark and strip dead atoms, check  *)
(* what is still undefined, and remove what was coalesced away.  The       *)
(* symbol table and doAtom are those of SymbolTable; library search,       *)
(* archives and auto-linking are InputFiles and the archive and dylib      *)
(* parsers.                                                                *)
(*                                                                         *)
(* A link is chosen in Init and does not change.  Its libs map the files   *)
(* the linker can find, by number, to records                              *)
(*   kind     "object", "archive" or "dylib"                               *)
(*   members  the object files in it, in order (for an object: itself),    *)
(*            each with its atoms in order and the libraries it auto-links *)
(*   force    an archive under -force_load                                 *)
(*   strong   the names a dylib exports, and weak, those it exports weakly *)
(* inputs are the files of the command line in order, implicit the public  *)
(* dylibs that others re-export, undefs the initial undefines, and entry   *)
(* the entry point (or NULL).  Names and library numbers stand for strings *)
(* in the order of strcmp.                                                 *)
(*                                                                         *)
(* The atoms have three more fields: isData (the section is not code),     *)
(* keep (dontDeadStrip) and support (dontDeadStripIfReferencesLive).       *)
(***************************************************************************)
EXTENDS SymbolTable, Lists, SequencesExt

CONSTANTS
  Links,                \* the links considered
  Direct,               \* the atoms an atom's fixups are bound to directly
  BoundaryNames,        \* names section$... and segment$..., which ld defines
  UndefinedError,       \* undefinedTreatment() is kUndefinedError
  AllowedUndefines,     \* the names of -U
  AllGlobalsAreRoots    \* _options.allGlobalsAreDeadStripRoots()

\* A file or library of a link.
LibOK(lib) ==
  /\ lib.kind \in {"object", "archive", "dylib"}
  /\ lib.strong \subseteq Names /\ lib.weak \subseteq Names
  /\ Len(lib.members) \in Nat /\ DOMAIN lib.members = 1 .. Len(lib.members)
  /\ \A m \in DOMAIN lib.members : lib.members[m].atoms \in Seq(Atoms)

ASSUME LinksAssumption ==
  /\ Names \subseteq Nat /\ IsFiniteSet(Names) /\ IsFiniteSet(Contents)
  /\ UndefinedError \in BOOLEAN /\ AllGlobalsAreRoots \in BOOLEAN
  /\ BoundaryNames \subseteq Names /\ AllowedUndefines \subseteq Names
  /\ \A a \in Atoms : Direct[a] \subseteq Atoms
  /\ \A k \in Links :
       /\ DOMAIN k.libs \subseteq Nat /\ IsFiniteSet(DOMAIN k.libs)
       /\ \A l \in DOMAIN k.libs : LibOK(k.libs[l])
       /\ k.inputs \in Seq(DOMAIN k.libs) /\ k.implicit \subseteq DOMAIN k.libs
       /\ k.undefs \in Seq(Names) /\ k.entry \in Range(k.undefs) \cup {NULL}

VARIABLES
  link,          \* the link being done
  phase,         \* where resolve() is
  inputs,        \* the input files not consumed yet
  todo,          \* atoms a file is handing over, before the phase goes on
  atoms,         \* _atoms
  searchLibs,    \* _searchLibraries
  options,       \* unprocessedLinkerOptionLibraries
  processed,     \* linkerOptionLibraries
  loaded,        \* the archive members already loaded
  pending,       \* the names the current loop still has to look at
  gen, innerGen, \* undefineGenCount, innerUndefineGenCount
  live,          \* the atoms marked live
  support        \* the rest of dontDeadStripIfReferencesLive

resolverVars == <<link, phase, inputs, todo, atoms, searchLibs, options,
                  processed, loaded, pending, gen, innerGen, live, support>>
vars == <<resolverVars, tableVars>>

Init ==
  /\ TableInit
  /\ link \in Links
  /\ phase = "inputs"
  /\ inputs = link.inputs
  /\ todo = <<>>
  /\ atoms = <<>>
  /\ searchLibs = <<>>
  /\ options = {}
  /\ processed = {}
  /\ loaded = {}
  /\ pending = <<>>
  /\ gen = -1 /\ innerGen = -1
  /\ live = {}
  /\ support = <<>>

-----------------------------------------------------------------------------
(***************************************************************************)
(* What a library answers when a name is looked up in it.                  *)
(***************************************************************************)

Lib(l) == link.libs[l]
Members(l) == DOMAIN Lib(l).members
AllAtoms(l) == FlattenSeq([m \in Members(l) |-> Lib(l).members[m].atoms])

\* The elements of S in order, which std::set and std::sort give.
Sorted(S) ==
  [i \in 1 .. Cardinality(S) |-> CHOOSE x \in S : Cardinality({y \in S : y < x}) = i - 1]

\* An atom the linker makes up itself, with no file.
MadeAtom(n, definition) ==
  [key |-> n, ordinal |-> 0, path |-> 0, definition |-> definition,
   combine |-> "never", scope |-> "linkageUnit", size |-> 0, alignment |-> 0,
   isLTO |-> FALSE, autoHide |-> FALSE, machHeader |-> FALSE, refs |-> {},
   isData |-> TRUE, keep |-> FALSE, support |-> FALSE]
UndefinedProxyAtom(n) == MadeAtom(n, "proxy")
BoundaryAtom(n) == MadeAtom(n, "regular")

\* The proxy a dylib makes for a name it exports.  A search makes a new one each
\* time; where tells a dylib of the search list from the implicit ones.
ExportAtom(n, l, where, isWeak) ==
  [MadeAtom(n, "proxy") EXCEPT
     !.ordinal = IF where = "listed" THEN l ELSE 100 + l, !.path = l,
     !.combine = IF isWeak THEN "byName" ELSE "never"]

\* Atoms holds what the linker makes up besides what the files define.
ASSUME MadeAssumption ==
  /\ \A n \in Names : UndefinedProxyAtom(n) \in Atoms /\ BoundaryAtom(n) \in Atoms
  /\ \A k \in Links : \A l \in DOMAIN k.libs : k.libs[l].kind = "dylib" =>
       \A n \in k.libs[l].strong \cup k.libs[l].weak : \A w \in {"listed", "implicit"} :
         ExportAtom(n, l, w, n \in k.libs[l].weak) \in Atoms

\* An atom is an object of its own that one file makes once: a parser makes no
\* proxy and no atom that ld makes.  A number stands for one parsed file, and
\* the implicit libraries are dylibs.
FilesApart(k) ==
  LET Made(l, m) == k.libs[l].members[m].atoms
  IN  /\ IsInjective(k.inputs)
      /\ \A l \in k.implicit : k.libs[l].kind = "dylib"
      /\ \A l \in DOMAIN k.libs : \A m \in DOMAIN k.libs[l].members :
           /\ IsInjective(Made(l, m))
           /\ \A a \in Range(Made(l, m)) : a.definition # "proxy" /\ a # BoundaryAtom(a.key)
           /\ \A h \in DOMAIN k.libs : \A i \in DOMAIN k.libs[h].members :
                Range(Made(l, m)) \cap Range(Made(h, i)) # {} => l = h /\ m = i
ASSUME FilesAssumption == \A k \in Links : FilesApart(k)

\* The archive's table of contents: ranlib lists what a member defines, and of
\* several members the earliest is found (buildHashTable).
Defines(file, n) ==
  \E a \in Range(file.atoms) :
    a.key = n /\ ~Static(a) /\ a.definition # "tentative"
HasMember(l, n) == \E m \in Members(l) : Defines(Lib(l).members[m], n)
MemberFor(l, n) ==
  CHOOSE m \in Members(l) :
    /\ Defines(Lib(l).members[m], n)
    /\ \A k \in Members(l) : k < m => ~Defines(Lib(l).members[k], n)

\* CheckIsDataSymbolHandler
DefinesData(file, n) ==
  \E a \in Range(file.atoms) :
    a.key = n /\ a.isData /\ a.definition # "tentative"

\* archive: justInTimeforEachAtom and justInTimeDataOnlyforEachAtom load a
\* member; a member that is loaded already is no answer.
ArchiveAnswers(l, n, dataOnly) ==
  /\ Lib(l).kind = "archive" /\ ~Lib(l).force
  /\ HasMember(l, n)
  /\ <<l, MemberFor(l, n)>> \notin loaded
  /\ dataOnly => DefinesData(Lib(l).members[MemberFor(l, n)], n)

\* dylib: justInTimeforEachAtom
DylibAnswers(l, n) == Lib(l).kind = "dylib" /\ n \in Lib(l).strong \cup Lib(l).weak

\* The dylibs searched after the list: implicitly and not explicitly linked.
AutoLinkedDylibs ==
  {l \in Range(searchLibs) \ Range(link.inputs) : Lib(l).kind = "dylib"}
ImplicitDylibs == Sorted(link.implicit \cup AutoLinkedDylibs)

\* searchLibraries: the libraries in the order of the search, with the list
\* each is in; the first that answers ends it, unless its definition is weak.
SearchOrder(dylibs) ==
  [i \in DOMAIN searchLibs |-> <<searchLibs[i], "listed">>]
    \o IF dylibs
       THEN [i \in DOMAIN ImplicitDylibs |-> <<ImplicitDylibs[i], "implicit">>]
       ELSE <<>>
Answers(l, n, dylibs, archives, dataOnly) ==
  \/ dylibs /\ DylibAnswers(l, n)
  \/ archives /\ ArchiveAnswers(l, n, dataOnly)
Answerers(n, dylibs, archives, dataOnly) ==
  LET libs  == SearchOrder(dylibs)
      order == Only(libs, {e \in Range(libs) : Answers(e[1], n, dylibs, archives, dataOnly)})
      ends  == {i \in DOMAIN order : n \notin Lib(order[i][1]).weak}
  IN  IF ends = {} THEN order
      ELSE SubSeq(order, 1, CHOOSE i \in ends : \A j \in ends : i <= j)

\* addLinkerOptionLibraries: the libraries auto-linked for the first time that
\* can be found and are not loaded join the search list, in order of name.
AddLinkerOptionLibraries(opts) ==
  LET new    == opts \ processed
      usable == {l \in new \cap DOMAIN link.libs :
                   l \notin Range(searchLibs) \cup link.implicit}
  IN  /\ searchLibs' = searchLibs \o Sorted(usable)
      /\ processed' = processed \cup new

\* searchLibraries: the proxies and the archive member found for n are handed
\* to the resolver.  doFile of a member auto-links before its atoms come.
SearchLibraries(n, dylibs, archives, dataOnly) ==
  LET found   == Answerers(n, dylibs, archives, dataOnly)
      inArch  == {i \in DOMAIN found : Lib(found[i][1]).kind = "archive"}
      members == {<<found[i][1], MemberFor(found[i][1], n)>> : i \in inArch}
      given(e) == IF Lib(e[1]).kind = "archive"
                  THEN Lib(e[1]).members[MemberFor(e[1], n)].atoms
                  ELSE <<ExportAtom(n, e[1], e[2], n \in Lib(e[1]).weak)>>
  IN  /\ todo' = FlattenSeq([i \in DOMAIN found |-> given(found[i])])
      /\ loaded' = loaded \cup members
      /\ AddLinkerOptionLibraries(
           UNION {Lib(m[1]).members[m[2]].options : m \in members})

SkipSearch == UNCHANGED <<todo, loaded, searchLibs, processed>>

-----------------------------------------------------------------------------
(***************************************************************************)
(* Loading the initial files: forEachInitialAtom, after the parse.         *)
(***************************************************************************)

Idle == todo = <<>>

\* doAtom of the next atom a file hands over.
Deliver ==
  /\ ~Idle
  /\ phase # "failed"
  /\ DoAtom(Head(todo))
  /\ atoms' = Append(atoms, Head(todo))
  /\ todo' = Tail(todo)
  /\ phase' = IF thrown' THEN "failed" ELSE phase
  /\ UNCHANGED <<link, inputs, searchLibs, options, processed, loaded, pending,
                 gen, innerGen, live, support>>

\* The next file: an object or a forced archive hands over its atoms, and its
\* linker options are noted; a library joins the search list.
LoadInput ==
  /\ phase = "inputs" /\ Idle /\ inputs # <<>>
  /\ LET l == Head(inputs)
         all == Lib(l).kind = "object" \/ Lib(l).force
     IN  /\ todo' = IF all THEN AllAtoms(l) ELSE <<>>
         /\ options' = options \cup
              IF all THEN UNION {Lib(l).members[m].options : m \in Members(l)}
              ELSE {}
         /\ searchLibs' = IF Lib(l).kind = "object" THEN searchLibs
                          ELSE Append(searchLibs, l)
  /\ inputs' = Tail(inputs)
  /\ UNCHANGED <<link, phase, atoms, processed, loaded, pending, gen, innerGen,
                 live, support, tableVars>>

\* The end of forEachInitialAtom and buildAtomList, and addInitialUndefines.
CompleteInputs ==
  /\ phase = "inputs" /\ Idle /\ inputs = <<>>
  /\ AddLinkerOptionLibraries(options)
  /\ options' = {}
  /\ initialDone' = TRUE
  /\ slots' = slots \cup Range(link.undefs)
  /\ phase' = "outer"
  /\ UNCHANGED <<link, inputs, todo, atoms, loaded, pending, gen, innerGen,
                 live, support, binding, added, coalesced, dupErrors,
                 dupWarnings, thrown>>

-----------------------------------------------------------------------------
(***************************************************************************)
(* resolveAllUndefines.                                                    *)
(***************************************************************************)

\* Mutant of updateCount: only slots that are filled count.
boundCount == Cardinality({n \in Names : binding[n] # NULL})
\* indirectBindingTable().size(): every slot that was ever made counts.
updateCount == Cardinality(slots)
\* Mutant of HasName: the check is not repeated after a load.
NeverHasName(n) == FALSE
\* hasName, undefines and tentativeDefs of the table.
HasName(n) == binding[n] # NULL
Undefines == {n \in Names \cap slots : binding[n] = NULL}
IsTentative(n) == binding[n] # NULL /\ binding[n].definition = "tentative"
TentativeDefs == {n \in Names : IsTentative(n)}

otherVars == <<link, inputs, atoms, options, live, support>>

\* while ( undefineGenCount != updateCount() ), and what follows the loop: the
\* libraries of linker options are searched once more for what is undefined.
OuterTest ==
  /\ phase = "outer" /\ Idle
  /\ IF gen # updateCount
     THEN /\ innerGen' = -1
          /\ phase' = "inner"
          /\ UNCHANGED pending
     ELSE /\ phase' = "options"
          /\ pending' = IF processed = {} THEN <<>> ELSE Sorted(Undefines)
          /\ UNCHANGED innerGen
  /\ UNCHANGED <<otherVars, todo, searchLibs, processed, loaded, gen, tableVars>>

\* while ( innerUndefineGenCount != updateCount() ); then the commons.
InnerTest ==
  /\ phase = "inner" /\ Idle
  /\ IF innerGen # updateCount
     THEN /\ innerGen' = updateCount
          /\ pending' = Sorted(Undefines)
          /\ phase' = "pass"
          /\ UNCHANGED gen
     ELSE /\ gen' = innerGen
          /\ pending' = Sorted(TentativeDefs)
          /\ phase' = "tents"
          /\ UNCHANGED innerGen
  /\ UNCHANGED <<otherVars, todo, searchLibs, processed, loaded, tableVars>>

\* resolveCurrentUndefines, and the loop over the libraries of linker options:
\* a name that an earlier load has not defined meanwhile is searched for.  A
\* boundary symbol that is nowhere to be found is made in the first of them.
ResolveUndefine ==
  /\ phase \in {"pass", "options"} /\ Idle /\ pending # <<>>
  /\ LET n == Head(pending)
     IN  IF HasName(n) THEN SkipSearch
         ELSE IF /\ phase = "pass" /\ n \in BoundaryNames
                 /\ Answerers(n, TRUE, TRUE, FALSE) = <<>>
         THEN todo' = <<BoundaryAtom(n)>>
              /\ UNCHANGED <<loaded, searchLibs, processed>>
         ELSE SearchLibraries(n, TRUE, TRUE, FALSE)
  /\ pending' = Tail(pending)
  /\ UNCHANGED <<otherVars, phase, gen, innerGen, tableVars>>

\* Mutant of OverrideTentative: archives are not searched.
OverrideByDylib ==
  /\ phase = "tents" /\ Idle /\ pending # <<>>
  /\ IF IsTentative(Head(pending))
     THEN SearchLibraries(Head(pending), CommonsMode = "overriddenByDylibs",
                          FALSE, TRUE)
     ELSE SkipSearch
  /\ pending' = Tail(pending)
  /\ UNCHANGED <<otherVars, phase, gen, innerGen, tableVars>>

\* A common that is still one may be overridden by data in an archive, or by a
\* dylib if -commons says so.
OverrideTentative ==
  /\ phase = "tents" /\ Idle /\ pending # <<>>
  /\ IF IsTentative(Head(pending))
     THEN SearchLibraries(Head(pending), CommonsMode = "overriddenByDylibs",
                          TRUE, TRUE)
     ELSE SkipSearch
  /\ pending' = Tail(pending)
  /\ UNCHANGED <<otherVars, phase, gen, innerGen, tableVars>>

\* Mutant of EndLoop: the commons go back into the inner loop.
EndInInner ==
  /\ phase \in {"pass", "tents", "options"} /\ Idle /\ pending = <<>>
  /\ phase' = IF phase = "options" THEN "proxies" ELSE "inner"
  /\ UNCHANGED <<otherVars, todo, searchLibs, processed, loaded, pending, gen,
                 innerGen, tableVars>>

\* The end of one of the loops over names.
EndLoop ==
  /\ phase \in {"pass", "tents", "options"} /\ Idle /\ pending = <<>>
  /\ phase' = CASE phase = "pass" -> "inner"
                [] phase = "tents" -> "outer"
                [] phase = "options" -> "proxies"
  /\ UNCHANGED <<otherVars, todo, searchLibs, processed, loaded, pending, gen,
                 innerGen, tableVars>>

\* Proxies for what may stay undefined.  With -dead_strip, deadStripOptimize
\* begins: its roots are the entry point and the initial undefines.
MakeProxies ==
  /\ phase = "proxies" /\ Idle
  /\ LET names == Sorted(IF UndefinedError THEN Undefines \cap AllowedUndefines
                         ELSE Undefines)
     IN  todo' = [i \in DOMAIN names |-> UndefinedProxyAtom(names[i])]
  /\ phase' = IF DeadCodeStrip THEN "roots" ELSE "check"
  /\ pending' = IF ~DeadCodeStrip THEN <<>>
                ELSE (IF link.entry = NULL THEN <<>> ELSE <<link.entry>>)
                       \o link.undefs
  /\ UNCHANGED <<otherVars, searchLibs, processed, loaded, gen, innerGen,
                 tableVars>>

-----------------------------------------------------------------------------
(***************************************************************************)
(* deadStripOptimize.                                                      *)
(***************************************************************************)

\* What an atom's fixups are bound to.
Targets(a) ==
  ({binding[n] : n \in a.refs} \ {NULL})
    \cup {binding[t.key] : t \in ContentRefs[a]}
    \cup Direct[a] \cup Subordinates[a]

\* Mutant of MarkLive: no recursion.
MarkOneLevel(roots) == live' = live \cup roots \cup UNION {Targets(a) : a \in roots}

\* markLive of every root: recursion stops at an atom that is live already.
MarkLive(roots) ==
  LET reach[i \in 0 .. Cardinality(added)] ==
        IF i = 0 THEN roots \ live
        ELSE LET before == reach[i - 1]
             IN  before \cup (UNION {Targets(a) : a \in before} \ live)
  IN  live' = live \cup reach[Cardinality(added)]

\* forEachDeadStripRoot: a named root that is still undefined is searched for
\* in the archives.
SearchRoot ==
  /\ phase = "roots" /\ Idle /\ pending # <<>>
  /\ IF HasName(Head(pending)) THEN SkipSearch
     ELSE SearchLibraries(Head(pending), FALSE, TRUE, FALSE)
  /\ phase' = "mark"
  /\ UNCHANGED <<otherVars, pending, gen, innerGen, tableVars>>

\* entryPoint() throws if there is no entry point.
MarkRoot ==
  /\ phase = "mark" /\ Idle
  /\ LET root == binding[Head(pending)]
     IN  IF root # NULL THEN MarkLive({root}) /\ phase' = "roots"
         ELSE /\ phase' = IF Head(pending) = link.entry THEN "failed" ELSE "roots"
              /\ UNCHANGED live
  /\ pending' = Tail(pending)
  /\ UNCHANGED <<link, inputs, todo, atoms, searchLibs, options, processed,
                 loaded, gen, innerGen, support, tableVars>>

\* atomIsDeadStripRoot
IsRoot(a) == a.keep \/ (AllGlobalsAreRoots /\ a.scope = "global")

MarkKept ==
  /\ phase = "roots" /\ Idle /\ pending = <<>>
  /\ MarkLive({a \in Range(atoms) : a \notin coalesced /\ IsRoot(a)})
  /\ support' = Only(atoms, {a \in Range(atoms) \ coalesced : ~IsRoot(a) /\ a.support})
  /\ phase' = "support"
  /\ UNCHANGED <<link, inputs, todo, atoms, searchLibs, options, processed,
                 loaded, pending, gen, innerGen, tableVars>>

\* atomHasLiveRef
HasLiveRef(a) == Targets(a) \cap live # {}

\* An atom that must be live if it refers to something live.
MarkSupport ==
  /\ phase = "support" /\ support # <<>>
  /\ IF HasLiveRef(Head(support)) THEN MarkLive({Head(support)})
     ELSE UNCHANGED live
  /\ support' = Tail(support)
  /\ UNCHANGED <<link, phase, inputs, todo, atoms, searchLibs, options,
                 processed, loaded, pending, gen, innerGen, tableVars>>

StripDead ==
  /\ phase = "support" /\ support = <<>>
  /\ atoms' = Only(atoms, {a \in Range(atoms) : a \in live \/ a.keep})
  /\ phase' = "check"
  /\ UNCHANGED <<link, inputs, todo, searchLibs, options, processed, loaded,
                 pending, gen, innerGen, live, support, tableVars>>

-----------------------------------------------------------------------------
(***************************************************************************)
(* The checks at the end.                                                  *)
(***************************************************************************)

\* Mutant of UnresolvableUndefines: only the initial undefines are checked.
InitialUndefinesOnly == {n \in Range(link.undefs) : binding[n] = NULL}

\* With -dead_strip only what live atoms refer to counts (liveUndefines).
UnresolvableUndefines ==
  IF ~DeadCodeStrip THEN Undefines
  ELSE {n \in Names : binding[n] = NULL /\
          \/ \E a \in Range(atoms) : a \in live /\ n \in a.refs
          \/ n \in Range(link.undefs)}

CheckUndefines ==
  /\ phase = "check" /\ Idle
  /\ IF UnresolvableUndefines # {} /\ UndefinedError
     THEN phase' = "failed" /\ UNCHANGED pending
     ELSE /\ phase' = "collide"
          /\ pending' = Sorted({n \in TentativeDefs : binding[n].scope = "global"})
  /\ UNCHANGED <<otherVars, todo, searchLibs, processed, loaded, gen, innerGen,
                 tableVars>>

\* checkDylibSymbolCollisions: a dylib that exports a common's name.
CheckCollision ==
  /\ phase = "collide" /\ Idle /\ pending # <<>>
  /\ IF IsTentative(Head(pending))
     THEN SearchLibraries(Head(pending), TRUE, FALSE, FALSE) ELSE SkipSearch
  /\ pending' = Tail(pending)
  /\ UNCHANGED <<otherVars, phase, gen, innerGen, tableVars>>

\* Mutant of DuplicateFound: a pair of definitions is not enough.
ThreeDuplicates == \E n \in Names : Cardinality(dupErrors[n]) > 2

\* checkDuplicateSymbols: with -dead_strip a duplicate is an error only if one
\* of the listed atoms is live.
DuplicateFound ==
  \E n \in Names : /\ dupErrors[n] # {}
                   /\ DeadCodeStrip => dupErrors[n] \cap live # {}

\* Mutant of Finish: coalesced atoms stay in the output.
FinishWithAll ==
  /\ phase = "collide" /\ Idle /\ pending = <<>>
  /\ phase' = IF DuplicateFound THEN "failed" ELSE "done"
  /\ UNCHANGED <<link, inputs, todo, atoms, searchLibs, options, processed,
                 loaded, pending, gen, innerGen, live, support, tableVars>>
\* removeCoalescedAwayAtoms, then checkDuplicateSymbols.
Finish ==
  /\ phase = "collide" /\ Idle /\ pending = <<>>
  /\ atoms' = Only(atoms, Range(atoms) \ coalesced)
  /\ phase' = IF DuplicateFound THEN "failed" ELSE "done"
  /\ UNCHANGED <<link, inputs, todo, searchLibs, options, processed, loaded,
                 pending, gen, innerGen, live, support, tableVars>>

Terminated == phase \in {"done", "failed"} /\ UNCHANGED vars

Step ==
  \/ Deliver \/ LoadInput \/ CompleteInputs
  \/ OuterTest \/ InnerTest \/ ResolveUndefine \/ OverrideTentative \/ EndLoop
  \/ MakeProxies \/ SearchRoot \/ MarkRoot \/ MarkKept \/ MarkSupport
  \/ StripDead \/ CheckUndefines \/ CheckCollision \/ Finish

Next == Step \/ Terminated

\* resolve() is one thread that keeps running.
Spec == Init /\ [][Next]_vars /\ WF_vars(Step)

-----------------------------------------------------------------------------
(***************************************************************************)
(* Properties.                                                             *)
(***************************************************************************)

\* "load for previous undefine may also have loaded this undefine, so check
\* again" (resolveCurrentUndefines): a member of an archive is loaded only for
\* a name that is referred to and that nothing loaded before it in the same
\* pass defines, or to override a common.
OnlyNeededMembers ==
  [][\A m \in loaded' \ loaded :
       \E n \in Names \cap slots :
         /\ Defines(Lib(m[1]).members[m[2]], n)
         /\ binding[n] = NULL \/ IsTentative(n)]_vars

\* "keep resolving undefines and tentative overrides until no more undefines
\* were added in last loop", then "use linker options to resolve any remaining
\* undefined symbols" (resolveAllUndefines): when it is done with the
\* libraries, none of them defines a name that is still undefined.
Complete ==
  phase = "proxies" => \A n \in Undefines : Answerers(n, TRUE, TRUE, FALSE) = <<>>

\* "need to search archives for overrides of common symbols": when the search
\* is over, no archive has data that would override a common that is left.
CommonsOverridden ==
  phase = "proxies" =>
    \A n \in TentativeDefs :
      Answerers(n, CommonsMode = "overriddenByDylibs", TRUE, TRUE) = <<>>

\* The output is closed: whatever an atom of the output refers to is bound (a
\* link with -undefined error has no unbound name left) to an atom that is in
\* the output too, after coalescing and stripping.  A late load breaks it when
\* the member that is loaded for one root binds what an atom marked for an
\* earlier root refers to: "mark all roots as live, and all atoms they
\* reference" does not mark that atom again.
OutputClosed ==
  phase = "done" =>
    \A a \in Range(atoms) :
      /\ Targets(a) \subseteq Range(atoms)
      /\ UndefinedError => \A n \in a.refs : binding[n] # NULL

\* The output holds one atom of a name, and no atom twice.
OneDefinition ==
  phase = "done" =>
    \A i, j \in DOMAIN atoms :
      /\ atoms[i] = atoms[j] => i = j
      /\ ~Static(atoms[i]) /\ ~Static(atoms[j]) /\ atoms[i].key = atoms[j].key
           => i = j

\* A link without -dead_strip that succeeds has met no name with two strong
\* definitions, in whatever files they were and whenever these were loaded.
NoSilentDuplicate ==
  phase = "done" /\ ~DeadCodeStrip =>
    \A n \in Names : \A a, b \in AtomsOf(n) : AreDuplicates(a, b) => a = b

\* resolve() ends.
Ends == <>(phase \in {"done", "failed"})

=============================================================================
