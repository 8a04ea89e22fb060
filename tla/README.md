# A verification project for cctools-port

This directory holds TLA+ models of the linker ld64 and of the assembler's layout,
as ported in `src/cctools`. Of ld64 (`src/cctools/ld64`): how it parses its input
files in parallel, how its symbol table decides between definitions of one name,
how its resolver loads, strips and checks the atoms of a link, and how it makes
the symbol table, the rebase and bind opcodes and the export trie of an image. Of
the assembler (`src/cctools/as`): how it finds the sizes and addresses of the frags
of a section. TLC checks the models on small instances; TLAPS proves the central
invariants of two of them for all values of their constants. All source paths below
are under `src/cctools/ld64/src/ld/` unless they begin with `src/`.

## 1. Inventory

The repository is a port of two Apple packages. cctools is a set of sequential
tools (`as`, `ar`, `libtool`, `lipo`, `nm`, `strip`, `otool`, ...), each of which
reads files, rewrites them in memory and writes files. ld64 is the linker, and the
only part with lasting shared state, threads and an algorithm whose result depends
on the order of events, so most of the project is about it. Of the sequential tools
the assembler has the hardest algorithm, a fixed point over addresses.

| Component | State | Operations | Interacts with |
|---|---|---|---|
| Input parsing, `InputFiles.cpp` | `_inputFiles` (one slot per file), `readyToParse`, the counters of `InputFiles.h:128-137`, one mutex and two condition variables, or `firstError` | constructor, `parseWorkerThread`, `waitForInputFiles`, `forEachInitialAtom` | parsers (calls `makeFile`), a build system (the fifo), the resolver (consumes slots in order) |
| Name collisions, `SymbolTable.cpp:195-429` | none (a decision) | `pickAtom` and its helpers | the symbol table |
| Symbol table, `SymbolTable.cpp` | indirect binding table, tables by name, content and references, lists of duplicates; the atoms' `coalescedAway` flag | `add`, `findSlotFor...`, `markCoalescedAway`, `undefines`, `tentativeDefs`, `checkDuplicateSymbols` | the resolver's `doAtom`; every fixup is bound to a slot |
| Resolver, `Resolver.cpp` | `_atoms`, `_completedInitialObjectFiles`, the atoms' `live` flag | `resolve()`: build the atom list, resolve undefines, dead strip, check | the symbol table; calls `searchLibraries`, which calls back `doFile` and `doAtom` |
| Library search, `InputFiles.cpp` | `_searchLibraries`, `_installPathToDylibs`, processed and unprocessed linker options | `searchLibraries`, `addLinkerOptionLibraries`, `createIndirectDylibs` | archives and dylibs; called back from `doFile` while a search is under way |
| Archives and dylibs, `parsers/archive_file.cpp`, `parsers/generic_dylib_file.cpp` | which members are loaded; which exports were provided | `justInTimeforEachAtom`, `justInTimeDataOnlyforEachAtom`, forced `forEachAtom` | the resolver through `AtomHandler` |
| Object parser, stubs, LTO | decoded files | `parse` | run concurrently by input parsing |
| Symbol table of the output, `OutputFile.cpp`, `LinkEditClassic.hpp` | the atoms' scope, inclusion and index; lists of local, exported and imported atoms; the debug notes | `synthesizeDebugNotes` and `partitionSymbolTable` at the same time, `assignSymbolIndexes`, encoders at the same time | blocks of one dispatch queue that share the atoms |
| Rebase and bind opcodes, `LinkEdit.hpp` | a vector of opcodes rewritten in place | a first loop over the fixups and three or four optimization phases | read by dyld, `otool`, `machochecker` |
| Export trie, `src/cctools/ld64/src/mach_o/ExportsTrie.cpp` | nodes with offsets, a byte stream | `addEntry`, `updateOffset` until nothing changes, `appendToStream`; `parseTrie` and `prune_trie` | the linker builds it, `strip` and `nmedit` rebuild it |
| Assembler layout, `src/cctools/as/layout.c` with `i386.c` and `arm.c` | sections of frags with type, fixed size, state and address | `relax_section` until nothing stretches, `layout_addresses` until nothing changes, conversion to bytes | symbols of frags in all sections |
| Passes and the rest of the output | atoms in sections, addresses | one function each, in sequence | after the resolver |
| cctools tools, libstuff, libmacho | none beyond one run | sequential file rewriting | files |

What is hard in this code, and to test: the interleavings of parse threads, listener and
resolver (lost wakeups, a cursor that moves both ways, a failure in the middle); an unlocked
test-and-set; the order in which definitions meet, which depends on archives and auto-linked
libraries; loops that run until a table stops growing while callbacks change what they
iterate over; roots that load more atoms while liveness is being marked; two blocks of a
queue of which one reads what the other writes; sizes that depend on addresses that depend
on the sizes; opcodes rewritten by phases that no longer see the addresses. Section
"hazards" of `PROJECT.json` lists each one at its line with the properties that would notice
it going wrong.

What makes each component correct:

* input parsing: each file is parsed once, failures are never lost, the resolver
  gets the files in command-line order, and every link ends;
* symbol table: an atom is bound or removed, never both or neither; the definition
  kept does not depend on luck; duplicates do not go unnoticed;
* resolver: the search finds what can be found, loads nothing that is not needed,
  and ends; the output is closed under references and has one atom of a name;
* output: a symbol index is the place of that symbol; the debug notes do not depend
  on the schedule; opcodes and trie decode to what was encoded;
* assembler: the layout ends, and with the final addresses every frag is as long as
  what is written for it, short branches reach, alignments and origins hold.

## 2. Modules

| Module | Models |
|---|---|
| `InputOrder` | abstract specification of what input parsing promises the resolver |
| `ParsePool` | the pthread parser of `InputFiles.cpp` with the pipeline listener |
| `DispatchParse` | the `dispatch_apply` parser of `InputFiles.cpp` |
| `NameCollision` | class `NameCollisionResolution`, as operators |
| `SymbolTable` | `SymbolTable` and `Resolver::doAtom`; EXTENDS `NameCollision` |
| `Resolver` | `Resolver::resolve` with library search, archives, dylibs and auto-linking; EXTENDS `SymbolTable`, so that every atom goes through the same `DoAtom` |
| `LinkEdit` | `buildLINKEDITContent`: debug notes, symbol table, indirect symbols, relocations |
| `DyldInfo` | the encoders of rebase and bind opcodes and their decoder |
| `ExportTrie` | building, writing, reading and pruning the export trie |
| `Relax` | `layout_addresses` and `relax_section` of the assembler |
| `MCParsePool`, `MCSymbolTable`, `MCResolver`, `MCLinkEdit`, `MCDyldInfo`, `MCExportTrie`, `MCRelax` | instances for TLC |
| `Lists` | the filter of a list, which tlapm can reason about (it knows nothing of `SelectSeq`) |
| `ParsePoolProofs`, `DispatchParseProofs`, `ResolverProofs`, `LinkEditProofs`, `DyldInfoProofs`, `ExportTrieProofs`, `RelaxProofs` | theorems about the modules of these names; `ResolverProofs` begins with those on `SymbolTable` |
| `ProofLemmas` | lemmas on sequences, filters, concatenations and recursive functions that several proofs use |

Every definition that models code is listed under "map" of `PROJECT.json` with its
lines. A definition whose comment begins with "Mutant of" is a deliberately wrong
variant of the one it names; nothing uses it except the mutation runs listed under
"mutants", which put it in place of the right one and expect a violation.

### ParsePool

`InputFiles.h` defines `HAVE_PTHREADS` and `InputFiles.cpp` defines
`HAVE_LIBDISPATCH`, so this source compiles the pool's functions, while its
constructor takes the branch that `DispatchParse` models; the pool is what runs
when `HAVE_LIBDISPATCH` is 0, and `forEachInitialAtom` still follows its protocol.

A variable stands for each field of `InputFiles` that threads share, under the
field's name without its underscore. `parseLock` is the holder of `_parseLock`. A
worker's program counter `wpc` is "top" and "test" where it holds the lock,
"parsing" in `makeFile`, "waiting" in `pthread_cond_wait` and "woken" when the wait
has been signalled and must get the lock again. A critical section that neither
waits nor unlocks is one action. A signal wakes any one waiting thread, and
`SpuriousWakeup` lets a wait return without one, as POSIX allows. `makeFile` ends
normally (`WorkerStore` with "File"), with a message that makes the linker ignore
the file ("Ignored"), or with another one (`WorkerFail`). The listener announces any
file that it still maps (`Announce`) or fails in one of its four ways
(`ListenerFail`). The resolver throws holding the lock (`MainThrow`), as the code
does. When the process exits every thread stops (`Running`).

### DispatchParse

One process per slot, at most `Width` at once, begun in order. The test of
`firstError` and the `asprintf` into it are separate actions, because the block
takes no lock. `produced` is the set of files that exist: with a pipelined build
some are written only later, and `makeFile` fails on one that is not there.

### NameCollision and SymbolTable

An atom is a record of the attributes that decide. `Chosen` gives the set of
outcomes: {"A"} or {"B"}; {} where `pickAtom` throws; and {"A","B"} where it leaves
`_chosen` unassigned, so that the table's properties hold whatever the
uninitialized comparison gives. Equality of contents and of references is an
equivalence on atoms, given by the atom's `key`. `BindReferences` models that
`findSlotForContent` stores the referenced atom when it makes the slot, before the
atom itself is added. `slots` records which keys have a slot, since the number of
slots (`updateCount`) is what the resolver's loops watch. `Subordinates` is closed
under recursion, as `markCoalescedAway` is.

`TableSpec` drives the table with any atoms in any order, more than the linker
does; a file hands over each atom once and defines a name once.

### Resolver

A link (the files, their members, atoms and auto-link options) is chosen in `Init`.
`phase` is the place in `resolve()`; `todo` holds the atoms a file is still handing
over, and `Deliver` feeds them to `DoAtom` one by one; `pending` is the snapshot of
names the current loop walks. The counters `gen` and `innerGen` are
`undefineGenCount` and `innerUndefineGenCount`. `SearchLibraries` is the whole of
`searchLibraries`, with the auto-linking that `doFile` of a loaded member does
before its atoms arrive.

`markLive` is a recursive function bounded by the number of atoms. Names and
libraries are numbers in the order of `strcmp`, because the code sorts them.

### LinkEdit

A link (options, files, atoms in the order of the sections) is chosen in `Init`. In
phase 1 `CollectNote`/`EmitNote` and `PartitionAtom` interleave atom by atom, because
the two blocks take no lock: both go over the same atoms, the notes read `scope` and
`incl` (`_symbolTableInclusion`), the partition sets them. `Placed` follows the loop
body of `partitionSymbolTable`, one line for each place where the body ends early.
Phase 2 is one action. In phase 3 the block that encodes the symbol table and the
indirect symbol table and the block that makes relocations run in either order; what
they write is kept as pairs of a target and the index written, so that it can be
compared with the table. A stab is its type and its atom. `opts.arch` is x86_64 for the
machines that make an external relocation for all that has a symbol, and i386 or arm for
the others; `Forced` are the relocations these two make external without asking, a branch
between ARM and Thumb and a reference to a thread local. `Referenced` is what a kext with
an export list keeps of its imports.

### DyldInfo

`EncodeFixup` is one iteration of the first loop; each phase reads opcodes at `src` and
appends to `out`, which stands for the part of the vector below `dst`. The rebase and the
bind encoder share the actions, with `input.kind` where they differ. Addresses are unsigned
and wrap at `Modulus`, which matters because the rebase encoder resets the expected address
to 0 and then subtracts it. Binds are sorted as `operator<` does, weak imports of a symbol
before the others, so addresses go back within a symbol that is imported both ways; SET_SYM
carries the flags and is written only for a new name. The decoder is a function of the
opcodes, so that the invariants hold of the vector after every single iteration. `bad` is
the complaint of `checkSegAndOffset` in `src/cctools/otool/dyld_bind_info.c`.
`InputsAssumption` says what the layout guarantees of an image: segments do not overlap and
end below the modulus, every fixup lies inside one, and two fixups of one library, symbol,
type and address are the same.

### ExportTrie

`round` 1 is the linker, `round` 2 is `prune_trie`, which reads what round 1 wrote,
leaves out any set of exports and builds the trie again with the same actions. `at`
is the node whose `addEntry` runs. Names are sequences of letters, a letter standing
for `Width` characters, so that a trie of a few names is long enough for offsets of
two bytes. The stream is kept node by node with the position each was written at; a
reader follows the offsets written in the edges, not the node numbers. One action,
`UpdateOffset`, is one call on one node, which sees new offsets of the nodes before it
and old ones of the nodes after it, as in the code. `ExportsAssumption` says that an image
exports finitely many atoms, each with a name of its own that is not empty.

### Relax

A unit (sections, frags, directives) is chosen in `Init`. Every frag of every pass is
one step. `fr_state` stands for the field that holds the size of the variable part.
The first guess (`Guess...`) and the passes (`Relax...`) have one action for each case
of the two switches; `Grow` is the end of the second. `stretch` is what the passes
carry from frag to frag, and targets ahead are corrected by it as the code does, in
its own way for i386 and for ARM. `arm` selects the machine: the assemblers are built
separately.

## 3. Runs

| Run | Checks | Shows |
|---|---|---|
| `pool` | TypeOK, ScanFindsWork, RemainingCounts, ParsedOnce, NoMissedWakeup, NoLostWork, ImplementsInputOrder, MainEnds | 4 files, 2 through the fifo, 2 workers, with fairness |
| `dispatch` | ErrorReported, MainEnds, ImplementsInputOrder | 4 files, 3 at once, 2 of them still being built |
| `table_names` | BoundOrCoalesced, StrongWins, BestWeak, LargestCommon, DuplicatesListed | all kinds of definitions of one name, 3 files, two with one path |
| `resolve_plain` | Complete, CommonsOverridden, OutputClosed, OneDefinition, NoSilentDuplicate, OnlyNeededMembers | links of an object, two archives (one perhaps forced) and a dylib in three arrangements |
| `resolve_strip` | OutputClosed, GroupsFollow, Ends | -dead_strip with kept, supporting and grouped atoms, auto-linking and a late root |
| `resolve_late` | OutputClosed, violated | a member loaded for a late root defines what an earlier root refers to |
| `relax` | BytesFillTheFrags, BranchesReach, AlignmentKept, OrgReached, LayoutEnds | i386 and Thumb units of four relaxable frags, and leb128 differences in text and data |
| `dyld_info` | SameFixups, InsideSegments | all sets of rebases at 11 pointers of 3 segments, long runs and gaps, binds at 5 pointers, weak and not |
| `dyld_info_touching` | InsideSegments, violated | binds of one symbol across two segments that touch |
| `export_trie` | EveryExportFound, EdgesTellApart, WrittenAtOffset, PrunedFits, TrieEnds | up to 6 of 8 names that share prefixes, re-exports and resolvers, every way of pruning |
| `link_edit` | NotesAsIfAlone, IndexIsPosition, NoIndexMissing | dylibs, kexts and object files (x86_64, i386, arm) of two atoms of any kind and one that refers to them |
| `link_edit_strip` | NotesOfSymbols, violated | a dylib linked with -x |

The runs expected to be violated each contradict a comment or a message of the code,
quoted in "findings" of `PROJECT.json`. `dyld_info_touching`: the bind encoder lacks the reset at the end of a
segment that the rebase encoder has, so that a bind at the start of a touching segment
is written as an offset past the end of the segment before it. dyld, which only adds,
makes the right fixup as long as the segments are mapped next to each other; the
repository's own reader rejects the offset. `link_edit_strip`: with -x whether a local
symbol has debug notes depends on which of two concurrent blocks gets to it first.
`resolve_late`: `forEachDeadStripRoot` marks a root before it loads a member for the next
one; what that member binds for an atom already marked is bound, not live, and stripped, so
`OutputClosed` holds only of links without such a member (`resolve_strip` has a late root
whose member binds nothing else).

Bounds. In the pool a wakeup can be lost with two workers, a listener and a
resolver, and four files let the cursor be moved back over a file that is being
parsed and one that is done; larger pools are covered by the proofs. In the table
three definitions are needed for a choice to be overturned and then restored, and for
a duplicate whose first definition was replaced; the paths of two files coincide so
that the list of duplicates has to tell an atom from its path. A link needs a chain of
two archive members to make a second round, a weak dylib export to make a search go
on, and a common, a data member and a code member of one name to tell the two searches
apart. In `relax` the fixed parts are chosen so that each short form just reaches,
just does not, or stops reaching when another frag grows; four relaxable frags let one
that grows push another over its limit, which pushes the first. A one-byte section
before the text takes it off its alignment, and leb128s of text labels in another
section need a later layout pass. In `dyld_info` runs of 14, 15 and 16 pointers and gaps
of 14 to 16 are on both sides of the immediate forms, and three equal gaps in a row
make a skip of each kind. In `export_trie` the letter width 20 puts the length of the
tries on both sides of 128, where an offset takes a second byte. In `link_edit` three
atoms of two files give each list of the partition two members and each task an atom
that the other has passed and one that it has not; on arm the caller is ARM or Thumb code
and its target a proxy or ARM code with or without a label.
`CHECK_DEADLOCK FALSE` is used only for the table, which may receive no more atoms;
the other specifications have an explicit terminated step, so deadlock is checked.

Fairness. Each thread of the pool keeps running and, when the mutex is free again
and again, gets it (strong fairness per thread; weak fairness would let spurious
wakeups of one thread starve another). The listener's fairness includes that the
writer of the fifo writes another line or closes it: a build system that does
neither stalls the link by design. `dispatch_apply` runs every iteration. The
resolver, the assembler's layout and the trie are each one thread that is never blocked
(weak fairness). `DyldInfo` and `LinkEdit` have safety properties only and no fairness.

## 4. Proofs

**`ParsePool`.** For any number of files, any finite set of workers, any file list and any paths
(`PoolAssumption`), `ParsePoolProofs` shows that the pool satisfies each invariant
of the run `pool` and implements `InputOrder`. The properties are not inductive:
`ScanFindsWork` needs that `_availableInputFiles` is exactly the number of queued
slots, which needs that no queued slot is parsed or awaited from the fifo, and that
none lies before the cursor; `NoLostWork` needs that a worker goes to sleep only
when nothing is queued and that idle workers are counted right while a woken one
has not yet got the lock. The inductive invariant `IInv` is the conjunction of
these facts; there is one lemma per action that it is preserved, with one step per
conjunct the action can disturb. The refinement maps the filled slots to `parsed`
and the resolver's index to `consumed`.

**`SymbolTable`.** For any set of atoms that satisfies `AtomsAssumption`, `ResolverProofs` shows
each property of `table_names`, and the type of the table, of every behaviour of the
table. `TInv` adds to the type of the table and to `BoundOrCoalesced` that a bound atom was added or is a
literal some fixup refers to, that a name without atoms is unbound, and what is
known of literals that lost their slot. The lemma `NameStep` reduces a step to what
it does to one name (nothing, a first atom, or a collision that keeps an atom
`Chosen` allows), after which each theorem is a small argument about the order of
preference: strong over all but absolute definitions (`StrongKept`), larger over
smaller commons (`LargerKept`), and a strict weak order on weak definitions
(`WeakKept`).

`GroupsFollowLeader` adds `GroupsMarked`: a marked atom takes its group along, and a
static atom is marked only with a leader. The theorem is about groups in which unwind
information and LSDA have one leader the table knows (`OneLeader`); the parser makes an
FDE the subordinate of the one function it describes, but nothing in the table depends
on it.

**`DispatchParse`**, for any number of files and any width of `dispatch_apply`. The
invariant says that an iteration is done when its slot is filled, that once a failed
iteration is past its test of `firstError` the pointer is set or about to be set by it,
and that what it points at is the message of a file that failed; `ErrorsReported` follows because the main thread reads it after the last
iteration, and `NeverStuck` (the counters and the condition variable that this branch
does not serve are never waited for) and the refinement because every slot is filled by
then.

**`Resolver`**, for all links that satisfy the assumptions of the module. `RInv` says
that the lists have their types and a name to be looked at has a slot, that what a name
is bound to was added, that a strong definition of a name whose list of duplicates is
empty is what the name is bound to, and where each phase stands. `MembersNeeded` is the action property
that a member is loaded only when it is needed. `DuplicatesFail` is stated for links in
which nothing else has the name of a mach header's atom (`HeadersApart`), because
`pickBetweenRegularAtoms` prefers that atom without a report. `SearchComplete` needs
`SearchInv`: if the table has as many slots as when a loop began, a name that is still
undefined has no library that answers for it, or the loop has not come to it, or its
definition was found and is being handed over. It is stated for links without linker options
(`processed = {}`): the loop over the auto-linked libraries goes over the names once
(`Resolver.cpp:1019-1030`). `OneOfAName` has no hypothesis. Its invariant `OInv` says
that the files handed over are all different, that an atom handed over is not one the
resolver has already (except a dylib's proxy that lost its name and is made again, with
the same contents), and that an atom with a name is the one the name is bound to or is marked
coalesced. It rests on `FilesAssumption`: every parsed file allocates its own
atoms, so no atom comes from two files or twice from one, and no parser makes a proxy or
an atom that stands for a section boundary.

**`LinkEdit`**, for all links of atoms that the parser and the resolver can make
(`LinksAssumption`) and every interleaving of the tasks. `LInv` says that the three
lists hold different atoms, that what the partition has passed and must be in the table
is in a list, and after phase 2 that an index is the place in the concatenation of the
lists. `IndexesArePositions` has no hypothesis. `NoneMissing` has one, `NamesInTable`:
an atom that is found by its name was not left out of the symbol table by the parser. The
parser leaves out a global whose name begins with `l` or `L`
(`parsers/macho_relocatable_file.cpp:3681-3687`), and a reference to it by index then
throws. What remains is the exception in `NoIndexMissing` itself, a relocation that is
forced to name code without a label (section 5). `NotesUndisturbed` rests on a second invariant, `NInv`, for links that keep
their local symbols: what `Notable` and `Symbol` read of an atom is what they would have
read before the partition, the atoms emitted precede those that are not, and the
notes so far are those of the atoms emitted. Its hypothesis `UnitsApart` excludes that two
files have the same translation unit path without a slash, where the notes of the second
file depend on whether an atom of the first had any.

**`DyldInfo`**, for any image that satisfies `InputsAssumption`. `FixupsDecoded` says that
after every single iteration the opcodes, those written followed by those left to read,
decode to what the first loop has reached: the places, symbols, types and addends are
exactly those asked for, and the flags of a fixup are those of some fixup of its symbol,
which is all that holds when a symbol is imported both ways (section 5). `Inv` adds to it that the opcodes can be read
(each has operands of its kind, no repeated fixup has a negative count) and, for the first
loop, that its variables `address`, `segment`, `type` and so on are what a reader has after
the last fixup: the encoder leaves an opcode out when it believes that the reader knows,
so the two must agree. Arithmetic is modulo the size of an address throughout. Decoding is
a fold over the list of opcodes, so that it can be cut at any place (`RunDecoded`, `Rewritten`);
for each rewriting there is a lemma that the opcodes taken out and those put in have the
same effect on a reader that comes to that place. `MeaningKept` is the action
property that no step after the first loop changes what is decoded. `FixupsInside` has the hypothesis that no fixup of a bind is right
behind the end of a segment, because in that case it is false (`dyld_info_touching`).

**`ExportTrie`**, for any exports: `IInv` describes the passes of `updateOffset` (the
nodes a pass has left are chained by their sizes; if it changed nothing, all are) and of
the writer (the stream ends where the current node begins). `NodesWrittenAtOffset` is the
assertion of `appendToStream`; `OffsetsLeadToNodes` says that a reader never starts in
the middle of a node. What the trie says rests on a second invariant, `TInv`. `addEntry`
makes an empty edge, or reports a duplicate, when a name ends at a node that is there
already, so `EdgesApart` is true only because a name that begins others is added before
them: `TInv` has that the entries left come after those in the trie, in the order of
`strcmp`, that every node leads on to an entry, and that entries stand in `nodes` in the
order of their names. The last part is what the second round needs: strip adds in the
order of the old offsets, which rise with the place in `nodes` (`PlacesSorted`), so they
are in the order of the names too. `ExportsFound` then reads the stream: the
recursion of the reader is unfolded step by step, and that what it reaches is what the
nodes hold is shown by a least counterexample in either direction. `NoDuplicateSymbol` is
the promise to `addEntry` itself.

**`Relax`**, for any sections and frags: in a pass the frags before the current one are
chained by their new sizes, those after it by their old ones, with `stretch` the
difference; a pass that stretched nothing has met frags whose states the addresses call
for; a section laid out in an earlier pass is a chain without a gap; and a section slides
as a whole. `FragsFilled` is stated for a `.leb128` of two symbols of one section that is
laid out with it or before it (`LebsKnown`, what the passes of `layout.c:227-230` are
there for), `ShortBranchesReach` for an `adr` of a symbol of its own section, aligned to
four (`AdrsAligned`; the check of that in `relax_adr` is under `NOTYET`). `OrgsArrive` has
an invariant of its own, `OInv`: in a pass over a section in which nothing shrinks
`stretch` is never negative, so the targets of `.org`s only rise, and what follows an
`.org`, which the pass compares with where it was before, is never beyond both the fixed
part and the target. Alignments do not break it (`AlignGrows`: a padding that is given up
as too long has been passed over). Its hypothesis `OrgsPlain` says that a section with an
`.org` has no `.leb128` and no Thumb instruction to relax, which may shrink, and that its
`.org`s name addresses of the section, as `s_org` requires. Without the first it is false
(section 5).

`ProofLemmas` has what these proofs share. A recursive function is introduced by
`Iterated`, and what it computes is shown by taking the least index at which the claim
fails, which needs no induction theorem.

Only model-checked:

* liveness (`MainEnds`, `Ends`, `LayoutEnds`, `TrieEnds`), which the prover does not
  handle;
* `PrunedFits` of `ExportTrie`, which compares the sizes of two tries and needs sums over
  their nodes;
* `OutputClosed` of the resolver, which is not true of all links (`resolve_late`), and
  without `-dead_strip` needs that a proxy made again never wins, that
  the atoms a fixup names directly are of the same file and not coalesced, with it what
  the fixpoint of `MarkLive` reaches;
* `CommonsOverridden`, which is not true of all links: while the commons are overridden a
  member that is loaded may bring a tentative definition of a name bound to a dylib's
  proxy, and with `-commons ignore_dylibs` the name gets no new slot, so no loop comes
  back to it;
* `AlignmentKept`, which fails where a `.leb128` moves a `.p2align n,,max` over its
  maximum after the first guess.

## 5. Not modelled

* In the resolver: link time optimization and everything that depends on it,
  helper symbols of lazy binding, `_objc_msgSend$` stubs, command-line aliases,
  export lists, `-r`, implicit atoms such as `___dso_handle`, `-ObjC` archive loading,
  `-force_load_swift_libs`, `tweakWeakness`, the reports of `checkUndefines`.
* In library search: install names, client restrictions, frameworks as distinct
  from libraries; indirect dylibs are a constant of a link.
* `makeFile` is one step: the data it shares (statistics, `fTAPIFiles`) is left out.
* Ordinals are unbounded and made atoms have ordinal 0.
* In the output: addresses and segments, application of fixups, lazy and weak binding,
  chained and threaded fixups, split-seg, function starts, data in code; of the debug
  notes N_AST, N_SOL, the values of stabs and the paths of object files; of the indirect
  table stubs and lazy pointers; relocations of kexts; flat namespaces. The packing of
  opcodes and operands into bytes is left out, the choice of the immediate forms is not.
* In the assembler: parsing, encoders, `rs_dwarf2dbg` frags, `-no_cond_jump_promotion`,
  `adr` to another section (`relaxed_symbol_addr` corrects by `stretch` only in the section
  of the frag, where the code asks for `relax_marker` alone), what padding is filled with,
  the writer.
* The decoding of byte formats into atoms (parsers), the passes, and the other cctools
  tools: sequential encoders, decoders and printers over hundreds of thousands of lines
  (instruction tables, Mach-O structure printers, byte swapping) with no state that
  outlives one file. Most of the repository is of this kind, which is why the share of
  its lines the map names is small.

Behaviours the models have and no property forbids that are worth knowing:

* A worker can be in `makeFile` when the resolver's one-second sleep ends and the
  process exits; a worker that starts after a failed parse still parses one file,
  because the loop's condition comes last.
* In a pipelined link with one path twice in the file list, `fileMap` holds one entry
  for two slots (`InputFiles.cpp:1265`): the other slot is never announced and the
  resolver waits for ever. `MainEnds` is checked for distinct paths.
* A library auto-linked by the last member loaded makes no new slot, so the loop ends
  and the library gets a single pass (`Resolver.cpp:1019`): a name first referred to in
  that pass stays undefined although an archive defines it. `Complete` is checked for
  links without auto-linking.
* Live-support atoms are visited once in load order (`Resolver.cpp:1359`): one that
  refers to a later one that becomes live in the same pass is stripped.
* A weak alt_entry atom that loses takes the atom it is an entry of with it, because the
  parser makes that atom its group subordinate
  (`parsers/macho_relocatable_file.cpp:9067`); this is why `BoundOrCoalesced` leaves out
  the atoms that depend on another.
* An `.org` to an address already passed on the first guess takes no room and gives no
  warning; one that is passed because frags before it grow later overlaps what follows,
  with a warning (`src/cctools/as/layout.c:353`).
* An `.org` to a symbol behind a `.leb128` that shrinks again stays where it was: in a
  section that consists of `b: .uleb128 e-b`, `.uleb128 e-a`, `c: .org c+5`, `a:` and 127
  bytes, `.p2align 3`, `e:`, the label `a` ends up 6 bytes behind `c`, because
  `relax_section` compares the target with the address the last pass left
  (`src/cctools/as/layout.c:1228`).
* With two strong definitions and duplicates as errors `pickBetweenRegularAtoms` leaves
  `_chosen` unassigned (`SymbolTable.cpp:296`) and `addByName` reads it, although a comment
  above it calls the compiler's warning a false positive. The properties hold for either
  value.
* In an arm object file a branch between ARM and Thumb is made an external relocation
  whatever its target (`OutputFile.cpp:6687-6699`). Code without a label is an atom that is
  never in the symbol table (`parsers/macho_relocatable_file.cpp:5962-5968`), so the linker
  stops with "atom is missing a symbolIndex". `NoIndexMissing` says that this is the only
  way to that error, and the links of `link_edit` have it.
* Two references to a dylib's symbol may differ in weak_import. `operator<` sorts the weak
  ones first (`OutputFile.h:138-139`) and `encodeV1` writes the flags only with a new name
  (`LinkEdit.hpp:497`), so all of them are bound weakly; the manual page
  (`doc/man/man1/ld-classic.1:777`) says of a mismatch "The default is non-weak.", which the
  linker applies to the symbol table's entry only. `SameFixups` asks of the flags that some
  reference to the symbol has them.
* A leb128 may shrink as well as grow and nothing freezes it (`src/cctools/as/layout.c:1323`):
  `b: .uleb128 b-e+129`, `e:` needs two bytes when it has one and one when it has two, and the
  passes of `relax_section` do not end. The units of `relax`, of which `LayoutEnds` is checked,
  have no leb128 that falls as it grows.
* A translation unit path without a slash costs the first atom of its file its debug
  notes, and the others follow without SO and OSO (`OutputFile.cpp:7731`).

## 6. Plan

1. Done: input parsing (both branches) with its abstract specification; name
   collisions and symbol table; the resolver; theorems on the pool and the table; the
   symbol table of the output with its concurrent phases; rebase and bind opcodes; the
   export trie and its pruning; the layout of the assembler.
2. Proofs. Done: `DispatchParse`, the layout of `Relax`, `ExportTrie` but for the
   size of a pruned trie, `LinkEdit`, `DyldInfo`, and of `Resolver` the search, the
   duplicates and `OneDefinition`. Left: `OutputClosed` of links
   without `-dead_strip`.
3. Ordinals with their 16-bit fields (`ld.hpp`), as operators checked against the
   order they stand for, and made atoms without a file.
4. Indirect dylibs: `createIndirectDylibs`, re-exports and implicit linking, which
   the resolver takes as a constant today.
5. `-ObjC` archive loading, and aliases with `removeUnusedAliases`.
6. The shared side effects of concurrent `makeFile` (`fTAPIFiles`).
7. Stubs and lazy pointers in `LinkEdit`, the object paths of its debug notes, and the
   layout order and branch island passes.
