----------------------------- MODULE ExportTrie -----------------------------
(***************************************************************************)
(* The export trie of an image: ExportInfoAtom::encode of LinkEdit.hpp     *)
(* collects the exports, GenericTrie of mach_o/ExportsTrie.cpp builds the  *)
(* trie, gives its nodes offsets and writes it, parseTrie of MachOTrie.hpp *)
(* reads it, and prune_trie of PruneTrie.cpp, which strip calls, reads it, *)
(* leaves exports out, builds it again and puts it where the old one was.  *)
(*                                                                         *)
(* A name is a sequence of letters, a letter standing for Width characters *)
(* of which the first tells it from every other letter.  The offset of a   *)
(* child is written as a uleb128, whose length depends on the offset,      *)
(* which depends on the lengths of all uleb128s before it.                 *)
(***************************************************************************)
EXTENDS Integers, SequencesExt

CONSTANTS
  Width,        \* the characters a letter stands for
  Images        \* [atoms, ptr]: the exported atoms and sizeof(pint_t)

ASSUME WidthAssumption == Width \in Nat \ {0}

\* A name ends at a zero and so has none inside.
Strings == Seq(Nat \ {0})

\* Exported atoms have names, each its own.
ASSUME ExportsAssumption ==
  \A i \in Images :
    /\ IsFiniteSet(i.atoms)
    /\ \A a \in i.atoms : /\ a.name \in Strings \ {<<>>} /\ a.aliasOf \in Strings
                         /\ a.kind \in {"regular", "resolver", "proxy"}
    /\ \A a, b \in i.atoms : a.name = b.name => a = b

VARIABLES
  image,        \* the image linked
  round,        \* who builds the trie: 1 the linker, 2 strip
  wanted,       \* the exports it is built for
  todo,         \* the ones not added yet, with their place in the old trie
  entry, at,    \* the entry being added and the node whose addEntry runs, 0 for none
  nodes,        \* allNodes
  pc, cur,      \* the loop, and its place in nodes
  curOffset, more,
  stream,       \* what is written, by position
  size,         \* how many bytes are written
  oldSize       \* trie_start_size: the room strip has for its trie

vars == <<image, round, wanted, todo, entry, at, nodes, pc, cur, curOffset, more,
          stream, size, oldSize>>

NoEntry == [name |-> <<>>, kind |-> "none", offset |-> 0, other |-> 0, import |-> <<>>]

----------------------------------------------------------------------------
(* What is exported.                                                       *)

\* ExportInfoAtom::encode leaves out a proxy whose dylib is re-exported as a
\* whole; a resolver function is exported at its stub.
Exports(atoms) ==
  {[name |-> a.name,
    kind |-> IF a.kind = "proxy" THEN "reexport" ELSE a.kind,
    offset |-> IF a.kind = "proxy" THEN 0 ELSE IF a.kind = "resolver" THEN a.stub ELSE a.address,
    other |-> CASE a.kind = "proxy" -> a.ordinal [] a.kind = "resolver" -> a.address [] OTHER -> 0,
    import |-> a.aliasOf] : a \in {b \in atoms : ~(b.kind = "proxy" /\ b.reExported)}}

uleb128_size(n) == 1 + Cardinality({k \in 1..4 : n >= 128^k})

\* exportToEntry: the flags and two or three numbers, or a number and a
\* string for a re-export.  A re-export under its own name has no string.
Payload(e) ==
  LET import == IF e.import = e.name THEN <<>> ELSE e.import
  IN  CASE e.kind = "reexport" -> 1 + uleb128_size(e.other) + Width * Len(import) + 1
        [] e.kind = "resolver" -> 1 + uleb128_size(e.offset) + uleb128_size(e.other)
        [] OTHER               -> 1 + uleb128_size(e.offset)

\* What a reader gets of an entry.
Encoded(e) == [e EXCEPT !.import = IF @ = e.name THEN <<>> ELSE @]

----------------------------------------------------------------------------
(* addEntry.                                                               *)

DropFirst(s, n) == SubSeq(s, n + 1, Len(s))

\* The order of strcmp.
NameLess(s, t) ==
  \/ s # t /\ IsPrefix(s, t)
  \/ \E k \in 1..Len(s) : k <= Len(t) /\ s[k] < t[k] /\ SubSeq(s, 1, k - 1) = SubSeq(t, 1, k - 1)

\* Mutant of Sooner: the linker does not sort its exports.
SoonerUnsorted(x, y) == IF round = 1 THEN NameLess(y.export.name, x.export.name)
                                     ELSE x.place < y.place

\* The linker adds the exports sorted by name; parseTrie, "to preserve tie
\* layout order", sorts what it finds by the place in the old trie.
Sooner(x, y) == IF round = 1 THEN NameLess(x.export.name, y.export.name) ELSE x.place < y.place

NewNode(s) == [cummulativeString |-> s, children |-> <<>>, terminalEntry |-> NoEntry,
               trieOffset |-> 0]
Edge(s, n) == [partialString |-> s, child |-> n]

NextEntry ==
  /\ pc = "add" /\ at = 0 /\ todo # {}
  /\ LET next == CHOOSE x \in todo : \A y \in todo \ {x} : Sooner(x, y)
     IN  entry' = next.export /\ todo' = todo \ {next}
  /\ at' = 1
  /\ UNCHANGED <<image, round, wanted, nodes, pc, cur, curOffset, more, stream, size, oldSize>>

\* What is left of the name at this node, and its first character: the zero
\* that ends it when nothing is left.
Tail1 == DropFirst(entry.name, Len(nodes[at].cummulativeString))
First(s) == IF s = <<>> THEN 0 ELSE s[1]

\* The first edge that starts with the same character.
Alike == {i \in DOMAIN nodes[at].children : First(nodes[at].children[i].partialString) = First(Tail1)}
TheEdge == CHOOSE i \in Alike : \A j \in Alike : i <= j

\* "already have matching edge, go down that path"
Descend ==
  /\ pc = "add" /\ at # 0 /\ Alike # {}
  /\ LET e == nodes[at].children[TheEdge]
     IN  IsPrefix(e.partialString, Tail1) /\ at' = e.child
  /\ UNCHANGED <<image, round, wanted, todo, entry, nodes, pc, cur, curOffset, more, stream,
                 size, oldSize>>

\* Mutant of Splice: the edge to the old node keeps its whole string.
SpliceWhole ==
  /\ pc = "add" /\ at # 0 /\ Alike # {}
  /\ LET e   == nodes[at].children[TheEdge]
         len == CHOOSE n \in 1..(Len(e.partialString) - 1) :
                  /\ IsPrefix(SubSeq(e.partialString, 1, n), Tail1)
                  /\ ~IsPrefix(SubSeq(e.partialString, 1, n + 1), Tail1)
         c   == Len(nodes) + 1
         cut == [NewNode(SubSeq(entry.name, 1, Len(nodes[at].cummulativeString) + len))
                   EXCEPT !.children = <<Edge(e.partialString, e.child)>>]
     IN  /\ ~IsPrefix(e.partialString, Tail1)
         /\ nodes' = Append([nodes EXCEPT ![at].children[TheEdge] =
                               Edge(SubSeq(e.partialString, 1, len), c)], cut)
         /\ at' = c
  /\ UNCHANGED <<image, round, wanted, todo, entry, pc, cur, curOffset, more, stream, size, oldSize>>

\* "was: A--foo-->B, now: A--f-->C--oo-->B", with the longest common prefix.
Splice ==
  /\ pc = "add" /\ at # 0 /\ Alike # {}
  /\ LET e   == nodes[at].children[TheEdge]
         len == CHOOSE n \in 1..(Len(e.partialString) - 1) :
                  /\ IsPrefix(SubSeq(e.partialString, 1, n), Tail1)
                  /\ ~IsPrefix(SubSeq(e.partialString, 1, n + 1), Tail1)
         c   == Len(nodes) + 1
         cut == [NewNode(SubSeq(entry.name, 1, Len(nodes[at].cummulativeString) + len))
                   EXCEPT !.children = <<Edge(DropFirst(e.partialString, len), e.child)>>]
     IN  /\ ~IsPrefix(e.partialString, Tail1)
         /\ nodes' = Append([nodes EXCEPT ![at].children[TheEdge] =
                               Edge(SubSeq(e.partialString, 1, len), c)], cut)
         /\ at' = c
  /\ UNCHANGED <<image, round, wanted, todo, entry, pc, cur, curOffset, more, stream, size, oldSize>>

\* "no commonality with any existing child, make a new edge that is this
\* whole string".  The "duplicate symbol" error is a deadlock of the model:
\* the names exported are distinct.
AddEdge ==
  /\ pc = "add" /\ at # 0 /\ Alike = {}
  /\ ~(Tail1 = <<>> /\ nodes[at].terminalEntry # NoEntry)
  /\ LET n == Len(nodes) + 1
     IN  nodes' = Append([nodes EXCEPT ![at].children = Append(@, Edge(Tail1, n))],
                         [NewNode(entry.name) EXCEPT !.terminalEntry = entry])
  /\ at' = 0 /\ entry' = NoEntry
  /\ UNCHANGED <<image, round, wanted, todo, pc, cur, curOffset, more, stream, size, oldSize>>

AllAdded ==
  /\ pc = "add" /\ at = 0 /\ todo = {}
  /\ pc' = "offsets" /\ cur' = 1 /\ curOffset' = 0 /\ more' = FALSE
  /\ UNCHANGED <<image, round, wanted, todo, entry, at, nodes, stream, size, oldSize>>

----------------------------------------------------------------------------
(* Offsets and the stream.                                                 *)

\* The bytes of a node when its children are at their offsets in all.
NodeBytes(all, n) ==
  LET own == IF n.terminalEntry = NoEntry THEN 1
             ELSE Payload(n.terminalEntry) + uleb128_size(Payload(n.terminalEntry))
      len[i \in 0..Len(n.children)] ==
        IF i = 0 THEN 0
        ELSE len[i-1] + Width * Len(n.children[i].partialString) + 1
               + uleb128_size(all[n.children[i].child].trieOffset)
  IN  own + 1 + len[Len(n.children)]

\* Mutant of UpdateOffset: "changed" is said of an offset that is not.
UpdateOffsetAlways ==
  /\ pc = "offsets" /\ cur \in DOMAIN nodes
  /\ more' = (more \/ nodes[cur].trieOffset <= curOffset)
  /\ nodes' = [nodes EXCEPT ![cur].trieOffset = curOffset]
  /\ curOffset' = curOffset + NodeBytes(nodes, nodes[cur])
  /\ cur' = cur + 1
  /\ UNCHANGED <<image, round, wanted, todo, entry, at, pc, stream, size, oldSize>>

\* updateOffset of one node.
UpdateOffset ==
  /\ pc = "offsets" /\ cur \in DOMAIN nodes
  /\ more' = (more \/ nodes[cur].trieOffset # curOffset)
  /\ nodes' = [nodes EXCEPT ![cur].trieOffset = curOffset]
  /\ curOffset' = curOffset + NodeBytes(nodes, nodes[cur])
  /\ cur' = cur + 1
  /\ UNCHANGED <<image, round, wanted, todo, entry, at, pc, stream, size, oldSize>>

\* Mutant of EndOffsets: the offsets are assigned once.
EndOffsetsOnce ==
  /\ pc = "offsets" /\ cur \notin DOMAIN nodes
  /\ cur' = 1 /\ curOffset' = 0 /\ more' = FALSE
  /\ pc' = "write"
  /\ UNCHANGED <<image, round, wanted, todo, entry, at, nodes, stream, size, oldSize>>

\* while (more)
EndOffsets ==
  /\ pc = "offsets" /\ cur \notin DOMAIN nodes
  /\ cur' = 1 /\ curOffset' = 0 /\ more' = FALSE
  /\ pc' = IF more THEN "offsets" ELSE "write"
  /\ UNCHANGED <<image, round, wanted, todo, entry, at, nodes, stream, size, oldSize>>

\* appendToStream of one node.
AppendToStream ==
  /\ pc = "write" /\ cur \in DOMAIN nodes
  /\ LET n == nodes[cur]
     IN  /\ stream' = Append(stream,
              [place |-> size, export |-> Encoded(n.terminalEntry),
               children |-> {[string |-> e.partialString, place |-> nodes[e.child].trieOffset] :
                               e \in {n.children[i] : i \in DOMAIN n.children}}])
         /\ size' = size + NodeBytes(nodes, n)
  /\ cur' = cur + 1
  /\ UNCHANGED <<image, round, wanted, todo, entry, at, nodes, pc, curOffset, more, oldSize>>

RoundUp(n, m) == n + ((-n) % m)

\* "pad to be 8-btye aligned"; the linker then adds nine bytes for every
\* export in __DATA and aligns to a pointer.
EndStream ==
  /\ pc = "write" /\ cur \notin DOMAIN nodes
  /\ LET room == 9 * Cardinality({a \in image.atoms : a.data /\ ~(a.kind = "proxy" /\ a.reExported)})
     IN  size' = IF round = 1 THEN RoundUp(RoundUp(size, 8) + room, image.ptr)
                              ELSE RoundUp(size, 8)
  /\ pc' = "built"
  /\ UNCHANGED <<image, round, wanted, todo, entry, at, nodes, cur, curOffset, more, stream, oldSize>>

----------------------------------------------------------------------------
(* Reading and pruning.                                                    *)

Written(p) == {n \in {stream[i] : i \in DOMAIN stream} : n.place = p}

\* processExportNode: every node that can be reached from the first one, with
\* the string read on the way.
Reached ==
  LET step[k \in 0..Len(stream)] ==
        IF k = 0 THEN {[place |-> 0, name |-> <<>>]}
        ELSE UNION {UNION {{[place |-> c.place, name |-> x.name \o c.string] : c \in n.children} :
                             n \in Written(x.place)} : x \in step[k-1]}
  IN  UNION {step[k] : k \in 0..Len(stream)}

\* The entries, each with the name that leads to it.
parseTrie ==
  UNION {{[export |-> [n.export EXCEPT !.name = x.name], place |-> n.place] :
            n \in {m \in Written(x.place) : m.export # NoEntry}} : x \in Reached}

\* prune_trie when the exports P are pruned: "early return when none of the
\* exports were pruned".
Prune ==
  /\ pc = "built" /\ round = 1
  /\ \E P \in SUBSET parseTrie :
       IF P = {}
       THEN pc' = "done" /\ UNCHANGED <<round, wanted, todo, nodes, cur, stream, size, oldSize>>
       ELSE /\ todo' = parseTrie \ P /\ wanted' = {x.export : x \in todo'}
            /\ nodes' = <<NewNode(<<>>)>> /\ stream' = <<>> /\ size' = 0 /\ oldSize' = size
            /\ pc' = "add" /\ round' = 2 /\ cur' = 1
  /\ UNCHANGED <<image, entry, at, curOffset, more>>

\* Mutant of TriePadding: padding is added to a trie that is aligned.
TriePaddingAlways == LET align == IF oldSize % 8 # 0 THEN 4 ELSE 8
                     IN  align - (size % align)

\* "if the incoming trie was not 8-byte aligned, then it can't be a 64-bit
\* arch, so use 4-byte alignement"
TriePadding == LET align == IF oldSize % 8 # 0 THEN 4 ELSE 8
               IN  IF size % align # 0 THEN align - (size % align) ELSE 0

\* The rest of prune_trie: "copy into place, zero pad", or "new trie is
\* larger (%d) than original (%d)".
CopyIntoPlace ==
  /\ pc = "built" /\ round = 2
  /\ size' = size + TriePadding
  /\ pc' = IF size' > oldSize THEN "larger" ELSE "done"
  /\ UNCHANGED <<image, round, wanted, todo, entry, at, nodes, cur, curOffset, more, stream, oldSize>>

Done == pc \in {"done", "larger"} /\ UNCHANGED vars

----------------------------------------------------------------------------
Init ==
  /\ image \in Images
  /\ round = 1 /\ wanted = {Encoded(e) : e \in Exports(image.atoms)}
  /\ todo = {[export |-> e, place |-> 0] : e \in Exports(image.atoms)}
  /\ entry = NoEntry /\ at = 0 /\ nodes = <<NewNode(<<>>)>>
  /\ pc = "add" /\ cur = 1 /\ curOffset = 0 /\ more = FALSE
  /\ stream = <<>> /\ size = 0 /\ oldSize = 0

Build == NextEntry \/ Descend \/ Splice \/ AddEdge \/ AllAdded
           \/ UpdateOffset \/ EndOffsets \/ AppendToStream \/ EndStream
Next == Build \/ Prune \/ CopyIntoPlace \/ Done

Spec == Init /\ [][Next]_vars /\ WF_vars(Build \/ Prune \/ CopyIntoPlace)

----------------------------------------------------------------------------
(* Properties.                                                             *)

TypeOK ==
  /\ pc \in {"add", "offsets", "write", "built", "done", "larger"} /\ round \in 1..2
  /\ at \in 0..Len(nodes) /\ cur \in 1..(Len(nodes) + 1)
  /\ \A i \in DOMAIN nodes : \A j \in DOMAIN nodes[i].children :
       nodes[i].children[j].child \in 2..Len(nodes)
  /\ size \in Nat /\ oldSize \in Nat /\ curOffset \in Nat

\* The trie says what was exported: reading it gives every export under its
\* own name, with what was said of it, and nothing else, after any splicing
\* and after exports have been pruned and the rest added again.
EveryExportFound == pc = "built" => {x.export : x \in parseTrie} = wanted

\* "quick check if first char of edge matches": no two edges of a node start
\* alike and none is empty, so that a reader that follows the first edge that
\* matches finds every name.  A name added after one it is a prefix of would
\* get an empty edge.
EdgesTellApart ==
  \A i \in DOMAIN nodes : \A j, k \in DOMAIN nodes[i].children :
    LET s == nodes[i].children[j].partialString
        t == nodes[i].children[k].partialString
    IN  s # <<>> /\ (j # k => First(s) # First(t))

\* "malformed trie node, computed node offset doesn't match buffer position":
\* every node is written at the offset its parent was told, though the
\* lengths of the offsets depend on the offsets.
WrittenAtOffset == pc = "write" /\ cur \in DOMAIN nodes => nodes[cur].trieOffset = size

\* "new trie is larger (%d) than original (%d)": what strip leaves always fits
\* where the linker's trie was, though the nodes come in another order.
PrunedFits == pc # "larger"

\* "iterating until all uleb128 sizes have stabilized"
TrieEnds == <>(pc = "done")
=============================================================================
