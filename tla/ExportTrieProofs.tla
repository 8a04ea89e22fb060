-------------------------- MODULE ExportTrieProofs --------------------------
(***************************************************************************)
(* Proofs about the export trie, for any exports, any names and any choice *)
(* of exports that strip prunes: the loop of GenericTrie that repeats      *)
(* updateOffset until nothing changes leaves offsets at which the nodes    *)
(* are really written, and no offset that is written dangles; addEntry     *)
(* keeps the edges of a node apart, and a reader of the trie finds every   *)
(* export and nothing else.                                                *)
(***************************************************************************)
EXTENDS ExportTrie, ProofLemmas, TLAPS

\* A node has its four fields, and its edges lead to other nodes than the root
\* in a vector of n nodes.
NodeOK(x, n) ==
  /\ x = [cummulativeString |-> x.cummulativeString, children |-> x.children,
          terminalEntry |-> x.terminalEntry, trieOffset |-> x.trieOffset]
  /\ IsSeq(x.children)
  /\ \A j \in DOMAIN x.children :
       /\ x.children[j] = Edge(x.children[j].partialString, x.children[j].child)
       /\ x.children[j].child \in 2 .. n

\* allNodes, and the node whose addEntry runs.
Nodes ==
  /\ IsSeq(nodes) /\ nodes # <<>>
  /\ \A i \in DOMAIN nodes : NodeOK(nodes[i], Len(nodes))
  /\ at \in 0 .. Len(nodes) /\ (pc # "add" => at = 0)
  /\ pc \in {"add", "offsets", "write", "built", "done", "larger"}
  /\ cur \in 1 .. Len(nodes) + 1

\* The first k nodes of N have offsets that follow each other.
Chained(N, k) ==
  /\ k > 0 => N[1].trieOffset = 0
  /\ \A i \in 1 .. k - 1 : N[i + 1].trieOffset = N[i].trieOffset + NodeBytes(N, N[i])

\* Where the node after the first k of N begins.
EndOf(N, k) == IF k = 0 THEN 0 ELSE N[k].trieOffset + NodeBytes(N, N[k])

\* A pass of updateOffset that has changed nothing has met offsets that follow
\* each other.  The size of a node depends on the offsets of all its children,
\* so nothing can be said of a pass that has changed an offset.
Passes ==
  pc = "offsets" /\ ~more =>
    Chained(nodes, cur - 1) /\ curOffset = EndOf(nodes, cur - 1)

\* appendToStream has written the nodes before cur, each at its offset.
Writing ==
  /\ IsSeq(stream)
  /\ pc \in {"add", "offsets"} => stream = <<>> /\ size = 0
  /\ pc = "write" =>
       /\ Chained(nodes, Len(nodes)) /\ size = EndOf(nodes, cur - 1)
       /\ Len(stream) = cur - 1
  /\ pc = "built" => Len(stream) = Len(nodes)
  /\ pc \in {"write", "built"} => \A i \in DOMAIN stream :
       /\ stream[i].place = nodes[i].trieOffset
       /\ \A c \in stream[i].children :
            \E j \in DOMAIN nodes : c.place = nodes[j].trieOffset

IInv == Nodes /\ Passes /\ Writing

-----------------------------------------------------------------------------
(***************************************************************************)
(* The steps of the builder.                                               *)
(***************************************************************************)

\* A trie has its root before anything is added.
LEMMA RootOnly ==
  /\ IsSeq(<<NewNode(<<>>)>>) /\ <<NewNode(<<>>)>> # <<>> /\ Len(<<NewNode(<<>>)>>) = 1
  /\ \A i \in DOMAIN <<NewNode(<<>>)>> : NodeOK(<<NewNode(<<>>)>>[i], 1)
<1>1. IsSeq(<<NewNode(<<>>)>>) /\ IsSeq(<<>>)
  <2>1. <<NewNode(<<>>)>> \in Seq({NewNode(<<>>)}) /\ <<>> \in Seq({})
    OBVIOUS
  <2> QED BY <2>1, SeqIs
<1>2. <<>> = NewNode(<<>>).children /\ DOMAIN <<>> = {}
  BY DEF NewNode
<1>3. NodeOK(NewNode(<<>>), 1)
  BY <1>1, <1>2 DEF NodeOK, NewNode
<1> QED BY <1>1, <1>3

\* The builder starts with the root.
LEMMA InitInv == Init => IInv
<1> SUFFICES ASSUME Init PROVE IInv
  OBVIOUS
<1>1. Nodes
  BY RootOnly DEF Init, Nodes
<1>2. IsSeq(<<>>)
  <2>1. <<>> \in Seq({})
    OBVIOUS
  <2> QED BY <2>1, SeqIs
<1>3. Passes /\ Writing
  BY <1>2 DEF Init, Passes, Writing
<1> QED BY <1>1, <1>3 DEF IInv

\* The first matching edge is an edge of the node.
LEMMA TheEdgeIs ==
  ASSUME Nodes, at # 0, Alike # {}
  PROVE  TheEdge \in DOMAIN nodes[at].children
<1>1. Alike \subseteq DOMAIN nodes[at].children
  BY DEF Alike
<1>2. at \in DOMAIN nodes
  BY SeqLen DEF Nodes
<1>3. Alike \subseteq Nat
  <2>1. IsSeq(nodes[at].children)
    BY <1>2 DEF Nodes, NodeOK
  <2>2. DOMAIN nodes[at].children \subseteq Nat
    BY <2>1, SeqLen
  <2> QED BY <1>1, <2>2
<1>4. PICK k \in Alike : \A j \in Alike : k <= j
  BY <1>3, LeastNat
<1>6. TheEdge \in Alike
  BY <1>4 DEF TheEdge
<1> QED BY <1>1, <1>6

\* A step that leaves the nodes alone while entries are added.
LEMMA AddingInv ==
  ASSUME IInv, pc = "add", UNCHANGED <<nodes, pc, cur, stream, size>>, at' \in 0 .. Len(nodes)
  PROVE  IInv'
BY DEF IInv, Nodes, Passes, Writing

\* addEntry of the next export starts at the root.
LEMMA NextEntryInv ==
  ASSUME IInv, NextEntry
  PROVE  IInv'
<1>1. at' \in 0 .. Len(nodes)
  BY SeqLen DEF IInv, Nodes, NextEntry
<1> QED BY <1>1, AddingInv DEF NextEntry

\* It goes down to a node that exists.
LEMMA DescendInv ==
  ASSUME IInv, Descend
  PROVE  IInv'
<1>1. TheEdge \in DOMAIN nodes[at].children /\ at \in DOMAIN nodes
  BY TheEdgeIs, SeqLen DEF IInv, Nodes, Descend
<1>2. at' = nodes[at].children[TheEdge].child
  BY DEF Descend
<1>3. at' \in 2 .. Len(nodes)
  BY <1>1, <1>2 DEF IInv, Nodes, NodeOK
<1>4. Len(nodes) \in Nat
  BY SeqLen DEF IInv, Nodes
<1> QED BY <1>3, <1>4, AddingInv DEF Descend

\* Nodes stay well formed when one gets other edges and another is added.
LEMMA GrowNodes ==
  ASSUME Nodes, NEW k \in DOMAIN nodes, NEW x, NEW N, NEW cut,
         IsSeq(N), Len(N) = Len(nodes),
         \A i \in DOMAIN nodes : N[i] = IF i = k THEN x ELSE nodes[i],
         NodeOK(x, Len(nodes) + 1), NodeOK(cut, Len(nodes) + 1),
         nodes' = Append(N, cut),
         at' \in 0 .. Len(nodes) + 1, pc = "add", UNCHANGED <<pc, cur>>
  PROVE  Nodes'
<1>1. IsSeq(nodes) /\ Len(nodes) \in Nat /\ DOMAIN nodes = 1 .. Len(nodes)
  BY SeqLen DEF Nodes
<1>2. /\ IsSeq(nodes') /\ Len(nodes') = Len(nodes) + 1
      /\ \A i \in 1 .. Len(nodes) : nodes'[i] = N[i]
      /\ nodes'[Len(nodes) + 1] = cut
  BY SeqAppend
<1>3. DOMAIN nodes' = 1 .. Len(nodes) + 1 /\ nodes' # <<>>
  BY <1>1, <1>2, SeqLen
<1>4. \A i \in DOMAIN nodes : NodeOK(nodes[i], Len(nodes) + 1)
  BY <1>1 DEF NodeOK, Nodes
<1>5. \A i \in DOMAIN nodes' : NodeOK(nodes'[i], Len(nodes'))
  BY <1>1, <1>2, <1>3, <1>4
<1>6. cur' \in 1 .. Len(nodes') + 1
  BY <1>1, <1>2 DEF Nodes
<1> QED BY <1>2, <1>3, <1>5, <1>6 DEF Nodes

\* A node with other edges is well formed when they are.
LEMMA OtherEdges ==
  ASSUME Nodes, NEW k \in DOMAIN nodes, NEW edges, IsSeq(edges),
         \A j \in DOMAIN edges :
           /\ edges[j] = Edge(edges[j].partialString, edges[j].child)
           /\ edges[j].child \in 2 .. Len(nodes) + 1
  PROVE  LET N == [nodes EXCEPT ![k].children = edges]
             x == [nodes[k] EXCEPT !.children = edges]
         IN  /\ IsSeq(N) /\ Len(N) = Len(nodes)
             /\ \A i \in DOMAIN nodes : N[i] = IF i = k THEN x ELSE nodes[i]
             /\ NodeOK(x, Len(nodes) + 1)
<1> DEFINE N == [nodes EXCEPT ![k].children = edges]
           x == [nodes[k] EXCEPT !.children = edges]
<1>1. IsSeq(nodes) /\ NodeOK(nodes[k], Len(nodes))
  BY DEF Nodes
<1>2. DOMAIN N = DOMAIN nodes /\ N = [i \in DOMAIN nodes |-> N[i]]
  OBVIOUS
<1>3. \A i \in DOMAIN nodes : N[i] = IF i = k THEN x ELSE nodes[i]
  OBVIOUS
<1>4. x = [cummulativeString |-> nodes[k].cummulativeString, children |-> edges,
           terminalEntry |-> nodes[k].terminalEntry, trieOffset |-> nodes[k].trieOffset]
  BY <1>1 DEF NodeOK
<1>5. NodeOK(x, Len(nodes) + 1)
  BY <1>4 DEF NodeOK
<1> HIDE DEF N, x
<1>6. IsSeq(N) /\ Len(N) = Len(nodes)
  BY <1>1, <1>2, SeqExcept
<1> QED BY <1>3, <1>5, <1>6 DEF N, x

\* The new node of a splice leads to the old one, and the edge to it.
LEMMA SpliceInv ==
  ASSUME IInv, Splice
  PROVE  IInv'
<1>1. TheEdge \in DOMAIN nodes[at].children /\ at \in DOMAIN nodes
  <2>1. Nodes /\ at # 0 /\ Alike # {}
    BY Zenon DEF IInv, Splice
  <2>2. TheEdge \in DOMAIN nodes[at].children
    BY <2>1, TheEdgeIs
  <2>3. at \in DOMAIN nodes
    BY <2>1, SeqLen DEF Nodes
  <2> QED BY <2>2, <2>3
<1> DEFINE k == TheEdge
           c == Len(nodes) + 1
           Cut(s, t) == [NewNode(s) EXCEPT !.children = <<Edge(t, nodes[at].children[k].child)>>]
<1>2. PICK s, t, u :
        /\ nodes' = Append([nodes EXCEPT ![at].children[k] = Edge(u, c)], Cut(s, t))
        /\ at' = c
  BY Zenon DEF Splice
<1> DEFINE edges == [nodes[at].children EXCEPT ![k] = Edge(u, c)]
<1>3. Len(nodes) \in Nat /\ NodeOK(nodes[at], Len(nodes)) /\ pc = "add"
  BY <1>1, SeqLen DEF IInv, Nodes, Splice
<1>4. IsSeq(edges) /\ DOMAIN edges = DOMAIN nodes[at].children
  <2>1. IsSeq(nodes[at].children)
    BY <1>3 DEF NodeOK
  <2>2. DOMAIN edges = DOMAIN nodes[at].children
        /\ edges = [i \in DOMAIN nodes[at].children |-> edges[i]]
    OBVIOUS
  <2> QED BY <2>1, <2>2, SeqExcept
<1>5. \A j \in DOMAIN edges :
        edges[j] = Edge(edges[j].partialString, edges[j].child)
        /\ edges[j].child \in 2 .. c
  <2> TAKE j \in DOMAIN edges
  <2>1. CASE j = k
    <3>1. edges[j] = Edge(u, c)
      BY <1>1, <2>1
    <3>2. c \in 2 .. c
      BY <1>1, <1>3, SeqLen DEF IInv, Nodes
    <3> QED BY <3>1, <3>2 DEF Edge
  <2>2. CASE j # k
    <3>1. edges[j] = nodes[at].children[j] /\ j \in DOMAIN nodes[at].children
      BY <1>4, <2>2
    <3> QED BY <1>3, <3>1 DEF NodeOK
  <2> QED BY <2>1, <2>2
<1>6. nodes[at].children[k].child \in 2 .. c
  BY <1>1, <1>3 DEF NodeOK
<1>7. NodeOK(Cut(s, t), c)
  <2>1. IsSeq(<<Edge(t, nodes[at].children[k].child)>>)
    <3>1. <<Edge(t, nodes[at].children[k].child)>>
            \in Seq({Edge(t, nodes[at].children[k].child)})
      OBVIOUS
    <3> QED BY <3>1, SeqIs
  <2>2. Cut(s, t) = [cummulativeString |-> s,
                     children |-> <<Edge(t, nodes[at].children[k].child)>>,
                     terminalEntry |-> NoEntry, trieOffset |-> 0]
    BY DEF NewNode
  <2> DEFINE new == Edge(t, nodes[at].children[k].child)
  <2>3. new = Edge(new.partialString, new.child) /\ new.child \in 2 .. c
    BY <1>6 DEF Edge
  <2> HIDE DEF new
  <2>4. \A j \in DOMAIN <<new>> : <<new>>[j] = new
    OBVIOUS
  <2>5. \A S : IsSeq(S) /\ (\A j \in DOMAIN S : S[j] = new)
          => NodeOK([cummulativeString |-> s, children |-> S, terminalEntry |-> NoEntry,
                     trieOffset |-> 0], c)
    BY <2>3 DEF NodeOK
  <2> QED BY <2>1, <2>2, <2>4, <2>5 DEF new
<1> DEFINE N == [nodes EXCEPT ![at].children = edges]
           x == [nodes[at] EXCEPT !.children = edges]
<1>8. nodes' = Append(N, Cut(s, t))
  BY <1>1, <1>2
<1> HIDE DEF edges, Cut, k
<1>9. /\ IsSeq(N) /\ Len(N) = Len(nodes)
      /\ \A i \in DOMAIN nodes : N[i] = IF i = at THEN x ELSE nodes[i]
      /\ NodeOK(x, Len(nodes) + 1)
  BY <1>1, <1>4, <1>5, OtherEdges DEF IInv
<1> HIDE DEF N, x
<1>0. Nodes /\ pc = "add" /\ UNCHANGED <<pc, cur>> /\ at' \in 0 .. Len(nodes) + 1
  <2>1. Nodes /\ UNCHANGED <<pc, cur>>
    BY Zenon DEF IInv, Splice
  <2>2. at' \in 0 .. Len(nodes) + 1
    BY <1>2, <1>3
  <2> QED BY <1>3, <2>1, <2>2
<1>10. Nodes'
  BY <1>0, <1>1, <1>7, <1>8, <1>9, GrowNodes
<1>11. Passes' /\ Writing'
  BY DEF IInv, Passes, Writing, Splice
<1> QED BY <1>10, <1>11 DEF IInv

\* A new edge leads to the new node.
LEMMA AddEdgeInv ==
  ASSUME IInv, AddEdge
  PROVE  IInv'
<1>1. /\ at \in DOMAIN nodes /\ Len(nodes) \in Nat /\ Len(nodes) > 0
      /\ NodeOK(nodes[at], Len(nodes))
  BY SeqLen DEF IInv, Nodes, AddEdge
<1> DEFINE c == Len(nodes) + 1
           edges == Append(nodes[at].children, Edge(Tail1, c))
           cut == [NewNode(entry.name) EXCEPT !.terminalEntry = entry]
<1>2. IsSeq(nodes[at].children)
  BY <1>1 DEF NodeOK
<1>3. /\ IsSeq(edges) /\ Len(edges) = Len(nodes[at].children) + 1
      /\ \A i \in 1 .. Len(nodes[at].children) : edges[i] = nodes[at].children[i]
      /\ edges[Len(nodes[at].children) + 1] = Edge(Tail1, c)
  BY <1>2, SeqAppend
<1>4. /\ DOMAIN edges = 1 .. Len(nodes[at].children) + 1
      /\ DOMAIN nodes[at].children = 1 .. Len(nodes[at].children)
      /\ Len(nodes[at].children) \in Nat
  BY <1>2, <1>3, SeqLen
<1>5. NodeOK(cut, c)
  <2>1. IsSeq(<<>>) /\ DOMAIN <<>> = {}
    BY RootOnly, SeqLen DEF NodeOK, NewNode
  <2>2. cut = [cummulativeString |-> entry.name, children |-> <<>>,
               terminalEntry |-> entry, trieOffset |-> 0]
    BY DEF NewNode
  <2> QED BY <2>1, <2>2 DEF NodeOK
<1>6. nodes' = Append([nodes EXCEPT ![at].children = edges], cut) /\ at' = 0
      /\ UNCHANGED <<pc, cur>> /\ pc = "add"
  BY DEF AddEdge
<1> HIDE DEF edges, cut
<1>7. \A j \in DOMAIN edges :
        edges[j] = Edge(edges[j].partialString, edges[j].child)
        /\ edges[j].child \in 2 .. c
  <2> TAKE j \in DOMAIN edges
  <2>1. CASE j \in DOMAIN nodes[at].children
    <3>1. edges[j] = nodes[at].children[j]
      BY <1>3, <1>4, <2>1
    <3> QED BY <1>1, <2>1, <3>1 DEF NodeOK
  <2>2. CASE j = Len(nodes[at].children) + 1
    BY <1>1, <1>3, <2>2 DEF Edge
  <2> QED BY <1>4, <2>1, <2>2
<1> DEFINE N == [nodes EXCEPT ![at].children = edges]
           x == [nodes[at] EXCEPT !.children = edges]
<1>8. /\ IsSeq(N) /\ Len(N) = Len(nodes)
      /\ \A i \in DOMAIN nodes : N[i] = IF i = at THEN x ELSE nodes[i]
      /\ NodeOK(x, Len(nodes) + 1)
  BY <1>1, <1>3, <1>7, OtherEdges DEF IInv
<1>11. Nodes /\ pc = "add" /\ UNCHANGED <<pc, cur>> /\ at' \in 0 .. Len(nodes) + 1
  BY <1>1, <1>6 DEF IInv
<1> HIDE DEF N, x
<1>12. nodes' = Append(N, cut)
  BY <1>6 DEF N
<1>9. Nodes'
  BY <1>1, <1>5, <1>8, <1>11, <1>12, GrowNodes
<1>10. Passes' /\ Writing'
  BY DEF IInv, Passes, Writing, AddEdge
<1> QED BY <1>9, <1>10 DEF IInv

-----------------------------------------------------------------------------
(***************************************************************************)
(* Offsets and the stream.                                                 *)
(***************************************************************************)

\* The first pass of updateOffset starts at the root.
LEMMA AllAddedInv ==
  ASSUME IInv, AllAdded
  PROVE  IInv'
<1>1. Len(nodes) \in Nat
  BY SeqLen DEF IInv, Nodes
<1>2. Nodes'
  BY <1>1 DEF IInv, Nodes, AllAdded
<1>3. Passes'
  BY DEF AllAdded, Passes, Chained, EndOf
<1>4. Writing'
  BY DEF IInv, Writing, AllAdded
<1> QED BY <1>2, <1>3, <1>4 DEF IInv

\* updateOffset says that something has changed, or has changed nothing.
LEMMA UpdateOffsetInv ==
  ASSUME IInv, UpdateOffset
  PROVE  IInv'
<1>1. /\ IsSeq(nodes) /\ Len(nodes) \in Nat /\ cur \in 1 .. Len(nodes)
      /\ DOMAIN nodes = 1 .. Len(nodes) /\ NodeOK(nodes[cur], Len(nodes))
  BY SeqLen DEF IInv, Nodes, UpdateOffset
<1> DEFINE x == [nodes[cur] EXCEPT !.trieOffset = curOffset]
<1>2. /\ DOMAIN nodes' = DOMAIN nodes
      /\ nodes' = [i \in DOMAIN nodes |-> nodes'[i]]
      /\ \A i \in DOMAIN nodes : nodes'[i] = IF i = cur THEN x ELSE nodes[i]
  BY <1>1 DEF UpdateOffset
<1>3. x = [cummulativeString |-> nodes[cur].cummulativeString,
           children |-> nodes[cur].children,
           terminalEntry |-> nodes[cur].terminalEntry, trieOffset |-> curOffset]
  BY <1>1 DEF NodeOK
<1>4. NodeOK(x, Len(nodes))
  BY <1>1, <1>3 DEF NodeOK
<1>5. x = nodes[cur] \/ nodes[cur].trieOffset # curOffset
  BY <1>1, <1>3 DEF NodeOK
<1> HIDE DEF x
<1>6. IsSeq(nodes') /\ Len(nodes') = Len(nodes)
  BY <1>1, <1>2, SeqExcept
<1>7. Nodes'
  <2>1. nodes' # <<>> /\ cur' \in 1 .. Len(nodes') + 1 /\ at' \in 0 .. Len(nodes')
    BY <1>1, <1>6, SeqLen DEF IInv, Nodes, UpdateOffset
  <2>2. \A i \in DOMAIN nodes' : NodeOK(nodes'[i], Len(nodes'))
    BY <1>2, <1>4, <1>6 DEF IInv, Nodes
  <2> QED BY <1>6, <2>1, <2>2 DEF IInv, Nodes, UpdateOffset
<1>8. Passes'
  <2> SUFFICES ASSUME ~more'
               PROVE  Chained(nodes', cur' - 1) /\ curOffset' = EndOf(nodes', cur' - 1)
    BY DEF Passes
  <2>1. ~more /\ nodes[cur].trieOffset = curOffset
    BY DEF UpdateOffset
  <2>2. nodes' = nodes
    BY <1>2, <1>5, <2>1 DEF IInv, Nodes, IsSeq
  <2>3. Chained(nodes, cur - 1) /\ curOffset = EndOf(nodes, cur - 1)
    BY <2>1 DEF IInv, Passes, UpdateOffset
  <2>4. cur' = cur + 1 /\ curOffset' = curOffset + NodeBytes(nodes, nodes[cur])
    BY DEF UpdateOffset
  <2>5. cur' - 1 = cur /\ cur \in Nat \ {0}
    BY <1>1, <2>4
  <2>6. curOffset' = EndOf(nodes, cur)
    BY <2>1, <2>4, <2>5 DEF EndOf
  <2>7. Chained(nodes, cur)
    <3>1. nodes[1].trieOffset = 0
      BY <2>1, <2>3, <2>5 DEF Chained, EndOf
    <3>2. ASSUME NEW i \in 1 .. cur - 1
          PROVE  nodes[i + 1].trieOffset = nodes[i].trieOffset + NodeBytes(nodes, nodes[i])
      <4>1. CASE i \in 1 .. (cur - 1) - 1
        BY <2>3, <4>1 DEF Chained
      <4>2. CASE i = cur - 1
        BY <2>1, <2>3, <2>5, <4>2 DEF EndOf
      <4> QED BY <2>5, <4>1, <4>2
    <3> QED BY <3>1, <3>2 DEF Chained
  <2> QED BY <2>2, <2>5, <2>6, <2>7
<1>9. Writing'
  BY DEF IInv, Writing, UpdateOffset
<1> QED BY <1>7, <1>8, <1>9 DEF IInv

\* The loop ends after a pass that has changed nothing.
LEMMA EndOffsetsInv ==
  ASSUME IInv, EndOffsets
  PROVE  IInv'
<1>1. /\ Len(nodes) \in Nat /\ cur = Len(nodes) + 1
  BY SeqLen DEF IInv, Nodes, EndOffsets
<1>2. Nodes'
  BY <1>1 DEF IInv, Nodes, EndOffsets
<1>3. Passes'
  BY DEF EndOffsets, Passes, Chained, EndOf
<1>4. Writing'
  <2>1. IsSeq(stream') /\ stream' = <<>> /\ size' = 0 /\ DOMAIN stream' = {} /\ Len(stream') = 0
    BY DEF IInv, Writing, EndOffsets
  <2>2. ASSUME ~more PROVE Chained(nodes', Len(nodes'))
    <3>1. Chained(nodes, cur - 1)
      BY <2>2 DEF IInv, Passes, EndOffsets
    <3>2. cur - 1 = Len(nodes) /\ nodes' = nodes
      BY <1>1 DEF EndOffsets
    <3> QED BY <3>1, <3>2
  <2>3. cur' - 1 = 0 /\ size' = EndOf(nodes', cur' - 1)
    BY <2>1 DEF EndOffsets, EndOf
  <2>4. pc' = IF more THEN "offsets" ELSE "write"
    BY DEF EndOffsets
  <2> QED BY <2>1, <2>2, <2>3, <2>4 DEF Writing
<1> QED BY <1>2, <1>3, <1>4 DEF IInv

\* The node is written at its offset, and the offsets it holds are those of nodes.
LEMMA AppendToStreamInv ==
  ASSUME IInv, AppendToStream
  PROVE  IInv'
<1>1. /\ IsSeq(nodes) /\ Len(nodes) \in Nat /\ cur \in 1 .. Len(nodes)
      /\ DOMAIN nodes = 1 .. Len(nodes) /\ NodeOK(nodes[cur], Len(nodes))
  BY SeqLen DEF IInv, Nodes, AppendToStream
<1>2. /\ pc = "write" /\ IsSeq(stream) /\ Len(stream) = cur - 1
      /\ Chained(nodes, Len(nodes)) /\ size = EndOf(nodes, cur - 1)
  BY DEF IInv, Writing, AppendToStream
<1>3. nodes[cur].trieOffset = size
  <2>1. CASE cur = 1
    BY <1>1, <1>2, <2>1 DEF Chained, EndOf
  <2>2. CASE cur # 1
    <3>1. cur - 1 \in 1 .. Len(nodes) - 1 /\ (cur - 1) + 1 = cur /\ cur - 1 # 0
      BY <1>1, <2>2
    <3>2. nodes[cur].trieOffset = nodes[cur - 1].trieOffset + NodeBytes(nodes, nodes[cur - 1])
      BY <1>2, <3>1 DEF Chained
    <3> QED BY <1>2, <3>1, <3>2 DEF EndOf
  <2> QED BY <2>1, <2>2
<1> DEFINE kids == {[string |-> e.partialString, place |-> nodes[e.child].trieOffset] :
                      e \in {nodes[cur].children[i] : i \in DOMAIN nodes[cur].children}}
           w == [place |-> size, export |-> Encoded(nodes[cur].terminalEntry), children |-> kids]
<1>4. /\ stream' = Append(stream, w) /\ size' = size + NodeBytes(nodes, nodes[cur])
      /\ cur' = cur + 1
      /\ UNCHANGED <<nodes, at, pc>>
  BY DEF AppendToStream
<1>5. \A c \in w.children : \E j \in DOMAIN nodes : c.place = nodes[j].trieOffset
  <2> SUFFICES ASSUME NEW i \in DOMAIN nodes[cur].children
               PROVE  nodes[cur].children[i].child \in DOMAIN nodes
    OBVIOUS
  <2> QED BY <1>1 DEF NodeOK
<1>6. w.place = nodes[cur].trieOffset
  BY <1>3
<1> HIDE DEF w, kids
<1>7. /\ IsSeq(stream') /\ Len(stream') = cur /\ stream'[cur] = w
      /\ \A i \in 1 .. cur - 1 : stream'[i] = stream[i]
      /\ DOMAIN stream' = 1 .. cur /\ DOMAIN stream = 1 .. cur - 1
  BY <1>1, <1>2, <1>4, SeqAppend, SeqLen
<1>8. Nodes'
  BY <1>1, <1>4 DEF IInv, Nodes
<1>9. Passes'
  BY <1>2, <1>4 DEF Passes
<1>10. Writing'
  <2>1. cur' - 1 = cur /\ cur # 0
    BY <1>1, <1>4
  <2>2. size' = EndOf(nodes', cur' - 1)
    BY <1>3, <1>4, <2>1 DEF EndOf
  <2>3. \A i \in DOMAIN stream' :
          /\ stream'[i].place = nodes[i].trieOffset
          /\ \A c \in stream'[i].children :
               \E j \in DOMAIN nodes : c.place = nodes[j].trieOffset
    <3> TAKE i \in DOMAIN stream'
    <3>1. CASE i = cur
      BY <1>5, <1>6, <1>7, <3>1
    <3>2. CASE i \in 1 .. cur - 1
      <4>1. i \in DOMAIN stream /\ stream'[i] = stream[i]
        BY <1>7, <3>2
      <4> QED BY <1>2, <4>1 DEF IInv, Writing
    <3> QED BY <1>1, <1>7, <3>1, <3>2
  <2> QED BY <1>2, <1>4, <1>7, <2>1, <2>2, <2>3 DEF Writing
<1> QED BY <1>8, <1>9, <1>10 DEF IInv

\* Padding leaves what is written alone.
LEMMA EndStreamInv ==
  ASSUME IInv, EndStream
  PROVE  IInv'
<1>1. Len(nodes) \in Nat /\ cur = Len(nodes) + 1 /\ cur - 1 = Len(nodes)
  BY SeqLen DEF IInv, Nodes, EndStream
<1>2. pc = "write" /\ pc' = "built" /\ UNCHANGED <<nodes, at, cur, stream>>
  BY DEF EndStream
<1>3. Nodes' /\ Passes'
  BY <1>2 DEF IInv, Nodes, Passes
<1>4. Writing'
  BY <1>1, <1>2 DEF IInv, Writing
<1> QED BY <1>3, <1>4 DEF IInv

\* strip keeps the trie, or builds another one from its root.
LEMMA PruneInv ==
  ASSUME IInv, Prune
  PROVE  IInv'
<1>0. pc = "built"
  BY DEF Prune
<1>1. CASE pc' = "done" /\ UNCHANGED <<nodes, cur, stream, size, at>>
  BY <1>0, <1>1 DEF IInv, Nodes, Passes, Writing
<1>2. CASE /\ nodes' = <<NewNode(<<>>)>> /\ stream' = <<>> /\ size' = 0
           /\ pc' = "add" /\ cur' = 1 /\ at' = at
  <2>1. IsSeq(<<>>)
    BY RootOnly, SeqLen DEF NodeOK, NewNode
  <2>2. Passes' /\ Writing'
    BY <1>2, <2>1 DEF Passes, Writing
  <2>3. at = 0
    BY <1>0 DEF IInv, Nodes
  <2> QED BY <1>2, <2>2, <2>3, RootOnly DEF IInv, Nodes
<1> QED BY <1>1, <1>2, Zenon DEF Prune

\* Putting the pruned trie in place leaves the nodes alone.
LEMMA CopyIntoPlaceInv ==
  ASSUME IInv, CopyIntoPlace
  PROVE  IInv'
<1>1. pc = "built" /\ pc' \in {"larger", "done"} /\ UNCHANGED <<nodes, at, cur, stream>>
  BY DEF CopyIntoPlace
<1> QED BY <1>1 DEF IInv, Nodes, Passes, Writing

\* Every step keeps the invariant.
LEMMA NextInv == IInv /\ [Next]_vars => IInv'
<1> SUFFICES ASSUME IInv, [Next]_vars PROVE IInv'
  OBVIOUS
<1>1. CASE UNCHANGED vars
  BY <1>1 DEF IInv, Nodes, Passes, Writing, vars
<1>2. CASE Build
  BY <1>2, NextEntryInv, DescendInv, SpliceInv, AddEdgeInv, AllAddedInv, UpdateOffsetInv,
     EndOffsetsInv, AppendToStreamInv, EndStreamInv DEF Build
<1>3. CASE Prune
  BY <1>3, PruneInv
<1>4. CASE CopyIntoPlace
  BY <1>4, CopyIntoPlaceInv
<1>5. CASE Done
  BY <1>1, <1>5 DEF Done
<1> QED BY <1>1, <1>2, <1>3, <1>4, <1>5 DEF Next

\* The invariant holds in every state.
LEMMA Invariance == Spec => []IInv
BY InitInv, NextInv, PTL DEF Spec

-----------------------------------------------------------------------------
(***************************************************************************)
(* What the invariant shows.                                               *)
(***************************************************************************)

\* A node is written at its offset.
LEMMA AtOffset ==
  ASSUME IInv
  PROVE  WrittenAtOffset
<1> SUFFICES ASSUME pc = "write", cur \in DOMAIN nodes
             PROVE  nodes[cur].trieOffset = size
  BY DEF WrittenAtOffset
<1>1. Len(nodes) \in Nat /\ cur \in 1 .. Len(nodes)
  BY SeqLen DEF IInv, Nodes
<1>2. Chained(nodes, Len(nodes)) /\ size = EndOf(nodes, cur - 1)
  BY DEF IInv, Writing
<1>3. CASE cur = 1
  BY <1>1, <1>2, <1>3 DEF Chained, EndOf
<1>4. CASE cur # 1
  <2>1. cur - 1 \in 1 .. Len(nodes) - 1 /\ (cur - 1) + 1 = cur /\ cur - 1 # 0
    BY <1>1, <1>4
  <2>2. nodes[cur].trieOffset = nodes[cur - 1].trieOffset + NodeBytes(nodes, nodes[cur - 1])
    BY <1>2, <2>1 DEF Chained
  <2> QED BY <1>2, <2>1, <2>2 DEF EndOf
<1> QED BY <1>3, <1>4

\* The assertion of appendToStream, "computed node offset doesn't match buffer
\* position", never fails: every node is written at the offset that its parent
\* was told, for any exports and any names and again after strip's pruning,
\* because the loop over updateOffset ends only after a pass that met every
\* offset as it left it.
THEOREM NodesWrittenAtOffset == Spec => []WrittenAtOffset
BY AtOffset, Invariance, PTL

\* A finished trie has no offset that leads elsewhere than to a node: what
\* parseTrie finds at a child's offset is a node that was written there.
NoOffsetDangles ==
  pc = "built" =>
    \A i \in DOMAIN stream : \A c \in stream[i].children : Written(c.place) # {}

\* processExportNode never starts in the middle of a node, for any exports.
THEOREM OffsetsLeadToNodes == Spec => []NoOffsetDangles
<1>1. ASSUME IInv PROVE NoOffsetDangles
  <2> SUFFICES ASSUME pc = "built", NEW i \in DOMAIN stream, NEW c \in stream[i].children
               PROVE  Written(c.place) # {}
    BY DEF NoOffsetDangles
  <2>1. PICK j \in DOMAIN nodes : c.place = nodes[j].trieOffset
    BY <1>1 DEF IInv, Writing
  <2>2. j \in DOMAIN stream
    <3>1. IsSeq(stream) /\ IsSeq(nodes) /\ Len(stream) = Len(nodes)
      BY <1>1 DEF IInv, Nodes, Writing
    <3> QED BY <3>1, SeqLen
  <2>3. stream[j].place = c.place
    BY <1>1, <2>1, <2>2 DEF IInv, Writing
  <2> QED BY <2>2, <2>3 DEF Written
<1> QED BY <1>1, Invariance, PTL

-----------------------------------------------------------------------------
(***************************************************************************)
(* Strings and their order.                                                  *)
(***************************************************************************)

\* The letter at a place of a name: the zero that ends it behind the last one.
LetterAt(s, k) == IF k <= Len(s) THEN s[k] ELSE 0

\* s comes before t in the order of strcmp: the first letter that differs, or
\* the zero at the end, is smaller.
Below(s, t) ==
  \E k \in Nat \ {0} :
    LetterAt(s, k) < LetterAt(t, k) /\ \A m \in 1 .. k - 1 : LetterAt(s, m) = LetterAt(t, m)

\* t begins with s.
Begins(s, t) == Len(s) <= Len(t) /\ \A k \in 1 .. Len(s) : s[k] = t[k]

\* A name has letters, none of which is zero.
LEMMA NameIs ==
  ASSUME NEW s \in Strings
  PROVE  /\ Len(s) \in Nat /\ DOMAIN s = 1 .. Len(s)
         /\ \A k \in 1 .. Len(s) : s[k] \in Nat \ {0}
         /\ \A k \in Nat \ {0} : LetterAt(s, k) \in Nat /\ (LetterAt(s, k) = 0 <=> k > Len(s))
         /\ s # <<>> <=> Len(s) > 0
<1>1. Len(s) \in Nat /\ DOMAIN s = 1 .. Len(s) /\ \A k \in 1 .. Len(s) : s[k] \in Nat \ {0}
  BY LenProperties, ElementOfSeq DEF Strings
<1>2. \A k \in Nat \ {0} : LetterAt(s, k) \in Nat /\ (LetterAt(s, k) = 0 <=> k > Len(s))
  BY <1>1 DEF LetterAt
<1>3. s # <<>> <=> Len(s) > 0
  BY <1>1, EmptySeq DEF Strings
<1> QED BY <1>1, <1>2, <1>3

\* Strings are the same when their letters are.
LEMMA SameName ==
  ASSUME NEW s \in Strings, NEW t \in Strings,
         \A k \in Nat \ {0} : LetterAt(s, k) = LetterAt(t, k)
  PROVE  s = t
<1>1. /\ Len(s) \in Nat /\ Len(t) \in Nat
      /\ \A k \in Nat \ {0} : LetterAt(s, k) = 0 <=> k > Len(s)
      /\ \A k \in Nat \ {0} : LetterAt(t, k) = 0 <=> k > Len(t)
  BY NameIs
<1>2. Len(s) = Len(t)
  <2>1. Len(s) + 1 > Len(t) /\ Len(t) + 1 > Len(s)
    BY <1>1
  <2> QED BY <1>1, <2>1
<1>3. \A k \in 1 .. Len(s) : s[k] = t[k]
  BY <1>1, <1>2 DEF LetterAt
<1> QED BY <1>2, <1>3, SeqEqual DEF Strings

\* The first letters of a name.
LEMMA FirstLetters ==
  ASSUME NEW s \in Strings, NEW n \in 0 .. Len(s)
  PROVE  /\ SubSeq(s, 1, n) \in Strings /\ Len(SubSeq(s, 1, n)) = n
         /\ \A k \in 1 .. n : SubSeq(s, 1, n)[k] = s[k]
<1>1. \A k \in 1 .. n : s[k] \in Nat \ {0}
  BY NameIs
<1>2. n \in Int
  BY NameIs
<1>3. /\ SubSeq(s, 1, n) \in Strings /\ Len(SubSeq(s, 1, n)) = IF 1 <= n THEN n - 1 + 1 ELSE 0
      /\ \A k \in 1 .. n - 1 + 1 : SubSeq(s, 1, n)[k] = s[1 + k - 1]
  BY <1>1, <1>2, SubSeqProperties DEF Strings
<1> QED BY <1>2, <1>3

\* What is left of a name behind its first letters.
LEMMA LastLetters ==
  ASSUME NEW s \in Strings, NEW n \in 0 .. Len(s)
  PROVE  /\ DropFirst(s, n) \in Strings /\ Len(DropFirst(s, n)) = Len(s) - n
         /\ \A k \in 1 .. Len(s) - n : DropFirst(s, n)[k] = s[n + k]
<1>1. \A k \in n + 1 .. Len(s) : s[k] \in Nat \ {0}
  BY NameIs
<1>2. n \in Int /\ n + 1 \in Int /\ Len(s) \in Int
  BY NameIs
<1>3. /\ DropFirst(s, n) \in Strings
      /\ Len(DropFirst(s, n)) = IF n + 1 <= Len(s) THEN Len(s) - (n + 1) + 1 ELSE 0
      /\ \A k \in 1 .. Len(s) - (n + 1) + 1 : DropFirst(s, n)[k] = s[(n + 1) + k - 1]
  BY <1>1, <1>2, SubSeqProperties DEF Strings, DropFirst
<1> QED BY <1>2, <1>3

\* Two names in one.
LEMMA TwoNames ==
  ASSUME NEW s \in Strings, NEW t \in Strings
  PROVE  /\ s \o t \in Strings /\ Len(s \o t) = Len(s) + Len(t)
         /\ \A k \in 1 .. Len(s) + Len(t) :
              (s \o t)[k] = IF k <= Len(s) THEN s[k] ELSE t[k - Len(s)]
BY ConcatProperties DEF Strings

\* A prefix has the same letters at the same places.
LEMMA PrefixIs ==
  ASSUME NEW s \in Strings, NEW t \in Strings
  PROVE  IsPrefix(s, t) <=> Begins(s, t)
<1>1. Len(s) \in Nat /\ Len(t) \in Nat /\ Len(s) \in 0 .. Len(s)
  BY NameIs
<1>2. CASE Len(s) <= Len(t)
  <2>1. Len(s) \in 0 .. Len(t)
    BY <1>1, <1>2
  <2> DEFINE u == SubSeq(s, 1, Len(s))
             v == SubSeq(t, 1, Len(s))
  <2>2. /\ u \in Strings /\ Len(u) = Len(s) /\ \A k \in 1 .. Len(s) : u[k] = s[k]
        /\ v \in Strings /\ Len(v) = Len(s) /\ \A k \in 1 .. Len(s) : v[k] = t[k]
    BY <1>1, <2>1, FirstLetters
  <2> HIDE DEF u, v
  <2>3. u = v <=> \A k \in 1 .. Len(s) : s[k] = t[k]
    BY <2>2, SeqEqual DEF Strings
  <2> QED BY <1>2, <2>3 DEF IsPrefix, Begins, u, v
<1>3. CASE ~(Len(s) <= Len(t))
  BY <1>3 DEF IsPrefix, Begins
<1> QED BY <1>2, <1>3

\* NameLess is the order of strcmp.
LEMMA NameLessIs ==
  ASSUME NEW s \in Strings, NEW t \in Strings
  PROVE  NameLess(s, t) <=> Below(s, t)
<1>1. /\ Len(s) \in Nat /\ Len(t) \in Nat
      /\ \A k \in 1 .. Len(s) : s[k] \in Nat \ {0}
      /\ \A k \in 1 .. Len(t) : t[k] \in Nat \ {0}
      /\ \A k \in Nat \ {0} : LetterAt(s, k) \in Nat /\ (LetterAt(s, k) = 0 <=> k > Len(s))
      /\ \A k \in Nat \ {0} : LetterAt(t, k) \in Nat /\ (LetterAt(t, k) = 0 <=> k > Len(t))
  BY NameIs
<1>2. ASSUME NEW k \in 1 .. Len(s), k <= Len(t)
      PROVE  SubSeq(s, 1, k - 1) = SubSeq(t, 1, k - 1) <=> \A m \in 1 .. k - 1 : s[m] = t[m]
  <2> DEFINE u == SubSeq(s, 1, k - 1)
             v == SubSeq(t, 1, k - 1)
  <2>1. k - 1 \in 0 .. Len(s) /\ k - 1 \in 0 .. Len(t)
    BY <1>1, <1>2
  <2>2. /\ u \in Strings /\ Len(u) = k - 1 /\ \A m \in 1 .. k - 1 : u[m] = s[m]
        /\ v \in Strings /\ Len(v) = k - 1 /\ \A m \in 1 .. k - 1 : v[m] = t[m]
    BY <2>1, FirstLetters
  <2> HIDE DEF u, v
  <2>3. u = v <=> \A m \in 1 .. k - 1 : s[m] = t[m]
    BY <2>2, SeqEqual DEF Strings
  <2> QED BY <2>3 DEF u, v
<1>3. ASSUME s # t, IsPrefix(s, t) PROVE Below(s, t)
  <2>1. Len(s) <= Len(t) /\ \A k \in 1 .. Len(s) : s[k] = t[k]
    BY <1>3, PrefixIs DEF Begins
  <2>2. Len(s) # Len(t)
    BY <1>3, <2>1, SeqEqual DEF Strings
  <2>3. LetterAt(s, Len(s) + 1) < LetterAt(t, Len(s) + 1)
    BY <1>1, <2>1, <2>2
  <2>4. \A m \in 1 .. (Len(s) + 1) - 1 : LetterAt(s, m) = LetterAt(t, m)
    BY <1>1, <2>1 DEF LetterAt
  <2> QED BY <1>1, <2>3, <2>4 DEF Below
<1>4. ASSUME NEW k \in 1 .. Len(s), k <= Len(t), s[k] < t[k],
             SubSeq(s, 1, k - 1) = SubSeq(t, 1, k - 1)
      PROVE  Below(s, t)
  <2>1. \A m \in 1 .. k - 1 : s[m] = t[m]
    BY <1>2, <1>4
  <2>2. k \in Nat \ {0} /\ LetterAt(s, k) < LetterAt(t, k)
    BY <1>1, <1>4 DEF LetterAt
  <2>3. \A m \in 1 .. k - 1 : LetterAt(s, m) = LetterAt(t, m)
    BY <1>1, <1>4, <2>1 DEF LetterAt
  <2> QED BY <2>2, <2>3 DEF Below
<1>5. ASSUME NEW k \in Nat \ {0}, LetterAt(s, k) < LetterAt(t, k),
             \A m \in 1 .. k - 1 : LetterAt(s, m) = LetterAt(t, m)
      PROVE  NameLess(s, t)
  <2>1. k <= Len(t)
    BY <1>1, <1>5
  <2>2. \A m \in 1 .. k - 1 : m <= Len(s) /\ s[m] = t[m]
    <3> TAKE m \in 1 .. k - 1
    <3>1. LetterAt(t, m) # 0 /\ m <= Len(t) /\ m \in Nat \ {0}
      BY <1>1, <2>1
    <3>2. LetterAt(s, m) # 0
      BY <1>5, <3>1
    <3>3. m <= Len(s)
      BY <1>1, <3>1, <3>2
    <3> QED BY <1>5, <3>1, <3>3 DEF LetterAt
  <2>3. CASE k <= Len(s)
    <3>1. k \in 1 .. Len(s) /\ s[k] < t[k]
      BY <1>1, <1>5, <2>1, <2>3 DEF LetterAt
    <3>2. SubSeq(s, 1, k - 1) = SubSeq(t, 1, k - 1)
      BY <1>2, <2>1, <2>2, <3>1
    <3> QED BY <2>1, <3>1, <3>2 DEF NameLess
  <2>4. CASE k > Len(s)
    <3>1. k = Len(s) + 1
      <4>1. ~(k - 1 > Len(s))
        BY <1>1, <2>2
      <4> QED BY <1>1, <2>4, <4>1
    <3>2. Begins(s, t) /\ s # t
      BY <1>1, <2>1, <2>2, <3>1 DEF Begins
    <3> QED BY <3>2, PrefixIs DEF NameLess
  <2> QED BY <1>1, <2>3, <2>4
<1> QED BY <1>3, <1>4, <1>5 DEF NameLess, Below

\* It is a strict order: no name is below itself, and what is below a name
\* below another is below that one.
LEMMA BelowOrder ==
  ASSUME NEW s \in Strings, NEW t \in Strings, NEW u \in Strings
  PROVE  ~Below(s, s) /\ (Below(s, t) /\ Below(t, u) => Below(s, u))
<1>1. /\ \A k \in Nat \ {0} : LetterAt(s, k) \in Nat
      /\ \A k \in Nat \ {0} : LetterAt(t, k) \in Nat
      /\ \A k \in Nat \ {0} : LetterAt(u, k) \in Nat
  BY NameIs
<1>2. ~Below(s, s)
  BY <1>1 DEF Below
<1>3. ASSUME Below(s, t), Below(t, u) PROVE Below(s, u)
  <2>1. PICK k \in Nat \ {0} :
          LetterAt(s, k) < LetterAt(t, k) /\ \A m \in 1 .. k - 1 : LetterAt(s, m) = LetterAt(t, m)
    BY <1>3 DEF Below
  <2>2. PICK l \in Nat \ {0} :
          LetterAt(t, l) < LetterAt(u, l) /\ \A m \in 1 .. l - 1 : LetterAt(t, m) = LetterAt(u, m)
    BY <1>3 DEF Below
  <2>3. CASE k < l
    <3>1. LetterAt(s, k) < LetterAt(u, k)
      BY <2>1, <2>2, <2>3
    <3>2. \A m \in 1 .. k - 1 : LetterAt(s, m) = LetterAt(u, m)
      BY <2>1, <2>2, <2>3
    <3> QED BY <3>1, <3>2 DEF Below
  <2>4. CASE l < k
    <3>1. LetterAt(s, l) < LetterAt(u, l)
      BY <2>1, <2>2, <2>4
    <3>2. \A m \in 1 .. l - 1 : LetterAt(s, m) = LetterAt(u, m)
      BY <2>1, <2>2, <2>4
    <3> QED BY <3>1, <3>2 DEF Below
  <2>5. CASE l = k
    <3>1. LetterAt(s, k) < LetterAt(u, k)
      BY <1>1, <2>1, <2>2, <2>5
    <3>2. \A m \in 1 .. k - 1 : LetterAt(s, m) = LetterAt(u, m)
      BY <2>1, <2>2, <2>5
    <3> QED BY <3>1, <3>2 DEF Below
  <2> QED BY <2>3, <2>4, <2>5
<1> QED BY <1>2, <1>3

\* Of two names one is below the other.
LEMMA BelowTotal ==
  ASSUME NEW s \in Strings, NEW t \in Strings, s # t
  PROVE  Below(s, t) \/ Below(t, s)
<1> DEFINE T == {k \in Nat \ {0} : LetterAt(s, k) # LetterAt(t, k)}
<1>1. T # {} /\ T \in SUBSET Nat
  BY SameName
<1>2. PICK k \in T : \A j \in T : k <= j
  BY <1>1, LeastNat
<1>3. k \in Nat \ {0} /\ LetterAt(s, k) # LetterAt(t, k)
  OBVIOUS
<1>4. \A m \in 1 .. k - 1 : LetterAt(s, m) = LetterAt(t, m)
  BY <1>2, <1>3
<1>5. LetterAt(s, k) \in Nat /\ LetterAt(t, k) \in Nat
  BY <1>3, NameIs
<1> HIDE DEF T
<1> QED BY <1>3, <1>4, <1>5 DEF Below

\* No name is below its beginning.
LEMMA BeginningFirst ==
  ASSUME NEW s \in Strings, NEW t \in Strings, Begins(s, t)
  PROVE  ~Below(t, s)
<1>1. /\ Len(s) \in Nat /\ Len(t) \in Nat
      /\ \A k \in Nat \ {0} : LetterAt(s, k) \in Nat /\ (LetterAt(s, k) = 0 <=> k > Len(s))
      /\ \A k \in Nat \ {0} : LetterAt(t, k) \in Nat
  BY NameIs
<1>2. \A k \in Nat \ {0} : LetterAt(t, k) < LetterAt(s, k) => FALSE
  <2> SUFFICES ASSUME NEW k \in Nat \ {0}, LetterAt(t, k) < LetterAt(s, k)
               PROVE  FALSE
    OBVIOUS
  <2>1. k \in 1 .. Len(s) /\ k <= Len(t)
    BY <1>1 DEF Begins
  <2> QED BY <1>1, <2>1 DEF Begins, LetterAt
<1> QED BY <1>2 DEF Below

\* A name is its beginning and what is left behind it.
LEMMA NameSplit ==
  ASSUME NEW s \in Strings, NEW t \in Strings, Begins(s, t)
  PROVE  /\ DropFirst(t, Len(s)) \in Strings /\ t = s \o DropFirst(t, Len(s))
         /\ \A u \in Strings : Begins(u, DropFirst(t, Len(s))) <=> Begins(s \o u, t)
<1>1. Len(s) \in Nat /\ Len(t) \in Nat /\ Len(s) \in 0 .. Len(t)
  BY NameIs DEF Begins
<1> DEFINE r == DropFirst(t, Len(s))
<1>2. r \in Strings /\ Len(r) = Len(t) - Len(s) /\ \A k \in 1 .. Len(t) - Len(s) : r[k] = t[Len(s) + k]
  BY <1>1, LastLetters
<1> HIDE DEF r
<1>3. /\ s \o r \in Strings /\ Len(s \o r) = Len(s) + Len(r)
      /\ \A k \in 1 .. Len(s) + Len(r) :
           (s \o r)[k] = IF k <= Len(s) THEN s[k] ELSE r[k - Len(s)]
  BY <1>2, TwoNames
<1>4. t = s \o r
  <2>1. Len(s \o r) = Len(t)
    BY <1>1, <1>2, <1>3
  <2>2. ASSUME NEW k \in 1 .. Len(t) PROVE (s \o r)[k] = t[k]
    <3>1. CASE k <= Len(s)
      BY <1>1, <1>2, <1>3, <3>1 DEF Begins
    <3>2. CASE k > Len(s)
      <4>1. k - Len(s) \in 1 .. Len(t) - Len(s) /\ Len(s) + (k - Len(s)) = k
        BY <1>1, <3>2
      <4>2. (s \o r)[k] = r[k - Len(s)]
        BY <1>1, <1>2, <1>3, <3>2
      <4>3. r[k - Len(s)] = t[Len(s) + (k - Len(s))]
        BY <1>2, <4>1
      <4> QED BY <4>1, <4>2, <4>3
    <3>3. k <= Len(s) \/ k > Len(s)
      BY <1>1
    <3> QED BY <3>1, <3>2, <3>3, Zenon
  <2> QED BY <1>3, <2>1, <2>2, SeqEqual DEF Strings
<1>5. ASSUME NEW u \in Strings PROVE Begins(u, r) <=> Begins(s \o u, t)
  <2>1. Len(u) \in Nat
    BY NameIs
  <2>2. /\ s \o u \in Strings /\ Len(s \o u) = Len(s) + Len(u)
        /\ \A k \in 1 .. Len(s) + Len(u) :
             (s \o u)[k] = IF k <= Len(s) THEN s[k] ELSE u[k - Len(s)]
    BY TwoNames
  <2>3. ASSUME Begins(u, r) PROVE Begins(s \o u, t)
    <3>1. Len(s \o u) <= Len(t)
      BY <1>1, <1>2, <2>1, <2>2, <2>3 DEF Begins
    <3>2. ASSUME NEW k \in 1 .. Len(s \o u) PROVE (s \o u)[k] = t[k]
      <4>1. CASE k <= Len(s)
        BY <1>1, <2>1, <2>2, <4>1 DEF Begins
      <4>2. CASE k > Len(s)
        <5>1. k - Len(s) \in 1 .. Len(u) /\ Len(s) + (k - Len(s)) = k
          BY <1>1, <2>1, <2>2, <4>2
        <5>2. u[k - Len(s)] = r[k - Len(s)] /\ k - Len(s) \in 1 .. Len(t) - Len(s)
          BY <1>1, <1>2, <2>1, <2>3, <5>1 DEF Begins
        <5> QED BY <1>1, <1>2, <2>1, <2>2, <4>2, <5>1, <5>2
      <4> QED BY <1>1, <2>1, <2>2, <4>1, <4>2
    <3> QED BY <3>1, <3>2 DEF Begins
  <2>4. ASSUME Begins(s \o u, t) PROVE Begins(u, r)
    <3>1. Len(u) <= Len(r)
      BY <1>1, <1>2, <2>1, <2>2, <2>4 DEF Begins
    <3>2. ASSUME NEW k \in 1 .. Len(u) PROVE u[k] = r[k]
      <4>1. /\ Len(s) + k \in 1 .. Len(s) + Len(u) /\ ~(Len(s) + k <= Len(s))
            /\ (Len(s) + k) - Len(s) = k /\ k \in 1 .. Len(t) - Len(s)
        BY <1>1, <1>2, <2>1, <3>1
      <4>2. (s \o u)[Len(s) + k] = u[k]
        BY <2>2, <4>1
      <4>3. (s \o u)[Len(s) + k] = t[Len(s) + k]
        BY <2>2, <2>4, <4>1 DEF Begins
      <4> QED BY <1>2, <4>1, <4>2, <4>3
    <3> QED BY <3>1, <3>2 DEF Begins
  <2> QED BY <2>3, <2>4
<1> QED BY <1>2, <1>4, <1>5 DEF r

\* A beginning of a beginning is one, and so is the first of two names in one.
LEMMA BeginsOn ==
  ASSUME NEW s \in Strings, NEW t \in Strings
  PROVE  /\ Begins(s, s) /\ Begins(s, s \o t)
         /\ \A u \in Strings : Begins(s, t) /\ Begins(t, u) => Begins(s, u)
<1>1. Len(s) \in Nat /\ Len(t) \in Nat
  BY NameIs
<1>2. /\ Len(s \o t) = Len(s) + Len(t)
      /\ \A k \in 1 .. Len(s) + Len(t) :
           (s \o t)[k] = IF k <= Len(s) THEN s[k] ELSE t[k - Len(s)]
  BY TwoNames
<1>3. Begins(s, s) /\ Begins(s, s \o t)
  BY <1>1, <1>2 DEF Begins
<1>4. ASSUME NEW u \in Strings, Begins(s, t), Begins(t, u) PROVE Begins(s, u)
  <2>1. Len(u) \in Nat
    BY NameIs
  <2> QED BY <1>1, <1>4, <2>1 DEF Begins
<1> QED BY <1>3, <1>4

-----------------------------------------------------------------------------
(***************************************************************************)
(* Sizes of nodes.                                                         *)
(***************************************************************************)

\* An entry has a name, and says of a re-export under which name it is found.
EntryOK(e) ==
  /\ e = [name |-> e.name, kind |-> e.kind, offset |-> e.offset, other |-> e.other,
          import |-> e.import]
  /\ e.name \in Strings /\ e.name # <<>> /\ e.import \in Strings /\ e.kind # "none"

\* A uleb128 has at least one byte.
LEMMA UlebIs ==
  ASSUME NEW n
  PROVE  uleb128_size(n) \in Nat \ {0}
<1>0. \A a, b \in Int : IsFiniteSet(a .. b)
  BY FS_Interval
<1>1. IsFiniteSet(1 .. 4)
  <2>1. 1 \in Int /\ 4 \in Int
    OBVIOUS
  <2> QED BY <1>0, <2>1, Zenon
<1>2. IsFiniteSet({k \in 1 .. 4 : n >= 128^k})
  BY <1>1, FS_Subset
<1>3. Cardinality({k \in 1 .. 4 : n >= 128^k}) \in Nat
  BY <1>2, FS_CardinalityType
<1> QED BY <1>3 DEF uleb128_size

\* So many bytes are a number.
LEMMA WidthIs ==
  ASSUME NEW s \in Strings
  PROVE  Width * Len(s) \in Nat
<1>1. Width \in Nat /\ Len(s) \in Nat
  BY NameIs, WidthAssumption
<1> QED BY <1>1

LEMMA PayloadIs ==
  ASSUME NEW e, EntryOK(e)
  PROVE  Payload(e) \in Nat
<1> DEFINE import == IF e.import = e.name THEN <<>> ELSE e.import
<1>1. import \in Strings
  BY EmptySeq DEF EntryOK, Strings
<1> HIDE DEF import
<1>2. /\ Width * Len(import) \in Nat /\ uleb128_size(e.other) \in Nat
      /\ uleb128_size(e.offset) \in Nat
  BY <1>1, WidthIs, UlebIs
<1>3. Payload(e) = CASE e.kind = "reexport" -> 1 + uleb128_size(e.other) + Width * Len(import) + 1
        [] e.kind = "resolver" -> 1 + uleb128_size(e.offset) + uleb128_size(e.other)
        [] OTHER               -> 1 + uleb128_size(e.offset)
  BY DEF Payload, import
<1>4. CASE e.kind = "reexport"
  BY <1>2, <1>3, <1>4
<1>5. CASE e.kind = "resolver"
  BY <1>2, <1>3, <1>5
<1>6. CASE e.kind # "reexport" /\ e.kind # "resolver"
  BY <1>2, <1>3, <1>6
<1> QED BY <1>4, <1>5, <1>6

\* A node takes at least a byte.
LEMMA NodeBytesIs ==
  ASSUME NEW all, NEW n, IsSeq(n.children),
         \A j \in DOMAIN n.children : n.children[j].partialString \in Strings,
         n.terminalEntry = NoEntry \/ EntryOK(n.terminalEntry)
  PROVE  NodeBytes(all, n) \in Nat \ {0}
<1> DEFINE own == IF n.terminalEntry = NoEntry THEN 1
                  ELSE Payload(n.terminalEntry) + uleb128_size(Payload(n.terminalEntry))
           L == Len(n.children)
           B(i) == Width * Len(n.children[i].partialString) + 1
                     + uleb128_size(all[n.children[i].child].trieOffset)
           lens(f) == [i \in 0 .. L |->
                         IF i = 0 THEN 0
                         ELSE f[i - 1] + Width * Len(n.children[i].partialString) + 1
                                + uleb128_size(all[n.children[i].child].trieOffset)]
           len == CHOOSE f : f = lens(f)
<1>1. own \in Nat \ {0}
  BY PayloadIs, UlebIs
<1>2. L \in Nat /\ DOMAIN n.children = 1 .. L
  BY SeqLen
<1>3. \A i \in 1 .. L : Width * Len(n.children[i].partialString) \in Nat
  BY <1>2, WidthIs
<1>4. \A i \in 1 .. L : uleb128_size(all[n.children[i].child].trieOffset) \in Nat
  BY UlebIs
<1>5. \A i \in 1 .. L : B(i) \in Nat
  BY <1>3, <1>4
<1> HIDE DEF L, own
<1> DEFINE F == [i \in 1 .. L |-> [v \in Nat |-> v + B(i)]]
<1>6. StepsOn(Nat, L, F)
  BY <1>5 DEF StepsOn
<1>7. PICK g : ResultsOf(Nat, L, 0, F, g)
  BY <1>2, <1>6, Iterated
<1>8. g \in [0 .. L -> Nat] /\ g[0] = 0 /\ \A i \in 1 .. L : g[i] = g[i - 1] + B(i)
  <2>1. g \in [0 .. L -> Nat] /\ g[0] = 0 /\ \A i \in 1 .. L : g[i] = F[i][g[i - 1]]
    BY <1>7 DEF ResultsOf
  <2>2. \A i \in 1 .. L : g[i - 1] \in Nat
    BY <1>2, <2>1
  <2> QED BY <2>1, <2>2
<1>9. g = lens(g)
  <2>1. \A i \in 0 .. L : g[i] = lens(g)[i]
    <3> TAKE i \in 0 .. L
    <3>1. CASE i = 0
      BY <1>8, <3>1
    <3>2. CASE i # 0
      <4>1. i \in 1 .. L /\ i - 1 \in 0 .. L
        BY <1>2, <3>2
      <4>2. /\ Width * Len(n.children[i].partialString) \in Nat
            /\ uleb128_size(all[n.children[i].child].trieOffset) \in Nat /\ g[i - 1] \in Nat
        BY <1>3, <1>4, <1>8, <4>1
      <4> QED BY <1>8, <3>2, <4>1, <4>2
    <3> QED BY <3>1, <3>2
  <2> QED BY <1>8, <2>1
<1>10. len = lens(len)
  BY <1>9, Zenon
<1> HIDE DEF len
<1> DEFINE T == {i \in 0 .. L : len[i] \notin Nat}
<1>11. T = {}
  <2> SUFFICES ASSUME T # {} PROVE FALSE
    OBVIOUS
  <2>0. T \in SUBSET Nat
    BY <1>2
  <2>1. PICK i \in T : \A j \in T : i <= j
    BY <2>0, LeastNat
  <2>2. len[0] = 0
    BY <1>2, <1>10
  <2>3. i \in 1 .. L /\ i - 1 \in 0 .. L /\ i - 1 \notin T
    BY <1>2, <2>1, <2>2
  <2>4. len[i - 1] \in Nat
    BY <2>3
  <2>5. len[i] = len[i - 1] + Width * Len(n.children[i].partialString) + 1
                   + uleb128_size(all[n.children[i].child].trieOffset)
    <3>1. i \in 0 .. L /\ i # 0
      BY <1>2, <2>3
    <3>2. len[i] = lens(len)[i]
      BY <1>10, Zenon
    <3> QED BY <3>1, <3>2
  <2>6. /\ Width * Len(n.children[i].partialString) \in Nat
        /\ uleb128_size(all[n.children[i].child].trieOffset) \in Nat
    BY <1>3, <1>4, <2>3
  <2>7. len[i] \in Nat
    BY <2>4, <2>5, <2>6
  <2> QED BY <2>7
<1>12. len[L] \in Nat
  BY <1>2, <1>11
<1>13. NodeBytes(all, n) = own + 1 + len[L]
  BY Zenon DEF NodeBytes, own, len, L
<1> QED BY <1>1, <1>12, <1>13

-----------------------------------------------------------------------------
(***************************************************************************)
(* The trie.                                                               *)
(***************************************************************************)

IsTerminal(x) == x.terminalEntry # NoEntry

\* The edges of a node are not empty, lead to the nodes of the longer names
\* and can be told apart by their first letter; an entry is at the node of
\* its name.
NodeFits(N, i) ==
  LET edges == N[i].children
  IN  /\ N[i].cummulativeString \in Strings
      /\ \A j \in DOMAIN edges :
           /\ edges[j].partialString \in Strings /\ edges[j].partialString # <<>>
           /\ N[edges[j].child].cummulativeString = N[i].cummulativeString \o edges[j].partialString
      /\ \A j, k \in DOMAIN edges :
           j # k => First(edges[j].partialString) # First(edges[k].partialString)
      /\ IsTerminal(N[i]) => /\ EntryOK(N[i].terminalEntry)
                             /\ N[i].terminalEntry.name = N[i].cummulativeString

HasParent(N, c) == \E i \in DOMAIN N : \E j \in DOMAIN N[i].children : N[i].children[j].child = c

\* An entry is at or below the node.
LeadsOn(N, c) ==
  \E t \in DOMAIN N :
    IsTerminal(N[t]) /\ Begins(N[c].cummulativeString, N[t].cummulativeString)

\* The entries are in the order of their names.
InOrder(N) ==
  \A i, j \in DOMAIN N :
    i < j /\ IsTerminal(N[i]) /\ IsTerminal(N[j])
      => Below(N[i].cummulativeString, N[j].cummulativeString)

Trie(N) ==
  /\ N[1].cummulativeString = <<>>
  /\ \A i \in DOMAIN N : NodeFits(N, i)
  /\ \A c \in DOMAIN N \ {1} : HasParent(N, c) /\ LeadsOn(N, c)
  /\ InOrder(N)

\* N without the offsets is M without the offsets.
SameNodes(N, M) ==
  /\ DOMAIN M = DOMAIN N
  /\ \A i \in DOMAIN N : /\ M[i].cummulativeString = N[i].cummulativeString
                         /\ M[i].children = N[i].children
                         /\ M[i].terminalEntry = N[i].terminalEntry

\* Offsets do not matter for what a trie says.
LEMMA SameTrie ==
  ASSUME NEW N, IsSeq(N), N # <<>>, \A i \in DOMAIN N : NodeOK(N[i], Len(N)),
         NEW M, SameNodes(N, M), Trie(N)
  PROVE  Trie(M)
<1>1. Len(N) \in Nat /\ DOMAIN N = 1 .. Len(N) /\ 1 \in DOMAIN N
  BY SeqLen
<1>2. M[1].cummulativeString = <<>>
  BY <1>1 DEF SameNodes, Trie
<1>3. ASSUME NEW i \in DOMAIN M PROVE NodeFits(M, i)
  <2>1. i \in DOMAIN N /\ NodeFits(N, i)
    BY DEF SameNodes, Trie
  <2>2. \A j \in DOMAIN N[i].children : N[i].children[j].child \in DOMAIN N
    BY <1>1, <2>1 DEF NodeOK
  <2> QED BY <2>1, <2>2 DEF SameNodes, NodeFits, IsTerminal
<1>4. ASSUME NEW c \in DOMAIN M \ {1} PROVE HasParent(M, c) /\ LeadsOn(M, c)
  <2>1. c \in DOMAIN N \ {1}
    BY DEF SameNodes
  <2>2. HasParent(N, c) /\ LeadsOn(N, c)
    BY <2>1 DEF Trie
  <2>3. HasParent(M, c)
    BY <2>2 DEF SameNodes, HasParent
  <2>4. LeadsOn(M, c)
    BY <2>1, <2>2 DEF SameNodes, LeadsOn, IsTerminal
  <2> QED BY <2>3, <2>4
<1>5. InOrder(M)
  BY DEF SameNodes, InOrder, IsTerminal, Trie
<1> QED BY <1>2, <1>3, <1>4, <1>5 DEF Trie

\* M has one more node than N, and other edges at node k only.
Grown(N, M, k) ==
  /\ IsSeq(M) /\ Len(M) = Len(N) + 1
  /\ \A i \in DOMAIN N : /\ M[i].cummulativeString = N[i].cummulativeString
                         /\ M[i].terminalEntry = N[i].terminalEntry
                         /\ i # k => M[i].children = N[i].children

\* A trie grows to a trie when the two nodes fit and no child is lost.
LEMMA TrieGrows ==
  ASSUME NEW N, IsSeq(N), N # <<>>, \A i \in DOMAIN N : NodeOK(N[i], Len(N)),
         NEW k \in DOMAIN N, NEW M, Grown(N, M, k), Trie(N),
         NodeFits(M, k), NodeFits(M, Len(N) + 1),
         HasParent(M, Len(N) + 1), LeadsOn(M, Len(N) + 1),
         \A j \in DOMAIN N[k].children : HasParent(M, N[k].children[j].child),
         IsTerminal(M[Len(N) + 1]) =>
           \A i \in DOMAIN N : IsTerminal(N[i]) =>
             Below(N[i].cummulativeString, M[Len(N) + 1].cummulativeString)
  PROVE  Trie(M)
<1>1. /\ Len(N) \in Nat /\ DOMAIN N = 1 .. Len(N) /\ 1 \in DOMAIN N
      /\ DOMAIN M = 1 .. Len(N) + 1
  BY SeqLen DEF Grown
<1>2. M[1].cummulativeString = <<>>
  BY <1>1 DEF Grown, Trie
<1>3. ASSUME NEW i \in DOMAIN M PROVE NodeFits(M, i)
  <2>1. CASE i = Len(N) + 1 \/ i = k
    BY <2>1
  <2>2. CASE i \in DOMAIN N /\ i # k
    <3>1. NodeFits(N, i)
      BY <2>2 DEF Trie
    <3>2. \A j \in DOMAIN N[i].children : N[i].children[j].child \in DOMAIN N
      BY <1>1, <2>2 DEF NodeOK
    <3>3. \A j \in DOMAIN N[i].children :
            M[N[i].children[j].child].cummulativeString = N[N[i].children[j].child].cummulativeString
      BY <3>2 DEF Grown
    <3>4. /\ M[i].cummulativeString = N[i].cummulativeString
          /\ M[i].terminalEntry = N[i].terminalEntry /\ M[i].children = N[i].children
      BY <2>2 DEF Grown
    <3>5. IsTerminal(M[i]) <=> IsTerminal(N[i])
      BY <3>4 DEF IsTerminal
    <3>6. \A j \in DOMAIN M[i].children :
            /\ M[i].children[j].partialString \in Strings /\ M[i].children[j].partialString # <<>>
            /\ M[M[i].children[j].child].cummulativeString
                 = M[i].cummulativeString \o M[i].children[j].partialString
      <4>1. \A j \in DOMAIN N[i].children :
              /\ N[i].children[j].partialString \in Strings /\ N[i].children[j].partialString # <<>>
              /\ N[N[i].children[j].child].cummulativeString
                   = N[i].cummulativeString \o N[i].children[j].partialString
        BY <3>1 DEF NodeFits
      <4>2. \A j \in DOMAIN N[i].children :
              /\ N[i].children[j].partialString \in Strings /\ N[i].children[j].partialString # <<>>
              /\ M[N[i].children[j].child].cummulativeString
                   = N[i].cummulativeString \o N[i].children[j].partialString
        BY <3>3, <4>1
      <4> QED BY <3>4, <4>2
    <3>7. \A j, l \in DOMAIN M[i].children :
            j # l => First(M[i].children[j].partialString) # First(M[i].children[l].partialString)
      BY <3>1, <3>4 DEF NodeFits
    <3>8. /\ M[i].cummulativeString \in Strings
          /\ IsTerminal(M[i]) => /\ EntryOK(M[i].terminalEntry)
                                 /\ M[i].terminalEntry.name = M[i].cummulativeString
      BY <3>1, <3>4, <3>5 DEF NodeFits
    <3> QED BY <3>6, <3>7, <3>8 DEF NodeFits
  <2> QED BY <1>1, <2>1, <2>2
<1>4. ASSUME NEW c \in DOMAIN M \ {1} PROVE HasParent(M, c) /\ LeadsOn(M, c)
  <2>1. CASE c = Len(N) + 1
    BY <2>1
  <2>2. CASE c \in DOMAIN N \ {1}
    <3>1. HasParent(N, c) /\ LeadsOn(N, c)
      BY <2>2 DEF Trie
    <3>2. HasParent(M, c)
      <4>1. PICK i \in DOMAIN N : \E j \in DOMAIN N[i].children : N[i].children[j].child = c
        BY <3>1 DEF HasParent
      <4>2. CASE i = k
        BY <4>1, <4>2
      <4>3. CASE i # k
        BY <1>1, <4>1, <4>3 DEF HasParent, Grown
      <4> QED BY <4>2, <4>3
    <3>3. LeadsOn(M, c)
      BY <1>1, <2>2, <3>1 DEF Grown, LeadsOn, IsTerminal
    <3> QED BY <3>2, <3>3
  <2> QED BY <1>1, <2>1, <2>2
<1>5. InOrder(M)
  <2> SUFFICES ASSUME NEW i \in DOMAIN M, NEW j \in DOMAIN M, i < j,
                      IsTerminal(M[i]), IsTerminal(M[j])
               PROVE  Below(M[i].cummulativeString, M[j].cummulativeString)
    BY DEF InOrder
  <2>1. i \in DOMAIN N /\ IsTerminal(N[i]) /\ M[i].cummulativeString = N[i].cummulativeString
    BY <1>1 DEF Grown, IsTerminal
  <2>2. CASE j = Len(N) + 1
    BY <2>1, <2>2
  <2>3. CASE j \in DOMAIN N
    <3>1. IsTerminal(N[j]) /\ M[j].cummulativeString = N[j].cummulativeString
      BY <2>3 DEF Grown, IsTerminal
    <3> QED BY <2>1, <2>3, <3>1 DEF Trie, InOrder
  <2> QED BY <1>1, <2>2, <2>3
<1> QED BY <1>2, <1>3, <1>4, <1>5 DEF Trie

-----------------------------------------------------------------------------
(***************************************************************************)
(* The invariant of addEntry.                                              *)
(***************************************************************************)

\* The entries left have different names, are taken in the order of the names
\* and come after those in the trie.
Order ==
  /\ IsFiniteSet(todo) /\ \A x \in todo : EntryOK(x.export)
  /\ \A x, y \in todo : x # y =>
       /\ x.export.name # y.export.name
       /\ Sooner(x, y) <=> Below(x.export.name, y.export.name)
  /\ \A i \in DOMAIN nodes : \A y \in todo :
       IsTerminal(nodes[i]) => Below(nodes[i].cummulativeString, y.export.name)
  /\ pc # "add" => todo = {}

\* The entry that is being added comes between, and its name begins with that
\* of the node whose addEntry runs.
Adding ==
  at # 0 =>
    /\ EntryOK(entry) /\ Begins(nodes[at].cummulativeString, entry.name)
    /\ \A i \in DOMAIN nodes : IsTerminal(nodes[i]) => Below(nodes[i].cummulativeString, entry.name)
    /\ \A y \in todo : Below(entry.name, y.export.name)

\* What is in the trie, in hand or left is what is wanted.
Entries ==
  {nodes[i].terminalEntry : i \in {k \in DOMAIN nodes : IsTerminal(nodes[k])}}
    \cup (IF at = 0 THEN {} ELSE {entry}) \cup {x.export : x \in todo}
Kept == wanted = {Encoded(e) : e \in Entries}

\* What appendToStream writes of a node.
WrittenNode(N, i) ==
  [place |-> N[i].trieOffset, export |-> Encoded(N[i].terminalEntry),
   children |-> {[string |-> e.partialString, place |-> N[e.child].trieOffset] :
                   e \in {N[i].children[j] : j \in DOMAIN N[i].children}}]

Streamed ==
  pc \in {"write", "built"} =>
    /\ Chained(nodes, Len(nodes))
    /\ \A i \in DOMAIN stream : stream[i] = WrittenNode(nodes, i)

TInv == Trie(nodes) /\ Order /\ Adding /\ Kept /\ Streamed

\* A finite set of entries with different names has a first one.
LEMMA FirstEntry ==
  ASSUME NEW S, IsFiniteSet(S), S # {}, \A x \in S : EntryOK(x.export),
         \A x, y \in S : x # y => x.export.name # y.export.name
  PROVE  \E x \in S : \A y \in S \ {x} : Below(x.export.name, y.export.name)
<1> DEFINE Under(x) == {y \in S : Below(y.export.name, x.export.name)}
           T == {Cardinality(Under(x)) : x \in S}
<1>1. \A x \in S : x.export.name \in Strings
  BY DEF EntryOK
<1>2. \A x \in S : IsFiniteSet(Under(x)) /\ Cardinality(Under(x)) \in Nat
  BY FS_Subset, FS_CardinalityType
<1>3. T \in SUBSET Nat /\ T # {}
  BY <1>2
<1>4. PICK n \in T : \A m \in T : n <= m
  BY <1>3, LeastNat
<1>5. PICK x \in S : n = Cardinality(Under(x))
  OBVIOUS
<1>6. ASSUME NEW y \in S \ {x}, ~Below(x.export.name, y.export.name) PROVE FALSE
  <2>1. Below(y.export.name, x.export.name)
    BY <1>1, <1>6, BelowTotal
  <2>2. Under(y) \subseteq Under(x)
    BY <1>1, <2>1, BelowOrder
  <2>3. y \in Under(x) /\ y \notin Under(y)
    BY <1>1, <2>1, BelowOrder
  <2>4. Under(y) \in SUBSET Under(x) /\ Under(y) # Under(x)
    BY <2>2, <2>3
  <2>5. /\ IsFiniteSet(Under(x)) /\ Cardinality(Under(x)) \in Nat
        /\ Cardinality(Under(y)) \in Nat
    BY <1>2
  <2>6. n <= Cardinality(Under(y))
    BY <1>4
  <2> HIDE DEF Under
  <2>7. Cardinality(Under(y)) <= Cardinality(Under(x)) /\ Cardinality(Under(y)) # Cardinality(Under(x))
    BY <2>4, <2>5, FS_Subset
  <2> QED BY <1>5, <2>5, <2>6, <2>7
<1> QED BY <1>6

\* A root without entries is a trie.
LEMMA RootTrie ==
  LET N == <<NewNode(<<>>)>>
  IN  Trie(N) /\ \A i \in DOMAIN N : ~IsTerminal(N[i])
<1> DEFINE N == <<NewNode(<<>>)>>
<1>1. DOMAIN N = {1} /\ N[1] = NewNode(<<>>)
  OBVIOUS
<1>2. N[1].cummulativeString = <<>> /\ N[1].children = <<>> /\ N[1].terminalEntry = NoEntry
  BY <1>1 DEF NewNode
<1>3. <<>> \in Strings /\ DOMAIN <<>> = {}
  BY EmptySeq DEF Strings
<1> HIDE DEF N
<1>4. ~IsTerminal(N[1])
  BY <1>2 DEF IsTerminal
<1>5. NodeFits(N, 1)
  BY <1>2, <1>3, <1>4 DEF NodeFits
<1> QED BY <1>1, <1>2, <1>4, <1>5 DEF Trie, InOrder, N

\* A set is finite when each of its members is of one of finitely many.
LEMMA FiniteImage ==
  ASSUME NEW S, IsFiniteSet(S), NEW f, NEW T, \A y \in T : \E x \in S : y = f[x],
         DOMAIN f = S, f = [x \in S |-> f[x]]
  PROVE  IsFiniteSet(T)
<1> DEFINE R == {f[x] : x \in S}
<1>1. f \in [S -> R] /\ \A y \in R : \E x \in S : f[x] = y
  OBVIOUS
<1>2. f \in Surjection(S, R)
  BY <1>1 DEF Surjection
<1>3. IsFiniteSet(R)
  BY <1>2, FS_Surjection
<1>4. T \in SUBSET R
  OBVIOUS
<1> HIDE DEF R
<1> QED BY <1>3, <1>4, FS_Subset

\* What is exported has names, each its own.
LEMMA ExportsAre ==
  ASSUME NEW i \in Images
  PROVE  /\ \A e \in Exports(i.atoms) : EntryOK(e)
         /\ \A e, f \in Exports(i.atoms) : e.name = f.name => e = f
         /\ IsFiniteSet({[export |-> e, place |-> 0] : e \in Exports(i.atoms)})
<1> DEFINE A == {b \in i.atoms : ~(b.kind = "proxy" /\ b.reExported)}
           E(a) == [name |-> a.name,
                    kind |-> IF a.kind = "proxy" THEN "reexport" ELSE a.kind,
                    offset |-> IF a.kind = "proxy" THEN 0
                               ELSE IF a.kind = "resolver" THEN a.stub ELSE a.address,
                    other |-> CASE a.kind = "proxy" -> a.ordinal
                                [] a.kind = "resolver" -> a.address [] OTHER -> 0,
                    import |-> a.aliasOf]
           f == [a \in A |-> [export |-> E(a), place |-> 0]]
           T == {[export |-> e, place |-> 0] : e \in Exports(i.atoms)}
<1>1. /\ IsFiniteSet(i.atoms)
      /\ \A a \in i.atoms : /\ a.name \in Strings /\ a.name # <<>> /\ a.aliasOf \in Strings
                            /\ a.kind \in {"regular", "resolver", "proxy"}
      /\ \A a, b \in i.atoms : a.name = b.name => a = b
  BY ExportsAssumption
<1>2. Exports(i.atoms) = {E(a) : a \in A} /\ A \subseteq i.atoms
  BY Zenon DEF Exports
<1> HIDE DEF A
<1>3. ASSUME NEW a \in A PROVE EntryOK(E(a))
  <2>1. a \in i.atoms
    BY <1>2
  <2>2. /\ E(a).name = a.name /\ E(a).import = a.aliasOf
        /\ E(a).kind = IF a.kind = "proxy" THEN "reexport" ELSE a.kind
    OBVIOUS
  <2>3. E(a).kind # "none"
    BY <1>1, <2>1, <2>2
  <2>4. E(a) = [name |-> E(a).name, kind |-> E(a).kind, offset |-> E(a).offset,
                other |-> E(a).other, import |-> E(a).import]
    OBVIOUS
  <2> HIDE DEF E
  <2> QED BY <1>1, <2>1, <2>2, <2>3, <2>4 DEF EntryOK
<1>4. \A a \in A : E(a).name = a.name
  OBVIOUS
<1> HIDE DEF E
<1>5. \A e, g \in Exports(i.atoms) : e.name = g.name => e = g
  BY <1>1, <1>2, <1>4
<1>6. IsFiniteSet(A)
  BY <1>1, <1>2, FS_Subset
<1>7. DOMAIN f = A /\ f = [a \in A |-> f[a]] /\ \A y \in T : \E a \in A : y = f[a]
  BY <1>2
<1> HIDE DEF f
<1>8. IsFiniteSet(T)
  BY <1>6, <1>7, FiniteImage
<1> QED BY <1>2, <1>3, <1>5, <1>8

LEMMA TInvInit == Init => TInv
<1> SUFFICES ASSUME Init PROVE TInv
  OBVIOUS
<1> DEFINE X == Exports(image.atoms)
<1>1. /\ image \in Images /\ round = 1 /\ wanted = {Encoded(e) : e \in X}
      /\ todo = {[export |-> e, place |-> 0] : e \in X}
      /\ at = 0 /\ nodes = <<NewNode(<<>>)>> /\ pc = "add"
  BY DEF Init
<1>2. /\ \A e \in X : EntryOK(e)
      /\ \A e, f \in X : e.name = f.name => e = f
      /\ IsFiniteSet({[export |-> e, place |-> 0] : e \in X})
  BY <1>1, ExportsAre
<1>3. Trie(nodes) /\ \A i \in DOMAIN nodes : ~IsTerminal(nodes[i])
  BY <1>1, RootTrie
<1> HIDE DEF X
<1>4. Order
  <2>1. IsFiniteSet(todo)
    BY <1>1, <1>2, Zenon
  <2>2. \A x \in todo : x.export \in X /\ x = [export |-> x.export, place |-> 0]
    BY <1>1
  <2>3. \A x \in todo : EntryOK(x.export)
    BY <1>2, <2>2
  <2>4. ASSUME NEW x \in todo, NEW y \in todo, x # y
        PROVE  /\ x.export.name # y.export.name
               /\ Sooner(x, y) <=> Below(x.export.name, y.export.name)
    <3>1. x.export.name # y.export.name
      BY <1>2, <2>2, <2>4
    <3>2. x.export.name \in Strings /\ y.export.name \in Strings
      BY <2>3 DEF EntryOK
    <3>3. Sooner(x, y) = NameLess(x.export.name, y.export.name)
      BY <1>1 DEF Sooner
    <3> QED BY <3>1, <3>2, <3>3, NameLessIs
  <2> QED BY <1>1, <1>3, <2>1, <2>3, <2>4 DEF Order
<1>5. Adding /\ Streamed
  BY <1>1 DEF Adding, Streamed
<1>6. Kept
  <2>0. \A e \in X : [export |-> e, place |-> 0] \in todo /\ [export |-> e, place |-> 0].export = e
    BY <1>1
  <2>1. {x.export : x \in todo} = X
    BY <1>1, <2>0
  <2>2. Entries = X
    BY <1>1, <1>3, <2>1 DEF Entries
  <2> QED BY <1>1, <2>2 DEF Kept
<1> QED BY <1>3, <1>4, <1>5, <1>6 DEF TInv

-----------------------------------------------------------------------------
(***************************************************************************)
(* addEntry keeps the trie.                                                *)
(***************************************************************************)

\* The first of the entries left is taken.
LEMMA NextEntryT ==
  ASSUME IInv, TInv, NextEntry
  PROVE  TInv'
<1>1. /\ pc = "add" /\ at = 0 /\ todo # {} /\ at' = 1
      /\ UNCHANGED <<nodes, pc, round, wanted, stream>>
  BY DEF NextEntry
<1>2. \E x \in todo : \A y \in todo \ {x} : Sooner(x, y)
  <2>1. PICK x \in todo : \A y \in todo \ {x} : Below(x.export.name, y.export.name)
    BY <1>1, FirstEntry DEF TInv, Order
  <2>2. \A y \in todo \ {x} : Sooner(x, y)
    BY <2>1 DEF TInv, Order
  <2> QED BY <2>2
<1>3. PICK next \in todo : /\ \A y \in todo \ {next} : Sooner(next, y)
                           /\ entry' = next.export /\ todo' = todo \ {next}
  <2> DEFINE x == CHOOSE x \in todo : \A y \in todo \ {x} : Sooner(x, y)
  <2>1. x \in todo /\ \A y \in todo \ {x} : Sooner(x, y)
    BY <1>2, Zenon
  <2>2. entry' = x.export /\ todo' = todo \ {x}
    BY DEF NextEntry
  <2> HIDE DEF x
  <2> QED BY <2>1, <2>2
<1>4. /\ IsFiniteSet(todo) /\ \A x \in todo : EntryOK(x.export)
      /\ \A x, y \in todo : x # y =>
           /\ x.export.name # y.export.name
           /\ Sooner(x, y) <=> Below(x.export.name, y.export.name)
      /\ \A i \in DOMAIN nodes : \A y \in todo :
           IsTerminal(nodes[i]) => Below(nodes[i].cummulativeString, y.export.name)
  BY DEF TInv, Order
<1>5. Order'
  <2>1. IsFiniteSet(todo')
    BY <1>3, <1>4, FS_RemoveElement
  <2>2. \A x, y : Sooner(x, y)' <=> Sooner(x, y)
    BY <1>1 DEF Sooner
  <2>3. \A x, y \in todo' : x # y =>
          /\ x.export.name # y.export.name
          /\ Sooner(x, y)' <=> Below(x.export.name, y.export.name)
    BY <1>3, <1>4, <2>2
  <2> QED BY <1>1, <1>3, <1>4, <2>1, <2>3 DEF Order
<1>6. Adding'
  <2>1. EntryOK(entry')
    BY <1>3, <1>4
  <2>2. nodes[1].cummulativeString = <<>>
    BY DEF TInv, Trie
  <2>3. Begins(nodes'[at'].cummulativeString, entry'.name)
    <3>1. Begins(<<>>, entry'.name)
      <4>1. Len(entry'.name) \in Nat /\ Len(<<>>) = 0
        BY <2>1, NameIs, EmptySeq DEF EntryOK
      <4> QED BY <4>1 DEF Begins
    <3> QED BY <1>1, <2>2, <3>1
  <2>4. \A i \in DOMAIN nodes' : IsTerminal(nodes'[i]) =>
          Below(nodes'[i].cummulativeString, entry'.name)
    BY <1>1, <1>3, <1>4
  <2>5. \A y \in todo' : Below(entry'.name, y.export.name)
    BY <1>3, <1>4
  <2> QED BY <2>1, <2>3, <2>4, <2>5 DEF Adding
<1>7. Kept'
  <2>1. Entries' = Entries
    <3>1. {x.export : x \in todo} = {next.export} \cup {x.export : x \in todo'}
      BY <1>3
    <3> QED BY <1>1, <1>3, <3>1 DEF Entries
  <2> QED BY <1>1, <2>1 DEF TInv, Kept
<1>8. Trie(nodes)'
  BY <1>1 DEF TInv
<1>9. Streamed'
  BY <1>1 DEF Streamed
<1> QED BY <1>5, <1>6, <1>7, <1>8, <1>9 DEF TInv

\* What is left of the name at a node.  Something is: a name that is the
\* beginning of another one is added before it.
LEMMA TailIs ==
  ASSUME IInv, TInv, at # 0
  PROVE  /\ at \in DOMAIN nodes /\ NodeFits(nodes, at)
         /\ entry.name \in Strings /\ nodes[at].cummulativeString \in Strings
         /\ Tail1 \in Strings /\ Tail1 # <<>>
         /\ entry.name = nodes[at].cummulativeString \o Tail1
         /\ Begins(nodes[at].cummulativeString, entry.name)
         /\ \A u \in Strings :
              Begins(u, Tail1) <=> Begins(nodes[at].cummulativeString \o u, entry.name)
<1> DEFINE s == nodes[at].cummulativeString
<1>1. at \in DOMAIN nodes
  BY SeqLen DEF IInv, Nodes
<1>2. NodeFits(nodes, at) /\ s \in Strings
  BY <1>1 DEF TInv, Trie, NodeFits
<1>3. /\ EntryOK(entry) /\ Begins(s, entry.name) /\ entry.name \in Strings /\ entry.name # <<>>
      /\ \A i \in DOMAIN nodes :
           IsTerminal(nodes[i]) => Below(nodes[i].cummulativeString, entry.name)
  BY DEF TInv, Adding, EntryOK
<1>4. /\ Tail1 \in Strings /\ entry.name = s \o Tail1
      /\ \A u \in Strings : Begins(u, Tail1) <=> Begins(s \o u, entry.name)
  BY <1>2, <1>3, NameSplit DEF Tail1
<1>5. ASSUME Tail1 = <<>> PROVE FALSE
  <2>1. entry.name = s
    BY <1>2, <1>4, <1>5, ConcatEmptySeq DEF Strings
  <2>2. at # 1
    BY <1>3, <2>1 DEF TInv, Trie
  <2>3. LeadsOn(nodes, at)
    BY <1>1, <2>2 DEF TInv, Trie
  <2>4. PICK t \in DOMAIN nodes :
          IsTerminal(nodes[t]) /\ Begins(s, nodes[t].cummulativeString)
    BY <2>3 DEF LeadsOn
  <2>5. nodes[t].cummulativeString \in Strings
    BY DEF TInv, Trie, NodeFits
  <2>6. ~Below(nodes[t].cummulativeString, s)
    BY <1>2, <2>4, <2>5, BeginningFirst
  <2> QED BY <1>3, <2>1, <2>4, <2>6
<1> QED BY <1>1, <1>2, <1>3, <1>4, <1>5

\* The edge followed starts with the letter that the rest of the name does.
LEMMA AlikeEdge ==
  ASSUME IInv, TInv, at # 0, Alike # {}
  PROVE  LET e == nodes[at].children[TheEdge]
         IN  /\ TheEdge \in DOMAIN nodes[at].children
             /\ e.partialString \in Strings /\ e.partialString # <<>>
             /\ e.child \in DOMAIN nodes
             /\ nodes[e.child].cummulativeString = nodes[at].cummulativeString \o e.partialString
             /\ First(e.partialString) = First(Tail1)
<1>1. at \in DOMAIN nodes /\ NodeFits(nodes, at)
  BY TailIs
<1>2. TheEdge \in DOMAIN nodes[at].children
  BY TheEdgeIs DEF IInv
<1>3. TheEdge \in Alike
  <2>1. Alike \subseteq Nat
    <3>1. IsSeq(nodes[at].children)
      BY <1>1 DEF IInv, Nodes, NodeOK
    <3>2. DOMAIN nodes[at].children \subseteq Nat
      BY <3>1, SeqLen
    <3> QED BY <3>2 DEF Alike
  <2>2. PICK k \in Alike : \A j \in Alike : k <= j
    BY <2>1, LeastNat
  <2> QED BY <2>2, Zenon DEF TheEdge
<1>4. First(nodes[at].children[TheEdge].partialString) = First(Tail1)
  BY <1>3 DEF Alike
<1>5. nodes[at].children[TheEdge].child \in DOMAIN nodes
  BY <1>1, <1>2, SeqLen DEF IInv, Nodes, NodeOK
<1> QED BY <1>1, <1>2, <1>4, <1>5 DEF NodeFits

\* Going down an edge reads more of the name.
LEMMA DescendT ==
  ASSUME IInv, TInv, Descend
  PROVE  TInv'
<1> DEFINE e == nodes[at].children[TheEdge]
<1>1. /\ pc = "add" /\ at # 0 /\ Alike # {} /\ IsPrefix(e.partialString, Tail1) /\ at' = e.child
      /\ UNCHANGED <<nodes, pc, round, wanted, todo, entry, stream>>
  BY DEF Descend
<1>2. /\ e.partialString \in Strings /\ e.child \in DOMAIN nodes
      /\ nodes[e.child].cummulativeString = nodes[at].cummulativeString \o e.partialString
  BY <1>1, AlikeEdge
<1> HIDE DEF e
<1>3. Begins(nodes[at'].cummulativeString, entry.name)
  <2>1. /\ Tail1 \in Strings
        /\ \A u \in Strings :
             Begins(u, Tail1) <=> Begins(nodes[at].cummulativeString \o u, entry.name)
    BY <1>1, TailIs
  <2>2. Begins(e.partialString, Tail1)
    BY <1>1, <1>2, <2>1, PrefixIs
  <2> QED BY <1>1, <1>2, <2>1, <2>2
<1>4. at' # 0
  BY <1>1, <1>2, SeqLen DEF IInv, Nodes
<1>5. Adding'
  BY <1>1, <1>3, <1>4 DEF TInv, Adding
<1>6. Order'
  <2>1. \A x, y : Sooner(x, y)' <=> Sooner(x, y)
    BY <1>1 DEF Sooner
  <2> QED BY <1>1, <2>1 DEF TInv, Order
<1>7. Kept'
  <2>1. Entries' = Entries
    BY <1>1, <1>4 DEF Entries
  <2> QED BY <1>1, <2>1 DEF TInv, Kept
<1>8. Trie(nodes)' /\ Streamed'
  BY <1>1 DEF TInv, Streamed
<1> QED BY <1>5, <1>6, <1>7, <1>8 DEF TInv

\* Concatenation is associative.
LEMMA ThreeNames ==
  ASSUME NEW s \in Strings, NEW t \in Strings, NEW u \in Strings
  PROVE  (s \o t) \o u = s \o (t \o u)
<1> DEFINE S == Nat \ {0}
<1>1. s \in Seq(S) /\ t \in Seq(S) /\ u \in Seq(S)
  BY DEF Strings
<1> HIDE DEF S
<1> QED BY <1>1, ConcatAssociative

\* A node gets other edges and another node is added.
LEMMA GrownBy ==
  ASSUME Nodes, NEW k \in DOMAIN nodes, NEW edges, NEW cut
  PROVE  LET M == Append([nodes EXCEPT ![k].children = edges], cut)
         IN  /\ Grown(nodes, M, k) /\ M[k].children = edges
             /\ M[Len(nodes) + 1] = cut
<1> DEFINE N == [nodes EXCEPT ![k].children = edges]
           x == [nodes[k] EXCEPT !.children = edges]
           M == Append(N, cut)
<1>1. IsSeq(nodes) /\ NodeOK(nodes[k], Len(nodes)) /\ Len(nodes) \in Nat
      /\ DOMAIN nodes = 1 .. Len(nodes)
  BY SeqLen DEF Nodes
<1>2. DOMAIN N = DOMAIN nodes /\ N = [i \in DOMAIN nodes |-> N[i]]
  OBVIOUS
<1>3. \A i \in DOMAIN nodes : N[i] = IF i = k THEN x ELSE nodes[i]
  OBVIOUS
<1>4. x = [cummulativeString |-> nodes[k].cummulativeString, children |-> edges,
           terminalEntry |-> nodes[k].terminalEntry, trieOffset |-> nodes[k].trieOffset]
  BY <1>1 DEF NodeOK
<1>5. /\ x.cummulativeString = nodes[k].cummulativeString /\ x.children = edges
      /\ x.terminalEntry = nodes[k].terminalEntry
  BY <1>4
<1> HIDE DEF N, x
<1>6. IsSeq(N) /\ Len(N) = Len(nodes)
  BY <1>1, <1>2, SeqExcept
<1>7. /\ IsSeq(M) /\ Len(M) = Len(nodes) + 1 /\ M[Len(nodes) + 1] = cut
      /\ \A i \in 1 .. Len(nodes) : M[i] = N[i]
  BY <1>6, SeqAppend
<1> HIDE DEF M
<1>8. \A i \in DOMAIN nodes : M[i] = IF i = k THEN x ELSE nodes[i]
  BY <1>1, <1>3, <1>7
<1>9. Grown(nodes, M, k) /\ M[k].children = edges
  BY <1>5, <1>7, <1>8 DEF Grown
<1> QED BY <1>7, <1>9 DEF M, N

\* Where an edge is cut: behind the longest common beginning.
LEMMA CutPlace ==
  ASSUME NEW s \in Strings, NEW t \in Strings, s # <<>>, t # <<>>, First(s) = First(t),
         ~IsPrefix(s, t)
  PROVE  \E n \in 1 .. (Len(s) - 1) :
           IsPrefix(SubSeq(s, 1, n), t) /\ ~IsPrefix(SubSeq(s, 1, n + 1), t)
<1>1. Len(s) \in Nat \ {0} /\ Len(t) \in Nat \ {0} /\ s[1] = t[1]
  BY NameIs DEF First
<1>2. \A m \in 0 .. Len(s) : SubSeq(s, 1, m) \in Strings
  BY FirstLetters
<1> DEFINE T == {m \in 1 .. Len(s) : ~IsPrefix(SubSeq(s, 1, m), t)}
<1>3. Len(s) \in T
  <2>1. SubSeq(s, 1, Len(s)) = s
    BY SubSeqFull DEF Strings
  <2>2. ~IsPrefix(SubSeq(s, 1, Len(s)), t)
    BY <2>1, Zenon
  <2> QED BY <1>1, <2>2
<1>4. T \in SUBSET Nat /\ T # {}
  BY <1>1, <1>3
<1>5. PICK m \in T : \A j \in T : m <= j
  BY <1>4, LeastNat
<1>6. 1 \notin T
  <2>1. 1 \in 0 .. Len(s)
    BY <1>1
  <2>2. SubSeq(s, 1, 1) \in Strings /\ Len(SubSeq(s, 1, 1)) = 1 /\ SubSeq(s, 1, 1)[1] = s[1]
    BY <2>1, FirstLetters
  <2>3. Begins(SubSeq(s, 1, 1), t)
    BY <1>1, <2>2 DEF Begins
  <2> QED BY <2>2, <2>3, PrefixIs
<1>7. m \in 1 .. Len(s) /\ m # 1
  BY <1>6
<1>8. m - 1 \in 1 .. (Len(s) - 1) /\ (m - 1) + 1 = m /\ m - 1 \notin T
  BY <1>1, <1>5, <1>7
<1>9. IsPrefix(SubSeq(s, 1, m - 1), t) /\ ~IsPrefix(SubSeq(s, 1, (m - 1) + 1), t)
  BY <1>8
<1> HIDE DEF T
<1> QED BY <1>8, <1>9

\* The two parts of an edge.
LEMMA CutEdge ==
  ASSUME NEW s \in Strings, NEW n \in 1 .. (Len(s) - 1)
  PROVE  LET a == SubSeq(s, 1, n)
             b == DropFirst(s, n)
         IN  /\ a \in Strings /\ a # <<>> /\ b \in Strings /\ b # <<>>
             /\ s = a \o b /\ First(a) = First(s)
<1> DEFINE a == SubSeq(s, 1, n)
           b == DropFirst(s, n)
<1>1. Len(s) \in Nat /\ n \in 0 .. Len(s) /\ n < Len(s) /\ n > 0
  BY NameIs
<1>2. a \in Strings /\ Len(a) = n /\ \A k \in 1 .. n : a[k] = s[k]
  BY <1>1, FirstLetters
<1>3. b \in Strings /\ Len(b) = Len(s) - n
  BY <1>1, LastLetters
<1>4. a # <<>> /\ b # <<>> /\ s # <<>>
  <2> HIDE DEF a, b
  <2>1. \A u \in Strings : u # <<>> <=> Len(u) > 0
    BY NameIs
  <2>2. Len(a) > 0 /\ Len(b) > 0 /\ Len(s) > 0
    BY <1>1, <1>2, <1>3
  <2> QED BY <1>2, <1>3, <2>1, <2>2
<1>5. Begins(a, s)
  BY <1>1, <1>2 DEF Begins
<1>6. s = a \o b
  BY <1>2, <1>5, NameSplit
<1>7. First(a) = First(s)
  BY <1>1, <1>2, <1>4 DEF First
<1> QED BY <1>2, <1>3, <1>4, <1>6, <1>7

\* While an entry is added the trie is not written, and nothing is left out.
LEMMA StillAdding ==
  ASSUME TInv, pc = "add", UNCHANGED <<pc, round, todo>>,
         \A i \in DOMAIN nodes' : IsTerminal(nodes'[i]) =>
           \A y \in todo : Below(nodes'[i].cummulativeString, y.export.name)
  PROVE  Order' /\ Streamed'
<1>1. \A x, y : Sooner(x, y)' <=> Sooner(x, y)
  BY DEF Sooner
<1>2. Order'
  BY <1>1 DEF TInv, Order
<1> QED BY <1>2 DEF Streamed

\* A splice cuts an edge in two and leaves all names as they were.
LEMMA SpliceT ==
  ASSUME IInv, TInv, Splice
  PROVE  TInv'
<1> DEFINE k == TheEdge
           e == nodes[at].children[k]
           ps == e.partialString
           c == Len(nodes) + 1
           s == nodes[at].cummulativeString
<1>1. /\ pc = "add" /\ at # 0 /\ Alike # {} /\ ~IsPrefix(ps, Tail1) /\ at' = c
      /\ UNCHANGED <<pc, round, wanted, todo, entry, stream>>
  BY Zenon DEF Splice
<1>2. /\ k \in DOMAIN nodes[at].children /\ ps \in Strings /\ ps # <<>>
      /\ e.child \in DOMAIN nodes /\ nodes[e.child].cummulativeString = s \o ps
      /\ First(ps) = First(Tail1)
  BY <1>1, AlikeEdge
<1>3. /\ at \in DOMAIN nodes /\ NodeFits(nodes, at) /\ s \in Strings
      /\ entry.name \in Strings /\ Tail1 \in Strings /\ Tail1 # <<>> /\ Begins(s, entry.name)
      /\ \A u \in Strings : Begins(u, Tail1) <=> Begins(s \o u, entry.name)
  BY <1>1, TailIs
<1>4. /\ IsSeq(nodes) /\ nodes # <<>> /\ \A i \in DOMAIN nodes : NodeOK(nodes[i], Len(nodes))
      /\ Len(nodes) \in Nat /\ DOMAIN nodes = 1 .. Len(nodes) /\ Nodes
  BY SeqLen DEF IInv, Nodes
<1> DEFINE Cut(n) == [NewNode(SubSeq(entry.name, 1, Len(s) + n))
                        EXCEPT !.children = <<Edge(DropFirst(ps, n), e.child)>>]
           Good(n) == IsPrefix(SubSeq(ps, 1, n), Tail1) /\ ~IsPrefix(SubSeq(ps, 1, n + 1), Tail1)
<1>5. PICK len \in 1 .. (Len(ps) - 1) :
        /\ Good(len)
        /\ nodes' = Append([nodes EXCEPT ![at].children[k] = Edge(SubSeq(ps, 1, len), c)], Cut(len))
  <2> DEFINE len == CHOOSE n \in 1 .. (Len(ps) - 1) : Good(n)
  <2>1. \E n \in 1 .. (Len(ps) - 1) : Good(n)
    BY <1>1, <1>2, <1>3, CutPlace
  <2>2. len \in 1 .. (Len(ps) - 1) /\ Good(len)
    BY <2>1, Zenon
  <2>3. nodes' = Append([nodes EXCEPT ![at].children[k] = Edge(SubSeq(ps, 1, len), c)], Cut(len))
    BY Zenon DEF Splice
  <2> HIDE DEF len
  <2> QED BY <2>2, <2>3
<1> DEFINE a == SubSeq(ps, 1, len)
           b == DropFirst(ps, len)
           edges == [nodes[at].children EXCEPT ![k] = Edge(a, c)]
<1>6. /\ a \in Strings /\ a # <<>> /\ b \in Strings /\ b # <<>>
      /\ ps = a \o b /\ First(a) = First(ps)
  BY <1>2, CutEdge
<1>7. /\ Grown(nodes, nodes', at) /\ nodes'[at].children = edges /\ nodes'[c] = Cut(len)
  <2>1. nodes' = Append([nodes EXCEPT ![at].children = edges], Cut(len))
    BY <1>3, <1>5
  <2> DEFINE new == Cut(len)
  <2> HIDE DEF edges, new
  <2>2. \A x, y : LET M == Append([nodes EXCEPT ![at].children = x], y)
                  IN  /\ Grown(nodes, M, at) /\ M[at].children = x /\ M[Len(nodes) + 1] = y
    BY <1>3, <1>4, GrownBy
  <2>3. nodes' = Append([nodes EXCEPT ![at].children = edges], new)
    BY <2>1 DEF new
  <2>4. Grown(nodes, nodes', at) /\ nodes'[at].children = edges /\ nodes'[c] = new
    BY <2>2, <2>3
  <2> QED BY <2>4 DEF new
<1>8. /\ nodes'[c].cummulativeString = SubSeq(entry.name, 1, Len(s) + len)
      /\ nodes'[c].children = <<Edge(b, e.child)>> /\ ~IsTerminal(nodes'[c])
  BY <1>7 DEF NewNode, IsTerminal
<1>16. /\ DOMAIN edges = DOMAIN nodes[at].children /\ edges[k] = Edge(a, c)
       /\ \A j \in DOMAIN edges : j # k => edges[j] = nodes[at].children[j]
  BY <1>2
<1>17. /\ Edge(a, c).partialString = a /\ Edge(a, c).child = c
       /\ Edge(b, e.child).partialString = b /\ Edge(b, e.child).child = e.child
  BY DEF Edge
<1> HIDE DEF edges, ps, Cut, Good, k, s, e
<1>9. Begins(a, Tail1)
  BY <1>3, <1>5, <1>6, PrefixIs DEF Good
<1>10. Begins(s \o a, entry.name)
  BY <1>3, <1>6, <1>9
<1>11. SubSeq(entry.name, 1, Len(s) + len) = s \o a
  <2>1. s \o a \in Strings /\ Len(s \o a) = Len(s) + Len(a)
    BY <1>3, <1>6, TwoNames
  <2>2. Len(ps) \in Nat /\ len \in 0 .. Len(ps) /\ Len(s) \in Nat /\ Len(entry.name) \in Nat
    <3>1. \A u \in Strings : Len(u) \in Nat
      BY NameIs
    <3> QED BY <1>2, <1>3, <3>1
  <2>3. Len(a) = len
    BY <1>2, <2>2, FirstLetters
  <2>4. Len(s) + len \in 0 .. Len(entry.name)
    BY <1>10, <2>1, <2>2, <2>3 DEF Begins
  <2> DEFINE d == SubSeq(entry.name, 1, Len(s) + len)
             f == s \o a
  <2>5. /\ d \in Strings /\ Len(d) = Len(s) + len
        /\ \A m \in 1 .. Len(s) + len : d[m] = entry.name[m]
    BY <1>3, <2>4, FirstLetters
  <2>6. f \in Strings /\ Len(f) = Len(s) + len /\ \A m \in 1 .. Len(f) : f[m] = entry.name[m]
    BY <1>10, <2>1, <2>3 DEF Begins
  <2> HIDE DEF d, f
  <2>7. d = f
    BY <2>5, <2>6, SeqEqual DEF Strings
  <2> QED BY <2>7 DEF d, f
<1>12. nodes'[c].cummulativeString = s \o a /\ s \o a \in Strings
  BY <1>3, <1>6, <1>8, <1>11, TwoNames
<1>13. s \o ps = (s \o a) \o b
  <2>1. \A x, y, z \in Strings : (x \o y) \o z = x \o (y \o z)
    BY ThreeNames
  <2> HIDE DEF a, b
  <2> QED BY <1>3, <1>6, <2>1
<1>14. \A i \in DOMAIN nodes : /\ nodes'[i].cummulativeString = nodes[i].cummulativeString
                               /\ nodes'[i].terminalEntry = nodes[i].terminalEntry
                               /\ IsTerminal(nodes'[i]) <=> IsTerminal(nodes[i])
  BY <1>7 DEF Grown, IsTerminal
<1>15. DOMAIN nodes' = 1 .. c /\ c \in DOMAIN nodes' /\ at \in DOMAIN nodes'
  BY <1>3, <1>4, <1>7, SeqLen DEF Grown
<1> HIDE DEF a, b
<1>18. NodeFits(nodes', at)
  <2>1. nodes'[at].cummulativeString \in Strings /\ nodes'[at].cummulativeString = s
    BY <1>3, <1>14 DEF s
  <2>2. ASSUME NEW j \in DOMAIN edges
        PROVE  /\ edges[j].partialString \in Strings /\ edges[j].partialString # <<>>
               /\ nodes'[edges[j].child].cummulativeString
                    = nodes'[at].cummulativeString \o edges[j].partialString
               /\ First(edges[j].partialString) = First(nodes[at].children[j].partialString)
    <3>1. CASE j = k
      BY <1>6, <1>12, <1>16, <1>17, <2>1, <3>1 DEF ps, e
    <3>2. CASE j # k
      <4>1. edges[j] = nodes[at].children[j] /\ j \in DOMAIN nodes[at].children
        BY <1>16, <3>2
      <4>2. nodes[at].children[j].child \in DOMAIN nodes
        BY <1>3, <1>4, <4>1 DEF NodeOK
      <4>3. /\ edges[j].partialString \in Strings /\ edges[j].partialString # <<>>
            /\ nodes[edges[j].child].cummulativeString
                 = nodes[at].cummulativeString \o edges[j].partialString
        BY <1>3, <4>1 DEF NodeFits
      <4>4. /\ nodes'[edges[j].child].cummulativeString = nodes[edges[j].child].cummulativeString
            /\ nodes'[at].cummulativeString = nodes[at].cummulativeString
        BY <1>3, <1>14, <4>1, <4>2
      <4> QED BY <4>1, <4>3, <4>4
    <3> QED BY <3>1, <3>2
  <2>3. \A i, j \in DOMAIN edges :
          i # j => First(edges[i].partialString) # First(edges[j].partialString)
    BY <1>3, <1>16, <2>2 DEF NodeFits
  <2>4. IsTerminal(nodes'[at]) => /\ EntryOK(nodes'[at].terminalEntry)
                                  /\ nodes'[at].terminalEntry.name = nodes'[at].cummulativeString
    BY <1>3, <1>14 DEF NodeFits
  <2> QED BY <1>7, <2>1, <2>2, <2>3, <2>4 DEF NodeFits
<1>19. NodeFits(nodes', c)
  <2>1. DOMAIN <<Edge(b, e.child)>> = {1} /\ <<Edge(b, e.child)>>[1] = Edge(b, e.child)
    OBVIOUS
  <2>2. nodes'[e.child].cummulativeString = (s \o a) \o b
    BY <1>2, <1>13, <1>14
  <2>3. DOMAIN nodes'[c].children = {1} /\ nodes'[c].children[1] = Edge(b, e.child)
    BY <1>8, <2>1
  <2>4. /\ nodes'[c].children[1].partialString = b
        /\ nodes'[nodes'[c].children[1].child].cummulativeString = nodes'[c].cummulativeString \o b
    BY <1>12, <1>17, <2>2, <2>3
  <2> QED BY <1>6, <1>8, <1>12, <2>3, <2>4 DEF NodeFits
<1>20. HasParent(nodes', c)
  BY <1>2, <1>7, <1>15, <1>16, <1>17 DEF HasParent
<1>21. ASSUME NEW j \in DOMAIN nodes[at].children
       PROVE  HasParent(nodes', nodes[at].children[j].child)
  <2>1. CASE j = k
    <3>1. DOMAIN <<Edge(b, e.child)>> = {1} /\ <<Edge(b, e.child)>>[1] = Edge(b, e.child)
      OBVIOUS
    <3> QED BY <1>8, <1>15, <1>17, <2>1, <3>1 DEF HasParent, e
  <2>2. CASE j # k
    BY <1>7, <1>15, <1>16, <2>2 DEF HasParent
  <2> QED BY <2>1, <2>2
<1>22. LeadsOn(nodes', c)
  <2>1. e.child \in DOMAIN nodes \ {1}
    BY <1>2, <1>3, <1>4 DEF NodeOK, e
  <2>2. PICK t \in DOMAIN nodes :
          IsTerminal(nodes[t]) /\ Begins(nodes[e.child].cummulativeString, nodes[t].cummulativeString)
    BY <2>1 DEF TInv, Trie, LeadsOn
  <2>3. nodes[t].cummulativeString \in Strings
    BY DEF TInv, Trie, NodeFits
  <2>4. nodes[e.child].cummulativeString = (s \o a) \o b
    BY <1>2, <1>13
  <2>5. Begins(s \o a, (s \o a) \o b) /\ (s \o a) \o b \in Strings
    BY <1>6, <1>12, BeginsOn, TwoNames
  <2>6. Begins(s \o a, nodes[t].cummulativeString)
    BY <1>12, <2>2, <2>3, <2>4, <2>5, BeginsOn
  <2> QED BY <1>4, <1>12, <1>14, <1>15, <2>2, <2>6 DEF LeadsOn
<1>23. Trie(nodes')
  BY <1>3, <1>4, <1>7, <1>8, <1>18, <1>19, <1>20, <1>21, <1>22, TrieGrows DEF TInv
<1>24. \A i \in DOMAIN nodes' : IsTerminal(nodes'[i]) =>
         i \in DOMAIN nodes /\ IsTerminal(nodes[i])
         /\ nodes'[i].cummulativeString = nodes[i].cummulativeString
         /\ nodes'[i].terminalEntry = nodes[i].terminalEntry
  BY <1>4, <1>8, <1>14, <1>15
<1>25. Order' /\ Streamed'
  BY <1>1, <1>24, StillAdding DEF TInv, Order
<1>26. Adding'
  <2>1. EntryOK(entry') /\ Begins(nodes'[at'].cummulativeString, entry'.name)
    BY <1>1, <1>10, <1>12 DEF TInv, Adding
  <2> QED BY <1>1, <1>24, <2>1 DEF TInv, Adding
<1>27. Kept'
  <2>1. at' # 0
    BY <1>1, <1>4
  <2>2. {nodes'[i].terminalEntry : i \in {j \in DOMAIN nodes' : IsTerminal(nodes'[j])}}
          = {nodes[i].terminalEntry : i \in {j \in DOMAIN nodes : IsTerminal(nodes[j])}}
    BY <1>4, <1>14, <1>15, <1>24
  <2>3. Entries' = Entries
    BY <1>1, <2>1, <2>2 DEF Entries
  <2> QED BY <1>1, <2>3 DEF TInv, Kept
<1> QED BY <1>23, <1>25, <1>26, <1>27 DEF TInv

\* A new edge gets what is left of the name.
LEMMA AddEdgeT ==
  ASSUME IInv, TInv, AddEdge
  PROVE  TInv'
<1> DEFINE c == Len(nodes) + 1
           s == nodes[at].cummulativeString
           old == nodes[at].children
           edges == Append(old, Edge(Tail1, c))
           cut == [NewNode(entry.name) EXCEPT !.terminalEntry = entry]
<1>1. /\ pc = "add" /\ at # 0 /\ Alike = {} /\ at' = 0
      /\ nodes' = Append([nodes EXCEPT ![at].children = edges], cut)
      /\ UNCHANGED <<pc, round, wanted, todo, stream>>
  BY DEF AddEdge
<1>2. /\ at \in DOMAIN nodes /\ NodeFits(nodes, at) /\ s \in Strings
      /\ entry.name \in Strings /\ Tail1 \in Strings /\ Tail1 # <<>>
      /\ entry.name = s \o Tail1
  BY <1>1, TailIs
<1>3. /\ IsSeq(nodes) /\ nodes # <<>> /\ \A i \in DOMAIN nodes : NodeOK(nodes[i], Len(nodes))
      /\ Len(nodes) \in Nat /\ DOMAIN nodes = 1 .. Len(nodes) /\ Nodes
  BY SeqLen DEF IInv, Nodes
<1>4. /\ EntryOK(entry)
      /\ \A i \in DOMAIN nodes : IsTerminal(nodes[i]) => Below(nodes[i].cummulativeString, entry.name)
      /\ \A y \in todo : Below(entry.name, y.export.name)
  BY <1>1 DEF TInv, Adding
<1>5. IsSeq(old)
  BY <1>2, <1>3 DEF NodeOK
<1>6. /\ cut.cummulativeString = entry.name /\ cut.children = <<>>
      /\ cut.terminalEntry = entry
  BY DEF NewNode
<1> HIDE DEF cut
<1>7. /\ IsSeq(edges) /\ Len(edges) = Len(old) + 1
      /\ \A j \in 1 .. Len(old) : edges[j] = old[j]
      /\ edges[Len(old) + 1] = Edge(Tail1, c)
  BY <1>5, SeqAppend
<1> HIDE DEF edges
<1>8. Grown(nodes, nodes', at) /\ nodes'[at].children = edges /\ nodes'[c] = cut
  <2>1. \A x, y : LET M == Append([nodes EXCEPT ![at].children = x], y)
                  IN  /\ Grown(nodes, M, at) /\ M[at].children = x /\ M[Len(nodes) + 1] = y
    BY <1>2, <1>3, GrownBy
  <2> QED BY <1>1, <2>1
<1>9. /\ DOMAIN old = 1 .. Len(old) /\ DOMAIN edges = 1 .. Len(old) + 1 /\ Len(old) \in Nat
  BY <1>5, <1>7, SeqLen
<1>10. DOMAIN nodes' = 1 .. c /\ c \in DOMAIN nodes' /\ at \in DOMAIN nodes'
  BY <1>2, <1>3, <1>8, SeqLen DEF Grown
<1>11. \A i \in DOMAIN nodes : /\ nodes'[i].cummulativeString = nodes[i].cummulativeString
                               /\ nodes'[i].terminalEntry = nodes[i].terminalEntry
                               /\ IsTerminal(nodes'[i]) <=> IsTerminal(nodes[i])
  BY <1>8 DEF Grown, IsTerminal
<1>12. Edge(Tail1, c).partialString = Tail1 /\ Edge(Tail1, c).child = c
  BY DEF Edge
<1>13. \A j \in DOMAIN old : First(old[j].partialString) # First(Tail1)
  BY <1>1 DEF Alike
<1>14. IsTerminal(nodes'[c]) /\ nodes'[c].cummulativeString = entry.name
       /\ nodes'[c].terminalEntry = entry /\ nodes'[c].children = <<>>
  <2>1. entry # NoEntry
    BY <1>4 DEF EntryOK, NoEntry
  <2> QED BY <1>6, <1>8, <2>1 DEF IsTerminal
<1>15. NodeFits(nodes', at)
  <2>1. nodes'[at].cummulativeString \in Strings /\ nodes'[at].cummulativeString = s
    BY <1>2, <1>11
  <2>2. ASSUME NEW j \in DOMAIN edges
        PROVE  /\ edges[j].partialString \in Strings /\ edges[j].partialString # <<>>
               /\ nodes'[edges[j].child].cummulativeString
                    = nodes'[at].cummulativeString \o edges[j].partialString
    <3>1. CASE j = Len(old) + 1
      BY <1>2, <1>7, <1>12, <1>14, <2>1, <3>1
    <3>2. CASE j \in DOMAIN old
      <4>1. edges[j] = old[j]
        BY <1>7, <1>9, <3>2
      <4>2. old[j].child \in DOMAIN nodes
        BY <1>2, <1>3, <3>2 DEF NodeOK
      <4>3. /\ edges[j].partialString \in Strings /\ edges[j].partialString # <<>>
            /\ nodes[edges[j].child].cummulativeString
                 = nodes[at].cummulativeString \o edges[j].partialString
        BY <1>2, <3>2, <4>1 DEF NodeFits
      <4>4. /\ nodes'[edges[j].child].cummulativeString = nodes[edges[j].child].cummulativeString
            /\ nodes'[at].cummulativeString = nodes[at].cummulativeString
        BY <1>2, <1>11, <4>1, <4>2
      <4> QED BY <4>3, <4>4
    <3>3. j = Len(old) + 1 \/ j \in DOMAIN old
      BY <1>9
    <3> QED BY <3>1, <3>2, <3>3, Zenon
  <2>3. ASSUME NEW i \in DOMAIN edges, NEW j \in DOMAIN edges, i # j
        PROVE  First(edges[i].partialString) # First(edges[j].partialString)
    <3>1. CASE i = Len(old) + 1
      <4>1. j \in DOMAIN old /\ edges[j] = old[j]
        BY <1>7, <1>9, <2>3, <3>1
      <4> QED BY <1>7, <1>12, <1>13, <3>1, <4>1
    <3>2. CASE j = Len(old) + 1
      <4>1. i \in DOMAIN old /\ edges[i] = old[i]
        BY <1>7, <1>9, <2>3, <3>2
      <4> QED BY <1>7, <1>12, <1>13, <3>2, <4>1
    <3>3. CASE i \in DOMAIN old /\ j \in DOMAIN old
      <4>1. edges[i] = old[i] /\ edges[j] = old[j]
        BY <1>7, <1>9, <3>3
      <4> QED BY <1>2, <2>3, <3>3, <4>1 DEF NodeFits
    <3> QED BY <1>9, <3>1, <3>2, <3>3
  <2>4. IsTerminal(nodes'[at]) => /\ EntryOK(nodes'[at].terminalEntry)
                                  /\ nodes'[at].terminalEntry.name = nodes'[at].cummulativeString
    BY <1>2, <1>11 DEF NodeFits
  <2> QED BY <1>8, <2>1, <2>2, <2>3, <2>4 DEF NodeFits
<1>16. NodeFits(nodes', c)
  <2>1. DOMAIN <<>> = {}
    OBVIOUS
  <2> QED BY <1>2, <1>4, <1>14, <2>1 DEF NodeFits
<1>17. HasParent(nodes', c)
  <2>1. Len(old) + 1 \in DOMAIN edges
    BY <1>9
  <2> QED BY <1>7, <1>8, <1>10, <1>12, <2>1 DEF HasParent
<1>18. ASSUME NEW j \in DOMAIN old PROVE HasParent(nodes', old[j].child)
  <2>1. j \in DOMAIN edges /\ edges[j] = old[j]
    BY <1>7, <1>9
  <2> QED BY <1>8, <1>10, <2>1 DEF HasParent
<1>19. LeadsOn(nodes', c)
  <2>1. Begins(entry.name, entry.name)
    BY <1>2, BeginsOn
  <2> QED BY <1>10, <1>14, <2>1 DEF LeadsOn
<1>20. Trie(nodes')
  BY <1>2, <1>3, <1>4, <1>8, <1>14, <1>15, <1>16, <1>17, <1>18, <1>19, TrieGrows DEF TInv
<1>21. Order' /\ Streamed'
  <2>1. \A i \in DOMAIN nodes' : IsTerminal(nodes'[i]) =>
          \A y \in todo : Below(nodes'[i].cummulativeString, y.export.name)
    <3> SUFFICES ASSUME NEW i \in DOMAIN nodes', IsTerminal(nodes'[i]), NEW y \in todo
                 PROVE  Below(nodes'[i].cummulativeString, y.export.name)
      OBVIOUS
    <3>1. CASE i = c
      BY <1>4, <1>14, <3>1
    <3>2. CASE i \in DOMAIN nodes
      BY <1>11, <3>2 DEF TInv, Order
    <3> QED BY <1>3, <1>10, <3>1, <3>2
  <2> QED BY <1>1, <2>1, StillAdding
<1>22. Adding'
  BY <1>1 DEF Adding
<1>23. Kept'
  <2>1. {nodes'[i].terminalEntry : i \in {j \in DOMAIN nodes' : IsTerminal(nodes'[j])}}
          = {nodes[i].terminalEntry : i \in {j \in DOMAIN nodes : IsTerminal(nodes[j])}} \cup {entry}
    BY <1>3, <1>10, <1>11, <1>14
  <2>2. Entries' = Entries
    BY <1>1, <2>1 DEF Entries
  <2> QED BY <1>1, <2>2 DEF TInv, Kept
<1> QED BY <1>20, <1>21, <1>22, <1>23 DEF TInv

-----------------------------------------------------------------------------
(***************************************************************************)
(* The other steps keep it as well.                                        *)
(***************************************************************************)

\* Nodes, entries and what is wanted stay as they are.
LEMMA SameEntries ==
  ASSUME IInv, TInv, at = 0, todo = {}, SameNodes(nodes, nodes'), UNCHANGED <<at, todo, wanted>>
  PROVE  Trie(nodes') /\ Order' /\ Adding' /\ Kept'
<1>1. Trie(nodes')
  BY SameTrie DEF IInv, Nodes, TInv
<1>2. Order'
  BY DEF TInv, Order
<1>3. Adding'
  BY DEF Adding
<1>4. Kept'
  <2>1. Entries' = Entries
    BY DEF Entries, SameNodes, IsTerminal
  <2> QED BY <2>1 DEF TInv, Kept
<1> QED BY <1>1, <1>2, <1>3, <1>4

LEMMA AllAddedT ==
  ASSUME IInv, TInv, AllAdded
  PROVE  TInv'
<1>1. at = 0 /\ todo = {} /\ pc' = "offsets" /\ UNCHANGED <<nodes, at, todo, wanted>>
  BY DEF AllAdded
<1>2. SameNodes(nodes, nodes')
  BY <1>1 DEF SameNodes
<1>3. Streamed'
  BY <1>1 DEF Streamed
<1> QED BY <1>1, <1>2, <1>3, SameEntries DEF TInv

LEMMA UpdateOffsetT ==
  ASSUME IInv, TInv, UpdateOffset
  PROVE  TInv'
<1>1. /\ at = 0 /\ todo = {} /\ pc' = "offsets" /\ UNCHANGED <<at, todo, wanted>>
      /\ nodes' = [nodes EXCEPT ![cur].trieOffset = curOffset] /\ cur \in DOMAIN nodes
  BY DEF UpdateOffset, IInv, Nodes, TInv, Order
<1>2. NodeOK(nodes[cur], Len(nodes))
  BY <1>1 DEF IInv, Nodes
<1> DEFINE x == [nodes[cur] EXCEPT !.trieOffset = curOffset]
<1>3. x = [cummulativeString |-> nodes[cur].cummulativeString,
           children |-> nodes[cur].children,
           terminalEntry |-> nodes[cur].terminalEntry, trieOffset |-> curOffset]
  BY <1>2 DEF NodeOK
<1>4. /\ x.cummulativeString = nodes[cur].cummulativeString
      /\ x.children = nodes[cur].children /\ x.terminalEntry = nodes[cur].terminalEntry
  BY <1>3
<1>5. DOMAIN nodes' = DOMAIN nodes /\ \A i \in DOMAIN nodes : nodes'[i] = IF i = cur THEN x ELSE nodes[i]
  BY <1>1
<1> HIDE DEF x
<1>6. SameNodes(nodes, nodes')
  BY <1>4, <1>5 DEF SameNodes
<1>7. Streamed'
  BY <1>1 DEF Streamed
<1> QED BY <1>1, <1>6, <1>7, SameEntries DEF TInv

LEMMA EndOffsetsT ==
  ASSUME IInv, TInv, EndOffsets
  PROVE  TInv'
<1>1. at = 0 /\ todo = {} /\ UNCHANGED <<nodes, at, todo, wanted, stream>> /\ pc = "offsets"
  BY DEF EndOffsets, IInv, Nodes, TInv, Order
<1>2. SameNodes(nodes, nodes')
  BY <1>1 DEF SameNodes
<1>3. Streamed'
  <2>1. pc' = "write" => Chained(nodes', Len(nodes'))
    BY EndOffsetsInv DEF IInv, Writing
  <2>2. pc' # "built" /\ DOMAIN stream' = {}
    <3>1. stream' = <<>>
      BY <1>1 DEF IInv, Writing
    <3> QED BY <3>1 DEF EndOffsets
  <2> QED BY <2>1, <2>2 DEF Streamed
<1> QED BY <1>1, <1>2, <1>3, SameEntries DEF TInv

LEMMA AppendToStreamT ==
  ASSUME IInv, TInv, AppendToStream
  PROVE  TInv'
<1>1. /\ at = 0 /\ todo = {} /\ UNCHANGED <<nodes, at, todo, wanted, pc>> /\ pc = "write"
      /\ cur \in DOMAIN nodes
  BY DEF AppendToStream, IInv, Nodes, TInv, Order
<1>2. SameNodes(nodes, nodes')
  BY <1>1 DEF SameNodes
<1>3. Chained(nodes, Len(nodes)) /\ IsSeq(stream) /\ Len(stream) = cur - 1
  BY <1>1 DEF IInv, Writing
<1>4. cur \in Nat \ {0} /\ Len(stream) + 1 = cur /\ DOMAIN stream = 1 .. cur - 1
  BY <1>1, <1>3, SeqLen DEF IInv, Nodes
<1> DEFINE w == [place |-> size, export |-> Encoded(nodes[cur].terminalEntry),
                 children |-> {[string |-> e.partialString, place |-> nodes[e.child].trieOffset] :
                                 e \in {nodes[cur].children[i] : i \in DOMAIN nodes[cur].children}}]
<1>5. stream' = Append(stream, w)
  BY DEF AppendToStream
<1>6. w = WrittenNode(nodes, cur)
  <2>1. size = nodes[cur].trieOffset
    BY <1>1, AtOffset DEF WrittenAtOffset
  <2> QED BY <2>1 DEF WrittenNode
<1> HIDE DEF w
<1>7. /\ IsSeq(stream') /\ Len(stream') = cur /\ stream'[cur] = w
      /\ \A i \in 1 .. cur - 1 : stream'[i] = stream[i]
  BY <1>3, <1>4, <1>5, SeqAppend
<1>8. DOMAIN stream' = 1 .. cur
  BY <1>7, SeqLen
<1>9. ASSUME NEW i \in DOMAIN stream' PROVE stream'[i] = WrittenNode(nodes, i)
  <2>1. CASE i = cur
    BY <1>6, <1>7, <2>1
  <2>2. CASE i \in DOMAIN stream
    BY <1>1, <1>4, <1>7, <2>2 DEF TInv, Streamed
  <2> QED BY <1>4, <1>8, <2>1, <2>2
<1>10. Streamed'
  BY <1>1, <1>3, <1>9 DEF Streamed
<1> QED BY <1>1, <1>2, <1>10, SameEntries DEF TInv

LEMMA EndStreamT ==
  ASSUME IInv, TInv, EndStream
  PROVE  TInv'
<1>1. /\ at = 0 /\ todo = {} /\ UNCHANGED <<nodes, at, todo, wanted, stream>> /\ pc = "write"
  BY DEF EndStream, IInv, Nodes, TInv, Order
<1>2. SameNodes(nodes, nodes')
  BY <1>1 DEF SameNodes
<1>3. Streamed'
  BY <1>1 DEF TInv, Streamed
<1> QED BY <1>1, <1>2, <1>3, SameEntries DEF TInv

-----------------------------------------------------------------------------
(***************************************************************************)
(* Reading the trie.                                                       *)
(***************************************************************************)

\* A node is written behind all nodes before it.
LEMMA OffsetsRise ==
  ASSUME NEW N, IsSeq(N), \A i \in DOMAIN N : NodeOK(N[i], Len(N)), Trie(N),
         Chained(N, Len(N))
  PROVE  /\ \A i \in DOMAIN N : N[i].trieOffset \in Nat
         /\ \A i, j \in DOMAIN N : i < j => N[i].trieOffset < N[j].trieOffset
<1> DEFINE L == Len(N)
           off(i) == N[i].trieOffset
           bytes(i) == NodeBytes(N, N[i])
<1>1. L \in Nat /\ DOMAIN N = 1 .. L
  BY SeqLen
<1>2. ASSUME NEW i \in 1 .. L PROVE bytes(i) \in Nat \ {0}
  <2>1. NodeOK(N[i], L) /\ NodeFits(N, i)
    BY <1>1 DEF Trie
  <2> QED BY <2>1, NodeBytesIs DEF NodeOK, NodeFits, IsTerminal
<1>3. L > 0 => off(1) = 0
  BY DEF Chained
<1>4. \A i \in 1 .. L - 1 : off(i + 1) = off(i) + bytes(i)
  BY DEF Chained
<1> HIDE DEF L, off, bytes
<1>5. \A i \in 1 .. L : off(i) \in Nat
  <2> DEFINE T == {i \in 1 .. L : off(i) \notin Nat}
  <2> SUFFICES ASSUME T # {} PROVE FALSE
    OBVIOUS
  <2>1. T \in SUBSET Nat
    BY <1>1
  <2>2. PICK i \in T : \A j \in T : i <= j
    BY <2>1, LeastNat
  <2>3. i \in 1 .. L /\ i # 1 /\ off(i) \notin Nat
    BY <1>1, <1>3
  <2>4. i - 1 \in 1 .. L - 1 /\ i - 1 \in 1 .. L /\ (i - 1) + 1 = i /\ ~(i <= i - 1)
    BY <1>1, <2>3
  <2>5. off(i - 1) \in Nat
    BY <2>2, <2>4
  <2>6. off(i) = off(i - 1) + bytes(i - 1)
    BY <1>4, <2>4
  <2>7. bytes(i - 1) \in Nat
    BY <1>2, <2>4
  <2>8. off(i) \in Nat
    BY <2>5, <2>6, <2>7
  <2> QED BY <2>3, <2>8
<1>6. ASSUME NEW i \in 1 .. L, NEW k \in 1 .. L, i < k PROVE off(i) < off(k)
  <2> DEFINE T == {j \in 1 .. L : i < j /\ ~(off(i) < off(j))}
  <2> SUFFICES ASSUME T # {} PROVE FALSE
    BY <1>6
  <2>1. T \in SUBSET Nat
    BY <1>1
  <2>2. PICK j \in T : \A m \in T : j <= m
    BY <2>1, LeastNat
  <2>3. j \in 1 .. L /\ i < j /\ ~(off(i) < off(j))
    OBVIOUS
  <2>4. j - 1 \in 1 .. L - 1 /\ j - 1 \in 1 .. L /\ (j - 1) + 1 = j /\ ~(j <= j - 1)
        /\ i <= j - 1
    BY <1>1, <2>3
  <2>5. i = j - 1 \/ off(i) < off(j - 1)
    BY <1>1, <2>2, <2>4
  <2>6. off(j) = off(j - 1) + bytes(j - 1)
    BY <1>4, <2>4
  <2>7. bytes(j - 1) \in Nat \ {0} /\ off(i) \in Nat /\ off(j - 1) \in Nat
    BY <1>2, <1>5, <2>4
  <2>8. off(i) <= off(j - 1)
    BY <2>5, <2>7
  <2>9. off(i) < off(j)
    BY <2>6, <2>7, <2>8
  <2> QED BY <2>3, <2>9
<1> QED BY <1>1, <1>5, <1>6 DEF off, L

\* What a reader gets of an entry has the entry's name and is encoded as it is.
LEMMA EncodedIs ==
  ASSUME NEW e, EntryOK(e)
  PROVE  /\ EntryOK(Encoded(e)) /\ Encoded(e).name = e.name
         /\ Encoded(e) # NoEntry /\ Encoded(Encoded(e)) = Encoded(e)
         /\ [Encoded(e) EXCEPT !.name = e.name] = Encoded(e)
<1> DEFINE i == IF e.import = e.name THEN <<>> ELSE e.import
<1>1. e = [name |-> e.name, kind |-> e.kind, offset |-> e.offset, other |-> e.other,
           import |-> e.import]
      /\ e.name \in Strings /\ e.name # <<>> /\ e.import \in Strings /\ e.kind # "none"
  BY DEF EntryOK
<1>2. i \in Strings /\ i # e.name
  BY <1>1, EmptySeq DEF Strings
<1>3. Encoded(e) = [name |-> e.name, kind |-> e.kind, offset |-> e.offset, other |-> e.other,
                    import |-> i]
  BY <1>1 DEF Encoded
<1> HIDE DEF i
<1>4. /\ Encoded(e).name = e.name /\ Encoded(e).kind = e.kind /\ Encoded(e).import = i
      /\ Encoded(e).offset = e.offset /\ Encoded(e).other = e.other
  BY <1>3
<1>5. EntryOK(Encoded(e))
  BY <1>1, <1>2, <1>3, <1>4 DEF EntryOK
<1>6. Encoded(e) # NoEntry
  BY <1>1, <1>4 DEF NoEntry
<1>7. Encoded(Encoded(e)) = Encoded(e)
  BY <1>2, <1>3, <1>4 DEF Encoded
<1>8. [Encoded(e) EXCEPT !.name = e.name] = Encoded(e)
  BY <1>3
<1> QED BY <1>4, <1>5, <1>6, <1>7, <1>8

LEMMA EncodedNone == Encoded(NoEntry) = NoEntry
BY DEF Encoded, NoEntry

\* What a reader has when it comes to a node by the right way.
Item(N, i) == [place |-> N[i].trieOffset, name |-> N[i].cummulativeString]
Items(N) == {Item(N, i) : i \in DOMAIN N}

\* A finished trie: every node is written, and nothing else at its offset.
LEMMA WrittenIs ==
  ASSUME IInv, TInv, pc = "built"
  PROVE  /\ DOMAIN stream = DOMAIN nodes /\ Len(stream) = Len(nodes) /\ Len(nodes) \in Nat
         /\ DOMAIN nodes = 1 .. Len(nodes) /\ 1 \in DOMAIN nodes
         /\ \A i \in DOMAIN nodes :
              /\ Written(nodes[i].trieOffset) = {stream[i]}
              /\ stream[i] = WrittenNode(nodes, i)
         /\ nodes[1].trieOffset = 0
         /\ \A i, j \in DOMAIN nodes : i < j <=> nodes[i].trieOffset < nodes[j].trieOffset
<1>1. /\ IsSeq(nodes) /\ IsSeq(stream) /\ Len(stream) = Len(nodes) /\ nodes # <<>>
      /\ \A i \in DOMAIN nodes : NodeOK(nodes[i], Len(nodes))
  BY DEF IInv, Nodes, Writing
<1>2. /\ Len(nodes) \in Nat /\ DOMAIN nodes = 1 .. Len(nodes) /\ 1 \in DOMAIN nodes
      /\ DOMAIN stream = DOMAIN nodes /\ Len(nodes) > 0
  BY <1>1, SeqLen
<1>3. /\ Chained(nodes, Len(nodes)) /\ Trie(nodes)
      /\ \A i \in DOMAIN stream : stream[i] = WrittenNode(nodes, i)
  BY DEF TInv, Streamed
<1>4. /\ \A i \in DOMAIN nodes : nodes[i].trieOffset \in Nat
      /\ \A i, j \in DOMAIN nodes : i < j => nodes[i].trieOffset < nodes[j].trieOffset
  BY <1>1, <1>3, OffsetsRise
<1>5. \A i, j \in DOMAIN nodes : nodes[i].trieOffset = nodes[j].trieOffset => i = j
  BY <1>2, <1>4
<1>6. \A i, j \in DOMAIN nodes : i < j <=> nodes[i].trieOffset < nodes[j].trieOffset
  BY <1>2, <1>4
<1>7. \A i \in DOMAIN nodes : stream[i].place = nodes[i].trieOffset
  BY <1>2, <1>3 DEF WrittenNode
<1>8. \A i \in DOMAIN nodes : Written(nodes[i].trieOffset) = {stream[i]}
  BY <1>2, <1>5, <1>7 DEF Written
<1>9. nodes[1].trieOffset = 0
  BY <1>2, <1>3 DEF Chained
<1> QED BY <1>1, <1>2, <1>3, <1>6, <1>8, <1>9

\* One step of the reader from all it has come to.
Onward(x, c) == [place |-> c.place, name |-> x.name \o c.string]
ReadOn(S) == UNION {UNION {{Onward(x, c) : c \in n.children} : n \in Written(x.place)} : x \in S}

LEMMA ReadOnHas ==
  ASSUME NEW S, NEW y
  PROVE  y \in ReadOn(S) <=>
           \E x \in S : \E n \in Written(x.place) : \E c \in n.children : y = Onward(x, c)
<1> DEFINE Of(x, n) == {Onward(x, c) : c \in n.children}
           From(x) == UNION {Of(x, n) : n \in Written(x.place)}
<1>2. \A x, n : y \in Of(x, n) <=> \E c \in n.children : y = Onward(x, c)
  BY Zenon
<1>3. ReadOn(S) = UNION {From(x) : x \in S}
  BY Zenon DEF ReadOn
<1> HIDE DEF Of
<1>4. \A x : y \in From(x) <=> \E n \in Written(x.place) : y \in Of(x, n)
  OBVIOUS
<1> HIDE DEF From
<1>5. y \in ReadOn(S) <=> \E x \in S : y \in From(x)
  BY <1>3
<1>6. y \in ReadOn(S) <=> \E x \in S : \E n \in Written(x.place) : \E c \in n.children : y = Onward(x, c)
  BY <1>2, <1>4, <1>5, Zenon
<1> QED BY <1>6

\* It leads along the edges, to nodes, with their names.
LEMMA ReadOnIs ==
  ASSUME IInv, TInv, pc = "built", NEW S \in SUBSET Items(nodes)
  PROVE  /\ ReadOn(S) \in SUBSET Items(nodes)
         /\ \A i \in DOMAIN nodes : \A j \in DOMAIN nodes[i].children :
              Item(nodes, i) \in S => Item(nodes, nodes[i].children[j].child) \in ReadOn(S)
<1>1. \A i \in DOMAIN nodes : /\ Written(nodes[i].trieOffset) = {stream[i]}
                              /\ stream[i] = WrittenNode(nodes, i)
  BY WrittenIs
<1>2. ASSUME NEW i \in DOMAIN nodes, NEW j \in DOMAIN nodes[i].children
      PROVE  LET e == nodes[i].children[j]
             IN  /\ e.child \in DOMAIN nodes
                 /\ [place |-> nodes[e.child].trieOffset,
                     name |-> nodes[i].cummulativeString \o e.partialString] = Item(nodes, e.child)
  <2>1. NodeFits(nodes, i)
    BY DEF TInv, Trie
  <2>2. nodes[i].children[j].child \in DOMAIN nodes
    BY SeqLen DEF IInv, Nodes, NodeOK
  <2> QED BY <2>1, <2>2 DEF NodeFits, Item
<1>3. ASSUME NEW y \in ReadOn(S) PROVE y \in Items(nodes)
  <2>1. PICK x \in S : \E n \in Written(x.place) : \E c \in n.children : y = Onward(x, c)
    BY <1>3, ReadOnHas
  <2>2. PICK i \in DOMAIN nodes : x = Item(nodes, i)
    BY <2>1 DEF Items
  <2>3. x.place = nodes[i].trieOffset /\ x.name = nodes[i].cummulativeString
    BY <2>2 DEF Item
  <2>4. PICK c \in WrittenNode(nodes, i).children :
          y = [place |-> c.place, name |-> x.name \o c.string]
    BY <1>1, <2>1, <2>3 DEF Onward
  <2>5. PICK j \in DOMAIN nodes[i].children :
          c = [string |-> nodes[i].children[j].partialString,
               place |-> nodes[nodes[i].children[j].child].trieOffset]
    BY <2>4 DEF WrittenNode
  <2>6. y = [place |-> nodes[nodes[i].children[j].child].trieOffset,
             name |-> nodes[i].cummulativeString \o nodes[i].children[j].partialString]
    BY <2>3, <2>4, <2>5
  <2> QED BY <1>2, <2>6 DEF Items
<1>4. ASSUME NEW i \in DOMAIN nodes, NEW j \in DOMAIN nodes[i].children, Item(nodes, i) \in S
      PROVE  Item(nodes, nodes[i].children[j].child) \in ReadOn(S)
  <2> DEFINE e == nodes[i].children[j]
             c == [string |-> e.partialString, place |-> nodes[e.child].trieOffset]
  <2>1. c \in WrittenNode(nodes, i).children
    BY DEF WrittenNode
  <2>2. /\ Item(nodes, i).place = nodes[i].trieOffset
        /\ Item(nodes, i).name = nodes[i].cummulativeString
    BY DEF Item
  <2>3. WrittenNode(nodes, i) \in Written(Item(nodes, i).place)
    BY <1>1, <2>2
  <2>4. [place |-> c.place, name |-> Item(nodes, i).name \o c.string] \in ReadOn(S)
    BY <1>4, <2>1, <2>3, ReadOnHas, Zenon DEF Onward
  <2>5. [place |-> c.place, name |-> Item(nodes, i).name \o c.string] = Item(nodes, e.child)
    BY <1>2, <2>2
  <2> QED BY <2>4, <2>5
<1> QED BY <1>3, <1>4

\* What the reader has come to after k steps.
Steps(f) ==
  f = [k \in 0 .. Len(stream) |-> IF k = 0 THEN {[place |-> 0, name |-> <<>>]} ELSE ReadOn(f[k - 1])]

LEMMA StepsExist ==
  ASSUME IInv, TInv, pc = "built"
  PROVE  \E f : Steps(f)
<1> DEFINE n == Len(stream)
           X == SUBSET Items(nodes)
           a == {[place |-> 0, name |-> <<>>]}
           F == [k \in 1 .. n |-> [S \in X |-> ReadOn(S)]]
<1>1. n \in Nat /\ 1 \in DOMAIN nodes /\ nodes[1].trieOffset = 0
  BY WrittenIs
<1>2. nodes[1].cummulativeString = <<>>
  BY DEF TInv, Trie
<1>3. a \in X
  BY <1>1, <1>2 DEF Items, Item
<1>4. \A S \in X : ReadOn(S) \in X
  BY ReadOnIs
<1> HIDE DEF X, a, n
<1>5. StepsOn(X, n, F)
  BY <1>4 DEF StepsOn
<1>6. PICK g : ResultsOf(X, n, a, F, g)
  BY <1>1, <1>3, <1>5, Iterated
<1>7. g \in [0 .. n -> X] /\ g[0] = a /\ \A k \in 1 .. n : g[k] = F[k][g[k - 1]]
  BY <1>6 DEF ResultsOf
<1>8. \A k \in 1 .. n : g[k] = ReadOn(g[k - 1])
  <2>1. \A k \in 1 .. n : g[k - 1] \in X
    BY <1>1, <1>7
  <2> QED BY <1>7, <2>1
<1>9. \A k \in 0 .. n : g[k] = IF k = 0 THEN a ELSE ReadOn(g[k - 1])
  BY <1>1, <1>7, <1>8
<1>10. g = [k \in 0 .. n |-> IF k = 0 THEN a ELSE ReadOn(g[k - 1])]
  BY <1>7, <1>9
<1> QED BY <1>10 DEF Steps, a, n

\* It comes to nodes only, each with the name of the node.
LEMMA StepsSound ==
  ASSUME IInv, TInv, pc = "built", NEW f, Steps(f)
  PROVE  \A k \in 0 .. Len(stream) : f[k] \in SUBSET Items(nodes)
<1> DEFINE n == Len(stream)
           T == {k \in 0 .. n : f[k] \notin SUBSET Items(nodes)}
<1>1. n \in Nat /\ 1 \in DOMAIN nodes /\ nodes[1].trieOffset = 0
  BY WrittenIs
<1>2. \A k \in 0 .. n : f[k] = IF k = 0 THEN {[place |-> 0, name |-> <<>>]} ELSE ReadOn(f[k - 1])
  BY Zenon DEF Steps
<1>3. f[0] \in SUBSET Items(nodes)
  <2>1. nodes[1].cummulativeString = <<>>
    BY DEF TInv, Trie
  <2>2. [place |-> 0, name |-> <<>>] \in Items(nodes)
    BY <1>1, <2>1 DEF Items, Item
  <2> QED BY <1>1, <1>2, <2>2
<1> HIDE DEF n
<1>4. ASSUME T # {} PROVE FALSE
  <2>1. T \in SUBSET Nat
    BY <1>1
  <2>2. PICK k \in T : \A j \in T : k <= j
    BY <1>4, <2>1, LeastNat
  <2>3. k \in 0 .. n /\ k # 0 /\ f[k] \notin SUBSET Items(nodes)
    BY <1>3
  <2>4. k - 1 \in 0 .. n /\ ~(k <= k - 1)
    BY <1>1, <2>3
  <2>5. f[k - 1] \in SUBSET Items(nodes)
    BY <2>2, <2>4
  <2>6. ReadOn(f[k - 1]) \in SUBSET Items(nodes)
    BY <2>5, ReadOnIs
  <2> QED BY <1>2, <2>3, <2>6
<1> QED BY <1>4 DEF n

\* It comes to every node: the way to a node is through nodes of shorter names.
LEMMA StepsComplete ==
  ASSUME IInv, TInv, pc = "built", NEW f, Steps(f), NEW i \in DOMAIN nodes
  PROVE  \E k \in 0 .. Len(stream) : Item(nodes, i) \in f[k]
<1> DEFINE n == Len(stream)
           len(m) == Len(nodes[m].cummulativeString)
           D(m) == {j \in DOMAIN nodes : len(j) < len(m)}
           Come(m) == \E k \in 0 .. Cardinality(D(m)) : Item(nodes, m) \in f[k]
           T == {len(m) : m \in {j \in DOMAIN nodes : ~Come(j)}}
<1>1. /\ n \in Nat /\ 1 \in DOMAIN nodes /\ nodes[1].trieOffset = 0 /\ DOMAIN nodes = 1 .. n
      /\ Len(nodes) = n
  BY WrittenIs
<1>2. \A k \in 0 .. n : f[k] = IF k = 0 THEN {[place |-> 0, name |-> <<>>]} ELSE ReadOn(f[k - 1])
  BY Zenon DEF Steps
<1>3. nodes[1].cummulativeString = <<>> /\ \A m \in DOMAIN nodes : NodeFits(nodes, m)
  BY DEF TInv, Trie
<1>4. \A m \in DOMAIN nodes : len(m) \in Nat
  BY <1>3, NameIs DEF NodeFits
<1>5. IsFiniteSet(DOMAIN nodes) /\ Cardinality(DOMAIN nodes) = n
  <2>1. IsFiniteSet(1 .. n) /\ Cardinality(1 .. n) = IF 1 > n THEN 0 ELSE n - 1 + 1
    BY <1>1, FS_Interval
  <2> QED BY <1>1, <2>1
<1>6. \A m : IsFiniteSet(D(m)) /\ Cardinality(D(m)) \in Nat /\ Cardinality(D(m)) <= n
  <2> TAKE m
  <2>1. D(m) \in SUBSET DOMAIN nodes
    OBVIOUS
  <2> HIDE DEF D
  <2> QED BY <1>5, <2>1, FS_Subset, FS_CardinalityType
<1>7. Come(1)
  <2>1. Item(nodes, 1) = [place |-> 0, name |-> <<>>]
    BY <1>1, <1>3 DEF Item
  <2>2. Item(nodes, 1) \in f[0]
    BY <1>1, <1>2, <2>1
  <2>3. 0 \in 0 .. Cardinality(D(1))
    BY <1>6
  <2> QED BY <2>2, <2>3
<1> HIDE DEF n
<1>8. ASSUME T # {} PROVE FALSE
  <2>1. T \in SUBSET Nat
    BY <1>4
  <2>2. PICK l \in T : \A j \in T : l <= j
    BY <1>8, <2>1, LeastNat
  <2>3. PICK m \in DOMAIN nodes : ~Come(m) /\ l = len(m)
    BY <2>2
  <2>4. m # 1
    BY <1>7, <2>3
  <2>5. PICK p \in DOMAIN nodes : \E j \in DOMAIN nodes[p].children : nodes[p].children[j].child = m
    BY <2>4 DEF TInv, Trie, HasParent
  <2>6. PICK j \in DOMAIN nodes[p].children : nodes[p].children[j].child = m
    BY <2>5
  <2>7. len(p) < len(m)
    <3> DEFINE s == nodes[p].cummulativeString
               t == nodes[p].children[j].partialString
    <3>1. s \in Strings /\ t \in Strings /\ t # <<>> /\ nodes[m].cummulativeString = s \o t
      BY <1>3, <2>6 DEF NodeFits
    <3> HIDE DEF s, t
    <3>2. Len(s) \in Nat /\ Len(t) \in Nat /\ Len(t) > 0 /\ Len(s \o t) = Len(s) + Len(t)
      BY <3>1, NameIs, TwoNames
    <3>3. len(p) = Len(s) /\ len(m) = Len(s \o t)
      BY <3>1 DEF s
    <3> QED BY <3>2, <3>3
  <2>8. Come(p)
    <3>0. len(p) \in Nat /\ len(m) \in Nat
      BY <1>4
    <3> HIDE DEF Come, len
    <3>1. ~(l <= len(p))
      BY <2>3, <2>7, <3>0
    <3>2. len(p) \notin T
      <4> HIDE DEF T
      <4> QED BY <2>2, <3>1
    <3> QED BY <3>2
  <2>9. PICK k \in 0 .. Cardinality(D(p)) : Item(nodes, p) \in f[k]
    BY <2>8
  <2>10. Cardinality(D(p)) < Cardinality(D(m))
    <3>1. D(p) \in SUBSET D(m)
      BY <1>4, <2>7
    <3>2. p \in D(m) /\ p \notin D(p)
      BY <1>4, <2>7
    <3> HIDE DEF D
    <3>3. Cardinality(D(p)) <= Cardinality(D(m)) /\ Cardinality(D(p)) # Cardinality(D(m))
      BY <1>6, <3>1, <3>2, FS_Subset
    <3> QED BY <1>6, <3>3
  <2>11. /\ k \in 0 .. n /\ k + 1 \in 0 .. n /\ (k + 1) - 1 = k /\ k + 1 # 0
         /\ k + 1 \in 0 .. Cardinality(D(m))
    <3> HIDE DEF D
    <3> QED BY <1>1, <1>6, <2>10
  <2>12. f[k] \in SUBSET Items(nodes)
    BY <2>11, StepsSound DEF n
  <2>13. Item(nodes, m) \in ReadOn(f[k])
    BY <2>6, <2>9, <2>12, ReadOnIs
  <2>14. f[k + 1] = ReadOn(f[k])
    BY <1>2, <2>11
  <2>15. Come(m)
    <3> HIDE DEF D
    <3> QED BY <2>11, <2>13, <2>14
  <2> QED BY <2>3, <2>15
<1>9. Come(i)
  <2> HIDE DEF Come, len
  <2> QED BY <1>8
<1>10. PICK k \in 0 .. Cardinality(D(i)) : Item(nodes, i) \in f[k]
  BY <1>9
<1>11. k \in 0 .. n
  <2> HIDE DEF D
  <2> QED BY <1>1, <1>6
<1> QED BY <1>10, <1>11 DEF n

\* The reader of a finished trie comes to every node by its name.
LEMMA ReachedIs ==
  ASSUME IInv, TInv, pc = "built"
  PROVE  Reached = Items(nodes)
<1> DEFINE f == CHOOSE g : g = [k \in 0 .. Len(stream) |->
                  IF k = 0 THEN {[place |-> 0, name |-> <<>>]}
                  ELSE UNION {UNION {{[place |-> c.place, name |-> x.name \o c.string] :
                                        c \in n.children} : n \in Written(x.place)} : x \in g[k - 1]}]
<1>1. Reached = UNION {f[k] : k \in 0 .. Len(stream)}
  BY Zenon DEF Reached
<1>2. f = CHOOSE g : Steps(g)
  BY Zenon DEF Steps, ReadOn, Onward
<1>3. Steps(f)
  BY <1>2, StepsExist, Zenon
<1> HIDE DEF f
<1>4. \A k \in 0 .. Len(stream) : f[k] \in SUBSET Items(nodes)
  BY <1>3, StepsSound
<1>5. \A i \in DOMAIN nodes : \E k \in 0 .. Len(stream) : Item(nodes, i) \in f[k]
  BY <1>3, StepsComplete
<1> QED BY <1>1, <1>4, <1>5 DEF Items

\* What parseTrie returns: the entries, each at the offset of its node.
Found(N) == {[export |-> Encoded(N[i].terminalEntry), place |-> N[i].trieOffset] :
               i \in {k \in DOMAIN N : IsTerminal(N[k])}}

LEMMA ParseTrieIs ==
  ASSUME IInv, TInv, pc = "built"
  PROVE  parseTrie = Found(nodes)
<1> DEFINE Entry(x, n) == [export |-> [n.export EXCEPT !.name = x.name], place |-> n.place]
           At(x) == {Entry(x, n) : n \in {m \in Written(x.place) : m.export # NoEntry}}
<1>1. parseTrie = UNION {At(x) : x \in Items(nodes)}
  <2>1. parseTrie = UNION {At(x) : x \in Reached}
    BY Zenon DEF parseTrie
  <2> QED BY <2>1, ReachedIs, Zenon
<1>2. ASSUME NEW i \in DOMAIN nodes
      PROVE  At(Item(nodes, i)) =
               IF IsTerminal(nodes[i])
               THEN {[export |-> Encoded(nodes[i].terminalEntry), place |-> nodes[i].trieOffset]}
               ELSE {}
  <2> DEFINE x == Item(nodes, i)
             w == WrittenNode(nodes, i)
             t == nodes[i].terminalEntry
  <2>1. x.place = nodes[i].trieOffset /\ x.name = nodes[i].cummulativeString
    BY DEF Item
  <2>2. Written(x.place) = {w}
    BY <2>1, WrittenIs
  <2>3. w.export = Encoded(t) /\ w.place = nodes[i].trieOffset
    BY DEF WrittenNode
  <2>4. CASE IsTerminal(nodes[i])
    <3>1. EntryOK(t) /\ t.name = nodes[i].cummulativeString
      BY <2>4 DEF TInv, Trie, NodeFits
    <3>2. Encoded(t) # NoEntry /\ [Encoded(t) EXCEPT !.name = t.name] = Encoded(t)
      BY <3>1, EncodedIs
    <3> HIDE DEF x, w, t
    <3>3. {m \in Written(x.place) : m.export # NoEntry} = {w}
      BY <2>2, <2>3, <3>2
    <3>4. Entry(x, w) = [export |-> Encoded(t), place |-> nodes[i].trieOffset]
      BY <2>1, <2>3, <3>1, <3>2
    <3>5. At(x) = {Entry(x, w)}
      BY <3>3
    <3> QED BY <2>4, <3>4, <3>5 DEF x, t
  <2>5. CASE ~IsTerminal(nodes[i])
    <3>1. Encoded(t) = NoEntry
      BY <2>5, EncodedNone DEF IsTerminal
    <3> HIDE DEF x, w, t
    <3>2. {m \in Written(x.place) : m.export # NoEntry} = {}
      BY <2>2, <2>3, <3>1
    <3>3. At(x) = {}
      BY <3>2
    <3> QED BY <2>5, <3>3 DEF x
  <2> QED BY <2>4, <2>5
<1> HIDE DEF At
<1>3. ASSUME NEW y
      PROVE  y \in parseTrie <=> \E i \in DOMAIN nodes : y \in At(Item(nodes, i))
  BY <1>1 DEF Items
<1>4. ASSUME NEW y
      PROVE  y \in Found(nodes) <=>
               \E i \in DOMAIN nodes : /\ IsTerminal(nodes[i])
                                       /\ y = [export |-> Encoded(nodes[i].terminalEntry),
                                               place |-> nodes[i].trieOffset]
  BY Zenon DEF Found
<1>5. ASSUME NEW y PROVE y \in parseTrie <=> y \in Found(nodes)
  BY <1>2, <1>3, <1>4
<1> QED BY <1>5

\* The names read are those of the entries, in the order of their offsets.
LEMMA FoundIs ==
  ASSUME IInv, TInv, pc = "built"
  PROVE  /\ IsFiniteSet(Found(nodes))
         /\ \A x \in Found(nodes) : EntryOK(x.export) /\ Encoded(x.export) = x.export
         /\ \A x, y \in Found(nodes) : x # y =>
              /\ x.export.name # y.export.name
              /\ x.place < y.place <=> Below(x.export.name, y.export.name)
<1> DEFINE F(i) == [export |-> Encoded(nodes[i].terminalEntry), place |-> nodes[i].trieOffset]
           T == {k \in DOMAIN nodes : IsTerminal(nodes[k])}
           f == [i \in T |-> F(i)]
<1>1. /\ DOMAIN nodes = 1 .. Len(nodes) /\ Len(nodes) \in Nat
      /\ \A i, j \in DOMAIN nodes : i < j <=> nodes[i].trieOffset < nodes[j].trieOffset
  BY WrittenIs
<1>2. ASSUME NEW i \in T
      PROVE  /\ EntryOK(F(i).export) /\ Encoded(F(i).export) = F(i).export
             /\ F(i).export.name = nodes[i].cummulativeString /\ F(i).place = nodes[i].trieOffset
             /\ nodes[i].cummulativeString \in Strings
  <2>1. /\ EntryOK(nodes[i].terminalEntry) /\ nodes[i].cummulativeString \in Strings
        /\ nodes[i].terminalEntry.name = nodes[i].cummulativeString
    BY DEF TInv, Trie, NodeFits
  <2> QED BY <2>1, EncodedIs
<1>3. \A x \in Found(nodes) : \E i \in T : x = F(i)
  BY Zenon DEF Found
<1>4. T \subseteq DOMAIN nodes /\ \A i \in T : IsTerminal(nodes[i])
  OBVIOUS
<1> HIDE DEF T, F
<1>5. IsFiniteSet(Found(nodes))
  <2>1. IsFiniteSet(1 .. Len(nodes))
    BY <1>1, FS_Interval
  <2>2. IsFiniteSet(T)
    BY <1>1, <1>4, <2>1, FS_Subset
  <2>3. DOMAIN f = T /\ f = [i \in T |-> f[i]] /\ \A x \in Found(nodes) : \E i \in T : x = f[i]
    BY <1>3
  <2> HIDE DEF f
  <2> QED BY <2>2, <2>3, FiniteImage
<1>6. ASSUME NEW i \in T, NEW j \in T, i < j
      PROVE  Below(F(i).export.name, F(j).export.name)
  BY <1>2, <1>4, <1>6 DEF TInv, Trie, InOrder
<1>7. ASSUME NEW x \in Found(nodes), NEW y \in Found(nodes), x # y
      PROVE  /\ x.export.name # y.export.name
             /\ x.place < y.place <=> Below(x.export.name, y.export.name)
  <2>1. PICK i \in T : x = F(i)
    BY <1>3
  <2>2. PICK j \in T : y = F(j)
    BY <1>3
  <2>3. i # j /\ i \in Nat /\ j \in Nat /\ (i < j <=> x.place < y.place)
    BY <1>1, <1>2, <1>4, <1>7, <2>1, <2>2
  <2>4. x.export.name \in Strings /\ y.export.name \in Strings
    BY <1>2, <2>1, <2>2
  <2>5. CASE i < j
    <3>1. Below(x.export.name, y.export.name)
      BY <1>6, <2>1, <2>2, <2>5
    <3>2. ~Below(x.export.name, x.export.name)
      BY <2>4, BelowOrder
    <3> QED BY <2>3, <2>5, <3>1, <3>2
  <2>6. CASE j < i
    <3>1. Below(y.export.name, x.export.name)
      BY <1>6, <2>1, <2>2, <2>6
    <3>2. ~Below(x.export.name, x.export.name)
      BY <2>4, BelowOrder
    <3>3. ~Below(x.export.name, y.export.name)
      BY <2>4, <3>1, <3>2, BelowOrder
    <3>4. ~(i < j)
      BY <2>3, <2>6
    <3> QED BY <2>3, <3>1, <3>2, <3>3, <3>4
  <2> QED BY <2>3, <2>5, <2>6
<1>8. \A x \in Found(nodes) : EntryOK(x.export) /\ Encoded(x.export) = x.export
  BY <1>2, <1>3
<1> QED BY <1>5, <1>7, <1>8

\* What strip keeps is added again, in the order of the offsets, which is that
\* of the names.
LEMMA PruneT ==
  ASSUME IInv, TInv, Prune
  PROVE  TInv'
<1>1. pc = "built" /\ round = 1 /\ at = 0 /\ todo = {} /\ UNCHANGED at
  BY DEF Prune, IInv, Nodes, TInv, Order
<1>2. CASE pc' = "done" /\ UNCHANGED <<nodes, todo, wanted>>
  <2>1. SameNodes(nodes, nodes')
    BY <1>2 DEF SameNodes
  <2>2. Streamed'
    BY <1>2 DEF Streamed
  <2> QED BY <1>1, <1>2, <2>1, <2>2, SameEntries DEF TInv
<1>3. CASE \E P \in SUBSET parseTrie :
             /\ todo' = parseTrie \ P /\ wanted' = {x.export : x \in todo'}
             /\ nodes' = <<NewNode(<<>>)>> /\ pc' = "add" /\ round' = 2
  <2>1. PICK P \in SUBSET parseTrie : todo' = parseTrie \ P
    BY <1>3
  <2>2. /\ wanted' = {x.export : x \in todo'} /\ nodes' = <<NewNode(<<>>)>>
        /\ pc' = "add" /\ round' = 2
    BY <1>3
  <2>3. todo' \subseteq Found(nodes)
    BY <1>1, <2>1, ParseTrieIs
  <2>4. Trie(nodes') /\ \A i \in DOMAIN nodes' : ~IsTerminal(nodes'[i])
    BY <2>2, RootTrie
  <2>5. /\ IsFiniteSet(Found(nodes))
        /\ \A x \in Found(nodes) : EntryOK(x.export) /\ Encoded(x.export) = x.export
        /\ \A x, y \in Found(nodes) : x # y =>
             /\ x.export.name # y.export.name
             /\ x.place < y.place <=> Below(x.export.name, y.export.name)
    BY <1>1, FoundIs
  <2>6. Order'
    <3>1. IsFiniteSet(todo')
      BY <2>3, <2>5, FS_Subset
    <3>2. \A x, y : Sooner(x, y)' <=> x.place < y.place
      BY <2>2 DEF Sooner
    <3> QED BY <2>2, <2>3, <2>4, <2>5, <3>1, <3>2 DEF Order
  <2>7. Adding' /\ Streamed'
    BY <1>1, <2>2 DEF Adding, Streamed
  <2>8. Kept'
    <3>1. Entries' = {x.export : x \in todo'}
      BY <1>1, <2>4 DEF Entries
    <3>2. \A e \in {x.export : x \in todo'} : Encoded(e) = e
      BY <2>3, <2>5
    <3>3. {Encoded(e) : e \in {x.export : x \in todo'}} = {x.export : x \in todo'}
      BY <3>2
    <3> QED BY <2>2, <3>1, <3>3 DEF Kept
  <2> QED BY <2>4, <2>6, <2>7, <2>8 DEF TInv
<1> QED BY <1>2, <1>3, Zenon DEF Prune

LEMMA CopyIntoPlaceT ==
  ASSUME IInv, TInv, CopyIntoPlace
  PROVE  TInv'
<1>1. /\ at = 0 /\ todo = {} /\ UNCHANGED <<nodes, at, todo, wanted>>
      /\ pc' \in {"larger", "done"}
  BY DEF CopyIntoPlace, IInv, Nodes, TInv, Order
<1>2. SameNodes(nodes, nodes')
  BY <1>1 DEF SameNodes
<1>3. Streamed'
  BY <1>1 DEF Streamed
<1> QED BY <1>1, <1>2, <1>3, SameEntries DEF TInv

\* Every step keeps the trie.
LEMMA NextT == IInv /\ TInv /\ [Next]_vars => TInv'
<1> SUFFICES ASSUME IInv, TInv, [Next]_vars PROVE TInv'
  OBVIOUS
<1>1. CASE UNCHANGED vars
  <2>1. \A x, y : Sooner(x, y)' <=> Sooner(x, y)
    BY <1>1 DEF Sooner, vars
  <2>2. Order'
    BY <1>1, <2>1 DEF TInv, Order, vars
  <2>3. Adding' /\ Streamed' /\ Trie(nodes)'
    BY <1>1 DEF TInv, Adding, Streamed, vars
  <2>4. Entries' = Entries
    BY <1>1 DEF Entries, vars
  <2> QED BY <1>1, <2>2, <2>3, <2>4 DEF TInv, Kept, vars
<1>2. CASE Build
  BY <1>2, NextEntryT, DescendT, SpliceT, AddEdgeT, AllAddedT, UpdateOffsetT, EndOffsetsT,
     AppendToStreamT, EndStreamT DEF Build
<1>3. CASE Prune
  BY <1>3, PruneT
<1>4. CASE CopyIntoPlace
  BY <1>4, CopyIntoPlaceT
<1>5. CASE Done
  BY <1>1, <1>5 DEF Done
<1> QED BY <1>1, <1>2, <1>3, <1>4, <1>5 DEF Next

LEMMA TrieInvariance == Spec => [](IInv /\ TInv)
<1>1. Init => IInv /\ TInv
  BY InitInv, TInvInit
<1>2. IInv /\ TInv /\ [Next]_vars => (IInv /\ TInv)'
  BY NextInv, NextT
<1> QED BY <1>1, <1>2, PTL DEF Spec

-----------------------------------------------------------------------------
(***************************************************************************)
(* What the trie says.                                                     *)
(***************************************************************************)

\* "quick check if first char of edge matches": for any names, linked or
\* pruned, no node ever has an empty edge or two that start alike, so that
\* addEntry and a reader that take the first matching edge take the right one.
THEOREM EdgesApart == Spec => []EdgesTellApart
<1>1. ASSUME IInv, TInv PROVE EdgesTellApart
  BY <1>1 DEF TInv, Trie, NodeFits, EdgesTellApart
<1> QED BY <1>1, TrieInvariance, PTL

\* Reading a finished trie gives every export that the trie was built for,
\* under its own name and with what was said of it, and nothing else: for any
\* names, whatever edges were cut, and again after strip has pruned any of the
\* exports and built the trie of the others in the order of the old offsets.
THEOREM ExportsFound == Spec => []EveryExportFound
<1>1. ASSUME IInv, TInv PROVE EveryExportFound
  <2> SUFFICES ASSUME pc = "built" PROVE {x.export : x \in parseTrie} = wanted
    BY DEF EveryExportFound
  <2> DEFINE T == {k \in DOMAIN nodes : IsTerminal(nodes[k])}
  <2>1. at = 0 /\ todo = {} /\ wanted = {Encoded(e) : e \in Entries}
    BY <1>1 DEF IInv, Nodes, TInv, Order, Kept
  <2>2. Entries = {nodes[i].terminalEntry : i \in T}
    BY <2>1 DEF Entries
  <2>3. parseTrie = {[export |-> Encoded(nodes[i].terminalEntry), place |-> nodes[i].trieOffset] : i \in T}
    BY <1>1, ParseTrieIs DEF Found
  <2> HIDE DEF T
  <2>4. {x.export : x \in parseTrie} = {Encoded(nodes[i].terminalEntry) : i \in T}
    <3>1. \A i \in T : [export |-> Encoded(nodes[i].terminalEntry),
                        place |-> nodes[i].trieOffset].export = Encoded(nodes[i].terminalEntry)
      OBVIOUS
    <3>2. \A x \in parseTrie : \E i \in T : x.export = Encoded(nodes[i].terminalEntry)
      BY <2>3
    <3>3. \A i \in T : \E x \in parseTrie : x.export = Encoded(nodes[i].terminalEntry)
      BY <2>3, <3>1
    <3> QED BY <3>2, <3>3
  <2>5. wanted = {Encoded(nodes[i].terminalEntry) : i \in T}
    BY <2>1, <2>2
  <2> QED BY <2>4, <2>5
<1> QED BY <1>1, TrieInvariance, PTL

\* In the order of their offsets the exports are sorted by name.
OffsetsInNameOrder ==
  pc = "built" => \A x, y \in parseTrie :
    x.place < y.place <=> NameLess(x.export.name, y.export.name)

\* strip adds the exports it keeps in the order of their offsets in the old
\* trie "to preserve tie layout order", not sorted by name as the linker does
\* and addEntry needs: the two orders are the same, because a node is written
\* behind the ones made before it.
THEOREM PlacesSorted == Spec => []OffsetsInNameOrder
<1>1. ASSUME IInv, TInv PROVE OffsetsInNameOrder
  <2> SUFFICES ASSUME pc = "built", NEW x \in parseTrie, NEW y \in parseTrie
               PROVE  x.place < y.place <=> NameLess(x.export.name, y.export.name)
    BY DEF OffsetsInNameOrder
  <2>1. x \in Found(nodes) /\ y \in Found(nodes)
    BY <1>1, ParseTrieIs
  <2>2. x.export.name \in Strings /\ y.export.name \in Strings
    BY <1>1, <2>1, FoundIs DEF EntryOK
  <2>3. CASE x = y
    <3>1. x.place \in Nat
      <4>1. \A i \in DOMAIN nodes : nodes[i].trieOffset \in Nat
        BY <1>1, OffsetsRise DEF IInv, Nodes, TInv, Streamed
      <4> QED BY <2>1, <4>1 DEF Found
    <3>2. ~Below(x.export.name, x.export.name)
      BY <2>2, BelowOrder
    <3> QED BY <2>2, <2>3, <3>1, <3>2, NameLessIs
  <2>4. CASE x # y
    <3>1. x.place < y.place <=> Below(x.export.name, y.export.name)
      BY <1>1, <2>1, <2>4, FoundIs
    <3> QED BY <2>2, <3>1, NameLessIs
  <2> QED BY <2>3, <2>4
<1> QED BY <1>1, TrieInvariance, PTL

\* Something is left of the name at every node addEntry comes to.
SomethingLeft == at # 0 => Tail1 # <<>>

\* addEntry never reports a "duplicate symbol" and never makes an empty edge
\* for a name that ends where an edge does: a name that is the beginning of
\* others is added before them, by the linker and by strip.
THEOREM NoDuplicateSymbol == Spec => []SomethingLeft
<1>1. ASSUME IInv, TInv PROVE SomethingLeft
  BY <1>1, TailIs DEF SomethingLeft
<1> QED BY <1>1, TrieInvariance, PTL
=============================================================================
