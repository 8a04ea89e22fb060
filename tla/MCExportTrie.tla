---------------------------- MODULE MCExportTrie ----------------------------
(***************************************************************************)
(* Images for the model of the export trie: up to six names of up to      *)
(* three letters that are prefixes of each other or share one, in a trie   *)
(* that is just longer than the offsets of one byte reach.                 *)
(***************************************************************************)
EXTENDS ExportTrie, FiniteSetsExt

Atom(n, k) == [name |-> n, kind |-> k, address |-> 100, stub |-> 200, ordinal |-> 1,
               aliasOf |-> <<>>, reExported |-> FALSE, data |-> FALSE]

Names == {<<1>>, <<1, 1>>, <<1, 1, 1>>, <<1, 1, 2>>, <<1, 2>>, <<1, 2, 1>>, <<2>>, <<2, 1>>}

\* Any names, all regular symbols of a 64-bit image.
NameImages == {[ptr |-> 8, atoms |-> {Atom(n, "regular") : n \in N}] :
                 N \in UNION {kSubset(k, Names) : k \in 1..6}}

\* Resolvers, re-exports with and without a change of name, and a proxy of a
\* library that is re-exported as a whole, in a 32-bit image of which one
\* symbol is in __DATA.
KindImages ==
  {[ptr |-> 4,
    atoms |-> {[Atom(<<1>>, "regular") EXCEPT !.data = d], Atom(<<1, 1>>, "resolver"),
               [Atom(<<1, 2>>, "proxy") EXCEPT !.aliasOf = i],
               [Atom(<<2>>, "proxy") EXCEPT !.reExported = r]}] :
     d \in BOOLEAN, r \in BOOLEAN, i \in {<<>>, <<1, 2>>, <<2, 1>>}}

TrieImages == NameImages \cup KindImages
=============================================================================
