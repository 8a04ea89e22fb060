------------------------------- MODULE Lists -------------------------------
(***************************************************************************)
(* The filter of a list, as a recursive function: ld64 builds most of its  *)
(* lists by a loop that pushes back what passes a test.                    *)
(***************************************************************************)
EXTENDS Naturals, Sequences

\* The elements of s that are in S, in their order.
Only(s, S) ==
  LET kept[i \in 0 .. Len(s)] ==
        IF i = 0 THEN <<>>
        ELSE IF s[i] \in S THEN Append(kept[i - 1], s[i]) ELSE kept[i - 1]
  IN  kept[Len(s)]
=============================================================================
