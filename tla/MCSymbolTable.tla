--------------------------- MODULE MCSymbolTable ---------------------------
(* Small instances of the symbol table: every kind of atom, in any order. *)
EXTENDS SymbolTable

\* One file of each ordinal; the first two are one path given twice.
Files == 1 .. 3
PathOf(f) == IF f = 2 THEN 1 ELSE f

Atom(n, f, def, comb) ==
  [key |-> n, ordinal |-> f, path |-> PathOf(f), definition |-> def,
   combine |-> comb, scope |-> "global", size |-> 1, alignment |-> 0,
   isLTO |-> FALSE, autoHide |-> FALSE, machHeader |-> FALSE, refs |-> {}]

StrongAtoms == {Atom("x", f, "regular", "never") : f \in Files}
HeaderAtoms == {[Atom("x", f, "regular", "never") EXCEPT !.machHeader = TRUE] :
                  f \in {2}}
WeakAtoms ==
  {[Atom("x", f, "regular", "byName") EXCEPT
      !.isLTO = l, !.autoHide = h, !.scope = g, !.alignment = p] :
     f \in Files, l \in BOOLEAN, h \in BOOLEAN,
     g \in {"global", "linkageUnit"}, p \in 0 .. 1}
TentativeAtoms ==
  {[Atom("x", f, "tentative", "byName") EXCEPT !.size = s] :
     f \in Files, s \in 1 .. 2}
AbsoluteAtoms == {Atom("x", f, "absolute", "never") : f \in Files}
ProxyAtoms == {Atom("x", f, "proxy", c) : f \in {2, 3}, c \in {"never", "byName"}}
NamedAtoms == StrongAtoms \cup HeaderAtoms \cup WeakAtoms \cup TentativeAtoms
                \cup AbsoluteAtoms \cup ProxyAtoms

NoneOf == [a \in Atoms |-> {}]

=============================================================================
