---------------------------- MODULE MCParsePool ----------------------------
(* Small instances of the threaded parser. *)
EXTENDS ParsePool

\* Distinct paths, as a build system writes them.
DistinctPaths == [s \in 0 .. NumFiles - 1 |-> s]

=============================================================================
