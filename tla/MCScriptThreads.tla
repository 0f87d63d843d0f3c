--------------------------- MODULE MCScriptThreads ---------------------------
(* Threads, objects and names are used alike: states that differ in which   *)
(* of them is which are one.                                                *)
EXTENDS ScriptThreads

Symmetry == Permutations(Threads) \cup Permutations(Objects) \cup Permutations(Names)
=============================================================================
