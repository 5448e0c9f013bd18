---------------------------- MODULE MCScopeReplay ----------------------------
(* Small instances of ScopeReplay. Names and types are interchangeable. *)
EXTENDS ScopeReplay

Sym == Permutations(Names) \cup Permutations(Values)
=============================================================================
