---------------------------- MODULE MCNameBinding ----------------------------
(* Small instances of NameBinding. The names are interchangeable. *)
EXTENDS NameBinding

Sym == Permutations(Names)
=============================================================================
