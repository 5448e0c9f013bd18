----------------------------- MODULE MCX86Objects -----------------------------
(* Small instances of X86Objects. The registers are interchangeable. *)
EXTENDS X86Objects

Sym == Permutations(GP)
=============================================================================
