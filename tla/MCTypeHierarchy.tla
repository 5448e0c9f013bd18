--------------------------- MODULE MCTypeHierarchy ---------------------------
(* Small instances of TypeHierarchy: three classes and a primitive. *)
EXTENDS TypeHierarchy

CONSTANTS A, B, C, IntT

Three == {A, B, C}
PrimNames == {IntT}
ThreeTypes == Three \cup PrimNames

\* No action singles out a class, a field name or a method name.
Sym == Permutations(Classes) \cup Permutations(FieldNames) \cup Permutations(MethodNames)
=============================================================================
