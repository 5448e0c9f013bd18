---------------------------- MODULE MCTypeBuilder ----------------------------
(* Small instances of TypeBuilder: arrays of the class "A", and arrays of those. *)
EXTENDS TypeBuilder

ElemOf == [a \in {"A[]", "A[][]"} |-> IF a = "A[]" THEN "A" ELSE "A[]"]
=============================================================================
