--------------------------- MODULE MCExpressionTypes ---------------------------
(* A small instance of ExpressionTypes: a class and its subclass, with a field *)
(* each, methods and an init; a function of two parameters; the function in    *)
(* progress is a method of the subclass.                                       *)
EXTENDS ExpressionTypes

Sig(args, result) == [args |-> args, result |-> result]

Two == {"A", "B"}
Inherits == [c \in Two |-> IF c = "B" THEN "A" ELSE "none"]
OwnFields == [c \in Two |-> IF c = "A" THEN [f |-> Float] ELSE [g |-> T("A")]]
OwnMethods ==
  [c \in Two |-> IF c = "A"
                 THEN [init |-> Sig(<<>>, T("A")), m |-> Sig(<<T("A")>>, IntType)]
                 ELSE [init |-> Sig(<<>>, T("B"))]]
TopLevel == [h |-> Sig(<<T("A"), Float>>, Void)]
Declared == {Float, T("A")}
Returns == {T("A")}
===============================================================================
