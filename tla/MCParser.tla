------------------------------- MODULE MCParser -------------------------------
(* Small instances of Parser: programs that begin anywhere, in a method of a   *)
(* class, or in a class within one.                                            *)
EXTENDS Parser

Method == <<"CLASS", "IDENTIFIER", "LEFT_BRACE", "IDENTIFIER", "LEFT_PAREN", "RIGHT_PAREN",
            "COLON", "IDENTIFIER", "LEFT_BRACE">>
Starts == {<<>>, Method, Method \o <<"CLASS", "IDENTIFIER", "LEFT_BRACE">>}
===============================================================================
