------------------------------- MODULE MCScanner -------------------------------
(* A small instance of Scanner: one character of every kind, two letters that  *)
(* make a reserved word, and one that is a token.                              *)
EXTENDS Scanner

Reserved == {<<"f", "n">>}
===============================================================================
