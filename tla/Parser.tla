-------------------------------- MODULE Parser --------------------------------
(***************************************************************************)
(* The Parser (src/src/parser.cc): recursive descent over the tokens, one  *)
(* of them looked at, two in the body of a class. todo is the stack of the *)
(* functions in progress, as what they still have to do, the innermost     *)
(* first. The tokens are chosen when they are first looked at.             *)
(*                                                                         *)
(* A token stands for all that the grammar treats alike: NUMBER for the    *)
(* literals and "this", PLUS, STAR, LESS and EQUAL_EQUAL for the operators *)
(* of their level, INIT for an identifier that reads "init".               *)
(***************************************************************************)
EXTENDS Naturals, Sequences

CONSTANTS Tokens,     \* token types of the programs
          MaxParams,  \* most parameters and arguments; 8 in the code
          Prefixes,   \* sequences of tokens a program may begin with
          MaxTokens   \* bound: tokens after the prefix

VARIABLES
  prefix,       \* the first tokens of the program
  mode,         \* "parse", "thrown" (a ParseErr), "synchronize", "done"
  current,      \* tokens consumed
  ahead,        \* tokens looked at and not consumed yet
  todo,         \* <<[what, name, n]>>
  made,         \* what kind of expression the last one is
  outer_class,  \* 0 is null, n the n-th of nested classes
  outers,       \* the prev_outer_class of each class_declaration in progress
  had_error,
  depth,        \* ghost: calls of class_declaration in progress
  open,         \* ghost: brackets consumed and not closed, innermost first
  moved         \* ghost: was a token consumed since the last ParseErr?

tokens == <<prefix, current, ahead>>
classes == <<outer_class, outers, depth>>
vars == <<mode, tokens, todo, made, classes, had_error, open, moved>>

EOF == "END_OF_FILE"
Types == Tokens \cup {EOF}

Init ==
  /\ prefix \in Prefixes
  /\ mode = "parse"
  /\ current = 0 /\ ahead = <<>>
  /\ todo = <<>> /\ made = "other"
  /\ outer_class = 0 /\ outers = <<>> /\ depth = 0
  /\ had_error = FALSE
  /\ open = <<>> /\ moved = TRUE

-----------------------------------------------------------------------------
(* Tokens. *)

\* What the token after the first n of the program may be.
Fresh(n) ==
  IF n < Len(prefix) THEN {prefix[n + 1]}
  ELSE IF n < Len(prefix) + MaxTokens THEN Types ELSE {EOF}

\* The ways ahead can look once peek() has been asked, or peek_ahead().
Peek == IF ahead # <<>> THEN {ahead} ELSE {<<t>> : t \in Fresh(current)}

PeekAhead ==
  UNION {IF Len(s) = 2 \/ s[1] \in {"RIGHT_BRACE", EOF} THEN {s}
         ELSE {Append(s, t) : t \in Fresh(current + 1)} : s \in Peek}

\* Does a token of type t pass for x?
Is(t, x) == t = x \/ (x = "IDENTIFIER" /\ t = "INIT")

Closer == [LEFT_PAREN |-> "RIGHT_PAREN", LEFT_BRACE |-> "RIGHT_BRACE",
           LEFT_BRACKET |-> "RIGHT_BRACKET"]
Openers == DOMAIN Closer
Closers == {Closer[b] : b \in Openers}

\* A bracket that closes no open one of its kind stays.
Nest(t) ==
  IF t \in Closers /\ open # <<>> /\ open[1] \in Openers /\ Closer[open[1]] = t
  THEN Tail(open)
  ELSE IF t \in Openers \cup Closers THEN <<t>> \o open ELSE open

\* advance(), past the first token of s.
Advance(s) ==
  /\ current' = current + 1
  /\ ahead' = Tail(s)
  /\ open' = Nest(s[1])
  /\ moved' = TRUE

-----------------------------------------------------------------------------
(* The grammar: what a function does after a look at the next token t, as     *)
(* [eat: is t consumed?, todo: what is left to do].                           *)

Item(what, name, n) == [what |-> what, name |-> name, n |-> n]
Do(name) == Item("parse", name, 0)          \* call a function
Need(t) == Item("consume", t, 0)            \* consume(t)
Made(kind) == Item("made", kind, 0)         \* an expression is complete
Count(name, n) == Item("parse", name, n)    \* the n-th turn of a loop

Eat(items) == [eat |-> TRUE, todo |-> items]
Keep(items) == [eat |-> FALSE, todo |-> items]
Nothing == Keep(<<>>)
Throw == Keep(<<Item("throw", "", 0)>>)

EatIf(t, x, items) == IF Is(t, x) THEN Eat(items) ELSE Nothing

Type == <<Need("IDENTIFIER"), Do("dimensions")>>

Dimensions(t) ==
  EatIf(t, "LEFT_BRACKET", <<Do("expression"), Need("RIGHT_BRACKET"), Do("dimensions")>>)

Var == <<Need("IDENTIFIER"), Do("var_type"), Need("SEMICOLON")>>

VarType(t) ==
  IF t = "EQUAL" THEN Eat(<<Do("expression")>>)
  ELSE Keep(<<Need("COLON")>> \o Type \o <<Do("var_init")>>)

VarInit(t) == EatIf(t, "EQUAL", <<Do("expression")>>)

Block == <<Do("block"), Need("RIGHT_BRACE")>>

BlockBody(t) ==
  IF t \in {"RIGHT_BRACE", EOF} THEN Nothing ELSE Keep(<<Do("declaration"), Do("block")>>)

Class ==
  <<Need("IDENTIFIER"), Item("enter", "", 0), Do("superclass"), Need("LEFT_BRACE"),
    Do("members"), Need("RIGHT_BRACE"), Item("leave", "", 0)>>

Superclass(t) == EatIf(t, "LESS", <<Need("IDENTIFIER")>>)

\* A field if a colon is next but one, else a method.
Members(s) ==
  IF s[1] \in {"RIGHT_BRACE", EOF} THEN Nothing
  ELSE Keep((IF Len(s) = 2 /\ s[2] = "COLON" THEN Var ELSE <<Do("func")>>)
            \o <<Do("members")>>)

\* The name decides, after the parameters, whether a return type follows.
Func(t) ==
  IF Is(t, "IDENTIFIER")
  THEN Eat(<<Need("LEFT_PAREN"), Do("params"), Need("RIGHT_PAREN"),
             Item("returns", t, 0), Need("LEFT_BRACE")>> \o Block)
  ELSE Throw

Params(t) == IF t = "RIGHT_PAREN" THEN Nothing ELSE Keep(<<Count("param", 1)>>)

Param(n) ==
  Keep(<<Need("IDENTIFIER"), Need("COLON")>> \o Type \o <<Count("next_param", n + 1)>>)

NextParam(t, n) == EatIf(t, "COMMA", <<Count("param", n)>>)

ExprStmt == <<Do("expression"), Need("SEMICOLON")>>
Condition == <<Need("LEFT_PAREN"), Do("expression"), Need("RIGHT_PAREN")>>

Statement(t) ==
  CASE t = "IF" -> Eat(Condition \o <<Do("statement"), Do("else")>>)
    [] t = "PRINT" -> Eat(ExprStmt)
    [] t = "RETURN" -> Eat(<<Do("return_value"), Need("SEMICOLON")>>)
    [] t = "WHILE" -> Eat(Condition \o <<Need("LEFT_BRACE")>> \o Block)
    [] t = "FOR" -> Eat(<<Need("LEFT_PAREN"), Do("for_init"), Do("for_condition"),
                          Need("SEMICOLON"), Do("for_increment"), Need("RIGHT_PAREN"),
                          Do("statement")>>)
    [] t = "LEFT_BRACE" -> Eat(Block)
    [] OTHER -> Keep(ExprStmt)

Else(t) == EatIf(t, "ELSE", <<Do("statement")>>)
ReturnValue(t) == IF t = "SEMICOLON" THEN Nothing ELSE Keep(<<Do("expression")>>)
ForInit(t) == IF t = "VAR" THEN Eat(Var) ELSE Keep(ExprStmt)
ForCondition(t) == IF t = "SEMICOLON" THEN Nothing ELSE Keep(<<Do("expression")>>)
ForIncrement(t) == IF t = "RIGHT_PAREN" THEN Nothing ELSE Keep(<<Do("expression")>>)

Declaration(t) ==
  CASE t = "FN" -> Eat(<<Do("func")>>)
    [] t = "CLASS" -> Eat(Class)
    [] t = "VAR" -> Eat(Var)
    [] OTHER -> Statement(t)

\* The levels of binary operators, from the loosest to the tightest; the
\* functions of the levels call each other before they look at a token.
Levels == <<"logical_or", "logical_and", "equality", "comparison", "addition",
            "multiplication">>
Operators == [logical_or |-> {"OR"}, logical_and |-> {"AND"},
              equality |-> {"EQUAL_EQUAL"}, comparison |-> {"LESS"},
              addition |-> {"PLUS", "MINUS"}, multiplication |-> {"STAR"}]

\* A call of the function for level i: the operand, then the loops on the way out.
From(i) == <<Do("unary")>> \o [j \in 1..Len(Levels) + 1 - i |-> Do(Levels[Len(Levels) + 1 - j])]

Expression == Keep(From(1) \o <<Do("assignment")>>)

Level(i, t) ==
  IF t \in Operators[Levels[i]]
  THEN Eat(From(i + 1) \o <<Made("other"), Do(Levels[i])>>)
  ELSE Nothing

\* The left side is looked at only after the right one has been parsed.
Assignment(t) == EatIf(t, "EQUAL", <<Do("expression"), Item("assign", made, 0)>>)

Unary(t) ==
  IF t \in {"BANG", "MINUS"} THEN Eat(<<Do("unary"), Made("other")>>)
  ELSE Keep(<<Do("primary"), Do("call")>>)

Primary(t) ==
  CASE t = "NUMBER" -> Eat(<<Made("other")>>)
    [] Is(t, "IDENTIFIER") -> Eat(<<Made("variable")>>)
    [] t = "LEFT_PAREN" -> Eat(<<Do("expression"), Need("RIGHT_PAREN"), Made("other")>>)
    [] OTHER -> Throw

\* Mutant: the bracket after an index is not asked for.
CallForgetsBracket(t) ==
  CASE t = "LEFT_PAREN" -> Eat(<<Do("args"), Need("RIGHT_PAREN"), Made("other"), Do("call")>>)
    [] t = "LEFT_BRACKET" -> Eat(<<Do("expression"), Made("indexed"), Do("call")>>)
    [] t = "DOT" -> Eat(<<Need("IDENTIFIER"), Made("field"), Do("call")>>)
    [] OTHER -> Nothing

Call(t) ==
  CASE t = "LEFT_PAREN" -> Eat(<<Do("args"), Need("RIGHT_PAREN"), Made("other"), Do("call")>>)
    [] t = "LEFT_BRACKET" -> Eat(<<Do("expression"), Need("RIGHT_BRACKET"), Made("indexed"),
                                   Do("call")>>)
    [] t = "DOT" -> Eat(<<Need("IDENTIFIER"), Made("field"), Do("call")>>)
    [] OTHER -> Nothing

Args(t) == IF t = "RIGHT_PAREN" THEN Nothing ELSE Keep(<<Count("arg", 1)>>)
Arg(n) == Keep(<<Do("expression"), Count("next_arg", n + 1)>>)
NextArg(t, n) == EatIf(t, "COMMA", <<Count("arg", n)>>)

\* What the function called name does when it sees s, on its n-th turn.
Rule(name, n, s) ==
  LET t == s[1]
  IN  CASE name = "declaration" -> Declaration(t)
        [] name = "statement" -> Statement(t)
        [] name = "else" -> Else(t)
        [] name = "return_value" -> ReturnValue(t)
        [] name = "for_init" -> ForInit(t)
        [] name = "for_condition" -> ForCondition(t)
        [] name = "for_increment" -> ForIncrement(t)
        [] name = "block" -> BlockBody(t)
        [] name = "var_type" -> VarType(t)
        [] name = "var_init" -> VarInit(t)
        [] name = "dimensions" -> Dimensions(t)
        [] name = "superclass" -> Superclass(t)
        [] name = "members" -> Members(s)
        [] name = "func" -> Func(t)
        [] name = "params" -> Params(t)
        [] name = "param" -> Param(n)
        [] name = "next_param" -> NextParam(t, n)
        [] name = "expression" -> Expression
        [] name = "assignment" -> Assignment(t)
        [] name = "unary" -> Unary(t)
        [] name = "primary" -> Primary(t)
        [] name = "call" -> Call(t)
        [] name = "args" -> Args(t)
        [] name = "arg" -> Arg(n)
        [] name = "next_arg" -> NextArg(t, n)
        [] OTHER -> Level(CHOOSE i \in DOMAIN Levels : Levels[i] = name, t)

-----------------------------------------------------------------------------
(* The parser at work. *)

Top == Head(todo)
Rest == Tail(todo)
Doing(what) == mode = "parse" /\ todo # <<>> /\ Top.what = what

\* A ParseErr leaves every function in progress; outer_class is not put back.
ParseErr(s) ==
  /\ mode' = "thrown"
  /\ ahead' = s
  /\ todo' = <<>> /\ outers' = <<>> /\ depth' = 0 /\ open' = <<>>
  /\ had_error' = TRUE
  /\ moved' = FALSE
  /\ UNCHANGED <<prefix, current, outer_class, made>>

\* A turn of the loop in parse().
StartDeclaration ==
  /\ mode = "parse" /\ todo = <<>>
  /\ \E s \in Peek :
       /\ s[1] # EOF
       /\ ahead' = s
  /\ todo' = <<Do("declaration")>>
  /\ UNCHANGED <<prefix, mode, current, made, classes, had_error, open, moved>>

Finish ==
  /\ mode = "parse" /\ todo = <<>>
  /\ \E s \in Peek :
       /\ s[1] = EOF
       /\ ahead' = s
  /\ mode' = "done"
  /\ UNCHANGED <<prefix, current, todo, made, classes, had_error, open, moved>>

\* Too many parameters or arguments are reported and parsed nevertheless.
Parse ==
  /\ Doing("parse")
  /\ \E s \in IF Top.name = "members" THEN PeekAhead ELSE Peek :
       LET rule == Rule(Top.name, Top.n, s)
       IN  /\ todo' = rule.todo \o Rest
           /\ IF rule.eat THEN Advance(s)
              ELSE ahead' = s /\ UNCHANGED <<current, open, moved>>
  /\ had_error' = (had_error \/ (Top.n > MaxParams /\ Top.name \in {"param", "arg"}))
  /\ UNCHANGED <<prefix, mode, made, classes>>

Consume ==
  /\ Doing("consume")
  /\ \E s \in Peek :
       \/ /\ Is(s[1], Top.name)
          /\ Advance(s)
          /\ todo' = Rest
          /\ UNCHANGED <<prefix, mode, made, classes, had_error>>
       \/ ~Is(s[1], Top.name) /\ ParseErr(s)

UnexpectedToken ==
  /\ Doing("throw")
  /\ ParseErr(ahead)

Complete ==
  /\ Doing("made")
  /\ made' = Top.name
  /\ todo' = Rest
  /\ UNCHANGED <<mode, tokens, classes, had_error, open, moved>>

\* "Invalid assignment target" is reported, not thrown.
Assign ==
  /\ Doing("assign")
  /\ had_error' = (had_error \/ Top.name = "other")
  /\ made' = "other"
  /\ todo' = Rest
  /\ UNCHANGED <<mode, tokens, classes, open, moved>>

EnterClass ==
  /\ Doing("enter")
  /\ outers' = Append(outers, outer_class)
  /\ depth' = depth + 1
  /\ outer_class' = depth'
  /\ todo' = Rest
  /\ UNCHANGED <<mode, tokens, made, had_error, open, moved>>

\* Mutant: outer_class is cleared instead of put back.
LeaveClassClears ==
  /\ Doing("leave")
  /\ outers # <<>>
  /\ outer_class' = 0
  /\ outers' = SubSeq(outers, 1, Len(outers) - 1)
  /\ depth' = depth - 1
  /\ todo' = Rest
  /\ UNCHANGED <<mode, tokens, made, had_error, open, moved>>

LeaveClass ==
  /\ Doing("leave")
  /\ outers # <<>>
  /\ outer_class' = outers[Len(outers)]
  /\ outers' = SubSeq(outers, 1, Len(outers) - 1)
  /\ depth' = depth - 1
  /\ todo' = Rest
  /\ UNCHANGED <<mode, tokens, made, had_error, open, moved>>

\* An init within a class has the type outer_class names; any other function
\* declares its own.
ReturnType ==
  /\ Doing("returns")
  /\ todo' = (IF outer_class # 0 /\ Top.name = "INIT" THEN <<>>
              ELSE <<Need("COLON")>> \o Type) \o Rest
  /\ UNCHANGED <<mode, tokens, made, classes, had_error, open, moved>>

-----------------------------------------------------------------------------
(* Recovery. *)

Recovering == UNCHANGED <<prefix, todo, made, classes, had_error, open>>

Skip(s) == current' = current + 1 /\ ahead' = Tail(s) /\ moved' = TRUE

\* Mutant: the token the error was met at is not skipped if it is a brace.
SynchronizeAtBrace ==
  /\ mode = "thrown"
  /\ \E s \in Peek :
       IF s[1] \in {EOF, "RIGHT_BRACE"}
       THEN mode' = "parse" /\ ahead' = s /\ UNCHANGED <<current, moved>>
       ELSE mode' = "synchronize" /\ Skip(s)
  /\ Recovering

\* synchronize() first skips the token the error was met at, whatever it is.
Synchronize ==
  /\ mode = "thrown"
  /\ mode' = "synchronize"
  /\ \E s \in Peek :
       IF s[1] = EOF THEN ahead' = s /\ UNCHANGED <<current, moved>> ELSE Skip(s)
  /\ Recovering

Starters == {"CLASS", "FN", "IF", "FOR", "WHILE", "VAR", "PRINT", "RETURN"}

SkipToken ==
  /\ mode = "synchronize"
  /\ \E s \in Peek :
       IF s[1] \in Starters \cup {EOF}
       THEN mode' = "parse" /\ ahead' = s /\ UNCHANGED <<current, moved>>
       ELSE Skip(s) /\ UNCHANGED mode
  /\ Recovering

Next ==
  \/ StartDeclaration \/ Finish \/ Parse \/ Consume \/ UnexpectedToken \/ Complete
  \/ Assign \/ EnterClass \/ LeaveClass \/ ReturnType \/ Synchronize \/ SkipToken

Spec == Init /\ [][Next]_vars /\ WF_vars(Next)

-----------------------------------------------------------------------------
(* As long as nothing was thrown, outer_class points at the innermost class
   that is being parsed, and is null outside of all: an init gets the type of
   the class it is in, however classes and methods nest, and the pointer that
   func_statement dereferences is one to a live token (parser.cc:77-78, 103). *)
OuterClassIsInnermost == ~had_error => outer_class = depth

(* A program is parsed without an error only if its brackets match
   (parser.cc:107, 117, 166). *)
BracketsMatch ==
  ~had_error => /\ \A i \in DOMAIN open : open[i] \in Openers
                /\ todo = <<>> => open = <<>>

(* From one ParseErr to the next at least one token is consumed: no token is
   complained about twice (parser.cc:505-506). *)
ErrorsAdvance == [][mode' = "thrown" => moved]_vars

(* parse() ends on every input, whatever errors it meets (parser.cc:13-19). *)
ParseEnds == <>(mode = "done")
===============================================================================
