----------------------------- MODULE NameBinding -----------------------------
(***************************************************************************)
(* The names of a program, from the Resolver to the TypeChecker            *)
(* (src/src/type-checker.cc). Nothing the Resolver finds out is handed on: *)
(* the TypeChecker looks every name up again, in symbol tables of its own  *)
(* and among the functions and classes the GlobalHoister has put into the  *)
(* global tables in between.                                               *)
(*                                                                         *)
(* A symbol stands for the declaration it came from, <<id, role>> as in    *)
(* Resolver. Only what the lookups depend on is modelled: types of         *)
(* expressions are not.                                                    *)
(***************************************************************************)
EXTENDS Resolver

CONSTANTS Null, Absent

VARIABLES
  stage,            \* "resolver", "check", "done", "undefined"
  pos,              \* events the TypeChecker has walked
  parents, symbols, curr_scope, next_id,
  fn_types,         \* $fn_ keys of the global type table: name -> function
  enclosing_class,  \* name of a class
  enclosing_fn,     \* the function whose FuncType it is
  open,             \* <<[kind, class, fn, skip]>>
  check_error

checkerVars == <<parents, symbols, curr_scope, next_id>>
vars == <<resolverVars, stage, pos, checkerVars, fn_types, enclosing_class,
          enclosing_fn, open, check_error>>

Decls == Int \X {"name", "param", "this"}

\* No declaration stands for the lack of one.
ASSUME AbsentIsNoDecl == Absent \notin Decls

sm == INSTANCE ScopeManager WITH Values <- Decls,
                               scopes <- parents, tables <- symbols

BindingInit ==
  /\ Init
  /\ stage = "resolver" /\ pos = 0
  /\ sm!ScopeInit
  /\ fn_types = <<>>
  /\ enclosing_class = NoName /\ enclosing_fn = 0
  /\ open = <<>> /\ check_error = FALSE

Resolving ==
  /\ stage = "resolver"
  /\ Resolve
  /\ UNCHANGED <<stage, pos, checkerVars, fn_types, enclosing_class, enclosing_fn,
                 open, check_error>>

-----------------------------------------------------------------------------
(* The GlobalHoister, as far as names are concerned. *)

\* Is event i inside of the statement that begins with event c?
Inside(i, c) == c < i /\ ~\E x \in c..i : events[x].kind = "exit" /\ events[x].within = events[c].id

Of(k) == {i \in DOMAIN events : events[i].kind = k}
HoistedIn(i) == {c \in Of("class") : Inside(i, c)}
Latest(S, n) == Max({i \in S : events[i].name = n})

\* A class inserts a symbol into the global table, a function outside of all
\* classes its key, wherever they are; of two with one name the last one stays.
Hoist ==
  /\ stage = "resolver" /\ pass = "resolved"
  /\ errors = {}
  /\ LET functions == {i \in Of("func") : HoistedIn(i) = {}}
         names(S) == {events[i].name : i \in S}
         decl(S, n) == <<events[Latest(S, n)].id, "name">>
     IN  /\ fn_types' = [n \in names(functions) |-> decl(functions, n)]
         /\ symbols' = [symbols EXCEPT ![1] =
                          [n \in Names |-> IF n \in names(Of("class"))
                                           THEN decl(Of("class"), n) ELSE Absent]]
  /\ stage' = "check"
  /\ UNCHANGED <<resolverVars, pos, parents, curr_scope, next_id, enclosing_class,
                 enclosing_fn, open, check_error>>

-----------------------------------------------------------------------------
(* The TypeChecker. *)

Next1 == events[pos + 1]
Skipping == open # <<>> /\ Last(open).skip

Walk(k) ==
  /\ stage = "check"
  /\ pos < Len(events) /\ Next1.kind = k
  /\ pos' = pos + 1
  /\ UNCHANGED <<resolverVars, fn_types>>

Opened(skip) ==
  open' = Append(open, [kind |-> Next1.kind, class |-> enclosing_class,
                        fn |-> enclosing_fn, skip |-> skip])

\* What get_method(name) finds: the first method of that name in the classes
\* that share the enclosing class's name.
MethodNamed(n) ==
  LET ms == {i \in Of("func") : /\ events[i].name = n
                                /\ HoistedIn(i) # {}
                                /\ events[Max(HoistedIn(i))].name = enclosing_class}
  IN  events[Min(ms)].id

CheckBlock ==
  /\ Walk("block")
  /\ sm!Enter
  /\ Opened(FALSE)
  /\ UNCHANGED <<stage, enclosing_class, enclosing_fn, check_error>>

\* Mutant: a method's type is looked for among the global functions first.
CheckFuncKeyFirst ==
  /\ Walk("func")
  /\ curr_scope' = next_id /\ next_id' = next_id + 1
  /\ parents' = Append(parents, curr_scope)
  /\ symbols' = Append(symbols, [n \in Names |-> IF n \in Range(Next1.params)
                                                 THEN <<Next1.id, "param">> ELSE Absent])
  /\ enclosing_fn' = IF Next1.name \in DOMAIN fn_types THEN fn_types[Next1.name][1]
                     ELSE MethodNamed(Next1.name)
  /\ Opened(FALSE)
  /\ UNCHANGED <<stage, enclosing_class, check_error>>

\* Parameters become symbols of the function's scope; a name used twice would
\* have been an error.
CheckFunc ==
  /\ Walk("func")
  /\ curr_scope' = next_id /\ next_id' = next_id + 1
  /\ parents' = Append(parents, curr_scope)
  /\ symbols' = Append(symbols, [n \in Names |-> IF n \in Range(Next1.params)
                                                 THEN <<Next1.id, "param">> ELSE Absent])
  /\ enclosing_fn' = IF enclosing_class # NoName THEN MethodNamed(Next1.name)
                     ELSE fn_types[Next1.name][1]
  /\ Opened(FALSE)
  /\ UNCHANGED <<stage, enclosing_class, check_error>>

\* The class becomes a symbol of the scope it stands in as well.
CheckClass ==
  /\ Walk("class")
  /\ curr_scope' = next_id /\ next_id' = next_id + 1
  /\ parents' = Append(parents, curr_scope)
  /\ symbols' = Append([symbols EXCEPT ![curr_scope + 1][Next1.name] = <<Next1.id, "name">>],
                       sm!Empty)
  /\ enclosing_class' = Next1.name
  /\ Opened(FALSE)
  /\ UNCHANGED <<stage, enclosing_fn, check_error>>

\* Mutant: enclosing_class is cleared, not restored.
CheckExitClears ==
  /\ Walk("exit")
  /\ sm!Exit
  /\ enclosing_class' = IF Last(open).kind = "class" THEN NoName ELSE enclosing_class
  /\ enclosing_fn' = IF Last(open).kind = "func" THEN Last(open).fn ELSE enclosing_fn
  /\ open' = Front(open)
  /\ UNCHANGED <<stage, check_error>>

CheckExit ==
  /\ Walk("exit")
  /\ sm!Exit
  /\ enclosing_class' = IF Last(open).kind = "class" THEN Last(open).class ELSE enclosing_class
  /\ enclosing_fn' = IF Last(open).kind = "func" THEN Last(open).fn ELSE enclosing_fn
  /\ open' = Front(open)
  /\ UNCHANGED <<stage, check_error>>

\* The type table has the name of a class, and those of the variables in scope
\* that are not parameters.
NamesType(n) ==
  \E id \in sm!Holders(n) : symbols[id + 1][n][2] = "name"

\* "Variable cannot have the name of a type": the initializer is not checked.
CheckVar ==
  /\ Walk("var")
  /\ check_error' = (check_error \/ NamesType(Next1.name))
  /\ Opened(NamesType(Next1.name))
  /\ UNCHANGED <<stage, checkerVars, enclosing_class, enclosing_fn>>

\* Mutant: a name that is mapped further out keeps its symbol.
CheckEndVarKeeps ==
  /\ Walk("endvar")
  /\ IF Skipping \/ sm!IsMapped(Next1.name) THEN UNCHANGED symbols
     ELSE sm!Insert(Next1.name, Next1.bound)
  /\ open' = Front(open)
  /\ UNCHANGED <<stage, parents, curr_scope, next_id, enclosing_class, enclosing_fn,
                 check_error>>

CheckEndVar ==
  /\ Walk("endvar")
  /\ IF Skipping THEN UNCHANGED symbols ELSE sm!Insert(Next1.name, Next1.bound)
  /\ open' = Front(open)
  /\ UNCHANGED <<stage, parents, curr_scope, next_id, enclosing_class, enclosing_fn,
                 check_error>>

\* Mutant: functions before symbols.
FoundFunctionsFirst(n) ==
  CASE n \in DOMAIN fn_types -> fn_types[n]
    [] n \notin DOMAIN fn_types /\ sm!IsMapped(n) -> sm!Get(n)
    [] OTHER -> None

\* visit(Variable): a symbol, or else a function of that name.
Found(n) ==
  CASE sm!IsMapped(n) -> sm!Get(n)
    [] ~sm!IsMapped(n) /\ n \in DOMAIN fn_types -> fn_types[n]
    [] OTHER -> None

\* The function statement the walk is inside of.
Own == Max({i \in Of("func") : Inside(pos + 1, i)})

\* In an index expression or elsewhere.
CheckVariable ==
  /\ \E k \in {"use", "[use]"} : Walk(k)
  /\ check_error' = (check_error \/ (~Skipping /\ Found(Next1.name) = None))
  /\ UNCHANGED <<stage, checkerVars, enclosing_class, enclosing_fn, open>>

\* The type of a name that is no symbol is a null pointer, and it is used.
CheckAssignment ==
  /\ \E k \in {"assign", "[assign]"} : Walk(k)
  /\ stage' = IF ~Skipping /\ ~sm!IsMapped(Next1.name) THEN "undefined" ELSE stage
  /\ UNCHANGED <<checkerVars, enclosing_class, enclosing_fn, open, check_error>>

\* Outside of a class the type of "this" is a null pointer, and what it is part
\* of uses it, or (a comparison, a statement) leaves it alone.
CheckThis ==
  /\ \E k \in {"this", "[this]"} : Walk(k)
  /\ stage' \in {stage} \cup IF ~Skipping /\ enclosing_class = NoName
                            THEN {"undefined"} ELSE {}
  /\ UNCHANGED <<checkerVars, enclosing_class, enclosing_fn, open, check_error>>

CheckReturn ==
  /\ Walk("return")
  /\ stage' = IF enclosing_fn = 0 THEN "undefined" ELSE stage
  /\ UNCHANGED <<checkerVars, enclosing_class, enclosing_fn, open, check_error>>

FinishCheck ==
  /\ stage = "check" /\ pos = Len(events)
  /\ stage' = "done"
  /\ UNCHANGED <<resolverVars, pos, checkerVars, fn_types, enclosing_class,
                 enclosing_fn, open, check_error>>

Next ==
  \/ Resolving \/ Hoist
  \/ CheckBlock \/ CheckFunc \/ CheckClass \/ CheckExit
  \/ CheckVar \/ CheckEndVar \/ CheckVariable \/ CheckAssignment
  \/ CheckThis \/ CheckReturn
  \/ FinishCheck

Spec == BindingInit /\ [][Next]_vars

-----------------------------------------------------------------------------
About(k) == stage = "check" /\ ~Skipping /\ pos < Len(events) /\ Next1.kind = k

(* Both passes mean the same declaration by a name that is read, although they
   know scopes, functions and classes in different ways (resolver.cc:124-136,
   type-checker.cc:88-103). The Resolver binds no name that is read inside an
   index expression, and nothing is said of those. *)
UsesAgree == About("use") /\ ~check_error => Found(Next1.name) = Next1.bound

\* Declarations without a symbol: functions, and variables whose initializer is
\* being checked. The Resolver lets both be assigned to.
Symbolless ==
  {fn_types[f] : f \in DOMAIN fn_types} \cup
  {<<events[i].id, "name">> : i \in {v \in Of("var") : v <= pos /\ ~\E e \in v..pos :
     events[e].kind = "endvar" /\ events[e].bound[1] = events[v].id}}

(* Both passes mean the same variable by a name that is assigned to, and it has
   a symbol: of the assignments the Resolver has visited, only those to a
   declaration without one lead the TypeChecker to a null type. Those inside an
   index expression it has not (resolver.cc:64-67, 262-264, type-checker.cc:112-115). *)
AssignmentsAgree ==
  About("assign") /\ ~check_error /\ Next1.bound \notin Symbolless =>
    sm!IsMapped(Next1.name) /\ sm!Get(Next1.name) = Next1.bound

(* A "this" the Resolver has visited has the type of the class it is written in,
   also after another class has been nested in the method, and is nowhere else
   (type-checker.cc:128-130); one inside an index expression may be anywhere. *)
ThisIsInnermostClass ==
  About("this") => \E i \in Of("class") : /\ <<events[i].id, "this">> = Next1.bound
                                          /\ events[i].name = enclosing_class

\* No class has two methods of one name.
MethodsDiffer ==
  \A i, j \in {f \in Of("func") : HoistedIn(f) # {}} :
    /\ events[i].name = events[j].name
    /\ events[Max(HoistedIn(i))].name = events[Max(HoistedIn(j))].name
    => i = j

(* A return is checked against the type of the function it returns from, unless
   a class has two methods of one name (type-checker.cc:203-224). *)
ReturnHasOwnType ==
  About("return") /\ MethodsDiffer => enclosing_fn = events[Own].id
=============================================================================
