------------------------------ MODULE Resolver ------------------------------
(***************************************************************************)
(* The Resolver (src/src/resolver.cc): the first pass over the top-level   *)
(* statements declares functions and classes, the second resolves names.   *)
(*                                                                         *)
(* The top-level statements are chosen in the first pass, what they hold   *)
(* in the second. events records the statements and the references, each   *)
(* with what the Resolver bound it to, for the passes that follow. A       *)
(* declaration is identified by its statement: -i for the i-th at the top  *)
(* level, its position in events for any other. if and while only recurse. *)
(*                                                                         *)
(* The visits of a[i] and of a[i] = v are empty: no reference in the array, *)
(* the index or the stored value is resolved. Such references are the kinds *)
(* in brackets, for the TypeChecker walks them.                             *)
(***************************************************************************)
EXTENDS Integers, Sequences, SequencesExt

CONSTANTS Names,
          TopKinds,    \* kinds of top-level statements
          InnerKinds,  \* kinds of statements and references in a block
          MaxTops,     \* bound: top-level statements
          MaxParams,   \* bound: parameters of a function
          MaxScopes,   \* bound: functions, classes and blocks
          MaxVars,     \* bound: variable declarations
          MaxRefs      \* bound: references and returns

\* "this" is a keyword, so no declaration is named by it.
ASSUME ThisIsNoName == "this" \notin Names

NoName == "none"

\* What has no name has none that the program gives.
ASSUME NoNameIsNone == NoName \notin Names

VARIABLES
  pass,    \* "declare", "resolve", "resolved"
  tops,    \* the top-level statements: <<[kind, name]>>
  next,    \* how many of them the second pass has begun
  scopes,  \* globals first: <<name -> [decl, ready]>>
  current_class, current_function,
  frames,  \* the visits in progress: <<[kind, id, name, class, function]>>
  events,  \* <<[kind, id, name, params, bound, within]>>
  errors

resolverVars == <<pass, tops, next, scopes, current_class, current_function,
                  frames, events, errors>>

Scoped == {"func", "class", "block"}
Unresolved == {"[use]", "[assign]", "[this]"}
Refs == {"use", "assign", "this", "[use]", "[assign]", "[this]"}
Named == {"func", "class", "var", "use", "assign", "[use]", "[assign]"}
NamesFor(k) == IF k \in Named THEN Names ELSE {NoName}
None == <<0, NoName>>

ASSUME KindsKnown == TopKinds \cup InnerKinds \subseteq Scoped \cup Refs \cup {"var", "return"}

Init ==
  /\ pass = "declare"
  /\ tops = <<>> /\ next = 0
  /\ scopes = << <<>> >>
  /\ current_class = "NOT_IN_CLASS" /\ current_function = "NOT_IN_FN"
  /\ frames = <<>> /\ events = <<>>
  /\ errors = {}

-----------------------------------------------------------------------------
(* Scopes. *)

Entry(d, ready) == [decl |-> d, ready |-> ready]

Add(ss, n, d, ready) ==
  [ss EXCEPT ![Len(ss)] = [m \in DOMAIN @ \cup {n} |-> IF m = n THEN Entry(d, ready) ELSE @[m]]]

\* Mutant: the innermost scope is left as it is, and nothing is reported.
DeclareAgain(ss, n, d) == [ss |-> Add(ss, n, d, FALSE), errors |-> {}]

\* A name that is declared already is reported, and keeps its entry.
Declare(ss, n, d) ==
  IF n \in DOMAIN Last(ss)
  THEN [ss |-> ss, errors |-> {"already declared"}]
  ELSE [ss |-> Add(ss, n, d, FALSE), errors |-> {}]

Define(ss, n, d) == Add(ss, n, d, TRUE)

\* resolve_local: the innermost scope that has the name; 0 if none has.
ResolveLocal(ss, n) == SelectLastInSeq(ss, LAMBDA s : n \in DOMAIN s)

Bound(n) == LET i == ResolveLocal(scopes, n)
            IN  IF i = 0 THEN None ELSE scopes[i][n].decl

Undeclared(n) == IF ResolveLocal(scopes, n) = 0 THEN {"undeclared"} ELSE {}

\* Mutant: a variable may be read in its own initializer.
ReadErrorsOwn(n) == Undeclared(n)

ReadErrors(n) ==
  Undeclared(n) \cup
  (IF n \in DOMAIN Last(scopes) /\ ~Last(scopes)[n].ready THEN {"own initializer"} ELSE {})

ThisErrors == IF current_class # "IN_CLASS" THEN {"this"} ELSE Undeclared("this")

ReturnErrors == IF current_function = "NOT_IN_FN" THEN {"return"} ELSE {}

VisitErrors(k, n) ==
  CASE k = "use" -> ReadErrors(n)
    [] k = "assign" -> Undeclared(n)
    [] k = "this" -> ThisErrors
    [] k = "return" -> ReturnErrors
    [] OTHER -> {}

-----------------------------------------------------------------------------
(* The first pass. *)

\* A class's visit returns without restoring current_class. Blocks and variables
\* are skipped, other statements visited.
DeclareTop(k, n) ==
  /\ pass = "declare"
  /\ Len(tops) < MaxTops
  /\ tops' = Append(tops, [kind |-> k, name |-> n])
  /\ LET d == Declare(scopes, n, <<-Len(tops'), "name">>)
     IN  IF k \in {"func", "class"}
         THEN scopes' = d.ss /\ errors' = errors \cup d.errors
         ELSE errors' = errors \cup VisitErrors(k, n) /\ UNCHANGED scopes
  /\ current_class' = IF k = "class" THEN "IN_CLASS" ELSE current_class
  /\ UNCHANGED <<pass, next, current_function, frames, events>>

StartResolving ==
  /\ pass = "declare"
  /\ pass' = "resolve"
  /\ UNCHANGED <<tops, next, scopes, current_class, current_function, frames,
                 events, errors>>

-----------------------------------------------------------------------------
(* The second pass. *)

Top == Last(frames)
Within == IF frames = <<>> THEN "program" ELSE Top.kind
WithinId == IF frames = <<>> THEN 0 ELSE Top.id
Count(kinds) == Len(SelectSeq(events, LAMBDA e : e.kind \in kinds))

MayContain(outer, k) ==
  CASE outer = "class" -> k = "func"
    [] outer = "func"  -> k = "block" /\ Last(events).kind = "func"
    [] outer = "block" -> k \in InnerKinds
    [] outer = "var"   -> k \in Refs \cap InnerKinds

Id == IF frames = <<>> THEN -next' ELSE Len(events) + 1

\* The next statement or reference is a k named n, and has been visited.
Visit(k, n) ==
  /\ pass = "resolve"
  /\ IF frames = <<>>
     THEN /\ next < Len(tops) /\ tops[next + 1] = [kind |-> k, name |-> n]
          /\ next' = next + 1
     ELSE MayContain(Top.kind, k) /\ UNCHANGED next
  /\ UNCHANGED <<pass, tops>>

Record(k, n, params, bound) ==
  events' = Append(events, [kind |-> k, id |-> Id, name |-> n, params |-> params,
                            bound |-> bound, within |-> WithinId])

Push(k, n) ==
  frames' = Append(frames, [kind |-> k, id |-> Id, name |-> n,
                            class |-> current_class, function |-> current_function])

EnterBlock ==
  /\ Visit("block", NoName)
  /\ Count(Scoped) < MaxScopes
  /\ scopes' = Append(scopes, <<>>)
  /\ Push("block", NoName) /\ Record("block", NoName, <<>>, None)
  /\ UNCHANGED <<current_class, current_function, errors>>

\* Parameters are declared and defined one after the other.
Params(params) == [p \in Range(params) |-> Entry(<<Id, "param">>, TRUE)]
ParamErrors(params) == IF IsInjective(params) THEN {} ELSE {"already declared"}

\* A function defines its name without declaring it; a method has none.
EnterFunction(n, params) ==
  /\ Visit("func", n)
  /\ Count(Scoped) < MaxScopes
  /\ LET outer == IF Within = "class" THEN scopes ELSE Define(scopes, n, <<Id, "name">>)
     IN  scopes' = Append(outer, Params(params))
  /\ errors' = errors \cup ParamErrors(params)
  /\ current_function' = CASE Within # "class" -> "FUNCTION"
                           [] n = "init" -> "INITIALIZER"
                           [] OTHER -> "METHOD"
  /\ Push("func", n) /\ Record("func", n, params, None)
  /\ UNCHANGED current_class

EnterClass(n) ==
  /\ Visit("class", n)
  /\ Count(Scoped) < MaxScopes
  /\ scopes' = Append(Define(scopes, n, <<Id, "name">>),
                      [x \in {"this"} |-> Entry(<<Id, "this">>, TRUE)])
  /\ current_class' = "IN_CLASS"
  /\ Push("class", n) /\ Record("class", n, <<>>, None)
  /\ UNCHANGED <<current_function, errors>>

\* Mutant: current_function is not restored.
LeaveForgets ==
  /\ pass = "resolve"
  /\ Within \in Scoped
  /\ Within = "func" => Last(events).kind # "func"
  /\ scopes' = Front(scopes)
  /\ current_class' = IF Within = "class" THEN Top.class ELSE current_class
  /\ Record("exit", Top.name, <<>>, None)
  /\ frames' = Front(frames)
  /\ UNCHANGED <<pass, tops, next, current_function, errors>>

\* end_scope(), and what was saved is restored.
Leave ==
  /\ pass = "resolve"
  /\ Within \in Scoped
  /\ Within = "func" => Last(events).kind # "func"
  /\ scopes' = Front(scopes)
  /\ current_class' = IF Within = "class" THEN Top.class ELSE current_class
  /\ current_function' = IF Within = "func" THEN Top.function ELSE current_function
  /\ Record("exit", Top.name, <<>>, None)
  /\ frames' = Front(frames)
  /\ UNCHANGED <<pass, tops, next, errors>>

\* A variable is declared, its initializer resolved, then it is defined.
DeclareVar(n) ==
  /\ Visit("var", n)
  /\ Count({"var"}) < MaxVars
  /\ LET d == Declare(scopes, n, <<Id, "name">>)
     IN  scopes' = d.ss /\ errors' = errors \cup d.errors
  /\ Push("var", n) /\ Record("var", n, <<>>, None)
  /\ UNCHANGED <<current_class, current_function>>

DefineVar ==
  /\ pass = "resolve"
  /\ Within = "var"
  /\ scopes' = Define(scopes, Top.name, <<Top.id, "name">>)
  /\ Record("endvar", Top.name, <<>>, <<Top.id, "name">>)
  /\ frames' = Front(frames)
  /\ UNCHANGED <<pass, tops, next, current_class, current_function, errors>>

Variable(n) ==
  /\ Visit("use", n)
  /\ Count(Refs \cup {"return"}) < MaxRefs
  /\ errors' = errors \cup ReadErrors(n)
  /\ Record("use", n, <<>>, Bound(n))
  /\ UNCHANGED <<scopes, current_class, current_function, frames>>

\* The value, a reference of its own, has been resolved before. It is not asked
\* whether the variable is in its own initializer.
Assignment(n) ==
  /\ Visit("assign", n)
  /\ Count(Refs \cup {"return"}) < MaxRefs
  /\ errors' = errors \cup Undeclared(n)
  /\ Record("assign", n, <<>>, Bound(n))
  /\ UNCHANGED <<scopes, current_class, current_function, frames>>

This ==
  /\ Visit("this", NoName)
  /\ Count(Refs \cup {"return"}) < MaxRefs
  /\ errors' = errors \cup ThisErrors
  /\ Record("this", NoName, <<>>, Bound("this"))
  /\ UNCHANGED <<scopes, current_class, current_function, frames>>

ReturnStmt ==
  /\ Visit("return", NoName)
  /\ Count(Refs \cup {"return"}) < MaxRefs
  /\ errors' = errors \cup ReturnErrors
  /\ Record("return", NoName, <<>>, None)
  /\ UNCHANGED <<scopes, current_class, current_function, frames>>

\* A reference inside a[i] or a[i] = v: nothing is looked up or reported.
Indexed(k, n) ==
  /\ Visit(k, n)
  /\ Count(Refs \cup {"return"}) < MaxRefs
  /\ Record(k, n, <<>>, None)
  /\ UNCHANGED <<scopes, current_class, current_function, frames, errors>>

FinishResolving ==
  /\ pass = "resolve"
  /\ frames = <<>> /\ next = Len(tops)
  /\ pass' = "resolved"
  /\ UNCHANGED <<tops, next, scopes, current_class, current_function, frames,
                 events, errors>>

Resolve ==
  \/ \E k \in TopKinds : \E n \in NamesFor(k) : DeclareTop(k, n)
  \/ StartResolving
  \/ \E n \in Names :
       \/ EnterClass(n) \/ DeclareVar(n)
       \/ \E ps \in BoundedSeq(Names, MaxParams) : EnterFunction(n, ps)
       \/ Variable(n) \/ Assignment(n)
       \/ Indexed("[use]", n) \/ Indexed("[assign]", n)
  \/ EnterBlock \/ Leave \/ DefineVar \/ This \/ ReturnStmt
  \/ Indexed("[this]", NoName)
  \/ FinishResolving

-----------------------------------------------------------------------------
InClass == \E i \in DOMAIN frames : frames[i].kind = "class"
InFunction == \E i \in DOMAIN frames : frames[i].kind = "func"
Initialized == {frames[i].id : i \in {j \in DOMAIN frames : frames[j].kind = "var"}}

(* In a program without errors, what a variable is read from is never the
   variable whose initializer is being evaluated (resolver.cc:55-59), unless
   it is read inside an index expression, where nothing is resolved. *)
NoReadOfItself ==
  events # <<>> /\ Last(events).kind = "use" /\ errors = {}
    => Last(events).bound[1] \notin Initialized

(* In a program without errors, a reference to "this" that is not part of an
   index expression stands inside a class statement, and every return inside a
   function: what the passes after this one dereference (resolver.cc:69-76,
   212-214). *)
ThisAndReturnHaveTheirPlace ==
  events # <<>> /\ errors = {} =>
    /\ Last(events).kind = "this" => InClass
    /\ Last(events).kind = "return" => InFunction

(* "Variable with this name already declared in this scope" (resolver.cc:185):
   two declarations of one name in one block, or at the top level, are an
   error, whatever kind of declaration they are. *)
DuplicatesReported ==
  errors = {} =>
    \A i, j \in DOMAIN events :
      /\ i < j
      /\ {events[i].kind, events[j].kind} \subseteq {"func", "class", "var"}
      /\ events[i].within = events[j].within
      /\ ~\E c \in DOMAIN events : events[c].kind = "class" /\ events[c].id = events[i].within
      => events[i].name # events[j].name
=============================================================================
