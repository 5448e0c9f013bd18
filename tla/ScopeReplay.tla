----------------------------- MODULE ScopeReplay -----------------------------
(***************************************************************************)
(* The passes that share one ScopeManager. The TypeChecker creates the     *)
(* scopes of the program while it walks it; each later pass resets the     *)
(* manager, walks the same statements and relies on enter() to hand out    *)
(* the same ids. After the TypeChecker come, in this order,                *)
(*   x86-64: the StackFrameSizer, then CodeGen        (x86-64/codegen.cc)  *)
(*   LLVM:   CodeGen's globals pass, then its second  (llvm/codegen.cc)    *)
(* The middle pass does not visit what the others do: the sizer does not   *)
(* enter a class's scope, the globals pass skips functions altogether.     *)
(*                                                                         *)
(* The program is chosen during the first pass and recorded in events.     *)
(***************************************************************************)
EXTENDS ScopeManager, SequencesExt

CONSTANTS Backend,    \* "x86" or "llvm"
          MaxScopes,  \* bound: class, function and block statements
          MaxVars     \* bound: variable declarations

ASSUME AbsentIsNoType == Absent \notin Values

VARIABLES
  phase,    \* "check", "middle", "emit", "done", "undefined"
  events,   \* the statements met: <<[kind, name, type]>>, "exit" closes one
  trace,    \* ghost: the manager's [curr, next] after each event of "check"
  open,     \* the statements the current pass is inside of: <<[kind, scope]>>
  pos       \* events a later pass has walked

vars == <<scopeVars, phase, events, trace, open, pos>>

Scoped == {"class", "func", "block"}

Event(k, n, t) == [kind |-> k, name |-> n, type |-> t]

Record(e) ==
  /\ events' = Append(events, e)
  /\ trace' = Append(trace, [curr |-> curr_scope', next |-> next_id'])

Innermost == IF open = <<>> THEN "program" ELSE Last(open).kind

Count(kinds) == Len(SelectSeq(events, LAMBDA e : e.kind \in kinds))

\* Any statement stands at the top level and in a block. A class body holds
\* methods, a function's body is a block.
MayContain(outer, k) ==
  CASE outer \in {"program", "block"} -> k \in Scoped
    [] outer = "class" -> k = "func"
    [] outer = "func"  -> k = "block" /\ Last(events).kind = "func"

Init ==
  /\ ScopeInit
  /\ phase = "check"
  /\ events = <<>>
  /\ trace = <<>>
  /\ open = <<>>
  /\ pos = 0

-----------------------------------------------------------------------------
(* The TypeChecker. *)

CheckEnter(k) ==
  /\ phase = "check"
  /\ MayContain(Innermost, k)
  /\ Count(Scoped) < MaxScopes
  /\ Enter
  /\ open' = Append(open, [kind |-> k, scope |-> curr_scope'])
  /\ Record(Event(k, Null, Null))
  /\ UNCHANGED <<phase, pos>>

CheckExit ==
  /\ phase = "check"
  /\ open # <<>>
  /\ Innermost = "func" => Last(events).kind # "func"
  /\ Exit
  /\ open' = Front(open)
  /\ Record(Event("exit", Null, Null))
  /\ UNCHANGED <<phase, pos>>

\* A variable's name is mapped to its type. A name that is already mapped, in
\* any enclosing scope, is an error, and compilation stops after the pass.
CheckVar(n, t) ==
  /\ phase = "check"
  /\ Innermost \in {"program", "block"}
  /\ Count({"var"}) < MaxVars
  /\ ~IsMapped(n)
  /\ Insert(n, t)
  /\ UNCHANGED <<scopes, curr_scope, next_id, phase, open, pos>>
  /\ Record(Event("var", n, t))

\* Mutant: the first reset is forgotten.
FinishCheckNoReset ==
  /\ phase = "check"
  /\ open = <<>>
  /\ phase' = "middle"
  /\ pos' = 0
  /\ UNCHANGED <<scopeVars, events, trace, open>>

FinishCheck ==
  /\ phase = "check"
  /\ open = <<>>
  /\ phase' = "middle"
  /\ pos' = 0
  /\ Reset
  /\ UNCHANGED <<events, trace, open>>

-----------------------------------------------------------------------------
(* The later passes. *)

InFunction == \E i \in DOMAIN open : open[i].kind = "func"

\* Mutant: code generation skips the scopes that the middle pass skips.
EntersAlike(k) ==
  CASE Backend = "x86"  -> k # "class"
    [] Backend = "llvm" -> k # "func" /\ ~InFunction

\* Does the current pass enter a scope for a statement of kind k?
Enters(k) ==
  phase = "middle" => CASE Backend = "x86"  -> k # "class"
                        [] Backend = "llvm" -> k # "func" /\ ~InFunction

\* Does it look at variable declarations here? LLVM's globals pass does not
\* get into functions.
Visits == phase = "middle" /\ Backend = "llvm" => ~InFunction

\* LLVM's passes fail for a variable of the top level (llvm/codegen.cc:295).
NoEnclosingFunction == Backend = "llvm" /\ ~InFunction

Walk(k) ==
  /\ phase \in {"middle", "emit"}
  /\ pos < Len(events)
  /\ events[pos + 1].kind = k
  /\ pos' = pos + 1
  /\ UNCHANGED <<events, trace>>

\* The operation is scopes[curr_scope] with an id that names no scope.
GoesAstray ==
  /\ curr_scope \notin 0..Len(scopes) - 1
  /\ phase' = "undefined"
  /\ UNCHANGED scopeVars

InProgram ==
  /\ curr_scope \in 0..Len(scopes) - 1
  /\ UNCHANGED phase

\* A scope of -1 in open marks a statement whose scope is not entered.
WalkEnter(k) ==
  /\ Walk(k)
  /\ IF Enters(k)
     THEN Enter /\ open' = Append(open, [kind |-> k, scope |-> curr_scope'])
     ELSE UNCHANGED scopeVars /\ open' = Append(open, [kind |-> k, scope |-> -1])
  /\ UNCHANGED phase

WalkExit ==
  /\ Walk("exit")
  /\ open # <<>>
  /\ open' = Front(open)
  /\ \/ Last(open).scope = -1 /\ UNCHANGED <<scopeVars, phase>>
     \/ Last(open).scope # -1 /\ (GoesAstray \/ (InProgram /\ Exit))

WalkVar ==
  /\ Walk("var")
  /\ UNCHANGED <<scopes, curr_scope, next_id, open>>
  /\ \/ ~Visits /\ UNCHANGED <<tables, phase>>
     \/ Visits /\ NoEnclosingFunction /\ phase' = "undefined" /\ UNCHANGED tables
     \/ /\ Visits /\ ~NoEnclosingFunction
        /\ GoesAstray \/ (InProgram /\ GetInserts(events[pos + 1].name))

\* Mutant: the reset between the passes is forgotten.
FinishMiddleNoReset ==
  /\ phase = "middle"
  /\ pos = Len(events)
  /\ phase' = "emit"
  /\ pos' = 0
  /\ open' = <<>>
  /\ UNCHANGED <<scopeVars, events, trace>>

FinishMiddle ==
  /\ phase = "middle"
  /\ pos = Len(events)
  /\ phase' = "emit"
  /\ pos' = 0
  /\ open' = <<>>
  /\ Reset
  /\ UNCHANGED <<events, trace>>

FinishEmit ==
  /\ phase = "emit"
  /\ pos = Len(events)
  /\ phase' = "done"
  /\ UNCHANGED <<scopeVars, events, trace, open, pos>>

Next ==
  \/ \E k \in Scoped : CheckEnter(k) \/ WalkEnter(k)
  \/ CheckExit \/ WalkExit
  \/ \E n \in Names, t \in Values : CheckVar(n, t)
  \/ WalkVar
  \/ FinishCheck \/ FinishMiddle \/ FinishEmit

Spec == Init /\ [][Next]_vars

-----------------------------------------------------------------------------
\* Where the TypeChecker's manager was after k events.
At(k) == IF k = 0 THEN [curr |-> 0, next |-> 1] ELSE trace[k]

(* Code generation is always in the scope the TypeChecker was in at the same
   statement, although the pass between them visits other scopes
   (scope-manager.h:22-37, x86-64/codegen.cc:99-106, llvm/codegen.cc:55-66). *)
EmitReplays ==
  phase = "emit" => [curr |-> curr_scope, next |-> next_id] = At(pos)

(* No pass after the TypeChecker creates a scope: its table would be empty,
   and under whichever scope was current (scope-manager.h:31-34). *)
ScopesFrozen == [][phase # "check" => UNCHANGED scopes]_vars

(* The type code generation reads for a variable is the one the TypeChecker
   gave that declaration, whatever default entries the lookups of the pass
   between them have left in the tables (cactus-table.h:32-37). *)
EmitReadsDeclaredType ==
  phase = "emit" /\ pos < Len(events) /\ events[pos + 1].kind = "var"
    => Get(events[pos + 1].name) = events[pos + 1].type
=============================================================================
