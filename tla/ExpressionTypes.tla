--------------------------- MODULE ExpressionTypes ---------------------------
(***************************************************************************)
(* The TypeChecker (src/src/type-checker.cc) and LLVM's code generation    *)
(* (src/src/backends/llvm/codegen.cc) over the expressions and statements  *)
(* of one function. An expression is put together from its operands, as    *)
(* both visit it; stack holds the operands whose operator is still to      *)
(* come, so that expressions of any depth are covered. Code is generated   *)
(* only for what has been accepted: the value of an entry counts while no  *)
(* error has been reported.                                                *)
(*                                                                         *)
(* An entry is partial if it holds one of the forms the TypeChecker        *)
(* accepts and LLVM's code generation has no code for: "!"; operators on   *)
(* anything but numbers; a class that is not the callee of init; a store   *)
(* as an operand; a method in parentheses; a store of a subclass's object. *)
(***************************************************************************)
EXTENDS LLVMValues

CONSTANTS Vars,          \* names of local variables
          Declarable,    \* types a variable may be declared with
          ReturnTypes,   \* the function's
          ThisClass,     \* the class the function is a method of
          MaxDims,       \* bound: dimensions of arrays
          MaxOperands,   \* bounds: operands waiting at a time, and with
          MaxStack       \* the arguments of a call and the index of an array

\* Every type that is written down was found (global-hoister.cc:125-134, 182-187).
ASSUME DeclaredAssumption ==
  /\ Declarable \subseteq ValueTypes /\ ReturnTypes \subseteq ValueTypes
  /\ ThisClass \in ClassNames \cup {"none"}
  /\ MaxDims \in Nat

VARIABLES
  stack,           \* <<[type, value, kind, name, partial, this]>>
  symbols,         \* variables declared: name -> type
  return_type,
  last_deref_obj,  \* the entry of the object that a Get took a member of
  had_error,
  emitted,         \* ghost: has every accepted statement got valid code?
  undefined        \* a Grouping was cast to a Variable

typesVars == <<stack, symbols, return_type, last_deref_obj, had_error, emitted, undefined>>

TypesInit ==
  /\ stack = <<>>
  /\ symbols = <<>>
  /\ return_type \in ReturnTypes
  /\ last_deref_obj = 0
  /\ had_error = FALSE /\ emitted = TRUE /\ undefined = FALSE

-----------------------------------------------------------------------------
(* kind: "class" and "variable" (Variable, of type Class), "field" (Get of a    *)
(* method), "store" (Set, SetIndex), "callee" (of a call whose arguments are   *)
(* being visited), "other". The value of what is partial is left open.         *)
Entry(type, value, kind, name, partial) ==
  [type |-> type, value |-> IF partial THEN NoValue ELSE value, kind |-> kind, name |-> name,
   partial |-> partial, this |-> 0]

Operand(n) == stack[Len(stack) + 1 - n]   \* the n-th from the top
Operands(n) == \A i \in 1..n : Operand(i).kind # "callee"
Below(n) == SubSeq(stack, 1, Len(stack) - n)

Partial(n) == \E i \in 1..n : Operand(i).partial \/ Operand(i).kind = "store"

Room ==
  /\ ~undefined
  /\ Len(stack) < IF stack # <<>> /\ (stack[1].kind = "callee" \/ stack[1].type.dims > 0)
                  THEN MaxStack ELSE MaxOperands

\* No code is generated for a program with an error.
Unemitted(s) ==
  [i \in DOMAIN s |-> [s[i] EXCEPT !.value = NoValue, !.partial = TRUE, !.this = 0]]

\* The visit of an expression with n operands ends.
Visited(n, rule, value, kind, partial) ==
  LET s == Append(Below(n), Entry(rule.type, value, kind, "", partial))
  IN  /\ had_error' = (had_error \/ rule.error)
      /\ stack' = IF had_error' THEN Unemitted(s) ELSE s
      /\ UNCHANGED <<symbols, return_type, emitted, undefined>>

Ready(n) == ~undefined /\ Len(stack) >= n /\ Operands(n)

-----------------------------------------------------------------------------
(* Expressions. *)

Leaf(type, value, kind, name, partial) ==
  /\ Room
  /\ stack' = LET s == Append(stack, Entry(type, value, kind, name, partial))
              IN  IF had_error THEN Unemitted(s) ELSE s
  /\ UNCHANGED <<symbols, return_type, last_deref_obj, had_error, emitted, undefined>>

Literal == \E t \in {IntType, Float, Bool, String} : Leaf(t, t, "other", "", FALSE)

This == ThisClass # "none" /\ Leaf(T(ThisClass), T(ThisClass), "other", "", FALSE)

Variable ==
  \/ \E x \in DOMAIN symbols :
       Leaf(symbols[x], symbols[x], IF symbols[x] = Class THEN "variable" ELSE "other", "", FALSE)
  \/ \E f \in DOMAIN Functions : Leaf(Function(f), Function(f), "other", "", FALSE)
  \/ \E c \in ClassNames : Leaf(Class, Invalid, "class", c, TRUE)

UnknownVariable ==
  /\ DOMAIN symbols # Vars
  /\ Room
  /\ had_error' = TRUE
  /\ stack' = Unemitted(Append(stack, Entry(TypeError, NoValue, "other", "", TRUE)))
  /\ UNCHANGED <<symbols, return_type, last_deref_obj, emitted, undefined>>

Grouping ==
  /\ Ready(1)
  /\ LET e == Operand(1)
     IN  Visited(1, Typed(e.type), e.value, IF e.kind = "store" THEN "store" ELSE "other",
                 e.partial)
  /\ UNCHANGED last_deref_obj

Unary ==
  /\ Ready(1)
  /\ LET e == Operand(1)
     IN  \E op \in {"-", "!"} :
           LET rule == UnaryType(op, e.type)
           IN  Visited(1, rule, UnaryValue(rule.type, e.value), "other",
                       Partial(1) \/ op = "!")
  /\ UNCHANGED last_deref_obj

Binary ==
  /\ Ready(2)
  /\ LET l == Operand(2)
         r == Operand(1)
     IN  \E op \in {"+", "<", "=="} :
           Visited(2, BinaryType(op, l.type, r.type),
                   BinaryValue(op, l.type, r.type, l.value, r.value), "other",
                   Partial(2) \/ ~({l.type, r.type} \subseteq Numbers))
  /\ UNCHANGED last_deref_obj

Logical ==
  /\ Ready(2)
  /\ LET l == Operand(2)
         r == Operand(1)
     IN  Visited(2, LogicalType(l.type, r.type), LogicalValue(l.value, r.value), "other",
                 Partial(2))
  /\ UNCHANGED last_deref_obj

Assignment ==
  /\ Ready(1)
  /\ LET e == Operand(1)
     IN  \E x \in DOMAIN symbols :
           Visited(1, AssignmentType(symbols[x], e.type),
                   AssignmentValue(symbols[x], e.value), "other",
                   Partial(1) \/ e.type # symbols[x])
  /\ UNCHANGED last_deref_obj

\* Whether a callee is a Get matters for methods only.
FieldKind(t) == IF IsFunction(t) THEN "field" ELSE "other"

\* A member of a class that is named: only the name is used, and no code is
\* generated for the callee.
GetOfClass(member) ==
  /\ Operand(1).type = Class /\ Operand(1).kind = "class"
  /\ LET value == GetClassValue(Operand(1).name, member)
         rule == GetType(T(Operand(1).name), member)
     IN  Visited(1, rule, value, FieldKind(rule.type), value = NoValue)
  /\ UNCHANGED last_deref_obj

\* Any other expression of type Class is taken for a Variable, which it is not.
GetOfOther ==
  /\ Operand(1).type = Class /\ Operand(1).kind \notin {"class", "variable"}
  /\ undefined' = TRUE
  /\ stack' = <<>>
  /\ UNCHANGED <<symbols, return_type, last_deref_obj, had_error, emitted>>

GetOfObject(member) ==
  /\ Operand(1).type # Class \/ Operand(1).kind = "variable"
  /\ LET rule == GetType(Operand(1).type, member)
         error == had_error \/ rule.type = TypeError
     IN  /\ Visited(1, rule, IF error THEN NoValue
                             ELSE GetValue(Operand(1).type, Operand(1).value, member),
                    FieldKind(rule.type), Partial(1))
         /\ last_deref_obj' = IF error THEN 0 ELSE Len(stack)

Members == UNION {DOMAIN Fields[c] \cup DOMAIN Methods[c] : c \in ClassNames}

GetMember ==
  /\ Ready(1)
  /\ \/ \E member \in Members : GetOfClass(member) \/ GetOfObject(member)
     \/ GetOfOther

Set ==
  /\ Ready(2)
  /\ LET callee == Operand(2)
         e == Operand(1)
     IN  \E field \in Members :
           LET rule == SetType(callee.type, field, e.type)
           IN  IF had_error \/ rule.type = TypeError
               THEN Visited(2, rule, NoValue, "store", TRUE)
               ELSE Visited(2, rule, SetValue(callee.type, callee.value, field, e.value),
                            "store", Partial(2) \/ e.type # FieldsOf[callee.type.name][field])
  /\ UNCHANGED last_deref_obj

GetIndex ==
  /\ Ready(2)
  /\ LET a == Operand(2)
         i == Operand(1)
     IN  Visited(2, GetIndexType(a.type, i.type), GetIndexValue(a.type, a.value, i.value),
                 "other", Partial(2))
  /\ UNCHANGED last_deref_obj

SetIndex ==
  /\ Ready(3)
  /\ LET a == Operand(3)
         i == Operand(2)
         e == Operand(1)
     IN  Visited(3, SetIndexType(a.type, i.type, e.type),
                 SetIndexValue(a.value, i.value, e.value), "store",
                 Partial(3) \/ e.type # NextEnclosed(a.type))
  /\ UNCHANGED last_deref_obj

-----------------------------------------------------------------------------
(* A call: the callee is visited, this is supplied, then the arguments are. *)

\* What is not callable is rejected before its arguments are visited.
RejectCall ==
  /\ Ready(1)
  /\ ~IsFunction(Operand(1).type)
  /\ Visited(1, Reject, NoValue, "other", TRUE)
  /\ UNCHANGED last_deref_obj

\* Mutant: this is supplied after the arguments.
StartCallNoThis ==
  /\ Ready(1)
  /\ LET e == Operand(1)
     IN  /\ IsFunction(e.type)
         /\ stack' = Append(Below(1), [e EXCEPT !.kind = "callee", !.name = e.kind])
  /\ UNCHANGED <<symbols, return_type, last_deref_obj, had_error, emitted, undefined>>

StartCall ==
  /\ Ready(1)
  /\ LET e == Operand(1)
         method == e.kind = "field" /\ e.type.member # "init"
     IN  /\ IsFunction(e.type)
         /\ stack' = Append(Below(1), [e EXCEPT !.kind = "callee", !.name = e.kind,
                                        !.this = IF method THEN last_deref_obj ELSE 0])
  /\ UNCHANGED <<symbols, return_type, last_deref_obj, had_error, emitted, undefined>>

Call ==
  /\ ~undefined
  /\ \E n \in 0..Len(stack) - 1 :
       /\ Operands(n) /\ Operand(n + 1).kind = "callee"
       /\ LET callee == Operand(n + 1)
              args == SubSeq(stack, Len(stack) - n + 1, Len(stack))
              rule == CallType(callee.type, [i \in 1..n |-> args[i].type])
          IN  Visited(n + 1, rule,
                      IF had_error \/ rule.error THEN NoValue
                      ELSE CallValue(callee.type, callee.value, callee.name,
                                     [i \in 1..n |-> args[i].value]),
                      "other",
                      \/ Partial(n) \/ callee.partial
                      \/ callee.name = "other" /\ callee.type.name # "fn"
                                               /\ callee.type.member # "init")
  /\ UNCHANGED last_deref_obj

-----------------------------------------------------------------------------
(* Statements; the expressions are on the stack, which is empty afterwards. *)

\* good: can code be made of the operands?
Statement(n, error, good) ==
  /\ ~undefined /\ Len(stack) = n /\ Operands(n)
  /\ stack' = <<>>
  /\ last_deref_obj' = 0
  /\ had_error' = (had_error \/ error)
  /\ emitted' = (emitted /\ (had_error' \/ Partial(n) \/ good))
  /\ UNCHANGED <<return_type, undefined>>

\* A value is cast to what is to hold it, and is of that type or a subclass.
Fits(v, t) == BitCast(v, t) = t /\ SubclassOf(v, t)

ExprStmt ==
  /\ Len(stack) = 1
  /\ Statement(1, FALSE, TRUE)
  /\ UNCHANGED symbols

\* The condition of an if or a while. Without a value, an if is left out.
Condition ==
  /\ Len(stack) = 1
  /\ Statement(1, Operand(1).type # Bool, Operand(1).value = Bool)
  /\ UNCHANGED symbols

PrintStmt ==
  /\ Len(stack) = 1
  /\ Statement(1, ~Match(Operand(1).type, {IntType, Float, Bool, String}),
               Operand(1).value \in {IntType, Float, Bool, String})
  /\ UNCHANGED symbols

ReturnStmt ==
  /\ \/ Statement(0, return_type # Void, TRUE)
     \/ /\ Len(stack) = 1
        /\ Statement(1, ~SubclassOf(Operand(1).type, return_type),
                     Fits(Operand(1).value, return_type))
  /\ UNCHANGED symbols

Inserted(x, t) == Extended([y \in {x} |-> t], symbols)

\* A variable takes its type from its initializer; it is declared with type
\* Void, or an error's, all the same. No program of the model stores a function.
InferredVar(x) ==
  /\ Len(stack) = 1
  /\ LET t == Operand(1).type
     IN  /\ ~IsFunction(t)
         /\ Statement(1, t = Void \/ x \in DOMAIN symbols, Operand(1).value = t)
         /\ symbols' = IF x \in DOMAIN symbols THEN symbols ELSE Inserted(x, t)

\* Mutant: the initializer's type is compared only if it is an object.
InitializedVarObjects(x, t, d) ==
  /\ Len(stack) = d + 1
  /\ LET init == Operand(1)
         dims == \A i \in 2..d + 1 : Operand(i).type = IntType
         mismatch == IsObject(init.type) /\ ~SubclassOf(init.type, Array(t, d))
     IN  /\ Statement(d + 1, ~dims \/ mismatch \/ x \in DOMAIN symbols,
                      Fits(init.value, Array(t, d)))
         /\ symbols' = IF x \in DOMAIN symbols \/ mismatch THEN symbols
                       ELSE Inserted(x, Array(t, d))

\* d dimensions come before the initializer.
InitializedVar(x, t, d) ==
  /\ Len(stack) = d + 1
  /\ LET init == Operand(1)
         dims == \A i \in 2..d + 1 : Operand(i).type = IntType
         mismatch == init.type # TypeError /\ ~SubclassOf(init.type, Array(t, d))
     IN  /\ Statement(d + 1, ~dims \/ mismatch \/ x \in DOMAIN symbols,
                      Fits(init.value, Array(t, d)))
         /\ symbols' = IF x \in DOMAIN symbols \/ mismatch THEN symbols
                       ELSE Inserted(x, Array(t, d))

\* An array is allocated, with the product of its dimensions for a size.
DefaultVar(x, t, d) ==
  /\ Len(stack) = d
  /\ LET dims == \A i \in 1..d : Operand(i).type = IntType
     IN  /\ Statement(d, ~dims \/ x \in DOMAIN symbols, \A i \in 1..d : Operand(i).value = IntType)
         /\ symbols' = IF x \in DOMAIN symbols THEN symbols ELSE Inserted(x, Array(t, d))

VarStmt ==
  \E x \in Vars :
    \/ InferredVar(x)
    \/ \E t \in Declarable, d \in 0..MaxDims : InitializedVar(x, t, d) \/ DefaultVar(x, t, d)

TypesNext ==
  \/ Literal \/ This \/ Variable \/ UnknownVariable \/ Grouping \/ Unary \/ Binary \/ Logical
  \/ Assignment \/ GetMember \/ Set \/ GetIndex \/ SetIndex \/ RejectCall \/ StartCall \/ Call
  \/ ExprStmt \/ Condition \/ PrintStmt \/ ReturnStmt \/ VarStmt

TypesSpec == TypesInit /\ [][TypesNext]_typesVars

-----------------------------------------------------------------------------
(* No type error is silent: an expression or a variable that has the type
   TypeError comes with a message, which stops the compiler before any code is
   generated (type-checker.cc:240-243, 515-522). *)
TypeErrorsReported ==
  (\/ \E i \in DOMAIN stack : stack[i].type = TypeError
   \/ \E x \in DOMAIN symbols : symbols[x] = TypeError) => had_error

(* What the TypeChecker accepts, in any nesting of expressions that is not
   partial, has a value that is represented as its type says; a store has been
   made (llvm/codegen.cc:82-222, 315-495, 717-749). *)
ValueHasItsType ==
  \A i \in DOMAIN stack :
    LET e == stack[i]
    IN  ~had_error /\ ~e.partial => e.value = IF e.kind = "store" THEN Void ELSE e.type

(* A condition, a printed, returned or initial value that is accepted is one the
   statement's code can be made of; no if is left out (llvm/codegen.cc:576-579). *)
StatementsEmitted == emitted

(* A method is given the object it was taken from for this, whatever members its
   arguments take meanwhile (llvm/codegen.cc:393-399, 434). *)
ThisIsReceiver ==
  \A i \in DOMAIN stack :
    LET e == stack[i]
        method == e.kind = "callee" /\ e.name = "field" /\ e.type.member # "init"
    IN  ~had_error /\ ~e.partial /\ method => e.this = i
===============================================================================
