----------------------------- MODULE StaticTypes -----------------------------
(***************************************************************************)
(* The types of expressions: the rules of the TypeChecker                  *)
(* (src/src/type-checker.cc) over the types of primitives.cc, arrays.cc,   *)
(* functype.cc and type.h, one operator for each kind of expression.       *)
(*                                                                         *)
(* A type is [name, member, dims]: the primitive or class, the method or   *)
(* function if it is the type of one, and the dimensions of an array.      *)
(* "+" stands for the operators of arithmetic, "<" and "==" for the ones   *)
(* that compare.                                                           *)
(***************************************************************************)
EXTENDS Naturals, Sequences

CONSTANTS ClassNames,
          Super,      \* [ClassNames -> ClassNames \cup {"none"}]
          Fields,     \* own fields of a class: name -> type
          Methods,    \* own methods of a class: name -> [args, result]
          Functions   \* functions: name -> [args, result]

T(name) == [name |-> name, member |-> "", dims |-> 0]
IntType == T("Int")   \* Int is a set of numbers
Float == T("Float")
Bool == T("Bool")
String == T("String")
Void == T("Void")
Class == T("Class")
TypeError == T("$TypeError")

\* The types a variable, a parameter or a field may have.
PrimitiveNames == {"Int", "Float", "Bool", "String", "Void", "Class"}
ValueTypes == [name : ClassNames \cup PrimitiveNames, member : {""}, dims : Nat]
Signatures == [args : Seq(ValueTypes), result : ValueTypes]

\* A name stands for one Type: a class called Int would replace the primitive in
\* the type table (global-hoister.cc:14-16), and is left out. The hoister rejects
\* what is no type at all.
ASSUME ClassNamesAssumption ==
  ClassNames \cap (PrimitiveNames \cup {"$TypeError", "fn", "none", "invalid"}) = {}

\* The hoister rejects a cycle of superclasses (global-hoister.cc:62-66).
ASSUME SuperAssumption ==
  /\ Super \in [ClassNames -> ClassNames \cup {"none"}]
  /\ \A S \in SUBSET ClassNames : S # {} => \E c \in S : Super[c] \notin S

\* The hoister rejects a type it does not know (global-hoister.cc:76-90, 121-150).
ASSUME MembersAssumption ==
  /\ \A c \in ClassNames : \A f \in DOMAIN Fields[c] : Fields[c][f] \in ValueTypes
  /\ \A c \in ClassNames : \A m \in DOMAIN Methods[c] : Methods[c][m] \in Signatures
  /\ \A f \in DOMAIN Functions : Functions[f] \in Signatures

Array(t, n) == [name |-> t.name, member |-> "", dims |-> n]
NextEnclosed(t) == Array(t, t.dims - 1)
Function(f) == [name |-> "fn", member |-> f, dims |-> 0]
Method(c, m) == [name |-> c, member |-> m, dims |-> 0]

\* A Type has a functype, args and result, if it is one of a function.
IsFunction(t) == t.member # ""
Signature(t) == IF t.name = "fn" THEN Functions[t.member] ELSE Methods[t.name][t.member]

Ancestors ==
  LET up[c \in ClassNames] == {c} \cup (IF Super[c] = "none" THEN {} ELSE up[Super[c]])
  IN  up

\* An array is a subclass of an array whose elements are of a superclass.
SubclassOf(s, c) ==
  \/ s = c
  \/ /\ s.dims = c.dims /\ ~IsFunction(s) /\ ~IsFunction(c)
     /\ s.name \in ClassNames /\ c.name \in Ancestors[s.name]

Match(t, S) == \E c \in S : SubclassOf(t, c)

\* Fields are inherited, the superclass's first; methods are looked for in the
\* class itself.
Extended(f, g) == [x \in DOMAIN f \cup DOMAIN g |-> IF x \in DOMAIN f THEN f[x] ELSE g[x]]

FieldsOf ==
  LET all[c \in ClassNames] ==
        Extended(IF Super[c] = "none" THEN <<>> ELSE all[Super[c]], Fields[c])
  IN  all

IsObject(t) == t.dims = 0 /\ t.name \in ClassNames /\ ~IsFunction(t)
HasField(t, f) == IsObject(t) /\ f \in DOMAIN FieldsOf[t.name]
HasMethod(t, m) == IsObject(t) /\ m \in DOMAIN Methods[t.name]

AcceptsArgs(params, args) ==
  Len(params) = Len(args) /\ \A i \in DOMAIN params : SubclassOf(args[i], params[i])

-----------------------------------------------------------------------------
(* What a visit leaves in expr_types, and whether it reports an error.         *)

Typed(t) == [type |-> t, error |-> FALSE]
Reject == [type |-> TypeError, error |-> TRUE]
Propagate == [type |-> TypeError, error |-> FALSE]

Numbers == {IntType, Float}

UnaryType(op, t) ==
  IF t = TypeError THEN Propagate
  ELSE IF op = "-" /\ ~Match(t, Numbers) THEN Reject
  ELSE IF op = "!" /\ ~Match(t, {Bool}) THEN Reject
  ELSE Typed(t)

\* MINUS, STAR and SLASH fall through to PLUS, which takes two Strings.
BinaryType(op, l, r) ==
  IF TypeError \in {l, r} THEN Propagate
  ELSE IF op = "==" THEN Typed(Bool)
  ELSE IF op = "<" /\ Match(l, Numbers) /\ Match(r, Numbers) THEN Typed(Bool)
  ELSE IF op = "+" /\ {l, r} = {IntType} THEN Typed(IntType)
  ELSE IF op = "+" /\ {l, r} \subseteq Numbers THEN Typed(Float)
  ELSE IF op = "+" /\ {l, r} = {String} THEN Typed(String)
  ELSE Reject

\* Mutant: the right operand's TypeError is given without a message.
LogicalTypeSilent(l, r) ==
  IF TypeError \in {l, r} THEN Propagate
  ELSE IF ~Match(l, {Bool}) THEN Reject
  ELSE IF ~Match(r, {Bool}) THEN Propagate
  ELSE Typed(Bool)

LogicalType(l, r) ==
  IF TypeError \in {l, r} THEN Propagate
  ELSE IF ~(Match(l, {Bool}) /\ Match(r, {Bool})) THEN Reject
  ELSE Typed(Bool)

AssignmentType(var, value) ==
  IF value = TypeError THEN Propagate
  ELSE IF ~SubclassOf(value, var) THEN Reject
  ELSE Typed(var)

CallType(callee, args) ==
  IF IsFunction(callee) /\ AcceptsArgs(Signature(callee).args, args)
  THEN Typed(Signature(callee).result) ELSE Reject

\* callee is the class itself where the source names it.
GetType(callee, member) ==
  IF callee = TypeError THEN Propagate
  ELSE IF HasField(callee, member) THEN Typed(FieldsOf[callee.name][member])
  ELSE IF HasMethod(callee, member) THEN Typed(Method(callee.name, member))
  ELSE Reject

SetType(callee, field, value) ==
  IF TypeError \in {callee, value} THEN Propagate
  ELSE IF ~HasField(callee, field) THEN Reject
  ELSE IF ~SubclassOf(value, FieldsOf[callee.name][field]) THEN Reject
  ELSE Typed(callee)

GetIndexType(callee, index) ==
  IF TypeError \in {callee, index} THEN Propagate
  ELSE IF callee.dims = 0 \/ index # IntType THEN Reject
  ELSE Typed(NextEnclosed(callee))

SetIndexType(callee, index, value) ==
  IF TypeError \in {callee, index, value} THEN Propagate
  ELSE IF callee.dims = 0 \/ index # IntType THEN Reject
  ELSE IF ~SubclassOf(value, NextEnclosed(callee)) THEN Reject
  ELSE Typed(NextEnclosed(callee))
===============================================================================
