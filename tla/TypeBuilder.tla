----------------------------- MODULE TypeBuilder -----------------------------
(***************************************************************************)
(* The LLVM backend's TypeBuilder (src/src/backends/llvm/type-builder.cc), *)
(* which makes the struct type of a class, and those of the classes and    *)
(* arrays it mentions, when one is first asked for. stack holds the calls  *)
(* of to_llvm in progress. A struct type is made opaque, put into ll_types *)
(* and given its body at the end of the call; in between, a recursive call *)
(* may find it there.                                                      *)
(*                                                                         *)
(* The classes of the program, as the GlobalHoister leaves them, are       *)
(* chosen in BuilderInit. An element of a body is the name it stands for.  *)
(***************************************************************************)
EXTENDS TypeLayout, FiniteSets

CONSTANTS Builtins,     \* types the constructor puts into ll_types
          Arrays,       \* array types
          Elem,         \* [Arrays -> FieldTypes]: what an array is an array of
          ChildFields,  \* may a field lead from a class to a subclass of it?
          MaxOwn        \* bound: fields of one class

ClassTypes == Types \ Builtins
FieldTypes == Types \cup Arrays

\* A program has finitely many types. An array has elements, of fewer dimensions.
ASSUME TypesAreFinite == IsFiniteSet(Types) /\ IsFiniteSet(Arrays)
ASSUME TypesAreApart == Builtins \subseteq Types /\ Types \cap Arrays = {}
ASSUME DimensionsEnd ==
  /\ Elem \in [Arrays -> FieldTypes]
  /\ \A S \in SUBSET Arrays : S # {} => \E a \in S : Elem[a] \notin S

VARIABLES
  supertypes,  \* Type::supertype of each
  own_fields,  \* Type::fields: [Types -> Seq(<<class, number, type>>)]
  ll_types,    \* [FieldTypes -> [state, elements]]
  stack        \* <<[type, elements, inherited]>>

program == <<supertypes, own_fields>>
builderVars == <<program, ll_types, stack>>

-----------------------------------------------------------------------------
(* The program. A field is its own name, and no class has it twice. *)

Mentions(t) ==
  IF t \in Arrays THEN {Elem[t]}
  ELSE {f[3] : f \in Range(own_fields[t])} \cup ({supertypes[t]} \ {NoType})

\* The types that to_llvm(t) may lead to.
LeadsTo(t) ==
  LET more[k \in 0..Cardinality(FieldTypes)] ==
        IF k = 0 THEN Mentions(t)
        ELSE more[k - 1] \cup UNION {Mentions(u) : u \in more[k - 1]}
  IN  more[Cardinality(FieldTypes)]

BuilderInit ==
  /\ supertypes \in {s \in [Types -> ClassTypes \cup {NoType}] :
                      NoCycle(s) /\ \A p \in Builtins : s[p] = NoType}
  /\ \E types \in [ClassTypes -> BoundedSeq(FieldTypes, MaxOwn)] :
       own_fields = [t \in Types |-> IF t \in Builtins THEN <<>>
                                 ELSE [i \in DOMAIN types[t] |-> <<t, i, types[t][i]>>]]
  /\ ~ChildFields => \A p, c \in ClassTypes :
       SubclassOf(supertypes, c, p) /\ c # p => c \notin LeadsTo(p)
  /\ ll_types = [t \in FieldTypes |-> [state |-> IF t \in Builtins THEN "body" ELSE "none",
                                       elements |-> <<>>]]
  /\ stack = <<>>

-----------------------------------------------------------------------------
Top == Last(stack)
Header == << <<"gc">>, <<"vtable">> >>

\* Mutant: the struct type becomes known when it is complete.
CallLate(t) ==
  /\ ll_types[t].state = "none"
  /\ stack' = Append(stack, [type |-> t, elements |-> Header, inherited |-> FALSE])
  /\ UNCHANGED <<program, ll_types>>

\* to_llvm(t) when ll_types does not have t. An array's struct type is made
\* only after the one of its elements.
Call(t) ==
  /\ ll_types[t].state = "none"
  /\ ll_types' = IF t \in Arrays THEN ll_types ELSE [ll_types EXCEPT ![t].state = "opaque"]
  /\ stack' = Append(stack, [type |-> t, elements |-> Header, inherited |-> FALSE])
  /\ UNCHANGED program

Extend(es, inherited) ==
  /\ stack' = [stack EXCEPT ![Len(stack)].elements = es,
                            ![Len(stack)].inherited = inherited]
  /\ UNCHANGED <<program, ll_types>>

\* Code generation asks for any type, in any order.
Request == stack = <<>> /\ \E t \in FieldTypes : Call(t)

\* Mutant: a subclass has a header of its own, before the inherited one.
InheritHeaderTwice ==
  /\ stack # <<>> /\ Top.type \in ClassTypes /\ ~Top.inherited
  /\ LET s == supertypes[Top.type]
     IN  \/ s = NoType /\ Extend(Header, TRUE)
         \/ s # NoType /\ Call(s)
         \/ s # NoType /\ ll_types[s].state # "none"
            /\ Extend(Header \o ll_types[s].elements, TRUE)

\* The elements of the supertype's struct type, or the object header.
Inherit ==
  /\ stack # <<>> /\ Top.type \in ClassTypes /\ ~Top.inherited
  /\ LET s == supertypes[Top.type]
     IN  \/ s = NoType /\ Extend(Header, TRUE)
         \/ s # NoType /\ Call(s)
         \/ s # NoType /\ ll_types[s].state # "none" /\ Extend(ll_types[s].elements, TRUE)

\* The next own field; what is in elements already says which.
OwnField ==
  /\ stack # <<>> /\ Top.type \in ClassTypes /\ Top.inherited
  /\ LET own == own_fields[Top.type]
         rest == {i \in DOMAIN own : own[i] \notin ToSet(Top.elements)}
         field == own[Min(rest)]
     IN  /\ rest # {}
         /\ \/ Call(field[3])
            \/ /\ ll_types[field[3]].state # "none"
               /\ Extend(Append(Top.elements, field), TRUE)

\* Mutant: the call does not return.
SetBodyStays ==
  /\ stack # <<>> /\ Top.type \in ClassTypes /\ Top.inherited
  /\ ToSet(own_fields[Top.type]) \subseteq ToSet(Top.elements)
  /\ ll_types' = [ll_types EXCEPT ![Top.type] = [state |-> "body", elements |-> Top.elements]]
  /\ UNCHANGED <<program, stack>>

SetBody ==
  /\ stack # <<>> /\ Top.type \in ClassTypes /\ Top.inherited
  /\ ToSet(own_fields[Top.type]) \subseteq ToSet(Top.elements)
  /\ ll_types' = [ll_types EXCEPT ![Top.type] = [state |-> "body", elements |-> Top.elements]]
  /\ stack' = Front(stack)
  /\ UNCHANGED program

\* Meanwhile the array's own struct type may have been made: insert keeps it.
ArrayType ==
  /\ stack # <<>> /\ Top.type \in Arrays
  /\ \/ Call(Elem[Top.type])
     \/ /\ ll_types[Elem[Top.type]].state # "none"
        /\ ll_types' = [ll_types EXCEPT ![Top.type] =
                         [state |-> "body", elements |-> Header \o << <<"size">>, <<"elements">> >>]]
        /\ stack' = Front(stack)
        /\ UNCHANGED program

Step == Inherit \/ OwnField \/ SetBody \/ ArrayType

BuilderNext == Request \/ Step

\* A call in progress runs on: nothing else does.
BuilderSpec == BuilderInit /\ [][BuilderNext]_builderVars /\ WF_builderVars(Step)

-----------------------------------------------------------------------------
Complete(t) == ll_types[t].state = "body"

(* The slot of a struct that code generation reads a field from,
   obj_header_size + field_idx, is that field's, in every order in which the
   types may be asked for and however classes mention each other
   (type-builder.cc:27-51, llvm/codegen.cc:465-468). *)
SlotIsTheField ==
  \A t \in ClassTypes : Complete(t) =>
    \A f \in ToSet(FieldSlots(supertypes, own_fields)[t]) :
      LET slot == Len(Header) + FieldIdx(supertypes, own_fields, t, f) + 1
          elements == ll_types[t].elements
      IN  slot \in DOMAIN elements /\ elements[slot] = f

(* Classes that mention themselves or each other do not send to_llvm round in
   circles: none is being made twice at a time, an array at most twice
   (type-builder.cc:14-16, 29). *)
NoEndlessRecursion ==
  /\ \A i, j \in DOMAIN stack : stack[i].type = stack[j].type /\ i # j
                                => stack[i].type \in Arrays
  /\ Len(stack) <= Cardinality(ClassTypes) + 2 * Cardinality(Arrays)

(* Every call returns. *)
CallsReturn == stack # <<>> ~> stack = <<>>
=============================================================================
