----------------------------- MODULE TypeLayout -----------------------------
(***************************************************************************)
(* struct Type (src/src/type.h, type.cc): the supertype chain, the field   *)
(* slots and the virtual-method table of a class, as operators over the    *)
(* three relations the GlobalHoister builds:                               *)
(*   super   [Types -> Types \cup {NoType}]   Type::supertype              *)
(*   fields  [Types -> Seq(name)]             Type::fields, own ones only  *)
(*   methods [Types -> Seq(name)]             Type::methods, own ones only *)
(* A method object (shared_ptr<FuncType>) is identified by its owner and   *)
(* its position there, so two methods of one name stay distinct.           *)
(***************************************************************************)
EXTENDS Naturals, Integers, Sequences, SequencesExt

CONSTANTS Types,    \* identities of Type objects: user classes and primitives
          NoType    \* the null pointer

ASSUME NoTypeIsNoType == NoType \notin Types

-----------------------------------------------------------------------------
(* The supertype chain. *)

\* A set that contains the supertype of every member that has one.
UpClosed(super, S) == \A t \in S : super[t] # NoType => super[t] \in S

\* Type::subclass_of(c) called on s: the walk from s along supertype meets c.
\* What the walk visits is the least up-closed set that contains s.
SubclassOf(super, s, c) ==
  \A S \in SUBSET Types : s \in S /\ UpClosed(super, S) => c \in S

\* No class is its own proper ancestor: every set of types has a member whose
\* supertype lies outside it, so that every walk ends at a null supertype.
NoCycle(super) ==
  \A S \in SUBSET Types : S # {} => \E t \in S : super[t] \notin S

-----------------------------------------------------------------------------
(* Fields: a superclass's slots come first. *)

\* The names in slot order, as num_fields and field_idx number them.
FieldSlots(super, fields) ==
  LET slots[t \in Types] ==
        (IF super[t] = NoType THEN <<>> ELSE slots[super[t]]) \o fields[t]
  IN  slots

NumFields(super, fields, t) == Len(FieldSlots(super, fields)[t])

HasField(super, fields, t, f) == f \in ToSet(FieldSlots(super, fields)[t])

\* Mutant: an own field is looked up before the inherited one.
FieldIdxOwnFirst(super, fields, t, f) ==
  LET idx[u \in Types] ==
        IF f \notin ToSet(fields[u]) /\ super[u] # NoType
        THEN idx[super[u]]
        ELSE (IF super[u] = NoType THEN 0 ELSE NumFields(super, fields, super[u]))
             + SelectInSeq(fields[u], LAMBDA g : g = f) - 1
  IN  idx[t]

\* The supertype's slot wins over an own field of the same name.
FieldIdx(super, fields, t, f) ==
  LET idx[u \in Types] ==
        IF super[u] # NoType /\ HasField(super, fields, super[u], f)
        THEN idx[super[u]]
        ELSE (IF super[u] = NoType THEN 0 ELSE NumFields(super, fields, super[u]))
             + SelectInSeq(fields[u], LAMBDA g : g = f) - 1
  IN  idx[t]

-----------------------------------------------------------------------------
(* Methods: an override takes the slot of the method it overrides. *)

OwnMethods(methods, t) ==
  [k \in 1..Len(methods[t]) |-> [name |-> methods[t][k], owner |-> t, pos |-> k]]

\* Mutant: an override gets a slot of its own.
PlaceMethodAppends(table, m) == Append(table, m)

PlaceMethod(table, m) ==
  IF \E i \in DOMAIN table : table[i].name = m.name
  THEN [i \in DOMAIN table |->
          IF i = SelectInSeq(table, LAMBDA sm : sm.name = m.name) THEN m ELSE table[i]]
  ELSE Append(table, m)

PlaceMethods(table, own) == FoldLeft(PlaceMethod, table, own)

\* Type::get_methods, the vtable in slot order. Only a class with a supertype
\* goes through the override loop.
GetMethods(super, methods) ==
  LET vt[t \in Types] ==
        IF super[t] = NoType THEN OwnMethods(methods, t)
        ELSE PlaceMethods(vt[super[t]], OwnMethods(methods, t))
  IN  vt

\* has_method and get_method look at the class's own methods only.
HasMethod(methods, t, m) == m \in ToSet(methods[t])

GetMethod(methods, t, m) ==
  OwnMethods(methods, t)[SelectInSeq(methods[t], LAMBDA n : n = m)]

\* Slots count from 0; -1 when the method object is not in the table.
MethodIdx(super, methods, t, m) ==
  SelectInSeq(GetMethods(super, methods)[t],
              LAMBDA sm : sm = GetMethod(methods, t, m)) - 1

\* What a caller of method m on a receiver of class s means: the declaration
\* in the first class up the chain from s that has one.
NearestMethod(super, methods, s, m) ==
  LET near[t \in Types] ==
        IF HasMethod(methods, t, m) \/ super[t] = NoType THEN GetMethod(methods, t, m)
        ELSE near[super[t]]
  IN  near[s]
=============================================================================
