---------------------------- MODULE TypeHierarchy ----------------------------
(***************************************************************************)
(* The GlobalHoister (src/src/global-hoister.cc): two walks over the       *)
(* program's statements that fill the global type table with the classes,  *)
(* their supertypes, fields and methods, and the global functions.         *)
(*                                                                         *)
(* The program is chosen while it is walked. frames holds the class and    *)
(* function statements the recursion of hoist() is inside of; blocks, if   *)
(* and while only recurse, so their statements are visited in place.       *)
(* A class statement that is nested in a block or a function is skipped by *)
(* the first walk and creates its type in the second; it may also reopen a *)
(* class of the same name, because the table is the global one.            *)
(***************************************************************************)
EXTENDS TypeLayout, FiniteSets

CONSTANTS Classes,      \* class names a program may define
          Prims,        \* types the hoister's constructor inserts
          FieldNames, MethodNames,
          MaxFrames,    \* bound: nesting of class and function statements
          MaxVisits,    \* bound: class statements the second walk meets
          MaxFields,    \* bound: fields of one class statement
          MaxMethods,   \* bound: methods hoisted into one class
          MaxFunctions  \* bound: global functions

ASSUME TypesAssumption == Types = Classes \cup Prims /\ Classes \cap Prims = {}

VARIABLES
  pass,        \* "declare", "hoist", "done": decl_only_pass and its caller
  typetab,     \* names in the global type table
  declared,    \* classes with a top-level statement, declared by the first walk
  visited,     \* classes with a statement the second walk has met
  visits,      \* class statements it has met
  supertype, fields, methods,
  functions,   \* global functions, in declaration order (their $fn_ keys)
  encl_class,
  frames,      \* <<[kind, class, saved]>>, innermost last
  had_error

vars == <<pass, typetab, declared, visited, visits, supertype, fields, methods,
          functions, encl_class, frames, had_error>>

hierarchy == <<supertype, fields, methods>>

Frames == [kind : {"class", "func"}, class : Classes \cup {NoType},
           saved : Classes \cup {NoType}]

\* The field lists of one class statement.
FieldLists == BoundedSeq(FieldNames, MaxFields)

-----------------------------------------------------------------------------
Init ==
  /\ pass = "declare"
  /\ typetab = Prims
  /\ declared = {}
  /\ visited = {}
  /\ visits = 0
  /\ supertype = [t \in Types |-> NoType]
  /\ fields = [t \in Types |-> <<>>]
  /\ methods = [t \in Types |-> <<>>]
  /\ functions = <<>>
  /\ encl_class = NoType
  /\ frames = <<>>
  /\ had_error = FALSE

\* First walk, a top-level class statement. The Resolver has already rejected
\* two of one name in the same scope.
DeclareClass(c) ==
  /\ pass = "declare"
  /\ c \notin declared
  /\ declared' = declared \cup {c}
  /\ typetab' = typetab \cup {c}
  /\ UNCHANGED <<pass, visited, visits, hierarchy, functions, encl_class,
                 frames, had_error>>

StartHoisting ==
  /\ pass = "declare"
  /\ pass' = "hoist"
  /\ UNCHANGED <<typetab, declared, visited, visits, hierarchy, functions,
                 encl_class, frames, had_error>>

\* Second walk, a class statement: the type is fetched or created. A class body
\* holds fields and methods only, so it is not met directly inside another.
VisitClass(c) ==
  /\ pass = "hoist"
  /\ frames # <<>> => Last(frames).kind = "func"
  /\ visits < MaxVisits
  /\ visits' = visits + 1
  /\ visited' = visited \cup {c}
  /\ typetab' = typetab \cup {c}

\* Mutant: a forward reference to an undeclared class is taken on trust.
UnknownSuperNever(c, s) == FALSE

UnknownSuper(c, s) == s # NoType /\ s \notin typetab \cup {c}

\* Mutant: the question asked of the wrong end.
ClosesCycleSwapped(c, s) ==
  s # NoType /\ ~UnknownSuper(c, s) /\ SubclassOf(supertype, c, s)

\* "Circular inheritance is an error": asked before the link is made.
ClosesCycle(c, s) ==
  s # NoType /\ ~UnknownSuper(c, s) /\ SubclassOf(supertype, s, c)

\* The superclass clause is rejected: fields and methods are not hoisted.
RejectSuperclass(c, s) ==
  /\ VisitClass(c)
  /\ UnknownSuper(c, s) \/ ClosesCycle(c, s)
  /\ had_error' = TRUE
  /\ UNCHANGED <<pass, declared, hierarchy, functions, encl_class, frames>>

\* No superclass clause leaves the supertype as it was.
LinkSuperclass(c, s) ==
  /\ ~UnknownSuper(c, s)
  /\ ~ClosesCycle(c, s)
  /\ supertype' = IF s = NoType THEN supertype ELSE [supertype EXCEPT ![c] = s]

\* A field of unknown type ends the visit; the fields before it are kept.
RejectField(c, s, before) ==
  /\ VisitClass(c)
  /\ LinkSuperclass(c, s)
  /\ Types \ (typetab \cup {c}) # {}
  /\ fields' = [fields EXCEPT ![c] = @ \o before]
  /\ had_error' = TRUE
  /\ UNCHANGED <<pass, declared, methods, functions, encl_class, frames>>

EnterClass(c, s, fs) ==
  /\ VisitClass(c)
  /\ Len(frames) < MaxFrames
  /\ LinkSuperclass(c, s)
  /\ fields' = [fields EXCEPT ![c] = @ \o fs]
  /\ frames' = Append(frames, [kind |-> "class", class |-> c, saved |-> encl_class])
  /\ encl_class' = c
  /\ UNCHANGED <<pass, declared, methods, functions, had_error>>

\* Mutant: encl_class is cleared, not restored.
LeaveClassClears ==
  /\ pass = "hoist"
  /\ frames # <<>> /\ Last(frames).kind = "class"
  /\ encl_class' = NoType
  /\ frames' = Front(frames)
  /\ UNCHANGED <<pass, typetab, declared, visited, visits, hierarchy,
                 functions, had_error>>

LeaveClass ==
  /\ pass = "hoist"
  /\ frames # <<>> /\ Last(frames).kind = "class"
  /\ encl_class' = Last(frames).saved
  /\ frames' = Front(frames)
  /\ UNCHANGED <<pass, typetab, declared, visited, visits, hierarchy,
                 functions, had_error>>

EnterFunction ==
  /\ Len(frames) < MaxFrames
  /\ frames' = Append(frames, [kind |-> "func", class |-> NoType, saved |-> NoType])

\* A function statement inside a class, even one nested in a method's body,
\* is hoisted as a method of the enclosing class.
HoistMethod(m) ==
  /\ pass = "hoist"
  /\ encl_class # NoType
  /\ Len(methods[encl_class]) < MaxMethods
  /\ methods' = [methods EXCEPT ![encl_class] = Append(@, m)]
  /\ EnterFunction
  /\ UNCHANGED <<pass, typetab, declared, visited, visits, supertype, fields,
                 functions, encl_class, had_error>>

HoistFunction(m) ==
  /\ pass = "hoist"
  /\ encl_class = NoType
  /\ Len(functions) < MaxFunctions
  /\ functions' = Append(functions, m)
  /\ EnterFunction
  /\ UNCHANGED <<pass, typetab, declared, visited, visits, hierarchy,
                 encl_class, had_error>>

\* An unknown type. In a signature nothing is declared and the body is skipped;
\* in a variable declaration it is only reported.
RejectType ==
  /\ pass = "hoist"
  /\ Types \ typetab # {}
  /\ had_error' = TRUE
  /\ UNCHANGED <<pass, typetab, declared, visited, visits, hierarchy,
                 functions, encl_class, frames>>

LeaveFunction ==
  /\ pass = "hoist"
  /\ frames # <<>> /\ Last(frames).kind = "func"
  /\ frames' = Front(frames)
  /\ UNCHANGED <<pass, typetab, declared, visited, visits, hierarchy,
                 functions, encl_class, had_error>>

\* The walk ends when every top-level class statement has been visited.
Finish ==
  /\ pass = "hoist"
  /\ frames = <<>>
  /\ declared \subseteq visited
  /\ pass' = "done"
  /\ UNCHANGED <<typetab, declared, visited, visits, hierarchy, functions,
                 encl_class, frames, had_error>>

Next ==
  \/ \E c \in Classes : DeclareClass(c)
  \/ StartHoisting
  \/ \E c \in Classes, s \in Types \cup {NoType} :
       \/ RejectSuperclass(c, s)
       \/ \E fs \in FieldLists : RejectField(c, s, fs) \/ EnterClass(c, s, fs)
  \/ LeaveClass
  \/ \E m \in MethodNames : HoistMethod(m) \/ HoistFunction(m)
  \/ RejectType
  \/ LeaveFunction
  \/ Finish

Spec == Init /\ [][Next]_vars

-----------------------------------------------------------------------------
\* The class of the innermost class statement the walk is inside of.
InnermostClass ==
  LET i == SelectLastInSeq(frames, LAMBDA fr : fr.kind = "class")
  IN  IF i = 0 THEN NoType ELSE frames[i].class

Accepted == pass = "done" /\ ~had_error

(* Every variable has its type, and every name the relations mention is in the
   type table, as typetab()->get needs it to be. *)
TypeOK ==
  /\ pass \in {"declare", "hoist", "done"}
  /\ typetab \in SUBSET Types /\ Prims \cup declared \subseteq typetab
  /\ declared \in SUBSET Classes
  /\ visited \in SUBSET Classes
  /\ visits \in Nat
  /\ supertype \in [Types -> typetab \cup {NoType}]
  /\ fields \in [Types -> Seq(FieldNames)]
  /\ methods \in [Types -> Seq(MethodNames)]
  /\ functions \in Seq(MethodNames)
  /\ encl_class \in Classes \cup {NoType}
  /\ frames \in Seq(Frames)
  /\ had_error \in BOOLEAN

(* However class statements refer to each other, forwards, backwards or by
   reopening a class under another superclass, the supertype chains end: the
   loops of superclass_of and the recursions of has_field, num_fields and
   get_methods terminate (global-hoister.cc:64-68). *)
Acyclic == NoCycle(supertype)

(* Once the walk is over, a field that is visible in a class has the same slot
   in all its subclasses, and that slot is its own: code compiled for the static
   type reads the right slot of any object it may be given (type.cc:41-57). *)
FieldSlotsAgree ==
  pass = "done" =>
    \A s, c \in Types : SubclassOf(supertype, s, c) =>
      \A f \in FieldNames : HasField(supertype, fields, c, f) =>
        LET i == FieldIdx(supertype, fields, c, f)
        IN  /\ FieldIdx(supertype, fields, s, f) = i
            /\ i \in 0..NumFields(supertype, fields, s) - 1
            /\ FieldSlots(supertype, fields)[s][i + 1] = f

(* A method called through a class reaches, in the vtable of any subclass the
   receiver may have, the nearest override, unless a class has two methods of
   one name (type.h:44-54, type.cc:76-102). *)
DispatchReachesOverride ==
  Accepted /\ (\A t \in Types : IsInjective(methods[t])) =>
    \A s, c \in Types : SubclassOf(supertype, s, c) =>
      \A m \in ToSet(methods[c]) :
        LET i == MethodIdx(supertype, methods, c, m)
        IN  /\ i \in 0..Len(GetMethods(supertype, methods)[s]) - 1
            /\ GetMethods(supertype, methods)[s][i + 1] = NearestMethod(supertype, methods, s, m)

(* A function statement joins the class it is written in and no other: after a
   class statement nested in a method, the rest of the outer class still
   belongs to the outer class (global-hoister.cc:94-99). *)
EnclosingClassIsInnermost == encl_class = InnermostClass
=============================================================================
