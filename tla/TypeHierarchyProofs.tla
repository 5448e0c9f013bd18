------------------------- MODULE TypeHierarchyProofs -------------------------
(***************************************************************************)
(* Proofs about TypeHierarchy and TypeBuilder, for any number of classes   *)
(* and any bounds. The two share the lemmas about layout; their behaviours *)
(* are apart, and so are their variables.                                  *)
(***************************************************************************)
EXTENDS TypeHierarchy, TypeBuilder, RecursionTheorems, FiniteSetTheorems

-----------------------------------------------------------------------------
(* The supertype relation alone. *)

(* What global-hoister.cc:65-70 does: linking c under s, once the walk from s
   is known not to meet c, keeps every supertype chain finite. It also holds
   when c already had a supertype, as a reopened class may. *)
LEMMA LinkKeepsAcyclic ==
  ASSUME NEW super \in [Types -> Types \cup {NoType}],
         NEW c \in Types, NEW s \in Types,
         NoCycle(super),
         ~SubclassOf(super, s, c)
  PROVE  NoCycle([super EXCEPT ![c] = s])
<1> DEFINE linked == [super EXCEPT ![c] = s]
<1>1. SUFFICES ASSUME NEW S \in SUBSET Types, S # {},
                      \A t \in S : linked[t] \in S
               PROVE  FALSE
  BY DEF NoCycle
<1>2. CASE c \notin S
  <2>1. \A t \in S : super[t] \in S
    BY <1>1, <1>2
  <2> QED
    BY <1>1, <2>1 DEF NoCycle
<1>3. CASE c \in S
  <2>1. s \in S
    BY <1>1, <1>3
  <2>2. PICK U \in SUBSET Types : s \in U /\ UpClosed(super, U) /\ c \notin U
    BY DEF SubclassOf
  <2> DEFINE W == S \cap U
  <2>3. W # {} /\ W \in SUBSET Types
    BY <2>1, <2>2
  <2>4. ASSUME NEW t \in W
        PROVE  super[t] \in W
    <3>1. super[t] \in S
      BY <1>1, <2>2, <2>4
    <3>2. super[t] # NoType
      BY <3>1, NoTypeIsNoType
    <3> QED
      BY <2>2, <2>4, <3>1, <3>2 DEF UpClosed
  <2> QED
    BY <2>3, <2>4 DEF NoCycle
<1> QED
  BY <1>2, <1>3

-----------------------------------------------------------------------------
(* Fields. *)

\* A hierarchy without a cycle, and the N's that each class declares itself.
Layout(N, super, own) ==
  /\ super \in [Types -> Types \cup {NoType}] /\ NoCycle(super)
  /\ own \in [Types -> Seq(N)]

LEMMA FieldSlotsRecursion ==
  ASSUME NEW super, NEW N, NEW own, Layout(N, super, own)
  PROVE  /\ FieldSlots(super, own) \in [Types -> Seq(N)]
         /\ \A t \in Types :
              FieldSlots(super, own)[t] =
                (IF super[t] = NoType THEN <<>> ELSE FieldSlots(super, own)[super[t]])
                  \o own[t]
<1>0. super \in [Types -> Types \cup {NoType}] /\ NoCycle(super) /\ own \in [Types -> Seq(N)]
  BY DEF Layout
<1> USE <1>0
<1> DEFINE step == [t \in Types |-> [v \in Seq(N) |-> v \o own[t]]]
           slots == FieldSlots(super, own)
<1>1. step \in [Types -> [Seq(N) -> Seq(N)]]
  BY ConcatProperties
<1>2. Founded(Types, super)
  BY DEF NoCycle, Founded
<1> HIDE DEF step
<1>3. PICK f : Solves(Types, f, super, NoType, Seq(N), own, step)
  <2>1. Recursion(Types, NoType, super, Seq(N), own, step)
    BY <1>1, <1>2, NoTypeIsNoType DEF Recursion
  <2> QED
    BY <2>1, ChainRecursion
<1>4. ASSUME NEW t \in Types
      PROVE  f[t] = (IF super[t] = NoType THEN <<>> ELSE f[super[t]]) \o own[t]
  <2>1. CASE super[t] = NoType
    BY <1>3, <2>1, ConcatEmptySeq DEF Solves
  <2>2. CASE super[t] # NoType
    <3>1. f[super[t]] \in Seq(N)
      BY <1>3, <2>2 DEF Solves
    <3> QED
      BY <1>3, <2>2, <3>1 DEF step, Solves
  <2> QED
    BY <2>1, <2>2
<1>5. f = [t \in Types |-> (IF super[t] = NoType THEN <<>> ELSE f[super[t]]) \o own[t]]
  BY <1>3, <1>4 DEF Solves
<1>6. slots = [t \in Types |->
                 (IF super[t] = NoType THEN <<>> ELSE slots[super[t]]) \o own[t]]
  BY <1>5 DEF FieldSlots
<1> HIDE DEF slots
<1>7. \A t \in Types :
        slots[t] = (IF super[t] = NoType THEN <<>> ELSE slots[super[t]]) \o own[t]
  BY <1>6
<1> DEFINE G == {t \in Types : slots[t] \in Seq(N)}
<1>8. G = Types
  <2> SUFFICES ASSUME Types \ G # {}
               PROVE  FALSE
    OBVIOUS
  <2>1. PICK t \in Types \ G : super[t] \notin Types \ G
    BY DEF NoCycle
  <2> DEFINE inherited == IF super[t] = NoType THEN <<>> ELSE slots[super[t]]
  <2>2. inherited \in Seq(N)
    BY <2>1, EmptySeq
  <2>3. slots[t] = inherited \o own[t] /\ own[t] \in Seq(N)
    BY <1>7, <2>1
  <2> HIDE DEF inherited
  <2>4. inherited \o own[t] \in Seq(N)
    BY <2>2, <2>3, ConcatProperties
  <2> QED
    BY <2>1, <2>3, <2>4
<1> QED
  BY <1>6, <1>7, <1>8 DEF slots

LEMMA RootSlots ==
  ASSUME NEW super, NEW N, NEW own, Layout(N, super, own), NEW t \in Types,
         super[t] = NoType
  PROVE  FieldSlots(super, own)[t] = own[t]
<1>1. own[t] \in Seq(N)
  BY DEF Layout
<1>2. FieldSlots(super, own)[t] = <<>> \o own[t]
  BY FieldSlotsRecursion
<1> QED
  BY <1>1, <1>2, ConcatEmptySeq

LEMMA InheritedSlots ==
  ASSUME NEW super, NEW N, NEW own, Layout(N, super, own), NEW t \in Types,
         super[t] # NoType
  PROVE  FieldSlots(super, own)[t] = FieldSlots(super, own)[super[t]] \o own[t]
  BY FieldSlotsRecursion

LEMMA FieldIdxDefined ==
  ASSUME NEW super, NEW N, NEW mine, Layout(N, super, mine), NEW f, NEW t \in Types
  PROVE  /\ super[t] = NoType =>
              FieldIdx(super, mine, t, f) = FirstIndex(mine[t], f) - 1
         /\ super[t] # NoType => FieldIdx(super, mine, t, f) =
              IF HasField(super, mine, super[t], f) THEN FieldIdx(super, mine, super[t], f)
              ELSE NumFields(super, mine, super[t]) + FirstIndex(mine[t], f) - 1
<1>0. super \in [Types -> Types \cup {NoType}] /\ NoCycle(super) /\ mine \in [Types -> Seq(N)]
  BY DEF Layout
<1> USE <1>0
<1> DEFINE own(u) == FirstIndex(mine[u], f)
           num(u) == NumFields(super, mine, super[u])
           has(u) == HasField(super, mine, super[u], f)
           base == [u \in Types |-> 0 + own(u) - 1]
           step == [u \in Types |-> [v \in Int |-> IF has(u) THEN v
                                                     ELSE IF super[u] = NoType THEN 0
                                                     ELSE num(u) + own(u) - 1]]
           Idx(u) == FieldIdx(super, mine, u, f)
<1>1. \A u \in Types : own(u) \in Int
  BY FirstIndexFound
<1>2. \A u \in Types : super[u] # NoType => num(u) \in Int
  BY FieldSlotsRecursion, LenProperties DEF NumFields
<1> HIDE DEF own, num, has
<1>3. base \in [Types -> Int] /\ step \in [Types -> [Int -> Int]]
  BY <1>1, <1>2
<1>4. Founded(Types, super)
  BY DEF NoCycle, Founded
<1> HIDE DEF base, step
<1>5. PICK idx : Solves(Types, idx, super, NoType, Int, base, step)
  <2>1. Recursion(Types, NoType, super, Int, base, step)
    BY <1>3, <1>4, NoTypeIsNoType DEF Recursion
  <2> QED
    BY <2>1, ChainRecursion
<1>6. ASSUME NEW u \in Types
      PROVE  idx[u] = IF super[u] # NoType /\ has(u) THEN idx[super[u]]
                      ELSE (IF super[u] = NoType THEN 0 ELSE num(u)) + own(u) - 1
  <2>1. CASE super[u] = NoType
    BY <1>5, <2>1 DEF base, Solves
  <2>2. CASE super[u] # NoType
    <3>1. idx[super[u]] \in Int
      BY <1>5, <2>2 DEF Solves
    <3> QED
      BY <1>5, <2>2, <3>1 DEF step, Solves
  <2> QED
    BY <2>1, <2>2
<1>7. idx = [u \in Types |-> IF super[u] # NoType /\ has(u) THEN idx[super[u]]
                              ELSE (IF super[u] = NoType THEN 0 ELSE num(u)) + own(u) - 1]
  BY <1>5, <1>6 DEF Solves
<1>8. FieldIdx(super, mine, t, f) =
        IF super[t] # NoType /\ HasField(super, mine, super[t], f)
        THEN FieldIdx(super, mine, super[t], f)
        ELSE (IF super[t] = NoType THEN 0 ELSE NumFields(super, mine, super[t]))
             + FirstIndex(mine[t], f) - 1
  BY <1>7 DEF FieldIdx, SelectInSeq, FirstIndex, own, num, has
<1>9. FirstIndex(mine[t], f) \in Int
  BY <1>1 DEF own
<1> QED
  BY <1>8, <1>9

\* An up-closed set and its members' chains.
LEMMA SubclassStep ==
  ASSUME NEW super \in [Types -> Types \cup {NoType}],
         NEW s \in Types, NEW c \in Types, SubclassOf(super, s, c), s # c
  PROVE  super[s] # NoType /\ super[s] \in Types /\ SubclassOf(super, super[s], c)
<1>1. super[s] # NoType
  <2> SUFFICES ASSUME super[s] = NoType
               PROVE  FALSE
    OBVIOUS
  <2>1. UpClosed(super, {s})
    BY DEF UpClosed
  <2> QED
    BY <2>1 DEF SubclassOf
<1>2. ASSUME NEW U \in SUBSET Types, super[s] \in U, UpClosed(super, U)
      PROVE  c \in U
  <2>1. UpClosed(super, U \cup {s})
    BY <1>2 DEF UpClosed
  <2>2. U \cup {s} \in SUBSET Types
    OBVIOUS
  <2> QED
    BY <2>1, <2>2 DEF SubclassOf
<1> QED
  BY <1>1, <1>2 DEF SubclassOf

\* Both recursions unfolded: the names in slot order, and the slot of one name.
FieldEquations(super, own, f, slots, idx) ==
  \A u \in Types :
    /\ super[u] = NoType =>
         slots[u] = own[u] /\ idx[u] = FirstIndex(own[u], f) - 1
    /\ super[u] # NoType =>
         /\ Len(slots[u]) = Len(slots[super[u]]) + Len(own[u])
         /\ \A i \in 1..Len(slots[super[u]]) : slots[u][i] = slots[super[u]][i]
         /\ \A i \in 1..Len(own[u]) : slots[u][Len(slots[super[u]]) + i] = own[u][i]
         /\ idx[u] = IF f \in ToSet(slots[super[u]]) THEN idx[super[u]]
                     ELSE Len(slots[super[u]]) + FirstIndex(own[u], f) - 1

LEMMA FieldsUnfolded ==
  ASSUME NEW super, NEW N, NEW own, Layout(N, super, own), NEW f
  PROVE  \E slots, idx :
           /\ slots = FieldSlots(super, own) /\ slots \in [Types -> Seq(N)]
           /\ \A u \in Types : idx[u] = FieldIdx(super, own, u, f)
           /\ FieldEquations(super, own, f, slots, idx)
<1>0. super \in [Types -> Types \cup {NoType}] /\ NoCycle(super) /\ own \in [Types -> Seq(N)]
  BY DEF Layout
<1> USE <1>0
<1> DEFINE slots == FieldSlots(super, own)
           idx == [u \in Types |-> FieldIdx(super, own, u, f)]
<1>1. slots \in [Types -> Seq(N)]
  BY FieldSlotsRecursion
<1>2. ASSUME NEW u \in Types, super[u] = NoType
      PROVE  slots[u] = own[u] /\ idx[u] = FirstIndex(own[u], f) - 1
  <2>2. slots[u] = own[u]
    BY <1>2, RootSlots
  <2>3. FieldIdx(super, own, u, f) = FirstIndex(own[u], f) - 1
    BY <1>2, FieldIdxDefined
  <2> QED
    BY <2>2, <2>3
<1>3. ASSUME NEW u \in Types, super[u] # NoType
      PROVE  idx[u] = IF f \in ToSet(slots[super[u]]) THEN idx[super[u]]
                      ELSE Len(slots[super[u]]) + FirstIndex(own[u], f) - 1
  <2>1. FieldIdx(super, own, u, f) =
          IF HasField(super, own, super[u], f) THEN FieldIdx(super, own, super[u], f)
          ELSE NumFields(super, own, super[u]) + FirstIndex(own[u], f) - 1
    BY <1>3, FieldIdxDefined
  <2> QED
    BY <1>3, <2>1 DEF HasField, NumFields
<1>4. ASSUME NEW u \in Types, super[u] # NoType
      PROVE  /\ Len(slots[u]) = Len(slots[super[u]]) + Len(own[u])
             /\ \A i \in 1..Len(slots[super[u]]) : slots[u][i] = slots[super[u]][i]
             /\ \A i \in 1..Len(own[u]) :
                  slots[u][Len(slots[super[u]]) + i] = own[u][i]
  <2>1. slots[u] = slots[super[u]] \o own[u]
    BY <1>4, InheritedSlots
  <2>2. slots[super[u]] \in Seq(N) /\ own[u] \in Seq(N)
    BY <1>1, <1>4
  <2> HIDE DEF slots
  <2> QED
    BY <2>1, <2>2, ConcatParts
<1>5. \A u \in Types : idx[u] = FieldIdx(super, own, u, f)
  OBVIOUS
<1> HIDE DEF slots, idx
<1>6. slots = FieldSlots(super, own)
  BY DEF slots
<1>7. FieldEquations(super, own, f, slots, idx)
  BY <1>2, <1>3, <1>4 DEF FieldEquations
<1> QED
  BY <1>1, <1>5, <1>6, <1>7

(* type.cc:41-57: the slot of a field, in the class itself. *)
LEMMA FieldHasSlot ==
  ASSUME NEW super, NEW N, NEW own, Layout(N, super, own), NEW f, NEW t \in Types,
         HasField(super, own, t, f)
  PROVE  /\ FieldIdx(super, own, t, f) \in 0..NumFields(super, own, t) - 1
         /\ FieldSlots(super, own)[t][FieldIdx(super, own, t, f) + 1] = f
<1>0. super \in [Types -> Types \cup {NoType}] /\ NoCycle(super) /\ own \in [Types -> Seq(N)]
  BY DEF Layout
<1> USE <1>0
<1>1. PICK slots, idx :
        /\ slots = FieldSlots(super, own) /\ slots \in [Types -> Seq(N)]
        /\ \A u \in Types : idx[u] = FieldIdx(super, own, u, f)
        /\ FieldEquations(super, own, f, slots, idx)
  BY FieldsUnfolded
<1> DEFINE Good(u) == f \in ToSet(slots[u]) =>
                        idx[u] \in 0..Len(slots[u]) - 1 /\ slots[u][idx[u] + 1] = f
           Bad == {u \in Types : ~Good(u)}
<1>2. \A u \in Types : /\ slots[u] \in Seq(N) /\ own[u] \in Seq(N)
                       /\ Len(slots[u]) \in Nat /\ Len(own[u]) \in Nat
  BY <1>1, LenProperties
<1>3. ASSUME NEW u \in Types
      PROVE  LET k == FirstIndex(own[u], f)
             IN  /\ f \in ToSet(own[u]) => k \in 1..Len(own[u]) /\ own[u][k] = f
                 /\ k \in Nat
  BY <1>2, FirstIndexFound
<1>4. ASSUME NEW u \in Types, super[u] = NoType
      PROVE  Good(u)
  BY <1>1, <1>2, <1>3, <1>4 DEF FieldEquations
<1>5. ASSUME NEW u \in Types, super[u] # NoType, Good(super[u])
      PROVE  Good(u)
  <2> DEFINE a == slots[super[u]]
             b == own[u]
  <2>1. /\ Len(slots[u]) = Len(a) + Len(b)
        /\ \A i \in 1..Len(a) : slots[u][i] = a[i]
        /\ \A i \in 1..Len(b) : slots[u][Len(a) + i] = b[i]
        /\ idx[u] = IF f \in ToSet(a) THEN idx[super[u]]
                    ELSE Len(a) + FirstIndex(b, f) - 1
    BY <1>1, <1>5 DEF FieldEquations
  <2>2. /\ a \in Seq(N) /\ b \in Seq(N) /\ slots[u] \in Seq(N)
        /\ Len(a) \in Nat /\ Len(b) \in Nat
    BY <1>2, <1>5
  <2>3. CASE f \in ToSet(a)
    <3>1. idx[u] \in 0..Len(a) - 1 /\ a[idx[u] + 1] = f
      BY <1>5, <2>1, <2>3
    <3> HIDE DEF a, b
    <3>2. idx[u] + 1 \in 1..Len(a) /\ idx[u] \in 0..Len(slots[u]) - 1
      BY <2>1, <2>2, <3>1
    <3> QED
      BY <2>1, <3>1, <3>2
  <2>4. CASE f \notin ToSet(a) /\ f \in ToSet(b)
    <3>1. PICK k : k \in 1..Len(b) /\ b[k] = f /\ idx[u] = Len(a) + k - 1
      BY <1>3, <2>1, <2>4
    <3> HIDE DEF a, b
    <3>2. idx[u] + 1 = Len(a) + k
      BY <2>2, <3>1
    <3> QED
      BY <2>1, <2>2, <3>1, <3>2
  <2>5. CASE f \notin ToSet(a) /\ f \notin ToSet(b)
    <3> HIDE DEF a, b
    <3>1. ASSUME NEW i \in 1..Len(slots[u]), slots[u][i] = f
          PROVE  FALSE
      <4>1. CASE i <= Len(a)
        <5>1. i \in 1..Len(a) /\ a[i] = f
          BY <2>1, <2>2, <3>1, <4>1
        <5> QED
          BY <2>2, <2>5, <5>1, SeqHas
      <4>2. CASE i > Len(a)
        <5>1. i - Len(a) \in 1..Len(b) /\ Len(a) + (i - Len(a)) = i
          BY <2>1, <2>2, <4>2
        <5>2. b[i - Len(a)] = f
          BY <2>1, <3>1, <5>1
        <5> QED
          BY <2>2, <2>5, <5>1, <5>2, SeqHas
      <4> QED
        BY <2>1, <2>2, <4>1, <4>2
    <3>2. f \notin ToSet(slots[u])
      BY <2>2, <3>1, SeqHas
    <3> QED
      BY <3>2
  <2> QED
    BY <2>3, <2>4, <2>5
<1> HIDE DEF Good
<1>6. Bad = {}
  <2> SUFFICES ASSUME Bad # {}
               PROVE  FALSE
    OBVIOUS
  <2>1. PICK u \in Bad : super[u] \notin Bad
    BY DEF NoCycle
  <2> QED
    BY <1>4, <1>5, <2>1
<1>7. Good(t)
  BY <1>6
<1> QED
  BY <1>1, <1>7 DEF Good, HasField, NumFields

(* A field that a class inherits keeps its slot. *)
LEMMA FieldInherited ==
  ASSUME NEW super, NEW N, NEW own, Layout(N, super, own), NEW f, NEW t \in Types,
         super[t] # NoType, HasField(super, own, super[t], f)
  PROVE  /\ HasField(super, own, t, f)
         /\ FieldIdx(super, own, t, f) = FieldIdx(super, own, super[t], f)
<1>0. super \in [Types -> Types \cup {NoType}] /\ NoCycle(super) /\ own \in [Types -> Seq(N)]
  BY DEF Layout
<1> USE <1>0
<1>1. PICK slots, idx :
        /\ slots = FieldSlots(super, own) /\ slots \in [Types -> Seq(N)]
        /\ \A u \in Types : idx[u] = FieldIdx(super, own, u, f)
        /\ FieldEquations(super, own, f, slots, idx)
  BY FieldsUnfolded
<1> DEFINE a == slots[super[t]]
<1>2. /\ slots[t] \in Seq(N) /\ a \in Seq(N) /\ Len(a) \in Nat /\ Len(own[t]) \in Nat
      /\ f \in ToSet(a)
  BY <1>1, LenProperties DEF HasField
<1>3. /\ Len(slots[t]) = Len(a) + Len(own[t])
      /\ \A i \in 1..Len(a) : slots[t][i] = a[i]
      /\ idx[t] = idx[super[t]]
  BY <1>1, <1>2 DEF FieldEquations
<1>4. f \in ToSet(slots[t])
  <2> HIDE DEF a
  <2>1. PICK i \in 1..Len(a) : a[i] = f
    BY <1>2, SeqHas
  <2>2. i \in 1..Len(slots[t]) /\ slots[t][i] = f
    BY <1>2, <1>3, <2>1
  <2> QED
    BY <1>2, <2>2, SeqHas
<1> QED
  BY <1>1, <1>3, <1>4 DEF HasField

(* Code that is compiled for class c reads field f of an object of any subclass
   s from the slot it has in c, and it is f's. *)
THEOREM FieldSlotsInherited ==
  ASSUME NEW super, NEW N, NEW own, Layout(N, super, own), NEW f,
         NEW s \in Types, NEW c \in Types, SubclassOf(super, s, c),
         HasField(super, own, c, f)
  PROVE  /\ HasField(super, own, s, f)
         /\ FieldIdx(super, own, s, f) = FieldIdx(super, own, c, f)
         /\ FieldIdx(super, own, s, f) \in 0..NumFields(super, own, s) - 1
         /\ FieldSlots(super, own)[s][FieldIdx(super, own, s, f) + 1] = f
<1>0. super \in [Types -> Types \cup {NoType}] /\ NoCycle(super) /\ own \in [Types -> Seq(N)]
  BY DEF Layout
<1> USE <1>0
<1> DEFINE Good(u) == SubclassOf(super, u, c) =>
                        /\ HasField(super, own, u, f)
                        /\ FieldIdx(super, own, u, f) = FieldIdx(super, own, c, f)
           Bad == {u \in Types : ~Good(u)}
<1>1. ASSUME NEW u \in Types, u # c, SubclassOf(super, u, c), Good(super[u])
      PROVE  Good(u)
  <2>1. super[u] # NoType /\ super[u] \in Types /\ SubclassOf(super, super[u], c)
    BY <1>1, SubclassStep
  <2>2. HasField(super, own, super[u], f)
    BY <1>1, <2>1
  <2> QED
    BY <1>1, <2>1, <2>2, FieldInherited
<1>2. Good(c)
  OBVIOUS
<1>3. Bad = {}
  <2> SUFFICES ASSUME Bad # {}
               PROVE  FALSE
    OBVIOUS
  <2>1. PICK u \in Bad : super[u] \notin Bad
    BY DEF NoCycle
  <2>2. u \in Types /\ u # c /\ SubclassOf(super, u, c)
    BY <1>2, <2>1
  <2>3. super[u] \in Types
    BY <2>2, SubclassStep
  <2> HIDE DEF Good
  <2> QED
    BY <1>1, <2>1, <2>2, <2>3
<1>4. Good(s)
  BY <1>3
<1> QED
  BY <1>4, FieldHasSlot

-----------------------------------------------------------------------------
(* Virtual-method tables. *)

DistinctNames(table) ==
  \A i, j \in 1..Len(table) : table[i].name = table[j].name => i = j

\* The loop of get_methods on one method: table becomes new.
MethodPlaced(table, m, new) ==
  /\ DistinctNames(new)
  /\ Len(table) <= Len(new)
  /\ \A i \in 1..Len(table) : /\ new[i].name = table[i].name
                              /\ table[i].name # m.name => new[i] = table[i]
  /\ \E i \in 1..Len(new) : new[i] = m

LEMMA PlaceMethodPlaces ==
  ASSUME NEW M, NEW table \in Seq(M), DistinctNames(table), NEW m \in M
  PROVE  PlaceMethod(table, m) \in Seq(M) /\ MethodPlaced(table, m, PlaceMethod(table, m))
<1> DEFINE new == PlaceMethod(table, m)
<1>1. Len(table) \in Nat /\ DOMAIN table = 1..Len(table)
  BY LenProperties
<1>2. CASE \E i \in DOMAIN table : table[i].name = m.name
  <2> DEFINE I == {i \in 1..Len(table) : table[i].name = m.name}
             p == Min(I)
  <2>1. I \in SUBSET Nat /\ I # {}
    BY <1>1, <1>2
  <2>2. p \in I
    <3> HIDE DEF I
    <3> QED
      BY <2>1, MinOfNaturals
  <2>3. new = [i \in DOMAIN table |-> IF i = p THEN m ELSE table[i]]
    BY <1>2, <2>1 DEF PlaceMethod, SelectInSeq
  <2>4. p \in 1..Len(table) /\ table[p].name = m.name
    BY <2>2
  <2> HIDE DEF p
  <2>5. \A i \in 1..Len(table) : table[i] \in M
    BY ElementOfSeq
  <2>6. new \in [1..Len(table) -> M]
    BY <1>1, <2>3, <2>5
  <2>7. new \in Seq(M) /\ Len(new) = Len(table)
    BY <1>1, <2>6, IsASeq, LenProperties
  <2>8. \A i \in 1..Len(table) : new[i] = IF i = p THEN m ELSE table[i]
    BY <1>1, <2>3
  <2> HIDE DEF new
  <2>9. \A i \in 1..Len(table) : new[i].name = table[i].name
    BY <2>4, <2>8
  <2>10. DistinctNames(new)
    BY <2>7, <2>9 DEF DistinctNames
  <2>11. new[p] = m
    BY <2>4, <2>8
  <2>12. \A i \in 1..Len(table) : table[i].name # m.name => new[i] = table[i]
    BY <2>4, <2>8
  <2>13. MethodPlaced(table, m, new)
    BY <1>1, <2>4, <2>7, <2>9, <2>10, <2>11, <2>12 DEF MethodPlaced
  <2> QED
    BY <2>7, <2>13 DEF new
<1>3. CASE ~\E i \in DOMAIN table : table[i].name = m.name
  <2>1. new = Append(table, m)
    BY <1>3 DEF PlaceMethod
  <2>2. /\ Append(table, m) \in Seq(M) /\ Len(Append(table, m)) = Len(table) + 1
        /\ \A i \in 1..Len(table) : Append(table, m)[i] = table[i]
        /\ Append(table, m)[Len(table) + 1] = m
    BY AppendProperties
  <2> HIDE DEF new
  <2>3. /\ new \in Seq(M) /\ Len(new) = Len(table) + 1
        /\ \A i \in 1..Len(table) : new[i] = table[i]
        /\ new[Len(table) + 1] = m
    BY <2>1, <2>2
  <2>4. \A i \in 1..Len(table) : table[i].name # m.name
    BY <1>1, <1>3
  <2>5. DistinctNames(new)
    <3> SUFFICES ASSUME NEW i \in 1..Len(new), NEW j \in 1..Len(new), new[i].name = new[j].name
                 PROVE  i = j
      BY DEF DistinctNames
    <3>1. \A x \in 1..Len(new) : x \in 1..Len(table) \/ x = Len(table) + 1
      BY <1>1, <2>3
    <3>2. CASE i \in 1..Len(table) /\ j \in 1..Len(table)
      BY <2>3, <3>2 DEF DistinctNames
    <3>3. CASE ~(i \in 1..Len(table) /\ j \in 1..Len(table))
      BY <2>3, <2>4, <3>1, <3>3
    <3> QED
      BY <3>2, <3>3
  <2>6. 1..Len(table) \subseteq 1..Len(new) /\ Len(table) + 1 \in 1..Len(new)
    BY <1>1, <2>3
  <2>7. MethodPlaced(table, m, new)
    BY <1>1, <2>3, <2>5, <2>6 DEF MethodPlaced
  <2> QED
    BY <2>3, <2>7 DEF new
<1> QED
  BY <1>2, <1>3

\* The tables whose names are distinct.
Tables(M) == {table \in Seq(M) : DistinctNames(table)}

\* What the first k methods of own leave of table in new.
OwnPlaced(table, own, k, new) ==
  /\ Len(table) <= Len(new)
  /\ \A i \in 1..Len(table) :
       /\ new[i].name = table[i].name
       /\ (\A j \in 1..k : own[j].name # table[i].name) => new[i] = table[i]
  /\ \A j \in 1..k : \E i \in 1..Len(new) : new[i] = own[j]

LEMMA PlaceMethodsFolds ==
  ASSUME NEW M, NEW table \in Tables(M), NEW own \in Seq(M)
  PROVE  \E f : /\ f[0] = table
                /\ \A k \in 1..Len(own) : f[k] = PlaceMethod(f[k - 1], own[k])
                /\ f[Len(own)] = PlaceMethods(table, own)
<1> DEFINE n == Len(own)
           step == [k \in 1..n |-> [v \in Tables(M) |-> PlaceMethod(v, own[k])]]
<1>1. n \in Nat /\ DOMAIN own = 1..n /\ \A k \in 1..n : own[k] \in M
  BY LenProperties, ElementOfSeq
<1>2. step \in [1..n -> [Tables(M) -> Tables(M)]]
  <2> SUFFICES ASSUME NEW k \in 1..n, NEW v \in Tables(M)
               PROVE  PlaceMethod(v, own[k]) \in Tables(M)
    OBVIOUS
  <2>1. v \in Seq(M) /\ DistinctNames(v) /\ own[k] \in M
    BY <1>1 DEF Tables
  <2>2. PlaceMethod(v, own[k]) \in Seq(M) /\ MethodPlaced(v, own[k], PlaceMethod(v, own[k]))
    BY <2>1, PlaceMethodPlaces
  <2> QED
    BY <2>2 DEF Tables, MethodPlaced
<1> HIDE DEF n
<1>3. ASSUME NEW k \in 1..n, NEW v \in Tables(M)
      PROVE  step[k][v] = PlaceMethod(v, own[k])
  OBVIOUS
<1> HIDE DEF step
<1>4. PICK g : g \in [SUBSET (1..n) -> Tables(M)] /\ Folds(g, n, table, step)
  BY <1>1, <1>2, FoldExists
<1> DEFINE Unfolds(h) == h = [s \in SUBSET (1..n) |->
                                IF s = {} THEN table ELSE PlaceMethod(h[s \ {Max(s)}], own[Max(s)])]
<1>5. Unfolds(g)
  <2>1. ASSUME NEW s \in SUBSET (1..n), s # {}
        PROVE  step[Max(s)][g[s \ {Max(s)}]] = PlaceMethod(g[s \ {Max(s)}], own[Max(s)])
    <3>1. Max(s) \in 1..n /\ g[s \ {Max(s)}] \in Tables(M)
      BY <1>1, <1>4, <2>1, MaxOfBounded
    <3> QED
      BY <1>3, <3>1
  <2> QED
    BY <1>4, <2>1 DEF Folds
<1>6. PICK h : Unfolds(h) /\ PlaceMethods(table, own) = h[1..n]
  BY <1>1, <1>5 DEF PlaceMethods, FoldLeft, MapThenFoldSet
<1> DEFINE f == [k \in 0..n |-> h[1..k]]
<1>7. \A s \in SUBSET (1..n) :
        h[s] = IF s = {} THEN table ELSE PlaceMethod(h[s \ {Max(s)}], own[Max(s)])
  BY <1>6
<1> HIDE DEF Unfolds
<1>8. f[0] = table
  <2>1. 1..0 = {} /\ {} \in SUBSET (1..n) /\ 0 \in 0..n
    BY <1>1
  <2> QED
    BY <1>7, <2>1
<1>9. ASSUME NEW k \in 1..n
      PROVE  f[k] = PlaceMethod(f[k - 1], own[k])
  <2>1. k \in 0..n /\ k - 1 \in 0..n
    BY <1>1
  <2>2. f[k] = h[1..k] /\ f[k - 1] = h[1..(k - 1)]
    BY <2>1
  <2> HIDE DEF f
  <2>3. /\ 1..k \in SUBSET (1..n) /\ 1..k # {}
        /\ Max(1..k) = k /\ (1..k) \ {k} = 1..(k - 1)
    BY <1>1, FirstIndices
  <2> QED
    BY <1>7, <2>2, <2>3
<1>10. f[n] = PlaceMethods(table, own)
  BY <1>1, <1>6
<1> HIDE DEF f
<1> QED
  BY <1>8, <1>9, <1>10 DEF n

LEMMA MethodsPlaced ==
  ASSUME NEW M, NEW table \in Tables(M), NEW own \in Seq(M), DistinctNames(own)
  PROVE  /\ PlaceMethods(table, own) \in Tables(M)
         /\ OwnPlaced(table, own, Len(own), PlaceMethods(table, own))
<1>1. PICK f : /\ f[0] = table
               /\ \A k \in 1..Len(own) : f[k] = PlaceMethod(f[k - 1], own[k])
               /\ f[Len(own)] = PlaceMethods(table, own)
  BY PlaceMethodsFolds
<1>2. Len(own) \in Nat /\ \A k \in 1..Len(own) : own[k] \in M
  BY LenProperties, ElementOfSeq
<1>3. table \in Seq(M) /\ DistinctNames(table) /\ Len(table) \in Nat
  BY LenProperties DEF Tables
<1> DEFINE Good(k) == f[k] \in Tables(M) /\ OwnPlaced(table, own, k, f[k])
           Bad == {k \in 0..Len(own) : ~Good(k)}
<1>4. Good(0)
  BY <1>1, <1>3 DEF OwnPlaced
<1>5. ASSUME NEW k \in 1..Len(own), Good(k - 1)
      PROVE  Good(k)
  <2> DEFINE old == f[k - 1]
             new == f[k]
             m == own[k]
  <2>1. old \in Seq(M) /\ DistinctNames(old) /\ Len(old) \in Nat /\ m \in M
    BY <1>2, <1>5, LenProperties DEF Tables
  <2>2. OwnPlaced(table, own, k - 1, old)
    BY <1>5
  <2>3. new = PlaceMethod(old, m)
    BY <1>1
  <2> HIDE DEF old, new, m
  <2>4. new \in Seq(M) /\ MethodPlaced(old, m, new)
    BY <2>1, <2>3, PlaceMethodPlaces
  <2>5. Len(new) \in Nat /\ DistinctNames(new)
    BY <2>4, LenProperties DEF MethodPlaced
  <2>6. Len(table) <= Len(old) /\ Len(old) <= Len(new)
    BY <2>2, <2>4 DEF OwnPlaced, MethodPlaced
  <2>7. ASSUME NEW i \in 1..Len(table)
        PROVE  /\ new[i].name = table[i].name
               /\ (\A j \in 1..k : own[j].name # table[i].name) => new[i] = table[i]
    <3>1. i \in 1..Len(old)
      BY <1>3, <2>1, <2>6
    <3>2. old[i].name = table[i].name /\ new[i].name = old[i].name
      BY <2>2, <2>4, <3>1 DEF OwnPlaced, MethodPlaced
    <3>3. ASSUME \A j \in 1..k : own[j].name # table[i].name
          PROVE  new[i] = table[i]
      <4>1. k \in 1..k /\ 1..(k - 1) \subseteq 1..k
        BY <1>2
      <4>2. old[i] = table[i]
        BY <2>2, <3>3, <4>1 DEF OwnPlaced
      <4>3. old[i].name # m.name
        BY <3>2, <3>3, <4>1 DEF m
      <4> QED
        BY <2>4, <3>1, <4>2, <4>3 DEF MethodPlaced
    <3> QED
      BY <3>2, <3>3
  <2>8. ASSUME NEW j \in 1..k
        PROVE  \E i \in 1..Len(new) : new[i] = own[j]
    <3>1. CASE j = k
      BY <2>4, <3>1 DEF MethodPlaced, m
    <3>2. CASE j # k
      <4>1. j \in 1..(k - 1) /\ j \in 1..Len(own)
        BY <1>2, <3>2
      <4>2. PICK i \in 1..Len(old) : old[i] = own[j]
        BY <2>2, <4>1 DEF OwnPlaced
      <4>3. own[j].name # m.name
        BY <3>2, <4>1 DEF DistinctNames, m
      <4>4. new[i] = old[i] /\ i \in 1..Len(new)
        BY <2>1, <2>4, <2>5, <2>6, <4>2, <4>3 DEF MethodPlaced
      <4> QED
        BY <4>2, <4>4
    <3> QED
      BY <3>1, <3>2
  <2>9. Len(table) <= Len(new)
    BY <1>3, <2>1, <2>5, <2>6
  <2>10. OwnPlaced(table, own, k, new)
    BY <2>7, <2>8, <2>9 DEF OwnPlaced
  <2> QED
    BY <2>4, <2>5, <2>10 DEF new, Tables
<1> HIDE DEF Good
<1>6. Bad = {}
  <2> SUFFICES ASSUME Bad # {}
               PROVE  FALSE
    OBVIOUS
  <2>1. Bad \in SUBSET Nat
    BY <1>2
  <2>2. PICK k \in Bad : \A x \in Bad : k <= x
    <3> HIDE DEF Bad
    <3> QED
      BY <2>1, LeastExists
  <2>3. k \in 1..Len(own) /\ k - 1 \in 0..Len(own) /\ ~(k <= k - 1)
    BY <1>2, <1>4, <2>2
  <2>4. Good(k - 1)
    BY <2>2, <2>3
  <2> QED
    BY <1>5, <2>2, <2>3, <2>4
<1>7. Good(Len(own))
  BY <1>2, <1>6
<1> QED
  BY <1>1, <1>7 DEF Good

\* No class declares two methods of one name.
Unambiguous(decls) == \A t \in Types : IsInjective(decls[t])

\* Method objects, for methods named in N.
MethodObjects(N) == [name : N, owner : Types, pos : Nat]

LEMMA OwnMethodsTable ==
  ASSUME NEW super, NEW N, NEW decls, Layout(N, super, decls), Unambiguous(decls),
         NEW t \in Types
  PROVE  /\ OwnMethods(decls, t) \in Tables(MethodObjects(N))
         /\ Len(OwnMethods(decls, t)) = Len(decls[t])
         /\ Len(decls[t]) \in Nat
         /\ \A k \in 1..Len(decls[t]) :
              OwnMethods(decls, t)[k] = [name |-> decls[t][k], owner |-> t, pos |-> k]
<1> DEFINE own == OwnMethods(decls, t)
           n == Len(decls[t])
<1>1. decls[t] \in Seq(N)
  BY DEF Layout
<1>2. n \in Nat /\ DOMAIN decls[t] = 1..n /\ \A k \in 1..n : decls[t][k] \in N
  BY <1>1, LenProperties, ElementOfSeq
<1>3. own = [k \in 1..n |-> [name |-> decls[t][k], owner |-> t, pos |-> k]]
  BY DEF OwnMethods
<1> HIDE DEF own, n
<1>4. own \in [1..n -> MethodObjects(N)]
  BY <1>2, <1>3 DEF MethodObjects
<1>5. own \in Seq(MethodObjects(N)) /\ Len(own) = n
  BY <1>2, <1>4, IsASeq, LenProperties
<1>6. \A k \in 1..n : own[k].name = decls[t][k]
  BY <1>3
<1>7. \A i, j \in 1..n : decls[t][i] = decls[t][j] => i = j
  BY <1>2 DEF Unambiguous, IsInjective
<1>8. DistinctNames(own)
  BY <1>5, <1>6, <1>7 DEF DistinctNames
<1> QED
  BY <1>2, <1>3, <1>5, <1>8 DEF own, n, Tables

LEMMA GetMethodFound ==
  ASSUME NEW super, NEW N, NEW decls, Layout(N, super, decls), Unambiguous(decls),
         NEW t \in Types, NEW m, HasMethod(decls, t, m)
  PROVE  \E k \in 1..Len(decls[t]) :
           /\ GetMethod(decls, t, m) = OwnMethods(decls, t)[k]
           /\ OwnMethods(decls, t)[k].name = m
<1> DEFINE k == FirstIndex(decls[t], m)
<1>1. decls[t] \in Seq(N) /\ m \in ToSet(decls[t])
  BY DEF Layout, HasMethod
<1>2. k \in 0..Len(decls[t]) /\ k > 0 /\ decls[t][k] = m
  BY <1>1, FirstIndexFound
<1>3. GetMethod(decls, t, m) = OwnMethods(decls, t)[k]
  BY DEF GetMethod, SelectInSeq, FirstIndex
<1> HIDE DEF k
<1>4. Len(decls[t]) \in Nat /\ k \in 1..Len(decls[t])
  BY <1>1, <1>2, LenProperties
<1>5. OwnMethods(decls, t)[k] = [name |-> decls[t][k], owner |-> t, pos |-> k]
  BY <1>4, OwnMethodsTable
<1> QED
  BY <1>2, <1>3, <1>4, <1>5

LEMMA VtableRecursion ==
  ASSUME NEW super, NEW N, NEW decls, Layout(N, super, decls), Unambiguous(decls)
  PROVE  \A t \in Types :
           GetMethods(super, decls)[t] =
             IF super[t] = NoType THEN OwnMethods(decls, t)
             ELSE PlaceMethods(GetMethods(super, decls)[super[t]], OwnMethods(decls, t))
<1> DEFINE V == Tables(MethodObjects(N))
           own(t) == OwnMethods(decls, t)
           base == [t \in Types |-> own(t)]
           step == [t \in Types |-> [v \in V |-> PlaceMethods(v, own(t))]]
<1>1. \A t \in Types : own(t) \in V
  BY OwnMethodsTable
<1>2. ASSUME NEW t \in Types, NEW v \in V
      PROVE  PlaceMethods(v, own(t)) \in V
  <2>1. own(t) \in Seq(MethodObjects(N)) /\ DistinctNames(own(t))
    BY <1>1 DEF Tables
  <2> QED
    BY <2>1, MethodsPlaced
<1> HIDE DEF V, own
<1>3. base \in [Types -> V] /\ step \in [Types -> [V -> V]]
  BY <1>1, <1>2
<1>4. super \in [Types -> Types \cup {NoType}] /\ Founded(Types, super)
  BY DEF Layout, NoCycle, Founded
<1>5. \A t \in Types, v \in V : step[t][v] = PlaceMethods(v, own(t))
  OBVIOUS
<1>6. \A t \in Types : base[t] = own(t)
  OBVIOUS
<1> HIDE DEF base, step
<1>7. PICK f : Solves(Types, f, super, NoType, V, base, step)
  <2>1. Recursion(Types, NoType, super, V, base, step)
    BY <1>3, <1>4, NoTypeIsNoType DEF Recursion
  <2> QED
    BY <2>1, ChainRecursion
<1>8. ASSUME NEW t \in Types
      PROVE  f[t] = IF super[t] = NoType THEN own(t) ELSE PlaceMethods(f[super[t]], own(t))
  <2>1. CASE super[t] = NoType
    BY <1>6, <1>7, <2>1 DEF Solves
  <2>2. CASE super[t] # NoType
    <3>1. f[super[t]] \in V
      BY <1>7, <2>2 DEF Solves
    <3> QED
      BY <1>5, <1>7, <2>2, <3>1 DEF Solves
  <2> QED
    BY <2>1, <2>2
<1>9. f = [t \in Types |->
             IF super[t] = NoType THEN own(t) ELSE PlaceMethods(f[super[t]], own(t))]
  BY <1>7, <1>8 DEF Solves
<1> DEFINE vt == GetMethods(super, decls)
<1>10. vt = [t \in Types |->
               IF super[t] = NoType THEN own(t) ELSE PlaceMethods(vt[super[t]], own(t))]
  BY <1>9 DEF GetMethods, own
<1> HIDE DEF vt
<1>11. \A t \in Types :
         vt[t] = IF super[t] = NoType THEN own(t) ELSE PlaceMethods(vt[super[t]], own(t))
  BY <1>10
<1> QED
  BY <1>11 DEF vt, own

LEMMA VtableIsTable ==
  ASSUME NEW super, NEW N, NEW decls, Layout(N, super, decls), Unambiguous(decls),
         NEW s \in Types
  PROVE  GetMethods(super, decls)[s] \in Tables(MethodObjects(N))
<1> DEFINE V == Tables(MethodObjects(N))
           vt == GetMethods(super, decls)
           own(t) == OwnMethods(decls, t)
           Bad == {t \in Types : vt[t] \notin V}
<1>1. \A t \in Types : own(t) \in V
  BY OwnMethodsTable
<1>2. ASSUME NEW t \in Types, NEW v \in V
      PROVE  PlaceMethods(v, own(t)) \in V
  <2>1. own(t) \in Seq(MethodObjects(N)) /\ DistinctNames(own(t))
    BY <1>1 DEF Tables
  <2> QED
    BY <2>1, MethodsPlaced
<1>3. \A t \in Types :
        vt[t] = IF super[t] = NoType THEN own(t) ELSE PlaceMethods(vt[super[t]], own(t))
  BY VtableRecursion
<1>4. super \in [Types -> Types \cup {NoType}] /\ NoCycle(super)
  BY DEF Layout
<1> HIDE DEF V, own, vt
<1>5. Bad = {}
  <2> SUFFICES ASSUME Bad # {}
               PROVE  FALSE
    OBVIOUS
  <2>1. PICK t \in Bad : super[t] \notin Bad
    BY <1>4 DEF NoCycle
  <2>2. CASE super[t] = NoType
    BY <1>1, <1>3, <2>1, <2>2
  <2>3. CASE super[t] # NoType
    BY <1>2, <1>3, <1>4, <2>1, <2>3
  <2> QED
    BY <2>2, <2>3
<1> QED
  BY <1>5 DEF V, vt

LEMMA NearestRecursion ==
  ASSUME NEW super, NEW N, NEW decls, Layout(N, super, decls), NEW t \in Types, NEW m
  PROVE  NearestMethod(super, decls, t, m) =
           IF HasMethod(decls, t, m) \/ super[t] = NoType THEN GetMethod(decls, t, m)
           ELSE NearestMethod(super, decls, super[t], m)
<1> DEFINE has(u) == HasMethod(decls, u, m)
           get(u) == GetMethod(decls, u, m)
           V == {get(u) : u \in Types}
           base == [u \in Types |-> get(u)]
           step == [u \in Types |-> [v \in V |-> IF has(u) THEN get(u) ELSE v]]
<1>1. \A u \in Types : get(u) \in V
  OBVIOUS
<1> HIDE DEF V, get, has
<1>2. base \in [Types -> V] /\ step \in [Types -> [V -> V]]
  BY <1>1
<1>3. super \in [Types -> Types \cup {NoType}] /\ Founded(Types, super)
  BY DEF Layout, NoCycle, Founded
<1>4. \A u \in Types : base[u] = get(u) /\ \A v \in V : step[u][v] = IF has(u) THEN get(u) ELSE v
  OBVIOUS
<1> HIDE DEF base, step
<1>5. PICK f : Solves(Types, f, super, NoType, V, base, step)
  <2>1. Recursion(Types, NoType, super, V, base, step)
    BY <1>2, <1>3, NoTypeIsNoType DEF Recursion
  <2> QED
    BY <2>1, ChainRecursion
<1>6. ASSUME NEW u \in Types
      PROVE  f[u] = IF has(u) \/ super[u] = NoType THEN get(u) ELSE f[super[u]]
  <2>1. CASE super[u] = NoType
    BY <1>4, <1>5, <2>1 DEF Solves
  <2>2. CASE super[u] # NoType
    <3>1. f[super[u]] \in V
      BY <1>5, <2>2 DEF Solves
    <3> QED
      BY <1>4, <1>5, <2>2, <3>1 DEF Solves
  <2> QED
    BY <2>1, <2>2
<1>7. f = [u \in Types |-> IF has(u) \/ super[u] = NoType THEN get(u) ELSE f[super[u]]]
  BY <1>5, <1>6 DEF Solves
<1>8. super[t] \in Types \cup {NoType}
  BY <1>3
<1> QED
  BY <1>7, <1>8 DEF NearestMethod, has, get

\* What a subclass's table keeps of the table it extends.
LEMMA TableExtended ==
  ASSUME NEW super, NEW N, NEW decls, Layout(N, super, decls), Unambiguous(decls),
         NEW t \in Types, super[t] # NoType,
         NEW i \in 1..Len(GetMethods(super, decls)[super[t]]), NEW m,
         GetMethods(super, decls)[super[t]][i].name = m
  PROVE  /\ i \in 1..Len(GetMethods(super, decls)[t])
         /\ GetMethods(super, decls)[t][i].name = m
         /\ GetMethods(super, decls)[t][i] =
              IF HasMethod(decls, t, m) THEN GetMethod(decls, t, m)
              ELSE GetMethods(super, decls)[super[t]][i]
<1> DEFINE M == MethodObjects(N)
           old == GetMethods(super, decls)[super[t]]
           new == GetMethods(super, decls)[t]
           own == OwnMethods(decls, t)
<1>1. super[t] \in Types
  BY DEF Layout
<1>2. old \in Tables(M) /\ new \in Tables(M) /\ own \in Tables(M)
  BY <1>1, VtableIsTable, OwnMethodsTable
<1>3. new = PlaceMethods(old, own)
  BY VtableRecursion
<1>4. /\ Len(own) = Len(decls[t]) /\ Len(decls[t]) \in Nat
      /\ \A k \in 1..Len(decls[t]) : own[k].name = decls[t][k]
  <2>1. /\ Len(own) = Len(decls[t]) /\ Len(decls[t]) \in Nat
        /\ \A k \in 1..Len(decls[t]) :
             own[k] = [name |-> decls[t][k], owner |-> t, pos |-> k]
    BY OwnMethodsTable
  <2> HIDE DEF own
  <2>2. ASSUME NEW k \in 1..Len(decls[t])
        PROVE  own[k].name = decls[t][k]
    <3>1. own[k] = [name |-> decls[t][k], owner |-> t, pos |-> k]
      BY <2>1
    <3> QED
      BY <3>1
  <2> QED
    BY <2>1, <2>2
<1>5. DOMAIN decls[t] = 1..Len(decls[t])
  BY LenProperties DEF Layout
<1>6. HasMethod(decls, t, m) =>
        \E k \in 1..Len(own) : GetMethod(decls, t, m) = own[k] /\ own[k].name = m
  BY <1>4, GetMethodFound
<1>7. (\A k \in 1..Len(own) : own[k].name # m) \/ HasMethod(decls, t, m)
  BY <1>4, <1>5 DEF HasMethod, ToSet
<1> HIDE DEF old, new, own
<1>8. /\ old \in Seq(M) /\ new \in Seq(M) /\ own \in Seq(M)
      /\ DistinctNames(old) /\ DistinctNames(new) /\ DistinctNames(own)
  BY <1>2 DEF Tables
<1>9. OwnPlaced(old, own, Len(own), new)
  BY <1>2, <1>3, <1>8, MethodsPlaced
<1>10. Len(old) \in Nat /\ Len(new) \in Nat
  BY <1>8, LenProperties
<1>11. i \in 1..Len(old) /\ old[i].name = m
  BY DEF old
<1>12. i \in 1..Len(new) /\ new[i].name = m
  BY <1>9, <1>10, <1>11 DEF OwnPlaced
<1>13. CASE HasMethod(decls, t, m)
  <2>1. PICK k \in 1..Len(own) : GetMethod(decls, t, m) = own[k] /\ own[k].name = m
    BY <1>6, <1>13
  <2>2. PICK j \in 1..Len(new) : new[j] = own[k]
    BY <1>9 DEF OwnPlaced
  <2>3. i = j
    BY <1>8, <1>12, <2>1, <2>2 DEF DistinctNames
  <2> QED
    BY <1>12, <1>13, <2>1, <2>2, <2>3 DEF new
<1>14. CASE ~HasMethod(decls, t, m)
  <2>1. new[i] = old[i]
    BY <1>7, <1>9, <1>11, <1>14 DEF OwnPlaced
  <2> QED
    BY <1>12, <1>14, <2>1 DEF new, old
<1> QED
  BY <1>13, <1>14

\* The slot of an own method holds the method itself.
LEMMA OwnMethodSlot ==
  ASSUME NEW super, NEW N, NEW decls, Layout(N, super, decls), Unambiguous(decls),
         NEW t \in Types, NEW m, HasMethod(decls, t, m)
  PROVE  /\ MethodIdx(super, decls, t, m) + 1 \in 1..Len(GetMethods(super, decls)[t])
         /\ MethodIdx(super, decls, t, m) \in Int
         /\ GetMethods(super, decls)[t][MethodIdx(super, decls, t, m) + 1] =
              GetMethod(decls, t, m)
         /\ GetMethod(decls, t, m).name = m
<1> DEFINE M == MethodObjects(N)
           vt == GetMethods(super, decls)[t]
           own == OwnMethods(decls, t)
           p == FirstIndex(vt, GetMethod(decls, t, m))
<1>1. vt \in Tables(M) /\ own \in Tables(M)
  BY VtableIsTable, OwnMethodsTable
<1>2. PICK k \in 1..Len(own) : GetMethod(decls, t, m) = own[k] /\ own[k].name = m
  BY OwnMethodsTable, GetMethodFound
<1>3. MethodIdx(super, decls, t, m) = p - 1
  BY DEF MethodIdx, SelectInSeq, FirstIndex
<1>4. vt = IF super[t] = NoType THEN own
           ELSE PlaceMethods(GetMethods(super, decls)[super[t]], own)
  BY VtableRecursion
<1>5. super[t] # NoType =>
        super[t] \in Types /\ GetMethods(super, decls)[super[t]] \in Tables(M)
  <2>1. super[t] # NoType => super[t] \in Types
    BY DEF Layout
  <2> QED
    BY <2>1, VtableIsTable
<1> HIDE DEF vt, own
<1>6. vt \in Seq(M) /\ own \in Seq(M) /\ DistinctNames(own)
  BY <1>1 DEF Tables
<1>7. \E j \in 1..Len(vt) : vt[j] = own[k]
  <2>1. CASE super[t] = NoType
    BY <1>4, <2>1
  <2>2. CASE super[t] # NoType
    <3> DEFINE old == GetMethods(super, decls)[super[t]]
    <3> HIDE DEF old
    <3>1. OwnPlaced(old, own, Len(own), vt)
      BY <1>4, <1>5, <1>6, <2>2, MethodsPlaced DEF old
    <3> QED
      BY <3>1 DEF OwnPlaced
  <2> QED
    BY <2>1, <2>2
<1>8. GetMethod(decls, t, m) \in ToSet(vt)
  BY <1>2, <1>6, <1>7, SeqHas
<1>9. p \in 0..Len(vt) /\ p > 0 /\ vt[p] = GetMethod(decls, t, m)
  BY <1>6, <1>8, FirstIndexFound
<1> HIDE DEF p
<1>10. Len(vt) \in Nat
  BY <1>6, LenProperties
<1>11. p - 1 + 1 = p /\ p - 1 \in Int
  BY <1>9, <1>10
<1> QED
  BY <1>2, <1>3, <1>9, <1>10, <1>11 DEF vt

(* A call that is compiled for class c and sent to an object of any subclass s
   finds, at the slot of c's method in the table of s, the method that s itself
   means by the name: its own, or the nearest one it inherits. *)
THEOREM DispatchInherited ==
  ASSUME NEW super, NEW N, NEW decls, Layout(N, super, decls), Unambiguous(decls),
         NEW s \in Types, NEW c \in Types, SubclassOf(super, s, c),
         NEW m, HasMethod(decls, c, m)
  PROVE  /\ MethodIdx(super, decls, c, m) \in 0..Len(GetMethods(super, decls)[s]) - 1
         /\ GetMethods(super, decls)[s][MethodIdx(super, decls, c, m) + 1] =
              NearestMethod(super, decls, s, m)
<1> DEFINE vt == GetMethods(super, decls)
           i == MethodIdx(super, decls, c, m) + 1
           near(u) == NearestMethod(super, decls, u, m)
           Good(u) == SubclassOf(super, u, c) =>
                        i \in 1..Len(vt[u]) /\ vt[u][i].name = m /\ vt[u][i] = near(u)
           Bad == {u \in Types : ~Good(u)}
<1>0. super \in [Types -> Types \cup {NoType}] /\ NoCycle(super)
  BY DEF Layout
<1>1. Good(c)
  <2>1. near(c) = GetMethod(decls, c, m)
    BY NearestRecursion
  <2> QED
    BY <2>1, OwnMethodSlot
<1> HIDE DEF i
<1>2. ASSUME NEW u \in Types, u # c, SubclassOf(super, u, c), Good(super[u])
      PROVE  Good(u)
  <2>1. super[u] # NoType /\ super[u] \in Types /\ SubclassOf(super, super[u], c)
    BY <1>0, <1>2, SubclassStep
  <2>2. /\ i \in 1..Len(vt[super[u]]) /\ vt[super[u]][i].name = m
        /\ vt[super[u]][i] = near(super[u])
    BY <1>2, <2>1
  <2>3. /\ i \in 1..Len(vt[u]) /\ vt[u][i].name = m
        /\ vt[u][i] = IF HasMethod(decls, u, m) THEN GetMethod(decls, u, m)
                      ELSE vt[super[u]][i]
    BY <2>1, <2>2, TableExtended
  <2>4. near(u) = IF HasMethod(decls, u, m) THEN GetMethod(decls, u, m) ELSE near(super[u])
    BY <2>1, NearestRecursion
  <2> HIDE DEF vt, near
  <2> QED
    BY <2>2, <2>3, <2>4
<1>3. Bad = {}
  <2> SUFFICES ASSUME Bad # {}
               PROVE  FALSE
    OBVIOUS
  <2>1. PICK u \in Bad : super[u] \notin Bad
    BY <1>0 DEF NoCycle
  <2>2. u \in Types /\ u # c /\ SubclassOf(super, u, c)
    BY <1>1, <2>1
  <2>3. super[u] \in Types
    BY <1>0, <2>2, SubclassStep
  <2> HIDE DEF Good
  <2> QED
    BY <1>2, <2>1, <2>2, <2>3
<1>4. i \in 1..Len(vt[s]) /\ vt[s][i] = near(s)
  BY <1>3
<1>5. MethodIdx(super, decls, c, m) \in Int /\ Len(vt[s]) \in Nat
  <2>1. vt[s] \in Seq(MethodObjects(N))
    BY VtableIsTable DEF Tables
  <2>2. Len(vt[s]) \in Nat
    BY <2>1, LenProperties
  <2> QED
    BY <2>2, OwnMethodSlot
<1> HIDE DEF vt, near
<1>6. MethodIdx(super, decls, c, m) \in 0..Len(vt[s]) - 1
  BY <1>4, <1>5 DEF i
<1> QED
  BY <1>4, <1>6 DEF i, vt, near

-----------------------------------------------------------------------------
(* The state machine. *)

LEMMA FrontAndLast ==
  ASSUME NEW S, NEW q \in Seq(S), q # <<>>
  PROVE  Front(q) \in Seq(S) /\ Last(q) \in S
<1>1. Len(q) \in Nat /\ Len(q) > 0
  BY EmptySeq, LenProperties
<1>2. SubSeq(q, 1, Len(q) - 1) \in Seq(S)
  BY <1>1, SubSeqProperties
<1>3. q[Len(q)] \in S
  BY <1>1, ElementOfSeq
<1> QED
  BY <1>2, <1>3 DEF Front, Last

LEMMA FieldListsAreSequences ==
  ASSUME NEW fs \in FieldLists
  PROVE  fs \in Seq(FieldNames)
<1>1. PICK k \in 0..MaxFields : fs \in [1..k -> FieldNames]
  BY DEF FieldLists, BoundedSeq, SeqOf
<1> QED
  BY <1>1, IsASeq

(* Visiting a class statement keeps the counters and the type table typed. *)
LEMMA VisitKeepsType ==
  ASSUME TypeOK, NEW c \in Classes, VisitClass(c)
  PROVE  /\ visited' \in SUBSET Classes /\ visits' \in Nat
         /\ typetab' \in SUBSET Types
         /\ Prims \cup declared \subseteq typetab'
  BY TypesAssumption DEF TypeOK, VisitClass

(* The superclass clause keeps the supertype map well typed. *)
LEMMA LinkKeepsType ==
  ASSUME TypeOK, NEW c \in Classes, NEW s \in Types \cup {NoType},
         LinkSuperclass(c, s), typetab' = typetab \cup {c}
  PROVE  supertype' \in [Types -> typetab' \cup {NoType}]
  BY TypesAssumption DEF TypeOK, LinkSuperclass, UnknownSuper

(* Every reachable state of the hoister is well typed: TypeOK is inductive. *)
THEOREM TypeCorrect == Spec => []TypeOK
<1>1. Init => TypeOK
  <2> SUFFICES ASSUME Init
               PROVE  TypeOK
    OBVIOUS
  <2>1. visits \in Nat /\ visited \in SUBSET Classes /\ declared \in SUBSET Classes
    BY DEF Init
  <2>2. typetab \in SUBSET Types /\ Prims \cup declared \subseteq typetab
    BY TypesAssumption DEF Init
  <2>3. /\ supertype \in [Types -> typetab \cup {NoType}]
        /\ fields \in [Types -> Seq(FieldNames)]
        /\ methods \in [Types -> Seq(MethodNames)]
    BY EmptySeq DEF Init
  <2>4. functions \in Seq(MethodNames) /\ frames \in Seq(Frames)
    BY EmptySeq DEF Init
  <2> QED
    BY <2>1, <2>2, <2>3, <2>4 DEF Init, TypeOK
<1>2. ASSUME TypeOK, [Next]_vars
      PROVE  TypeOK'
  <2> USE TypesAssumption DEF TypeOK, hierarchy
  <2>1. ASSUME NEW c \in Classes, DeclareClass(c)
        PROVE  TypeOK'
    BY <1>2, <2>1 DEF DeclareClass
  <2>2. CASE StartHoisting
    BY <1>2, <2>2 DEF StartHoisting
  <2>3. ASSUME NEW c \in Classes, NEW s \in Types \cup {NoType}, RejectSuperclass(c, s)
        PROVE  TypeOK'
    BY <1>2, <2>3 DEF RejectSuperclass, VisitClass
  <2>4. ASSUME NEW c \in Classes, NEW s \in Types \cup {NoType}, NEW fs \in FieldLists,
               RejectField(c, s, fs)
        PROVE  TypeOK'
    <3>1. supertype' \in [Types -> typetab' \cup {NoType}]
      BY <1>2, <2>4, LinkKeepsType DEF RejectField, VisitClass
    <3>2. fields' \in [Types -> Seq(FieldNames)]
      BY <1>2, <2>4, FieldListsAreSequences, ConcatProperties DEF RejectField
    <3> QED
      BY <1>2, <2>4, <3>1, <3>2, VisitKeepsType DEF RejectField
  <2>5. ASSUME NEW c \in Classes, NEW s \in Types \cup {NoType}, NEW fs \in FieldLists,
               EnterClass(c, s, fs)
        PROVE  TypeOK'
    <3>1. supertype' \in [Types -> typetab' \cup {NoType}]
      BY <1>2, <2>5, LinkKeepsType DEF EnterClass, VisitClass
    <3>2. fields' \in [Types -> Seq(FieldNames)]
      BY <1>2, <2>5, FieldListsAreSequences, ConcatProperties DEF EnterClass
    <3>3. frames' \in Seq(Frames)
      BY <1>2, <2>5, AppendProperties DEF EnterClass, Frames
    <3> QED
      BY <1>2, <2>5, <3>1, <3>2, <3>3, VisitKeepsType DEF EnterClass
  <2>6. CASE LeaveClass
    <3>1. Front(frames) \in Seq(Frames) /\ Last(frames) \in Frames
      BY <1>2, <2>6, FrontAndLast DEF LeaveClass
    <3> QED
      BY <1>2, <2>6, <3>1 DEF LeaveClass, Frames
  <2>7. ASSUME NEW m \in MethodNames, HoistMethod(m)
        PROVE  TypeOK'
    <3>1. frames' \in Seq(Frames)
      BY <1>2, <2>7, AppendProperties DEF HoistMethod, EnterFunction, Frames
    <3>2. methods' \in [Types -> Seq(MethodNames)]
      BY <1>2, <2>7, AppendProperties DEF HoistMethod
    <3> QED
      BY <1>2, <2>7, <3>1, <3>2 DEF HoistMethod
  <2>8. ASSUME NEW m \in MethodNames, HoistFunction(m)
        PROVE  TypeOK'
    <3>1. frames' \in Seq(Frames)
      BY <1>2, <2>8, AppendProperties DEF HoistFunction, EnterFunction, Frames
    <3>2. functions' \in Seq(MethodNames)
      BY <1>2, <2>8, AppendProperties DEF HoistFunction
    <3> QED
      BY <1>2, <2>8, <3>1, <3>2 DEF HoistFunction
  <2>9. CASE RejectType
    BY <1>2, <2>9 DEF RejectType
  <2>10. CASE LeaveFunction
    BY <1>2, <2>10, FrontAndLast DEF LeaveFunction
  <2>11. CASE Finish
    BY <1>2, <2>11 DEF Finish
  <2>12. CASE UNCHANGED vars
    BY <1>2, <2>12 DEF vars
  <2> QED
    BY <1>2, <2>1, <2>2, <2>3, <2>4, <2>5, <2>6, <2>7, <2>8, <2>9, <2>10, <2>11, <2>12
       DEF Next
<1> QED
  BY <1>1, <1>2, PTL DEF Spec

(* The superclass clause of any class statement keeps the chains finite. *)
LEMMA ClauseKeepsAcyclic ==
  ASSUME TypeOK, Acyclic, NEW c \in Classes, NEW s \in Types \cup {NoType},
         LinkSuperclass(c, s)
  PROVE  Acyclic'
<1>1. CASE s = NoType
  BY <1>1 DEF LinkSuperclass, Acyclic
<1>2. CASE s # NoType
  <2>1. supertype \in [Types -> Types \cup {NoType}]
    BY DEF TypeOK
  <2>2. ~SubclassOf(supertype, s, c)
    BY <1>2 DEF LinkSuperclass, ClosesCycle
  <2> QED
    BY <1>2, <2>1, <2>2, TypesAssumption, LinkKeepsAcyclic DEF LinkSuperclass, Acyclic
<1> QED
  BY <1>1, <1>2

(* For every program, however its class statements refer to each other, the
   supertype relation the GlobalHoister leaves behind has no cycle, errors
   reported or not: later walks of a supertype chain terminate. *)
THEOREM AcyclicHierarchy == Spec => []Acyclic
<1>1. Init => Acyclic
  <2> SUFFICES ASSUME Init, NEW S \in SUBSET Types, S # {}
               PROVE  \E t \in S : supertype[t] \notin S
    BY DEF Acyclic, NoCycle
  <2> QED
    BY NoTypeIsNoType DEF Init
<1>2. TypeOK /\ Acyclic /\ [Next]_vars => Acyclic'
  <2> SUFFICES ASSUME TypeOK, Acyclic, [Next]_vars
               PROVE  Acyclic'
    OBVIOUS
  <2>1. CASE UNCHANGED supertype
    BY <2>1 DEF Acyclic
  <2>2. ASSUME NEW c \in Classes, NEW s \in Types \cup {NoType}, LinkSuperclass(c, s)
        PROVE  Acyclic'
    BY <2>2, ClauseKeepsAcyclic
  <2>3. ASSUME NEW c \in Classes, NEW s \in Types \cup {NoType}, NEW fs \in FieldLists,
               RejectField(c, s, fs) \/ EnterClass(c, s, fs)
        PROVE  Acyclic'
    BY <2>2, <2>3 DEF RejectField, EnterClass
  <2> QED
    BY <2>1, <2>3 DEF Next, vars, hierarchy, DeclareClass, StartHoisting,
       RejectSuperclass, LeaveClass, HoistMethod, HoistFunction, RejectType,
       LeaveFunction, Finish
<1> QED
  BY <1>1, <1>2, TypeCorrect, PTL DEF Spec

-----------------------------------------------------------------------------
(* The innermost class. *)

\* The class of the last class statement among the first k frames.
InnermostOf(fr, k) ==
  LET I == {i \in 1..k : fr[i].kind = "class"}
  IN  IF I = {} THEN NoType ELSE fr[Max(I)].class

\* It depends on those frames only.
LEMMA InnermostLocal ==
  ASSUME NEW fr, NEW fr2, NEW k \in Nat, \A i \in 1..k : fr2[i] = fr[i]
  PROVE  InnermostOf(fr2, k) = InnermostOf(fr, k)
<1> DEFINE I == {i \in 1..k : fr[i].kind = "class"}
           I2 == {i \in 1..k : fr2[i].kind = "class"}
<1>1. I2 = I
  OBVIOUS
<1>2. I # {} => Max(I) \in 1..k
  <2>1. I \in SUBSET (1..k)
    OBVIOUS
  <2> HIDE DEF I
  <2> QED
    BY <2>1, MaxOfBounded
<1>3. /\ InnermostOf(fr, k) = IF I = {} THEN NoType ELSE fr[Max(I)].class
      /\ InnermostOf(fr2, k) = IF I2 = {} THEN NoType ELSE fr2[Max(I2)].class
  BY DEF InnermostOf
<1> HIDE DEF I, I2
<1> QED
  BY <1>1, <1>2, <1>3

\* One more frame.
LEMMA InnermostNext ==
  ASSUME NEW fr, NEW k \in Nat
  PROVE  InnermostOf(fr, k + 1) =
           IF fr[k + 1].kind = "class" THEN fr[k + 1].class ELSE InnermostOf(fr, k)
<1> DEFINE I == {i \in 1..k : fr[i].kind = "class"}
           J == {i \in 1..(k + 1) : fr[i].kind = "class"}
<1>1. CASE fr[k + 1].kind = "class"
  <2>1. J \in SUBSET (1..(k + 1)) /\ k + 1 \in J
    BY <1>1
  <2> HIDE DEF J
  <2> DEFINE n == k + 1
  <2>2. n \in Nat /\ J \in SUBSET (1..n) /\ J # {}
    BY <2>1
  <2> HIDE DEF n
  <2>3. Max(J) \in 1..n /\ \A x \in J : x <= Max(J)
    BY <2>2, MaxOfBounded
  <2>4. Max(J) = k + 1
    BY <2>1, <2>3 DEF n
  <2> QED
    BY <1>1, <2>1, <2>4 DEF InnermostOf, J
<1>2. CASE fr[k + 1].kind # "class"
  <2>1. I = J
    BY <1>2
  <2> QED
    BY <1>2, <2>1 DEF InnermostOf
<1> QED
  BY <1>1, <1>2

\* Every class statement the walk is inside of has saved what it interrupted.
EnclInv ==
  /\ encl_class = InnermostOf(frames, Len(frames))
  /\ \A i \in 1..Len(frames) :
       frames[i].kind = "class" => frames[i].saved = InnermostOf(frames, i - 1)

LEMMA FramePushed ==
  ASSUME TypeOK, EnclInv, NEW fr \in Frames, frames' = Append(frames, fr),
         fr.kind = "class" => fr.saved = encl_class,
         encl_class' = IF fr.kind = "class" THEN fr.class ELSE encl_class
  PROVE  EnclInv'
<1> DEFINE n == Len(frames)
<1>1. n \in Nat /\ frames \in Seq(Frames)
  BY LenProperties DEF TypeOK
<1>2. /\ Len(frames') = n + 1 /\ frames'[n + 1] = fr
      /\ \A i \in 1..n : frames'[i] = frames[i]
  BY <1>1, AppendProperties
<1>3. \A k \in 0..n : InnermostOf(frames', k) = InnermostOf(frames, k)
  <2> SUFFICES ASSUME NEW k \in 0..n
               PROVE  InnermostOf(frames', k) = InnermostOf(frames, k)
    OBVIOUS
  <2>1. k \in Nat /\ \A i \in 1..k : frames'[i] = frames[i]
    BY <1>1, <1>2
  <2> QED
    BY <2>1, InnermostLocal
<1>4. encl_class = InnermostOf(frames, n)
  BY DEF EnclInv
<1>5. encl_class' = InnermostOf(frames', n + 1)
  <2>1. InnermostOf(frames', n + 1) =
          IF frames'[n + 1].kind = "class" THEN frames'[n + 1].class
          ELSE InnermostOf(frames', n)
    BY <1>1, InnermostNext
  <2>2. InnermostOf(frames', n) = encl_class
    BY <1>1, <1>3, <1>4
  <2> QED
    BY <1>2, <2>1, <2>2
<1>6. ASSUME NEW i \in 1..(n + 1), frames'[i].kind = "class"
      PROVE  frames'[i].saved = InnermostOf(frames', i - 1)
  <2>1. CASE i = n + 1
    <3>1. i - 1 = n /\ n \in 0..n
      BY <1>1, <2>1
    <3> QED
      BY <1>2, <1>3, <1>4, <1>6, <2>1, <3>1
  <2>2. CASE i # n + 1
    <3>1. i \in 1..n /\ i - 1 \in 0..n
      BY <1>1, <2>2
    <3> QED
      BY <1>2, <1>3, <1>6, <3>1 DEF EnclInv
  <2> QED
    BY <2>1, <2>2
<1> QED
  BY <1>2, <1>5, <1>6 DEF EnclInv

LEMMA FramePopped ==
  ASSUME TypeOK, EnclInv, frames # <<>>, frames' = Front(frames),
         encl_class' = IF Last(frames).kind = "class" THEN Last(frames).saved ELSE encl_class
  PROVE  EnclInv'
<1> DEFINE n == Len(frames)
<1>1. frames \in Seq(Frames) /\ n \in Nat \ {0}
  BY LenProperties, EmptySeq DEF TypeOK
<1>2. n - 1 \in Nat /\ n \in 1..n /\ n - 1 + 1 = n /\ Last(frames) = frames[n]
  BY <1>1 DEF Last
<1>3. Len(frames') = n - 1 /\ \A i \in 1..(n - 1) : frames'[i] = frames[i]
  <2>1. frames' = SubSeq(frames, 1, n - 1)
    BY DEF Front
  <2>2. \A i \in 1..(n - 1) : i \in 1..n
    BY <1>1
  <2> QED
    BY <1>1, <1>2, <2>1, <2>2, SubSeqProperties
<1>4. \A k \in 0..(n - 1) : InnermostOf(frames', k) = InnermostOf(frames, k)
  <2> SUFFICES ASSUME NEW k \in 0..(n - 1)
               PROVE  InnermostOf(frames', k) = InnermostOf(frames, k)
    OBVIOUS
  <2>1. k \in Nat /\ \A i \in 1..k : frames'[i] = frames[i]
    BY <1>1, <1>3
  <2> QED
    BY <2>1, InnermostLocal
<1>5. encl_class = IF frames[n].kind = "class" THEN frames[n].class
                   ELSE InnermostOf(frames, n - 1)
  BY <1>2, InnermostNext DEF EnclInv
<1>6. encl_class' = InnermostOf(frames', n - 1)
  <2>1. n - 1 \in 0..(n - 1)
    BY <1>2
  <2>2. frames[n].kind = "class" => frames[n].saved = InnermostOf(frames, n - 1)
    BY <1>2 DEF EnclInv
  <2> QED
    BY <1>2, <1>4, <1>5, <2>1, <2>2
<1>7. ASSUME NEW i \in 1..(n - 1), frames'[i].kind = "class"
      PROVE  frames'[i].saved = InnermostOf(frames', i - 1)
  <2>1. i \in 1..n /\ i - 1 \in 0..(n - 1)
    BY <1>1
  <2> QED
    BY <1>3, <1>4, <1>7, <2>1 DEF EnclInv
<1> QED
  BY <1>3, <1>6, <1>7 DEF EnclInv

(* However class and function statements are nested, the class a method is
   hoisted into is the one of the innermost class statement around it, and
   leaving that statement restores the outer class. *)
THEOREM EnclosingClass == Spec => []EnclosingClassIsInnermost
<1>1. Init => EnclInv
  <2> SUFFICES ASSUME Init
               PROVE  EnclInv
    OBVIOUS
  <2>1. frames = <<>> /\ encl_class = NoType
    BY DEF Init
  <2>2. Len(<<>>) = 0
    BY EmptySeq
  <2>3. InnermostOf(<<>>, 0) = NoType
    <3>1. {i \in 1..0 : <<>>[i].kind = "class"} = {}
      OBVIOUS
    <3> QED
      BY <3>1 DEF InnermostOf
  <2> QED
    BY <2>1, <2>2, <2>3 DEF EnclInv
<1>2. TypeOK /\ EnclInv /\ [Next]_vars => EnclInv'
  <2> SUFFICES ASSUME TypeOK, EnclInv, [Next]_vars
               PROVE  EnclInv'
    OBVIOUS
  <2>1. CASE UNCHANGED <<frames, encl_class>>
    BY <2>1 DEF EnclInv
  <2>2. ASSUME NEW c \in Classes, NEW s \in Types \cup {NoType}, NEW fs \in FieldLists,
               EnterClass(c, s, fs)
        PROVE  EnclInv'
    <3> DEFINE fr == [kind |-> "class", class |-> c, saved |-> encl_class]
    <3>1. fr \in Frames /\ fr.kind = "class" /\ fr.saved = encl_class /\ fr.class = c
      BY DEF Frames, TypeOK
    <3>2. frames' = Append(frames, fr) /\ encl_class' = c
      BY <2>2 DEF EnterClass
    <3> HIDE DEF fr
    <3> QED
      BY <3>1, <3>2, FramePushed
  <2>3. CASE EnterFunction /\ UNCHANGED encl_class
    <3> DEFINE fr == [kind |-> "func", class |-> NoType, saved |-> NoType]
    <3>1. fr \in Frames /\ fr.kind # "class"
      BY DEF Frames
    <3>2. frames' = Append(frames, fr) /\ encl_class' = encl_class
      BY <2>3 DEF EnterFunction
    <3> HIDE DEF fr
    <3> QED
      BY <3>1, <3>2, FramePushed
  <2>4. CASE LeaveClass
    BY <2>4, FramePopped DEF LeaveClass
  <2>5. CASE LeaveFunction
    BY <2>5, FramePopped DEF LeaveFunction
  <2> QED
    BY <2>1, <2>2, <2>3, <2>4, <2>5 DEF Next, vars, hierarchy, DeclareClass, StartHoisting,
       RejectSuperclass, RejectField, HoistMethod, HoistFunction, RejectType, Finish
<1>3. TypeOK /\ EnclInv => EnclosingClassIsInnermost
  <2> SUFFICES ASSUME TypeOK, EnclInv
               PROVE  encl_class = InnermostClass
    BY DEF EnclosingClassIsInnermost
  <2> DEFINE I == {i \in 1..Len(frames) : frames[i].kind = "class"}
  <2>1. encl_class = IF I = {} THEN NoType ELSE frames[Max(I)].class
    BY DEF EnclInv, InnermostOf
  <2>2. InnermostClass = LET i == IF I # {} THEN Max(I) ELSE 0
                         IN  IF i = 0 THEN NoType ELSE frames[i].class
    BY DEF InnermostClass, SelectLastInSeq
  <2>3. I # {} => Max(I) # 0
    <3>1. Len(frames) \in Nat
      BY LenProperties DEF TypeOK
    <3>2. I \in SUBSET (1..Len(frames))
      OBVIOUS
    <3> HIDE DEF I
    <3>3. I # {} => Max(I) \in 1..Len(frames)
      BY <3>1, <3>2, MaxOfBounded
    <3> QED
      BY <3>1, <3>3
  <2> HIDE DEF I
  <2> QED
    BY <2>1, <2>2, <2>3
<1> QED
  BY <1>1, <1>2, <1>3, TypeCorrect, PTL DEF Spec

-----------------------------------------------------------------------------
(* Field slots and virtual tables of the hierarchy the hoister leaves. *)

(* Whatever program was hoisted, errors reported or not, a field has the same
   slot in every class below the one that declares it: what codegen reads
   through a static type is there in any object (type.cc:41-57). *)
THEOREM FieldSlotsOfSubclasses == Spec => []FieldSlotsAgree
<1>1. TypeOK /\ Acyclic => FieldSlotsAgree
  <2> SUFFICES ASSUME TypeOK, Acyclic,
                      NEW s \in Types, NEW c \in Types, SubclassOf(supertype, s, c),
                      NEW f \in FieldNames, HasField(supertype, fields, c, f)
               PROVE  LET i == FieldIdx(supertype, fields, c, f)
                      IN  /\ FieldIdx(supertype, fields, s, f) = i
                          /\ i \in 0..NumFields(supertype, fields, s) - 1
                          /\ FieldSlots(supertype, fields)[s][i + 1] = f
    BY DEF FieldSlotsAgree
  <2>1. Layout(FieldNames, supertype, fields)
    BY DEF TypeOK, Acyclic, Layout
  <2> QED
    BY <2>1, FieldSlotsInherited
<1> QED
  BY <1>1, TypeCorrect, AcyclicHierarchy, PTL

(* In a program without errors in which no class has two methods of one name, a
   call finds the nearest override in the table of whatever subclass the receiver
   has (type.h:44-54, type.cc:76-102). *)
THEOREM DispatchThroughTables == Spec => []DispatchReachesOverride
<1>1. TypeOK /\ Acyclic => DispatchReachesOverride
  <2> SUFFICES ASSUME TypeOK, Acyclic, \A t \in Types : IsInjective(methods[t]),
                      NEW s \in Types, NEW c \in Types, SubclassOf(supertype, s, c),
                      NEW m \in ToSet(methods[c])
               PROVE  LET i == MethodIdx(supertype, methods, c, m)
                      IN  /\ i \in 0..Len(GetMethods(supertype, methods)[s]) - 1
                          /\ GetMethods(supertype, methods)[s][i + 1] =
                               NearestMethod(supertype, methods, s, m)
    BY DEF DispatchReachesOverride
  <2>1. Layout(MethodNames, supertype, methods) /\ Unambiguous(methods)
    BY DEF TypeOK, Acyclic, Layout, Unambiguous
  <2>2. HasMethod(methods, c, m)
    BY DEF HasMethod
  <2> QED
    BY <2>1, <2>2, DispatchInherited
<1> QED
  BY <1>1, TypeCorrect, AcyclicHierarchy, PTL

-----------------------------------------------------------------------------
(* TypeBuilder: the calls in progress. *)

BuiltFields == Types \X Nat \X FieldTypes
SlotNames == BuiltFields \cup {<<"gc">>, <<"vtable">>, <<"size">>, <<"elements">>}
Calls == [type : FieldTypes, elements : Seq(SlotNames), inherited : BOOLEAN]
Structs == [state : {"none", "opaque", "body"}, elements : Seq(SlotNames)]

BuiltProgram ==
  /\ supertypes \in [Types -> ClassTypes \cup {NoType}] /\ NoCycle(supertypes)
  /\ own_fields \in [Types -> Seq(BuiltFields)]
  /\ \A t \in Types : \A i \in 1..Len(own_fields[t]) :
       own_fields[t][i][1] = t /\ own_fields[t][i][2] = i

\* Who calls for what, and which struct types are opaque meanwhile.
Chained ==
  /\ \A i \in 1..Len(stack) : stack[i].type \in ClassTypes \cup Arrays
  /\ \A i \in 1..Len(stack) - 1 : stack[i + 1].type \in Mentions(stack[i].type)

Opaques ==
  /\ \A p \in Builtins : ll_types[p].state = "body"
  /\ \A t \in ClassTypes :
       ll_types[t].state = "opaque" <=> \E i \in 1..Len(stack) : stack[i].type = t
  /\ \A i, j \in 1..Len(stack) :
       stack[i].type = stack[j].type /\ stack[i].type \in ClassTypes => i = j

BInv ==
  /\ BuiltProgram
  /\ stack \in Seq(Calls) /\ ll_types \in [FieldTypes -> Structs]
  /\ Chained /\ Opaques

LEMMA MentionsTypes ==
  ASSUME BuiltProgram, NEW t \in FieldTypes
  PROVE  Mentions(t) \subseteq FieldTypes
<1>1. CASE t \in Arrays
  BY <1>1, DimensionsEnd DEF Mentions
<1>2. CASE t \notin Arrays
  <2>1. t \in Types /\ own_fields[t] \in Seq(BuiltFields)
    BY <1>2 DEF FieldTypes, BuiltProgram
  <2>2. ASSUME NEW f \in Range(own_fields[t])
        PROVE  f[3] \in FieldTypes
    <3>1. PICK i \in DOMAIN own_fields[t] : f = own_fields[t][i]
      BY DEF Range
    <3>2. f \in BuiltFields
      BY <2>1, <3>1, LenProperties, ElementOfSeq
    <3> QED
      BY <3>2 DEF BuiltFields
  <2>3. supertypes[t] \in FieldTypes \cup {NoType}
    BY <2>1 DEF BuiltProgram, ClassTypes, FieldTypes
  <2> QED
    BY <1>2, <2>2, <2>3 DEF Mentions
<1> QED
  BY <1>1, <1>2

LEMMA Called ==
  ASSUME BInv, NEW t \in FieldTypes, Call(t), stack # <<>> => t \in Mentions(Top.type)
  PROVE  BInv'
<1>1. /\ stack \in Seq(Calls) /\ ll_types \in [FieldTypes -> Structs]
      /\ ll_types[t].state = "none" /\ t \in ClassTypes \cup Arrays
      /\ UNCHANGED <<supertypes, own_fields>>
  BY DEF BInv, Call, Opaques, ClassTypes, FieldTypes, program
<1>2. PICK e : /\ e = [type |-> t, elements |-> Header, inherited |-> FALSE]
               /\ stack' = Append(stack, e)
  BY DEF Call
<1>3. e \in Calls /\ e.type = t
  <2>1. <<"gc">> \in SlotNames /\ <<"vtable">> \in SlotNames
    BY DEF SlotNames
  <2> QED
    BY <1>2, <2>1 DEF Calls, Header
<1>4. PICK n : n = Len(stack)
  OBVIOUS
<1>5. /\ n \in Nat /\ stack' \in Seq(Calls) /\ Len(stack') = n + 1 /\ stack'[n + 1] = e
      /\ \A i \in 1..n : stack'[i] = stack[i]
  <2>1. PICK r : r = stack' /\ r = Append(stack, e)
    BY <1>2
  <2> QED
    BY <1>1, <1>3, <1>4, <2>1, PushedAs
<1>6. ll_types' \in [FieldTypes -> Structs]
  BY <1>1 DEF Call, Structs
<1>7. Chained'
  <2>1. \A i \in 1..n + 1 : stack'[i].type \in ClassTypes \cup Arrays
    <3> SUFFICES ASSUME NEW i \in 1..n + 1
                 PROVE  stack'[i].type \in ClassTypes \cup Arrays
      OBVIOUS
    <3>1. i = n + 1 \/ i \in 1..n
      BY <1>5
    <3> QED
      BY <1>1, <1>3, <1>4, <1>5, <3>1 DEF BInv, Chained
  <2>2. ASSUME NEW i \in 1..n
        PROVE  stack'[i + 1].type \in Mentions(stack'[i].type)
    <3>1. CASE i = n
      <4>1. stack # <<>> /\ Top = stack[n]
        BY <1>1, <1>4, <1>5, <3>1, EmptySeq DEF Top, Last
      <4> QED
        BY <1>3, <1>5, <3>1, <4>1
    <3>2. CASE i # n
      <4>1. i \in 1..n - 1 /\ i + 1 \in 1..n
        BY <1>5, <3>2
      <4> QED
        BY <1>4, <1>5, <4>1 DEF BInv, Chained
    <3> QED
      BY <3>1, <3>2
  <2>3. \A u : Mentions(u)' = Mentions(u)
    BY <1>1 DEF Mentions
  <2>4. Len(stack') - 1 = n
    BY <1>5
  <2> QED
    BY <1>5, <2>1, <2>2, <2>3, <2>4 DEF Chained
<1>8. \A u \in FieldTypes : u # t => ll_types'[u].state = ll_types[u].state
  BY <1>1 DEF Call
<1>9. t \in ClassTypes => ll_types'[t].state = "opaque"
  <2>1. t \in ClassTypes => t \notin Arrays
    BY TypesAreApart DEF ClassTypes
  <2> QED
    BY <1>1, <2>1 DEF Call, Structs
<1>10. t \in ClassTypes => \A i \in 1..n : stack[i].type # t
  BY <1>1, <1>4 DEF BInv, Opaques
<1>11. Opaques'
  <2>1. \A p \in Builtins : ll_types'[p].state = "body"
    <3> SUFFICES ASSUME NEW p \in Builtins
                 PROVE  ll_types'[p].state = "body"
      OBVIOUS
    <3>1. p \in FieldTypes /\ p # t
      BY <1>1, TypesAreApart DEF FieldTypes, ClassTypes
    <3> QED
      BY <1>8, <3>1 DEF BInv, Opaques
  <2>2. ASSUME NEW u \in ClassTypes
        PROVE  ll_types'[u].state = "opaque" <=> \E i \in 1..n + 1 : stack'[i].type = u
    <3>1. CASE u = t
      BY <1>3, <1>5, <1>9, <3>1
    <3>2. CASE u # t
      <4>1. u \in FieldTypes
        BY DEF ClassTypes, FieldTypes
      <4>2. ll_types'[u].state = "opaque" <=> \E i \in 1..n : stack[i].type = u
        BY <1>4, <1>8, <3>2, <4>1 DEF BInv, Opaques
      <4>3. \A i \in 1..n + 1 : i \in 1..n \/ i = n + 1
        BY <1>5
      <4> QED
        BY <1>3, <1>5, <3>2, <4>2, <4>3
    <3> QED
      BY <3>1, <3>2
  <2>3. ASSUME NEW i \in 1..n + 1, NEW j \in 1..n + 1,
               stack'[i].type = stack'[j].type, stack'[i].type \in ClassTypes
        PROVE  i = j
    <3>1. (i = n + 1 \/ i \in 1..n) /\ (j = n + 1 \/ j \in 1..n)
      BY <1>5
    <3>2. CASE i \in 1..n /\ j \in 1..n
      BY <1>4, <1>5, <2>3, <3>2 DEF BInv, Opaques
    <3>3. CASE i = n + 1 \/ j = n + 1
      BY <1>3, <1>5, <1>10, <2>3, <3>1, <3>3
    <3> QED
      BY <3>1, <3>2, <3>3
  <2> QED
    BY <1>5, <2>1, <2>2, <2>3 DEF Opaques
<1>12. BuiltProgram'
  BY <1>1 DEF BInv, BuiltProgram
<1> QED
  BY <1>5, <1>6, <1>7, <1>11, <1>12 DEF BInv

LEMMA ExtendedAs ==
  ASSUME BInv, stack # <<>>, NEW es \in Seq(SlotNames), NEW b \in BOOLEAN, Extend(es, b)
  PROVE  \E n \in Nat \ {0} :
           /\ n = Len(stack) /\ DOMAIN stack = 1..n /\ DOMAIN stack' = 1..n
           /\ stack[n] \in Calls /\ Top = stack[n]
           /\ stack'[n] = [stack[n] EXCEPT !.elements = es, !.inherited = b]
           /\ \A i \in 1..n : i # n => stack'[i] = stack[i]
<1>1. /\ stack \in Seq(Calls) /\ UNCHANGED <<supertypes, own_fields, ll_types>>
      /\ stack' = [stack EXCEPT ![Len(stack)].elements = es, ![Len(stack)].inherited = b]
  BY DEF BInv, Extend, program
<1>2. PICK n \in Nat \ {0} : n = Len(stack) /\ DOMAIN stack = 1..n
  BY <1>1, LenProperties, EmptySeq
<1>3. /\ DOMAIN stack' = 1..n /\ stack[n] \in Calls
      /\ stack'[n] = [stack[n] EXCEPT !.elements = es, !.inherited = b]
      /\ \A i \in 1..n : i # n => stack'[i] = stack[i]
  <2>1. stack \in [1..n -> Calls]
    BY <1>1, <1>2, LenProperties
  <2>2. stack' = [stack EXCEPT ![n].elements = es, ![n].inherited = b]
    BY <1>1, <1>2
  <2>3. DOMAIN stack' = 1..n
    BY <2>1, <2>2
  <2>4. stack'[n] = [stack[n] EXCEPT !.elements = es, !.inherited = b]
    <3>1. PICK m : m = [stack EXCEPT ![n].elements = es]
      OBVIOUS
    <3>2. PICK c : c = [stack[n] EXCEPT !.elements = es]
      OBVIOUS
    <3>c. c \in Calls
      BY <2>1, <3>2 DEF Calls
    <3>m. m = [stack EXCEPT ![n] = c]
      BY <2>1, <3>1, <3>2
    <3>3. m \in [1..n -> Calls] /\ m[n] = c
      BY <2>1, <3>c, <3>m
    <3>4. stack' = [m EXCEPT ![n].inherited = b]
      BY <2>1, <2>2, <3>1
    <3>5. stack'[n] = [c EXCEPT !.inherited = b]
      BY <3>3, <3>4
    <3> QED
      BY <3>2, <3>5
  <2>5. \A i \in 1..n : i # n => stack'[i] = stack[i]
    BY <2>1, <2>2
  <2> QED
    BY <2>1, <2>3, <2>4, <2>5
<1>4. Top = stack[n]
  BY <1>2 DEF Top, Last
<1> QED
  BY <1>2, <1>3, <1>4

LEMMA CallExtended ==
  ASSUME BInv, stack # <<>>, NEW es \in Seq(SlotNames), NEW b \in BOOLEAN, Extend(es, b)
  PROVE  BInv'
<1>1. /\ stack \in Seq(Calls) /\ UNCHANGED <<supertypes, own_fields, ll_types>>
      /\ stack' = [stack EXCEPT ![Len(stack)].elements = es, ![Len(stack)].inherited = b]
  BY DEF BInv, Extend, program
<1>2. PICK n \in Nat \ {0} : n = Len(stack) /\ DOMAIN stack = 1..n
  BY ExtendedAs
<1>3. /\ DOMAIN stack' = 1..n /\ stack[n] \in Calls
      /\ stack'[n] = [stack[n] EXCEPT !.elements = es, !.inherited = b]
      /\ \A i \in 1..n : i # n => stack'[i] = stack[i]
  BY <1>2, ExtendedAs
<1>4. stack'[n] \in Calls /\ \A i \in 1..n : stack'[i].type = stack[i].type
  BY <1>3 DEF Calls
<1>5. stack' \in Seq(Calls) /\ Len(stack') = n
  <2>1. \A i \in 1..n : stack'[i] \in Calls
    BY <1>1, <1>2, <1>3, <1>4, ElementOfSeq
  <2>2. stack' = [i \in 1..n |-> stack'[i]]
    BY <1>1, <1>2
  <2>3. stack' \in [1..n -> Calls]
    BY <2>1, <2>2
  <2> QED
    BY <2>3, SeqDef, LenProperties
<1>6. Chained'
  <2>1. \A u : Mentions(u)' = Mentions(u)
    BY <1>1 DEF Mentions
  <2>2. \A i \in 1..n - 1 : i \in 1..n /\ i + 1 \in 1..n
    BY <1>2
  <2> QED
    BY <1>2, <1>4, <1>5, <2>1, <2>2 DEF BInv, Chained
<1>7. Opaques'
  BY <1>1, <1>2, <1>4, <1>5 DEF BInv, Opaques
<1>8. BuiltProgram'
  BY <1>1 DEF BInv, BuiltProgram
<1> QED
  BY <1>1, <1>5, <1>6, <1>7, <1>8 DEF BInv

LEMMA CallEnded ==
  ASSUME BInv, stack # <<>>, NEW s \in Structs, s.state = "body",
         ll_types' = [ll_types EXCEPT ![Top.type] = s],
         stack' = Front(stack), UNCHANGED program
  PROVE  BInv'
<1>1. /\ stack \in Seq(Calls) /\ ll_types \in [FieldTypes -> Structs]
      /\ UNCHANGED <<supertypes, own_fields>>
  BY DEF BInv, program
<1>2. PICK n : /\ n \in Nat /\ Len(stack) = n + 1 /\ stack' \in Seq(Calls) /\ Len(stack') = n
               /\ stack[n + 1] \in Calls /\ Top = stack[n + 1]
               /\ \A i \in 1..n : stack'[i] = stack[i]
  <2>1. PICK n, r : n = Len(stack) - 1 /\ r = stack' /\ r = Front(stack)
    OBVIOUS
  <2>2. /\ n \in Nat /\ Len(stack) = n + 1 /\ r \in Seq(Calls) /\ Len(r) = n
        /\ stack[n + 1] \in Calls /\ Last(stack) = stack[n + 1]
    BY <1>1, <2>1, PoppedAs
  <2>3. \A i \in 1..n : r[i] = stack[i]
    BY <1>1, <2>1, PoppedOff
  <2> QED
    BY <2>1, <2>2, <2>3 DEF Top
<1>3. PICK t : t = Top.type /\ t \in FieldTypes /\ t \in ClassTypes \cup Arrays
  <2>1. n + 1 \in 1..Len(stack)
    BY <1>2
  <2> QED
    BY <1>2, <2>1 DEF BInv, Chained, Calls
<1>4. /\ ll_types' \in [FieldTypes -> Structs] /\ ll_types'[t] = s
      /\ \A u \in FieldTypes : u # t => ll_types'[u] = ll_types[u]
  BY <1>1, <1>3
<1>5. Chained'
  <2>1. \A u : Mentions(u)' = Mentions(u)
    BY <1>1 DEF Mentions
  <2>2. /\ \A i \in 1..n : i \in 1..Len(stack)
        /\ \A i \in 1..n - 1 : i \in 1..Len(stack) - 1 /\ i \in 1..n /\ i + 1 \in 1..n
    BY <1>2
  <2> QED
    BY <1>2, <2>1, <2>2 DEF BInv, Chained
<1>6. Opaques'
  <2>0. \A i \in 1..n : i \in 1..Len(stack) /\ i # n + 1 /\ n + 1 \in 1..Len(stack)
    BY <1>2
  <2>1. ASSUME NEW p \in Builtins
        PROVE  ll_types'[p].state = "body"
    <3>1. p \in FieldTypes
      BY TypesAreApart DEF FieldTypes
    <3> QED
      BY <1>4, <3>1 DEF BInv, Opaques
  <2>2. ASSUME NEW u \in ClassTypes
        PROVE  ll_types'[u].state = "opaque" <=> \E i \in 1..n : stack'[i].type = u
    <3>1. u \in FieldTypes
      BY DEF ClassTypes, FieldTypes
    <3>2. CASE u = t
      <4>1. \A i \in 1..n : stack[i].type # t
        BY <1>2, <1>3, <2>0, <3>2 DEF BInv, Opaques
      <4> QED
        BY <1>2, <1>4, <3>2, <4>1
    <3>3. CASE u # t
      <4>1. ll_types'[u].state = "opaque" <=> \E i \in 1..Len(stack) : stack[i].type = u
        BY <1>4, <3>1, <3>3 DEF BInv, Opaques
      <4>2. \A i \in 1..Len(stack) : stack[i].type = u => i \in 1..n
        <5>1. \A i \in 1..Len(stack) : i = n + 1 \/ i \in 1..n
          BY <1>2
        <5> QED
          BY <1>2, <1>3, <3>3, <5>1
      <4> QED
        BY <1>2, <2>0, <4>1, <4>2
    <3> QED
      BY <3>2, <3>3
  <2>3. \A i, j \in 1..n :
          stack'[i].type = stack'[j].type /\ stack'[i].type \in ClassTypes => i = j
    BY <1>2, <2>0 DEF BInv, Opaques
  <2> QED
    BY <1>2, <2>1, <2>2, <2>3 DEF Opaques
<1>7. BuiltProgram'
  BY <1>1 DEF BInv, BuiltProgram
<1> QED
  BY <1>2, <1>4, <1>5, <1>6, <1>7 DEF BInv

LEMMA TopCall ==
  ASSUME BInv, stack # <<>>
  PROVE  Len(stack) \in Nat \ {0} /\ Top = stack[Len(stack)] /\ Top \in Calls
<1>1. stack \in Seq(Calls) /\ Len(stack) \in Nat \ {0}
  BY EmptySeq DEF BInv
<1>2. Len(stack) \in 1..Len(stack)
  BY <1>1
<1> QED
  BY <1>1, <1>2, ElementOfSeq DEF Top, Last

\* The field that a visit of a class comes to next.
LEMMA NextOwnField ==
  ASSUME BInv, stack # <<>>, Top.type \in ClassTypes,
         NEW own, own = own_fields[Top.type],
         NEW rest, rest = {i \in DOMAIN own : own[i] \notin ToSet(Top.elements)}, rest # {}
  PROVE  /\ Min(rest) \in 1..Len(own) /\ own[Min(rest)] \notin ToSet(Top.elements)
         /\ \A i \in rest : Min(rest) <= i
         /\ own[Min(rest)] \in BuiltFields /\ own[Min(rest)][3] \in FieldTypes
         /\ own[Min(rest)][3] \in Mentions(Top.type)
<1>1. Top.type \in Types /\ Top.type \notin Arrays /\ own \in Seq(BuiltFields)
  BY TypesAreApart DEF ClassTypes, BInv, BuiltProgram
<1>2. DOMAIN own = 1..Len(own) /\ Len(own) \in Nat
  BY <1>1, LenProperties
<1>3. rest \in SUBSET Nat
  BY <1>2
<1>4. Min(rest) \in rest /\ \A i \in rest : Min(rest) <= i
  BY <1>3, MinOfNaturals
<1>5. PICK i \in 1..Len(own) : i = Min(rest) /\ own[i] \notin ToSet(Top.elements)
  BY <1>2, <1>4
<1>6. own[i] \in BuiltFields
  BY <1>1, ElementOfSeq
<1>7. own[i][3] \in FieldTypes
  BY <1>6 DEF BuiltFields
<1>8. own[i][3] \in Mentions(Top.type)
  <2>1. own[i] \in Range(own_fields[Top.type])
    BY <1>2 DEF Range
  <2> QED
    BY <1>1, <2>1 DEF Mentions
<1> QED
  BY <1>4, <1>5, <1>6, <1>7, <1>8

LEMMA BStep == ASSUME BInv, [BuilderNext]_builderVars PROVE BInv'
<1>0. /\ ll_types \in [FieldTypes -> Structs]
      /\ stack # <<>> => /\ Top \in Calls /\ Top.type \in FieldTypes
                          /\ Top.elements \in Seq(SlotNames)
  BY TopCall DEF BInv, Calls
<1>h. Header \in Seq(SlotNames)
  BY DEF Header, SlotNames
<1>1. CASE Request
  BY <1>1, Called DEF Request
<1>2. CASE Inherit
  <2>1. PICK s : s = supertypes[Top.type]
    OBVIOUS
  <2>2. /\ stack # <<>> /\ Top.type \in ClassTypes
        /\ \/ s = NoType /\ Extend(Header, TRUE)
           \/ s # NoType /\ Call(s)
           \/ s # NoType /\ ll_types[s].state # "none" /\ Extend(ll_types[s].elements, TRUE)
    BY <1>2, <2>1 DEF Inherit
  <2>3. s # NoType => s \in FieldTypes /\ s \in Mentions(Top.type)
    <3>1. Top.type \in Types /\ Top.type \notin Arrays
      BY <2>2, TypesAreApart DEF ClassTypes
    <3> QED
      BY <2>1, <3>1 DEF BInv, BuiltProgram, ClassTypes, FieldTypes, Mentions
  <2>4. CASE s = NoType
    BY <1>h, <2>2, <2>4, CallExtended
  <2>5. CASE s # NoType /\ Call(s)
    BY <2>3, <2>5, Called
  <2>6. CASE s # NoType /\ Extend(ll_types[s].elements, TRUE)
    <3>1. ll_types[s].elements \in Seq(SlotNames)
      BY <1>0, <2>3, <2>6 DEF Structs
    <3> QED
      BY <2>2, <2>6, <3>1, CallExtended
  <2> QED
    BY <2>2, <2>4, <2>5, <2>6
<1>3. CASE OwnField
  <2>1. PICK own, rest : /\ own = own_fields[Top.type]
                         /\ rest = {i \in DOMAIN own : own[i] \notin ToSet(Top.elements)}
    OBVIOUS
  <2>2. PICK f : f = own[Min(rest)]
    OBVIOUS
  <2>3. /\ stack # <<>> /\ Top.type \in ClassTypes /\ rest # {}
        /\ Call(f[3]) \/ Extend(Append(Top.elements, f), TRUE)
    BY <1>3, <2>1, <2>2 DEF OwnField
  <2>4. f \in BuiltFields /\ f[3] \in FieldTypes /\ f[3] \in Mentions(Top.type)
    BY <2>1, <2>2, <2>3, NextOwnField
  <2>5. CASE Call(f[3])
    BY <2>4, <2>5, Called
  <2>6. CASE Extend(Append(Top.elements, f), TRUE)
    <3>1. f \in SlotNames
      BY <2>4 DEF SlotNames
    <3>2. Append(Top.elements, f) \in Seq(SlotNames)
      BY <1>0, <2>3, <3>1, AppendProperties
    <3> QED
      BY <2>3, <2>6, <3>2, CallExtended
  <2> QED
    BY <2>3, <2>5, <2>6
<1>4. CASE SetBody
  <2>1. PICK s : s = [state |-> "body", elements |-> Top.elements]
    OBVIOUS
  <2>2. /\ stack # <<>> /\ ll_types' = [ll_types EXCEPT ![Top.type] = s]
        /\ stack' = Front(stack) /\ UNCHANGED program
    BY <1>4, <2>1 DEF SetBody
  <2>3. s \in Structs /\ s.state = "body"
    BY <1>0, <2>1, <2>2 DEF Structs
  <2> QED
    BY <2>2, <2>3, CallEnded
<1>5. CASE ArrayType
  <2>1. PICK s : s = [state |-> "body", elements |-> Header \o << <<"size">>, <<"elements">> >>]
    OBVIOUS
  <2>2. /\ stack # <<>> /\ Top.type \in Arrays
        /\ \/ Call(Elem[Top.type])
           \/ /\ ll_types' = [ll_types EXCEPT ![Top.type] = s]
              /\ stack' = Front(stack) /\ UNCHANGED program
    BY <1>5, <2>1 DEF ArrayType
  <2>3. CASE Call(Elem[Top.type])
    <3>1. Elem[Top.type] \in FieldTypes /\ Elem[Top.type] \in Mentions(Top.type)
      BY <2>2, DimensionsEnd DEF Mentions
    <3> QED
      BY <2>3, <3>1, Called
  <2>4. CASE /\ ll_types' = [ll_types EXCEPT ![Top.type] = s]
             /\ stack' = Front(stack) /\ UNCHANGED program
    <3>1. << <<"size">>, <<"elements">> >> \in Seq(SlotNames)
      BY DEF SlotNames
    <3>2. s.elements \in Seq(SlotNames)
      BY <1>h, <2>1, <3>1, ConcatProperties
    <3>3. s \in Structs /\ s.state = "body"
      BY <2>1, <3>2 DEF Structs
    <3> QED
      BY <2>2, <2>4, <3>3, CallEnded
  <2> QED
    BY <2>2, <2>3, <2>4
<1>6. CASE UNCHANGED builderVars
  <2>1. UNCHANGED <<supertypes, own_fields, ll_types, stack>>
    BY <1>6 DEF builderVars, program
  <2> QED
    BY <2>1 DEF BInv, BuiltProgram, Chained, Opaques, Mentions
<1> QED
  BY <1>1, <1>2, <1>3, <1>4, <1>5, <1>6 DEF BuilderNext, Step

LEMMA BStart == BuilderInit => BInv
<1> SUFFICES ASSUME BuilderInit PROVE BInv
  OBVIOUS
<1>1. BuiltProgram
  <2>1. PICK types \in [ClassTypes -> BoundedSeq(FieldTypes, MaxOwn)] :
          own_fields = [t \in Types |-> IF t \in Builtins THEN <<>>
                                    ELSE [i \in DOMAIN types[t] |-> <<t, i, types[t][i]>>]]
    BY DEF BuilderInit
  <2>2. ASSUME NEW t \in Types
        PROVE  /\ own_fields[t] \in Seq(BuiltFields)
               /\ \A i \in 1..Len(own_fields[t]) :
                    own_fields[t][i][1] = t /\ own_fields[t][i][2] = i
    <3>1. CASE t \in Builtins
      <4>1. own_fields[t] = <<>>
        BY <2>1, <3>1
      <4> QED
        BY <4>1, EmptySeq
    <3>2. CASE t \notin Builtins
      <4>1. PICK q : q = types[t] /\ q \in Seq(FieldTypes)
        <5>1. types[t] \in BoundedSeq(FieldTypes, MaxOwn)
          BY <2>1, <3>2 DEF ClassTypes
        <5>2. PICK m \in 0..MaxOwn : types[t] \in [1..m -> FieldTypes]
          BY <5>1 DEF BoundedSeq, SeqOf
        <5> QED
          BY <5>2, SeqDef
      <4>2. PICK n \in Nat : n = Len(q) /\ DOMAIN q = 1..n
        BY <4>1, LenProperties
      <4>3. own_fields[t] = [i \in 1..n |-> <<t, i, q[i]>>]
        BY <2>1, <3>2, <4>1, <4>2
      <4>4. \A i \in 1..n : q[i] \in FieldTypes
        BY <4>1, <4>2, ElementOfSeq
      <4>5. own_fields[t] \in [1..n -> BuiltFields]
        BY <4>3, <4>4 DEF BuiltFields
      <4>6. own_fields[t] \in Seq(BuiltFields)
        BY <4>5, SeqDef
      <4>7. Len(own_fields[t]) = n
        BY <4>2, <4>5, <4>6, LenProperties
      <4> QED
        BY <4>3, <4>6, <4>7
    <3> QED
      BY <3>1, <3>2
  <2> QED
    BY <2>1, <2>2 DEF BuilderInit, BuiltProgram
<1>2. stack = <<>> /\ ll_types = [t \in FieldTypes |->
         [state |-> IF t \in Builtins THEN "body" ELSE "none", elements |-> <<>>]]
  BY DEF BuilderInit
<1>3. stack \in Seq(Calls) /\ Len(stack) = 0 /\ <<>> \in Seq(SlotNames)
  BY <1>2, EmptySeq
<1>4. ll_types \in [FieldTypes -> Structs]
  BY <1>2, <1>3 DEF Structs
<1>5. Chained
  BY <1>3 DEF Chained
<1>6. Opaques
  <2>1. \A p \in Builtins : p \in FieldTypes
    BY TypesAreApart DEF FieldTypes
  <2>2. \A t \in ClassTypes : t \in FieldTypes /\ t \notin Builtins
    BY DEF ClassTypes, FieldTypes
  <2> QED
    BY <1>2, <1>3, <2>1, <2>2 DEF Opaques
<1> QED
  BY <1>1, <1>3, <1>4, <1>5, <1>6 DEF BInv

-----------------------------------------------------------------------------
(* TypeBuilder: how many calls there are. *)

LEMMA NoMoreThan ==
  ASSUME NEW S, IsFiniteSet(S), NEW m \in Nat, NEW n \in Nat, m <= n, NEW f,
         \A i \in m + 1..n : f[i] \in S,
         \A i, j \in m + 1..n : f[i] = f[j] => i = j
  PROVE  n - m <= Cardinality(S)
<1> DEFINE g == [i \in m + 1..n |-> f[i]]
<1>1. g \in Injection(m + 1..n, S)
  BY DEF Injection, IsInjective
<1>2. IsFiniteSet(m + 1..n) /\ Cardinality(m + 1..n) = n - m
  <2>1. PICK k \in Int : k = m + 1
    OBVIOUS
  <2>2. n \in Int /\ IsFiniteSet(k..n) /\ Cardinality(k..n) = IF k > n THEN 0 ELSE n - k + 1
    BY FS_Interval
  <2> QED
    BY <2>1, <2>2
<1> HIDE DEF g
<1> QED
  BY <1>1, <1>2, FS_Injection

\* The last class that a call has been made for, if there is one, is the m-th.
LastClass(s, m) ==
  /\ m \in 0..Len(s)
  /\ m # 0 => s[m].type \in ClassTypes
  /\ \A i \in m + 1..Len(s) : s[i].type \in Arrays

LEMMA LastClassExists ==
  ASSUME BInv
  PROVE  \E m : LastClass(stack, m)
<1>1. PICK n \in Nat : n = Len(stack)
  BY LenProperties DEF BInv
<1> DEFINE cs == {i \in 1..n : stack[i].type \in ClassTypes}
<1>2. \A i \in 1..n : i \in cs \/ stack[i].type \in Arrays
  BY <1>1 DEF BInv, Chained
<1>3. CASE cs = {}
  BY <1>1, <1>2, <1>3 DEF LastClass
<1>4. CASE cs # {}
  <2>1. Max(cs) \in cs /\ \A i \in cs : i <= Max(cs)
    BY <1>1, <1>4, MaxOfBounded
  <2>2. PICK m \in 1..n : m \in cs /\ \A i \in cs : i <= m
    BY <2>1
  <2>3. \A i \in m + 1..n : i \in 1..n /\ i \notin cs
    BY <2>2
  <2> QED
    BY <1>1, <1>2, <2>2, <2>3 DEF LastClass
<1> QED
  BY <1>3, <1>4

LEMMA ArrayCalls ==
  ASSUME BInv, NEW i \in 1..Len(stack) - 1, stack[i].type \in Arrays
  PROVE  stack[i + 1].type = Elem[stack[i].type]
BY DEF BInv, Chained, Mentions

\* As far as the last class, no type has two calls: arrays of one type would
\* lead to two calls for the class of their elements.
LEMMA HeadDistinct ==
  ASSUME BInv, NEW m, LastClass(stack, m), NEW i \in 1..m, NEW j \in 1..m,
         stack[i].type = stack[j].type
  PROVE  i = j
<1>1. PICK n \in Nat : n = Len(stack) /\ m \in 0..n
  BY LenProperties DEF BInv, LastClass
<1> DEFINE ty(k) == stack[k].type
           Twice(a) == \E k, l \in 1..m : k < l /\ ty(k) = a /\ ty(l) = a
           T == {a \in Arrays : Twice(a)}
<1>2. \A k, l \in 1..m : ty(k) = ty(l) /\ ty(k) \in ClassTypes => k = l
  BY <1>1 DEF BInv, Opaques
<1>3. ASSUME T # {}
      PROVE  FALSE
  <2>1. PICK a \in T : Elem[a] \notin T
    BY <1>3, DimensionsEnd
  <2>2. PICK k \in 1..m, l \in 1..m : k < l /\ ty(k) = a /\ ty(l) = a
    OBVIOUS
  <2>3. l # m
    <3>1. m # 0 /\ ty(m) \in ClassTypes
      BY <1>1, <2>2 DEF LastClass
    <3>2. a \notin ClassTypes
      BY <2>1, TypesAreApart DEF ClassTypes
    <3> QED
      BY <2>2, <3>1, <3>2
  <2>4. /\ k \in 1..n - 1 /\ l \in 1..n - 1 /\ k + 1 \in 1..m /\ l + 1 \in 1..m
        /\ k + 1 < l + 1
    BY <1>1, <2>2, <2>3
  <2>5. ty(k + 1) = Elem[a] /\ ty(l + 1) = Elem[a]
    BY <1>1, <2>1, <2>2, <2>4, ArrayCalls
  <2>6. Elem[a] \in ClassTypes \cup Arrays
    <3>1. k + 1 \in 1..Len(stack)
      BY <1>1, <2>4
    <3> QED
      BY <2>5, <3>1 DEF BInv, Chained
  <2>7. CASE Elem[a] \in ClassTypes
    <3>1. k + 1 = l + 1
      BY <1>2, <2>4, <2>5, <2>7
    <3> QED
      BY <2>4, <3>1
  <2>8. CASE Elem[a] \in Arrays
    <3>1. Twice(Elem[a])
      BY <2>4, <2>5
    <3> QED
      BY <2>1, <2>8, <3>1
  <2> QED
    BY <2>6, <2>7, <2>8
<1>4. ty(i) \in ClassTypes \/ ty(i) \in Arrays
  BY <1>1 DEF BInv, Chained
<1>5. CASE ty(i) \in ClassTypes
  BY <1>2, <1>5
<1>6. CASE ty(i) \in Arrays
  <2>1. i # j => Twice(ty(i))
    <3>1. i < j \/ j < i \/ i = j
      BY <1>1
    <3> QED
      BY <3>1
  <2> QED
    BY <1>3, <1>6, <2>1
<1> QED
  BY <1>4, <1>5, <1>6

\* Behind it, each array is of fewer dimensions than the one before.
LEMMA TailDistinct ==
  ASSUME BInv, NEW m, LastClass(stack, m), NEW i \in m + 1..Len(stack),
         NEW j \in m + 1..Len(stack), stack[i].type = stack[j].type
  PROVE  i = j
<1>1. PICK n \in Nat : n = Len(stack) /\ m \in 0..n
  BY LenProperties DEF BInv, LastClass
<1>2. ASSUME NEW k \in m + 1..n, NEW l \in m + 1..n, k < l, stack[k].type = stack[l].type
      PROVE  FALSE
  <2> DEFINE S == {stack[x].type : x \in k..l - 1}
  <2>1. \A x \in k..l - 1 : /\ x \in m + 1..n /\ x \in 1..n - 1 /\ x + 1 \in k..l
    BY <1>1, <1>2
  <2>2. S \in SUBSET Arrays
    BY <1>1, <2>1 DEF LastClass
  <2>3. k \in k..l - 1
    BY <1>1, <1>2
  <2>4. ASSUME NEW x \in k..l - 1
        PROVE  Elem[stack[x].type] \in S
    <3>1. stack[x].type \in Arrays /\ x \in 1..Len(stack) - 1
      BY <1>1, <2>1 DEF LastClass
    <3>2. stack[x + 1].type = Elem[stack[x].type]
      BY <3>1, ArrayCalls
    <3>3. CASE x + 1 = l
      BY <1>2, <2>3, <3>2, <3>3
    <3>4. CASE x + 1 # l
      <4>1. x + 1 \in k..l - 1
        BY <1>1, <2>1, <3>4
      <4> QED
        BY <3>2, <4>1
    <3> QED
      BY <3>3, <3>4
  <2>5. S # {} /\ \A a \in S : Elem[a] \in S
    BY <2>3, <2>4
  <2> HIDE DEF S
  <2> QED
    BY <2>2, <2>5, DimensionsEnd
<1>3. i < j \/ j < i \/ i = j
  BY <1>1
<1> QED
  BY <1>1, <1>2, <1>3

LEMMA CallsBounded ==
  ASSUME BInv
  PROVE  /\ Len(stack) <= Cardinality(ClassTypes) + 2 * Cardinality(Arrays)
         /\ stack # <<>> /\ Top.type \in ClassTypes =>
              Len(stack) <= Cardinality(ClassTypes) + Cardinality(Arrays)
         /\ Cardinality(ClassTypes) \in Nat /\ Cardinality(Arrays) \in Nat
         /\ Cardinality(FieldTypes) \in Nat
         /\ Cardinality(ClassTypes) + Cardinality(Arrays) <= Cardinality(FieldTypes)
<1>1. PICK n \in Nat : n = Len(stack)
  BY LenProperties DEF BInv
<1>2. PICK m \in 0..n : LastClass(stack, m)
  BY <1>1, LastClassExists DEF LastClass
<1>3. /\ IsFiniteSet(ClassTypes) /\ IsFiniteSet(Arrays) /\ IsFiniteSet(FieldTypes)
      /\ Cardinality(ClassTypes) \in Nat /\ Cardinality(Arrays) \in Nat
      /\ Cardinality(FieldTypes) \in Nat
  <2>1. ClassTypes \in SUBSET Types
    BY DEF ClassTypes
  <2>2. IsFiniteSet(ClassTypes) /\ IsFiniteSet(Arrays)
    BY <2>1, TypesAreFinite, FS_Subset
  <2>3. IsFiniteSet(FieldTypes)
    BY TypesAreFinite, FS_Union DEF FieldTypes
  <2> QED
    BY <2>2, <2>3, FS_CardinalityType
<1>4. PICK U : U = ClassTypes \cup Arrays
  OBVIOUS
<1>5. /\ IsFiniteSet(U) /\ Cardinality(U) = Cardinality(ClassTypes) + Cardinality(Arrays)
      /\ Cardinality(U) <= Cardinality(FieldTypes)
  <2>1. ClassTypes \cap Arrays = {}
    BY TypesAreApart DEF ClassTypes
  <2>2. IsFiniteSet(U) /\ Cardinality(U) = Cardinality(ClassTypes) + Cardinality(Arrays)
                                           - Cardinality(ClassTypes \cap Arrays)
    BY <1>3, <1>4, FS_Union
  <2>3. Cardinality(ClassTypes \cap Arrays) = 0
    BY <2>1, FS_EmptySet
  <2>4. U \in SUBSET FieldTypes
    BY <1>4 DEF ClassTypes, FieldTypes
  <2>5. Cardinality(U) <= Cardinality(FieldTypes)
    BY <1>3, <2>4, FS_Subset
  <2> QED
    BY <1>3, <2>2, <2>3, <2>5
<1>6. PICK f : f = [i \in 1..n |-> stack[i].type]
  OBVIOUS
<1>7. m <= Cardinality(U)
  <2>1. \A i \in 0 + 1..m : f[i] \in U
    BY <1>1, <1>2, <1>4, <1>6 DEF BInv, Chained
  <2>2. \A i \in 0 + 1..m : i \in 1..m /\ f[i] = stack[i].type
    BY <1>2, <1>6
  <2>3. \A i, j \in 0 + 1..m : f[i] = f[j] => i = j
    BY <1>2, <2>2, HeadDistinct
  <2>4. PICK z \in Nat : z = 0 /\ z <= m
    BY <1>2
  <2>5. /\ \A i \in z + 1..m : f[i] \in U
        /\ \A i, j \in z + 1..m : f[i] = f[j] => i = j
    BY <2>1, <2>3, <2>4
  <2>6. m \in Nat
    BY <1>2
  <2>7. m - z <= Cardinality(U)
    BY <1>5, <2>4, <2>5, <2>6, NoMoreThan
  <2> QED
    BY <1>2, <2>4, <2>7
<1>8. n - m <= Cardinality(Arrays)
  <2>1. \A i \in m + 1..n : i \in m + 1..Len(stack) /\ f[i] = stack[i].type
    BY <1>1, <1>2, <1>6
  <2>2. \A i \in m + 1..n : f[i] \in Arrays
    BY <1>2, <2>1 DEF LastClass
  <2>3. \A i, j \in m + 1..n : f[i] = f[j] => i = j
    BY <1>2, <2>1, TailDistinct
  <2>4. m \in Nat /\ m <= n
    BY <1>2
  <2> QED
    BY <1>3, <2>2, <2>3, <2>4, NoMoreThan
<1>9. stack # <<>> /\ Top.type \in ClassTypes => m = n
  <2> SUFFICES ASSUME stack # <<>>, Top.type \in ClassTypes, m # n
               PROVE  FALSE
    OBVIOUS
  <2>1. n \in m + 1..Len(stack) /\ Top = stack[n]
    BY <1>1, <1>2, TopCall
  <2>2. Top.type \in Arrays
    BY <1>2, <2>1 DEF LastClass
  <2> QED
    BY <2>2, TypesAreApart DEF ClassTypes
<1> QED
  BY <1>1, <1>2, <1>3, <1>5, <1>7, <1>8, <1>9

(* However classes, their fields and arrays of any dimensions mention each other,
   no class is being made twice at a time, and the depth of the recursion is
   bounded by the number of types (type-builder.cc:14-16, 29). *)
THEOREM RecursionEnds == BuilderSpec => []NoEndlessRecursion
<1>1. BInv => NoEndlessRecursion
  <2> SUFFICES ASSUME BInv
               PROVE  NoEndlessRecursion
    OBVIOUS
  <2>1. DOMAIN stack = 1..Len(stack)
    BY LenProperties DEF BInv
  <2>2. \A i \in DOMAIN stack : stack[i].type \in ClassTypes \cup Arrays
    BY <2>1 DEF BInv, Chained
  <2>3. \A i, j \in DOMAIN stack : stack[i].type = stack[j].type /\ i # j
                                   => stack[i].type \in Arrays
    BY <2>1, <2>2 DEF BInv, Opaques
  <2>4. Len(stack) <= Cardinality(ClassTypes) + 2 * Cardinality(Arrays)
    BY CallsBounded
  <2> QED
    BY <2>3, <2>4 DEF NoEndlessRecursion
<1> QED
  BY BStart, BStep, <1>1, PTL DEF BuilderSpec

-----------------------------------------------------------------------------
(* TypeBuilder: the slots of a struct. *)

\* No call for a class leads to one for a subclass of it.
NoChildFields ==
  \A p, c \in ClassTypes : SubclassOf(supertypes, c, p) /\ c # p => c \notin LeadsTo(p)

Wider(v) == v \cup UNION {Mentions(u) : u \in v}

LEMMA LeadsToUnfolded ==
  ASSUME BInv, NEW t \in FieldTypes, NEW N \in Nat, N = Cardinality(FieldTypes)
  PROVE  \E more : /\ LeadsTo(t) = more[N] /\ more[0] = Mentions(t)
                   /\ \A k \in 1..N : more[k] = Wider(more[k - 1])
<1> DEFINE V == SUBSET FieldTypes
           parent == [k \in 0..N |-> k - 1]
           base == [k \in 0..N |-> Mentions(t)]
           step == [k \in 0..N |-> [v \in V |-> Wider(v)]]
<1>1. \A u \in FieldTypes : Mentions(u) \in V
  BY MentionsTypes DEF BInv
<1>2. \A v \in V : Wider(v) \in V
  <2> SUFFICES ASSUME NEW v \in V
               PROVE  v \cup UNION {Mentions(u) : u \in v} \in V
    BY DEF Wider
  <2>1. \A u \in v : Mentions(u) \subseteq FieldTypes
    BY <1>1
  <2> QED
    BY <2>1
<1>3. base \in [0..N -> V] /\ step \in [0..N -> [V -> V]]
  BY <1>1, <1>2
<1>4. parent \in [0..N -> 0..N \cup {-1}] /\ -1 \notin 0..N
  OBVIOUS
<1>5. Founded(0..N, parent)
  <2> SUFFICES ASSUME NEW S \in SUBSET (0..N), S # {}
               PROVE  \E k \in S : parent[k] \notin S
    BY DEF Founded
  <2>1. S \in SUBSET Nat
    OBVIOUS
  <2>2. PICK k \in S : \A l \in S : k <= l
    BY <2>1, LeastExists
  <2>3. k - 1 \notin S
    BY <2>1, <2>2
  <2> QED
    BY <2>2, <2>3
<1> HIDE DEF base, step, V
<1>6. PICK f : Solves(0..N, f, parent, -1, V, base, step)
  <2>1. Recursion(0..N, -1, parent, V, base, step)
    BY <1>3, <1>4, <1>5 DEF Recursion
  <2> QED
    BY <2>1, ChainRecursion
<1>7. ASSUME NEW k \in 0..N
      PROVE  f[k] = IF k = 0 THEN Mentions(t)
                    ELSE Wider(f[k - 1])
  <2>1. CASE k = 0
    BY <1>6, <2>1 DEF Solves, base
  <2>2. CASE k # 0
    <3>1. k - 1 \in 0..N /\ parent[k] = k - 1 /\ parent[k] # -1
      BY <2>2
    <3>2. f[k - 1] \in V
      BY <1>6, <3>1 DEF Solves
    <3>3. f[k] = step[k][f[k - 1]]
      BY <1>6, <3>1 DEF Solves
    <3> QED
      BY <2>2, <3>2, <3>3 DEF step
  <2> QED
    BY <2>1, <2>2
<1>8. f = [k \in 0..N |-> IF k = 0 THEN Mentions(t) ELSE Wider(f[k - 1])]
  BY <1>6, <1>7 DEF Solves
<1>9. PICK more : /\ more = [k \in 0..N |-> IF k = 0 THEN Mentions(t) ELSE Wider(more[k - 1])]
                  /\ LeadsTo(t) = more[N]
  BY <1>8 DEF LeadsTo, Wider
<1>10. \A k \in 0..N : more[k] = IF k = 0 THEN Mentions(t) ELSE Wider(more[k - 1])
  BY <1>9
<1>11. 0 \in 0..N /\ \A k \in 1..N : k \in 0..N /\ k # 0
  OBVIOUS
<1>12. more[0] = Mentions(t) /\ \A k \in 1..N : more[k] = Wider(more[k - 1])
  BY <1>10, <1>11
<1> QED
  BY <1>9, <1>12

\* What is called for later is what a call has led to.
LEMMA CallsLead ==
  ASSUME BInv, NEW i \in 1..Len(stack) - 1, Len(stack) <= Cardinality(FieldTypes),
         Cardinality(FieldTypes) \in Nat
  PROVE  stack[Len(stack)].type \in LeadsTo(stack[i].type)
<1>1. PICK N \in Nat, n \in Nat : N = Cardinality(FieldTypes) /\ n = Len(stack) /\ n <= N
  BY LenProperties DEF BInv
<1>2. PICK t \in FieldTypes : t = stack[i].type
  <2>1. i \in 1..Len(stack)
    BY <1>1
  <2> QED
    BY <2>1 DEF BInv, Chained, ClassTypes, FieldTypes
<1>3. PICK more : /\ LeadsTo(t) = more[N] /\ more[0] = Mentions(t)
                  /\ \A k \in 1..N : more[k] = Wider(more[k - 1])
  BY <1>1, <1>2, LeadsToUnfolded
<1> DEFINE Bad == {k \in 0..N : stack[IF i + 1 + k <= n THEN i + 1 + k ELSE n].type \notin more[k]}
<1>4. Bad = {}
  <2> SUFFICES ASSUME Bad # {}
               PROVE  FALSE
    OBVIOUS
  <2>1. Bad \in SUBSET Nat
    OBVIOUS
  <2>2. PICK k \in Bad : \A l \in Bad : k <= l
    BY <2>1, LeastExists
  <2>3. k # 0
    <3>1. stack[i + 1].type \in Mentions(t) /\ i + 1 <= n
      BY <1>1, <1>2 DEF BInv, Chained
    <3> QED
      BY <1>3, <2>2, <3>1
  <2>4. k \in 1..N /\ k - 1 \in 0..N /\ k - 1 \notin Bad
    <3>1. k \in 0..N /\ k \in Nat /\ k - 1 \in Int
      BY <2>2
    <3>2. k \in 1..N /\ k - 1 \in 0..N
      BY <1>1, <2>3, <3>1
    <3>3. ~(k <= k - 1)
      BY <3>1
    <3> HIDE DEF Bad
    <3>4. k - 1 \notin Bad
      BY <2>2, <3>3
    <3> QED
      BY <3>2, <3>4
  <2>w. more[k - 1] \subseteq more[k] /\ \A u \in more[k - 1] : Mentions(u) \subseteq more[k]
    <3>1. PICK v : v = more[k - 1] /\ more[k] = Wider(v)
      BY <1>3, <2>4
    <3>2. v \subseteq Wider(v) /\ \A u \in v : Mentions(u) \subseteq Wider(v)
      BY DEF Wider
    <3> QED
      BY <3>1, <3>2
  <2>5. PICK x : x = IF i + 1 + (k - 1) <= n THEN i + 1 + (k - 1) ELSE n
    OBVIOUS
  <2>6. stack[x].type \in more[k - 1]
    BY <2>4, <2>5
  <2>7. CASE i + 1 + k <= n
    <3>1. x = i + k /\ x \in 1..n - 1 /\ i + 1 + k = x + 1
      BY <1>1, <2>4, <2>5, <2>7
    <3>2. stack[x + 1].type \in Mentions(stack[x].type)
      BY <1>1, <3>1 DEF BInv, Chained
    <3>3. stack[x + 1].type \in more[k]
      BY <2>w, <2>6, <3>2
    <3> QED
      BY <2>2, <2>7, <3>1, <3>3
  <2>8. CASE ~(i + 1 + k <= n)
    <3>1. x = n
      BY <1>1, <2>4, <2>5, <2>8
    <3>2. stack[n].type \in more[k]
      BY <2>w, <2>6, <3>1
    <3> QED
      BY <2>2, <2>8, <3>2
  <2> QED
    BY <2>7, <2>8
<1>5. N \in 0..N /\ (i + 1 + N <= n => i + 1 + N = n)
  BY <1>1
<1>6. stack[n].type \in more[N]
  BY <1>4, <1>5
<1> QED
  BY <1>1, <1>2, <1>3, <1>6

LEMMA NotAboveItself ==
  ASSUME NEW super \in [Types -> Types \cup {NoType}], NoCycle(super),
         NEW t \in Types, NEW s \in Types, super[t] = s
  PROVE  ~SubclassOf(super, s, t) /\ SubclassOf(super, t, s) /\ s # t
<1>1. SubclassOf(super, t, s)
  BY NoTypeIsNoType DEF SubclassOf, UpClosed
<1>2. ASSUME SubclassOf(super, s, t)
      PROVE  FALSE
  <2> DEFINE S == {u \in Types : SubclassOf(super, u, t) /\ SubclassOf(super, t, u)}
  <2>1. t \in S
    BY DEF SubclassOf
  <2>2. ASSUME NEW u \in S
        PROVE  super[u] \in S
    <3>1. super[u] \in Types /\ SubclassOf(super, super[u], t)
      <4>1. CASE u = t
        BY <1>2, <4>1
      <4>2. CASE u # t
        BY <4>2, SubclassStep
      <4> QED
        BY <4>1, <4>2
    <3>2. SubclassOf(super, t, super[u])
      <4> SUFFICES ASSUME NEW U \in SUBSET Types, t \in U, UpClosed(super, U)
                   PROVE  super[u] \in U
        BY DEF SubclassOf
      <4>1. u \in U
        BY DEF SubclassOf
      <4> QED
        BY <3>1, <4>1, NoTypeIsNoType DEF UpClosed
    <3> QED
      BY <3>1, <3>2
  <2>3. S \in SUBSET Types /\ S # {}
    BY <2>1
  <2> HIDE DEF S
  <2> QED
    BY <2>2, <2>3 DEF NoCycle
<1>3. SubclassOf(super, t, t)
  BY DEF SubclassOf
<1> QED
  BY <1>1, <1>2, <1>3

\* A supertype whose struct type is known has been given its body.
LEMMA SuperComplete ==
  ASSUME BInv, NoChildFields, stack # <<>>, Top.type \in ClassTypes,
         NEW s, s = supertypes[Top.type], s # NoType, ll_types[s].state # "none"
  PROVE  s \in ClassTypes /\ Complete(s)
<1>1. PICK n \in Nat \ {0} : n = Len(stack) /\ Top = stack[n]
  BY TopCall
<1>2. PICK t \in ClassTypes : t = Top.type
  OBVIOUS
<1>3. /\ s \in ClassTypes /\ t \in Types /\ s \in Types /\ s \in FieldTypes
      /\ supertypes \in [Types -> Types \cup {NoType}] /\ NoCycle(supertypes)
  BY <1>2 DEF BInv, BuiltProgram, ClassTypes, FieldTypes
<1>4. SubclassOf(supertypes, t, s) /\ s # t
  BY <1>2, <1>3, NotAboveItself
<1>5. ASSUME ll_types[s].state = "opaque"
      PROVE  FALSE
  <2>1. PICK i \in 1..n : stack[i].type = s
    BY <1>1, <1>3, <1>5 DEF BInv, Opaques
  <2>2. i # n
    BY <1>1, <1>2, <1>4, <2>1
  <2>3. i \in 1..Len(stack) - 1
    BY <1>1, <2>1, <2>2
  <2>4. Len(stack) <= Cardinality(FieldTypes) /\ Cardinality(FieldTypes) \in Nat
    BY <1>1, CallsBounded
  <2>5. t \in LeadsTo(s)
    BY <1>1, <1>2, <2>1, <2>3, <2>4, CallsLead
  <2> QED
    BY <1>2, <1>3, <1>4, <2>5 DEF NoChildFields
<1>6. ll_types[s].state \in {"none", "opaque", "body"}
  BY <1>3 DEF BInv, Structs
<1> QED
  BY <1>3, <1>5, <1>6 DEF Complete

\* es is a struct's body: an object header and the fields of names.
Holds(es, names) ==
  /\ es[1] = <<"gc">> /\ es[2] = <<"vtable">> /\ Len(es) = Len(names) + 2
  /\ \A i \in 1..Len(names) : es[i + 2] = names[i]

\* es holds what t inherits and the first k of its own fields.
Inherited(t) ==
  IF supertypes[t] = NoType THEN <<>> ELSE FieldSlots(supertypes, own_fields)[supertypes[t]]

Begun(es, t, k) ==
  LET n == Len(Inherited(t)) + 2
  IN  /\ es[1] = <<"gc">> /\ es[2] = <<"vtable">> /\ Len(es) = n + k
      /\ \A i \in 1..Len(Inherited(t)) : es[i + 2] = Inherited(t)[i]
      /\ \A i \in 1..k : es[n + i] = own_fields[t][i]

Bodies ==
  \A t \in ClassTypes :
    Complete(t) => Holds(ll_types[t].elements, FieldSlots(supertypes, own_fields)[t])
Beginnings ==
  \A i \in 1..Len(stack) : stack[i].type \in ClassTypes /\ stack[i].inherited =>
    \E k \in 0..Len(own_fields[stack[i].type]) : Begun(stack[i].elements, stack[i].type, k)

SInv == NoChildFields /\ Bodies /\ Beginnings

LEMMA BuiltLayout ==
  ASSUME BInv
  PROVE  /\ Layout(BuiltFields, supertypes, own_fields)
         /\ FieldSlots(supertypes, own_fields) \in [Types -> Seq(BuiltFields)]
         /\ \A t \in Types :
              /\ Inherited(t) \in Seq(BuiltFields) /\ own_fields[t] \in Seq(BuiltFields)
              /\ FieldSlots(supertypes, own_fields)[t] = Inherited(t) \o own_fields[t]
<1>1. Layout(BuiltFields, supertypes, own_fields)
  BY DEF BInv, BuiltProgram, Layout, ClassTypes
<1>2. FieldSlots(supertypes, own_fields) \in [Types -> Seq(BuiltFields)]
  BY <1>1, FieldSlotsRecursion
<1>3. ASSUME NEW t \in Types
      PROVE  /\ Inherited(t) \in Seq(BuiltFields) /\ own_fields[t] \in Seq(BuiltFields)
             /\ FieldSlots(supertypes, own_fields)[t] = Inherited(t) \o own_fields[t]
  <2>1. own_fields[t] \in Seq(BuiltFields) /\ supertypes[t] \in Types \cup {NoType}
    BY <1>1 DEF Layout
  <2>2. Inherited(t) \in Seq(BuiltFields)
    BY <1>2, <2>1, EmptySeq DEF Inherited
  <2>3. FieldSlots(supertypes, own_fields)[t] = Inherited(t) \o own_fields[t]
    BY <1>1, FieldSlotsRecursion DEF Inherited
  <2> QED
    BY <2>1, <2>2, <2>3
<1> QED
  BY <1>1, <1>2, <1>3

\* The fields a class has a slot for are its own and those of classes above it.
LEMMA OwnersAbove ==
  ASSUME BInv, NEW t \in Types, NEW i \in 1..Len(FieldSlots(supertypes, own_fields)[t])
  PROVE  SubclassOf(supertypes, t, FieldSlots(supertypes, own_fields)[t][i][1])
<1> DEFINE slots == FieldSlots(supertypes, own_fields)
           Good(u) == \A j \in 1..Len(slots[u]) : SubclassOf(supertypes, u, slots[u][j][1])
           Bad == {u \in Types : ~Good(u)}
<1>0. supertypes \in [Types -> Types \cup {NoType}] /\ NoCycle(supertypes)
  BY DEF BInv, BuiltProgram, ClassTypes
<1>s. slots \in [Types -> Seq(BuiltFields)]
  BY BuiltLayout
<1>1. ASSUME NEW u \in Types, supertypes[u] # NoType => Good(supertypes[u])
      PROVE  Good(u)
  <2>1. PICK a, b : /\ a = Inherited(u) /\ b = own_fields[u] /\ slots[u] = a \o b
                    /\ a \in Seq(BuiltFields) /\ b \in Seq(BuiltFields)
    BY BuiltLayout
  <2>2. /\ Len(slots[u]) = Len(a) + Len(b) /\ Len(a) \in Nat /\ Len(b) \in Nat
        /\ \A j \in 1..Len(a) : slots[u][j] = a[j]
        /\ \A j \in 1..Len(b) : slots[u][Len(a) + j] = b[j]
    <3> HIDE DEF slots
    <3> QED
      BY <2>1, ConcatParts, LenProperties
  <2> SUFFICES ASSUME NEW j \in 1..Len(slots[u])
               PROVE  SubclassOf(supertypes, u, slots[u][j][1])
    OBVIOUS
  <2>3. CASE j <= Len(a)
    <3>1. j \in 1..Len(a) /\ slots[u][j] = a[j]
      BY <2>2, <2>3
    <3>2. PICK s \in Types : s = supertypes[u] /\ a = slots[s] /\ s # NoType
      BY <1>0, <2>1, <2>2, <3>1, EmptySeq DEF Inherited
    <3>3. SubclassOf(supertypes, s, a[j][1])
      BY <1>1, <3>1, <3>2
    <3> QED
      <4> HIDE DEF slots
      <4> SUFFICES ASSUME NEW U \in SUBSET Types, u \in U, UpClosed(supertypes, U)
                   PROVE  a[j][1] \in U
        BY <3>1 DEF SubclassOf
      <4>1. s \in U
        BY <3>2 DEF UpClosed
      <4> QED
        BY <3>3, <4>1 DEF SubclassOf
  <2>4. CASE ~(j <= Len(a))
    <3>1. PICK k \in 1..Len(b) : j = Len(a) + k
      <4>1. j - Len(a) \in 1..Len(b) /\ j = Len(a) + (j - Len(a))
        BY <2>2, <2>4
      <4> QED
        BY <4>1
    <3>2. slots[u][j] = b[k] /\ b[k][1] = u
      BY <2>1, <2>2, <3>1 DEF BInv, BuiltProgram
    <3> QED
      <4> HIDE DEF slots
      <4> QED
        BY <3>2 DEF SubclassOf
  <2> QED
    BY <2>3, <2>4
<1> HIDE DEF Good
<1>2. Bad = {}
  <2> SUFFICES ASSUME Bad # {}
               PROVE  FALSE
    OBVIOUS
  <2>1. PICK u \in Bad : supertypes[u] \notin Bad
    BY <1>0 DEF NoCycle
  <2> QED
    BY <1>0, <1>1, <2>1
<1>3. Good(t)
  BY <1>2
<1> QED
  BY <1>3 DEF Good

\* The own fields that are still to come are not in the elements.
LEMMA NotYet ==
  ASSUME BInv, NEW t \in ClassTypes, NEW es \in Seq(SlotNames),
         NEW k \in 0..Len(own_fields[t]), Begun(es, t, k),
         NEW i \in 1..Len(own_fields[t])
  PROVE  own_fields[t][i] \notin ToSet(es) <=> i > k
<1>1. PICK a, own : /\ a = Inherited(t) /\ own = own_fields[t]
                    /\ a \in Seq(BuiltFields) /\ own \in Seq(BuiltFields)
  BY BuiltLayout DEF ClassTypes
<1>2. /\ Len(a) \in Nat /\ Len(own) \in Nat /\ k \in 0..Len(own) /\ i \in 1..Len(own)
      /\ Len(es) \in Nat
  BY <1>1, LenProperties
<1>3. /\ es[1] = <<"gc">> /\ es[2] = <<"vtable">> /\ Len(es) = Len(a) + 2 + k
      /\ \A j \in 1..Len(a) : es[j + 2] = a[j]
      /\ \A j \in 1..k : es[Len(a) + 2 + j] = own[j]
  BY <1>1 DEF Begun
<1>4. \A j \in 1..Len(own) : own[j] \in BuiltFields /\ own[j][1] = t /\ own[j][2] = j
  BY <1>1, ElementOfSeq DEF BInv, BuiltProgram, ClassTypes
<1>5. ASSUME i <= k
      PROVE  own[i] \in ToSet(es)
  <2>1. Len(a) + 2 + i \in 1..Len(es) /\ es[Len(a) + 2 + i] = own[i]
    BY <1>2, <1>3, <1>5
  <2> QED
    BY <2>1, SeqHas
<1>6. ASSUME i > k, NEW x \in 1..Len(es), es[x] = own[i]
      PROVE  FALSE
  <2>1. CASE x = 1 \/ x = 2
    BY <1>2, <1>3, <1>4, <1>6, <2>1 DEF BuiltFields
  <2>2. CASE x > 2 /\ x <= Len(a) + 2
    <3>1. PICK j \in 1..Len(a) : x = j + 2
      <4>1. x - 2 \in 1..Len(a) /\ x = (x - 2) + 2
        BY <1>2, <2>2
      <4> QED
        BY <4>1
    <3>2. a[j][1] = t
      BY <1>2, <1>3, <1>4, <1>6, <3>1
    <3>3. PICK s : /\ s \in Types /\ s = supertypes[t]
                   /\ a = FieldSlots(supertypes, own_fields)[s]
      BY <1>1, <1>2, <3>1, EmptySeq DEF Inherited, BInv, BuiltProgram, ClassTypes
    <3>4. SubclassOf(supertypes, s, t)
      BY <3>1, <3>2, <3>3, OwnersAbove
    <3>5. supertypes \in [Types -> Types \cup {NoType}] /\ NoCycle(supertypes) /\ t \in Types
      BY DEF BInv, BuiltProgram, ClassTypes
    <3> QED
      BY <3>3, <3>4, <3>5, NotAboveItself
  <2>3. CASE x > Len(a) + 2
    <3>1. PICK j \in 1..k : x = Len(a) + 2 + j
      <4>1. x - (Len(a) + 2) \in 1..k /\ x = Len(a) + 2 + (x - (Len(a) + 2))
        BY <1>2, <1>3, <2>3
      <4> QED
        BY <4>1
    <3>2. j \in 1..Len(own) /\ own[j] = own[i] /\ j # i
      BY <1>2, <1>3, <1>6, <3>1
    <3> QED
      BY <1>2, <1>4, <3>2
  <2> QED
    BY <1>2, <2>1, <2>2, <2>3
<1>7. own[i] \in ToSet(es) => i <= k
  BY <1>2, <1>6, SeqHas
<1> QED
  BY <1>1, <1>2, <1>5, <1>7

LEMMA Finished ==
  ASSUME BInv, NEW t \in ClassTypes, NEW es \in Seq(SlotNames),
         Begun(es, t, Len(own_fields[t]))
  PROVE  Holds(es, FieldSlots(supertypes, own_fields)[t])
<1>1. PICK a, own, slots :
        /\ a = Inherited(t) /\ own = own_fields[t]
        /\ slots = FieldSlots(supertypes, own_fields)[t] /\ slots = a \o own
        /\ a \in Seq(BuiltFields) /\ own \in Seq(BuiltFields)
  BY BuiltLayout DEF ClassTypes
<1>2. /\ Len(a) \in Nat /\ Len(own) \in Nat /\ Len(slots) = Len(a) + Len(own)
      /\ \A i \in 1..Len(a) : slots[i] = a[i]
      /\ \A i \in 1..Len(own) : slots[Len(a) + i] = own[i]
  BY <1>1, ConcatParts, LenProperties
<1>3. /\ es[1] = <<"gc">> /\ es[2] = <<"vtable">> /\ Len(es) = Len(a) + 2 + Len(own)
      /\ \A i \in 1..Len(a) : es[i + 2] = a[i]
      /\ \A i \in 1..Len(own) : es[Len(a) + 2 + i] = own[i]
  BY <1>1 DEF Begun
<1>4. ASSUME NEW i \in 1..Len(slots)
      PROVE  es[i + 2] = slots[i]
  <2>1. CASE i <= Len(a)
    BY <1>2, <1>3, <2>1
  <2>2. CASE ~(i <= Len(a))
    <3>1. PICK j \in 1..Len(own) : i = Len(a) + j
      <4>1. i - Len(a) \in 1..Len(own) /\ i = Len(a) + (i - Len(a))
        BY <1>2, <2>2
      <4> QED
        BY <4>1
    <3>2. i + 2 = Len(a) + 2 + j
      BY <1>2, <3>1
    <3> QED
      BY <1>2, <1>3, <3>1, <3>2
  <2> QED
    BY <2>1, <2>2
<1>5. Len(es) = Len(slots) + 2
  BY <1>2, <1>3
<1>6. Holds(es, slots)
  BY <1>3, <1>4, <1>5 DEF Holds
<1> QED
  BY <1>1, <1>6

\* One more own field.
LEMMA Continued ==
  ASSUME BInv, NEW t \in ClassTypes, NEW es \in Seq(SlotNames),
         NEW k \in Nat, Begun(es, t, k), k < Len(own_fields[t])
  PROVE  Begun(Append(es, own_fields[t][k + 1]), t, k + 1)
<1>1. PICK a, own : /\ a = Inherited(t) /\ own = own_fields[t]
                    /\ a \in Seq(BuiltFields) /\ own \in Seq(BuiltFields)
  BY BuiltLayout DEF ClassTypes
<1>2. Len(a) \in Nat /\ Len(own) \in Nat /\ k + 1 \in 1..Len(own)
  BY <1>1, LenProperties
<1>3. /\ es[1] = <<"gc">> /\ es[2] = <<"vtable">> /\ Len(es) = Len(a) + 2 + k
      /\ \A i \in 1..Len(a) : es[i + 2] = a[i]
      /\ \A i \in 1..k : es[Len(a) + 2 + i] = own[i]
  BY <1>1 DEF Begun
<1>4. PICK f : f = own[k + 1] /\ f \in SlotNames
  BY <1>1, <1>2, ElementOfSeq DEF SlotNames
<1>5. PICK n, r : /\ n = Len(es) /\ n \in Nat /\ r = Append(es, f)
                  /\ Len(r) = n + 1 /\ r[n + 1] = f /\ \A i \in 1..n : r[i] = es[i]
  <2>1. PICK n, r : n = Len(es) /\ n \in Nat /\ r = Append(es, f)
    BY LenProperties
  <2>2. Len(r) = n + 1 /\ r[n + 1] = f /\ \A i \in 1..n : r[i] = es[i]
    BY <1>4, <2>1, PushedAs
  <2> QED
    BY <2>1, <2>2
<1>6. \A i \in 1..Len(a) + 2 + k : r[i] = es[i]
  BY <1>3, <1>5
<1>7. r[1] = <<"gc">> /\ r[2] = <<"vtable">> /\ Len(r) = Len(a) + 2 + (k + 1)
  BY <1>2, <1>3, <1>5, <1>6
<1>8. \A i \in 1..Len(a) : r[i + 2] = a[i]
  BY <1>2, <1>3, <1>6
<1>9. ASSUME NEW i \in 1..k + 1
      PROVE  r[Len(a) + 2 + i] = own[i]
  <2>1. CASE i \in 1..k
    BY <1>2, <1>3, <1>6, <2>1
  <2>2. CASE i = k + 1
    <3>1. Len(a) + 2 + i = n + 1
      BY <1>2, <1>3, <1>5, <2>2
    <3> QED
      BY <1>4, <1>5, <2>2, <3>1
  <2> QED
    BY <2>1, <2>2
<1>10. Begun(r, t, k + 1)
  BY <1>1, <1>7, <1>8, <1>9 DEF Begun
<1> QED
  BY <1>1, <1>4, <1>5, <1>10

LEMMA SKept ==
  ASSUME NoChildFields, UNCHANGED <<supertypes, own_fields>>,
         \A t \in ClassTypes : ll_types'[t].state = "body" =>
           Holds(ll_types'[t].elements, FieldSlots(supertypes, own_fields)[t]),
         \A i \in 1..Len(stack') : stack'[i].type \in ClassTypes /\ stack'[i].inherited =>
           \E k \in 0..Len(own_fields[stack'[i].type]) :
             Begun(stack'[i].elements, stack'[i].type, k)
  PROVE  SInv'
<1>1. NoChildFields'
  <2>1. \A t : LeadsTo(t)' = LeadsTo(t)
    BY DEF LeadsTo, Mentions
  <2> QED
    BY <2>1 DEF NoChildFields
<1>2. Bodies'
  BY DEF Bodies, Complete
<1>3. Beginnings'
  BY DEF Beginnings, Begun, Inherited
<1> QED
  BY <1>1, <1>2, <1>3 DEF SInv

LEMMA SCalled ==
  ASSUME BInv, SInv, NEW t \in FieldTypes, Call(t)
  PROVE  SInv'
<1>1. /\ NoChildFields /\ UNCHANGED <<supertypes, own_fields>> /\ stack \in Seq(Calls)
      /\ ll_types \in [FieldTypes -> Structs]
  BY DEF SInv, BInv, Call, program
<1>2. ASSUME NEW u \in ClassTypes, ll_types'[u].state = "body"
      PROVE  Holds(ll_types'[u].elements, FieldSlots(supertypes, own_fields)[u])
  <2>1. u \in FieldTypes
    BY DEF ClassTypes, FieldTypes
  <2>2. ll_types'[u] = ll_types[u]
    <3>1. CASE u = t
      <4>1. u \notin Arrays
        BY TypesAreApart DEF ClassTypes
      <4>2. ll_types' = [ll_types EXCEPT ![u].state = "opaque"]
        BY <3>1, <4>1 DEF Call
      <4>3. ll_types'[u].state = "opaque"
        BY <1>1, <2>1, <4>2 DEF Structs
      <4> QED
        BY <1>2, <4>3
    <3>2. CASE u # t
      BY <1>1, <2>1, <3>2 DEF Call
    <3> QED
      BY <3>1, <3>2
  <2> QED
    BY <1>2, <2>2 DEF SInv, Bodies, Complete
<1>3. ASSUME NEW i \in 1..Len(stack'), stack'[i].type \in ClassTypes, stack'[i].inherited
      PROVE  \E k \in 0..Len(own_fields[stack'[i].type]) :
               Begun(stack'[i].elements, stack'[i].type, k)
  <2>1. PICK e, n, r : /\ e = [type |-> t, elements |-> Header, inherited |-> FALSE]
                       /\ n = Len(stack) /\ r = stack' /\ r = Append(stack, e)
    BY DEF Call
  <2>2. e \in Calls
    BY <2>1 DEF Calls, Header, SlotNames
  <2>3. /\ n \in Nat /\ Len(r) = n + 1 /\ r[n + 1] = e /\ \A j \in 1..n : r[j] = stack[j]
    BY <1>1, <2>1, <2>2, PushedAs
  <2>4. i # n + 1
    BY <1>3, <2>1, <2>3
  <2>5. i \in 1..Len(stack) /\ stack'[i] = stack[i]
    BY <2>1, <2>3, <2>4
  <2> QED
    BY <1>3, <2>5 DEF SInv, Beginnings
<1> QED
  BY <1>1, <1>2, <1>3, SKept

LEMMA SExtended ==
  ASSUME BInv, SInv, stack # <<>>, NEW es \in Seq(SlotNames), Extend(es, TRUE),
         NEW k \in 0..Len(own_fields[Top.type]), Begun(es, Top.type, k)
  PROVE  SInv'
<1>1. NoChildFields /\ UNCHANGED <<supertypes, own_fields, ll_types>>
  BY DEF SInv, Extend, program
<1>2. ASSUME NEW u \in ClassTypes, ll_types'[u].state = "body"
      PROVE  Holds(ll_types'[u].elements, FieldSlots(supertypes, own_fields)[u])
  BY <1>1, <1>2 DEF SInv, Bodies, Complete
<1>3. PICK n \in Nat \ {0} :
        /\ n = Len(stack) /\ DOMAIN stack' = 1..n /\ stack[n] \in Calls /\ Top = stack[n]
        /\ stack'[n] = [stack[n] EXCEPT !.elements = es, !.inherited = TRUE]
        /\ \A i \in 1..n : i # n => stack'[i] = stack[i]
  BY ExtendedAs
<1>4. Len(stack') = n
  <2>1. stack' \in Seq(Calls)
    BY CallExtended DEF BInv
  <2> QED
    BY <1>3, <2>1, LenProperties
<1>5. stack'[n].type = Top.type /\ stack'[n].elements = es
  BY <1>3 DEF Calls
<1>6. ASSUME NEW i \in 1..Len(stack'), stack'[i].type \in ClassTypes, stack'[i].inherited
      PROVE  \E j \in 0..Len(own_fields[stack'[i].type]) :
               Begun(stack'[i].elements, stack'[i].type, j)
  <2>1. CASE i = n
    BY <1>5, <2>1
  <2>2. CASE i # n
    <3>1. i \in 1..Len(stack) /\ stack'[i] = stack[i]
      BY <1>3, <1>4, <2>2
    <3> QED
      BY <1>6, <3>1 DEF SInv, Beginnings
  <2> QED
    BY <2>1, <2>2
<1> QED
  BY <1>1, <1>2, <1>6, SKept

LEMMA SEnded ==
  ASSUME BInv, SInv, stack # <<>>, NEW s \in Structs,
         ll_types' = [ll_types EXCEPT ![Top.type] = s],
         stack' = Front(stack), UNCHANGED program,
         Top.type \in ClassTypes =>
           Holds(s.elements, FieldSlots(supertypes, own_fields)[Top.type])
  PROVE  SInv'
<1>1. /\ NoChildFields /\ UNCHANGED <<supertypes, own_fields>> /\ stack \in Seq(Calls)
      /\ ll_types \in [FieldTypes -> Structs]
  BY DEF SInv, BInv, program
<1>2. ASSUME NEW u \in ClassTypes, ll_types'[u].state = "body"
      PROVE  Holds(ll_types'[u].elements, FieldSlots(supertypes, own_fields)[u])
  <2>1. u \in FieldTypes
    BY DEF ClassTypes, FieldTypes
  <2>2. CASE u = Top.type
    <3>1. ll_types'[u] = s
      BY <1>1, <2>1, <2>2
    <3> QED
      BY <2>2, <3>1
  <2>3. CASE u # Top.type
    <3>1. ll_types'[u] = ll_types[u]
      BY <1>1, <2>1, <2>3
    <3> QED
      BY <1>2, <3>1 DEF SInv, Bodies, Complete
  <2> QED
    BY <2>2, <2>3
<1>3. ASSUME NEW i \in 1..Len(stack'), stack'[i].type \in ClassTypes, stack'[i].inherited
      PROVE  \E k \in 0..Len(own_fields[stack'[i].type]) :
               Begun(stack'[i].elements, stack'[i].type, k)
  <2>1. PICK n, r : n = Len(stack) - 1 /\ r = stack' /\ r = Front(stack)
    OBVIOUS
  <2>2. /\ n \in Nat /\ Len(stack) = n + 1 /\ r \in Seq(Calls) /\ Len(r) = n
        /\ stack[n + 1] \in Calls /\ Last(stack) = stack[n + 1]
    BY <1>1, <2>1, PoppedAs
  <2>3. \A j \in 1..n : r[j] = stack[j]
    BY <1>1, <2>1, PoppedOff
  <2>4. i \in 1..Len(stack) /\ stack'[i] = stack[i]
    BY <2>1, <2>2, <2>3
  <2> QED
    BY <1>3, <2>4 DEF SInv, Beginnings
<1> QED
  BY <1>1, <1>2, <1>3, SKept

LEMMA SStep == ASSUME BInv, SInv, [BuilderNext]_builderVars PROVE SInv'
<1>0. /\ ll_types \in [FieldTypes -> Structs]
      /\ stack # <<>> => /\ Top \in Calls /\ Top.type \in FieldTypes
                          /\ Top.elements \in Seq(SlotNames) /\ Len(stack) \in 1..Len(stack)
                          /\ Top = stack[Len(stack)]
  BY TopCall DEF BInv, Calls
<1>1. CASE Request
  BY <1>1, SCalled DEF Request
<1>2. CASE Inherit
  <2>1. PICK s, t : s = supertypes[t] /\ t = Top.type
    OBVIOUS
  <2>2. /\ stack # <<>> /\ t \in ClassTypes
        /\ \/ s = NoType /\ Extend(Header, TRUE)
           \/ s # NoType /\ Call(s)
           \/ s # NoType /\ ll_types[s].state # "none" /\ Extend(ll_types[s].elements, TRUE)
    BY <1>2, <2>1 DEF Inherit
  <2>3. PICK own : own = own_fields[t] /\ own \in Seq(BuiltFields) /\ 0 \in 0..Len(own)
    <3>1. own_fields[t] \in Seq(BuiltFields)
      BY <2>2 DEF BInv, BuiltProgram, ClassTypes
    <3> QED
      BY <3>1, LenProperties
  <2>4. CASE s = NoType
    <3>1. Header \in Seq(SlotNames)
      BY DEF Header, SlotNames
    <3>2. Begun(Header, t, 0)
      <4>1. Inherited(t) = <<>> /\ Len(<<>>) = 0
        BY <2>1, <2>4 DEF Inherited
      <4> QED
        BY <4>1 DEF Begun, Header
    <3> QED
      BY <2>1, <2>2, <2>3, <2>4, <3>1, <3>2, SExtended
  <2>5. CASE s # NoType /\ Call(s)
    <3>1. s \in FieldTypes
      BY <2>1, <2>2, <2>5 DEF BInv, BuiltProgram, ClassTypes, FieldTypes
    <3> QED
      BY <2>5, <3>1, SCalled
  <2>6. CASE s # NoType /\ ll_types[s].state # "none" /\ Extend(ll_types[s].elements, TRUE)
    <3>1. s \in ClassTypes /\ Complete(s)
      BY <2>1, <2>2, <2>6, SuperComplete DEF SInv
    <3>2. PICK es : es = ll_types[s].elements /\ es \in Seq(SlotNames)
      <4>1. s \in FieldTypes
        BY <3>1 DEF ClassTypes, FieldTypes
      <4> QED
        BY <1>0, <4>1 DEF Structs
    <3>3. Holds(es, FieldSlots(supertypes, own_fields)[s])
      BY <3>1, <3>2 DEF SInv, Bodies
    <3>4. Inherited(t) = FieldSlots(supertypes, own_fields)[s]
      BY <2>1, <2>6 DEF Inherited
    <3>5. Len(Inherited(t)) \in Nat
      BY <2>2, BuiltLayout, LenProperties DEF ClassTypes
    <3>6. Begun(es, t, 0)
      BY <3>3, <3>4, <3>5 DEF Holds, Begun
    <3> QED
      BY <2>1, <2>2, <2>3, <2>6, <3>2, <3>6, SExtended
  <2> QED
    BY <2>2, <2>4, <2>5, <2>6
<1>3. CASE OwnField
  <2>1. PICK t, own, es, rest :
          /\ t = Top.type /\ own = own_fields[t] /\ es = Top.elements
          /\ rest = {i \in DOMAIN own : own[i] \notin ToSet(es)}
    OBVIOUS
  <2>2. PICK m, f : m = Min(rest) /\ f = own[m]
    OBVIOUS
  <2>3. /\ stack # <<>> /\ t \in ClassTypes /\ Top.inherited /\ rest # {}
        /\ Call(f[3]) \/ Extend(Append(es, f), TRUE)
    BY <1>3, <2>1, <2>2 DEF OwnField
  <2>4. /\ m \in 1..Len(own) /\ own[m] \notin ToSet(es) /\ \A i \in rest : m <= i
        /\ f \in BuiltFields /\ f[3] \in FieldTypes
    BY <2>1, <2>2, <2>3, NextOwnField
  <2>5. CASE Call(f[3])
    BY <2>4, <2>5, SCalled
  <2>6. CASE Extend(Append(es, f), TRUE)
    <3>1. PICK k \in 0..Len(own) : Begun(es, t, k)
      BY <1>0, <2>1, <2>3 DEF SInv, Beginnings
    <3>2. es \in Seq(SlotNames) /\ own \in Seq(BuiltFields)
      BY <1>0, <2>1, <2>3 DEF BInv, BuiltProgram, ClassTypes
    <3>3. Len(own) \in Nat /\ DOMAIN own = 1..Len(own)
      BY <3>2, LenProperties
    <3>4. \A i \in 1..Len(own) : own[i] \notin ToSet(es) <=> i > k
      BY <2>1, <2>3, <3>1, <3>2, NotYet
    <3>5. m > k /\ k + 1 \in 1..Len(own)
      BY <2>4, <3>3, <3>4
    <3>6. k + 1 \in rest
      BY <2>1, <3>3, <3>4, <3>5
    <3>7. m = k + 1 /\ k + 1 \in 0..Len(own) /\ k \in Nat /\ k < Len(own)
      BY <2>4, <3>3, <3>5, <3>6
    <3>8. Append(es, f) \in Seq(SlotNames)
      <4>1. f \in SlotNames
        BY <2>4 DEF SlotNames
      <4> QED
        BY <3>2, <4>1, AppendProperties
    <3>9. Begun(Append(es, own[k + 1]), t, k + 1)
      BY <2>1, <2>3, <3>1, <3>2, <3>7, Continued
    <3>10. Begun(Append(es, f), Top.type, k + 1)
      BY <2>1, <2>2, <3>7, <3>9
    <3>11. k + 1 \in 0..Len(own_fields[Top.type])
      BY <2>1, <3>7
    <3> QED
      BY <2>3, <2>6, <3>8, <3>10, <3>11, SExtended
  <2> QED
    BY <2>3, <2>5, <2>6
<1>4. CASE SetBody
  <2>1. PICK t, own, es, s : /\ t = Top.type /\ own = own_fields[t] /\ es = Top.elements
                             /\ s = [state |-> "body", elements |-> es]
    OBVIOUS
  <2>2. /\ stack # <<>> /\ t \in ClassTypes /\ Top.inherited /\ ToSet(own) \subseteq ToSet(es)
        /\ ll_types' = [ll_types EXCEPT ![Top.type] = s]
        /\ stack' = Front(stack) /\ UNCHANGED program
    BY <1>4, <2>1 DEF SetBody
  <2>3. PICK k \in 0..Len(own) : Begun(es, t, k)
    BY <1>0, <2>1, <2>2 DEF SInv, Beginnings
  <2>4. es \in Seq(SlotNames) /\ own \in Seq(BuiltFields)
    BY <1>0, <2>1, <2>2 DEF BInv, BuiltProgram, ClassTypes
  <2>5. \A i \in 1..Len(own) : own[i] \notin ToSet(es) <=> i > k
    BY <2>1, <2>2, <2>3, <2>4, NotYet
  <2>6. Len(own) \in Nat
    BY <2>4, LenProperties
  <2>7. k = Len(own)
    <3> SUFFICES ASSUME k # Len(own)
                 PROVE  FALSE
      OBVIOUS
    <3>1. k + 1 \in 1..Len(own) /\ k + 1 > k
      BY <2>6
    <3>2. own[k + 1] \in ToSet(own)
      BY <2>4, <3>1, SeqHas
    <3> QED
      BY <2>2, <2>5, <3>1, <3>2
  <2>8. Holds(es, FieldSlots(supertypes, own_fields)[t])
    BY <2>1, <2>2, <2>3, <2>4, <2>7, Finished
  <2>9. s \in Structs /\ s.elements = es
    BY <2>1, <2>4 DEF Structs
  <2> QED
    BY <2>1, <2>2, <2>8, <2>9, SEnded
<1>5. CASE ArrayType
  <2>1. PICK s : s = [state |-> "body", elements |-> Header \o << <<"size">>, <<"elements">> >>]
    OBVIOUS
  <2>2. /\ stack # <<>> /\ Top.type \in Arrays
        /\ \/ Call(Elem[Top.type])
           \/ /\ ll_types' = [ll_types EXCEPT ![Top.type] = s]
              /\ stack' = Front(stack) /\ UNCHANGED program
    BY <1>5, <2>1 DEF ArrayType
  <2>3. CASE Call(Elem[Top.type])
    BY <2>2, <2>3, DimensionsEnd, SCalled
  <2>4. CASE /\ ll_types' = [ll_types EXCEPT ![Top.type] = s]
             /\ stack' = Front(stack) /\ UNCHANGED program
    <3>1. Header \in Seq(SlotNames) /\ << <<"size">>, <<"elements">> >> \in Seq(SlotNames)
      BY DEF Header, SlotNames
    <3>2. s \in Structs
      BY <2>1, <3>1, ConcatProperties DEF Structs
    <3>3. Top.type \notin ClassTypes
      BY <2>2, TypesAreApart DEF ClassTypes
    <3> QED
      BY <2>2, <2>4, <3>2, <3>3, SEnded
  <2> QED
    BY <2>2, <2>3, <2>4
<1>6. CASE UNCHANGED builderVars
  <2>1. NoChildFields /\ UNCHANGED <<supertypes, own_fields, ll_types, stack>>
    BY <1>6 DEF builderVars, program, SInv
  <2>2. \A u \in ClassTypes : ll_types'[u].state = "body" =>
          Holds(ll_types'[u].elements, FieldSlots(supertypes, own_fields)[u])
    BY <2>1 DEF SInv, Bodies, Complete
  <2>3. \A i \in 1..Len(stack') : stack'[i].type \in ClassTypes /\ stack'[i].inherited =>
          \E k \in 0..Len(own_fields[stack'[i].type]) :
            Begun(stack'[i].elements, stack'[i].type, k)
    BY <2>1 DEF SInv, Beginnings
  <2> QED
    BY <2>1, <2>2, <2>3, SKept
<1> QED
  BY <1>1, <1>2, <1>3, <1>4, <1>5, <1>6 DEF BuilderNext, Step

LEMMA SStart == ~ChildFields /\ BuilderInit => SInv
<1> SUFFICES ASSUME ~ChildFields, BuilderInit PROVE SInv
  OBVIOUS
<1>1. NoChildFields
  BY DEF BuilderInit, NoChildFields
<1>2. Bodies
  <2> SUFFICES ASSUME NEW t \in ClassTypes, Complete(t)
               PROVE  FALSE
    BY DEF Bodies
  <2> QED
    BY DEF BuilderInit, Complete, ClassTypes, FieldTypes
<1>3. Beginnings
  BY DEF BuilderInit, Beginnings
<1> QED
  BY <1>1, <1>2, <1>3 DEF SInv

LEMMA SlotsAsFieldIdx ==
  ASSUME BInv, Bodies
  PROVE  SlotIsTheField
<1> SUFFICES ASSUME NEW t \in ClassTypes, Complete(t),
                    NEW f \in ToSet(FieldSlots(supertypes, own_fields)[t])
             PROVE  LET slot == Len(Header) + FieldIdx(supertypes, own_fields, t, f) + 1
                        elements == ll_types[t].elements
                    IN  slot \in DOMAIN elements /\ elements[slot] = f
  BY DEF SlotIsTheField
<1>1. PICK slots, es, i : /\ slots = FieldSlots(supertypes, own_fields)[t]
                          /\ es = ll_types[t].elements
                          /\ i = FieldIdx(supertypes, own_fields, t, f)
  OBVIOUS
<1>2. t \in Types /\ HasField(supertypes, own_fields, t, f)
  BY DEF ClassTypes, HasField
<1>3. i \in 0..Len(slots) - 1 /\ slots[i + 1] = f
  BY <1>1, <1>2, BuiltLayout, FieldHasSlot DEF NumFields
<1>4. slots \in Seq(BuiltFields) /\ es \in Seq(SlotNames)
  <2>1. t \in FieldTypes /\ t \in Types
    BY DEF ClassTypes, FieldTypes
  <2>2. ll_types[t] \in Structs
    BY <2>1 DEF BInv
  <2> QED
    BY <1>1, <2>1, <2>2, BuiltLayout DEF Structs
<1>5. Len(slots) \in Nat /\ DOMAIN es = 1..Len(es)
  BY <1>4, LenProperties
<1>6. Holds(es, slots)
  BY <1>1 DEF Bodies
<1>7. i + 1 \in 1..Len(slots) /\ i + 1 + 2 = 2 + i + 1 /\ 2 + i + 1 \in 1..Len(slots) + 2
  BY <1>3, <1>5
<1>8. 2 + i + 1 \in DOMAIN es /\ es[2 + i + 1] = f
  BY <1>3, <1>5, <1>6, <1>7 DEF Holds
<1>9. Len(Header) = 2
  BY DEF Header
<1> QED
  BY <1>1, <1>8, <1>9

(* When no field leads from a class to a subclass of it, every struct that is
   complete has each field, own or inherited, where code generation looks for
   it, in whatever order the types were asked for (type-builder.cc:27-51,
   llvm/codegen.cc:465-468). *)
THEOREM BuiltSlots == ASSUME ~ChildFields PROVE BuilderSpec => []SlotIsTheField
<1>1. BuilderInit => BInv /\ SInv
  BY BStart, SStart
<1>2. BInv /\ SInv /\ [BuilderNext]_builderVars => BInv' /\ SInv'
  BY BStep, SStep
<1>3. BInv /\ SInv => SlotIsTheField
  BY SlotsAsFieldIdx DEF SInv
<1> QED
  BY <1>1, <1>2, <1>3, PTL DEF BuilderSpec
=============================================================================
