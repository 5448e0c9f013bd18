-------------------------- MODULE RecursionTheorems --------------------------
(***************************************************************************)
(* Facts the proofs of several components share: least and greatest        *)
(* elements, positions in sequences, and the existence of what a recursive *)
(* function definition describes. Induction is by a least counterexample,  *)
(* a set, and a recursive function exists because partial ones do.         *)
(***************************************************************************)
EXTENDS SequencesExt, SequenceTheorems, WellFoundedInduction, TLAPS

-----------------------------------------------------------------------------
(* Least elements. *)

LEMMA LeastExists ==
  ASSUME NEW T \in SUBSET Nat, T # {}
  PROVE  \E m \in T : \A n \in T : m <= n
<1> DEFINE less == {ss \in Nat \X Nat : ss[1] < ss[2]}
<1>1. IsWellFoundedOn(less, Nat)
  BY NatLessThanWellFounded DEF OpToRel
<1>2. PICK m \in T : \A n \in T : ~(<<n, m>> \in less)
  <2> HIDE DEF less
  <2> QED
    BY <1>1, WFMin
<1>3. ASSUME NEW n \in T, n < m
      PROVE  <<n, m>> \in less
  <2> DEFINE p == <<n, m>>
  <2>1. p \in Nat \X Nat /\ p[1] < p[2]
    BY <1>3
  <2> HIDE DEF p
  <2>2. p \in less
    BY <2>1
  <2> QED
    BY <2>2 DEF p
<1> HIDE DEF less
<1>4. \A n \in T : ~(n < m)
  BY <1>2, <1>3
<1> QED
  BY <1>4

LEMMA MinOfNaturals ==
  ASSUME NEW T \in SUBSET Nat, T # {}
  PROVE  Min(T) \in T /\ \A n \in T : Min(T) <= n
  BY LeastExists DEF Min

-----------------------------------------------------------------------------
(* Recursion along a chain of parents. *)

\* Every set has a member whose parent lies outside it.
Founded(T, parent) == \A S \in SUBSET T : S # {} => \E t \in S : parent[t] \notin S

\* f solves the recursion on W, which has the parents of its members.
Solves(W, f, parent, Nil, V, base, step) ==
  /\ f \in [W -> V]
  /\ \A t \in W : /\ parent[t] # Nil => parent[t] \in W
                  /\ f[t] = IF parent[t] = Nil THEN base[t] ELSE step[t][f[parent[t]]]

LEMMA SolutionsAgree ==
  ASSUME NEW T, NEW Nil, NEW parent, Founded(T, parent),
         NEW V, NEW base, NEW step,
         NEW W \in SUBSET T, NEW f, Solves(W, f, parent, Nil, V, base, step),
         NEW U \in SUBSET T, NEW g, Solves(U, g, parent, Nil, V, base, step),
         NEW t \in W \cap U
  PROVE  f[t] = g[t]
<1> DEFINE S == {u \in W \cap U : f[u] # g[u]}
<1>1. SUFFICES ASSUME S # {}
               PROVE  FALSE
  OBVIOUS
<1>2. PICK u \in S : parent[u] \notin S
  <2>1. S \in SUBSET T
    OBVIOUS
  <2> QED
    BY <1>1, <2>1 DEF Founded
<1>3. CASE parent[u] = Nil
  BY <1>2, <1>3 DEF Solves
<1>4. CASE parent[u] # Nil
  <2>1. parent[u] \in W \cap U
    BY <1>2, <1>4 DEF Solves
  <2>2. f[parent[u]] = g[parent[u]]
    BY <1>2, <2>1
  <2> QED
    BY <1>2, <1>4, <2>2 DEF Solves
<1> QED
  BY <1>3, <1>4

\* A value for each member, from the one for its parent, or base without one.
Recursion(T, Nil, parent, V, base, step) ==
  /\ Nil \notin T
  /\ parent \in [T -> T \cup {Nil}] /\ Founded(T, parent)
  /\ base \in [T -> V] /\ step \in [T -> [V -> V]]

LEMMA ChainRecursion ==
  ASSUME NEW T, NEW Nil, NEW parent, NEW V, NEW base, NEW step,
         Recursion(T, Nil, parent, V, base, step)
  PROVE  \E f : Solves(T, f, parent, Nil, V, base, step)
<1> USE DEF Recursion
<1> DEFINE Sol(W, f) == Solves(W, f, parent, Nil, V, base, step)
           G == {t \in T : \E W \in SUBSET T : t \in W /\ \E f : Sol(W, f)}
<1>1. G = T
  <2>1. ASSUME NEW t \in T, parent[t] = Nil
        PROVE  t \in G
    <3> DEFINE f == [u \in {t} |-> base[t]]
    <3>1. Sol({t}, f)
      BY <2>1 DEF Solves
    <3> QED
      BY <3>1
  <2>2. ASSUME NEW t \in T, parent[t] \in G
        PROVE  t \in G
    <3>1. PICK W, f : W \in SUBSET T /\ parent[t] \in W /\ Sol(W, f)
      BY <2>2
    <3> DEFINE W2 == W \cup {t}
               g == [u \in W2 |-> IF u \in W THEN f[u] ELSE step[t][f[parent[t]]]]
    <3>2. f[parent[t]] \in V
      BY <3>1 DEF Solves
    <3>3. parent[t] # Nil
      BY <3>1
    <3>4. g \in [W2 -> V]
      BY <3>1, <3>2 DEF Solves
    <3>5. ASSUME NEW u \in W2
          PROVE  /\ parent[u] # Nil => parent[u] \in W2
                 /\ g[u] = IF parent[u] = Nil THEN base[u] ELSE step[u][g[parent[u]]]
      <4>1. CASE u \in W
        BY <3>1, <4>1 DEF Solves
      <4>2. CASE u \notin W
        <5>1. u = t /\ g[parent[t]] = f[parent[t]]
          BY <3>1, <4>2
        <5> QED
          BY <3>1, <3>3, <4>2, <5>1
      <4> QED
        BY <4>1, <4>2
    <3>6. Sol(W2, g)
      BY <3>4, <3>5 DEF Solves
    <3> QED
      BY <3>1, <3>6
  <2> SUFFICES ASSUME T \ G # {}
               PROVE  FALSE
    OBVIOUS
  <2>3. PICK t \in T \ G : parent[t] \notin T \ G
    BY DEF Founded
  <2> QED
    BY <2>1, <2>2, <2>3
<1> DEFINE Value(t, v) == \E W \in SUBSET T : t \in W /\ \E f : Sol(W, f) /\ v = f[t]
           h == [t \in T |-> CHOOSE v \in V : Value(t, v)]
<1>2. ASSUME NEW W \in SUBSET T, NEW f, Sol(W, f), NEW t \in W
      PROVE  h[t] = f[t] /\ h[t] \in V
  <2>1. f[t] \in V /\ Value(t, f[t])
    BY <1>2 DEF Solves
  <2>2. \A v : Value(t, v) => v = f[t]
    BY <1>2, SolutionsAgree
  <2> HIDE DEF Value
  <2> QED
    BY <2>1, <2>2
<1>3. ASSUME NEW t \in T
      PROVE  /\ h[t] \in V
             /\ h[t] = IF parent[t] = Nil THEN base[t] ELSE step[t][h[parent[t]]]
  <2>1. PICK W, f : W \in SUBSET T /\ t \in W /\ Sol(W, f)
    BY <1>1
  <2>2. h[t] = f[t] /\ h[t] \in V
    BY <1>2, <2>1
  <2>3. CASE parent[t] = Nil
    BY <2>1, <2>2, <2>3 DEF Solves
  <2>4. CASE parent[t] # Nil
    <3>1. parent[t] \in W
      BY <2>1, <2>4 DEF Solves
    <3> HIDE DEF h, Sol
    <3>2. h[parent[t]] = f[parent[t]]
      BY <1>2, <2>1, <3>1
    <3> QED
      BY <2>1, <2>2, <2>4, <3>2 DEF Sol, Solves
  <2> QED
    BY <2>3, <2>4
<1>4. h \in [T -> V]
  BY <1>3
<1> HIDE DEF h
<1>5. Solves(T, h, parent, Nil, V, base, step)
  BY <1>3, <1>4 DEF Solves
<1> QED
  BY <1>5

-----------------------------------------------------------------------------
(* A left fold, as the sequence of its intermediate values. *)

LEMMA MaxOfBounded ==
  ASSUME NEW n \in Nat, NEW s \in SUBSET (1..n), s # {}
  PROVE  Max(s) \in s /\ \A x \in s : x <= Max(s)
<1> DEFINE D == {n - x : x \in s}
<1>1. D \in SUBSET Nat /\ D # {}
  OBVIOUS
<1> HIDE DEF D
<1>2. PICK d \in D : \A e \in D : d <= e
  BY <1>1, LeastExists
<1>3. PICK m \in s : d = n - m
  BY <1>2 DEF D
<1>4. ASSUME NEW x \in s
      PROVE  m >= x
  <2>1. n - x \in D
    BY DEF D
  <2>2. d <= n - x
    BY <1>2, <2>1
  <2> QED
    BY <1>3, <2>2
<1>5. \E y \in s : \A x \in s : y >= x
  BY <1>4
<1>6. Max(s) \in s /\ \A x \in s : Max(s) >= x
  BY <1>5 DEF Max
<1> QED
  BY <1>6

\* The set of indices without its greatest.
Shorter(n) == [s \in SUBSET (1..n) |-> IF s = {} THEN {0} ELSE s \ {Max(s)}]

LEMMA ShorterFounded ==
  ASSUME NEW n \in Nat
  PROVE  /\ {0} \notin SUBSET (1..n)
         /\ Shorter(n) \in [SUBSET (1..n) -> (SUBSET (1..n)) \cup {{0}}]
         /\ Founded(SUBSET (1..n), Shorter(n))
<1> DEFINE T == SUBSET (1..n)
<1>1. {0} \notin T
  OBVIOUS
<1>2. Shorter(n) \in [T -> T \cup {{0}}]
  BY DEF Shorter
<1>3. ASSUME NEW S \in SUBSET T, S # {}
      PROVE  \E t \in S : Shorter(n)[t] \notin S
  <2>1. CASE {} \in S
    <3>1. Shorter(n)[{}] = {0}
      BY DEF Shorter
    <3> QED
      BY <1>1, <2>1, <3>1
  <2>2. CASE {} \notin S
    <3> DEFINE tops == {Max(t) : t \in S}
    <3>1. ASSUME NEW t \in S
          PROVE  Max(t) \in t /\ Max(t) \in Nat /\ \A x \in t : x <= Max(t)
      <4>1. t # {} /\ t \in SUBSET (1..n)
        BY <2>2
      <4>2. Max(t) \in t /\ \A x \in t : x <= Max(t)
        BY <4>1, MaxOfBounded
      <4>3. \A x \in t : x \in Nat
        BY <4>1
      <4> QED
        BY <4>2, <4>3
    <3>2. tops \in SUBSET Nat /\ tops # {}
      BY <1>3, <3>1
    <3> HIDE DEF tops
    <3>3. PICK m \in tops : \A k \in tops : m <= k
      BY <3>2, LeastExists
    <3>4. PICK t \in S : m = Max(t)
      BY <3>3 DEF tops
    <3>5. t \in T /\ t # {} /\ Shorter(n)[t] = t \ {Max(t)}
      BY <2>2, <3>4 DEF Shorter
    <3>6. ASSUME t \ {Max(t)} \in S
          PROVE  FALSE
      <4> DEFINE u == t \ {Max(t)}
      <4>1. Max(u) \in u /\ Max(u) \in tops
        BY <3>1, <3>6 DEF tops
      <4>2. Max(t) <= Max(u) /\ Max(u) <= Max(t) /\ Max(u) # Max(t)
        BY <3>1, <3>3, <3>4, <4>1
      <4>3. Max(t) \in Nat /\ Max(u) \in Nat
        BY <3>1, <3>6
      <4> HIDE DEF u
      <4> QED
        BY <4>2, <4>3
    <3> QED
      BY <3>4, <3>5, <3>6
  <2> QED
    BY <2>1, <2>2
<1> QED
  BY <1>1, <1>2, <1>3 DEF Founded

\* g is the recursion of MapThenFoldSet over the indices 1..n, greatest first.
Folds(g, n, base, step) ==
  g = [s \in SUBSET (1..n) |-> IF s = {} THEN base ELSE step[Max(s)][g[s \ {Max(s)}]]]

LEMMA FoldExists ==
  ASSUME NEW n \in Nat, NEW V, NEW base \in V, NEW step \in [1..n -> [V -> V]]
  PROVE  \E g : g \in [SUBSET (1..n) -> V] /\ Folds(g, n, base, step)
<1> DEFINE T == SUBSET (1..n)
           bases == [s \in T |-> base]
           steps == [s \in T |-> [v \in V |-> IF s = {} THEN v ELSE step[Max(s)][v]]]
<1>1. ASSUME NEW s \in T, s # {}
      PROVE  Max(s) \in 1..n
  BY <1>1, MaxOfBounded
<1>2. steps \in [T -> [V -> V]] /\ bases \in [T -> V]
  BY <1>1
<1>3. Recursion(T, {0}, Shorter(n), V, bases, steps)
  BY <1>2, ShorterFounded DEF Recursion
<1> HIDE DEF steps, bases
<1>4. PICK g : Solves(T, g, Shorter(n), {0}, V, bases, steps)
  BY <1>3, ChainRecursion
<1>5. ASSUME NEW s \in T
      PROVE  g[s] = IF s = {} THEN base ELSE step[Max(s)][g[s \ {Max(s)}]]
  <2>1. CASE s = {}
    <3>1. Shorter(n)[s] = {0}
      BY <2>1 DEF Shorter
    <3> QED
      BY <1>4, <2>1, <3>1 DEF Solves, bases
  <2>2. CASE s # {}
    <3>1. Shorter(n)[s] = s \ {Max(s)} /\ s \ {Max(s)} \in T
      BY <2>2 DEF Shorter
    <3>a. Shorter(n)[s] # {0}
      BY <3>1, ShorterFounded
    <3>2. g[s] = steps[s][g[s \ {Max(s)}]] /\ g[s \ {Max(s)}] \in V
      BY <1>4, <3>1, <3>a DEF Solves
    <3> QED
      BY <2>2, <3>2 DEF steps
  <2> QED
    BY <2>1, <2>2
<1>6. g \in [T -> V]
  BY <1>4 DEF Solves
<1> QED
  BY <1>5, <1>6 DEF Folds

LEMMA FirstIndices ==
  ASSUME NEW n \in Nat, NEW k \in 1..n
  PROVE  /\ 1..k \in SUBSET (1..n) /\ 1..k # {}
         /\ Max(1..k) = k /\ (1..k) \ {k} = 1..(k - 1)
<1>1. 1..k \in SUBSET (1..n) /\ (1..k) \ {k} = 1..(k - 1)
  OBVIOUS
<1>2. k \in 1..k
  OBVIOUS
<1>3. Max(1..k) \in 1..k /\ \A x \in 1..k : x <= Max(1..k)
  BY <1>1, <1>2, MaxOfBounded
<1> QED
  BY <1>1, <1>2, <1>3

-----------------------------------------------------------------------------
(* Sequences. *)

\* The first position of f in s, 0 if there is none.
FirstIndex(s, f) == LET I == {i \in 1..Len(s) : s[i] = f}
                    IN  IF I # {} THEN Min(I) ELSE 0

LEMMA FirstIndexFound ==
  ASSUME NEW N, NEW s \in Seq(N), NEW f
  PROVE  /\ FirstIndex(s, f) \in 0..Len(s)
         /\ f \in ToSet(s) => FirstIndex(s, f) > 0 /\ s[FirstIndex(s, f)] = f
         /\ f \notin ToSet(s) => FirstIndex(s, f) = 0
<1> DEFINE I == {i \in 1..Len(s) : s[i] = f}
<1>1. Len(s) \in Nat /\ DOMAIN s = 1..Len(s)
  BY LenProperties
<1>2. FirstIndex(s, f) = IF I # {} THEN Min(I) ELSE 0
  BY DEF FirstIndex
<1>3. I # {} => Min(I) \in I
  <2>1. I \in SUBSET Nat
    BY <1>1
  <2> HIDE DEF I
  <2> QED
    BY <2>1, MinOfNaturals
<1>4. I # {} <=> f \in ToSet(s)
  BY <1>1 DEF ToSet
<1>5. \A i \in I : i \in 1..Len(s) /\ s[i] = f
  OBVIOUS
<1> HIDE DEF I
<1> QED
  BY <1>1, <1>2, <1>3, <1>4, <1>5

LEMMA ConcatParts ==
  ASSUME NEW N, NEW a \in Seq(N), NEW b \in Seq(N)
  PROVE  /\ a \o b \in Seq(N) /\ Len(a \o b) = Len(a) + Len(b)
         /\ \A i \in 1..Len(a) : (a \o b)[i] = a[i]
         /\ \A i \in 1..Len(b) : (a \o b)[Len(a) + i] = b[i]
<1>1. Len(a) \in Nat /\ Len(b) \in Nat
  BY LenProperties
<1>2. /\ a \o b \in Seq(N)
      /\ Len(a \o b) = Len(a) + Len(b)
      /\ \A i \in 1..Len(a) + Len(b) :
           (a \o b)[i] = IF i <= Len(a) THEN a[i] ELSE b[i - Len(a)]
  BY ConcatProperties
<1>3. ASSUME NEW i \in 1..Len(b)
      PROVE  (a \o b)[Len(a) + i] = b[i]
  <2>1. Len(a) + i \in 1..Len(a) + Len(b) /\ ~(Len(a) + i <= Len(a)) /\ Len(a) + i - Len(a) = i
    BY <1>1
  <2> QED
    BY <1>2, <2>1
<1> QED
  BY <1>1, <1>2, <1>3

LEMMA SeqHas ==
  ASSUME NEW N, NEW s \in Seq(N), NEW f
  PROVE  f \in ToSet(s) <=> \E i \in 1..Len(s) : s[i] = f
<1>1. DOMAIN s = 1..Len(s)
  BY LenProperties
<1> QED
  BY <1>1 DEF ToSet

\* What Append, Front and Last do.
LEMMA PushedOn ==
  ASSUME NEW S, NEW q \in Seq(S), NEW e \in S
  PROVE  /\ Len(q) \in Nat /\ Append(q, e) \in Seq(S)
         /\ Len(Append(q, e)) = Len(q) + 1 /\ Append(q, e)[Len(q) + 1] = e
         /\ \A i \in 1..Len(q) : Append(q, e)[i] = q[i]
BY AppendProperties, LenProperties

LEMMA PoppedOff ==
  ASSUME NEW S, NEW q \in Seq(S), q # <<>>
  PROVE  /\ Front(q) \in Seq(S) /\ Last(q) \in S /\ Last(q) = q[Len(q)]
         /\ Len(q) \in Nat \ {0} /\ Len(Front(q)) = Len(q) - 1
         /\ \A i \in 1..Len(q) - 1 : Front(q)[i] = q[i]
<1>1. Len(q) \in Nat \ {0}
  BY EmptySeq
<1>2. PICK l \in Nat : l = Len(q) - 1
  BY <1>1
<1>3. \A i \in 1..l : q[i] \in S
  BY <1>1, <1>2, ElementOfSeq
<1>4. q[Len(q)] \in S
  BY <1>1, ElementOfSeq
<1>5. 1 \in Int /\ l \in Int
  BY <1>2
<1>6. /\ SubSeq(q, 1, l) \in Seq(S)
      /\ Len(SubSeq(q, 1, l)) = IF 1 <= l THEN l - 1 + 1 ELSE 0
      /\ \A i \in 1..l - 1 + 1 : SubSeq(q, 1, l)[i] = q[1 + i - 1]
  BY <1>3, <1>5, SubSeqProperties
<1>. QED
  BY <1>1, <1>2, <1>4, <1>6 DEF Front, Last

LEMMA PushedAs ==
  ASSUME NEW S, NEW q \in Seq(S), NEW e \in S, NEW r, r = Append(q, e), NEW n, n = Len(q)
  PROVE  /\ n \in Nat /\ r \in Seq(S) /\ r # <<>> /\ Len(r) = n + 1
         /\ r[n + 1] = e /\ Last(r) = e
         /\ \A i \in 1..n : r[i] = q[i]
<1>1. /\ n \in Nat /\ r \in Seq(S) /\ r # <<>> /\ Len(r) = n + 1 /\ r[n + 1] = e
      /\ \A i \in 1..n : r[i] = q[i]
  BY AppendProperties, LenProperties
<1>. QED
  BY <1>1 DEF Last

LEMMA PoppedAs ==
  ASSUME NEW S, NEW q \in Seq(S), q # <<>>, NEW r, r = Front(q), NEW n, n = Len(q) - 1
  PROVE  /\ n \in Nat /\ Len(q) = n + 1 /\ r \in Seq(S) /\ Len(r) = n
         /\ q[n + 1] \in S /\ Last(q) = q[n + 1]
         /\ \A i \in 1..n : r[i] = q[i]
BY PoppedOff

\* Sequences of which it does not matter what they hold.
IsList(t) == t \in Seq({t[i] : i \in DOMAIN t})

LEMMA ListOf ==
  ASSUME NEW S, NEW t \in Seq(S)
  PROVE  IsList(t)
<1> DEFINE R == {t[i] : i \in DOMAIN t}
<1>1. t \in [1..Len(t) -> S] /\ Len(t) \in Nat
  BY LenProperties
<1>2. \A i \in 1..Len(t) : t[i] \in R
  BY <1>1
<1> HIDE DEF R
<1>3. t \in [1..Len(t) -> R]
  BY <1>1, <1>2
<1>4. t \in Seq(R)
  BY <1>1, <1>3, SeqDef
<1> QED
  BY <1>4 DEF IsList, R

LEMMA ListIn ==
  ASSUME NEW t, IsList(t), NEW S, \A i \in DOMAIN t : t[i] \in S
  PROVE  t \in Seq(S)
<1> DEFINE R == {t[i] : i \in DOMAIN t}
<1>1. t \in Seq(R)
  BY DEF IsList
<1> HIDE DEF R
<1>2. t \in [1..Len(t) -> R] /\ Len(t) \in Nat /\ DOMAIN t = 1..Len(t)
  BY <1>1, LenProperties
<1>3. t \in [1..Len(t) -> S]
  BY <1>2
<1> QED
  BY <1>2, <1>3, SeqDef

LEMMA ListLength ==
  ASSUME NEW t, IsList(t)
  PROVE  Len(t) \in Nat /\ DOMAIN t = 1..Len(t) /\ (t = <<>> <=> Len(t) = 0)
BY LenProperties, EmptySeq DEF IsList

\* Two lists have a set in common that their elements are of.
LEMMA ListCommon ==
  ASSUME NEW t, IsList(t), NEW u, IsList(u)
  PROVE  \E S : t \in Seq(S) /\ u \in Seq(S)
<1>1. PICK S : S = {t[i] : i \in DOMAIN t} \cup {u[i] : i \in DOMAIN u}
  OBVIOUS
<1>2. \A i \in DOMAIN t : t[i] \in S
  BY <1>1
<1>3. \A i \in DOMAIN u : u[i] \in S
  BY <1>1
<1> QED
  BY <1>2, <1>3, ListIn

LEMMA Appended ==
  ASSUME NEW t, IsList(t), NEW e, NEW u, u = Append(t, e)
  PROVE  /\ IsList(u) /\ u # <<>> /\ u[Len(u)] = e /\ Len(u) = Len(t) + 1
         /\ \A i \in 1..Len(t) : u[i] = t[i]
<1>1. PICK S : S = {t[i] : i \in DOMAIN t} \cup {e}
  OBVIOUS
<1>2. \A i \in DOMAIN t : t[i] \in S
  BY <1>1
<1>3. t \in Seq(S) /\ e \in S
  BY <1>1, <1>2, ListIn
<1>4. PICK n : n = Len(t)
  OBVIOUS
<1>5. /\ u \in Seq(S) /\ u # <<>> /\ Len(u) = n + 1 /\ u[n + 1] = e
      /\ \A i \in 1..n : u[i] = t[i]
  BY <1>3, <1>4, PushedAs DEF Last
<1> QED
  BY <1>4, <1>5, ListOf

LEMMA ListsJoined ==
  ASSUME NEW t, IsList(t), NEW u, IsList(u), NEW r, r = t \o u
  PROVE  IsList(r) /\ Len(r) = Len(t) + Len(u)
<1>1. PICK S : t \in Seq(S) /\ u \in Seq(S)
  BY ListCommon
<1>2. r \in Seq(S) /\ Len(r) = Len(t) + Len(u)
  BY <1>1, ConcatProperties
<1> QED
  BY <1>2, ListOf

LEMMA Cut ==
  ASSUME NEW t, IsList(t), NEW m \in Nat, m <= Len(t), NEW r, r = SubSeq(t, 1, m)
  PROVE  IsList(r) /\ Len(r) = m /\ \A i \in 1..m : r[i] = t[i]
<1>1. PICK S : t \in Seq(S)
  BY DEF IsList
<1>2. Len(t) \in Nat
  BY <1>1, LenProperties
<1>3. \A i \in 1..m : t[i] \in S
  BY <1>1, <1>2, ElementOfSeq
<1>4. 1 \in Int /\ m \in Int
  OBVIOUS
<1>5. /\ SubSeq(t, 1, m) \in Seq(S)
      /\ Len(SubSeq(t, 1, m)) = IF 1 <= m THEN m - 1 + 1 ELSE 0
      /\ \A i \in 1..m - 1 + 1 : SubSeq(t, 1, m)[i] = t[1 + i - 1]
  BY <1>3, <1>4, SubSeqProperties
<1>6. IsList(r)
  BY <1>5, ListOf
<1> QED
  BY <1>5, <1>6

LEMMA Fronted ==
  ASSUME NEW t, IsList(t), t # <<>>, NEW r, r = Front(t)
  PROVE  /\ IsList(r) /\ Len(t) = Len(r) + 1
         /\ \A i \in 1..Len(r) : r[i] = t[i]
<1>1. PICK S : t \in Seq(S)
  BY DEF IsList
<1>2. /\ r \in Seq(S) /\ Len(t) \in Nat \ {0} /\ Len(r) = Len(t) - 1
      /\ \A i \in 1..Len(t) - 1 : r[i] = t[i]
  BY <1>1, PoppedOff DEF Last
<1> QED
  BY <1>2, ListOf

LEMMA Replaced ==
  ASSUME NEW t, IsList(t), t # <<>>, NEW e, NEW r, r = [t EXCEPT ![Len(t)] = e]
  PROVE  /\ IsList(r) /\ Len(r) = Len(t) /\ r[Len(t)] = e
         /\ \A i \in 1..Len(t) - 1 : r[i] = t[i]
<1>1. PICK S : S = {t[i] : i \in DOMAIN t} \cup {e}
  OBVIOUS
<1>2. \A i \in DOMAIN t : t[i] \in S
  BY <1>1
<1>3. t \in Seq(S) /\ e \in S
  BY <1>1, <1>2, ListIn
<1>4. Len(t) \in Nat \ {0} /\ DOMAIN t = 1..Len(t)
  BY ListLength
<1>5. r \in Seq(S) /\ Len(r) = Len(t)
  BY <1>3, <1>4, ExceptSeq
<1>6. r[Len(t)] = e /\ \A i \in 1..Len(t) - 1 : r[i] = t[i]
  BY <1>4
<1> QED
  BY <1>5, <1>6, ListOf
=============================================================================
