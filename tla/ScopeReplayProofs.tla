-------------------------- MODULE ScopeReplayProofs --------------------------
(***************************************************************************)
(* Proofs about ScopeReplay, for programs of any size and either backend,  *)
(* and, from IsType on, about ExpressionTypes, for any classes, functions  *)
(* and declarations and expressions of any depth.                          *)
(***************************************************************************)
EXTENDS ScopeReplay, ExpressionTypes, RecursionTheorems

-----------------------------------------------------------------------------
(* The inductive invariant. *)

Kinds == Scoped \cup {"exit", "var"}

EventType == [kind : Kinds, name : Names \cup {Null}, type : Values \cup {Null}]

Shapes ==
  /\ phase \in {"check", "middle", "emit", "done", "undefined"}
  /\ scopes \in Seq(Int) /\ Len(scopes) >= 1
  /\ events \in Seq(EventType)
  /\ trace \in Seq([curr : Int, next : Int])
  /\ Len(trace) = Len(events)
  /\ open \in Seq([kind : Scoped, scope : Int])
  /\ pos \in 0..Len(events)
  /\ curr_scope \in Int /\ next_id \in Int

\* What event k did to the manager in the first pass, in terms of the scopes
\* as they are now. Every scope it handed out still exists.
Explained(k) ==
  /\ trace[k].curr \in 0..Len(scopes) - 1
  /\ trace[k].next \in 1..Len(scopes)
  /\ events[k].kind \in Scoped =>
       trace[k] = [curr |-> At(k - 1).next, next |-> At(k - 1).next + 1]
  /\ events[k].kind = "exit" =>
       trace[k] = [curr |-> Parent(At(k - 1).curr), next |-> At(k - 1).next]
  /\ events[k].kind = "var" => trace[k] = At(k - 1)

TraceExplained == \A k \in 1..Len(events) : Explained(k)

\* The scope of the statement the first pass was in, i statements deep.
OpenScope(i) == IF i = 0 THEN 0 ELSE open[i].scope

\* The first pass has created every scope it handed out, and the statements it
\* is in are a path of the scope tree.
CheckInv ==
  phase = "check" =>
    /\ next_id = Len(scopes)
    /\ [curr |-> curr_scope, next |-> next_id] = At(Len(events))
    /\ curr_scope = OpenScope(Len(open))
    /\ \A i \in 1..Len(open) : /\ open[i].scope \in 1..Len(scopes) - 1
                               /\ Parent(open[i].scope) = OpenScope(i - 1)

\* The middle pass never hands out more ids than the first had by then.
MiddleInv == phase = "middle" => next_id \in 1..At(pos).next

EmitInv ==
  phase = "emit" =>
    /\ [curr |-> curr_scope, next |-> next_id] = At(pos)
    /\ \A i \in 1..Len(open) : open[i].scope # -1

IInv == Shapes /\ TraceExplained /\ CheckInv /\ MiddleInv /\ EmitInv

-----------------------------------------------------------------------------
(* The trace. *)

LEMMA AtInBounds ==
  ASSUME Shapes, TraceExplained, NEW k \in 0..Len(events)
  PROVE  /\ At(k) \in [curr : Int, next : Int]
         /\ At(k).curr \in 0..Len(scopes) - 1
         /\ At(k).next \in 1..Len(scopes)
<1>1. CASE k = 0
  BY <1>1 DEF Shapes, At
<1>2. CASE k # 0
  <2>1. k \in 1..Len(events) /\ At(k) = trace[k]
    BY <1>2 DEF Shapes, At
  <2>2. trace[k] \in [curr : Int, next : Int]
    BY <2>1, ElementOfSeq DEF Shapes
  <2> QED
    BY <2>1, <2>2 DEF TraceExplained, Explained
<1> QED
  BY <1>1, <1>2

(* Recording one more event, and perhaps creating one more scope, leaves what
   is known of the earlier events as it is. *)
LEMMA TraceKept ==
  ASSUME Shapes, TraceExplained, NEW e, NEW r, NEW p \in Int,
         events' = Append(events, e), trace' = Append(trace, r),
         scopes' = scopes \/ scopes' = Append(scopes, p)
  PROVE  /\ \A k \in 0..Len(events) : At(k)' = At(k)
         /\ \A k \in 1..Len(events) : Explained(k)'
<1>1. /\ Len(events) \in Nat /\ Len(trace) = Len(events) /\ Len(scopes) \in Nat
      /\ \A k \in 1..Len(events) : events'[k] = events[k] /\ trace'[k] = trace[k]
  BY AppendProperties, LenProperties DEF Shapes
<1>2. /\ Len(scopes') >= Len(scopes) /\ Len(scopes') \in Nat
      /\ \A i \in 0..Len(scopes) - 1 : Parent(i)' = Parent(i)
  <2>1. CASE scopes' = scopes
    BY <1>1, <2>1 DEF Parent
  <2>2. CASE scopes' = Append(scopes, p)
    BY <1>1, <2>2, AppendProperties DEF Shapes, Parent
  <2> QED
    BY <2>1, <2>2
<1>3. ASSUME NEW k \in 0..Len(events)
      PROVE  At(k)' = At(k)
  BY <1>1, <1>3 DEF At
<1>4. ASSUME NEW k \in 1..Len(events)
      PROVE  Explained(k)'
  <2>1. Explained(k) /\ events'[k] = events[k] /\ trace'[k] = trace[k]
    BY <1>1, <1>4 DEF TraceExplained
  <2>2. k - 1 \in 0..Len(events) /\ At(k - 1)' = At(k - 1)
    BY <1>1, <1>3, <1>4
  <2>3. At(k - 1).curr \in 0..Len(scopes) - 1
    BY <2>2, AtInBounds
  <2>4. Parent(At(k - 1).curr)' = Parent(At(k - 1).curr)
    BY <1>2, <2>2, <2>3
  <2> QED
    BY <1>1, <1>2, <2>1, <2>2, <2>4 DEF Explained
<1> QED
  BY <1>3, <1>4

-----------------------------------------------------------------------------
(* Sequences. *)

LEMMA Pop ==
  ASSUME NEW S, NEW q \in Seq(S), q # <<>>
  PROVE  /\ Front(q) \in Seq(S) /\ Last(q) \in S /\ Last(q) = q[Len(q)]
         /\ Len(q) \in Nat /\ Len(q) >= 1 /\ Len(Front(q)) = Len(q) - 1
         /\ \A i \in 1..Len(q) - 1 : Front(q)[i] = q[i]
<1>1. Len(q) \in Nat /\ Len(q) > 0
  BY EmptySeq, LenProperties
<1>2. \A i \in 1..Len(q) - 1 : q[i] \in S
  BY <1>1, ElementOfSeq
<1>3. q[Len(q)] \in S
  BY <1>1, ElementOfSeq
<1>4. PICK l \in Nat : l = Len(q) - 1
  BY <1>1
<1>5. SubSeq(q, 1, l) \in Seq(S)
  BY <1>2, <1>4, SubSeqProperties
<1>6. Len(SubSeq(q, 1, l)) = l
  BY <1>2, <1>4, SubSeqProperties
<1>7. \A i \in 1..l : SubSeq(q, 1, l)[i] = q[i]
  <2>1. \A i \in 1..l - 1 + 1 : SubSeq(q, 1, l)[i] = q[1 + i - 1]
    BY <1>2, <1>4, SubSeqProperties
  <2> QED
    BY <1>4, <2>1
<1>8. Front(q) = SubSeq(q, 1, l) /\ Last(q) = q[Len(q)]
  BY <1>4 DEF Front, Last
<1> QED
  BY <1>1, <1>3, <1>4, <1>5, <1>6, <1>7, <1>8

LEMMA Push ==
  ASSUME NEW S, NEW q \in Seq(S), NEW x \in S, NEW n, n = Len(q)
  PROVE  /\ n \in Nat /\ Append(q, x) \in Seq(S)
         /\ Len(Append(q, x)) = n + 1 /\ Append(q, x)[n + 1] = x
         /\ \A i \in 1..n : Append(q, x)[i] = q[i]
  BY AppendProperties, LenProperties

-----------------------------------------------------------------------------
(* The first pass. *)

(* One more event with what it did to the manager. *)
LEMMA Recording ==
  ASSUME Shapes, TraceExplained, NEW n, n = Len(events),
         NEW e \in EventType, NEW r \in [curr : Int, next : Int], NEW p \in Int,
         At(n) = [curr |-> curr_scope, next |-> next_id],
         events' = Append(events, e), trace' = Append(trace, r),
         scopes' = scopes \/ scopes' = Append(scopes, p),
         r.curr \in 0..Len(scopes') - 1, r.next \in 1..Len(scopes'),
         e.kind \in Scoped => r = [curr |-> next_id, next |-> next_id + 1],
         e.kind = "exit" => /\ scopes' = scopes
                            /\ r = [curr |-> Parent(curr_scope), next |-> next_id],
         e.kind = "var" => r = [curr |-> curr_scope, next |-> next_id]
  PROVE  /\ events' \in Seq(EventType) /\ trace' \in Seq([curr : Int, next : Int])
         /\ n \in Nat /\ Len(events') = n + 1 /\ Len(trace') = n + 1
         /\ TraceExplained'
         /\ At(n + 1)' = r
<1>1. /\ n \in Nat /\ events' \in Seq(EventType)
      /\ Len(events') = n + 1 /\ events'[n + 1] = e
  BY Push DEF Shapes, EventType
<1>2. /\ trace' \in Seq([curr : Int, next : Int])
      /\ Len(trace') = n + 1 /\ trace'[n + 1] = r
  BY Push DEF Shapes
<1>3. /\ \A j \in 0..n : At(j)' = At(j)
      /\ \A j \in 1..n : Explained(j)'
  BY TraceKept
<1>4. At(n + 1 - 1)' = [curr |-> curr_scope, next |-> next_id]
  <2>1. n + 1 - 1 = n
    BY <1>1
  <2>2. At(n)' = At(n)
    BY <1>1, <1>3
  <2> QED
    BY <2>1, <2>2
<1>5. ASSUME NEW k \in Nat, k = n + 1
      PROVE  Explained(k)'
  <2>1. /\ trace'[k].curr \in 0..Len(scopes') - 1
        /\ trace'[k].next \in 1..Len(scopes')
    BY <1>2, <1>5
  <2>2. events'[k] = e /\ trace'[k] = r
    BY <1>1, <1>2, <1>5
  <2>3. At(k - 1)' = [curr |-> curr_scope, next |-> next_id]
    BY <1>1, <1>4, <1>5
  <2> QED
    BY <2>1, <2>2, <2>3 DEF Explained, Parent
<1>6. TraceExplained'
  <2>1. ASSUME NEW j \in 1..n + 1
        PROVE  Explained(j)'
    BY <1>1, <1>3, <1>5, <2>1
  <2> QED
    BY <1>1, <2>1 DEF TraceExplained
<1>7. At(n + 1)' = r
  BY <1>1, <1>2 DEF At
<1> QED
  BY <1>1, <1>2, <1>6, <1>7

LEMMA CheckEnterStep ==
  ASSUME IInv, NEW k \in Scoped, CheckEnter(k)
  PROVE  IInv'
<1> DEFINE r == [curr |-> next_id, next |-> next_id + 1]
           o == [kind |-> k, scope |-> next_id]
           e == Event(k, Null, Null)
<1>1. /\ phase = "check" /\ next_id = Len(scopes) /\ Len(scopes) \in Nat
      /\ curr_scope' = next_id /\ next_id' = next_id + 1
      /\ scopes' = Append(scopes, curr_scope)
      /\ events' = Append(events, e) /\ trace' = Append(trace, r)
      /\ open' = Append(open, o)
      /\ UNCHANGED <<phase, pos>>
  BY LenProperties DEF CheckEnter, Enter, Record, CheckInv, Shapes, IInv
<1>n. PICK n \in Nat : n = Len(events)
  BY LenProperties DEF Shapes, IInv
<1>d. PICK d \in Nat : d = Len(open)
  BY LenProperties DEF Shapes, IInv
<1>o. \A i \in 1..d : /\ open[i].scope \in 1..Len(scopes) - 1
                     /\ Parent(open[i].scope) = OpenScope(i - 1)
  BY <1>1, <1>d DEF CheckInv, IInv
<1>2. /\ e \in EventType /\ e.kind = k /\ k # "exit" /\ k # "var"
      /\ r \in [curr : Int, next : Int] /\ o \in [kind : Scoped, scope : Int]
  BY DEF Event, EventType, Kinds, Scoped, Shapes, IInv
<1>3. /\ scopes' \in Seq(Int) /\ Len(scopes') = Len(scopes) + 1
      /\ scopes'[next_id + 1] = curr_scope
      /\ \A i \in 1..Len(scopes) : scopes'[i] = scopes[i]
  BY <1>1, Push DEF Shapes, IInv
<1>4. /\ open' \in Seq([kind : Scoped, scope : Int])
      /\ Len(open') = d + 1 /\ open'[d + 1] = o
      /\ \A i \in 1..d : open'[i] = open[i]
  BY <1>1, <1>2, <1>d, Push DEF Shapes, IInv
<1>5. /\ events' \in Seq(EventType) /\ trace' \in Seq([curr : Int, next : Int])
      /\ Len(events') = n + 1 /\ Len(trace') = n + 1
      /\ TraceExplained' /\ At(n + 1)' = r
  <2>1. At(n) = [curr |-> curr_scope, next |-> next_id]
    BY <1>1, <1>n DEF CheckInv, IInv
  <2>2. r.curr \in 0..Len(scopes') - 1 /\ r.next \in 1..Len(scopes')
    BY <1>1, <1>3 DEF Shapes, IInv
  <2>3. Shapes /\ TraceExplained /\ curr_scope \in Int
    BY DEF Shapes, IInv
  <2> HIDE DEF r, e
  <2>4. e.kind \in Scoped => r = [curr |-> next_id, next |-> next_id + 1]
    BY DEF r
  <2> QED
    BY <1>1, <1>2, <1>n, <2>1, <2>2, <2>3, <2>4, Recording
<1>6. Shapes'
  BY <1>1, <1>n, <1>3, <1>4, <1>5 DEF Shapes, IInv
<1>7. CheckInv'
  <2>1. ASSUME NEW i \in 0..d
        PROVE  OpenScope(i)' = OpenScope(i)
    BY <1>4, <2>1 DEF OpenScope
  <2>2. ASSUME NEW i \in 1..d + 1
        PROVE  /\ open'[i].scope \in 1..Len(scopes') - 1
               /\ Parent(open[i].scope)' = OpenScope(i - 1)'
    <3>0. i - 1 \in 0..d /\ OpenScope(i - 1)' = OpenScope(i - 1)
      BY <2>1, <2>2
    <3>1. CASE i = d + 1
      <4>1. open'[i].scope = next_id /\ OpenScope(i - 1) = curr_scope
        BY <1>1, <1>4, <1>d, <3>1 DEF CheckInv, IInv
      <4>2. next_id \in 1..Len(scopes') - 1
        BY <1>1, <1>3 DEF Shapes, IInv
      <4>3. Parent(open[i].scope)' = curr_scope
        BY <1>3, <4>1 DEF Parent
      <4> QED
        BY <3>0, <4>1, <4>2, <4>3
    <3>2. CASE i # d + 1
      <4>1. /\ open'[i] = open[i]
            /\ open[i].scope \in 1..Len(scopes) - 1
            /\ Parent(open[i].scope) = OpenScope(i - 1)
        BY <1>4, <1>o, <2>2, <3>2
      <4>2. PICK s \in 1..Len(scopes) - 1 : s = open[i].scope
        BY <4>1
      <4>3. s \in 1..Len(scopes') - 1 /\ s + 1 \in 1..Len(scopes)
        BY <1>1, <1>3
      <4>4. Parent(open[i].scope)' = Parent(open[i].scope)
        BY <1>3, <4>1, <4>2, <4>3 DEF Parent
      <4> QED
        BY <3>0, <4>1, <4>2, <4>3, <4>4
    <3> QED
      BY <3>1, <3>2
  <2>3. curr_scope' = OpenScope(Len(open))'
    BY <1>1, <1>4, <1>d DEF OpenScope
  <2>4. [curr |-> curr_scope, next |-> next_id]' = At(Len(events))'
    BY <1>1, <1>5
  <2> QED
    BY <1>1, <1>3, <1>4, <2>2, <2>3, <2>4 DEF CheckInv
<1> QED
  BY <1>1, <1>5, <1>6, <1>7 DEF IInv, MiddleInv, EmitInv

LEMMA CheckExitStep ==
  ASSUME IInv, CheckExit
  PROVE  IInv'
<1> DEFINE r == [curr |-> Parent(curr_scope), next |-> next_id]
           e == Event("exit", Null, Null)
<1>1. /\ phase = "check" /\ next_id = Len(scopes) /\ Len(scopes) \in Nat
      /\ open # <<>> /\ open' = Front(open)
      /\ curr_scope' = Parent(curr_scope)
      /\ events' = Append(events, e) /\ trace' = Append(trace, r)
      /\ UNCHANGED <<phase, pos, scopes, next_id>>
  BY LenProperties DEF CheckExit, Exit, Record, CheckInv, Shapes, IInv
<1>n. PICK n \in Nat : n = Len(events)
  BY LenProperties DEF Shapes, IInv
<1>d. PICK d \in Nat : d = Len(open)
  BY LenProperties DEF Shapes, IInv
<1>o. \A i \in 1..d : /\ open[i].scope \in 1..Len(scopes) - 1
                     /\ Parent(open[i].scope) = OpenScope(i - 1)
  BY <1>1, <1>d DEF CheckInv, IInv
<1>2. /\ d >= 1 /\ open' \in Seq([kind : Scoped, scope : Int]) /\ Len(open') = d - 1
      /\ \A i \in 1..d - 1 : open'[i] = open[i]
  BY <1>1, <1>d, Pop DEF Shapes, IInv
<1>3. /\ curr_scope = open[d].scope /\ Parent(curr_scope) = OpenScope(d - 1)
      /\ curr_scope' = OpenScope(d - 1)
  <2>1. /\ curr_scope = OpenScope(d)
        /\ Parent(open[d].scope) = OpenScope(d - 1)
    BY <1>1, <1>2, <1>d, <1>o DEF CheckInv, IInv
  <2>2. OpenScope(d) = open[d].scope
    BY <1>2, <1>d DEF OpenScope
  <2> QED
    BY <1>1, <2>1, <2>2
<1>4. curr_scope' \in 0..Len(scopes) - 1
  <2>1. CASE d - 1 = 0
    BY <1>1, <1>3, <2>1 DEF OpenScope, Shapes, IInv
  <2>2. CASE d - 1 # 0
    <3>1. PICK c \in 1..d : c = d - 1
      BY <1>2, <2>2
    <3>2. open[c].scope \in 1..Len(scopes) - 1
      BY <1>o
    <3>3. OpenScope(c) = open[c].scope
      BY <2>2, <3>1 DEF OpenScope
    <3> QED
      BY <1>1, <1>3, <3>1, <3>2, <3>3
  <2> QED
    BY <2>1, <2>2
<1>5. /\ e \in EventType /\ e.kind = "exit" /\ "exit" \notin Scoped
      /\ r \in [curr : Int, next : Int]
  BY <1>1, <1>4 DEF Event, EventType, Kinds, Scoped, Shapes, IInv
<1>6. /\ events' \in Seq(EventType) /\ trace' \in Seq([curr : Int, next : Int])
      /\ Len(events') = n + 1 /\ Len(trace') = n + 1
      /\ TraceExplained' /\ At(n + 1)' = r
  <2>1. At(n) = [curr |-> curr_scope, next |-> next_id]
    BY <1>1, <1>n DEF CheckInv, IInv
  <2>2. r.curr \in 0..Len(scopes') - 1 /\ r.next \in 1..Len(scopes')
    BY <1>1, <1>4 DEF Shapes, IInv
  <2>3. Shapes /\ TraceExplained /\ curr_scope \in Int
    BY DEF Shapes, IInv
  <2>4. r = [curr |-> Parent(curr_scope), next |-> next_id]
    OBVIOUS
  <2> HIDE DEF r, e
  <2> QED
    BY <1>1, <1>5, <1>n, <2>1, <2>2, <2>3, <2>4, Recording
<1>7. Shapes'
  BY <1>1, <1>n, <1>2, <1>4, <1>6 DEF Shapes, IInv
<1>8. CheckInv'
  <2>1. ASSUME NEW i \in 0..d - 1
        PROVE  OpenScope(i)' = OpenScope(i)
    BY <1>2, <2>1 DEF OpenScope
  <2>2. ASSUME NEW i \in 1..d - 1
        PROVE  /\ open'[i].scope \in 1..Len(scopes') - 1
               /\ Parent(open[i].scope)' = OpenScope(i - 1)'
    <3>0. i \in 1..d /\ open'[i] = open[i]
      BY <1>2, <2>2
    <3>1. /\ open[i].scope \in 1..Len(scopes) - 1
          /\ Parent(open[i].scope) = OpenScope(i - 1)
      BY <1>o, <3>0
    <3>2. i - 1 \in 0..d - 1 /\ OpenScope(i - 1)' = OpenScope(i - 1)
      BY <2>1, <2>2
    <3> QED
      BY <1>1, <3>0, <3>1, <3>2 DEF Parent
  <2>3. curr_scope' = OpenScope(Len(open))'
    <3>1. PICK l \in 0..d - 1 : l = d - 1
      BY <1>2
    <3>2. OpenScope(l)' = OpenScope(l) /\ curr_scope' = OpenScope(l)
      BY <1>3, <2>1, <3>1
    <3> QED
      BY <1>2, <3>1, <3>2
  <2>4. [curr |-> curr_scope, next |-> next_id]' = At(Len(events))'
    BY <1>1, <1>6
  <2> QED
    BY <1>1, <1>2, <2>2, <2>3, <2>4 DEF CheckInv
<1> QED
  BY <1>1, <1>6, <1>7, <1>8 DEF IInv, MiddleInv, EmitInv

LEMMA CheckVarStep ==
  ASSUME IInv, NEW m \in Names, NEW t \in Values, CheckVar(m, t)
  PROVE  IInv'
<1> DEFINE r == [curr |-> curr_scope, next |-> next_id]
           e == Event("var", m, t)
<1>1. /\ phase = "check"
      /\ events' = Append(events, e) /\ trace' = Append(trace, r)
      /\ UNCHANGED <<phase, pos, scopes, curr_scope, next_id, open>>
  BY DEF CheckVar, Record
<1>n. PICK n \in Nat : n = Len(events)
  BY LenProperties DEF Shapes, IInv
<1>2. /\ e \in EventType /\ e.kind = "var" /\ "var" \notin Scoped
      /\ r \in [curr : Int, next : Int]
  BY <1>1 DEF Event, EventType, Kinds, Scoped, Shapes, IInv
<1>3. /\ events' \in Seq(EventType) /\ trace' \in Seq([curr : Int, next : Int])
      /\ Len(events') = n + 1 /\ Len(trace') = n + 1
      /\ TraceExplained' /\ At(n + 1)' = r
  <2>1. At(n) = [curr |-> curr_scope, next |-> next_id]
    BY <1>1, <1>n DEF CheckInv, IInv
  <2>2. n \in 0..Len(events) /\ r = At(n)
    BY <1>n, <2>1
  <2>3. r.curr \in 0..Len(scopes') - 1 /\ r.next \in 1..Len(scopes')
    BY <1>1, <2>2, AtInBounds DEF IInv
  <2>4. Shapes /\ TraceExplained /\ curr_scope \in Int
    BY DEF Shapes, IInv
  <2>5. r = [curr |-> curr_scope, next |-> next_id]
    OBVIOUS
  <2> HIDE DEF r, e
  <2> QED
    BY <1>1, <1>2, <1>n, <2>1, <2>3, <2>4, <2>5, Recording
<1>4. Shapes'
  BY <1>1, <1>n, <1>3 DEF Shapes, IInv
<1>5. CheckInv'
  <2>1. [curr |-> curr_scope, next |-> next_id]' = At(Len(events))'
    BY <1>1, <1>3
  <2> QED
    BY <1>1, <2>1 DEF CheckInv, OpenScope, Parent, IInv
<1> QED
  BY <1>1, <1>3, <1>4, <1>5 DEF IInv, MiddleInv, EmitInv

-----------------------------------------------------------------------------
(* The later passes. They record nothing. *)

\* A pass that records nothing and creates no scope disturbs no explanation.
LEMMA TraceUnchanged ==
  ASSUME TraceExplained, UNCHANGED <<scopes, events, trace>>
  PROVE  TraceExplained' /\ \A k \in Nat : At(k)' = At(k)
  BY DEF TraceExplained, Explained, At, Parent

LEMMA FinishStep ==
  ASSUME IInv, FinishCheck \/ FinishMiddle \/ FinishEmit
  PROVE  IInv'
<1>1. UNCHANGED <<scopes, events, trace>>
  BY DEF FinishCheck, FinishMiddle, FinishEmit, Reset, scopeVars
<1>2. TraceExplained' /\ \A k \in Nat : At(k)' = At(k)
  BY <1>1, TraceUnchanged DEF IInv
<1>3. Len(events) \in Nat
  BY LenProperties DEF Shapes, IInv
<1>4. CASE FinishCheck
  BY <1>1, <1>2, <1>3, <1>4
     DEF FinishCheck, Reset, IInv, Shapes, CheckInv, MiddleInv, EmitInv, At
<1>5. CASE FinishMiddle
  BY <1>1, <1>2, <1>3, <1>5, EmptySeq
     DEF FinishMiddle, Reset, IInv, Shapes, CheckInv, MiddleInv, EmitInv, At
<1>6. CASE FinishEmit
  BY <1>1, <1>2, <1>6
     DEF FinishEmit, scopeVars, IInv, Shapes, CheckInv, MiddleInv, EmitInv
<1> QED
  BY <1>4, <1>5, <1>6

\* What event pos + 1 did to the manager in the first pass.
LEMMA NextEvent ==
  ASSUME IInv, pos < Len(events)
  PROVE  /\ pos \in 0..Len(events) /\ pos + 1 \in 1..Len(events)
         /\ events[pos + 1].kind \in Scoped =>
              At(pos + 1) = [curr |-> At(pos).next, next |-> At(pos).next + 1]
         /\ events[pos + 1].kind = "exit" =>
              At(pos + 1) = [curr |-> Parent(At(pos).curr), next |-> At(pos).next]
         /\ events[pos + 1].kind = "var" => At(pos + 1) = At(pos)
<1>1. pos \in 0..Len(events) /\ Len(events) \in Nat
  BY LenProperties DEF IInv, Shapes
<1>2. PICK k \in 1..Len(events) : k = pos + 1
  BY <1>1
<1>3. Explained(k)
  BY DEF IInv, TraceExplained
<1>4. At(k) = trace[k]
  BY DEF At
<1>5. PICK q \in Int : q = k - 1
  OBVIOUS
<1>6. /\ events[k].kind \in Scoped =>
           At(k) = [curr |-> At(q).next, next |-> At(q).next + 1]
      /\ events[k].kind = "exit" =>
           At(k) = [curr |-> Parent(At(q).curr), next |-> At(q).next]
      /\ events[k].kind = "var" => At(k) = At(q)
  BY <1>3, <1>4, <1>5 DEF Explained
<1>7. q = pos
  BY <1>1, <1>2, <1>5
<1> QED
  BY <1>1, <1>2, <1>6, <1>7

LEMMA WalkEnterStep ==
  ASSUME IInv, NEW k \in Scoped, WalkEnter(k)
  PROVE  IInv' /\ UNCHANGED scopes
<1> DEFINE here == At(pos)
           there == At(pos + 1)
<1>1. /\ phase \in {"middle", "emit"} /\ pos < Len(events) /\ events[pos + 1].kind = k
      /\ pos' = pos + 1 /\ UNCHANGED <<phase, events, trace>>
  BY DEF WalkEnter, Walk
<1>2. /\ pos \in Nat /\ pos + 1 \in 1..Len(events) /\ Len(scopes) \in Nat
      /\ here.next \in 1..Len(scopes) /\ there.next \in 1..Len(scopes)
      /\ there = [curr |-> here.next, next |-> here.next + 1]
      /\ here \in [curr : Int, next : Int]
  <2>1. pos \in 0..Len(events) /\ pos + 1 \in 0..Len(events) /\ pos \in Nat
    BY <1>1, NextEvent
  <2> QED
    <3>1. TraceExplained /\ Shapes /\ Len(scopes) \in Nat
      BY LenProperties DEF IInv, Shapes
    <3>2. here \in [curr : Int, next : Int] /\ here.next \in 1..Len(scopes)
      BY <2>1, <3>1, AtInBounds
    <3>3. there.next \in 1..Len(scopes)
      BY <2>1, <3>1, AtInBounds
    <3>4. there = [curr |-> here.next, next |-> here.next + 1]
      BY <1>1, NextEvent
    <3> QED
      BY <1>1, <2>1, <3>1, <3>2, <3>3, <3>4, NextEvent
<1>3. next_id \in 1..here.next /\ next_id < Len(scopes)
  <2>1. next_id \in 1..here.next
    BY <1>1, <1>2 DEF IInv, MiddleInv, EmitInv
  <2>2. here.next + 1 \in 1..Len(scopes)
    BY <1>2
  <2> QED
    BY <1>2, <2>1, <2>2
<1>4. UNCHANGED scopes
  BY <1>2, <1>3 DEF WalkEnter, Enter, scopeVars
<1>5. /\ curr_scope' \in Int /\ next_id' \in 1..next_id + 1
      /\ \E s \in Int : open' = Append(open, [kind |-> k, scope |-> s])
  <2>1. curr_scope \in Int /\ next_id \in Nat \ {0}
    BY <1>3 DEF IInv, Shapes
  <2>2. CASE Enters(k)
    BY <2>1, <2>2 DEF WalkEnter, Enter
  <2>3. CASE ~Enters(k)
    BY <2>1, <2>3 DEF WalkEnter, scopeVars
  <2> QED
    BY <2>2, <2>3
<1>6. open' \in Seq([kind : Scoped, scope : Int])
  BY <1>5, AppendProperties DEF IInv, Shapes
<1>7. TraceExplained' /\ \A j \in Nat : At(j)' = At(j)
  BY <1>1, <1>4, TraceUnchanged DEF IInv
<1>8. PICK p \in Nat : p = pos + 1
  BY <1>2
<1>9. At(p)' = there
  BY <1>7, <1>8
<1>10. Shapes'
  BY <1>1, <1>2, <1>3, <1>4, <1>5, <1>6 DEF IInv, Shapes
<1>11. MiddleInv'
  <2>1. next_id' \in 1..there.next
    BY <1>2, <1>3, <1>5
  <2> QED
    BY <1>1, <1>8, <1>9, <2>1 DEF MiddleInv
<1>12. EmitInv'
  <2> SUFFICES ASSUME phase = "emit"
               PROVE  EmitInv'
    BY <1>1 DEF EmitInv
  <2>1. [curr |-> curr_scope, next |-> next_id] = here
    BY DEF EmitInv, IInv
  <2>2. /\ curr_scope' = next_id /\ next_id' = next_id + 1
        /\ open' = Append(open, [kind |-> k, scope |-> next_id])
    BY DEF WalkEnter, Enters, Enter
  <2>3. [curr |-> curr_scope, next |-> next_id]' = there
    BY <1>2, <2>1, <2>2
  <2>4. PICK d \in Nat : d = Len(open)
    BY LenProperties DEF IInv, Shapes
  <2>5. /\ Len(open') = d + 1 /\ open'[d + 1].scope # -1
        /\ \A i \in 1..d : open'[i] = open[i]
    <3>1. [kind |-> k, scope |-> next_id] \in [kind : Scoped, scope : Int]
      BY <1>3
    <3>2. /\ Len(open') = d + 1 /\ open'[d + 1] = [kind |-> k, scope |-> next_id]
          /\ \A i \in 1..d : open'[i] = open[i]
      BY <2>2, <2>4, <3>1, Push DEF IInv, Shapes
    <3> QED
      BY <1>3, <3>2
  <2>6. \A i \in 1..Len(open') : open'[i].scope # -1
    BY <2>4, <2>5 DEF EmitInv, IInv
  <2> QED
    BY <1>1, <1>8, <1>9, <2>3, <2>6 DEF EmitInv
<1> QED
  BY <1>1, <1>4, <1>7, <1>10, <1>11, <1>12 DEF IInv, CheckInv

LEMMA WalkExitStep ==
  ASSUME IInv, WalkExit
  PROVE  IInv' /\ UNCHANGED scopes
<1> DEFINE here == At(pos)
           there == At(pos + 1)
<1>1. /\ phase \in {"middle", "emit"} /\ pos < Len(events) /\ events[pos + 1].kind = "exit"
      /\ pos' = pos + 1 /\ UNCHANGED <<events, trace>>
      /\ open # <<>> /\ open' = Front(open)
      /\ phase' = phase \/ phase' = "undefined"
      /\ UNCHANGED <<scopes, next_id>>
      /\ curr_scope' = curr_scope \/ curr_scope' = Parent(curr_scope)
  BY DEF WalkExit, Walk, GoesAstray, InProgram, Exit, scopeVars
<1>2. /\ pos \in 0..Len(events) /\ pos + 1 \in 1..Len(events) /\ Len(scopes) \in Nat
      /\ there = [curr |-> Parent(here.curr), next |-> here.next]
      /\ here.curr \in 0..Len(scopes) - 1
  <2>1. pos \in 0..Len(events) /\ pos + 1 \in 1..Len(events) /\ Len(scopes) \in Nat
    BY <1>1, NextEvent, LenProperties DEF IInv, Shapes
  <2>2. there = [curr |-> Parent(here.curr), next |-> here.next]
    BY <1>1, NextEvent
  <2>3. here.curr \in 0..Len(scopes) - 1
    BY <2>1, AtInBounds DEF IInv
  <2> QED
    BY <2>1, <2>2, <2>3
<1>3. /\ open' \in Seq([kind : Scoped, scope : Int])
      /\ Len(open) \in Nat /\ Len(open) >= 1 /\ Len(open') = Len(open) - 1
      /\ Last(open) = open[Len(open)]
      /\ \A i \in 1..Len(open) - 1 : open'[i] = open[i]
  BY <1>1, Pop DEF IInv, Shapes
<1>4. TraceExplained' /\ \A j \in Nat : At(j)' = At(j)
  BY <1>1, TraceUnchanged DEF IInv
<1>5. PICK p \in Nat : p = pos + 1
  BY <1>2
<1>6. At(p)' = there
  BY <1>4, <1>5
<1>7. curr_scope' \in Int
  <2>1. CASE curr_scope' = curr_scope
    BY <2>1 DEF IInv, Shapes
  <2>2. CASE Last(open).scope # -1 /\ InProgram /\ Exit
    <3>1. curr_scope + 1 \in 1..Len(scopes)
      BY <1>2, <2>2 DEF InProgram
    <3>2. scopes[curr_scope + 1] \in Int
      BY <3>1, ElementOfSeq DEF IInv, Shapes
    <3> QED
      BY <2>2, <3>2 DEF Exit, Parent
  <2> QED
    BY <2>1, <2>2 DEF WalkExit, GoesAstray, scopeVars
<1>8. Shapes'
  <2>1. pos' \in 0..Len(events') /\ phase' \in {"check", "middle", "emit", "done", "undefined"}
    <3>1. PICK n \in Nat : n = Len(events)
      BY LenProperties DEF IInv, Shapes
    <3>2. Len(events') = n
      BY <1>1, <3>1
    <3>3. pos + 1 \in 1..n /\ pos' = pos + 1
      BY <1>1, <1>2, <3>1
    <3>4. pos' \in 0..Len(events')
      BY <3>2, <3>3
    <3>5. phase' \in {"check", "middle", "emit", "done", "undefined"}
      BY <1>1
    <3> QED
      BY <3>4, <3>5
  <2>2. next_id' \in Int /\ Len(scopes') >= 1
    BY <1>1 DEF IInv, Shapes
  <2>3. /\ scopes' \in Seq(Int) /\ events' \in Seq(EventType)
        /\ trace' \in Seq([curr : Int, next : Int]) /\ Len(trace') = Len(events')
    <3>1. EventType' = EventType
      BY DEF EventType, Kinds, Scoped
    <3> QED
      BY <1>1, <3>1 DEF IInv, Shapes
  <2> QED
    BY <1>3, <1>7, <2>1, <2>2, <2>3 DEF Shapes
<1>9. MiddleInv'
  <2> SUFFICES ASSUME phase' = "middle"
               PROVE  MiddleInv'
    BY DEF MiddleInv
  <2>1. phase = "middle"
    BY <1>1
  <2>2. next_id' \in 1..there.next
    BY <1>1, <1>2, <2>1 DEF IInv, MiddleInv
  <2> QED
    BY <1>1, <1>5, <1>6, <2>2 DEF MiddleInv
<1>10. EmitInv'
  <2> SUFFICES ASSUME phase' = "emit"
               PROVE  EmitInv'
    BY DEF EmitInv
  <2>1. /\ phase = "emit"
        /\ [curr |-> curr_scope, next |-> next_id] = here
        /\ \A i \in 1..Len(open) : open[i].scope # -1
    BY <1>1 DEF IInv, EmitInv
  <2>2. Last(open).scope # -1 /\ Exit
    BY <1>2, <1>3, <2>1 DEF WalkExit, GoesAstray
  <2>3. curr_scope' = Parent(curr_scope) /\ curr_scope = here.curr /\ next_id = here.next
    BY <2>1, <2>2 DEF Exit
  <2>4. [curr |-> curr_scope, next |-> next_id]' = there
    BY <1>1, <1>2, <2>3
  <2>5. \A i \in 1..Len(open') : open'[i].scope # -1
    BY <1>3, <2>1
  <2> QED
    BY <1>1, <1>5, <1>6, <2>4, <2>5 DEF EmitInv
<1> QED
  BY <1>1, <1>4, <1>8, <1>9, <1>10 DEF IInv, CheckInv

LEMMA WalkVarStep ==
  ASSUME IInv, WalkVar
  PROVE  IInv' /\ UNCHANGED scopes
<1>1. /\ phase \in {"middle", "emit"} /\ pos < Len(events) /\ events[pos + 1].kind = "var"
      /\ pos' = pos + 1 /\ UNCHANGED <<events, trace, scopes, curr_scope, next_id, open>>
      /\ phase' = phase \/ phase' = "undefined"
  BY DEF WalkVar, Walk, GoesAstray, InProgram
<1>2. /\ pos + 1 \in 1..Len(events) /\ At(pos + 1) = At(pos)
  BY <1>1, NextEvent
<1>3. TraceExplained' /\ \A j \in Nat : At(j)' = At(j)
  BY <1>1, TraceUnchanged DEF IInv
<1>4. PICK p \in Nat : p = pos + 1
  BY <1>2
<1>5. At(p)' = At(pos)
  BY <1>2, <1>3, <1>4
<1>6. Shapes'
  BY <1>1, <1>2 DEF IInv, Shapes
<1>7. MiddleInv' /\ EmitInv'
  BY <1>1, <1>4, <1>5 DEF IInv, MiddleInv, EmitInv
<1> QED
  BY <1>1, <1>3, <1>6, <1>7 DEF IInv, CheckInv

-----------------------------------------------------------------------------
(* The theorems. *)

LEMMA InitHolds ==
  ASSUME Init
  PROVE  IInv
<1>1. <<-1>> \in Seq(Int) /\ Len(<<-1>>) = 1
  OBVIOUS
<1>2. Shapes
  BY <1>1, EmptySeq DEF Init, ScopeInit, Shapes
<1>3. Len(events) = 0 /\ Len(open) = 0
  BY EmptySeq DEF Init
<1>4. TraceExplained
  BY <1>3 DEF TraceExplained
<1> QED
  BY <1>1, <1>2, <1>3, <1>4 DEF Init, ScopeInit, IInv, CheckInv, MiddleInv, EmitInv, At, OpenScope

LEMMA StepHolds ==
  ASSUME IInv, [Next]_vars
  PROVE  IInv' /\ (phase # "check" => UNCHANGED scopes)
<1>1. ASSUME NEW k \in Scoped, CheckEnter(k) PROVE IInv' /\ phase = "check"
  BY <1>1, CheckEnterStep DEF CheckEnter
<1>2. ASSUME NEW k \in Scoped, WalkEnter(k) PROVE IInv' /\ UNCHANGED scopes
  BY <1>2, WalkEnterStep
<1>3. CASE CheckExit
  BY <1>3, CheckExitStep DEF CheckExit
<1>4. CASE WalkExit
  BY <1>4, WalkExitStep
<1>5. ASSUME NEW n \in Names, NEW t \in Values, CheckVar(n, t) PROVE IInv' /\ phase = "check"
  BY <1>5, CheckVarStep DEF CheckVar
<1>6. CASE WalkVar
  BY <1>6, WalkVarStep
<1>7. CASE FinishCheck \/ FinishMiddle \/ FinishEmit
  BY <1>7, FinishStep DEF FinishCheck, FinishMiddle, FinishEmit, Reset, scopeVars
<1>8. CASE UNCHANGED vars
  <2>1. UNCHANGED <<scopes, curr_scope, next_id, phase, events, trace, open, pos>>
    BY <1>8 DEF vars, scopeVars
  <2>2. TraceExplained' /\ \A j \in Nat : At(j)' = At(j)
    BY <2>1, TraceUnchanged DEF IInv
  <2> QED
    BY <2>1, <2>2 DEF IInv, Shapes, CheckInv, MiddleInv, EmitInv, At, OpenScope, Parent
<1> QED
  BY <1>1, <1>2, <1>3, <1>4, <1>5, <1>6, <1>7, <1>8 DEF Next

(* IInv is an inductive invariant. *)
THEOREM Inductive == Spec => []IInv
<1>1. Init => IInv
  BY InitHolds
<1>2. IInv /\ [Next]_vars => IInv'
  BY StepHolds
<1> QED
  BY <1>1, <1>2, PTL DEF Spec

(* Code generation walks the program in the scopes the TypeChecker gave it,
   for programs of any size and shape and for both backends, whatever the pass
   between the two visits, as long as that pass does not read out of range. *)
THEOREM EmitReplaysScopes == Spec => []EmitReplays
<1>1. IInv => EmitReplays
  BY DEF IInv, EmitInv, EmitReplays
<1> QED
  BY <1>1, Inductive, PTL

(* Only the TypeChecker creates scopes: the passes after it enter at most as
   many as exist. *)
THEOREM ScopesStayFrozen == Spec => ScopesFrozen
<1>1. IInv /\ [Next]_vars => [phase # "check" => UNCHANGED scopes]_vars
  BY StepHolds
<1> QED
  BY <1>1, Inductive, PTL DEF Spec, ScopesFrozen

-----------------------------------------------------------------------------
(* The tables. *)

\* The parent of a scope is one that was created before it.
Rooted == \A id \in 1..Len(scopes) - 1 : Parent(id) \in 0..id - 1

\* A scope encloses itself, and none that was created after it; the program's
\* scope encloses every scope.
LEMMA EnclosingOf ==
  ASSUME scopes \in Seq(Int), NEW c \in 0..Len(scopes) - 1
  PROVE  /\ c \in Enclosing(c) /\ Enclosing(c) \subseteq 0..c
         /\ Rooted => 0 \in Enclosing(c)
<1> DEFINE U == 0..Len(scopes) - 1
           V == SUBSET U
           parent == [i \in U |-> IF Parent(i) \in 0..i - 1 THEN Parent(i) ELSE -1]
           base == [i \in U |-> {i}]
           step == [i \in U |-> [v \in V |-> {i} \cup v]]
<1>1. Len(scopes) \in Nat
  BY LenProperties
<1>2. \A i \in U : /\ i \in Nat
                   /\ parent[i] # -1 => /\ parent[i] = Parent(i) /\ parent[i] \in 0..i - 1
                                        /\ parent[i] \in U /\ Parent(i) \in 0..i - 1
                   /\ parent[i] = -1 => Parent(i) \notin 0..i - 1
  BY <1>1
<1>3. Founded(U, parent)
  <2> SUFFICES ASSUME NEW S \in SUBSET U, S # {}
               PROVE  \E t \in S : parent[t] \notin S
    BY DEF Founded
  <2>1. S \in SUBSET Nat
    BY <1>2
  <2>2. PICK m \in S : \A n \in S : m <= n
    BY <2>1, LeastExists
  <2>3. parent[m] \notin S
    BY <1>2, <2>1, <2>2
  <2> QED
    BY <2>3
<1>4. base \in [U -> V] /\ step \in [U -> [V -> V]] /\ parent \in [U -> U \cup {-1}] /\ -1 \notin U
  BY <1>2
<1>5. \A i \in U : base[i] = {i} /\ \A v \in V : step[i][v] = {i} \cup v
  OBVIOUS
<1> HIDE DEF base, step, parent
<1>6. PICK f : Solves(U, f, parent, -1, V, base, step)
  <2>1. Recursion(U, -1, parent, V, base, step)
    BY <1>3, <1>4 DEF Recursion
  <2> QED
    BY <2>1, ChainRecursion
<1>7. \A i \in U : f[i] = {i} \cup IF Parent(i) \in 0..i - 1 THEN f[Parent(i)] ELSE {}
  <2> SUFFICES ASSUME NEW i \in U
               PROVE  f[i] = {i} \cup IF Parent(i) \in 0..i - 1 THEN f[Parent(i)] ELSE {}
    OBVIOUS
  <2>1. f[i] = IF parent[i] = -1 THEN base[i] ELSE step[i][f[parent[i]]]
    BY <1>6 DEF Solves
  <2>2. ASSUME Parent(i) \notin 0..i - 1
        PROVE  f[i] = {i}
    BY <1>2, <1>5, <2>1, <2>2
  <2>3. ASSUME Parent(i) \in 0..i - 1
        PROVE  f[i] = {i} \cup f[Parent(i)]
    <3>1. PICK q \in U : q = parent[i] /\ q = Parent(i) /\ q # -1
      BY <1>2, <1>4, <2>3
    <3>2. f[q] \in V
      BY <1>6 DEF Solves
    <3> HIDE DEF V
    <3>3. step[i][f[q]] = {i} \cup f[q]
      BY <1>5, <3>2
    <3> QED
      BY <2>1, <3>1, <3>3
  <2> QED
    BY <2>2, <2>3
<1>8. f = [i \in U |-> {i} \cup IF Parent(i) \in 0..i - 1 THEN f[Parent(i)] ELSE {}]
  BY <1>6, <1>7 DEF Solves
<1> DEFINE up == CHOOSE g : g = [i \in U |-> {i} \cup IF Parent(i) \in 0..i - 1 THEN g[Parent(i)] ELSE {}]
<1>9. up = [i \in U |-> {i} \cup IF Parent(i) \in 0..i - 1 THEN up[Parent(i)] ELSE {}]
  BY <1>8
<1>10. Enclosing(c) = up[c]
  BY DEF Enclosing
<1> HIDE DEF up
<1>11. \A i \in U : up[i] = {i} \cup IF Parent(i) \in 0..i - 1 THEN up[Parent(i)] ELSE {}
  BY <1>9
<1> DEFINE Within(i) == up[i] \subseteq 0..i /\ (Rooted => 0 \in up[i])
           Wrong == {i \in U : ~Within(i)}
<1> HIDE DEF Within
<1>12. Wrong = {}
  <2> SUFFICES ASSUME Wrong # {} PROVE FALSE
    OBVIOUS
  <2>1. Wrong \in SUBSET Nat
    BY <1>2
  <2>2. PICK m \in Wrong : \A n \in Wrong : m <= n
    BY <2>1, LeastExists
  <2>3. m \in U /\ m \in Nat
    BY <1>2
  <2>4. CASE Parent(m) \in 0..m - 1
    <3>0. PICK q : q = Parent(m)
      OBVIOUS
    <3>1. q \in U /\ q = Parent(m) /\ q < m /\ q \in Nat
      BY <1>1, <2>3, <2>4, <3>0
    <3>2. q \notin Wrong
      BY <2>2, <2>3, <3>1
    <3>6. Within(q)
      BY <3>1, <3>2
    <3>3. up[q] \subseteq 0..q /\ (Rooted => 0 \in up[q])
      BY <3>6 DEF Within
    <3>4. up[m] = {m} \cup up[q]
      BY <1>11, <2>3, <2>4, <3>1
    <3>5. Within(m)
      BY <2>3, <3>1, <3>3, <3>4 DEF Within
    <3> QED
      BY <2>3, <3>5
  <2>5. CASE ~(Parent(m) \in 0..m - 1)
    <3>1. up[m] = {m}
      BY <1>11, <2>3, <2>5
    <3>3. Rooted => m = 0
      BY <1>1, <2>3, <2>5 DEF Rooted
    <3>2. Within(m)
      BY <2>3, <3>1, <3>3 DEF Within
    <3> QED
      BY <3>2
  <2> QED
    BY <2>4, <2>5
<1>13. Within(c)
  BY <1>12
<1> QED
  BY <1>10, <1>11, <1>13 DEF Within

Rows == [Names -> Values \cup {Null, Absent}]

\* The scope of a declaration has kept the type that was declared.
Declared(k) ==
  events[k].kind = "var" =>
    /\ events[k].name \in Names /\ events[k].type \in Values
    /\ tables[trace[k].curr + 1][events[k].name] = events[k].type

TInv ==
  /\ tables \in Seq(Rows) /\ Len(tables) = Len(scopes) /\ Rooted
  /\ \A k \in 1..Len(events) : Declared(k)

\* The declarations keep their types where no table loses an entry of theirs.
LEMMA DeclaredKept ==
  ASSUME IInv, TInv, NEW k \in 1..Len(events), events'[k] = events[k], trace'[k] = trace[k],
         \A c \in 0..Len(scopes) - 1 : \A n \in Names :
           tables[c + 1][n] \in Values => tables'[c + 1][n] = tables[c + 1][n]
  PROVE  Declared(k)'
<1>1. trace[k].curr \in 0..Len(scopes) - 1
  BY DEF IInv, TraceExplained, Explained
<1>2. Len(scopes) \in Nat
  BY LenProperties DEF IInv, Shapes
<1>3. Declared(k)
  BY DEF TInv
<1> QED
  BY <1>1, <1>2, <1>3 DEF Declared

\* One table more, the others as they are.
LEMMA TableAdded ==
  ASSUME TInv, NEW t \in Rows, tables' = Append(tables, t)
  PROVE  /\ tables' \in Seq(Rows) /\ Len(tables') = Len(tables) + 1 /\ Len(tables) \in Nat
         /\ \A c \in 0..Len(scopes) - 1 : tables'[c + 1] = tables[c + 1]
<1>1. /\ Len(tables) \in Nat /\ tables' \in Seq(Rows) /\ Len(tables') = Len(tables) + 1
      /\ \A i \in 1..Len(tables) : tables'[i] = tables[i]
  BY PushedOn DEF TInv
<1> QED
  BY <1>1 DEF TInv

SetAt(i, n, v) == tables' = [tables EXCEPT ![i][n] = v]

\* One entry, in one table.
LEMMA TableSet ==
  ASSUME TInv, NEW i \in 1..Len(tables), NEW n \in Names, NEW v \in Values \cup {Null},
         SetAt(i, n, v)
  PROVE  /\ tables' \in Seq(Rows) /\ Len(tables') = Len(tables)
         /\ tables'[i][n] = v
         /\ \A j \in 1..Len(tables) : \A m \in Names :
              j # i \/ m # n => tables'[j][m] = tables[j][m]
<1>1. Len(tables) \in Nat /\ tables[i] \in Rows
  BY ElementOfSeq, LenProperties DEF TInv
<1>2. PICK row : row = [tables[i] EXCEPT ![n] = v]
  OBVIOUS
<1>3. row \in Rows /\ row[n] = v /\ \A m \in Names : m # n => row[m] = tables[i][m]
  BY <1>1, <1>2 DEF Rows
<1>4. tables' = [tables EXCEPT ![i] = row]
  BY <1>2 DEF SetAt
<1>5. /\ tables' \in Seq(Rows) /\ Len(tables') = Len(tables) /\ tables'[i] = row
      /\ \A j \in 1..Len(tables) : j # i => tables'[j] = tables[j]
  BY <1>3, <1>4, ExceptSeq DEF TInv
<1> QED
  BY <1>3, <1>5

\* The first pass is always in a scope that exists.
LEMMA CheckScopeIs ==
  ASSUME IInv, phase = "check"
  PROVE  curr_scope \in 0..Len(scopes) - 1
<1>1. Len(scopes) \in Nat \ {0} /\ Len(open) \in Nat
  BY LenProperties DEF IInv, Shapes
<1>2. /\ curr_scope = OpenScope(Len(open))
      /\ \A i \in 1..Len(open) : open[i].scope \in 1..Len(scopes) - 1
  BY DEF IInv, CheckInv
<1> QED
  BY <1>1, <1>2 DEF OpenScope

LEMMA TStep ==
  ASSUME IInv, TInv, [Next]_vars
  PROVE  TInv'
<1>0. /\ Len(scopes) \in Nat \ {0} /\ Len(events) \in Nat /\ Len(trace) = Len(events)
      /\ events \in Seq(EventType) /\ trace \in Seq([curr : Int, next : Int])
      /\ scopes \in Seq(Int) /\ open \in Seq([kind : Scoped, scope : Int])
      /\ tables \in Seq(Rows) /\ Len(tables) = Len(scopes)
      /\ curr_scope \in Int /\ pos \in 0..Len(events)
  BY LenProperties DEF IInv, Shapes, TInv
<1>1. ASSUME NEW k \in Scoped, CheckEnter(k)
      PROVE  TInv'
  <2>1. PICK e : e = Event(k, Null, Null)
    OBVIOUS
  <2>2. PICK r : r = [curr |-> curr_scope', next |-> next_id']
    OBVIOUS
  <2>3. /\ phase = "check" /\ e.kind # "var" /\ curr_scope' = next_id /\ next_id' = next_id + 1
        /\ events' = Append(events, e) /\ trace' = Append(trace, r)
    BY <1>1, <2>1, <2>2 DEF CheckEnter, Record, Enter, Event, Scoped
  <2>4. next_id = Len(scopes)
    BY <2>3 DEF IInv, CheckInv
  <2>5. e \in EventType /\ r \in [curr : Int, next : Int]
    BY <1>0, <2>1, <2>2, <2>3, <2>4 DEF Event, EventType, Kinds
  <2>6. /\ Len(events') = Len(events) + 1 /\ events'[Len(events) + 1] = e
        /\ \A i \in 1..Len(events) : events'[i] = events[i] /\ trace'[i] = trace[i]
    BY <1>0, <2>3, <2>5, PushedOn
  <2>7. scopes' = Append(scopes, curr_scope) /\ tables' = Append(tables, Empty)
    BY <1>0, <1>1, <2>4 DEF CheckEnter, Enter
  <2>8. /\ tables' \in Seq(Rows) /\ Len(tables') = Len(tables) + 1 /\ Len(scopes') = Len(scopes) + 1
        /\ \A c \in 0..Len(scopes) - 1 : tables'[c + 1] = tables[c + 1]
    <3>1. Empty \in Rows
      BY DEF Empty, Rows
    <3> QED
      BY <1>0, <2>7, <3>1, TableAdded, PushedOn
  <2>9. ASSUME NEW i \in 1..Len(events')
        PROVE  Declared(i)'
    <3>1. CASE i = Len(events) + 1
      BY <2>3, <2>6, <3>1 DEF Declared
    <3>2. CASE i \in 1..Len(events)
      BY <2>6, <2>8, <3>2, DeclaredKept
    <3> QED
      BY <1>0, <2>6, <3>1, <3>2
  <2>10. Rooted'
    <3>1. /\ scopes'[Len(scopes) + 1] = curr_scope /\ Len(scopes') = Len(scopes) + 1
          /\ \A i \in 1..Len(scopes) : scopes'[i] = scopes[i]
      BY <1>0, <2>7, PushedOn
    <3>2. curr_scope \in 0..Len(scopes) - 1
      BY <2>3, CheckScopeIs
    <3> SUFFICES ASSUME NEW id \in 1..Len(scopes') - 1
                 PROVE  scopes'[id + 1] \in 0..id - 1
      BY DEF Rooted, Parent
    <3>3. CASE id = Len(scopes)
      BY <1>0, <3>1, <3>2, <3>3
    <3>4. CASE id \in 1..Len(scopes) - 1
      BY <1>0, <3>1, <3>4 DEF TInv, Rooted, Parent
    <3> QED
      BY <1>0, <3>1, <3>3, <3>4
  <2> QED
    BY <1>0, <2>8, <2>9, <2>10 DEF TInv
<1>2. ASSUME UNCHANGED <<tables, scopes, events, trace>>
      PROVE  TInv'
  BY <1>2 DEF TInv, Declared, Rooted, Parent
<1>10. scopes' = scopes => Rooted'
  BY DEF TInv, Rooted, Parent
<1>3. CASE CheckExit
  <2>1. PICK e : e = Event("exit", Null, Null)
    OBVIOUS
  <2>2. PICK r : r = [curr |-> curr_scope', next |-> next_id']
    OBVIOUS
  <2>3. /\ e.kind # "var" /\ UNCHANGED <<tables, scopes, next_id>>
        /\ events' = Append(events, e) /\ trace' = Append(trace, r)
    BY <1>3, <2>1, <2>2 DEF CheckExit, Record, Exit, Event
  <2>4. /\ Len(events') = Len(events) + 1 /\ events'[Len(events) + 1] = e
        /\ \A i \in 1..Len(events) : events'[i] = events[i] /\ trace'[i] = trace[i]
    <3>1. e \in EventType
      BY <2>1 DEF Event, EventType, Kinds
    <3>2. trace \in Seq([curr : Int, next : Int] \cup {r}) /\ r \in [curr : Int, next : Int] \cup {r}
      BY <1>0, SeqMonotonic
    <3> QED
      BY <1>0, <2>3, <3>1, <3>2, PushedOn
  <2>5. ASSUME NEW i \in 1..Len(events')
        PROVE  Declared(i)'
    <3>1. CASE i = Len(events) + 1
      BY <2>3, <2>4, <3>1 DEF Declared
    <3>2. CASE i \in 1..Len(events)
      BY <2>3, <2>4, <3>2, DeclaredKept
    <3> QED
      BY <1>0, <2>4, <3>1, <3>2
  <2> QED
    BY <1>0, <1>10, <2>3, <2>5 DEF TInv
<1>4. ASSUME NEW n \in Names, NEW t \in Values, CheckVar(n, t)
      PROVE  TInv'
  <2>1. PICK e : e = Event("var", n, t)
    OBVIOUS
  <2>2. PICK r : r = [curr |-> curr_scope, next |-> next_id]
    OBVIOUS
  <2>3. /\ phase = "check" /\ e.kind = "var" /\ e.name = n /\ e.type = t /\ ~IsMapped(n)
        /\ UNCHANGED scopes
        /\ tables' = [tables EXCEPT ![curr_scope + 1][n] = t]
        /\ events' = Append(events, e) /\ trace' = Append(trace, r)
    BY <1>4, <2>1, <2>2 DEF CheckVar, Record, Event, Insert
  <2>4. curr_scope \in 0..Len(scopes) - 1
    BY <2>3, CheckScopeIs
  <2>5. tables[curr_scope + 1][n] = Absent
    <3>1. curr_scope \in Enclosing(curr_scope)
      BY <1>0, <2>4, EnclosingOf
    <3> QED
      BY <2>3, <3>1 DEF IsMapped, Holders
  <2>6. /\ Len(events') = Len(events) + 1 /\ events'[Len(events) + 1] = e
        /\ trace'[Len(events) + 1] = r
        /\ \A i \in 1..Len(events) : events'[i] = events[i] /\ trace'[i] = trace[i]
    <3>1. e \in EventType
      BY <2>1 DEF Event, EventType, Kinds
    <3>2. trace \in Seq([curr : Int, next : Int] \cup {r}) /\ r \in [curr : Int, next : Int] \cup {r}
      BY <1>0, SeqMonotonic
    <3> QED
      BY <1>0, <2>3, <3>1, <3>2, PushedOn
  <2>7. /\ tables' \in Seq(Rows) /\ Len(tables') = Len(tables)
        /\ tables'[curr_scope + 1][n] = t
        /\ \A j \in 1..Len(tables) : \A m \in Names :
             j # curr_scope + 1 \/ m # n => tables'[j][m] = tables[j][m]
    <3>1. PICK l : l = curr_scope + 1
      OBVIOUS
    <3>2. l \in 1..Len(tables) /\ t \in Values \cup {Null} /\ SetAt(l, n, t)
      <4>1. l \in 1..Len(tables)
        BY <1>0, <2>4, <3>1
      <4>2. SetAt(l, n, t)
        BY <2>3, <3>1 DEF SetAt
      <4> QED
        BY <4>1, <4>2
    <3>3. /\ tables' \in Seq(Rows) /\ Len(tables') = Len(tables) /\ tables'[l][n] = t
          /\ \A j \in 1..Len(tables) : \A m \in Names : j # l \/ m # n => tables'[j][m] = tables[j][m]
      BY <3>2, TableSet
    <3> QED
      BY <3>1, <3>3
  <2>8. ASSUME NEW i \in 1..Len(events')
        PROVE  Declared(i)'
    <3>1. CASE i = Len(events) + 1
      <4>1. events'[i] = e /\ trace'[i] = r
        BY <2>6, <3>1
      <4>2. e.name = n /\ e.type = t /\ r.curr = curr_scope
        BY <2>2, <2>3
      <4>3. events'[i].name = n /\ events'[i].type = t /\ trace'[i].curr = curr_scope
        BY <4>1, <4>2
      <4> QED
        BY <2>7, <4>3 DEF Declared
    <3>2. CASE i \in 1..Len(events)
      <4>1. \A c \in 0..Len(scopes) - 1 : \A m \in Names :
              tables[c + 1][m] \in Values => tables'[c + 1][m] = tables[c + 1][m]
        <5> SUFFICES ASSUME NEW c \in 0..Len(scopes) - 1, NEW m \in Names,
                            tables[c + 1][m] \in Values
                     PROVE  tables'[c + 1][m] = tables[c + 1][m]
          OBVIOUS
        <5>1. c + 1 # curr_scope + 1 \/ m # n
          BY <2>5, AbsentIsNoType
        <5>2. c + 1 \in 1..Len(tables)
          BY <1>0
        <5> QED
          BY <2>7, <5>1, <5>2
      <4> QED
        BY <2>6, <3>2, <4>1, DeclaredKept
    <3> QED
      BY <1>0, <2>6, <3>1, <3>2
  <2> QED
    BY <1>0, <1>10, <2>3, <2>7, <2>8 DEF TInv
<1>5. ASSUME NEW k \in Scoped, WalkEnter(k)
      PROVE  TInv'
  <2>1. UNCHANGED <<events, trace>> /\ UNCHANGED scopes
    BY <1>5, WalkEnterStep DEF WalkEnter, Walk
  <2>2. tables' = tables
    <3>1. CASE UNCHANGED scopeVars
      BY <3>1 DEF scopeVars
    <3>2. CASE Enter
      <4>1. scopes' = Append(scopes, curr_scope) => Len(scopes') = Len(scopes) + 1
        BY <1>0, PushedOn
      <4> QED
        BY <1>0, <2>1, <3>2, <4>1 DEF Enter
    <3> QED
      BY <1>5, <3>1, <3>2 DEF WalkEnter
  <2> QED
    BY <1>2, <2>1, <2>2
<1>6. CASE WalkExit
  BY <1>2, <1>6 DEF WalkExit, Walk, GoesAstray, InProgram, Exit, scopeVars
<1>7. CASE WalkVar
  <2>1. /\ UNCHANGED <<events, trace, scopes>> /\ pos + 1 \in 1..Len(events)
        /\ events[pos + 1].kind = "var"
    BY <1>0, <1>7 DEF WalkVar, Walk
  <2>2. events[pos + 1].name \in Names
    BY <2>1 DEF TInv, Declared
  <2>3. CASE tables' = tables
    BY <1>2, <2>1, <2>3
  <2>4. CASE /\ curr_scope \in 0..Len(scopes) - 1 /\ ~IsMapped(events[pos + 1].name)
             /\ tables' = [tables EXCEPT ![1][events[pos + 1].name] = Null]
    <3>1. 1 \in 1..Len(tables) /\ Null \in Values \cup {Null}
      BY <1>0
    <3>0. PICK n \in Names : SetAt(1, n, Null) /\ ~IsMapped(n)
      BY <2>2, <2>4 DEF SetAt
    <3>2. /\ tables' \in Seq(Rows) /\ Len(tables') = Len(tables)
          /\ \A j \in 1..Len(tables) : \A m \in Names :
               j # 1 \/ m # n => tables'[j][m] = tables[j][m]
      BY <3>0, <3>1, TableSet
    <3>5. tables[1][n] = Absent
      <4>1. 0 \in Enclosing(curr_scope)
        BY <1>0, <2>4, EnclosingOf DEF TInv
      <4> QED
        BY <3>0, <4>1 DEF IsMapped, Holders
    <3>3. \A c \in 0..Len(scopes) - 1 : \A m \in Names :
            tables[c + 1][m] \in Values => tables'[c + 1][m] = tables[c + 1][m]
      <4> SUFFICES ASSUME NEW c \in 0..Len(scopes) - 1, NEW m \in Names,
                          tables[c + 1][m] \in Values
                   PROVE  tables'[c + 1][m] = tables[c + 1][m]
        OBVIOUS
      <4>1. c + 1 # 1 \/ m # n
        BY <3>5, AbsentIsNoType
      <4>2. c + 1 \in 1..Len(tables)
        BY <1>0
      <4> QED
        BY <3>2, <4>1, <4>2
    <3>4. \A i \in 1..Len(events) : Declared(i)'
      BY <2>1, <3>3, DeclaredKept
    <3> QED
      BY <1>0, <1>10, <2>1, <3>2, <3>4 DEF TInv
  <2> QED
    BY <1>7, <2>3, <2>4 DEF WalkVar, GoesAstray, InProgram, GetInserts, scopeVars
<1>8. CASE FinishCheck \/ FinishMiddle \/ FinishEmit
  BY <1>2, <1>8 DEF FinishCheck, FinishMiddle, FinishEmit, Reset, scopeVars
<1>9. CASE UNCHANGED vars
  BY <1>2, <1>9 DEF vars, scopeVars
<1> QED
  BY <1>1, <1>3, <1>4, <1>5, <1>6, <1>7, <1>8, <1>9 DEF Next

(* What code generation looks up for a variable declaration is the type that
   the TypeChecker gave it, in programs of any size, whatever the lookups of the
   pass between them have left in the tables. *)
THEOREM EmitReadsTypes == Spec => []EmitReadsDeclaredType
<1>1. Init => TInv
  <2> SUFFICES ASSUME Init PROVE TInv
    OBVIOUS
  <2>1. Empty \in Rows
    BY DEF Empty, Rows
  <2>2. PICK t : t = Empty
    OBVIOUS
  <2>3. <<t>> \in Seq(Rows) /\ Len(<<t>>) = 1
    BY <2>1, <2>2
  <2>4. tables = <<t>> /\ Len(scopes) = 1 /\ Len(events) = 0
    BY <2>2, EmptySeq DEF Init, ScopeInit
  <2>5. Rooted
    BY <2>4 DEF Rooted
  <2> QED
    BY <2>3, <2>4, <2>5 DEF TInv
<1>2. IInv /\ TInv => EmitReadsDeclaredType
  <2> SUFFICES ASSUME IInv, TInv, phase = "emit", pos < Len(events), events[pos + 1].kind = "var"
               PROVE  Get(events[pos + 1].name) = events[pos + 1].type
    BY DEF EmitReadsDeclaredType
  <2>1. pos + 1 \in 1..Len(events) /\ pos \in Nat
    BY LenProperties DEF IInv, Shapes
  <2>a. PICK k \in 1..Len(events) : k = pos + 1 /\ k - 1 = pos /\ events[k].kind = "var"
    BY <2>1
  <2>b. Declared(k) /\ Explained(k)
    BY DEF IInv, TInv, TraceExplained
  <2>c. trace[k] = At(pos) /\ trace[k].curr \in 0..Len(scopes) - 1
    BY <2>a, <2>b DEF Explained
  <2>d. curr_scope = At(pos).curr
    BY DEF IInv, EmitInv
  <2>2. /\ Declared(pos + 1) /\ trace[pos + 1] = At(pos) /\ curr_scope = At(pos).curr
        /\ trace[pos + 1].curr \in 0..Len(scopes) - 1
    BY <2>a, <2>b, <2>c, <2>d
  <2>3. PICK n : n = events[pos + 1].name
    OBVIOUS
  <2>4. /\ n \in Names /\ events[pos + 1].type \in Values /\ curr_scope \in 0..Len(scopes) - 1
        /\ tables[curr_scope + 1][n] = events[pos + 1].type
    BY <2>2, <2>3 DEF Declared
  <2>5. curr_scope \in Enclosing(curr_scope) /\ Enclosing(curr_scope) \subseteq 0..curr_scope
    BY <2>4, EnclosingOf DEF IInv, Shapes
  <2>6. curr_scope \in Holders(n) /\ \A c \in Holders(n) : c <= curr_scope /\ c \in Int
    BY <2>4, <2>5, AbsentIsNoType DEF Holders
  <2>7. Max(Holders(n)) = curr_scope
    <3>1. PICK H : H = Holders(n)
      OBVIOUS
    <3>2. curr_scope \in Int /\ curr_scope \in H /\ \A c \in H : c <= curr_scope /\ c \in Int
      BY <2>4, <2>6, <3>1
    <3>3. Max(H) = curr_scope
      <4>1. \E x \in H : \A y \in H : x >= y
        BY <3>2
      <4>2. Max(H) \in H /\ \A y \in H : Max(H) >= y
        BY <4>1 DEF Max
      <4>3. PICK x : x = Max(H)
        OBVIOUS
      <4>4. x \in Int /\ x <= curr_scope /\ x >= curr_scope
        BY <3>2, <4>2, <4>3
      <4>5. x = curr_scope
        BY <3>2, <4>4
      <4> QED
        BY <4>3, <4>5
    <3> QED
      BY <3>1, <3>3
  <2> QED
    BY <2>3, <2>4, <2>6, <2>7 DEF Get, IsMapped
<1> QED
  BY <1>1, <1>2, TStep, Inductive, PTL DEF Spec

-----------------------------------------------------------------------------
(* Types, and what the rules of the TypeChecker make of them. *)

IsType(t) ==
  \/ t \in ValueTypes \cup {TypeError}
  \/ \E f \in DOMAIN Functions : t = Function(f)
  \/ \E c \in ClassNames : \E m \in DOMAIN Methods[c] : t = Method(c, m)

\* A rule gives a type, and no TypeError without a message or an operand's.
IsRule(rule, operands) ==
  /\ IsType(rule.type) /\ rule.error \in BOOLEAN
  /\ rule.type = TypeError => rule.error \/ TypeError \in operands

LEMMA PrimitivesDiffer ==
  /\ \A p \in {IntType, Float, Bool, String, Void, Class} :
       p \in ValueTypes /\ p.name \notin ClassNames /\ p.dims = 0 /\ p.member = ""
  /\ IntType # Float /\ IntType # Bool /\ Float # Bool
  /\ IntType # String /\ Float # String /\ Bool # String
  /\ Void # Class /\ Void # Invalid /\ Void # NoValue /\ NoValue # Invalid
  /\ TypeError.name = "$TypeError" /\ TypeError.name \notin ClassNames
  /\ TypeError.member = "" /\ TypeError.dims = 0
  /\ NoValue.name = "none" /\ Invalid.name = "invalid"
<1>1. ASSUME NEW c \in PrimitiveNames
      PROVE  /\ T(c) \in ValueTypes /\ T(c).name \notin ClassNames
             /\ T(c).dims = 0 /\ T(c).member = ""
  BY ClassNamesAssumption DEF T, ValueTypes
<1>2. \A p \in {IntType, Float, Bool, String, Void, Class} : \E c \in PrimitiveNames : p = T(c)
  BY DEF PrimitiveNames, IntType, Float, Bool, String, Void, Class
<1>3. ASSUME NEW c, NEW d, c # d
      PROVE  T(c) # T(d)
  BY <1>3 DEF T
<1>4. /\ IntType # Float /\ IntType # Bool /\ Float # Bool
      /\ IntType # String /\ Float # String /\ Bool # String
      /\ Void # Class /\ Void # Invalid /\ Void # NoValue /\ NoValue # Invalid
  BY <1>3 DEF IntType, Float, Bool, String, Void, Class, NoValue, Invalid
<1>5. /\ TypeError.name = "$TypeError" /\ TypeError.name \notin ClassNames
      /\ TypeError.member = "" /\ TypeError.dims = 0
  BY ClassNamesAssumption DEF TypeError, T
<1>6. NoValue.name = "none" /\ Invalid.name = "invalid"
  BY DEF NoValue, Invalid, T
<1> QED
  BY <1>1, <1>2, <1>4, <1>5, <1>6

LEMMA ValueTypeOf ==
  ASSUME NEW c \in ClassNames \cup PrimitiveNames, NEW n \in Nat,
         NEW t, t = [name |-> c, member |-> "", dims |-> n]
  PROVE  t \in ValueTypes
  BY DEF ValueTypes

LEMMA ArrayIs ==
  ASSUME NEW t \in ValueTypes, NEW n \in Nat, NEW u, u = Array(t, n)
  PROVE  u \in ValueTypes
<1>1. u = [name |-> t.name, member |-> "", dims |-> n]
  BY DEF Array
<1>2. t.name \in ClassNames \cup PrimitiveNames
  BY DEF ValueTypes
<1> QED
  BY <1>1, <1>2, ValueTypeOf

LEMMA ValueTypeIs ==
  ASSUME NEW t \in ValueTypes
  PROVE  /\ IsType(t) /\ t # TypeError /\ t # NoValue /\ t # Invalid
         /\ ~IsFunction(t) /\ t.dims \in Nat
         /\ t.dims # 0 => NextEnclosed(t) \in ValueTypes
<1>1. t.name \in ClassNames \cup PrimitiveNames /\ t.member = "" /\ t.dims \in Nat
  BY DEF ValueTypes
<1>2. t.name # "$TypeError" /\ t.name # "none" /\ t.name # "invalid"
  BY <1>1, ClassNamesAssumption DEF PrimitiveNames
<1>3. t # TypeError /\ t # NoValue /\ t # Invalid
  BY <1>2, PrimitivesDiffer
<1>4. ASSUME t.dims # 0
      PROVE  NextEnclosed(t) \in ValueTypes
  <2>1. PICK n \in Nat : n = t.dims
    BY <1>1
  <2>2. n - 1 \in Nat
    BY <1>4, <2>1
  <2> QED
    BY <2>1, <2>2, ArrayIs DEF NextEnclosed
<1> QED
  BY <1>1, <1>3, <1>4 DEF IsType, IsFunction

LEMMA FunctionIs ==
  ASSUME NEW f \in DOMAIN Functions, NEW t, t = Function(f)
  PROVE  /\ t.name = "fn" /\ t.member = f /\ t.dims = 0
         /\ Signature(t) \in Signatures
<1>1. t = [name |-> "fn", member |-> f, dims |-> 0]
  BY DEF Function
<1>2. t.name = "fn" /\ t.member = f /\ t.dims = 0
  BY <1>1
<1> QED
  BY <1>2, MembersAssumption DEF Signature

LEMMA MethodIs ==
  ASSUME NEW c \in ClassNames, NEW m \in DOMAIN Methods[c], NEW t, t = Method(c, m)
  PROVE  /\ t.name = c /\ t.member = m /\ t.dims = 0
         /\ Signature(t) \in Signatures
<1>1. t = [name |-> c, member |-> m, dims |-> 0]
  BY DEF Method
<1>2. t.name = c /\ t.member = m /\ t.dims = 0
  BY <1>1
<1>3. c # "fn"
  BY ClassNamesAssumption
<1>4. Signature(t) = Methods[c][m]
  BY <1>2, <1>3 DEF Signature
<1>5. Methods[c][m] \in Signatures
  BY MembersAssumption
<1> QED
  BY <1>2, <1>4, <1>5

LEMMA TypeIs ==
  ASSUME NEW t, IsType(t)
  PROVE  /\ t # NoValue /\ t # Invalid
         /\ t.dims \in Nat /\ (t.dims # 0 => NextEnclosed(t) \in ValueTypes)
         /\ IsFunction(t) => Signature(t) \in Signatures
<1>1. CASE t \in ValueTypes
  BY <1>1, ValueTypeIs
<1>2. CASE t = TypeError
  BY <1>2, PrimitivesDiffer DEF IsFunction, TypeError, NoValue, Invalid, T
<1>3. CASE t.name \in ClassNames \cup {"fn"} /\ t.dims = 0 /\ Signature(t) \in Signatures
  <2>1. t.name # "none" /\ t.name # "invalid"
    BY <1>3, ClassNamesAssumption
  <2>2. t # NoValue /\ t # Invalid
    BY <2>1, PrimitivesDiffer
  <2> QED
    BY <1>3, <2>2
<1>4. ASSUME NEW f \in DOMAIN Functions, t = Function(f)
      PROVE  t.name \in ClassNames \cup {"fn"} /\ t.dims = 0 /\ Signature(t) \in Signatures
  BY <1>4, FunctionIs
<1>5. ASSUME NEW c \in ClassNames, NEW m \in DOMAIN Methods[c], t = Method(c, m)
      PROVE  t.name \in ClassNames \cup {"fn"} /\ t.dims = 0 /\ Signature(t) \in Signatures
  BY <1>5, MethodIs
<1> QED
  BY <1>1, <1>2, <1>3, <1>4, <1>5 DEF IsType

\* The superclasses of a class are classes.
LEMMA AncestorsAreClasses ==
  ASSUME NEW c \in ClassNames
  PROVE  Ancestors[c] \subseteq ClassNames
<1> DEFINE V == SUBSET ClassNames
           base == [i \in ClassNames |-> {i}]
           step == [i \in ClassNames |-> [v \in V |-> {i} \cup v]]
<1>1. base \in [ClassNames -> V] /\ step \in [ClassNames -> [V -> V]]
  OBVIOUS
<1>2. "none" \notin ClassNames
  BY ClassNamesAssumption
<1>3. Recursion(ClassNames, "none", Super, V, base, step)
  BY <1>1, <1>2, SuperAssumption DEF Recursion, Founded
<1>4. \A i \in ClassNames : base[i] = {i} /\ \A v \in V : step[i][v] = {i} \cup v
  OBVIOUS
<1> HIDE DEF base, step
<1>5. PICK f : Solves(ClassNames, f, Super, "none", V, base, step)
  BY <1>3, ChainRecursion
<1>6. ASSUME NEW i \in ClassNames
      PROVE  f[i] = {i} \cup (IF Super[i] = "none" THEN {} ELSE f[Super[i]])
  <2>1. f[i] = IF Super[i] = "none" THEN base[i] ELSE step[i][f[Super[i]]]
    BY <1>5 DEF Solves
  <2>2. Super[i] # "none" => f[Super[i]] \in V
    BY <1>5 DEF Solves
  <2> HIDE DEF V
  <2> QED
    BY <1>4, <2>1, <2>2
<1>7. f = [i \in ClassNames |-> {i} \cup (IF Super[i] = "none" THEN {} ELSE f[Super[i]])]
  BY <1>5, <1>6 DEF Solves
<1> DEFINE up == CHOOSE g : g = [i \in ClassNames |->
                                   {i} \cup (IF Super[i] = "none" THEN {} ELSE g[Super[i]])]
<1>8. up = [i \in ClassNames |-> {i} \cup (IF Super[i] = "none" THEN {} ELSE up[Super[i]])]
  BY <1>7
<1>9. Ancestors = up
  BY DEF Ancestors
<1> HIDE DEF up
<1>10. \A i \in ClassNames : up[i] = {i} \cup (IF Super[i] = "none" THEN {} ELSE up[Super[i]])
  BY <1>8
<1> DEFINE wrong == {i \in ClassNames : ~(up[i] \subseteq ClassNames)}
<1>11. wrong = {}
  <2> SUFFICES ASSUME wrong # {}
               PROVE  FALSE
    OBVIOUS
  <2>1. PICK i \in wrong : Super[i] \notin wrong
    BY SuperAssumption
  <2> QED
    BY <1>10, <2>1, SuperAssumption
<1> QED
  BY <1>9, <1>11

\* The fields of a class, its own and inherited, have types of values.
LEMMA FieldsHaveTypes ==
  ASSUME NEW c \in ClassNames, NEW f \in DOMAIN FieldsOf[c]
  PROVE  FieldsOf[c][f] \in ValueTypes
<1> DEFINE Own(i) == DOMAIN Fields[i]
           All == UNION {Own(i) : i \in ClassNames}
           V == UNION {[D -> ValueTypes] : D \in SUBSET All}
           base == [i \in ClassNames |-> Extended(<<>>, Fields[i])]
           step == [i \in ClassNames |-> [v \in V |-> Extended(v, Fields[i])]]
           IsRow(v) == /\ v = [x \in DOMAIN v |-> v[x]]
                       /\ DOMAIN v \subseteq All /\ \A x \in DOMAIN v : v[x] \in ValueTypes
<1>1. ASSUME NEW v
      PROVE  v \in V <=> IsRow(v)
  <2>1. ASSUME v \in V
        PROVE  IsRow(v)
    BY <2>1
  <2>2. ASSUME IsRow(v)
        PROVE  v \in V
    <3>1. v \in [DOMAIN v -> ValueTypes] /\ DOMAIN v \in SUBSET All
      BY <2>2
    <3> QED
      BY <3>1
  <2> QED
    BY <2>1, <2>2
<1>2. ASSUME NEW i \in ClassNames, NEW v, IsRow(v)
      PROVE  IsRow(Extended(v, Fields[i]))
  <2>1. PICK w : w = Extended(v, Fields[i])
    OBVIOUS
  <2>2. /\ w = [x \in DOMAIN v \cup DOMAIN Fields[i] |->
                  IF x \in DOMAIN v THEN v[x] ELSE Fields[i][x]]
    BY <2>1 DEF Extended
  <2>3. DOMAIN Fields[i] \subseteq All
    OBVIOUS
  <2>4. \A x \in DOMAIN Fields[i] : Fields[i][x] \in ValueTypes
    BY MembersAssumption
  <2> HIDE DEF All
  <2> QED
    BY <1>2, <2>1, <2>2, <2>3, <2>4
<1>3. IsRow(<<>>)
  OBVIOUS
<1> HIDE DEF IsRow, V
<1>4. base \in [ClassNames -> V] /\ step \in [ClassNames -> [V -> V]]
  <2>1. \A i \in ClassNames : Extended(<<>>, Fields[i]) \in V
    BY <1>1, <1>2, <1>3
  <2>2. \A i \in ClassNames : \A v \in V : Extended(v, Fields[i]) \in V
    BY <1>1, <1>2
  <2> QED
    BY <2>1, <2>2
<1>5. "none" \notin ClassNames
  BY ClassNamesAssumption
<1>6. Recursion(ClassNames, "none", Super, V, base, step)
  BY <1>4, <1>5, SuperAssumption DEF Recursion, Founded
<1>7. \A i \in ClassNames : /\ base[i] = Extended(<<>>, Fields[i])
                            /\ \A v \in V : step[i][v] = Extended(v, Fields[i])
  OBVIOUS
<1> HIDE DEF base, step
<1>8. PICK h : Solves(ClassNames, h, Super, "none", V, base, step)
  BY <1>6, ChainRecursion
<1>9. ASSUME NEW i \in ClassNames
      PROVE  h[i] = Extended(IF Super[i] = "none" THEN <<>> ELSE h[Super[i]], Fields[i])
  <2>1. h[i] = IF Super[i] = "none" THEN base[i] ELSE step[i][h[Super[i]]]
    BY <1>8 DEF Solves
  <2>2. Super[i] # "none" => h[Super[i]] \in V
    BY <1>8 DEF Solves
  <2>3. CASE Super[i] = "none"
    BY <1>7, <2>1, <2>3
  <2>4. CASE Super[i] # "none"
    BY <1>7, <2>1, <2>2, <2>4
  <2> QED
    BY <2>3, <2>4
<1>10. h = [i \in ClassNames |->
              Extended(IF Super[i] = "none" THEN <<>> ELSE h[Super[i]], Fields[i])]
  BY <1>8, <1>9 DEF Solves
<1> DEFINE all == CHOOSE g : g = [i \in ClassNames |->
                      Extended(IF Super[i] = "none" THEN <<>> ELSE g[Super[i]], Fields[i])]
<1>11. all = [i \in ClassNames |->
                Extended(IF Super[i] = "none" THEN <<>> ELSE all[Super[i]], Fields[i])]
  BY <1>10
<1>12. FieldsOf = all
  BY DEF FieldsOf
<1> HIDE DEF all
<1>13. \A i \in ClassNames :
         all[i] = Extended(IF Super[i] = "none" THEN <<>> ELSE all[Super[i]], Fields[i])
  BY <1>11
<1> DEFINE wrong == {i \in ClassNames : ~IsRow(all[i])}
<1>14. wrong = {}
  <2> SUFFICES ASSUME wrong # {}
               PROVE  FALSE
    OBVIOUS
  <2>1. PICK i \in wrong : Super[i] \notin wrong
    BY SuperAssumption
  <2>2. CASE Super[i] = "none"
    BY <1>2, <1>3, <1>13, <2>1, <2>2
  <2>3. CASE Super[i] # "none"
    <3>1. Super[i] \in ClassNames /\ IsRow(all[Super[i]])
      BY <2>1, <2>3, SuperAssumption
    <3> QED
      BY <1>2, <1>13, <2>1, <2>3, <3>1
  <2> QED
    BY <2>2, <2>3
<1> QED
  BY <1>12, <1>14 DEF IsRow

LEMMA SubclassIs ==
  ASSUME NEW s, NEW c, SubclassOf(s, c)
  PROVE  /\ s = c \/ (s.name \in ClassNames /\ c.name \in ClassNames /\ s.dims = c.dims)
         /\ BitCast(s, c) = c
<1>1. CASE s = c
  BY <1>1 DEF BitCast
<1>2. CASE s.name \in ClassNames /\ c.name \in Ancestors[s.name] /\ s.dims = c.dims
  <2>1. c.name \in ClassNames
    BY <1>2, AncestorsAreClasses
  <2> QED
    BY <1>2, <2>1 DEF BitCast
<1> QED
  BY <1>1, <1>2 DEF SubclassOf

LEMMA MatchIs ==
  ASSUME NEW S \in SUBSET {IntType, Float, Bool, String}, NEW t, Match(t, S)
  PROVE  t \in S
<1>1. PICK p \in S : SubclassOf(t, p)
  BY DEF Match
<1>2. p.name \notin ClassNames
  BY PrimitivesDiffer
<1> QED
  BY <1>1, <1>2, SubclassIs

LEMMA RuleOf ==
  ASSUME NEW S
  PROVE  /\ \A t \in ValueTypes : IsRule(Typed(t), S)
         /\ \A t : IsType(t) /\ (t = TypeError => TypeError \in S) => IsRule(Typed(t), S)
         /\ IsRule(Reject, S) /\ Reject.error
         /\ TypeError \in S => IsRule(Propagate, S)
         /\ \A t : Typed(t).type = t /\ ~Typed(t).error
<1>1. \A t : Typed(t).type = t /\ Typed(t).error = FALSE
  BY DEF Typed
<1>2. Reject.type = TypeError /\ Reject.error = TRUE
  BY DEF Reject
<1>3. Propagate.type = TypeError /\ Propagate.error = FALSE
  BY DEF Propagate
<1>4. IsType(TypeError)
  BY DEF IsType
<1> QED
  BY <1>1, <1>2, <1>3, <1>4, ValueTypeIs DEF IsRule

LEMMA UnaryRule ==
  ASSUME NEW op, NEW t, IsType(t), NEW rule, rule = UnaryType(op, t)
  PROVE  /\ IsRule(rule, {t})
         /\ op = "-" /\ t # TypeError /\ ~rule.error => UnaryValue(rule.type, t) = rule.type
<1>1. CASE t = TypeError
  <2>1. rule = Propagate
    BY <1>1 DEF UnaryType
  <2> QED
    BY <1>1, <2>1, RuleOf
<1>2. CASE t # TypeError
  <2>1. rule = Reject \/ rule = Typed(t)
    BY <1>2 DEF UnaryType
  <2>2. ASSUME op = "-", rule = Typed(t)
        PROVE  UnaryValue(rule.type, t) = rule.type \/ rule.error
    <3>1. CASE Match(t, Numbers)
      <4>1. t \in Numbers
        BY <3>1, MatchIs DEF Numbers
      <4>2. rule.type = t
        BY <2>2, RuleOf
      <4> QED
        BY <4>1, <4>2 DEF UnaryValue, Instruction
    <3>2. CASE ~Match(t, Numbers)
      <4>1. rule = Reject
        BY <1>2, <2>2, <3>2 DEF UnaryType
      <4> QED
        BY <4>1, RuleOf
    <3> QED
      BY <3>1, <3>2
  <2>3. IsRule(rule, {t})
    BY <1>2, <2>1, RuleOf
  <2> QED
    BY <2>1, <2>2, <2>3, RuleOf
<1> QED
  BY <1>1, <1>2

LEMMA BinaryValued ==
  ASSUME NEW op \in {"+", "<", "=="}, NEW l \in Numbers, NEW r \in Numbers,
         NEW rule, rule = BinaryType(op, l, r)
  PROVE  BinaryValue(op, l, r, l, r) = rule.type
<1>1. PICK i, f : i = IntType /\ f = Float
  OBVIOUS
<1>2. i # f /\ i # NoValue /\ f # NoValue
  BY <1>1, PrimitivesDiffer, ValueTypeIs
<1>3. Match(l, Numbers) /\ Match(r, Numbers)
  BY DEF Match, SubclassOf
<1>8. TypeError \notin {l, r}
  BY PrimitivesDiffer, ValueTypeIs DEF Numbers
<1>4. rule.type = IF op = "+" THEN IF l = i /\ r = i THEN i ELSE f ELSE Bool
  <2>1. CASE op = "=="
    <3>1. rule = Typed(Bool)
      BY <1>8, <2>1 DEF BinaryType
    <3> QED
      BY <2>1, <3>1, RuleOf
  <2>2. CASE op = "<"
    <3>1. rule = Typed(Bool)
      BY <1>8, <1>3, <2>2 DEF BinaryType
    <3> QED
      BY <2>2, <3>1, RuleOf
  <2>3. CASE op = "+" /\ l = i /\ r = i
    <3>1. rule = Typed(IntType)
      BY <1>8, <1>1, <2>3 DEF BinaryType
    <3> QED
      BY <1>1, <2>3, <3>1, RuleOf
  <2>4. CASE op = "+" /\ ~(l = i /\ r = i)
    <3>1. {l, r} \subseteq Numbers /\ {l, r} # {IntType}
      BY <1>1, <2>4
    <3>2. rule = Typed(Float)
      BY <1>8, <2>4, <3>1 DEF BinaryType
    <3> QED
      BY <1>1, <2>4, <3>2, RuleOf
  <2> QED
    BY <2>1, <2>2, <2>3, <2>4
<1>5. l \in {i, f} /\ r \in {i, f}
  BY <1>1 DEF Numbers
<1>6. ASSUME l = r
      PROVE  BinaryValue(op, l, r, l, r) = IF op = "+" THEN l ELSE Bool
  <2>1. {l, r} # Numbers
    BY <1>1, <1>2, <1>6 DEF Numbers
  <2> QED
    BY <1>1, <1>2, <1>5, <1>6, <2>1 DEF BinaryValue, Instruction
<1>7. ASSUME l # r
      PROVE  BinaryValue(op, l, r, l, r) = IF op = "+" THEN f ELSE Bool
  <2>1. {l, r} = Numbers
    BY <1>1, <1>5, <1>7 DEF Numbers
  <2>2. f \in Numbers
    BY <1>1 DEF Numbers
  <2> QED
    BY <1>1, <1>2, <1>5, <1>7, <2>1, <2>2 DEF BinaryValue, Instruction, SIToFP
<1> QED
  BY <1>2, <1>4, <1>5, <1>6, <1>7

LEMMA BinaryRule ==
  ASSUME NEW op \in {"+", "<", "=="}, NEW l, IsType(l), NEW r, IsType(r),
         NEW rule, rule = BinaryType(op, l, r)
  PROVE  IsRule(rule, {l, r})
<1>1. CASE TypeError \in {l, r}
  <2>1. rule = Propagate
    BY <1>1 DEF BinaryType
  <2> QED
    BY <1>1, <2>1, RuleOf
<1>2. CASE TypeError \notin {l, r}
  <2>1. rule \in {Reject, Typed(Bool), Typed(IntType), Typed(Float), Typed(String)}
    BY <1>2 DEF BinaryType
  <2> QED
    BY <2>1, RuleOf, PrimitivesDiffer
<1> QED
  BY <1>1, <1>2

LEMMA LogicalRule ==
  ASSUME NEW l, IsType(l), NEW r, IsType(r), NEW rule, rule = LogicalType(l, r)
  PROVE  /\ IsRule(rule, {l, r})
         /\ l # TypeError /\ r # TypeError /\ ~rule.error => LogicalValue(l, r) = rule.type
<1>1. CASE TypeError \in {l, r}
  <2>1. rule = Propagate
    BY <1>1 DEF LogicalType
  <2> QED
    BY <1>1, <2>1, RuleOf
<1>2. CASE TypeError \notin {l, r} /\ Match(l, {Bool}) /\ Match(r, {Bool})
  <2>1. rule = Typed(Bool)
    BY <1>2 DEF LogicalType
  <2>2. l = Bool /\ r = Bool
    BY <1>2, MatchIs
  <2>3. Bool \in ValueTypes
    BY PrimitivesDiffer
  <2>4. Bool # NoValue
    BY <2>3, ValueTypeIs
  <2>5. LogicalValue(l, r) = Bool
    BY <2>2, <2>4 DEF LogicalValue, Instruction
  <2> QED
    BY <2>1, <2>3, <2>5, RuleOf
<1>3. CASE TypeError \notin {l, r} /\ ~(Match(l, {Bool}) /\ Match(r, {Bool}))
  <2>1. rule = Reject
    BY <1>3 DEF LogicalType
  <2> QED
    BY <2>1, RuleOf
<1> QED
  BY <1>1, <1>2, <1>3

LEMMA AssignmentRule ==
  ASSUME NEW var, IsType(var), NEW value, IsType(value), NEW rule,
         rule = AssignmentType(var, value)
  PROVE  /\ IsRule(rule, {var, value})
         /\ AssignmentValue(var, var) = var
<1>1. CASE value = TypeError
  <2>1. rule = Propagate
    BY <1>1 DEF AssignmentType
  <2> QED
    BY <1>1, <2>1, RuleOf, PrimitivesDiffer DEF AssignmentValue, Store
<1>2. CASE value # TypeError
  <2>1. rule = Reject \/ rule = Typed(var)
    BY <1>2 DEF AssignmentType
  <2> QED
    BY <1>2, <2>1, RuleOf, PrimitivesDiffer DEF AssignmentValue, Store
<1> QED
  BY <1>1, <1>2

LEMMA CallRule ==
  ASSUME NEW callee, IsType(callee), NEW args, NEW rule, rule = CallType(callee, args)
  PROVE  /\ IsRule(rule, {})
         /\ ~rule.error => /\ IsFunction(callee) /\ AcceptsArgs(Signature(callee).args, args)
                           /\ rule.type = Signature(callee).result
<1>1. CASE IsFunction(callee) /\ AcceptsArgs(Signature(callee).args, args)
  <2>1. rule = Typed(Signature(callee).result)
    BY <1>1 DEF CallType
  <2>2. Signature(callee) \in Signatures
    BY <1>1, TypeIs
  <2>3. Signature(callee).result \in ValueTypes
    BY <2>2 DEF Signatures
  <2> QED
    BY <1>1, <2>1, <2>3, RuleOf
<1>2. CASE ~(IsFunction(callee) /\ AcceptsArgs(Signature(callee).args, args))
  <2>1. rule = Reject
    BY <1>2 DEF CallType
  <2> QED
    BY <2>1, RuleOf
<1> QED
  BY <1>1, <1>2

\* The assumption that the values need: the TypeChecker looks for a field of the
\* name first (type-checker.cc:390-396), the code generation for a method
\* (llvm/codegen.cc:439).
MembersDiffer == \A c \in ClassNames : DOMAIN FieldsOf[c] \cap DOMAIN Methods[c] = {}

LEMMA GetRule ==
  ASSUME NEW callee, NEW member, NEW rule, rule = GetType(callee, member)
  PROVE  /\ IsRule(rule, {callee})
         /\ IsFunction(rule.type) => rule.type.member = member
         /\ rule.type = TypeError => rule.error \/ callee = TypeError
         /\ ~rule.error /\ callee # TypeError /\ MembersDiffer =>
              /\ GetValue(callee, callee, member) = rule.type
              /\ HasMethod(callee, member) => rule.type = Method(callee.name, member)
<1>1. CASE callee = TypeError
  <2>1. rule = Propagate
    BY <1>1 DEF GetType
  <2>2. rule.type = TypeError
    BY <2>1 DEF Propagate
  <2> QED
    BY <1>1, <2>1, <2>2, RuleOf, PrimitivesDiffer DEF IsFunction
<1>2. CASE callee # TypeError /\ HasField(callee, member)
  <2>1. rule = Typed(FieldsOf[callee.name][member])
    BY <1>2 DEF GetType
  <2>2. IsObject(callee) /\ callee.name \in ClassNames /\ member \in DOMAIN FieldsOf[callee.name]
    BY <1>2 DEF HasField, IsObject
  <2>3. FieldsOf[callee.name][member] \in ValueTypes
    BY <2>2, FieldsHaveTypes
  <2>4. MembersDiffer => ~HasMethod(callee, member)
    BY <2>2 DEF MembersDiffer, HasMethod
  <2>5. MembersDiffer => GetValue(callee, callee, member) = FieldsOf[callee.name][member]
    BY <2>2, <2>4 DEF GetValue
  <2>6. ~IsFunction(rule.type) /\ rule.type # TypeError
    BY <2>1, <2>3, RuleOf, ValueTypeIs
  <2> QED
    BY <2>1, <2>3, <2>4, <2>5, <2>6, RuleOf
<1>3. CASE callee # TypeError /\ ~HasField(callee, member) /\ HasMethod(callee, member)
  <2>1. rule = Typed(Method(callee.name, member))
    BY <1>3 DEF GetType
  <2>2. /\ IsObject(callee) /\ callee.name \in ClassNames
        /\ member \in DOMAIN Methods[callee.name]
    BY <1>3 DEF HasMethod, IsObject
  <2>3. PICK t : t = Method(callee.name, member)
    OBVIOUS
  <2>4. IsType(t) /\ t.member = member /\ t.name \in ClassNames
    BY <2>2, <2>3, MethodIs DEF IsType
  <2>5. t # TypeError
    BY <2>4, PrimitivesDiffer
  <2>6. GetValue(callee, callee, member) = t
    BY <1>3, <2>2, <2>3 DEF GetValue
  <2> QED
    BY <2>1, <2>3, <2>4, <2>5, <2>6, RuleOf
<1>4. CASE callee # TypeError /\ ~HasField(callee, member) /\ ~HasMethod(callee, member)
  <2>1. rule = Reject
    BY <1>4 DEF GetType
  <2>2. rule.type = TypeError
    BY <2>1 DEF Reject
  <2> QED
    BY <2>1, <2>2, RuleOf, PrimitivesDiffer DEF IsFunction
<1> QED
  BY <1>1, <1>2, <1>3, <1>4

LEMMA SetRule ==
  ASSUME NEW callee, IsType(callee), NEW field, NEW value, NEW rule,
         rule = SetType(callee, field, value)
  PROVE  /\ IsRule(rule, {callee, value})
         /\ ~IsFunction(rule.type)
         /\ ~rule.error /\ callee # TypeError /\ value # TypeError =>
              SetValue(callee, callee, field, FieldsOf[callee.name][field]) = Void
<1>1. CASE TypeError \in {callee, value}
  <2>1. rule = Propagate
    BY <1>1 DEF SetType
  <2>2. rule.type = TypeError
    BY <2>1 DEF Propagate
  <2> QED
    BY <1>1, <2>1, <2>2, RuleOf, PrimitivesDiffer DEF IsFunction
<1>2. CASE TypeError \notin {callee, value}
  <2>1. rule = Reject \/ (rule = Typed(callee) /\ HasField(callee, field))
    BY <1>2 DEF SetType
  <2>2. HasField(callee, field) =>
          /\ ~IsFunction(callee)
          /\ SetValue(callee, callee, field, FieldsOf[callee.name][field]) = Void
    BY DEF HasField, IsObject, SetValue, Store
  <2>3. ~IsFunction(Reject.type)
    BY PrimitivesDiffer DEF IsFunction, Reject
  <2> QED
    BY <1>2, <2>1, <2>2, <2>3, RuleOf
<1> QED
  BY <1>1, <1>2

LEMMA GetIndexRule ==
  ASSUME NEW callee, IsType(callee), NEW index, NEW rule,
         rule = GetIndexType(callee, index)
  PROVE  /\ IsRule(rule, {callee, index})
         /\ ~rule.error /\ callee # TypeError /\ index # TypeError =>
              GetIndexValue(callee, callee, index) = rule.type
<1>1. CASE TypeError \in {callee, index}
  <2>1. rule = Propagate
    BY <1>1 DEF GetIndexType
  <2> QED
    BY <1>1, <2>1, RuleOf
<1>2. CASE TypeError \notin {callee, index} /\ callee.dims # 0 /\ index = IntType
  <2>1. rule = Typed(NextEnclosed(callee))
    BY <1>2 DEF GetIndexType
  <2>2. NextEnclosed(callee) \in ValueTypes
    BY <1>2, TypeIs
  <2>3. GetIndexValue(callee, callee, index) = NextEnclosed(callee)
    BY <1>2 DEF GetIndexValue
  <2> QED
    BY <2>1, <2>2, <2>3, RuleOf
<1>3. CASE TypeError \notin {callee, index} /\ ~(callee.dims # 0 /\ index = IntType)
  <2>1. rule = Reject
    BY <1>3 DEF GetIndexType
  <2> QED
    BY <2>1, RuleOf
<1> QED
  BY <1>1, <1>2, <1>3

LEMMA SetIndexRule ==
  ASSUME NEW callee, IsType(callee), NEW index, NEW value, NEW rule,
         rule = SetIndexType(callee, index, value)
  PROVE  /\ IsRule(rule, {callee, index, value})
         /\ ~IsFunction(rule.type)
         /\ ~rule.error /\ callee # TypeError /\ index # TypeError /\ value # TypeError =>
              SetIndexValue(callee, index, NextEnclosed(callee)) = Void
<1>1. CASE TypeError \in {callee, index, value}
  <2>1. rule = Propagate
    BY <1>1 DEF SetIndexType
  <2>2. rule.type = TypeError
    BY <2>1 DEF Propagate
  <2> QED
    BY <1>1, <2>1, <2>2, RuleOf, PrimitivesDiffer DEF IsFunction
<1>2. CASE TypeError \notin {callee, index, value} /\ callee.dims # 0 /\ index = IntType
  <2>1. rule = Reject \/ rule = Typed(NextEnclosed(callee))
    BY <1>2 DEF SetIndexType
  <2>2. NextEnclosed(callee) \in ValueTypes
    BY <1>2, TypeIs
  <2>3. callee.dims \in Nat
    BY <1>2, TypeIs
  <2>4. callee.dims > 0
    BY <1>2, <2>3
  <2>5. SetIndexValue(callee, index, NextEnclosed(callee)) = Void
    BY <1>2, <2>4 DEF SetIndexValue, Store
  <2>6. ~IsFunction(Reject.type)
    BY PrimitivesDiffer DEF IsFunction, Reject
  <2> QED
    BY <2>1, <2>2, <2>5, <2>6, RuleOf, ValueTypeIs
<1>3. CASE TypeError \notin {callee, index, value} /\ ~(callee.dims # 0 /\ index = IntType)
  <2>1. rule = Reject
    BY <1>3 DEF SetIndexType
  <2>2. ~IsFunction(Reject.type)
    BY PrimitivesDiffer DEF IsFunction, Reject
  <2> QED
    BY <2>1, <2>2, RuleOf
<1> QED
  BY <1>1, <1>2, <1>3

-----------------------------------------------------------------------------
(* Entries, and the inductive invariant of the types. *)

EntryKinds == {"class", "variable", "field", "store", "callee", "other"}

\* Only what is called, and a callee, has the type of a function.
IsEntry(e) ==
  /\ e = [type |-> e.type, value |-> e.value, kind |-> e.kind, name |-> e.name,
          partial |-> e.partial, this |-> e.this]
  /\ IsType(e.type) /\ e.partial \in BOOLEAN /\ e.kind \in EntryKinds
  /\ e.kind \in {"class", "variable", "store"} => ~IsFunction(e.type)
  /\ e.kind = "callee" => IsFunction(e.type) /\ e.name \in {"field", "other"}
  /\ e.kind = "class" => e.name \in ClassNames

\* Entry i, in words: no TypeError is silent, and a method has its receiver.
SoundEntry(e, i, err) ==
  /\ IsEntry(e)
  /\ e.type = TypeError => err
  /\ ~err /\ ~e.partial /\ e.kind = "callee" /\ e.name = "field" /\ e.type.member # "init"
       => e.this = i

\* A method on top has just been taken from the object that is remembered.
TopKept(e, i, err, last) ==
  ~err /\ ~e.partial /\ e.kind = "field" /\ e.type.member # "init" => last = i

Valued(e, err) ==
  ~err /\ ~e.partial => e.value = IF e.kind = "store" THEN Void ELSE e.type

SoundStack(s, err, last) ==
  /\ IsList(s) /\ \A i \in 1..Len(s) : SoundEntry(s[i], i, err)
  /\ s # <<>> => TopKept(s[Len(s)], Len(s), err, last)

AllValued(s, err) == \A i \in 1..Len(s) : Valued(s[i], err)

\* b is what is left at the bottom of s.
Bottom(b, s) == IsList(b) /\ Len(b) <= Len(s) /\ \A i \in 1..Len(b) : b[i] = s[i]

SoundSymbols(rows, err) ==
  \A x \in DOMAIN rows : /\ IsType(rows[x]) /\ ~IsFunction(rows[x])
                         /\ rows[x] = TypeError => err

TypesInv ==
  /\ SoundStack(stack, had_error, last_deref_obj)
  /\ SoundSymbols(symbols, had_error)
  /\ return_type \in ValueTypes
  /\ had_error \in BOOLEAN

ValuesInv == AllValued(stack, had_error) /\ emitted = TRUE

LEMMA EntryOf ==
  ASSUME NEW t, IsType(t), NEW v, NEW k \in EntryKinds, k # "callee", NEW n,
         k = "class" => n \in ClassNames,
         NEW p \in BOOLEAN, k \in {"class", "variable", "store"} => ~IsFunction(t),
         NEW e, e = Entry(t, v, k, n, p)
  PROVE  /\ IsEntry(e) /\ e.type = t /\ e.kind = k /\ e.name = n /\ e.partial = p
         /\ ~p => e.value = v
<1>1. e = [type |-> t, value |-> IF p THEN NoValue ELSE v, kind |-> k, name |-> n,
           partial |-> p, this |-> 0]
  BY DEF Entry
<1>2. /\ e.type = t /\ e.kind = k /\ e.name = n /\ e.partial = p /\ e.this = 0
      /\ e.value = IF p THEN NoValue ELSE v
  BY <1>1
<1>3. e = [type |-> e.type, value |-> e.value, kind |-> e.kind, name |-> e.name,
           partial |-> e.partial, this |-> e.this]
  BY <1>1, <1>2
<1> QED
  BY <1>2, <1>3 DEF IsEntry

LEMMA Changed ==
  ASSUME NEW e, IsEntry(e), NEW f, f = [e EXCEPT !.value = NoValue, !.partial = TRUE, !.this = 0]
  PROVE  IsEntry(f) /\ f.type = e.type /\ f.partial = TRUE
<1>1. PICK t, v, k, n, p, o :
        e = [type |-> t, value |-> v, kind |-> k, name |-> n, partial |-> p, this |-> o]
  BY DEF IsEntry
<1>2. f = [type |-> t, value |-> NoValue, kind |-> k, name |-> n, partial |-> TRUE, this |-> 0]
  BY <1>1
<1>3. /\ f.type = e.type /\ f.kind = e.kind /\ f.name = e.name /\ f.partial = TRUE
      /\ f.value = NoValue /\ f.this = 0
  BY <1>1, <1>2
<1>4. f = [type |-> f.type, value |-> f.value, kind |-> f.kind, name |-> f.name,
           partial |-> f.partial, this |-> f.this]
  BY <1>1, <1>2, <1>3
<1> QED
  BY <1>3, <1>4 DEF IsEntry

LEMMA UnemittedIs ==
  ASSUME NEW s, IsList(s), \A i \in 1..Len(s) : IsEntry(s[i]), NEW r, r = Unemitted(s)
  PROVE  /\ IsList(r) /\ Len(r) = Len(s)
         /\ \A i \in 1..Len(s) : IsEntry(r[i]) /\ r[i].type = s[i].type /\ r[i].partial = TRUE
<1>1. Len(s) \in Nat /\ DOMAIN s = 1..Len(s)
  BY ListLength
<1>2. r = [i \in 1..Len(s) |-> [s[i] EXCEPT !.value = NoValue, !.partial = TRUE, !.this = 0]]
  BY <1>1 DEF Unemitted
<1>3. DOMAIN r = 1..Len(s)
  BY <1>2
<1>4. PICK S : S = {r[i] : i \in DOMAIN r}
  OBVIOUS
<1>5. r = [i \in 1..Len(s) |-> r[i]] /\ \A i \in 1..Len(s) : r[i] \in S
  <2>1. r = [i \in 1..Len(s) |-> r[i]]
    BY <1>2
  <2> QED
    BY <1>3, <1>4, <2>1
<1>6. r \in Seq(S)
  BY <1>1, <1>5
<1>7. IsList(r)
  BY <1>6, ListOf
<1>8. Len(r) = Len(s)
  BY <1>1, <1>3, <1>7, ListLength
<1>9. ASSUME NEW i \in 1..Len(s)
      PROVE  IsEntry(r[i]) /\ r[i].type = s[i].type /\ r[i].partial = TRUE
  <2>1. r[i] = [s[i] EXCEPT !.value = NoValue, !.partial = TRUE, !.this = 0]
    BY <1>2
  <2> QED
    BY <2>1, Changed
<1> QED
  BY <1>7, <1>8, <1>9

\* The stack after something was put on what is left of it.
LEMMA StackPushed ==
  ASSUME NEW s, NEW err0 \in BOOLEAN, NEW last0, SoundStack(s, err0, last0),
         NEW err \in BOOLEAN, err0 => err, NEW last,
         NEW b, Bottom(b, s),
         NEW e, SoundEntry(e, Len(b) + 1, err), TopKept(e, Len(b) + 1, err, last),
         NEW r, r = Append(b, e), NEW u, u = r \/ (err /\ u = Unemitted(r))
  PROVE  SoundStack(u, err, last)
<1>0. IsList(b) /\ Len(b) <= Len(s) /\ \A i \in 1..Len(b) : b[i] = s[i]
  BY DEF Bottom
<1>1. Len(b) \in Nat /\ IsList(s) /\ Len(s) \in Nat
  BY <1>0, ListLength DEF SoundStack
<1>2. /\ IsList(r) /\ r # <<>> /\ r[Len(r)] = e /\ Len(r) = Len(b) + 1
      /\ \A i \in 1..Len(b) : r[i] = b[i]
  <2>1. IsList(r) /\ r # <<>>
    BY <1>0, Appended
  <2>2. r[Len(r)] = e /\ Len(r) = Len(b) + 1
    BY <1>0, Appended
  <2>3. \A i \in 1..Len(b) : r[i] = b[i]
    BY <1>0, Appended
  <2> QED
    BY <2>1, <2>2, <2>3
<1>3. ASSUME NEW i \in 1..Len(r)
      PROVE  SoundEntry(r[i], i, err)
  <2>1. CASE i = Len(b) + 1
    BY <1>2, <2>1
  <2>2. CASE i # Len(b) + 1
    <3>1. i \in 1..Len(b) /\ i \in 1..Len(s)
      BY <1>0, <1>1, <1>2, <2>2
    <3>2. r[i] = s[i]
      BY <1>0, <1>2, <3>1
    <3>3. SoundEntry(s[i], i, err0)
      BY <3>1 DEF SoundStack
    <3> QED
      BY <3>2, <3>3 DEF SoundEntry
  <2> QED
    BY <2>1, <2>2
<1>4. CASE u = r
  <2>1. SoundStack(r, err, last)
    BY <1>2, <1>3 DEF SoundStack
  <2> QED
    BY <1>4, <2>1
<1>5. CASE err /\ u = Unemitted(r)
  <2>1. \A i \in 1..Len(r) : IsEntry(r[i])
    BY <1>3 DEF SoundEntry
  <2>2. IsList(u) /\ \A i \in 1..Len(u) : IsEntry(u[i])
    BY <1>2, <1>5, <2>1, UnemittedIs
  <2>3. \A i \in 1..Len(u) : SoundEntry(u[i], i, err)
    BY <1>5, <2>2 DEF SoundEntry
  <2>4. TopKept(u[Len(u)], Len(u), err, last)
    BY <1>5 DEF TopKept
  <2> QED
    BY <2>2, <2>3, <2>4 DEF SoundStack
<1> QED
  BY <1>4, <1>5

LEMMA StackValued ==
  ASSUME NEW s, IsList(s), NEW err0 \in BOOLEAN, AllValued(s, err0),
         NEW err \in BOOLEAN, err0 => err, NEW b, Bottom(b, s), NEW e, Valued(e, err),
         NEW r, r = Append(b, e), NEW u, u = r \/ (err /\ u = Unemitted(r))
  PROVE  AllValued(u, err)
<1>0. IsList(b) /\ Len(b) <= Len(s) /\ \A i \in 1..Len(b) : b[i] = s[i]
  BY DEF Bottom
<1>1. Len(b) \in Nat /\ Len(s) \in Nat
  BY <1>0, ListLength
<1>2. r[Len(r)] = e /\ Len(r) = Len(b) + 1
  BY <1>0, Appended
<1>3. \A i \in 1..Len(b) : r[i] = b[i]
  BY <1>0, Appended
<1>4. CASE err
  BY <1>4 DEF AllValued, Valued
<1>5. ASSUME ~err, NEW i \in 1..Len(r)
      PROVE  Valued(r[i], err)
  <2>1. CASE i = Len(b) + 1
    BY <1>2, <2>1
  <2>2. CASE i # Len(b) + 1
    <3>1. i \in 1..Len(b) /\ i \in 1..Len(s)
      BY <1>0, <1>1, <1>2, <2>2
    <3>2. r[i] = s[i]
      BY <1>0, <1>3, <3>1
    <3>3. Valued(s[i], err0)
      BY <3>1 DEF AllValued
    <3> QED
      BY <3>2, <3>3 DEF Valued
  <2> QED
    BY <2>1, <2>2
<1> QED
  BY <1>4, <1>5 DEF AllValued

-----------------------------------------------------------------------------
(* The steps of the types: operands, visits and statements. *)

LEMMA OperandIs ==
  ASSUME TypesInv, NEW n \in Nat, n <= Len(stack), NEW i \in 1..n, NEW e, e = Operand(i)
  PROVE  /\ IsEntry(e) /\ IsType(e.type)
         /\ e.type = TypeError => had_error
         /\ ValuesInv /\ ~had_error /\ ~e.partial /\ e.kind # "store" => e.value = e.type
         /\ ValuesInv /\ ~had_error /\ ~Partial(n) => e.value = e.type
<1>1. IsList(stack) /\ Len(stack) \in Nat
  BY ListLength DEF TypesInv, SoundStack
<1>2. PICK k \in 1..Len(stack) : k = Len(stack) + 1 - i
  BY <1>1
<1>3. e = stack[k]
  BY <1>2 DEF Operand
<1>4. SoundEntry(e, k, had_error) /\ (ValuesInv => Valued(e, had_error))
  BY <1>2, <1>3 DEF TypesInv, SoundStack, ValuesInv, AllValued
<1>5. ~Partial(n) => ~e.partial /\ e.kind # "store"
  BY DEF Partial
<1> QED
  BY <1>4, <1>5 DEF SoundEntry, Valued, IsEntry

\* What n operands leave of the stack.
LEMMA BelowIs ==
  ASSUME TypesInv, NEW n \in Nat, n <= Len(stack), NEW b, b = Below(n)
  PROVE  Bottom(b, stack) /\ Len(b) = Len(stack) - n /\ Len(b) \in Nat
<1>1. IsList(stack) /\ Len(stack) \in Nat
  BY ListLength DEF TypesInv, SoundStack
<1>2. PICK m \in Nat : m = Len(stack) - n /\ m <= Len(stack)
  BY <1>1
<1>3. b = SubSeq(stack, 1, m)
  BY <1>2 DEF Below
<1>4. IsList(b) /\ Len(b) = m
  BY <1>1, <1>2, <1>3, Cut
<1>5. \A i \in 1..m : b[i] = stack[i]
  BY <1>1, <1>2, <1>3, Cut
<1> QED
  BY <1>2, <1>4, <1>5 DEF Bottom

LEMMA VisitedIs ==
  ASSUME TypesInv, NEW n \in Nat, n <= Len(stack),
         NEW rule, IsType(rule.type), rule.error \in BOOLEAN,
         rule.type = TypeError => rule.error \/ had_error,
         NEW value, NEW kind \in {"field", "store", "other"}, NEW partial \in BOOLEAN,
         kind = "store" => ~IsFunction(rule.type),
         Visited(n, rule, value, kind, partial),
         ~had_error' /\ ~partial /\ kind = "field" /\ rule.type.member # "init"
           => last_deref_obj' = Len(stack) - n + 1
  PROVE  /\ TypesInv'
         /\ ValuesInv /\ (~had_error' /\ ~partial
                            => value = IF kind = "store" THEN Void ELSE rule.type) => ValuesInv'
<1>1. PICK b : b = Below(n)
  OBVIOUS
<1>2. PICK e : e = Entry(rule.type, value, kind, "", partial)
  OBVIOUS
<1>3. PICK r : r = Append(b, e)
  OBVIOUS
<1>4. PICK err : err = had_error'
  OBVIOUS
<1>5. /\ had_error \in BOOLEAN /\ err \in BOOLEAN
      /\ (had_error => err) /\ (rule.error => err) /\ (err => had_error \/ rule.error)
  BY <1>4 DEF Visited, TypesInv
<1>6. PICK st : st = stack'
  OBVIOUS
<1>7. /\ st = r \/ (err /\ st = Unemitted(r))
      /\ symbols' = symbols /\ return_type' = return_type /\ emitted' = emitted
  BY <1>1, <1>2, <1>3, <1>4, <1>6 DEF Visited
<1>8. PICK last : last = last_deref_obj'
  OBVIOUS
<1>9. Bottom(b, stack) /\ Len(b) = Len(stack) - n /\ Len(b) \in Nat
  BY <1>1, BelowIs
<1>10. PICK last0 : last0 = last_deref_obj
  OBVIOUS
<1>11. kind \in EntryKinds /\ kind # "callee" /\ kind # "class" /\ kind # "variable"
  BY DEF EntryKinds
<1>12. /\ IsEntry(e) /\ e.type = rule.type /\ e.kind = kind /\ e.partial = partial
       /\ ~partial => e.value = value
  <2>1. PICK t, empty : t = rule.type /\ empty = ""
    OBVIOUS
  <2>2. IsType(t) /\ e = Entry(t, value, kind, empty, partial)
    BY <1>2, <2>1
  <2>3. kind \in {"class", "variable", "store"} => ~IsFunction(t)
    BY <1>11, <2>1
  <2>4. kind \in EntryKinds /\ kind # "callee" /\ kind # "class"
    BY <1>11
  <2> HIDE <2>1
  <2>5. IsEntry(e)
    BY <2>2, <2>3, <2>4, EntryOf
  <2>6. e.type = t /\ e.kind = kind /\ e.partial = partial
    BY <2>2, <2>3, <2>4, EntryOf
  <2>7. ~partial => e.value = value
    BY <2>2, <2>3, <2>4, EntryOf
  <2> QED
    BY <2>1, <2>5, <2>6, <2>7
<1>13. SoundEntry(e, Len(b) + 1, err)
  BY <1>5, <1>11, <1>12 DEF SoundEntry
<1>14. TopKept(e, Len(b) + 1, err, last)
  BY <1>4, <1>8, <1>9, <1>12 DEF TopKept
<1>15. SoundStack(stack, had_error, last0)
  BY <1>10 DEF TypesInv
<1>16. SoundStack(st, err, last)
  BY <1>3, <1>5, <1>7, <1>9, <1>13, <1>14, <1>15, StackPushed
<1>17. ASSUME AllValued(stack, had_error), Valued(e, err)
       PROVE  AllValued(st, err)
  <2>1. IsList(stack)
    BY DEF TypesInv, SoundStack
  <2> QED
    BY <1>3, <1>5, <1>7, <1>9, <1>17, <2>1, StackValued
<1>18. TypesInv'
  BY <1>4, <1>5, <1>6, <1>7, <1>8, <1>16 DEF TypesInv, SoundSymbols
<1>19. ASSUME ValuesInv, ~had_error' /\ ~partial
                            => value = IF kind = "store" THEN Void ELSE rule.type
       PROVE  ValuesInv'
  <2>1. Valued(e, err)
    BY <1>4, <1>12, <1>19 DEF Valued
  <2> QED
    BY <1>4, <1>6, <1>7, <1>17, <1>19, <2>1 DEF ValuesInv
<1> QED
  BY <1>18, <1>19

LEMMA LeafIs ==
  ASSUME TypesInv, NEW t, IsType(t), t = TypeError => had_error, NEW value,
         NEW kind \in {"class", "variable", "other"}, NEW name, NEW partial \in BOOLEAN,
         kind # "other" => ~IsFunction(t), kind = "class" => name \in ClassNames,
         ~partial => value = t,
         Leaf(t, value, kind, name, partial)
  PROVE  TypesInv' /\ (ValuesInv => ValuesInv')
<1>1. PICK e : e = Entry(t, value, kind, name, partial)
  OBVIOUS
<1>2. PICK r : r = Append(stack, e)
  OBVIOUS
<1>3. PICK st : st = stack'
  OBVIOUS
<1>4. /\ had_error \in BOOLEAN /\ (st = r \/ (had_error /\ st = Unemitted(r)))
  BY <1>1, <1>2, <1>3 DEF Leaf, TypesInv
<1>5. /\ symbols' = symbols /\ return_type' = return_type /\ emitted' = emitted
      /\ last_deref_obj' = last_deref_obj /\ had_error' = had_error
  BY DEF Leaf
<1>6. kind \in EntryKinds /\ kind # "callee" /\ kind # "field" /\ kind # "store"
  BY DEF EntryKinds
<1>7. /\ IsEntry(e) /\ e.type = t /\ e.kind = kind /\ e.partial = partial
      /\ ~partial => e.value = value
  BY <1>1, <1>6, EntryOf
<1>8. SoundStack(stack, had_error, last_deref_obj)
  BY DEF TypesInv
<1>9. IsList(stack) /\ Len(stack) \in Nat
  BY ListLength DEF TypesInv, SoundStack
<1>10. Bottom(stack, stack)
  BY <1>9 DEF Bottom
<1>11. SoundEntry(e, Len(stack) + 1, had_error)
  BY <1>6, <1>7 DEF SoundEntry
<1>12. TopKept(e, Len(stack) + 1, had_error, last_deref_obj)
  BY <1>6, <1>7 DEF TopKept
<1>13. Valued(e, had_error)
  BY <1>6, <1>7 DEF Valued
<1>14. SoundStack(st, had_error, last_deref_obj)
  BY <1>2, <1>4, <1>8, <1>9, <1>10, <1>11, <1>12, StackPushed
<1>15. ASSUME AllValued(stack, had_error)
       PROVE  AllValued(st, had_error)
  BY <1>2, <1>4, <1>9, <1>10, <1>13, <1>15, StackValued
<1> QED
  BY <1>3, <1>5, <1>14, <1>15 DEF TypesInv, ValuesInv, SoundSymbols

\* A statement leaves no operand; an error stays.
LEMMA StatementIs ==
  ASSUME TypesInv, NEW n, NEW error \in BOOLEAN, NEW good, Statement(n, error, good),
         SoundSymbols(symbols', had_error')
  PROVE  /\ TypesInv' /\ (had_error => had_error')
         /\ ValuesInv /\ (~had_error' /\ ~Partial(n) => good) => ValuesInv'
<1>1. PICK st : st = stack'
  OBVIOUS
<1>2. st = <<>> /\ IsList(st) /\ Len(st) = 0
  BY <1>1 DEF Statement, IsList
<1>3. \A i : i \notin 1..Len(st)
  BY <1>2
<1>4. PICK last : last = last_deref_obj'
  OBVIOUS
<1>5. had_error' \in BOOLEAN /\ return_type' = return_type /\ (had_error => had_error')
  BY DEF Statement, TypesInv
<1>6. SoundStack(st, had_error', last)
  BY <1>2, <1>3 DEF SoundStack
<1>7. TypesInv'
  BY <1>1, <1>4, <1>5, <1>6 DEF TypesInv
<1>8. ASSUME ValuesInv, ~had_error' /\ ~Partial(n) => good
      PROVE  ValuesInv'
  <2>1. emitted' = TRUE
    BY <1>8 DEF Statement, ValuesInv
  <2> QED
    BY <1>1, <1>3, <2>1 DEF ValuesInv, AllValued
<1> QED
  BY <1>5, <1>7, <1>8

\* The visit of an expression that is not a method, by its rule.
LEMMA VisitEnds ==
  ASSUME TypesInv, NEW n \in Nat, n <= Len(stack),
         NEW rule, NEW S, IsRule(rule, S), TypeError \in S => had_error,
         NEW value, NEW kind \in {"store", "other"}, NEW partial \in BOOLEAN,
         kind = "store" => ~IsFunction(rule.type),
         Visited(n, rule, value, kind, partial),
         ValuesInv /\ ~had_error /\ ~rule.error /\ ~partial
           => value = IF kind = "store" THEN Void ELSE rule.type
  PROVE  TypesInv' /\ (ValuesInv => ValuesInv')
<1>1. /\ IsType(rule.type) /\ rule.error \in BOOLEAN
      /\ rule.type = TypeError => rule.error \/ had_error
  BY DEF IsRule
<1>2. kind \in {"field", "store", "other"} /\ kind # "field"
  OBVIOUS
<1>3. ~had_error' => ~had_error /\ ~rule.error
  BY DEF Visited
<1>4. TypesInv'
  BY <1>1, <1>2, VisitedIs
<1>5. ASSUME ValuesInv
      PROVE  ValuesInv'
  <2>1. ~had_error' /\ ~partial => value = IF kind = "store" THEN Void ELSE rule.type
    BY <1>3, <1>5
  <2> QED
    BY <1>1, <1>2, <1>5, <2>1, VisitedIs
<1> QED
  BY <1>4, <1>5

\* The n operands that Ready has found.
LEMMA ReadyIs ==
  ASSUME TypesInv, NEW n \in Nat, Ready(n), NEW i \in 1..n, NEW e, e = Operand(i)
  PROVE  /\ n <= Len(stack) /\ IsEntry(e) /\ IsType(e.type)
         /\ e.type = TypeError => had_error
         /\ ValuesInv /\ ~had_error /\ ~e.partial /\ e.kind # "store" => e.value = e.type
         /\ ValuesInv /\ ~had_error /\ ~Partial(n) => e.value = e.type
         /\ e.kind # "callee"
<1>1. Len(stack) \in Nat
  BY ListLength DEF TypesInv, SoundStack
<1>2. n <= Len(stack) /\ e.kind # "callee"
  BY <1>1 DEF Ready, Operands
<1>3. IsEntry(e) /\ IsType(e.type)
  BY <1>2, OperandIs
<1>4. e.type = TypeError => had_error
  BY <1>2, OperandIs
<1>5. ValuesInv /\ ~had_error /\ ~e.partial /\ e.kind # "store" => e.value = e.type
  BY <1>2, OperandIs
<1>6. ValuesInv /\ ~had_error /\ ~Partial(n) => e.value = e.type
  BY <1>2, OperandIs
<1> QED
  BY <1>2, <1>3, <1>4, <1>5, <1>6

LEMMA LeavesKeep ==
  ASSUME TypesInv, Literal \/ This \/ Variable
  PROVE  TypesInv' /\ (ValuesInv => ValuesInv')
<1>1. ASSUME NEW t \in ValueTypes, Leaf(t, t, "other", "", FALSE)
      PROVE  TypesInv' /\ (ValuesInv => ValuesInv')
  <2>1. IsType(t) /\ t # TypeError
    BY ValueTypeIs
  <2>2. PICK kind, empty, no : kind = "other" /\ empty = "" /\ no = FALSE
    OBVIOUS
  <2>3. Leaf(t, t, kind, empty, no) /\ no \in BOOLEAN /\ kind \in {"class", "variable", "other"}
    BY <1>1, <2>2
  <2> QED
    BY <2>1, <2>2, <2>3, LeafIs
<1>2. CASE Literal
  <2>1. PICK t \in {IntType, Float, Bool, String} : Leaf(t, t, "other", "", FALSE)
    BY <1>2 DEF Literal
  <2>2. t \in ValueTypes
    BY <2>1, PrimitivesDiffer
  <2> QED
    BY <1>1, <2>1, <2>2
<1>3. CASE This
  <2>1. ThisClass \in ClassNames
    BY <1>3, DeclaredAssumption DEF This
  <2>2. PICK t : t = T(ThisClass)
    OBVIOUS
  <2>3. t \in ValueTypes
    BY <2>1, <2>2, ValueTypeOf DEF T
  <2>4. Leaf(t, t, "other", "", FALSE)
    BY <1>3, <2>2 DEF This
  <2> QED
    BY <1>1, <2>3, <2>4
<1>4. ASSUME NEW x \in DOMAIN symbols,
             Leaf(symbols[x], symbols[x], IF symbols[x] = Class THEN "variable" ELSE "other", "",
                  FALSE)
      PROVE  TypesInv' /\ (ValuesInv => ValuesInv')
  <2>1. PICK t, kind, empty, no : /\ t = symbols[x] /\ empty = "" /\ no = FALSE
                                  /\ kind = IF t = Class THEN "variable" ELSE "other"
    OBVIOUS
  <2>2. IsType(t) /\ ~IsFunction(t) /\ (t = TypeError => had_error)
    BY <2>1 DEF TypesInv, SoundSymbols
  <2>3. /\ Leaf(t, t, kind, empty, no) /\ no \in BOOLEAN
        /\ kind \in {"class", "variable", "other"} /\ kind # "class"
    BY <1>4, <2>1
  <2> HIDE <2>1
  <2> QED
    BY <2>2, <2>3, LeafIs
<1>5. ASSUME NEW f \in DOMAIN Functions, Leaf(Function(f), Function(f), "other", "", FALSE)
      PROVE  TypesInv' /\ (ValuesInv => ValuesInv')
  <2>1. PICK t, kind, empty, no :
          t = Function(f) /\ kind = "other" /\ empty = "" /\ no = FALSE
    OBVIOUS
  <2>2. IsType(t) /\ t # TypeError
    BY <2>1, FunctionIs, PrimitivesDiffer DEF IsType
  <2>3. Leaf(t, t, kind, empty, no) /\ no \in BOOLEAN /\ kind \in {"class", "variable", "other"}
    BY <1>5, <2>1
  <2> QED
    BY <2>1, <2>2, <2>3, LeafIs
<1>6. ASSUME NEW c \in ClassNames, Leaf(Class, Invalid, "class", c, TRUE)
      PROVE  TypesInv' /\ (ValuesInv => ValuesInv')
  <2>1. PICK t, value, kind, yes : t = Class /\ value = Invalid /\ kind = "class" /\ yes = TRUE
    OBVIOUS
  <2>2. t \in ValueTypes
    BY <2>1, PrimitivesDiffer
  <2>3. IsType(t) /\ ~IsFunction(t) /\ t # TypeError
    BY <2>2, ValueTypeIs
  <2>4. Leaf(t, value, kind, c, yes) /\ yes \in BOOLEAN /\ kind \in {"class", "variable", "other"}
    BY <1>6, <2>1
  <2>5. ~yes => value = t
    BY <2>1
  <2> QED
    BY <2>3, <2>4, <2>5, LeafIs
<1>7. CASE Variable
  BY <1>4, <1>5, <1>6, <1>7 DEF Variable
<1> QED
  BY <1>2, <1>3, <1>7

LEMMA UnknownVariableKeeps ==
  ASSUME TypesInv, UnknownVariable
  PROVE  TypesInv' /\ (ValuesInv => ValuesInv')
<1>1. PICK t, none, kind, empty, yes : /\ t = TypeError /\ none = NoValue /\ kind = "other"
                                       /\ empty = "" /\ yes = TRUE
  OBVIOUS
<1>2. PICK e : e = Entry(t, none, kind, empty, yes)
  OBVIOUS
<1>3. PICK r : r = Append(stack, e)
  OBVIOUS
<1>4. PICK st, err, last : st = stack' /\ err = had_error' /\ last = last_deref_obj
  OBVIOUS
<1>5. st = Unemitted(r) /\ err = TRUE
  BY <1>1, <1>2, <1>3, <1>4 DEF UnknownVariable
<1>6. /\ symbols' = symbols /\ return_type' = return_type /\ emitted' = emitted
      /\ last_deref_obj' = last_deref_obj
  BY DEF UnknownVariable
<1>7. IsType(t) /\ yes \in BOOLEAN /\ kind \in EntryKinds /\ kind # "callee" /\ kind # "field"
      /\ kind \notin {"class", "variable", "store"}
  BY <1>1 DEF IsType, EntryKinds
<1>8. IsEntry(e) /\ e.kind = kind /\ e.partial = yes
  BY <1>2, <1>7, EntryOf
<1>9. IsList(stack) /\ Len(stack) \in Nat
  BY ListLength DEF TypesInv, SoundStack
<1>10. Bottom(stack, stack)
  BY <1>9 DEF Bottom
<1>11. SoundEntry(e, Len(stack) + 1, err) /\ TopKept(e, Len(stack) + 1, err, last)
  BY <1>5, <1>8 DEF SoundEntry, TopKept
<1>12. SoundStack(stack, had_error, last) /\ had_error \in BOOLEAN /\ err \in BOOLEAN
  BY <1>4, <1>5 DEF TypesInv
<1>13. SoundStack(st, err, last)
  BY <1>3, <1>5, <1>10, <1>11, <1>12, StackPushed
<1>14. AllValued(st, err)
  BY <1>5 DEF AllValued, Valued
<1> QED
  BY <1>4, <1>5, <1>6, <1>13, <1>14 DEF TypesInv, ValuesInv, SoundSymbols

LEMMA GroupingKeeps ==
  ASSUME TypesInv, Grouping
  PROVE  TypesInv' /\ (ValuesInv => ValuesInv')
<1>1. PICK e : e = Operand(1)
  OBVIOUS
<1>2. PICK one : one = 1
  OBVIOUS
<1>3. Ready(one) /\ one \in Nat /\ 1 \in 1..one
  BY <1>2 DEF Grouping
<1>4. one <= Len(stack) /\ IsEntry(e) /\ IsType(e.type) /\ (e.type = TypeError => had_error)
  BY <1>1, <1>3, ReadyIs
<1>5. ValuesInv /\ ~had_error /\ ~e.partial /\ e.kind # "store" => e.value = e.type
  BY <1>1, <1>3, ReadyIs
<1>6. PICK rule, kind : /\ rule = Typed(e.type)
                        /\ kind = IF e.kind = "store" THEN "store" ELSE "other"
  OBVIOUS
<1>7. Visited(one, rule, e.value, kind, e.partial)
  BY <1>1, <1>2, <1>6 DEF Grouping
<1>8. PICK S : S = {e.type}
  OBVIOUS
<1>9. IsRule(rule, S) /\ rule.type = e.type
  BY <1>4, <1>6, <1>8, RuleOf
<1>10. e.partial \in BOOLEAN /\ (e.kind = "store" => ~IsFunction(e.type))
  BY <1>4 DEF IsEntry
<1>11. kind \in {"store", "other"} /\ (kind = "store" <=> e.kind = "store")
  BY <1>6
<1>12. ASSUME ValuesInv, ~had_error, ~e.partial
       PROVE  e.value = IF kind = "store" THEN Void ELSE rule.type
  <2>1. CASE e.kind = "store"
    <3>1. PICK k \in 1..Len(stack) : e = stack[k]
      <4>1. IsList(stack) /\ Len(stack) \in Nat
        BY ListLength DEF TypesInv, SoundStack
      <4>2. Len(stack) \in 1..Len(stack) /\ e = stack[Len(stack)]
        BY <1>1, <1>2, <1>4, <4>1 DEF Operand
      <4> QED
        BY <4>2
    <3>2. Valued(e, had_error)
      BY <1>12, <3>1 DEF ValuesInv, AllValued
    <3> QED
      BY <1>11, <1>12, <2>1, <3>2 DEF Valued
  <2>2. CASE e.kind # "store"
    BY <1>5, <1>9, <1>11, <1>12, <2>2
  <2> QED
    BY <2>1, <2>2
<1>13. TypeError \in S => had_error
  BY <1>4, <1>8
<1>14. kind = "store" => ~IsFunction(rule.type)
  BY <1>9, <1>10, <1>11
<1>15. PICK value, part : value = e.value /\ part = e.partial
  OBVIOUS
<1>16. /\ Visited(one, rule, value, kind, part) /\ part \in BOOLEAN
       /\ ValuesInv /\ ~had_error /\ ~rule.error /\ ~part
            => value = IF kind = "store" THEN Void ELSE rule.type
  BY <1>7, <1>10, <1>12, <1>15
<1> HIDE <1>1, <1>2, <1>6, <1>8, <1>15
<1> QED
  BY <1>3, <1>4, <1>9, <1>11, <1>13, <1>14, <1>16, VisitEnds

LEMMA UnaryKeeps ==
  ASSUME TypesInv, Unary
  PROVE  TypesInv' /\ (ValuesInv => ValuesInv')
<1>1. PICK one, kind, e : one = 1 /\ kind = "other" /\ e = Operand(1)
  OBVIOUS
<1>2. Ready(one) /\ one \in Nat /\ 1 \in 1..one
  BY <1>1 DEF Unary
<1>3. one <= Len(stack) /\ IsType(e.type) /\ (e.type = TypeError => had_error)
  BY <1>1, <1>2, ReadyIs
<1>4. ValuesInv /\ ~had_error /\ ~Partial(one) => e.value = e.type
  BY <1>1, <1>2, ReadyIs
<1>5. PICK op \in {"-", "!"} :
        Visited(1, UnaryType(op, e.type), UnaryValue(UnaryType(op, e.type).type, e.value),
                "other", Partial(1) \/ op = "!")
  BY <1>1 DEF Unary
<1>6. PICK rule, value : rule = UnaryType(op, e.type) /\ value = UnaryValue(rule.type, e.value)
  OBVIOUS
<1>7. PICK part \in BOOLEAN : part <=> Partial(one) \/ op = "!"
  OBVIOUS
<1>8. Visited(one, rule, value, kind, part)
  <2>1. part = (Partial(1) \/ op = "!")
    BY <1>1, <1>7
  <2> QED
    BY <1>1, <1>5, <1>6, <2>1
<1>9. PICK S : S = {e.type}
  OBVIOUS
<1>10. IsRule(rule, S)
  BY <1>3, <1>6, <1>9, UnaryRule
<1>11. op = "-" /\ e.type # TypeError /\ ~rule.error
         => UnaryValue(rule.type, e.type) = rule.type
  BY <1>3, <1>6, UnaryRule
<1>12. ValuesInv /\ ~had_error /\ ~rule.error /\ ~part => value = rule.type
  BY <1>3, <1>4, <1>5, <1>6, <1>7, <1>11
<1>13. TypeError \in S => had_error
  BY <1>3, <1>9
<1>14. kind \in {"store", "other"} /\ kind # "store"
  BY <1>1
<1> HIDE <1>1, <1>6, <1>7, <1>9
<1> QED
  BY <1>2, <1>3, <1>8, <1>10, <1>12, <1>13, <1>14, VisitEnds

LEMMA BinaryKeeps ==
  ASSUME TypesInv, Binary
  PROVE  TypesInv' /\ (ValuesInv => ValuesInv')
<1>1. PICK two, kind, l, r :
        two = 2 /\ kind = "other" /\ l = Operand(2) /\ r = Operand(1)
  OBVIOUS
<1>2. Ready(two) /\ two \in Nat /\ 1 \in 1..two /\ 2 \in 1..two
  BY <1>1 DEF Binary
<1>3. two <= Len(stack) /\ IsType(l.type) /\ (l.type = TypeError => had_error)
  BY <1>1, <1>2, ReadyIs
<1>4. IsType(r.type) /\ (r.type = TypeError => had_error)
  BY <1>1, <1>2, ReadyIs
<1>5. ValuesInv /\ ~had_error /\ ~Partial(two) => l.value = l.type
  BY <1>1, <1>2, ReadyIs
<1>6. ValuesInv /\ ~had_error /\ ~Partial(two) => r.value = r.type
  BY <1>1, <1>2, ReadyIs
<1>7. PICK op \in {"+", "<", "=="} :
        Visited(2, BinaryType(op, l.type, r.type),
                BinaryValue(op, l.type, r.type, l.value, r.value), "other",
                Partial(2) \/ ~({l.type, r.type} \subseteq Numbers))
  BY <1>1 DEF Binary
<1>8. PICK rule, value : /\ rule = BinaryType(op, l.type, r.type)
                         /\ value = BinaryValue(op, l.type, r.type, l.value, r.value)
  OBVIOUS
<1>9. PICK part \in BOOLEAN : part <=> Partial(two) \/ ~({l.type, r.type} \subseteq Numbers)
  OBVIOUS
<1>10. Visited(two, rule, value, kind, part)
  <2>1. part = (Partial(2) \/ ~({l.type, r.type} \subseteq Numbers))
    BY <1>1, <1>9
  <2> QED
    BY <1>1, <1>7, <1>8, <2>1
<1>11. PICK S : S = {l.type, r.type}
  OBVIOUS
<1>12. IsRule(rule, S)
  BY <1>3, <1>4, <1>8, <1>11, BinaryRule
<1>13. ASSUME l.type \in Numbers, r.type \in Numbers
       PROVE  BinaryValue(op, l.type, r.type, l.type, r.type) = rule.type
  <2>1. PICK lt, rt : lt = l.type /\ rt = r.type
    OBVIOUS
  <2>2. lt \in Numbers /\ rt \in Numbers /\ rule = BinaryType(op, lt, rt)
    BY <1>8, <1>13, <2>1
  <2>3. BinaryValue(op, lt, rt, lt, rt) = rule.type
    BY <2>2, BinaryValued
  <2> QED
    BY <2>1, <2>3
<1>14. ValuesInv /\ ~had_error /\ ~rule.error /\ ~part => value = rule.type
  BY <1>3, <1>4, <1>5, <1>6, <1>8, <1>9, <1>13
<1>15. TypeError \in S => had_error
  BY <1>3, <1>4, <1>11
<1>16. kind \in {"store", "other"} /\ kind # "store"
  BY <1>1
<1> HIDE <1>1, <1>8, <1>9, <1>11
<1> QED
  BY <1>2, <1>3, <1>10, <1>12, <1>14, <1>15, <1>16, VisitEnds

LEMMA LogicalKeeps ==
  ASSUME TypesInv, Logical
  PROVE  TypesInv' /\ (ValuesInv => ValuesInv')
<1>1. PICK two, kind, l, r :
        two = 2 /\ kind = "other" /\ l = Operand(2) /\ r = Operand(1)
  OBVIOUS
<1>2. Ready(two) /\ two \in Nat /\ 1 \in 1..two /\ 2 \in 1..two
  BY <1>1 DEF Logical
<1>3. two <= Len(stack) /\ IsType(l.type) /\ (l.type = TypeError => had_error)
  BY <1>1, <1>2, ReadyIs
<1>4. IsType(r.type) /\ (r.type = TypeError => had_error)
  BY <1>1, <1>2, ReadyIs
<1>5. ValuesInv /\ ~had_error /\ ~Partial(two) => l.value = l.type
  BY <1>1, <1>2, ReadyIs
<1>6. ValuesInv /\ ~had_error /\ ~Partial(two) => r.value = r.type
  BY <1>1, <1>2, ReadyIs
<1>7. PICK rule, value : /\ rule = LogicalType(l.type, r.type)
                         /\ value = LogicalValue(l.value, r.value)
  OBVIOUS
<1>8. PICK part \in BOOLEAN : part <=> Partial(two)
  OBVIOUS
<1>9. Visited(two, rule, value, kind, part)
  <2>1. part = Partial(2)
    BY <1>1, <1>8 DEF Partial
  <2> QED
    BY <1>1, <1>7, <2>1 DEF Logical
<1>10. PICK S : S = {l.type, r.type}
  OBVIOUS
<1>11. IsRule(rule, S)
  BY <1>3, <1>4, <1>7, <1>10, LogicalRule
<1>12. l.type # TypeError /\ r.type # TypeError /\ ~rule.error
         => LogicalValue(l.type, r.type) = rule.type
  BY <1>3, <1>4, <1>7, LogicalRule
<1>13. ValuesInv /\ ~had_error /\ ~rule.error /\ ~part => value = rule.type
  BY <1>3, <1>4, <1>5, <1>6, <1>7, <1>8, <1>12
<1>14. TypeError \in S => had_error
  BY <1>3, <1>4, <1>10
<1>15. kind \in {"store", "other"} /\ kind # "store"
  BY <1>1
<1> HIDE <1>1, <1>7, <1>8, <1>10
<1> QED
  BY <1>2, <1>3, <1>9, <1>11, <1>13, <1>14, <1>15, VisitEnds

LEMMA AssignmentKeeps ==
  ASSUME TypesInv, Assignment
  PROVE  TypesInv' /\ (ValuesInv => ValuesInv')
<1>1. PICK one, kind, e : one = 1 /\ kind = "other" /\ e = Operand(1)
  OBVIOUS
<1>2. Ready(one) /\ one \in Nat /\ 1 \in 1..one
  BY <1>1 DEF Assignment
<1>3. one <= Len(stack) /\ IsType(e.type) /\ (e.type = TypeError => had_error)
  BY <1>1, <1>2, ReadyIs
<1>4. ValuesInv /\ ~had_error /\ ~Partial(one) => e.value = e.type
  BY <1>1, <1>2, ReadyIs
<1>5. PICK x \in DOMAIN symbols :
        Visited(1, AssignmentType(symbols[x], e.type), AssignmentValue(symbols[x], e.value),
                "other", Partial(1) \/ e.type # symbols[x])
  BY <1>1 DEF Assignment
<1>6. PICK var : var = symbols[x]
  OBVIOUS
<1>7. IsType(var) /\ (var = TypeError => had_error)
  BY <1>6 DEF TypesInv, SoundSymbols
<1>8. PICK rule, value : /\ rule = AssignmentType(var, e.type)
                         /\ value = AssignmentValue(var, e.value)
  OBVIOUS
<1>9. PICK part \in BOOLEAN : part <=> Partial(one) \/ e.type # var
  OBVIOUS
<1>10. Visited(one, rule, value, kind, part)
  <2>1. part = (Partial(1) \/ e.type # symbols[x])
    BY <1>1, <1>6, <1>9
  <2> QED
    BY <1>1, <1>5, <1>6, <1>8, <2>1
<1>11. PICK S : S = {var, e.type}
  OBVIOUS
<1>12. IsRule(rule, S)
  BY <1>3, <1>7, <1>8, <1>11, AssignmentRule
<1>13. /\ e.type # TypeError /\ ~rule.error => rule.type = var
       /\ AssignmentValue(var, var) = var
  <2>1. e.type # TypeError /\ ~rule.error => rule.type = var
    <3>1. PICK t : t = e.type
      OBVIOUS
    <3>2. IsType(t) /\ rule = AssignmentType(var, t)
      BY <1>3, <1>8, <3>1
    <3>3. t # TypeError => rule = Reject \/ rule = Typed(var)
      BY <3>2 DEF AssignmentType
    <3> QED
      BY <3>1, <3>3, RuleOf
  <2>2. AssignmentValue(var, var) = var
    BY <1>3, <1>7, <1>8, AssignmentRule
  <2> QED
    BY <2>1, <2>2
<1>14. ValuesInv /\ ~had_error /\ ~rule.error /\ ~part => value = rule.type
  BY <1>3, <1>4, <1>8, <1>9, <1>13
<1>15. TypeError \in S => had_error
  BY <1>3, <1>7, <1>11
<1>16. kind \in {"store", "other"} /\ kind # "store"
  BY <1>1
<1> HIDE <1>1, <1>6, <1>8, <1>9, <1>11
<1> QED
  BY <1>2, <1>3, <1>10, <1>12, <1>14, <1>15, <1>16, VisitEnds

LEMMA GetIndexKeeps ==
  ASSUME TypesInv, GetIndex
  PROVE  TypesInv' /\ (ValuesInv => ValuesInv')
<1>1. PICK two, kind, a, i :
        two = 2 /\ kind = "other" /\ a = Operand(2) /\ i = Operand(1)
  OBVIOUS
<1>2. Ready(two) /\ two \in Nat /\ 1 \in 1..two /\ 2 \in 1..two
  BY <1>1 DEF GetIndex
<1>3. two <= Len(stack) /\ IsType(a.type) /\ (a.type = TypeError => had_error)
  BY <1>1, <1>2, ReadyIs
<1>4. IsType(i.type) /\ (i.type = TypeError => had_error)
  BY <1>1, <1>2, ReadyIs
<1>5. ValuesInv /\ ~had_error /\ ~Partial(two) => a.value = a.type
  BY <1>1, <1>2, ReadyIs
<1>6. ValuesInv /\ ~had_error /\ ~Partial(two) => i.value = i.type
  BY <1>1, <1>2, ReadyIs
<1>7. PICK rule, value : /\ rule = GetIndexType(a.type, i.type)
                         /\ value = GetIndexValue(a.type, a.value, i.value)
  OBVIOUS
<1>8. PICK part \in BOOLEAN : part <=> Partial(two)
  OBVIOUS
<1>9. Visited(two, rule, value, kind, part)
  <2>1. part = Partial(2)
    BY <1>1, <1>8 DEF Partial
  <2> QED
    BY <1>1, <1>7, <2>1 DEF GetIndex
<1>10. PICK S : S = {a.type, i.type}
  OBVIOUS
<1>11. IsRule(rule, S)
  BY <1>3, <1>7, <1>10, GetIndexRule
<1>12. a.type # TypeError /\ i.type # TypeError /\ ~rule.error
         => GetIndexValue(a.type, a.type, i.type) = rule.type
  BY <1>3, <1>7, GetIndexRule
<1>13. ValuesInv /\ ~had_error /\ ~rule.error /\ ~part => value = rule.type
  BY <1>3, <1>4, <1>5, <1>6, <1>7, <1>8, <1>12
<1>14. TypeError \in S => had_error
  BY <1>3, <1>4, <1>10
<1>15. kind \in {"store", "other"} /\ kind # "store"
  BY <1>1
<1> HIDE <1>1, <1>7, <1>8, <1>10
<1> QED
  BY <1>2, <1>3, <1>9, <1>11, <1>13, <1>14, <1>15, VisitEnds

LEMMA SetKeeps ==
  ASSUME TypesInv, Set
  PROVE  TypesInv' /\ (ValuesInv => ValuesInv')
<1>1. PICK two, kind, callee, e :
        two = 2 /\ kind = "store" /\ callee = Operand(2) /\ e = Operand(1)
  OBVIOUS
<1>2. Ready(two) /\ two \in Nat /\ 1 \in 1..two /\ 2 \in 1..two
  BY <1>1 DEF Set
<1>3. two <= Len(stack) /\ IsType(callee.type) /\ (callee.type = TypeError => had_error)
  BY <1>1, <1>2, ReadyIs
<1>4. IsType(e.type) /\ (e.type = TypeError => had_error)
  BY <1>1, <1>2, ReadyIs
<1>5. ValuesInv /\ ~had_error /\ ~Partial(two) => callee.value = callee.type
  BY <1>1, <1>2, ReadyIs
<1>6. ValuesInv /\ ~had_error /\ ~Partial(two) => e.value = e.type
  BY <1>1, <1>2, ReadyIs
<1>7. PICK field \in Members :
        LET rule == SetType(callee.type, field, e.type)
        IN  IF had_error \/ rule.type = TypeError
            THEN Visited(2, rule, NoValue, "store", TRUE)
            ELSE Visited(2, rule, SetValue(callee.type, callee.value, field, e.value),
                         "store", Partial(2) \/ e.type # FieldsOf[callee.type.name][field])
  BY <1>1 DEF Set
<1>8. PICK rule : rule = SetType(callee.type, field, e.type)
  OBVIOUS
<1>9. PICK S : S = {callee.type, e.type}
  OBVIOUS
<1>10. IsRule(rule, S)
  BY <1>3, <1>8, <1>9, SetRule
<1>11. ~IsFunction(rule.type)
  BY <1>3, <1>8, SetRule
<1>12. ~rule.error /\ callee.type # TypeError /\ e.type # TypeError =>
         SetValue(callee.type, callee.type, field, FieldsOf[callee.type.name][field]) = Void
  BY <1>3, <1>8, SetRule
<1>13. TypeError \in S => had_error
  BY <1>3, <1>4, <1>9
<1>14. kind \in {"store", "other"} /\ kind = "store"
  BY <1>1
<1>15. PICK silent \in BOOLEAN : silent <=> had_error \/ rule.type = TypeError
  OBVIOUS
<1>16. PICK part \in BOOLEAN :
         part <=> silent \/ Partial(two) \/ e.type # FieldsOf[callee.type.name][field]
  OBVIOUS
<1>17. PICK value : value = IF silent THEN NoValue
                            ELSE SetValue(callee.type, callee.value, field, e.value)
  OBVIOUS
<1>18. Visited(two, rule, value, kind, part)
  <2>1. CASE silent
    BY <1>1, <1>7, <1>8, <1>15, <1>16, <1>17, <2>1
  <2>2. CASE ~silent
    <3>1. part = (Partial(2) \/ e.type # FieldsOf[callee.type.name][field])
      BY <1>1, <1>16, <2>2
    <3> QED
      BY <1>1, <1>7, <1>8, <1>15, <1>17, <2>2, <3>1
  <2> QED
    BY <2>1, <2>2
<1>19. ValuesInv /\ ~had_error /\ ~rule.error /\ ~part => value = Void
  BY <1>3, <1>4, <1>5, <1>6, <1>12, <1>16, <1>17
<1> HIDE <1>1, <1>8, <1>9, <1>15, <1>16, <1>17
<1> QED
  BY <1>2, <1>3, <1>10, <1>11, <1>13, <1>14, <1>18, <1>19, VisitEnds

LEMMA SetIndexKeeps ==
  ASSUME TypesInv, SetIndex
  PROVE  TypesInv' /\ (ValuesInv => ValuesInv')
<1>1. PICK three, kind, a, i, e :
        /\ three = 3 /\ kind = "store"
        /\ a = Operand(3) /\ i = Operand(2) /\ e = Operand(1)
  OBVIOUS
<1>2. Ready(three) /\ three \in Nat /\ 1 \in 1..three /\ 2 \in 1..three /\ 3 \in 1..three
  BY <1>1 DEF SetIndex
<1>3. three <= Len(stack) /\ IsType(a.type) /\ (a.type = TypeError => had_error)
  BY <1>1, <1>2, ReadyIs
<1>4. IsType(i.type) /\ (i.type = TypeError => had_error)
  BY <1>1, <1>2, ReadyIs
<1>5. IsType(e.type) /\ (e.type = TypeError => had_error)
  BY <1>1, <1>2, ReadyIs
<1>6. ValuesInv /\ ~had_error /\ ~Partial(three) => a.value = a.type
  BY <1>1, <1>2, ReadyIs
<1>7. ValuesInv /\ ~had_error /\ ~Partial(three) => i.value = i.type
  BY <1>1, <1>2, ReadyIs
<1>8. ValuesInv /\ ~had_error /\ ~Partial(three) => e.value = e.type
  BY <1>1, <1>2, ReadyIs
<1>9. PICK rule, value : /\ rule = SetIndexType(a.type, i.type, e.type)
                         /\ value = SetIndexValue(a.value, i.value, e.value)
  OBVIOUS
<1>10. PICK part \in BOOLEAN : part <=> Partial(three) \/ e.type # NextEnclosed(a.type)
  OBVIOUS
<1>11. Visited(three, rule, value, kind, part)
  <2>1. part = (Partial(3) \/ e.type # NextEnclosed(a.type))
    BY <1>1, <1>10
  <2> QED
    BY <1>1, <1>9, <2>1 DEF SetIndex
<1>12. PICK S : S = {a.type, i.type, e.type}
  OBVIOUS
<1>13. IsRule(rule, S)
  BY <1>3, <1>9, <1>12, SetIndexRule
<1>14. ~IsFunction(rule.type)
  BY <1>3, <1>9, SetIndexRule
<1>15. ~rule.error /\ a.type # TypeError /\ i.type # TypeError /\ e.type # TypeError
         => SetIndexValue(a.type, i.type, NextEnclosed(a.type)) = Void
  BY <1>3, <1>9, SetIndexRule
<1>16. ValuesInv /\ ~had_error /\ ~rule.error /\ ~part => value = Void
  BY <1>3, <1>4, <1>5, <1>6, <1>7, <1>8, <1>9, <1>10, <1>15
<1>17. TypeError \in S => had_error
  BY <1>3, <1>4, <1>5, <1>12
<1>18. kind \in {"store", "other"} /\ kind = "store"
  BY <1>1
<1> HIDE <1>1, <1>9, <1>10, <1>12
<1> QED
  BY <1>2, <1>3, <1>11, <1>13, <1>14, <1>16, <1>17, <1>18, VisitEnds

LEMMA RejectCallKeeps ==
  ASSUME TypesInv, RejectCall
  PROVE  TypesInv' /\ (ValuesInv => ValuesInv')
<1>1. PICK one, kind, rule, value, part, e :
        /\ one = 1 /\ kind = "other" /\ rule = Reject /\ value = NoValue /\ part = TRUE
        /\ e = Operand(1)
  OBVIOUS
<1>2. Ready(one) /\ one \in Nat /\ 1 \in 1..one
  BY <1>1 DEF RejectCall
<1>3. one <= Len(stack)
  BY <1>1, <1>2, ReadyIs
<1>4. Visited(one, rule, value, kind, part) /\ part \in BOOLEAN
  BY <1>1 DEF RejectCall
<1>5. PICK S : S = {} /\ IsRule(rule, S)
  BY <1>1, RuleOf
<1>6. kind \in {"store", "other"} /\ kind # "store" /\ (TypeError \in S => had_error) /\ part
  BY <1>1, <1>5
<1> HIDE <1>1
<1> QED
  BY <1>2, <1>3, <1>4, <1>5, <1>6, VisitEnds

LEMMA GetOfClassKeeps ==
  ASSUME TypesInv, Ready(1), NEW member, GetOfClass(member)
  PROVE  TypesInv' /\ (MembersDiffer /\ ValuesInv => ValuesInv')
<1>1. PICK one, e : one = 1 /\ e = Operand(1)
  OBVIOUS
<1>2. Ready(one) /\ one \in Nat /\ 1 \in 1..one
  BY <1>1
<1>3. one <= Len(stack) /\ IsEntry(e)
  BY <1>1, <1>2, ReadyIs
<1>4. e.kind = "class" /\ e.name \in ClassNames
  BY <1>1, <1>3 DEF GetOfClass, IsEntry
<1>5. PICK callee : callee = T(e.name)
  OBVIOUS
<1>6. callee.name = e.name /\ callee # TypeError
  <2>1. callee.name = e.name
    BY <1>5 DEF T
  <2>2. callee.name # TypeError.name
    BY <1>4, <2>1, PrimitivesDiffer
  <2> QED
    BY <2>1, <2>2
<1>7. PICK rule, value : rule = GetType(callee, member) /\ value = GetClassValue(e.name, member)
  OBVIOUS
<1>8. PICK kind : kind = FieldKind(rule.type)
  OBVIOUS
<1>9. PICK part \in BOOLEAN : part <=> value = NoValue
  OBVIOUS
<1>10. Visited(one, rule, value, kind, part)
  <2>1. part = (value = NoValue)
    BY <1>9
  <2> QED
    BY <1>1, <1>5, <1>7, <1>8, <2>1 DEF GetOfClass
<1>11. /\ kind \in {"field", "store", "other"} /\ kind # "store"
       /\ kind = "field" => IsFunction(rule.type)
  BY <1>8 DEF FieldKind
<1>12. IsRule(rule, {callee})
  BY <1>7, GetRule
<1>13. IsFunction(rule.type) => rule.type.member = member
  BY <1>7, GetRule
<1>14. ~rule.error /\ MembersDiffer /\ HasMethod(callee, member)
         => rule.type = Method(callee.name, member)
  BY <1>6, <1>7, GetRule
<1>15. /\ IsType(rule.type) /\ rule.error \in BOOLEAN
       /\ rule.type = TypeError => rule.error \/ had_error
  BY <1>6, <1>12 DEF IsRule
<1>16. ~part => /\ member = "init" /\ HasMethod(callee, member)
                /\ value = Method(callee.name, member)
  BY <1>5, <1>6, <1>7, <1>9 DEF GetClassValue
<1>17. ~(~part /\ kind = "field" /\ rule.type.member # "init")
  BY <1>11, <1>13, <1>16
<1>18. ~had_error' => ~had_error /\ ~rule.error
  BY <1>10 DEF Visited
<1>19. MembersDiffer /\ ~had_error' /\ ~part
          => value = IF kind = "store" THEN Void ELSE rule.type
  BY <1>11, <1>14, <1>16, <1>18
<1> HIDE <1>1, <1>7, <1>8, <1>9
<1>20. TypesInv'
  BY <1>2, <1>3, <1>10, <1>11, <1>15, <1>17, VisitedIs
<1>21. ASSUME MembersDiffer, ValuesInv
       PROVE  ValuesInv'
  BY <1>2, <1>3, <1>10, <1>11, <1>15, <1>17, <1>19, <1>21, VisitedIs
<1> QED
  BY <1>20, <1>21

LEMMA GetOfObjectKeeps ==
  ASSUME TypesInv, Ready(1), NEW member, GetOfObject(member)
  PROVE  TypesInv' /\ (MembersDiffer /\ ValuesInv => ValuesInv')
<1>1. PICK one, e : one = 1 /\ e = Operand(1)
  OBVIOUS
<1>2. Ready(one) /\ one \in Nat /\ 1 \in 1..one
  BY <1>1
<1>3. one <= Len(stack) /\ IsType(e.type) /\ (e.type = TypeError => had_error)
  BY <1>1, <1>2, ReadyIs
<1>4. ValuesInv /\ ~had_error /\ ~Partial(one) => e.value = e.type
  BY <1>1, <1>2, ReadyIs
<1>5. PICK callee : callee = e.type
  OBVIOUS
<1>6. PICK rule : rule = GetType(callee, member)
  OBVIOUS
<1>7. IsRule(rule, {callee})
  BY <1>6, GetRule
<1>8. ~rule.error /\ callee # TypeError /\ MembersDiffer
        => GetValue(callee, callee, member) = rule.type
  BY <1>6, GetRule
<1>9. /\ IsType(rule.type) /\ rule.error \in BOOLEAN
      /\ rule.type = TypeError => rule.error \/ had_error
  BY <1>3, <1>5, <1>7 DEF IsRule
<1>10. PICK silent \in BOOLEAN : silent <=> had_error \/ rule.type = TypeError
  OBVIOUS
<1>11. PICK value, kind : /\ value = IF silent THEN NoValue ELSE GetValue(callee, e.value, member)
                          /\ kind = FieldKind(rule.type)
  OBVIOUS
<1>12. PICK part \in BOOLEAN : part <=> Partial(one)
  OBVIOUS
<1>13. Visited(one, rule, value, kind, part) /\ last_deref_obj' = IF silent THEN 0 ELSE Len(stack)
  <2>1. part = Partial(1)
    BY <1>1, <1>12 DEF Partial
  <2>2. silent = (had_error \/ rule.type = TypeError)
    BY <1>10
  <2> QED
    BY <1>1, <1>5, <1>6, <1>10, <1>11, <2>1, <2>2 DEF GetOfObject
<1>14. kind \in {"field", "store", "other"} /\ kind # "store"
  BY <1>11 DEF FieldKind
<1>15. ~had_error' => ~had_error /\ ~rule.error /\ ~silent
  BY <1>9, <1>10, <1>13 DEF Visited
<1>16. ~had_error' => last_deref_obj' = Len(stack) - one + 1
  <2>1. Len(stack) \in Nat
    BY ListLength DEF TypesInv, SoundStack
  <2> QED
    BY <1>1, <1>13, <1>15, <2>1
<1>17. MembersDiffer /\ ValuesInv /\ ~had_error' /\ ~part
          => value = IF kind = "store" THEN Void ELSE rule.type
  BY <1>3, <1>4, <1>5, <1>8, <1>11, <1>12, <1>14, <1>15
<1> HIDE <1>1, <1>6, <1>10, <1>11, <1>12
<1>18. TypesInv'
  BY <1>2, <1>3, <1>9, <1>13, <1>14, <1>16, VisitedIs
<1>19. ASSUME MembersDiffer, ValuesInv
       PROVE  ValuesInv'
  BY <1>2, <1>3, <1>9, <1>13, <1>14, <1>16, <1>17, <1>19, VisitedIs
<1> QED
  BY <1>18, <1>19

LEMMA GetKeeps ==
  ASSUME TypesInv, GetMember
  PROVE  TypesInv' /\ (MembersDiffer /\ ValuesInv => ValuesInv')
<1>1. Ready(1)
  BY DEF GetMember
<1>2. ASSUME GetOfOther
      PROVE  TypesInv' /\ (ValuesInv => ValuesInv')
  <2>1. PICK st, last : st = stack' /\ last = last_deref_obj
    OBVIOUS
  <2>2. st = <<>> /\ IsList(st) /\ Len(st) = 0
    BY <1>2, <2>1 DEF GetOfOther, IsList
  <2>3. SoundStack(st, had_error, last)
    BY <2>2 DEF SoundStack
  <2>4. AllValued(st, had_error)
    BY <2>2 DEF AllValued
  <2>5. /\ symbols' = symbols /\ return_type' = return_type /\ had_error' = had_error
        /\ last_deref_obj' = last_deref_obj /\ emitted' = emitted
    BY <1>2 DEF GetOfOther
  <2> QED
    BY <2>1, <2>3, <2>4, <2>5 DEF TypesInv, ValuesInv
<1>3. (\E member \in Members : GetOfClass(member) \/ GetOfObject(member)) \/ GetOfOther
  BY DEF GetMember
<1> QED
  BY <1>1, <1>2, <1>3, GetOfClassKeeps, GetOfObjectKeeps

\* The receiver is on top of the stack when the method is called.
LEMMA StartCallKeeps ==
  ASSUME TypesInv, StartCall
  PROVE  TypesInv' /\ (ValuesInv => ValuesInv')
<1>1. PICK one, e : one = 1 /\ e = Operand(1)
  OBVIOUS
<1>2. Ready(one) /\ one \in Nat /\ 1 \in 1..one
  BY <1>1 DEF StartCall
<1>3. one <= Len(stack) /\ IsEntry(e) /\ e.kind # "callee"
  BY <1>1, <1>2, ReadyIs
<1>4. e.type = TypeError => had_error
  BY <1>1, <1>2, ReadyIs
<1>5. ValuesInv /\ ~had_error /\ ~e.partial /\ e.kind # "store" => e.value = e.type
  BY <1>1, <1>2, ReadyIs
<1>6. PICK obj : obj = IF e.kind = "field" /\ e.type.member # "init" THEN last_deref_obj ELSE 0
  OBVIOUS
<1>7. PICK f : f = [e EXCEPT !.kind = "callee", !.name = e.kind, !.this = obj]
  OBVIOUS
<1>8. PICK b : b = Below(one)
  OBVIOUS
<1>9. PICK st : st = Append(b, f)
  OBVIOUS
<1>10. /\ IsFunction(e.type) /\ st = stack'
       /\ symbols' = symbols /\ return_type' = return_type /\ had_error' = had_error
       /\ last_deref_obj' = last_deref_obj /\ emitted' = emitted
  BY <1>1, <1>6, <1>7, <1>8, <1>9 DEF StartCall
<1>11. IsList(stack) /\ Len(stack) \in Nat /\ Len(stack) >= 1
  BY <1>1, <1>3, ListLength DEF TypesInv, SoundStack
<1>12. Bottom(b, stack) /\ Len(b) + 1 = Len(stack)
  BY <1>1, <1>2, <1>3, <1>8, <1>11, BelowIs
<1>13. /\ f.type = e.type /\ f.value = e.value /\ f.partial = e.partial
       /\ f.kind = "callee" /\ f.name = e.kind /\ f.this = obj
       /\ f = [type |-> f.type, value |-> f.value, kind |-> f.kind, name |-> f.name,
               partial |-> f.partial, this |-> f.this]
  <2>1. PICK t, v, k, n, p, o :
          e = [type |-> t, value |-> v, kind |-> k, name |-> n, partial |-> p, this |-> o]
    BY <1>3 DEF IsEntry
  <2>2. f = [type |-> t, value |-> v, kind |-> "callee", name |-> k, partial |-> p, this |-> obj]
    BY <1>7, <2>1
  <2>3. /\ f.type = e.type /\ f.value = e.value /\ f.partial = e.partial
        /\ f.kind = "callee" /\ f.name = e.kind /\ f.this = obj
    BY <2>1, <2>2
  <2> QED
    BY <2>1, <2>2, <2>3
<1>14. e.kind \in {"field", "other"}
  BY <1>3, <1>10 DEF IsEntry, EntryKinds
<1>15. IsEntry(f)
  BY <1>3, <1>10, <1>13, <1>14 DEF IsEntry, EntryKinds
<1>16. e = stack[Len(stack)]
  BY <1>1, <1>11 DEF Operand
<1>17. stack # <<>>
  BY <1>11, ListLength
<1>18. TopKept(e, Len(stack), had_error, last_deref_obj)
  BY <1>16, <1>17 DEF TypesInv, SoundStack
<1>19. SoundEntry(f, Len(b) + 1, had_error)
  BY <1>4, <1>6, <1>12, <1>13, <1>15, <1>18 DEF SoundEntry, TopKept
<1>20. TopKept(f, Len(b) + 1, had_error, last_deref_obj)
  BY <1>13 DEF TopKept
<1>21. SoundStack(stack, had_error, last_deref_obj) /\ had_error \in BOOLEAN
  BY DEF TypesInv
<1>22. st = st \/ (had_error /\ st = Unemitted(st))
  OBVIOUS
<1>23. SoundStack(st, had_error, last_deref_obj)
  BY <1>9, <1>12, <1>19, <1>20, <1>21, <1>22, StackPushed
<1>24. ASSUME ValuesInv
       PROVE  AllValued(st, had_error)
  <2>1. Valued(f, had_error)
    BY <1>5, <1>13, <1>14, <1>24 DEF Valued
  <2>2. AllValued(stack, had_error)
    BY <1>24 DEF ValuesInv
  <2> QED
    BY <1>9, <1>11, <1>12, <1>21, <1>22, <2>1, <2>2, StackValued
<1> QED
  BY <1>10, <1>23, <1>24 DEF TypesInv, ValuesInv

\* The operand that argument i of n is.
LEMMA ArgumentIs ==
  ASSUME TypesInv, NEW n \in Nat, n <= Len(stack), NEW i \in 1..n,
         NEW args, args = SubSeq(stack, Len(stack) - n + 1, Len(stack))
  PROVE  n + 1 - i \in 1..n /\ args[i] = Operand(n + 1 - i)
<1>1. PICK S : stack \in Seq(S)
  BY DEF TypesInv, SoundStack, IsList
<1>2. Len(stack) \in Nat
  BY <1>1, LenProperties
<1>3. args[i] = stack[Len(stack) - n + i]
  BY <1>1, <1>2
<1>4. Operand(n + 1 - i) = stack[Len(stack) - n + i]
  <2>1. Len(stack) + 1 - (n + 1 - i) = Len(stack) - n + i
    BY <1>2
  <2> QED
    BY <2>1 DEF Operand
<1> QED
  BY <1>3, <1>4

\* A call of what is not partial, with the arguments that are accepted.
LEMMA CallValued ==
  ASSUME NEW t, IsType(t), IsFunction(t), NEW kind,
         kind = "field" \/ t.member = "init" \/ t.name = "fn",
         NEW types, AcceptsArgs(Signature(t).args, types)
  PROVE  CallValue(t, t, kind, types) = Signature(t).result
<1>1. PICK params : params = Signature(t).args
  OBVIOUS
<1>2. Len(types) = Len(params) /\ \A i \in DOMAIN params : SubclassOf(types[i], params[i])
  BY <1>1 DEF AcceptsArgs
<1>3. \A i \in DOMAIN params : BitCast(types[i], params[i]) = params[i]
  BY <1>2, SubclassIs
<1> QED
  BY <1>1, <1>2, <1>3 DEF CallValue

LEMMA CallKeeps ==
  ASSUME TypesInv, Call
  PROVE  TypesInv' /\ (ValuesInv => ValuesInv')
<1>1. Len(stack) \in Nat
  BY ListLength DEF TypesInv, SoundStack
<1> DEFINE Args(n) == SubSeq(stack, Len(stack) - n + 1, Len(stack))
           TypesOf(n) == [i \in 1..n |-> Args(n)[i].type]
           ValuesOf(n) == [i \in 1..n |-> Args(n)[i].value]
           Rule(n) == CallType(Operand(n + 1).type, TypesOf(n))
           Left(n) == \/ Partial(n) \/ Operand(n + 1).partial
                      \/ /\ Operand(n + 1).name = "other" /\ Operand(n + 1).type.name # "fn"
                         /\ Operand(n + 1).type.member # "init"
<1>2. PICK n \in 0..Len(stack) - 1 :
        /\ Operands(n) /\ Operand(n + 1).kind = "callee"
        /\ Visited(n + 1, Rule(n),
                   IF had_error \/ Rule(n).error THEN NoValue
                   ELSE CallValue(Operand(n + 1).type, Operand(n + 1).value, Operand(n + 1).name,
                                  ValuesOf(n)),
                   "other", Left(n))
  BY DEF Call
<1>3. PICK m \in Nat : m = n + 1
  BY <1>1, <1>2
<1>4. n \in Nat /\ n <= Len(stack) /\ m <= Len(stack) /\ m \in 1..m
  BY <1>1, <1>2, <1>3
<1>5. PICK callee, types, values, kind :
        callee = Operand(m) /\ types = TypesOf(n) /\ values = ValuesOf(n) /\ kind = "other"
  OBVIOUS
<1>6. IsEntry(callee) /\ IsType(callee.type) /\ callee.kind = "callee"
  <2>1. callee.kind = "callee"
    BY <1>2, <1>3, <1>5
  <2>2. IsEntry(callee) /\ IsType(callee.type)
    BY <1>4, <1>5, OperandIs
  <2> QED
    BY <2>1, <2>2
<1>7. ValuesInv /\ ~had_error /\ ~callee.partial => callee.value = callee.type
  BY <1>4, <1>5, <1>6, OperandIs
<1>8. PICK rule : rule = CallType(callee.type, types)
  OBVIOUS
<1>9. PICK value : value = IF had_error \/ rule.error THEN NoValue
                           ELSE CallValue(callee.type, callee.value, callee.name, values)
  OBVIOUS
<1>10. PICK part \in BOOLEAN :
         part <=> \/ Partial(n) \/ callee.partial
                  \/ callee.name = "other" /\ callee.type.name # "fn" /\ callee.type.member # "init"
  OBVIOUS
<1>11. Visited(m, rule, value, kind, part)
  <2>1. part = Left(n)
    BY <1>3, <1>5, <1>10
  <2>2. Rule(n) = rule /\ Operand(n + 1) = callee
    BY <1>3, <1>5, <1>8
  <2> HIDE DEF Left, Rule, ValuesOf
  <2> QED
    BY <1>2, <1>3, <1>5, <1>9, <2>1, <2>2
<1>12. IsRule(rule, {})
  BY <1>6, <1>8, CallRule
<1>13. ~rule.error => /\ IsFunction(callee.type)
                      /\ AcceptsArgs(Signature(callee.type).args, types)
                      /\ rule.type = Signature(callee.type).result
  BY <1>6, <1>8, CallRule
<1>14. ASSUME ValuesInv, ~had_error, ~Partial(n)
       PROVE  values = types
  <2>1. ASSUME NEW i \in 1..n
        PROVE  Args(n)[i].value = Args(n)[i].type
    <3>1. PICK args, k, e : args = Args(n) /\ k = n + 1 - i /\ e = Operand(k)
      OBVIOUS
    <3>2. k \in 1..n /\ args[i] = e
      BY <1>4, <3>1, ArgumentIs
    <3>3. e.value = e.type
      BY <1>4, <1>14, <3>1, <3>2, OperandIs
    <3> QED
      BY <3>1, <3>2, <3>3
  <2> HIDE DEF Args
  <2> QED
    BY <1>5, <2>1
<1>15. ASSUME ValuesInv, ~had_error, ~rule.error, ~part
       PROVE  value = rule.type
  <2>1. PICK t, name : t = callee.type /\ name = callee.name
    OBVIOUS
  <2>2. name \in {"field", "other"}
    BY <1>6, <2>1 DEF IsEntry
  <2>3. name = "field" \/ t.member = "init" \/ t.name = "fn"
    BY <1>10, <1>15, <2>1, <2>2
  <2>4. IsType(t) /\ IsFunction(t) /\ AcceptsArgs(Signature(t).args, types)
    BY <1>6, <1>13, <1>15, <2>1
  <2>5. CallValue(t, t, name, types) = Signature(t).result
    BY <2>3, <2>4, CallValued
  <2>6. callee.value = t /\ values = types
    BY <1>7, <1>10, <1>14, <1>15, <2>1
  <2> QED
    BY <1>9, <1>13, <1>15, <2>1, <2>5, <2>6
<1>16. PICK S : S = {}
  OBVIOUS
<1>17. IsRule(rule, S) /\ (TypeError \in S => had_error)
  BY <1>12, <1>16
<1>18. kind \in {"store", "other"} /\ kind # "store"
  BY <1>5
<1> HIDE <1>3, <1>5, <1>8, <1>9, <1>10, <1>16 DEF Args, TypesOf, ValuesOf, Rule, Left
<1> QED
  BY <1>4, <1>11, <1>15, <1>17, <1>18, VisitEnds

-----------------------------------------------------------------------------
(* The statements. *)

LEMMA InsertedIs ==
  ASSUME NEW err0, SoundSymbols(symbols, err0), NEW err, err0 => err,
         NEW x, NEW t, IsType(t), ~IsFunction(t), t = TypeError => err,
         NEW rows, rows = symbols \/ rows = Inserted(x, t)
  PROVE  SoundSymbols(rows, err)
<1>1. CASE rows = symbols
  BY <1>1 DEF SoundSymbols
<1>2. CASE rows = Inserted(x, t)
  <2>1. rows = [y \in {x} \cup DOMAIN symbols |-> IF y \in {x} THEN t ELSE symbols[y]]
    BY <1>2 DEF Inserted, Extended
  <2>2. \A y \in DOMAIN rows : rows[y] = t \/ (y \in DOMAIN symbols /\ rows[y] = symbols[y])
    BY <2>1
  <2> QED
    BY <2>2 DEF SoundSymbols
<1> QED
  BY <1>1, <1>2

LEMMA StatementHas ==
  ASSUME TypesInv, NEW n \in Nat, NEW error \in BOOLEAN, NEW good, Statement(n, error, good),
         NEW i \in 1..n, NEW e, e = Operand(i)
  PROVE  /\ IsEntry(e) /\ IsType(e.type) /\ (e.type = TypeError => had_error)
         /\ ~had_error' => ~had_error /\ ~error
         /\ ValuesInv /\ ~had_error' /\ ~Partial(n) => e.value = e.type
<1>1. n <= Len(stack) /\ (~had_error' => ~had_error /\ ~error)
  <2>1. n = Len(stack) /\ had_error' = (had_error \/ error)
    BY DEF Statement
  <2> QED
    BY <2>1 DEF TypesInv
<1>2. IsEntry(e) /\ IsType(e.type) /\ (e.type = TypeError => had_error)
  BY <1>1, OperandIs
<1>3. ValuesInv /\ ~had_error /\ ~Partial(n) => e.value = e.type
  BY <1>1, OperandIs
<1> QED
  BY <1>1, <1>2, <1>3

\* A statement that declares no variable.
LEMMA PlainStatement ==
  ASSUME TypesInv, NEW n \in Nat, NEW error \in BOOLEAN, NEW good, Statement(n, error, good),
         UNCHANGED symbols, ValuesInv /\ ~had_error' /\ ~Partial(n) => good
  PROVE  TypesInv' /\ (ValuesInv => ValuesInv')
<1>1. had_error => had_error'
  BY DEF Statement
<1>2. PICK rows, err : rows = symbols' /\ err = had_error'
  OBVIOUS
<1>3. rows = symbols /\ (had_error => err) /\ SoundSymbols(symbols, had_error)
  BY <1>1, <1>2 DEF TypesInv
<1>4. SoundSymbols(rows, err)
  BY <1>3 DEF SoundSymbols
<1>5. SoundSymbols(symbols', had_error')
  BY <1>2, <1>4
<1> QED
  BY <1>5, StatementIs

LEMMA FitsIs ==
  ASSUME NEW s, NEW t, SubclassOf(s, t)
  PROVE  Fits(s, t)
BY SubclassIs DEF Fits

LEMMA ExprStmtKeeps ==
  ASSUME TypesInv, ExprStmt
  PROVE  TypesInv' /\ (ValuesInv => ValuesInv')
<1>1. PICK one, error, good : one = 1 /\ error = FALSE /\ good = TRUE
  OBVIOUS
<1>2. Statement(one, error, good) /\ UNCHANGED symbols
  BY <1>1 DEF ExprStmt
<1>3. one \in Nat /\ error \in BOOLEAN /\ good
  BY <1>1
<1> HIDE <1>1
<1> QED
  BY <1>2, <1>3, PlainStatement

LEMMA ConditionKeeps ==
  ASSUME TypesInv, Condition
  PROVE  TypesInv' /\ (ValuesInv => ValuesInv')
<1>1. PICK one, e : one = 1 /\ e = Operand(1)
  OBVIOUS
<1>2. PICK error \in BOOLEAN : error <=> e.type # Bool
  OBVIOUS
<1>3. PICK good \in BOOLEAN : good <=> e.value = Bool
  OBVIOUS
<1>4. Statement(one, error, good) /\ UNCHANGED symbols
  <2>1. error = (e.type # Bool) /\ good = (e.value = Bool)
    BY <1>2, <1>3
  <2> QED
    BY <1>1, <2>1 DEF Condition
<1>5. one \in Nat /\ 1 \in 1..one /\ e = Operand(1)
  BY <1>1
<1>6. ~had_error' => ~error
  BY <1>4, <1>5, StatementHas
<1>7. ValuesInv /\ ~had_error' /\ ~Partial(one) => e.value = e.type
  BY <1>4, <1>5, StatementHas
<1>8. ValuesInv /\ ~had_error' /\ ~Partial(one) => good
  BY <1>2, <1>3, <1>6, <1>7
<1> HIDE <1>1, <1>2, <1>3
<1> QED
  BY <1>4, <1>5, <1>8, PlainStatement

LEMMA PrintStmtKeeps ==
  ASSUME TypesInv, PrintStmt
  PROVE  TypesInv' /\ (ValuesInv => ValuesInv')
<1>1. PICK one, e, S : one = 1 /\ e = Operand(1) /\ S = {IntType, Float, Bool, String}
  OBVIOUS
<1>2. PICK error \in BOOLEAN : error <=> ~Match(e.type, S)
  OBVIOUS
<1>3. PICK good \in BOOLEAN : good <=> e.value \in S
  OBVIOUS
<1>4. Statement(one, error, good) /\ UNCHANGED symbols
  <2>1. error = (~Match(e.type, S)) /\ good = (e.value \in S)
    BY <1>2, <1>3
  <2> QED
    BY <1>1, <2>1 DEF PrintStmt
<1>5. one \in Nat /\ 1 \in 1..one /\ e = Operand(1)
  BY <1>1
<1>6. ~had_error' => ~error
  BY <1>4, <1>5, StatementHas
<1>7. ValuesInv /\ ~had_error' /\ ~Partial(one) => e.value = e.type
  BY <1>4, <1>5, StatementHas
<1>8. Match(e.type, S) => e.type \in S
  <2>1. PICK t : t = e.type
    OBVIOUS
  <2>2. Match(t, S) => t \in S
    BY <1>1, MatchIs
  <2> QED
    BY <2>1, <2>2
<1>9. ValuesInv /\ ~had_error' /\ ~Partial(one) => good
  BY <1>2, <1>3, <1>6, <1>7, <1>8
<1> HIDE <1>1, <1>2, <1>3
<1> QED
  BY <1>4, <1>5, <1>9, PlainStatement

LEMMA ReturnStmtKeeps ==
  ASSUME TypesInv, ReturnStmt
  PROVE  TypesInv' /\ (ValuesInv => ValuesInv')
<1>1. UNCHANGED symbols
  BY DEF ReturnStmt
<1>2. ASSUME Statement(0, return_type # Void, TRUE)
      PROVE  TypesInv' /\ (ValuesInv => ValuesInv')
  <2>1. PICK none, good : none = 0 /\ good = TRUE
    OBVIOUS
  <2>2. PICK error \in BOOLEAN : error <=> return_type # Void
    OBVIOUS
  <2>3. Statement(none, error, good) /\ none \in Nat /\ good
    <3>1. error = (return_type # Void)
      BY <2>2
    <3> QED
      BY <1>2, <2>1, <3>1
  <2> HIDE <2>1, <2>2
  <2> QED
    BY <1>1, <2>3, PlainStatement
<1>3. ASSUME Statement(1, ~SubclassOf(Operand(1).type, return_type),
                       Fits(Operand(1).value, return_type))
      PROVE  TypesInv' /\ (ValuesInv => ValuesInv')
  <2>1. PICK one, e : one = 1 /\ e = Operand(1)
    OBVIOUS
  <2>2. PICK error \in BOOLEAN : error <=> ~SubclassOf(e.type, return_type)
    OBVIOUS
  <2>3. PICK good \in BOOLEAN : good <=> Fits(e.value, return_type)
    OBVIOUS
  <2>4. Statement(one, error, good)
    <3>1. error = (~SubclassOf(e.type, return_type))
      BY <2>2
    <3>2. good = Fits(e.value, return_type)
      BY <2>3 DEF Fits
    <3> QED
      BY <1>3, <2>1, <3>1, <3>2
  <2>5. one \in Nat /\ 1 \in 1..one /\ e = Operand(1)
    BY <2>1
  <2>6. ~had_error' => ~error
    BY <2>4, <2>5, StatementHas
  <2>7. ValuesInv /\ ~had_error' /\ ~Partial(one) => e.value = e.type
    BY <2>4, <2>5, StatementHas
  <2>8. SubclassOf(e.type, return_type) => Fits(e.type, return_type)
    <3>1. PICK s, t : s = e.type /\ t = return_type
      OBVIOUS
    <3>2. SubclassOf(s, t) => Fits(s, t)
      BY FitsIs
    <3> QED
      BY <3>1, <3>2
  <2>9. ValuesInv /\ ~had_error' /\ ~Partial(one) => good
    BY <2>2, <2>3, <2>6, <2>7, <2>8
  <2> HIDE <2>1, <2>2, <2>3
  <2> QED
    BY <1>1, <2>4, <2>5, <2>9, PlainStatement
<1> QED
  BY <1>2, <1>3 DEF ReturnStmt

\* A statement that declares a variable, unless there is one of its name.
LEMMA Declaring ==
  ASSUME TypesInv, NEW n \in Nat, NEW error \in BOOLEAN, NEW good, Statement(n, error, good),
         NEW x, NEW t, IsType(t), ~IsFunction(t), t = TypeError => had_error,
         symbols' = symbols \/ symbols' = Inserted(x, t),
         ValuesInv /\ ~had_error' /\ ~Partial(n) => good
  PROVE  TypesInv' /\ (ValuesInv => ValuesInv')
<1>1. had_error => had_error'
  BY DEF Statement
<1>2. PICK rows, err0, err : rows = symbols' /\ err0 = had_error /\ err = had_error'
  OBVIOUS
<1>3. /\ SoundSymbols(symbols, err0) /\ (err0 => err) /\ (t = TypeError => err)
      /\ rows = symbols \/ rows = Inserted(x, t)
  BY <1>1, <1>2 DEF TypesInv
<1>4. IsType(t) /\ ~IsFunction(t)
  OBVIOUS
<1>5. SoundSymbols(rows, err)
  <2> HIDE <1>2
  <2> QED
    BY <1>3, <1>4, InsertedIs
<1>6. SoundSymbols(symbols', had_error')
  BY <1>2, <1>5
<1> QED
  BY <1>6, StatementIs

LEMMA InferredVarKeeps ==
  ASSUME TypesInv, NEW x, InferredVar(x)
  PROVE  TypesInv' /\ (ValuesInv => ValuesInv')
<1>1. PICK one, e, t : one = 1 /\ e = Operand(1) /\ t = e.type
  OBVIOUS
<1>2. PICK error \in BOOLEAN : error <=> t = Void \/ x \in DOMAIN symbols
  OBVIOUS
<1>3. PICK good \in BOOLEAN : good <=> e.value = t
  OBVIOUS
<1>4. Statement(one, error, good) /\ ~IsFunction(t)
  <2>1. error = (t = Void \/ x \in DOMAIN symbols) /\ good = (e.value = t)
    BY <1>2, <1>3
  <2> QED
    BY <1>1, <2>1 DEF InferredVar
<1>5. symbols' = symbols \/ symbols' = Inserted(x, t)
  BY <1>1 DEF InferredVar
<1>6. one \in Nat /\ 1 \in 1..one /\ e = Operand(1)
  BY <1>1
<1>7. IsType(t) /\ (t = TypeError => had_error)
  BY <1>1, <1>4, <1>6, StatementHas
<1>8. ValuesInv /\ ~had_error' /\ ~Partial(one) => e.value = e.type
  BY <1>4, <1>6, StatementHas
<1>9. ValuesInv /\ ~had_error' /\ ~Partial(one) => good
  BY <1>1, <1>3, <1>8
<1> HIDE <1>1, <1>2, <1>3
<1> QED
  BY <1>4, <1>5, <1>6, <1>7, <1>9, Declaring

LEMMA InitializedVarKeeps ==
  ASSUME TypesInv, NEW x, NEW base \in ValueTypes, NEW d \in Nat, InitializedVar(x, base, d)
  PROVE  TypesInv' /\ (ValuesInv => ValuesInv')
<1>1. PICK n, e, t : n = d + 1 /\ e = Operand(1) /\ t = Array(base, d)
  OBVIOUS
<1>2. PICK mismatch \in BOOLEAN : mismatch <=> e.type # TypeError /\ ~SubclassOf(e.type, t)
  OBVIOUS
<1>3. PICK error \in BOOLEAN :
        error <=> \/ ~(\A i \in 2..d + 1 : Operand(i).type = IntType)
                  \/ mismatch \/ x \in DOMAIN symbols
  OBVIOUS
<1>4. PICK good \in BOOLEAN : good <=> Fits(e.value, t)
  OBVIOUS
<1>5. /\ Statement(n, error, good)
      /\ symbols' = symbols \/ symbols' = Inserted(x, t)
  <2>1. mismatch = (e.type # TypeError /\ ~SubclassOf(e.type, t))
    BY <1>2
  <2>2. error = (\/ ~(\A i \in 2..d + 1 : Operand(i).type = IntType)
                 \/ mismatch \/ x \in DOMAIN symbols)
    BY <1>3
  <2>3. good = Fits(e.value, t)
    BY <1>4 DEF Fits
  <2> QED
    BY <1>1, <2>1, <2>2, <2>3 DEF InitializedVar
<1>6. n \in Nat /\ 1 \in 1..n /\ e = Operand(1)
  BY <1>1
<1>7. e.type = TypeError => had_error
  BY <1>5, <1>6, StatementHas
<1>8. ~had_error' => ~had_error /\ ~error
  BY <1>5, <1>6, StatementHas
<1>9. ValuesInv /\ ~had_error' /\ ~Partial(n) => e.value = e.type
  BY <1>5, <1>6, StatementHas
<1>10. SubclassOf(e.type, t) => Fits(e.type, t)
  <2>1. PICK s : s = e.type
    OBVIOUS
  <2>2. SubclassOf(s, t) => Fits(s, t)
    BY FitsIs
  <2> QED
    BY <2>1, <2>2
<1>11. ValuesInv /\ ~had_error' /\ ~Partial(n) => good
  BY <1>2, <1>3, <1>4, <1>7, <1>8, <1>9, <1>10
<1>12. IsType(t) /\ ~IsFunction(t) /\ t # TypeError
  <2>1. t \in ValueTypes
    BY <1>1, ArrayIs
  <2> QED
    BY <2>1, ValueTypeIs
<1> HIDE <1>1, <1>2, <1>3, <1>4
<1> QED
  BY <1>5, <1>6, <1>11, <1>12, Declaring

LEMMA DefaultVarKeeps ==
  ASSUME TypesInv, NEW x, NEW base \in ValueTypes, NEW d \in Nat, DefaultVar(x, base, d)
  PROVE  TypesInv' /\ (ValuesInv => ValuesInv')
<1>1. PICK t : t = Array(base, d)
  OBVIOUS
<1>2. PICK error \in BOOLEAN :
        error <=> ~(\A i \in 1..d : Operand(i).type = IntType) \/ x \in DOMAIN symbols
  OBVIOUS
<1>3. PICK good \in BOOLEAN : good <=> \A i \in 1..d : Operand(i).value = IntType
  OBVIOUS
<1>4. /\ Statement(d, error, good)
      /\ symbols' = symbols \/ symbols' = Inserted(x, t)
  <2>1. error = (~(\A i \in 1..d : Operand(i).type = IntType) \/ x \in DOMAIN symbols)
    BY <1>2
  <2>2. good = (\A i \in 1..d : Operand(i).value = IntType)
    BY <1>3
  <2> QED
    BY <1>1, <2>1, <2>2 DEF DefaultVar
<1>5. ASSUME ValuesInv, ~had_error', ~Partial(d)
      PROVE  good
  <2>1. ~error
    BY <1>4, <1>5 DEF Statement
  <2>2. ASSUME NEW i \in 1..d
        PROVE  Operand(i).value = IntType
    <3>1. PICK e : e = Operand(i)
      OBVIOUS
    <3>2. e.value = e.type
      BY <1>4, <1>5, <3>1, StatementHas
    <3>3. e.type = IntType
      BY <1>2, <2>1, <3>1
    <3> QED
      BY <3>1, <3>2, <3>3
  <2> QED
    BY <1>3, <2>2
<1>6. IsType(t) /\ ~IsFunction(t) /\ t # TypeError
  <2>1. t \in ValueTypes
    BY <1>1, ArrayIs
  <2> QED
    BY <2>1, ValueTypeIs
<1> HIDE <1>1, <1>2, <1>3
<1> QED
  BY <1>4, <1>5, <1>6, Declaring

LEMMA VarStmtKeeps ==
  ASSUME TypesInv, VarStmt
  PROVE  TypesInv' /\ (ValuesInv => ValuesInv')
<1>1. PICK x \in Vars :
        \/ InferredVar(x)
        \/ \E t \in Declarable, d \in 0..MaxDims : InitializedVar(x, t, d) \/ DefaultVar(x, t, d)
  BY DEF VarStmt
<1>2. CASE InferredVar(x)
  BY <1>2, InferredVarKeeps
<1>3. ASSUME NEW t \in Declarable, NEW d \in 0..MaxDims,
             InitializedVar(x, t, d) \/ DefaultVar(x, t, d)
      PROVE  TypesInv' /\ (ValuesInv => ValuesInv')
  <2>1. t \in ValueTypes /\ d \in Nat
    BY DeclaredAssumption
  <2> QED
    BY <1>3, <2>1, InitializedVarKeeps, DefaultVarKeeps
<1> QED
  BY <1>1, <1>2, <1>3

-----------------------------------------------------------------------------
(* The invariants of the types hold initially and are kept. *)

LEMMA TypesStart ==
  ASSUME TypesInit
  PROVE  TypesInv /\ ValuesInv
<1>1. stack = <<>> /\ IsList(stack) /\ Len(stack) = 0
  BY DEF TypesInit, IsList
<1>2. SoundStack(stack, had_error, last_deref_obj)
  BY <1>1 DEF SoundStack
<1>3. SoundSymbols(symbols, had_error)
  BY DEF TypesInit, SoundSymbols
<1>4. return_type \in ValueTypes /\ had_error \in BOOLEAN
  BY DeclaredAssumption DEF TypesInit
<1>5. AllValued(stack, had_error) /\ emitted = TRUE
  BY <1>1 DEF AllValued, TypesInit
<1> QED
  BY <1>2, <1>3, <1>4, <1>5 DEF TypesInv, ValuesInv

LEMMA TypesKept ==
  ASSUME TypesInv, [TypesNext]_typesVars
  PROVE  TypesInv' /\ (MembersDiffer /\ ValuesInv => ValuesInv')
<1>1. CASE UNCHANGED typesVars
  BY <1>1 DEF typesVars, TypesInv, ValuesInv, SoundSymbols
<1>2. CASE Literal \/ This \/ Variable
  BY <1>2, LeavesKeep
<1>3. CASE UnknownVariable
  BY <1>3, UnknownVariableKeeps
<1>4. CASE Grouping \/ Unary
  BY <1>4, GroupingKeeps, UnaryKeeps
<1>5. CASE Binary \/ Logical
  BY <1>5, BinaryKeeps, LogicalKeeps
<1>6. CASE Assignment \/ GetIndex
  BY <1>6, AssignmentKeeps, GetIndexKeeps
<1>7. CASE GetMember
  BY <1>7, GetKeeps
<1>8. CASE Set \/ SetIndex
  BY <1>8, SetKeeps, SetIndexKeeps
<1>9. CASE RejectCall
  BY <1>9, RejectCallKeeps
<1>10. CASE StartCall
  BY <1>10, StartCallKeeps
<1>11. CASE Call
  BY <1>11, CallKeeps
<1>12. CASE ExprStmt \/ Condition
  BY <1>12, ExprStmtKeeps, ConditionKeeps
<1>13. CASE PrintStmt \/ ReturnStmt
  BY <1>13, PrintStmtKeeps, ReturnStmtKeeps
<1>14. CASE VarStmt
  BY <1>14, VarStmtKeeps
<1> QED
  BY <1>1, <1>2, <1>3, <1>4, <1>5, <1>6, <1>7, <1>8, <1>9, <1>10, <1>11, <1>12, <1>13, <1>14
  DEF TypesNext

LEMMA TypesImply ==
  ASSUME TypesInv
  PROVE  TypeErrorsReported /\ ThisIsReceiver /\ (ValuesInv => ValueHasItsType /\ StatementsEmitted)
<1>1. DOMAIN stack = 1..Len(stack)
  BY ListLength DEF TypesInv, SoundStack
<1>2. \A i \in DOMAIN stack : SoundEntry(stack[i], i, had_error)
  BY <1>1 DEF TypesInv, SoundStack
<1>3. TypeErrorsReported
  BY <1>2 DEF TypeErrorsReported, SoundEntry, TypesInv, SoundSymbols
<1>4. ThisIsReceiver
  BY <1>2 DEF ThisIsReceiver, SoundEntry
<1>5. ASSUME ValuesInv
      PROVE  ValueHasItsType /\ StatementsEmitted
  BY <1>1, <1>5 DEF ValuesInv, AllValued, Valued, ValueHasItsType, StatementsEmitted
<1> QED
  BY <1>3, <1>4, <1>5

LEMMA TypesAlways == TypesSpec => []TypesInv
<1>1. TypesInit => TypesInv
  BY TypesStart
<1>2. TypesInv /\ [TypesNext]_typesVars => TypesInv'
  BY TypesKept
<1> QED
  BY <1>1, <1>2, PTL DEF TypesSpec

\* No type error is silent: whatever expression or variable has the type TypeError, the
\* TypeChecker has printed a message for it, an operand's or its own, and no code is
\* generated (type-checker.cc:240-243, 515-522).
THEOREM TypeErrorsAreReported == TypesSpec => []TypeErrorsReported
<1>1. TypesInv => TypeErrorsReported
  BY TypesImply
<1> QED
  BY <1>1, TypesAlways, PTL

\* A method of an object is given that object for this, however deep the calls in its
\* arguments nest and whatever members they take (llvm/codegen.cc:393-399, 434).
THEOREM MethodsGetTheirReceiver == TypesSpec => []ThisIsReceiver
<1>1. TypesInv => ThisIsReceiver
  BY TypesImply
<1> QED
  BY <1>1, TypesAlways, PTL

LEMMA ValuesAlways ==
  ASSUME MembersDiffer
  PROVE  TypesSpec => [](TypesInv /\ ValuesInv)
<1>1. TypesInit => TypesInv /\ ValuesInv
  BY TypesStart
<1>2. TypesInv /\ ValuesInv /\ [TypesNext]_typesVars => (TypesInv /\ ValuesInv)'
  BY TypesKept
<1> QED
  BY <1>1, <1>2, PTL DEF TypesSpec

\* The expressions that the TypeChecker accepts, in any nesting and over any classes
\* without a field and a method of one name, have values that are represented as their
\* types say (llvm/codegen.cc:82-222, 315-495, 717-749).
THEOREM ValuesHaveTheirTypes ==
  ASSUME MembersDiffer
  PROVE  TypesSpec => []ValueHasItsType
<1>1. TypesInv /\ ValuesInv => ValueHasItsType
  BY TypesImply
<1> QED
  BY <1>1, ValuesAlways, PTL

\* Code can be made of the operands of every statement that is accepted: an if has the
\* value of its condition, a variable and a result hold what they are declared with
\* (llvm/codegen.cc:576-579).
THEOREM StatementsAreEmitted ==
  ASSUME MembersDiffer
  PROVE  TypesSpec => []StatementsEmitted
<1>1. TypesInv /\ ValuesInv => StatementsEmitted
  BY TypesImply
<1> QED
  BY <1>1, ValuesAlways, PTL
=============================================================================
