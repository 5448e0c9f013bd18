------------------------------- MODULE X86Proofs -------------------------------
(***************************************************************************)
(* The x86-64 backend, for any number of registers and programs of any     *)
(* size and shape: no general-purpose register is lost, and the stack is   *)
(* aligned where functions are called. In simple programs, every value is  *)
(* where the code looks for it, and registers run out only in expressions  *)
(* deeper than there are registers.                                        *)
(***************************************************************************)
EXTENDS X86Objects, RecursionTheorems, FiniteSetTheorems

-----------------------------------------------------------------------------
(* The operations of the tracker. *)

IsTracker(t) ==
  t = [ref |-> t.ref, register |-> t.register, owner |-> t.owner, unused |-> t.unused]

Sound(t) == IsTracker(t) /\ GP \subseteq t.unused \cup DOMAIN t.owner

LEMMA AssignSound ==
  ASSUME NEW t, Sound(t), NEW e, NEW v PROVE Sound(Assign(t, e, v))
BY DEF Sound, IsTracker, Assign

LEMMA OverwriteSound ==
  ASSUME NEW t, Sound(t), NEW e, NEW r PROVE Sound(RegOverwrite(t, e, r))
<1> DEFINE u == RegOverwrite(t, e, r)
<1>1. IsTracker(u) /\ u.unused = t.unused /\ u.owner = Put(t.owner, r, e)
  BY DEF IsTracker, RegOverwrite
<1>2. DOMAIN t.owner \subseteq DOMAIN Put(t.owner, r, e)
  BY DEF Put
<1> QED
  BY <1>1, <1>2 DEF Sound

LEMMA OverwriteAnySound ==
  ASSUME NEW t, Sound(t), NEW e, NEW v PROVE Sound(Overwrite(t, e, v))
BY AssignSound, OverwriteSound DEF Overwrite

LEMMA TakeSound ==
  ASSUME NEW t, Sound(t), NEW e, NEW r PROVE Sound(Take(t, e, r))
<1> DEFINE u == Take(t, e, r)
<1>1. IsTracker(u) /\ u.unused = t.unused \ {r} /\ u.owner = Put(t.owner, r, e)
  BY DEF IsTracker, Take
<1>2. DOMAIN Put(t.owner, r, e) = DOMAIN t.owner \cup {r}
  BY DEF Put
<1> QED
  BY <1>1, <1>2 DEF Sound

LEMMA AssignableSound ==
  ASSUME NEW t, Sound(t), NEW e, NEW c \in MakeAssignable(t, e) PROVE Sound(c.t)
BY TakeSound DEF MakeAssignable

LEMMA AcquiredSound ==
  ASSUME NEW t, Sound(t), NEW e, NEW c \in AcquireRegister(t, e) PROVE Sound(c.t)
BY TakeSound DEF AcquireRegister

LEMMA FreeSound ==
  ASSUME NEW t, Sound(t), NEW v PROVE Sound(RegFree(t, v))
<1> DEFINE u == RegFree(t, v)
<1>1. CASE v[1] = "%" /\ v[2] \in DOMAIN t.owner
  <2>1. IsTracker(u) /\ u.unused = t.unused \cup {v[2]} /\ u.owner = Without(t.owner, v[2])
    BY <1>1 DEF IsTracker, RegFree
  <2>2. DOMAIN Without(t.owner, v[2]) = DOMAIN t.owner \ {v[2]}
    BY DEF Without, Restrict
  <2> QED
    BY <2>1, <2>2 DEF Sound
<1>2. CASE ~(v[1] = "%" /\ v[2] \in DOMAIN t.owner)
  BY <1>2 DEF RegFree
<1> QED
  BY <1>1, <1>2

LEMMA ResetSound ==
  ASSUME NEW t, Sound(t) PROVE Sound(ResetRegisters(t))
<1> DEFINE u == ResetRegisters(t)
<1>1. IsTracker(u) /\ u.unused = t.unused \cup DOMAIN t.owner
  BY DEF IsTracker, ResetRegisters
<1> QED
  BY <1>1 DEF Sound

-----------------------------------------------------------------------------
(* No register is lost. *)

LEMMA LeafSound ==
  ASSUME Sound(tracker), NEW k, NEW v, NEW m, Leaf(k, v, m) PROVE Sound(tracker')
BY AssignSound DEF Leaf

LEMMA OperandSound ==
  ASSUME Sound(tracker),
         \/ Grouping \/ Unary \/ BinaryLeft \/ BinaryRight \/ LogicalLeft \/ LogicalRight
         \/ Assignment \/ CallArg \/ EndCall
  PROVE  Sound(tracker')
<1>1. ASSUME GiveUp PROVE Sound(tracker')
  BY <1>1 DEF GiveUp
<1>2. CASE Grouping
  BY <1>2, OverwriteAnySound DEF Grouping
<1>3. CASE Unary
  <2>1. ASSUME NEW c \in MakeAssignable(tracker, last), NEW v, tracker' = Assign(c.t, Top.node, v)
        PROVE  Sound(tracker')
    BY <2>1, AssignableSound, AssignSound
  <2> QED
    BY <1>1, <1>3, <2>1 DEF Unary
<1>4. CASE BinaryLeft
  <2>1. ASSUME NEW c \in MakeAssignable(tracker, last), NEW r,
               tracker' = RegOverwrite(c.t, last, r) \/ tracker' = c.t
        PROVE  Sound(tracker')
    BY <2>1, AssignableSound, OverwriteSound
  <2> QED
    BY <1>1, <1>4, <2>1 DEF BinaryLeft
<1>5. CASE BinaryRight
  <2>1. Sound(RegOverwrite(RegFree(tracker, Top.left), Top.node, Top.dest))
    BY FreeSound, OverwriteSound
  <2> QED
    BY <1>5, <2>1, FreeSound DEF BinaryRight
<1>6. CASE LogicalLeft
  BY <1>6 DEF LogicalLeft
<1>7. CASE LogicalRight
  <2>1. ASSUME NEW left, NEW c \in MakeAssignable(tracker, left), NEW n, NEW v,
               tracker' = RegFree(RegOverwrite(c.t, n, c.r), v)
        PROVE  Sound(tracker')
    BY <2>1, AssignableSound, OverwriteSound, FreeSound
  <2> QED
    BY <1>1, <1>7, <2>1 DEF LogicalRight
<1>8. CASE Assignment
  <2>1. ASSUME NEW c \in AcquireRegister(tracker, last), NEW n, NEW r, NEW v,
               tracker' = Assign(RegFree(c.t, r), n, v)
        PROVE  Sound(tracker')
    BY <2>1, AcquiredSound, AssignSound, FreeSound
  <2>2. \/ GiveUp
        \/ \E c \in AcquireRegister(tracker, last) :
             tracker' = Assign(RegFree(c.t, Register(c.r)), Top.node, Local)
    BY <1>8 DEF Assignment, Register
  <2> QED
    BY <1>1, <2>1, <2>2
<1>9. CASE CallArg
  BY <1>9, FreeSound DEF CallArg
<1>10. CASE EndCall
  <2>1. tracker' = Assign(RegFree(tracker, Top.left), Top.node, Rax)
    BY <1>10 DEF EndCall, AfterCall
  <2> QED
    BY <2>1, AssignSound, FreeSound
<1> QED
  BY <1>2, <1>3, <1>4, <1>5, <1>6, <1>7, <1>8, <1>9, <1>10

LEMMA StatementSound ==
  ASSUME Sound(tracker),
         \/ ExprStmt \/ PrintStmt \/ ReturnStmt \/ IfStmt \/ WhileStmt \/ VarStmt
         \/ PutsStmt \/ ArrayStmt \/ DefaultVar
  PROVE  Sound(tracker')
<1>1. ASSUME GiveUp PROVE Sound(tracker')
  BY <1>1 DEF GiveUp
<1>2. CASE ExprStmt \/ PrintStmt \/ ReturnStmt \/ PutsStmt \/ ArrayStmt \/ DefaultVar
  BY <1>2, ResetSound, FreeSound DEF ExprStmt, PrintStmt, ReturnStmt, PutsStmt, ArrayStmt,
     DefaultVar
<1>3. CASE IfStmt
  <2>1. ASSUME NEW c \in MakeAssignable(tracker, last), NEW v, NEW w,
               tracker' = RegFree(RegFree(c.t, v), w) \/ tracker' = RegFree(c.t, w)
        PROVE  Sound(tracker')
    BY <2>1, AssignableSound, FreeSound
  <2> QED
    BY <1>1, <1>3, <2>1 DEF IfStmt
<1>4. CASE WhileStmt
  <2>1. ASSUME NEW c, \/ c \in AcquireRegister(tracker, last) \/ c.t = tracker, NEW v,
               tracker' = RegFree(c.t, v)
        PROVE  Sound(tracker')
    BY <2>1, AcquiredSound, FreeSound
  <2> QED
    BY <1>1, <1>4, <2>1 DEF WhileStmt
<1>5. CASE VarStmt
  <2>1. PICK freed : freed = RegFree(tracker, Ref) /\ Sound(freed)
    BY FreeSound
  <2>2. ASSUME NEW c, \/ c \in AcquireRegister(freed, last) \/ c.t = freed, tracker' = c.t
        PROVE  Sound(tracker')
    BY <2>1, <2>2, AcquiredSound
  <2> QED
    BY <1>1, <1>5, <2>1, <2>2 DEF VarStmt
<1> QED
  BY <1>2, <1>3, <1>4, <1>5

LEMMA ObjectSound ==
  ASSUME Sound(tracker),
         \/ StrLiteral \/ ThisLeaf \/ OpenMember \/ OpenMethod \/ Receiver \/ OpenNew
         \/ Field \/ SetObject \/ SetField \/ NextOperand \/ GetIndex \/ SetIndex
  PROVE  Sound(tracker')
<1>1. ASSUME GiveUp PROVE Sound(tracker')
  BY <1>1 DEF GiveUp
<1>2. CASE OpenMember \/ OpenMethod \/ OpenNew \/ SetObject \/ NextOperand
  BY <1>2 DEF OpenMember, Open, OpenMethod, OpenNew, SetObject, NextOperand
<1>3. CASE StrLiteral \/ ThisLeaf
  <2>1. ASSUME NEW c \in MakeAssignable(tracker, nodes'), tracker' = Assign(c.t, nodes', Register(c.r))
        PROVE  Sound(tracker')
    BY <2>1, AssignableSound, AssignSound
  <2> QED
    BY <1>3, <2>1, LeafSound DEF StrLiteral, ThisLeaf
<1>4. CASE Receiver
  <2>1. ASSUME NEW n, NEW c \in AcquireRegister(tracker, n), NEW v, NEW w,
               tracker' = RegFree(Assign(c.t, n, v), w)
        PROVE  Sound(tracker')
    BY <2>1, AcquiredSound, AssignSound, FreeSound
  <2>2. \/ GiveUp
        \/ \E c \in AcquireRegister(tracker, -Top.node) :
             tracker' = RegFree(Assign(c.t, -Top.node, Register(c.r)), Ref)
    BY <1>4 DEF Receiver
  <2> QED
    BY <1>1, <2>1, <2>2
<1>5. CASE Field
  <2>1. ASSUME NEW n, NEW w, NEW c \in MakeAssignable(RegFree(tracker, w), n), NEW v,
               tracker' = Assign(c.t, n, v)
        PROVE  Sound(tracker')
    <3>1. Sound(RegFree(tracker, w))
      BY FreeSound
    <3> QED
      BY <2>1, <3>1, AssignableSound, AssignSound
  <2> QED
    BY <1>1, <1>5, <2>1 DEF Field
<1>6. CASE SetField
  <2>1. ASSUME NEW c, c \in AcquireRegister(tracker, last) \/ c.t = tracker, NEW v, NEW w,
               tracker' = RegFree(RegFree(c.t, v), w)
        PROVE  Sound(tracker')
    BY <2>1, AcquiredSound, FreeSound
  <2> QED
    BY <1>1, <1>6, <2>1 DEF SetField
<1>7. ASSUME NEW a, NEW i, NEW c \in Addressed(a, i) PROVE Sound(c.t)
  <2>1. PICK b \in MakeAssignable(tracker, a) : \E d \in MakeAssignable(b.t, i) : c.t = d.t
    BY <1>7 DEF Addressed
  <2>2. Sound(b.t)
    BY AssignableSound
  <2> QED
    BY <2>1, <2>2, AssignableSound
<1>8. CASE GetIndex
  <2>1. ASSUME NEW a, NEW c \in Addressed(a, last), NEW v, NEW w, NEW n,
               NEW d \in MakeAssignable(RegFree(RegFree(c.t, v), w), n), NEW u,
               tracker' = Assign(RegFree(d.t, v), n, u)
        PROVE  Sound(tracker')
    <3>1. Sound(RegFree(RegFree(c.t, v), w))
      BY <1>7, FreeSound
    <3>2. Sound(d.t)
      BY <3>1, AssignableSound
    <3> QED
      BY <2>1, <3>2, AssignSound, FreeSound
  <2>2. \/ GiveUp
        \/ \E c \in Addressed(Top.ops[1], last) :
             \E d \in MakeAssignable(RegFree(RegFree(c.t, Register(c.arr)), Register(c.idx)),
                                     Top.node) :
               tracker' = Assign(RegFree(d.t, Register(c.arr)), Top.node, Register(d.r))
    BY <1>8 DEF GetIndex, Unaddressed
  <2> QED
    BY <1>1, <2>1, <2>2
<1>9. CASE SetIndex
  <2>1. ASSUME NEW a, NEW i, NEW c \in Addressed(a, i), NEW n, NEW v, tracker' = Assign(c.t, n, v)
        PROVE  Sound(tracker')
    BY <1>7, <2>1, AssignSound
  <2> QED
    BY <1>1, <1>9, <2>1 DEF SetIndex, Unaddressed
<1> QED
  BY <1>2, <1>3, <1>4, <1>5, <1>6, <1>8, <1>9

LEMMA TrackerSound == ASSUME Sound(tracker), ObjectsNext PROVE Sound(tracker')
<1>1. CASE NumLiteral \/ Variable
  BY <1>1, LeafSound DEF NumLiteral, Variable
<1>2. CASE OpenAny \/ UnknownRef \/ \E k \in StmtKinds : Begin(k)
  BY <1>2 DEF OpenAny, Open, OpenCall, UnknownRef, GiveUp, Begin
<1> QED
  BY <1>1, <1>2, OperandSound, StatementSound, ObjectSound DEF ObjectsNext, Next

(* Whatever the program, its size and shape and the number of registers, no
   general-purpose register is lost (codegen.h:116-133). *)
THEOREM RegistersKept == ObjectsSpec => []NoRegisterLost
<1>1. Init => Sound(tracker)
  BY DEF Init, Tracker0, Sound, IsTracker
<1>2. Sound(tracker) /\ [ObjectsNext]_vars => Sound(tracker)'
  BY TrackerSound DEF vars
<1>3. Sound(tracker) => NoRegisterLost
  BY DEF Sound, NoRegisterLost
<1> QED
  BY <1>1, <1>2, <1>3, PTL DEF ObjectsSpec

-----------------------------------------------------------------------------
(* What the visits in progress have pushed. *)

IsFrame(f) ==
  /\ f = [kind |-> f.kind, node |-> f.node, ops |-> f.ops, arity |-> f.arity,
          this |-> f.this, left |-> f.left, dest |-> f.dest]
  /\ IsList(f.ops) /\ f.arity \in Nat /\ f.this \in {0, 1}
  /\ f.kind = "call" => f.this = 0
  /\ f.kind \in {"method", "new"} => f.this = 1 /\ f.arity > 0

\* The arguments are saved in pairs; a method call saves "this" as well, any other
\* call pads the frame.
Words(f, size) ==
  IF f.kind \notin CallKinds \/ (f.kind = "method" /\ f.ops = <<>>) THEN 0
  ELSE (IF f.this = 1 \/ size % 16 # 0 THEN 1 ELSE 0) + (f.arity - f.this)
         + ((f.arity - f.this) % 2)

Heights(h, fs, n, size) ==
  /\ h \in [0..Len(fs) -> Nat] /\ h[0] = 0 /\ h[Len(fs)] = n
  /\ \A i \in 1..Len(fs) : h[i] = h[i - 1] + Words(fs[i], size)

Pushes(fs, n, size) == \E h : Heights(h, fs, n, size)

Even(n) == \E k \in Nat : n = 2 * k

LEMMA EvenSum == ASSUME NEW a \in Nat, Even(a), NEW b \in Nat, Even(b) PROVE Even(a + b)
<1>1. PICK k \in Nat, l \in Nat : a = 2 * k /\ b = 2 * l
  BY DEF Even
<1>2. a + b = 2 * (k + l) /\ k + l \in Nat
  BY <1>1
<1> QED
  BY <1>2 DEF Even

LEMMA PairsEven == ASSUME NEW n \in Nat PROVE Even(n + (n % 2)) /\ n % 2 \in {0, 1}
<1>1. n % 2 \in {0, 1} /\ n = 2 * (n \div 2) + (n % 2) /\ n \div 2 \in Nat
  OBVIOUS
<1>2. PICK d \in Nat, m \in {0, 1} : d = n \div 2 /\ m = n % 2
  BY <1>1
<1>3. n + m = 2 * (d + m) /\ d + m \in Nat
  BY <1>1, <1>2
<1> QED
  BY <1>1, <1>2, <1>3 DEF Even

LEMMA WordsOf ==
  ASSUME NEW f, IsFrame(f), NEW size \in Nat
  PROVE  /\ Words(f, size) \in Nat
         /\ f.kind \notin CallKinds => Words(f, size) = 0
         /\ f.kind = "call" /\ size % 16 = 0 => Even(Words(f, size))
         /\ f.kind = "call" /\ size % 16 # 0 => \E k \in Nat : Words(f, size) = 2 * k + 1
         /\ f.kind \in {"method", "new"} /\ (f.kind = "method" => f.ops # <<>>) =>
              \E k \in Nat : Words(f, size) = 2 * k + 1
<1>1. f.kind \notin CallKinds \/ (f.kind = "method" /\ f.ops = <<>>) => Words(f, size) = 0
  BY DEF Words
<1>2. ASSUME f.kind \in CallKinds, f.kind = "method" => f.ops # <<>>
      PROVE  \E k \in Nat : Words(f, size) = IF f.this = 1 \/ size % 16 # 0 THEN 2 * k + 1 ELSE 2 * k
  <2>1. PICK n \in Nat : n = f.arity - f.this
    BY <1>2 DEF IsFrame, CallKinds
  <2>2. PICK k \in Nat : n + (n % 2) = 2 * k
    BY PairsEven DEF Even
  <2>3. n % 2 \in Nat
    BY PairsEven
  <2>4. Words(f, size) = (IF f.this = 1 \/ size % 16 # 0 THEN 1 ELSE 0) + n + (n % 2)
    BY <1>2, <2>1 DEF Words
  <2>5. (IF f.this = 1 \/ size % 16 # 0 THEN 1 ELSE 0) + n + (n % 2)
          = IF f.this = 1 \/ size % 16 # 0 THEN 2 * k + 1 ELSE 2 * k
    BY <2>2, <2>3
  <2> QED
    BY <2>4, <2>5
<1>3. f.kind = "call" => f.this = 0
  BY DEF IsFrame
<1>4. f.kind \in {"method", "new"} => f.this = 1
  BY DEF IsFrame
<1>5. {"call", "method", "new"} = CallKinds
  BY DEF CallKinds
<1>6. Words(f, size) \in Nat
  BY <1>1, <1>2
<1>7. f.kind = "call" /\ size % 16 = 0 => Even(Words(f, size))
  BY <1>2, <1>3, <1>5 DEF Even
<1>8. f.kind = "call" /\ size % 16 # 0 => \E k \in Nat : Words(f, size) = 2 * k + 1
  BY <1>2, <1>3, <1>5
<1>9. f.kind \in {"method", "new"} /\ (f.kind = "method" => f.ops # <<>>) =>
        \E k \in Nat : Words(f, size) = 2 * k + 1
  BY <1>2, <1>4, <1>5
<1> QED
  BY <1>1, <1>6, <1>7, <1>8, <1>9

LEMMA HeightZero ==
  ASSUME NEW fs, NEW h, NEW n, NEW size, Heights(h, fs, n, size), Len(fs) \in Nat,
         NEW m \in 0..Len(fs), \A i \in 1..m : Words(fs[i], size) = 0
  PROVE  h[m] = 0
<1> SUFFICES ASSUME h[m] # 0 PROVE FALSE
  OBVIOUS
<1> DEFINE T == {i \in 0..m : h[i] # 0}
<1>1. T \in SUBSET Nat /\ m \in T
  OBVIOUS
<1>2. PICK i \in T : \A j \in T : i <= j
  BY <1>1, LeastExists
<1>3. i \in 1..m /\ i - 1 \in 0..m /\ i - 1 \notin T /\ i \in 1..Len(fs)
  BY <1>2 DEF Heights
<1>4. h[i - 1] = 0 /\ Words(fs[i], size) = 0 /\ h[i] = h[i - 1] + Words(fs[i], size)
  BY <1>3 DEF Heights
<1> QED
  BY <1>2, <1>4

LEMMA HeightEven ==
  ASSUME NEW fs, NEW h, NEW n, NEW size, Heights(h, fs, n, size), Len(fs) \in Nat,
         NEW m \in 0..Len(fs),
         \A i \in 1..m : Words(fs[i], size) \in Nat /\ Even(Words(fs[i], size))
  PROVE  Even(h[m])
<1> SUFFICES ASSUME ~Even(h[m]) PROVE FALSE
  OBVIOUS
<1> DEFINE T == {i \in 0..m : ~Even(h[i])}
<1>1. T \in SUBSET Nat /\ m \in T
  OBVIOUS
<1>2. PICK i \in T : \A j \in T : i <= j
  BY <1>1, LeastExists
<1>3. i # 0
  <2>1. Even(0)
    BY DEF Even
  <2> QED
    BY <1>2, <2>1 DEF Heights
<1>4. i \in 1..m /\ i - 1 \in 0..m /\ i - 1 \notin T /\ i \in 1..Len(fs) /\ i - 1 \in 0..Len(fs)
  BY <1>2, <1>3
<1>5. PICK a, b : a = h[i - 1] /\ b = Words(fs[i], size)
  OBVIOUS
<1>6. a \in Nat /\ b \in Nat /\ Even(a) /\ Even(b) /\ h[i] = a + b
  BY <1>4, <1>5 DEF Heights
<1> QED
  BY <1>2, <1>6, EvenSum

LEMMA PushFrame ==
  ASSUME NEW fs, IsList(fs), NEW n \in Nat, NEW size, Pushes(fs, n, size),
         NEW f, NEW r, r = Append(fs, f), Words(f, size) \in Nat
  PROVE  Pushes(r, n + Words(f, size), size)
<1>1. PICK h : Heights(h, fs, n, size)
  BY DEF Pushes
<1>2. PICK l \in Nat : l = Len(fs) /\ Len(r) = l + 1 /\ r[l + 1] = f /\ \A i \in 1..l : r[i] = fs[i]
  BY Appended, ListLength
<1>3. PICK m \in Nat : m = n + Words(f, size)
  OBVIOUS
<1> DEFINE g == [i \in 0..l + 1 |-> IF i = l + 1 THEN m ELSE h[i]]
<1>4. g \in [0..l + 1 -> Nat] /\ g[0] = 0 /\ g[l + 1] = m
  BY <1>1, <1>2, <1>3 DEF Heights
<1>5. ASSUME NEW i \in 1..l + 1 PROVE g[i] = g[i - 1] + Words(r[i], size)
  <2>1. CASE i = l + 1
    BY <1>1, <1>2, <1>3, <2>1 DEF Heights
  <2>2. CASE i # l + 1
    <3>1. i \in 1..l /\ g[i] = h[i] /\ g[i - 1] = h[i - 1] /\ r[i] = fs[i]
      BY <1>2, <2>2
    <3> QED
      BY <1>1, <1>2, <3>1 DEF Heights
  <2> QED
    BY <2>1, <2>2
<1> HIDE DEF g
<1>6. Heights(g, r, m, size)
  BY <1>2, <1>4, <1>5 DEF Heights
<1> QED
  BY <1>3, <1>6 DEF Pushes

\* Below the last frame the heights are the same.
LEMMA PopFrame ==
  ASSUME NEW fs, IsList(fs), fs # <<>>, NEW n \in Nat, NEW size, Pushes(fs, n, size),
         NEW f, f = fs[Len(fs)], Words(f, size) \in Nat, NEW r, r = Front(fs)
  PROVE  \E m \in Nat : n = m + Words(f, size) /\ Pushes(r, m, size)
<1>1. PICK h : Heights(h, fs, n, size)
  BY DEF Pushes
<1>2. PICK l \in Nat : l = Len(r) /\ Len(fs) = l + 1 /\ \A i \in 1..l : r[i] = fs[i]
  BY Fronted, ListLength
<1>3. PICK m \in Nat : m = h[l]
  BY <1>1, <1>2 DEF Heights
<1> DEFINE g == [i \in 0..l |-> h[i]]
<1>4. g \in [0..l -> Nat] /\ g[0] = 0 /\ g[l] = m
  BY <1>1, <1>2, <1>3 DEF Heights
<1>5. ASSUME NEW i \in 1..l PROVE g[i] = g[i - 1] + Words(r[i], size)
  <2>1. i \in 1..l + 1 /\ g[i] = h[i] /\ g[i - 1] = h[i - 1] /\ r[i] = fs[i]
    BY <1>2
  <2> QED
    BY <1>1, <1>2, <2>1 DEF Heights
<1>6. n = m + Words(f, size)
  <2>1. l + 1 \in 1..Len(fs) /\ (l + 1) - 1 = l
    BY <1>2
  <2> QED
    BY <1>1, <1>2, <1>3, <2>1 DEF Heights
<1> HIDE DEF g
<1>7. Heights(g, r, m, size)
  BY <1>2, <1>4, <1>5 DEF Heights
<1> QED
  BY <1>6, <1>7 DEF Pushes

LEMMA Carried ==
  ASSUME NEW a \in Nat, NEW b \in Nat, NEW c \in Nat, NEW n \in Nat, NEW m \in Nat,
         n = a + b, m + b = n + c
  PROVE  m = a + c
OBVIOUS

LEMMA SameFrame ==
  ASSUME NEW fs, IsList(fs), fs # <<>>, NEW n \in Nat, NEW size, Pushes(fs, n, size),
         NEW f, f = fs[Len(fs)], Words(f, size) \in Nat, NEW e, Words(e, size) \in Nat,
         NEW r, r = [fs EXCEPT ![Len(fs)] = e], NEW m \in Nat,
         m + Words(f, size) = n + Words(e, size)
  PROVE  Pushes(r, m, size)
<1>1. PICK h : Heights(h, fs, n, size)
  BY DEF Pushes
<1>2. PICK l \in Nat : /\ l + 1 = Len(fs) /\ Len(r) = l + 1 /\ r[l + 1] = e
                       /\ \A i \in 1..l : r[i] = fs[i]
  <2>1. Len(fs) \in Nat \ {0}
    BY ListLength
  <2>2. PICK l \in Nat : l + 1 = Len(fs)
    <3>1. Len(fs) - 1 \in Nat /\ (Len(fs) - 1) + 1 = Len(fs)
      BY <2>1
    <3> QED
      BY <3>1
  <2>3. Len(r) = Len(fs) /\ r[Len(fs)] = e /\ \A i \in 1..Len(fs) - 1 : r[i] = fs[i]
    BY Replaced
  <2>4. Len(fs) - 1 = l
    BY <2>2
  <2> QED
    BY <2>2, <2>3, <2>4
<1> DEFINE g == [i \in 0..l + 1 |-> IF i = l + 1 THEN m ELSE h[i]]
<1>4. g \in [0..l + 1 -> Nat] /\ g[0] = 0 /\ g[l + 1] = m
  BY <1>1, <1>2 DEF Heights
<1>5. ASSUME NEW i \in 1..l + 1 PROVE g[i] = g[i - 1] + Words(r[i], size)
  <2>1. CASE i = l + 1
    <3>1. l + 1 \in 1..Len(fs) /\ (l + 1) - 1 = l /\ l \in 0..Len(fs)
      BY <1>2
    <3>2. PICK a \in Nat, b \in Nat, c \in Nat : a = h[l] /\ b = Words(f, size) /\ c = Words(e, size)
      BY <1>1, <3>1 DEF Heights
    <3>3. n = a + b
      BY <1>1, <1>2, <3>1, <3>2 DEF Heights
    <3>4. m = a + c
      <4>1. m + b = n + c
        BY <3>2
      <4> QED
        BY <3>2, <3>3, <4>1, Carried
    <3>5. g[l + 1] = m /\ g[l] = h[l]
      BY <1>2
    <3> QED
      BY <1>2, <2>1, <3>1, <3>2, <3>4, <3>5
  <2>2. CASE i # l + 1
    <3>1. i \in 1..l /\ g[i] = h[i] /\ g[i - 1] = h[i - 1] /\ r[i] = fs[i]
      BY <1>2, <2>2
    <3> QED
      BY <1>1, <1>2, <3>1 DEF Heights
  <2> QED
    BY <2>1, <2>2
<1> HIDE DEF g
<1>6. Heights(g, r, m, size)
  BY <1>2, <1>4, <1>5 DEF Heights
<1> QED
  BY <1>6 DEF Pushes

\* What has been pushed is what the visits in progress have pushed.
Accounted(fs, st, size) ==
  /\ size \in FrameSizes
  /\ IsList(fs) /\ \A i \in 1..Len(fs) : IsFrame(fs[i])
  /\ IsList(st)
  /\ Pushes(fs, Len(st), size)

LEMMA NoFrames ==
  ASSUME NEW size \in FrameSizes PROVE Accounted(<<>>, <<>>, size)
<1>1. IsList(<<>>) /\ Len(<<>>) = 0
  <2>1. <<>> \in Seq({})
    BY EmptySeq
  <2> QED
    BY <2>1, ListOf, ListLength
<1>2. Pushes(<<>>, 0, size)
  <2> DEFINE h == [i \in 0..0 |-> 0]
  <2>1. Heights(h, <<>>, 0, size)
    BY <1>1 DEF Heights
  <2> QED
    BY <2>1 DEF Pushes
<1> QED
  BY <1>1, <1>2 DEF Accounted

LEMMA Opens ==
  ASSUME NEW fs, NEW st, NEW size, Accounted(fs, st, size), NEW f, IsFrame(f),
         NEW r, r = Append(fs, f), NEW u, IsList(u), Len(u) = Len(st) + Words(f, size)
  PROVE  Accounted(r, u, size)
<1>1. size \in Nat /\ Words(f, size) \in Nat
  BY LocalsAreWords, WordsOf DEF Accounted
<1>0. IsList(fs)
  BY DEF Accounted
<1>2. /\ IsList(r) /\ Len(r) = Len(fs) + 1 /\ r[Len(r)] = f
      /\ \A i \in 1..Len(fs) : r[i] = fs[i]
      /\ Len(fs) \in Nat
  <2>1. /\ IsList(r) /\ r[Len(r)] = f /\ Len(r) = Len(fs) + 1
        /\ \A i \in 1..Len(fs) : r[i] = fs[i]
    <3>1. IsList(r)
      BY <1>0, Appended
    <3>2. r[Len(r)] = f /\ Len(r) = Len(fs) + 1
      BY <1>0, Appended
    <3>3. \A i \in 1..Len(fs) : r[i] = fs[i]
      BY <1>0, Appended
    <3> QED
      BY <3>1, <3>2, <3>3
  <2>2. Len(fs) \in Nat
    BY <1>0, ListLength
  <2> QED
    BY <2>1, <2>2
<1>3. \A i \in 1..Len(r) : IsFrame(r[i])
  BY <1>2 DEF Accounted
<1>4. PICK n \in Nat : n = Len(st)
  BY ListLength DEF Accounted
<1>5. Pushes(r, n + Words(f, size), size)
  BY <1>1, <1>4, PushFrame DEF Accounted
<1> QED
  BY <1>2, <1>3, <1>4, <1>5 DEF Accounted

LEMMA Closes ==
  ASSUME NEW fs, NEW st, NEW size, Accounted(fs, st, size), fs # <<>>,
         NEW f, f = fs[Len(fs)], NEW r, r = Front(fs),
         NEW u, IsList(u), Len(st) = Len(u) + Words(f, size)
  PROVE  Accounted(r, u, size)
<1>1. IsList(r) /\ Len(fs) = Len(r) + 1 /\ (\A i \in 1..Len(r) : r[i] = fs[i]) /\ Len(r) \in Nat
  BY Fronted, ListLength DEF Accounted
<1>2. \A i \in 1..Len(r) : IsFrame(r[i])
  BY <1>1 DEF Accounted
<1>3. IsFrame(f)
  BY <1>1 DEF Accounted
<1>4. size \in Nat /\ Words(f, size) \in Nat
  BY <1>3, LocalsAreWords, WordsOf DEF Accounted
<1>5. PICK n \in Nat, l \in Nat : n = Len(st) /\ l = Len(u)
  BY ListLength DEF Accounted
<1>6. PICK m \in Nat : n = m + Words(f, size) /\ Pushes(r, m, size)
  BY <1>4, <1>5, PopFrame DEF Accounted
<1>7. m = l
  BY <1>4, <1>5, <1>6
<1> QED
  BY <1>1, <1>2, <1>5, <1>6, <1>7 DEF Accounted

LEMMA Resumes ==
  ASSUME NEW fs, NEW st, NEW size, Accounted(fs, st, size), fs # <<>>,
         NEW f, f = fs[Len(fs)], NEW e, IsFrame(e), NEW r, r = [fs EXCEPT ![Len(fs)] = e],
         NEW u, IsList(u), Len(u) + Words(f, size) = Len(st) + Words(e, size)
  PROVE  Accounted(r, u, size)
<1>0. IsList(fs)
  BY DEF Accounted
<1>1. /\ IsList(r) /\ Len(r) = Len(fs) /\ r[Len(fs)] = e
      /\ \A i \in 1..Len(fs) - 1 : r[i] = fs[i]
      /\ Len(fs) \in Nat \ {0}
  <2>1. Len(fs) \in Nat \ {0}
    BY <1>0, ListLength
  <2>2. /\ IsList(r) /\ Len(r) = Len(fs) /\ r[Len(fs)] = e
        /\ \A i \in 1..Len(fs) - 1 : r[i] = fs[i]
    <3>1. IsList(r)
      BY <1>0, Replaced
    <3>2. Len(r) = Len(fs) /\ r[Len(fs)] = e
      BY <1>0, Replaced
    <3>3. \A i \in 1..Len(fs) - 1 : r[i] = fs[i]
      BY <1>0, Replaced
    <3> QED
      BY <3>1, <3>2, <3>3
  <2> QED
    BY <2>1, <2>2
<1>2. \A i \in 1..Len(r) : IsFrame(r[i])
  BY <1>1 DEF Accounted
<1>3. IsFrame(f)
  BY <1>1 DEF Accounted
<1>4. size \in Nat /\ Words(f, size) \in Nat /\ Words(e, size) \in Nat
  BY <1>3, LocalsAreWords, WordsOf DEF Accounted
<1>5. PICK n \in Nat, m \in Nat : n = Len(st) /\ m = Len(u)
  BY ListLength DEF Accounted
<1>6. Pushes(r, m, size)
  BY <1>4, <1>5, SameFrame DEF Accounted
<1> QED
  BY <1>1, <1>2, <1>5, <1>6 DEF Accounted

-----------------------------------------------------------------------------
(* What a call pushes. *)

LEMMA OneElement == ASSUME NEW e PROVE IsList(<<e>>) /\ Len(<<e>>) = 1
<1>1. <<e>> \in Seq({e})
  OBVIOUS
<1> QED
  BY <1>1, ListOf

LEMMA Nothing == IsList(<<>>) /\ Len(<<>>) = 0
<1>1. <<>> \in Seq({})
  BY EmptySeq
<1> QED
  BY <1>1, ListOf, ListLength

LEMMA PaddingLength ==
  ASSUME totalSize \in FrameSizes, NEW t \in {0, 1}
  PROVE  \E d \in {0, 1} :
           /\ d = IF t = 0 /\ totalSize % 16 # 0 THEN 1 ELSE 0
           /\ d + t = IF t = 1 \/ totalSize % 16 # 0 THEN 1 ELSE 0
           /\ IsList(Padding(t)) /\ d = Len(Padding(t))
<1>1. totalSize % 8 = 0
  BY LocalsAreWords
<1>2. CASE t = 0
  <2>1. 16 - 8 * 0 = 16
    OBVIOUS
  <2> QED
    BY <1>2, <2>1, OneElement, Nothing DEF Padding
<1>3. CASE t = 1
  <2>1. 16 - 8 * 1 = 8
    OBVIOUS
  <2> QED
    BY <1>1, <1>3, <2>1, OneElement, Nothing DEF Padding
<1> QED
  BY <1>2, <1>3

LEMMA SavesLength ==
  ASSUME totalSize \in FrameSizes, NEW this \in {0, 1}, NEW n \in Nat, NEW p, p = Saves(this, n)
  PROVE  /\ IsList(p)
         /\ Len(p) = (IF this = 0 /\ totalSize % 16 # 0 THEN 1 ELSE 0) + n + (n % 2)
<1> DEFINE q == [i \in 1..n |-> Pushed(ArgRegs[this + i])]
           z == IF n % 2 = 1 THEN <<Pushed("rbx")>> ELSE <<>>
<1>1. IsList(q) /\ Len(q) = n
  <2> DEFINE S == {q[i] : i \in 1..n}
  <2>1. q \in [1..n -> S]
    OBVIOUS
  <2> HIDE DEF S
  <2>2. q \in Seq(S)
    BY <2>1, SeqDef
  <2>3. Len(q) = n
    BY <2>1
  <2> QED
    BY <2>2, <2>3, ListOf
<1>2. IsList(z) /\ Len(z) = n % 2
  <2>1. n % 2 \in {0, 1}
    BY PairsEven
  <2> QED
    BY <2>1, OneElement, Nothing
<1>3. PICK d \in {0, 1} : /\ d = IF this = 0 /\ totalSize % 16 # 0 THEN 1 ELSE 0
                          /\ IsList(Padding(this)) /\ Len(Padding(this)) = d
  BY PaddingLength
<1> DEFINE a == Padding(this)
<1>4. p = (a \o q) \o z
  BY DEF Saves
<1> HIDE DEF q, z, a
<1>5. PICK b : b = a \o q
  OBVIOUS
<1>6. IsList(a) /\ Len(a) = d
  BY <1>3 DEF a
<1>7. IsList(b) /\ Len(b) = d + n
  BY <1>1, <1>5, <1>6, ListsJoined
<1>8. IsList(p) /\ Len(p) = (d + n) + (n % 2)
  <2>1. p = b \o z
    BY <1>4, <1>5
  <2>2. IsList(p) /\ Len(p) = Len(b) + Len(z)
    BY <1>2, <1>7, <2>1, ListsJoined
  <2> QED
    BY <1>2, <1>7, <2>2
<1>9. PICK m \in {0, 1} : m = n % 2
  BY PairsEven
<1>10. (d + n) + m = d + n + m
  OBVIOUS
<1> QED
  BY <1>3, <1>8, <1>9, <1>10

-----------------------------------------------------------------------------
(* What the steps push and pop. *)

Held == Accounted(frames, stack, totalSize)

LEMMA TopFrame ==
  ASSUME Held, frames # <<>>
  PROVE  /\ IsFrame(Top) /\ Top = frames[Len(frames)]
         /\ Words(Top, totalSize) \in Nat
         /\ Top.kind \notin CallKinds => Words(Top, totalSize) = 0
<1>1. Len(frames) \in 1..Len(frames) /\ Top = frames[Len(frames)]
  BY ListLength DEF Held, Accounted, Top, Last
<1>2. IsFrame(Top) /\ totalSize \in Nat
  BY <1>1, LocalsAreWords DEF Held, Accounted
<1> QED
  BY <1>1, <1>2, WordsOf

LEMMA ClosedHeld ==
  ASSUME Held, frames # <<>>, Top.kind \notin CallKinds, Pop, UNCHANGED <<stack, totalSize>>
  PROVE  Held'
<1>1. IsList(stack) /\ Len(stack) \in Nat
  BY ListLength DEF Held, Accounted
<1>2. Len(stack) = Len(stack) + Words(Top, totalSize)
  BY <1>1, TopFrame
<1>3. frames' = Front(frames)
  BY DEF Pop
<1>4. Accounted(frames', stack, totalSize)
  BY <1>1, <1>2, <1>3, TopFrame, Closes DEF Held
<1> QED
  BY <1>4 DEF Held

\* A frame whose operands, left and dest change.
IsNext(e, f) ==
  /\ IsFrame(e)
  /\ e.kind = f.kind /\ e.arity = f.arity /\ e.this = f.this

LEMMA ResumedHeld ==
  ASSUME Held, frames # <<>>, NEW e, IsNext(e, Top), Resume(e),
         Top.kind = "method" => Top.ops # <<>> /\ e.ops # <<>>,
         UNCHANGED <<stack, totalSize>>
  PROVE  Held'
<1>1. IsList(stack) /\ Len(stack) \in Nat
  BY ListLength DEF Held, Accounted
<1>2. Words(e, totalSize) = Words(Top, totalSize)
  BY DEF Words, IsNext
<1>3. frames' = [frames EXCEPT ![Len(frames)] = e]
  BY DEF Resume
<1>4. Accounted(frames', stack, totalSize)
  BY <1>1, <1>2, <1>3, TopFrame, Resumes DEF Held, IsNext
<1> QED
  BY <1>4 DEF Held

LEMMA OpenedHeld ==
  ASSUME Held, NEW f, IsFrame(f), frames' = Append(frames, f),
         NEW p, IsList(p), Len(p) = Words(f, totalSize), stack' = stack \o p,
         totalSize' = totalSize
  PROVE  Held'
<1>1. IsList(stack)
  BY DEF Held, Accounted
<1>2. IsList(stack') /\ Len(stack') = Len(stack) + Words(f, totalSize)
  BY <1>1, ListsJoined
<1>3. Accounted(frames', stack', totalSize)
  BY <1>2, Opens DEF Held
<1> QED
  BY <1>3 DEF Held

LEMMA OpenedPlain ==
  ASSUME Held, NEW f, IsFrame(f), frames' = Append(frames, f), Words(f, totalSize) = 0,
         UNCHANGED <<stack, totalSize>>
  PROVE  Held'
<1>1. IsList(stack) /\ Len(stack) = Len(stack) + Words(f, totalSize)
  BY ListLength DEF Held, Accounted
<1>2. Accounted(frames', stack, totalSize)
  BY <1>1, Opens DEF Held
<1> QED
  BY <1>2 DEF Held

LEMMA NewFrame ==
  ASSUME NEW k, NEW n \in Nat, NEW this \in {0, 1},
         k = "call" => this = 0, k \in {"method", "new"} => this = 1 /\ n > 0,
         NEW f, f = Frame(k, n, this)
  PROVE  IsFrame(f) /\ f.kind = k /\ f.arity = n /\ f.this = this /\ f.ops = <<>>
<1>1. f.kind = k /\ f.arity = n /\ f.this = this /\ f.ops = <<>>
  BY DEF Frame
<1>2. f = [kind |-> f.kind, node |-> f.node, ops |-> f.ops, arity |-> f.arity,
           this |-> f.this, left |-> f.left, dest |-> f.dest]
  BY DEF Frame
<1> QED
  BY <1>1, <1>2, Nothing DEF IsFrame

LEMMA OpenHeld == ASSUME Held, NEW k, k \notin CallKinds, Open(k) PROVE Held'
<1>1. PICK f : f = Frame(k, 0, 0)
  OBVIOUS
<1>2. IsFrame(f) /\ f.kind = k
  BY <1>1, NewFrame DEF CallKinds
<1>3. Words(f, totalSize) = 0
  BY <1>2 DEF Words
<1>4. frames' = Append(frames, f) /\ UNCHANGED <<stack, totalSize>>
  BY <1>1 DEF Open, memory
<1> QED
  BY <1>2, <1>3, <1>4, OpenedPlain

LEMMA OpenCallHeld == ASSUME Held, NEW n \in 0..MaxArgs, OpenCall(n) PROVE Held'
<1>1. PICK f : f = Frame("call", n, 0)
  OBVIOUS
<1>2. n \in Nat
  BY ArgsAreCounted
<1>3. IsFrame(f) /\ f.kind = "call" /\ f.arity = n /\ f.this = 0
  BY <1>1, <1>2, NewFrame
<1>4. PICK p : p = Saves(0, n)
  OBVIOUS
<1>5. IsList(p) /\ Len(p) = (IF totalSize % 16 # 0 THEN 1 ELSE 0) + n + (n % 2)
  BY <1>2, <1>4, SavesLength DEF Held, Accounted
<1>6. n - 0 = n
  BY <1>2
<1>7. Words(f, totalSize) = (IF totalSize % 16 # 0 THEN 1 ELSE 0) + n + (n % 2)
  BY <1>3, <1>6 DEF Words, CallKinds
<1>8. frames' = Append(frames, f) /\ stack' = stack \o p /\ totalSize' = totalSize
  BY <1>1, <1>4 DEF OpenCall
<1> QED
  BY <1>3, <1>5, <1>7, <1>8, OpenedHeld

LEMMA OpenMethodHeld == ASSUME Held, OpenMethod PROVE Held'
<1>1. PICK n \in 0..MaxArgs : frames' = Append(frames, Frame("method", n + 1, 1))
  BY DEF OpenMethod
<1>2. PICK f : f = Frame("method", n + 1, 1)
  OBVIOUS
<1>3. n + 1 \in Nat /\ n + 1 > 0
  BY ArgsAreCounted
<1>4. IsFrame(f) /\ f.kind = "method" /\ f.ops = <<>>
  BY <1>2, <1>3, NewFrame
<1>5. Words(f, totalSize) = 0
  BY <1>4 DEF Words
<1>6. frames' = Append(frames, f) /\ UNCHANGED <<stack, totalSize>>
  BY <1>1, <1>2 DEF OpenMethod, machine, memory
<1> QED
  BY <1>4, <1>5, <1>6, OpenedPlain

\* What is pushed where "this" is supplied.
LEMMA ThisSaved ==
  ASSUME Held, NEW n \in Nat, NEW r, r = stack \o <<Pushed("rdi")>> \o Saves(1, n)
  PROVE  IsList(r) /\ Len(r) = Len(stack) + (1 + n + (n % 2))
<1>0. totalSize \in FrameSizes /\ IsList(stack)
  BY DEF Held, Accounted
<1>1. PICK q : q = Saves(1, n)
  OBVIOUS
<1>2. IsList(q) /\ Len(q) = 0 + n + (n % 2)
  BY <1>0, <1>1, SavesLength
<1>3. PICK a : a = <<Pushed("rdi")>> /\ IsList(a) /\ Len(a) = 1
  BY OneElement
<1>4. PICK b : b = stack \o a
  OBVIOUS
<1>5. IsList(b) /\ Len(b) = Len(stack) + 1
  BY <1>0, <1>3, <1>4, ListsJoined
<1>6. r = b \o q
  BY <1>1, <1>3, <1>4
<1>7. IsList(r) /\ Len(r) = Len(b) + Len(q)
  BY <1>2, <1>5, <1>6, ListsJoined
<1>8. PICK m \in {0, 1}, l \in Nat : m = n % 2 /\ l = Len(stack)
  BY <1>0, PairsEven, ListLength
<1>9. (l + 1) + (0 + n + m) = l + (1 + n + m)
  BY <1>8
<1> QED
  BY <1>2, <1>5, <1>7, <1>8, <1>9

LEMMA ThisWords ==
  ASSUME NEW f, f.kind = "new" \/ (f.kind = "method" /\ f.ops # <<>>), f.this = 1,
         NEW n \in Nat, f.arity = n + 1
  PROVE  Words(f, totalSize) = 1 + n + (n % 2)
<1>1. (n + 1) - 1 = n
  OBVIOUS
<1> QED
  BY <1>1 DEF Words, CallKinds

LEMMA OpenNewHeld == ASSUME Held, OpenNew PROVE Held'
<1>1. PICK n \in 0..MaxArgs :
        /\ frames' = Append(frames, [Frame("new", n + 1, 1) EXCEPT !.ops = <<nodes'>>])
        /\ stack' = stack \o <<Pushed("rdi")>> \o Saves(1, n)
  BY DEF OpenNew
<1>2. PICK g, f : g = Frame("new", n + 1, 1) /\ f = [g EXCEPT !.ops = <<nodes'>>]
  OBVIOUS
<1>3. n \in Nat /\ n + 1 \in Nat /\ n + 1 > 0
  BY ArgsAreCounted
<1>4. IsFrame(g) /\ g.kind = "new" /\ g.arity = n + 1 /\ g.this = 1
  BY <1>2, <1>3, NewFrame
<1>5. IsFrame(f) /\ f.kind = "new" /\ f.arity = n + 1 /\ f.this = 1
  <2>1. PICK o : o = <<nodes'>> /\ IsList(o)
    BY OneElement
  <2>2. f = [g EXCEPT !.ops = o]
    BY <1>2, <2>1
  <2> QED
    BY <1>4, <2>1, <2>2, <1>3 DEF IsFrame
<1>6. Words(f, totalSize) = 1 + n + (n % 2)
  BY <1>3, <1>5, ThisWords
<1>7. IsList(stack') /\ Len(stack') = Len(stack) + (1 + n + (n % 2))
  BY <1>1, <1>3, ThisSaved
<1>8. frames' = Append(frames, f) /\ totalSize' = totalSize
  BY <1>1, <1>2 DEF OpenNew
<1>9. Accounted(frames', stack', totalSize)
  BY <1>5, <1>6, <1>7, <1>8, Opens DEF Held
<1> QED
  BY <1>8, <1>9 DEF Held

LEMMA ReceiverHeld == ASSUME Held, Receiver PROVE Held'
<1>1. CASE GiveUp
  BY <1>1 DEF GiveUp, machine, memory, Held, Receiver
<1>2. CASE ~GiveUp
  <2>1. /\ frames # <<>> /\ Top.kind = "method" /\ Len(Top.ops) = 0
        /\ stack' = stack \o <<Pushed("rdi")>> \o Saves(1, Top.arity - 1)
        /\ totalSize' = totalSize
        /\ \E r : Resume([Top EXCEPT !.ops = <<last>>, !.left = r])
    BY <1>2 DEF Receiver, Returned
  <2>2. PICK f : f = Top /\ IsFrame(f) /\ f.kind = "method" /\ f = frames[Len(frames)]
    BY <2>1, TopFrame
  <2>3. PICK o : o = <<last>> /\ IsList(o) /\ o # <<>>
    BY OneElement
  <2>4. PICK r : Resume([f EXCEPT !.ops = o, !.left = r])
    BY <2>1, <2>2, <2>3
  <2>5. PICK e : e = [f EXCEPT !.ops = o, !.left = r]
    OBVIOUS
  <2>6. IsFrame(e) /\ e.kind = "method" /\ e.ops = o /\ e.this = f.this /\ e.arity = f.arity
    BY <2>2, <2>3, <2>5 DEF IsFrame
  <2>7. f.this = 1 /\ f.arity \in Nat /\ f.arity > 0
    BY <2>2 DEF IsFrame
  <2>8. PICK n \in Nat : n = f.arity - 1 /\ f.arity = n + 1
    BY <2>7
  <2>9. f.ops = <<>>
    BY <2>1, <2>2, ListLength DEF IsFrame
  <2>10. Words(f, totalSize) = 0
    BY <2>2, <2>9 DEF Words
  <2>11. Words(e, totalSize) = 1 + n + (n % 2)
    BY <2>3, <2>6, <2>7, <2>8, ThisWords
  <2>12. IsList(stack') /\ Len(stack') = Len(stack) + (1 + n + (n % 2))
    BY <2>1, <2>2, <2>8, ThisSaved
  <2>13. Len(stack') + Words(f, totalSize) = Len(stack) + Words(e, totalSize)
    <3>1. Len(stack') \in Nat
      BY <2>12, ListLength
    <3> QED
      BY <2>10, <2>11, <2>12, <3>1
  <2>14. frames' = [frames EXCEPT ![Len(frames)] = e]
    BY <2>4, <2>5 DEF Resume
  <2>15. Accounted(frames', stack', totalSize)
    <3>1. PICK u, g : u = stack' /\ g = frames'
      OBVIOUS
    <3>2. Accounted(frames, stack, totalSize)
      BY DEF Held
    <3>3. IsList(u) /\ Len(u) + Words(f, totalSize) = Len(stack) + Words(e, totalSize)
      BY <2>12, <2>13, <3>1
    <3>4. g = [frames EXCEPT ![Len(frames)] = e]
      BY <2>14, <3>1
    <3>5. frames # <<>> /\ f = frames[Len(frames)] /\ IsFrame(e)
      BY <2>1, <2>2, <2>6
    <3>6. Accounted(g, u, totalSize)
      BY <3>2, <3>3, <3>4, <3>5, Resumes
    <3> QED
      BY <3>1, <3>6
  <2> QED
    BY <2>1, <2>15 DEF Held
<1> QED
  BY <1>1, <1>2

LEMMA EndCallHeld == ASSUME Held, EndCall PROVE Held'
<1>1. /\ frames # <<>> /\ Top.kind \in CallKinds /\ Len(Top.ops) = Top.arity
      /\ stack' = SubSeq(stack, 1, SavedFrom - Len(Padding(Top.this)) - Top.this)
      /\ totalSize' = totalSize
      /\ frames' = Front(frames)
  BY DEF EndCall, AfterCall, AtCall, Close, Pop
<1>2. PICK f : f = Top /\ IsFrame(f) /\ f = frames[Len(frames)] /\ Words(f, totalSize) \in Nat
  BY <1>1, TopFrame
<1>3. f.kind = "method" => f.ops # <<>>
  BY <1>1, <1>2, Nothing DEF IsFrame
<1>4. PICK n \in Nat : n = f.arity - f.this
  BY <1>1, <1>2 DEF IsFrame, CallKinds
<1>5. PICK m \in {0, 1} : m = n % 2
  BY PairsEven
<1>6. PICK t \in {0, 1} : t = f.this
  BY <1>2 DEF IsFrame
<1>7. PICK d \in {0, 1} : d = Len(Padding(t)) /\ d + t = IF t = 1 \/ totalSize % 16 # 0 THEN 1 ELSE 0
  BY <1>6, PaddingLength DEF Held, Accounted
<1>8. Words(f, totalSize) = d + t + n + m
  BY <1>1, <1>2, <1>3, <1>4, <1>5, <1>6, <1>7 DEF Words
<1>9. PICK l \in Nat : l = Len(stack)
  BY ListLength DEF Held, Accounted
<1>10. \E k \in Nat : l = k + Words(f, totalSize)
  <2>1. Len(frames) \in Nat
    BY ListLength DEF Held, Accounted
  <2> QED
    BY <1>1, <1>2, <1>9, PopFrame DEF Held, Accounted
<1>11. PICK k \in Nat : l = k + (d + t + n + m)
  BY <1>8, <1>10
<1>12. SavedFrom - Len(Padding(Top.this)) - Top.this = ((l - (n + m)) - d) - t
  BY <1>2, <1>4, <1>5, <1>6, <1>7, <1>9 DEF SavedFrom
<1>13. ((l - (n + m)) - d) - t = k /\ k <= l
  BY <1>11
<1>14. IsList(stack)
  BY DEF Held, Accounted
<1>15. stack' = SubSeq(stack, 1, k)
  BY <1>1, <1>12, <1>13
<1>16. IsList(stack') /\ Len(stack') = k
  BY <1>9, <1>13, <1>14, <1>15, Cut
<1>17. Len(stack) = Len(stack') + Words(f, totalSize)
  BY <1>8, <1>9, <1>11, <1>16
<1>18. Accounted(frames', stack', totalSize)
  BY <1>1, <1>2, <1>16, <1>17, Closes DEF Held
<1> QED
  BY <1>1, <1>18 DEF Held

LEMMA OperandHeld ==
  ASSUME Held,
         \/ Grouping \/ Unary \/ BinaryLeft \/ BinaryRight \/ LogicalLeft \/ LogicalRight
         \/ Assignment \/ CallArg \/ EndCall
  PROVE  Held'
<1>1. ASSUME GiveUp PROVE Held'
  BY <1>1 DEF GiveUp, machine, memory, Held
<1>2. ASSUME NEW k, k \notin CallKinds, NEW n, Returned(k, n), NEW m, Close(m),
             UNCHANGED <<stack, totalSize>>
      PROVE  Held'
  BY <1>2, ClosedHeld DEF Returned, Close
<1>3. /\ "group" \notin CallKinds /\ "neg" \notin CallKinds /\ "add" \notin CallKinds
      /\ "mul" \notin CallKinds /\ "and" \notin CallKinds /\ "assign" \notin CallKinds
  BY DEF CallKinds
<1>4. CASE Grouping
  BY <1>2, <1>3, <1>4 DEF Grouping, machine, memory
<1>5. CASE Unary
  BY <1>1, <1>2, <1>3, <1>5 DEF Unary, memory
<1>6. CASE BinaryRight
  BY <1>2, <1>3, <1>6 DEF BinaryRight, memory
<1>7. CASE LogicalRight
  BY <1>1, <1>2, <1>3, <1>7 DEF LogicalRight, memory
<1>8. CASE Assignment
  BY <1>1, <1>2, <1>3, <1>8 DEF Assignment
<1>9. CASE BinaryLeft /\ ~GiveUp
  <2>1. PICK r, d : /\ frames # <<>> /\ Top.kind \in {"add", "mul"}
                    /\ Resume([Top EXCEPT !.ops = <<last>>, !.left = r, !.dest = d])
                    /\ UNCHANGED <<stack, totalSize>>
    BY <1>9 DEF BinaryLeft, Returned, memory
  <2>2. PICK f : f = Top /\ IsFrame(f)
    BY <2>1, TopFrame
  <2>3. PICK o : o = <<last>> /\ IsList(o)
    BY OneElement
  <2>4. PICK e : e = [f EXCEPT !.ops = o, !.left = r, !.dest = d]
    OBVIOUS
  <2>5. IsNext(e, f) /\ f.kind # "method"
    BY <2>1, <2>2, <2>3, <2>4 DEF IsFrame, IsNext
  <2> QED
    BY <2>1, <2>2, <2>3, <2>4, <2>5, ResumedHeld
<1>10. CASE LogicalLeft
  <2>1. /\ frames # <<>> /\ Top.kind = "and"
        /\ Resume([Top EXCEPT !.ops = <<last>>])
        /\ UNCHANGED <<stack, totalSize>>
    BY <1>10 DEF LogicalLeft, Returned, machine, memory
  <2>2. PICK f : f = Top /\ IsFrame(f)
    BY <2>1, TopFrame
  <2>3. PICK o : o = <<last>> /\ IsList(o)
    BY OneElement
  <2>4. PICK e : e = [f EXCEPT !.ops = o]
    OBVIOUS
  <2>5. IsNext(e, f) /\ f.kind # "method"
    BY <2>1, <2>2, <2>3, <2>4 DEF IsFrame, IsNext
  <2> QED
    BY <2>1, <2>2, <2>3, <2>4, <2>5, ResumedHeld
<1>11. CASE CallArg
  <2>1. /\ frames # <<>> /\ Len(Top.ops) >= Top.this
        /\ Resume([Top EXCEPT !.ops = Append(Top.ops, last)])
        /\ UNCHANGED <<stack, totalSize>>
    BY <1>11 DEF CallArg, Returned, memory
  <2>2. PICK f : f = Top /\ IsFrame(f)
    BY <2>1, TopFrame
  <2>3. PICK o : o = Append(f.ops, last) /\ IsList(o) /\ o # <<>>
    <3>1. PICK o : o = Append(f.ops, last)
      OBVIOUS
    <3>2. IsList(f.ops)
      BY <2>2 DEF IsFrame
    <3>3. IsList(o) /\ o # <<>>
      BY <3>1, <3>2, Appended
    <3> QED
      BY <3>1, <3>3
  <2>4. PICK e : e = [f EXCEPT !.ops = o]
    OBVIOUS
  <2>5. IsNext(e, f) /\ e.ops = o
    BY <2>2, <2>3, <2>4 DEF IsFrame, IsNext
  <2>6. f.kind = "method" => f.ops # <<>>
    BY <2>1, <2>2, Nothing DEF IsFrame
  <2> QED
    BY <2>1, <2>2, <2>3, <2>4, <2>5, <2>6, ResumedHeld
<1> QED
  BY <1>1, <1>4, <1>5, <1>6, <1>7, <1>8, <1>9, <1>10, <1>11, EndCallHeld

LEMMA StatementHeld ==
  ASSUME Held,
         \/ ExprStmt \/ PrintStmt \/ ReturnStmt \/ IfStmt \/ WhileStmt \/ VarStmt
         \/ PutsStmt \/ ArrayStmt \/ DefaultVar
  PROVE  Held'
<1>1. CASE UNCHANGED <<frames, stack, totalSize>>
  BY <1>1 DEF Held
<1>2. CASE ReturnStmt
  <2>1. frames' = <<>> /\ stack' = <<>> /\ totalSize' \in FrameSizes
    BY <1>2 DEF ReturnStmt, Finished, EndStmt
  <2> QED
    BY <2>1, NoFrames DEF Held
<1>3. GiveUp => UNCHANGED <<frames, stack, totalSize>>
  BY DEF GiveUp, machine, memory
<1> QED
  BY <1>1, <1>2, <1>3 DEF ExprStmt, PrintStmt, IfStmt, WhileStmt, VarStmt, PutsStmt, ArrayStmt,
     DefaultVar, EndStmt, machine, memory

LEMMA ObjectHeld ==
  ASSUME Held,
         \/ StrLiteral \/ ThisLeaf \/ OpenMember \/ OpenMethod \/ Receiver \/ OpenNew
         \/ Field \/ SetObject \/ SetField \/ NextOperand \/ GetIndex \/ SetIndex
  PROVE  Held'
<1>1. ASSUME GiveUp PROVE Held'
  BY <1>1 DEF GiveUp, machine, memory, Held
<1>2. ASSUME NEW k, k \notin CallKinds, NEW n, Returned(k, n), NEW m, Close(m),
             UNCHANGED <<stack, totalSize>>
      PROVE  Held'
  BY <1>2, ClosedHeld DEF Returned, Close
<1>3. /\ "field" \notin CallKinds /\ "set" \notin CallKinds /\ "index" \notin CallKinds
      /\ "setindex" \notin CallKinds
  BY DEF CallKinds
<1>4. CASE StrLiteral \/ ThisLeaf
  <2>1. CASE UNCHANGED <<frames, stack, totalSize>>
    BY <2>1 DEF Held
  <2>2. CASE frames' = Append(frames, Frame("str", 0, 0)) /\ UNCHANGED <<stack, totalSize>>
    <3>1. PICK k, f : k = "str" /\ f = Frame(k, 0, 0)
      OBVIOUS
    <3>2. IsFrame(f) /\ f.kind = k
      BY <3>1, NewFrame DEF CallKinds
    <3>3. Words(f, totalSize) = 0
      BY <3>1, <3>2 DEF Words, CallKinds
    <3> QED
      BY <2>2, <3>1, <3>2, <3>3, OpenedPlain
  <2> QED
    BY <1>4, <2>1, <2>2 DEF StrLiteral, ThisLeaf, Leaf, machine, memory
<1>5. CASE OpenMember
  BY <1>3, <1>5, OpenHeld DEF OpenMember
<1>6. CASE Field
  BY <1>1, <1>2, <1>3, <1>6 DEF Field, memory
<1>7. CASE SetField
  BY <1>1, <1>2, <1>3, <1>7 DEF SetField, memory
<1>8. CASE GetIndex
  BY <1>1, <1>2, <1>3, <1>8 DEF GetIndex, Unaddressed, memory
<1>9. CASE SetIndex
  BY <1>1, <1>2, <1>3, <1>9 DEF SetIndex, Unaddressed, memory
<1>10. CASE SetObject
  <2>1. PICK r : /\ frames # <<>> /\ Top.kind = "set"
                 /\ Resume([Top EXCEPT !.ops = <<last>>, !.left = r])
                 /\ UNCHANGED <<stack, totalSize>>
    BY <1>10 DEF SetObject, Returned, machine, memory
  <2>2. PICK f : f = Top /\ IsFrame(f)
    BY <2>1, TopFrame
  <2>3. PICK o : o = <<last>> /\ IsList(o)
    BY OneElement
  <2>4. PICK e : e = [f EXCEPT !.ops = o, !.left = r]
    OBVIOUS
  <2>5. IsNext(e, f) /\ f.kind # "method"
    BY <2>1, <2>2, <2>3, <2>4 DEF IsFrame, IsNext
  <2> QED
    BY <2>1, <2>2, <2>3, <2>4, <2>5, ResumedHeld
<1>11. CASE NextOperand
  <2>1. /\ frames # <<>> /\ Top.kind \in {"index", "setindex"}
        /\ Resume([Top EXCEPT !.ops = Append(Top.ops, last)])
        /\ UNCHANGED <<stack, totalSize>>
    BY <1>11 DEF NextOperand, Returned, machine, memory
  <2>2. PICK f : f = Top /\ IsFrame(f)
    BY <2>1, TopFrame
  <2>3. PICK o : o = Append(f.ops, last) /\ IsList(o)
    <3>1. PICK o : o = Append(f.ops, last)
      OBVIOUS
    <3>2. IsList(f.ops)
      BY <2>2 DEF IsFrame
    <3>3. IsList(o)
      BY <3>1, <3>2, Appended
    <3> QED
      BY <3>1, <3>3
  <2>4. PICK e : e = [f EXCEPT !.ops = o]
    OBVIOUS
  <2>5. IsNext(e, f) /\ f.kind # "method"
    BY <2>1, <2>2, <2>3, <2>4 DEF IsFrame, IsNext
  <2> QED
    BY <2>1, <2>2, <2>3, <2>4, <2>5, ResumedHeld
<1> QED
  BY <1>4, <1>5, <1>6, <1>7, <1>8, <1>9, <1>10, <1>11, OpenMethodHeld, OpenNewHeld, ReceiverHeld

LEMMA StepHeld == ASSUME Held, ObjectsNext PROVE Held'
<1>1. CASE NumLiteral \/ Variable
  BY <1>1 DEF NumLiteral, Variable, Leaf, machine, memory, Held
<1>2. CASE OpenAny
  <2>1. \A k \in BinaryOps \cup {"neg", "group", "assign"} : k \notin CallKinds
    BY DEF BinaryOps, CallKinds
  <2> QED
    BY <1>2, <2>1, OpenHeld, OpenCallHeld DEF OpenAny
<1>3. CASE UnknownRef \/ \E k \in StmtKinds : Begin(k)
  BY <1>3 DEF UnknownRef, GiveUp, Begin, machine, memory, Held
<1> QED
  BY <1>1, <1>2, <1>3, OperandHeld, StatementHeld, ObjectHeld DEF ObjectsNext, Next

-----------------------------------------------------------------------------
(* Where the stack is aligned. *)

LEMMA EvenAligned ==
  ASSUME NEW size \in Nat, size % 16 = 0, NEW n \in Nat, Even(n)
  PROVE  (size + 8 * n) % 16 = 0
<1>1. PICK k \in Nat : n = 2 * k
  BY DEF Even
<1>2. 8 * n = 16 * k
  BY <1>1
<1>3. (size + 16 * k) % 16 = 0
  OBVIOUS
<1> QED
  BY <1>2, <1>3

LEMMA OddAligned ==
  ASSUME NEW size \in Nat, size % 8 = 0, size % 16 # 0, NEW k \in Nat
  PROVE  (size + 8 * (2 * k + 1)) % 16 = 0
<1>1. 8 * (2 * k + 1) = 16 * k + 8
  OBVIOUS
<1>2. (size + (16 * k + 8)) % 16 = 0
  OBVIOUS
<1> QED
  BY <1>1, <1>2

LEMMA NoPushes ==
  ASSUME Held, frames = <<>>
  PROVE  Len(stack) = 0
<1>1. PICK h : Heights(h, frames, Len(stack), totalSize)
  BY DEF Held, Accounted, Pushes
<1>2. Len(frames) = 0
  BY Nothing
<1> QED
  BY <1>1, <1>2 DEF Heights

LEMMA PrintAligned ==
  ASSUME Held, frames = <<>> PROVE Aligned(PrintPushes)
<1>1. totalSize \in Nat /\ totalSize % 8 = 0 /\ totalSize \in FrameSizes
  BY LocalsAreWords DEF Held, Accounted
<1>2. PICK d \in {0, 1} : /\ d = IF totalSize % 16 # 0 THEN 1 ELSE 0
                         /\ IsList(Padding(0)) /\ d = Len(Padding(0))
  BY <1>1, PaddingLength
<1>3. PICK p : p = <<Pushed("rdi"), Pushed("rsi")>> /\ IsList(p) /\ Len(p) = 2
  <2>1. PICK a, b : a = Pushed("rdi") /\ b = Pushed("rsi")
    OBVIOUS
  <2>2. <<a, b>> \in Seq({a, b}) /\ Len(<<a, b>>) = 2
    OBVIOUS
  <2> QED
    BY <2>1, <2>2, ListOf
<1>4. PICK r : r = Padding(0) \o p /\ r = PrintPushes
  BY <1>3 DEF PrintPushes
<1>5. Len(r) = d + 2
  BY <1>2, <1>3, <1>4, ListsJoined
<1>6. (totalSize + 8 * (0 + (d + 2))) % 16 = 0
  <2>1. CASE totalSize % 16 = 0
    <3>1. 0 + (d + 2) = 2 * 1
      BY <1>2, <2>1
    <3> QED
      BY <1>1, <2>1, <3>1, EvenAligned DEF Even
  <2>2. CASE totalSize % 16 # 0
    <3>1. 0 + (d + 2) = 2 * 1 + 1
      BY <1>2, <2>2
    <3> QED
      BY <1>1, <2>2, <3>1, OddAligned
  <2> QED
    BY <2>1, <2>2
<1> QED
  BY <1>4, <1>5, <1>6, NoPushes DEF Aligned

LEMMA PutsAligned ==
  ASSUME Held, frames = <<>>, totalSize % 16 # 0 PROVE Aligned(PutsPushes)
<1>1. totalSize \in Nat /\ totalSize % 8 = 0 /\ totalSize \in FrameSizes
  BY LocalsAreWords DEF Held, Accounted
<1>2. PICK a : a = Padding(0) /\ IsList(a) /\ Len(a) = 1
  BY <1>1, PaddingLength
<1>3. PICK p : p = <<Pushed("rdi")>> /\ IsList(p) /\ Len(p) = 1
  BY OneElement
<1>4. PICK b : b = a \o p
  OBVIOUS
<1>5. IsList(b) /\ Len(b) = 2
  <2>1. IsList(b) /\ Len(b) = Len(a) + Len(p)
    BY <1>2, <1>3, <1>4, ListsJoined
  <2> QED
    BY <1>2, <1>3, <2>1
<1>6. PICK r : r = b \o a /\ r = PutsPushes
  BY <1>2, <1>3, <1>4 DEF PutsPushes
<1>7. Len(r) = 3
  <2>1. Len(r) = Len(b) + Len(a)
    BY <1>2, <1>5, <1>6, ListsJoined
  <2> QED
    BY <1>2, <1>5, <2>1
<1>8. (totalSize + 8 * (2 * 1 + 1)) % 16 = 0
  BY <1>1, OddAligned
<1>9. 0 + 3 = 2 * 1 + 1
  OBVIOUS
<1> QED
  BY <1>6, <1>7, <1>8, <1>9, NoPushes DEF Aligned

LEMMA CallAligned ==
  ASSUME Held, AtCall, Supported PROVE Aligned(<<>>)
<1>1. totalSize \in Nat /\ totalSize % 8 = 0
  BY LocalsAreWords DEF Held, Accounted
<1>2. frames # <<>> /\ Top.kind \in CallKinds /\ Len(Top.ops) = Top.arity
  BY DEF AtCall
<1>3. PICK f : f = Top /\ IsFrame(f) /\ f = frames[Len(frames)] /\ Words(f, totalSize) \in Nat
  BY <1>2, TopFrame
<1>4. f.kind = "method" => f.ops # <<>>
  BY <1>2, <1>3, Nothing DEF IsFrame
<1>5. PICK l \in Nat : l = Len(frames) - 1 /\ Len(frames) = l + 1
  <2>1. Len(frames) \in Nat \ {0}
    BY <1>2, ListLength DEF Held, Accounted
  <2>2. Len(frames) - 1 \in Nat /\ Len(frames) = (Len(frames) - 1) + 1
    BY <2>1
  <2> QED
    BY <2>2
<1>6. PICK h : Heights(h, frames, Len(stack), totalSize)
  BY DEF Held, Accounted, Pushes
<1>7. \A i \in 1..l : IsFrame(frames[i])
  BY <1>5 DEF Held, Accounted
<1>8. PICK a \in Nat, b \in Nat : a = h[l] /\ b = Words(f, totalSize) /\ Len(stack) = a + b
  <2>1. l + 1 \in 1..Len(frames) /\ (l + 1) - 1 = l /\ l \in 0..Len(frames)
    BY <1>5
  <2> QED
    BY <1>3, <1>5, <1>6, <2>1 DEF Heights
<1>9. Len(frames) \in Nat /\ l \in 0..Len(frames)
  BY <1>5
<1>10. CASE Around = {}
  <2>1. \A i \in 1..l : Words(frames[i], totalSize) = 0
    BY <1>1, <1>5, <1>7, <1>10, WordsOf DEF Around
  <2>2. a = 0
    BY <1>6, <1>8, <1>9, <2>1, HeightZero
  <2>3. f.kind = "call" \/ totalSize % 16 # 0
    BY <1>3, <1>10 DEF Supported
  <2>4. CASE totalSize % 16 = 0
    <3>1. Even(b)
      BY <1>1, <1>3, <1>8, <2>3, <2>4, WordsOf
    <3>2. (totalSize + 8 * b) % 16 = 0
      BY <1>1, <2>4, <3>1, EvenAligned
    <3> QED
      BY <1>8, <2>2, <3>2, Nothing DEF Aligned
  <2>5. CASE totalSize % 16 # 0
    <3>1. PICK k \in Nat : b = 2 * k + 1
      BY <1>1, <1>2, <1>3, <1>4, <1>8, <2>5, WordsOf DEF CallKinds
    <3>2. (totalSize + 8 * b) % 16 = 0
      BY <1>1, <2>5, <3>1, OddAligned
    <3> QED
      BY <1>8, <2>2, <3>2, Nothing DEF Aligned
  <2> QED
    BY <2>4, <2>5
<1>11. CASE Around # {}
  <2>1. totalSize % 16 = 0 /\ f.kind = "call" /\ \A i \in Around : frames[i].kind = "call"
    BY <1>3, <1>11 DEF Supported
  <2>2. ASSUME NEW i \in 1..l
        PROVE  Words(frames[i], totalSize) \in Nat /\ Even(Words(frames[i], totalSize))
    <3>1. CASE frames[i].kind \in CallKinds
      BY <1>1, <1>5, <1>7, <2>1, <3>1, WordsOf DEF Around
    <3>2. CASE frames[i].kind \notin CallKinds
      <4>1. Even(0)
        BY DEF Even
      <4> QED
        BY <1>1, <1>7, <3>2, <4>1, WordsOf
    <3> QED
      BY <3>1, <3>2
  <2>3. Even(a)
    BY <1>6, <1>8, <1>9, <2>2, HeightEven
  <2>4. Even(b)
    BY <1>1, <1>3, <1>8, <2>1, WordsOf
  <2>5. Even(a + b) /\ a + b \in Nat
    BY <2>3, <2>4, EvenSum
  <2>6. (totalSize + 8 * (a + b)) % 16 = 0
    BY <1>1, <2>1, <2>5, EvenAligned
  <2>7. Len(stack) + Len(<<>>) = a + b
    BY <1>8, Nothing
  <2> QED
    BY <2>6, <2>7 DEF Aligned
<1> QED
  BY <1>10, <1>11

(* Whatever the program, the locals of its functions and the number of arguments,
   the stack is aligned at the calls CallsAligned names (codegen.cc:150-186,
   611-626). *)
THEOREM CallsStayAligned == ObjectsSpec => []CallsAligned
<1>1. Init => Held
  BY NoFrames DEF Init, Held
<1>2. Held /\ [ObjectsNext]_vars => Held'
  <2>1. CASE UNCHANGED vars
    BY <2>1 DEF vars, control, machine, memory, Held
  <2> QED
    BY <2>1, StepHeld
<1>3. Held => CallsAligned
  BY CallAligned, PrintAligned, PutsAligned DEF CallsAligned
<1> QED
  BY <1>1, <1>2, <1>3, PTL DEF ObjectsSpec

-----------------------------------------------------------------------------
(* Where values are. *)

\* Operators with a leaf on one side, functions of an argument, fields that are read.
\* What stands in parentheses has a register. No strings are printed: puts may change
\* the second parameter.
Simple ==
  /\ Kinds \subseteq {"lit", "local", "param", "this", "add", "mul", "neg", "group", "call",
                      "field", "assign"}
  /\ GroupKinds \subseteq {"add", "mul", "neg", "group", "field"}
  /\ "puts" \notin StmtKinds
  /\ OneSided /\ MaxArgs <= 1
  /\ This \in {0, 1} /\ Params \in Nat /\ This + Params <= 2

\* No register of the tracker's.
Plain(v) == v[1] = "%" => v[2] \notin GP

\* The left operand is in dest while the right one is visited.
Pending(f) == f.kind \in {"add", "mul"} /\ f.ops # <<>>

\* No visit in progress has r for its left operand.
Free(fs, r) == \A i \in 1..Len(fs) : Pending(fs[i]) => fs[i].dest # r

\* An expression of the n met whose visit is not in progress.
Seen(e, n, fs) == e \in 1..n /\ \A i \in 1..Len(fs) : fs[i].node # e

Tracks(t, n, fs) ==
  /\ IsTracker(t) /\ t.unused \subseteq GP /\ DOMAIN t.owner \subseteq GP
  /\ \A e \in DOMAIN t.register : t.register[e] \in GP /\ Seen(e, n, fs)
  /\ \A r \in DOMAIN t.owner : Seen(t.owner[r], n, fs)

Numbered(fs, n) ==
  \A j \in 1..Len(fs) :
    /\ fs[j].node \in 1..n
    /\ Pending(fs[j]) => fs[j].ops[1] \in 1..n
    /\ \A i \in 1..Len(fs) : i < j => /\ fs[i].node < fs[j].node
                                      /\ Pending(fs[i]) => fs[i].ops[1] < fs[j].node

\* A register with a left operand is no other visit's, and not unused unless the
\* right operand is a leaf.
Kept(fs, unused, mean, rg) ==
  \A j \in 1..Len(fs) : Pending(fs[j]) =>
    /\ fs[j].ops[1] \in DOMAIN mean
    /\ fs[j].dest \in GP /\ rg[fs[j].dest] = mean[fs[j].ops[1]]
    /\ \A i \in 1..Len(fs) : i < j /\ Pending(fs[i]) => fs[i].dest # fs[j].dest
    /\ Plain(fs[j].left) => fs[j].dest \notin unused
    /\ ~Plain(fs[j].left) =>
         /\ j = Len(fs)
         /\ \A i \in 1..Len(fs) : i < j /\ Pending(fs[i]) => fs[i].dest # fs[j].left[2]

Shaped(fs) ==
  \A j \in 1..Len(fs) :
    /\ fs[j].kind \in {"add", "mul", "neg", "group", "call", "field", "assign"}
    /\ fs[j].kind = "call" => /\ fs[j].left = Local /\ fs[j].arity \in {0, 1}
                              /\ j < Len(fs) => fs[j].ops = <<>>
    /\ fs[j].kind = "group" /\ j < Len(fs) => fs[j + 1].kind \in GroupKinds

\* An argument is where the callee looks for it.
Passing == frames # <<>> /\ Top.kind = "call" /\ Top.ops # <<>>

OnTheRight == frames # <<>> /\ Pending(Top) /\ ~Plain(Top.left)

\* What has been pushed for the call of frame i is found at h[i - 1].
Saved(h, fs, st, size) ==
  /\ Heights(h, fs, Len(st), size)
  /\ \A i, j \in 0..Len(fs) : i <= j => h[i] <= h[j]
  /\ \A j \in 1..Len(fs) : fs[j].kind = "call" /\ fs[j].arity = 1 =>
       st[h[j - 1] + (IF size % 16 # 0 THEN 1 ELSE 0) + 1].v = -1

FoundWhere ==
  /\ last \in DOMAIN tracker.ref /\ Content(Ref) = meaning[last] /\ last \in DOMAIN meaning
  /\ last \in DOMAIN tracker.register => Ref = <<"%", tracker.register[last]>>
  /\ ~Plain(Ref) => Free(frames, Ref[2])
  /\ last = nodes \/ OnTheRight => Plain(Ref)
  /\ frames # <<>> /\ Top.kind = "group" => ~Plain(Ref)

PInv ==
  /\ nodes \in Nat /\ mem = env
  /\ DOMAIN reg = GP \cup {"rax", "rdi", "rsi"} /\ reg["rsi"] = -2
  /\ Passing => ctl \notin {"back", "stmt"} /\ reg["rdi"] = meaning[Top.ops[1]]
  /\ ~Passing => reg["rdi"] = -1
  /\ ctl = "stmt" => frames = <<>>
  /\ Shaped(frames) /\ Numbered(frames, nodes)
  /\ Tracks(tracker, nodes, frames) /\ Kept(frames, tracker.unused, meaning, reg)
  /\ \E h : Saved(h, frames, stack, totalSize)
  /\ ctl = "emit" /\ OnTheRight => nodes > Top.node + 1
  /\ ctl = "back" => /\ FoundWhere
                     /\ last \in 1..nodes /\ \A i \in 1..Len(frames) : frames[i].node < last

-----------------------------------------------------------------------------
(* The registers. *)

LEMMA ArgumentAt ==
  ASSUME NEW r
  PROVE  SelectInSeq(ArgRegs, LAMBDA a : a = r)
           = IF r = "rdi" THEN 1 ELSE IF r = "rsi" THEN 2 ELSE 0
<1>1. PICK s : s = ArgRegs /\ Len(s) = 2 /\ s[1] = "rdi" /\ s[2] = "rsi"
  <2>1. Len(ArgRegs) = 2 /\ ArgRegs[1] = "rdi" /\ ArgRegs[2] = "rsi"
    BY DEF ArgRegs
  <2> QED
    BY <2>1
<1> DEFINE I == {i \in 1..Len(s) : s[i] = r}
<1>2. SelectInSeq(ArgRegs, LAMBDA a : a = r) = IF I # {} THEN Min(I) ELSE 0
  BY <1>1 DEF SelectInSeq
<1>3. I \in SUBSET Nat /\ (\A i \in I : i \in {1, 2} /\ s[i] = r)
      /\ ((r = "rdi" \/ r = "rsi") => I # {})
  <2>1. 1 \in 1..Len(s) /\ 2 \in 1..Len(s) /\ \A i \in 1..Len(s) : i = 1 \/ i = 2
    BY <1>1
  <2> QED
    BY <1>1, <2>1
<1> HIDE DEF I
<1>4. I # {} => Min(I) \in I
  BY <1>3, MinOfNaturals
<1>5. "rdi" # "rsi"
  OBVIOUS
<1> QED
  BY <1>1, <1>2, <1>3, <1>4, <1>5

LEMMA RegisterNames ==
  /\ Range(ArgRegs) = {"rdi", "rsi"} /\ ArgRegs[1] = "rdi" /\ ArgRegs[2] = "rsi"
  /\ "rax" \notin GP /\ "rdi" \notin GP /\ "rsi" \notin GP
<1>1. PICK s : s = ArgRegs /\ DOMAIN s = {1, 2} /\ s[1] = "rdi" /\ s[2] = "rsi"
  <2>1. DOMAIN ArgRegs = 1..2 /\ ArgRegs[1] = "rdi" /\ ArgRegs[2] = "rsi"
    BY DEF ArgRegs
  <2> QED
    BY <2>1
<1>2. Range(s) = {"rdi", "rsi"}
  BY <1>1 DEF Range
<1>3. Range(ArgRegs) = {"rdi", "rsi"}
  BY <1>1, <1>2
<1> QED
  BY <1>1, <1>3, RegistersApart

LEMMA CallerHolds ==
  /\ DOMAIN CallerRegs = GP \cup {"rax", "rdi", "rsi"}
  /\ CallerRegs["rdi"] = -1 /\ CallerRegs["rsi"] = -2
<1>1. /\ SelectInSeq(ArgRegs, LAMBDA a : a = "rdi") = 1
      /\ SelectInSeq(ArgRegs, LAMBDA a : a = "rsi") = 2
  BY ArgumentAt
<1>2. DOMAIN CallerRegs = GP \cup {"rax", "rdi", "rsi"}
  BY RegisterNames DEF CallerRegs
<1>3. /\ CallerRegs["rdi"] = 0 - 1
      /\ CallerRegs["rsi"] = 0 - 2
  BY <1>1, RegisterNames DEF CallerRegs
<1> QED
  BY <1>2, <1>3

-----------------------------------------------------------------------------
(* What the tracker has seen. *)

\* An answer of makeAssignable(e) or acquireRegister(e).
Answers(t, e, c) ==
  \/ e \in DOMAIN t.register /\ c.t = t /\ c.r = t.register[e]
  \/ e \notin DOMAIN t.register /\ c.r \in t.unused /\ c.t = Take(t, e, c.r)

LEMMA Answered ==
  ASSUME NEW t, NEW n, NEW fs, Tracks(t, n, fs), NEW e, NEW c,
         c \in MakeAssignable(t, e) \/ c \in AcquireRegister(t, e)
  PROVE  Answers(t, e, c)
<1>1. e \in DOMAIN t.register => t.register[e] # "rax"
  BY RegisterNames DEF Tracks
<1> QED
  BY <1>1 DEF MakeAssignable, AcquireRegister, Answers

LEMMA TracksAssign ==
  ASSUME NEW t, NEW n, NEW fs, Tracks(t, n, fs), NEW e, NEW v, NEW u, u = Assign(t, e, v)
  PROVE  /\ Tracks(u, n, fs) /\ u.unused = t.unused /\ u.register = t.register
         /\ u.owner = t.owner /\ e \in DOMAIN u.ref /\ u.ref[e] = v
<1>1. /\ IsTracker(u) /\ u.unused = t.unused /\ u.register = t.register /\ u.owner = t.owner
      /\ u.ref = Put(t.ref, e, v)
  BY DEF Tracks, IsTracker, Assign
<1>2. e \in DOMAIN u.ref /\ u.ref[e] = v
  BY <1>1 DEF Put
<1> QED
  BY <1>1, <1>2 DEF Tracks

LEMMA TracksOverwrite ==
  ASSUME NEW t, NEW n, NEW fs, Tracks(t, n, fs), NEW e, Seen(e, n, fs), NEW r \in GP,
         NEW u, u = RegOverwrite(t, e, r)
  PROVE  /\ Tracks(u, n, fs) /\ u.unused = t.unused
         /\ e \in DOMAIN u.ref /\ u.ref[e] = <<"%", r>>
         /\ e \in DOMAIN u.register /\ u.register[e] = r
         /\ r \in DOMAIN u.owner /\ u.owner[r] = e
         /\ \A x \in DOMAIN u.owner : x = r \/ (x \in DOMAIN t.owner /\ u.owner[x] = t.owner[x])
<1>1. /\ IsTracker(u) /\ u.unused = t.unused
      /\ u.ref = Put(t.ref, e, <<"%", r>>) /\ u.register = Put(t.register, e, r)
      /\ u.owner = Put(t.owner, r, e)
  BY DEF IsTracker, RegOverwrite
<1>2. /\ e \in DOMAIN u.ref /\ u.ref[e] = <<"%", r>>
      /\ e \in DOMAIN u.register /\ u.register[e] = r
      /\ r \in DOMAIN u.owner /\ u.owner[r] = e
  BY <1>1 DEF Put
<1>3. /\ \A x \in DOMAIN u.register :
           x = e \/ (x \in DOMAIN t.register /\ u.register[x] = t.register[x])
      /\ \A x \in DOMAIN u.owner : x = r \/ (x \in DOMAIN t.owner /\ u.owner[x] = t.owner[x])
  BY <1>1 DEF Put
<1>4. DOMAIN u.owner \subseteq GP
  BY <1>3 DEF Tracks
<1> QED
  BY <1>1, <1>2, <1>3, <1>4 DEF Tracks

LEMMA TracksTake ==
  ASSUME NEW t, NEW n, NEW fs, Tracks(t, n, fs), NEW e, Seen(e, n, fs), NEW r \in t.unused,
         NEW u, u = Take(t, e, r)
  PROVE  /\ Tracks(u, n, fs) /\ u.unused = t.unused \ {r} /\ r \in GP
         /\ e \in DOMAIN u.register /\ u.register[e] = r
         /\ r \in DOMAIN u.owner /\ u.owner[r] = e
<1>1. /\ IsTracker(u) /\ u.unused = t.unused \ {r} /\ r \in GP
      /\ u.register = Put(t.register, e, r) /\ u.owner = Put(t.owner, r, e)
  BY DEF IsTracker, Take, Tracks
<1>2. /\ e \in DOMAIN u.register /\ u.register[e] = r
      /\ r \in DOMAIN u.owner /\ u.owner[r] = e
  BY <1>1 DEF Put
<1>3. /\ \A x \in DOMAIN u.register :
           x = e \/ (x \in DOMAIN t.register /\ u.register[x] = t.register[x])
      /\ \A x \in DOMAIN u.owner : x = r \/ (x \in DOMAIN t.owner /\ u.owner[x] = t.owner[x])
  BY <1>1 DEF Put
<1>4. DOMAIN u.owner \subseteq GP
  BY <1>1, <1>3 DEF Tracks
<1> QED
  BY <1>1, <1>2, <1>3, <1>4 DEF Tracks

\* Only a register that has an owner is freed, and only its owner forgotten.
LEMMA TracksFree ==
  ASSUME NEW t, NEW n, NEW fs, Tracks(t, n, fs), NEW v, NEW u, u = RegFree(t, v)
  PROVE  /\ Tracks(u, n, fs)
         /\ u.unused = IF v[1] = "%" /\ v[2] \in DOMAIN t.owner THEN t.unused \cup {v[2]}
                       ELSE t.unused
         /\ Plain(v) => u = t
         /\ DOMAIN u.register \subseteq DOMAIN t.register
<1>1. CASE v[1] = "%" /\ v[2] \in DOMAIN t.owner
  <2>1. /\ IsTracker(u) /\ u.unused = t.unused \cup {v[2]}
        /\ u.ref = Without(t.ref, t.owner[v[2]]) /\ u.owner = Without(t.owner, v[2])
        /\ u.register = Without(t.register, t.owner[v[2]])
    BY <1>1 DEF IsTracker, RegFree
  <2>2. v[2] \in GP
    BY <1>1 DEF Tracks
  <2>3. /\ DOMAIN u.register \subseteq DOMAIN t.register
        /\ \A e \in DOMAIN u.register : u.register[e] = t.register[e]
        /\ \A e \in DOMAIN t.register : e # t.owner[v[2]] => e \in DOMAIN u.register
    BY <2>1 DEF Without, Restrict
  <2>4. /\ DOMAIN u.owner \subseteq DOMAIN t.owner
        /\ \A e \in DOMAIN u.owner : u.owner[e] = t.owner[e]
        /\ \A e \in DOMAIN t.owner : e # v[2] => e \in DOMAIN u.owner
    BY <2>1 DEF Without, Restrict
  <2>5. Tracks(u, n, fs)
    BY <2>1, <2>2, <2>3, <2>4 DEF Tracks
  <2> QED
    BY <1>1, <2>1, <2>2, <2>3, <2>5 DEF Plain
<1>2. CASE ~(v[1] = "%" /\ v[2] \in DOMAIN t.owner)
  <2>1. u = t
    BY <1>2 DEF RegFree
  <2> QED
    BY <1>2, <2>1
<1> QED
  BY <1>1, <1>2

\* The others keep what they have.
LEMMA OthersStay ==
  ASSUME NEW t, NEW n, NEW fs, Tracks(t, n, fs), NEW v, NEW u, u = RegFree(t, v)
  PROVE  /\ \A r \in DOMAIN t.owner :
              (v[1] = "%" => v[2] # r) => r \in DOMAIN u.owner /\ u.owner[r] = t.owner[r]
         /\ \A e \in DOMAIN t.ref :
              (v[1] = "%" /\ v[2] \in DOMAIN t.owner => e # t.owner[v[2]]) =>
                e \in DOMAIN u.ref /\ u.ref[e] = t.ref[e]
         /\ \A e \in DOMAIN t.register :
              (v[1] = "%" /\ v[2] \in DOMAIN t.owner => e # t.owner[v[2]]) =>
                e \in DOMAIN u.register /\ u.register[e] = t.register[e]
<1>1. CASE v[1] = "%" /\ v[2] \in DOMAIN t.owner
  <2>1. /\ IsTracker(u) /\ u.unused = t.unused \cup {v[2]}
        /\ u.ref = Without(t.ref, t.owner[v[2]]) /\ u.owner = Without(t.owner, v[2])
        /\ u.register = Without(t.register, t.owner[v[2]])
    BY <1>1 DEF IsTracker, RegFree
  <2>2. /\ DOMAIN u.register \subseteq DOMAIN t.register
        /\ \A e \in DOMAIN u.register : u.register[e] = t.register[e]
        /\ \A e \in DOMAIN t.register : e # t.owner[v[2]] => e \in DOMAIN u.register
    BY <2>1 DEF Without, Restrict
  <2>3. /\ DOMAIN u.owner \subseteq DOMAIN t.owner
        /\ \A e \in DOMAIN u.owner : u.owner[e] = t.owner[e]
        /\ \A e \in DOMAIN t.owner : e # v[2] => e \in DOMAIN u.owner
    BY <2>1 DEF Without, Restrict
  <2>4. /\ \A e \in DOMAIN u.ref : u.ref[e] = t.ref[e]
        /\ \A e \in DOMAIN t.ref : e # t.owner[v[2]] => e \in DOMAIN u.ref
    BY <2>1 DEF Without, Restrict
  <2>5. \A r \in DOMAIN t.owner :
         (v[1] = "%" => v[2] # r) => r \in DOMAIN u.owner /\ u.owner[r] = t.owner[r]
    BY <1>1, <2>3
  <2> QED
    BY <1>1, <2>2, <2>4, <2>5
<1>2. CASE ~(v[1] = "%" /\ v[2] \in DOMAIN t.owner)
  <2>1. u = t
    BY <1>2 DEF RegFree
  <2> QED
    BY <1>2, <2>1
<1> QED
  BY <1>1, <1>2

LEMMA TracksReset ==
  ASSUME NEW t, NEW n, NEW fs, Tracks(t, n, fs), NEW u, u = ResetRegisters(t)
  PROVE  Tracks(u, n, fs)
<1>1. /\ IsTracker(u) /\ u.unused = t.unused \cup DOMAIN t.owner /\ u.owner = <<>>
      /\ DOMAIN u.register \subseteq DOMAIN t.register
      /\ \A e \in DOMAIN u.register : u.register[e] = t.register[e]
  BY DEF IsTracker, ResetRegisters, Restrict
<1>2. DOMAIN u.owner = {}
  BY <1>1
<1> QED
  BY <1>1, <1>2 DEF Tracks

-----------------------------------------------------------------------------
(* What the steps do to the visits in progress. *)

\* An expression is met.
LEMMA OneMore ==
  ASSUME NEW fs, NEW n \in Nat, Numbered(fs, n), NEW t, Tracks(t, n, fs)
  PROVE  Numbered(fs, n + 1) /\ Tracks(t, n + 1, fs) /\ \A e \in 1..n : e \in 1..n + 1
<1>1. \A e \in 1..n : e \in 1..n + 1
  OBVIOUS
<1>2. \A e : Seen(e, n, fs) => Seen(e, n + 1, fs)
  BY <1>1 DEF Seen
<1>3. Numbered(fs, n + 1)
  BY <1>1 DEF Numbered
<1>4. Tracks(t, n + 1, fs)
  BY <1>2 DEF Tracks
<1> QED
  BY <1>1, <1>3, <1>4

\* Registers, meanings and unused registers may change where no operand is pending.
LEMMA KeptStays ==
  ASSUME NEW fs, NEW u, NEW mean, NEW rg, Kept(fs, u, mean, rg), NEW w, NEW me, NEW rh,
         DOMAIN mean \subseteq DOMAIN me,
         \A i \in 1..Len(fs) : Pending(fs[i]) =>
           /\ rh[fs[i].dest] = rg[fs[i].dest]
           /\ me[fs[i].ops[1]] = mean[fs[i].ops[1]]
           /\ fs[i].dest \in w => fs[i].dest \in u
  PROVE  Kept(fs, w, me, rh)
BY DEF Kept

LEMMA PutElsewhere ==
  ASSUME NEW f, NEW x, NEW v, NEW y, y # x, y \in DOMAIN f
  PROVE  Put(f, x, v)[y] = f[y]
BY DEF Put

LEMMA PutAt ==
  ASSUME NEW f, NEW x, NEW v, NEW g, g = Put(f, x, v)
  PROVE  x \in DOMAIN g /\ g[x] = v /\ DOMAIN f \subseteq DOMAIN g
BY DEF Put

\* The visit of an expression begins.
LEMMA Pushes1 ==
  ASSUME NEW fs, IsList(fs), Shaped(fs), NEW n \in Nat, Numbered(fs, n), NEW t, Tracks(t, n, fs),
         NEW u, NEW mean, NEW rg, Kept(fs, u, mean, rg),
         NEW f, f.node = n + 1, f.ops = <<>>,
         f.kind \in {"add", "mul", "neg", "group", "call", "field", "assign"},
         f.kind = "call" => f.left = Local /\ f.arity \in {0, 1},
         fs # <<>> => /\ fs[Len(fs)].kind = "call" => fs[Len(fs)].ops = <<>>
                      /\ fs[Len(fs)].kind = "group" => f.kind \in GroupKinds
                      /\ Pending(fs[Len(fs)]) => Plain(fs[Len(fs)].left),
         NEW gs, gs = Append(fs, f)
  PROVE  Shaped(gs) /\ Numbered(gs, n + 1) /\ Tracks(t, n + 1, gs) /\ Kept(gs, u, mean, rg)
<1>1. PICK l \in Nat : /\ l = Len(fs) /\ Len(gs) = l + 1 /\ gs[l + 1] = f
                       /\ \A i \in 1..l : gs[i] = fs[i]
  BY Appended, ListLength
<1>2. ~Pending(f)
  BY DEF Pending
<1>3. /\ l # 0 => fs # <<>> /\ l \in 1..l
      /\ \A j \in 1..l + 1 : j \in 1..l \/ j = l + 1
      /\ \A j \in 1..l : j < l + 1 /\ (j < l \/ j = l) /\ l # 0
  BY <1>1, ListLength
<1>4. Shaped(gs)
  <2> SUFFICES ASSUME NEW j \in 1..l + 1
               PROVE  /\ gs[j].kind \in {"add", "mul", "neg", "group", "call", "field", "assign"}
                      /\ gs[j].kind = "call" => /\ gs[j].left = Local /\ gs[j].arity \in {0, 1}
                                                /\ j < l + 1 => gs[j].ops = <<>>
                      /\ gs[j].kind = "group" /\ j < l + 1 => gs[j + 1].kind \in GroupKinds
    BY <1>1 DEF Shaped
  <2>1. CASE j = l + 1
    BY <1>1, <2>1
  <2>2. CASE j \in 1..l /\ j < l
    <3>1. j + 1 \in 1..l /\ gs[j] = fs[j] /\ gs[j + 1] = fs[j + 1]
      BY <1>1, <2>2
    <3> QED
      BY <1>1, <2>2, <3>1 DEF Shaped
  <2>3. CASE j = l /\ l # 0
    <3>1. gs[j] = fs[j] /\ gs[j + 1] = f /\ fs # <<>> /\ j \in 1..Len(fs)
      BY <1>1, <1>3, <2>3
    <3>2. /\ fs[j].kind = "call" => fs[j].ops = <<>>
          /\ fs[j].kind = "group" => f.kind \in GroupKinds
      BY <1>1, <2>3, <3>1
    <3> QED
      BY <3>1, <3>2 DEF Shaped
  <2> QED
    BY <1>3, <2>1, <2>2, <2>3
<1>5. Numbered(fs, n + 1) /\ Tracks(t, n + 1, fs)
  BY OneMore
<1>6. Numbered(gs, n + 1)
  <2> SUFFICES ASSUME NEW j \in 1..l + 1
               PROVE  /\ gs[j].node \in 1..n + 1
                      /\ Pending(gs[j]) => gs[j].ops[1] \in 1..n + 1
                      /\ \A i \in 1..l + 1 : i < j =>
                           /\ gs[i].node < gs[j].node
                           /\ Pending(gs[i]) => gs[i].ops[1] < gs[j].node
    BY <1>1 DEF Numbered
  <2>1. CASE j = l + 1
    <3>1. \A i \in 1..l : /\ fs[i].node \in 1..n
                          /\ Pending(fs[i]) => fs[i].ops[1] \in 1..n
      BY <1>1 DEF Numbered
    <3>2. \A x \in 1..n : x < n + 1
      OBVIOUS
    <3>3. \A i \in 1..l + 1 : i < j => i \in 1..l
      BY <1>1, <2>1
    <3>4. n + 1 \in 1..n + 1
      OBVIOUS
    <3> QED
      BY <1>1, <1>2, <2>1, <3>1, <3>2, <3>3, <3>4
  <2>2. CASE j \in 1..l
    <3>1. \A i \in 1..l + 1 : i < j => i \in 1..l
      BY <1>1, <2>2
    <3> QED
      BY <1>1, <1>5, <2>2, <3>1 DEF Numbered
  <2> QED
    BY <1>3, <2>1, <2>2
<1>7. \A e : Seen(e, n, fs) => Seen(e, n + 1, gs)
  <2> SUFFICES ASSUME NEW e, Seen(e, n, fs)
               PROVE  e \in 1..n + 1 /\ \A i \in 1..l + 1 : gs[i].node # e
    BY <1>1 DEF Seen
  <2>1. e \in 1..n + 1 /\ e # n + 1 /\ \A i \in 1..l : fs[i].node # e
    BY <1>1 DEF Seen
  <2> QED
    BY <1>1, <1>3, <2>1
<1>8. Tracks(t, n + 1, gs)
  BY <1>7 DEF Tracks
<1>9. Kept(gs, u, mean, rg)
  <2> SUFFICES ASSUME NEW j \in 1..l + 1, Pending(gs[j])
               PROVE  /\ gs[j].ops[1] \in DOMAIN mean
                      /\ gs[j].dest \in GP /\ rg[gs[j].dest] = mean[gs[j].ops[1]]
                      /\ \A i \in 1..l + 1 : i < j /\ Pending(gs[i]) => gs[i].dest # gs[j].dest
                      /\ Plain(gs[j].left) => gs[j].dest \notin u
                      /\ Plain(gs[j].left)
    BY <1>1 DEF Kept
  <2>1. j \in 1..l /\ gs[j] = fs[j]
    BY <1>1, <1>2, <1>3
  <2>2. \A i \in 1..l + 1 : i < j => i \in 1..l
    BY <1>1, <2>1
  <2>3. Plain(fs[j].left)
    <3>1. CASE j = l
      BY <1>1, <1>3, <2>1, <3>1
    <3>2. CASE j # l
      BY <1>1, <2>1, <3>2 DEF Kept
    <3> QED
      BY <3>1, <3>2
  <2> QED
    BY <1>1, <2>1, <2>2, <2>3 DEF Kept
<1> QED
  BY <1>4, <1>6, <1>8, <1>9

\* It ends.
LEMMA Pops1 ==
  ASSUME NEW fs, IsList(fs), fs # <<>>, Shaped(fs), NEW n \in Nat, Numbered(fs, n),
         NEW t, Tracks(t, n, fs), NEW u, NEW mean, NEW rg, Kept(fs, u, mean, rg),
         NEW f, f = fs[Len(fs)], NEW gs, gs = Front(fs)
  PROVE  /\ Shaped(gs) /\ Numbered(gs, n) /\ Tracks(t, n, gs) /\ Kept(gs, u, mean, rg)
         /\ Seen(f.node, n, gs)
         /\ \A i \in 1..Len(gs) : gs[i].node < f.node
         /\ \A i \in 1..Len(gs) : Pending(gs[i]) =>
              /\ gs[i].ops[1] < f.node /\ Plain(gs[i].left)
              /\ Pending(f) => gs[i].dest # f.dest
              /\ Pending(f) /\ ~Plain(f.left) => gs[i].dest # f.left[2]
         /\ \A r : Free(fs, r) => Free(gs, r)
         /\ gs # <<>> => /\ gs[Len(gs)].kind = "call" => gs[Len(gs)].ops = <<>>
                         /\ gs[Len(gs)].kind = "group" => f.kind \in GroupKinds
                         /\ Len(gs) \in 1..Len(gs)
<1>1. PICK l \in Nat : /\ l = Len(gs) /\ Len(fs) = l + 1 /\ f = fs[l + 1] /\ IsList(gs)
                       /\ \A i \in 1..l : gs[i] = fs[i]
  BY Fronted, ListLength
<1>2. /\ \A i \in 1..l : i \in 1..l + 1 /\ i < l + 1
      /\ l + 1 \in 1..l + 1
      /\ gs # <<>> => l \in 1..l
      /\ \A j \in 1..l : j < l => j + 1 \in 1..l
  BY <1>1, ListLength
<1>3. Shaped(gs)
  <2> SUFFICES ASSUME NEW j \in 1..l
               PROVE  /\ gs[j].kind \in {"add", "mul", "neg", "group", "call", "field", "assign"}
                      /\ gs[j].kind = "call" => /\ gs[j].left = Local /\ gs[j].arity \in {0, 1}
                                                /\ j < l => gs[j].ops = <<>>
                      /\ gs[j].kind = "group" /\ j < l => gs[j + 1].kind \in GroupKinds
    BY <1>1 DEF Shaped
  <2> QED
    BY <1>1, <1>2 DEF Shaped
<1>4. Numbered(gs, n)
  BY <1>1, <1>2 DEF Numbered
<1>5. /\ f.node \in 1..n
      /\ \A i \in 1..l : /\ gs[i].node < f.node /\ gs[i].node \in 1..n
                         /\ Pending(gs[i]) => gs[i].ops[1] < f.node
  BY <1>1, <1>2 DEF Numbered
<1>6. Seen(f.node, n, gs)
  <2>1. \A i \in 1..l : gs[i].node # f.node
    BY <1>5
  <2> QED
    BY <1>1, <1>5, <2>1 DEF Seen
<1>7. \A e : Seen(e, n, fs) => Seen(e, n, gs)
  BY <1>1, <1>2 DEF Seen
<1>8. Tracks(t, n, gs)
  BY <1>7 DEF Tracks
<1>9. \A i \in 1..l : Pending(gs[i]) =>
        /\ gs[i].ops[1] \in DOMAIN mean
        /\ gs[i].dest \in GP /\ rg[gs[i].dest] = mean[gs[i].ops[1]]
        /\ \A j \in 1..l : j < i /\ Pending(gs[j]) => gs[j].dest # gs[i].dest
        /\ Plain(gs[i].left) /\ gs[i].dest \notin u
        /\ Pending(f) => gs[i].dest # f.dest
        /\ Pending(f) /\ ~Plain(f.left) => gs[i].dest # f.left[2]
  <2> SUFFICES ASSUME NEW i \in 1..l, Pending(gs[i])
               PROVE  /\ gs[i].ops[1] \in DOMAIN mean
                      /\ gs[i].dest \in GP /\ rg[gs[i].dest] = mean[gs[i].ops[1]]
                      /\ \A j \in 1..l : j < i /\ Pending(gs[j]) => gs[j].dest # gs[i].dest
                      /\ Plain(gs[i].left) /\ gs[i].dest \notin u
                      /\ Pending(f) => gs[i].dest # f.dest
                      /\ Pending(f) /\ ~Plain(f.left) => gs[i].dest # f.left[2]
    OBVIOUS
  <2>1. i # l + 1 /\ i \in 1..l + 1 /\ fs[i] = gs[i] /\ Pending(fs[i]) /\ i < l + 1
    BY <1>1, <1>2
  <2>2. Plain(gs[i].left) /\ gs[i].dest \notin u
    BY <1>1, <2>1 DEF Kept
  <2>3. /\ gs[i].ops[1] \in DOMAIN mean
        /\ gs[i].dest \in GP /\ rg[gs[i].dest] = mean[gs[i].ops[1]]
        /\ \A j \in 1..l : j < i /\ Pending(gs[j]) => gs[j].dest # gs[i].dest
    BY <1>1, <1>2, <2>1 DEF Kept
  <2>4. /\ Pending(f) => gs[i].dest # f.dest
        /\ Pending(f) /\ ~Plain(f.left) => gs[i].dest # f.left[2]
    BY <1>1, <1>2, <2>1 DEF Kept
  <2> QED
    BY <2>2, <2>3, <2>4
<1>10. Kept(gs, u, mean, rg)
  BY <1>1, <1>9 DEF Kept
<1>11. \A r : Free(fs, r) => Free(gs, r)
  BY <1>1, <1>2 DEF Free
<1>12. gs # <<>> => /\ gs[l].kind = "call" => gs[l].ops = <<>>
                    /\ gs[l].kind = "group" => f.kind \in GroupKinds
                    /\ l \in 1..l
  BY <1>1, <1>2 DEF Shaped
<1> QED
  BY <1>1, <1>3, <1>4, <1>5, <1>6, <1>8, <1>9, <1>10, <1>11, <1>12

-----------------------------------------------------------------------------
(* What the calls in progress have saved. *)

CallWords(f) == f.kind = "call" /\ f.arity = 1

LEMMA WordsOfCall ==
  ASSUME NEW f, IsFrame(f), CallWords(f), NEW size \in Nat,
         NEW p, p = IF size % 16 # 0 THEN 1 ELSE 0
  PROVE  Words(f, size) = p + 2
<1>1. f.this = 0 /\ f.arity = 1 /\ f.kind \in CallKinds /\ f.kind # "method"
  BY DEF CallWords, IsFrame, CallKinds
<1>2. 1 - 0 = 1 /\ 1 % 2 = 1
  OBVIOUS
<1>3. Words(f, size) = (IF size % 16 # 0 THEN 1 ELSE 0) + 1 + 1
  BY <1>1, <1>2 DEF Words
<1> QED
  BY <1>3

\* The word that pads the frame, if any, and what a call of f pushes above it.
Pads(p, size) == p = IF size % 16 # 0 THEN 1 ELSE 0
Begins(f, st, u, p) == CallWords(f) => u[Len(st) + p + 1].v = -1

\* A part of the stack as it was.
LEMMA SavedPush ==
  ASSUME NEW fs, IsList(fs), NEW size \in Nat, NEW st, IsList(st), NEW h, Saved(h, fs, st, size),
         \A i \in 1..Len(fs) : IsFrame(fs[i]),
         NEW f, NEW w \in Nat, w = Words(f, size), NEW r, r = Append(fs, f),
         NEW u, IsList(u), Len(u) = Len(st) + w, \A i \in 1..Len(st) : u[i] = st[i],
         NEW p, Pads(p, size), Begins(f, st, u, p)
  PROVE  \E g : Saved(g, r, u, size)
<1>1. PICK l \in Nat : /\ l = Len(fs) /\ Len(r) = l + 1 /\ r[l + 1] = f
                       /\ \A i \in 1..l : r[i] = fs[i]
  BY Appended, ListLength
<1>2. PICK n \in Nat : n = Len(st)
  BY ListLength
<1>0. p = (IF size % 16 # 0 THEN 1 ELSE 0) /\ (CallWords(f) => u[Len(st) + p + 1].v = -1)
  BY DEF Pads, Begins
<1> USE <1>0
<1>3. /\ h \in [0..l -> Nat] /\ h[0] = 0 /\ h[l] = n
      /\ \A i \in 1..l : h[i] = h[i - 1] + Words(fs[i], size)
      /\ \A i, j \in 0..l : i <= j => h[i] <= h[j]
      /\ \A j \in 1..l : CallWords(fs[j]) => st[h[j - 1] + p + 1].v = -1
  BY <1>1, <1>2 DEF Saved, Heights, CallWords
<1> DEFINE g == [i \in 0..l + 1 |-> IF i = l + 1 THEN n + w ELSE h[i]]
<1>4. /\ g \in [0..l + 1 -> Nat] /\ g[0] = 0 /\ g[l + 1] = n + w /\ g[l] = n
      /\ \A i \in 0..l : g[i] = h[i] /\ h[i] \in Nat
      /\ \A j \in 1..l : j - 1 \in 0..l /\ j \in 0..l
  <2>1. \A i \in 0..l : i \in 0..l + 1 /\ i # l + 1 /\ h[i] \in Nat
    BY <1>3
  <2>2. 0 \in 0..l /\ l \in 0..l /\ l + 1 \in 0..l + 1 /\ n + w \in Nat
    OBVIOUS
  <2>3. \A i \in 0..l + 1 : i = l + 1 \/ i \in 0..l
    OBVIOUS
  <2>4. \A i \in 0..l : g[i] = h[i]
    BY <2>1
  <2>5. g \in [0..l + 1 -> Nat]
    BY <2>1, <2>2, <2>3
  <2>6. g[l + 1] = n + w
    BY <2>2
  <2>7. \A j \in 1..l : j - 1 \in 0..l /\ j \in 0..l
    OBVIOUS
  <2> HIDE DEF g
  <2> QED
    BY <1>3, <2>1, <2>2, <2>4, <2>5, <2>6, <2>7
<1> HIDE DEF g
<1>5. \A i \in 1..l + 1 : g[i] = g[i - 1] + Words(r[i], size)
  <2> SUFFICES ASSUME NEW i \in 1..l + 1 PROVE g[i] = g[i - 1] + Words(r[i], size)
    OBVIOUS
  <2>1. CASE i = l + 1
    BY <1>1, <1>4, <2>1
  <2>2. CASE i # l + 1
    <3>1. i \in 1..l
      BY <2>2
    <3> QED
      BY <1>1, <1>3, <1>4, <3>1
  <2> QED
    BY <2>1, <2>2
<1>6. \A i, j \in 0..l + 1 : i <= j => g[i] <= g[j]
  <2> SUFFICES ASSUME NEW i \in 0..l + 1, NEW j \in 0..l + 1, i <= j PROVE g[i] <= g[j]
    OBVIOUS
  <2>1. CASE j = l + 1 /\ i # l + 1
    <3>1. i \in 0..l /\ l \in 0..l /\ i <= l /\ h[i] \in Nat
      BY <1>3, <2>1
    <3>2. PICK a \in Nat : a = h[i] /\ a <= n
      BY <1>3, <3>1
    <3>3. a <= n + w
      BY <3>2
    <3> QED
      BY <1>4, <2>1, <3>1, <3>2, <3>3
  <2>2. CASE j = l + 1 /\ i = l + 1
    BY <1>4, <2>2
  <2>3. CASE j # l + 1
    <3>1. i \in 0..l /\ j \in 0..l
      BY <2>3
    <3> QED
      BY <1>3, <1>4, <3>1
  <2> QED
    BY <2>1, <2>2, <2>3
<1>7. \A j \in 1..l + 1 : CallWords(r[j]) => u[g[j - 1] + p + 1].v = -1
  <2> SUFFICES ASSUME NEW j \in 1..l + 1, CallWords(r[j]) PROVE u[g[j - 1] + p + 1].v = -1
    OBVIOUS
  <2>1. CASE j = l + 1
    <3>1. (l + 1) - 1 = l
      OBVIOUS
    <3> QED
      BY <1>0, <1>1, <1>2, <1>4, <2>1, <3>1
  <2>2. CASE j # l + 1
    <3>0. j \in 1..l /\ j <= l /\ l \in 0..l
      BY <2>2
    <3>1. j \in 1..l /\ r[j] = fs[j] /\ g[j - 1] = h[j - 1] /\ l \in 0..l /\ j <= l
      BY <1>1, <1>4, <3>0
    <3>2. PICK a \in Nat : a = h[j - 1] /\ h[j] = a + (p + 2)
      <4>1. PICK e : e = fs[j] /\ CallWords(e) /\ IsFrame(e)
        BY <1>1, <3>1
      <4>2. Words(e, size) = p + 2
        BY <1>0, <4>1, WordsOfCall
      <4> QED
        BY <1>3, <1>4, <3>1, <4>1, <4>2
    <3>3. h[j] <= n
      BY <1>3, <1>4, <3>1
    <3>4. PICK q \in Nat : q = p
      OBVIOUS
    <3>5. a + p + 1 \in 1..n
      <4>1. a + (q + 2) <= n
        BY <3>2, <3>3, <3>4
      <4>2. a + q + 1 \in 1..n
        BY <4>1
      <4> QED
        BY <3>4, <4>2
    <3>6. st[a + p + 1].v = -1
      BY <1>3, <3>1, <3>2
    <3>7. u[a + p + 1] = st[a + p + 1]
      BY <1>2, <3>5
    <3>8. g[j - 1] = a
      BY <3>1, <3>2
    <3> QED
      BY <3>6, <3>7, <3>8
  <2> QED
    BY <2>1, <2>2
<1>8. Len(u) = n + w
  BY <1>2
<1>9. Saved(g, r, u, size)
  BY <1>1, <1>4, <1>5, <1>6, <1>7, <1>8 DEF Saved, Heights, CallWords
<1> QED
  BY <1>9

LEMMA SavedPop ==
  ASSUME NEW fs, IsList(fs), fs # <<>>, NEW size \in Nat, NEW st, IsList(st),
         NEW h, Saved(h, fs, st, size),
         \A i \in 1..Len(fs) : IsFrame(fs[i]),
         NEW f, f = fs[Len(fs)], NEW w \in Nat, w = Words(f, size), NEW r, r = Front(fs),
         NEW u, IsList(u), Len(st) = Len(u) + w, \A i \in 1..Len(u) : u[i] = st[i]
  PROVE  \E g : Saved(g, r, u, size)
<1>1. PICK l \in Nat : /\ l = Len(r) /\ Len(fs) = l + 1 /\ f = fs[l + 1]
                       /\ \A i \in 1..l : r[i] = fs[i]
  BY Fronted, ListLength
<1>2. PICK n \in Nat : n = Len(u)
  BY ListLength
<1>0. PICK p : p = IF size % 16 # 0 THEN 1 ELSE 0
  OBVIOUS
<1>3. /\ h \in [0..l + 1 -> Nat] /\ h[0] = 0 /\ h[l + 1] = n + w
      /\ \A i \in 1..l + 1 : h[i] = h[i - 1] + Words(fs[i], size)
      /\ \A i, j \in 0..l + 1 : i <= j => h[i] <= h[j]
      /\ \A j \in 1..l + 1 : CallWords(fs[j]) => st[h[j - 1] + p + 1].v = -1
  BY <1>0, <1>1, <1>2 DEF Saved, Heights, CallWords
<1>4. h[l] = n
  <2>1. l + 1 \in 1..l + 1 /\ (l + 1) - 1 = l /\ l \in 0..l + 1
    OBVIOUS
  <2>2. h[l + 1] = h[l] + w /\ h[l] \in Nat
    BY <1>1, <1>3, <2>1
  <2> QED
    BY <1>3, <2>2
<1> DEFINE g == [i \in 0..l |-> h[i]]
<1>5. /\ g \in [0..l -> Nat] /\ g[0] = 0 /\ g[l] = n
      /\ \A i \in 0..l : g[i] = h[i] /\ i \in 0..l + 1
      /\ \A j \in 1..l : j - 1 \in 0..l /\ j \in 0..l /\ j \in 1..l + 1
  BY <1>3, <1>4
<1> HIDE DEF g
<1>6. \A i \in 1..l : g[i] = g[i - 1] + Words(r[i], size)
  BY <1>1, <1>3, <1>5
<1>7. \A i, j \in 0..l : i <= j => g[i] <= g[j]
  BY <1>3, <1>5
<1>8. \A j \in 1..l : CallWords(r[j]) => u[g[j - 1] + p + 1].v = -1
  <2> SUFFICES ASSUME NEW j \in 1..l, CallWords(r[j]) PROVE u[g[j - 1] + p + 1].v = -1
    OBVIOUS
  <2>1. r[j] = fs[j] /\ g[j - 1] = h[j - 1] /\ l \in 0..l + 1 /\ j <= l /\ j \in 0..l + 1
        /\ j \in 1..l + 1
    BY <1>1, <1>5
  <2>2. PICK a \in Nat : a = h[j - 1] /\ h[j] = a + (p + 2)
    <3>1. PICK e : e = fs[j] /\ CallWords(e) /\ IsFrame(e)
      BY <1>1, <2>1
    <3>2. Words(e, size) = p + 2
      BY <1>0, <3>1, WordsOfCall
    <3> QED
      BY <1>3, <1>5, <2>1, <3>1, <3>2
  <2>3. h[j] <= n
    BY <1>3, <1>4, <2>1
  <2>4. PICK q \in Nat : q = p
    BY <1>0
  <2>5. a + p + 1 \in 1..n
    <3>1. a + (q + 2) <= n
      BY <2>2, <2>3, <2>4
    <3>2. a + q + 1 \in 1..n
      BY <3>1
    <3> QED
      BY <2>4, <3>2
  <2> QED
    BY <1>2, <1>3, <2>1, <2>2, <2>5
<1>9. Saved(g, r, u, size)
  BY <1>0, <1>1, <1>2, <1>5, <1>6, <1>7, <1>8 DEF Saved, Heights, CallWords
<1> QED
  BY <1>9

LEMMA SavedSame ==
  ASSUME NEW fs, IsList(fs), fs # <<>>, NEW size, NEW st, NEW h, Saved(h, fs, st, size),
         NEW f, f = fs[Len(fs)], NEW e, e.kind = f.kind, e.arity = f.arity, e.this = f.this,
         f.kind # "method", NEW r, r = [fs EXCEPT ![Len(fs)] = e]
  PROVE  Saved(h, r, st, size)
<1>1. PICK n \in Nat : n = Len(fs)
  BY ListLength
<1>2. Len(r) = n /\ r[n] = e /\ \A i \in 1..n - 1 : r[i] = fs[i]
  BY <1>1, Replaced
<1>3. \A i \in 1..n : i \in 1..n - 1 \/ i = n
  OBVIOUS
<1>4. Words(e, size) = Words(f, size)
  BY DEF Words
<1>5. \A i \in 1..n : /\ Words(r[i], size) = Words(fs[i], size)
                      /\ r[i].kind = fs[i].kind /\ r[i].arity = fs[i].arity
  BY <1>1, <1>2, <1>3, <1>4
<1> QED
  BY <1>1, <1>2, <1>5 DEF Saved, Heights

-----------------------------------------------------------------------------
(* Where the steps leave the values. *)

At(v, rg, m) == CASE v[1] = "%" -> rg[v[2]] [] v[1] = "$" -> v[2] [] v[1] = "mem" -> m
                  [] OTHER -> Junk

LEMMA GivesUp == ASSUME PInv, GiveUp, nodes' = nodes PROVE PInv'
<1>1. /\ ctl' = "exited"
      /\ UNCHANGED <<frames, last, meaning, tracker, reg, mem, stack, totalSize, env>>
  BY DEF GiveUp, machine, memory
<1>2. Passing' = Passing
  BY <1>1 DEF Passing, Top
<1>3. UNCHANGED <<frames, meaning, tracker, reg, mem, stack, totalSize, env, nodes>>
  BY <1>1
<1>4. Passing' => reg["rdi"] = meaning[Top.ops[1]]
  BY <1>2 DEF PInv
<1>5. Top' = Top
  BY <1>1 DEF Top
<1> QED
  BY <1>1, <1>2, <1>4, <1>5 DEF PInv

\* The visit of the top frame has ended, and its value is at v.
LEMMA ClosedWell ==
  ASSUME Held, PInv, frames # <<>>, NEW f, f = Top, NEW gs, gs = frames', gs = Front(frames),
         NEW e, e = f.node, last' = e, ctl' = "back", nodes' = nodes,
         mem' = env', DOMAIN reg' = DOMAIN reg, reg'["rdi"] = -1, reg'["rsi"] = -2,
         NEW m, meaning' = Put(meaning, e, m), NEW t, t = tracker', Tracks(t, nodes, gs),
         NEW v, e \in DOMAIN t.ref, t.ref[e] = v, At(v, reg', mem') = m,
         e \in DOMAIN t.register => v = <<"%", t.register[e]>>,
         ~Plain(v) => Free(gs, v[2]) /\ e < nodes,
         f.kind \in GroupKinds => ~Plain(v),
         \A i \in 1..Len(gs) : Pending(gs[i]) =>
           /\ reg'[gs[i].dest] = reg[gs[i].dest]
           /\ gs[i].dest \in t.unused => gs[i].dest \in tracker.unused,
         \E h : Saved(h, gs, stack', totalSize')
  PROVE  PInv'
<1>1. IsList(frames) /\ f = frames[Len(frames)] /\ nodes \in Nat
  BY TopFrame DEF Held, Accounted, PInv
<1>2. PICK t0, n : t0 = tracker /\ n = nodes /\ n \in Nat
  BY <1>1
<1>3. /\ Shaped(frames) /\ Numbered(frames, n) /\ Tracks(t0, n, frames)
      /\ Kept(frames, t0.unused, meaning, reg)
  BY <1>2 DEF PInv
<1>4. /\ Shaped(gs) /\ Numbered(gs, n) /\ Kept(gs, t0.unused, meaning, reg)
      /\ Seen(e, n, gs)
      /\ \A i \in 1..Len(gs) : gs[i].node < e
      /\ \A i \in 1..Len(gs) : Pending(gs[i]) => gs[i].ops[1] < e /\ Plain(gs[i].left)
      /\ gs # <<>> => /\ gs[Len(gs)].kind = "call" => gs[Len(gs)].ops = <<>>
                      /\ gs[Len(gs)].kind = "group" => f.kind \in GroupKinds
                      /\ Len(gs) \in 1..Len(gs)
  <2>1. PICK u : u = t0.unused
    OBVIOUS
  <2>2. Kept(frames, u, meaning, reg)
    BY <1>3, <2>1
  <2> HIDE <2>1
  <2>3. /\ Shaped(gs) /\ Numbered(gs, n) /\ Kept(gs, u, meaning, reg)
        /\ Seen(f.node, n, gs)
        /\ \A i \in 1..Len(gs) : gs[i].node < f.node
        /\ \A i \in 1..Len(gs) : Pending(gs[i]) => gs[i].ops[1] < f.node /\ Plain(gs[i].left)
        /\ gs # <<>> => /\ gs[Len(gs)].kind = "call" => gs[Len(gs)].ops = <<>>
                        /\ gs[Len(gs)].kind = "group" => f.kind \in GroupKinds
                        /\ Len(gs) \in 1..Len(gs)
    BY <1>1, <1>2, <1>3, <2>2, Pops1
  <2> QED
    BY <2>1, <2>3
<1>5. e \in DOMAIN meaning' /\ meaning'[e] = m /\ DOMAIN meaning \subseteq DOMAIN meaning'
  BY PutAt
<1>6. \A i \in 1..Len(gs) : Pending(gs[i]) => meaning'[gs[i].ops[1]] = meaning[gs[i].ops[1]]
  <2> SUFFICES ASSUME NEW i \in 1..Len(gs), Pending(gs[i])
               PROVE  meaning'[gs[i].ops[1]] = meaning[gs[i].ops[1]]
    OBVIOUS
  <2>1. PICK y : y = gs[i].ops[1]
    OBVIOUS
  <2>2. y \in DOMAIN meaning /\ y \in 1..n
    BY <1>4, <2>1 DEF Kept, Numbered
  <2>3. y # e
    BY <1>4, <2>1, <2>2 DEF Seen
  <2>4. meaning'[y] = meaning[y]
    BY <2>2, <2>3, PutElsewhere
  <2> QED
    BY <2>1, <2>4
<1>7. Kept(gs, t.unused, meaning', reg')
  <2>1. PICK u, w, me, rh : u = t0.unused /\ w = t.unused /\ me = meaning' /\ rh = reg'
    OBVIOUS
  <2>2. /\ Kept(gs, u, meaning, reg) /\ DOMAIN meaning \subseteq DOMAIN me
        /\ \A i \in 1..Len(gs) : Pending(gs[i]) =>
             /\ rh[gs[i].dest] = reg[gs[i].dest]
             /\ me[gs[i].ops[1]] = meaning[gs[i].ops[1]]
             /\ gs[i].dest \in w => gs[i].dest \in u
    BY <1>2, <1>4, <1>5, <1>6, <2>1
  <2>3. Kept(gs, w, me, rh)
    BY <2>2, KeptStays
  <2> QED
    BY <2>1, <2>3
<1>8. Top' = gs[Len(gs)]
  BY DEF Top, Last
<1>9. ~Passing' /\ ~OnTheRight'
  BY <1>4, <1>8 DEF Passing, OnTheRight
<1>10. Ref' = v
  BY DEF Ref
<1>11. Content(Ref)' = m
  BY <1>10 DEF Content, At
<1>12. FoundWhere'
  <2>1. (last \in DOMAIN tracker.ref)' /\ (last \in DOMAIN meaning)' /\ Content(Ref)' = meaning'[e]
    BY <1>5, <1>11
  <2>2. (last \in DOMAIN tracker.register => Ref = <<"%", tracker.register[last]>>)'
    BY <1>10
  <2>3. (~Plain(Ref) => Free(frames, Ref[2]))'
    BY <1>10
  <2>4. (last = nodes \/ OnTheRight => Plain(Ref))'
    BY <1>1, <1>2, <1>4, <1>9, <1>10 DEF Seen
  <2>5. (frames # <<>> /\ Top.kind = "group" => ~Plain(Ref))'
    BY <1>4, <1>8, <1>10
  <2> QED
    BY <2>1, <2>2, <2>3, <2>4, <2>5 DEF FoundWhere
<1>13. (last \in 1..nodes /\ \A i \in 1..Len(frames) : frames[i].node < last)'
  BY <1>2, <1>4 DEF Seen
<1>14. (Shaped(frames) /\ Numbered(frames, nodes) /\ Tracks(tracker, nodes, frames)
         /\ Kept(frames, tracker.unused, meaning, reg))'
  BY <1>2, <1>4, <1>7
<1>15. DOMAIN reg' = GP \cup {"rax", "rdi", "rsi"} /\ nodes' \in Nat
  BY <1>1 DEF PInv
<1>16. (\E h : Saved(h, frames, stack, totalSize))'
  OBVIOUS
<1> QED
  BY <1>9, <1>12, <1>13, <1>14, <1>15, <1>16 DEF PInv

\* The answer is a general-purpose register; if it is a new one, it was unused.
LEMMA AnsweredWell ==
  ASSUME NEW t, NEW n, NEW fs, Tracks(t, n, fs), NEW e, Seen(e, n, fs), NEW c, Answers(t, e, c),
         NEW u, u = c.t, NEW r, r = c.r
  PROVE  /\ Tracks(u, n, fs) /\ r \in GP /\ u.unused \subseteq t.unused
         /\ e \in DOMAIN u.register /\ u.register[e] = r
         /\ (e \in DOMAIN t.register /\ t.register[e] = r /\ u = t)
            \/ (e \notin DOMAIN t.register /\ r \in t.unused /\ r \notin u.unused)
<1>1. CASE e \in DOMAIN t.register /\ u = t /\ r = t.register[e]
  BY <1>1 DEF Tracks
<1>2. CASE e \notin DOMAIN t.register /\ r \in t.unused /\ u = Take(t, e, r)
  <2>1. /\ Tracks(u, n, fs) /\ u.unused = t.unused \ {r} /\ r \in GP
        /\ e \in DOMAIN u.register /\ u.register[e] = r
    BY <1>2, TracksTake
  <2> QED
    BY <1>2, <2>1
<1> QED
  BY <1>1, <1>2 DEF Answers

\* What is known when the visit of an operand has returned to frame f.
Operand(t, f, fs, gs, e, n) ==
  /\ ctl = "back" /\ t = tracker /\ fs = frames /\ fs # <<>> /\ gs = Front(fs) /\ f = Top
  /\ e = f.node /\ n = nodes /\ n \in Nat
  /\ IsFrame(f) /\ f = fs[Len(fs)] /\ IsList(fs)
  /\ f.kind = "call" => f.left = Local
  /\ reg["rdi"] = -1 /\ reg["rsi"] = -2 /\ DOMAIN reg = GP \cup {"rax", "rdi", "rsi"}
  /\ mem = env
  /\ Tracks(t, n, fs) /\ Tracks(t, n, gs) /\ Seen(last, n, fs) /\ Seen(last, n, gs)
  /\ Seen(e, n, gs) /\ e < last /\ e < n /\ last # e
  /\ last \in DOMAIN t.ref /\ Ref = t.ref[last] /\ last \in DOMAIN meaning
  /\ Content(Ref) = meaning[last]
  /\ last \in DOMAIN t.register => Ref = <<"%", t.register[last]>> /\ Free(fs, t.register[last])
  /\ ~Plain(Ref) => Ref[1] = "%" /\ Ref[2] \in GP /\ Free(fs, Ref[2]) /\ Free(gs, Ref[2])
  /\ last = n \/ OnTheRight => Plain(Ref)
  /\ f.kind = "group" => ~Plain(Ref)
  /\ \A i \in 1..Len(gs) : Pending(gs[i]) =>
       /\ gs[i].dest \in GP /\ gs[i].dest \notin t.unused
       /\ Pending(f) => gs[i].dest # f.dest
       /\ Pending(f) /\ ~Plain(f.left) => gs[i].dest # f.left[2]

LEMMA OperandBack ==
  ASSUME Held, PInv, ctl = "back", frames # <<>>
  PROVE  \E t, f, fs, gs, e, n : Operand(t, f, fs, gs, e, n)
<1>1. PICK t, f, fs, gs, n : t = tracker /\ f = Top /\ fs = frames /\ gs = Front(fs) /\ n = nodes
  OBVIOUS
<1>2. PICK e : e = f.node
  OBVIOUS
<1>3. IsFrame(f) /\ f = fs[Len(fs)] /\ IsList(fs) /\ n \in Nat /\ fs # <<>>
  BY <1>1, TopFrame DEF Held, Accounted, PInv
<1>4. Len(fs) \in 1..Len(fs)
  BY <1>3, ListLength
<1>5. f.kind = "call" => f.left = Local
  BY <1>1, <1>3, <1>4 DEF PInv, Shaped
<1>6. /\ reg["rdi"] = -1 /\ reg["rsi"] = -2 /\ DOMAIN reg = GP \cup {"rax", "rdi", "rsi"}
      /\ mem = env
  BY DEF PInv
<1>7. PICK u : u = t.unused
  OBVIOUS
<1>8. /\ Shaped(fs) /\ Numbered(fs, n) /\ Tracks(t, n, fs) /\ Kept(fs, u, meaning, reg)
  BY <1>1, <1>7 DEF PInv
<1> HIDE <1>1, <1>7
<1>9. /\ Tracks(t, n, gs) /\ Kept(gs, u, meaning, reg) /\ Seen(f.node, n, gs)
      /\ \A i \in 1..Len(gs) : Pending(gs[i]) =>
           /\ Plain(gs[i].left)
           /\ Pending(f) => gs[i].dest # f.dest
           /\ Pending(f) /\ ~Plain(f.left) => gs[i].dest # f.left[2]
      /\ \A r : Free(fs, r) => Free(gs, r)
  <2>1. gs = Front(fs)
    BY <1>1
  <2> QED
    BY <1>3, <1>8, <2>1, Pops1
<1>10. last \in 1..n /\ \A i \in 1..Len(fs) : fs[i].node < last
  BY <1>1 DEF PInv
<1>11. Seen(last, n, fs)
  <2>1. \A i \in 1..Len(fs) : fs[i].node \in 1..n
    BY <1>8 DEF Numbered
  <2>2. \A i \in 1..Len(fs) : fs[i].node # last
    BY <1>10, <2>1
  <2> QED
    BY <1>10, <2>2 DEF Seen
<1>12. Len(fs) = Len(gs) + 1 /\ Len(gs) \in Nat /\ \A i \in 1..Len(gs) : gs[i] = fs[i]
  BY <1>1, <1>3, Fronted, ListLength
<1>13. Seen(last, n, gs)
  <2>1. \A i \in 1..Len(gs) : i \in 1..Len(fs)
    BY <1>12
  <2> QED
    BY <1>11, <1>12, <2>1 DEF Seen
<1>14. e \in 1..n /\ e < last
  BY <1>2, <1>3, <1>4, <1>8, <1>10 DEF Numbered
<1>15. e < n /\ last # e
  BY <1>3, <1>10, <1>14
<1>16. FoundWhere
  BY DEF PInv
<1>17. /\ last \in DOMAIN t.ref /\ Ref = t.ref[last] /\ last \in DOMAIN meaning
       /\ Content(Ref) = meaning[last]
       /\ last \in DOMAIN t.register => Ref = <<"%", t.register[last]>>
       /\ last = n \/ OnTheRight => Plain(Ref)
       /\ f.kind = "group" => ~Plain(Ref)
  BY <1>1, <1>16 DEF FoundWhere, Ref
<1>18. ~Plain(Ref) => Ref[1] = "%" /\ Ref[2] \in GP /\ Free(fs, Ref[2])
  BY <1>1, <1>16 DEF FoundWhere, Plain
<1>19. last \in DOMAIN t.register => Free(fs, t.register[last])
  <2> SUFFICES ASSUME last \in DOMAIN t.register PROVE Free(fs, t.register[last])
    OBVIOUS
  <2>1. PICK r : r = t.register[last] /\ r \in GP
    BY <1>8 DEF Tracks
  <2>2. Ref = <<"%", r>>
    BY <1>17, <2>1
  <2>3. Ref[2] = r /\ ~Plain(Ref)
    BY <2>1, <2>2 DEF Plain
  <2> QED
    BY <1>18, <2>1, <2>3
<1>20. \A i \in 1..Len(gs) : Pending(gs[i]) =>
         /\ gs[i].dest \in GP /\ gs[i].dest \notin t.unused
         /\ Pending(f) => gs[i].dest # f.dest
         /\ Pending(f) /\ ~Plain(f.left) => gs[i].dest # f.left[2]
  BY <1>7, <1>9 DEF Kept
<1>21. Seen(e, n, gs)
  BY <1>2, <1>9
<1>22. Operand(t, f, fs, gs, e, n)
  BY <1>1, <1>2, <1>3, <1>5, <1>6, <1>8, <1>9, <1>11, <1>13, <1>14, <1>15, <1>17, <1>18, <1>19,
     <1>20, <1>21 DEF Operand
<1> QED
  BY <1>22

LEMMA TracksFront ==
  ASSUME NEW fs, IsList(fs), fs # <<>>, NEW t, NEW n, Tracks(t, n, fs), NEW gs, gs = Front(fs),
         NEW f, f = fs[Len(fs)]
  PROVE  Tracks(t, n, gs) /\ f.node \notin DOMAIN t.register
         /\ \A r \in DOMAIN t.owner : t.owner[r] # f.node
<1>1. PICK l \in Nat : /\ l = Len(gs) /\ Len(fs) = l + 1 /\ f = fs[l + 1]
                       /\ \A i \in 1..l : gs[i] = fs[i]
  BY Fronted, ListLength
<1>2. l + 1 \in 1..l + 1 /\ \A i \in 1..l : i \in 1..l + 1
  OBVIOUS
<1>3. \A e : Seen(e, n, fs) => Seen(e, n, gs) /\ e # f.node
  BY <1>1, <1>2 DEF Seen
<1>4. Tracks(t, n, gs)
  BY <1>3 DEF Tracks
<1> QED
  BY <1>3, <1>4 DEF Tracks

\* A register for the operand: no pending operand's.
LEMMA OperandAnswered ==
  ASSUME NEW t, NEW f, NEW fs, NEW gs, NEW e, NEW n, Operand(t, f, fs, gs, e, n), ~Pending(f),
         NEW c, c \in MakeAssignable(t, last) \/ c \in AcquireRegister(t, last),
         NEW w, w = c.t, NEW r, r = c.r
  PROVE  /\ Tracks(w, n, fs) /\ Tracks(w, n, gs) /\ e \notin DOMAIN w.register
         /\ r \in GP /\ Free(gs, r) /\ w.unused \subseteq t.unused
         /\ last \in DOMAIN w.register /\ w.register[last] = r
         /\ (last \in DOMAIN t.register /\ Ref = <<"%", r>> /\ w = t)
            \/ (last \notin DOMAIN t.register /\ r \in t.unused /\ r \notin w.unused)
<1>1. Answers(t, last, c) /\ Tracks(t, n, fs) /\ Seen(last, n, fs)
  BY Answered DEF Operand
<1>2. /\ Tracks(w, n, fs) /\ r \in GP /\ w.unused \subseteq t.unused
      /\ last \in DOMAIN w.register /\ w.register[last] = r
      /\ (last \in DOMAIN t.register /\ t.register[last] = r /\ w = t)
         \/ (last \notin DOMAIN t.register /\ r \in t.unused /\ r \notin w.unused)
  BY <1>1, AnsweredWell
<1>3. last \in DOMAIN t.register => Ref = <<"%", r>>
  BY <1>2 DEF Operand
<1>4. Free(gs, r)
  <2>1. CASE last \in DOMAIN t.register
    <3>1. Ref = <<"%", r>> /\ ~Plain(Ref) /\ Ref[2] = r
      BY <1>2, <1>3, <2>1 DEF Plain
    <3> QED
      BY <3>1 DEF Operand
  <2>2. CASE r \in t.unused
    BY <2>2 DEF Operand, Free
  <2> QED
    BY <1>2, <2>1, <2>2
<1>5. Tracks(w, n, gs) /\ e \notin DOMAIN w.register
  <2>1. IsList(fs) /\ fs # <<>> /\ e = f.node /\ gs = Front(fs) /\ f = fs[Len(fs)]
    BY DEF Operand
  <2> QED
    BY <1>2, <2>1, TracksFront
<1> QED
  BY <1>2, <1>3, <1>4, <1>5

LEMMA SavedClosed ==
  ASSUME Held, PInv, frames # <<>>, Top.kind \notin CallKinds, NEW gs, gs = Front(frames)
  PROVE  \E h : Saved(h, gs, stack, totalSize)
<1>1. PICK f, fs, st, size : f = Top /\ fs = frames /\ st = stack /\ size = totalSize
  OBVIOUS
<1>2. /\ IsList(fs) /\ fs # <<>> /\ size \in Nat /\ IsList(st) /\ gs = Front(fs)
      /\ \A i \in 1..Len(fs) : IsFrame(fs[i])
      /\ f = fs[Len(fs)] /\ 0 = Words(f, size)
  BY <1>1, TopFrame, LocalsAreWords DEF Held, Accounted
<1>3. PICK h : Saved(h, fs, st, size)
  BY <1>1 DEF PInv
<1>4. Len(st) = Len(st) + 0
  BY <1>2, ListLength
<1> HIDE <1>1
<1>5. \E g : Saved(g, gs, st, size)
  BY <1>2, <1>3, <1>4, SavedPop
<1> QED
  BY <1>1, <1>5

\* A step that ends the visit of frame f and leaves its value at v.
Leaves(t, f, gs, e, n, u, v, m) ==
  /\ frames' = gs /\ last' = e /\ ctl' = "back" /\ nodes' = n
  /\ meaning' = Put(meaning, e, m) /\ tracker' = u /\ Tracks(u, n, gs)
  /\ stack' = stack /\ totalSize' = totalSize /\ f.kind \notin CallKinds
  /\ mem' = env' /\ DOMAIN reg' = DOMAIN reg /\ reg'["rdi"] = -1 /\ reg'["rsi"] = -2
  /\ e \in DOMAIN u.ref /\ u.ref[e] = v /\ At(v, reg', mem') = m
  /\ e \in DOMAIN u.register => v = <<"%", u.register[e]>>
  /\ ~Plain(v) => Free(gs, v[2])
  /\ f.kind \in GroupKinds => ~Plain(v)
  /\ \A i \in 1..Len(gs) : Pending(gs[i]) =>
       reg'[gs[i].dest] = reg[gs[i].dest] /\ gs[i].dest \notin u.unused

LEMMA LeavesWell ==
  ASSUME Held, PInv, NEW t, NEW f, NEW fs, NEW gs, NEW e, NEW n, Operand(t, f, fs, gs, e, n),
         NEW u, NEW v, NEW m, Leaves(t, f, gs, e, n, u, v, m)
  PROVE  PInv'
<1>1. /\ frames # <<>> /\ f = Top /\ gs = frames' /\ gs = Front(frames) /\ e = f.node
      /\ nodes = n /\ e < nodes
  BY DEF Operand, Leaves
<1>2. \E h : Saved(h, gs, stack', totalSize')
  <2>1. \E h : Saved(h, gs, stack, totalSize)
    BY <1>1, SavedClosed DEF Leaves
  <2> QED
    BY <2>1 DEF Leaves
<1>3. /\ last' = e /\ ctl' = "back" /\ nodes' = nodes
      /\ mem' = env' /\ DOMAIN reg' = DOMAIN reg /\ reg'["rdi"] = -1 /\ reg'["rsi"] = -2
      /\ meaning' = Put(meaning, e, m) /\ u = tracker' /\ Tracks(u, nodes, gs)
      /\ e \in DOMAIN u.ref /\ u.ref[e] = v /\ At(v, reg', mem') = m
      /\ e \in DOMAIN u.register => v = <<"%", u.register[e]>>
      /\ f.kind \in GroupKinds => ~Plain(v)
      /\ ~Plain(v) => Free(gs, v[2]) /\ e < nodes
  BY <1>1 DEF Leaves
<1>4. \A i \in 1..Len(gs) : Pending(gs[i]) =>
        /\ reg'[gs[i].dest] = reg[gs[i].dest]
        /\ gs[i].dest \in u.unused => gs[i].dest \in tracker.unused
  BY DEF Leaves
<1> QED
  BY <1>1, <1>2, <1>3, <1>4, ClosedWell

LEMMA GroupingWell == ASSUME Simple, Held, PInv, Grouping PROVE PInv'
<1>1. /\ ctl = "back" /\ frames # <<>> /\ Top.kind = "group" /\ nodes' = nodes
      /\ tracker' = Overwrite(tracker, Top.node, Ref)
      /\ frames' = Front(frames) /\ last' = Top.node /\ ctl' = "back"
      /\ meaning' = Put(meaning, Top.node, meaning[last])
      /\ UNCHANGED <<reg, mem, stack, totalSize, env>>
  BY DEF Grouping, Returned, Close, Pop, machine, memory
<1>2. PICK t, f, fs, gs, e, n : Operand(t, f, fs, gs, e, n)
  BY <1>1, OperandBack
<1>3. PICK r : r = Ref[2] /\ Ref[1] = "%" /\ r \in GP /\ Free(gs, r)
  BY <1>1, <1>2 DEF Operand
<1>4. PICK u : u = RegOverwrite(t, e, r) /\ tracker' = u
  BY <1>1, <1>2, <1>3 DEF Operand, Overwrite
<1>5. Tracks(t, n, gs) /\ Seen(e, n, gs)
  BY <1>2 DEF Operand
<1>6. /\ Tracks(u, n, gs) /\ u.unused = t.unused
      /\ e \in DOMAIN u.ref /\ u.ref[e] = <<"%", r>>
      /\ e \in DOMAIN u.register /\ u.register[e] = r
  BY <1>3, <1>4, <1>5, TracksOverwrite
<1>7. PICK v, m : v = <<"%", r>> /\ m = meaning[last]
  OBVIOUS
<1>8. v[1] = "%" /\ v[2] = r /\ ~Plain(v)
  BY <1>3, <1>7 DEF Plain
<1>9. At(v, reg', mem') = m
  <2>1. Content(Ref) = reg[r] /\ Content(Ref) = meaning[last]
    BY <1>2, <1>3 DEF Content, Operand
  <2> QED
    BY <1>1, <1>7, <1>8, <2>1 DEF At
<1>10. Leaves(t, f, gs, e, n, u, v, m)
  BY <1>1, <1>2, <1>3, <1>4, <1>6, <1>7, <1>8, <1>9 DEF Leaves, Operand, CallKinds
<1> QED
  BY <1>2, <1>10, LeavesWell

LEMMA UnaryWell == ASSUME Simple, Held, PInv, Unary PROVE PInv'
<1>1. /\ ctl = "back" /\ frames # <<>> /\ Top.kind = "neg" /\ nodes' = nodes
  BY DEF Unary, Returned
<1>2. PICK t, f, fs, gs, e, n : Operand(t, f, fs, gs, e, n)
  BY <1>1, OperandBack
<1>3. CASE GiveUp
  BY <1>1, <1>3, GivesUp
<1>4. CASE ~GiveUp
  <2>1. PICK c \in MakeAssignable(t, last) :
          /\ reg' = [reg EXCEPT ![c.r] = IF Content(Ref) = meaning[last]
                                         THEN Top.node ELSE Junk]
          /\ tracker' = Assign(c.t, Top.node, <<"%", c.r>>)
          /\ Close(Top.node)
          /\ UNCHANGED <<memory, env>>
    BY <1>2, <1>4 DEF Unary, Operand
  <2>2. PICK r, w, v, u : r = c.r /\ w = c.t /\ v = <<"%", r>> /\ u = Assign(w, e, v)
    OBVIOUS
  <2>3. /\ reg' = [reg EXCEPT ![r] = e] /\ tracker' = u
        /\ frames' = gs /\ last' = e /\ ctl' = "back" /\ meaning' = Put(meaning, e, e)
        /\ UNCHANGED <<mem, stack, totalSize, env>>
    BY <1>2, <2>1, <2>2 DEF Operand, Close, Pop, memory
  <2>4. ~Pending(f)
    BY <1>1, <1>2 DEF Operand, Pending
  <2>5. /\ Tracks(w, n, gs) /\ e \notin DOMAIN w.register
        /\ r \in GP /\ Free(gs, r) /\ w.unused \subseteq t.unused
    BY <1>2, <2>2, <2>4, OperandAnswered
  <2>6. /\ Tracks(u, n, gs) /\ u.unused = w.unused /\ u.register = w.register
        /\ e \in DOMAIN u.ref /\ u.ref[e] = v
    BY <2>2, <2>5, TracksAssign
  <2>7. /\ DOMAIN reg' = DOMAIN reg /\ reg'[r] = e
        /\ (\A x \in DOMAIN reg : x # r => reg'[x] = reg[x])
        /\ r # "rdi" /\ r # "rsi" /\ v[1] = "%" /\ v[2] = r /\ ~Plain(v)
        /\ "rdi" \in DOMAIN reg /\ "rsi" \in DOMAIN reg /\ GP \subseteq DOMAIN reg
    BY <1>2, <2>2, <2>3, <2>5, RegisterNames DEF Operand, Plain
  <2>8. \A i \in 1..Len(gs) : Pending(gs[i]) =>
          reg'[gs[i].dest] = reg[gs[i].dest] /\ gs[i].dest \notin u.unused
    BY <1>2, <2>5, <2>6, <2>7 DEF Operand, Free
  <2>9. Leaves(t, f, gs, e, n, u, v, e)
    BY <1>1, <1>2, <2>3, <2>5, <2>6, <2>7, <2>8 DEF Leaves, Operand, CallKinds, At
  <2> QED
    BY <1>2, <2>9, LeavesWell
<1> QED
  BY <1>3, <1>4

LEMMA AssignmentWell == ASSUME Simple, Held, PInv, Assignment PROVE PInv'
<1>1. ctl = "back" /\ frames # <<>> /\ Top.kind = "assign" /\ nodes' = nodes
  BY DEF Assignment, Returned
<1>2. PICK t, f, fs, gs, e, n : Operand(t, f, fs, gs, e, n)
  BY <1>1, OperandBack
<1>3. CASE GiveUp
  BY <1>1, <1>3, GivesUp
<1>4. CASE ~GiveUp
  <2>0. PICK m : m = meaning[last] /\ Content(Ref) = m
    BY <1>2 DEF Operand
  <2>1. PICK c \in AcquireRegister(t, last) :
          /\ reg' = [reg EXCEPT ![c.r] = m]
          /\ mem' = m /\ env' = m
          /\ tracker' = Assign(RegFree(c.t, <<"%", c.r>>), Top.node, Local)
          /\ Close(m)
          /\ UNCHANGED <<stack, totalSize>>
    <3>1. t = tracker
      BY <1>2 DEF Operand
    <3>2. \E c \in AcquireRegister(t, last) :
            /\ reg' = [reg EXCEPT ![c.r] = Content(Ref)]
            /\ mem' = Content(Ref)
            /\ env' = meaning[last]
            /\ tracker' = Assign(RegFree(c.t, <<"%", c.r>>), Top.node, Local)
            /\ Close(meaning[last])
            /\ UNCHANGED <<stack, totalSize>>
      BY <1>4, <3>1 DEF Assignment
    <3> QED
      BY <2>0, <3>2
  <2>2. PICK r, w, v : r = c.r /\ w = c.t /\ v = Local
    OBVIOUS
  <2>3. PICK x, y, u : x = <<"%", r>> /\ y = RegFree(w, x) /\ u = Assign(y, e, v)
    OBVIOUS
  <2>4. /\ reg' = [reg EXCEPT ![r] = m] /\ tracker' = u
        /\ frames' = gs /\ last' = e /\ ctl' = "back" /\ meaning' = Put(meaning, e, m)
        /\ mem' = m /\ env' = m /\ UNCHANGED <<stack, totalSize>>
    BY <1>2, <2>1, <2>2, <2>3 DEF Operand, Close, Pop
  <2>5. ~Pending(f)
    BY <1>1, <1>2 DEF Operand, Pending
  <2>6. /\ Tracks(w, n, gs) /\ e \notin DOMAIN w.register
        /\ r \in GP /\ Free(gs, r) /\ w.unused \subseteq t.unused
    BY <1>2, <2>2, <2>5, OperandAnswered
  <2>7. /\ Tracks(y, n, gs) /\ DOMAIN y.register \subseteq DOMAIN w.register
        /\ y.unused \subseteq w.unused \cup {r}
    <3>1. /\ Tracks(y, n, gs) /\ DOMAIN y.register \subseteq DOMAIN w.register
          /\ y.unused = IF x[1] = "%" /\ x[2] \in DOMAIN w.owner THEN w.unused \cup {x[2]}
                        ELSE w.unused
      <4>1. y = RegFree(w, x)
        BY <2>3
      <4> QED
        BY <2>6, <4>1, TracksFree
    <3> QED
      BY <2>3, <3>1
  <2>8. /\ Tracks(u, n, gs) /\ u.unused = y.unused /\ u.register = y.register
        /\ e \in DOMAIN u.ref /\ u.ref[e] = v
    BY <2>3, <2>7, TracksAssign
  <2>9. /\ DOMAIN reg' = DOMAIN reg /\ (\A z \in DOMAIN reg : z # r => reg'[z] = reg[z])
        /\ "rdi" \in DOMAIN reg /\ "rsi" \in DOMAIN reg /\ GP \subseteq DOMAIN reg
        /\ r # "rdi" /\ r # "rsi" /\ v[1] = "mem" /\ Plain(v)
    BY <1>2, <2>2, <2>4, <2>6, RegisterNames DEF Operand, Plain, Local
  <2>10. \A i \in 1..Len(gs) : Pending(gs[i]) =>
           reg'[gs[i].dest] = reg[gs[i].dest] /\ gs[i].dest \notin u.unused
    BY <1>2, <2>6, <2>7, <2>8, <2>9 DEF Operand, Free
  <2>11. f.kind \notin GroupKinds
    BY <1>1, <1>2 DEF Simple, Operand
  <2>12. Leaves(t, f, gs, e, n, u, v, m)
    BY <1>1, <1>2, <2>4, <2>6, <2>7, <2>8, <2>9, <2>10, <2>11 DEF Leaves, Operand, CallKinds, At
  <2> QED
    BY <1>2, <2>12, LeavesWell
<1> QED
  BY <1>3, <1>4

LEMMA BinaryRightWell == ASSUME Simple, Held, PInv, BinaryRight PROVE PInv'
<1>1. /\ ctl = "back" /\ frames # <<>> /\ Top.kind \in {"add", "mul"} /\ Len(Top.ops) = 1
      /\ nodes' = nodes
  BY DEF BinaryRight, Returned
<1>2. PICK t, f, fs, gs, e, n : Operand(t, f, fs, gs, e, n)
  BY <1>1, OperandBack
<1>3. PICK r, left, m, a, v : /\ r = f.dest /\ left = f.left /\ m = meaning[last]
                              /\ a = Ref /\ v = <<"%", r>>
  OBVIOUS
<1>4. Pending(f) /\ f \in {fs[i] : i \in 1..Len(fs)}
  <2>1. IsFrame(f) /\ IsList(fs) /\ fs # <<>> /\ f = fs[Len(fs)] /\ f = Top
    BY <1>2 DEF Operand
  <2>2. f.ops # <<>>
    BY <1>1, <2>1, Nothing
  <2>3. Len(fs) \in 1..Len(fs)
    BY <2>1, ListLength
  <2> QED
    BY <1>1, <2>1, <2>2, <2>3 DEF Pending
<1>5. /\ r \in GP /\ reg[r] = meaning[f.ops[1]]
  BY <1>2, <1>3, <1>4 DEF Operand, PInv, Kept
<1>6. ~Plain(a) => a[1] = "%" /\ a[2] \in GP /\ a[2] # r /\ Free(gs, a[2])
  BY <1>2, <1>3, <1>4 DEF Operand, Free
<1>7. ~Plain(left) => left[1] = "%"
  BY DEF Plain
<1>8. Free(gs, r) /\ (~Plain(left) => Free(gs, left[2]))
  BY <1>2, <1>3, <1>4 DEF Operand, Free
<1>9. PICK w, z, u : w = RegFree(t, left) /\ z = RegOverwrite(w, e, r) /\ u = RegFree(z, a)
  OBVIOUS
<1>10. /\ reg' = [reg EXCEPT ![r] = e] /\ tracker' = u
       /\ frames' = gs /\ last' = e /\ ctl' = "back" /\ meaning' = Put(meaning, e, e)
       /\ UNCHANGED <<mem, stack, totalSize, env>>
  <2>1. t = tracker /\ f = Top /\ gs = Front(frames) /\ e = f.node /\ Content(Ref) = meaning[last]
    BY <1>2 DEF Operand
  <2> QED
    BY <1>3, <1>5, <1>9, <2>1 DEF BinaryRight, Close, Pop, memory
<1>11. Tracks(t, n, fs) /\ Seen(e, n, gs)
  BY <1>2 DEF Operand
<1>12. /\ Tracks(w, n, fs)
       /\ w.unused \subseteq t.unused \cup (IF Plain(left) THEN {} ELSE {left[2]})
  <2>1. Tracks(w, n, fs) /\ (Plain(left) => w = t)
    BY <1>9, <1>11, TracksFree
  <2>2. w.unused = IF left[1] = "%" /\ left[2] \in DOMAIN t.owner THEN t.unused \cup {left[2]}
                   ELSE t.unused
    BY <1>9, <1>11, TracksFree
  <2> QED
    BY <2>1, <2>2
<1>13. /\ Tracks(w, n, gs) /\ \A x \in DOMAIN w.owner : w.owner[x] # e
  <2>1. IsList(fs) /\ fs # <<>> /\ gs = Front(fs) /\ f = fs[Len(fs)] /\ e = f.node
    BY <1>2 DEF Operand
  <2> QED
    BY <1>12, <2>1, TracksFront
<1>14. /\ Tracks(z, n, gs) /\ z.unused = w.unused
       /\ e \in DOMAIN z.ref /\ z.ref[e] = v
       /\ e \in DOMAIN z.register /\ z.register[e] = r
       /\ \A x \in DOMAIN z.owner : x = r \/ z.owner[x] # e
  BY <1>3, <1>5, <1>9, <1>11, <1>13, TracksOverwrite
<1>15. a[1] = "%" /\ a[2] \in DOMAIN z.owner => ~Plain(a) /\ z.owner[a[2]] # e
  BY <1>6, <1>14 DEF Tracks, Plain
<1>16. /\ Tracks(u, n, gs)
       /\ u.unused = IF a[1] = "%" /\ a[2] \in DOMAIN z.owner THEN z.unused \cup {a[2]}
                     ELSE z.unused
  <2>1. u = RegFree(z, a)
    BY <1>9
  <2>2. Tracks(z, n, gs)
    BY <1>14
  <2> QED
    BY <2>1, <2>2, TracksFree
<1>17. /\ e \in DOMAIN u.ref /\ u.ref[e] = v
       /\ e \in DOMAIN u.register /\ u.register[e] = r
  <2>1. e \in DOMAIN u.ref /\ u.ref[e] = z.ref[e]
    BY <1>9, <1>14, <1>15, OthersStay
  <2>2. e \in DOMAIN u.register /\ u.register[e] = z.register[e]
    BY <1>9, <1>14, <1>15, OthersStay
  <2> QED
    BY <1>14, <2>1, <2>2
<1>18. /\ DOMAIN reg' = DOMAIN reg /\ reg'[r] = e
       /\ (\A x \in DOMAIN reg : x # r => reg'[x] = reg[x])
       /\ r # "rdi" /\ r # "rsi" /\ v[1] = "%" /\ v[2] = r /\ ~Plain(v)
       /\ "rdi" \in DOMAIN reg /\ "rsi" \in DOMAIN reg /\ GP \subseteq DOMAIN reg
  BY <1>2, <1>3, <1>5, <1>10, RegisterNames DEF Operand, Plain
<1>19. \A i \in 1..Len(gs) : Pending(gs[i]) =>
         reg'[gs[i].dest] = reg[gs[i].dest] /\ gs[i].dest \notin u.unused
  <2> SUFFICES ASSUME NEW i \in 1..Len(gs), Pending(gs[i]), NEW x, x = gs[i].dest
               PROVE  reg'[x] = reg[x] /\ x \notin u.unused
    OBVIOUS
  <2>1. x \in GP /\ x \notin t.unused
    BY <1>2 DEF Operand
  <2>2. x # r /\ (~Plain(left) => x # left[2]) /\ (~Plain(a) => x # a[2])
    BY <1>6, <1>8 DEF Free
  <2>3. x \notin w.unused
    BY <1>12, <2>1, <2>2
  <2> QED
    BY <1>14, <1>15, <1>16, <1>18, <2>1, <2>2, <2>3
<1>20. At(v, reg', mem') = e /\ (~Plain(v) => Free(gs, v[2]))
  BY <1>8, <1>18 DEF At
<1>21. reg'["rdi"] = -1 /\ reg'["rsi"] = -2 /\ mem' = env' /\ f.kind \notin CallKinds /\ nodes' = n
  BY <1>1, <1>2, <1>10, <1>18 DEF Operand, CallKinds
<1>22. Leaves(t, f, gs, e, n, u, v, e)
  BY <1>3, <1>10, <1>16, <1>17, <1>18, <1>19, <1>20, <1>21 DEF Leaves
<1> QED
  BY <1>2, <1>22, LeavesWell

LEMMA FieldWell == ASSUME Simple, Held, PInv, Field PROVE PInv'
<1>1. ctl = "back" /\ frames # <<>> /\ Top.kind = "field" /\ nodes' = nodes
  BY DEF Field, Returned
<1>2. PICK t, f, fs, gs, e, n : Operand(t, f, fs, gs, e, n)
  BY <1>1, OperandBack
<1>3. CASE GiveUp
  BY <1>1, <1>3, GivesUp
<1>4. CASE ~GiveUp
  <2>1. PICK a, x : a = Ref /\ x = RegFree(t, a)
    OBVIOUS
  <2>2. PICK c \in MakeAssignable(x, e) :
          /\ reg' = [reg EXCEPT !["rax"] = Junk, ![c.r] = e]
          /\ tracker' = Assign(c.t, e, <<"%", c.r>>)
          /\ Close(e)
          /\ UNCHANGED <<memory, env>>
    <3>1. t = tracker /\ e = Top.node /\ Content(Ref) = meaning[last]
      BY <1>2 DEF Operand
    <3> QED
      BY <1>4, <2>1, <3>1 DEF Field, Register
  <2>3. PICK r, w, v, u : r = c.r /\ w = c.t /\ v = <<"%", r>> /\ u = Assign(w, e, v)
    OBVIOUS
  <2>4. /\ reg' = [reg EXCEPT !["rax"] = Junk, ![r] = e] /\ tracker' = u
        /\ frames' = gs /\ last' = e /\ ctl' = "back" /\ meaning' = Put(meaning, e, e)
        /\ UNCHANGED <<mem, stack, totalSize, env>>
    <3>1. gs = Front(frames) /\ e = Top.node
      BY <1>2 DEF Operand
    <3> QED
      BY <2>2, <2>3, <3>1 DEF Close, Pop, memory
  <2>5. Tracks(t, n, fs) /\ Seen(e, n, gs)
    BY <1>2 DEF Operand
  <2>6. /\ Tracks(x, n, fs)
        /\ x.unused = IF a[1] = "%" /\ a[2] \in DOMAIN t.owner THEN t.unused \cup {a[2]}
                      ELSE t.unused
    <3>1. x = RegFree(t, a)
      BY <2>1
    <3> QED
      BY <2>5, <3>1, TracksFree
  <2>7. Tracks(x, n, gs) /\ e \notin DOMAIN x.register
    <3>1. IsList(fs) /\ fs # <<>> /\ gs = Front(fs) /\ f = fs[Len(fs)] /\ e = f.node
      BY <1>2 DEF Operand
    <3> QED
      BY <2>6, <3>1, TracksFront
  <2>8. Answers(x, e, c)
    BY <2>2, <2>7, Answered
  <2>9. /\ Tracks(w, n, gs) /\ r \in GP /\ w.unused \subseteq x.unused
        /\ e \in DOMAIN w.register /\ w.register[e] = r /\ r \in x.unused
    BY <2>3, <2>5, <2>7, <2>8, AnsweredWell
  <2>10. \A y \in x.unused : Free(gs, y)
    <3>1. \A y \in t.unused : Free(gs, y)
      BY <1>2 DEF Operand, Free
    <3>2. a[1] = "%" /\ a[2] \in DOMAIN t.owner => Free(gs, a[2])
      <4>1. a[1] = "%" /\ a[2] \in DOMAIN t.owner => ~Plain(a)
        BY <2>5 DEF Tracks, Plain
      <4> QED
        BY <1>2, <2>1, <4>1 DEF Operand
    <3> QED
      BY <2>6, <3>1, <3>2
  <2>11. /\ Tracks(u, n, gs) /\ u.unused = w.unused /\ u.register = w.register
         /\ e \in DOMAIN u.ref /\ u.ref[e] = v
    BY <2>3, <2>9, TracksAssign
  <2>12. /\ DOMAIN reg' = DOMAIN reg /\ reg'[r] = e
         /\ (\A y \in DOMAIN reg : y # r /\ y # "rax" => reg'[y] = reg[y])
         /\ r # "rdi" /\ r # "rsi" /\ r # "rax" /\ v[1] = "%" /\ v[2] = r /\ ~Plain(v)
         /\ "rdi" \in DOMAIN reg /\ "rsi" \in DOMAIN reg /\ GP \subseteq DOMAIN reg
    BY <1>2, <2>3, <2>4, <2>9, RegisterNames DEF Operand, Plain
  <2>13. \A i \in 1..Len(gs) : Pending(gs[i]) =>
           reg'[gs[i].dest] = reg[gs[i].dest] /\ gs[i].dest \notin u.unused
    <3> SUFFICES ASSUME NEW i \in 1..Len(gs), Pending(gs[i]), NEW y, y = gs[i].dest
                 PROVE  reg'[y] = reg[y] /\ y \notin u.unused
      OBVIOUS
    <3>1. y \in GP
      BY <1>2 DEF Operand
    <3>2. y \notin x.unused
      BY <2>10 DEF Free
    <3> QED
      BY <2>9, <2>11, <2>12, <3>1, <3>2, RegisterNames
  <2>14. At(v, reg', mem') = e /\ (~Plain(v) => Free(gs, v[2]))
    BY <2>9, <2>10, <2>12 DEF At
  <2>15. /\ reg'["rdi"] = -1 /\ reg'["rsi"] = -2 /\ mem' = env'
         /\ f.kind \notin CallKinds /\ nodes' = n
    BY <1>1, <1>2, <2>4, <2>12 DEF Operand, CallKinds
  <2>16. Leaves(t, f, gs, e, n, u, v, e)
    BY <2>3, <2>4, <2>9, <2>11, <2>12, <2>13, <2>14, <2>15 DEF Leaves
  <2> QED
    BY <1>2, <2>16, LeavesWell
<1> QED
  BY <1>3, <1>4

\* Frame e is f with other operands.
SameVisit(e, f) ==
  /\ e.kind = f.kind /\ e.node = f.node /\ e.arity = f.arity /\ e.this = f.this
  /\ e.kind = "call" => e.left = Local

\* Frame e may take the top frame's place: below it no register changes, and its own
\* left operand has a register to itself.
Fits(e, gs, n, mean, rg, u, rh, w) ==
  /\ \A i \in 1..Len(gs) : Pending(gs[i]) =>
       /\ rh[gs[i].dest] = rg[gs[i].dest]
       /\ gs[i].dest \in w => gs[i].dest \in u
  /\ Pending(e) =>
       /\ e.ops[1] \in 1..n /\ e.ops[1] \in DOMAIN mean
       /\ e.dest \in GP /\ rh[e.dest] = mean[e.ops[1]]
       /\ Free(gs, e.dest) /\ (Plain(e.left) => e.dest \notin w)
       /\ (~Plain(e.left) => Free(gs, e.left[2]))

LEMMA Resumes1 ==
  ASSUME NEW fs, IsList(fs), fs # <<>>, Shaped(fs), NEW n, Numbered(fs, n),
         NEW t, Tracks(t, n, fs), NEW u, NEW mean, NEW rg, Kept(fs, u, mean, rg),
         NEW f, f = fs[Len(fs)], NEW gs, gs = Front(fs),
         NEW e, SameVisit(e, f), NEW r, r = [fs EXCEPT ![Len(fs)] = e], NEW w, NEW rh,
         Fits(e, gs, n, mean, rg, u, rh, w)
  PROVE  Shaped(r) /\ Numbered(r, n) /\ Tracks(t, n, r) /\ Kept(r, w, mean, rh)
<1>1. PICK l \in Nat : /\ l = Len(gs) /\ Len(fs) = l + 1 /\ f = fs[l + 1]
                       /\ \A i \in 1..l : gs[i] = fs[i]
  BY Fronted, ListLength
<1>2. Len(r) = Len(fs) /\ r[Len(fs)] = e /\ \A i \in 1..Len(fs) - 1 : r[i] = fs[i]
  BY Replaced
<1>3. /\ Len(r) = l + 1 /\ r[l + 1] = e /\ \A i \in 1..l : r[i] = fs[i] /\ r[i] = gs[i]
      /\ \A i \in 1..l + 1 : i \in 1..l \/ i = l + 1
      /\ \A i \in 1..l : i \in 1..l + 1 /\ i < l + 1 /\ (i < l => i + 1 \in 1..l)
      /\ l + 1 \in 1..l + 1
  <2>1. (l + 1) - 1 = l
    OBVIOUS
  <2> QED
    BY <1>1, <1>2, <2>1
<1>4. Shaped(r)
  <2> SUFFICES ASSUME NEW j \in 1..l + 1
               PROVE  /\ r[j].kind \in {"add", "mul", "neg", "group", "call", "field", "assign"}
                      /\ r[j].kind = "call" => /\ r[j].left = Local /\ r[j].arity \in {0, 1}
                                               /\ j < l + 1 => r[j].ops = <<>>
                      /\ r[j].kind = "group" /\ j < l + 1 => r[j + 1].kind \in GroupKinds
    BY <1>3 DEF Shaped
  <2>1. CASE j = l + 1
    BY <1>1, <1>3, <2>1 DEF Shaped, SameVisit
  <2>2. CASE j \in 1..l
    <3>1. r[j + 1].kind = fs[j + 1].kind
      BY <1>1, <1>3, <2>2 DEF SameVisit
    <3> QED
      BY <1>1, <1>3, <2>2, <3>1 DEF Shaped
  <2> QED
    BY <1>3, <2>1, <2>2
<1>5. Numbered(r, n)
  <2> SUFFICES ASSUME NEW j \in 1..l + 1
               PROVE  /\ r[j].node \in 1..n
                      /\ Pending(r[j]) => r[j].ops[1] \in 1..n
                      /\ \A i \in 1..l + 1 : i < j =>
                           /\ r[i].node < r[j].node
                           /\ Pending(r[i]) => r[i].ops[1] < r[j].node
    BY <1>3 DEF Numbered
  <2>1. r[j].node = fs[j].node
    BY <1>1, <1>3 DEF SameVisit
  <2>2. \A i \in 1..l + 1 : i < j => r[i] = fs[i]
    BY <1>3
  <2>3. r[j] = fs[j] \/ r[j] = e
    BY <1>3
  <2> QED
    BY <1>1, <2>1, <2>2, <2>3 DEF Numbered, Fits
<1>6. \A x : Seen(x, n, fs) => Seen(x, n, r)
  <2>1. \A j \in 1..l + 1 : r[j].node = fs[j].node
    BY <1>1, <1>3 DEF SameVisit
  <2> QED
    BY <1>1, <1>3, <2>1 DEF Seen
<1>7. Tracks(t, n, r)
  BY <1>6 DEF Tracks
<1>8. Kept(r, w, mean, rh)
  <2> SUFFICES ASSUME NEW j \in 1..l + 1, Pending(r[j])
               PROVE  /\ r[j].ops[1] \in DOMAIN mean
                      /\ r[j].dest \in GP /\ rh[r[j].dest] = mean[r[j].ops[1]]
                      /\ \A i \in 1..l + 1 : i < j /\ Pending(r[i]) => r[i].dest # r[j].dest
                      /\ Plain(r[j].left) => r[j].dest \notin w
                      /\ ~Plain(r[j].left) =>
                           /\ j = l + 1
                           /\ \A i \in 1..l + 1 : i < j /\ Pending(r[i]) => r[i].dest # r[j].left[2]
    BY <1>3 DEF Kept
  <2>1. CASE j = l + 1
    <3>1. \A i \in 1..l + 1 : i < j => i \in 1..l /\ r[i] = gs[i]
      BY <1>3, <2>1
    <3> QED
      BY <1>1, <1>3, <2>1, <3>1 DEF Free, Fits
  <2>2. CASE j \in 1..l
    <3>1. j # l + 1 /\ \A i \in 1..l + 1 : i < j => i \in 1..l /\ r[i] = fs[i]
      BY <1>3, <2>2
    <3>2. r[j] = fs[j] /\ r[j] = gs[j] /\ j \in 1..Len(fs) /\ Pending(fs[j])
      BY <1>1, <1>3, <2>2
    <3>3. rh[r[j].dest] = rg[r[j].dest] /\ (r[j].dest \in w => r[j].dest \in u)
      BY <1>1, <2>2, <3>2 DEF Fits
    <3>4. /\ r[j].ops[1] \in DOMAIN mean
          /\ r[j].dest \in GP /\ rg[r[j].dest] = mean[r[j].ops[1]]
          /\ Plain(r[j].left) /\ r[j].dest \notin u
          /\ \A i \in 1..l + 1 : i < j /\ Pending(fs[i]) => fs[i].dest # r[j].dest
      BY <1>1, <3>1, <3>2 DEF Kept
    <3> QED
      BY <3>1, <3>3, <3>4
  <2> QED
    BY <1>3, <2>1, <2>2
<1> QED
  BY <1>4, <1>5, <1>7, <1>8

\* A step that resumes the visit of the top frame as e.
Goes(t, f, fs, gs, n, e, u, r) ==
  /\ ctl' = "emit" /\ frames' = [fs EXCEPT ![Len(fs)] = e] /\ nodes' = n
  /\ UNCHANGED <<last, meaning, env, mem, stack, totalSize>>
  /\ SameVisit(e, f)
  /\ tracker' = u /\ Tracks(u, n, fs)
  /\ reg' = r /\ DOMAIN r = DOMAIN reg /\ r["rsi"] = -2
  /\ IF f.kind = "call" /\ e.ops # <<>> THEN r["rdi"] = meaning[e.ops[1]] ELSE r["rdi"] = -1
  /\ Fits(e, gs, n, meaning, reg, t.unused, r, u.unused)
  /\ Pending(e) /\ ~Plain(e.left) => n > e.node + 1

LEMMA GoesWell ==
  ASSUME Held, PInv, NEW t, NEW f, NEW fs, NEW gs, NEW d, NEW n, Operand(t, f, fs, gs, d, n),
         NEW e, NEW u, NEW r, Goes(t, f, fs, gs, n, e, u, r)
  PROVE  PInv'
<1>1. /\ fs = frames /\ fs # <<>> /\ f = Top /\ gs = Front(fs) /\ n = nodes /\ n \in Nat
      /\ f = fs[Len(fs)] /\ IsList(fs) /\ mem = env /\ t = tracker
      /\ DOMAIN reg = GP \cup {"rax", "rdi", "rsi"}
  BY DEF Operand
<1>2. PICK un, hs, w : un = t.unused /\ hs = frames' /\ w = u.unused
  OBVIOUS
<1>3. /\ Shaped(fs) /\ Numbered(fs, n) /\ Kept(fs, un, meaning, reg)
      /\ \E h : Saved(h, fs, stack, totalSize)
  BY <1>1, <1>2 DEF PInv
<1>4. SameVisit(e, f) /\ hs = [fs EXCEPT ![Len(fs)] = e] /\ Tracks(u, n, fs)
  BY <1>2 DEF Goes
<1>5. Fits(e, gs, n, meaning, reg, un, r, w)
  BY <1>2 DEF Goes
<1>6. f.kind # "method"
  <2>1. Len(fs) \in 1..Len(fs)
    BY <1>1, ListLength
  <2> QED
    BY <1>1, <1>3, <2>1 DEF Shaped
<1>7. PICK h : Saved(h, fs, stack, totalSize)
  BY <1>3
<1>8. Saved(h, hs, stack, totalSize)
  BY <1>1, <1>4, <1>6, <1>7, SavedSame DEF SameVisit
<1>9. Shaped(hs) /\ Numbered(hs, n) /\ Tracks(u, n, hs) /\ Kept(hs, w, meaning, r)
  <2>1. fs # <<>> /\ f = fs[Len(fs)] /\ IsList(fs) /\ gs = Front(fs)
    BY <1>1
  <2>2. PICK mm, rr : mm = meaning /\ rr = reg
    OBVIOUS
  <2>3. Shaped(fs) /\ Numbered(fs, n) /\ Tracks(u, n, fs) /\ Kept(fs, un, mm, rr)
    BY <1>3, <1>4, <2>2
  <2>4. SameVisit(e, f) /\ hs = [fs EXCEPT ![Len(fs)] = e]
    BY <1>4
  <2>5. Fits(e, gs, n, mm, rr, un, r, w)
    BY <1>5, <2>2
  <2>6. Shaped(hs) /\ Numbered(hs, n) /\ Tracks(u, n, hs) /\ Kept(hs, w, mm, r)
    BY <2>1, <2>3, <2>4, <2>5, Resumes1
  <2> QED
    BY <2>2, <2>6
<1>10. Top' = e /\ hs # <<>>
  <2>1. IsList(hs) /\ Len(hs) = Len(fs) /\ hs[Len(fs)] = e
    <3>1. IsList(fs) /\ fs # <<>>
      BY <1>1
    <3>2. hs = [fs EXCEPT ![Len(fs)] = e]
      BY <1>4
    <3> QED
      BY <3>1, <3>2, Replaced
  <2> QED
    BY <1>1, <1>2, <2>1, ListLength DEF Top, Last
<1>11. OnTheRight' => n > e.node + 1
  BY <1>10 DEF OnTheRight, Goes
<1>12. /\ Passing' => (reg["rdi"] = meaning[Top.ops[1]])'
       /\ ~Passing' => (reg["rdi"] = -1)'
  BY <1>2, <1>4, <1>9, <1>10 DEF Passing, Goes, SameVisit
<1>13. /\ ctl' = "emit" /\ nodes' = n /\ mem' = env' /\ reg' = r /\ DOMAIN r = DOMAIN reg
       /\ r["rsi"] = -2 /\ tracker' = u /\ meaning' = meaning
       /\ stack' = stack /\ totalSize' = totalSize
  BY <1>1 DEF Goes
<1>14. (\E g : Saved(g, frames, stack, totalSize))'
  BY <1>2, <1>8, <1>13
<1> QED
  BY <1>1, <1>2, <1>9, <1>10, <1>11, <1>12, <1>13, <1>14 DEF PInv

LEMMA BinaryLeftWell == ASSUME Simple, Held, PInv, BinaryLeft PROVE PInv'
<1>1. /\ ctl = "back" /\ frames # <<>> /\ Top.kind \in {"add", "mul"} /\ Len(Top.ops) = 0
      /\ nodes' = nodes
  BY DEF BinaryLeft, Returned
<1>2. PICK t, f, fs, gs, d, n : Operand(t, f, fs, gs, d, n)
  BY <1>1, OperandBack
<1>3. CASE GiveUp
  BY <1>1, <1>3, GivesUp
<1>4. CASE ~GiveUp
  <2>1. PICK c \in MakeAssignable(t, last) :
          /\ reg' = [reg EXCEPT ![c.r] = Content(Ref)]
          /\ tracker' = IF Ref # <<"%", c.r>> THEN RegOverwrite(c.t, last, c.r) ELSE c.t
          /\ Resume([f EXCEPT !.ops = <<last>>, !.left = Ref, !.dest = c.r])
          /\ UNCHANGED memory
    <3>1. t = tracker /\ f = Top
      BY <1>2 DEF Operand
    <3> QED
      BY <1>4, <3>1 DEF BinaryLeft
  <2>2. PICK a, r, w, o : a = Ref /\ r = c.r /\ w = c.t /\ o = <<last>>
    OBVIOUS
  <2>3. PICK u, e, rh : /\ u = IF a # <<"%", r>> THEN RegOverwrite(w, last, r) ELSE w
                        /\ e = [f EXCEPT !.ops = o, !.left = a, !.dest = r]
                        /\ rh = reg'
    OBVIOUS
  <2>4. IsFrame(f) /\ f.kind \in {"add", "mul"}
    BY <1>1, <1>2 DEF Operand
  <2>5. /\ e.kind = f.kind /\ e.node = f.node /\ e.arity = f.arity /\ e.this = f.this
        /\ e.ops = o /\ e.left = a /\ e.dest = r
    BY <2>3, <2>4 DEF IsFrame
  <2>6. o[1] = last /\ o # <<>> /\ Pending(e)
    BY <2>2, <2>4, <2>5 DEF Pending
  <2>7. ~Pending(f)
    <3>1. f.ops = <<>>
      BY <1>1, <1>2, ListLength DEF IsFrame, Operand
    <3> QED
      BY <3>1 DEF Pending
  <2>8. /\ Tracks(w, n, fs) /\ Tracks(w, n, gs) /\ r \in GP /\ Free(gs, r)
        /\ w.unused \subseteq t.unused
        /\ (last \in DOMAIN t.register /\ a = <<"%", r>> /\ w = t)
           \/ (last \notin DOMAIN t.register /\ r \in t.unused /\ r \notin w.unused)
    BY <1>2, <2>2, <2>7, OperandAnswered
  <2>9. Tracks(u, n, fs) /\ u.unused = w.unused
    <3>1. Seen(last, n, fs)
      BY <1>2 DEF Operand
    <3>2. CASE a # <<"%", r>>
      <4>1. u = RegOverwrite(w, last, r)
        BY <2>3, <3>2
      <4>2. Tracks(w, n, fs) /\ r \in GP
        BY <2>8
      <4> QED
        BY <3>1, <4>1, <4>2, TracksOverwrite
    <3>3. CASE a = <<"%", r>>
      BY <2>3, <2>8, <3>3
    <3> QED
      BY <3>2, <3>3
  <2>10. Content(Ref) = meaning[last] /\ last \in DOMAIN meaning /\ last \in 1..n /\ n \in Nat
         /\ d = f.node /\ d < last /\ (last = n => Plain(a))
    BY <1>2, <2>2 DEF Operand, Seen
  <2>11. /\ rh = [reg EXCEPT ![r] = meaning[last]] /\ DOMAIN rh = DOMAIN reg
         /\ rh[r] = meaning[last] /\ (\A x \in DOMAIN reg : x # r => rh[x] = reg[x])
         /\ r # "rdi" /\ r # "rsi"
         /\ "rdi" \in DOMAIN reg /\ "rsi" \in DOMAIN reg /\ GP \subseteq DOMAIN reg
    BY <1>2, <2>1, <2>2, <2>3, <2>8, <2>10, RegisterNames DEF Operand
  <2>12. Plain(a) => r \notin u.unused
    <3>1. a = <<"%", r>> => ~Plain(a)
      BY <2>8 DEF Plain
    <3> QED
      BY <2>8, <2>9, <3>1
  <2>13. ~Plain(a) => Free(gs, a[2]) /\ n > e.node + 1
    <3>1. ~Plain(a) => Free(gs, a[2])
      BY <1>2, <2>2 DEF Operand
    <3>2. PICK y : y = d /\ y \in Int
      <4>1. f.node \in Int
        <5>1. Len(fs) \in 1..Len(fs) /\ f = fs[Len(fs)] /\ fs = frames /\ n = nodes
          BY <1>2, ListLength DEF Operand
        <5>2. f.node \in 1..n
          BY <5>1 DEF PInv, Numbered
        <5> QED
          BY <2>10, <5>2
      <4> QED
        BY <2>10, <4>1
    <3>3. ~Plain(a) => n > y + 1
      BY <2>10, <3>2
    <3> QED
      BY <2>5, <2>10, <3>1, <3>2, <3>3
  <2>14. \A i \in 1..Len(gs) : Pending(gs[i]) =>
           rh[gs[i].dest] = reg[gs[i].dest] /\ gs[i].dest \notin u.unused
    <3> SUFFICES ASSUME NEW i \in 1..Len(gs), Pending(gs[i]), NEW x, x = gs[i].dest
                 PROVE  rh[x] = reg[x] /\ x \notin u.unused
      OBVIOUS
    <3>1. x \in GP /\ x \notin t.unused /\ x # r
      BY <1>2, <2>8 DEF Operand, Free
    <3> QED
      BY <2>8, <2>9, <2>11, <3>1
  <2>15. Fits(e, gs, n, meaning, reg, t.unused, rh, u.unused)
    BY <2>5, <2>6, <2>8, <2>10, <2>11, <2>12, <2>13, <2>14 DEF Fits
  <2>16. SameVisit(e, f)
    BY <2>4, <2>5 DEF SameVisit
  <2>17. /\ ctl' = "emit" /\ frames' = [fs EXCEPT ![Len(fs)] = e] /\ nodes' = n
         /\ UNCHANGED <<last, meaning, env, mem, stack, totalSize>>
         /\ tracker' = u /\ reg' = rh
    <3>1. fs = frames /\ n = nodes
      BY <1>2 DEF Operand
    <3> QED
      BY <1>1, <2>1, <2>2, <2>3, <3>1 DEF Resume, memory
  <2>18. rh["rsi"] = -2 /\ rh["rdi"] = -1
    BY <1>2, <2>11 DEF Operand
  <2>19. Goes(t, f, fs, gs, n, e, u, rh)
    BY <2>4, <2>5, <2>9, <2>11, <2>13, <2>15, <2>16, <2>17, <2>18 DEF Goes
  <2> QED
    BY <1>2, <2>19, GoesWell
<1> QED
  BY <1>3, <1>4

LEMMA CallArgWell == ASSUME Simple, Held, PInv, CallArg PROVE PInv'
<1>1. /\ ctl = "back" /\ frames # <<>> /\ Top.kind \in CallKinds /\ nodes' = nodes
  BY DEF CallArg, Returned
<1>2. PICK t, f, fs, gs, d, n : Operand(t, f, fs, gs, d, n)
  BY <1>1, OperandBack
<1>3. f.kind = "call" /\ f = Top /\ IsFrame(f) /\ fs = frames /\ n = nodes /\ t = tracker
  <2>1. Len(fs) \in 1..Len(fs) /\ f = fs[Len(fs)] /\ fs = frames
    BY <1>2, ListLength DEF Operand
  <2>2. f.kind \in {"add", "mul", "neg", "group", "call", "field", "assign"}
    BY <2>1 DEF PInv, Shaped
  <2> QED
    BY <1>1, <1>2, <2>2 DEF Operand, CallKinds
<1>4. f.ops = <<>>
  BY <1>1, <1>3 DEF PInv, Passing
<1>5. PICK o : o = Append(f.ops, last) /\ o # <<>> /\ o[1] = last
  <2>1. PICK o : o = Append(f.ops, last)
    OBVIOUS
  <2>2. IsList(f.ops) /\ Len(f.ops) = 0
    BY <1>3, <1>4, Nothing DEF IsFrame
  <2>3. o # <<>> /\ o[Len(o)] = last /\ Len(o) = Len(f.ops) + 1
    BY <2>1, <2>2, Appended
  <2> QED
    BY <2>1, <2>2, <2>3
<1>6. PICK e, a, rh : e = [f EXCEPT !.ops = o] /\ a = Ref /\ rh = reg'
  OBVIOUS
<1>7. /\ e.kind = f.kind /\ e.node = f.node /\ e.arity = f.arity /\ e.this = f.this
      /\ e.ops = o /\ e.left = f.left
  BY <1>3, <1>6 DEF IsFrame
<1>8. Len(f.ops) = 0 /\ ArgRegs[Len(f.ops) + 1] = "rdi"
  <2>1. Len(f.ops) = 0
    BY <1>4, Nothing
  <2> QED
    BY <2>1, RegisterNames
<1>9. PICK u : tracker' = u /\ (u = RegFree(t, a) \/ u = t)
  BY <1>3, <1>6 DEF CallArg
<1>10. /\ rh = [reg EXCEPT !["rdi"] = Content(Ref)] /\ UNCHANGED <<mem, stack, totalSize>>
       /\ Resume(e)
  BY <1>3, <1>5, <1>6, <1>8 DEF CallArg, memory
<1>11. /\ ctl' = "emit" /\ frames' = [fs EXCEPT ![Len(fs)] = e] /\ nodes' = n
       /\ UNCHANGED <<last, meaning, env, mem, stack, totalSize>>
  BY <1>1, <1>3, <1>10 DEF Resume
<1>12. Tracks(t, n, fs)
  BY <1>2 DEF Operand
<1>13. Tracks(u, n, fs) /\ u.unused \subseteq t.unused \cup (IF Plain(a) THEN {} ELSE {a[2]})
  <2>1. CASE u = RegFree(t, a)
    <3>1. Tracks(u, n, fs) /\ (Plain(a) => u = t)
      BY <1>12, <2>1, TracksFree
    <3>2. u.unused = IF a[1] = "%" /\ a[2] \in DOMAIN t.owner THEN t.unused \cup {a[2]}
                     ELSE t.unused
      BY <1>12, <2>1, TracksFree
    <3> QED
      BY <3>1, <3>2
  <2>2. CASE u = t
    BY <1>12, <2>2
  <2> QED
    BY <1>9, <2>1, <2>2
<1>14. /\ DOMAIN rh = DOMAIN reg /\ rh["rdi"] = meaning[last]
       /\ (\A x \in DOMAIN reg : x # "rdi" => rh[x] = reg[x])
       /\ rh["rsi"] = -2 /\ GP \subseteq DOMAIN reg /\ "rdi" \notin GP
  BY <1>2, <1>10, RegisterNames DEF Operand
<1>15. \A i \in 1..Len(gs) : Pending(gs[i]) =>
         rh[gs[i].dest] = reg[gs[i].dest] /\ gs[i].dest \notin u.unused
  <2> SUFFICES ASSUME NEW i \in 1..Len(gs), Pending(gs[i]), NEW x, x = gs[i].dest
               PROVE  rh[x] = reg[x] /\ x \notin u.unused
    OBVIOUS
  <2>1. x \in GP /\ x \notin t.unused /\ (~Plain(a) => x # a[2])
    BY <1>2, <1>6 DEF Operand, Free
  <2> QED
    BY <1>13, <1>14, <2>1
<1>16. ~Pending(e)
  BY <1>3, <1>7 DEF Pending
<1>17. Fits(e, gs, n, meaning, reg, t.unused, rh, u.unused)
  BY <1>15, <1>16 DEF Fits
<1>18. SameVisit(e, f)
  BY <1>2, <1>3, <1>7 DEF SameVisit, Operand
<1>19. Goes(t, f, fs, gs, n, e, u, rh)
  BY <1>3, <1>5, <1>6, <1>7, <1>9, <1>11, <1>13, <1>14, <1>16, <1>17, <1>18 DEF Goes
<1> QED
  BY <1>2, <1>19, GoesWell

\* What a call's frame has pushed.
LEMMA SavedTop ==
  ASSUME Held, PInv, frames # <<>>, NEW f, f = Top, f.kind = "call", f.arity \in {0, 1},
         NEW n, n = Len(stack)
  PROVE  \E k \in Nat, p \in {0, 1} :
           /\ p = IF totalSize % 16 # 0 THEN 1 ELSE 0
           /\ n = k + Words(f, totalSize)
           /\ f.arity = 0 => n = k + p
           /\ f.arity = 1 => n = k + p + 2 /\ stack[k + p + 1].v = -1
<1>1. IsFrame(f) /\ f = frames[Len(frames)] /\ f.this = 0
  BY TopFrame DEF IsFrame
<1>2. Len(frames) \in 1..Len(frames) /\ totalSize \in Nat /\ n \in Nat
  BY ListLength, LocalsAreWords DEF Held, Accounted
<1>3. PICK h : Saved(h, frames, stack, totalSize)
  BY DEF PInv
<1>4. PICK l \in Nat : l + 1 = Len(frames) /\ l \in 0..Len(frames)
  <2>1. PICK q \in Nat : q = Len(frames) /\ q >= 1
    BY <1>2, ListLength DEF Held, Accounted
  <2>2. q - 1 \in Nat /\ (q - 1) + 1 = q /\ q - 1 \in 0..q
    BY <2>1
  <2> QED
    BY <2>1, <2>2
<1>5. (l + 1) - 1 = l
  OBVIOUS
<1>6. PICK p \in {0, 1} : p = IF totalSize % 16 # 0 THEN 1 ELSE 0
  OBVIOUS
<1>7. PICK k \in Nat : k = h[l] /\ n = k + Words(f, totalSize)
  <2>1. /\ h \in [0..Len(frames) -> Nat] /\ h[Len(frames)] = n
        /\ \A i \in 1..Len(frames) : h[i] = h[i - 1] + Words(frames[i], totalSize)
    BY <1>3 DEF Saved, Heights
  <2>2. h[l] \in Nat /\ h[l + 1] = h[(l + 1) - 1] + Words(frames[l + 1], totalSize)
    BY <1>2, <1>4, <2>1
  <2> QED
    BY <1>1, <1>4, <1>5, <2>1, <2>2
<1>8. CASE f.arity = 0
  <2>1. Words(f, totalSize) = p
    <3>1. f.arity - f.this = 0 /\ 0 % 2 = 0
      BY <1>1, <1>8
    <3> QED
      BY <1>1, <1>6, <3>1 DEF Words, CallKinds
  <2> QED
    BY <1>6, <1>7, <1>8, <2>1
<1>9. CASE f.arity = 1
  <2>1. Words(f, totalSize) = p + 2
    BY <1>1, <1>2, <1>6, <1>9, WordsOfCall DEF CallWords
  <2>2. stack[h[(l + 1) - 1] + p + 1].v = -1
    <3>1. \A j \in 1..Len(frames) : frames[j].kind = "call" /\ frames[j].arity = 1 =>
             stack[h[j - 1] + (IF totalSize % 16 # 0 THEN 1 ELSE 0) + 1].v = -1
      BY <1>3 DEF Saved
    <3>2. l + 1 \in 1..Len(frames) /\ frames[l + 1].kind = "call" /\ frames[l + 1].arity = 1
      BY <1>1, <1>2, <1>4, <1>9
    <3>3. stack[h[(l + 1) - 1] + (IF totalSize % 16 # 0 THEN 1 ELSE 0) + 1].v = -1
      BY <3>1, <3>2
    <3> QED
      BY <1>6, <3>3
  <2>3. n = k + p + 2
    BY <1>7, <2>1
  <2> QED
    BY <1>5, <1>6, <1>7, <1>9, <2>2, <2>3
<1> QED
  BY <1>8, <1>9

\* A call ends: what was pushed for it is gone, and %rdi is what it was.
LEMMA CallUnwinds ==
  ASSUME Held, PInv, EndCall, NEW f, f = Top, f.kind = "call", f.arity \in {0, 1},
         NEW gs, gs = Front(frames)
  PROVE  /\ \E h : Saved(h, gs, stack', totalSize')
         /\ f.arity = 1 => Popped(1) = -1
<1>1. /\ frames # <<>> /\ Len(Top.ops) = Top.arity /\ totalSize' = totalSize
      /\ stack' = SubSeq(stack, 1, SavedFrom - Len(Padding(Top.this)) - Top.this)
  BY DEF EndCall, AfterCall, AtCall, Close, Pop
<1>2. IsFrame(f) /\ f = frames[Len(frames)] /\ f.this = 0 /\ IsList(frames) /\ IsList(stack)
      /\ (\A i \in 1..Len(frames) : IsFrame(frames[i])) /\ totalSize \in FrameSizes
  BY <1>1, TopFrame DEF IsFrame, Held, Accounted
<1>3. PICK n : n = Len(stack)
  OBVIOUS
<1>4. PICK k \in Nat, p \in {0, 1} :
           /\ p = IF totalSize % 16 # 0 THEN 1 ELSE 0
           /\ n = k + Words(f, totalSize)
           /\ f.arity = 0 => n = k + p
           /\ f.arity = 1 => n = k + p + 2 /\ stack[k + p + 1].v = -1
  BY <1>1, <1>3, SavedTop
<1>5. PICK z : z = 0
  OBVIOUS
<1>6. PICK d \in {0, 1} : d = (IF z = 0 /\ totalSize % 16 # 0 THEN 1 ELSE 0) /\ d = Len(Padding(z))
  BY <1>2, <1>5, PaddingLength
<1>7. d = p /\ Len(Padding(0)) = p
  BY <1>4, <1>5, <1>6
<1>8. n \in Nat
  BY <1>2, <1>3, ListLength
<1>9. PICK q : q = SavedFrom - Len(Padding(Top.this)) - Top.this
  OBVIOUS
<1>10. q = k /\ (f.arity = 1 => SavedFrom = n - 2)
  <2>1. Len(Padding(Top.this)) = p /\ Top.this = 0
    BY <1>2, <1>7
  <2>2. CASE f.arity = 0
    <3>1. f.arity - f.this = 0 /\ 0 % 2 = 0
      BY <1>2, <2>2
    <3>2. SavedFrom = n
      BY <1>3, <1>8, <3>1 DEF SavedFrom
    <3>3. q = n - p - 0
      BY <1>9, <2>1, <3>2
    <3> QED
      BY <1>4, <1>8, <2>2, <3>3
  <2>3. CASE f.arity = 1
    <3>1. f.arity - f.this = 1 /\ 1 + (1 % 2) = 2
      BY <1>2, <2>3
    <3>2. SavedFrom = n - 2
      BY <1>3, <3>1 DEF SavedFrom
    <3>3. q = (n - 2) - p - 0
      BY <1>9, <2>1, <3>2
    <3> QED
      BY <1>4, <1>8, <2>3, <3>2, <3>3
  <2> QED
    BY <2>2, <2>3
<1>11. stack' = SubSeq(stack, 1, k) /\ k <= n
  <2>1. stack' = SubSeq(stack, 1, k)
    BY <1>1, <1>9, <1>10
  <2>2. PICK w \in Nat : w = Words(f, totalSize)
    BY <1>1, TopFrame
  <2>3. k <= n
    BY <1>4, <1>8, <2>2
  <2> QED
    BY <2>1, <2>3
<1>12. PICK u, m : u = stack' /\ m = Len(u)
  OBVIOUS
<1>13. IsList(u) /\ m = k /\ \A i \in 1..m : u[i] = stack[i]
  <2>1. IsList(stack) /\ k <= Len(stack) /\ u = SubSeq(stack, 1, k)
    BY <1>2, <1>3, <1>11, <1>12
  <2>2. IsList(u) /\ Len(u) = k /\ \A i \in 1..k : u[i] = stack[i]
    BY <2>1, Cut
  <2> QED
    BY <1>12, <2>2
<1>14. \E h : Saved(h, gs, u, totalSize)
  <2>1. PICK size \in Nat : size = totalSize
    BY <1>2, LocalsAreWords
  <2>2. PICK st : st = stack
    OBVIOUS
  <2>3. PICK w \in Nat : w = Words(f, size)
    BY <1>1, <2>1, TopFrame
  <2>4. PICK h : Saved(h, frames, st, size)
    BY <2>1, <2>2 DEF PInv
  <2>5. IsList(st) /\ Len(st) = Len(u) + w /\ \A i \in 1..Len(u) : u[i] = st[i]
    BY <1>2, <1>3, <1>4, <1>12, <1>13, <2>1, <2>2, <2>3
  <2>6. IsList(frames) /\ frames # <<>> /\ (\A i \in 1..Len(frames) : IsFrame(frames[i]))
        /\ f = frames[Len(frames)] /\ IsList(u)
    BY <1>1, <1>2, <1>13
  <2>7. PICK fs : fs = frames
    OBVIOUS
  <2>8. IsList(fs) /\ fs # <<>> /\ (\A i \in 1..Len(fs) : IsFrame(fs[i]))
        /\ f = fs[Len(fs)] /\ gs = Front(fs) /\ Saved(h, fs, st, size)
    BY <2>4, <2>6, <2>7
  <2>9. \E g : Saved(g, gs, u, size)
    BY <2>3, <2>5, <2>6, <2>8, SavedPop
  <2> QED
    BY <2>1, <2>9
<1>15. f.arity = 1 => Popped(1) = -1
  <2> SUFFICES ASSUME f.arity = 1 PROVE Popped(1) = -1
    OBVIOUS
  <2>1. SavedFrom + Top.arity + 1 - 1 = k + p + 1
    BY <1>4, <1>8, <1>10
  <2> QED
    BY <1>4, <2>1 DEF Popped
<1> QED
  BY <1>1, <1>12, <1>14, <1>15

LEMMA EndCallWell == ASSUME Simple, Held, PInv, EndCall PROVE PInv'
<1>1. /\ ctl = "emit" /\ frames # <<>> /\ Top.kind \in CallKinds /\ Len(Top.ops) = Top.arity
      /\ tracker' = Assign(RegFree(tracker, Top.left), Top.node, Rax)
      /\ frames' = Front(frames) /\ last' = Top.node /\ ctl' = "back"
      /\ meaning' = Put(meaning, Top.node, Top.node)
      /\ nodes' = nodes /\ mem' = mem /\ totalSize' = totalSize /\ env' = env
  BY DEF EndCall, AfterCall, AtCall, Close, Pop
<1>2. PICK f, fs, gs, e, t, n : f = Top /\ fs = frames /\ gs = Front(fs) /\ e = f.node
                             /\ t = tracker /\ n = nodes
  OBVIOUS
<1>3. IsFrame(f) /\ f = fs[Len(fs)] /\ IsList(fs) /\ fs # <<>> /\ Len(fs) \in 1..Len(fs)
      /\ gs = frames'
  BY <1>1, <1>2, TopFrame, ListLength DEF Held, Accounted
<1>4. f.kind = "call" /\ f.left = Local /\ f.arity \in {0, 1} /\ f.this = 0
  <2>1. /\ f.kind \in {"add", "mul", "neg", "group", "call", "field", "assign"}
        /\ f.kind = "call" => f.left = Local /\ f.arity \in {0, 1}
    BY <1>2, <1>3 DEF PInv, Shaped
  <2> QED
    BY <1>1, <1>2, <1>3, <2>1 DEF CallKinds, IsFrame
<1>5. /\ \E h : Saved(h, gs, stack', totalSize')
      /\ f.arity = 1 => Popped(1) = -1
  <2>1. gs = Front(frames)
    BY <1>2
  <2> QED
    BY <1>2, <1>4, <2>1, CallUnwinds
<1>6. (f.arity = 1 => reg["rdi"] = meaning[f.ops[1]]) /\ (f.arity = 0 => reg["rdi"] = -1)
  <2>1. Len(f.ops) = f.arity /\ (f.ops = <<>> <=> Len(f.ops) = 0)
    BY <1>1, <1>2, <1>3, ListLength DEF IsFrame
  <2> QED
    BY <1>1, <1>2, <1>4, <2>1 DEF PInv, Passing
<1>7. CallResult = e
  <2>1. \A i \in 1..Top.arity : reg[ArgRegs[i]] = meaning[Top.ops[i]]
    <3> SUFFICES ASSUME NEW i \in 1..Top.arity PROVE reg[ArgRegs[i]] = meaning[Top.ops[i]]
      OBVIOUS
    <3>1. i = 1 /\ f.arity = 1
      BY <1>2, <1>4
    <3> QED
      BY <1>2, <1>6, <3>1, RegisterNames
  <2>2. Top.left[1] # "%"
    BY <1>2, <1>4 DEF Local
  <2> QED
    BY <1>2, <2>1, <2>2 DEF CallResult
<1>8. PICK rh : rh = reg'
  OBVIOUS
<1>9. /\ DOMAIN rh = DOMAIN reg /\ DOMAIN reg = GP \cup {"rax", "rdi", "rsi"}
      /\ rh["rax"] = e /\ rh["rdi"] = -1 /\ rh["rsi"] = -2
      /\ \A r \in GP : rh[r] = reg[r]
  <2> DEFINE at(r) == SelectInSeq(ArgRegs, LAMBDA a : a = r)
             was(r) == IF at(r) \notin 1..Top.arity THEN reg[r]
                       ELSE IF at(r) > Top.this THEN Popped(at(r))
                       ELSE stack[SavedFrom - Len(Padding(1))].v
             regs == [r \in DOMAIN reg |-> was(r)]
  <2>1. reg' = [regs EXCEPT !["rax"] = CallResult]
    BY DEF EndCall, AfterCall
  <2>2. DOMAIN reg = GP \cup {"rax", "rdi", "rsi"} /\ reg["rsi"] = -2
    BY DEF PInv
  <2>3. \A r : at(r) = IF r = "rdi" THEN 1 ELSE IF r = "rsi" THEN 2 ELSE 0
    BY ArgumentAt
  <2> HIDE DEF at
  <2>4. was("rdi") = -1
    <3>1. at("rdi") = 1
      BY <2>3
    <3>2. CASE f.arity = 0
      BY <1>2, <1>6, <3>1, <3>2
    <3>3. CASE f.arity = 1
      BY <1>2, <1>4, <1>5, <3>1, <3>3
    <3> QED
      BY <1>4, <3>2, <3>3
  <2>5. \A r : r # "rdi" => was(r) = reg[r]
    <3> SUFFICES ASSUME NEW r, r # "rdi" PROVE was(r) = reg[r]
      OBVIOUS
    <3>1. at(r) \in {0, 2}
      BY <2>3
    <3>2. at(r) \notin 1..Top.arity
      BY <1>2, <1>4, <3>1
    <3> QED
      BY <3>2
  <2> HIDE DEF was
  <2>6. /\ DOMAIN rh = DOMAIN reg /\ rh["rax"] = e
        /\ \A r \in DOMAIN reg : r # "rax" => rh[r] = was(r)
    BY <1>7, <1>8, <2>1, <2>2
  <2>7. "rdi" # "rax" /\ "rsi" # "rax" /\ "rsi" # "rdi"
    OBVIOUS
  <2>8. \A r \in GP : r # "rax" /\ r # "rdi"
    BY RegisterNames
  <2> QED
    BY <2>2, <2>4, <2>5, <2>6, <2>7, <2>8
<1>10. Tracks(t, n, fs)
  BY <1>2 DEF PInv
<1>11. Tracks(t, n, gs) /\ e \notin DOMAIN t.register
  BY <1>2, <1>3, <1>10, TracksFront
<1>12. PICK u : u = tracker'
  OBVIOUS
<1>13. Tracks(u, n, gs) /\ u.unused = t.unused /\ u.register = t.register
       /\ e \in DOMAIN u.ref /\ u.ref[e] = Rax
  <2>1. PICK v, a, z : v = Rax /\ a = Local /\ z = RegFree(t, a)
    OBVIOUS
  <2>2. Plain(a)
    BY <2>1 DEF Plain, Local
  <2>3. z = RegFree(t, a)
    BY <2>1
  <2>4. z = t
    BY <1>11, <2>2, <2>3, TracksFree
  <2>5. u = Assign(t, e, v)
    BY <1>1, <1>2, <1>4, <1>12, <2>1, <2>4
  <2>6. Tracks(t, n, gs)
    BY <1>11
  <2> HIDE <2>1
  <2>7. Tracks(u, n, gs) /\ u.unused = t.unused /\ u.register = t.register
        /\ e \in DOMAIN u.ref /\ u.ref[e] = v
    BY <2>5, <2>6, TracksAssign
  <2> QED
    BY <2>1, <2>7
<1>14. \A i \in 1..Len(gs) : Pending(gs[i]) =>
           /\ rh[gs[i].dest] = reg[gs[i].dest]
           /\ gs[i].dest \in u.unused => gs[i].dest \in tracker.unused
  <2> SUFFICES ASSUME NEW i \in 1..Len(gs), Pending(gs[i]) PROVE gs[i].dest \in GP
    BY <1>2, <1>9, <1>13
  <2>1. Len(fs) = Len(gs) + 1 /\ gs[i] = fs[i] /\ Len(gs) \in Nat
    BY <1>2, <1>3, Fronted, ListLength
  <2>2. i \in 1..Len(fs) /\ Pending(fs[i])
    BY <2>1
  <2> QED
    BY <1>2, <2>1, <2>2 DEF PInv, Kept
<1>15. PICK v, m : v = Rax /\ m = e
  OBVIOUS
<1>16. Plain(v) /\ At(v, rh, mem') = e
  <2>1. v[1] = "%" /\ v[2] = "rax"
    BY <1>15 DEF Rax
  <2> QED
    BY <1>9, <2>1, RegisterNames DEF At, Plain
<1>17. f.kind \notin GroupKinds
  BY <1>4 DEF Simple
<1>18. /\ last' = e /\ ctl' = "back" /\ nodes' = nodes /\ mem' = env'
       /\ meaning' = Put(meaning, e, m) /\ u = tracker' /\ Tracks(u, nodes, gs)
       /\ e \in DOMAIN u.ref /\ u.ref[e] = v /\ At(v, reg', mem') = m
       /\ e \in DOMAIN u.register => v = <<"%", u.register[e]>>
  BY <1>1, <1>2, <1>8, <1>11, <1>12, <1>13, <1>15, <1>16 DEF PInv
<1>19. DOMAIN reg' = DOMAIN reg /\ reg'["rdi"] = -1 /\ reg'["rsi"] = -2
       /\ gs = frames' /\ gs = Front(frames) /\ f = Top /\ e = f.node
  BY <1>2, <1>3, <1>8, <1>9
<1>20. \A i \in 1..Len(gs) : Pending(gs[i]) =>
         /\ reg'[gs[i].dest] = reg[gs[i].dest]
         /\ gs[i].dest \in u.unused => gs[i].dest \in tracker.unused
  BY <1>8, <1>14
<1>21. ~Plain(v) => Free(gs, v[2]) /\ e < nodes
  BY <1>16
<1> HIDE <1>2, <1>8, <1>12, <1>15
<1> QED
  BY <1>1, <1>5, <1>17, <1>18, <1>19, <1>20, <1>21, ClosedWell

-----------------------------------------------------------------------------
(* Visits begin. *)

LEMMA VisitWell ==
  ASSUME Simple, Held, PInv, NEW k, Visit(k)
  PROVE  /\ ctl = "emit" /\ ~Passing /\ reg["rdi"] = -1 /\ nodes' = nodes + 1
         /\ frames # <<>> => /\ Top.kind = "group" => k \in GroupKinds
                             /\ Top.kind = "call" => Top.ops = <<>>
                             /\ OnTheRight => nodes = Top.node + 1 \/ k \in LeafKinds
<1>1. ctl = "emit" /\ nodes' = nodes + 1 /\ (frames # <<>> => MayFollow(k, Top))
  BY DEF Visit
<1>2. ASSUME frames # <<>>
      PROVE  /\ Top.kind = "group" => k \in GroupKinds
             /\ Top.kind = "call" => Top.ops = <<>>
             /\ OnTheRight => nodes = Top.node + 1 \/ k \in LeafKinds
  <2>1. PICK f : f = Top /\ IsFrame(f) /\ f = frames[Len(frames)]
    BY <1>2, TopFrame
  <2>2. MayFollow(k, f)
    BY <1>1, <1>2, <2>1
  <2>3. Top.kind = "group" => k \in GroupKinds
    <3> SUFFICES ASSUME f.kind = "group" PROVE k \in GroupKinds
      BY <2>1
    <3> QED
      BY <2>2 DEF MayFollow, BinaryOps, Receiving, CallKinds
  <2>4. Top.kind = "call" => Top.ops = <<>>
    <3> SUFFICES ASSUME f.kind = "call" PROVE f.ops = <<>>
      BY <2>1
    <3>1. Len(frames) \in 1..Len(frames)
      BY <1>2, ListLength DEF Held, Accounted
    <3>2. f.arity \in {0, 1} /\ f.this = 0
      BY <2>1, <3>1 DEF PInv, Shaped, IsFrame
    <3>3. Len(f.ops) \in Nat /\ (f.ops = <<>> <=> Len(f.ops) = 0)
      BY <2>1, ListLength DEF IsFrame
    <3>4. Len(f.ops) < f.arity
      <4>1. Len(f.ops) >= f.this
        BY <3>2, <3>3
      <4> QED
        BY <2>2, <4>1 DEF MayFollow, BinaryOps, Receiving, CallKinds
    <3> QED
      BY <3>2, <3>3, <3>4
  <2>5. OnTheRight => nodes = Top.node + 1 \/ k \in LeafKinds
    <3> SUFFICES ASSUME OnTheRight PROVE nodes = Top.node + 1 \/ k \in LeafKinds
      OBVIOUS
    <3>1. f.kind \in {"add", "mul"} /\ f.ops # <<>>
      BY <2>1 DEF OnTheRight, Pending
    <3>2. OneSided => nodes = f.node + 1 \/ k \in LeafKinds
      BY <2>2, <3>1 DEF MayFollow, BinaryOps, Receiving, CallKinds
    <3>3. OneSided
      BY DEF Simple
    <3> QED
      BY <2>1, <3>2, <3>3
  <2> QED
    BY <2>3, <2>4, <2>5
<1>3. ~Passing
  BY <1>2 DEF Passing
<1> QED
  BY <1>1, <1>2, <1>3 DEF PInv

\* A leaf is where v says.
LEMMA LeafWell ==
  ASSUME Simple, Held, PInv, NEW k \in LeafKinds, NEW v, NEW m, Leaf(k, v, m),
         Plain(v), At(v, reg, mem) = m
  PROVE  PInv'
<1>1. /\ Visit(k) /\ tracker' = Assign(tracker, nodes', v) /\ meaning' = Put(meaning, nodes', m)
      /\ last' = nodes' /\ ctl' = "back"
      /\ UNCHANGED <<frames, reg, mem, stack, totalSize, env>>
  BY DEF Leaf, Visit, machine, memory
<1>2. /\ ~Passing /\ reg["rdi"] = -1 /\ nodes' = nodes + 1
      /\ frames # <<>> /\ Top.kind = "group" => k \in GroupKinds
  BY <1>1, VisitWell
<1>3. PICK fs, n, t, u, e : /\ fs = frames /\ n = nodes /\ n \in Nat
                            /\ t = tracker /\ u = tracker' /\ e = nodes'
  BY DEF PInv
<1>4. e = n + 1 /\ u = Assign(t, e, v)
  BY <1>1, <1>2, <1>3
<1>5. Numbered(fs, n) /\ Tracks(t, n, fs) /\ Kept(fs, t.unused, meaning, reg) /\ Shaped(fs)
  BY <1>3 DEF PInv
<1>6. Numbered(fs, n + 1) /\ Tracks(t, n + 1, fs)
  BY <1>3, <1>5, OneMore
<1>7. Tracks(u, e, fs) /\ u.unused = t.unused /\ u.register = t.register
      /\ e \in DOMAIN u.ref /\ u.ref[e] = v
  <2>1. PICK q : q = n + 1
    OBVIOUS
  <2>2. Tracks(t, q, fs)
    BY <1>6, <2>1
  <2>3. u = Assign(t, e, v)
    BY <1>4
  <2>4. Tracks(u, q, fs) /\ u.unused = t.unused /\ u.register = t.register
        /\ e \in DOMAIN u.ref /\ u.ref[e] = v
    BY <2>2, <2>3, TracksAssign
  <2> QED
    BY <1>4, <2>1, <2>4
<1>8. e \notin DOMAIN u.register
  BY <1>3, <1>4, <1>5, <1>7 DEF Tracks, Seen
<1>9. e \in DOMAIN meaning' /\ meaning'[e] = m /\ DOMAIN meaning \subseteq DOMAIN meaning'
  BY <1>1, <1>3, PutAt
<1>10. Kept(fs, u.unused, meaning', reg')
  <2>1. PICK w, x, me, rh : w = t.unused /\ x = u.unused /\ me = meaning' /\ rh = reg'
    OBVIOUS
  <2>2. \A i \in 1..Len(fs) : Pending(fs[i]) =>
           /\ rh[fs[i].dest] = reg[fs[i].dest]
           /\ me[fs[i].ops[1]] = meaning[fs[i].ops[1]]
           /\ fs[i].dest \in x => fs[i].dest \in w
    <3> SUFFICES ASSUME NEW i \in 1..Len(fs), Pending(fs[i])
                 PROVE  me[fs[i].ops[1]] = meaning[fs[i].ops[1]]
      BY <1>1, <1>7, <2>1
    <3>1. PICK y : y = fs[i].ops[1]
      OBVIOUS
    <3>2. y \in DOMAIN meaning /\ y \in 1..n
      BY <1>5, <3>1 DEF Kept, Numbered
    <3>3. y # e
      BY <1>3, <1>4, <3>2
    <3>4. Put(meaning, e, m)[y] = meaning[y]
      BY <3>2, <3>3, PutElsewhere
    <3> QED
      BY <1>1, <1>3, <2>1, <3>1, <3>4
  <2>3. Kept(fs, w, meaning, reg) /\ DOMAIN meaning \subseteq DOMAIN me
    BY <1>5, <1>9, <2>1
  <2> HIDE <2>1
  <2>4. Kept(fs, x, me, rh)
    BY <2>2, <2>3, KeptStays
  <2> QED
    BY <2>1, <2>4
<1>11. Top' = Top /\ Passing' = Passing /\ Ref' = v /\ Content(Ref)' = m
  <2>1. Ref' = v
    BY <1>1, <1>3, <1>7 DEF Ref
  <2>2. Content(Ref)' = m
    BY <1>1, <2>1 DEF Content, At
  <2> QED
    BY <1>1, <2>1, <2>2 DEF Top, Passing
<1>12. k \notin GroupKinds
  BY DEF LeafKinds, Simple
<1>13. FoundWhere'
  <2>1. /\ (last \in DOMAIN tracker.ref)' /\ (last \in DOMAIN meaning)'
        /\ Content(Ref)' = meaning'[last']
    BY <1>1, <1>3, <1>7, <1>9, <1>11
  <2>2. (last \in DOMAIN tracker.register => Ref = <<"%", tracker.register[last]>>)'
    BY <1>1, <1>3, <1>8
  <2>3. Plain(Ref)'
    BY <1>11
  <2>4. (frames # <<>> /\ Top.kind = "group" => ~Plain(Ref))'
    BY <1>1, <1>2, <1>11, <1>12
  <2> QED
    BY <2>1, <2>2, <2>3, <2>4 DEF FoundWhere
<1>14. (last \in 1..nodes /\ \A i \in 1..Len(frames) : frames[i].node < last)'
  <2>1. \A i \in 1..Len(fs) : fs[i].node < e
    BY <1>3, <1>4, <1>5 DEF Numbered
  <2> QED
    BY <1>1, <1>3, <1>4, <2>1
<1>15. (Shaped(frames) /\ Numbered(frames, nodes) /\ Tracks(tracker, nodes, frames)
         /\ Kept(frames, tracker.unused, meaning, reg))'
  BY <1>1, <1>3, <1>4, <1>5, <1>6, <1>7, <1>10
<1>16. (\E h : Saved(h, frames, stack, totalSize))'
  BY <1>1 DEF PInv
<1>17. (nodes \in Nat /\ mem = env /\ DOMAIN reg = GP \cup {"rax", "rdi", "rsi"} /\ reg["rsi"] = -2
        /\ reg["rdi"] = -1 /\ ~Passing /\ ctl = "back")'
  BY <1>1, <1>2, <1>3, <1>4, <1>11 DEF PInv
<1> QED
  BY <1>13, <1>14, <1>15, <1>16, <1>17 DEF PInv

LEMMA LeavesFound ==
  ASSUME Simple, Held, PInv, NumLiteral \/ Variable \/ ThisLeaf PROVE PInv'
<1>1. /\ "lit" \in LeafKinds /\ "local" \in LeafKinds /\ "param" \in LeafKinds
      /\ "this" \in LeafKinds
  BY DEF LeafKinds
<1>2. ASSUME NEW k, NEW v, NEW m, Leaf(k, v, m)
      PROVE  reg["rdi"] = -1 /\ reg["rsi"] = -2 /\ mem = env
  BY <1>2, VisitWell DEF Leaf, PInv
<1>3. CASE NumLiteral
  <2>1. PICK k, v, m : k = "lit" /\ v = <<"$", nodes + 1>> /\ m = nodes + 1
    OBVIOUS
  <2>2. k \in LeafKinds /\ Plain(v) /\ At(v, reg, mem) = m /\ Leaf(k, v, m)
    BY <1>1, <1>3, <2>1 DEF NumLiteral, Plain, At
  <2> QED
    BY <2>2, LeafWell
<1>4. CASE Leaf("local", Local, env)
  <2>1. PICK k, v, m : k = "local" /\ v = Local /\ m = env
    OBVIOUS
  <2>2. k \in LeafKinds /\ Plain(v) /\ At(v, reg, mem) = m /\ Leaf(k, v, m)
    BY <1>1, <1>2, <1>4, <2>1 DEF Local, Plain, At
  <2> QED
    BY <2>2, LeafWell
<1>5. CASE \E i \in This + 1..This + Params : Leaf("param", <<"%", ArgRegs[i]>>, -i)
  <2>1. PICK i \in This + 1..This + Params : Leaf("param", <<"%", ArgRegs[i]>>, -i)
    BY <1>5
  <2>2. PICK k, v, m : k = "param" /\ v = <<"%", ArgRegs[i]>> /\ m = -i
    OBVIOUS
  <2>3. i \in {1, 2}
    BY DEF Simple
  <2>4. Leaf(k, v, m) /\ k \in LeafKinds
    BY <1>1, <2>1, <2>2
  <2>5. reg["rdi"] = -1 /\ reg["rsi"] = -2
    BY <1>2, <2>4
  <2>6. Plain(v) /\ At(v, reg, mem) = m
    BY <2>2, <2>3, <2>5, RegisterNames DEF Plain, At
  <2> QED
    BY <2>4, <2>6, LeafWell
<1>6. CASE ThisLeaf
  <2>1. PICK k, v, m : k = "this" /\ v = Register("rdi") /\ m = -1
    OBVIOUS
  <2>2. Leaf(k, v, m) /\ k \in LeafKinds
    BY <1>1, <1>6, <2>1 DEF ThisLeaf
  <2>3. reg["rdi"] = -1
    BY <1>2, <2>2
  <2>4. Plain(v) /\ At(v, reg, mem) = m
    BY <2>1, <2>3, RegisterNames DEF Plain, At, Register
  <2> QED
    BY <2>2, <2>4, LeafWell
<1> QED
  BY <1>3, <1>4, <1>5, <1>6 DEF Variable

LEMMA JoinedAt ==
  ASSUME NEW t, IsList(t), NEW u, IsList(u), NEW r, r = t \o u
  PROVE  /\ \A i \in 1..Len(t) : r[i] = t[i]
         /\ \A j \in 1..Len(u) : r[Len(t) + j] = u[j]
<1>1. PICK S : t \in Seq(S) /\ u \in Seq(S)
  BY ListCommon
<1>2. Len(t) \in Nat /\ Len(u) \in Nat
  BY ListLength
<1>3. \A i \in 1..Len(t) + Len(u) : r[i] = IF i <= Len(t) THEN t[i] ELSE u[i - Len(t)]
  BY <1>1, ConcatProperties
<1>4. PICK l \in Nat, m \in Nat : l = Len(t) /\ m = Len(u)
  BY <1>2
<1>5. \A i \in 1..l + m : r[i] = IF i <= l THEN t[i] ELSE u[i - l]
  BY <1>3, <1>4
<1>6. \A i \in 1..l : r[i] = t[i]
  <2> SUFFICES ASSUME NEW i \in 1..l PROVE r[i] = t[i]
    OBVIOUS
  <2>1. i \in 1..l + m /\ i <= l
    OBVIOUS
  <2> QED
    BY <1>5, <2>1
<1>7. \A j \in 1..m : r[l + j] = u[j]
  <2> SUFFICES ASSUME NEW j \in 1..m PROVE r[l + j] = u[j]
    OBVIOUS
  <2>1. l + j \in 1..l + m /\ ~(l + j <= l) /\ (l + j) - l = j
    OBVIOUS
  <2> QED
    BY <1>5, <2>1
<1> QED
  BY <1>4, <1>6, <1>7

\* A call saves %rdi above the padding.
LEMMA SavesFirst ==
  ASSUME totalSize \in FrameSizes, NEW s, s = Saves(0, 1), NEW p \in Nat, p = Len(Padding(0))
  PROVE  s[p + 1] = Pushed("rdi") /\ p + 1 \in 1..Len(s)
<1>1. PICK o, z : o = 1 /\ z = 0
  OBVIOUS
<1> DEFINE q == [i \in 1..o |-> Pushed(ArgRegs[z + i])]
           y == IF o % 2 = 1 THEN <<Pushed("rbx")>> ELSE <<>>
           a == Padding(z)
<1>2. s = (a \o q) \o y
  BY <1>1 DEF Saves
<1>3. IsList(q) /\ Len(q) = 1 /\ q[1] = Pushed("rdi")
  <2> DEFINE S == {q[i] : i \in 1..o}
  <2>1. q \in [1..o -> S] /\ o \in Nat
    BY <1>1
  <2>2. q[1] = Pushed("rdi")
    BY <1>1, RegisterNames
  <2> HIDE DEF S
  <2>3. q \in Seq(S)
    BY <2>1, SeqDef
  <2>4. Len(q) = 1
    BY <1>1, <2>1
  <2> QED
    BY <2>2, <2>3, <2>4, ListOf
<1>4. IsList(y)
  BY OneElement, Nothing
<1>5. IsList(a) /\ Len(a) = p
  BY <1>1, PaddingLength
<1> HIDE DEF q, y, a
<1>6. PICK b : b = a \o q
  OBVIOUS
<1>7. IsList(b) /\ Len(b) = Len(a) + Len(q)
  BY <1>3, <1>5, <1>6, ListsJoined
<1>8. b[Len(a) + 1] = q[1]
  <2>1. \A j \in 1..Len(q) : b[Len(a) + j] = q[j]
    BY <1>3, <1>5, <1>6, JoinedAt
  <2> QED
    BY <1>3, <2>1
<1>9. s = b \o y
  BY <1>2, <1>6
<1>10. \A i \in 1..Len(b) : s[i] = b[i]
  BY <1>4, <1>7, <1>9, JoinedAt
<1>11. p + 1 \in 1..Len(b) /\ Len(b) = p + 1
  BY <1>3, <1>5, <1>7
<1>12. Len(s) = Len(b) + Len(y)
  BY <1>4, <1>7, <1>9, ListsJoined
<1>13. Len(y) \in Nat
  BY <1>4, ListLength
<1> QED
  BY <1>3, <1>5, <1>8, <1>10, <1>11, <1>12, <1>13

\* The visit of an expression with operands begins.
LEMMA OpenWell ==
  ASSUME Simple, Held, PInv, NEW k, Visit(k),
         k \in {"add", "mul", "neg", "group", "call", "field", "assign"},
         NEW f, f.kind = k, f.node = nodes', f.ops = <<>>,
         k = "call" => f.left = Local /\ f.arity \in {0, 1},
         frames' = Append(frames, f),
         UNCHANGED <<ctl, last, meaning, tracker, reg, mem, totalSize>>,
         NEW gs, gs = frames', NEW u, u = stack', \E h : Saved(h, gs, u, totalSize)
  PROVE  PInv'
<1>1. /\ ctl = "emit" /\ ~Passing /\ reg["rdi"] = -1 /\ nodes' = nodes + 1 /\ env' = env
      /\ frames # <<>> => /\ Top.kind = "group" => k \in GroupKinds
                          /\ Top.kind = "call" => Top.ops = <<>>
                          /\ OnTheRight => nodes = Top.node + 1 \/ k \in LeafKinds
  BY VisitWell DEF Visit
<1>2. k \notin LeafKinds
  BY DEF LeafKinds
<1>3. PICK fs, n, t, w : /\ fs = frames /\ n = nodes /\ n \in Nat /\ t = tracker
                         /\ w = tracker.unused
  BY DEF PInv
<1>4. IsList(fs)
  BY <1>3 DEF Held, Accounted
<1>5. fs # <<>> => /\ fs[Len(fs)].kind = "call" => fs[Len(fs)].ops = <<>>
                   /\ fs[Len(fs)].kind = "group" => f.kind \in GroupKinds
                   /\ Pending(fs[Len(fs)]) => Plain(fs[Len(fs)].left)
  <2> SUFFICES ASSUME fs # <<>>
               PROVE  /\ Top.kind = "call" => Top.ops = <<>>
                      /\ Top.kind = "group" => f.kind \in GroupKinds
                      /\ Pending(Top) => Plain(Top.left)
    BY <1>3, TopFrame
  <2>1. ~OnTheRight
    <3> SUFFICES ASSUME OnTheRight PROVE FALSE
      OBVIOUS
    <3>1. nodes = Top.node + 1
      BY <1>1, <1>2, <1>3
    <3>2. nodes > Top.node + 1
      BY <1>1 DEF PInv
    <3> QED
      BY <1>3, <3>1, <3>2
  <2> QED
    BY <1>1, <1>3, <2>1 DEF OnTheRight
<1>6. Shaped(fs) /\ Numbered(fs, n) /\ Tracks(t, n, fs) /\ Kept(fs, w, meaning, reg)
  BY <1>3 DEF PInv
<1>7. f.node = n + 1 /\ gs = Append(fs, f) /\ f.kind = k
  BY <1>1, <1>3
<1>8. /\ f.kind \in {"add", "mul", "neg", "group", "call", "field", "assign"}
      /\ f.kind = "call" => f.left = Local /\ f.arity \in {0, 1}
  OBVIOUS
<1>9. Shaped(gs) /\ Numbered(gs, n + 1) /\ Tracks(t, n + 1, gs) /\ Kept(gs, w, meaning, reg)
  <2>1. PICK mean, rg : mean = meaning /\ rg = reg
    OBVIOUS
  <2>2. Kept(fs, w, mean, rg)
    BY <1>6, <2>1
  <2>3. n \in Nat
    BY <1>3
  <2>4. gs = Append(fs, f)
    BY <1>7
  <2>5. f.node = n + 1 /\ f.ops = <<>>
    BY <1>7
  <2> HIDE <2>1
  <2>6. Shaped(gs) /\ Numbered(gs, n + 1) /\ Tracks(t, n + 1, gs) /\ Kept(gs, w, mean, rg)
    BY <1>4, <1>5, <1>6, <1>8, <2>2, <2>3, <2>4, <2>5, Pushes1
  <2> QED
    BY <2>1, <2>6
<1>10. Top' = f
  <2>1. gs # <<>> /\ gs[Len(gs)] = f
    BY <1>4, <1>7, Appended
  <2> QED
    BY <2>1 DEF Top, Last
<1>11. ~Passing' /\ ~OnTheRight'
  BY <1>10 DEF Passing, OnTheRight, Pending
<1>12. (Shaped(frames) /\ Numbered(frames, nodes) /\ Tracks(tracker, nodes, frames)
         /\ Kept(frames, tracker.unused, meaning, reg))'
  <2>1. nodes' = n + 1 /\ frames' = gs /\ tracker' = t /\ t.unused = w
    BY <1>1, <1>3
  <2> QED
    BY <1>9, <2>1
<1>13. (\E h : Saved(h, frames, stack, totalSize))'
  OBVIOUS
<1>14. (nodes \in Nat /\ mem = env /\ DOMAIN reg = GP \cup {"rax", "rdi", "rsi"} /\ reg["rsi"] = -2
        /\ reg["rdi"] = -1 /\ ctl = "emit")'
  BY <1>1, <1>3 DEF PInv
<1> QED
  BY <1>11, <1>12, <1>13, <1>14 DEF PInv

\* What is pushed for the visit is known.
LEMMA OpensSaved ==
  ASSUME Held, PInv, NEW f, IsFrame(f), NEW gs, gs = Append(frames, f), NEW p, IsList(p),
         Len(p) = Words(f, totalSize), NEW u, u = stack \o p,
         NEW d, d = IF totalSize % 16 # 0 THEN 1 ELSE 0,
         CallWords(f) => p[d + 1].v = -1 /\ d + 1 \in 1..Len(p)
  PROVE  \E h : Saved(h, gs, u, totalSize)
<1>1. PICK fs, size, st : fs = frames /\ size = totalSize /\ st = stack
  OBVIOUS
<1>2. IsList(fs) /\ (\A i \in 1..Len(fs) : IsFrame(fs[i])) /\ IsList(st) /\ size \in Nat
  BY <1>1, LocalsAreWords DEF Held, Accounted
<1>3. PICK h : Saved(h, fs, st, size)
  BY <1>1 DEF PInv
<1>4. PICK w : w = Len(p)
  OBVIOUS
<1>5. w \in Nat /\ w = Words(f, size) /\ gs = Append(fs, f) /\ d = IF size % 16 # 0 THEN 1 ELSE 0
  BY <1>1, <1>4, ListLength
<1>6. IsList(u) /\ Len(u) = Len(st) + w
  BY <1>1, <1>2, <1>4, ListsJoined
<1>7. \A i \in 1..Len(st) : u[i] = st[i]
  BY <1>1, <1>2, JoinedAt
<1>8. CallWords(f) => u[Len(st) + d + 1].v = -1
  <2> SUFFICES ASSUME CallWords(f) PROVE u[Len(st) + d + 1].v = -1
    OBVIOUS
  <2>1. \A j \in 1..Len(p) : u[Len(st) + j] = p[j]
    BY <1>1, <1>2, JoinedAt
  <2>2. u[Len(st) + (d + 1)].v = -1
    BY <2>1
  <2>3. Len(st) + (d + 1) = Len(st) + d + 1
    BY <1>2, <1>5, ListLength
  <2> QED
    BY <2>2, <2>3
<1>9. \E g : Saved(g, gs, u, size)
  <2>1. IsList(fs) /\ IsList(st) /\ size \in Nat /\ Saved(h, fs, st, size)
    BY <1>2, <1>3
  <2>2. \A i \in 1..Len(fs) : IsFrame(fs[i])
    BY <1>2
  <2>3. w \in Nat /\ w = Words(f, size)
    BY <1>5
  <2>4. gs = Append(fs, f)
    BY <1>5
  <2>5. Pads(d, size)
    BY <1>5 DEF Pads
  <2>6. Begins(f, st, u, d)
    BY <1>8 DEF Begins
  <2> QED
    BY <1>6, <1>7, <2>1, <2>2, <2>3, <2>4, <2>5, <2>6, SavedPush
<1> QED
  BY <1>1, <1>9

LEMMA OpensWell ==
  ASSUME Simple, Held, PInv, OpenAny \/ OpenMember PROVE PInv'
<1>1. ASSUME NEW k, Open(k), k \in {"add", "mul", "neg", "group", "field", "assign"}
      PROVE  PInv'
  <2>1. PICK f : f = Frame(k, 0, 0)
    OBVIOUS
  <2>2. /\ Visit(k) /\ frames' = Append(frames, f)
        /\ UNCHANGED <<ctl, last, meaning, tracker, reg, mem, stack, totalSize>>
    BY <1>1, <2>1 DEF Open, memory
  <2>3. f.kind = k /\ f.node = nodes' /\ f.ops = <<>> /\ IsFrame(f) /\ f.kind \notin CallKinds
    BY <1>1, <2>1, NewFrame DEF Frame, CallKinds
  <2>4. PICK p, gs, u : p = <<>> /\ gs = Append(frames, f) /\ u = stack \o p
    OBVIOUS
  <2>5. IsList(p) /\ Len(p) = 0
    BY <2>4, Nothing
  <2>6. PICK d : d = IF totalSize % 16 # 0 THEN 1 ELSE 0
    OBVIOUS
  <2>7. Len(p) = Words(f, totalSize) /\ ~CallWords(f)
    BY <2>3, <2>5 DEF Words, CallWords, CallKinds
  <2>8. \E h : Saved(h, gs, u, totalSize)
    <3>1. gs = Append(frames, f) /\ u = stack \o p
      BY <2>4
    <3>2. IsList(p) /\ Len(p) = Words(f, totalSize)
      BY <2>5, <2>7
    <3> QED
      BY <2>3, <2>6, <2>7, <3>1, <3>2, OpensSaved
  <2>9. u = stack
    <3>1. PICK S : stack \in Seq(S)
      BY DEF Held, Accounted, IsList
    <3> QED
      BY <2>4, <3>1
  <2>10. k \in {"add", "mul", "neg", "group", "call", "field", "assign"} /\ k # "call"
    BY <1>1
  <2>11. gs = frames' /\ u = stack'
    BY <2>2, <2>4, <2>9
  <2> QED
    BY <2>2, <2>3, <2>8, <2>10, <2>11, OpenWell
<1>2. ASSUME NEW n \in 0..MaxArgs, OpenCall(n) PROVE PInv'
  <2>1. PICK f : f = Frame("call", n, 0)
    OBVIOUS
  <2>2. n \in {0, 1}
    BY ArgsAreCounted DEF Simple
  <2>3. PICK k, p, u, gs : k = "call" /\ p = Saves(0, n) /\ u = stack \o p /\ gs = Append(frames, f)
    OBVIOUS
  <2>4. /\ Visit(k) /\ frames' = gs /\ stack' = u
        /\ UNCHANGED <<ctl, last, meaning, tracker, reg, mem, totalSize>>
    BY <1>2, <2>1, <2>3 DEF OpenCall
  <2>5. /\ f.kind = k /\ f.node = nodes' /\ f.ops = <<>> /\ IsFrame(f) /\ f.left = Local
        /\ f.arity = n /\ f.this = 0
    <3>1. f.node = nodes' /\ f.left = Local
      BY <2>1 DEF Frame
    <3>2. IsFrame(f) /\ f.kind = "call" /\ f.arity = n /\ f.this = 0 /\ f.ops = <<>>
      BY <2>1, <2>2, NewFrame
    <3> QED
      BY <2>3, <3>1, <3>2
  <2>6. PICK d \in {0, 1} : d = IF totalSize % 16 # 0 THEN 1 ELSE 0
    OBVIOUS
  <2>7. totalSize \in FrameSizes /\ d = Len(Padding(0))
    <3>1. PICK z : z = 0
      OBVIOUS
    <3>2. totalSize \in FrameSizes
      BY DEF Held, Accounted
    <3>3. PICK e \in {0, 1} : e = (IF z = 0 /\ totalSize % 16 # 0 THEN 1 ELSE 0)
                              /\ e = Len(Padding(z))
      BY <3>1, <3>2, PaddingLength
    <3> QED
      BY <2>6, <3>1, <3>2, <3>3
  <2>8. IsList(p) /\ Len(p) = d + n + (n % 2)
    <3>1. PICK z : z = 0
      OBVIOUS
    <3>2. IsList(p) /\ Len(p) = (IF z = 0 /\ totalSize % 16 # 0 THEN 1 ELSE 0) + n + (n % 2)
      BY <2>2, <2>3, <2>7, <3>1, SavesLength
    <3> QED
      BY <2>6, <3>1, <3>2
  <2>9. Words(f, totalSize) = d + n + (n % 2)
    <3>1. n - 0 = n
      BY <2>2
    <3> QED
      BY <2>3, <2>5, <2>6, <3>1 DEF Words, CallKinds
  <2>10. CallWords(f) => p[d + 1].v = -1 /\ d + 1 \in 1..Len(p)
    <3> SUFFICES ASSUME CallWords(f) PROVE p[d + 1].v = -1 /\ d + 1 \in 1..Len(p)
      OBVIOUS
    <3>1. p = Saves(0, 1)
      BY <2>3, <2>5 DEF CallWords
    <3>2. p[d + 1] = Pushed("rdi") /\ d + 1 \in 1..Len(p)
      BY <2>7, <3>1, SavesFirst
    <3>3. reg["rdi"] = -1
      BY <2>4, VisitWell
    <3> QED
      BY <3>2, <3>3 DEF Pushed
  <2>11. Len(p) = Words(f, totalSize)
    BY <2>8, <2>9
  <2>12. \E h : Saved(h, gs, u, totalSize)
    BY <2>3, <2>5, <2>6, <2>8, <2>10, <2>11, OpensSaved
  <2>13. k \in {"add", "mul", "neg", "group", "call", "field", "assign"} /\ f.arity \in {0, 1}
         /\ frames' = Append(frames, f)
    BY <2>2, <2>3, <2>4, <2>5
  <2> QED
    BY <2>4, <2>5, <2>12, <2>13, OpenWell
<1>3. ASSUME NEW k, Open(k)
      PROVE  k \in {"lit", "local", "param", "this", "add", "mul", "neg", "group", "call",
                    "field", "assign"}
  BY <1>3 DEF Open, Visit, Simple
<1>4. CASE \E k \in BinaryOps \cup {"neg", "group", "assign"} : Open(k)
  <2>1. PICK k \in BinaryOps \cup {"neg", "group", "assign"} : Open(k)
    BY <1>4
  <2>2. k \in {"add", "mul", "neg", "group", "field", "assign"}
    BY <1>3, <2>1 DEF BinaryOps
  <2> QED
    BY <1>1, <2>1, <2>2
<1>5. CASE OpenMember
  <2>1. PICK k \in {"field", "set", "index", "setindex"} : Open(k)
    BY <1>5 DEF OpenMember
  <2>2. k \in {"add", "mul", "neg", "group", "field", "assign"}
    BY <1>3, <2>1
  <2> QED
    BY <1>1, <2>1, <2>2
<1> QED
  BY <1>2, <1>4, <1>5 DEF OpenAny

-----------------------------------------------------------------------------
(* Statements: no visit is in progress. *)

LEMMA BetweenVisits ==
  ASSUME Held, PInv, frames = <<>>, frames' = frames, ctl' \in {"stmt", "emit"}, nodes' = nodes,
         mem' = env', DOMAIN reg' = DOMAIN reg, reg'["rdi"] = -1, reg'["rsi"] = -2,
         NEW t, t = tracker', Tracks(t, nodes, frames),
         UNCHANGED <<stack, totalSize>> \/ (stack' = <<>> /\ totalSize' \in FrameSizes)
  PROVE  PInv'
<1>1. Len(frames') = 0 /\ frames' = <<>>
  BY Nothing
<1>2. PICK fs : fs = frames' /\ Len(fs) = 0
  BY <1>1
<1>3. Shaped(fs) /\ Numbered(fs, nodes') /\ Kept(fs, tracker'.unused, meaning', reg')
  BY <1>2 DEF Shaped, Numbered, Kept
<1>4. ~Passing' /\ ~OnTheRight'
  BY <1>1 DEF Passing, OnTheRight
<1>5. \E h : Saved(h, fs, stack', totalSize')
  <2>1. CASE UNCHANGED <<stack, totalSize>>
    BY <1>2, <2>1 DEF PInv
  <2>2. CASE stack' = <<>> /\ totalSize' \in FrameSizes
    <3> DEFINE h == [i \in 0..0 |-> 0]
    <3>1. Len(stack') = 0
      BY <2>2, Nothing
    <3>2. Heights(h, fs, 0, totalSize')
      BY <1>2 DEF Heights
    <3>3. \A i, j \in 0..Len(fs) : i <= j => h[i] <= h[j]
      BY <1>2
    <3> HIDE DEF h
    <3>4. Saved(h, fs, stack', totalSize')
      BY <1>2, <3>1, <3>2, <3>3 DEF Saved
    <3> QED
      BY <3>4
  <2> QED
    BY <2>1, <2>2
<1>6. (nodes \in Nat /\ mem = env /\ DOMAIN reg = GP \cup {"rax", "rdi", "rsi"} /\ reg["rsi"] = -2
        /\ reg["rdi"] = -1 /\ ctl # "back" /\ Tracks(tracker, nodes, frames))'
  BY DEF PInv
<1> QED
  BY <1>1, <1>2, <1>3, <1>4, <1>5, <1>6 DEF PInv

\* What a statement finds.
Ended(t, n, fs) ==
  /\ ctl = "back" /\ frames = <<>> /\ nodes' = nodes
  /\ reg["rdi"] = -1 /\ reg["rsi"] = -2 /\ DOMAIN reg = GP \cup {"rax", "rdi", "rsi"}
  /\ mem = env /\ Content(Ref) = meaning[last]
  /\ t = tracker /\ n = nodes /\ fs = frames /\ Tracks(t, n, fs) /\ Seen(last, n, fs)

LEMMA AtEnd ==
  ASSUME Held, PInv, NEW k, Finished(k)
  PROVE  \E t, n, fs : Ended(t, n, fs)
<1>1. ctl = "back" /\ frames = <<>> /\ nodes' = nodes
  BY DEF Finished
<1>2. PICK t, n, fs : t = tracker /\ n = nodes /\ fs = frames
  OBVIOUS
<1>3. ~Passing /\ Len(fs) = 0
  BY <1>1, <1>2, Nothing DEF Passing
<1>4. Seen(last, n, fs)
  BY <1>1, <1>2, <1>3 DEF PInv, Seen
<1> QED
  BY <1>1, <1>2, <1>3, <1>4 DEF PInv, FoundWhere, Ended

\* A register is acquired for a value.
LEMMA EndAnswered ==
  ASSUME NEW t, NEW n, NEW fs, Tracks(t, n, fs), NEW e, Seen(e, n, fs), NEW c,
         c \in MakeAssignable(t, e) \/ c \in AcquireRegister(t, e),
         NEW u, u = c.t, NEW r, r = c.r
  PROVE  Tracks(u, n, fs) /\ r \in GP
<1>1. Answers(t, e, c)
  BY Answered
<1> QED
  BY <1>1, AnsweredWell

LEMMA StatementWell ==
  ASSUME Simple, Held, PInv,
         \/ ExprStmt \/ PrintStmt \/ ReturnStmt \/ IfStmt \/ WhileStmt \/ VarStmt
         \/ ArrayStmt \/ DefaultVar \/ (\E k \in StmtKinds : Begin(k))
  PROVE  PInv'
<1>1. ASSUME NEW k, Finished(k), UNCHANGED <<frames, mem, stack, totalSize, env>>,
             reg' = reg \/ (\E v : reg' = Library(v)), ctl' = "stmt",
             tracker' = ResetRegisters(tracker) \/ tracker' = RegFree(tracker, Ref)
      PROVE  PInv'
  <2>1. PICK t, n, fs : Ended(t, n, fs)
    BY <1>1, AtEnd
  <2> USE DEF Ended
  <2>2. PICK u, v : u = tracker' /\ v = Ref
    OBVIOUS
  <2>3. u = ResetRegisters(t) \/ u = RegFree(t, v)
    BY <1>1, <2>1, <2>2
  <2>4. Tracks(t, n, fs)
    BY <2>1
  <2>5. Tracks(u, n, fs)
    <3>1. CASE u = ResetRegisters(t)
      BY <2>4, <3>1, TracksReset
    <3>2. CASE u = RegFree(t, v)
      BY <2>4, <3>2, TracksFree
    <3> QED
      BY <2>3, <3>1, <3>2
  <2>7. reg'["rdi"] = -1 /\ reg'["rsi"] = -2 /\ DOMAIN reg' = DOMAIN reg
    <3>1. "rdi" \notin Scratch /\ "rsi" \notin Scratch
      BY ScratchAssumption, RegisterNames
    <3>2. ASSUME NEW w, reg' = Library(w)
          PROVE  reg'["rdi"] = -1 /\ reg'["rsi"] = -2 /\ DOMAIN reg' = DOMAIN reg
      BY <2>1, <3>1, <3>2 DEF Library
    <3> QED
      BY <1>1, <2>1, <3>2
  <2>6. u = tracker' /\ Tracks(u, nodes, frames) /\ mem' = env' /\ reg'["rdi"] = -1
        /\ reg'["rsi"] = -2 /\ DOMAIN reg' = DOMAIN reg /\ ctl' \in {"stmt", "emit"}
        /\ UNCHANGED <<stack, totalSize>> /\ frames' = frames
    BY <1>1, <2>1, <2>2, <2>5, <2>7
  <2> QED
    BY <2>1, <2>6, BetweenVisits
<1>2. CASE ExprStmt
  BY <1>1, <1>2 DEF ExprStmt, EndStmt, machine, memory
<1>3. CASE PrintStmt
  BY <1>1, <1>3 DEF PrintStmt, EndStmt, memory
<1>5. CASE ReturnStmt
  <2>1. PICK k : k = "return" /\ Finished(k)
    BY <1>5 DEF ReturnStmt
  <2>2. PICK t, n, fs : Ended(t, n, fs)
    BY <2>1, AtEnd
  <2> USE DEF Ended
  <2>3. /\ t = tracker' /\ Tracks(t, nodes, frames) /\ mem' = env' /\ ctl' \in {"stmt", "emit"}
        /\ frames' = frames /\ stack' = <<>> /\ totalSize' \in FrameSizes /\ reg' = CallerRegs
    BY <1>5, <2>2 DEF ReturnStmt, EndStmt
  <2>4. reg'["rdi"] = -1 /\ reg'["rsi"] = -2 /\ DOMAIN reg' = DOMAIN reg
    BY <2>2, <2>3, CallerHolds
  <2> QED
    BY <2>2, <2>3, <2>4, BetweenVisits
<1>6. CASE IfStmt
  <2>1. PICK k : k = "if" /\ Finished(k)
    BY <1>6 DEF IfStmt
  <2>2. PICK t, n, fs : Ended(t, n, fs)
    BY <2>1, AtEnd
  <2> USE DEF Ended
  <2>3. CASE GiveUp
    BY <2>2, <2>3, GivesUp
  <2>4. CASE ~GiveUp
    <3>1. PICK c \in MakeAssignable(tracker, last) :
            /\ reg' = [reg EXCEPT ![c.r] = Content(Ref)]
            /\ tracker' = RegFree(IF Ref # <<"%", c.r>> THEN RegFree(c.t, Ref) ELSE c.t,
                                  <<"%", c.r>>)
            /\ EndStmt
            /\ UNCHANGED <<memory, env>>
      BY <1>6, <2>4 DEF IfStmt
    <3>0. PICK w, x, rg, y, e, r : w = Ref /\ x = c.t /\ rg = reg' /\ y = <<"%", c.r>>
                                   /\ e = last /\ r = c.r
      OBVIOUS
    <3>2. PICK z : z = IF w # y THEN RegFree(x, w) ELSE x
      OBVIOUS
    <3>3. c \in MakeAssignable(t, e) \/ c \in AcquireRegister(t, e)
      BY <2>2, <3>0, <3>1
    <3>4. x = c.t /\ r = c.r
      BY <3>0
    <3>10. Tracks(t, n, fs) /\ Seen(e, n, fs)
      BY <2>2, <3>0
    <3>11. Tracks(x, n, fs) /\ r \in GP
      BY <3>3, <3>4, <3>10, EndAnswered
    <3>5. Tracks(x, n, fs) /\ DOMAIN rg = DOMAIN reg /\ rg["rdi"] = -1 /\ rg["rsi"] = -2
      BY <2>2, <3>0, <3>1, <3>11, RegisterNames
    <3>6. Tracks(z, n, fs)
      <4>1. Tracks(x, n, fs)
        BY <3>5
      <4>2. CASE z = RegFree(x, w)
        BY <4>1, <4>2, TracksFree
      <4> QED
        BY <3>2, <4>1, <4>2
    <3>7. PICK u : u = RegFree(z, y)
      OBVIOUS
    <3>8. Tracks(u, n, fs)
      BY <3>6, <3>7, TracksFree
    <3>9. u = tracker' /\ Tracks(u, nodes, frames) /\ mem' = env' /\ reg'["rdi"] = -1
          /\ reg'["rsi"] = -2 /\ DOMAIN reg' = DOMAIN reg /\ ctl' \in {"stmt", "emit"}
          /\ UNCHANGED <<stack, totalSize>> /\ frames' = frames
      BY <2>2, <3>0, <3>1, <3>2, <3>5, <3>7, <3>8 DEF EndStmt, memory
    <3> QED
      BY <2>2, <3>9, BetweenVisits
  <2> QED
    BY <2>3, <2>4
<1>7. CASE WhileStmt
  <2>1. PICK k : k = "while" /\ Finished(k)
    BY <1>7 DEF WhileStmt
  <2>2. PICK t, n, fs : Ended(t, n, fs)
    BY <2>1, AtEnd
  <2> USE DEF Ended
  <2>3. CASE GiveUp
    BY <2>2, <2>3, GivesUp
  <2>4. CASE ~GiveUp
    <3>1. PICK c \in IF Ref[1] = "%" THEN {[t |-> tracker, r |-> Ref[2]]}
                     ELSE AcquireRegister(tracker, last) :
            /\ reg' = [reg EXCEPT ![c.r] = Content(Ref)]
            /\ tracker' = RegFree(c.t, <<"%", c.r>>)
            /\ EndStmt
            /\ UNCHANGED <<memory, env>>
      BY <1>7, <2>4 DEF WhileStmt
    <3>2. PICK v, x, rg, y : v = Content(Ref) /\ x = c.t /\ rg = reg' /\ y = <<"%", c.r>>
      OBVIOUS
    <3>3. rg = [reg EXCEPT ![c.r] = v] /\ x = c.t
      BY <3>1, <3>2
    <3>4. Tracks(x, n, fs) /\ DOMAIN rg = DOMAIN reg /\ rg["rdi"] = -1 /\ rg["rsi"] = -2
      <4>1. CASE Ref[1] = "%"
        <5>1. c.t = tracker /\ c.r = Ref[2]
          BY <3>1, <4>1
        <5>2. v = reg[c.r]
          BY <3>2, <4>1, <5>1 DEF Content
        <5> QED
          BY <2>2, <3>3, <5>1, <5>2
      <4>2. CASE Ref[1] # "%"
        <5>1. PICK e, r : e = last /\ r = c.r
          OBVIOUS
        <5>2. c \in MakeAssignable(t, e) \/ c \in AcquireRegister(t, e)
          BY <2>2, <3>1, <4>2, <5>1
        <5>3. Tracks(t, n, fs) /\ Seen(e, n, fs)
          BY <2>2, <5>1
        <5>4. x = c.t /\ r = c.r
          BY <3>3, <5>1
        <5>5. Tracks(x, n, fs) /\ r \in GP
          BY <5>2, <5>3, <5>4, EndAnswered
        <5> QED
          BY <2>2, <3>3, <5>1, <5>5, RegisterNames
      <4> QED
        BY <4>1, <4>2
    <3>5. PICK u : u = RegFree(x, y)
      OBVIOUS
    <3>6. Tracks(u, n, fs)
      <4>1. Tracks(x, n, fs)
        BY <3>4
      <4> QED
        BY <3>5, <4>1, TracksFree
    <3>7. u = tracker' /\ Tracks(u, nodes, frames) /\ mem' = env' /\ reg'["rdi"] = -1
          /\ reg'["rsi"] = -2 /\ DOMAIN reg' = DOMAIN reg /\ ctl' \in {"stmt", "emit"}
          /\ UNCHANGED <<stack, totalSize>> /\ frames' = frames
      BY <2>2, <3>1, <3>2, <3>4, <3>5, <3>6 DEF EndStmt, memory
    <3> QED
      BY <2>2, <3>7, BetweenVisits
  <2> QED
    BY <2>3, <2>4
<1>8. CASE VarStmt
  <2>1. PICK k : k = "var" /\ Finished(k)
    BY <1>8 DEF VarStmt
  <2>2. PICK t, n, fs : Ended(t, n, fs)
    BY <2>1, AtEnd
  <2> USE DEF Ended
  <2>3. CASE GiveUp
    BY <2>2, <2>3, GivesUp
  <2>4. CASE ~GiveUp
    <3>0. PICK a, b : a = Ref /\ b = RegFree(tracker, a)
      OBVIOUS
    <3>1. PICK c \in IF Ref[1] \in {"%", "$"} THEN {[t |-> b, r |-> "rax"]}
                     ELSE AcquireRegister(b, last) :
            /\ reg' = IF Ref[1] \in {"%", "$"} THEN reg ELSE [reg EXCEPT ![c.r] = Content(Ref)]
            /\ mem' = Content(Ref)
            /\ env' = meaning[last]
            /\ tracker' = c.t
            /\ EndStmt
            /\ UNCHANGED <<stack, totalSize>>
      BY <1>8, <2>4, <3>0 DEF VarStmt
    <3>2. Tracks(b, n, fs)
      <4>1. b = RegFree(t, a)
        BY <2>2, <3>0
      <4>2. Tracks(t, n, fs)
        BY <2>2
      <4> QED
        BY <4>1, <4>2, TracksFree
    <3>3. PICK v, x, rg : v = Content(Ref) /\ x = c.t /\ rg = reg'
      OBVIOUS
    <3>4. Tracks(x, n, fs) /\ DOMAIN rg = DOMAIN reg /\ rg["rdi"] = -1 /\ rg["rsi"] = -2
      <4>1. CASE Ref[1] \notin {"%", "$"}
        <5>1. PICK e, r : e = last /\ r = c.r
          OBVIOUS
        <5>2. c \in MakeAssignable(b, e) \/ c \in AcquireRegister(b, e)
          BY <3>1, <4>1, <5>1
        <5>3. Seen(e, n, fs)
          BY <2>2, <5>1
        <5>4. x = c.t /\ r = c.r
          BY <3>3, <5>1
        <5>5. Tracks(x, n, fs) /\ r \in GP
          BY <3>2, <5>2, <5>3, <5>4, EndAnswered
        <5> QED
          BY <2>2, <3>1, <3>3, <4>1, <5>1, <5>5, RegisterNames
      <4>2. CASE Ref[1] \in {"%", "$"}
        <5>1. c.t = b
          BY <3>1, <4>2
        <5> QED
          BY <2>2, <3>1, <3>2, <3>3, <4>2, <5>1
      <4> QED
        BY <4>1, <4>2
    <3>5. x = tracker' /\ Tracks(x, nodes, frames) /\ mem' = env' /\ reg'["rdi"] = -1
          /\ reg'["rsi"] = -2 /\ DOMAIN reg' = DOMAIN reg /\ ctl' \in {"stmt", "emit"}
          /\ UNCHANGED <<stack, totalSize>> /\ frames' = frames
      BY <2>2, <3>1, <3>3, <3>4 DEF EndStmt
    <3> QED
      BY <2>2, <3>5, BetweenVisits
  <2> QED
    BY <2>3, <2>4
<1>9. CASE ArrayStmt
  <2>1. PICK k : k = "array" /\ Finished(k)
    BY <1>9 DEF ArrayStmt
  <2>2. PICK t, n, fs : Ended(t, n, fs)
    BY <2>1, AtEnd
  <2> USE DEF Ended
  <2>3. PICK u, v : u = tracker' /\ v = Rax
    OBVIOUS
  <2>4. Tracks(u, n, fs)
    <3>1. u = RegFree(t, v)
      BY <1>9, <2>2, <2>3 DEF ArrayStmt
    <3>2. Tracks(t, n, fs)
      BY <2>2
    <3> QED
      BY <3>1, <3>2, TracksFree
  <2>5. reg' = Library(Address(last)) /\ mem' = env' /\ EndStmt /\ UNCHANGED <<stack, totalSize>>
    BY <1>9 DEF ArrayStmt
  <2>6. reg'["rdi"] = -1 /\ reg'["rsi"] = -2 /\ DOMAIN reg' = DOMAIN reg
    <3>1. "rdi" \notin Scratch /\ "rsi" \notin Scratch
      BY ScratchAssumption, RegisterNames
    <3> QED
      BY <2>2, <2>5, <3>1 DEF Library
  <2>7. u = tracker' /\ Tracks(u, nodes, frames) /\ ctl' \in {"stmt", "emit"} /\ frames' = frames
    BY <2>2, <2>3, <2>4, <2>5 DEF EndStmt
  <2> QED
    BY <2>2, <2>5, <2>6, <2>7, BetweenVisits
<1>10. CASE DefaultVar \/ \E k \in StmtKinds : Begin(k)
  <2>1. /\ ctl = "stmt" /\ ctl' \in {"stmt", "emit"}
        /\ mem = env => mem' = env'
        /\ UNCHANGED <<frames, nodes, reg, tracker, stack, totalSize>>
    BY <1>10 DEF DefaultVar, Begin, machine, memory
  <2>2. frames = <<>> /\ mem = env /\ ~Passing
    BY <2>1 DEF PInv, Passing
  <2>3. PICK t : t = tracker' /\ Tracks(t, nodes, frames) /\ reg'["rdi"] = -1
                 /\ reg'["rsi"] = -2 /\ DOMAIN reg' = DOMAIN reg /\ mem' = env'
    BY <2>1, <2>2 DEF PInv
  <2> QED
    BY <2>1, <2>2, <2>3, BetweenVisits
<1> QED
  BY <1>2, <1>3, <1>5, <1>6, <1>7, <1>8, <1>9, <1>10

-----------------------------------------------------------------------------
(* Where every step leaves the values. *)

LEMMA StartsWell == ASSUME Init PROVE PInv
<1>1. /\ ctl = "stmt" /\ frames = <<>> /\ nodes = 0 /\ mem = env /\ reg = CallerRegs
      /\ stack = <<>> /\ tracker = Tracker0
  BY DEF Init
<1>2. Len(frames) = 0 /\ Len(stack) = 0
  BY <1>1, Nothing
<1>3. ~Passing /\ ~OnTheRight
  BY <1>1 DEF Passing, OnTheRight
<1>4. Shaped(frames) /\ Numbered(frames, nodes) /\ Kept(frames, tracker.unused, meaning, reg)
  BY <1>2 DEF Shaped, Numbered, Kept
<1>5. Tracks(tracker, nodes, frames)
  <2>1. DOMAIN <<>> = {}
    BY Nothing, ListLength
  <2> QED
    BY <1>1, <2>1 DEF Tracks, Tracker0, IsTracker
<1>6. \E h : Saved(h, frames, stack, totalSize)
  <2> DEFINE h == [i \in 0..0 |-> 0]
  <2>1. Heights(h, frames, 0, totalSize)
    BY <1>2 DEF Heights
  <2>2. \A i, j \in 0..Len(frames) : i <= j => h[i] <= h[j]
    BY <1>2
  <2> HIDE DEF h
  <2>3. Saved(h, frames, stack, totalSize)
    BY <1>2, <2>1, <2>2 DEF Saved
  <2> QED
    BY <2>3
<1> QED
  BY <1>1, <1>3, <1>4, <1>5, <1>6, CallerHolds DEF PInv

\* No string is being printed.
NoPuts == stmt # "puts"

LEMMA StepPrintsNone ==
  ASSUME Simple, NoPuts, ObjectsNext PROVE NoPuts'
<1>1. ASSUME NEW k, Visit(k) PROVE NoPuts'
  BY <1>1 DEF Visit, NoPuts
<1>2. ASSUME NEW k, NEW n, Returned(k, n) PROVE NoPuts'
  BY <1>2 DEF Returned, NoPuts
<1>3. ASSUME NEW k, Finished(k) PROVE NoPuts'
  BY <1>3 DEF Finished, NoPuts
<1>4. CASE NumLiteral \/ Variable \/ OpenAny \/ StrLiteral \/ ThisLeaf
  BY <1>1, <1>4 DEF NumLiteral, Variable, OpenAny, Open, OpenCall, StrLiteral, ThisLeaf, Leaf
<1>5. CASE OpenMember \/ OpenMethod \/ OpenNew
  BY <1>1, <1>5 DEF OpenMember, Open, OpenMethod, OpenNew
<1>6. CASE Grouping \/ Unary \/ BinaryLeft \/ BinaryRight \/ LogicalLeft \/ LogicalRight
  BY <1>2, <1>6 DEF Grouping, Unary, BinaryLeft, BinaryRight, LogicalLeft, LogicalRight
<1>7. CASE Assignment \/ CallArg \/ Receiver \/ Field \/ SetObject \/ SetField
  BY <1>2, <1>7 DEF Assignment, CallArg, Receiver, Field, SetObject, SetField
<1>8. CASE NextOperand \/ GetIndex \/ SetIndex
  BY <1>2, <1>8 DEF NextOperand, GetIndex, SetIndex
<1>9. CASE UnknownRef \/ EndCall
  BY <1>9 DEF UnknownRef, EndCall, AfterCall, NoPuts
<1>10. CASE ExprStmt \/ PrintStmt \/ ReturnStmt \/ IfStmt \/ WhileStmt \/ VarStmt
  BY <1>3, <1>10 DEF ExprStmt, PrintStmt, ReturnStmt, IfStmt, WhileStmt, VarStmt
<1>11. CASE PutsStmt \/ ArrayStmt
  BY <1>3, <1>11 DEF PutsStmt, ArrayStmt
<1>12. CASE DefaultVar \/ \E k \in StmtKinds : Begin(k)
  BY <1>12 DEF DefaultVar, Begin, NoPuts, Simple
<1> QED
  BY <1>4, <1>5, <1>6, <1>7, <1>8, <1>9, <1>10, <1>11, <1>12 DEF ObjectsNext, Next

\* The steps that are left in a simple program.
LEMMA SimpleSteps ==
  ASSUME Simple, Held, PInv, NoPuts, ObjectsNext
  PROVE  \/ NumLiteral \/ Variable \/ ThisLeaf \/ OpenAny \/ OpenMember
         \/ UnknownRef \/ Grouping \/ Unary \/ BinaryLeft \/ BinaryRight
         \/ Assignment \/ CallArg \/ EndCall \/ Field
         \/ ExprStmt \/ PrintStmt \/ ReturnStmt \/ IfStmt \/ WhileStmt \/ VarStmt
         \/ ArrayStmt \/ DefaultVar \/ (\E k \in StmtKinds : Begin(k))
<1>1. ASSUME frames # <<>>
      PROVE  Top.kind \in {"add", "mul", "neg", "group", "call", "field", "assign"}
  <2>1. Len(frames) \in 1..Len(frames) /\ Top = frames[Len(frames)]
    BY <1>1, TopFrame, ListLength DEF Held, Accounted
  <2> QED
    BY <2>1 DEF PInv, Shaped
<1>2. ASSUME NEW k \in {"and", "method", "set", "index", "setindex"}, NEW n, Returned(k, n)
      PROVE  FALSE
  BY <1>1, <1>2 DEF Returned
<1>3. ASSUME NEW k \in {"str", "method", "new"}, Visit(k) PROVE FALSE
  BY <1>3 DEF Visit, Simple
<1>4. ~(LogicalLeft \/ LogicalRight)
  BY <1>2 DEF LogicalLeft, LogicalRight
<1>5. ~(StrLiteral \/ OpenMethod \/ OpenNew)
  BY <1>3 DEF StrLiteral, OpenMethod, OpenNew, Leaf
<1>6. ~(Receiver \/ SetObject \/ SetField)
  BY <1>2 DEF Receiver, SetObject, SetField
<1>7. ~(NextOperand \/ GetIndex \/ SetIndex)
  BY <1>2 DEF NextOperand, GetIndex, SetIndex
<1>8. ~PutsStmt
  BY DEF PutsStmt, Finished, NoPuts
<1> QED
  BY <1>4, <1>5, <1>6, <1>7, <1>8 DEF ObjectsNext, Next

LEMMA StepWell == ASSUME Simple, Held, PInv, NoPuts, ObjectsNext PROVE PInv'
<1>1. CASE UnknownRef
  BY <1>1, GivesUp DEF UnknownRef
<1> QED
  BY <1>1, SimpleSteps, LeavesFound, OpensWell, GroupingWell, UnaryWell, BinaryLeftWell,
     BinaryRightWell, AssignmentWell, CallArgWell, EndCallWell, FieldWell, StatementWell

LEMMA StayWell == ASSUME PInv, UNCHANGED vars PROVE PInv'
<1>1. UNCHANGED <<ctl, frames, last, nodes, meaning, tracker, reg, mem, stack, totalSize, env>>
  BY DEF vars, control, machine, memory
<1>2. Top' = Top /\ Ref' = Ref
  BY <1>1 DEF Top, Ref
<1>3. Passing' = Passing /\ OnTheRight' = OnTheRight /\ Content(Ref)' = Content(Ref)
  BY <1>1, <1>2 DEF Passing, OnTheRight, Content
<1>4. FoundWhere' = FoundWhere
  BY <1>1, <1>2, <1>3 DEF FoundWhere
<1> QED
  BY <1>1, <1>2, <1>3, <1>4 DEF PInv

LEMMA StaysWell == ASSUME Simple PROVE ObjectsSpec => [](Held /\ PInv /\ NoPuts)
<1>1. Init => Held /\ PInv /\ NoPuts
  BY NoFrames, StartsWell DEF Init, Held, NoPuts
<1>2. Held /\ PInv /\ NoPuts /\ [ObjectsNext]_vars => (Held /\ PInv /\ NoPuts)'
  <2>1. CASE UNCHANGED vars
    <3>1. (Held => Held') /\ (NoPuts => NoPuts')
      BY <2>1 DEF vars, control, machine, memory, Held, NoPuts
    <3> QED
      BY <2>1, <3>1, StayWell
  <2> QED
    BY <2>1, StepHeld, StepWell, StepPrintsNone
<1> QED
  BY <1>1, <1>2, PTL DEF ObjectsSpec

(* In a simple program, which prints no string, whatever the number of registers and
   the size of its expressions and statements, every expression that has been visited has a
   reference, and what is there is what the source means: no register with an
   operand is given away, and each argument and result is where the other side
   looks for it (codegen.h:36-133, codegen.cc:350-463, 579-671). *)
THEOREM ValuesAreFound == ASSUME Simple PROVE ObjectsSpec => []RefHolds
<1>1. PInv => RefHolds
  BY DEF PInv, FoundWhere, RefHolds, Evaluated
<1> QED
  BY <1>1, StaysWell, PTL

(* In a simple program every parameter is in its register again when a statement
   ends: each call has popped what it pushed, from where it pushed it, and so has
   a print of a number. One of a string saves the first parameter only, and simple
   programs have none (codegen.cc:139-189, 611-669). *)
THEOREM ParametersAreKept == ASSUME Simple PROVE ObjectsSpec => []ParamsKept
<1>1. Simple /\ PInv => ParamsKept
  <2> SUFFICES ASSUME Simple, PInv, ctl = "stmt", NEW i \in 1..This + Params
               PROVE  reg[ArgRegs[i]] = -i
    BY DEF ParamsKept
  <2>1. frames = <<>> /\ i \in {1, 2}
    BY DEF PInv, Simple
  <2>2. reg["rdi"] = -1 /\ reg["rsi"] = -2
    BY <2>1 DEF PInv, Passing
  <2> QED
    BY <2>1, <2>2, RegisterNames
<1> QED
  BY <1>1, StaysWell, PTL

-----------------------------------------------------------------------------
(* What is given back. *)

\* Simple programs in which what takes a register gives it back, and two registers.
Frugal ==
  /\ Simple /\ ~NestedAssign
  /\ "neg" \notin LeftKinds \cup NegKinds
  /\ StmtKinds \subseteq {"expr", "print", "if", "while"}
  /\ \E r, q \in GP : r # q

\* The operand of f is made assignable when it returns.
Asks(f) == f.kind = "neg" \/ (f.kind \in {"add", "mul"} /\ f.ops = <<>>)

\* A register is unused, a left operand's, or v.
GivenBack(t, fs, v) ==
  \A r \in GP : Free(fs, r) => r \in t.unused \/ (v[1] = "%" /\ v[2] = r)

Nested(fs, s) ==
  \A j \in 1..Len(fs) :
    /\ fs[j].kind = "assign" => j = 1 /\ s = "expr"
    /\ fs[j].kind = "neg" /\ j > 1 => ~Asks(fs[j - 1])

DInv ==
  /\ NoRegisterLost /\ Nested(frames, stmt)
  /\ stmt \in StmtKinds \cup {"none"}
  /\ ctl \in {"stmt", "emit"} => GivenBack(tracker, frames, Local)
  /\ ctl = "back" /\ (frames = <<>> => stmt # "expr") => GivenBack(tracker, frames, Ref)
  /\ ctl = "back" /\ frames # <<>> /\ Asks(Top) => Plain(Ref) \/ last \in DOMAIN tracker.register
  /\ ExitsOnlyWhenDeep

LEMMA GivenMore ==
  ASSUME NEW t, NEW fs, NEW v, GivenBack(t, fs, v), NEW u, t.unused \subseteq u.unused
  PROVE  GivenBack(u, fs, v)
BY DEF GivenBack

\* What has no register keeps none from being unused.
LEMMA GivenPlain ==
  ASSUME NEW t, NEW fs, NEW v, GivenBack(t, fs, v), Plain(v), NEW w
  PROVE  GivenBack(t, fs, w)
BY DEF GivenBack, Plain

\* A register that is in use has an owner, from which it can be freed.
LEMMA GivenFreed ==
  ASSUME NEW t, NEW fs, NEW v, GivenBack(t, fs, v), Sound(t), NEW u, u = RegFree(t, v), NEW w
  PROVE  GivenBack(u, fs, w)
<1>1. CASE v[1] = "%" /\ v[2] \in DOMAIN t.owner
  <2>1. u.unused = t.unused \cup {v[2]}
    BY <1>1 DEF RegFree
  <2> QED
    BY <1>1, <2>1 DEF GivenBack
<1>2. CASE ~(v[1] = "%" /\ v[2] \in DOMAIN t.owner)
  <2>1. u = t
    BY <1>2 DEF RegFree
  <2> QED
    BY <1>2, <2>1 DEF GivenBack, Sound
<1> QED
  BY <1>1, <1>2

LEMMA FreeGrows ==
  ASSUME NEW t, NEW v, NEW u, u = RegFree(t, v)
  PROVE  t.unused \subseteq u.unused
BY DEF RegFree

LEMMA AnswerGives ==
  ASSUME NEW t, NEW e, NEW c, Answers(t, e, c), NEW u, u = c.t, NEW r, r = c.r
  PROVE  t.unused \subseteq u.unused \cup {r}
BY DEF Answers, Take

LEMMA FreeFront ==
  ASSUME NEW fs, IsList(fs), fs # <<>>, NEW gs, gs = Front(fs), NEW f, f = fs[Len(fs)],
         NEW r, Free(gs, r), Pending(f) => f.dest # r
  PROVE  Free(fs, r)
<1>1. PICK l \in Nat : /\ l = Len(gs) /\ Len(fs) = l + 1 /\ f = fs[l + 1]
                       /\ \A i \in 1..l : gs[i] = fs[i]
  BY Fronted, ListLength
<1>2. \A i \in 1..l + 1 : i \in 1..l \/ i = l + 1
  OBVIOUS
<1> QED
  BY <1>1, <1>2 DEF Free

LEMMA NestedFront ==
  ASSUME NEW fs, IsList(fs), fs # <<>>, NEW s, Nested(fs, s), NEW gs, gs = Front(fs)
  PROVE  /\ Nested(gs, s)
         /\ fs[Len(fs)].kind = "neg" /\ gs # <<>> => ~Asks(gs[Len(gs)])
<1>1. PICK l \in Nat : /\ l = Len(gs) /\ Len(fs) = l + 1
                       /\ \A i \in 1..l : gs[i] = fs[i]
  BY Fronted, ListLength
<1>2. \A i \in 1..l : i \in 1..l + 1 /\ (i > 1 => i - 1 \in 1..l)
  OBVIOUS
<1>3. Nested(gs, s)
  BY <1>1, <1>2 DEF Nested
<1>4. gs # <<>> => l \in 1..l
  BY <1>1, Fronted, ListLength
<1>5. ASSUME fs[Len(fs)].kind = "neg", gs # <<>>
      PROVE  ~Asks(gs[Len(gs)])
  <2>1. l + 1 \in 1..l + 1 /\ l + 1 > 1 /\ (l + 1) - 1 = l
    BY <1>4, <1>5
  <2>2. ~Asks(fs[(l + 1) - 1])
    BY <1>1, <1>5, <2>1 DEF Nested
  <2> QED
    BY <1>1, <1>4, <1>5, <2>1, <2>2
<1> QED
  BY <1>3, <1>5

\* The top frame is replaced.
LEMMA FreeReplaced ==
  ASSUME NEW fs, IsList(fs), fs # <<>>, NEW f, f = fs[Len(fs)], ~Pending(f), NEW e,
         NEW gs, gs = [fs EXCEPT ![Len(fs)] = e], NEW r, Free(gs, r)
  PROVE  Free(fs, r) /\ (Pending(e) => e.dest # r)
<1>1. PICK l \in Nat : l = Len(fs) /\ l \in 1..l
  BY ListLength
<1>2. Len(gs) = l /\ gs[l] = e /\ \A i \in 1..l - 1 : gs[i] = fs[i]
  BY <1>1, Replaced
<1>3. \A i \in 1..l : i \in 1..l - 1 \/ i = l
  OBVIOUS
<1> QED
  BY <1>1, <1>2, <1>3 DEF Free

LEMMA NestedReplaced ==
  ASSUME NEW fs, IsList(fs), fs # <<>>, NEW s, Nested(fs, s), NEW e, e.kind = fs[Len(fs)].kind,
         NEW gs, gs = [fs EXCEPT ![Len(fs)] = e]
  PROVE  Nested(gs, s)
<1>1. PICK l \in Nat : l = Len(fs) /\ l \in 1..l
  BY ListLength
<1>2. Len(gs) = l /\ gs[l] = e /\ \A i \in 1..l - 1 : gs[i] = fs[i]
  BY <1>1, Replaced
<1>3. \A i \in 1..l : (i \in 1..l - 1 \/ i = l) /\ (i > 1 => i - 1 \in 1..l - 1)
  OBVIOUS
<1>4. \A i \in 1..l : gs[i].kind = fs[i].kind
  BY <1>1, <1>2, <1>3
<1> QED
  BY <1>1, <1>2, <1>3, <1>4 DEF Nested

LEMMA FreeOpened ==
  ASSUME NEW fs, IsList(fs), NEW e, NEW gs, gs = Append(fs, e), NEW r, Free(gs, r)
  PROVE  Free(fs, r)
<1>1. Len(gs) = Len(fs) + 1 /\ Len(fs) \in Nat /\ \A i \in 1..Len(fs) : gs[i] = fs[i]
  BY Appended, ListLength
<1>2. \A i \in 1..Len(fs) : i \in 1..Len(gs)
  BY <1>1
<1> QED
  BY <1>1, <1>2 DEF Free

LEMMA NestedOpened ==
  ASSUME NEW fs, IsList(fs), NEW s, Nested(fs, s), NEW e, NEW gs, gs = Append(fs, e),
         e.kind = "assign" => fs = <<>> /\ s = "expr",
         e.kind = "neg" /\ fs # <<>> => ~Asks(fs[Len(fs)])
  PROVE  Nested(gs, s)
<1>1. PICK l \in Nat : l = Len(fs) /\ (fs = <<>> => l = 0) /\ (fs # <<>> => l \in 1..l)
  BY ListLength, Nothing
<1>2. Len(gs) = l + 1 /\ gs[l + 1] = e /\ \A i \in 1..l : gs[i] = fs[i]
  BY <1>1, Appended
<1>3. \A i \in 1..l + 1 : i \in 1..l \/ i = l + 1
  OBVIOUS
<1>4. \A i \in 1..l : i > 1 => i - 1 \in 1..l
  OBVIOUS
<1>5. (l + 1) - 1 = l /\ (l + 1 > 1 => l # 0)
  OBVIOUS
<1>6. ASSUME NEW j \in 1..Len(gs)
      PROVE  /\ gs[j].kind = "assign" => j = 1 /\ s = "expr"
             /\ gs[j].kind = "neg" /\ j > 1 => ~Asks(gs[j - 1])
  <2>1. CASE j \in 1..l
    BY <1>1, <1>2, <1>4, <2>1 DEF Nested
  <2>2. CASE j = l + 1
    <3>1. gs[j] = e /\ j - 1 = l /\ (j > 1 => fs # <<>> /\ l \in 1..l)
      BY <1>1, <1>2, <1>5, <2>2
    <3>2. e.kind = "neg" /\ j > 1 => ~Asks(gs[l])
      BY <1>1, <1>2, <3>1
    <3> QED
      BY <1>1, <2>2, <3>1, <3>2
  <2> QED
    BY <1>2, <1>3, <2>1, <2>2
<1> QED
  BY <1>6 DEF Nested

-----------------------------------------------------------------------------
(* Where registers run out. *)

\* Every register is a left operand's, and the top frame has asked for one more.
LEMMA RegistersCounted ==
  ASSUME NEW fs, IsList(fs), fs # <<>>, NEW f, f = fs[Len(fs)], ~Pending(f),
         f.kind \notin {"group", "call", "new"},
         \A i \in 1..Len(fs) : Pending(fs[i]) => fs[i].dest \in GP,
         \A r \in GP : ~Free(fs, r)
  PROVE  /\ Cardinality(GP) \in Nat
         /\ Cardinality({i \in DOMAIN fs : fs[i].kind \notin {"group", "call", "new"}}) \in Nat
         /\ Cardinality({i \in DOMAIN fs : fs[i].kind \notin {"group", "call", "new"}})
              > Cardinality(GP)
<1> DEFINE P == {i \in 1..Len(fs) : Pending(fs[i])}
           D == {i \in DOMAIN fs : fs[i].kind \notin {"group", "call", "new"}}
           dest == [i \in P |-> fs[i].dest]
<1>1. PICK l \in Nat : l = Len(fs) /\ DOMAIN fs = 1..l /\ l \in 1..l
  BY ListLength
<1>2. IsFiniteSet(1..l)
  BY <1>1, FS_Interval
<1>3. P \subseteq 1..l /\ D \subseteq 1..l /\ P \subseteq D /\ l \notin P /\ l \in D
  BY <1>1 DEF Pending
<1>4. IsFiniteSet(P) /\ IsFiniteSet(D)
  BY <1>2, <1>3, FS_Subset
<1>5. dest \in Surjection(P, GP)
  <2>1. dest \in [P -> GP]
    OBVIOUS
  <2>2. \A r \in GP : \E i \in P : dest[i] = r
    BY DEF Free
  <2> QED
    BY <2>1, <2>2 DEF Surjection
<1> HIDE DEF P, D, dest
<1>6. IsFiniteSet(GP) /\ Cardinality(GP) <= Cardinality(P)
  BY <1>4, <1>5, FS_Surjection
<1>7. /\ Cardinality(GP) \in Nat /\ Cardinality(P) \in Nat /\ Cardinality(D) \in Nat
      /\ Cardinality(P \cup {l}) \in Nat
  <2>1. IsFiniteSet(P \cup {l})
    BY <1>4, FS_AddElement
  <2> QED
    BY <1>4, <1>6, <2>1, FS_CardinalityType
<1>8. Cardinality(P \cup {l}) = Cardinality(P) + 1
  BY <1>3, <1>4, FS_AddElement
<1>9. Cardinality(P \cup {l}) <= Cardinality(D)
  <2>1. P \cup {l} \in SUBSET D
    BY <1>3
  <2> QED
    BY <1>4, <2>1, FS_Subset
<1>10. Cardinality(D) \in Nat /\ Cardinality(GP) \in Nat /\ Cardinality(D) > Cardinality(GP)
  BY <1>6, <1>7, <1>8, <1>9
<1> QED
  BY <1>10 DEF D

\* The compiler exits where every register is a left operand's.
LEMMA ExitsWell ==
  ASSUME Held, PInv, DInv, GiveUp, stmt' = stmt, NoRegisterLost',
         frames # <<>>, ~Pending(Top), Top.kind \notin {"group", "call", "new"},
         \A r \in GP : ~Free(frames, r)
  PROVE  DInv'
<1>1. PICK fs, f : fs = frames /\ f = Top
  OBVIOUS
<1>2. f = fs[Len(fs)] /\ IsList(fs) /\ fs # <<>>
  BY <1>1, TopFrame DEF Held, Accounted
<1>3. \A i \in 1..Len(fs) : Pending(fs[i]) => fs[i].dest \in GP
  BY <1>1 DEF PInv, Kept
<1>4. ~Pending(f) /\ f.kind \notin {"group", "call", "new"} /\ \A r \in GP : ~Free(fs, r)
  BY <1>1
<1>5. /\ Cardinality(GP) \in Nat
      /\ Cardinality({i \in DOMAIN fs : fs[i].kind \notin {"group", "call", "new"}}) \in Nat
      /\ Cardinality({i \in DOMAIN fs : fs[i].kind \notin {"group", "call", "new"}})
           > Cardinality(GP)
  BY <1>2, <1>3, <1>4, RegistersCounted
<1>6. ctl' = "exited" /\ frames' = fs /\ tracker' = tracker /\ last' = last
  BY <1>1 DEF GiveUp
<1>7. PICK n, m : /\ n = Cardinality(GP)
                  /\ m = Cardinality({i \in DOMAIN fs : fs[i].kind \notin {"group", "call", "new"}})
  OBVIOUS
<1>8. n \in Nat /\ m \in Nat /\ m > n
  BY <1>5, <1>7
<1>9. m + (IF last' \in DOMAIN tracker'.register THEN 1 ELSE 0) > n
  BY <1>8
<1>10. ExitsOnlyWhenDeep'
  BY <1>6, <1>7, <1>9 DEF ExitsOnlyWhenDeep
<1>11. Nested(frames', stmt') /\ stmt' \in StmtKinds \cup {"none"}
  BY <1>1, <1>6 DEF DInv
<1> QED
  BY <1>6, <1>10, <1>11 DEF DInv

-----------------------------------------------------------------------------
(* What the steps give back. *)

\* Unless the compiler has exited.
LEMMA NotExited == ASSUME ctl' # "exited" PROVE ExitsOnlyWhenDeep'
BY DEF ExitsOnlyWhenDeep

\* The visit of the top frame has ended, and its value is at v.
LEMMA ClosedDeep ==
  ASSUME Held, DInv, NoRegisterLost', ctl' = "back", stmt' = stmt, frames # <<>>,
         frames' = Front(frames), NEW v, v = Ref',
         frames' # <<>> \/ stmt # "expr" => GivenBack(tracker', frames', v),
         Top.kind # "neg" => Plain(v) \/ last' \in DOMAIN tracker'.register
  PROVE  DInv'
<1>1. PICK fs, gs, f, s : fs = frames /\ gs = Front(fs) /\ f = Top /\ s = stmt
  OBVIOUS
<1>2. f = fs[Len(fs)] /\ IsList(fs) /\ fs # <<>> /\ Nested(fs, s)
  BY <1>1, TopFrame DEF Held, Accounted, DInv
<1>3. /\ Nested(gs, s)
      /\ fs[Len(fs)].kind = "neg" /\ gs # <<>> => ~Asks(gs[Len(gs)])
  BY <1>1, <1>2, NestedFront
<1>4. Top' = gs[Len(gs)] /\ frames' = gs
  BY <1>1 DEF Top, Last
<1>5. f.kind = "neg" /\ gs # <<>> => ~Asks(Top')
  BY <1>2, <1>3, <1>4
<1>6. ctl' = "back" /\ (frames' = <<>> => stmt' # "expr") => GivenBack(tracker', frames', Ref')
  BY <1>1
<1>7. (frames' # <<>> /\ Asks(Top')) => Plain(Ref') \/ last' \in DOMAIN tracker'.register
  BY <1>1, <1>4, <1>5
<1>8. Nested(frames', stmt') /\ stmt' \in StmtKinds \cup {"none"}
  BY <1>1, <1>3, <1>4 DEF DInv
<1> QED
  BY <1>6, <1>7, <1>8, NotExited DEF DInv

\* Another operand of the top frame is visited.
LEMMA ResumedDeep ==
  ASSUME Held, DInv, NoRegisterLost', ctl' = "emit", stmt' = stmt, frames # <<>>,
         ~Pending(Top), NEW e, e.kind = Top.kind, frames' = [frames EXCEPT ![Len(frames)] = e],
         \A r \in GP : Free(frames, r) /\ (Pending(e) => e.dest # r) => r \in tracker'.unused
  PROVE  DInv'
<1>1. PICK fs, gs, f, s : fs = frames /\ gs = frames' /\ f = Top /\ s = stmt
  OBVIOUS
<1>2. f = fs[Len(fs)] /\ IsList(fs) /\ fs # <<>> /\ Nested(fs, s) /\ ~Pending(f)
      /\ e.kind = f.kind
  BY <1>1, TopFrame DEF Held, Accounted, DInv
<1>3. gs = [fs EXCEPT ![Len(fs)] = e]
  BY <1>1
<1>4. Nested(gs, s)
  BY <1>2, <1>3, NestedReplaced
<1>5. \A r : Free(gs, r) => Free(fs, r) /\ (Pending(e) => e.dest # r)
  BY <1>2, <1>3, FreeReplaced
<1>6. GivenBack(tracker', gs, Local)
  BY <1>1, <1>5 DEF GivenBack
<1>7. Nested(frames', stmt') /\ stmt' \in StmtKinds \cup {"none"} /\ GivenBack(tracker', frames', Local)
  BY <1>1, <1>4, <1>6 DEF DInv
<1> QED
  BY <1>7, NotExited DEF DInv

\* A statement has ended.
LEMMA EndedDeep ==
  ASSUME DInv, NoRegisterLost', frames = <<>>, frames' = frames, ctl' = "stmt", stmt' = stmt,
         NEW u, u = tracker', GivenBack(u, frames, Local)
  PROVE  DInv'
<1>1. Nested(frames', stmt') /\ stmt' \in StmtKinds \cup {"none"}
      /\ GivenBack(tracker', frames', Local)
  BY DEF DInv
<1> QED
  BY <1>1, NotExited DEF DInv

LEMMA VisitDeep ==
  ASSUME Frugal, Held, DInv, NEW k, Visit(k)
  PROVE  /\ ctl = "emit" /\ stmt' = stmt
         /\ k = "assign" => frames = <<>> /\ stmt = "expr"
         /\ k = "neg" /\ frames # <<>> => ~Asks(frames[Len(frames)])
<1>1. ctl = "emit" /\ stmt' = stmt /\ (frames # <<>> => MayFollow(k, Top))
      /\ (k = "assign" => frames = <<>> /\ stmt = "expr")
  BY DEF Visit, Setters, Frugal
<1>2. ASSUME k = "neg", frames # <<>>, Asks(frames[Len(frames)])
      PROVE  FALSE
  <2>1. PICK f : f = Top /\ IsFrame(f) /\ f = frames[Len(frames)]
    BY <1>2, TopFrame
  <2>2. MayFollow(k, f) /\ Asks(f) /\ k \notin LeftKinds /\ k \notin NegKinds
    BY <1>1, <1>2, <2>1 DEF Frugal
  <2>3. CASE f.kind = "neg"
    <3>1. f.kind \notin BinaryOps
      BY <2>3 DEF BinaryOps
    <3> QED
      BY <2>2, <2>3, <3>1 DEF MayFollow, Receiving, CallKinds
  <2>4. CASE f.kind \in {"add", "mul"} /\ f.ops = <<>>
    <3>1. f.kind \in BinaryOps
      BY <2>4 DEF BinaryOps
    <3> QED
      BY <2>2, <2>4, <3>1 DEF MayFollow, Receiving, CallKinds
  <2> QED
    BY <2>2, <2>3, <2>4 DEF Asks
<1> QED
  BY <1>1, <1>2

\* What is known where an operand's visit has returned.
LEMMA OperandGives ==
  ASSUME Held, PInv, DInv, ctl = "back", frames # <<>>
  PROVE  /\ GivenBack(tracker, frames, Ref) /\ Sound(tracker)
         /\ IsList(frames) /\ Top = frames[Len(frames)]
         /\ stmt' = stmt => Nested(frames, stmt')
<1>1. Sound(tracker)
  BY DEF PInv, Tracks, Sound, DInv, NoRegisterLost
<1> QED
  BY <1>1, TopFrame DEF DInv, Held, Accounted

LEMMA GroupingDeep ==
  ASSUME Frugal, Held, PInv, DInv, NoRegisterLost', Grouping PROVE DInv'
<1>1. /\ ctl = "back" /\ frames # <<>> /\ Top.kind = "group" /\ stmt' = stmt
      /\ tracker' = Overwrite(tracker, Top.node, Ref)
      /\ frames' = Front(frames) /\ last' = Top.node /\ ctl' = "back"
  BY DEF Grouping, Returned, Close, Pop
<1>2. PICK t, f, fs, gs, e, n : Operand(t, f, fs, gs, e, n)
  BY <1>1, OperandBack
<1>3. PICK r : r = Ref[2] /\ Ref[1] = "%" /\ r \in GP
  BY <1>1, <1>2 DEF Operand
<1>4. PICK u : u = RegOverwrite(t, e, r) /\ tracker' = u
  BY <1>1, <1>2, <1>3 DEF Operand, Overwrite
<1>5. Tracks(t, n, gs) /\ Seen(e, n, gs)
  BY <1>2 DEF Operand
<1>6. /\ u.unused = t.unused /\ e \in DOMAIN u.ref /\ u.ref[e] = <<"%", r>>
      /\ e \in DOMAIN u.register
  BY <1>3, <1>4, <1>5, TracksOverwrite
<1>7. PICK v : v = Ref' /\ v[1] = "%" /\ v[2] = r
  BY <1>1, <1>2, <1>4, <1>6 DEF Ref, Operand
<1>8. Free(gs, r) /\ \A x : Free(gs, x) => Free(fs, x)
  <2>1. IsList(fs) /\ fs # <<>> /\ gs = Front(fs) /\ f = fs[Len(fs)] /\ ~Pending(f)
    BY <1>1, <1>2 DEF Operand, Pending
  <2>2. \A x : Free(gs, x) => Free(fs, x)
    BY <2>1, FreeFront
  <2> QED
    BY <1>1, <1>2, <1>3, <2>2 DEF Operand
<1>9. GivenBack(tracker, frames, Ref)
  BY <1>1, OperandGives
<1>10. GivenBack(tracker', frames', v)
  BY <1>1, <1>2, <1>3, <1>4, <1>6, <1>7, <1>8, <1>9 DEF GivenBack, Operand
<1>11. last' \in DOMAIN tracker'.register
  BY <1>1, <1>2, <1>4, <1>6 DEF Operand
<1> QED
  BY <1>1, <1>7, <1>10, <1>11, ClosedDeep

LEMMA UnaryDeep ==
  ASSUME Frugal, Held, PInv, DInv, NoRegisterLost', Unary PROVE DInv'
<1>1. ctl = "back" /\ frames # <<>> /\ Top.kind = "neg" /\ stmt' = stmt
  BY DEF Unary, Returned
<1>2. PICK t, f, fs, gs, e, n : Operand(t, f, fs, gs, e, n)
  BY <1>1, OperandBack
<1>3. GivenBack(t, fs, Ref) /\ (Plain(Ref) \/ last \in DOMAIN t.register)
  BY <1>1, <1>2, OperandGives DEF Operand, DInv, Asks
<1>4. ~Pending(f) /\ ~Pending(Top)
  BY <1>1, <1>2 DEF Operand, Pending
<1>5. CASE GiveUp /\ MakeAssignable(t, last) = {}
  <2>1. last \notin DOMAIN t.register /\ t.unused = {}
    <3>1. last \in DOMAIN t.register => t.register[last] # "rax"
      BY <1>2, RegisterNames DEF Operand, Tracks
    <3> QED
      BY <1>5, <3>1 DEF MakeAssignable
  <2>2. \A r \in GP : ~Free(frames, r)
    BY <1>2, <1>3, <2>1 DEF Operand, GivenBack, Plain
  <2> QED
    BY <1>1, <1>4, <1>5, <2>2, ExitsWell
<1>6. CASE ~(GiveUp /\ MakeAssignable(t, last) = {})
  <2>1. PICK c \in MakeAssignable(t, last) :
          tracker' = Assign(c.t, Top.node, <<"%", c.r>>) /\ Close(Top.node)
    BY <1>2, <1>6 DEF Unary, Operand
  <2>2. PICK r, w, v, u : r = c.r /\ w = c.t /\ v = <<"%", r>> /\ u = Assign(w, e, v)
    OBVIOUS
  <2>3. tracker' = u /\ frames' = gs /\ last' = e /\ ctl' = "back" /\ frames' = Front(frames)
    BY <1>2, <2>1, <2>2 DEF Operand, Close, Pop
  <2>4. /\ Tracks(w, n, gs) /\ r \in GP
        /\ (last \in DOMAIN t.register /\ Ref = <<"%", r>> /\ w = t)
           \/ (last \notin DOMAIN t.register /\ r \in t.unused /\ r \notin w.unused)
    BY <1>2, <1>4, <2>2, OperandAnswered
  <2>5. Answers(t, last, c)
    BY <1>2, Answered DEF Operand
  <2>6. t.unused \subseteq w.unused \cup {r}
    BY <2>2, <2>5, AnswerGives
  <2>7. u.unused = w.unused /\ e \in DOMAIN u.ref /\ u.ref[e] = v
    BY <2>2, <2>4, TracksAssign
  <2>8. v = Ref' /\ v[1] = "%" /\ v[2] = r
    BY <2>2, <2>3, <2>7 DEF Ref
  <2>9. \A x : Free(gs, x) => Free(fs, x)
    <3>1. IsList(fs) /\ fs # <<>> /\ gs = Front(fs) /\ f = fs[Len(fs)]
      BY <1>2 DEF Operand
    <3> QED
      BY <1>4, <3>1, FreeFront
  <2>10. \A x \in GP : Free(fs, x) => x \in t.unused \/ x = r
    <3>1. Plain(Ref) => \A x \in GP : Free(fs, x) => x \in t.unused
      BY <1>3 DEF GivenBack, Plain
    <3>2. CASE last \in DOMAIN t.register
      <4>1. Ref = <<"%", r>>
        BY <2>4, <3>2
      <4>2. Ref[2] = r
        BY <4>1
      <4> QED
        BY <1>3, <4>2 DEF GivenBack
    <3> QED
      BY <1>3, <3>1, <3>2
  <2>11. GivenBack(tracker', frames', v)
    BY <2>3, <2>6, <2>7, <2>8, <2>9, <2>10 DEF GivenBack
  <2> QED
    BY <1>1, <2>3, <2>8, <2>11, ClosedDeep
<1> QED
  BY <1>5, <1>6

LEMMA FieldDeep ==
  ASSUME Frugal, Held, PInv, DInv, NoRegisterLost', Field PROVE DInv'
<1>1. ctl = "back" /\ frames # <<>> /\ Top.kind = "field" /\ stmt' = stmt
  BY DEF Field, Returned
<1>2. PICK t, f, fs, gs, e, n : Operand(t, f, fs, gs, e, n)
  BY <1>1, OperandBack
<1>3. PICK a, x : a = Ref /\ x = RegFree(t, a)
  OBVIOUS
<1>4. ~Pending(f) /\ ~Pending(Top)
  BY <1>1, <1>2 DEF Operand, Pending
<1>5. GivenBack(x, fs, Local)
  <2>1. GivenBack(t, fs, a) /\ Sound(t) /\ x = RegFree(t, a)
    BY <1>1, <1>2, <1>3, OperandGives DEF Operand
  <2> QED
    BY <2>1, GivenFreed
<1>6. Tracks(x, n, gs) /\ e \notin DOMAIN x.register
  <2>1. IsList(fs) /\ fs # <<>> /\ gs = Front(fs) /\ f = fs[Len(fs)] /\ e = f.node
    BY <1>2 DEF Operand
  <2>2. Tracks(t, n, fs) /\ x = RegFree(t, a)
    BY <1>2, <1>3 DEF Operand
  <2>3. Tracks(x, n, fs)
    BY <2>2, TracksFree
  <2> QED
    BY <2>1, <2>3, TracksFront
<1>7. CASE GiveUp /\ MakeAssignable(x, e) = {}
  <2>1. x.unused = {}
    BY <1>6, <1>7 DEF MakeAssignable
  <2>2. \A r \in GP : ~Free(frames, r)
    BY <1>2, <1>5, <2>1 DEF Operand, GivenBack, Local
  <2> QED
    BY <1>1, <1>4, <1>7, <2>2, ExitsWell
<1>8. CASE ~(GiveUp /\ MakeAssignable(x, e) = {})
  <2>1. PICK c \in MakeAssignable(x, e) :
          tracker' = Assign(c.t, e, <<"%", c.r>>) /\ \E m : Close(m)
    <3>1. t = tracker /\ e = Top.node
      BY <1>2 DEF Operand
    <3> QED
      BY <1>3, <1>8, <3>1 DEF Field, Register
  <2>2. PICK r, w, v, u : r = c.r /\ w = c.t /\ v = <<"%", r>> /\ u = Assign(w, e, v)
    OBVIOUS
  <2>3. tracker' = u /\ frames' = gs /\ last' = e /\ ctl' = "back" /\ frames' = Front(frames)
    BY <1>2, <2>1, <2>2 DEF Operand, Close, Pop
  <2>4. Seen(e, n, gs)
    BY <1>2 DEF Operand
  <2>5. Answers(x, e, c)
    BY <1>6, <2>1, Answered
  <2>6. Tracks(w, n, gs) /\ e \in DOMAIN w.register
    BY <1>6, <2>2, <2>4, <2>5, AnsweredWell
  <2>7. x.unused \subseteq w.unused \cup {r}
    BY <2>2, <2>5, AnswerGives
  <2>8. u.unused = w.unused /\ u.register = w.register /\ e \in DOMAIN u.ref /\ u.ref[e] = v
    BY <2>2, <2>6, TracksAssign
  <2>9. v = Ref' /\ v[1] = "%" /\ v[2] = r
    BY <2>2, <2>3, <2>8 DEF Ref
  <2>10. \A y : Free(gs, y) => Free(fs, y)
    <3>1. IsList(fs) /\ fs # <<>> /\ gs = Front(fs) /\ f = fs[Len(fs)]
      BY <1>2 DEF Operand
    <3> QED
      BY <1>4, <3>1, FreeFront
  <2>11. GivenBack(tracker', frames', v)
    BY <1>5, <2>3, <2>7, <2>8, <2>9, <2>10 DEF GivenBack, Local
  <2>12. last' \in DOMAIN tracker'.register
    BY <2>3, <2>6, <2>8
  <2> QED
    BY <1>1, <2>3, <2>9, <2>11, <2>12, ClosedDeep
<1> QED
  BY <1>7, <1>8

LEMMA BinaryLeftDeep ==
  ASSUME Frugal, Held, PInv, DInv, NoRegisterLost', BinaryLeft PROVE DInv'
<1>1. /\ ctl = "back" /\ frames # <<>> /\ Top.kind \in {"add", "mul"} /\ Len(Top.ops) = 0
      /\ stmt' = stmt
  BY DEF BinaryLeft, Returned
<1>2. PICK t, f, fs, gs, d, n : Operand(t, f, fs, gs, d, n)
  BY <1>1, OperandBack
<1>3. f.ops = <<>> /\ f = Top /\ IsFrame(f)
  BY <1>1, <1>2, ListLength DEF IsFrame, Operand
<1>4. ~Pending(f) /\ ~Pending(Top)
  BY <1>3 DEF Pending
<1>5. GivenBack(t, fs, Ref) /\ (Plain(Ref) \/ last \in DOMAIN t.register)
  BY <1>1, <1>2, <1>3, OperandGives DEF Operand, DInv, Asks
<1>6. CASE GiveUp /\ MakeAssignable(t, last) = {}
  <2>1. last \notin DOMAIN t.register /\ t.unused = {}
    <3>1. last \in DOMAIN t.register => t.register[last] # "rax"
      BY <1>2, RegisterNames DEF Operand, Tracks
    <3> QED
      BY <1>6, <3>1 DEF MakeAssignable
  <2>2. \A r \in GP : ~Free(frames, r)
    BY <1>2, <1>5, <2>1 DEF Operand, GivenBack, Plain
  <2> QED
    BY <1>1, <1>4, <1>6, <2>2, ExitsWell
<1>7. CASE ~(GiveUp /\ MakeAssignable(t, last) = {})
  <2>1. PICK c \in MakeAssignable(t, last) :
          /\ tracker' = IF Ref # <<"%", c.r>> THEN RegOverwrite(c.t, last, c.r) ELSE c.t
          /\ Resume([f EXCEPT !.ops = <<last>>, !.left = Ref, !.dest = c.r])
    <3>1. t = tracker /\ f = Top
      BY <1>2 DEF Operand
    <3> QED
      BY <1>7, <3>1 DEF BinaryLeft
  <2>2. PICK a, r, w, o : a = Ref /\ r = c.r /\ w = c.t /\ o = <<last>>
    OBVIOUS
  <2>3. PICK e : e = [f EXCEPT !.ops = o, !.left = a, !.dest = r]
    OBVIOUS
  <2>4. e.kind = f.kind /\ e.ops = o /\ e.dest = r
    BY <1>3, <2>3 DEF IsFrame
  <2>5. o[1] = last /\ o # <<>> /\ Pending(e)
    BY <1>1, <1>3, <2>2, <2>4 DEF Pending
  <2>6. /\ tracker' = (IF a # <<"%", r>> THEN RegOverwrite(w, last, r) ELSE w)
        /\ ctl' = "emit" /\ frames' = [frames EXCEPT ![Len(frames)] = e]
    BY <2>1, <2>2, <2>3 DEF Resume
  <2>7. tracker'.unused = w.unused
    BY <2>6 DEF RegOverwrite
  <2>8. Answers(t, last, c)
    BY <1>2, Answered DEF Operand
  <2>9. t.unused \subseteq w.unused \cup {r}
    BY <2>2, <2>8, AnswerGives
  <2>10. (last \in DOMAIN t.register /\ a = <<"%", r>> /\ w = t)
         \/ (last \notin DOMAIN t.register /\ r \in t.unused /\ r \notin w.unused)
    BY <1>2, <1>4, <2>2, OperandAnswered
  <2>11. \A x \in GP : Free(fs, x) => x \in t.unused \/ x = r
    <3>1. Plain(a) => \A x \in GP : Free(fs, x) => x \in t.unused
      BY <1>5, <2>2 DEF GivenBack, Plain
    <3>2. CASE last \in DOMAIN t.register
      <4>1. a = <<"%", r>>
        BY <2>10, <3>2
      <4>2. a[2] = r
        BY <4>1
      <4> QED
        BY <1>5, <2>2, <4>2 DEF GivenBack
    <3> QED
      BY <1>5, <2>2, <3>1, <3>2
  <2>12. \A x \in GP : Free(frames, x) /\ (Pending(e) => e.dest # x) => x \in tracker'.unused
    <3>1. fs = frames
      BY <1>2 DEF Operand
    <3> QED
      BY <2>4, <2>5, <2>7, <2>9, <2>11, <3>1
  <2> QED
    BY <1>1, <1>3, <1>4, <2>4, <2>6, <2>12, ResumedDeep
<1> QED
  BY <1>6, <1>7

LEMMA BinaryRightDeep ==
  ASSUME Frugal, Held, PInv, DInv, NoRegisterLost', BinaryRight PROVE DInv'
<1>1. /\ ctl = "back" /\ frames # <<>> /\ Top.kind \in {"add", "mul"} /\ stmt' = stmt
      /\ Len(Top.ops) = 1
  BY DEF BinaryRight, Returned
<1>2. PICK t, f, fs, gs, e, n : Operand(t, f, fs, gs, e, n)
  BY <1>1, OperandBack
<1>3. PICK r, left, a, v : r = f.dest /\ left = f.left /\ a = Ref /\ v = <<"%", r>>
  OBVIOUS
<1>4. PICK w, z, u : w = RegFree(t, left) /\ z = RegOverwrite(w, e, r) /\ u = RegFree(z, a)
  OBVIOUS
<1>5. /\ tracker' = u /\ frames' = gs /\ last' = e /\ ctl' = "back" /\ frames' = Front(frames)
  <2>1. t = tracker /\ f = Top /\ gs = Front(frames) /\ e = f.node
    BY <1>2 DEF Operand
  <2> QED
    BY <1>3, <1>4, <2>1 DEF BinaryRight, Close, Pop
<1>6. /\ IsList(fs) /\ fs # <<>> /\ gs = Front(fs) /\ f = fs[Len(fs)] /\ e = f.node /\ fs = frames
      /\ Tracks(t, n, fs) /\ Seen(e, n, gs) /\ f = Top /\ IsFrame(f)
  BY <1>2 DEF Operand
<1>7. Pending(f) /\ r \in GP /\ (~Plain(a) => a[1] = "%" /\ a[2] # r)
  <2>1. f.ops # <<>>
    BY <1>1, <1>6, Nothing
  <2>2. Pending(f)
    BY <1>1, <1>6, <2>1 DEF Pending
  <2>3. Len(fs) \in 1..Len(fs)
    BY <1>6, ListLength
  <2>4. r \in GP
    BY <1>3, <1>6, <2>2, <2>3 DEF PInv, Kept
  <2>5. ~Plain(a) => a[1] = "%" /\ Free(fs, a[2])
    BY <1>2, <1>3 DEF Operand
  <2> QED
    BY <1>3, <1>6, <2>2, <2>3, <2>4, <2>5 DEF Free
<1>8. Tracks(w, n, fs)
  BY <1>4, <1>6, TracksFree
<1>9. Tracks(w, n, gs) /\ \A x \in DOMAIN w.owner : w.owner[x] # e
  BY <1>6, <1>8, TracksFront
<1>10. /\ Tracks(z, n, gs) /\ z.unused = w.unused
       /\ e \in DOMAIN z.ref /\ z.ref[e] = v /\ e \in DOMAIN z.register
       /\ \A x \in DOMAIN z.owner : x = r \/ z.owner[x] # e
  BY <1>3, <1>4, <1>6, <1>7, <1>9, TracksOverwrite
<1>11. a[1] = "%" /\ a[2] \in DOMAIN z.owner => ~Plain(a) /\ z.owner[a[2]] # e
  BY <1>7, <1>10 DEF Tracks, Plain
<1>12. /\ e \in DOMAIN u.ref /\ u.ref[e] = v /\ e \in DOMAIN u.register
  <2>1. e \in DOMAIN u.ref /\ u.ref[e] = z.ref[e]
    BY <1>4, <1>10, <1>11, OthersStay
  <2>2. e \in DOMAIN u.register
    BY <1>4, <1>10, <1>11, OthersStay
  <2> QED
    BY <1>10, <2>1, <2>2
<1>13. v = Ref' /\ v[1] = "%" /\ v[2] = r
  BY <1>3, <1>5, <1>12 DEF Ref
<1>14. GivenBack(z, fs, a) /\ Sound(t)
  <2>1. GivenBack(t, fs, a) /\ Sound(t)
    BY <1>1, <1>2, <1>3, OperandGives DEF Operand
  <2>2. t.unused \subseteq w.unused
    BY <1>4, FreeGrows
  <2>3. t.unused \subseteq z.unused
    BY <1>10, <2>2
  <2> QED
    BY <2>1, <2>3, GivenMore
<1>15. Sound(z)
  <2>1. Sound(w)
    BY <1>4, <1>14, FreeSound
  <2> QED
    BY <1>4, <2>1, OverwriteSound
<1>16. GivenBack(u, fs, Local)
  BY <1>4, <1>14, <1>15, GivenFreed
<1>17. \A x : Free(gs, x) /\ x # r => Free(fs, x)
  BY <1>3, <1>6, FreeFront
<1>18. GivenBack(tracker', frames', v)
  BY <1>5, <1>13, <1>16, <1>17 DEF GivenBack, Local
<1>19. last' \in DOMAIN tracker'.register
  BY <1>5, <1>12
<1> QED
  BY <1>1, <1>5, <1>13, <1>18, <1>19, ClosedDeep

LEMMA CallArgDeep ==
  ASSUME Frugal, Held, PInv, DInv, NoRegisterLost', CallArg PROVE DInv'
<1>1. /\ ctl = "back" /\ frames # <<>> /\ Top.kind \in CallKinds /\ stmt' = stmt
  BY DEF CallArg, Returned
<1>2. ~Pending(Top) /\ IsFrame(Top)
  BY <1>1, TopFrame DEF Pending, CallKinds
<1>3. Top.kind = "call"
  <2>1. Len(frames) \in 1..Len(frames) /\ Top = frames[Len(frames)]
    BY <1>1, TopFrame, ListLength DEF Held, Accounted
  <2> QED
    BY <1>1, <2>1 DEF PInv, Shaped, CallKinds
<1>4. Len(Top.ops) = 0
  <2>1. Top.ops = <<>>
    BY <1>1, <1>3 DEF PInv, Passing
  <2> QED
    BY <2>1, Nothing
<1>5. ArgRegs[Len(Top.ops) + 1] = "rdi"
  <2>1. Len(Top.ops) + 1 = 1
    BY <1>4
  <2> QED
    BY <2>1, RegisterNames
<1>6. PICK a, t, u, x : a = Ref /\ t = tracker /\ u = tracker' /\ x = <<"%", "rdi">>
  OBVIOUS
<1>7. u = IF a # x THEN RegFree(t, a) ELSE t
  BY <1>5, <1>6 DEF CallArg
<1>8. PICK e : e = [Top EXCEPT !.ops = Append(@, last)]
  OBVIOUS
<1>9. e.kind = Top.kind /\ ~Pending(e)
  BY <1>2, <1>3, <1>8 DEF IsFrame, Pending
<1>10. ctl' = "emit" /\ frames' = [frames EXCEPT ![Len(frames)] = e]
  BY <1>8 DEF CallArg, Resume
<1>11. GivenBack(t, frames, a) /\ Sound(t)
  BY <1>1, <1>6, OperandGives
<1>12. GivenBack(u, frames, Local)
  <2>1. CASE a = x
    <3>1. Plain(a) /\ u = t
      BY <1>6, <1>7, <2>1, RegisterNames DEF Plain
    <3> QED
      BY <1>11, <3>1, GivenPlain
  <2>2. CASE a # x
    <3>1. u = RegFree(t, a)
      BY <1>7, <2>2
    <3> QED
      BY <1>11, <3>1, GivenFreed
  <2> QED
    BY <2>1, <2>2
<1>13. \A r \in GP : Free(frames, r) /\ (Pending(e) => e.dest # r) => r \in tracker'.unused
  BY <1>6, <1>12 DEF GivenBack, Local
<1> QED
  BY <1>1, <1>2, <1>9, <1>10, <1>13, ResumedDeep

LEMMA EndCallDeep ==
  ASSUME Frugal, Held, PInv, DInv, NoRegisterLost', EndCall PROVE DInv'
<1>1. /\ ctl = "emit" /\ frames # <<>> /\ Top.kind \in CallKinds /\ stmt' = stmt
      /\ tracker' = Assign(RegFree(tracker, Top.left), Top.node, Rax)
      /\ frames' = Front(frames) /\ last' = Top.node /\ ctl' = "back"
  BY DEF EndCall, AfterCall, AtCall, Close, Pop
<1>2. PICK fs, f, gs : fs = frames /\ f = Top /\ gs = Front(fs)
  OBVIOUS
<1>3. IsList(fs) /\ fs # <<>> /\ f = fs[Len(fs)] /\ gs = Front(fs) /\ ~Pending(f)
  BY <1>1, <1>2, TopFrame DEF Held, Accounted, Pending, CallKinds
<1>4. PICK t, l, w, e, u, v : t = tracker /\ l = Top.left /\ w = RegFree(t, l) /\ e = Top.node
                              /\ v = Rax /\ u = Assign(w, e, v)
  OBVIOUS
<1>5. tracker' = u /\ last' = e /\ frames' = gs
  BY <1>1, <1>2, <1>4
<1>6. t.unused \subseteq w.unused
  BY <1>4, FreeGrows
<1>7. Tracks(t, nodes, frames)
  BY <1>4 DEF PInv
<1>8. Tracks(w, nodes, frames)
  BY <1>4, <1>7, TracksFree
<1>9. u.unused = w.unused /\ e \in DOMAIN u.ref /\ u.ref[e] = v
  BY <1>4, <1>8, TracksAssign
<1>10. v = Ref' /\ Plain(v)
  <2>1. v = Ref'
    BY <1>5, <1>9 DEF Ref
  <2> QED
    BY <1>4, <2>1, RegisterNames DEF Plain, Rax
<1>11. \A x : Free(gs, x) => Free(fs, x)
  BY <1>3, FreeFront
<1>12. GivenBack(t, fs, Local)
  BY <1>1, <1>2, <1>4 DEF DInv
<1>13. GivenBack(tracker', frames', v)
  BY <1>5, <1>6, <1>9, <1>11, <1>12 DEF GivenBack, Local
<1> QED
  BY <1>1, <1>10, <1>13, ClosedDeep

\* No visit in progress is left, or only that of an assignment.
LEMMA OneRegister ==
  ASSUME Frugal, NEW t, NEW fs, NEW v, GivenBack(t, fs, v), t.unused = {},
         \A r : Free(fs, r)
  PROVE  FALSE
<1>1. PICK r \in GP, q \in GP : r # q
  BY DEF Frugal
<1>2. v[2] = r /\ v[2] = q
  BY <1>1 DEF GivenBack
<1> QED
  BY <1>1, <1>2

LEMMA AllFree == ASSUME NEW fs, fs = <<>> PROVE \A r : Free(fs, r)
<1>1. Len(fs) = 0
  BY Nothing
<1> QED
  BY <1>1 DEF Free

LEMMA AssignmentDeep ==
  ASSUME Frugal, Held, PInv, DInv, NoRegisterLost', Assignment PROVE DInv'
<1>1. ctl = "back" /\ frames # <<>> /\ Top.kind = "assign" /\ stmt' = stmt
  BY DEF Assignment, Returned
<1>2. PICK t, f, fs, gs, e, n : Operand(t, f, fs, gs, e, n)
  BY <1>1, OperandBack
<1>3. ~Pending(f) /\ ~Pending(Top)
  BY <1>1, <1>2 DEF Operand, Pending
<1>4. IsList(fs) /\ fs # <<>> /\ f = fs[Len(fs)] /\ fs = frames /\ f = Top /\ t = tracker
      /\ gs = Front(fs) /\ e = Top.node
  BY <1>2 DEF Operand
<1>5. Len(fs) = 1 /\ stmt = "expr"
  <2>1. Len(fs) \in 1..Len(fs)
    BY <1>4, ListLength
  <2> QED
    BY <1>1, <1>4, <2>1 DEF DInv, Nested
<1>6. gs = <<>>
  <2>1. Len(gs) = 0 /\ IsList(gs)
    BY <1>4, <1>5, Fronted, ListLength
  <2> QED
    BY <2>1, ListLength
<1>7. \A r : Free(fs, r)
  <2>1. \A i \in 1..Len(fs) : fs[i] = f
    BY <1>4, <1>5
  <2> QED
    BY <1>3, <2>1 DEF Free
<1>8. AcquireRegister(t, last) # {}
  <2> SUFFICES ASSUME AcquireRegister(t, last) = {} PROVE FALSE
    OBVIOUS
  <2>1. t.unused = {}
    BY DEF AcquireRegister
  <2>2. GivenBack(t, fs, Ref)
    BY <1>1, <1>4, OperandGives
  <2> QED
    BY <1>7, <2>1, <2>2, OneRegister
<1>9. PICK c \in AcquireRegister(t, last) :
        tracker' = Assign(RegFree(c.t, <<"%", c.r>>), e, Local) /\ \E m : Close(m)
  BY <1>4, <1>8 DEF Assignment
<1>10. PICK w, v, u : w = RegFree(c.t, <<"%", c.r>>) /\ v = Local /\ u = Assign(w, e, v)
  OBVIOUS
<1>11. tracker' = u /\ frames' = gs /\ last' = e /\ ctl' = "back" /\ frames' = Front(frames)
  BY <1>4, <1>9, <1>10 DEF Close, Pop
<1>12. e \in DOMAIN u.ref /\ u.ref[e] = v
  <2>1. Tracks(w, n, gs)
    <3>1. Tracks(t, n, gs) /\ Seen(last, n, gs)
      BY <1>2 DEF Operand
    <3>2. Answers(t, last, c)
      BY <1>9, <3>1, Answered
    <3>3. PICK x, y, r : x = c.t /\ r = c.r /\ y = <<"%", r>>
      OBVIOUS
    <3>4. Tracks(x, n, gs)
      BY <3>1, <3>2, <3>3, AnsweredWell
    <3>5. w = RegFree(x, y)
      BY <1>10, <3>3
    <3> QED
      BY <3>4, <3>5, TracksFree
  <2> QED
    BY <1>10, <2>1, TracksAssign
<1>13. v = Ref' /\ Plain(v)
  <2>1. v = Ref'
    BY <1>11, <1>12 DEF Ref
  <2> QED
    BY <1>10, <2>1 DEF Plain, Local
<1> QED
  BY <1>1, <1>5, <1>6, <1>11, <1>13, ClosedDeep

-----------------------------------------------------------------------------
(* Visits begin. *)

LEMMA LeafDeep ==
  ASSUME Frugal, Held, PInv, DInv, NoRegisterLost', NEW k, NEW v, NEW m, Leaf(k, v, m), Plain(v)
  PROVE  DInv'
<1>1. /\ ctl = "emit" /\ stmt' = stmt /\ frames' = frames /\ ctl' = "back"
      /\ tracker' = Assign(tracker, nodes', v) /\ last' = nodes'
  BY VisitDeep DEF Leaf
<1>2. PICK t, u, e : t = tracker /\ u = tracker' /\ e = nodes'
  OBVIOUS
<1>3. Tracks(t, nodes, frames) /\ u = Assign(t, e, v)
  BY <1>1, <1>2 DEF PInv
<1>4. u.unused = t.unused /\ e \in DOMAIN u.ref /\ u.ref[e] = v
  BY <1>3, TracksAssign
<1>5. Ref' = v
  BY <1>1, <1>2, <1>4 DEF Ref
<1>6. GivenBack(tracker', frames', v)
  BY <1>1, <1>2, <1>4 DEF DInv, GivenBack, Local
<1>7. Nested(frames', stmt') /\ stmt' \in StmtKinds \cup {"none"}
  BY <1>1 DEF DInv
<1> QED
  BY <1>1, <1>5, <1>6, <1>7, NotExited DEF DInv

LEMMA LeavesDeep ==
  ASSUME Frugal, Held, PInv, DInv, NoRegisterLost', NumLiteral \/ Variable \/ ThisLeaf
  PROVE  DInv'
<1>1. CASE NumLiteral
  <2>1. PICK k, v, m : k = "lit" /\ v = <<"$", nodes + 1>> /\ m = nodes + 1
    OBVIOUS
  <2>2. Plain(v) /\ Leaf(k, v, m)
    BY <1>1, <2>1 DEF NumLiteral, Plain
  <2> QED
    BY <2>2, LeafDeep
<1>2. CASE Leaf("local", Local, env)
  <2>1. PICK k, v, m : k = "local" /\ v = Local /\ m = env
    OBVIOUS
  <2>2. Plain(v) /\ Leaf(k, v, m)
    BY <1>2, <2>1 DEF Local, Plain
  <2> QED
    BY <2>2, LeafDeep
<1>3. CASE \E i \in This + 1..This + Params : Leaf("param", <<"%", ArgRegs[i]>>, -i)
  <2>1. PICK i \in This + 1..This + Params : Leaf("param", <<"%", ArgRegs[i]>>, -i)
    BY <1>3
  <2>2. PICK k, v, m : k = "param" /\ v = <<"%", ArgRegs[i]>> /\ m = -i
    OBVIOUS
  <2>3. i \in {1, 2}
    BY DEF Frugal, Simple
  <2>4. Leaf(k, v, m)
    BY <2>1, <2>2
  <2>5. Plain(v)
    BY <2>2, <2>3, RegisterNames DEF Plain
  <2> QED
    BY <2>4, <2>5, LeafDeep
<1>4. CASE ThisLeaf
  <2>1. PICK k, v, m : k = "this" /\ v = Register("rdi") /\ m = -1
    OBVIOUS
  <2>2. Leaf(k, v, m)
    BY <1>4, <2>1 DEF ThisLeaf
  <2>3. Plain(v)
    BY <2>1, RegisterNames DEF Plain, Register
  <2> QED
    BY <2>2, <2>3, LeafDeep
<1> QED
  BY <1>1, <1>2, <1>3, <1>4 DEF Variable

LEMMA OpensDeep ==
  ASSUME Frugal, Held, PInv, DInv, NoRegisterLost', OpenAny \/ OpenMember PROVE DInv'
<1>1. PICK k, f : Visit(k) /\ f.kind = k /\ f.ops = <<>> /\ frames' = Append(frames, f)
                  /\ UNCHANGED <<ctl, tracker>>
  <2>1. ASSUME NEW k, Open(k)
        PROVE  \E f : f.kind = k /\ f.ops = <<>> /\ frames' = Append(frames, f)
    <3>1. PICK f : f = Frame(k, 0, 0)
      OBVIOUS
    <3> QED
      BY <2>1, <3>1 DEF Open, Frame
  <2>2. ASSUME NEW n, OpenCall(n)
        PROVE  \E f : f.kind = "call" /\ f.ops = <<>> /\ frames' = Append(frames, f)
    <3>1. PICK f : f = Frame("call", n, 0)
      OBVIOUS
    <3> QED
      BY <2>2, <3>1 DEF OpenCall, Frame
  <2>3. ASSUME NEW k, Open(k) PROVE Visit(k) /\ UNCHANGED <<ctl, tracker>>
    BY <2>3 DEF Open
  <2>4. ASSUME NEW n, OpenCall(n) PROVE Visit("call") /\ UNCHANGED <<ctl, tracker>>
    BY <2>4 DEF OpenCall
  <2>5. CASE \E k : Open(k)
    BY <2>1, <2>3, <2>5
  <2>6. CASE \E n : OpenCall(n)
    BY <2>2, <2>4, <2>6
  <2> QED
    BY <2>5, <2>6 DEF OpenAny, OpenMember
<1>2. /\ ctl = "emit" /\ stmt' = stmt
      /\ k = "assign" => frames = <<>> /\ stmt = "expr"
      /\ k = "neg" /\ frames # <<>> => ~Asks(frames[Len(frames)])
  BY <1>1, VisitDeep
<1>3. PICK fs, s, gs : fs = frames /\ s = stmt /\ gs = frames'
  OBVIOUS
<1>4. /\ IsList(fs) /\ Nested(fs, s) /\ gs = Append(fs, f)
      /\ f.kind = "assign" => fs = <<>> /\ s = "expr"
      /\ f.kind = "neg" /\ fs # <<>> => ~Asks(fs[Len(fs)])
  BY <1>1, <1>2, <1>3 DEF Held, Accounted, DInv
<1>5. Nested(gs, s)
  BY <1>4, NestedOpened
<1>6. \A r : Free(gs, r) => Free(fs, r)
  BY <1>4, FreeOpened
<1>7. GivenBack(tracker', frames', Local)
  BY <1>1, <1>2, <1>3, <1>6 DEF DInv, GivenBack
<1>8. Nested(frames', stmt') /\ stmt' \in StmtKinds \cup {"none"} /\ ctl' = "emit"
  BY <1>1, <1>2, <1>3, <1>5 DEF DInv
<1> QED
  BY <1>7, <1>8, NotExited DEF DInv

-----------------------------------------------------------------------------
(* Statements give back what is left. *)

LEMMA FreedIs ==
  ASSUME NEW t, Sound(t), NEW v, NEW u, u = RegFree(t, v), NEW r \in GP, v[1] = "%", v[2] = r
  PROVE  r \in u.unused
BY DEF Sound, RegFree

LEMMA StatementDeep ==
  ASSUME Frugal, Held, PInv, DInv, NoRegisterLost',
         \/ ExprStmt \/ PrintStmt \/ ReturnStmt \/ IfStmt \/ WhileStmt \/ VarStmt
         \/ ArrayStmt \/ DefaultVar \/ (\E k \in StmtKinds : Begin(k))
  PROVE  DInv'
<1>1. ASSUME NEW k, Finished(k), k # "none"
      PROVE  /\ k \in {"expr", "print", "if", "while"} /\ stmt' = stmt /\ ctl = "back"
             /\ frames = <<>> /\ Sound(tracker) /\ \A r : Free(frames, r)
             /\ k # "expr" => GivenBack(tracker, frames, Ref)
  <2>1. ctl = "back" /\ stmt = k /\ stmt' = stmt /\ frames = <<>>
    BY <1>1 DEF Finished
  <2>2. k \in {"expr", "print", "if", "while"}
    BY <1>1, <2>1 DEF DInv, Frugal
  <2>3. Sound(tracker)
    BY DEF PInv, Tracks, Sound, DInv, NoRegisterLost
  <2>4. \A r : Free(frames, r)
    BY <2>1, AllFree
  <2> QED
    BY <2>1, <2>2, <2>3, <2>4 DEF DInv
<1>2. ASSUME NEW k, Finished(k), k # "none", ctl' = "stmt", frames' = frames,
             \A q \in GP : q \in tracker'.unused
      PROVE  DInv'
  <2>1. PICK u : u = tracker'
    OBVIOUS
  <2>2. GivenBack(u, frames, Local)
    BY <1>2, <2>1 DEF GivenBack
  <2> QED
    BY <1>1, <1>2, <2>1, <2>2, EndedDeep
<1>3. PICK t, a : t = tracker /\ a = Ref
  OBVIOUS
<1>4. CASE ExprStmt
  <2>1. PICK k : k = "expr" /\ Finished(k) /\ k # "none"
    BY <1>4 DEF ExprStmt
  <2>2. tracker' = ResetRegisters(tracker) /\ ctl' = "stmt" /\ frames' = frames
    BY <1>4 DEF ExprStmt, EndStmt
  <2>3. \A q \in GP : q \in tracker'.unused
    BY <1>1, <2>1, <2>2 DEF ResetRegisters, Sound
  <2> QED
    BY <1>2, <2>1, <2>2, <2>3
<1>5. CASE PrintStmt
  <2>1. PICK k : k # "expr" /\ k # "none" /\ Finished(k)
    BY <1>5 DEF PrintStmt
  <2>2. PICK u : u = tracker' /\ u = RegFree(t, a) /\ ctl' = "stmt" /\ frames' = frames
    BY <1>3, <1>5 DEF PrintStmt, EndStmt
  <2>3. GivenBack(t, frames, a) /\ Sound(t) /\ \A r : Free(frames, r)
    BY <1>1, <1>3, <2>1
  <2>4. GivenBack(u, frames, Local)
    BY <2>2, <2>3, GivenFreed
  <2>5. \A q \in GP : q \in tracker'.unused
    BY <2>2, <2>3, <2>4 DEF GivenBack, Local
  <2> QED
    BY <1>2, <2>1, <2>2, <2>5
<1>6. CASE IfStmt
  <2>1. PICK k : k # "expr" /\ k # "none" /\ Finished(k)
    BY <1>6 DEF IfStmt
  <2>2. GivenBack(t, frames, a) /\ Sound(t) /\ \A r : Free(frames, r)
    BY <1>1, <1>3, <2>1
  <2>3. MakeAssignable(t, last) # {}
    <3> SUFFICES ASSUME MakeAssignable(t, last) = {} PROVE FALSE
      OBVIOUS
    <3>1. t.unused = {}
      <4>1. last \in DOMAIN t.register => t.register[last] # "rax"
        BY <1>3, RegisterNames DEF PInv, Tracks
      <4> QED
        BY <4>1 DEF MakeAssignable
    <3> QED
      BY <2>2, <3>1, OneRegister
  <2>4. PICK c \in MakeAssignable(t, last) :
          /\ tracker' = RegFree(IF a # <<"%", c.r>> THEN RegFree(c.t, a) ELSE c.t,
                                <<"%", c.r>>)
          /\ EndStmt
    BY <1>3, <1>6, <2>3 DEF IfStmt
  <2>5. PICK x, y, r, e : x = c.t /\ y = <<"%", c.r>> /\ r = c.r /\ e = last
    OBVIOUS
  <2>6. PICK z : z = IF a # y THEN RegFree(x, a) ELSE x
    OBVIOUS
  <2>7. PICK u : u = RegFree(z, y) /\ tracker' = u
    BY <2>4, <2>5, <2>6
  <2>8. Sound(x) /\ Answers(t, e, c) /\ r \in GP /\ y[1] = "%" /\ y[2] = r
    <3>1. Tracks(t, nodes, frames)
      BY <1>3 DEF PInv
    <3>2. c \in MakeAssignable(t, e)
      BY <2>4, <2>5
    <3>3. Answers(t, e, c)
      BY <3>1, <3>2, Answered
    <3>4. Sound(c.t)
      BY <2>2, <3>2, AssignableSound
    <3> QED
      BY <2>5, <3>1, <3>3, <3>4 DEF Answers, Tracks
  <2>9. t.unused \subseteq x.unused \cup {r}
    BY <2>5, <2>8, AnswerGives
  <2>10. x.unused \subseteq z.unused /\ Sound(z)
    <3>1. CASE z = RegFree(x, a)
      BY <2>8, <3>1, FreeGrows, FreeSound
    <3>2. CASE z = x
      BY <2>8, <3>2
    <3> QED
      BY <2>6, <3>1, <3>2
  <2>11. z.unused \subseteq u.unused /\ r \in u.unused
    <3>1. u = RegFree(z, y) /\ y[1] = "%" /\ y[2] = r /\ r \in GP
      BY <2>7, <2>8
    <3> QED
      BY <2>10, <3>1, FreeGrows, FreedIs
  <2>12. ASSUME NEW q \in GP, a[1] = "%", a[2] = q PROVE q \in u.unused
    <3>1. CASE a = y
      BY <2>8, <2>11, <2>12, <3>1
    <3>2. CASE a # y
      <4>1. z = RegFree(x, a)
        BY <2>6, <3>2
      <4>2. q \in z.unused
        BY <2>8, <2>12, <4>1, FreedIs
      <4> QED
        BY <2>11, <4>2
    <3> QED
      BY <3>1, <3>2
  <2>13. \A q \in GP : q \in tracker'.unused
    BY <2>2, <2>7, <2>9, <2>10, <2>11, <2>12 DEF GivenBack
  <2> QED
    BY <1>2, <2>1, <2>4, <2>13 DEF EndStmt
<1>7. CASE WhileStmt
  <2>1. PICK k : k # "expr" /\ k # "none" /\ Finished(k)
    BY <1>7 DEF WhileStmt
  <2>2. GivenBack(t, frames, a) /\ Sound(t) /\ \A r : Free(frames, r)
    BY <1>1, <1>3, <2>1
  <2>3. a[1] # "%" => \A q \in GP : q \in t.unused
    BY <2>2 DEF GivenBack
  <2>4. a[1] # "%" => AcquireRegister(t, last) # {}
    <3> SUFFICES ASSUME a[1] # "%", AcquireRegister(t, last) = {} PROVE FALSE
      OBVIOUS
    <3>1. t.unused = {}
      BY DEF AcquireRegister
    <3> QED
      BY <2>2, <3>1, OneRegister
  <2>5. PICK c \in IF a[1] = "%" THEN {[t |-> t, r |-> a[2]]} ELSE AcquireRegister(t, last) :
          tracker' = RegFree(c.t, <<"%", c.r>>) /\ EndStmt
    <3>1. (IF a[1] = "%" THEN {[t |-> t, r |-> a[2]]} ELSE AcquireRegister(t, last)) # {}
      BY <2>4
    <3> QED
      BY <1>3, <1>7, <3>1 DEF WhileStmt
  <2>6. PICK x, y, r, e, u : /\ x = c.t /\ y = <<"%", c.r>> /\ r = c.r /\ e = last
                             /\ u = tracker'
    OBVIOUS
  <2>7. u = RegFree(x, y) /\ y[1] = "%" /\ y[2] = r
    BY <2>5, <2>6
  <2>8. CASE a[1] = "%"
    <3>1. x = t /\ r = a[2]
      BY <2>5, <2>6, <2>8
    <3>2. t.unused \subseteq u.unused
      BY <2>7, <3>1, FreeGrows
    <3>3. \A q \in GP : q = r => q \in u.unused
      <4> SUFFICES ASSUME NEW q \in GP, q = r PROVE q \in u.unused
        OBVIOUS
      <4>1. Sound(x)
        BY <2>2, <3>1
      <4> QED
        BY <2>7, <4>1, FreedIs
    <3>4. \A q \in GP : q \in tracker'.unused
      BY <2>2, <2>6, <3>1, <3>2, <3>3 DEF GivenBack
    <3> QED
      BY <1>2, <2>1, <2>5, <3>4 DEF EndStmt
  <2>9. CASE a[1] # "%"
    <3>1. Tracks(t, nodes, frames)
      BY <1>3 DEF PInv
    <3>2. c \in AcquireRegister(t, e)
      BY <2>5, <2>6, <2>9
    <3>3. Answers(t, e, c)
      BY <3>1, <3>2, Answered
    <3>4. Sound(x) /\ r \in GP
      <4>1. Sound(c.t)
        BY <2>2, <3>2, AcquiredSound
      <4> QED
        BY <2>6, <3>1, <3>3, <4>1 DEF Answers, Tracks
    <3>5. t.unused \subseteq x.unused \cup {r}
      BY <2>6, <3>3, AnswerGives
    <3>6. x.unused \subseteq u.unused /\ r \in u.unused
      BY <2>7, <3>4, FreeGrows, FreedIs
    <3>7. \A q \in GP : q \in tracker'.unused
      BY <2>3, <2>6, <2>9, <3>5, <3>6
    <3> QED
      BY <1>2, <2>1, <2>5, <3>7 DEF EndStmt
  <2> QED
    BY <2>8, <2>9
<1>8. ~(ReturnStmt \/ VarStmt \/ ArrayStmt \/ DefaultVar)
  <2>1. ASSUME NEW k \in {"return", "var", "array"}, Finished(k) PROVE FALSE
    BY <1>1, <2>1
  <2>2. ~DefaultVar
    BY DEF DefaultVar, Frugal
  <2> QED
    BY <2>1, <2>2 DEF ReturnStmt, VarStmt, ArrayStmt
<1>9. CASE \E k \in StmtKinds : Begin(k)
  <2>1. /\ ctl = "stmt" /\ ctl' = "emit" /\ UNCHANGED <<frames, tracker>>
        /\ stmt' \in StmtKinds
    BY <1>9 DEF Begin
  <2>2. frames = <<>>
    BY <2>1 DEF PInv
  <2>3. Len(frames') = 0
    BY <2>1, <2>2, Nothing
  <2>4. Nested(frames', stmt')
    BY <2>3 DEF Nested
  <2>5. GivenBack(tracker', frames', Local)
    BY <2>1 DEF DInv
  <2> QED
    BY <2>1, <2>4, <2>5, NotExited DEF DInv
<1> QED
  BY <1>4, <1>5, <1>6, <1>7, <1>8, <1>9

-----------------------------------------------------------------------------
(* Where every step leaves the registers. *)

LEMMA StartsDeep == ASSUME Frugal, Init PROVE DInv
<1>1. /\ ctl = "stmt" /\ frames = <<>> /\ stmt = "none" /\ tracker.unused = GP
  BY DEF Init, Tracker0
<1>2. Len(frames) = 0
  BY <1>1, Nothing
<1>3. Nested(frames, stmt) /\ GivenBack(tracker, frames, Local) /\ NoRegisterLost
  BY <1>1, <1>2 DEF Nested, GivenBack, NoRegisterLost
<1> QED
  BY <1>1, <1>3 DEF DInv, ExitsOnlyWhenDeep

LEMMA StepDeep ==
  ASSUME Frugal, Held, PInv, NoPuts, DInv, ObjectsNext PROVE DInv'
<1>1. NoRegisterLost'
  <2>1. Sound(tracker)
    BY DEF PInv, Tracks, Sound, DInv, NoRegisterLost
  <2> QED
    BY <2>1, TrackerSound DEF Sound, NoRegisterLost
<1>2. ~UnknownRef
  BY DEF UnknownRef, PInv, FoundWhere
<1>3. Simple
  BY DEF Frugal
<1> QED
  BY <1>1, <1>2, <1>3, SimpleSteps, LeavesDeep, OpensDeep, GroupingDeep, UnaryDeep,
     BinaryLeftDeep, BinaryRightDeep, AssignmentDeep, CallArgDeep, EndCallDeep, FieldDeep,
     StatementDeep

LEMMA StayDeep == ASSUME DInv, UNCHANGED vars PROVE DInv'
<1>1. UNCHANGED <<ctl, frames, last, stmt, tracker>>
  BY DEF vars, control
<1>2. Top' = Top /\ Ref' = Ref
  BY <1>1 DEF Top, Ref
<1>3. ExitsOnlyWhenDeep' /\ NoRegisterLost'
  BY <1>1 DEF DInv, ExitsOnlyWhenDeep, NoRegisterLost
<1> QED
  BY <1>1, <1>2, <1>3 DEF DInv

(* With two registers or more, in simple programs of any size that declare no
   variables, return from no function, have no assignment within an expression and
   no negation, unless it is in parentheses, for a left operand or for the operand
   of another: the compiler runs out of registers only where more operations are in
   progress than there are registers. Whatever has ended has given back what it
   took, also where the register had two names or its owner had been forgotten
   (codegen.h:44-59, 116-133, codegen.cc:350-463, 579-671). *)
THEOREM RunsOutOnlyWhenDeep == ASSUME Frugal PROVE ObjectsSpec => []ExitsOnlyWhenDeep
<1>1. Init => DInv
  BY StartsDeep
<1>2. Held /\ PInv /\ NoPuts /\ DInv /\ [ObjectsNext]_vars => DInv'
  BY StepDeep, StayDeep
<1>3. DInv => ExitsOnlyWhenDeep
  BY DEF DInv
<1>4. ObjectsSpec => [](Held /\ PInv /\ NoPuts)
  BY StaysWell DEF Frugal
<1> QED
  BY <1>1, <1>2, <1>3, <1>4, PTL DEF ObjectsSpec
=============================================================================
