----------------------------- MODULE ParserProofs -----------------------------
(***************************************************************************)
(* Three properties of the Parser for programs of any length and any       *)
(* tokens.                                                                 *)
(***************************************************************************)
EXTENDS Parser, SequenceTheorems, TLAPS

-----------------------------------------------------------------------------
(* outer_class. *)

\* The classes that are being parsed are numbered from the outside in, and
\* each remembers the one around it; an error stays one.
ClassesNest ==
  /\ depth \in Nat
  /\ outer_class \in Nat
  /\ outers \in Seq(Nat)
  /\ Len(outers) = depth
  /\ had_error \in BOOLEAN
  /\ ~had_error => /\ \A i \in 1..depth : outers[i] = i - 1
                   /\ outer_class = depth

\* A function that leaves by an exception leaves all the others.
LEMMA ErrorNests ==
  ASSUME ClassesNest, NEW s, ParseErr(s)
  PROVE  ClassesNest'
BY DEF ClassesNest, ParseErr

\* A step that leaves the classes alone keeps them nested.
LEMMA OtherNests ==
  ASSUME ClassesNest, UNCHANGED classes, had_error' \in BOOLEAN, had_error => had_error'
  PROVE  ClassesNest'
BY DEF ClassesNest, classes

\* The numbering is kept by every step.
LEMMA NestingStep ==
  ASSUME ClassesNest, [Next]_vars
  PROVE  ClassesNest'
<1>1. CASE UNCHANGED vars
  BY <1>1, OtherNests DEF vars, ClassesNest
<1>2. CASE StartDeclaration \/ Finish \/ Complete \/ ReturnType
  BY <1>2, OtherNests DEF StartDeclaration, Finish, Complete, ReturnType, ClassesNest
<1>3. CASE Parse
  BY <1>3, OtherNests DEF Parse, ClassesNest
<1>4. CASE Consume
  BY <1>4, OtherNests, ErrorNests DEF Consume, ClassesNest
<1>5. CASE UnexpectedToken
  BY <1>5, ErrorNests DEF UnexpectedToken
<1>6. CASE Assign
  BY <1>6, OtherNests DEF Assign, ClassesNest
<1>7. CASE EnterClass
  <2>1. outers' \in Seq(Nat) /\ Len(outers') = Len(outers) + 1
    BY <1>7 DEF EnterClass, ClassesNest
  <2>2. \A i \in 1..Len(outers) : outers'[i] = outers[i]
    BY <1>7 DEF EnterClass, ClassesNest
  <2>3. outers'[Len(outers) + 1] = outer_class
    BY <1>7 DEF EnterClass, ClassesNest
  <2>4. depth' = depth + 1 /\ outer_class' = depth + 1 /\ had_error' = had_error
    BY <1>7 DEF EnterClass
  <2>5. ASSUME ~had_error, NEW i \in 1..depth'
        PROVE  outers'[i] = i - 1
    <3>1. CASE i <= depth
      BY <2>2, <2>4, <2>5, <3>1 DEF ClassesNest
    <3>2. CASE i = depth + 1
      BY <2>3, <2>4, <2>5, <3>2 DEF ClassesNest
    <3>. QED
      BY <2>4, <3>1, <3>2 DEF ClassesNest
  <2>6. depth' \in Nat /\ outer_class' = depth' /\ Len(outers') = depth'
    BY <2>1, <2>4 DEF ClassesNest
  <2>. QED
    BY <2>1, <2>4, <2>5, <2>6 DEF ClassesNest
<1>8. CASE LeaveClass
  <2>1. Len(outers) \in Nat \ {0}
    <3>1. outers # <<>> /\ outers \in Seq(Nat)
      BY <1>8 DEF LeaveClass, ClassesNest
    <3>. QED
      BY <3>1, EmptySeq
  <2>2. outers' = SubSeq(outers, 1, Len(outers) - 1)
    BY <1>8 DEF LeaveClass
  <2>3. /\ outers' \in Seq(Nat) /\ Len(outers') = Len(outers) - 1
        /\ \A i \in 1..Len(outers) - 1 : outers'[i] = outers[i]
    <3>1. \A i \in 1..Len(outers) - 1 : outers[i] \in Nat
      BY <2>1 DEF ClassesNest
    <3>2. PICK n \in Nat : n = Len(outers) - 1
      BY <2>1
    <3>3. /\ SubSeq(outers, 1, n) \in Seq(Nat)
          /\ Len(SubSeq(outers, 1, n)) = IF 1 <= n THEN n - 1 + 1 ELSE 0
          /\ \A i \in 1..n - 1 + 1 : SubSeq(outers, 1, n)[i] = outers[1 + i - 1]
      <4>1. 1 \in Int /\ n \in Int /\ \A i \in 1..n : outers[i] \in Nat
        BY <3>1, <3>2
      <4>. QED
        BY <4>1, SubSeqProperties
    <3>. QED
      BY <2>2, <3>2, <3>3
  <2>4. /\ outer_class' = outers[Len(outers)] /\ outer_class' \in Nat
        /\ depth' = depth - 1 /\ had_error' = had_error
    BY <1>8, <2>1 DEF LeaveClass, ClassesNest
  <2>5. ASSUME ~had_error
        PROVE  /\ \A i \in 1..depth' : outers'[i] = i - 1
               /\ outer_class' = depth'
    BY <2>1, <2>3, <2>4, <2>5 DEF ClassesNest
  <2>6. depth' \in Nat /\ Len(outers') = depth'
    BY <2>1, <2>3, <2>4 DEF ClassesNest
  <2>. QED
    BY <2>3, <2>4, <2>5, <2>6 DEF ClassesNest
<1>9. CASE Synchronize \/ SkipToken
  BY <1>9, OtherNests DEF Synchronize, SkipToken, Recovering, ClassesNest
<1>. QED
  BY <1>1, <1>2, <1>3, <1>4, <1>5, <1>6, <1>7, <1>8, <1>9 DEF Next

(* An init takes its type from the class it is in, however deeply classes and
   methods nest (parser.cc:77-78, 103). *)
THEOREM InnermostClass == Spec => []OuterClassIsInnermost
<1>1. ASSUME Init
      PROVE  ClassesNest
  <2>1. depth = 0 /\ outer_class = 0 /\ had_error = FALSE
    BY <1>1 DEF Init
  <2>2. outers \in Seq(Nat) /\ Len(outers) = 0
    BY <1>1 DEF Init
  <2>3. \A i \in 1..depth : outers[i] = i - 1
    BY <2>1
  <2>. QED
    BY <2>1, <2>2, <2>3 DEF ClassesNest
<1>2. ClassesNest /\ [Next]_vars => ClassesNest'
  BY NestingStep
<1>3. ClassesNest => OuterClassIsInnermost
  BY DEF ClassesNest, OuterClassIsInnermost
<1>. QED
  BY <1>1, <1>2, <1>3, PTL DEF Spec

-----------------------------------------------------------------------------
(* Recovery. *)

\* When nothing has been consumed since the last ParseErr, there is either the
\* token it was met at to be skipped, or no token left.
NoTokenTwice ==
  /\ mode \in {"parse", "thrown", "synchronize", "done"}
  /\ mode # "parse" => todo = <<>>
  /\ ~moved => /\ todo = <<>>
               /\ mode # "thrown" => ahead # <<>> /\ ahead[1] = EOF

\* What is looked at is what was looked at before.
LEMMA PeekIsAhead ==
  ASSUME NEW s \in Peek, ahead # <<>>
  PROVE  s = ahead
BY DEF Peek

\* Looking ahead shows at least one token.
LEMMA PeekSees ==
  ASSUME NEW s \in Peek
  PROVE  s # <<>>
BY DEF Peek

\* A function in progress has consumed a token since the last ParseErr, and
\* every step keeps to NoTokenTwice.
LEMMA RecoveryStep ==
  ASSUME NoTokenTwice, [Next]_vars
  PROVE  NoTokenTwice' /\ (mode' = "thrown" => moved \/ UNCHANGED vars)
<1>1. CASE UNCHANGED vars
  BY <1>1 DEF vars, tokens, NoTokenTwice
<1>2. CASE StartDeclaration
  <2>1. moved
    BY <1>2, PeekIsAhead DEF StartDeclaration, NoTokenTwice
  <2>. QED
    BY <1>2, <2>1 DEF StartDeclaration, NoTokenTwice
<1>3. CASE Finish
  <2>1. PICK s \in Peek : s[1] = EOF /\ ahead' = s
    BY <1>3 DEF Finish
  <2>2. ahead' # <<>> /\ ahead'[1] = EOF
    BY <2>1, PeekSees
  <2>. QED
    BY <1>3, <2>2 DEF Finish, NoTokenTwice
<1>4. ASSUME mode = "parse", todo # <<>>
      PROVE  moved
  BY <1>4 DEF NoTokenTwice
<1>5. CASE Parse
  <2>1. moved /\ mode = "parse"
    BY <1>4, <1>5 DEF Parse, Doing
  <2>2. moved' /\ mode' = "parse"
    BY <1>5, <2>1 DEF Parse, Advance
  <2>. QED
    BY <2>1, <2>2 DEF NoTokenTwice
<1>6. CASE Consume
  <2>1. moved /\ mode = "parse"
    BY <1>4, <1>6 DEF Consume, Doing
  <2>2. (moved' /\ mode' = "parse") \/ (mode' = "thrown" /\ todo' = <<>>)
    BY <1>6, <2>1 DEF Consume, Advance, ParseErr
  <2>. QED
    BY <2>1, <2>2 DEF NoTokenTwice
<1>7. CASE UnexpectedToken
  <2>1. moved
    BY <1>4, <1>7 DEF UnexpectedToken, Doing
  <2>. QED
    BY <1>7, <2>1 DEF UnexpectedToken, ParseErr, NoTokenTwice
<1>8. CASE Complete \/ Assign \/ EnterClass \/ LeaveClass \/ ReturnType
  <2>1. moved /\ mode = "parse"
    BY <1>4, <1>8 DEF Complete, Assign, EnterClass, LeaveClass, ReturnType, Doing
  <2>2. moved' /\ mode' = "parse"
    BY <1>8, <2>1 DEF Complete, Assign, EnterClass, LeaveClass, ReturnType
  <2>. QED
    BY <2>1, <2>2 DEF NoTokenTwice
<1>9. CASE Synchronize
  <2>1. mode = "thrown" /\ mode' = "synchronize" /\ todo' = todo /\ todo = <<>>
    BY <1>9 DEF Synchronize, Recovering, NoTokenTwice
  <2>2. moved' \/ (ahead' # <<>> /\ ahead'[1] = EOF)
    BY <1>9, PeekSees DEF Synchronize, Skip
  <2>. QED
    BY <2>1, <2>2 DEF NoTokenTwice
<1>10. CASE SkipToken
  <2>1. mode = "synchronize" /\ todo' = todo /\ todo = <<>>
    BY <1>10 DEF SkipToken, Recovering, NoTokenTwice
  <2>2. mode' \in {"parse", "synchronize"}
    BY <1>10, <2>1 DEF SkipToken
  <2>3. PICK s \in Peek : \/ ahead' = s /\ moved' = moved
                          \/ moved' = TRUE
    BY <1>10 DEF SkipToken, Skip
  <2>4. ~moved => s = ahead
    BY <2>1, PeekIsAhead DEF NoTokenTwice
  <2>. QED
    BY <2>1, <2>2, <2>3, <2>4 DEF NoTokenTwice
<1>. QED
  BY <1>1, <1>2, <1>3, <1>5, <1>6, <1>7, <1>8, <1>9, <1>10 DEF Next

(* Between two errors at least one token is consumed, however long the program
   is and whatever errors it has (parser.cc:505-506). *)
THEOREM RecoveryAdvances == Spec => ErrorsAdvance
<1>1. Init => NoTokenTwice
  BY DEF Init, NoTokenTwice
<1>2. NoTokenTwice /\ [Next]_vars => NoTokenTwice'
  BY RecoveryStep
<1>3. NoTokenTwice /\ [Next]_vars => [mode' = "thrown" => moved]_vars
  BY RecoveryStep
<1>. QED
  BY <1>1, <1>2, <1>3, PTL DEF Spec, ErrorsAdvance

-----------------------------------------------------------------------------
(* Brackets. *)

RuleNames ==
  {"declaration", "statement", "else", "return_value", "for_init", "for_condition",
   "for_increment", "block", "var_type", "var_init", "dimensions", "superclass", "members",
   "func", "params", "param", "next_param", "expression", "assignment", "unary", "primary",
   "call", "args", "arg", "next_arg"} \cup {Levels[i] : i \in DOMAIN Levels}

\* An item that has to do with no bracket.
Plain(x) ==
  /\ x.what = "consume" => x.name \notin Openers \cup Closers
  /\ x.what = "parse" => x.name \in RuleNames

\* What is left to do takes the open brackets from o to p: it consumes one, closes
\* the innermost, or has nothing open in the end that was not before.
Work(x, o, p) ==
  \/ x.what = "consume" /\ x.name \in Openers /\ p = <<x.name>> \o o
  \/ \E b \in Openers : x.what = "consume" /\ x.name = Closer[b] /\ o = <<b>> \o p
  \/ Plain(x) /\ p = o

Stacks == Seq(Openers)

Trace(st, s, o, p) ==
  /\ st \in [0..Len(s) -> Stacks] /\ st[0] = o /\ st[Len(s)] = p
  /\ \A i \in 1..Len(s) : Work(s[i], st[i - 1], st[i])

Works(s, o, p) == \E st : Trace(st, s, o, p)

IsList(s) == \E S : s \in Seq(S)

LEMMA Lists ==
  ASSUME NEW s, IsList(s), NEW u, IsList(u), NEW r, r = s \o u
  PROVE  /\ IsList(r) /\ Len(s) \in Nat /\ Len(u) \in Nat /\ Len(r) = Len(s) + Len(u)
         /\ \A i \in 1..Len(s) : r[i] = s[i]
         /\ \A i \in 1..Len(u) : r[Len(s) + i] = u[i]
<1>1. PICK S, T : s \in Seq(S) /\ u \in Seq(T)
  BY DEF IsList
<1>2. s \in Seq(S \cup T) /\ u \in Seq(S \cup T)
  BY <1>1, SeqMonotonic
<1>3. /\ r \in Seq(S \cup T) /\ Len(r) = Len(s) + Len(u)
      /\ \A i \in 1..Len(s) + Len(u) : r[i] = IF i <= Len(s) THEN s[i] ELSE u[i - Len(s)]
  BY <1>2, ConcatProperties
<1>4. PICK m \in Nat, n \in Nat : m = Len(s) /\ n = Len(u)
  BY <1>2, LenProperties
<1>5. \A i \in 1..m : i \in 1..m + n /\ i <= m
  BY <1>4
<1>6. \A i \in 1..n : m + i \in 1..m + n /\ ~(m + i <= m) /\ (m + i) - m = i
  BY <1>4
<1> QED
  BY <1>3, <1>4, <1>5, <1>6 DEF IsList

LEMMA WorksJoined ==
  ASSUME NEW s, IsList(s), NEW u, IsList(u), NEW r, r = s \o u,
         NEW o, NEW p, NEW q, Works(s, o, p), Works(u, p, q)
  PROVE  Works(r, o, q)
<1>1. PICK f, g : Trace(f, s, o, p) /\ Trace(g, u, p, q)
  BY DEF Works
<1>2. PICK m \in Nat, n \in Nat : m = Len(s) /\ n = Len(u)
  BY Lists
<1>3. /\ Len(r) = m + n
      /\ \A i \in 1..m : r[i] = s[i]
      /\ \A i \in 1..n : r[m + i] = u[i]
  BY <1>2, Lists
<1> DEFINE h == [i \in 0..m + n |-> IF i <= m THEN f[i] ELSE g[i - m]]
<1>4. f \in [0..m -> Stacks] /\ f[0] = o /\ f[m] = p /\ \A i \in 1..m : Work(s[i], f[i - 1], f[i])
  BY <1>1, <1>2 DEF Trace
<1>5. g \in [0..n -> Stacks] /\ g[0] = p /\ g[n] = q /\ \A i \in 1..n : Work(u[i], g[i - 1], g[i])
  BY <1>1, <1>2 DEF Trace
<1>6. h \in [0..m + n -> Stacks] /\ h[0] = o
  BY <1>4, <1>5
<1>7. h[m + n] = q
  <2>1. CASE n = 0
    BY <1>4, <1>5, <2>1
  <2>2. CASE n # 0
    <3>1. m + n \in 0..m + n /\ ~(m + n <= m) /\ (m + n) - m = n
      BY <2>2
    <3> QED
      BY <1>5, <3>1
  <2> QED
    BY <2>1, <2>2
<1>8. ASSUME NEW i \in 1..m + n
      PROVE  Work(r[i], h[i - 1], h[i])
  <2>1. CASE i <= m
    <3>1. i \in 1..m /\ h[i] = f[i] /\ h[i - 1] = f[i - 1] /\ r[i] = s[i]
      BY <1>3, <2>1
    <3> QED
      BY <1>4, <3>1
  <2>2. CASE ~(i <= m)
    <3>1. PICK j \in 1..n : i = m + j
      <4>1. i - m \in 1..n /\ i = m + (i - m)
        BY <2>2
      <4> QED
        BY <4>1
    <3>2. h[i] = g[j] /\ r[i] = u[j]
      <4>1. (m + j) - m = j /\ m + j \in 0..m + n
        OBVIOUS
      <4> QED
        BY <1>3, <2>2, <3>1, <4>1
    <3>3. h[i - 1] = g[j - 1]
      <4>1. CASE j = 1
        BY <1>4, <1>5, <3>1, <4>1
      <4>2. CASE j # 1
        <5>1. i - 1 \in 0..m + n /\ ~(i - 1 <= m) /\ (i - 1) - m = j - 1
          BY <3>1, <4>2
        <5> QED
          BY <5>1
      <4> QED
        BY <4>1, <4>2
    <3> QED
      BY <1>5, <3>2, <3>3
  <2> QED
    BY <2>1, <2>2
<1> HIDE DEF h
<1>9. Trace(h, r, o, q)
  BY <1>3, <1>6, <1>7, <1>8 DEF Trace
<1> QED
  BY <1>9 DEF Works

\* Of the first item, and of the others.
LEMMA WorksFirst ==
  ASSUME NEW s, IsList(s), s # <<>>, NEW o, NEW p, Works(s, o, p)
  PROVE  /\ IsList(Tail(s))
         /\ \E q \in Stacks : Work(Head(s), o, q) /\ Works(Tail(s), q, p)
<1>1. PICK f : Trace(f, s, o, p)
  BY DEF Works
<1>2. PICK S : s \in Seq(S)
  BY DEF IsList
<1>3. PICK u : u = Tail(s)
  OBVIOUS
<1>4. PICK n \in Nat : Len(s) = n + 1 /\ Len(u) = n
  <2>1. Len(s) \in Nat \ {0}
    BY <1>2, EmptySeq
  <2>2. Len(s) - 1 \in Nat /\ Len(s) = (Len(s) - 1) + 1
    BY <2>1
  <2>3. Len(u) = Len(s) - 1
    BY <1>2, <1>3, HeadTailProperties
  <2> QED
    BY <2>2, <2>3
<1>5. /\ u \in Seq(S) /\ Head(s) = s[1]
      /\ \A i \in 1..n : u[i] = s[i + 1]
  BY <1>2, <1>3, <1>4, HeadTailProperties
<1> DEFINE g == [i \in 0..n |-> f[i + 1]]
<1>6. /\ f \in [0..n + 1 -> Stacks] /\ f[0] = o /\ f[n + 1] = p
      /\ \A i \in 1..n + 1 : Work(s[i], f[i - 1], f[i])
  BY <1>1, <1>4 DEF Trace
<1>7. g \in [0..n -> Stacks] /\ g[0] = f[1] /\ g[n] = p
  BY <1>6
<1>8. ASSUME NEW i \in 1..n
      PROVE  Work(u[i], g[i - 1], g[i])
  <2>1. i + 1 \in 1..n + 1 /\ (i + 1) - 1 = i /\ g[i] = f[i + 1] /\ g[i - 1] = f[i]
    OBVIOUS
  <2> QED
    BY <1>5, <1>6, <2>1
<1> HIDE DEF g
<1>9. Trace(g, u, f[1], p)
  BY <1>4, <1>7, <1>8 DEF Trace
<1>10. f[1] \in Stacks /\ Work(s[1], o, f[1])
  <2>1. 1 \in 1..n + 1 /\ 1 - 1 = 0
    OBVIOUS
  <2> QED
    BY <1>6, <2>1
<1> QED
  BY <1>3, <1>5, <1>9, <1>10 DEF IsList, Works

LEMMA WorksNothing ==
  ASSUME NEW o, NEW p, Works(<<>>, o, p)
  PROVE  o = p
<1>1. Len(<<>>) = 0
  BY EmptySeq
<1> QED
  BY <1>1 DEF Works, Trace

LEMMA PlainWorks ==
  ASSUME NEW S, NEW s \in Seq(S), \A x \in S : Plain(x), NEW o \in Stacks
  PROVE  Works(s, o, o)
<1> DEFINE st == [i \in 0..Len(s) |-> o]
<1>1. Len(s) \in Nat /\ \A i \in 1..Len(s) : Plain(s[i])
  BY LenProperties, ElementOfSeq
<1>2. st \in [0..Len(s) -> Stacks] /\ st[0] = o /\ st[Len(s)] = o
  BY <1>1
<1>3. ASSUME NEW i \in 1..Len(s)
      PROVE  Work(s[i], st[i - 1], st[i])
  <2>1. st[i] = o /\ st[i - 1] = o
    BY <1>1
  <2> QED
    BY <1>1, <2>1 DEF Work
<1> HIDE DEF st
<1>4. Trace(st, s, o, o)
  BY <1>2, <1>3 DEF Trace
<1> QED
  BY <1>4 DEF Works

-----------------------------------------------------------------------------
(* What the functions of the grammar leave to do. *)

\* All brackets of s are consumed and closed; or a b that is open is closed as well.
Keeps(s) == IsList(s) /\ \A o \in Stacks : Works(s, o, o)
Ends(s, b) == IsList(s) /\ \A o \in Stacks : Works(s, <<b>> \o o, o)

LEMMA Brackets ==
  /\ Openers = {"LEFT_PAREN", "LEFT_BRACE", "LEFT_BRACKET"}
  /\ Closers = {"RIGHT_PAREN", "RIGHT_BRACE", "RIGHT_BRACKET"}
  /\ Closer["LEFT_PAREN"] = "RIGHT_PAREN" /\ Closer["LEFT_BRACE"] = "RIGHT_BRACE"
  /\ Closer["LEFT_BRACKET"] = "RIGHT_BRACKET"
BY DEF Openers, Closers, Closer

LEMMA Opened == ASSUME NEW o \in Stacks, NEW b \in Openers PROVE <<b>> \o o \in Stacks
BY DEF Stacks

LEMMA KeepsPlain ==
  ASSUME NEW S, NEW s \in Seq(S), \A x \in S : Plain(x) PROVE Keeps(s)
BY PlainWorks DEF Keeps, IsList

LEMMA OneItem == ASSUME NEW x, Plain(x), NEW s, s = <<x>> PROVE Keeps(s)
<1>1. PICK S : S = {x}
  OBVIOUS
<1>2. s \in Seq(S) /\ \A y \in S : Plain(y)
  BY <1>1
<1> QED
  BY <1>2, KeepsPlain

LEMMA KeepsBoth ==
  ASSUME NEW s, Keeps(s), NEW u, Keeps(u), NEW r, r = s \o u PROVE Keeps(r)
<1>1. IsList(r)
  BY Lists DEF Keeps
<1>2. ASSUME NEW o \in Stacks PROVE Works(r, o, o)
  BY WorksJoined DEF Keeps
<1> QED
  BY <1>1, <1>2 DEF Keeps

\* One of the items closes b, the others have to do with no bracket.
LEMMA EndsAt ==
  ASSUME NEW b \in Openers, NEW s, IsList(s), NEW n \in Nat, n = Len(s), NEW r \in 1..n,
         s[r] = Need(Closer[b]), \A i \in (1..n) \ {r} : Plain(s[i])
  PROVE  Ends(s, b)
<1>1. s[r].what = "consume" /\ s[r].name = Closer[b]
  BY DEF Need, Item
<1>2. ASSUME NEW o \in Stacks PROVE Works(s, <<b>> \o o, o)
  <2>1. PICK p \in Stacks : p = <<b>> \o o
    BY Opened
  <2> DEFINE st == [i \in 0..n |-> IF i < r THEN p ELSE o]
  <2>2. st \in [0..n -> Stacks] /\ st[0] = p /\ st[n] = o
    OBVIOUS
  <2>3. ASSUME NEW i \in 1..n PROVE Work(s[i], st[i - 1], st[i])
    <3>1. CASE i = r
      <4>1. st[i - 1] = p /\ st[i] = o
        BY <3>1
      <4> QED
        BY <1>1, <2>1, <3>1, <4>1 DEF Work
    <3>2. CASE i # r
      <4>1. st[i - 1] = st[i]
        BY <3>2
      <4> QED
        BY <3>2, <4>1 DEF Work
    <3> QED
      BY <3>1, <3>2
  <2> HIDE DEF st
  <2>4. Trace(st, s, p, o)
    BY <2>2, <2>3 DEF Trace
  <2> QED
    BY <2>1, <2>4 DEF Works
<1> QED
  BY <1>2 DEF Ends

\* One of the items opens b, a later one closes it.
LEMMA KeepsAround ==
  ASSUME NEW b \in Openers, NEW s, IsList(s), NEW n \in Nat, n = Len(s),
         NEW l \in 1..n, NEW r \in 1..n, l < r, s[l] = Need(b), s[r] = Need(Closer[b]),
         \A i \in (1..n) \ {l, r} : Plain(s[i])
  PROVE  Keeps(s)
<1>1. /\ s[l].what = "consume" /\ s[l].name = b
      /\ s[r].what = "consume" /\ s[r].name = Closer[b]
  BY DEF Need, Item
<1>2. ASSUME NEW o \in Stacks PROVE Works(s, o, o)
  <2>1. PICK p \in Stacks : p = <<b>> \o o
    BY Opened
  <2> DEFINE st == [i \in 0..n |-> IF l <= i /\ i < r THEN p ELSE o]
  <2>2. st \in [0..n -> Stacks] /\ st[0] = o /\ st[n] = o
    OBVIOUS
  <2>3. ASSUME NEW i \in 1..n PROVE Work(s[i], st[i - 1], st[i])
    <3>1. CASE i = l
      <4>1. st[i - 1] = o /\ st[i] = p
        BY <3>1
      <4> QED
        BY <1>1, <2>1, <3>1, <4>1 DEF Work
    <3>2. CASE i = r
      <4>1. st[i - 1] = p /\ st[i] = o
        BY <3>2
      <4> QED
        BY <1>1, <2>1, <3>2, <4>1 DEF Work
    <3>3. CASE i \notin {l, r}
      <4>1. st[i - 1] = st[i]
        BY <3>3
      <4> QED
        BY <3>3, <4>1 DEF Work
    <3> QED
      BY <3>1, <3>2, <3>3
  <2> HIDE DEF st
  <2>4. Trace(st, s, o, o)
    BY <2>2, <2>3 DEF Trace
  <2> QED
    BY <2>4 DEF Works
<1> QED
  BY <1>2 DEF Keeps

LEMMA PlainItems ==
  /\ \A name \in RuleNames : Plain(Do(name)) /\ \A n : Plain(Count(name, n))
  /\ \A t : t \notin Openers \cup Closers => Plain(Need(t))
  /\ \A kind : Plain(Made(kind))
  /\ \A what, t : what \notin {"consume", "parse"} => Plain(Item(what, t, 0))
BY DEF Plain, Do, Need, Made, Count, Item

LEMMA PlainNeeds ==
  Plain(Need("IDENTIFIER")) /\ Plain(Need("COLON")) /\ Plain(Need("SEMICOLON"))
BY PlainItems, Brackets

LEMMA PlainDoes ==
  /\ Plain(Do("declaration")) /\ Plain(Do("statement")) /\ Plain(Do("else"))
  /\ Plain(Do("return_value")) /\ Plain(Do("for_init")) /\ Plain(Do("for_condition"))
  /\ Plain(Do("for_increment")) /\ Plain(Do("block")) /\ Plain(Do("var_type"))
  /\ Plain(Do("var_init")) /\ Plain(Do("dimensions")) /\ Plain(Do("superclass"))
  /\ Plain(Do("members")) /\ Plain(Do("func")) /\ Plain(Do("params"))
  /\ Plain(Do("expression")) /\ Plain(Do("assignment")) /\ Plain(Do("unary"))
  /\ Plain(Do("primary")) /\ Plain(Do("call")) /\ Plain(Do("args"))
BY PlainItems DEF RuleNames

-----------------------------------------------------------------------------
LEMMA TypeKeeps == Keeps(Type)
<1>1. Type \in Seq({Need("IDENTIFIER"), Do("dimensions")})
  BY DEF Type
<1> QED
  BY <1>1, PlainNeeds, PlainDoes, KeepsPlain

LEMMA VarKeeps == Keeps(Var)
<1>1. Var \in Seq({Need("IDENTIFIER"), Do("var_type"), Need("SEMICOLON")})
  BY DEF Var
<1> QED
  BY <1>1, PlainNeeds, PlainDoes, KeepsPlain

LEMMA ExprStmtKeeps == Keeps(ExprStmt)
<1>1. ExprStmt \in Seq({Do("expression"), Need("SEMICOLON")})
  BY DEF ExprStmt
<1> QED
  BY <1>1, PlainNeeds, PlainDoes, KeepsPlain

LEMMA BlockEnds == Ends(Block, "LEFT_BRACE")
<1>1. Block \in Seq({Do("block"), Need("RIGHT_BRACE")}) /\ Len(Block) = 2
  BY DEF Block
<1>2. Block[1] = Do("block") /\ Block[2] = Need(Closer["LEFT_BRACE"])
  BY Brackets DEF Block
<1>3. (1..2) \ {2} = {1}
  OBVIOUS
<1>4. \A i \in (1..2) \ {2} : Plain(Block[i])
  BY <1>2, <1>3, PlainDoes
<1> QED
  BY <1>1, <1>2, <1>4, Brackets, EndsAt DEF IsList

\* A block with its opening brace.
LEMMA BracedKeeps ==
  ASSUME NEW a, a = Need("LEFT_BRACE"), NEW r, r = <<a, Do("block"), Need("RIGHT_BRACE")>>
  PROVE  Keeps(r)
<1>1. r \in Seq({a, Do("block"), Need("RIGHT_BRACE")}) /\ Len(r) = 3
  OBVIOUS
<1>2. r[1] = Need("LEFT_BRACE") /\ r[2] = Do("block") /\ r[3] = Need(Closer["LEFT_BRACE"])
  BY Brackets
<1>3. (1..3) \ {1, 3} = {2}
  OBVIOUS
<1>4. \A i \in (1..3) \ {1, 3} : Plain(r[i])
  BY <1>2, <1>3, PlainDoes
<1>5. IsList(r)
  BY <1>1 DEF IsList
<1>6. 3 \in Nat /\ 1 \in 1..3 /\ 3 \in 1..3 /\ 1 < 3
  OBVIOUS
<1> QED
  BY <1>1, <1>2, <1>4, <1>5, <1>6, Brackets, KeepsAround

LEMMA ConditionKeeps == Keeps(Condition)
<1>1. /\ Condition \in Seq({Need("LEFT_PAREN"), Do("expression"), Need("RIGHT_PAREN")})
      /\ Len(Condition) = 3
  BY DEF Condition
<1>2. /\ Condition[1] = Need("LEFT_PAREN") /\ Condition[2] = Do("expression")
      /\ Condition[3] = Need(Closer["LEFT_PAREN"])
  BY Brackets DEF Condition
<1>3. (1..3) \ {1, 3} = {2}
  OBVIOUS
<1>4. \A i \in (1..3) \ {1, 3} : Plain(Condition[i])
  BY <1>2, <1>3, PlainDoes
<1>5. IsList(Condition)
  BY <1>1 DEF IsList
<1>6. 3 \in Nat /\ 1 \in 1..3 /\ 3 \in 1..3 /\ 1 < 3
  OBVIOUS
<1> QED
  BY <1>1, <1>2, <1>4, <1>5, <1>6, Brackets, KeepsAround

\* A token that is consumed is no closing bracket; if it is an opening one, what is
\* left to do closes it.
Balanced(rule, t) ==
  \/ Keeps(rule.todo) /\ (rule.eat => t \notin Openers \cup Closers)
  \/ rule.eat /\ t \in Openers /\ Ends(rule.todo, t)

LEMMA KeepBalanced == ASSUME NEW s, Keeps(s), NEW t PROVE Balanced(Keep(s), t)
BY DEF Balanced, Keep

LEMMA NothingBalanced == ASSUME NEW t PROVE Balanced(Nothing, t)
<1>1. PICK s : s = <<>>
  OBVIOUS
<1>2. s \in Seq({})
  BY <1>1, EmptySeq
<1>3. Keeps(s)
  BY <1>2, KeepsPlain
<1>4. Nothing = Keep(s)
  BY <1>1 DEF Nothing
<1> QED
  BY <1>3, <1>4, KeepBalanced

LEMMA ThrowBalanced == ASSUME NEW t PROVE Balanced(Throw, t)
<1>1. PICK x : x = Item("throw", "", 0)
  OBVIOUS
<1>2. PICK s : s = <<x>>
  OBVIOUS
<1>3. Keeps(s)
  BY <1>1, <1>2, PlainItems, OneItem
<1>4. Throw = Keep(s)
  BY <1>1, <1>2 DEF Throw
<1> QED
  BY <1>3, <1>4, KeepBalanced

LEMMA EatBalanced ==
  ASSUME NEW s, Keeps(s), NEW t, t \notin Openers \cup Closers PROVE Balanced(Eat(s), t)
BY DEF Balanced, Eat

LEMMA EatEndBalanced ==
  ASSUME NEW s, NEW t \in Openers, Ends(s, t) PROVE Balanced(Eat(s), t)
BY DEF Balanced, Eat

LEMMA EatIfBalanced ==
  ASSUME NEW s, Keeps(s), NEW t, NEW x, x \notin Openers \cup Closers
  PROVE  Balanced(EatIf(t, x, s), t)
<1>1. CASE Is(t, x)
  <2>1. t \notin Openers \cup Closers
    BY <1>1, Brackets DEF Is
  <2> QED
    BY <1>1, <2>1, EatBalanced DEF EatIf
<1>2. CASE ~Is(t, x)
  BY <1>2, NothingBalanced DEF EatIf
<1> QED
  BY <1>1, <1>2

-----------------------------------------------------------------------------
LEMMA DimensionsBalanced == ASSUME NEW t PROVE Balanced(Dimensions(t), t)
<1>1. PICK a, b, c, r : /\ a = Do("expression") /\ b = Need("RIGHT_BRACKET")
                       /\ c = Do("dimensions") /\ r = <<a, b, c>>
  OBVIOUS
<1>2. r \in Seq({a, b, c}) /\ Len(r) = 3 /\ r[1] = a /\ r[2] = b /\ r[3] = c
  BY <1>1
<1>3. (1..3) \ {2} = {1, 3}
  OBVIOUS
<1>4. \A i \in (1..3) \ {2} : Plain(r[i])
  BY <1>1, <1>2, <1>3, PlainDoes
<1>5. b = Need(Closer["LEFT_BRACKET"])
  BY <1>1, Brackets
<1>6. Ends(r, "LEFT_BRACKET")
  BY <1>2, <1>4, <1>5, Brackets, EndsAt DEF IsList
<1>7. Dimensions(t) = IF t = "LEFT_BRACKET" THEN Eat(r) ELSE Nothing
  BY <1>1 DEF Dimensions, EatIf, Is
<1> QED
  BY <1>6, <1>7, Brackets, EatEndBalanced, NothingBalanced

LEMMA VarTypeBalanced == ASSUME NEW t PROVE Balanced(VarType(t), t)
<1>1. PICK r, s, u : r = <<Do("expression")>> /\ s = <<Need("COLON")>> /\ u = <<Do("var_init")>>
  OBVIOUS
<1>2. r \in Seq({Do("expression")}) /\ s \in Seq({Need("COLON")}) /\ u \in Seq({Do("var_init")})
  BY <1>1
<1>3. Keeps(r) /\ Keeps(s) /\ Keeps(u)
  BY <1>2, PlainDoes, PlainNeeds, KeepsPlain
<1>4. PICK v : v = s \o Type /\ Keeps(v)
  BY <1>3, TypeKeeps, KeepsBoth
<1>5. PICK w : w = v \o u /\ Keeps(w)
  BY <1>3, <1>4, KeepsBoth
<1>6. VarType(t) = IF t = "EQUAL" THEN Eat(r) ELSE Keep(w)
  BY <1>1, <1>4, <1>5 DEF VarType
<1> QED
  BY <1>3, <1>5, <1>6, Brackets, EatBalanced, KeepBalanced

LEMMA VarInitBalanced == ASSUME NEW t PROVE Balanced(VarInit(t), t)
<1>1. PICK r : r = <<Do("expression")>>
  OBVIOUS
<1>2. r \in Seq({Do("expression")})
  BY <1>1
<1>3. Keeps(r)
  BY <1>2, PlainDoes, KeepsPlain
<1>4. VarInit(t) = EatIf(t, "EQUAL", r)
  BY <1>1 DEF VarInit
<1> QED
  BY <1>3, <1>4, Brackets, EatIfBalanced

LEMMA BlockBodyBalanced == ASSUME NEW t PROVE Balanced(BlockBody(t), t)
<1>1. PICK r : r = <<Do("declaration"), Do("block")>>
  OBVIOUS
<1>2. r \in Seq({Do("declaration"), Do("block")})
  BY <1>1
<1>3. Keeps(r)
  BY <1>2, PlainDoes, KeepsPlain
<1> QED
  BY <1>1, <1>3, NothingBalanced, KeepBalanced DEF BlockBody

LEMMA SuperclassBalanced == ASSUME NEW t PROVE Balanced(Superclass(t), t)
<1>1. PICK r : r = <<Need("IDENTIFIER")>>
  OBVIOUS
<1>2. r \in Seq({Need("IDENTIFIER")})
  BY <1>1
<1>3. Keeps(r)
  BY <1>2, PlainNeeds, KeepsPlain
<1>4. Superclass(t) = EatIf(t, "LESS", r)
  BY <1>1 DEF Superclass
<1> QED
  BY <1>3, <1>4, Brackets, EatIfBalanced

LEMMA MembersBalanced == ASSUME NEW s PROVE Balanced(Members(s), s[1])
<1>1. PICK f, m : f = <<Do("func")>> /\ m = <<Do("members")>>
  OBVIOUS
<1>2. f \in Seq({Do("func")}) /\ m \in Seq({Do("members")})
  BY <1>1
<1>3. Keeps(f) /\ Keeps(m)
  BY <1>2, PlainDoes, KeepsPlain
<1>4. PICK a, b : a = Var \o m /\ b = f \o m /\ Keeps(a) /\ Keeps(b)
  BY <1>3, VarKeeps, KeepsBoth
<1>5. Members(s) = IF s[1] \in {"RIGHT_BRACE", EOF} THEN Nothing
                   ELSE Keep(IF Len(s) = 2 /\ s[2] = "COLON" THEN a ELSE b)
  BY <1>1, <1>4 DEF Members
<1> QED
  BY <1>4, <1>5, NothingBalanced, KeepBalanced

LEMMA ClassKeeps == Keeps(Class)
<1>1. PICK a, b, c : a = Need("IDENTIFIER") /\ b = Item("enter", "", 0) /\ c = Do("superclass")
  OBVIOUS
<1>2. PICK d, e, f, g : /\ d = Need("LEFT_BRACE") /\ e = Do("members")
                       /\ f = Need("RIGHT_BRACE") /\ g = Item("leave", "", 0)
  OBVIOUS
<1>3. PICK s : s = <<a, b, c, d, e, f, g>> /\ s = Class
  BY <1>1, <1>2 DEF Class
<1>4. s \in Seq({a, b, c, d, e, f, g}) /\ Len(s) = 7
  BY <1>3
<1>5. s[1] = a /\ s[2] = b /\ s[3] = c /\ s[4] = d /\ s[5] = e /\ s[6] = f /\ s[7] = g
  BY <1>3
<1>6. Plain(a) /\ Plain(b) /\ Plain(c) /\ Plain(e) /\ Plain(g)
  BY <1>1, <1>2, PlainNeeds, PlainDoes, PlainItems
<1>7. (1..7) \ {4, 6} = {1, 2, 3, 5, 7}
  OBVIOUS
<1>8. \A i \in (1..7) \ {4, 6} : Plain(s[i])
  BY <1>5, <1>6, <1>7
<1>9. f = Need(Closer["LEFT_BRACE"])
  BY <1>2, Brackets
<1>10. IsList(s) /\ 7 = Len(s)
  BY <1>4 DEF IsList
<1>11. 7 \in Nat /\ 4 \in 1..7 /\ 6 \in 1..7 /\ 4 < 6
  OBVIOUS
<1>12. s[4] = Need("LEFT_BRACE") /\ s[6] = Need(Closer["LEFT_BRACE"])
  BY <1>2, <1>5, <1>9
<1>13. Keeps(s)
  BY <1>8, <1>10, <1>11, <1>12, Brackets, KeepsAround
<1> QED
  BY <1>3, <1>13

LEMMA FuncBalanced == ASSUME NEW t PROVE Balanced(Func(t), t)
<1>1. PICK a, b, c, d : /\ a = Need("LEFT_PAREN") /\ b = Do("params")
                       /\ c = Need("RIGHT_PAREN") /\ d = Item("returns", t, 0)
  OBVIOUS
<1>2. PICK e, f, g : e = Need("LEFT_BRACE") /\ f = Do("block") /\ g = Need("RIGHT_BRACE")
  OBVIOUS
<1>3. Func(t) = IF Is(t, "IDENTIFIER") THEN Eat(<<a, b, c, d, e>> \o <<f, g>>) ELSE Throw
  BY <1>1, <1>2 DEF Func, Block
<1>4. <<a, b, c, d, e>> \o <<f, g>> = <<a, b, c, d>> \o <<e, f, g>>
  OBVIOUS
<1>5. PICK s, u : s = <<a, b, c, d>> /\ u = <<e, f, g>>
  OBVIOUS
<1>6. s \in Seq({a, b, c, d}) /\ Len(s) = 4 /\ s[1] = a /\ s[2] = b /\ s[3] = c /\ s[4] = d
  BY <1>5
<1>7. Plain(b) /\ Plain(d)
  BY <1>1, PlainDoes, PlainItems
<1>8. (1..4) \ {1, 3} = {2, 4}
  OBVIOUS
<1>9. \A i \in (1..4) \ {1, 3} : Plain(s[i])
  BY <1>6, <1>7, <1>8
<1>10. c = Need(Closer["LEFT_PAREN"])
  BY <1>1, Brackets
<1>11. Keeps(s)
  <2>1. IsList(s) /\ 4 = Len(s)
    BY <1>6 DEF IsList
  <2>2. 4 \in Nat /\ 1 \in 1..4 /\ 3 \in 1..4 /\ 1 < 3
    OBVIOUS
  <2>3. s[1] = Need("LEFT_PAREN") /\ s[3] = Need(Closer["LEFT_PAREN"])
    BY <1>1, <1>6, <1>10
  <2> QED
    BY <1>9, <2>1, <2>2, <2>3, Brackets, KeepsAround
<1>12. Keeps(u)
  BY <1>2, <1>5, BracedKeeps
<1>13. PICK r : r = s \o u /\ Keeps(r)
  BY <1>11, <1>12, KeepsBoth
<1>14. Func(t) = IF Is(t, "IDENTIFIER") THEN Eat(r) ELSE Throw
  BY <1>3, <1>4, <1>5, <1>13
<1>15. Is(t, "IDENTIFIER") => t \notin Openers \cup Closers
  BY Brackets DEF Is
<1> QED
  BY <1>13, <1>14, <1>15, EatBalanced, ThrowBalanced

LEMMA ParamsBalanced == ASSUME NEW t PROVE Balanced(Params(t), t) /\ Balanced(Args(t), t)
<1>1. PICK r, s : r = <<Count("param", 1)>> /\ s = <<Count("arg", 1)>>
  OBVIOUS
<1>2. r \in Seq({Count("param", 1)}) /\ s \in Seq({Count("arg", 1)})
  BY <1>1
<1>3. Plain(Count("param", 1)) /\ Plain(Count("arg", 1))
  BY PlainItems DEF RuleNames
<1>4. Keeps(r) /\ Keeps(s)
  BY <1>2, <1>3, KeepsPlain
<1>5. Balanced(Keep(r), t) /\ Balanced(Keep(s), t) /\ Balanced(Nothing, t)
  BY <1>4, KeepBalanced, NothingBalanced
<1> QED
  BY <1>1, <1>5 DEF Params, Args

LEMMA ParamBalanced == ASSUME NEW t, NEW n PROVE Balanced(Param(n), t)
<1>1. PICK c, r, s : /\ c = Count("next_param", n + 1) /\ r = <<Need("IDENTIFIER"), Need("COLON")>>
                    /\ s = <<c>>
  OBVIOUS
<1>2. r \in Seq({Need("IDENTIFIER"), Need("COLON")}) /\ s \in Seq({c})
  BY <1>1
<1>3. Plain(c)
  BY <1>1, PlainItems DEF RuleNames
<1>4. Keeps(r) /\ Keeps(s)
  BY <1>2, <1>3, PlainNeeds, KeepsPlain
<1>5. PICK v : v = r \o Type /\ Keeps(v)
  BY <1>4, TypeKeeps, KeepsBoth
<1>6. PICK w : w = v \o s /\ Keeps(w)
  BY <1>4, <1>5, KeepsBoth
<1>7. Param(n) = Keep(w)
  BY <1>1, <1>5, <1>6 DEF Param
<1> QED
  BY <1>6, <1>7, KeepBalanced

LEMMA ArgBalanced == ASSUME NEW t, NEW n PROVE Balanced(Arg(n), t)
<1>1. PICK c, r : c = Count("next_arg", n + 1) /\ r = <<Do("expression"), c>>
  OBVIOUS
<1>2. r \in Seq({Do("expression"), c})
  BY <1>1
<1>3. Plain(c)
  BY <1>1, PlainItems DEF RuleNames
<1>4. Keeps(r)
  BY <1>2, <1>3, PlainDoes, KeepsPlain
<1>5. Arg(n) = Keep(r)
  BY <1>1 DEF Arg
<1> QED
  BY <1>4, <1>5, KeepBalanced

LEMMA NextBalanced ==
  ASSUME NEW t, NEW n PROVE Balanced(NextParam(t, n), t) /\ Balanced(NextArg(t, n), t)
<1>1. PICK c, d, r, s : /\ c = Count("param", n) /\ r = <<c>>
                       /\ d = Count("arg", n) /\ s = <<d>>
  OBVIOUS
<1>2. r \in Seq({c}) /\ s \in Seq({d})
  BY <1>1
<1>3. Plain(c) /\ Plain(d)
  BY <1>1, PlainItems DEF RuleNames
<1>4. Keeps(r) /\ Keeps(s)
  BY <1>2, <1>3, KeepsPlain
<1>5. Balanced(EatIf(t, "COMMA", r), t) /\ Balanced(EatIf(t, "COMMA", s), t)
  BY <1>4, Brackets, EatIfBalanced
<1> QED
  BY <1>1, <1>5 DEF NextParam, NextArg

\* The functions that do one thing or nothing.
LEMMA OptionsBalanced ==
  ASSUME NEW t
  PROVE  /\ Balanced(Else(t), t) /\ Balanced(ReturnValue(t), t) /\ Balanced(ForInit(t), t)
         /\ Balanced(ForCondition(t), t) /\ Balanced(ForIncrement(t), t)
<1>1. PICK s, e : s = <<Do("statement")>> /\ e = <<Do("expression")>> /\ Keeps(s) /\ Keeps(e)
  BY PlainDoes, OneItem
<1>2. Balanced(EatIf(t, "ELSE", s), t)
  BY <1>1, Brackets, EatIfBalanced
<1>3. Balanced(Keep(e), t) /\ Balanced(Nothing, t)
  BY <1>1, KeepBalanced, NothingBalanced
<1>4. Balanced(IF t = "VAR" THEN Eat(Var) ELSE Keep(ExprStmt), t)
  BY Brackets, VarKeeps, ExprStmtKeeps, EatBalanced, KeepBalanced
<1>5. Balanced(Else(t), t)
  BY <1>1, <1>2 DEF Else
<1>6. Balanced(ForInit(t), t)
  BY <1>4 DEF ForInit
<1> QED
  BY <1>1, <1>3, <1>5, <1>6 DEF ReturnValue, ForCondition, ForIncrement

LEMMA StatementBalanced == ASSUME NEW t PROVE Balanced(Statement(t), t)
<1>1. t = "LEFT_BRACE" => Balanced(Eat(Block), t)
  BY Brackets, BlockEnds, EatEndBalanced
<1>2. ASSUME t = "IF" PROVE Balanced(Eat(Condition \o <<Do("statement"), Do("else")>>), t)
  <2>1. PICK s : s = <<Do("statement"), Do("else")>>
    OBVIOUS
  <2>2. s \in Seq({Do("statement"), Do("else")})
    BY <2>1
  <2>3. Keeps(s)
    BY <2>2, PlainDoes, KeepsPlain
  <2>4. PICK r : r = Condition \o s /\ Keeps(r)
    BY <2>3, ConditionKeeps, KeepsBoth
  <2>5. Balanced(Eat(r), t)
    BY <1>2, <2>4, Brackets, EatBalanced
  <2> QED
    BY <2>1, <2>4, <2>5
<1>3. t = "PRINT" => Balanced(Eat(ExprStmt), t)
  BY Brackets, ExprStmtKeeps, EatBalanced
<1>4. ASSUME t = "RETURN" PROVE Balanced(Eat(<<Do("return_value"), Need("SEMICOLON")>>), t)
  <2>1. PICK s : s = <<Do("return_value"), Need("SEMICOLON")>>
    OBVIOUS
  <2>2. s \in Seq({Do("return_value"), Need("SEMICOLON")})
    BY <2>1
  <2>3. Keeps(s)
    BY <2>2, PlainDoes, PlainNeeds, KeepsPlain
  <2>4. Balanced(Eat(s), t)
    BY <1>4, <2>3, Brackets, EatBalanced
  <2> QED
    BY <2>1, <2>4
<1>5. ASSUME t = "WHILE" PROVE Balanced(Eat(Condition \o <<Need("LEFT_BRACE")>> \o Block), t)
  <2>1. PICK a, b, c, d, e, f : /\ a = Need("LEFT_PAREN") /\ b = Do("expression")
                               /\ c = Need("RIGHT_PAREN") /\ d = Need("LEFT_BRACE")
                               /\ e = Do("block") /\ f = Need("RIGHT_BRACE")
    OBVIOUS
  <2>2. Condition = <<a, b, c>> /\ Block = <<e, f>>
    BY <2>1 DEF Condition, Block
  <2>3. (<<a, b, c>> \o <<d>>) \o <<e, f>> = <<a, b, c>> \o <<d, e, f>>
    OBVIOUS
  <2>4. PICK u : u = <<d, e, f>> /\ Keeps(u)
    BY <2>1, BracedKeeps
  <2>5. PICK r : r = Condition \o u /\ Keeps(r)
    BY <2>4, ConditionKeeps, KeepsBoth
  <2>6. Balanced(Eat(r), t)
    BY <1>5, <2>5, Brackets, EatBalanced
  <2>7. r = (Condition \o <<Need("LEFT_BRACE")>>) \o Block
    BY <2>1, <2>2, <2>3, <2>4, <2>5
  <2> QED
    BY <2>6, <2>7
<1>6. PICK a, b, c, d, e, g, h : /\ a = Need("LEFT_PAREN") /\ b = Do("for_init")
                                /\ c = Do("for_condition") /\ d = Need("SEMICOLON")
                                /\ e = Do("for_increment") /\ g = Need("RIGHT_PAREN")
                                /\ h = Do("statement")
  OBVIOUS
<1>7. PICK f : f = <<a, b, c, d, e, g, h>> /\ Keeps(f)
  <2>1. PICK f : f = <<a, b, c, d, e, g, h>>
    OBVIOUS
  <2>2. f \in Seq({a, b, c, d, e, g, h}) /\ Len(f) = 7
    BY <2>1
  <2>3. f[1] = a /\ f[2] = b /\ f[3] = c /\ f[4] = d /\ f[5] = e /\ f[6] = g /\ f[7] = h
    BY <2>1
  <2>4. Plain(b) /\ Plain(c) /\ Plain(d) /\ Plain(e) /\ Plain(h)
    BY <1>6, PlainDoes, PlainNeeds
  <2>5. (1..7) \ {1, 6} = {2, 3, 4, 5, 7}
    OBVIOUS
  <2>6. \A i \in (1..7) \ {1, 6} : Plain(f[i])
    BY <2>3, <2>4, <2>5
  <2>7. g = Need(Closer["LEFT_PAREN"])
    BY <1>6, Brackets
  <2>8. Keeps(f)
    <3>1. IsList(f) /\ 7 = Len(f)
      BY <2>2 DEF IsList
    <3>2. 7 \in Nat /\ 1 \in 1..7 /\ 6 \in 1..7 /\ 1 < 6
      OBVIOUS
    <3>3. f[1] = Need("LEFT_PAREN") /\ f[6] = Need(Closer["LEFT_PAREN"])
      BY <1>6, <2>3, <2>7
    <3> QED
      BY <2>6, <3>1, <3>2, <3>3, Brackets, KeepsAround
  <2> QED
    BY <2>1, <2>8
<1>8. t = "FOR" => Balanced(Eat(<<Need("LEFT_PAREN"), Do("for_init"), Do("for_condition"),
                               Need("SEMICOLON"), Do("for_increment"), Need("RIGHT_PAREN"),
                               Do("statement")>>), t)
  <2>1. t = "FOR" => Balanced(Eat(f), t)
    BY <1>7, Brackets, EatBalanced
  <2> QED
    BY <1>6, <1>7, <2>1
<1>9. Balanced(Keep(ExprStmt), t)
  BY ExprStmtKeeps, KeepBalanced
<1> QED
  BY <1>1, <1>2, <1>3, <1>4, <1>5, <1>8, <1>9, Zenon DEF Statement

LEMMA DeclarationBalanced == ASSUME NEW t PROVE Balanced(Declaration(t), t)
<1>1. PICK f : f = <<Do("func")>> /\ Keeps(f)
  BY PlainDoes, OneItem
<1>2. t = "FN" => Balanced(Eat(f), t)
  BY <1>1, Brackets, EatBalanced
<1>3. t = "CLASS" => Balanced(Eat(Class), t)
  BY ClassKeeps, Brackets, EatBalanced
<1>4. t = "VAR" => Balanced(Eat(Var), t)
  BY VarKeeps, Brackets, EatBalanced
<1> QED
  BY <1>1, <1>2, <1>3, <1>4, StatementBalanced, Zenon DEF Declaration

-----------------------------------------------------------------------------
LEMMA LevelNames ==
  /\ DOMAIN Levels = 1..6 /\ Len(Levels) = 6
  /\ \A i \in 1..6 : Levels[i] \in RuleNames /\ Plain(Do(Levels[i]))
<1>1. DOMAIN Levels = 1..6 /\ Len(Levels) = 6
  BY DEF Levels
<1>2. \A i \in 1..6 : Levels[i] \in RuleNames
  BY <1>1 DEF RuleNames
<1> QED
  BY <1>1, <1>2, PlainItems

\* No operator is a bracket.
LEMMA OperatorsPlain ==
  ASSUME NEW i \in 1..6
  PROVE  Operators[Levels[i]] \cap (Openers \cup Closers) = {}
<1>1. /\ Levels[1] = "logical_or" /\ Levels[2] = "logical_and" /\ Levels[3] = "equality"
      /\ Levels[4] = "comparison" /\ Levels[5] = "addition" /\ Levels[6] = "multiplication"
  BY DEF Levels
<1>2. /\ Operators["logical_or"] = {"OR"} /\ Operators["logical_and"] = {"AND"}
      /\ Operators["equality"] = {"EQUAL_EQUAL"} /\ Operators["comparison"] = {"LESS"}
      /\ Operators["addition"] = {"PLUS", "MINUS"} /\ Operators["multiplication"] = {"STAR"}
  BY DEF Operators
<1>3. i \in {1, 2, 3, 4, 5, 6}
  OBVIOUS
<1> QED
  BY <1>1, <1>2, <1>3, Brackets

LEMMA FromKeeps == ASSUME NEW i \in 1..7 PROVE Keeps(From(i))
<1>1. PICK S : S = {Do(Levels[m]) : m \in 1..6}
  OBVIOUS
<1>2. \A x \in S : Plain(x)
  BY <1>1, LevelNames
<1>3. PICK k \in 0..6 : k = Len(Levels) + 1 - i
  BY LevelNames
<1> DEFINE f == [j \in 1..k |-> Do(Levels[Len(Levels) + 1 - j])]
<1>4. f \in Seq(S)
  <2>1. ASSUME NEW j \in 1..k PROVE f[j] \in S
    <3>1. Len(Levels) + 1 - j \in 1..6
      BY LevelNames
    <3> QED
      BY <1>1, <3>1
  <2> QED
    BY <2>1
<1>5. From(i) = <<Do("unary")>> \o f
  BY <1>3 DEF From
<1> HIDE DEF f
<1>6. Keeps(f)
  BY <1>2, <1>4, KeepsPlain
<1>7. PICK u : u = <<Do("unary")>> /\ Keeps(u)
  BY PlainDoes, OneItem
<1> QED
  BY <1>5, <1>6, <1>7, KeepsBoth

LEMMA ExpressionBalanced == ASSUME NEW t PROVE Balanced(Expression, t)
<1>1. PICK u : u = <<Do("assignment")>> /\ Keeps(u)
  BY PlainDoes, OneItem
<1>2. Keeps(From(1))
  BY FromKeeps
<1>3. PICK r : r = From(1) \o u /\ Keeps(r)
  BY <1>1, <1>2, KeepsBoth
<1> QED
  BY <1>1, <1>3, KeepBalanced DEF Expression

LEMMA LevelBalanced == ASSUME NEW i \in 1..6, NEW t PROVE Balanced(Level(i, t), t)
<1>1. PICK a, b, u : a = Made("other") /\ b = Do(Levels[i]) /\ u = <<a, b>>
  OBVIOUS
<1>2. u \in Seq({a, b})
  BY <1>1
<1>3. Plain(a) /\ Plain(b)
  BY <1>1, PlainItems, LevelNames
<1>4. Keeps(u)
  BY <1>2, <1>3, KeepsPlain
<1>5. Keeps(From(i + 1))
  <2>1. i + 1 \in 1..7
    OBVIOUS
  <2> QED
    BY <2>1, FromKeeps
<1>6. PICK r : r = From(i + 1) \o u /\ Keeps(r)
  BY <1>4, <1>5, KeepsBoth
<1>7. t \in Operators[Levels[i]] => Balanced(Eat(r), t)
  BY <1>6, OperatorsPlain, EatBalanced
<1> QED
  BY <1>1, <1>6, <1>7, NothingBalanced DEF Level

LEMMA AssignmentBalanced == ASSUME NEW t PROVE Balanced(Assignment(t), t)
<1>1. PICK a, b, r : a = Do("expression") /\ b = Item("assign", made, 0) /\ r = <<a, b>>
  OBVIOUS
<1>2. r \in Seq({a, b})
  BY <1>1
<1>3. Plain(a) /\ Plain(b)
  BY <1>1, PlainItems, PlainDoes
<1>4. Keeps(r)
  BY <1>2, <1>3, KeepsPlain
<1>5. Assignment(t) = EatIf(t, "EQUAL", r)
  BY <1>1 DEF Assignment
<1> QED
  BY <1>4, <1>5, Brackets, EatIfBalanced

LEMMA UnaryBalanced == ASSUME NEW t PROVE Balanced(Unary(t), t)
<1>1. PICK a, b, r : a = Do("unary") /\ b = Made("other") /\ r = <<a, b>>
  OBVIOUS
<1>2. PICK c, d, s : c = Do("primary") /\ d = Do("call") /\ s = <<c, d>>
  OBVIOUS
<1>3. r \in Seq({a, b}) /\ s \in Seq({c, d})
  BY <1>1, <1>2
<1>4. Plain(a) /\ Plain(b) /\ Plain(c) /\ Plain(d)
  BY <1>1, <1>2, PlainItems, PlainDoes
<1>5. Keeps(r) /\ Keeps(s)
  BY <1>3, <1>4, KeepsPlain
<1>6. Unary(t) = IF t \in {"BANG", "MINUS"} THEN Eat(r) ELSE Keep(s)
  BY <1>1, <1>2 DEF Unary
<1> QED
  BY <1>5, <1>6, Brackets, EatBalanced, KeepBalanced

LEMMA PrimaryBalanced == ASSUME NEW t PROVE Balanced(Primary(t), t)
<1>1. t = "NUMBER" => Balanced(Eat(<<Made("other")>>), t)
  <2>1. PICK r : r = <<Made("other")>> /\ Keeps(r)
    BY PlainItems, OneItem
  <2> QED
    BY <2>1, Brackets, EatBalanced
<1>2. Is(t, "IDENTIFIER") => Balanced(Eat(<<Made("variable")>>), t)
  <2>1. PICK r : r = <<Made("variable")>> /\ Keeps(r)
    BY PlainItems, OneItem
  <2>2. Is(t, "IDENTIFIER") => t \notin Openers \cup Closers
    BY Brackets DEF Is
  <2> QED
    BY <2>1, <2>2, EatBalanced
<1>3. t = "LEFT_PAREN" =>
        Balanced(Eat(<<Do("expression"), Need("RIGHT_PAREN"), Made("other")>>), t)
  <2>1. PICK a, b, c, r : /\ a = Do("expression") /\ b = Need("RIGHT_PAREN")
                         /\ c = Made("other") /\ r = <<a, b, c>>
    OBVIOUS
  <2>2. r \in Seq({a, b, c}) /\ Len(r) = 3 /\ r[1] = a /\ r[2] = b /\ r[3] = c
    BY <2>1
  <2>3. (1..3) \ {2} = {1, 3}
    OBVIOUS
  <2>4. \A i \in (1..3) \ {2} : Plain(r[i])
    BY <2>1, <2>2, <2>3, PlainDoes, PlainItems
  <2>5. b = Need(Closer["LEFT_PAREN"])
    BY <2>1, Brackets
  <2>6. Ends(r, "LEFT_PAREN")
    BY <2>2, <2>4, <2>5, Brackets, EndsAt DEF IsList
  <2> QED
    BY <2>1, <2>6, Brackets, EatEndBalanced
<1>4. Balanced(Throw, t)
  BY ThrowBalanced
<1> QED
  BY <1>1, <1>2, <1>3, <1>4, Zenon DEF Primary

LEMMA CallBalanced == ASSUME NEW t PROVE Balanced(Call(t), t)
<1>1. ASSUME NEW b \in Openers, NEW a, NEW c, Plain(a), Plain(c), NEW r,
             r = <<a, Need(Closer[b]), c, Do("call")>>
      PROVE  Ends(r, b)
  <2>1. PICK d, e : d = Need(Closer[b]) /\ e = Do("call") /\ r = <<a, d, c, e>>
    BY <1>1
  <2>2. r \in Seq({a, d, c, e}) /\ Len(r) = 4 /\ r[1] = a /\ r[2] = d /\ r[3] = c /\ r[4] = e
    BY <2>1
  <2>3. (1..4) \ {2} = {1, 3, 4}
    OBVIOUS
  <2>4. \A i \in (1..4) \ {2} : Plain(r[i])
    BY <1>1, <2>1, <2>2, <2>3, PlainDoes
  <2>5. IsList(r)
    BY <2>2 DEF IsList
  <2>6. r[2] = Need(Closer[b])
    BY <2>1, <2>2
  <2>7. 4 \in Nat /\ 4 = Len(r) /\ 2 \in 1..4
    BY <2>2
  <2> QED
    BY <2>4, <2>5, <2>6, <2>7, EndsAt
<1>2. t = "LEFT_PAREN" =>
        Balanced(Eat(<<Do("args"), Need("RIGHT_PAREN"), Made("other"), Do("call")>>), t)
  <2>1. PICK r : r = <<Do("args"), Need("RIGHT_PAREN"), Made("other"), Do("call")>>
    OBVIOUS
  <2>2. r = <<Do("args"), Need(Closer["LEFT_PAREN"]), Made("other"), Do("call")>>
    BY <2>1, Brackets
  <2>3. Ends(r, "LEFT_PAREN")
    BY <1>1, <2>2, Brackets, PlainDoes, PlainItems
  <2> QED
    BY <2>1, <2>3, Brackets, EatEndBalanced
<1>3. t = "LEFT_BRACKET" =>
        Balanced(Eat(<<Do("expression"), Need("RIGHT_BRACKET"), Made("indexed"),
                       Do("call")>>), t)
  <2>1. PICK r : r = <<Do("expression"), Need("RIGHT_BRACKET"), Made("indexed"), Do("call")>>
    OBVIOUS
  <2>2. r = <<Do("expression"), Need(Closer["LEFT_BRACKET"]), Made("indexed"), Do("call")>>
    BY <2>1, Brackets
  <2>3. Ends(r, "LEFT_BRACKET")
    BY <1>1, <2>2, Brackets, PlainDoes, PlainItems
  <2> QED
    BY <2>1, <2>3, Brackets, EatEndBalanced
<1>4. t = "DOT" => Balanced(Eat(<<Need("IDENTIFIER"), Made("field"), Do("call")>>), t)
  <2>1. PICK a, b, c, r : /\ a = Need("IDENTIFIER") /\ b = Made("field") /\ c = Do("call")
                         /\ r = <<a, b, c>>
    OBVIOUS
  <2>2. r \in Seq({a, b, c})
    BY <2>1
  <2>3. Plain(a) /\ Plain(b) /\ Plain(c)
    BY <2>1, PlainNeeds, PlainDoes, PlainItems
  <2>4. Keeps(r)
    BY <2>2, <2>3, KeepsPlain
  <2> QED
    BY <2>1, <2>4, Brackets, EatBalanced
<1>5. Balanced(Nothing, t)
  BY NothingBalanced
<1> QED
  BY <1>2, <1>3, <1>4, <1>5, Zenon DEF Call

\* Whatever function is called, and whatever token it sees.
LEMMA RuleBalanced ==
  ASSUME NEW name \in RuleNames, NEW n, NEW s
  PROVE  Balanced(Rule(name, n, s), s[1])
<1>1. PICK t : t = s[1]
  OBVIOUS
<1> DEFINE other == \A x \in {"declaration", "statement", "else", "return_value", "for_init",
      "for_condition", "for_increment", "block", "var_type", "var_init", "dimensions",
      "superclass", "members", "func", "params", "param", "next_param", "expression",
      "assignment", "unary", "primary", "call", "args", "arg", "next_arg"} : name # x
<1>2. other => Balanced(Level(CHOOSE i \in DOMAIN Levels : Levels[i] = name, t), t)
  <2>1. other => \E i \in DOMAIN Levels : Levels[i] = name
    BY DEF RuleNames
  <2>2. other => (CHOOSE i \in DOMAIN Levels : Levels[i] = name) \in 1..6
    BY <2>1, LevelNames
  <2> QED
    BY <2>2, LevelBalanced
<1>3. /\ Balanced(Declaration(t), t) /\ Balanced(Statement(t), t) /\ Balanced(Else(t), t)
      /\ Balanced(ReturnValue(t), t) /\ Balanced(ForInit(t), t) /\ Balanced(ForCondition(t), t)
      /\ Balanced(ForIncrement(t), t)
  BY DeclarationBalanced, StatementBalanced, OptionsBalanced
<1>4. /\ Balanced(BlockBody(t), t) /\ Balanced(VarType(t), t) /\ Balanced(VarInit(t), t)
      /\ Balanced(Dimensions(t), t) /\ Balanced(Superclass(t), t) /\ Balanced(Members(s), t)
      /\ Balanced(Func(t), t)
  BY <1>1, BlockBodyBalanced, VarTypeBalanced, VarInitBalanced, DimensionsBalanced,
     SuperclassBalanced, MembersBalanced, FuncBalanced
<1>5. /\ Balanced(Params(t), t) /\ Balanced(Args(t), t) /\ Balanced(Param(n), t)
      /\ Balanced(Arg(n), t) /\ Balanced(NextParam(t, n), t) /\ Balanced(NextArg(t, n), t)
  BY ParamsBalanced, ParamBalanced, ArgBalanced, NextBalanced
<1>6. /\ Balanced(Expression, t) /\ Balanced(Assignment(t), t) /\ Balanced(Unary(t), t)
      /\ Balanced(Primary(t), t) /\ Balanced(Call(t), t)
  BY ExpressionBalanced, AssignmentBalanced, UnaryBalanced, PrimaryBalanced, CallBalanced
<1>7. Balanced(Rule(name, n, s), t)
  BY <1>1, <1>2, <1>3, <1>4, <1>5, <1>6, ZenonT(60) DEF Rule
<1> QED
  BY <1>1, <1>7

-----------------------------------------------------------------------------
\* As long as there was no error, what is left to do closes the open brackets, from
\* the innermost to the outermost, and every one it opens.
ClosesOpen(s, o) == o \in Stacks /\ IsList(s) /\ Works(s, o, <<>>)

TodoClosesOpen ==
  /\ had_error \in BOOLEAN
  /\ ~had_error => ClosesOpen(todo, open)

\* An item that has to do with no bracket is replaced by what opens and closes its own.
LEMMA Replaced ==
  ASSUME ClosesOpen(todo, open), todo # <<>>, Top.what # "consume"
  PROVE  /\ Plain(Top)
         /\ \A r : Keeps(r) => ClosesOpen(r \o Rest, open)
         /\ \A r, b : b \in Openers /\ Ends(r, b) => ClosesOpen(r \o Rest, <<b>> \o open)
         /\ ClosesOpen(Rest, open)
<1>1. /\ IsList(Rest)
      /\ \E q \in Stacks : Work(Top, open, q) /\ Works(Rest, q, <<>>)
  BY WorksFirst DEF ClosesOpen, Top, Rest
<1>2. IsList(Rest) /\ Plain(Top) /\ Works(Rest, open, <<>>)
  BY <1>1 DEF Work
<1>3. open \in Stacks
  BY DEF ClosesOpen
<1>4. ASSUME NEW r, Keeps(r) PROVE ClosesOpen(r \o Rest, open)
  <2>1. IsList(r) /\ Works(r, open, open)
    BY <1>3, <1>4 DEF Keeps
  <2>2. IsList(r \o Rest) /\ Works(r \o Rest, open, <<>>)
    BY <1>2, <2>1, Lists, WorksJoined
  <2> QED
    BY <1>3, <2>2 DEF ClosesOpen
<1>5. ASSUME NEW r, NEW b \in Openers, Ends(r, b) PROVE ClosesOpen(r \o Rest, <<b>> \o open)
  <2>1. PICK p \in Stacks : p = <<b>> \o open
    BY <1>3, Opened
  <2>2. IsList(r) /\ Works(r, p, open)
    BY <1>3, <1>5, <2>1 DEF Ends
  <2>3. IsList(r \o Rest) /\ Works(r \o Rest, p, <<>>)
    BY <1>2, <2>2, Lists, WorksJoined
  <2> QED
    BY <2>1, <2>3 DEF ClosesOpen
<1> QED
  BY <1>2, <1>3, <1>4, <1>5 DEF ClosesOpen

\* A token that is consumed where it is asked for opens or closes what the item does.
LEMMA ConsumedNests ==
  ASSUME ClosesOpen(todo, open), todo # <<>>, Top.what = "consume",
         NEW t, Is(t, Top.name)
  PROVE  ClosesOpen(Rest, Nest(t))
<1>1. IsList(Rest)
  BY WorksFirst DEF ClosesOpen, Top, Rest
<1>2. PICK q \in Stacks : Work(Top, open, q) /\ Works(Rest, q, <<>>)
  BY WorksFirst DEF ClosesOpen, Top, Rest
<1>3. CASE Top.name \in Openers /\ q = <<Top.name>> \o open
  <2>1. t = Top.name
    BY <1>3, Brackets DEF Is
  <2>2. t \notin Closers
    BY <1>3, <2>1, Brackets
  <2>3. Nest(t) = q
    BY <1>3, <2>1, <2>2 DEF Nest
  <2> QED
    BY <1>1, <1>2, <2>3 DEF ClosesOpen
<1>4. ASSUME NEW b \in Openers, Top.name = Closer[b], open = <<b>> \o q
      PROVE  ClosesOpen(Rest, Nest(t))
  <2>1. t = Closer[b] /\ t \in Closers
    BY <1>4, Brackets DEF Is
  <2>2. open # <<>> /\ open[1] = b /\ Tail(open) = q
    BY <1>4 DEF Stacks
  <2>3. Nest(t) = q
    BY <2>1, <2>2 DEF Nest
  <2> QED
    BY <1>1, <1>2, <2>3 DEF ClosesOpen
<1>5. CASE Plain(Top) /\ q = open
  <2>1. Top.name \notin Openers \cup Closers
    BY <1>5 DEF Plain
  <2>2. t \notin Openers \cup Closers
    BY <2>1, Brackets DEF Is
  <2>3. Nest(t) = q
    BY <1>5, <2>2 DEF Nest
  <2> QED
    BY <1>1, <1>2, <2>3 DEF ClosesOpen
<1> QED
  BY <1>2, <1>3, <1>4, <1>5 DEF Work

\* What a function leaves to do closes what it consumed.
LEMMA ParsedNests ==
  ASSUME ClosesOpen(todo, open), Parse
  PROVE  ClosesOpen(todo', open')
<1>1. todo # <<>> /\ Top.what = "parse"
  BY DEF Parse, Doing
<1>2. PICK s, rule :
        /\ rule = Rule(Top.name, Top.n, s)
        /\ todo' = rule.todo \o Rest
        /\ IF rule.eat THEN open' = Nest(s[1]) ELSE open' = open
  BY DEF Parse, Advance
<1>3. Plain(Top)
  BY <1>1, Replaced
<1>4. Top.name \in RuleNames
  BY <1>1, <1>3 DEF Plain
<1>5. Balanced(rule, s[1])
  BY <1>2, <1>4, RuleBalanced
<1>6. CASE ~rule.eat
  BY <1>1, <1>2, <1>5, <1>6, Replaced DEF Balanced
<1>7. CASE rule.eat /\ s[1] \notin Openers \cup Closers
  <2>1. open' = open
    BY <1>2, <1>7 DEF Nest
  <2>2. Keeps(rule.todo)
    BY <1>5, <1>7 DEF Balanced
  <2> QED
    BY <1>1, <1>2, <2>1, <2>2, Replaced
<1>8. CASE rule.eat /\ s[1] \in Openers /\ Ends(rule.todo, s[1])
  <2>1. s[1] \notin Closers
    BY <1>8, Brackets
  <2>2. open' = <<s[1]>> \o open
    BY <1>2, <1>8, <2>1 DEF Nest
  <2> QED
    BY <1>1, <1>2, <1>8, <2>2, Replaced
<1> QED
  BY <1>5, <1>6, <1>7, <1>8 DEF Balanced

\* A step that meets no new error and keeps the list true to the brackets.
LEMMA OtherCloses ==
  ASSUME TodoClosesOpen, had_error' \in BOOLEAN, had_error => had_error',
         ~had_error => ClosesOpen(todo', open')
  PROVE  TodoClosesOpen'
BY DEF TodoClosesOpen, ClosesOpen, IsList, Works, Trace, Work, Plain, Stacks

LEMMA ErrorCloses == ASSUME NEW s, ParseErr(s) PROVE TodoClosesOpen'
BY DEF ParseErr, TodoClosesOpen

LEMMA ClosingStep ==
  ASSUME TodoClosesOpen, [Next]_vars
  PROVE  TodoClosesOpen'
<1>1. CASE UNCHANGED vars
  BY <1>1, OtherCloses DEF vars, TodoClosesOpen
<1>2. CASE StartDeclaration
  <2>1. todo = <<>> /\ todo' = <<Do("declaration")>> /\ open' = open /\ had_error' = had_error
    BY <1>2 DEF StartDeclaration
  <2>2. ASSUME ~had_error PROVE ClosesOpen(todo', open')
    <3>1. open = <<>> /\ open \in Stacks
      BY <2>1, <2>2, WorksNothing DEF TodoClosesOpen, ClosesOpen
    <3>2. Keeps(todo')
      BY <2>1, PlainDoes, OneItem
    <3> QED
      BY <2>1, <3>1, <3>2 DEF ClosesOpen, Keeps
  <2> QED
    BY <2>1, <2>2, OtherCloses DEF TodoClosesOpen
<1>3. CASE Finish \/ Synchronize \/ SkipToken
  <2>1. UNCHANGED <<todo, open, had_error>>
    BY <1>3 DEF Finish, Synchronize, SkipToken, Recovering
  <2> QED
    BY <2>1, OtherCloses DEF TodoClosesOpen
<1>4. CASE Parse
  <2>1. had_error' \in BOOLEAN /\ (had_error => had_error')
    BY <1>4 DEF Parse, TodoClosesOpen
  <2>2. ~had_error => ClosesOpen(todo', open')
    BY <1>4, ParsedNests DEF TodoClosesOpen
  <2> QED
    BY <2>1, <2>2, OtherCloses
<1>5. CASE Consume
  <2>1. PICK s \in Peek :
          \/ /\ Is(s[1], Top.name) /\ Advance(s) /\ todo' = Rest
             /\ had_error' = had_error
          \/ ParseErr(s)
    BY <1>5 DEF Consume
  <2>2. todo # <<>> /\ Top.what = "consume"
    BY <1>5 DEF Consume, Doing
  <2>3. ASSUME Is(s[1], Top.name), Advance(s), todo' = Rest, had_error' = had_error
        PROVE  TodoClosesOpen'
    <3>1. open' = Nest(s[1])
      BY <2>3 DEF Advance
    <3>2. ~had_error => ClosesOpen(todo', open')
      BY <2>2, <2>3, <3>1, ConsumedNests DEF TodoClosesOpen
    <3> QED
      BY <2>3, <3>2, OtherCloses DEF TodoClosesOpen
  <2> QED
    BY <2>1, <2>3, ErrorCloses
<1>6. CASE UnexpectedToken
  BY <1>6, ErrorCloses DEF UnexpectedToken
<1>7. CASE Complete \/ Assign \/ EnterClass \/ LeaveClass
  <2>1. todo # <<>> /\ Top.what # "consume" /\ todo' = Rest /\ open' = open
    BY <1>7 DEF Complete, Assign, EnterClass, LeaveClass, Doing
  <2>2. had_error' \in BOOLEAN /\ (had_error => had_error')
    BY <1>7 DEF Complete, Assign, EnterClass, LeaveClass, TodoClosesOpen
  <2>3. ~had_error => ClosesOpen(todo', open')
    BY <2>1, Replaced DEF TodoClosesOpen
  <2> QED
    BY <2>2, <2>3, OtherCloses
<1>8. CASE ReturnType
  <2>1. PICK n, d, r : n = <<>> /\ d = <<Need("COLON")>> /\ r = d \o Type
    OBVIOUS
  <2>2. Keeps(n)
    <3>1. n \in Seq({})
      BY <2>1, EmptySeq
    <3> QED
      BY <3>1, KeepsPlain
  <2>3. Keeps(d)
    BY <2>1, PlainNeeds, OneItem
  <2>4. Keeps(r)
    BY <2>1, <2>3, TypeKeeps, KeepsBoth
  <2>5. /\ todo # <<>> /\ Top.what # "consume" /\ open' = open /\ had_error' = had_error
        /\ todo' = n \o Rest \/ todo' = r \o Rest
    BY <1>8, <2>1 DEF ReturnType, Doing
  <2>6. ~had_error => ClosesOpen(todo', open')
    BY <2>2, <2>4, <2>5, Replaced DEF TodoClosesOpen
  <2> QED
    BY <2>5, <2>6, OtherCloses DEF TodoClosesOpen
<1> QED
  BY <1>1, <1>2, <1>3, <1>4, <1>5, <1>6, <1>7, <1>8 DEF Next

(* A program of any length that is parsed without an error has all its brackets closed,
   each by one of its kind, at the end of every declaration (parser.cc:107, 117, 166). *)
THEOREM BracketsClose == Spec => []BracketsMatch
<1>1. Init => TodoClosesOpen
  <2>1. ASSUME Init PROVE TodoClosesOpen
    <3>1. todo = <<>> /\ open = <<>> /\ had_error = FALSE
      BY <2>1 DEF Init
    <3>2. todo \in Seq({}) /\ open \in Stacks
      BY <3>1, EmptySeq DEF Stacks
    <3>3. Works(todo, open, open) /\ IsList(todo)
      BY <3>2, PlainWorks DEF IsList
    <3> QED
      BY <3>1, <3>2, <3>3 DEF TodoClosesOpen, ClosesOpen
  <2> QED
    BY <2>1
<1>2. TodoClosesOpen /\ [Next]_vars => TodoClosesOpen'
  BY ClosingStep
<1>3. TodoClosesOpen => BracketsMatch
  <2>1. ASSUME TodoClosesOpen, ~had_error
        PROVE  /\ \A i \in DOMAIN open : open[i] \in Openers
               /\ todo = <<>> => open = <<>>
    <3>1. open \in Seq(Openers) /\ Works(todo, open, <<>>)
      BY <2>1 DEF TodoClosesOpen, ClosesOpen, Stacks
    <3> QED
      BY <3>1, WorksNothing, ElementOfSeq
  <2> QED
    BY <2>1 DEF BracketsMatch
<1> QED
  BY <1>1, <1>2, <1>3, PTL DEF Spec
===============================================================================
