-------------------------- MODULE NameBindingProofs --------------------------
(***************************************************************************)
(* What the Resolver accepts, in programs of any size: references stand    *)
(* where they may, no variable is read in its own initializer, and where   *)
(* functions and classes are not nested in blocks no name is declared      *)
(* twice in one scope, and a return is checked with the type of its own    *)
(* function, and the TypeChecker means by the names that are read and      *)
(* assigned to what the Resolver has bound them to. What it takes "this"   *)
(* for is the class the Resolver has bound it to. References inside index  *)
(* expressions, which the Resolver does not visit, may be anywhere in the  *)
(* program; nothing is claimed of them, but that they disturb nothing.     *)
(***************************************************************************)
EXTENDS NameBinding, RecursionTheorems

-----------------------------------------------------------------------------
(* The visits in progress, and their scopes. *)

Kinds == Scoped \cup {"var"}
Places == {"NOT_IN_FN", "FUNCTION", "INITIALIZER", "METHOD"}

Frames == {f \in [kind : Kinds, id : Int, name : Names \cup {NoName},
                  class : {"IN_CLASS", "NOT_IN_CLASS"}, function : Places] :
             f.kind = "var" => f.name \in Names}
Tops == [kind : TopKinds, name : Names \cup {NoName}]
Events == [kind : Kinds \cup Refs \cup {"return", "exit", "endvar"}, id : Int,
           name : Names \cup {NoName}, params : Seq(Names),
           bound : Int \X {"name", "param", "this", NoName}, within : Int]

Entries == [decl : Decls, ready : BOOLEAN]
Tables == UNION {[D -> Entries] : D \in SUBSET (Names \cup {"this"})}

\* Variables have no scope, and nothing but references in their initializers.
Depth(fs) == IF fs # <<>> /\ Last(fs).kind = "var" THEN Len(fs) - 1 ELSE Len(fs)

\* Scope j + 1 is that of statement j.
Nested(fs, ss) ==
  /\ fs \in Seq(Frames) /\ ss \in Seq(Tables)
  /\ \A i \in 1..Len(fs) : fs[i].kind = "var" => i = Len(fs)
  /\ Len(ss) = Depth(fs) + 1
  /\ \A j \in 1..Len(ss) : "this" \in DOMAIN ss[j] => j > 1 /\ fs[j - 1].kind = "class"

\* current_function, now and as it was saved, tells of a function around.
InPlace(fs, fn) ==
  /\ fn \in Places
  /\ fn # "NOT_IN_FN" => \E i \in 1..Len(fs) : fs[i].kind = "func"
  /\ \A i \in 1..Len(fs) : fs[i].kind = "func" /\ fs[i].function # "NOT_IN_FN" =>
       \E h \in 1..i - 1 : fs[h].kind = "func"

Shapes ==
  /\ pass \in {"declare", "resolve", "resolved"}
  /\ tops \in Seq(Tops) /\ next \in 0..Len(tops)
  /\ current_class \in {"IN_CLASS", "NOT_IN_CLASS"}
  /\ events \in Seq(Events)
  /\ pass = "declare" => frames = <<>> /\ events = <<>> /\ next = 0

RInv ==
  /\ Shapes
  /\ Nested(frames, scopes)
  /\ InPlace(frames, current_function)
  /\ ThisAndReturnHaveTheirPlace

-----------------------------------------------------------------------------
(* Scopes. *)

\* tt is ss with n mapped to e in the last scope.
AddedTo(ss, tt, n, e) ==
  /\ Len(tt) = Len(ss)
  /\ \A j \in 1..Len(ss) : j # Len(ss) => tt[j] = ss[j]
  /\ DOMAIN tt[Len(ss)] = DOMAIN ss[Len(ss)] \cup {n}
  /\ \A m \in DOMAIN tt[Len(ss)] :
       tt[Len(ss)][m] = IF m = n THEN e ELSE ss[Len(ss)][m]

LEMMA TableOf ==
  ASSUME NEW f
  PROVE  f \in Tables <=> /\ f = [m \in DOMAIN f |-> f[m]]
                          /\ DOMAIN f \subseteq Names \cup {"this"}
                          /\ \A m \in DOMAIN f : f[m] \in Entries
BY DEF Tables

LEMMA Adding ==
  ASSUME NEW ss \in Seq(Tables), ss # <<>>, NEW n \in Names \cup {"this"},
         NEW d \in Decls, NEW ready \in BOOLEAN
  PROVE  /\ Add(ss, n, d, ready) \in Seq(Tables)
         /\ AddedTo(ss, Add(ss, n, d, ready), n, Entry(d, ready))
<1> DEFINE l == Len(ss)
           old == ss[l]
           new == [m \in DOMAIN old \cup {n} |-> IF m = n THEN Entry(d, ready) ELSE old[m]]
           tt == Add(ss, n, d, ready)
<1>1. l \in Nat \ {0} /\ l \in 1..l /\ DOMAIN ss = 1..l
  BY EmptySeq, LenProperties
<1>2. Entry(d, ready) \in Entries
  BY DEF Entry, Entries
<1>3. old \in Tables
  BY <1>1, ElementOfSeq
<1>4. DOMAIN new \subseteq Names \cup {"this"} /\ \A m \in DOMAIN new : new[m] \in Entries
  BY <1>2, <1>3, TableOf
<1>5. new \in Tables
  BY <1>4, TableOf
<1>6. tt = [ss EXCEPT ![l] = new]
  BY DEF Add
<1> HIDE DEF new, tt
<1>7. /\ tt \in Seq(Tables) /\ Len(tt) = l /\ tt[l] = new
      /\ \A j \in 1..l : j # l => tt[j] = ss[j]
  BY <1>1, <1>5, <1>6, ExceptSeq
<1>8. DOMAIN new = DOMAIN old \cup {n}
      /\ \A m \in DOMAIN new : new[m] = IF m = n THEN Entry(d, ready) ELSE old[m]
  BY DEF new
<1> QED
  BY <1>7, <1>8 DEF AddedTo, tt

\* tt has no more scopes and no other "this" than ss.
Same(ss, tt) ==
  /\ tt \in Seq(Tables) /\ Len(tt) = Len(ss)
  /\ \A j \in 1..Len(ss) : "this" \in DOMAIN tt[j] => "this" \in DOMAIN ss[j]

LEMMA NoThisAdded ==
  ASSUME NEW ss \in Seq(Tables), ss # <<>>, NEW n \in Names, NEW d \in Decls,
         NEW ready \in BOOLEAN
  PROVE  Same(ss, Add(ss, n, d, ready)) /\ Same(ss, Declare(ss, n, d).ss)
<1>1. n # "this"
  BY ThisIsNoName
<1>2. ASSUME NEW r \in BOOLEAN
      PROVE  Same(ss, Add(ss, n, d, r))
  <2>1. PICK tt : tt = Add(ss, n, d, r)
    OBVIOUS
  <2>2. tt \in Seq(Tables) /\ AddedTo(ss, tt, n, Entry(d, r))
    BY <2>1, Adding
  <2> QED
    BY <1>1, <2>1, <2>2 DEF Same, AddedTo
<1>3. Same(ss, ss)
  BY DEF Same
<1>4. Declare(ss, n, d).ss = ss \/ Declare(ss, n, d).ss = Add(ss, n, d, FALSE)
  BY DEF Declare
<1> QED
  BY <1>2, <1>3, <1>4

LEMMA Depths ==
  ASSUME NEW fs, NEW ss, Nested(fs, ss)
  PROVE  /\ Len(fs) \in Nat /\ Depth(fs) \in Nat /\ ss # <<>> /\ Len(ss) \in Nat \ {0}
         /\ fs = <<>> => Len(fs) = 0 /\ Depth(fs) = 0
         /\ fs # <<>> => /\ Len(fs) # 0 /\ Last(fs) = fs[Len(fs)] /\ Last(fs) \in Frames
                         /\ Depth(fs) = IF Last(fs).kind = "var" THEN Len(fs) - 1 ELSE Len(fs)
<1>1. fs \in Seq(Frames) /\ ss \in Seq(Tables) /\ Len(ss) = Depth(fs) + 1
  BY DEF Nested
<1>2. Len(fs) \in Nat /\ Len(ss) \in Nat
  BY <1>1, LenProperties
<1>3. fs = <<>> => Len(fs) = 0
  BY EmptySeq
<1>4. fs # <<>> => Len(fs) \in Nat \ {0} /\ Last(fs) = fs[Len(fs)] /\ Last(fs) \in Frames
  BY <1>1, PoppedOff
<1>5. Depth(fs) \in Nat
  BY <1>2, <1>4 DEF Depth
<1>6. Len(ss) # 0
  BY <1>1, <1>5
<1>7. ss # <<>>
  BY <1>6, EmptySeq
<1> QED
  BY <1>1, <1>2, <1>3, <1>4, <1>5, <1>6, <1>7 DEF Depth

LEMMA Opening ==
  ASSUME NEW fs, NEW ss, Nested(fs, ss), fs = <<>> \/ Last(fs).kind # "var",
         NEW f \in Frames, f.kind \in Scoped, NEW tt, Same(ss, tt),
         NEW t \in Tables, "this" \in DOMAIN t => f.kind = "class"
  PROVE  Nested(Append(fs, f), Append(tt, t))
<1>1. PICK n \in Nat : n = Len(fs) /\ Depth(fs) = n
  BY Depths
<1> DEFINE gs == Append(fs, f)
<1>2. /\ gs \in Seq(Frames) /\ Len(gs) = n + 1 /\ Last(gs) = f /\ gs # <<>>
      /\ gs[n + 1] = f /\ \A i \in 1..n : gs[i] = fs[i]
  <2>1. fs \in Seq(Frames) /\ n = Len(fs) /\ gs = Append(fs, f)
    BY <1>1 DEF Nested
  <2> HIDE DEF gs
  <2> QED
    BY <2>1, PushedAs DEF Last
<1> HIDE DEF gs
<1> DEFINE us == Append(tt, t)
<1>3. /\ us \in Seq(Tables) /\ Len(us) = n + 2
      /\ us[n + 2] = t /\ \A j \in 1..n + 1 : us[j] = tt[j]
  <2>1. tt \in Seq(Tables) /\ Len(tt) = n + 1
    BY <1>1 DEF Nested, Same
  <2>2. /\ us \in Seq(Tables) /\ Len(us) = n + 1 + 1
        /\ us[n + 1 + 1] = t /\ \A j \in 1..n + 1 : us[j] = tt[j]
    BY <2>1, PushedAs DEF Last
  <2> HIDE DEF us
  <2> QED
    BY <1>1, <2>2
<1> HIDE DEF us
<1>5. Depth(gs) = n + 1
  BY <1>2 DEF Depth, Scoped
<1>6. \A i \in 1..n + 1 : gs[i].kind = "var" => i = n + 1
  <2> SUFFICES ASSUME NEW i \in 1..n + 1, gs[i].kind = "var", i # n + 1 PROVE FALSE
    OBVIOUS
  <2>1. i \in 1..n /\ fs[i].kind = "var"
    BY <1>2
  <2>2. i = n /\ n # 0
    BY <1>1, <2>1 DEF Nested
  <2>3. Last(fs).kind = "var" /\ fs # <<>>
    BY <1>1, <2>1, <2>2, Depths
  <2> QED
    BY <2>3
<1>7. ASSUME NEW j \in 1..n + 2, "this" \in DOMAIN us[j]
      PROVE  j > 1 /\ gs[j - 1].kind = "class"
  <2>1. CASE j = n + 2
    BY <1>2, <1>3, <1>7, <2>1
  <2>2. CASE j # n + 2
    <3>1. j \in 1..n + 1 /\ "this" \in DOMAIN ss[j]
      BY <1>1, <1>3, <1>7, <2>2 DEF Same, Nested
    <3>2. j > 1 /\ fs[j - 1].kind = "class" /\ j - 1 \in 1..n
      BY <1>1, <3>1 DEF Nested
    <3> QED
      BY <1>2, <3>2
  <2> QED
    BY <2>1, <2>2
<1> QED
  BY <1>2, <1>3, <1>5, <1>6, <1>7 DEF Nested, gs, us

LEMMA Beginning ==
  ASSUME NEW fs, NEW ss, Nested(fs, ss), fs = <<>> \/ Last(fs).kind # "var",
         NEW f \in Frames, f.kind = "var", NEW tt, Same(ss, tt)
  PROVE  Nested(Append(fs, f), tt)
<1>1. PICK n \in Nat : n = Len(fs) /\ Depth(fs) = n
  BY Depths
<1> DEFINE gs == Append(fs, f)
<1>2. /\ gs \in Seq(Frames) /\ Len(gs) = n + 1 /\ Last(gs) = f /\ gs # <<>>
      /\ gs[n + 1] = f /\ \A i \in 1..n : gs[i] = fs[i]
  <2>1. fs \in Seq(Frames) /\ n = Len(fs) /\ gs = Append(fs, f)
    BY <1>1 DEF Nested
  <2> HIDE DEF gs
  <2> QED
    BY <2>1, PushedAs DEF Last
<1> HIDE DEF gs
<1>5. Depth(gs) = n
  BY <1>2 DEF Depth
<1>6. \A i \in 1..n + 1 : gs[i].kind = "var" => i = n + 1
  <2> SUFFICES ASSUME NEW i \in 1..n + 1, gs[i].kind = "var", i # n + 1 PROVE FALSE
    OBVIOUS
  <2>1. i \in 1..n /\ fs[i].kind = "var"
    BY <1>2
  <2>2. i = n /\ n # 0
    BY <1>1, <2>1 DEF Nested
  <2>3. Last(fs).kind = "var" /\ fs # <<>>
    BY <1>1, <2>1, <2>2, Depths
  <2> QED
    BY <2>3
<1>7. ASSUME NEW j \in 1..n + 1, "this" \in DOMAIN tt[j]
      PROVE  j > 1 /\ gs[j - 1].kind = "class"
  <2>1. "this" \in DOMAIN ss[j] /\ j \in 1..Len(ss)
    BY <1>1, <1>7 DEF Same, Nested
  <2>2. j > 1 /\ fs[j - 1].kind = "class" /\ j - 1 \in 1..n
    BY <1>1, <2>1 DEF Nested
  <2> QED
    BY <1>2, <2>2
<1> QED
  BY <1>1, <1>2, <1>5, <1>6, <1>7 DEF Nested, Same, gs

LEMMA Leaving ==
  ASSUME NEW fs, NEW ss, Nested(fs, ss), fs # <<>>, NEW tt,
         Last(fs).kind # "var" => tt = Front(ss),
         Last(fs).kind = "var" => Same(ss, tt)
  PROVE  Nested(Front(fs), tt)
<1> DEFINE n == Len(fs) - 1
           gs == Front(fs)
<1>1. /\ n \in Nat /\ Len(fs) = n + 1 /\ Last(fs) = fs[n + 1]
      /\ Depth(fs) = IF Last(fs).kind = "var" THEN n ELSE n + 1
  BY Depths
<1>2. /\ gs \in Seq(Frames) /\ Len(gs) = n
      /\ \A i \in 1..n : gs[i] = fs[i]
  BY PoppedAs DEF Nested
<1> HIDE DEF gs, n
<1>3. /\ tt \in Seq(Tables) /\ Len(tt) = n + 1
      /\ \A j \in 1..n + 1 : "this" \in DOMAIN tt[j] => "this" \in DOMAIN ss[j]
  <2>1. CASE Last(fs).kind = "var"
    BY <1>1, <2>1 DEF Same, Nested
  <2>2. CASE Last(fs).kind # "var"
    <3>1. Len(ss) = n + 2 /\ ss \in Seq(Tables) /\ ss # <<>>
      BY <1>1, <2>2, Depths DEF Nested
    <3>2. Front(ss) \in Seq(Tables) /\ Len(Front(ss)) = Len(ss) - 1
          /\ \A j \in 1..Len(ss) - 1 : Front(ss)[j] = ss[j]
      BY <3>1, PoppedOff
    <3>3. Len(ss) - 1 = n + 1
      BY <1>1, <3>1
    <3> QED
      BY <2>2, <3>2, <3>3
  <2> QED
    BY <2>1, <2>2
<1>4. \A i \in 1..n : gs[i].kind # "var"
  BY <1>1, <1>2 DEF Nested
<1>5. gs # <<>> => n # 0 /\ Last(gs) = gs[n]
  BY <1>2, PoppedOff
<1>6. Depth(gs) = n
  BY <1>2, <1>4, <1>5 DEF Depth
<1>7. ASSUME NEW j \in 1..n + 1, "this" \in DOMAIN tt[j]
      PROVE  j > 1 /\ gs[j - 1].kind = "class"
  <2>1. "this" \in DOMAIN ss[j] /\ j \in 1..Len(ss)
    BY <1>1, <1>3, <1>7 DEF Nested
  <2>2. j > 1 /\ fs[j - 1].kind = "class" /\ j - 1 \in 1..n
    BY <1>1, <2>1 DEF Nested
  <2> QED
    BY <1>2, <2>2
<1> QED
  BY <1>2, <1>3, <1>4, <1>6, <1>7 DEF Nested, gs

-----------------------------------------------------------------------------
(* What is common to the visits. *)

LEMMA SavedPushed ==
  ASSUME NEW fs \in Seq(Frames), NEW f \in Frames, NEW fn, InPlace(fs, fn),
         f.function = fn, NEW fn2 \in Places, f.kind # "func" => fn2 = fn
  PROVE  InPlace(Append(fs, f), fn2)
<1> DEFINE n == Len(fs)
           gs == Append(fs, f)
<1>1. /\ n \in Nat /\ Len(gs) = n + 1 /\ gs[n + 1] = f
      /\ \A i \in 1..n : gs[i] = fs[i]
  BY PushedAs
<1>2. fn # "NOT_IN_FN" => \E i \in 1..n : fs[i].kind = "func"
  BY DEF InPlace
<1>3. \A i \in 1..n : fs[i].kind = "func" /\ fs[i].function # "NOT_IN_FN" =>
        \E h \in 1..i - 1 : fs[h].kind = "func"
  BY DEF InPlace
<1> HIDE DEF gs, n
<1>4. ASSUME fn2 # "NOT_IN_FN"
      PROVE  \E i \in 1..n + 1 : gs[i].kind = "func"
  <2>1. CASE f.kind = "func"
    BY <1>1, <2>1
  <2>2. CASE f.kind # "func"
    <3>1. PICK i \in 1..n : fs[i].kind = "func"
      BY <1>2, <1>4, <2>2
    <3> QED
      BY <1>1, <3>1
  <2> QED
    BY <2>1, <2>2
<1>5. ASSUME NEW i \in 1..n + 1, gs[i].kind = "func", gs[i].function # "NOT_IN_FN"
      PROVE  \E h \in 1..i - 1 : gs[h].kind = "func"
  <2>1. CASE i = n + 1
    BY <1>1, <1>2, <1>5, <2>1
  <2>2. CASE i # n + 1
    <3>1. i \in 1..n
      BY <1>1, <2>2
    <3>2. PICK h \in 1..i - 1 : fs[h].kind = "func"
      BY <1>1, <1>3, <1>5, <3>1
    <3> QED
      BY <1>1, <3>1, <3>2
  <2> QED
    BY <2>1, <2>2
<1> QED
  BY <1>1, <1>4, <1>5 DEF InPlace, gs

LEMMA SavedRestored ==
  ASSUME NEW fs \in Seq(Frames), fs # <<>>, NEW fn, InPlace(fs, fn)
  PROVE  InPlace(Front(fs), IF Last(fs).kind = "func" THEN Last(fs).function ELSE fn)
<1> DEFINE n == Len(fs) - 1
           gs == Front(fs)
           fn2 == IF Last(fs).kind = "func" THEN Last(fs).function ELSE fn
<1>1. /\ n \in Nat /\ Len(fs) = n + 1 /\ Len(gs) = n /\ Last(fs) = fs[n + 1]
      /\ Last(fs) \in Frames /\ \A i \in 1..n : gs[i] = fs[i]
  BY PoppedAs
<1>2. fn # "NOT_IN_FN" => \E i \in 1..n + 1 : fs[i].kind = "func"
  BY <1>1 DEF InPlace
<1>3. \A i \in 1..n + 1 : fs[i].kind = "func" /\ fs[i].function # "NOT_IN_FN" =>
        \E h \in 1..i - 1 : fs[h].kind = "func"
  BY <1>1 DEF InPlace
<1>4. fn2 \in Places
  BY <1>1 DEF InPlace, Frames
<1> HIDE DEF gs, n
<1>5. ASSUME fn2 # "NOT_IN_FN"
      PROVE  \E i \in 1..n : gs[i].kind = "func"
  <2>1. CASE Last(fs).kind = "func"
    <3>1. fs[n + 1].kind = "func" /\ fs[n + 1].function # "NOT_IN_FN"
      BY <1>1, <1>5, <2>1
    <3>2. PICK h \in 1..n + 1 - 1 : fs[h].kind = "func"
      BY <1>1, <1>3, <3>1
    <3> QED
      BY <1>1, <3>2
  <2>2. CASE Last(fs).kind # "func"
    <3>1. PICK i \in 1..n + 1 : fs[i].kind = "func"
      BY <1>2, <1>5, <2>2
    <3>2. i \in 1..n
      BY <1>1, <2>2, <3>1
    <3> QED
      BY <1>1, <3>1, <3>2
  <2> QED
    BY <2>1, <2>2
<1>6. ASSUME NEW i \in 1..n, gs[i].kind = "func", gs[i].function # "NOT_IN_FN"
      PROVE  \E h \in 1..i - 1 : gs[h].kind = "func"
  <2>1. i \in 1..n + 1
    BY <1>1
  <2>2. PICK h \in 1..i - 1 : fs[h].kind = "func"
    BY <1>1, <1>3, <1>6, <2>1
  <2> QED
    BY <1>1, <2>2
<1> QED
  BY <1>1, <1>4, <1>5, <1>6 DEF InPlace, gs

LEMMA Ids ==
  ASSUME Shapes, Nested(frames, scopes), next' \in Int
  PROVE  Id \in Int /\ WithinId \in Int /\ Len(events) \in Nat
<1>1. events \in Seq(Events) /\ Len(events) \in Nat
  BY LenProperties DEF Shapes
<1>2. frames # <<>> => Top \in Frames
  BY Depths DEF Top
<1> QED
  BY <1>1, <1>2 DEF Id, WithinId, Frames

\* The statement that is visited stands where it may.
LEMMA Visited ==
  ASSUME Shapes, Nested(frames, scopes), NEW k, NEW n, Visit(k, n)
  PROVE  /\ pass = "resolve" /\ pass' = pass /\ tops' = tops
         /\ next \in Nat /\ next' \in 0..Len(tops) /\ Len(tops) \in Nat
         /\ Id \in Int /\ WithinId \in Int /\ Len(events) \in Nat
         /\ k \notin Refs => frames = <<>> \/ Last(frames).kind # "var"
<1>1. Len(tops) \in Nat /\ next \in 0..Len(tops)
  BY LenProperties DEF Shapes
<1>2. next' \in 0..Len(tops)
  BY <1>1 DEF Visit
<1>3. k \notin Refs => frames = <<>> \/ Last(frames).kind # "var"
  BY DEF Visit, MayContain, Top
<1> QED
  BY <1>1, <1>2, <1>3, Ids DEF Visit

\* The event that is recorded.
LEMMA Recorded ==
  ASSUME Shapes, Nested(frames, scopes), next' \in Int,
         NEW k \in Kinds \cup Refs \cup {"return", "exit", "endvar"},
         NEW n \in Names \cup {NoName}, NEW params \in Seq(Names),
         NEW bound \in Int \X {"name", "param", "this", NoName},
         Record(k, n, params, bound)
  PROVE  /\ events' \in Seq(Events) /\ events' # <<>> /\ Len(events') = Len(events) + 1
         /\ \A i \in 1..Len(events) : events'[i] = events[i]
         /\ Last(events') = events'[Len(events) + 1]
         /\ Last(events') = [kind |-> k, id |-> Id, name |-> n, params |-> params,
                             bound |-> bound, within |-> WithinId]
<1> DEFINE e == [kind |-> k, id |-> Id, name |-> n, params |-> params,
                 bound |-> bound, within |-> WithinId]
<1>1. e \in Events
  BY Ids DEF Events
<1>2. events' = Append(events, e)
  BY DEF Record
<1>3. events \in Seq(Events)
  BY DEF Shapes
<1> HIDE DEF e
<1>4. /\ events' \in Seq(Events) /\ events' # <<>> /\ Len(events') = Len(events) + 1
      /\ events'[Len(events) + 1] = e
      /\ \A i \in 1..Len(events) : events'[i] = events[i]
  BY <1>1, <1>2, <1>3, AppendProperties
<1>5. Last(events') = e
  BY <1>4 DEF Last
<1> QED
  BY <1>4, <1>5 DEF e

\* The innermost scope with a name.
LEMMA Resolved ==
  ASSUME NEW ss \in Seq(Tables), NEW n
  PROVE  /\ ResolveLocal(ss, n) = 0 => \A j \in 1..Len(ss) : n \notin DOMAIN ss[j]
         /\ ResolveLocal(ss, n) # 0 =>
              /\ ResolveLocal(ss, n) \in 1..Len(ss)
              /\ n \in DOMAIN ss[ResolveLocal(ss, n)]
              /\ ss[ResolveLocal(ss, n)] \in Tables
              /\ ss[ResolveLocal(ss, n)][n] \in Entries
              /\ \A j \in ResolveLocal(ss, n) + 1..Len(ss) : n \notin DOMAIN ss[j]
<1> DEFINE S == {i \in 1..Len(ss) : n \in DOMAIN ss[i]}
<1>1. Len(ss) \in Nat
  BY LenProperties
<1>2. ResolveLocal(ss, n) = IF S # {} THEN Max(S) ELSE 0
  BY DEF ResolveLocal, SelectLastInSeq
<1>3. S # {} => Max(S) \in S /\ \A x \in S : x <= Max(S)
  BY <1>1, MaxOfBounded
<1>4. CASE S = {}
  BY <1>2, <1>4
<1>5. CASE S # {}
  <2>1. PICK i \in 1..Len(ss) :
          i = ResolveLocal(ss, n) /\ n \in DOMAIN ss[i] /\ \A x \in S : x <= i
    BY <1>2, <1>3, <1>5
  <2>2. \A j \in i + 1..Len(ss) : n \notin DOMAIN ss[j]
    BY <1>1, <2>1
  <2>3. ss[i] \in Tables
    BY ElementOfSeq
  <2>4. ss[i][n] \in Entries
    BY <2>1, <2>3, TableOf
  <2>5. i # 0
    OBVIOUS
  <2> QED
    BY <2>1, <2>2, <2>3, <2>4, <2>5
<1> QED
  BY <1>4, <1>5

LEMMA BoundTyped ==
  ASSUME Nested(frames, scopes), NEW n
  PROVE  Bound(n) \in Int \X {"name", "param", "this", NoName}
<1>1. scopes \in Seq(Tables)
  BY DEF Nested
<1>2. ResolveLocal(scopes, n) # 0 => scopes[ResolveLocal(scopes, n)][n] \in Entries
  BY <1>1, Resolved
<1> QED
  BY <1>2 DEF Bound, None, Entries, Decls

-----------------------------------------------------------------------------
(* References stand where they may. *)

\* A step that records neither a reference to "this" nor a return.
Elsewhere == events' # <<>> /\ Last(events').kind \notin {"this", "return"}

LEMMA TopDeclared ==
  ASSUME RInv, NEW k \in TopKinds, NEW n \in NamesFor(k), DeclareTop(k, n)
  PROVE  RInv'
<1>1. /\ pass = "declare" /\ frames = <<>> /\ events = <<>> /\ next = 0
      /\ scopes \in Seq(Tables) /\ scopes # <<>>
  BY Depths DEF DeclareTop, RInv, Shapes, Nested
<1>2. /\ pass' = pass /\ next' = next /\ frames' = frames /\ events' = events
      /\ current_function' = current_function
      /\ current_class' \in {"IN_CLASS", "NOT_IN_CLASS"}
  BY DEF DeclareTop, RInv, Shapes
<1>3. tops' \in Seq(Tops) /\ Len(tops') = Len(tops) + 1 /\ Len(tops) \in Nat
  <2>1. [kind |-> k, name |-> n] \in Tops /\ tops \in Seq(Tops)
    BY DEF NamesFor, Tops, RInv, Shapes
  <2>2. tops' = Append(tops, [kind |-> k, name |-> n])
    BY DEF DeclareTop
  <2> QED
    BY <2>1, <2>2, AppendProperties, LenProperties
<1>4. Nested(frames', scopes')
  <2>1. CASE k \in {"func", "class"}
    <3>1. n \in Names
      BY <2>1 DEF NamesFor, Named
    <3>2. PICK d : d = <<-Len(tops'), "name">>
      OBVIOUS
    <3>6. -Len(tops') \in Int
      BY <1>3
    <3>4. d \in Decls
      BY <3>2, <3>6 DEF Decls
    <3>3. Same(scopes, Declare(scopes, n, d).ss)
      BY <1>1, <3>1, <3>4, NoThisAdded
    <3>5. Same(scopes, scopes')
      BY <2>1, <3>2, <3>3 DEF DeclareTop
    <3> QED
      BY <1>2, <3>5 DEF RInv, Nested, Same
  <2>2. CASE k \notin {"func", "class"}
    <3>1. scopes' = scopes
      BY <2>2, KindsKnown DEF DeclareTop
    <3> QED
      BY <1>2, <3>1 DEF RInv
  <2> QED
    BY <2>1, <2>2
<1>5. Shapes'
  BY <1>1, <1>2, <1>3 DEF RInv, Shapes
<1>6. InPlace(frames', current_function') /\ ThisAndReturnHaveTheirPlace'
  BY <1>1, <1>2 DEF RInv, ThisAndReturnHaveTheirPlace
<1> QED
  BY <1>4, <1>5, <1>6 DEF RInv

\* One statement more is in progress.
LEMMA Entering ==
  ASSUME RInv, NEW k \in Kinds, NEW n \in Names \cup {NoName}, NEW params \in Seq(Names),
         Visit(k, n), Push(k, n), Record(k, n, params, None),
         NEW tt, Same(scopes, tt), NEW t \in Tables, "this" \in DOMAIN t => k = "class",
         k # "var" => scopes' = Append(tt, t), k = "var" => scopes' = tt,
         current_class' \in {"IN_CLASS", "NOT_IN_CLASS"}, current_function' \in Places,
         k # "func" => current_function' = current_function, k = "var" => n \in Names
  PROVE  RInv'
<1>1. /\ pass = "resolve" /\ pass' = pass /\ tops' = tops
      /\ next \in Nat /\ next' \in 0..Len(tops) /\ Len(tops) \in Nat
      /\ Id \in Int /\ (frames = <<>> \/ Last(frames).kind # "var")
  BY Visited DEF RInv, Kinds, Scoped, Refs
<1>2. None \in Int \X {"name", "param", "this", NoName}
  BY DEF None
<1>3. /\ events' \in Seq(Events) /\ events' # <<>> /\ Last(events').kind = k
  <2>1. /\ Shapes /\ Nested(frames, scopes) /\ next' \in Int
        /\ k \in Kinds \cup Refs \cup {"return", "exit", "endvar"}
    BY <1>1 DEF RInv
  <2>2. /\ events' \in Seq(Events) /\ events' # <<>>
        /\ Last(events') = [kind |-> k, id |-> Id, name |-> n, params |-> params,
                            bound |-> None, within |-> WithinId]
    BY <1>2, <2>1, Recorded
  <2> QED
    BY <2>2
<1>4. PICK f \in Frames :
        f.kind = k /\ f.function = current_function /\ frames' = Append(frames, f)
  <2>1. PICK f : f = [kind |-> k, id |-> Id, name |-> n,
                      class |-> current_class, function |-> current_function]
    OBVIOUS
  <2>2. f \in Frames
    BY <1>1, <2>1 DEF Frames, RInv, Shapes, InPlace
  <2>3. f.kind = k /\ f.function = current_function /\ frames' = Append(frames, f)
    BY <2>1 DEF Push
  <2> QED
    BY <2>2, <2>3
<1>5. Nested(frames', scopes')
  <2>1. CASE k = "var"
    BY <1>1, <1>4, <2>1, Beginning DEF RInv
  <2>2. CASE k # "var"
    <3>1. f.kind \in Scoped /\ scopes' = Append(tt, t)
      BY <1>4, <2>2 DEF Kinds
    <3> QED
      BY <1>1, <1>4, <3>1, Opening DEF RInv
  <2> QED
    BY <2>1, <2>2
<1>6. InPlace(frames', current_function')
  <2>1. frames \in Seq(Frames)
    BY DEF RInv, Nested
  <2> QED
    BY <1>4, <2>1, SavedPushed DEF RInv
<1>7. Shapes'
  BY <1>1, <1>3 DEF RInv, Shapes
<1>8. ThisAndReturnHaveTheirPlace'
  BY <1>3 DEF ThisAndReturnHaveTheirPlace, Kinds, Scoped
<1> QED
  BY <1>5, <1>6, <1>7, <1>8 DEF RInv

\* The visit in progress ends.
LEMMA Ending ==
  ASSUME RInv, pass = "resolve", frames # <<>>, NEW k \in {"exit", "endvar"},
         NEW n \in Names \cup {NoName}, NEW b \in Int \X {"name", "param", "this", NoName},
         Record(k, n, <<>>, b), frames' = Front(frames), next' = next,
         Top.kind # "var" => scopes' = Front(scopes),
         Top.kind = "var" => Same(scopes, scopes'),
         current_class' \in {"IN_CLASS", "NOT_IN_CLASS"},
         current_function' = IF Top.kind = "func" THEN Top.function ELSE current_function,
         UNCHANGED <<pass, tops>>
  PROVE  RInv'
<1>1. next \in Nat /\ <<>> \in Seq(Names)
  BY LenProperties, EmptySeq DEF RInv, Shapes
<1>2. /\ events' \in Seq(Events) /\ events' # <<>> /\ Last(events').kind = k
  <2>1. /\ Shapes /\ Nested(frames, scopes) /\ next' \in Int
        /\ k \in Kinds \cup Refs \cup {"return", "exit", "endvar"}
    BY <1>1 DEF RInv
  <2>2. /\ events' \in Seq(Events) /\ events' # <<>>
        /\ Last(events') = [kind |-> k, id |-> Id, name |-> n, params |-> <<>>,
                            bound |-> b, within |-> WithinId]
    BY <1>1, <2>1, Recorded
  <2> QED
    BY <2>2
<1>3. Nested(frames', scopes')
  BY Leaving DEF RInv, Top
<1>4. InPlace(frames', current_function')
  BY SavedRestored DEF RInv, Nested, Top
<1>5. Shapes'
  BY <1>2 DEF RInv, Shapes
<1>6. ThisAndReturnHaveTheirPlace'
  BY <1>2 DEF ThisAndReturnHaveTheirPlace
<1> QED
  BY <1>3, <1>4, <1>5, <1>6 DEF RInv

\* A reference inside an index expression.
InIndex == \E k \in Unresolved : \E n \in Names \cup {NoName} : Indexed(k, n)

LEMMA IndexedKinds ==
  /\ \A n \in Names : Indexed("[use]", n) \/ Indexed("[assign]", n) => InIndex
  /\ Indexed("[this]", NoName) => InIndex
BY DEF InIndex, Unresolved

LEMMA IndexedRefers ==
  ASSUME InIndex
  PROVE  \E k \in Refs : \E n \in Names \cup {NoName} :
           /\ k \notin {"use", "assign", "this", "return"}
           /\ Visit(k, n) /\ Record(k, n, <<>>, None)
           /\ None \in Int \X {"name", "param", "this", NoName}
           /\ errors' = errors /\ errors \subseteq errors'
           /\ UNCHANGED <<scopes, current_class, current_function, frames>>
BY DEF InIndex, Indexed, Unresolved, Refs, None

\* A reference or a return.
LEMMA Referring ==
  ASSUME RInv, NEW k \in Refs \cup {"return"}, NEW n \in Names \cup {NoName},
         NEW b \in Int \X {"name", "param", "this", NoName},
         Visit(k, n), Record(k, n, <<>>, b), errors \subseteq errors',
         UNCHANGED <<scopes, current_class, current_function, frames>>,
         k = "this" /\ errors' = {} => InClass, k = "return" /\ errors' = {} => InFunction
  PROVE  RInv'
<1>1. /\ pass = "resolve" /\ pass' = pass /\ tops' = tops
      /\ next \in Nat /\ next' \in 0..Len(tops) /\ Len(tops) \in Nat
      /\ Id \in Int /\ <<>> \in Seq(Names)
  BY Visited, EmptySeq DEF RInv
<1>2. /\ events' \in Seq(Events) /\ events' # <<>> /\ Last(events').kind = k
  <2>1. /\ Shapes /\ Nested(frames, scopes) /\ next' \in Int
        /\ k \in Kinds \cup Refs \cup {"return", "exit", "endvar"}
    BY <1>1 DEF RInv
  <2>2. /\ events' \in Seq(Events) /\ events' # <<>>
        /\ Last(events') = [kind |-> k, id |-> Id, name |-> n, params |-> <<>>,
                            bound |-> b, within |-> WithinId]
    BY <1>1, <2>1, Recorded
  <2> QED
    BY <2>2
<1>3. Nested(frames', scopes') /\ InPlace(frames', current_function')
  BY DEF RInv
<1>4. Shapes'
  BY <1>1, <1>2 DEF RInv, Shapes
<1>5. ThisAndReturnHaveTheirPlace'
  BY <1>2 DEF ThisAndReturnHaveTheirPlace, InClass, InFunction, Refs
<1> QED
  BY <1>3, <1>4, <1>5 DEF RInv

\* What a function's parameters are.
LEMMA Parameters ==
  ASSUME NEW ps \in BoundedSeq(Names, MaxParams), Id \in Int
  PROVE  /\ ps \in Seq(Names) /\ Params(ps) \in Tables /\ DOMAIN Params(ps) = Range(ps)
         /\ Range(ps) \subseteq Names
         /\ \A p \in Range(ps) : Params(ps)[p] = Entry(<<Id, "param">>, TRUE)
<1>1. PICK m \in Nat : ps \in [1..m -> Names]
  BY DEF BoundedSeq, SeqOf
<1>2. ps \in Seq(Names)
  BY <1>1, IsASeq
<1>3. Range(ps) \subseteq Names
  BY <1>1 DEF Range
<1>4. PICK e \in Entries : e = Entry(<<Id, "param">>, TRUE)
  BY DEF Entry, Entries, Decls
<1>5. Params(ps) = [p \in Range(ps) |-> e]
  BY <1>4 DEF Params
<1>6. Params(ps) \in Tables
  BY <1>3, <1>5, TableOf
<1> QED
  BY <1>2, <1>3, <1>4, <1>5, <1>6

LEMMA RStart == BindingInit => RInv
<1> SUFFICES ASSUME BindingInit PROVE RInv
  OBVIOUS
<1>1. /\ frames = <<>> /\ events = <<>> /\ tops = <<>> /\ next = 0 /\ pass = "declare"
      /\ current_class = "NOT_IN_CLASS" /\ current_function = "NOT_IN_FN"
      /\ scopes = << <<>> >>
  BY DEF BindingInit, Init
<1>2. <<>> \in Seq(Frames) /\ <<>> \in Seq(Tops) /\ <<>> \in Seq(Events) /\ Len(<<>>) = 0
  BY EmptySeq
<1>3. <<>> \in Tables /\ "this" \notin DOMAIN <<>>
  <2>1. DOMAIN <<>> = {}
    OBVIOUS
  <2>2. <<>> = [m \in {} |-> <<>>[m]]
    OBVIOUS
  <2> QED
    BY <2>1, <2>2, TableOf
<1>4. /\ scopes \in Seq(Tables) /\ Len(scopes) = 1 /\ scopes[1] = <<>>
  BY <1>1, <1>3
<1>5. Nested(frames, scopes)
  BY <1>1, <1>2, <1>3, <1>4 DEF Nested, Depth
<1>6. InPlace(frames, current_function)
  BY <1>1, <1>2 DEF InPlace, Places
<1> QED
  BY <1>1, <1>2, <1>5, <1>6 DEF RInv, Shapes, ThisAndReturnHaveTheirPlace

LEMMA RStep == ASSUME RInv, Resolve PROVE RInv'
<1>0. /\ scopes \in Seq(Tables) /\ scopes # <<>> /\ <<>> \in Seq(Names) /\ None \in Int \X {NoName}
      /\ current_class \in {"IN_CLASS", "NOT_IN_CLASS"} /\ current_function \in Places
      /\ frames # <<>> => Top \in Frames
  BY Depths, EmptySeq DEF RInv, Shapes, Nested, InPlace, None, Top
<1>s. Same(scopes, scopes)
  BY <1>0 DEF Same
<1>e. <<>> \in Tables /\ "this" \notin DOMAIN <<>>
  <2>1. DOMAIN <<>> = {} /\ <<>> = [m \in {} |-> <<>>[m]]
    OBVIOUS
  <2> QED
    BY <2>1, TableOf
<1>d. ASSUME NEW n \in Names, NEW k, Visit(k, n)
      PROVE  /\ Same(scopes, Define(scopes, n, <<Id, "name">>))
             /\ Same(scopes, Declare(scopes, n, <<Id, "name">>).ss)
             /\ Id \in Int
  <2>1. PICK d : d = <<Id, "name">>
    OBVIOUS
  <2>2. Id \in Int
    BY <1>d, Visited DEF RInv
  <2>3. d \in Decls
    BY <2>1, <2>2 DEF Decls
  <2>4. Same(scopes, Add(scopes, n, d, TRUE)) /\ Same(scopes, Declare(scopes, n, d).ss)
    BY <1>0, <2>3, NoThisAdded
  <2> QED
    BY <2>1, <2>2, <2>4 DEF Define
<1>1. CASE \E k \in TopKinds : \E n \in NamesFor(k) : DeclareTop(k, n)
  BY <1>1, TopDeclared
<1>2. CASE StartResolving
  BY <1>2 DEF StartResolving, RInv, Shapes, ThisAndReturnHaveTheirPlace, InClass, InFunction
<1>3. ASSUME NEW n \in Names, EnterClass(n)
      PROVE  RInv'
  <2>1. /\ Visit("class", n) /\ Push("class", n) /\ Record("class", n, <<>>, None)
        /\ current_class' = "IN_CLASS" /\ current_function' = current_function
    BY <1>3 DEF EnterClass
  <2>2. PICK t : t = [x \in {"this"} |-> Entry(<<Id, "this">>, TRUE)]
    OBVIOUS
  <2>3. t \in Tables
    <3>1. Entry(<<Id, "this">>, TRUE) \in Entries
      BY <1>d, <2>1 DEF Entry, Entries, Decls
    <3> QED
      BY <2>2, <3>1, TableOf
  <2>4. scopes' = Append(Define(scopes, n, <<Id, "name">>), t)
    BY <1>3, <2>2 DEF EnterClass
  <2>5. PICK tt : tt = Define(scopes, n, <<Id, "name">>) /\ Same(scopes, tt)
    BY <1>d, <2>1
  <2>6. "class" \in Kinds /\ "class" # "var"
    BY DEF Kinds, Scoped
  <2>7. scopes' = Append(tt, t)
    BY <2>4, <2>5
  <2> QED
    BY <1>0, <2>1, <2>3, <2>5, <2>6, <2>7, Entering
<1>4. ASSUME NEW n \in Names, DeclareVar(n)
      PROVE  RInv'
  <2>1. /\ Visit("var", n) /\ Push("var", n) /\ Record("var", n, <<>>, None)
        /\ current_class' = current_class /\ current_function' = current_function
    BY <1>4 DEF DeclareVar
  <2>2. PICK tt : tt = Declare(scopes, n, <<Id, "name">>).ss /\ Same(scopes, tt)
    BY <1>d, <2>1
  <2>3. scopes' = tt
    BY <1>4, <2>2 DEF DeclareVar
  <2>4. "var" \in Kinds
    BY DEF Kinds
  <2> QED
    BY <1>0, <1>e, <2>1, <2>2, <2>3, <2>4, Entering
<1>5. ASSUME NEW n \in Names, NEW ps \in BoundedSeq(Names, MaxParams), EnterFunction(n, ps)
      PROVE  RInv'
  <2>1. /\ Visit("func", n) /\ Push("func", n) /\ Record("func", n, ps, None)
        /\ current_class' = current_class /\ current_function' \in Places
    BY <1>5 DEF EnterFunction, Places
  <2>2. /\ ps \in Seq(Names) /\ Params(ps) \in Tables /\ DOMAIN Params(ps) \subseteq Names
    BY <1>d, <2>1, Parameters
  <2>3. PICK tt : /\ Same(scopes, tt)
                  /\ tt = IF Within = "class" THEN scopes ELSE Define(scopes, n, <<Id, "name">>)
    BY <1>d, <1>s, <2>1
  <2>4. scopes' = Append(tt, Params(ps))
    BY <1>5, <2>3 DEF EnterFunction
  <2>5. "func" \in Kinds /\ "func" # "var" /\ "this" \notin DOMAIN Params(ps)
    BY <2>2, ThisIsNoName DEF Kinds, Scoped
  <2> QED
    BY <1>0, <2>1, <2>2, <2>3, <2>4, <2>5, Entering
<1>6. CASE EnterBlock
  <2>1. /\ Visit("block", NoName) /\ Push("block", NoName) /\ Record("block", NoName, <<>>, None)
        /\ current_class' = current_class /\ current_function' = current_function
        /\ scopes' = Append(scopes, <<>>)
    BY <1>6 DEF EnterBlock
  <2>2. "block" \in Kinds /\ "block" # "var" /\ NoName \in Names \cup {NoName}
    BY DEF Kinds, Scoped
  <2>3. PICK t : t = <<>> /\ t \in Tables /\ "this" \notin DOMAIN t
    BY <1>e
  <2>4. scopes' = Append(scopes, t)
    BY <2>1, <2>3
  <2> QED
    BY <1>0, <1>s, <2>1, <2>2, <2>3, <2>4, Entering
<1>7. CASE Leave
  <2>1. /\ pass = "resolve" /\ frames # <<>> /\ Top.kind \in Scoped
        /\ scopes' = Front(scopes) /\ Record("exit", Top.name, <<>>, None)
        /\ frames' = Front(frames) /\ UNCHANGED <<pass, tops, next, errors>>
        /\ current_class' = IF Top.kind = "class" THEN Top.class ELSE current_class
        /\ current_function' = IF Top.kind = "func" THEN Top.function ELSE current_function
    BY <1>7 DEF Leave, Within, Scoped
  <2>2. /\ Top.name \in Names \cup {NoName} /\ Top.kind # "var"
        /\ current_class' \in {"IN_CLASS", "NOT_IN_CLASS"}
        /\ None \in Int \X {"name", "param", "this", NoName}
    BY <1>0, <2>1 DEF Frames, Scoped, None
  <2> QED
    BY <2>1, <2>2, Ending
<1>8. CASE DefineVar
  <2>1. /\ pass = "resolve" /\ frames # <<>> /\ Top.kind = "var"
        /\ scopes' = Define(scopes, Top.name, <<Top.id, "name">>)
        /\ Record("endvar", Top.name, <<>>, <<Top.id, "name">>)
        /\ frames' = Front(frames)
        /\ UNCHANGED <<pass, tops, next, current_class, current_function, errors>>
    BY <1>8 DEF DefineVar, Within
  <2>2. PICK d : d = <<Top.id, "name">>
    OBVIOUS
  <2>3. /\ d \in Decls /\ d \in Int \X {"name", "param", "this", NoName}
        /\ Top.name \in Names
    BY <1>0, <2>1, <2>2 DEF Frames, Decls
  <2>4. Same(scopes, scopes')
    BY <1>0, <2>1, <2>2, <2>3, NoThisAdded DEF Define
  <2> QED
    BY <1>0, <2>1, <2>2, <2>3, <2>4, Ending
<1>9. ASSUME NEW n \in Names, Variable(n)
      PROVE  RInv'
  <2>1. /\ Visit("use", n) /\ Record("use", n, <<>>, Bound(n)) /\ errors \subseteq errors'
        /\ UNCHANGED <<scopes, current_class, current_function, frames>>
    BY <1>9 DEF Variable
  <2>2. Bound(n) \in Int \X {"name", "param", "this", NoName} /\ "use" \in Refs
    BY BoundTyped DEF RInv, Refs
  <2> QED
    BY <2>1, <2>2, Referring
<1>10. ASSUME NEW n \in Names, Assignment(n)
       PROVE  RInv'
  <2>1. /\ Visit("assign", n) /\ Record("assign", n, <<>>, Bound(n)) /\ errors \subseteq errors'
        /\ UNCHANGED <<scopes, current_class, current_function, frames>>
    BY <1>10 DEF Assignment
  <2>2. Bound(n) \in Int \X {"name", "param", "this", NoName} /\ "assign" \in Refs
    BY BoundTyped DEF RInv, Refs
  <2> QED
    BY <2>1, <2>2, Referring
<1>11. CASE This
  <2>1. /\ Visit("this", NoName) /\ Record("this", NoName, <<>>, Bound("this"))
        /\ errors \subseteq errors'
        /\ UNCHANGED <<scopes, current_class, current_function, frames>>
    BY <1>11 DEF This
  <2>2. Bound("this") \in Int \X {"name", "param", "this", NoName} /\ "this" \in Refs
    BY BoundTyped DEF RInv, Refs
  <2>3. ASSUME errors' = {}
        PROVE  InClass
    <3>1. ResolveLocal(scopes, "this") # 0
      BY <1>11, <2>3 DEF This, ThisErrors, Undeclared
    <3>2. PICK i \in 1..Len(scopes) : "this" \in DOMAIN scopes[i]
      BY <1>0, <3>1, Resolved
    <3>3. i > 1 /\ frames[i - 1].kind = "class"
      BY <3>2 DEF RInv, Nested
    <3>4. Len(frames) \in Nat /\ Len(scopes) = Depth(frames) + 1
          /\ Depth(frames) \in Nat /\ Depth(frames) <= Len(frames)
          /\ DOMAIN frames = 1..Len(frames)
      BY Depths, LenProperties DEF RInv, Nested, Depth
    <3>5. i - 1 \in DOMAIN frames
      BY <3>3, <3>4
    <3> QED
      BY <3>3, <3>5 DEF InClass
  <2> QED
    BY <2>1, <2>2, <2>3, Referring
<1>12. CASE ReturnStmt
  <2>1. /\ Visit("return", NoName) /\ Record("return", NoName, <<>>, None)
        /\ errors \subseteq errors'
        /\ UNCHANGED <<scopes, current_class, current_function, frames>>
    BY <1>12 DEF ReturnStmt
  <2>2. None \in Int \X {"name", "param", "this", NoName}
    BY DEF None
  <2>3. ASSUME errors' = {}
        PROVE  InFunction
    <3>1. current_function # "NOT_IN_FN"
      BY <1>12, <2>3 DEF ReturnStmt, ReturnErrors
    <3>2. DOMAIN frames = 1..Len(frames)
      BY LenProperties DEF RInv, Nested
    <3> QED
      BY <3>1, <3>2 DEF RInv, InPlace, InFunction
  <2> QED
    BY <2>1, <2>2, <2>3, Referring
<1>13. CASE FinishResolving
  BY <1>13 DEF FinishResolving, RInv, Shapes, ThisAndReturnHaveTheirPlace, InClass, InFunction
<1>i. CASE InIndex
  <2>1. PICK k \in Refs, n \in Names \cup {NoName} :
          /\ k \notin {"use", "assign", "this", "return"}
          /\ Visit(k, n) /\ Record(k, n, <<>>, None)
          /\ None \in Int \X {"name", "param", "this", NoName}
          /\ errors' = errors /\ errors \subseteq errors'
          /\ UNCHANGED <<scopes, current_class, current_function, frames>>
    BY <1>i, IndexedRefers
  <2> QED
    BY <2>1, Referring
<1> QED
  BY <1>1, <1>2, <1>3, <1>4, <1>5, <1>6, <1>7, <1>8, <1>9, <1>10, <1>11, <1>12, <1>13, <1>i, IndexedKinds
  DEF Resolve

LEMMA RStutter == RInv /\ UNCHANGED resolverVars => RInv'
BY DEF RInv, resolverVars, Shapes, ThisAndReturnHaveTheirPlace, InClass, InFunction

\* The passes after the Resolver leave its variables alone.
LEMMA OthersLeave == Next => (stage = "resolver" /\ Resolve) \/ UNCHANGED resolverVars
BY DEF Next, Resolving, Hoist, CheckBlock, CheckFunc, CheckClass, CheckExit, CheckVar,
       CheckEndVar, CheckVariable, CheckAssignment, CheckThis, CheckReturn, FinishCheck, Walk

LEMMA ResolverShapes == Spec => []RInv
<1>1. RInv /\ [Next]_vars => RInv'
  BY RStep, RStutter, OthersLeave DEF vars
<1> QED
  BY RStart, <1>1, PTL DEF Spec

(* In a program without errors, every "this" that the Resolver visits stands inside
   a class statement and every return inside a function, however functions and
   classes are nested: both variables are put back when a visit ends. A "this" in
   an index expression is not visited (resolver.cc:69-76, 112-116, 152, 212-214,
   262-264). *)
THEOREM InTheirPlace == Spec => []ThisAndReturnHaveTheirPlace
<1>1. RInv => ThisAndReturnHaveTheirPlace
  BY DEF RInv
<1> QED
  BY <1>1, ResolverShapes, PTL

-----------------------------------------------------------------------------
(* No variable is read in its own initializer. *)

\* The statements that have been visited, and those declared by the first pass.
Used == 1..Len(events) \cup {-p : p \in 1..next}
Hoisted == {q \in 1..Len(tops) : tops[q].kind \in {"func", "class"}}
Known == Used \cup {-p : p \in Hoisted}

OwnedBy(ss, ids) ==
  \A j \in 1..Len(ss) : \A m \in DOMAIN ss[j] : ss[j][m].decl[1] \in ids

\* The variable whose initializer is being resolved is not ready, and is nowhere
\* but in the innermost scope.
Initializing(fs, ss) ==
  fs # <<>> /\ Last(fs).kind = "var" =>
    \A j \in 1..Len(ss) : \A m \in DOMAIN ss[j] :
      ss[j][m].decl[1] = Last(fs).id => j = Len(ss) /\ ~ss[j][m].ready

NInv ==
  /\ OwnedBy(scopes, Known)
  /\ \A i \in 1..Len(frames) : frames[i].id \in Used
  /\ Initializing(frames, scopes)
  /\ NoReadOfItself

LEMMA OwnedAdded ==
  ASSUME NEW ss \in Seq(Tables), ss # <<>>, NEW n \in Names, NEW i \in Int,
         NEW ready \in BOOLEAN, NEW ids, OwnedBy(ss, ids), NEW more, ids \subseteq more, i \in more
  PROVE  /\ OwnedBy(Add(ss, n, <<i, "name">>, ready), more)
         /\ OwnedBy(Declare(ss, n, <<i, "name">>).ss, more)
<1> DEFINE d == <<i, "name">>
<1>1. d \in Decls /\ d[1] = i
  BY DEF Decls
<1> HIDE DEF d
<1>2. ASSUME NEW r \in BOOLEAN
      PROVE  OwnedBy(Add(ss, n, d, r), more)
  <2>1. PICK tt : tt = Add(ss, n, d, r)
    OBVIOUS
  <2>2. tt \in Seq(Tables) /\ AddedTo(ss, tt, n, Entry(d, r))
    BY <1>1, <2>1, Adding
  <2>3. Entry(d, r).decl[1] = i
    BY <1>1 DEF Entry
  <2>4. ASSUME NEW j \in 1..Len(tt), NEW m \in DOMAIN tt[j]
        PROVE  tt[j][m].decl[1] \in more
    <3>1. Len(ss) \in Nat \ {0} /\ Len(tt) = Len(ss)
      BY <2>2, EmptySeq DEF AddedTo
    <3>2. CASE j # Len(ss)
      <4>1. j \in 1..Len(ss) /\ tt[j] = ss[j]
        BY <2>2, <3>1, <3>2 DEF AddedTo
      <4> QED
        BY <2>4, <4>1 DEF OwnedBy
    <3>3. CASE j = Len(ss)
      <4>1. /\ DOMAIN tt[j] = DOMAIN ss[j] \cup {n}
            /\ tt[j][m] = IF m = n THEN Entry(d, r) ELSE ss[j][m]
        BY <2>2, <2>4, <3>3 DEF AddedTo
      <4> QED
        BY <2>3, <2>4, <3>1, <3>3, <4>1 DEF OwnedBy
    <3> QED
      BY <3>2, <3>3
  <2> QED
    BY <2>1, <2>4 DEF OwnedBy
<1>3. OwnedBy(ss, more)
  BY DEF OwnedBy
<1>4. Declare(ss, n, d).ss = ss \/ Declare(ss, n, d).ss = Add(ss, n, d, FALSE)
  BY DEF Declare
<1> QED
  BY <1>2, <1>3, <1>4 DEF d

LEMMA OwnedAppended ==
  ASSUME NEW ss \in Seq(Tables), NEW t \in Tables, NEW ids, NEW more, OwnedBy(ss, ids),
         ids \subseteq more, \A m \in DOMAIN t : t[m].decl[1] \in more
  PROVE  OwnedBy(Append(ss, t), more)
<1>1. PICK us : us = Append(ss, t)
  OBVIOUS
<1>2. /\ Len(ss) \in Nat /\ Len(us) = Len(ss) + 1 /\ us[Len(ss) + 1] = t
      /\ \A j \in 1..Len(ss) : us[j] = ss[j]
  BY <1>1, PushedOn
<1>3. ASSUME NEW j \in 1..Len(us), NEW m \in DOMAIN us[j]
      PROVE  us[j][m].decl[1] \in more
  <2>1. j = Len(ss) + 1 \/ j \in 1..Len(ss)
    BY <1>2
  <2> QED
    BY <1>2, <1>3, <2>1 DEF OwnedBy
<1> QED
  BY <1>1, <1>3 DEF OwnedBy

LEMMA OwnedFront ==
  ASSUME NEW ss \in Seq(Tables), ss # <<>>, NEW ids, NEW more, OwnedBy(ss, ids),
         ids \subseteq more
  PROVE  OwnedBy(Front(ss), more)
<1>1. /\ Len(ss) \in Nat \ {0} /\ Len(Front(ss)) = Len(ss) - 1
      /\ \A j \in 1..Len(ss) - 1 : Front(ss)[j] = ss[j]
  BY PoppedOff
<1>2. ASSUME NEW j \in 1..Len(Front(ss)), NEW m \in DOMAIN Front(ss)[j]
      PROVE  Front(ss)[j][m].decl[1] \in more
  <2>1. j \in 1..Len(ss) /\ Front(ss)[j] = ss[j]
    BY <1>1
  <2> QED
    BY <1>2, <2>1 DEF OwnedBy
<1> QED
  BY <1>2 DEF OwnedBy

\* A visit uses a number of its own.
LEMMA Numbered ==
  ASSUME RInv, Len(events') = Len(events) + 1
  PROVE  /\ next' = next /\ tops' = tops => Used \subseteq Used' /\ Known \subseteq Known'
         /\ \A k, n : Visit(k, n) =>
              /\ Used \subseteq Used' /\ Known \subseteq Known'
              /\ Id \in Int /\ Id \in Used' /\ Id \notin Used /\ Id # 0
              /\ k \notin {"func", "class"} \/ frames # <<>> => Id \notin Known
<1>1. Len(events) \in Nat /\ next \in Nat /\ Len(tops) \in Nat
  BY LenProperties DEF RInv, Shapes
<1>2. next' = next /\ tops' = tops => Used \subseteq Used' /\ Known \subseteq Known'
  BY <1>1 DEF Used, Known, Hoisted
<1>3. ASSUME NEW k, NEW n, Visit(k, n)
      PROVE  /\ Used \subseteq Used' /\ Known \subseteq Known'
             /\ Id \in Int /\ Id \in Used' /\ Id \notin Used /\ Id # 0
             /\ k \notin {"func", "class"} \/ frames # <<>> => Id \notin Known
  <2>1. tops' = tops
    BY <1>3 DEF Visit
  <2>2. CASE frames = <<>>
    <3>1. /\ next' = next + 1 /\ Id = -(next + 1) /\ next < Len(tops)
          /\ tops[next + 1].kind = k
      BY <1>3, <2>2 DEF Visit, Id
    <3>2. Used \subseteq Used' /\ Known \subseteq Known'
      BY <1>1, <2>1, <3>1 DEF Used, Known, Hoisted
    <3>3. next + 1 \in 1..next' /\ Id = -(next + 1)
      BY <1>1, <3>1
    <3>4. Id \in Used'
      BY <3>3 DEF Used
    <3>5. Id \notin Used
      BY <1>1, <3>1 DEF Used
    <3>6. ASSUME k \notin {"func", "class"}
          PROVE  \A q \in Hoisted : Id # -q
      BY <1>1, <3>1, <3>6 DEF Hoisted
    <3> QED
      BY <1>1, <2>2, <3>1, <3>2, <3>4, <3>5, <3>6 DEF Known
  <2>3. CASE frames # <<>>
    <3>1. next' = next /\ Id = Len(events) + 1
      BY <1>3, <2>3 DEF Visit, Id
    <3>2. \A q \in Hoisted : Id # -q
      BY <1>1, <3>1 DEF Hoisted
    <3> QED
      BY <1>1, <1>2, <2>1, <3>1, <3>2 DEF Used, Known
  <2> QED
    BY <2>2, <2>3
<1> QED
  BY <1>2, <1>3

\* One event more, of a statement or a reference that is visited.
LEMMA Growing ==
  ASSUME RInv, NEW k \in Kinds \cup Refs \cup {"return"},
         NEW n \in Names \cup {NoName}, NEW params \in Seq(Names),
         NEW b \in Int \X {"name", "param", "this", NoName},
         Visit(k, n), Record(k, n, params, b)
  PROVE  /\ Len(events) \in Nat /\ Len(events') = Len(events) + 1 /\ events' # <<>>
         /\ \A i \in 1..Len(events) : events'[i] = events[i]
         /\ Last(events') = events'[Len(events) + 1]
         /\ Last(events') = [kind |-> k, id |-> Id, name |-> n, params |-> params,
                             bound |-> b, within |-> WithinId]
         /\ pass = "resolve" /\ Id \in Int /\ tops' = tops
         /\ Used \subseteq Used' /\ Known \subseteq Known' /\ Id \in Used' /\ Id \notin Used
         /\ Id # 0
         /\ k \notin {"func", "class"} \/ frames # <<>> => Id \notin Known
         /\ k \notin Refs => frames = <<>> \/ Last(frames).kind # "var"
<1>1. /\ Shapes /\ Nested(frames, scopes) /\ next' \in Int
      /\ k \in Kinds \cup Refs \cup {"return", "exit", "endvar"}
      /\ pass = "resolve" /\ Id \in Int /\ tops' = tops /\ Len(events) \in Nat
      /\ k \notin Refs => frames = <<>> \/ Last(frames).kind # "var"
  BY Visited DEF RInv
<1>2. /\ events' # <<>> /\ Len(events') = Len(events) + 1
      /\ \A i \in 1..Len(events) : events'[i] = events[i]
      /\ Last(events') = events'[Len(events) + 1]
      /\ Last(events') = [kind |-> k, id |-> Id, name |-> n, params |-> params,
                          bound |-> b, within |-> WithinId]
  BY <1>1, Recorded
<1> QED
  BY <1>1, <1>2, Numbered

\* A statement is begun: its frame, and what becomes of the scopes.
LEMMA NEntering ==
  ASSUME RInv, NInv, NEW k \in Kinds, NEW n \in Names \cup {NoName}, NEW params \in Seq(Names),
         Visit(k, n), Push(k, n), Record(k, n, params, None), OwnedBy(scopes', Known'),
         k = "var" => scopes' = Declare(scopes, n, <<Id, "name">>).ss /\ n \in Names
  PROVE  NInv'
<1>0. /\ scopes \in Seq(Tables) /\ scopes # <<>> /\ frames \in Seq(Frames)
      /\ None \in Int \X {"name", "param", "this", NoName}
  BY Depths DEF RInv, Nested, None
<1>1. /\ events' # <<>> /\ Last(events').kind = k /\ Id \in Int
      /\ Used \subseteq Used' /\ Id \in Used'
      /\ k \notin {"func", "class"} => Id \notin Known
  <2>1. PICK e : e = [kind |-> k, id |-> Id, name |-> n, params |-> params,
                      bound |-> None, within |-> WithinId]
    OBVIOUS
  <2>2. /\ events' # <<>> /\ Last(events') = e /\ Id \in Int
        /\ Used \subseteq Used' /\ Id \in Used'
        /\ k \notin {"func", "class"} => Id \notin Known
    BY <1>0, <2>1, Growing
  <2> QED
    BY <2>1, <2>2
<1>2. PICK f : f.kind = k /\ f.id = Id /\ f \in Frames /\ frames' = Append(frames, f)
  <2>1. PICK f : f = [kind |-> k, id |-> Id, name |-> n,
                      class |-> current_class, function |-> current_function]
    OBVIOUS
  <2>2. f \in Frames
    BY <1>1, <2>1 DEF Frames, RInv, Shapes, InPlace
  <2>3. f.kind = k /\ f.id = Id /\ frames' = Append(frames, f)
    BY <2>1 DEF Push
  <2> QED
    BY <2>2, <2>3
<1>3. /\ Len(frames) \in Nat /\ Len(frames') = Len(frames) + 1
      /\ frames'[Len(frames) + 1] = f /\ Last(frames') = f
      /\ \A i \in 1..Len(frames) : frames'[i] = frames[i]
  BY <1>0, <1>2, PushedAs DEF Last
<1>4. ASSUME NEW i \in 1..Len(frames')
      PROVE  frames'[i].id \in Used'
  <2>1. i = Len(frames) + 1 \/ i \in 1..Len(frames)
    BY <1>3
  <2> QED
    BY <1>1, <1>2, <1>3, <2>1 DEF NInv
<1>5. Initializing(frames', scopes')
  <2> SUFFICES ASSUME k = "var"
               PROVE  \A j \in 1..Len(scopes') : \A m \in DOMAIN scopes'[j] :
                        scopes'[j][m].decl[1] = Id => j = Len(scopes') /\ ~scopes'[j][m].ready
    BY <1>2, <1>3 DEF Initializing
  <2>1. \A j \in 1..Len(scopes) : \A m \in DOMAIN scopes[j] : scopes[j][m].decl[1] # Id
    BY <1>1 DEF NInv, OwnedBy
  <2>2. CASE scopes' = scopes
    BY <2>1, <2>2
  <2>3. CASE scopes' = Add(scopes, n, <<Id, "name">>, FALSE)
    <3>1. PICK d : d = <<Id, "name">> /\ d \in Decls
      BY <1>1 DEF Decls
    <3>2. AddedTo(scopes, scopes', n, Entry(d, FALSE))
      BY <1>0, <2>3, <3>1, Adding
    <3>3. Entry(d, FALSE).ready = FALSE
      BY DEF Entry
    <3>4. Len(scopes) \in Nat \ {0} /\ Len(scopes') = Len(scopes)
      BY <1>0, <3>2, EmptySeq DEF AddedTo
    <3>5. ASSUME NEW j \in 1..Len(scopes'), NEW m \in DOMAIN scopes'[j],
                 scopes'[j][m].decl[1] = Id
          PROVE  j = Len(scopes') /\ ~scopes'[j][m].ready
      <4>1. CASE j # Len(scopes)
        BY <2>1, <3>2, <3>4, <3>5, <4>1 DEF AddedTo
      <4>2. CASE j = Len(scopes)
        <5>1. /\ m = n => scopes'[j][m] = Entry(d, FALSE)
              /\ m # n => m \in DOMAIN scopes[j] /\ scopes'[j][m] = scopes[j][m]
          BY <3>2, <3>5, <4>2 DEF AddedTo
        <5> QED
          BY <2>1, <3>3, <3>4, <3>5, <4>2, <5>1
      <4> QED
        BY <4>1, <4>2
    <3> QED
      BY <3>5
  <2>4. scopes' = scopes \/ scopes' = Add(scopes, n, <<Id, "name">>, FALSE)
    BY DEF Declare
  <2> QED
    BY <2>2, <2>3, <2>4
<1>6. NoReadOfItself'
  BY <1>1 DEF NoReadOfItself, Kinds, Scoped
<1> QED
  BY <1>4, <1>5, <1>6 DEF NInv

LEMMA NEnding ==
  ASSUME RInv, NInv, frames # <<>>, NEW k \in {"exit", "endvar"},
         NEW n \in Names \cup {NoName}, NEW b \in Int \X {"name", "param", "this", NoName},
         Record(k, n, <<>>, b), frames' = Front(frames), UNCHANGED <<tops, next>>,
         Known \subseteq Known' => OwnedBy(scopes', Known')
  PROVE  NInv'
<1>1. /\ Shapes /\ Nested(frames, scopes) /\ next' \in Int /\ <<>> \in Seq(Names)
      /\ k \in Kinds \cup Refs \cup {"return", "exit", "endvar"}
  BY EmptySeq, LenProperties DEF RInv, Shapes
<1>2. events' # <<>> /\ Last(events').kind = k /\ Len(events') = Len(events) + 1
  <2>1. PICK e : e = [kind |-> k, id |-> Id, name |-> n, params |-> <<>>,
                      bound |-> b, within |-> WithinId]
    OBVIOUS
  <2>2. events' # <<>> /\ Last(events') = e /\ Len(events') = Len(events) + 1
    BY <1>1, <2>1, Recorded
  <2> QED
    BY <2>1, <2>2
<1>3. Used \subseteq Used' /\ Known \subseteq Known'
  BY <1>2, Numbered
<1>4. /\ Len(frames) \in Nat \ {0} /\ Len(frames') = Len(frames) - 1
      /\ frames' \in Seq(Frames)
      /\ \A i \in 1..Len(frames) - 1 : frames'[i] = frames[i]
  BY PoppedOff DEF RInv, Nested
<1>5. \A i \in 1..Len(frames') : frames'[i].id \in Used'
  BY <1>3, <1>4 DEF NInv
<1>6. Initializing(frames', scopes')
  <2> SUFFICES ASSUME frames' # <<>>, Last(frames').kind = "var" PROVE FALSE
    BY DEF Initializing
  <2>1. Len(frames') \in Nat \ {0} /\ Last(frames') = frames'[Len(frames')]
    BY <1>4, PoppedOff
  <2>2. Len(frames') \in 1..Len(frames) /\ Len(frames') # Len(frames)
        /\ frames[Len(frames')].kind = "var"
    BY <1>4, <2>1
  <2> QED
    BY <2>2 DEF RInv, Nested
<1>7. NoReadOfItself'
  BY <1>2 DEF NoReadOfItself
<1> QED
  BY <1>3, <1>5, <1>6, <1>7 DEF NInv

LEMMA NReferring ==
  ASSUME RInv, NInv, NEW k \in Refs \cup {"return"}, NEW n \in Names \cup {NoName},
         NEW b \in Int \X {"name", "param", "this", NoName},
         Visit(k, n), Record(k, n, <<>>, b), UNCHANGED <<scopes, frames>>,
         k = "use" => errors' = errors \cup ReadErrors(n) /\ b = Bound(n)
  PROVE  NInv'
<1>0. <<>> \in Seq(Names) /\ k \in Kinds \cup Refs \cup {"return"}
  BY EmptySeq
<1>1. /\ events' # <<>> /\ Last(events').kind = k /\ Last(events').bound = b
      /\ Used \subseteq Used' /\ Known \subseteq Known'
  <2>1. PICK e : e = [kind |-> k, id |-> Id, name |-> n, params |-> <<>>,
                      bound |-> b, within |-> WithinId]
    OBVIOUS
  <2>2. events' # <<>> /\ Last(events') = e /\ Used \subseteq Used' /\ Known \subseteq Known'
    BY <1>0, <2>1, Growing
  <2> QED
    BY <2>1, <2>2
<1>2. OwnedBy(scopes', Known') /\ Initializing(frames', scopes')
  BY <1>1 DEF NInv, OwnedBy
<1>3. \A i \in 1..Len(frames') : frames'[i].id \in Used'
  BY <1>1 DEF NInv
<1>4. NoReadOfItself'
  <2> SUFFICES ASSUME k = "use", errors' = {}, b[1] \in Initialized PROVE FALSE
    BY <1>1 DEF NoReadOfItself, Initialized
  <2>1. PICK i \in DOMAIN frames : frames[i].kind = "var" /\ frames[i].id = b[1]
    BY DEF Initialized
  <2>2. /\ i = Len(frames) /\ frames # <<>> /\ Last(frames).kind = "var"
        /\ Last(frames).id = b[1] /\ scopes \in Seq(Tables) /\ Last(scopes) = scopes[Len(scopes)]
    <3>1. i \in 1..Len(frames) /\ scopes \in Seq(Tables) /\ scopes # <<>>
      BY <2>1, Depths, LenProperties DEF RInv, Nested
    <3>2. i = Len(frames) /\ frames # <<>> /\ Last(frames) = frames[Len(frames)]
      BY <2>1, <3>1, Depths, EmptySeq DEF RInv, Nested
    <3> QED
      BY <2>1, <3>1, <3>2, PoppedOff
  <2>3. errors' = errors \cup ReadErrors(n) /\ b = Bound(n)
    OBVIOUS
  <2>4. ResolveLocal(scopes, n) # 0
    BY <2>3 DEF ReadErrors, Undeclared
  <2>5. PICK j \in 1..Len(scopes) : n \in DOMAIN scopes[j] /\ b = scopes[j][n].decl
    BY <2>2, <2>3, <2>4, Resolved DEF Bound
  <2>6. j = Len(scopes) /\ ~scopes[j][n].ready
    BY <2>2, <2>5 DEF NInv, Initializing
  <2>7. "own initializer" \in ReadErrors(n)
    BY <2>2, <2>5, <2>6 DEF ReadErrors
  <2> QED
    BY <2>3, <2>7
<1> QED
  BY <1>2, <1>3, <1>4 DEF NInv

LEMMA NDeclared ==
  ASSUME RInv, NInv, NEW k \in TopKinds, NEW n \in NamesFor(k), DeclareTop(k, n)
  PROVE  NInv'
<1>1. /\ pass = "declare" /\ frames = <<>> /\ events = <<>> /\ next = 0
      /\ scopes \in Seq(Tables) /\ scopes # <<>>
  BY Depths DEF DeclareTop, RInv, Shapes, Nested
<1>2. next' = next /\ frames' = frames /\ events' = events
  BY DEF DeclareTop
<1>3. /\ Len(tops') = Len(tops) + 1 /\ Len(tops) \in Nat /\ tops'[Len(tops')].kind = k
      /\ \A q \in 1..Len(tops) : tops'[q] = tops[q]
  <2>1. PICK x : x = [kind |-> k, name |-> n]
    OBVIOUS
  <2>2. x \in Tops
    BY <2>1 DEF NamesFor, Tops
  <2>3. tops \in Seq(Tops) /\ tops' = Append(tops, x)
    BY <2>1 DEF DeclareTop, RInv, Shapes
  <2>4. /\ Len(tops') = Len(tops) + 1 /\ Len(tops) \in Nat /\ tops'[Len(tops) + 1] = x
        /\ \A q \in 1..Len(tops) : tops'[q] = tops[q]
    BY <2>2, <2>3, PushedOn
  <2> QED
    BY <2>1, <2>4
<1>4. Known \subseteq Known'
  BY <1>2, <1>3 DEF Known, Used, Hoisted
<1>5. OwnedBy(scopes', Known')
  <2>1. CASE k \in {"func", "class"}
    <3>1. n \in Names
      BY <2>1 DEF NamesFor, Named
    <3>2. Len(tops') \in Hoisted' /\ -Len(tops') \in Int
      BY <1>3, <2>1 DEF Hoisted
    <3>3. -Len(tops') \in Known'
      BY <3>2 DEF Known
    <3>4. OwnedBy(Declare(scopes, n, <<-Len(tops'), "name">>).ss, Known')
      BY <1>1, <1>4, <3>1, <3>2, <3>3, OwnedAdded DEF NInv
    <3> QED
      BY <2>1, <3>4 DEF DeclareTop
  <2>2. CASE k \notin {"func", "class"}
    <3>1. scopes' = scopes
      BY <2>2, KindsKnown DEF DeclareTop
    <3> QED
      BY <1>4, <3>1 DEF NInv, OwnedBy
  <2> QED
    BY <2>1, <2>2
<1>6. /\ Initializing(frames', scopes') /\ NoReadOfItself'
      /\ \A i \in 1..Len(frames') : frames'[i].id \in Used'
  <2>1. Len(frames') = 0
    BY <1>1, <1>2, EmptySeq
  <2> QED
    BY <1>1, <1>2, <2>1 DEF Initializing, NoReadOfItself
<1> QED
  BY <1>5, <1>6 DEF NInv

LEMMA NStep == ASSUME RInv, NInv, Resolve PROVE NInv'
<1>0. /\ scopes \in Seq(Tables) /\ scopes # <<>> /\ <<>> \in Seq(Names)
      /\ None \in Int \X {"name", "param", "this", NoName}
      /\ frames \in Seq(Frames) /\ OwnedBy(scopes, Known)
      /\ frames # <<>> => Top \in Frames /\ Top.id \in Used
  <2>1. ASSUME frames # <<>>
        PROVE  Top \in Frames /\ Top.id \in Used
    <3>1. Len(frames) \in Nat \ {0} /\ Last(frames) = frames[Len(frames)] /\ Last(frames) \in Frames
      BY <2>1, PoppedOff DEF RInv, Nested
    <3> QED
      BY <3>1 DEF NInv, Top
  <2> QED
    BY <2>1, Depths, EmptySeq DEF RInv, NInv, Nested, None
<1>k. {"func", "class", "block", "var"} = Kinds
  BY DEF Kinds, Scoped
<1>d. ASSUME NEW n \in Names, NEW k \in Kinds, NEW params \in Seq(Names),
             Visit(k, n), Record(k, n, params, None)
      PROVE  /\ OwnedBy(Define(scopes, n, <<Id, "name">>), Known')
             /\ OwnedBy(Declare(scopes, n, <<Id, "name">>).ss, Known')
             /\ OwnedBy(scopes, Known')
             /\ Id \in Int /\ Id \in Known' /\ Known \subseteq Known'
             /\ Define(scopes, n, <<Id, "name">>) \in Seq(Tables)
  <2>1. Id \in Int /\ Id \in Used' /\ Known \subseteq Known'
    BY <1>0, <1>d, Growing
  <2>2. Id \in Known'
    BY <2>1 DEF Known
  <2>3. <<Id, "name">> \in Decls
    BY <2>1 DEF Decls
  <2>4. Define(scopes, n, <<Id, "name">>) \in Seq(Tables)
    BY <1>0, <2>3, Adding DEF Define
  <2>5. /\ OwnedBy(Define(scopes, n, <<Id, "name">>), Known')
        /\ OwnedBy(Declare(scopes, n, <<Id, "name">>).ss, Known')
    BY <1>0, <2>1, <2>2, OwnedAdded DEF Define
  <2> QED
    BY <1>0, <2>1, <2>2, <2>4, <2>5 DEF OwnedBy
<1>1. CASE \E k \in TopKinds : \E n \in NamesFor(k) : DeclareTop(k, n)
  BY <1>1, NDeclared
<1>2. CASE StartResolving
  BY <1>2 DEF StartResolving, NInv, NoReadOfItself, Initialized, Known, Used, Hoisted
<1>3. ASSUME NEW n \in Names, EnterClass(n)
      PROVE  NInv'
  <2>1. Visit("class", n) /\ Push("class", n) /\ Record("class", n, <<>>, None)
    BY <1>3 DEF EnterClass
  <2>2. "class" \in Kinds
    BY <1>k
  <2>3. PICK tt : tt = Define(scopes, n, <<Id, "name">>)
    OBVIOUS
  <2>4. /\ OwnedBy(tt, Known') /\ Id \in Int /\ Id \in Known' /\ tt \in Seq(Tables)
    BY <1>0, <1>d, <2>1, <2>2, <2>3
  <2>5. PICK t : t = [x \in {"this"} |-> Entry(<<Id, "this">>, TRUE)]
    OBVIOUS
  <2>6. t \in Tables /\ \A m \in DOMAIN t : t[m].decl[1] \in Known'
    <3>1. Entry(<<Id, "this">>, TRUE) \in Entries /\ Entry(<<Id, "this">>, TRUE).decl[1] = Id
      BY <2>4 DEF Entry, Entries, Decls
    <3> QED
      BY <2>4, <2>5, <3>1, TableOf
  <2>7. scopes' = Append(tt, t)
    BY <1>3, <2>3, <2>5 DEF EnterClass
  <2>8. OwnedBy(scopes', Known')
    BY <2>4, <2>6, <2>7, OwnedAppended
  <2> QED
    BY <1>0, <2>1, <2>2, <2>8, NEntering
<1>4. ASSUME NEW n \in Names, DeclareVar(n)
      PROVE  NInv'
  <2>1. /\ Visit("var", n) /\ Push("var", n) /\ Record("var", n, <<>>, None)
        /\ scopes' = Declare(scopes, n, <<Id, "name">>).ss
    BY <1>4 DEF DeclareVar
  <2>2. "var" \in Kinds
    BY <1>k
  <2>3. OwnedBy(scopes', Known')
    BY <1>0, <1>d, <2>1, <2>2
  <2> QED
    BY <1>0, <2>1, <2>2, <2>3, NEntering
<1>5. ASSUME NEW n \in Names, NEW ps \in BoundedSeq(Names, MaxParams), EnterFunction(n, ps)
      PROVE  NInv'
  <2>1. Visit("func", n) /\ Push("func", n) /\ Record("func", n, ps, None)
    BY <1>5 DEF EnterFunction
  <2>2. "func" \in Kinds /\ Id \in Int
    BY <1>k, <2>1, Visited DEF RInv
  <2>3. /\ ps \in Seq(Names) /\ Params(ps) \in Tables /\ DOMAIN Params(ps) = Range(ps)
        /\ \A p \in Range(ps) : Params(ps)[p] = Entry(<<Id, "param">>, TRUE)
    BY <2>2, Parameters
  <2>4. PICK tt : tt = IF Within = "class" THEN scopes ELSE Define(scopes, n, <<Id, "name">>)
    OBVIOUS
  <2>5. OwnedBy(tt, Known') /\ tt \in Seq(Tables) /\ Id \in Known'
    BY <1>0, <1>d, <2>1, <2>2, <2>3, <2>4
  <2>6. scopes' = Append(tt, Params(ps))
    BY <1>5, <2>4 DEF EnterFunction
  <2>7. Entry(<<Id, "param">>, TRUE).decl[1] = Id
    BY DEF Entry
  <2>8. OwnedBy(scopes', Known')
    <3>1. PICK t : t = Params(ps)
      OBVIOUS
    <3>2. t \in Tables /\ \A m \in DOMAIN t : t[m].decl[1] \in Known'
      BY <2>3, <2>5, <2>7, <3>1
    <3>3. OwnedBy(Append(tt, t), Known')
      BY <2>5, <3>2, OwnedAppended
    <3> QED
      BY <2>6, <3>1, <3>3
  <2> QED
    BY <1>0, <2>1, <2>2, <2>3, <2>8, NEntering
<1>6. CASE EnterBlock
  <2>1. /\ Visit("block", NoName) /\ Push("block", NoName) /\ Record("block", NoName, <<>>, None)
        /\ scopes' = Append(scopes, <<>>)
    BY <1>6 DEF EnterBlock
  <2>2. "block" \in Kinds /\ NoName \in Names \cup {NoName}
    BY <1>k
  <2>3. Known \subseteq Known'
    BY <1>0, <2>1, <2>2, Growing
  <2>4. <<>> \in Tables /\ \A m \in DOMAIN <<>> : FALSE
    <3>1. DOMAIN <<>> = {} /\ <<>> = [m \in {} |-> <<>>[m]]
      OBVIOUS
    <3> QED
      BY <3>1, TableOf
  <2>5. PICK t : t = <<>>
    OBVIOUS
  <2>6. OwnedBy(Append(scopes, t), Known')
    BY <1>0, <2>3, <2>4, <2>5, OwnedAppended
  <2> QED
    BY <1>0, <2>1, <2>2, <2>5, <2>6, NEntering
<1>7. CASE Leave
  <2>1. /\ frames # <<>> /\ scopes' = Front(scopes) /\ Record("exit", Top.name, <<>>, None)
        /\ frames' = Front(frames) /\ UNCHANGED <<tops, next>>
    BY <1>7 DEF Leave, Within, Scoped
  <2>2. Top.name \in Names \cup {NoName}
    BY <1>0, <2>1 DEF Frames
  <2>3. Known \subseteq Known' => OwnedBy(scopes', Known')
    BY <1>0, <2>1, OwnedFront
  <2> QED
    BY <1>0, <2>1, <2>2, <2>3, NEnding
<1>8. CASE DefineVar
  <2>1. /\ frames # <<>> /\ Top.kind = "var"
        /\ scopes' = Define(scopes, Top.name, <<Top.id, "name">>)
        /\ Record("endvar", Top.name, <<>>, <<Top.id, "name">>)
        /\ frames' = Front(frames) /\ UNCHANGED <<tops, next>>
    BY <1>8 DEF DefineVar, Within
  <2>2. Top.name \in Names /\ Top.id \in Int /\ Top.id \in Known
    BY <1>0, <2>1 DEF Frames, Known
  <2>3. <<Top.id, "name">> \in Int \X {"name", "param", "this", NoName}
    BY <2>2
  <2>4. Known \subseteq Known' => OwnedBy(scopes', Known')
    BY <1>0, <2>1, <2>2, OwnedAdded DEF Define
  <2> QED
    BY <1>0, <2>1, <2>2, <2>3, <2>4, NEnding
<1>9. ASSUME NEW n \in Names, Variable(n)
      PROVE  NInv'
  <2>1. /\ Visit("use", n) /\ Record("use", n, <<>>, Bound(n))
        /\ errors' = errors \cup ReadErrors(n) /\ UNCHANGED <<scopes, frames>>
    BY <1>9 DEF Variable
  <2>2. Bound(n) \in Int \X {"name", "param", "this", NoName} /\ "use" \in Refs
    BY BoundTyped DEF RInv, Refs
  <2> QED
    BY <2>1, <2>2, NReferring
<1>10. ASSUME NEW n \in Names, Assignment(n)
       PROVE  NInv'
  <2>1. /\ Visit("assign", n) /\ Record("assign", n, <<>>, Bound(n))
        /\ UNCHANGED <<scopes, frames>>
    BY <1>10 DEF Assignment
  <2>2. Bound(n) \in Int \X {"name", "param", "this", NoName} /\ "assign" \in Refs
    BY BoundTyped DEF RInv, Refs
  <2> QED
    BY <2>1, <2>2, NReferring
<1>11. CASE This
  <2>1. /\ Visit("this", NoName) /\ Record("this", NoName, <<>>, Bound("this"))
        /\ UNCHANGED <<scopes, frames>>
    BY <1>11 DEF This
  <2>2. Bound("this") \in Int \X {"name", "param", "this", NoName} /\ "this" \in Refs
    BY BoundTyped DEF RInv, Refs
  <2> QED
    BY <2>1, <2>2, NReferring
<1>12. CASE ReturnStmt
  <2>1. /\ Visit("return", NoName) /\ Record("return", NoName, <<>>, None)
        /\ UNCHANGED <<scopes, frames>>
    BY <1>12 DEF ReturnStmt
  <2> QED
    BY <1>0, <2>1, NReferring
<1>13. CASE FinishResolving
  BY <1>13 DEF FinishResolving, NInv, NoReadOfItself, Initialized, Known, Used, Hoisted
<1>i. CASE InIndex
  <2>1. PICK k \in Refs, n \in Names \cup {NoName} :
          /\ k \notin {"use", "assign", "this", "return"}
          /\ Visit(k, n) /\ Record(k, n, <<>>, None)
          /\ None \in Int \X {"name", "param", "this", NoName}
          /\ errors' = errors /\ errors \subseteq errors'
          /\ UNCHANGED <<scopes, current_class, current_function, frames>>
    BY <1>i, IndexedRefers
  <2> QED
    BY <2>1, NReferring
<1> QED
  BY <1>1, <1>2, <1>3, <1>4, <1>5, <1>6, <1>7, <1>8, <1>9, <1>10, <1>11, <1>12, <1>13, <1>i, IndexedKinds
  DEF Resolve

LEMMA NStart == BindingInit => NInv
<1> SUFFICES ASSUME BindingInit PROVE NInv
  OBVIOUS
<1>1. frames = <<>> /\ events = <<>> /\ scopes = << <<>> >>
  BY DEF BindingInit, Init
<1>2. Len(scopes) = 1 /\ DOMAIN scopes[1] = {} /\ Len(frames) = 0
  BY <1>1, EmptySeq
<1> QED
  BY <1>1, <1>2 DEF NInv, OwnedBy, Initializing, NoReadOfItself

(* In a program without errors no name that the Resolver visits in an initializer
   is read from the variable being initialized, whatever else the initializer refers
   to and wherever the variable is declared. Names in index expressions are not
   visited (resolver.cc:55-59, 262-264). *)
THEOREM NotItself == Spec => []NoReadOfItself
<1>1. NInv /\ UNCHANGED resolverVars => NInv'
  BY DEF NInv, resolverVars, NoReadOfItself, Initialized, Known, Used, Hoisted
<1>2. RInv /\ NInv /\ [Next]_vars => NInv'
  BY <1>1, NStep, OthersLeave DEF vars
<1>3. NInv => NoReadOfItself
  BY DEF NInv
<1> QED
  BY NStart, ResolverShapes, <1>2, <1>3, PTL DEF Spec

-----------------------------------------------------------------------------
(* Duplicates, where functions and classes stand at the top level only. *)

Declaring == {"func", "class", "var"}

\* No function and no class is nested in a block.
Flat == InnerKinds \cap {"func", "class"} = {}

Within1 == \A i \in 1..Len(events) : events[i].within = 0 \/ events[i].within \in Used

OneId ==
  \A i, j \in 1..Len(frames) : frames[i].id # 0 /\ (frames[i].id = frames[j].id => i = j)

ClassesRecorded ==
  \A j \in 1..Len(frames) : frames[j].kind = "class" =>
    \E c \in DOMAIN events : events[c].kind = "class" /\ events[c].id = frames[j].id

\* The first pass declares every function and class once.
FirstPass ==
  /\ \A p \in Hoisted : tops[p].name \in DOMAIN scopes[1]
  /\ \A p, q \in Hoisted : tops[p].name = tops[q].name => p = q

\* What has been declared at the top level, and in the blocks in progress.
Globals ==
  \A i \in 1..Len(events) : events[i].kind \in Declaring /\ events[i].within = 0 =>
    /\ events[i].name \in DOMAIN scopes[1]
    /\ events[i].kind = "var" => \A p \in Hoisted : tops[p].name # events[i].name
    /\ events[i].kind # "var" =>
         \E p \in Hoisted : p <= next /\ events[i].id = -p /\ events[i].name = tops[p].name

InBlocks ==
  \A j \in 1..Len(frames) : \A i \in 1..Len(events) :
    frames[j].kind = "block" /\ events[i].kind \in Declaring /\ events[i].within = frames[j].id
      => events[i].name \in DOMAIN scopes[j + 1]

DInv ==
  /\ Within1 /\ OneId /\ ClassesRecorded
  /\ errors = {} => FirstPass /\ Globals /\ InBlocks /\ DuplicatesReported

\* No name is lost from the first l scopes.
Wider(ss, tt, l) == \A j \in 1..l : DOMAIN ss[j] \subseteq DOMAIN tt[j]

\* One more declaration, whose name differs from those beside it.
LEMMA PairsKept ==
  ASSUME RInv, errors = {}, DuplicatesReported, NEW e, events' = Append(events, e), e \in Events,
         e.kind \in Declaring =>
           \A i \in 1..Len(events) :
             /\ events[i].kind \in Declaring /\ events[i].within = e.within
             /\ ~\E c \in DOMAIN events : events[c].kind = "class" /\ events[c].id = e.within
             => events[i].name # e.name
  PROVE  DuplicatesReported'
<1>1. /\ events \in Seq(Events) /\ Len(events) \in Nat /\ DOMAIN events = 1..Len(events)
      /\ events' \in Seq(Events) /\ Len(events') = Len(events) + 1
      /\ events'[Len(events) + 1] = e /\ \A i \in 1..Len(events) : events'[i] = events[i]
  BY LenProperties, AppendProperties DEF RInv, Shapes
<1>2. DOMAIN events' = 1..Len(events) + 1
  BY <1>1, LenProperties
<1> SUFFICES ASSUME errors' = {}, NEW i \in DOMAIN events', NEW j \in DOMAIN events', i < j,
                    events'[i].kind \in Declaring, events'[j].kind \in Declaring,
                    events'[i].within = events'[j].within,
                    ~\E c \in DOMAIN events' :
                       events'[c].kind = "class" /\ events'[c].id = events'[i].within
             PROVE  events'[i].name # events'[j].name
  BY DEF DuplicatesReported, Declaring
<1>3. i \in 1..Len(events) /\ events'[i] = events[i]
  BY <1>1, <1>2
<1>4. ~\E c \in DOMAIN events : events[c].kind = "class" /\ events[c].id = events[i].within
  BY <1>1, <1>2, <1>3
<1>5. CASE j \in 1..Len(events)
  BY <1>1, <1>3, <1>4, <1>5 DEF DuplicatesReported, Declaring
<1>6. CASE j = Len(events) + 1
  BY <1>1, <1>3, <1>4, <1>6
<1> QED
  BY <1>1, <1>2, <1>5, <1>6

LEMMA DEntering ==
  ASSUME RInv, NInv, DInv, NEW k \in Kinds, NEW n \in Names \cup {NoName},
         NEW params \in Seq(Names), Visit(k, n), Push(k, n), Record(k, n, params, None),
         errors \subseteq errors', Wider(scopes, scopes', Len(scopes)), Flat,
         errors' = {} /\ k \in Declaring =>
           /\ \A i \in 1..Len(events) :
                /\ events[i].kind \in Declaring /\ events[i].within = WithinId
                /\ ~\E c \in DOMAIN events : events[c].kind = "class" /\ events[c].id = WithinId
                => events[i].name # n
           /\ frames # <<>> /\ Top.kind = "block" => n \in DOMAIN scopes'[Len(frames) + 1]
           /\ frames = <<>> =>
                /\ n \in DOMAIN scopes'[1]
                /\ k = "var" => \A p \in Hoisted : tops[p].name # n
                /\ k # "var" => \E p \in Hoisted : p <= next' /\ Id = -p /\ n = tops[p].name
  PROVE  DInv'
<1>0. /\ scopes \in Seq(Tables) /\ frames \in Seq(Frames) /\ Len(scopes) \in Nat \ {0}
      /\ None \in Int \X {"name", "param", "this", NoName}
      /\ Len(frames) \in Nat /\ events \in Seq(Events)
      /\ next \in Nat /\ Len(scopes) = Depth(frames) + 1
  BY Depths, LenProperties DEF RInv, Nested, None, Shapes
<1>1. PICK e : e = [kind |-> k, id |-> Id, name |-> n, params |-> params,
                    bound |-> None, within |-> WithinId]
  OBVIOUS
<1>2. /\ Len(events) \in Nat /\ Len(events') = Len(events) + 1
      /\ \A i \in 1..Len(events) : events'[i] = events[i]
      /\ events'[Len(events) + 1] = e /\ tops' = tops
      /\ Used \subseteq Used' /\ Id \in Used' /\ Id \notin Used /\ Id # 0 /\ Id \in Int
      /\ frames = <<>> \/ Last(frames).kind # "var"
  <2>1. k \in Kinds \cup Refs \cup {"return"} /\ k \notin Refs
    BY DEF Kinds, Scoped, Refs
  <2> QED
    BY <1>0, <1>1, <2>1, Growing
<1>3. /\ e.kind = k /\ e.id = Id /\ e.name = n /\ e.within = WithinId
  BY <1>1
<1>4. events' = Append(events, e) /\ e \in Events
  <2>1. WithinId \in Int
    BY Visited DEF RInv
  <2> QED
    BY <1>0, <1>1, <1>2, <2>1 DEF Record, Events
<1>5. PICK f : f = [kind |-> k, id |-> Id, name |-> n,
                    class |-> current_class, function |-> current_function]
  OBVIOUS
<1>6. frames' = Append(frames, f) /\ f.kind = k /\ f.id = Id
  BY <1>5 DEF Push
<1>7. Len(frames') = Len(frames) + 1 /\ frames'[Len(frames) + 1] = f
      /\ \A j \in 1..Len(frames) : frames'[j] = frames[j]
  <2>1. f \in Frames \/ k = "var"
    BY <1>2, <1>5 DEF Frames, RInv, Shapes, InPlace
  <2>2. frames \in Seq(Frames \cup {f}) /\ f \in Frames \cup {f}
    BY <1>0, SeqMonotonic
  <2> QED
    BY <1>6, <2>2, PushedOn
<1>8. /\ frames = <<>> => WithinId = 0
      /\ frames # <<>> => /\ WithinId = Top.id /\ Top = frames[Len(frames)] /\ Len(frames) # 0
                          /\ WithinId \in Used /\ WithinId # 0
  <2>1. ASSUME frames # <<>>
        PROVE  Top = frames[Len(frames)] /\ Len(frames) # 0
    BY <2>1, Depths DEF RInv, Top
  <2>2. ASSUME frames # <<>>
        PROVE  Top.id \in Used /\ Top.id # 0
    <3>1. Len(frames) \in 1..Len(frames)
      BY <1>0, <2>1, <2>2
    <3> QED
      BY <2>1, <2>2, <3>1 DEF NInv, DInv, OneId
  <2> QED
    BY <2>1, <2>2 DEF WithinId
<1>9. Within1'
  <2> SUFFICES ASSUME NEW i \in 1..Len(events')
               PROVE  events'[i].within = 0 \/ events'[i].within \in Used'
    BY DEF Within1
  <2>1. CASE i = Len(events) + 1
    BY <1>2, <1>3, <1>8, <2>1
  <2>2. CASE i \in 1..Len(events)
    BY <1>2, <2>2 DEF DInv, Within1
  <2> QED
    BY <1>2, <2>1, <2>2
<1>10. OneId'
  <2> SUFFICES ASSUME NEW i \in 1..Len(frames'), NEW j \in 1..Len(frames')
               PROVE  frames'[i].id # 0 /\ (frames'[i].id = frames'[j].id => i = j)
    BY DEF OneId
  <2>1. \A h \in 1..Len(frames) : frames[h].id \in Used /\ frames[h].id # Id
    BY <1>2 DEF NInv
  <2>2. CASE i = Len(frames) + 1 /\ j = Len(frames) + 1
    BY <1>2, <1>6, <1>7, <2>2
  <2>3. CASE i = Len(frames) + 1 /\ j \in 1..Len(frames)
    BY <1>2, <1>6, <1>7, <2>1, <2>3
  <2>4. CASE i \in 1..Len(frames) /\ j = Len(frames) + 1
    BY <1>2, <1>6, <1>7, <2>1, <2>4 DEF DInv, OneId
  <2>5. CASE i \in 1..Len(frames) /\ j \in 1..Len(frames)
    BY <1>7, <2>5 DEF DInv, OneId
  <2> QED
    BY <1>0, <1>7, <2>2, <2>3, <2>4, <2>5
<1>11. ClassesRecorded'
  <2> SUFFICES ASSUME NEW j \in 1..Len(frames'), frames'[j].kind = "class"
               PROVE  \E c \in 1..Len(events') : events'[c].kind = "class" /\ events'[c].id = frames'[j].id
    <3>1. DOMAIN events' = 1..Len(events')
      BY <1>0, <1>4, AppendProperties, LenProperties
    <3> QED
      BY <3>1 DEF ClassesRecorded
  <2>1. CASE j = Len(frames) + 1
    BY <1>2, <1>3, <1>6, <1>7, <2>1
  <2>2. CASE j \in 1..Len(frames)
    <3>1. PICK c \in 1..Len(events) : events[c].kind = "class" /\ events[c].id = frames[j].id
      BY <1>0, <1>7, <2>2, LenProperties DEF DInv, ClassesRecorded
    <3> QED
      BY <1>2, <1>7, <2>2, <3>1
  <2> QED
    BY <1>0, <1>7, <2>1, <2>2
<1>12. ASSUME errors' = {}
       PROVE  FirstPass' /\ Globals' /\ InBlocks' /\ DuplicatesReported'
  <2>0. errors = {} /\ FirstPass /\ Globals /\ InBlocks /\ DuplicatesReported
    BY <1>12 DEF DInv
  <2>1. Hoisted' = Hoisted /\ DOMAIN scopes[1] \subseteq DOMAIN scopes'[1] /\ next <= next'
    <3>1. next <= next'
      BY <1>0 DEF Visit
    <3> QED
      BY <1>0, <1>2, <3>1 DEF Hoisted, Wider
  <2>2. FirstPass'
    BY <1>2, <2>0, <2>1 DEF FirstPass
  <2>3. Globals'
    <3> SUFFICES ASSUME NEW i \in 1..Len(events'), events'[i].kind \in Declaring, events'[i].within = 0
                 PROVE  /\ events'[i].name \in DOMAIN scopes'[1]
                        /\ events'[i].kind = "var" => \A p \in Hoisted : tops[p].name # events'[i].name
                        /\ events'[i].kind # "var" =>
                             \E p \in Hoisted : p <= next' /\ events'[i].id = -p /\ events'[i].name = tops[p].name
      BY <1>2, <2>1 DEF Globals
    <3>1. CASE i = Len(events) + 1
      BY <1>2, <1>3, <1>8, <1>12, <3>1
    <3>2. CASE i \in 1..Len(events)
      <4>1. events'[i] = events[i]
        BY <1>2, <3>2
      <4>2. \A p \in Hoisted : p <= next => p <= next'
        BY <1>0, <2>1 DEF Hoisted, Visit
      <4> QED
        BY <2>0, <2>1, <3>2, <4>1, <4>2 DEF Globals
    <3> QED
      BY <1>2, <3>1, <3>2
  <2>4. InBlocks'
    <3> SUFFICES ASSUME NEW j \in 1..Len(frames'), NEW i \in 1..Len(events'), frames'[j].kind = "block",
                        events'[i].kind \in Declaring, events'[i].within = frames'[j].id
                 PROVE  events'[i].name \in DOMAIN scopes'[j + 1]
      BY DEF InBlocks
    <3>1. CASE j = Len(frames) + 1
      <4>1. events'[i].within = Id
        BY <1>6, <1>7, <3>1
      <4>2. i \in 1..Len(events) => events[i].within = Id
        BY <1>2, <4>1
      <4>3. i = Len(events) + 1
        BY <1>2, <4>2 DEF DInv, Within1
      <4>4. WithinId = Id
        BY <1>2, <1>3, <4>1, <4>3
      <4> QED
        BY <1>2, <1>8, <4>4
    <3>2. CASE j \in 1..Len(frames) /\ i = Len(events) + 1
      <4>1. frames[j].kind = "block" /\ frames[j].id = WithinId /\ k \in Declaring
        BY <1>2, <1>3, <1>7, <3>2
      <4>2. frames # <<>>
        BY <3>2, EmptySeq
      <4>3. j = Len(frames)
        BY <1>0, <1>8, <3>2, <4>1, <4>2 DEF DInv, OneId
      <4> QED
        BY <1>2, <1>3, <1>8, <1>12, <3>2, <4>1, <4>2, <4>3
    <3>3. CASE j \in 1..Len(frames) /\ i \in 1..Len(events)
      <4>1. frames[j].kind = "block" /\ events[i].kind \in Declaring /\ events[i].within = frames[j].id
        BY <1>2, <1>7, <3>3
      <4>2. events[i].name \in DOMAIN scopes[j + 1]
        BY <2>0, <3>3, <4>1 DEF InBlocks
      <4>3. Depth(frames) = Len(frames)
        BY <1>2, Depths DEF RInv
      <4>4. j + 1 \in 1..Len(scopes)
        BY <1>0, <3>3, <4>3
      <4> QED
        BY <1>2, <3>3, <4>2, <4>4 DEF Wider
    <3> QED
      BY <1>0, <1>2, <1>7, <3>1, <3>2, <3>3
  <2>5. DuplicatesReported'
    BY <1>3, <1>4, <1>12, <2>0, PairsKept
  <2> QED
    BY <2>2, <2>3, <2>4, <2>5
<1> QED
  BY <1>9, <1>10, <1>11, <1>12 DEF DInv

\* An event that declares nothing.
LEMMA DRecording ==
  ASSUME RInv, NInv, DInv, NEW k \in Refs \cup {"return", "exit", "endvar"},
         NEW e \in Events, e.kind = k, e.within = WithinId, events' = Append(events, e),
         next \in Nat, next' \in Nat, next <= next', tops' = tops,
         errors \subseteq errors', Used \subseteq Used'
  PROVE  /\ Within1'
         /\ errors' = {} => /\ errors = {} /\ DuplicatesReported'
                            /\ DOMAIN scopes[1] \subseteq DOMAIN scopes'[1] => FirstPass' /\ Globals'
         /\ \A i \in 1..Len(events') : events'[i].kind \in Declaring =>
              i \in 1..Len(events) /\ events'[i] = events[i]
         /\ \A c \in DOMAIN events : c \in DOMAIN events' /\ events'[c] = events[c]
<1>1. /\ events \in Seq(Events) /\ Len(events) \in Nat /\ DOMAIN events = 1..Len(events)
      /\ events' \in Seq(Events) /\ Len(events') = Len(events) + 1
      /\ events'[Len(events) + 1] = e /\ \A i \in 1..Len(events) : events'[i] = events[i]
      /\ DOMAIN events' = 1..Len(events')
  BY LenProperties, AppendProperties DEF RInv, Shapes
<1>2. \A i \in 1..Len(events') : events'[i].kind \in Declaring =>
         i \in 1..Len(events) /\ events'[i] = events[i]
  BY <1>1 DEF Declaring, Refs
<1>3. frames # <<>> => WithinId \in Used
  <2> SUFFICES ASSUME frames # <<>> PROVE Top.id \in Used
    BY DEF WithinId
  <2>1. Len(frames) \in Nat \ {0} /\ Top = frames[Len(frames)]
    BY PoppedOff DEF RInv, Nested, Top
  <2> QED
    BY <2>1 DEF NInv
<1>4. Within1'
  <2> SUFFICES ASSUME NEW i \in 1..Len(events')
               PROVE  events'[i].within = 0 \/ events'[i].within \in Used'
    BY DEF Within1
  <2>1. i = Len(events) + 1 \/ i \in 1..Len(events)
    BY <1>1
  <2>2. frames = <<>> => WithinId = 0
    BY DEF WithinId
  <2> QED
    BY <1>1, <1>3, <2>1, <2>2 DEF DInv, Within1
<1>5. ASSUME errors' = {}
      PROVE  /\ errors = {} /\ DuplicatesReported'
             /\ DOMAIN scopes[1] \subseteq DOMAIN scopes'[1] => FirstPass' /\ Globals'
  <2>1. errors = {} /\ FirstPass /\ Globals /\ DuplicatesReported
    BY <1>5 DEF DInv
  <2>2. DuplicatesReported'
    BY <2>1, PairsKept DEF Declaring, Refs
  <2>3. Hoisted' = Hoisted
    BY DEF Hoisted
  <2>4. ASSUME DOMAIN scopes[1] \subseteq DOMAIN scopes'[1]
        PROVE  FirstPass' /\ Globals'
    <3>1. FirstPass'
      BY <2>1, <2>3, <2>4 DEF FirstPass
    <3>2. \A p \in Hoisted : p <= next => p <= next'
      BY DEF Hoisted
    <3>3. ASSUME NEW i \in 1..Len(events'), events'[i].kind \in Declaring, events'[i].within = 0
          PROVE  /\ events'[i].name \in DOMAIN scopes'[1]
                 /\ events'[i].kind = "var" => \A p \in Hoisted : tops[p].name # events'[i].name
                 /\ events'[i].kind # "var" =>
                      \E p \in Hoisted : p <= next' /\ events'[i].id = -p /\ events'[i].name = tops[p].name
      <4>1. i \in 1..Len(events) /\ events'[i] = events[i]
        BY <1>2, <3>3
      <4> QED
        BY <2>1, <2>4, <3>2, <3>3, <4>1 DEF Globals
    <3> QED
      BY <2>3, <3>1, <3>3 DEF Globals
  <2> QED
    BY <2>1, <2>2, <2>4
<1> QED
  BY <1>1, <1>2, <1>4, <1>5

LEMMA DEnding ==
  ASSUME RInv, NInv, DInv, frames # <<>>, NEW k \in {"exit", "endvar"},
         NEW n \in Names \cup {NoName}, NEW b \in Int \X {"name", "param", "this", NoName},
         Record(k, n, <<>>, b), frames' = Front(frames), UNCHANGED <<tops, next, errors>>,
         Wider(scopes, scopes', Len(frames))
  PROVE  DInv'
<1>1. /\ Shapes /\ Nested(frames, scopes) /\ next' \in Int /\ <<>> \in Seq(Names)
      /\ next \in Nat /\ events \in Seq(Events) /\ Len(events) \in Nat
      /\ Id \in Int /\ WithinId \in Int
  BY EmptySeq, LenProperties, Ids DEF RInv, Shapes
<1>2. PICK e : e = [kind |-> k, id |-> Id, name |-> n, params |-> <<>>,
                    bound |-> b, within |-> WithinId]
  OBVIOUS
<1>3. /\ e \in Events /\ e.kind = k /\ e.within = WithinId /\ events' = Append(events, e)
  BY <1>1, <1>2 DEF Events, Record
<1>4. Used \subseteq Used'
  BY <1>1, <1>3, AppendProperties, Numbered
<1>5. /\ Within1'
      /\ errors' = {} => /\ errors = {} /\ DuplicatesReported'
                         /\ DOMAIN scopes[1] \subseteq DOMAIN scopes'[1] => FirstPass' /\ Globals'
      /\ \A i \in 1..Len(events') : events'[i].kind \in Declaring =>
           i \in 1..Len(events) /\ events'[i] = events[i]
      /\ \A c \in DOMAIN events : c \in DOMAIN events' /\ events'[c] = events[c]
  BY <1>1, <1>3, <1>4, DRecording
<1>6. /\ Len(frames) \in Nat \ {0} /\ Len(frames') = Len(frames) - 1
      /\ \A i \in 1..Len(frames) - 1 : frames'[i] = frames[i]
  BY PoppedOff DEF RInv, Nested
<1>9. \A i \in 1..Len(frames') : i \in 1..Len(frames) /\ frames'[i] = frames[i]
  BY <1>6
<1>10. OneId'
  BY <1>9 DEF DInv, OneId
<1>7. ClassesRecorded'
  <2> SUFFICES ASSUME NEW j \in 1..Len(frames'), frames'[j].kind = "class"
               PROVE  \E c \in DOMAIN events' : events'[c].kind = "class" /\ events'[c].id = frames'[j].id
    BY DEF ClassesRecorded
  <2>1. j \in 1..Len(frames) /\ frames'[j] = frames[j]
    BY <1>9
  <2>2. PICK c \in DOMAIN events : events[c].kind = "class" /\ events[c].id = frames[j].id
    BY <2>1 DEF DInv, ClassesRecorded
  <2> QED
    BY <1>5, <2>1, <2>2
<1>8. ASSUME errors' = {}
      PROVE  FirstPass' /\ Globals' /\ DuplicatesReported' /\ InBlocks'
  <2>1. DOMAIN scopes[1] \subseteq DOMAIN scopes'[1]
    BY <1>6 DEF Wider
  <2>2. errors = {} /\ InBlocks
    BY <1>5, <1>8 DEF DInv
  <2>3. InBlocks'
    <3> SUFFICES ASSUME NEW j \in 1..Len(frames'), NEW i \in 1..Len(events'), frames'[j].kind = "block",
                        events'[i].kind \in Declaring, events'[i].within = frames'[j].id
                 PROVE  events'[i].name \in DOMAIN scopes'[j + 1]
      BY DEF InBlocks
    <3>1. i \in 1..Len(events) /\ events'[i] = events[i]
      BY <1>5
    <3>2. j \in 1..Len(frames) /\ frames'[j] = frames[j] /\ j + 1 \in 1..Len(frames)
      BY <1>6
    <3>3. events[i].name \in DOMAIN scopes[j + 1]
      BY <2>2, <3>1, <3>2 DEF InBlocks
    <3> QED
      BY <3>1, <3>2, <3>3 DEF Wider
  <2> QED
    BY <1>5, <1>8, <2>1, <2>3
<1> QED
  BY <1>5, <1>7, <1>8, <1>10 DEF DInv

LEMMA DReferring ==
  ASSUME RInv, NInv, DInv, NEW k \in Refs \cup {"return"}, NEW n \in Names \cup {NoName},
         NEW b \in Int \X {"name", "param", "this", NoName},
         Visit(k, n), Record(k, n, <<>>, b), UNCHANGED <<scopes, frames>>, errors \subseteq errors'
  PROVE  DInv'
<1>1. /\ <<>> \in Seq(Names) /\ next \in Nat /\ next' \in Nat /\ next <= next' /\ tops' = tops
      /\ Id \in Int /\ WithinId \in Int
  <2>1. next \in Nat /\ next' \in Nat /\ Id \in Int /\ WithinId \in Int /\ tops' = tops
    BY Visited DEF RInv
  <2> QED
    BY <2>1, EmptySeq DEF Visit
<1>2. PICK e : e = [kind |-> k, id |-> Id, name |-> n, params |-> <<>>,
                    bound |-> b, within |-> WithinId]
  OBVIOUS
<1>3. /\ e \in Events /\ e.kind = k /\ e.within = WithinId /\ events' = Append(events, e)
  BY <1>1, <1>2 DEF Events, Record
<1>4. Used \subseteq Used'
  BY <1>3, AppendProperties, Numbered DEF RInv, Shapes
<1>5. /\ Within1'
      /\ errors' = {} => /\ errors = {} /\ DuplicatesReported'
                         /\ DOMAIN scopes[1] \subseteq DOMAIN scopes'[1] => FirstPass' /\ Globals'
      /\ \A i \in 1..Len(events') : events'[i].kind \in Declaring =>
           i \in 1..Len(events) /\ events'[i] = events[i]
      /\ \A c \in DOMAIN events : c \in DOMAIN events' /\ events'[c] = events[c]
  BY <1>1, <1>3, <1>4, DRecording
<1>6. OneId' /\ ClassesRecorded'
  BY <1>5 DEF DInv, OneId, ClassesRecorded
<1>7. errors' = {} => FirstPass' /\ Globals' /\ DuplicatesReported' /\ InBlocks'
  BY <1>5 DEF DInv, InBlocks
<1> QED
  BY <1>5, <1>6, <1>7 DEF DInv

LEMMA DDeclared ==
  ASSUME RInv, DInv, NEW k \in TopKinds, NEW n \in NamesFor(k), DeclareTop(k, n)
  PROVE  DInv'
<1>1. /\ pass = "declare" /\ frames = <<>> /\ events = <<>> /\ next = 0
      /\ scopes \in Seq(Tables) /\ scopes # <<>> /\ Len(scopes) = 1
  <2>1. pass = "declare" /\ frames = <<>> /\ events = <<>> /\ next = 0
    BY DEF DeclareTop, RInv, Shapes
  <2>2. Depth(frames) = 0
    BY <2>1, Depths DEF RInv
  <2>3. scopes \in Seq(Tables) /\ Len(scopes) = 1
    BY <2>2 DEF RInv, Nested
  <2>4. scopes # <<>>
    BY Depths DEF RInv
  <2> QED
    BY <2>1, <2>3, <2>4
<1>2. /\ next' = next /\ frames' = frames /\ events' = events
      /\ Len(frames') = 0 /\ Len(events') = 0 /\ DOMAIN events' = {}
  BY <1>1, EmptySeq DEF DeclareTop
<1>3. Within1' /\ OneId' /\ ClassesRecorded' /\ Globals' /\ InBlocks' /\ DuplicatesReported'
  BY <1>2 DEF Within1, OneId, ClassesRecorded, Globals, InBlocks, DuplicatesReported
<1>4. /\ Len(tops') = Len(tops) + 1 /\ Len(tops) \in Nat
      /\ tops'[Len(tops')].kind = k /\ tops'[Len(tops')].name = n
      /\ \A q \in 1..Len(tops) : tops'[q] = tops[q]
  <2>1. PICK x : x = [kind |-> k, name |-> n]
    OBVIOUS
  <2>2. x \in Tops
    BY <2>1 DEF NamesFor, Tops
  <2>3. tops \in Seq(Tops) /\ tops' = Append(tops, x)
    BY <2>1 DEF DeclareTop, RInv, Shapes
  <2>4. /\ Len(tops') = Len(tops) + 1 /\ Len(tops) \in Nat /\ tops'[Len(tops) + 1] = x
        /\ \A q \in 1..Len(tops) : tops'[q] = tops[q]
    BY <2>2, <2>3, PushedOn
  <2> QED
    BY <2>1, <2>4
<1>5. ASSUME errors' = {}
      PROVE  FirstPass'
  <2>1. errors = {} /\ FirstPass
    <3>1. errors \subseteq errors'
      BY KindsKnown DEF DeclareTop
    <3> QED
      BY <1>5, <3>1 DEF DInv
  <2>2. CASE k \in {"func", "class"}
    <3>1. n \in Names
      BY <2>2 DEF NamesFor, Named
    <3>2. PICK d : d = <<-Len(tops'), "name">>
      OBVIOUS
    <3>3. -Len(tops') \in Int
      BY <1>4
    <3>4. d \in Decls
      BY <3>2, <3>3 DEF Decls
    <3>5. scopes' = Declare(scopes, n, d).ss /\ Declare(scopes, n, d).errors = {}
      BY <1>5, <2>2, <3>2 DEF DeclareTop
    <3>6. Last(scopes) = scopes[1]
      BY <1>1 DEF Last
    <3>7. n \notin DOMAIN scopes[1] /\ scopes' = Add(scopes, n, d, FALSE)
      BY <3>5, <3>6 DEF Declare
    <3>8. DOMAIN scopes'[1] = DOMAIN scopes[1] \cup {n}
      <4>1. PICK tt : tt = Add(scopes, n, d, FALSE)
        OBVIOUS
      <4>2. AddedTo(scopes, tt, n, Entry(d, FALSE))
        BY <1>1, <3>1, <3>4, <4>1, Adding
      <4> QED
        BY <1>1, <3>7, <4>1, <4>2 DEF AddedTo
    <3>9. Hoisted' = Hoisted \cup {Len(tops')}
      BY <1>4, <2>2 DEF Hoisted
    <3>10. \A p \in Hoisted : p \in 1..Len(tops) /\ tops'[p] = tops[p] /\ tops[p].name # n
      BY <1>4, <2>1, <3>7 DEF Hoisted, FirstPass
    <3> QED
      BY <1>4, <2>1, <3>8, <3>9, <3>10 DEF FirstPass
  <2>3. CASE k \notin {"func", "class"}
    <3>1. scopes' = scopes
      BY <2>3, KindsKnown DEF DeclareTop
    <3>2. Hoisted' = Hoisted
      BY <1>4, <2>3 DEF Hoisted
    <3>3. \A p \in Hoisted : tops'[p] = tops[p]
      BY <1>4 DEF Hoisted
    <3> QED
      BY <2>1, <3>1, <3>2, <3>3 DEF FirstPass
  <2> QED
    BY <2>2, <2>3
<1> QED
  BY <1>3, <1>5 DEF DInv

LEMMA WiderAdded ==
  ASSUME NEW ss \in Seq(Tables), ss # <<>>, NEW n \in Names, NEW d \in Decls,
         NEW ready \in BOOLEAN
  PROVE  /\ Add(ss, n, d, ready) \in Seq(Tables) /\ Len(Add(ss, n, d, ready)) = Len(ss)
         /\ Wider(ss, Add(ss, n, d, ready), Len(ss))
         /\ n \in DOMAIN Add(ss, n, d, ready)[Len(ss)]
<1>1. PICK tt : tt = Add(ss, n, d, ready)
  OBVIOUS
<1>2. tt \in Seq(Tables) /\ AddedTo(ss, tt, n, Entry(d, ready))
  BY <1>1, Adding
<1>3. Wider(ss, tt, Len(ss))
  BY <1>2 DEF AddedTo, Wider
<1> QED
  BY <1>1, <1>2, <1>3 DEF AddedTo

LEMMA WiderAppended ==
  ASSUME NEW ss \in Seq(Tables), NEW tt \in Seq(Tables), Len(tt) = Len(ss),
         Wider(ss, tt, Len(ss)), NEW t \in Tables
  PROVE  Wider(ss, Append(tt, t), Len(ss))
<1>1. Len(ss) \in Nat /\ \A j \in 1..Len(tt) : Append(tt, t)[j] = tt[j]
  BY LenProperties, AppendProperties
<1> QED
  BY <1>1 DEF Wider

\* A function or a class is a new one: the first pass has seen it, or it is a method.
LEMMA HoistedAnew ==
  ASSUME RInv, DInv, Flat, errors = {}, NEW k \in {"func", "class"}, NEW n, Visit(k, n),
         Wider(scopes, scopes', Len(scopes))
  PROVE  /\ \A i \in 1..Len(events) :
              /\ events[i].kind \in Declaring /\ events[i].within = WithinId
              /\ ~\E c \in DOMAIN events : events[c].kind = "class" /\ events[c].id = WithinId
              => events[i].name # n
         /\ frames # <<>> /\ Top.kind = "block" => n \in DOMAIN scopes'[Len(frames) + 1]
         /\ frames = <<>> =>
              /\ n \in DOMAIN scopes'[1]
              /\ k = "var" => \A p \in Hoisted : tops[p].name # n
              /\ k # "var" => \E p \in Hoisted : p <= next' /\ Id = -p /\ n = tops[p].name
<1>1. FirstPass /\ Globals
  BY DEF DInv
<1>2. /\ next \in Nat /\ Len(tops) \in Nat /\ Len(scopes) \in Nat \ {0}
  BY Visited, Depths DEF RInv
<1>3. CASE frames = <<>>
  <2>1. /\ next' = next + 1 /\ next' \in 1..Len(tops) /\ Id = -next' /\ WithinId = 0
        /\ tops[next'].kind = k /\ tops[next'].name = n
    <3>1. PICK x : x = [kind |-> k, name |-> n]
      OBVIOUS
    <3>2. next < Len(tops) /\ tops[next + 1] = x /\ next' = next + 1
      BY <1>3, <3>1 DEF Visit
    <3> QED
      BY <1>2, <1>3, <3>1, <3>2 DEF Id, WithinId
  <2>2. next' \in Hoisted
    BY <2>1 DEF Hoisted
  <2>3. n \in DOMAIN scopes'[1]
    BY <1>1, <1>2, <2>1, <2>2 DEF FirstPass, Wider
  <2>4. ASSUME NEW i \in 1..Len(events), events[i].kind \in Declaring, events[i].within = 0
        PROVE  events[i].name # n
    <3>1. CASE events[i].kind = "var"
      BY <1>1, <2>1, <2>2, <2>4, <3>1 DEF Globals
    <3>2. CASE events[i].kind # "var"
      <4>1. PICK p \in Hoisted : p <= next /\ events[i].name = tops[p].name
        BY <1>1, <2>4, <3>2 DEF Globals
      <4>2. p \in Nat /\ p # next'
        BY <1>2, <2>1, <4>1 DEF Hoisted
      <4> QED
        BY <1>1, <2>1, <2>2, <4>1, <4>2 DEF FirstPass
    <3> QED
      BY <3>1, <3>2
  <2> QED
    BY <1>2, <1>3, <2>1, <2>2, <2>3, <2>4
<1>4. CASE frames # <<>>
  <2>1. Top \in Frames /\ Len(frames) \in 1..Len(frames) /\ Top = frames[Len(frames)]
    BY <1>4, Depths DEF RInv, Top
  <2>2. Top.kind \in Kinds /\ MayContain(Top.kind, k)
    BY <1>4, <2>1 DEF Frames, Visit
  <2>3. Top.kind = "class"
    BY <2>2 DEF MayContain, Kinds, Scoped, Refs, Flat
  <2>4. PICK c \in DOMAIN events : events[c].kind = "class" /\ events[c].id = Top.id
    BY <2>1, <2>3 DEF DInv, ClassesRecorded
  <2> QED
    BY <1>4, <2>3, <2>4 DEF WithinId
<1> QED
  BY <1>3, <1>4

\* A variable is a new one: its name is not in the innermost scope.
LEMMA VariableAnew ==
  ASSUME RInv, DInv, Flat, errors = {}, NEW n \in Names, NEW d \in Decls, Visit("var", n),
         n \notin DOMAIN Last(scopes), scopes' = Add(scopes, n, d, FALSE)
  PROVE  /\ \A i \in 1..Len(events) :
              /\ events[i].kind \in Declaring /\ events[i].within = WithinId
              => events[i].name # n
         /\ frames # <<>> /\ Top.kind = "block" => n \in DOMAIN scopes'[Len(frames) + 1]
         /\ frames = <<>> =>
              /\ n \in DOMAIN scopes'[1]
              /\ \A p \in Hoisted : tops[p].name # n
<1>1. FirstPass /\ Globals /\ InBlocks
  BY DEF DInv
<1>2. /\ scopes \in Seq(Tables) /\ scopes # <<>> /\ Len(scopes) = Depth(frames) + 1
      /\ frames = <<>> \/ Last(frames).kind # "var"
  BY Visited, Depths DEF RInv, Nested, Refs
<1>3. Last(scopes) = scopes[Len(scopes)]
  BY DEF Last
<1>4. n \in DOMAIN scopes'[Len(scopes)]
  BY <1>2, WiderAdded
<1>5. CASE frames = <<>>
  <2>1. Len(scopes) = 1
    BY <1>2, <1>5, Depths DEF RInv
  <2> QED
    BY <1>1, <1>3, <1>4, <1>5, <2>1 DEF Globals, FirstPass, WithinId
<1>6. CASE frames # <<>>
  <2>1. /\ Top \in Frames /\ Len(frames) \in 1..Len(frames) /\ Top = frames[Len(frames)]
        /\ Len(scopes) = Len(frames) + 1
    BY <1>2, <1>6, Depths DEF RInv, Top
  <2>2. Top.kind \in Kinds /\ MayContain(Top.kind, "var")
    BY <1>6, <2>1 DEF Frames, Visit
  <2>3. Top.kind = "block"
    BY <2>2 DEF MayContain, Kinds, Scoped, Refs
  <2> QED
    BY <1>1, <1>3, <1>4, <1>6, <2>1, <2>3 DEF InBlocks, WithinId
<1> QED
  BY <1>5, <1>6

LEMMA DStutter ==
  ASSUME DInv, UNCHANGED <<tops, next, scopes, frames, events, errors>>
  PROVE  DInv'
BY DEF DInv, Within1, OneId, ClassesRecorded, FirstPass, Globals, InBlocks,
       DuplicatesReported, Hoisted, Used

LEMMA DStep == ASSUME RInv, NInv, DInv, Flat, Resolve PROVE DInv'
<1>0. /\ scopes \in Seq(Tables) /\ scopes # <<>> /\ Len(scopes) \in Nat /\ <<>> \in Seq(Names)
      /\ Len(scopes) = Depth(frames) + 1 /\ Len(frames) \in Nat
      /\ None \in Int \X {"name", "param", "this", NoName}
      /\ frames # <<>> => /\ Top \in Frames
                          /\ Len(scopes) = IF Top.kind = "var" THEN Len(frames) ELSE Len(frames) + 1
  <2>1. /\ scopes \in Seq(Tables) /\ scopes # <<>> /\ Len(scopes) = Depth(frames) + 1
        /\ Len(frames) \in Nat
    BY Depths DEF RInv, Nested
  <2>2. frames # <<>> => /\ Top \in Frames
                         /\ Depth(frames) = IF Top.kind = "var" THEN Len(frames) - 1 ELSE Len(frames)
    BY Depths DEF RInv, Top
  <2> QED
    BY <2>1, <2>2, LenProperties, EmptySeq DEF None
<1>k. {"func", "class", "block", "var"} = Kinds
  BY DEF Kinds, Scoped
<1>d. ASSUME NEW n \in Names, NEW k, Visit(k, n)
      PROVE  /\ Define(scopes, n, <<Id, "name">>) \in Seq(Tables)
             /\ Len(Define(scopes, n, <<Id, "name">>)) = Len(scopes)
             /\ Wider(scopes, Define(scopes, n, <<Id, "name">>), Len(scopes))
             /\ <<Id, "name">> \in Decls /\ Id \in Int
  <2>1. Id \in Int
    BY <1>d, Visited DEF RInv
  <2>2. PICK d : d = <<Id, "name">>
    OBVIOUS
  <2>3. d \in Decls
    BY <2>1, <2>2 DEF Decls
  <2> QED
    BY <1>0, <2>1, <2>2, <2>3, WiderAdded DEF Define
<1>1. CASE \E k \in TopKinds : \E n \in NamesFor(k) : DeclareTop(k, n)
  BY <1>1, DDeclared
<1>2. CASE StartResolving
  BY <1>2, DStutter DEF StartResolving
<1>3. ASSUME NEW n \in Names, EnterClass(n)
      PROVE  DInv'
  <2>1. /\ Visit("class", n) /\ Push("class", n) /\ Record("class", n, <<>>, None)
        /\ errors' = errors
    BY <1>3 DEF EnterClass
  <2>2. PICK tt : tt = Define(scopes, n, <<Id, "name">>)
    OBVIOUS
  <2>3. PICK t : t = [x \in {"this"} |-> Entry(<<Id, "this">>, TRUE)]
    OBVIOUS
  <2>4. t \in Tables
    <3>1. Entry(<<Id, "this">>, TRUE) \in Entries
      BY <1>d, <2>1 DEF Entry, Entries, Decls
    <3> QED
      BY <2>3, <3>1, TableOf
  <2>5. scopes' = Append(tt, t)
    BY <1>3, <2>2, <2>3 DEF EnterClass
  <2>6. Wider(scopes, scopes', Len(scopes))
    BY <1>0, <1>d, <2>1, <2>2, <2>4, <2>5, WiderAppended
  <2>7. "class" \in Kinds /\ "class" \in {"func", "class"}
    BY <1>k
  <2> QED
    BY <1>0, <2>1, <2>6, <2>7, HoistedAnew, DEntering
<1>4. ASSUME NEW n \in Names, DeclareVar(n)
      PROVE  DInv'
  <2>1. PICK d : d = <<Id, "name">>
    OBVIOUS
  <2>2. /\ Visit("var", n) /\ Push("var", n) /\ Record("var", n, <<>>, None)
        /\ scopes' = Declare(scopes, n, d).ss
        /\ errors' = errors \cup Declare(scopes, n, d).errors
    BY <1>4, <2>1 DEF DeclareVar
  <2>3. d \in Decls /\ "var" \in Kinds
    BY <1>d, <1>k, <2>1, <2>2
  <2>4. Wider(scopes, scopes', Len(scopes))
    <3>1. scopes' = scopes \/ scopes' = Add(scopes, n, d, FALSE)
      BY <2>2 DEF Declare
    <3>2. Wider(scopes, scopes, Len(scopes))
      BY DEF Wider
    <3> QED
      BY <1>0, <2>3, <3>1, <3>2, WiderAdded
  <2>5. ASSUME errors' = {}
        PROVE  errors = {} /\ n \notin DOMAIN Last(scopes) /\ scopes' = Add(scopes, n, d, FALSE)
    BY <2>2, <2>5 DEF Declare
  <2>6. ASSUME errors' = {}
        PROVE  /\ \A i \in 1..Len(events) :
                    /\ events[i].kind \in Declaring /\ events[i].within = WithinId
                    => events[i].name # n
               /\ frames # <<>> /\ Top.kind = "block" => n \in DOMAIN scopes'[Len(frames) + 1]
               /\ frames = <<>> => /\ n \in DOMAIN scopes'[1]
                                   /\ \A p \in Hoisted : tops[p].name # n
    BY <2>2, <2>3, <2>5, <2>6, VariableAnew
  <2> QED
    BY <1>0, <2>2, <2>3, <2>4, <2>6, DEntering
<1>5. ASSUME NEW n \in Names, NEW ps \in BoundedSeq(Names, MaxParams), EnterFunction(n, ps)
      PROVE  DInv'
  <2>1. /\ Visit("func", n) /\ Push("func", n) /\ Record("func", n, ps, None)
        /\ errors \subseteq errors'
    BY <1>5 DEF EnterFunction
  <2>2. "func" \in Kinds /\ Id \in Int
    BY <1>k, <1>d, <2>1
  <2>3. ps \in Seq(Names) /\ Params(ps) \in Tables
    BY <2>2, Parameters
  <2>4. PICK tt : tt = IF Within = "class" THEN scopes ELSE Define(scopes, n, <<Id, "name">>)
    OBVIOUS
  <2>5. tt \in Seq(Tables) /\ Len(tt) = Len(scopes) /\ Wider(scopes, tt, Len(scopes))
    <3>1. Wider(scopes, scopes, Len(scopes))
      BY DEF Wider
    <3> QED
      BY <1>0, <1>d, <2>1, <2>4, <3>1
  <2>6. scopes' = Append(tt, Params(ps))
    BY <1>5, <2>4 DEF EnterFunction
  <2>7. Wider(scopes, scopes', Len(scopes))
    <3>1. PICK t : t = Params(ps)
      OBVIOUS
    <3> QED
      BY <1>0, <2>3, <2>5, <2>6, <3>1, WiderAppended
  <2>8. "func" \in {"func", "class"} /\ (errors' = {} => errors = {})
    BY <2>1
  <2> QED
    BY <1>0, <2>1, <2>2, <2>3, <2>7, <2>8, HoistedAnew, DEntering
<1>6. CASE EnterBlock
  <2>1. /\ Visit("block", NoName) /\ Push("block", NoName) /\ Record("block", NoName, <<>>, None)
        /\ scopes' = Append(scopes, <<>>) /\ errors' = errors
    BY <1>6 DEF EnterBlock
  <2>2. "block" \in Kinds /\ NoName \in Names \cup {NoName} /\ "block" \notin Declaring
    BY <1>k DEF Declaring
  <2>3. <<>> \in Tables
    <3>1. DOMAIN <<>> = {} /\ <<>> = [m \in {} |-> <<>>[m]]
      OBVIOUS
    <3> QED
      BY <3>1, TableOf
  <2>4. PICK t : t = <<>>
    OBVIOUS
  <2>5. Wider(scopes, scopes, Len(scopes))
    BY DEF Wider
  <2>6. Wider(scopes, scopes', Len(scopes))
    BY <1>0, <2>1, <2>3, <2>4, <2>5, WiderAppended
  <2> QED
    BY <1>0, <2>1, <2>2, <2>6, DEntering
<1>7. CASE Leave
  <2>1. /\ frames # <<>> /\ Top.kind # "var" /\ scopes' = Front(scopes)
        /\ Record("exit", Top.name, <<>>, None)
        /\ frames' = Front(frames) /\ UNCHANGED <<tops, next, errors>>
    BY <1>7 DEF Leave, Within, Scoped
  <2>2. Top.name \in Names \cup {NoName}
    BY <1>0, <2>1 DEF Frames
  <2>3. \A j \in 1..Len(scopes) - 1 : scopes'[j] = scopes[j]
    BY <1>0, <2>1, PoppedOff
  <2>4. Wider(scopes, scopes', Len(frames))
    BY <1>0, <2>1, <2>3 DEF Wider
  <2> QED
    BY <1>0, <2>1, <2>2, <2>4, DEnding
<1>8. CASE DefineVar
  <2>1. PICK d : d = <<Top.id, "name">>
    OBVIOUS
  <2>2. /\ frames # <<>> /\ Top.kind = "var" /\ scopes' = Add(scopes, Top.name, d, TRUE)
        /\ Record("endvar", Top.name, <<>>, d)
        /\ frames' = Front(frames) /\ UNCHANGED <<tops, next, errors>>
    BY <1>8, <2>1 DEF DefineVar, Within, Define
  <2>3. Top.name \in Names /\ Top.id \in Int
    BY <1>0, <2>2 DEF Frames
  <2>4. d \in Decls /\ d \in Int \X {"name", "param", "this", NoName}
    BY <2>1, <2>3 DEF Decls
  <2>5. Wider(scopes, scopes', Len(frames))
    BY <1>0, <2>2, <2>3, <2>4, WiderAdded
  <2> QED
    BY <1>0, <2>2, <2>3, <2>4, <2>5, DEnding
<1>9. ASSUME NEW n \in Names, Variable(n)
      PROVE  DInv'
  <2>1. /\ Visit("use", n) /\ Record("use", n, <<>>, Bound(n))
        /\ errors \subseteq errors' /\ UNCHANGED <<scopes, frames>>
    BY <1>9 DEF Variable
  <2>2. Bound(n) \in Int \X {"name", "param", "this", NoName} /\ "use" \in Refs
    BY BoundTyped DEF RInv, Refs
  <2> QED
    BY <2>1, <2>2, DReferring
<1>10. ASSUME NEW n \in Names, Assignment(n)
       PROVE  DInv'
  <2>1. /\ Visit("assign", n) /\ Record("assign", n, <<>>, Bound(n))
        /\ errors \subseteq errors' /\ UNCHANGED <<scopes, frames>>
    BY <1>10 DEF Assignment
  <2>2. Bound(n) \in Int \X {"name", "param", "this", NoName} /\ "assign" \in Refs
    BY BoundTyped DEF RInv, Refs
  <2> QED
    BY <2>1, <2>2, DReferring
<1>11. CASE This
  <2>1. /\ Visit("this", NoName) /\ Record("this", NoName, <<>>, Bound("this"))
        /\ errors \subseteq errors' /\ UNCHANGED <<scopes, frames>>
    BY <1>11 DEF This
  <2>2. Bound("this") \in Int \X {"name", "param", "this", NoName} /\ "this" \in Refs
    BY BoundTyped DEF RInv, Refs
  <2> QED
    BY <2>1, <2>2, DReferring
<1>12. CASE ReturnStmt
  <2>1. /\ Visit("return", NoName) /\ Record("return", NoName, <<>>, None)
        /\ errors \subseteq errors' /\ UNCHANGED <<scopes, frames>>
    BY <1>12 DEF ReturnStmt
  <2> QED
    BY <1>0, <2>1, DReferring
<1>13. CASE FinishResolving
  BY <1>13, DStutter DEF FinishResolving
<1>i. CASE InIndex
  <2>1. PICK k \in Refs, n \in Names \cup {NoName} :
          /\ k \notin {"use", "assign", "this", "return"}
          /\ Visit(k, n) /\ Record(k, n, <<>>, None)
          /\ None \in Int \X {"name", "param", "this", NoName}
          /\ errors' = errors /\ errors \subseteq errors'
          /\ UNCHANGED <<scopes, current_class, current_function, frames>>
    BY <1>i, IndexedRefers
  <2> QED
    BY <2>1, DReferring
<1> QED
  BY <1>1, <1>2, <1>3, <1>4, <1>5, <1>6, <1>7, <1>8, <1>9, <1>10, <1>11, <1>12, <1>13, <1>i, IndexedKinds
  DEF Resolve

LEMMA DStart == BindingInit => DInv
<1> SUFFICES ASSUME BindingInit PROVE DInv
  OBVIOUS
<1>1. frames = <<>> /\ events = <<>> /\ tops = <<>>
  BY DEF BindingInit, Init
<1>2. Len(tops) = 0 /\ Len(frames) = 0 /\ Len(events) = 0 /\ DOMAIN events = {}
  BY <1>1, EmptySeq
<1> QED
  BY <1>2 DEF DInv, Within1, OneId, ClassesRecorded, FirstPass, Globals, InBlocks,
              DuplicatesReported, Hoisted

LEMMA Declared == ASSUME Flat PROVE Spec => []DInv
<1>1. DInv /\ UNCHANGED resolverVars => DInv'
  BY DStutter DEF resolverVars
<1>2. RInv /\ NInv /\ DInv /\ [Next]_vars => DInv'
  BY <1>1, DStep, OthersLeave DEF vars
<1>3. Spec => []NInv
  <2>1. NInv /\ UNCHANGED resolverVars => NInv'
    BY DEF NInv, resolverVars, NoReadOfItself, Initialized, Known, Used, Hoisted
  <2>2. RInv /\ NInv /\ [Next]_vars => NInv'
    BY <2>1, NStep, OthersLeave DEF vars
  <2> QED
    BY NStart, ResolverShapes, <2>2, PTL DEF Spec
<1> QED
  BY DStart, ResolverShapes, <1>2, <1>3, PTL DEF Spec

(* Where functions and classes stand at the top level only, a program without
   errors declares no name twice in one scope, in whatever order the two passes
   meet functions, classes and variables (resolver.cc:20-41, 180-189). *)
THEOREM NoDuplicates == ASSUME Flat PROVE Spec => []DuplicatesReported
<1>1. DInv => DuplicatesReported \/ errors # {}
  BY DEF DInv
<1>2. DInv => DuplicatesReported
  BY <1>1 DEF DuplicatesReported
<1> QED
  BY Declared, <1>2, PTL

-----------------------------------------------------------------------------
(* The TypeChecker is inside of the statements the Resolver was inside of.   *)

\* h lists the statements in progress, by their places in es; the first n of them.
\* What the TypeChecker knows of the innermost k: a class by its name, a function
\* by its type.
IsA(k, es, h, j) == es[h[j]].kind = k
Innermost(k, es, h, n, j) ==
  j \in 1..n /\ IsA(k, es, h, j) /\ \A m \in j + 1..n : ~IsA(k, es, h, m)

Meant(k, e) == IF k = "class" THEN e.name ELSE e.id
Nothing(k) == IF k = "class" THEN NoName ELSE 0
Saved(k, o) == IF k = "class" THEN o.class ELSE o.fn

EnclosedBy(k, es, h, n, c) ==
  \/ \E j \in 1..n : Innermost(k, es, h, n, j) /\ c = Meant(k, es[h[j]])
  \/ (\A j \in 1..n : ~IsA(k, es, h, j)) /\ c = Nothing(k)

\* g lists what is in progress after event i, if h does before it.
Follows(es, g, h, i) ==
  \/ es[i].kind \in Kinds /\ g = Append(h, i)
  \/ /\ es[i].kind \in {"exit", "endvar"} /\ h # <<>> /\ g = Front(h)
     /\ es[i].kind = "endvar" <=> es[h[Len(h)]].kind = "var"
  \/ es[i].kind \in Refs \cup {"return"} /\ g = h

\* hs[i] lists what is in progress after the first i events.
Explains(hs, es) ==
  /\ hs \in [0..Len(es) -> Seq(1..Len(es))] /\ hs[0] = <<>>
  /\ \A i \in 1..Len(es) : Follows(es, hs[i], hs[i - 1], i)

\* Every "this" is bound to the innermost class.
ThisBound(es, hs) ==
  \A i \in 1..Len(es) : es[i].kind = "this" =>
    \E j \in 1..Len(hs[i - 1]) : /\ Innermost("class", es, hs[i - 1], Len(hs[i - 1]), j)
                                 /\ es[i].bound = <<es[hs[i - 1][j]].id, "this">>

SameFrames(es, h, fs) ==
  /\ Len(fs) = Len(h)
  /\ \A j \in 1..Len(h) : fs[j].kind = es[h[j]].kind /\ fs[j].id = es[h[j]].id

\* What the TypeChecker saved is what it was before.
SameOpen(k, es, h, op, c) ==
  /\ IsList(op) /\ Len(op) = Len(h)
  /\ \A j \in 1..Len(h) : op[j].kind = es[h[j]].kind /\ EnclosedBy(k, es, h, j - 1, Saved(k, op[j]))
  /\ EnclosedBy(k, es, h, Len(h), c)

\* The scope of a class has a "this", and it is that class's.
ThisMeans(fs, ss) ==
  \A j \in 1..Len(fs) : fs[j].kind = "class" =>
    "this" \in DOMAIN ss[j + 1] /\ ss[j + 1]["this"].decl = <<fs[j].id, "this">>

History(hs) ==
  /\ Explains(hs, events) /\ SameFrames(events, hs[Len(events)], frames)
  /\ errors = {} => ThisBound(events, hs)

Tracked(hs) == History(hs) /\ SameOpen("class", events, hs[pos], open, enclosing_class)

TInv ==
  /\ ThisMeans(frames, scopes)
  /\ stage # "resolver" => errors = {}
  /\ pos \in 0..Len(events)
  /\ \E hs : Tracked(hs)

\* tt has the "this" of ss.
ThisKept(ss, tt) ==
  /\ tt \in Seq(Tables) /\ Len(tt) = Len(ss)
  /\ \A j \in 1..Len(ss) : "this" \in DOMAIN ss[j] =>
       "this" \in DOMAIN tt[j] /\ tt[j]["this"] = ss[j]["this"]

LEMMA ThisIsKept ==
  ASSUME NEW ss \in Seq(Tables), ss # <<>>, NEW n \in Names, NEW d \in Decls,
         NEW ready \in BOOLEAN
  PROVE  ThisKept(ss, ss) /\ ThisKept(ss, Add(ss, n, d, ready)) /\ ThisKept(ss, Declare(ss, n, d).ss)
<1>1. n # "this"
  BY ThisIsNoName
<1>2. ASSUME NEW r \in BOOLEAN
      PROVE  ThisKept(ss, Add(ss, n, d, r))
  <2>1. PICK tt : tt = Add(ss, n, d, r)
    OBVIOUS
  <2>2. tt \in Seq(Tables) /\ AddedTo(ss, tt, n, Entry(d, r))
    BY <2>1, Adding
  <2> QED
    BY <1>1, <2>1, <2>2 DEF ThisKept, AddedTo
<1>3. ThisKept(ss, ss)
  BY DEF ThisKept
<1>4. Declare(ss, n, d).ss = ss \/ Declare(ss, n, d).ss = Add(ss, n, d, FALSE)
  BY DEF Declare
<1> QED
  BY <1>2, <1>3, <1>4

\* es2 is es with one event more.
Extended(es, es2, n) ==
  /\ es \in Seq(Events) /\ n = Len(es) /\ es2 \in Seq(Events) /\ Len(es2) = n + 1
  /\ \A i \in 1..n : es2[i] = es[i]

\* Nothing the history says of the events so far is changed by one more.
LEMMA HistoryGrows ==
  ASSUME NEW es, NEW es2, NEW n \in Nat, Extended(es, es2, n), NEW hs, Explains(hs, es),
         NEW g \in Seq(1..n + 1), Follows(es2, g, hs[n], n + 1)
  PROVE  \E hs2 : /\ Explains(hs2, es2) /\ hs2[n + 1] = g
                  /\ \A i \in 0..n : hs2[i] = hs[i]
<1>0. /\ n = Len(es) /\ Len(es2) = n + 1 /\ \A i \in 1..n : es2[i] = es[i]
  BY DEF Extended
<1> DEFINE hs2 == [i \in 0..n + 1 |-> IF i <= n THEN hs[i] ELSE g]
<1>1. hs \in [0..n -> Seq(1..n)] /\ hs[0] = <<>>
  BY <1>0 DEF Explains
<1>2. Seq(1..n) \subseteq Seq(1..n + 1)
  <2>1. 1..n \subseteq 1..n + 1
    OBVIOUS
  <2> QED
    BY <2>1, SeqMonotonic
<1>3. hs2 \in [0..n + 1 -> Seq(1..n + 1)] /\ hs2[0] = <<>>
  BY <1>1, <1>2
<1>4. hs2[n + 1] = g /\ \A i \in 0..n : hs2[i] = hs[i]
  OBVIOUS
<1> HIDE DEF hs2
<1>5. ASSUME NEW i \in 1..n + 1
      PROVE  Follows(es2, hs2[i], hs2[i - 1], i)
  <2>1. CASE i = n + 1
    <3>1. hs2[i] = g /\ hs2[i - 1] = hs[n]
      BY <1>4, <2>1
    <3> QED
      BY <2>1, <3>1
  <2>2. CASE i # n + 1
    <3>1. i \in 1..n /\ i - 1 \in 0..n /\ i \in 0..n
      BY <2>2
    <3>2. hs2[i] = hs[i] /\ hs2[i - 1] = hs[i - 1] /\ es2[i] = es[i]
      BY <1>0, <1>4, <3>1
    <3>3. Follows(es, hs[i], hs[i - 1], i)
      BY <1>0, <3>1 DEF Explains
    <3>4. hs[i - 1] \in Seq(1..n)
      BY <1>1, <3>1
    <3>5. hs[i - 1] # <<>> => hs[i - 1][Len(hs[i - 1])] \in 1..n
      BY <3>4, PoppedOff
    <3>6. hs[i - 1] # <<>> => es2[hs[i - 1][Len(hs[i - 1])]] = es[hs[i - 1][Len(hs[i - 1])]]
      BY <1>0, <3>5
    <3> QED
      BY <3>2, <3>3, <3>6 DEF Follows
  <2> QED
    BY <2>1, <2>2
<1>6. Explains(hs2, es2)
  BY <1>0, <1>3, <1>5 DEF Explains
<1> QED
  BY <1>4, <1>6

\* What is said of a list of statements depends on these statements only.
LEMMA OldList ==
  ASSUME NEW k, NEW es, NEW es2, NEW n \in Nat, Extended(es, es2, n),
         NEW h \in Seq(1..n), NEW l \in 0..Len(h)
  PROVE  /\ \A j \in 1..Len(h) : es2[h[j]] = es[h[j]]
         /\ \A j : Innermost(k, es2, h, l, j) <=> Innermost(k, es, h, l, j)
         /\ \A c : EnclosedBy(k, es2, h, l, c) <=> EnclosedBy(k, es, h, l, c)
<1>0. Len(h) \in Nat
  BY LenProperties
<1>1. \A j \in 1..Len(h) : h[j] \in 1..n
  BY ElementOfSeq
<1>2. \A j \in 1..Len(h) : es2[h[j]] = es[h[j]]
  BY <1>1 DEF Extended
<1>3. \A j \in 1..l : j \in 1..Len(h) /\ \A m \in j + 1..l : m \in 1..Len(h)
  BY <1>0
<1>4. \A j : Innermost(k, es2, h, l, j) <=> Innermost(k, es, h, l, j)
  BY <1>2, <1>3 DEF Innermost, IsA
<1>5. \A c : EnclosedBy(k, es2, h, l, c) <=> EnclosedBy(k, es, h, l, c)
  BY <1>2, <1>3, <1>4 DEF EnclosedBy, IsA
<1> QED
  BY <1>2, <1>4, <1>5

LEMMA HistoryStep ==
  ASSUME RInv, NEW hs, Tracked(hs), pos \in 0..Len(events), NEW n \in Nat, Extended(events, events', n),
         NEW g \in Seq(1..n + 1), Follows(events', g, hs[n], n + 1),
         SameFrames(events', g, frames'), errors \subseteq errors',
         errors' = {} /\ events'[n + 1].kind = "this" =>
           \E j \in 1..Len(hs[n]) :
             /\ Innermost("class", events, hs[n], Len(hs[n]), j)
             /\ events'[n + 1].bound = <<events[hs[n][j]].id, "this">>,
         UNCHANGED <<pos, open, enclosing_class>>
  PROVE  \E hs2 : Tracked(hs2)'
<1>0. /\ n = Len(events) /\ Len(events') = n + 1
      /\ \A i \in 1..n : events'[i] = events[i]
  BY DEF Extended
<1>1. Explains(hs, events) /\ pos \in 0..n
  BY <1>0 DEF Tracked, History
<1>2. PICK hs2 : /\ Explains(hs2, events') /\ hs2[n + 1] = g
                 /\ \A i \in 0..n : hs2[i] = hs[i]
  <2>1. PICK es2 : es2 = events' /\ Extended(events, es2, n)
    OBVIOUS
  <2> QED
    BY <1>1, <2>1, HistoryGrows
<1>3. \A i \in 0..n : hs[i] \in Seq(1..n) /\ Len(hs[i]) \in Nat
  <2>1. \A i \in 0..n : hs[i] \in Seq(1..n)
    BY <1>0, <1>1 DEF Explains
  <2> QED
    BY <2>1, LenProperties
<1>4. ASSUME NEW i \in 0..n
      PROVE  /\ \A j \in 1..Len(hs[i]) : events'[hs[i][j]] = events[hs[i][j]]
             /\ \A l \in 0..Len(hs[i]) :
                  /\ \A j : Innermost("class", events', hs[i], l, j) <=> Innermost("class", events, hs[i], l, j)
                  /\ \A c : EnclosedBy("class", events', hs[i], l, c) <=> EnclosedBy("class", events, hs[i], l, c)
  <2>1. PICK h : h = hs[i] /\ h \in Seq(1..n) /\ 0 \in 0..Len(h)
    <3>1. PICK h : h = hs[i]
      OBVIOUS
    <3>2. h \in Seq(1..n) /\ Len(h) \in Nat
      BY <1>3, <3>1
    <3>3. 0 \in 0..Len(h)
      BY <3>2
    <3> QED
      BY <3>1, <3>2, <3>3
  <2>2. \A j \in 1..Len(h) : events'[h[j]] = events[h[j]]
    <3>1. \A j \in 1..Len(h) : h[j] \in 1..n
      BY <2>1, ElementOfSeq
    <3> QED
      BY <1>0, <3>1
  <2>3. ASSUME NEW l \in 0..Len(h)
        PROVE  /\ \A j : Innermost("class", events', h, l, j) <=> Innermost("class", events, h, l, j)
               /\ \A c : EnclosedBy("class", events', h, l, c) <=> EnclosedBy("class", events, h, l, c)
    BY <2>1, OldList
  <2> QED
    BY <2>1, <2>2, <2>3
<1>5. ASSUME errors' = {}
      PROVE  ThisBound(events', hs2)
  <2> SUFFICES ASSUME NEW i \in 1..n + 1, events'[i].kind = "this"
               PROVE  \E j \in 1..Len(hs2[i - 1]) :
                        /\ Innermost("class", events', hs2[i - 1], Len(hs2[i - 1]), j)
                        /\ events'[i].bound = <<events'[hs2[i - 1][j]].id, "this">>
    BY <1>0 DEF ThisBound
  <2>1. i - 1 \in 0..n /\ hs2[i - 1] = hs[i - 1]
    BY <1>2
  <2>2. PICK h : h = hs[i - 1] /\ Len(h) \in Nat /\ Len(h) \in 0..Len(h)
    BY <1>3, <2>1
  <2>3. PICK j \in 1..Len(h) : /\ Innermost("class", events, h, Len(h), j)
                              /\ events'[i].bound = <<events[h[j]].id, "this">>
    <3>1. CASE i = n + 1
      BY <1>5, <2>2, <3>1
    <3>2. CASE i # n + 1
      <4>1. i \in 1..n /\ events'[i] = events[i] /\ errors = {}
        BY <1>0, <1>5, <3>2
      <4>2. ThisBound(events, hs)
        BY <4>1 DEF Tracked, History
      <4> QED
        BY <1>0, <2>2, <4>1, <4>2 DEF ThisBound
    <3> QED
      BY <3>1, <3>2
  <2>4. events'[h[j]] = events[h[j]] /\ Innermost("class", events', h, Len(h), j)
    BY <1>4, <2>1, <2>2, <2>3
  <2> QED
    BY <2>1, <2>2, <2>3, <2>4
<1>6. History(hs2)'
  BY <1>0, <1>2, <1>5 DEF History
<1>7. SameOpen("class", events', hs2[pos], open, enclosing_class)
  <2>1. PICK h : h = hs[pos] /\ Len(h) \in Nat /\ hs2[pos] = h
    BY <1>1, <1>2, <1>3
  <2>2. SameOpen("class", events, h, open, enclosing_class)
    BY <2>1 DEF Tracked
  <2>3. \A j \in 1..Len(h) : events'[h[j]] = events[h[j]]
    BY <1>1, <1>4, <2>1
  <2>4. ASSUME NEW l \in 0..Len(h), NEW c
        PROVE  EnclosedBy("class", events', h, l, c) <=> EnclosedBy("class", events, h, l, c)
    BY <1>1, <1>4, <2>1
  <2>5. \A j \in 1..Len(h) : j - 1 \in 0..Len(h)
    BY <2>1
  <2>6. Len(h) \in 0..Len(h)
    BY <2>1
  <2> QED
    BY <2>1, <2>2, <2>3, <2>4, <2>5, <2>6 DEF SameOpen
<1> QED
  BY <1>6, <1>7 DEF Tracked

\* The three kinds of events the Resolver records.
LEMMA TEntering ==
  ASSUME RInv, TInv, NEW k \in Kinds, NEW n \in Names \cup {NoName}, NEW params \in Seq(Names),
         Visit(k, n), Push(k, n), Record(k, n, params, None), errors \subseteq errors',
         NEW tt, ThisKept(scopes, tt), NEW t \in Tables,
         k = "class" => "this" \in DOMAIN t /\ t["this"].decl = <<Id, "this">>,
         k # "var" => scopes' = Append(tt, t), k = "var" => scopes' = tt,
         stage = "resolver", UNCHANGED <<stage, pos, open, enclosing_class>>
  PROVE  TInv'
<1>1. /\ Shapes /\ Nested(frames, scopes) /\ next' \in Int
      /\ None \in Int \X {"name", "param", "this", NoName}
      /\ k \in Kinds \cup Refs \cup {"return", "exit", "endvar"}
  BY Visited DEF RInv, None
<1>2. PICK l \in Nat : l = Len(events)
  BY Visited DEF RInv
<1>3. /\ events' \in Seq(Events) /\ Len(events') = l + 1
      /\ \A i \in 1..l : events'[i] = events[i]
      /\ events'[l + 1].kind = k /\ events'[l + 1].id = Id
  <2>1. /\ events' \in Seq(Events) /\ Len(events') = l + 1
        /\ \A i \in 1..l : events'[i] = events[i]
        /\ events'[l + 1] = [kind |-> k, id |-> Id, name |-> n, params |-> params,
                             bound |-> None, within |-> WithinId]
    BY <1>1, <1>2, Recorded
  <2> QED
    BY <2>1
<1>4. PICK m \in Nat : m = Len(frames) /\ (k # "var" => Depth(frames) = m)
                       /\ (k # "var" => Len(scopes) = m + 1)
  <2>1. frames = <<>> \/ Last(frames).kind # "var"
    BY Visited DEF RInv, Kinds, Scoped, Refs
  <2> QED
    BY <1>1, <2>1, Depths DEF Nested
<1>5. PICK f : f.kind = k /\ f.id = Id /\ frames' = Append(frames, f)
  BY DEF Push
<1>6. frames \in Seq(Frames) /\ IsList(frames)
  BY <1>1, ListOf DEF Nested
<1>7. /\ Len(frames') = m + 1 /\ frames'[m + 1] = f
      /\ \A j \in 1..m : frames'[j] = frames[j]
  BY <1>4, <1>5, <1>6, Appended
<1>8. ThisMeans(frames', scopes')
  <2> SUFFICES ASSUME NEW j \in 1..m + 1, frames'[j].kind = "class"
               PROVE  /\ "this" \in DOMAIN scopes'[j + 1]
                      /\ scopes'[j + 1]["this"].decl = <<frames'[j].id, "this">>
    BY <1>7 DEF ThisMeans
  <2>1. CASE k = "var"
    <3>1. j \in 1..m /\ frames'[j] = frames[j] /\ scopes' = tt
      BY <1>5, <1>7, <2>1
    <3>2. "this" \in DOMAIN scopes[j + 1] /\ scopes[j + 1]["this"].decl = <<frames[j].id, "this">>
      BY <1>4, <3>1 DEF TInv, ThisMeans
    <3>3. j + 1 \in 1..Len(scopes)
      <4>1. Len(scopes) = Len(frames) + 1
        <5>1. frames = <<>> \/ Last(frames).kind # "var"
          BY Visited DEF RInv, Kinds, Scoped, Refs
        <5>2. Depth(frames) = Len(frames)
          BY <1>1, <5>1, Depths
        <5> QED
          BY <1>1, <5>2 DEF Nested
      <4> QED
        BY <1>4, <3>1, <4>1
    <3> QED
      BY <3>1, <3>2, <3>3 DEF ThisKept
  <2>2. CASE k # "var"
    <3>1. tt \in Seq(Tables) /\ Len(tt) = m + 1 /\ Len(scopes) = m + 1
      BY <1>4, <2>2 DEF ThisKept
    <3>2. scopes'[m + 2] = t /\ \A i \in 1..m + 1 : scopes'[i] = tt[i]
      <4>1. scopes'[m + 1 + 1] = t /\ \A i \in 1..m + 1 : scopes'[i] = tt[i]
        BY <2>2, <3>1, PushedAs
      <4> QED
        BY <4>1
    <3>3. CASE j = m + 1
      BY <1>5, <1>7, <3>2, <3>3
    <3>4. CASE j # m + 1
      <4>1. j \in 1..m /\ j + 1 \in 1..m + 1 /\ frames'[j] = frames[j]
        BY <1>7, <3>4
      <4>2. "this" \in DOMAIN scopes[j + 1] /\ scopes[j + 1]["this"].decl = <<frames[j].id, "this">>
        BY <1>4, <4>1 DEF TInv, ThisMeans
      <4> QED
        BY <3>1, <3>2, <4>1, <4>2 DEF ThisKept
    <3> QED
      BY <3>3, <3>4
  <2> QED
    BY <2>1, <2>2
<1>9. PICK hs : Tracked(hs)
  BY DEF TInv
<1>10. PICK h : h = hs[l] /\ h \in Seq(1..l) /\ SameFrames(events, h, frames)
  BY <1>2, <1>9 DEF Tracked, History, Explains
<1>11. h \in Seq(1..l + 1) /\ Len(h) = m
  <2>1. 1..l \subseteq 1..l + 1
    OBVIOUS
  <2> QED
    BY <1>4, <1>10, <2>1, SeqMonotonic DEF SameFrames
<1>12. PICK g : g = Append(h, l + 1)
  OBVIOUS
<1>13. /\ g \in Seq(1..l + 1) /\ Len(g) = m + 1 /\ g[m + 1] = l + 1
       /\ \A j \in 1..m : g[j] = h[j]
  BY <1>11, <1>12, PushedAs
<1>14. SameFrames(events', g, frames')
  <2>1. ASSUME NEW j \in 1..m + 1
        PROVE  frames'[j].kind = events'[g[j]].kind /\ frames'[j].id = events'[g[j]].id
    <3>1. CASE j = m + 1
      BY <1>3, <1>5, <1>7, <1>13, <3>1
    <3>2. CASE j # m + 1
      <4>1. j \in 1..m /\ h[j] \in 1..l
        BY <1>10, <1>11, <3>2, ElementOfSeq
      <4>2. frames'[j] = frames[j] /\ g[j] = h[j] /\ events'[h[j]] = events[h[j]]
        BY <1>3, <1>7, <1>13, <4>1
      <4>3. frames[j].kind = events[h[j]].kind /\ frames[j].id = events[h[j]].id
        BY <1>10, <1>11, <4>1 DEF SameFrames
      <4> QED
        BY <4>2, <4>3
    <3> QED
      BY <3>1, <3>2
  <2> QED
    BY <1>7, <1>13, <2>1 DEF SameFrames
<1>15. Follows(events', g, hs[l], l + 1)
  BY <1>3, <1>10, <1>12 DEF Follows
<1>16. events'[l + 1].kind # "this"
  BY <1>3 DEF Kinds, Scoped
<1>17. pos \in 0..Len(events)
  BY DEF TInv
<1>18. \E hs2 : Tracked(hs2)'
  <2>1. Extended(events, events', l)
    BY <1>1, <1>2, <1>3 DEF Extended, Shapes
  <2> QED
    BY <1>9, <1>13, <1>14, <1>15, <1>16, <1>17, <2>1, HistoryStep
<1>19. pos' \in 0..Len(events') /\ (stage' # "resolver" => errors' = {})
  BY <1>2, <1>3, <1>17
<1> QED
  BY <1>8, <1>18, <1>19 DEF TInv

LEMMA TEnding ==
  ASSUME RInv, TInv, frames # <<>>, NEW k \in {"exit", "endvar"}, k = "endvar" <=> Top.kind = "var",
         NEW n \in Names \cup {NoName}, NEW b \in Int \X {"name", "param", "this", NoName},
         Record(k, n, <<>>, b), frames' = Front(frames), next' = next, errors' = errors,
         Top.kind # "var" => scopes' = Front(scopes),
         Top.kind = "var" => ThisKept(scopes, scopes'),
         stage = "resolver", UNCHANGED <<stage, pos, open, enclosing_class>>
  PROVE  TInv'
<1>1. /\ Shapes /\ Nested(frames, scopes) /\ next' \in Int /\ <<>> \in Seq(Names)
      /\ k \in Kinds \cup Refs \cup {"return", "exit", "endvar"}
  BY EmptySeq, LenProperties DEF RInv, Shapes
<1>2. PICK l \in Nat : l = Len(events)
  BY LenProperties DEF RInv, Shapes
<1>3. /\ Extended(events, events', l)
      /\ events'[l + 1].kind = k
  <2>1. /\ events' \in Seq(Events) /\ Len(events') = l + 1
        /\ \A i \in 1..l : events'[i] = events[i]
        /\ events'[l + 1] = [kind |-> k, id |-> Id, name |-> n, params |-> <<>>,
                             bound |-> b, within |-> WithinId]
    BY <1>1, <1>2, Recorded
  <2> QED
    BY <1>1, <1>2, <2>1 DEF Extended, Shapes
<1>4. PICK m \in Nat : /\ m = Len(frames) - 1 /\ Len(frames) = m + 1 /\ Top = frames[m + 1]
                       /\ Top.kind = "var" => Len(scopes) = m + 1
                       /\ Top.kind # "var" => Len(scopes) = m + 2
  <2>1. Len(frames) \in Nat \ {0} /\ Top = frames[Len(frames)]
        /\ Len(scopes) = (IF Top.kind = "var" THEN Len(frames) - 1 ELSE Len(frames)) + 1
    BY <1>1, Depths DEF Nested, Top
  <2>2. PICK m \in Nat : m = Len(frames) - 1 /\ Len(frames) = m + 1
    BY <2>1
  <2>3. Top.kind = "var" => Len(scopes) = m + 1
    BY <2>1, <2>2
  <2>4. Top.kind # "var" => Len(scopes) = m + 2
    BY <2>1, <2>2
  <2> QED
    BY <2>1, <2>2, <2>3, <2>4
<1>5. /\ Len(frames') = m
      /\ \A j \in 1..m : frames'[j] = frames[j]
  <2>1. frames \in Seq(Frames)
    BY <1>1 DEF Nested
  <2>2. /\ Len(Front(frames)) = Len(frames) - 1
        /\ \A j \in 1..Len(frames) - 1 : Front(frames)[j] = frames[j]
    BY <2>1, PoppedOff
  <2> QED
    BY <1>4, <2>2
<1>6. /\ scopes \in Seq(Tables) /\ scopes # <<>>
      /\ \A j \in 1..m + 1 : "this" \in DOMAIN scopes[j] =>
           "this" \in DOMAIN scopes'[j] /\ scopes'[j]["this"] = scopes[j]["this"]
  <2>1. scopes \in Seq(Tables) /\ scopes # <<>>
    BY <1>1, Depths DEF Nested
  <2>2. CASE Top.kind = "var"
    BY <1>4, <2>1, <2>2 DEF ThisKept
  <2>3. CASE Top.kind # "var"
    <3>1. \A j \in 1..Len(scopes) - 1 : Front(scopes)[j] = scopes[j]
      BY <2>1, PoppedOff
    <3>2. Len(scopes) - 1 = m + 1
      BY <1>4, <2>3
    <3> QED
      BY <2>1, <2>3, <3>1, <3>2
  <2> QED
    BY <2>1, <2>2, <2>3
<1>7. ThisMeans(frames', scopes')
  <2> SUFFICES ASSUME NEW j \in 1..m, frames'[j].kind = "class"
               PROVE  /\ "this" \in DOMAIN scopes'[j + 1]
                      /\ scopes'[j + 1]["this"].decl = <<frames'[j].id, "this">>
    BY <1>5 DEF ThisMeans
  <2>1. j \in 1..m + 1 /\ j + 1 \in 1..m + 1 /\ frames'[j] = frames[j]
    BY <1>5
  <2>2. "this" \in DOMAIN scopes[j + 1] /\ scopes[j + 1]["this"].decl = <<frames[j].id, "this">>
    BY <1>4, <2>1 DEF TInv, ThisMeans
  <2> QED
    BY <1>6, <2>1, <2>2
<1>8. PICK hs : Tracked(hs)
  BY DEF TInv
<1>9. PICK h : h = hs[l] /\ h \in Seq(1..l) /\ SameFrames(events, h, frames)
  BY <1>2, <1>8 DEF Tracked, History, Explains
<1>10. Len(h) = m + 1 /\ m = Len(h) - 1 /\ h # <<>>
  <2>1. Len(h) = m + 1
    BY <1>4, <1>9 DEF SameFrames
  <2>2. Len(h) # 0 /\ m = Len(h) - 1
    BY <2>1
  <2> QED
    BY <2>1, <2>2, EmptySeq
<1>11. PICK g : g = Front(h)
  OBVIOUS
<1>12. /\ g \in Seq(1..l) /\ Len(g) = m /\ h[m + 1] \in 1..l
       /\ \A j \in 1..m : g[j] = h[j]
  <2>1. PICK S : S = 1..l /\ h \in Seq(S)
    BY <1>9
  <2>2. /\ Front(h) \in Seq(S) /\ Last(h) \in S /\ Last(h) = h[Len(h)]
        /\ Len(Front(h)) = Len(h) - 1
        /\ \A j \in 1..Len(h) - 1 : Front(h)[j] = h[j]
    BY <1>10, <2>1, PoppedOff
  <2> QED
    BY <1>10, <1>11, <2>1, <2>2
<1>13. g \in Seq(1..l + 1)
  <2>1. 1..l \subseteq 1..l + 1
    OBVIOUS
  <2> QED
    BY <1>12, <2>1, SeqMonotonic
<1>14. SameFrames(events', g, frames')
  <2>1. ASSUME NEW j \in 1..m
        PROVE  frames'[j].kind = events'[g[j]].kind /\ frames'[j].id = events'[g[j]].id
    <3>1. j \in 1..m + 1 /\ h[j] \in 1..l
      BY <1>9, <1>10, ElementOfSeq
    <3>2. frames'[j] = frames[j] /\ g[j] = h[j] /\ events'[h[j]] = events[h[j]]
      BY <1>3, <1>5, <1>12, <3>1 DEF Extended
    <3>3. frames[j].kind = events[h[j]].kind /\ frames[j].id = events[h[j]].id
      BY <1>9, <1>10, <3>1 DEF SameFrames
    <3> QED
      BY <3>2, <3>3
  <2> QED
    BY <1>5, <1>12, <2>1 DEF SameFrames
<1>15. Follows(events', g, hs[l], l + 1)
  <2>1. m + 1 \in 1..m + 1 /\ Top.kind = events[h[m + 1]].kind
    BY <1>4, <1>9, <1>10 DEF SameFrames
  <2>2. events'[h[m + 1]] = events[h[m + 1]]
    BY <1>3, <1>12 DEF Extended
  <2> QED
    BY <1>3, <1>9, <1>10, <1>11, <2>1, <2>2 DEF Follows
<1>16. pos \in 0..Len(events)
  BY DEF TInv
<1>17. \E hs2 : Tracked(hs2)'
  BY <1>3, <1>8, <1>13, <1>14, <1>15, <1>16, HistoryStep
<1>18. pos' \in 0..Len(events') /\ (stage' # "resolver" => errors' = {})
  BY <1>2, <1>3, <1>16 DEF Extended
<1> QED
  BY <1>7, <1>17, <1>18 DEF TInv

LEMMA TReferring ==
  ASSUME RInv, TInv, NEW k \in Refs \cup {"return"}, NEW n \in Names \cup {NoName},
         NEW b \in Int \X {"name", "param", "this", NoName},
         Visit(k, n), Record(k, n, <<>>, b), errors \subseteq errors',
         UNCHANGED <<scopes, frames>>,
         k = "this" /\ errors' = {} => b = Bound("this") /\ ResolveLocal(scopes, "this") # 0,
         stage = "resolver", UNCHANGED <<stage, pos, open, enclosing_class>>
  PROVE  TInv'
<1>1. /\ Shapes /\ Nested(frames, scopes) /\ next' \in Int /\ <<>> \in Seq(Names)
      /\ k \in Kinds \cup Refs \cup {"return", "exit", "endvar"}
  BY EmptySeq, Visited DEF RInv
<1>2. PICK l \in Nat : l = Len(events)
  BY LenProperties DEF RInv, Shapes
<1>3. /\ Extended(events, events', l)
      /\ events'[l + 1].kind = k /\ events'[l + 1].bound = b
  <2>1. /\ events' \in Seq(Events) /\ Len(events') = l + 1
        /\ \A i \in 1..l : events'[i] = events[i]
        /\ events'[l + 1] = [kind |-> k, id |-> Id, name |-> n, params |-> <<>>,
                             bound |-> b, within |-> WithinId]
    BY <1>1, <1>2, Recorded
  <2> QED
    BY <1>1, <1>2, <2>1 DEF Extended, Shapes
<1>4. ThisMeans(frames', scopes')
  BY DEF TInv
<1>5. PICK hs : Tracked(hs)
  BY DEF TInv
<1>6. PICK h : h = hs[l] /\ h \in Seq(1..l) /\ SameFrames(events, h, frames)
  BY <1>2, <1>5 DEF Tracked, History, Explains
<1>7. h \in Seq(1..l + 1) /\ Len(h) \in Nat /\ Len(h) = Len(frames)
  <2>1. 1..l \subseteq 1..l + 1
    OBVIOUS
  <2> QED
    BY <1>6, <2>1, SeqMonotonic, LenProperties DEF SameFrames
<1>8. SameFrames(events', h, frames')
  <2>1. ASSUME NEW j \in 1..Len(h)
        PROVE  frames'[j].kind = events'[h[j]].kind /\ frames'[j].id = events'[h[j]].id
    <3>1. h[j] \in 1..l
      BY <1>6, ElementOfSeq
    <3>2. frames' = frames /\ events'[h[j]] = events[h[j]]
      BY <1>3, <3>1 DEF Extended
    <3>3. frames[j].kind = events[h[j]].kind /\ frames[j].id = events[h[j]].id
      BY <1>6 DEF SameFrames
    <3> QED
      BY <3>2, <3>3
  <2> QED
    BY <1>7, <2>1 DEF SameFrames
<1>9. Follows(events', h, hs[l], l + 1)
  BY <1>3, <1>6 DEF Follows
<1>10. ASSUME errors' = {}, k = "this"
       PROVE  \E j \in 1..Len(h) : /\ Innermost("class", events, h, Len(h), j)
                                   /\ b = <<events[h[j]].id, "this">>
  <2>1. PICK i : i = ResolveLocal(scopes, "this") /\ i # 0 /\ b = scopes[i]["this"].decl
    BY <1>10 DEF Bound
  <2>2. scopes \in Seq(Tables) /\ Len(scopes) = Depth(frames) + 1
    BY <1>1 DEF Nested
  <2>3. /\ i \in 1..Len(scopes) /\ "this" \in DOMAIN scopes[i]
        /\ \A j \in i + 1..Len(scopes) : "this" \notin DOMAIN scopes[j]
    BY <2>1, <2>2, Resolved
  <2>4. i > 1 /\ frames[i - 1].kind = "class"
    BY <1>1, <2>3 DEF Nested
  <2>5. Len(frames) \in Nat /\ Depth(frames) \in Nat /\ Depth(frames) <= Len(frames)
    BY <1>1, <1>7, Depths DEF Depth
  <2>6. PICK j \in 1..Len(h) : i = j + 1
    <3>1. i - 1 \in 1..Len(h) /\ i = (i - 1) + 1
      BY <1>7, <2>2, <2>3, <2>4, <2>5
    <3> QED
      BY <3>1
  <2>7. frames[j].kind = "class"
    BY <2>4, <2>6
  <2>8. b = <<frames[j].id, "this">>
    BY <1>7, <2>1, <2>6, <2>7 DEF TInv, ThisMeans
  <2>9. ASSUME NEW m \in j + 1..Len(h)
        PROVE  ~IsA("class", events, h, m)
    <3>0. m \in 1..Len(h)
      BY <1>7, <2>6, <2>9
    <3>1. m \in 1..Len(h) /\ frames[m].kind = events[h[m]].kind
      BY <1>6, <3>0 DEF SameFrames
    <3>2. ASSUME frames[m].kind = "class" PROVE FALSE
      <4>1. "this" \in DOMAIN scopes[m + 1]
        BY <1>7, <3>1, <3>2 DEF TInv, ThisMeans
      <4>2. m + 1 \in i + 1..Len(scopes)
        <5>1. Depth(frames) = Len(frames) \/ (Depth(frames) = Len(frames) - 1 /\ m # Len(frames))
          <6>1. frames # <<>>
            BY <1>7, <3>1, EmptySeq
          <6> QED
            BY <1>1, <3>2, <6>1, Depths
        <5> QED
          BY <1>7, <2>2, <2>5, <2>6, <3>1, <5>1
      <4> QED
        BY <2>3, <4>1, <4>2
    <3> QED
      BY <3>1, <3>2 DEF IsA
  <2>10. IsA("class", events, h, j) /\ frames[j].id = events[h[j]].id
    BY <1>6, <2>7 DEF SameFrames, IsA
  <2> QED
    BY <2>8, <2>9, <2>10 DEF Innermost
<1>11. pos \in 0..Len(events)
  BY DEF TInv
<1>12. \E hs2 : Tracked(hs2)'
  BY <1>3, <1>5, <1>6, <1>7, <1>8, <1>9, <1>10, <1>11, HistoryStep
<1>13. pos' \in 0..Len(events') /\ (stage' # "resolver" => errors' = {})
  BY <1>2, <1>3, <1>11 DEF Extended
<1> QED
  BY <1>4, <1>12, <1>13 DEF TInv

LEMMA TStep ==
  ASSUME RInv, TInv, Resolve, stage = "resolver", UNCHANGED <<stage, pos, open, enclosing_class>>
  PROVE  TInv'
<1>0. /\ scopes \in Seq(Tables) /\ scopes # <<>> /\ <<>> \in Seq(Names)
      /\ frames # <<>> => Top \in Frames
  BY Depths, EmptySeq DEF RInv, Nested, Top
<1>s. ThisKept(scopes, scopes)
  BY <1>0 DEF ThisKept
<1>d. ASSUME NEW n \in Names, NEW k, Visit(k, n)
      PROVE  /\ ThisKept(scopes, Define(scopes, n, <<Id, "name">>))
             /\ ThisKept(scopes, Declare(scopes, n, <<Id, "name">>).ss)
             /\ Id \in Int
  <2>1. PICK d : d = <<Id, "name">>
    OBVIOUS
  <2>2. Id \in Int
    BY <1>d, Visited DEF RInv
  <2>3. d \in Decls
    BY <2>1, <2>2 DEF Decls
  <2>4. ThisKept(scopes, Add(scopes, n, d, TRUE)) /\ ThisKept(scopes, Declare(scopes, n, d).ss)
    BY <1>0, <2>3, ThisIsKept
  <2> QED
    BY <2>1, <2>2, <2>4 DEF Define
<1>u. ASSUME UNCHANGED <<events, frames>>, errors \subseteq errors', scopes' = scopes \/ frames = <<>>
      PROVE  TInv'
  <2>1. ThisMeans(frames', scopes')
    <3>1. frames = <<>> => Len(frames) = 0
      BY EmptySeq
    <3> QED
      BY <1>u, <3>1 DEF TInv, ThisMeans
  <2>2. PICK hs : Tracked(hs)
    BY DEF TInv
  <2>3. Tracked(hs)'
    BY <1>u, <2>2 DEF Tracked, History
  <2> QED
    BY <1>u, <2>1, <2>3 DEF TInv
<1>1. CASE \E k \in TopKinds : \E n \in NamesFor(k) : DeclareTop(k, n)
  <2>1. frames = <<>>
    BY <1>1 DEF DeclareTop, RInv, Shapes
  <2>2. UNCHANGED <<events, frames>> /\ errors \subseteq errors'
    BY <1>1, KindsKnown DEF DeclareTop
  <2> QED
    BY <1>u, <2>1, <2>2
<1>2. CASE StartResolving \/ FinishResolving
  BY <1>2, <1>u DEF StartResolving, FinishResolving
<1>3. ASSUME NEW n \in Names, EnterClass(n)
      PROVE  TInv'
  <2>1. /\ Visit("class", n) /\ Push("class", n) /\ Record("class", n, <<>>, None)
        /\ errors' = errors
    BY <1>3 DEF EnterClass
  <2>2. PICK t : t = [x \in {"this"} |-> Entry(<<Id, "this">>, TRUE)]
    OBVIOUS
  <2>3. t \in Tables
    <3>1. Entry(<<Id, "this">>, TRUE) \in Entries
      BY <1>d, <2>1 DEF Entry, Entries, Decls
    <3> QED
      BY <2>2, <3>1, TableOf
  <2>4. "this" \in DOMAIN t /\ t["this"].decl = <<Id, "this">>
    BY <2>2 DEF Entry
  <2>5. PICK tt : tt = Define(scopes, n, <<Id, "name">>) /\ ThisKept(scopes, tt)
    BY <1>d, <2>1
  <2>6. "class" \in Kinds /\ "class" # "var"
    BY DEF Kinds, Scoped
  <2>7. scopes' = Append(tt, t)
    BY <1>3, <2>2, <2>5 DEF EnterClass
  <2> QED
    BY <1>0, <2>1, <2>3, <2>4, <2>5, <2>6, <2>7, TEntering
<1>4. ASSUME NEW n \in Names, DeclareVar(n)
      PROVE  TInv'
  <2>1. /\ Visit("var", n) /\ Push("var", n) /\ Record("var", n, <<>>, None)
        /\ errors \subseteq errors'
    BY <1>4 DEF DeclareVar
  <2>2. PICK tt : tt = Declare(scopes, n, <<Id, "name">>).ss /\ ThisKept(scopes, tt)
    BY <1>d, <2>1
  <2>3. scopes' = tt
    BY <1>4, <2>2 DEF DeclareVar
  <2>4. "var" \in Kinds /\ <<>> \in Tables
    <3>1. DOMAIN <<>> = {} /\ <<>> = [m \in {} |-> <<>>[m]]
      OBVIOUS
    <3> QED
      BY <3>1, TableOf DEF Kinds
  <2> QED
    BY <1>0, <2>1, <2>2, <2>3, <2>4, TEntering
<1>5. ASSUME NEW n \in Names, NEW ps \in BoundedSeq(Names, MaxParams), EnterFunction(n, ps)
      PROVE  TInv'
  <2>1. /\ Visit("func", n) /\ Push("func", n) /\ Record("func", n, ps, None)
        /\ errors \subseteq errors'
    BY <1>5 DEF EnterFunction
  <2>2. ps \in Seq(Names) /\ Params(ps) \in Tables
    BY <1>d, <2>1, Parameters
  <2>3. PICK tt : /\ ThisKept(scopes, tt)
                  /\ tt = IF Within = "class" THEN scopes ELSE Define(scopes, n, <<Id, "name">>)
    BY <1>d, <1>s, <2>1
  <2>4. scopes' = Append(tt, Params(ps))
    BY <1>5, <2>3 DEF EnterFunction
  <2>5. "func" \in Kinds /\ "func" # "var"
    BY DEF Kinds, Scoped
  <2> QED
    BY <1>0, <2>1, <2>2, <2>3, <2>4, <2>5, TEntering
<1>6. CASE EnterBlock
  <2>1. /\ Visit("block", NoName) /\ Push("block", NoName) /\ Record("block", NoName, <<>>, None)
        /\ errors' = errors /\ scopes' = Append(scopes, <<>>)
    BY <1>6 DEF EnterBlock
  <2>2. "block" \in Kinds /\ "block" # "var" /\ NoName \in Names \cup {NoName}
    BY DEF Kinds, Scoped
  <2>3. PICK t : t = <<>> /\ t \in Tables
    <3>1. DOMAIN <<>> = {} /\ <<>> = [m \in {} |-> <<>>[m]]
      OBVIOUS
    <3> QED
      BY <3>1, TableOf
  <2>4. scopes' = Append(scopes, t)
    BY <2>1, <2>3
  <2> QED
    BY <1>0, <1>s, <2>1, <2>2, <2>3, <2>4, TEntering
<1>7. CASE Leave
  <2>1. /\ frames # <<>> /\ Top.kind \in Scoped
        /\ scopes' = Front(scopes) /\ Record("exit", Top.name, <<>>, None)
        /\ frames' = Front(frames) /\ UNCHANGED <<next, errors>>
    BY <1>7 DEF Leave, Within, Scoped
  <2>2. /\ Top.name \in Names \cup {NoName} /\ Top.kind # "var"
        /\ None \in Int \X {"name", "param", "this", NoName}
    BY <1>0, <2>1 DEF Frames, Scoped, None
  <2> QED
    BY <2>1, <2>2, TEnding
<1>8. CASE DefineVar
  <2>1. /\ frames # <<>> /\ Top.kind = "var"
        /\ scopes' = Define(scopes, Top.name, <<Top.id, "name">>)
        /\ Record("endvar", Top.name, <<>>, <<Top.id, "name">>)
        /\ frames' = Front(frames) /\ UNCHANGED <<next, errors>>
    BY <1>8 DEF DefineVar, Within
  <2>2. PICK d : d = <<Top.id, "name">>
    OBVIOUS
  <2>3. /\ d \in Decls /\ d \in Int \X {"name", "param", "this", NoName}
        /\ Top.name \in Names
    BY <1>0, <2>1, <2>2 DEF Frames, Decls
  <2>4. ThisKept(scopes, scopes')
    BY <1>0, <2>1, <2>2, <2>3, ThisIsKept DEF Define
  <2> QED
    BY <2>1, <2>2, <2>3, <2>4, TEnding
<1>9. ASSUME NEW n \in Names, Variable(n)
      PROVE  TInv'
  <2>1. /\ Visit("use", n) /\ Record("use", n, <<>>, Bound(n)) /\ errors \subseteq errors'
        /\ UNCHANGED <<scopes, frames>>
    BY <1>9 DEF Variable
  <2>2. Bound(n) \in Int \X {"name", "param", "this", NoName} /\ "use" \in Refs
    BY BoundTyped DEF RInv, Refs
  <2> QED
    BY <2>1, <2>2, TReferring
<1>10. ASSUME NEW n \in Names, Assignment(n)
       PROVE  TInv'
  <2>1. /\ Visit("assign", n) /\ Record("assign", n, <<>>, Bound(n)) /\ errors \subseteq errors'
        /\ UNCHANGED <<scopes, frames>>
    BY <1>10 DEF Assignment
  <2>2. Bound(n) \in Int \X {"name", "param", "this", NoName} /\ "assign" \in Refs
    BY BoundTyped DEF RInv, Refs
  <2> QED
    BY <2>1, <2>2, TReferring
<1>11. CASE This
  <2>1. /\ Visit("this", NoName) /\ Record("this", NoName, <<>>, Bound("this"))
        /\ errors \subseteq errors' /\ UNCHANGED <<scopes, frames>>
    BY <1>11 DEF This
  <2>2. Bound("this") \in Int \X {"name", "param", "this", NoName} /\ "this" \in Refs
    BY BoundTyped DEF RInv, Refs
  <2>3. errors' = {} => ResolveLocal(scopes, "this") # 0
    BY <1>11 DEF This, ThisErrors, Undeclared
  <2> QED
    BY <2>1, <2>2, <2>3, TReferring
<1>12. CASE ReturnStmt
  <2>1. /\ Visit("return", NoName) /\ Record("return", NoName, <<>>, None)
        /\ errors \subseteq errors' /\ UNCHANGED <<scopes, frames>>
    BY <1>12 DEF ReturnStmt
  <2>2. None \in Int \X {"name", "param", "this", NoName}
    BY DEF None
  <2> QED
    BY <2>1, <2>2, TReferring
<1>i. CASE InIndex
  <2>1. PICK k \in Refs, n \in Names \cup {NoName} :
          /\ k \notin {"use", "assign", "this", "return"}
          /\ Visit(k, n) /\ Record(k, n, <<>>, None)
          /\ None \in Int \X {"name", "param", "this", NoName}
          /\ errors' = errors /\ errors \subseteq errors'
          /\ UNCHANGED <<scopes, current_class, current_function, frames>>
    BY <1>i, IndexedRefers
  <2> QED
    BY <2>1, TReferring
<1> QED
  BY <1>1, <1>2, <1>3, <1>4, <1>5, <1>6, <1>7, <1>8, <1>9, <1>10, <1>11, <1>12, <1>i, IndexedKinds
  DEF Resolve

-----------------------------------------------------------------------------
(* The TypeChecker. *)

\* The class around the first n statements of a list depends on these only.
LEMMA SamePart ==
  ASSUME NEW k, NEW es, NEW h, NEW g, NEW n \in Nat, \A j \in 1..n : g[j] = h[j], NEW l \in 0..n, NEW c
  PROVE  EnclosedBy(k, es, g, l, c) <=> EnclosedBy(k, es, h, l, c)
<1>1. \A j \in 1..l : g[j] = h[j] /\ \A m \in j + 1..l : g[m] = h[m]
  OBVIOUS
<1> QED
  BY <1>1 DEF EnclosedBy, Innermost, IsA

LEMMA AppendedAs ==
  ASSUME NEW t, IsList(t), NEW n, n = Len(t), NEW e
  PROVE  /\ n \in Nat /\ IsList(Append(t, e)) /\ Len(Append(t, e)) = n + 1
         /\ Append(t, e)[n + 1] = e /\ \A i \in 1..n : Append(t, e)[i] = t[i]
<1>1. PICK u : u = Append(t, e)
  OBVIOUS
<1>2. IsList(u)
  BY <1>1, Appended
<1>3. n \in Nat
  BY ListLength
<1>4. u[Len(u)] = e /\ Len(u) = Len(t) + 1
  BY <1>1, Appended
<1>5. \A i \in 1..Len(t) : u[i] = t[i]
  BY <1>1, Appended
<1> QED
  BY <1>1, <1>2, <1>3, <1>4, <1>5

LEMMA CPushed ==
  ASSUME NEW k, NEW es, NEW p \in Nat, NEW h, IsList(h), NEW g, g = Append(h, p), NEW op, NEW c,
         SameOpen(k, es, h, op, c), NEW f, f.kind = es[p].kind, Saved(k, f) = c, NEW op2,
         op2 = Append(op, f), NEW c2, c2 = IF es[p].kind = k THEN Meant(k, es[p]) ELSE c
  PROVE  SameOpen(k, es, g, op2, c2)
<1>1. PICK n \in Nat : n = Len(h) /\ n = Len(op) /\ IsList(op)
  BY ListLength DEF SameOpen
<1>2. Len(g) = n + 1 /\ g[n + 1] = p /\ \A j \in 1..n : g[j] = h[j]
  <2>1. IsList(h) /\ n = Len(h)
    BY <1>1
  <2>2. Len(g) = n + 1
    BY <2>1, AppendedAs
  <2>3. g[n + 1] = p
    BY <2>1, AppendedAs
  <2>4. \A j \in 1..n : g[j] = h[j]
    BY <2>1, AppendedAs
  <2> QED
    BY <2>2, <2>3, <2>4
<1>3. IsList(op2) /\ Len(op2) = n + 1 /\ op2[n + 1] = f /\ \A j \in 1..n : op2[j] = op[j]
  BY <1>1, AppendedAs
<1>4. \A l \in 0..n : \A d : EnclosedBy(k, es, g, l, d) <=> EnclosedBy(k, es, h, l, d)
  BY <1>2, SamePart
<1>5. EnclosedBy(k, es, h, n, c)
  BY <1>1 DEF SameOpen
<1>6. ASSUME NEW j \in 1..n + 1
      PROVE  op2[j].kind = es[g[j]].kind /\ EnclosedBy(k, es, g, j - 1, Saved(k, op2[j]))
  <2>1. CASE j = n + 1
    <3>1. op2[j].kind = es[g[j]].kind /\ Saved(k, op2[j]) = c
      BY <1>2, <1>3, <2>1
    <3>2. EnclosedBy(k, es, g, n, c)
      BY <1>4, <1>5
    <3>3. j - 1 = n
      BY <2>1
    <3> QED
      BY <3>1, <3>2, <3>3
  <2>2. CASE j # n + 1
    <3>1. j \in 1..n /\ j - 1 \in 0..n /\ op2[j] = op[j] /\ g[j] = h[j]
      BY <1>2, <1>3, <2>2
    <3>2. op[j].kind = es[h[j]].kind /\ EnclosedBy(k, es, h, j - 1, Saved(k, op[j]))
      BY <1>1, <3>1 DEF SameOpen
    <3> QED
      BY <1>4, <3>1, <3>2
  <2> QED
    BY <2>1, <2>2
<1>7. EnclosedBy(k, es, g, n + 1, c2)
  <2>1. CASE es[p].kind = k
    <3>1. Innermost(k, es, g, n + 1, n + 1)
      BY <1>2, <2>1 DEF Innermost, IsA
    <3>2. c2 = Meant(k, es[g[n + 1]]) /\ n + 1 \in 1..n + 1
      BY <1>2, <2>1
    <3>3. \E j \in 1..n + 1 : Innermost(k, es, g, n + 1, j) /\ c2 = Meant(k, es[g[j]])
      BY <3>1, <3>2
    <3> QED
      BY <3>3 DEF EnclosedBy
  <2>2. CASE es[p].kind # k
    <3>1. EnclosedBy(k, es, g, n, c) /\ c2 = c
      BY <1>4, <1>5, <2>2
    <3>2. ~IsA(k, es, g, n + 1)
      BY <1>2, <2>2 DEF IsA
    <3>3. CASE \E j \in 1..n : Innermost(k, es, g, n, j) /\ c = Meant(k, es[g[j]])
      <4>1. PICK j \in 1..n : Innermost(k, es, g, n, j) /\ c = Meant(k, es[g[j]])
        BY <3>3
      <4>2. Innermost(k, es, g, n + 1, j) /\ j \in 1..n + 1
        BY <3>2, <4>1 DEF Innermost
      <4>3. \E m \in 1..n + 1 : Innermost(k, es, g, n + 1, m) /\ c2 = Meant(k, es[g[m]])
        BY <3>1, <4>1, <4>2
      <4> QED
        BY <4>3 DEF EnclosedBy
    <3>4. CASE (\A j \in 1..n : ~IsA(k, es, g, j)) /\ c = Nothing(k)
      <4>1. \A j \in 1..n + 1 : ~IsA(k, es, g, j)
        BY <3>2, <3>4
      <4> QED
        BY <3>1, <3>4, <4>1 DEF EnclosedBy
    <3> QED
      BY <3>1, <3>3, <3>4 DEF EnclosedBy
  <2> QED
    BY <2>1, <2>2
<1> QED
  BY <1>2, <1>3, <1>6, <1>7 DEF SameOpen

LEMMA CPopped ==
  ASSUME NEW k, NEW es, NEW h, IsList(h), h # <<>>, NEW g, g = Front(h), NEW op, NEW c,
         SameOpen(k, es, h, op, c), NEW op2, op2 = Front(op), NEW c2,
         c2 = IF es[h[Len(h)]].kind = k THEN Saved(k, op[Len(h)]) ELSE c
  PROVE  SameOpen(k, es, g, op2, c2)
<1>1. /\ IsList(g) /\ Len(h) = Len(g) + 1 /\ Len(g) \in Nat
      /\ \A j \in 1..Len(g) : g[j] = h[j]
  BY Fronted, ListLength
<1>2. PICK n \in Nat : n = Len(g) /\ Len(h) = n + 1 /\ Len(op) = n + 1 /\ IsList(op)
  BY <1>1 DEF SameOpen
<1>3. op # <<>>
  BY <1>2, ListLength
<1>4. IsList(op2) /\ Len(op) = Len(op2) + 1 /\ \A j \in 1..Len(op2) : op2[j] = op[j]
  BY <1>2, <1>3, Fronted
<1>5. Len(op2) = n
  <2>1. Len(op2) \in Nat
    BY <1>4, ListLength
  <2> QED
    BY <1>2, <1>4, <2>1
<1>6. \A l \in 0..n : \A d : EnclosedBy(k, es, g, l, d) <=> EnclosedBy(k, es, h, l, d)
  BY <1>1, <1>2, SamePart
<1>7. ASSUME NEW j \in 1..n
      PROVE  op2[j].kind = es[g[j]].kind /\ EnclosedBy(k, es, g, j - 1, Saved(k, op2[j]))
  <2>1. j \in 1..n + 1 /\ j - 1 \in 0..n /\ op2[j] = op[j] /\ g[j] = h[j]
    BY <1>1, <1>2, <1>4, <1>5
  <2>2. op[j].kind = es[h[j]].kind /\ EnclosedBy(k, es, h, j - 1, Saved(k, op[j]))
    BY <1>2, <2>1 DEF SameOpen
  <2> QED
    BY <1>6, <2>1, <2>2
<1>8. EnclosedBy(k, es, h, n, c2)
  <2>1. CASE IsA(k, es, h, n + 1)
    <3>1. c2 = Saved(k, op[n + 1])
      BY <1>2, <2>1 DEF IsA
    <3>2. n + 1 \in 1..Len(h) /\ (n + 1) - 1 = n
      BY <1>2
    <3>3. EnclosedBy(k, es, h, (n + 1) - 1, Saved(k, op[n + 1]))
      BY <3>2 DEF SameOpen
    <3> QED
      BY <3>1, <3>2, <3>3
  <2>2. CASE ~IsA(k, es, h, n + 1)
    <3>1. c2 = c /\ EnclosedBy(k, es, h, n + 1, c)
      BY <1>2, <2>2 DEF IsA, SameOpen
    <3>2. CASE \E j \in 1..n + 1 : Innermost(k, es, h, n + 1, j) /\ c = Meant(k, es[h[j]])
      <4>1. PICK j \in 1..n + 1 : Innermost(k, es, h, n + 1, j) /\ c = Meant(k, es[h[j]])
        BY <3>2
      <4>2. j # n + 1
        BY <2>2, <4>1 DEF Innermost
      <4>3. Innermost(k, es, h, n, j) /\ j \in 1..n
        BY <4>1, <4>2 DEF Innermost
      <4> QED
        BY <3>1, <4>1, <4>3 DEF EnclosedBy
    <3>3. CASE (\A j \in 1..n + 1 : ~IsA(k, es, h, j)) /\ c = Nothing(k)
      BY <3>1, <3>3 DEF EnclosedBy
    <3> QED
      BY <3>1, <3>2, <3>3 DEF EnclosedBy
  <2> QED
    BY <2>1, <2>2
<1>9. EnclosedBy(k, es, g, n, c2)
  BY <1>6, <1>8
<1> QED
  BY <1>2, <1>4, <1>5, <1>7, <1>9 DEF SameOpen

\* A step over an event does for the open statements what it does for the history's.
LEMMA CWalked ==
  ASSUME TInv, NEW k, Walk(k),
         \A h, g : /\ IsList(h) /\ IsList(g) /\ Follows(events, g, h, pos + 1)
                   /\ SameOpen("class", events, h, open, enclosing_class)
                   => SameOpen("class", events, g, open', enclosing_class')
  PROVE  TInv'
<1>1. /\ stage = "check" /\ pos' = pos + 1 /\ pos < Len(events) /\ pos \in 0..Len(events)
      /\ UNCHANGED <<scopes, frames, events, errors>>
  BY DEF Walk, resolverVars, TInv
<1>2. PICK hs : Tracked(hs)
  BY DEF TInv
<1>3. Explains(hs, events) /\ SameOpen("class", events, hs[pos], open, enclosing_class)
  BY <1>2 DEF Tracked, History
<1>4. PICK n : n = Len(events)
  OBVIOUS
<1>5. pos \in 0..n /\ pos + 1 \in 1..n /\ pos + 1 \in 0..n
  BY <1>1, <1>4
<1>6. hs[pos] \in Seq(1..n) /\ hs[pos + 1] \in Seq(1..n)
  BY <1>3, <1>4, <1>5 DEF Explains
<1>7. IsList(hs[pos]) /\ IsList(hs[pos + 1])
  BY <1>6, ListOf
<1>8. Follows(events, hs[pos + 1], hs[pos], pos + 1)
  <2>1. PICK i : i = pos + 1 /\ i \in 1..n /\ i - 1 = pos
    BY <1>1, <1>5
  <2>2. Follows(events, hs[i], hs[i - 1], i)
    BY <1>3, <1>4, <2>1 DEF Explains
  <2> QED
    BY <2>1, <2>2
<1>9. SameOpen("class", events, hs[pos + 1], open', enclosing_class')
  BY <1>3, <1>7, <1>8
<1>10. History(hs)'
  <2>1. History(hs)
    BY <1>2 DEF Tracked
  <2> QED
    BY <1>1, <2>1 DEF History
<1>11. Tracked(hs)'
  BY <1>1, <1>9, <1>10 DEF Tracked
<1>12. ThisMeans(frames', scopes') /\ errors' = {} /\ pos' \in 0..Len(events')
  BY <1>1, <1>4, <1>5 DEF TInv
<1> QED
  BY <1>11, <1>12 DEF TInv

\* What the steps over a declaration, over an end and over the rest do.
LEMMA COpened ==
  ASSUME TInv, NEW k \in Kinds, Walk(k), NEW s, Opened(s),
         enclosing_class' = IF k = "class" THEN Next1.name ELSE enclosing_class
  PROVE  TInv'
<1>1. PICK i \in Nat : i = pos + 1 /\ events[i].kind = k /\ events[i] = Next1
  BY DEF Walk, Next1, TInv
<1>2. PICK f : /\ f.kind = events[i].kind /\ Saved("class", f) = enclosing_class
               /\ open' = Append(open, f)
  BY <1>1 DEF Opened, Saved
<1>3. PICK c2 : /\ c2 = enclosing_class'
                /\ c2 = IF events[i].kind = "class" THEN Meant("class", events[i])
                        ELSE enclosing_class
  BY <1>1 DEF Meant
<1>4. k \notin {"exit", "endvar", "return"} \cup Refs
  BY DEF Kinds, Scoped, Refs
<1>5. ASSUME NEW h, NEW g, IsList(h), IsList(g), Follows(events, g, h, i),
             SameOpen("class", events, h, open, enclosing_class)
      PROVE  SameOpen("class", events, g, open', enclosing_class')
  <2>1. g = Append(h, i)
    BY <1>1, <1>4, <1>5 DEF Follows
  <2>2. PICK op2 : op2 = open' /\ op2 = Append(open, f)
    BY <1>2
  <2>3. SameOpen("class", events, g, op2, c2)
    BY <1>2, <1>3, <1>5, <2>1, <2>2, CPushed
  <2> QED
    BY <1>3, <2>2, <2>3
<1> QED
  BY <1>1, <1>5, CWalked

LEMMA CClosed ==
  ASSUME TInv, NEW k \in {"exit", "endvar"}, Walk(k), open' = Front(open),
         enclosing_class' = IF k = "exit" /\ Last(open).kind = "class" THEN Last(open).class
                            ELSE enclosing_class
  PROVE  TInv'
<1>1. PICK i \in Nat : i = pos + 1 /\ events[i].kind = k
  BY DEF Walk, Next1, TInv
<1>4. k \notin Refs \cup {"return"} \cup Kinds
  BY DEF Kinds, Scoped, Refs
<1>5. ASSUME NEW h, NEW g, IsList(h), IsList(g), Follows(events, g, h, i),
             SameOpen("class", events, h, open, enclosing_class)
      PROVE  SameOpen("class", events, g, open', enclosing_class')
  <2>1. /\ h # <<>> /\ g = Front(h)
        /\ k = "endvar" <=> events[h[Len(h)]].kind = "var"
    BY <1>1, <1>4, <1>5 DEF Follows
  <2>2. PICK n \in Nat : n = Len(h) /\ n = Len(open) /\ n # 0
    BY <1>5, <2>1, ListLength DEF SameOpen
  <2>3. n \in 1..Len(h)
    BY <2>2
  <2>4. open[n].kind = events[h[n]].kind
    BY <1>5, <2>3 DEF SameOpen
  <2>5. Last(open) = open[n]
    BY <2>2 DEF Last
  <2>6. enclosing_class' = IF events[h[Len(h)]].kind = "class" THEN open[Len(h)].class
                           ELSE enclosing_class
    BY <2>1, <2>2, <2>4, <2>5
  <2>7. PICK op2, c2 : /\ op2 = open' /\ op2 = Front(open) /\ c2 = enclosing_class'
                       /\ c2 = IF events[h[Len(h)]].kind = "class" THEN Saved("class", open[Len(h)])
                               ELSE enclosing_class
    BY <2>6 DEF Saved
  <2>8. SameOpen("class", events, g, op2, c2)
    BY <1>5, <2>1, <2>7, CPopped
  <2> QED
    BY <2>7, <2>8
<1> QED
  BY <1>1, <1>5, CWalked

LEMMA CKept ==
  ASSUME TInv, NEW k \in Refs \cup {"return"}, Walk(k), UNCHANGED <<open, enclosing_class>>
  PROVE  TInv'
<1>1. PICK i \in Nat : i = pos + 1 /\ events[i].kind = k
  BY DEF Walk, Next1, TInv
<1>2. k \notin {"exit", "endvar"} \cup Kinds
  BY DEF Kinds, Scoped, Refs
<1>3. ASSUME NEW h, NEW g, IsList(h), IsList(g), Follows(events, g, h, i),
             SameOpen("class", events, h, open, enclosing_class)
      PROVE  SameOpen("class", events, g, open', enclosing_class')
  BY <1>1, <1>2, <1>3 DEF Follows
<1> QED
  BY <1>1, <1>3, CWalked

\* Steps in which nobody goes on in the program.
LEMMA CElsewhere ==
  ASSUME TInv, UNCHANGED <<resolverVars, pos, open, enclosing_class>>,
         stage' # "resolver" => errors = {}
  PROVE  TInv'
<1>1. UNCHANGED <<scopes, frames, events, errors, pos, open, enclosing_class>>
  BY DEF resolverVars
<1>2. PICK hs : Tracked(hs)
  BY DEF TInv
<1>3. Tracked(hs)'
  BY <1>1, <1>2 DEF Tracked, History
<1> QED
  BY <1>1, <1>3 DEF TInv

LEMMA CStep == ASSUME RInv, TInv, [Next]_vars PROVE TInv'
<1>1. CASE Resolving
  <2>1. Resolve /\ UNCHANGED <<stage, pos, open, enclosing_class>> /\ stage = "resolver"
    BY <1>1 DEF Resolving
  <2> QED
    BY <2>1, TStep
<1>2. CASE Hoist
  BY <1>2, CElsewhere DEF Hoist
<1>3. CASE CheckBlock
  <2>1. /\ Walk("block") /\ Opened(FALSE) /\ enclosing_class' = enclosing_class
        /\ "block" \in Kinds
    BY <1>3 DEF CheckBlock, Kinds, Scoped
  <2> QED
    BY <2>1, COpened
<1>4. CASE CheckFunc
  <2>1. /\ Walk("func") /\ Opened(FALSE) /\ enclosing_class' = enclosing_class
        /\ "func" \in Kinds
    BY <1>4 DEF CheckFunc, Kinds, Scoped
  <2> QED
    BY <2>1, COpened
<1>5. CASE CheckClass
  <2>1. /\ Walk("class") /\ Opened(FALSE) /\ enclosing_class' = Next1.name
        /\ "class" \in Kinds
    BY <1>5 DEF CheckClass, Kinds, Scoped
  <2> QED
    BY <2>1, COpened
<1>6. CASE CheckVar
  <2>1. PICK s : s = NamesType(Next1.name)
    OBVIOUS
  <2>2. /\ Walk("var") /\ Opened(s) /\ enclosing_class' = enclosing_class
        /\ "var" \in Kinds
    BY <1>6, <2>1 DEF CheckVar, Kinds, Scoped
  <2> QED
    BY <2>2, COpened
<1>7. CASE CheckExit
  <2>1. /\ Walk("exit") /\ open' = Front(open)
        /\ enclosing_class' = IF Last(open).kind = "class" THEN Last(open).class
                              ELSE enclosing_class
    BY <1>7 DEF CheckExit
  <2> QED
    BY <2>1, CClosed
<1>8. CASE CheckEndVar
  <2>1. /\ Walk("endvar") /\ open' = Front(open) /\ enclosing_class' = enclosing_class
    BY <1>8 DEF CheckEndVar
  <2> QED
    BY <2>1, CClosed
<1>9. CASE CheckVariable
  BY <1>9, CKept DEF CheckVariable, Refs
<1>10. CASE CheckAssignment
  BY <1>10, CKept DEF CheckAssignment, Refs
<1>11. CASE CheckThis
  BY <1>11, CKept DEF CheckThis, Refs
<1>12. CASE CheckReturn
  BY <1>12, CKept DEF CheckReturn
<1>13. CASE FinishCheck
  <2>1. stage = "check" /\ UNCHANGED <<resolverVars, pos, open, enclosing_class>>
    BY <1>13 DEF FinishCheck
  <2>2. errors = {}
    BY <2>1 DEF TInv
  <2> QED
    BY <2>1, <2>2, CElsewhere
<1>14. CASE UNCHANGED vars
  <2>1. UNCHANGED <<resolverVars, pos, open, enclosing_class, stage>>
    BY <1>14 DEF vars
  <2> QED
    BY <2>1, CElsewhere DEF TInv
<1> QED
  BY <1>1, <1>2, <1>3, <1>4, <1>5, <1>6, <1>7, <1>8, <1>9, <1>10, <1>11, <1>12, <1>13,
     <1>14 DEF Next

LEMMA CStart == BindingInit => TInv
<1> SUFFICES ASSUME BindingInit PROVE TInv
  OBVIOUS
<1>1. /\ frames = <<>> /\ events = <<>> /\ errors = {} /\ pos = 0 /\ open = <<>>
      /\ enclosing_class = NoName
  BY DEF BindingInit, Init
<1>2. Len(events) = 0 /\ Len(frames) = 0 /\ Len(open) = 0
  BY <1>1, EmptySeq
<1>3. PICK hs : hs = [i \in {0} |-> <<>>]
  OBVIOUS
<1>4. hs[0] = <<>> /\ 0..0 = {0} /\ Len(hs[0]) = 0
  BY <1>3, EmptySeq
<1>5. Explains(hs, events)
  <2>1. hs \in [0..Len(events) -> Seq(1..Len(events))]
    BY <1>2, <1>3, <1>4
  <2> QED
    BY <1>2, <1>4, <2>1 DEF Explains
<1>6. SameFrames(events, hs[Len(events)], frames) /\ ThisBound(events, hs)
  BY <1>2, <1>4 DEF SameFrames, ThisBound
<1>7. SameOpen("class", events, hs[pos], open, enclosing_class)
  <2>1. IsList(open)
    BY <1>1, ListOf, EmptySeq
  <2> QED
    BY <1>1, <1>2, <1>4, <2>1 DEF SameOpen, EnclosedBy, Nothing
<1>8. Tracked(hs)
  BY <1>5, <1>6, <1>7 DEF Tracked, History
<1> QED
  BY <1>1, <1>2, <1>8 DEF TInv, ThisMeans

LEMMA ThisMeansTheClass == RInv /\ TInv => ThisIsInnermostClass
<1> SUFFICES ASSUME RInv, TInv, About("this")
             PROVE  \E i \in Of("class") : /\ <<events[i].id, "this">> = Next1.bound
                                           /\ events[i].name = enclosing_class
  BY DEF ThisIsInnermostClass
<1>1. /\ stage = "check" /\ pos < Len(events) /\ Next1.kind = "this" /\ errors = {}
      /\ pos \in 0..Len(events) /\ Len(events) \in Nat
  <2>1. Len(events) \in Nat
    BY LenProperties DEF RInv, Shapes
  <2> QED
    BY <2>1 DEF About, TInv
<1>2. PICK hs : Tracked(hs)
  BY DEF TInv
<1>3. PICK h : h = hs[pos] /\ h \in Seq(1..Len(events))
  BY <1>1, <1>2 DEF Tracked, History, Explains
<1>4. PICK j \in 1..Len(h) : /\ Innermost("class", events, h, Len(h), j)
                             /\ Next1.bound = <<events[h[j]].id, "this">>
  <2>1. PICK i : i = pos + 1 /\ i \in 1..Len(events) /\ i - 1 = pos /\ events[i] = Next1
    BY <1>1 DEF Next1
  <2> QED
    BY <1>1, <1>2, <1>3, <2>1 DEF Tracked, History, ThisBound
<1>5. Len(h) \in Nat /\ h[j] \in 1..Len(events)
  BY <1>3, LenProperties, ElementOfSeq
<1>6. EnclosedBy("class", events, h, Len(h), enclosing_class)
  BY <1>2, <1>3 DEF Tracked, SameOpen
<1>7. enclosing_class = events[h[j]].name
  <2>1. IsA("class", events, h, j) /\ \A m \in j + 1..Len(h) : ~IsA("class", events, h, m)
    BY <1>4 DEF Innermost
  <2>2. PICK l \in 1..Len(h) : /\ Innermost("class", events, h, Len(h), l)
                               /\ enclosing_class = events[h[l]].name
    BY <1>6, <2>1 DEF EnclosedBy, Meant
  <2>3. IsA("class", events, h, l) /\ \A m \in l + 1..Len(h) : ~IsA("class", events, h, m)
    BY <2>2 DEF Innermost
  <2>4. l = j
    BY <1>5, <2>1, <2>3
  <2> QED
    BY <2>2, <2>4
<1>8. h[j] \in Of("class")
  <2>1. events[h[j]].kind = "class" /\ DOMAIN events = 1..Len(events)
    BY <1>4, LenProperties DEF Innermost, IsA, RInv, Shapes
  <2> QED
    BY <1>5, <2>1 DEF Of
<1> QED
  BY <1>4, <1>7, <1>8

(* In every program, however its classes are nested, the TypeChecker's enclosing
   class at a "this" that the Resolver has visited is the one whose "this" it has
   found, and there is one: what the TypeChecker saves at a class and restores at its
   end follows the scopes of the Resolver. For a "this" in an index expression there
   may be none (type-checker.cc:128-130, resolver.cc:69-74, 262-264). *)
THEOREM ThisIsInnermost == Spec => []ThisIsInnermostClass
BY CStart, CStep, ResolverShapes, ThisMeansTheClass, PTL DEF Spec

-----------------------------------------------------------------------------
(* A history has one explanation, and lists what Inside defines. *)

LEMMA PoppedList ==
  ASSUME NEW h, IsList(h), h # <<>>, NEW g, g = Front(h)
  PROVE  \E n \in Nat : /\ Len(h) = n + 1 /\ Len(g) = n /\ Last(h) = h[n + 1]
                       /\ \A j \in 1..n : g[j] = h[j]
<1>1. /\ IsList(g) /\ Len(h) = Len(g) + 1 /\ Len(g) \in Nat
      /\ \A j \in 1..Len(g) : g[j] = h[j]
  BY Fronted, ListLength
<1>2. Last(h) = h[Len(h)]
  BY DEF Last
<1> QED
  BY <1>1, <1>2

LEMMA OneHistory ==
  ASSUME NEW es, NEW es2, NEW n \in Nat, Len(es) \in Nat, Len(es2) \in Nat,
         n <= Len(es), n <= Len(es2), \A i \in 1..n : es2[i] = es[i],
         NEW hs, NEW hs2, Explains(hs, es), Explains(hs2, es2)
  PROVE  \A i \in 0..n : hs2[i] = hs[i]
<1> DEFINE Bad == {i \in 0..n : hs2[i] # hs[i]}
<1>1. CASE Bad = {}
  BY <1>1
<1>2. CASE Bad # {}
  <2>1. PICK i \in Bad : \A l \in Bad : i <= l
    <3>1. Bad \in SUBSET Nat
      OBVIOUS
    <3> QED
      BY <1>2, <3>1, LeastExists
  <2>2. i # 0
    BY <2>1 DEF Explains
  <2>3. i \in 1..n /\ i - 1 \in 0..n /\ i - 1 \notin Bad
    BY <2>1, <2>2
  <2>4. PICK h : h = hs[i - 1] /\ h = hs2[i - 1]
    BY <2>3
  <2>5. es2[i] = es[i] /\ i \in 1..Len(es) /\ i \in 1..Len(es2)
    BY <2>3
  <2>6. Follows(es, hs[i], h, i) /\ Follows(es2, hs2[i], h, i)
    BY <2>4, <2>5 DEF Explains
  <2>7. hs2[i] = hs[i]
    BY <2>5, <2>6 DEF Follows, Kinds, Scoped, Refs
  <2> QED
    BY <2>1, <2>7
<1> QED
  BY <1>1, <1>2

\* The statements of a list are in the order in which they begin.
InOrder(es, h, i) ==
  \A j \in 1..Len(h) : /\ h[j] \in 1..i /\ es[h[j]].kind \in Kinds
                       /\ \A m \in 1..j - 1 : h[m] < h[j]

LEMMA HistoryInOrder ==
  ASSUME NEW es, Len(es) \in Nat, NEW hs, Explains(hs, es), NEW i \in 0..Len(es)
  PROVE  InOrder(es, hs[i], i)
<1> DEFINE Bad == {l \in 0..Len(es) : ~InOrder(es, hs[l], l)}
<1>1. CASE Bad = {}
  BY <1>1
<1>2. CASE Bad # {}
  <2>1. PICK l \in Bad : \A m \in Bad : l <= m
    <3>1. Bad \in SUBSET Nat
      OBVIOUS
    <3> QED
      BY <1>2, <3>1, LeastExists
  <2>2. l # 0
    <3>1. InOrder(es, hs[0], 0)
      BY EmptySeq DEF Explains, InOrder
    <3> QED
      BY <2>1, <3>1
  <2>3. l \in 1..Len(es) /\ l - 1 \in 0..Len(es) /\ l - 1 \notin Bad
    BY <2>1, <2>2
  <2>4. PICK h, g : h = hs[l - 1] /\ g = hs[l]
    OBVIOUS
  <2>5. /\ h \in Seq(1..Len(es)) /\ g \in Seq(1..Len(es)) /\ InOrder(es, h, l - 1)
        /\ Follows(es, g, h, l)
    BY <2>3, <2>4 DEF Explains
  <2>6. Len(h) \in Nat
    BY <2>5, LenProperties
  <2>7. CASE es[l].kind \in Kinds /\ g = Append(h, l)
    <3>1. Len(g) = Len(h) + 1 /\ g[Len(h) + 1] = l /\ \A j \in 1..Len(h) : g[j] = h[j]
      BY <2>3, <2>5, <2>7, PushedAs
    <3>2. ASSUME NEW j \in 1..Len(g)
          PROVE  /\ g[j] \in 1..l /\ es[g[j]].kind \in Kinds
                 /\ \A m \in 1..j - 1 : g[m] < g[j]
      <4>1. CASE j = Len(h) + 1
        <5>1. \A m \in 1..j - 1 : m \in 1..Len(h) /\ g[m] = h[m]
          BY <2>6, <3>1, <4>1
        <5>2. \A m \in 1..Len(h) : h[m] < l
          BY <2>3, <2>5 DEF InOrder
        <5> QED
          BY <2>3, <2>7, <3>1, <4>1, <5>1, <5>2
      <4>2. CASE j # Len(h) + 1
        <5>1. j \in 1..Len(h) /\ g[j] = h[j] /\ \A m \in 1..j - 1 : g[m] = h[m]
          BY <2>6, <3>1, <4>2
        <5>2. /\ h[j] \in 1..l - 1 /\ es[h[j]].kind \in Kinds
              /\ \A m \in 1..j - 1 : h[m] < h[j]
          BY <2>5, <5>1 DEF InOrder
        <5>3. h[j] \in 1..l
          BY <2>3, <5>2
        <5> QED
          BY <5>1, <5>2, <5>3
      <4> QED
        BY <4>1, <4>2
    <3> QED
      BY <2>1, <2>4, <3>2 DEF InOrder
  <2>8. CASE h # <<>> /\ g = Front(h)
    <3>1. Len(h) = Len(g) + 1 /\ Len(g) \in Nat /\ \A j \in 1..Len(g) : g[j] = h[j]
      <4>1. IsList(h)
        BY <2>5, ListOf
      <4> QED
        BY <2>8, <4>1, PoppedList
    <3>2. ASSUME NEW j \in 1..Len(g)
          PROVE  /\ g[j] \in 1..l /\ es[g[j]].kind \in Kinds
                 /\ \A m \in 1..j - 1 : g[m] < g[j]
      <4>1. j \in 1..Len(h) /\ g[j] = h[j] /\ \A m \in 1..j - 1 : g[m] = h[m]
        BY <3>1
      <4>2. /\ h[j] \in 1..l - 1 /\ es[h[j]].kind \in Kinds
            /\ \A m \in 1..j - 1 : h[m] < h[j]
        BY <2>5, <4>1 DEF InOrder
      <4>3. h[j] \in 1..l
        BY <2>3, <4>2
      <4> QED
        BY <4>1, <4>2, <4>3
    <3> QED
      BY <2>1, <2>4, <3>2 DEF InOrder
  <2>9. CASE g = h
    <3>1. InOrder(es, g, l)
      BY <2>3, <2>5, <2>9 DEF InOrder
    <3> QED
      BY <2>1, <2>4, <3>1
  <2> QED
    BY <2>5, <2>7, <2>8, <2>9 DEF Follows
<1> QED
  BY <1>1, <1>2

\* Each event is within the statement that is innermost before it.
Linked(es, hs) ==
  \A i \in 1..Len(es) :
    es[i].within = IF hs[i - 1] = <<>> THEN 0 ELSE es[Last(hs[i - 1])].id

IdsDiffer(es) ==
  /\ \A i \in 1..Len(es) : es[i].kind \in Kinds => es[i].id # 0
  /\ \A i, j \in 1..Len(es) :
       es[i].kind \in Kinds /\ es[j].kind \in Kinds /\ es[i].id = es[j].id => i = j

Listed(h, c) == \E j \in 1..Len(h) : h[j] = c
Ended(es, c, i) == \E x \in c..i : es[x].kind = "exit" /\ es[x].within = es[c].id

LEMMA ListedUntilEnded ==
  ASSUME NEW es, Len(es) \in Nat, NEW hs, Explains(hs, es), Linked(es, hs), IdsDiffer(es),
         NEW c \in 1..Len(es), es[c].kind \in Scoped, NEW i \in c..Len(es)
  PROVE  Listed(hs[i], c) <=> ~Ended(es, c, i)
<1> DEFINE Bad == {l \in c..Len(es) : ~(Listed(hs[l], c) <=> ~Ended(es, c, l))}
<1>1. CASE Bad = {}
  BY <1>1
<1>2. CASE Bad # {}
  <2>1. PICK l \in Bad : \A m \in Bad : l <= m
    <3>1. Bad \in SUBSET Nat
      OBVIOUS
    <3> QED
      BY <1>2, <3>1, LeastExists
  <2>2. PICK h, g : h = hs[l - 1] /\ g = hs[l]
    OBVIOUS
  <2>3. /\ l \in 1..Len(es) /\ l \in Int /\ l - 1 \in 0..Len(es)
        /\ h \in Seq(1..Len(es)) /\ g \in Seq(1..Len(es))
        /\ Follows(es, g, h, l) /\ InOrder(es, h, l - 1)
    <3>1. l \in 1..Len(es) /\ l - 1 \in 0..Len(es)
      BY <2>1
    <3>2. h \in Seq(1..Len(es)) /\ g \in Seq(1..Len(es)) /\ Follows(es, g, h, l)
      <4>1. l \in 0..Len(es)
        BY <3>1
      <4> QED
        BY <2>2, <3>1, <4>1 DEF Explains
    <3> QED
      BY <2>2, <3>1, <3>2, HistoryInOrder
  <2>4. Len(h) \in Nat /\ Len(g) \in Nat
    BY <2>3, LenProperties
  <2>5. l # c
    <3> SUFFICES ASSUME l = c
                 PROVE  FALSE
      OBVIOUS
    <3>1. es[c].kind \in Kinds /\ es[c].kind # "exit"
      BY DEF Kinds, Scoped
    <3>2. g = Append(h, c)
      BY <2>3, <3>1 DEF Follows, Kinds, Scoped, Refs
    <3>3. Len(g) = Len(h) + 1 /\ g[Len(h) + 1] = c
      BY <2>3, <3>2, PushedAs
    <3>4. Listed(g, c) /\ ~Ended(es, c, c)
      BY <2>4, <3>1, <3>3 DEF Listed, Ended
    <3> QED
      BY <2>1, <2>2, <3>4
  <2>6. /\ l - 1 \in c..Len(es) /\ \A x \in c..l : x \in c..l - 1 \/ x = l
        /\ \A x \in c..l - 1 : x \in c..l
        /\ Listed(h, c) <=> ~Ended(es, c, l - 1)
    <3>1. l - 1 \in c..Len(es) /\ l - 1 \notin Bad
      BY <2>1, <2>3, <2>5
    <3>2. l \in c..Len(es)
      BY <2>1
    <3> QED
      BY <2>2, <3>1, <3>2
  <2>7. es[l].within = IF h = <<>> THEN 0 ELSE es[Last(h)].id
    BY <2>2, <2>3 DEF Linked
  <2>8. CASE es[l].kind = "exit"
    <3>1. h # <<>> /\ g = Front(h) /\ es[h[Len(h)]].kind # "var"
      BY <2>3, <2>8 DEF Follows, Kinds, Scoped, Refs
    <3>2. PICK n \in Nat : /\ Len(h) = n + 1 /\ Len(g) = n /\ Last(h) = h[n + 1]
                         /\ \A j \in 1..n : g[j] = h[j]
      <4>1. IsList(h)
        BY <2>3, ListOf
      <4> QED
        BY <3>1, <4>1, PoppedList
    <3>3. /\ h[n + 1] \in 1..Len(es) /\ es[h[n + 1]].kind \in Kinds
          /\ \A j \in 1..n : h[j] < h[n + 1] /\ h[j] \in Int
      <4>1. n + 1 \in 1..Len(h) /\ \A j \in 1..n : j \in 1..(n + 1) - 1 /\ j \in 1..Len(h)
        BY <3>2
      <4>2. h[n + 1] \in 1..Len(es)
        BY <2>3, <4>1, ElementOfSeq
      <4> QED
        BY <2>3, <4>1, <4>2 DEF InOrder
    <3>4. CASE h[n + 1] = c
      <4>1. Ended(es, c, l)
        <5>1. l \in c..l /\ es[l].within = es[c].id
          BY <2>3, <2>6, <2>7, <3>1, <3>2, <3>4
        <5> QED
          BY <2>8, <5>1 DEF Ended
      <4>2. ~Listed(g, c)
        BY <3>2, <3>3, <3>4 DEF Listed
      <4> QED
        BY <2>1, <2>2, <4>1, <4>2
    <3>5. CASE h[n + 1] # c
      <4>1. es[l].within # es[c].id
        <5>1. es[l].within = es[h[n + 1]].id
          BY <2>7, <3>1, <3>2
        <5>2. es[c].kind \in Kinds
          BY DEF Kinds
        <5> QED
          BY <3>2, <3>3, <3>5, <5>1, <5>2 DEF IdsDiffer
      <4>2. Ended(es, c, l) <=> Ended(es, c, l - 1)
        BY <2>6, <4>1 DEF Ended
      <4>3. Listed(g, c) <=> Listed(h, c)
        <5>1. \A j \in 1..Len(h) : j \in 1..n \/ j = n + 1
          BY <3>2
        <5>2. \A j \in 1..n : j \in 1..Len(h)
          BY <3>2
        <5> QED
          BY <3>2, <3>5, <5>1, <5>2 DEF Listed
      <4> QED
        BY <2>1, <2>2, <2>6, <4>2, <4>3
    <3> QED
      BY <3>4, <3>5
  <2>9. CASE es[l].kind # "exit"
    <3>1. Ended(es, c, l) <=> Ended(es, c, l - 1)
      BY <2>6, <2>9 DEF Ended
    <3>2. CASE g = Append(h, l)
      <4>1. Len(g) = Len(h) + 1 /\ g[Len(h) + 1] = l /\ \A j \in 1..Len(h) : g[j] = h[j]
        BY <2>3, <3>2, PushedAs
      <4>2. /\ \A j \in 1..Len(g) : j \in 1..Len(h) \/ j = Len(h) + 1
            /\ \A j \in 1..Len(h) : j \in 1..Len(g)
        BY <2>4, <4>1
      <4>3. Listed(g, c) <=> Listed(h, c)
        BY <2>5, <4>1, <4>2 DEF Listed
      <4> QED
        BY <2>1, <2>2, <2>6, <3>1, <4>3
    <3>3. CASE h # <<>> /\ g = Front(h) /\ es[h[Len(h)]].kind = "var"
      <4>1. PICK n \in Nat : Len(h) = n + 1 /\ Len(g) = n /\ \A j \in 1..n : g[j] = h[j]
        <5>1. IsList(h)
          BY <2>3, ListOf
        <5> QED
          BY <3>3, <5>1, PoppedList
      <4>2. h[n + 1] # c
        BY <3>3, <4>1 DEF Scoped
      <4>3. /\ \A j \in 1..Len(h) : j \in 1..n \/ j = n + 1
            /\ \A j \in 1..n : j \in 1..Len(h)
        BY <4>1
      <4>4. Listed(g, c) <=> Listed(h, c)
        BY <4>1, <4>2, <4>3 DEF Listed
      <4> QED
        BY <2>1, <2>2, <2>6, <3>1, <4>4
    <3>4. CASE g = h
      BY <2>1, <2>2, <2>6, <3>1, <3>4
    <3> QED
      BY <2>3, <2>9, <3>2, <3>3, <3>4 DEF Follows, Kinds, Scoped, Refs
  <2> QED
    BY <2>8, <2>9
<1> QED
  BY <1>1, <1>2

-----------------------------------------------------------------------------
(* What the Resolver has recorded of functions and returns. *)

ReturnsInside(es, hs) ==
  \A i \in 1..Len(es) : es[i].kind = "return" =>
    \E j \in 1..Len(hs[i - 1]) : IsA("func", es, hs[i - 1], j)

\* A function is at the top level or directly in a class.
FunctionsOutside(es, hs) ==
  \A i \in 1..Len(es) : es[i].kind = "func" /\ hs[i - 1] # <<>> =>
    IsA("class", es, hs[i - 1], Len(hs[i - 1]))

IdsKnown == \A i \in 1..Len(events) : events[i].kind \in Kinds =>
              events[i].id = i \/ -events[i].id \in 1..next
ClassesNamed(es) == \A i \in 1..Len(es) : es[i].kind = "class" => es[i].name \in Names

OInv ==
  /\ IdsKnown /\ IdsDiffer(events) /\ ClassesNamed(events)
  /\ \A hs : Explains(hs, events) =>
       /\ Linked(events, hs) /\ FunctionsOutside(events, hs)
       /\ errors = {} => ReturnsInside(events, hs)

LEMMA ORecorded ==
  ASSUME RInv, TInv, OInv, RInv', TInv',
         NEW k \in Kinds \cup Refs \cup {"return", "exit", "endvar"},
         NEW n \in Names \cup {NoName}, NEW params \in Seq(Names),
         NEW b \in Int \X {"name", "param", "this", NoName}, Record(k, n, params, b),
         IF k \in Kinds /\ frames = <<>> THEN next' = next + 1 ELSE next' \in {next, next + 1},
         k = "class" => n \in Names, k = "func" => frames = <<>> \/ Top.kind = "class",
         errors \subseteq errors'
  PROVE  OInv'
<1>1. /\ Shapes /\ Nested(frames, scopes) /\ next \in Nat /\ next' \in Int /\ next <= next'
      /\ Len(events) \in Nat
  <2>1. Len(tops) \in Nat /\ Len(events) \in Nat
    BY LenProperties DEF RInv, Shapes
  <2> QED
    BY <2>1 DEF RInv, Shapes
<1>a. PICK l \in Nat : l = Len(events)
  BY <1>1
<1>2. PICK e : /\ l = Len(events) /\ events' \in Seq(Events) /\ Len(events') = l + 1
               /\ events'[l + 1] = e /\ Last(events') = e /\ events' # <<>>
               /\ \A i \in 1..l : events'[i] = events[i]
               /\ e.kind = k /\ e.id = Id /\ e.name = n /\ e.within = WithinId
  <2>1. PICK e : e = [kind |-> k, id |-> Id, name |-> n, params |-> params,
                      bound |-> b, within |-> WithinId]
    OBVIOUS
  <2>2. /\ events' \in Seq(Events) /\ events' # <<>> /\ Len(events') = Len(events) + 1
        /\ \A i \in 1..Len(events) : events'[i] = events[i]
        /\ Last(events') = events'[Len(events) + 1]
        /\ Last(events') = e
    BY <1>1, <2>1, Recorded
  <2>3. e.kind = k /\ e.id = Id /\ e.name = n /\ e.within = WithinId
    BY <2>1
  <2> QED
    BY <1>1, <1>a, <2>2, <2>3
<1>3. \A i \in 1..l + 1 : i = l + 1 \/ i \in 1..l
  OBVIOUS
<1>4. k \in Kinds => e.id = l + 1 \/ (frames = <<>> /\ e.id = -next' /\ next' = next + 1)
  BY <1>2 DEF Id
<1>5. IdsKnown'
  <2>1. ASSUME NEW i \in 1..l + 1, events'[i].kind \in Kinds
        PROVE  events'[i].id = i \/ -events'[i].id \in 1..next'
    <3>1. CASE i = l + 1
      BY <1>1, <1>2, <1>4, <2>1, <3>1
    <3>2. CASE i \in 1..l
      <4>1. events[i].id = i \/ -events[i].id \in 1..next
        BY <1>2, <2>1, <3>2 DEF OInv, IdsKnown
      <4> QED
        BY <1>1, <1>2, <3>2, <4>1
    <3> QED
      BY <1>3, <3>1, <3>2
  <2> QED
    BY <1>2, <2>1 DEF IdsKnown
<1>6. IdsDiffer(events')
  <2>1. ASSUME NEW i \in 1..l + 1, events'[i].kind \in Kinds
        PROVE  events'[i].id # 0
    <3>1. events'[i].id = i \/ -events'[i].id \in 1..next'
      BY <1>2, <1>5, <2>1 DEF IdsKnown
    <3>2. events'[i].id \in Int
      <4>1. events'[i] \in Events
        BY <1>2, ElementOfSeq
      <4> QED
        BY <4>1 DEF Events
    <3> QED
      BY <1>1, <3>1, <3>2
  <2>2. ASSUME NEW i \in 1..l, k \in Kinds, events[i].kind \in Kinds
        PROVE  events[i].id # e.id
    <3>1. events[i].id = i \/ -events[i].id \in 1..next
      BY <1>2, <2>2 DEF OInv, IdsKnown
    <3>2. events[i].id \in Int
      <4>1. events \in Seq(Events)
        BY <1>1 DEF Shapes
      <4>2. events[i] \in Events
        BY <1>2, <4>1, ElementOfSeq
      <4> QED
        BY <4>2 DEF Events
    <3> QED
      BY <1>1, <1>4, <2>2, <3>1, <3>2
  <2>3. ASSUME NEW i \in 1..l + 1, NEW j \in 1..l + 1, events'[i].kind \in Kinds,
               events'[j].kind \in Kinds, events'[i].id = events'[j].id
        PROVE  i = j
    <3>1. CASE i \in 1..l /\ j \in 1..l
      BY <1>2, <2>3, <3>1 DEF OInv, IdsDiffer
    <3>2. CASE i = l + 1 \/ j = l + 1
      BY <1>2, <1>3, <2>2, <2>3, <3>2
    <3> QED
      BY <1>3, <3>1, <3>2
  <2> QED
    BY <1>2, <2>1, <2>3 DEF IdsDiffer
<1>7. ClassesNamed(events')
  BY <1>2, <1>3 DEF OInv, ClassesNamed
<1>8. ASSUME NEW hs2, Explains(hs2, events')
      PROVE  /\ Linked(events', hs2) /\ FunctionsOutside(events', hs2)
             /\ errors' = {} => ReturnsInside(events', hs2)
  <2>1. PICK hs : Explains(hs, events) /\ SameFrames(events, hs[l], frames)
    BY <1>2 DEF TInv, Tracked, History
  <2>2. \A i \in 0..l : hs2[i] = hs[i]
    <3>1. PICK es, es2 : es = events /\ es2 = events'
      OBVIOUS
    <3>2. Len(es) \in Nat /\ Len(es2) \in Nat /\ l <= Len(es2) /\ l <= Len(es)
      BY <1>1, <1>2, <3>1
    <3>3. Explains(hs, es) /\ Explains(hs2, es2) /\ \A i \in 1..l : es2[i] = es[i]
      BY <1>2, <1>8, <2>1, <3>1
    <3> QED
      BY <3>2, <3>3, OneHistory
  <2>3. PICK h : h = hs[l] /\ h = hs2[l] /\ h \in Seq(1..l) /\ Len(h) \in Nat
    <3>1. hs[l] \in Seq(1..l)
      BY <1>2, <2>1 DEF Explains
    <3> QED
      BY <2>2, <3>1, LenProperties
  <2>4. /\ \A j \in 1..Len(h) : h[j] \in 1..l /\ events'[h[j]] = events[h[j]]
        /\ h = <<>> <=> Len(h) = 0
        /\ frames = <<>> <=> h = <<>>
        /\ h # <<>> => /\ Len(h) \in 1..Len(h) /\ Last(h) = h[Len(h)]
                       /\ Top.kind = events[Last(h)].kind /\ Top.id = events[Last(h)].id
    <3>1. \A j \in 1..Len(h) : h[j] \in 1..l
      BY <2>3, ElementOfSeq
    <3>2. (h = <<>> <=> Len(h) = 0) /\ (frames = <<>> <=> Len(frames) = 0)
      BY <1>1, <2>3, EmptySeq DEF Nested
    <3>3. Len(frames) = Len(h) /\ \A j \in 1..Len(h) :
            frames[j].kind = events[h[j]].kind /\ frames[j].id = events[h[j]].id
      BY <2>1, <2>3 DEF SameFrames
    <3>4. h # <<>> => Len(h) \in 1..Len(h)
      BY <2>3, <3>2
    <3> QED
      BY <1>2, <3>1, <3>2, <3>3, <3>4 DEF Top, Last
  <2>5. ASSUME NEW i \in 1..l
        PROVE  /\ hs2[i - 1] = hs[i - 1] /\ hs[i - 1] \in Seq(1..l)
               /\ \A j \in 1..Len(hs[i - 1]) : events'[hs[i - 1][j]] = events[hs[i - 1][j]]
               /\ hs[i - 1] # <<>> =>
                    /\ events'[Last(hs[i - 1])] = events[Last(hs[i - 1])]
                    /\ Len(hs[i - 1]) \in 1..Len(hs[i - 1])
    <3>1. i - 1 \in 0..l
      OBVIOUS
    <3>2. PICK g : g = hs[i - 1] /\ g \in Seq(1..l)
      BY <1>2, <2>1, <3>1 DEF Explains
    <3>3. \A j \in 1..Len(g) : g[j] \in 1..l
      BY <3>2, ElementOfSeq
    <3>4. g # <<>> => Last(g) = g[Len(g)] /\ Len(g) \in 1..Len(g)
      BY <3>2, EmptySeq, LenProperties DEF Last
    <3> QED
      BY <1>2, <2>2, <3>1, <3>2, <3>3, <3>4
  <2>6. Linked(events', hs2)
    <3>1. ASSUME NEW i \in 1..l + 1
          PROVE  events'[i].within = IF hs2[i - 1] = <<>> THEN 0
                                     ELSE events'[Last(hs2[i - 1])].id
      <4>1. CASE i = l + 1
        <5>1. hs2[i - 1] = h /\ events'[i].within = WithinId
          BY <1>2, <2>3, <4>1
        <5>2. h # <<>> => events'[Last(h)] = events[Last(h)]
          BY <2>4
        <5> QED
          BY <2>4, <5>1, <5>2 DEF WithinId
      <4>2. CASE i \in 1..l
        <5>1. events[i].within = IF hs[i - 1] = <<>> THEN 0 ELSE events[Last(hs[i - 1])].id
          BY <1>2, <2>1, <4>2 DEF OInv, Linked
        <5> QED
          BY <1>2, <2>5, <4>2, <5>1
      <4> QED
        BY <1>3, <4>1, <4>2
    <3> QED
      BY <1>2, <3>1 DEF Linked
  <2>7. FunctionsOutside(events', hs2)
    <3>1. ASSUME NEW i \in 1..l + 1, events'[i].kind = "func", hs2[i - 1] # <<>>
          PROVE  IsA("class", events', hs2[i - 1], Len(hs2[i - 1]))
      <4>1. CASE i = l + 1
        <5>1. hs2[i - 1] = h /\ k = "func"
          BY <1>2, <2>3, <3>1, <4>1
        <5>2. events[h[Len(h)]].kind = "class"
          BY <2>4, <3>1, <5>1
        <5> QED
          BY <2>4, <3>1, <5>1, <5>2 DEF IsA
      <4>2. CASE i \in 1..l
        <5>1. IsA("class", events, hs[i - 1], Len(hs[i - 1]))
          BY <1>2, <2>1, <2>5, <3>1, <4>2 DEF OInv, FunctionsOutside
        <5> QED
          BY <2>5, <3>1, <4>2, <5>1 DEF IsA
      <4> QED
        BY <1>3, <4>1, <4>2
    <3> QED
      BY <1>2, <3>1 DEF FunctionsOutside
  <2>8. ASSUME errors' = {}
        PROVE  ReturnsInside(events', hs2)
    <3>1. ASSUME NEW i \in 1..l + 1, events'[i].kind = "return"
          PROVE  \E j \in 1..Len(hs2[i - 1]) : IsA("func", events', hs2[i - 1], j)
      <4>1. CASE i = l + 1
        <5>1. PICK f \in DOMAIN frames' : frames'[f].kind = "func"
          <6>1. InFunction'
            BY <1>2, <2>8, <3>1, <4>1 DEF RInv, ThisAndReturnHaveTheirPlace
          <6> QED
            BY <6>1 DEF InFunction
        <5>2. PICK hs3 : Explains(hs3, events') /\ SameFrames(events', hs3[l + 1], frames')
          BY <1>2 DEF TInv, Tracked, History
        <5>3. hs3[l + 1] = hs2[l + 1]
          <6>1. Len(events') \in Nat /\ l + 1 \in Nat /\ l + 1 <= Len(events')
            BY <1>2
          <6>2. \A x \in 0..l + 1 : hs3[x] = hs2[x]
            BY <1>8, <5>2, <6>1, OneHistory
          <6> QED
            BY <6>2
        <5>4. hs2[l + 1] = h
          <6>1. Follows(events', hs2[i], hs2[i - 1], i)
            BY <1>2, <1>8 DEF Explains
          <6>2. hs2[i] = hs2[i - 1]
            BY <3>1, <6>1 DEF Follows, Kinds, Scoped, Refs
          <6> QED
            BY <2>3, <4>1, <6>2
        <5>5. f \in 1..Len(h) /\ events'[h[f]].kind = "func"
          <6>1. frames' \in Seq(Frames)
            BY DEF RInv, Nested
          <6>2. f \in 1..Len(frames')
            BY <6>1, LenProperties
          <6> QED
            BY <5>1, <5>2, <5>3, <5>4, <6>2 DEF SameFrames
        <5>6. hs2[i - 1] = h
          BY <2>3, <4>1
        <5> QED
          BY <5>5, <5>6 DEF IsA
      <4>2. CASE i \in 1..l
        <5>1. errors = {} /\ events[i].kind = "return"
          BY <1>2, <2>8, <3>1, <4>2
        <5>2. PICK j \in 1..Len(hs[i - 1]) : IsA("func", events, hs[i - 1], j)
          BY <1>2, <2>1, <4>2, <5>1 DEF OInv, ReturnsInside
        <5> QED
          BY <2>5, <4>2, <5>2 DEF IsA
      <4> QED
        BY <1>3, <4>1, <4>2
    <3> QED
      BY <1>2, <3>1 DEF ReturnsInside
  <2> QED
    BY <2>6, <2>7, <2>8
<1> QED
  BY <1>5, <1>6, <1>7, <1>8 DEF OInv

LEMMA OUnchanged ==
  ASSUME OInv, UNCHANGED <<events, next>>, errors \subseteq errors'
  PROVE  OInv'
<1>1. errors' = {} => errors = {}
  OBVIOUS
<1> QED
  BY <1>1 DEF OInv, IdsKnown

\* A step that visits a k named n, or leaves one.
LEMMA OVisited ==
  ASSUME RInv, TInv, OInv, RInv', TInv', Flat, NEW k \in Kinds \cup Refs \cup {"return"},
         NEW n \in Names \cup {NoName}, NEW params \in Seq(Names),
         NEW b \in Int \X {"name", "param", "this", NoName},
         Visit(k, n), Record(k, n, params, b), k = "class" => n \in Names,
         errors \subseteq errors'
  PROVE  OInv'
<1>1. k = "func" => frames = <<>> \/ Top.kind = "class"
  <2>1. frames # <<>> => Top.kind \in {"func", "class", "block", "var"}
    BY Depths DEF RInv, Top, Frames, Kinds, Scoped
  <2>2. "func" \notin InnerKinds /\ "func" \notin Refs
    BY DEF Flat, Refs
  <2> QED
    BY <2>1, <2>2 DEF Visit, MayContain
<1>2. IF k \in Kinds /\ frames = <<>> THEN next' = next + 1 ELSE next' \in {next, next + 1}
  BY DEF Visit
<1>3. k \in Kinds \cup Refs \cup {"return", "exit", "endvar"}
  OBVIOUS
<1> QED
  BY <1>1, <1>2, <1>3, ORecorded

LEMMA OLeft ==
  ASSUME RInv, TInv, OInv, RInv', TInv', NEW k \in {"exit", "endvar"},
         NEW n \in Names \cup {NoName}, NEW b \in Int \X {"name", "param", "this", NoName},
         Record(k, n, <<>>, b), next' = next, errors' = errors
  PROVE  OInv'
<1>1. k \notin Kinds /\ k # "class" /\ k # "func" /\ <<>> \in Seq(Names)
  BY EmptySeq DEF Kinds, Scoped
<1>2. k \in Kinds \cup Refs \cup {"return", "exit", "endvar"} /\ next' \in {next, next + 1}
  OBVIOUS
<1> QED
  BY <1>1, <1>2, ORecorded

LEMMA OStep == ASSUME RInv, TInv, OInv, RInv', TInv', Flat, Resolve PROVE OInv'
<1>0. /\ <<>> \in Seq(Names) /\ None \in Int \X {"name", "param", "this", NoName}
      /\ frames # <<>> => Top \in Frames
  BY Depths, EmptySeq DEF RInv, Top, None
<1>k. /\ {"func", "class", "block", "var"} \subseteq Kinds
      /\ {"use", "assign", "this"} \subseteq Refs
  BY DEF Kinds, Scoped, Refs
<1>1. CASE \E k \in TopKinds : \E n \in NamesFor(k) : DeclareTop(k, n)
  <2>1. UNCHANGED <<events, next>> /\ errors \subseteq errors'
    BY <1>1, KindsKnown DEF DeclareTop
  <2> QED
    BY <2>1, OUnchanged
<1>2. CASE StartResolving \/ FinishResolving
  <2>1. UNCHANGED <<events, next>> /\ errors \subseteq errors'
    BY <1>2 DEF StartResolving, FinishResolving
  <2> QED
    BY <2>1, OUnchanged
<1>3. ASSUME NEW n \in Names, EnterClass(n)
      PROVE  OInv'
  <2>1. /\ Visit("class", n) /\ Record("class", n, <<>>, None) /\ errors \subseteq errors'
        /\ "class" \in Kinds
    BY <1>3, <1>k DEF EnterClass
  <2> QED
    BY <1>0, <2>1, OVisited
<1>4. ASSUME NEW n \in Names, DeclareVar(n)
      PROVE  OInv'
  <2>1. /\ Visit("var", n) /\ Record("var", n, <<>>, None) /\ errors \subseteq errors'
        /\ "var" \in Kinds
    BY <1>4, <1>k DEF DeclareVar
  <2> QED
    BY <1>0, <2>1, OVisited
<1>5. ASSUME NEW n \in Names, NEW ps \in BoundedSeq(Names, MaxParams), EnterFunction(n, ps)
      PROVE  OInv'
  <2>1. /\ Visit("func", n) /\ Record("func", n, ps, None) /\ errors \subseteq errors'
        /\ "func" \in Kinds
    BY <1>5, <1>k DEF EnterFunction
  <2>2. Id \in Int
    BY <2>1, Visited DEF RInv
  <2>3. ps \in Seq(Names)
    BY <2>2, Parameters
  <2> QED
    BY <1>0, <2>1, <2>3, OVisited
<1>6. CASE EnterBlock
  <2>1. /\ Visit("block", NoName) /\ Record("block", NoName, <<>>, None)
        /\ errors \subseteq errors' /\ "block" \in Kinds
    BY <1>6, <1>k DEF EnterBlock
  <2> QED
    BY <1>0, <2>1, OVisited
<1>7. CASE Leave
  <2>1. /\ frames # <<>> /\ Record("exit", Top.name, <<>>, None) /\ UNCHANGED <<next, errors>>
    BY <1>7 DEF Leave, Within, Scoped
  <2>2. Top.name \in Names \cup {NoName}
    BY <1>0, <2>1 DEF Frames
  <2> QED
    BY <1>0, <2>1, <2>2, OLeft
<1>8. CASE DefineVar
  <2>1. /\ frames # <<>> /\ Record("endvar", Top.name, <<>>, <<Top.id, "name">>)
        /\ UNCHANGED <<next, errors>>
    BY <1>8 DEF DefineVar, Within
  <2>2. PICK d : d = <<Top.id, "name">>
    OBVIOUS
  <2>3. Top.name \in Names \cup {NoName} /\ d \in Int \X {"name", "param", "this", NoName}
    BY <1>0, <2>1, <2>2 DEF Frames
  <2> QED
    BY <2>1, <2>2, <2>3, OLeft
<1>9. ASSUME NEW n \in Names, Variable(n)
      PROVE  OInv'
  <2>1. /\ Visit("use", n) /\ Record("use", n, <<>>, Bound(n)) /\ errors \subseteq errors'
        /\ "use" \in Refs
    BY <1>9, <1>k DEF Variable
  <2>2. Bound(n) \in Int \X {"name", "param", "this", NoName}
    BY BoundTyped DEF RInv
  <2> QED
    BY <1>0, <2>1, <2>2, OVisited
<1>10. ASSUME NEW n \in Names, Assignment(n)
       PROVE  OInv'
  <2>1. /\ Visit("assign", n) /\ Record("assign", n, <<>>, Bound(n)) /\ errors \subseteq errors'
        /\ "assign" \in Refs
    BY <1>10, <1>k DEF Assignment
  <2>2. Bound(n) \in Int \X {"name", "param", "this", NoName}
    BY BoundTyped DEF RInv
  <2> QED
    BY <1>0, <2>1, <2>2, OVisited
<1>11. CASE This
  <2>1. /\ Visit("this", NoName) /\ Record("this", NoName, <<>>, Bound("this"))
        /\ errors \subseteq errors' /\ "this" \in Refs
    BY <1>11, <1>k DEF This
  <2>2. Bound("this") \in Int \X {"name", "param", "this", NoName}
    BY BoundTyped DEF RInv
  <2> QED
    BY <1>0, <2>1, <2>2, OVisited
<1>12. CASE ReturnStmt
  <2>1. /\ Visit("return", NoName) /\ Record("return", NoName, <<>>, None)
        /\ errors \subseteq errors'
    BY <1>12 DEF ReturnStmt
  <2> QED
    BY <1>0, <2>1, OVisited
<1>i. CASE InIndex
  <2>1. PICK k \in Refs, n \in Names \cup {NoName} :
          /\ k \notin {"use", "assign", "this", "return"}
          /\ Visit(k, n) /\ Record(k, n, <<>>, None)
          /\ None \in Int \X {"name", "param", "this", NoName}
          /\ errors' = errors /\ errors \subseteq errors'
          /\ UNCHANGED <<scopes, current_class, current_function, frames>>
    BY <1>i, IndexedRefers
  <2>2. k \in Kinds \cup Refs \cup {"return"} /\ k # "class"
    BY <2>1 DEF Refs
  <2> QED
    BY <1>0, <2>1, <2>2, OVisited
<1> QED
  BY <1>1, <1>2, <1>3, <1>4, <1>5, <1>6, <1>7, <1>8, <1>9, <1>10, <1>11, <1>12, <1>i, IndexedKinds
  DEF Resolve

LEMMA OStart == BindingInit => OInv
<1> SUFFICES ASSUME BindingInit PROVE OInv
  OBVIOUS
<1>1. events = <<>>
  BY DEF BindingInit, Init
<1>2. Len(events) = 0
  BY <1>1, EmptySeq
<1> QED
  BY <1>2 DEF OInv, IdsKnown, IdsDiffer, ClassesNamed, Linked, FunctionsOutside, ReturnsInside

-----------------------------------------------------------------------------
(* What the GlobalHoister and the TypeChecker find around an event. *)

Told(hs) ==
  /\ Len(events) \in Nat /\ DOMAIN events = 1..Len(events)
  /\ Explains(hs, events) /\ Linked(events, hs) /\ IdsDiffer(events)
  /\ ClassesNamed(events) /\ FunctionsOutside(events, hs)

LEMMA AllTold ==
  ASSUME RInv, OInv, NEW hs, Explains(hs, events)
  PROVE  Told(hs)
<1>1. Len(events) \in Nat /\ DOMAIN events = 1..Len(events)
  BY LenProperties DEF RInv, Shapes
<1> QED
  BY <1>1 DEF OInv, Told

\* A statement an event is inside of is one the history lists before it.
LEMMA InsideIsListed ==
  ASSUME NEW hs, Told(hs), NEW i \in 1..Len(events),
         events[i].kind \in Kinds \cup {"return"},
         NEW c \in 1..Len(events), events[c].kind \in Scoped
  PROVE  Inside(i, c) <=> Listed(hs[i - 1], c)
<1>1. PICK n \in Nat : n = Len(events)
  BY DEF Told
<1>2. i \in 1..n /\ i - 1 \in 0..n /\ i \in 0..n
  BY <1>1
<1>3. PICK h, g : h = hs[i - 1] /\ g = hs[i]
  OBVIOUS
<1>4. /\ h \in Seq(1..n) /\ Follows(events, g, h, i) /\ InOrder(events, h, i - 1)
      /\ InOrder(events, g, i)
  <2>1. Explains(hs, events)
    BY DEF Told
  <2>2. h \in Seq(1..n) /\ Follows(events, g, h, i)
    BY <1>1, <1>2, <1>3, <2>1 DEF Explains
  <2>3. InOrder(events, hs[i - 1], i - 1) /\ InOrder(events, hs[i], i)
    BY <1>1, <1>2, <2>1, HistoryInOrder
  <2> QED
    BY <1>3, <2>2, <2>3
<1>5. Len(h) \in Nat
  BY <1>4, LenProperties
<1>6. Listed(h, c) <=> c # i /\ Listed(g, c)
  <2>1. CASE g = Append(h, i)
    <3>1. Len(g) = Len(h) + 1 /\ g[Len(h) + 1] = i /\ \A j \in 1..Len(h) : g[j] = h[j]
      BY <1>2, <1>4, <2>1, PushedAs
    <3>2. /\ \A j \in 1..Len(g) : j \in 1..Len(h) \/ j = Len(h) + 1
          /\ \A j \in 1..Len(h) : j \in 1..Len(g)
      BY <1>5, <3>1
    <3>3. \A j \in 1..Len(h) : h[j] # i
      BY <1>2, <1>4 DEF InOrder
    <3> QED
      BY <3>1, <3>2, <3>3 DEF Listed
  <2>2. CASE events[i].kind = "return" /\ g = h
    <3>1. events[i].kind \notin Kinds
      BY <2>2 DEF Kinds, Scoped
    <3>2. \A j \in 1..Len(g) : g[j] # i
      BY <1>4, <3>1 DEF InOrder
    <3> QED
      BY <2>2, <3>2 DEF Listed
  <2> QED
    BY <1>4, <2>1, <2>2 DEF Follows, Kinds, Scoped, Refs
<1>7. CASE c < i
  <2>1. i \in c..Len(events) /\ Explains(hs, events) /\ Linked(events, hs) /\ IdsDiffer(events)
        /\ Len(events) \in Nat
    BY <1>1, <1>2, <1>7 DEF Told
  <2>2. Listed(hs[i], c) <=> ~Ended(events, c, i)
    BY <2>1, ListedUntilEnded
  <2> QED
    BY <1>3, <1>6, <1>7, <2>2 DEF Inside, Ended
<1>8. CASE ~(c < i)
  <2>1. ~Listed(h, c)
    <3>1. \A j \in 1..Len(h) : h[j] \in 1..i - 1
      BY <1>4 DEF InOrder
    <3>2. \A j \in 1..Len(h) : h[j] # c
      BY <1>2, <1>8, <3>1
    <3> QED
      BY <3>2 DEF Listed
  <2> QED
    BY <1>3, <1>8, <2>1 DEF Inside
<1> QED
  BY <1>7, <1>8

Around(k, i) == {c \in Of(k) : Inside(i, c)}

\* The last of the statements around an event is the innermost one.
LEMMA LastIsInnermost ==
  ASSUME NEW hs, Told(hs), NEW i \in 1..Len(events),
         events[i].kind \in Kinds \cup {"return"}, NEW k \in Scoped,
         NEW h, h = hs[i - 1]
  PROVE  /\ (\A j \in 1..Len(h) : ~IsA(k, events, h, j)) => Around(k, i) = {}
         /\ \A j : Innermost(k, events, h, Len(h), j) =>
              Around(k, i) # {} /\ Max(Around(k, i)) = h[j] /\ h[j] \in Around(k, i)
<1>1. PICK n \in Nat : n = Len(events) /\ DOMAIN events = 1..n
  BY DEF Told
<1>2. h \in Seq(1..n) /\ InOrder(events, h, i - 1)
  <2>1. Explains(hs, events) /\ i - 1 \in 0..n
    BY <1>1 DEF Told
  <2> QED
    BY <1>1, <2>1, HistoryInOrder DEF Explains
<1>3. Len(h) \in Nat /\ \A j \in 1..Len(h) : h[j] \in 1..n
  BY <1>2, LenProperties, ElementOfSeq
<1>4. \A c : c \in Around(k, i) <=> \E j \in 1..Len(h) : h[j] = c /\ IsA(k, events, h, j)
  <2>1. ASSUME NEW c \in 1..n, events[c].kind = k
        PROVE  Inside(i, c) <=> \E j \in 1..Len(h) : h[j] = c
    BY <1>1, <2>1, InsideIsListed DEF Listed
  <2>2. \A c : c \in Around(k, i) <=> c \in 1..n /\ events[c].kind = k /\ Inside(i, c)
    BY <1>1 DEF Around, Of
  <2> QED
    BY <1>3, <2>1, <2>2 DEF IsA
<1>5. ASSUME NEW j, Innermost(k, events, h, Len(h), j)
      PROVE  Around(k, i) # {} /\ Max(Around(k, i)) = h[j] /\ h[j] \in Around(k, i)
  <2>1. /\ j \in 1..Len(h) /\ IsA(k, events, h, j)
        /\ \A m \in j + 1..Len(h) : ~IsA(k, events, h, m)
    BY <1>5 DEF Innermost
  <2>2. h[j] \in Around(k, i)
    BY <1>4, <2>1
  <2>3. ASSUME NEW c \in Around(k, i)
        PROVE  c <= h[j] /\ c \in Int
    <3>1. PICK m \in 1..Len(h) : h[m] = c /\ IsA(k, events, h, m)
      BY <1>4
    <3>2. m <= j
      BY <1>3, <2>1, <3>1
    <3>3. m = j \/ h[m] < h[j]
      BY <1>2, <1>3, <2>1, <3>2 DEF InOrder
    <3> QED
      BY <1>3, <2>1, <3>1, <3>3
  <2>4. PICK S : S = Around(k, i)
    OBVIOUS
  <2>5. \A x \in S : (\A y \in S : x >= y) <=> x = h[j]
    BY <2>2, <2>3, <2>4
  <2>6. Max(S) = h[j]
    BY <2>2, <2>4, <2>5 DEF Max
  <2> QED
    BY <2>2, <2>4, <2>6
<1> QED
  BY <1>4, <1>5

LEMMA HasInnermost ==
  ASSUME NEW k, NEW es, NEW h, Len(h) \in Nat, NEW j \in 1..Len(h), IsA(k, es, h, j)
  PROVE  \E l : Innermost(k, es, h, Len(h), l)
<1> DEFINE S == {l \in 1..Len(h) : IsA(k, es, h, l)}
<1>1. S # {} /\ S \subseteq 1..Len(h)
  OBVIOUS
<1>2. Max(S) \in S /\ \A x \in S : x <= Max(S)
  BY <1>1, MaxOfBounded
<1>3. PICK l \in S : \A x \in S : x <= l
  BY <1>2
<1> QED
  BY <1>3 DEF Innermost

-----------------------------------------------------------------------------
(* The function whose type the TypeChecker holds. *)

TopFunctions == {i \in Of("func") : HoistedIn(i) = {}}

FunctionsTyped == \A i \in TopFunctions : fn_types[events[i].name][1] = events[i].id

Returning == \A hs : Explains(hs, events) =>
               SameOpen("func", events, hs[pos], open, enclosing_fn)

FInv ==
  /\ stage = "resolver" => pos = 0 /\ open = <<>> /\ enclosing_fn = 0
  /\ stage # "resolver" => FunctionsTyped /\ (MethodsDiffer => Returning)

\* A function that is hoisted stands at the top level.
LEMMA HoistedAtTop ==
  ASSUME RInv, TInv, OInv, NEW i \in TopFunctions
  PROVE  i \in 1..Len(events) /\ events[i].kind = "func" /\ events[i].within = 0
<1>1. PICK hs : Explains(hs, events)
  BY DEF TInv, Tracked, History
<1>2. Told(hs)
  BY <1>1, AllTold
<1>3. i \in 1..Len(events) /\ events[i].kind = "func" /\ HoistedIn(i) = {}
  BY <1>2 DEF TopFunctions, Of, Told
<1>4. PICK h : h = hs[i - 1]
  OBVIOUS
<1>5. h = <<>>
  <2> SUFFICES ASSUME h # <<>>
               PROVE  FALSE
    OBVIOUS
  <2>1. IsA("class", events, h, Len(h)) /\ h \in Seq(1..Len(events))
    <3>1. i - 1 \in 0..Len(events)
      BY <1>2, <1>3 DEF Told
    <3> QED
      BY <1>1, <1>2, <1>3, <1>4, <3>1 DEF Told, FunctionsOutside, Explains
  <2>2. Len(h) \in Nat \ {0}
    BY <2>1, EmptySeq, LenProperties
  <2>3. Innermost("class", events, h, Len(h), Len(h))
    BY <2>1, <2>2 DEF Innermost
  <2>4. "class" \in Scoped /\ events[i].kind \in Kinds \cup {"return"}
    BY <1>3 DEF Scoped, Kinds
  <2>5. Around("class", i) # {}
    BY <1>2, <1>3, <1>4, <2>3, <2>4, LastIsInnermost
  <2> QED
    BY <1>3, <2>5 DEF Around, HoistedIn
<1> QED
  BY <1>2, <1>3, <1>4, <1>5 DEF Told, Linked

LEMMA HoistTypes ==
  ASSUME RInv, TInv, OInv, DInv, Hoist
  PROVE  FunctionsTyped'
<1>1. /\ errors = {} /\ UNCHANGED events
      /\ fn_types' = [n \in {events[i].name : i \in TopFunctions} |->
                        <<events[Latest(TopFunctions, n)].id, "name">>]
  BY DEF Hoist, TopFunctions, resolverVars
<1>2. DuplicatesReported /\ IdsDiffer(events) /\ DOMAIN events = 1..Len(events)
      /\ Len(events) \in Nat
  BY <1>1, LenProperties DEF DInv, OInv, RInv, Shapes
<1>3. ASSUME NEW i \in TopFunctions, NEW j \in TopFunctions, events[i].name = events[j].name
      PROVE  i = j
  <2>1. /\ i \in 1..Len(events) /\ events[i].kind = "func" /\ events[i].within = 0
        /\ j \in 1..Len(events) /\ events[j].kind = "func" /\ events[j].within = 0
    BY HoistedAtTop
  <2>2. ~\E c \in DOMAIN events : events[c].kind = "class" /\ events[c].id = 0
    <3>1. "class" \in Kinds
      BY DEF Kinds, Scoped
    <3> QED
      BY <1>2, <3>1 DEF IdsDiffer
  <2>3. \A x, y \in 1..Len(events) :
          x < y /\ events[x].kind = "func" /\ events[y].kind = "func"
          /\ events[x].within = 0 /\ events[y].within = 0 => events[x].name # events[y].name
    BY <1>1, <1>2, <2>2 DEF DuplicatesReported
  <2> QED
    BY <1>2, <1>3, <2>1, <2>3
<1>4. ASSUME NEW i \in TopFunctions
      PROVE  fn_types'[events[i].name][1] = events[i].id
  <2>1. PICK S : S = {j \in TopFunctions : events[j].name = events[i].name}
    OBVIOUS
  <2>2. S = {i} /\ i \in Int
    BY <1>3, <2>1, HoistedAtTop
  <2>3. Max(S) = i
    BY <2>2 DEF Max
  <2>4. Latest(TopFunctions, events[i].name) = i
    BY <2>1, <2>3 DEF Latest
  <2>5. fn_types'[events[i].name] = <<events[i].id, "name">>
    BY <1>1, <2>4
  <2> QED
    BY <2>5
<1>5. TopFunctions' = TopFunctions
  BY <1>1 DEF TopFunctions, Of, HoistedIn, Inside
<1> QED
  BY <1>1, <1>4, <1>5 DEF FunctionsTyped

\* The type a function's body is checked with is its own.
LEMMA OwnType ==
  ASSUME RInv, TInv, OInv, FInv, MethodsDiffer, CheckFunc
  PROVE  enclosing_fn' = Next1.id
<1>1. PICK hs : Tracked(hs)
  BY DEF TInv
<1>2. Told(hs)
  BY <1>1, AllTold DEF Tracked, History
<1>3. PICK p \in 1..Len(events) : /\ p = pos + 1 /\ p - 1 = pos /\ events[p] = Next1
                                  /\ events[p].kind = "func" /\ pos \in 0..Len(events)
  BY <1>2 DEF CheckFunc, Walk, Next1, TInv, Told
<1>4. PICK h : h = hs[pos] /\ h \in Seq(1..Len(events)) /\ Len(h) \in Nat
  <2>1. hs[pos] \in Seq(1..Len(events))
    BY <1>2, <1>3 DEF Told, Explains
  <2> QED
    BY <2>1, LenProperties
<1>5. EnclosedBy("class", events, h, Len(h), enclosing_class)
  BY <1>1, <1>4 DEF Tracked, SameOpen
<1>6. /\ "class" \in Scoped /\ events[p].kind \in Kinds \cup {"return"} /\ h = hs[p - 1]
      /\ Around("class", p) = HoistedIn(p) /\ p \in Of("func")
  BY <1>2, <1>3, <1>4 DEF Scoped, Kinds, Around, HoistedIn, Of, Told
<1>7. stage = "check" /\ enclosing_fn' = IF enclosing_class # NoName THEN MethodNamed(Next1.name)
                                         ELSE fn_types[Next1.name][1]
  BY DEF CheckFunc, Walk
<1>8. CASE \E j \in 1..Len(h) : Innermost("class", events, h, Len(h), j)
                                /\ enclosing_class = events[h[j]].name
  <2>1. PICK j \in 1..Len(h) : /\ Innermost("class", events, h, Len(h), j)
                               /\ enclosing_class = events[h[j]].name
    BY <1>8
  <2>2. HoistedIn(p) # {} /\ Max(HoistedIn(p)) = h[j]
    BY <1>2, <1>6, <2>1, LastIsInnermost
  <2>3. enclosing_class # NoName
    <3>1. h[j] \in 1..Len(events) /\ events[h[j]].kind = "class"
      BY <1>4, <2>1, ElementOfSeq DEF Innermost, IsA
    <3> QED
      BY <1>2, <2>1, <3>1, NoNameIsNone DEF Told, ClassesNamed
  <2>4. PICK ms : ms = {i \in Of("func") : /\ events[i].name = Next1.name
                                           /\ HoistedIn(i) # {}
                                           /\ events[Max(HoistedIn(i))].name = enclosing_class}
    OBVIOUS
  <2>5. ms = {p}
    <3>1. /\ p \in Of("func") /\ HoistedIn(p) # {} /\ events[p].name = Next1.name
          /\ events[Max(HoistedIn(p))].name = enclosing_class
      BY <1>3, <1>6, <2>1, <2>2
    <3>2. ASSUME NEW i \in Of("func"), HoistedIn(i) # {}, events[i].name = events[p].name,
                 events[Max(HoistedIn(i))].name = events[Max(HoistedIn(p))].name
          PROVE  i = p
      BY <3>1, <3>2 DEF MethodsDiffer
    <3> QED
      BY <2>4, <3>1, <3>2
  <2>6. Min(ms) = p
    BY <1>3, <2>5 DEF Min
  <2>7. MethodNamed(Next1.name) = events[p].id
    BY <2>4, <2>6 DEF MethodNamed
  <2> QED
    BY <1>3, <1>7, <2>3, <2>7
<1>9. CASE (\A j \in 1..Len(h) : ~IsA("class", events, h, j)) /\ enclosing_class = NoName
  <2>1. HoistedIn(p) = {}
    BY <1>2, <1>6, <1>9, LastIsInnermost
  <2>2. p \in TopFunctions
    BY <1>6, <2>1 DEF TopFunctions
  <2>3. fn_types[events[p].name][1] = events[p].id
    BY <1>7, <2>2 DEF FInv, FunctionsTyped
  <2> QED
    BY <1>3, <1>7, <1>9, <2>3
<1> QED
  BY <1>5, <1>8, <1>9 DEF EnclosedBy, Meant, Nothing

LEMMA MethodsStay == UNCHANGED events => (MethodsDiffer' <=> MethodsDiffer)
BY DEF MethodsDiffer, HoistedIn, Of, Inside

\* A step over an event does for the functions what it does for the history's.
LEMMA FWalked ==
  ASSUME RInv, TInv, FInv, NEW k, Walk(k), stage' # "resolver",
         NEW i, i = pos + 1,
         MethodsDiffer =>
           \A h, g : /\ IsList(h) /\ IsList(g) /\ Follows(events, g, h, i)
                     /\ SameOpen("func", events, h, open, enclosing_fn)
                     => SameOpen("func", events, g, open', enclosing_fn')
  PROVE  FInv'
<1>1. /\ stage = "check" /\ pos' = i /\ pos < Len(events) /\ pos \in 0..Len(events)
      /\ UNCHANGED <<events, fn_types>> /\ Len(events) \in Nat
  BY LenProperties DEF Walk, resolverVars, TInv, RInv, Shapes
<1>2. FunctionsTyped'
  BY <1>1 DEF FInv, FunctionsTyped, TopFunctions, Of, HoistedIn, Inside
<1>3. ASSUME MethodsDiffer', NEW hs, Explains(hs, events')
      PROVE  SameOpen("func", events', hs[pos'], open', enclosing_fn')
  <2>1. MethodsDiffer /\ Explains(hs, events)
    BY <1>1, <1>3, MethodsStay
  <2>2. SameOpen("func", events, hs[pos], open, enclosing_fn)
    BY <1>1, <2>1 DEF FInv, Returning
  <2>3. i \in 1..Len(events) /\ i \in 0..Len(events) /\ i - 1 = pos
    BY <1>1
  <2>4. hs[pos] \in Seq(1..Len(events)) /\ hs[i] \in Seq(1..Len(events))
    BY <1>1, <2>1, <2>3 DEF Explains
  <2>5. IsList(hs[pos]) /\ IsList(hs[i])
    BY <2>4, ListOf
  <2>6. Follows(events, hs[i], hs[pos], i)
    BY <2>1, <2>3 DEF Explains
  <2>7. SameOpen("func", events, hs[i], open', enclosing_fn')
    BY <2>1, <2>2, <2>5, <2>6
  <2> QED
    BY <1>1, <2>7
<1> QED
  BY <1>2, <1>3 DEF FInv, Returning

LEMMA FOpened ==
  ASSUME RInv, TInv, FInv, NEW k \in Kinds, Walk(k), NEW s, Opened(s), stage' = stage,
         MethodsDiffer => enclosing_fn' = IF k = "func" THEN Next1.id ELSE enclosing_fn
  PROVE  FInv'
<1>1. PICK i \in Nat : i = pos + 1 /\ events[i].kind = k /\ events[i] = Next1
  BY DEF Walk, Next1, TInv
<1>2. PICK f : /\ f.kind = events[i].kind /\ Saved("func", f) = enclosing_fn
               /\ open' = Append(open, f)
  BY <1>1 DEF Opened, Saved
<1>3. k \notin {"exit", "endvar", "return"} \cup Refs /\ stage' # "resolver"
  BY DEF Kinds, Scoped, Refs, Walk
<1>4. ASSUME MethodsDiffer, NEW h, NEW g, IsList(h), IsList(g), Follows(events, g, h, i),
             SameOpen("func", events, h, open, enclosing_fn)
      PROVE  SameOpen("func", events, g, open', enclosing_fn')
  <2>1. g = Append(h, i)
    BY <1>1, <1>3, <1>4 DEF Follows
  <2>2. PICK op2, c2 : /\ op2 = open' /\ op2 = Append(open, f) /\ c2 = enclosing_fn'
                       /\ c2 = IF events[i].kind = "func" THEN Meant("func", events[i])
                               ELSE enclosing_fn
    BY <1>1, <1>2, <1>4 DEF Meant
  <2>3. SameOpen("func", events, g, op2, c2)
    BY <1>2, <1>4, <2>1, <2>2, CPushed
  <2> QED
    BY <2>2, <2>3
<1> QED
  BY <1>1, <1>3, <1>4, FWalked

LEMMA FClosed ==
  ASSUME RInv, TInv, FInv, NEW k \in {"exit", "endvar"}, Walk(k), open' = Front(open),
         stage' = stage,
         enclosing_fn' = IF k = "exit" /\ Last(open).kind = "func" THEN Last(open).fn
                         ELSE enclosing_fn
  PROVE  FInv'
<1>1. PICK i \in Nat : i = pos + 1 /\ events[i].kind = k
  BY DEF Walk, Next1, TInv
<1>2. k \notin Refs \cup {"return"} \cup Kinds /\ stage' # "resolver"
  BY DEF Kinds, Scoped, Refs, Walk
<1>3. ASSUME NEW h, NEW g, IsList(h), IsList(g), Follows(events, g, h, i),
             SameOpen("func", events, h, open, enclosing_fn)
      PROVE  SameOpen("func", events, g, open', enclosing_fn')
  <2>1. /\ h # <<>> /\ g = Front(h)
        /\ k = "endvar" <=> events[h[Len(h)]].kind = "var"
    BY <1>1, <1>2, <1>3 DEF Follows
  <2>2. PICK n \in Nat : n = Len(h) /\ n = Len(open) /\ n # 0
    BY <1>3, <2>1, ListLength DEF SameOpen
  <2>3. n \in 1..Len(h)
    BY <2>2
  <2>4. open[n].kind = events[h[n]].kind
    BY <1>3, <2>3 DEF SameOpen
  <2>5. Last(open) = open[n]
    BY <2>2 DEF Last
  <2>6. PICK op2, c2 : /\ op2 = open' /\ op2 = Front(open) /\ c2 = enclosing_fn'
                       /\ c2 = IF events[h[Len(h)]].kind = "func" THEN Saved("func", open[Len(h)])
                               ELSE enclosing_fn
    BY <2>1, <2>2, <2>4, <2>5 DEF Saved
  <2>7. SameOpen("func", events, g, op2, c2)
    BY <1>3, <2>1, <2>6, CPopped
  <2> QED
    BY <2>6, <2>7
<1> QED
  BY <1>1, <1>2, <1>3, FWalked

LEMMA FKept ==
  ASSUME RInv, TInv, FInv, NEW k \in Refs \cup {"return"}, Walk(k),
         UNCHANGED <<open, enclosing_fn>>, stage' # "resolver"
  PROVE  FInv'
<1>1. PICK i \in Nat : i = pos + 1 /\ events[i].kind = k
  BY DEF Walk, Next1, TInv
<1>2. k \notin {"exit", "endvar"} \cup Kinds
  BY DEF Kinds, Scoped, Refs
<1>3. ASSUME NEW h, NEW g, IsList(h), IsList(g), Follows(events, g, h, i),
             SameOpen("func", events, h, open, enclosing_fn)
      PROVE  SameOpen("func", events, g, open', enclosing_fn')
  BY <1>1, <1>2, <1>3 DEF Follows
<1> QED
  BY <1>1, <1>3, FWalked

LEMMA FElsewhere ==
  ASSUME FInv, UNCHANGED <<events, fn_types, pos, open, enclosing_fn>>,
         stage = "resolver" <=> stage' = "resolver"
  PROVE  FInv'
<1>1. FunctionsTyped => FunctionsTyped'
  BY DEF FunctionsTyped, TopFunctions, Of, HoistedIn, Inside
<1>2. MethodsDiffer' => MethodsDiffer
  BY MethodsStay
<1>3. Returning => Returning'
  BY DEF Returning
<1> QED
  BY <1>1, <1>2, <1>3 DEF FInv

LEMMA FStep == ASSUME RInv, TInv, OInv, DInv, FInv, [Next]_vars PROVE FInv'
<1>k. {"func", "class", "block", "var"} \subseteq Kinds
  BY DEF Kinds, Scoped
<1>1. CASE Resolving
  BY <1>1 DEF Resolving, FInv
<1>2. CASE Hoist
  <2>1. /\ stage = "resolver" /\ stage' # "resolver" /\ UNCHANGED <<events, pos, open, enclosing_fn>>
        /\ pos = 0 /\ open = <<>> /\ enclosing_fn = 0
    BY <1>2 DEF Hoist, resolverVars, FInv
  <2>2. Returning'
    <3>1. ASSUME NEW hs, Explains(hs, events')
          PROVE  SameOpen("func", events', hs[pos'], open', enclosing_fn')
      <4>1. PICK h : h = hs[pos'] /\ h = <<>> /\ Len(h) = 0
        BY <2>1, <3>1, EmptySeq DEF Explains
      <4>2. IsList(open') /\ Len(open') = 0
        BY <2>1, ListOf, EmptySeq
      <4>3. SameOpen("func", events', h, open', enclosing_fn')
        BY <2>1, <4>1, <4>2 DEF SameOpen, EnclosedBy, Nothing
      <4> QED
        BY <4>1, <4>3
    <3> QED
      BY <3>1 DEF Returning
  <2>3. FunctionsTyped'
    BY <1>2, HoistTypes
  <2> QED
    BY <2>1, <2>2, <2>3 DEF FInv
<1>3. CASE CheckBlock
  <2>1. Walk("block") /\ Opened(FALSE) /\ enclosing_fn' = enclosing_fn /\ stage' = stage
    BY <1>3 DEF CheckBlock
  <2> QED
    BY <1>k, <2>1, FOpened
<1>4. CASE CheckFunc
  <2>1. Walk("func") /\ Opened(FALSE) /\ stage' = stage
    BY <1>4 DEF CheckFunc
  <2>2. MethodsDiffer => enclosing_fn' = Next1.id
    BY <1>4, OwnType
  <2> QED
    BY <1>k, <2>1, <2>2, FOpened
<1>5. CASE CheckClass
  <2>1. Walk("class") /\ Opened(FALSE) /\ enclosing_fn' = enclosing_fn /\ stage' = stage
    BY <1>5 DEF CheckClass
  <2> QED
    BY <1>k, <2>1, FOpened
<1>6. CASE CheckVar
  <2>1. PICK s : s = NamesType(Next1.name)
    OBVIOUS
  <2>2. Walk("var") /\ Opened(s) /\ enclosing_fn' = enclosing_fn /\ stage' = stage
    BY <1>6, <2>1 DEF CheckVar
  <2> QED
    BY <1>k, <2>2, FOpened
<1>7. CASE CheckExit
  <2>1. /\ Walk("exit") /\ open' = Front(open) /\ stage' = stage
        /\ enclosing_fn' = IF Last(open).kind = "func" THEN Last(open).fn ELSE enclosing_fn
    BY <1>7 DEF CheckExit
  <2> QED
    BY <2>1, FClosed
<1>8. CASE CheckEndVar
  <2>1. /\ Walk("endvar") /\ open' = Front(open) /\ enclosing_fn' = enclosing_fn
        /\ stage' = stage
    BY <1>8 DEF CheckEndVar
  <2> QED
    BY <2>1, FClosed
<1>9. CASE CheckVariable
  BY <1>9, FKept DEF CheckVariable, Refs, Walk
<1>10. CASE CheckAssignment
  BY <1>10, FKept DEF CheckAssignment, Refs, Walk
<1>11. CASE CheckThis
  BY <1>11, FKept DEF CheckThis, Refs, Walk
<1>12. CASE CheckReturn
  BY <1>12, FKept DEF CheckReturn, Walk
<1>13. CASE FinishCheck
  <2>1. /\ stage = "check" /\ stage' = "done"
        /\ UNCHANGED <<events, fn_types, pos, open, enclosing_fn>>
    BY <1>13 DEF FinishCheck, resolverVars
  <2> QED
    BY <2>1, FElsewhere
<1>14. CASE UNCHANGED vars
  <2>1. UNCHANGED <<events, fn_types, pos, open, enclosing_fn, stage>>
    BY <1>14 DEF vars, resolverVars
  <2> QED
    BY <2>1, FElsewhere
<1> QED
  BY <1>1, <1>2, <1>3, <1>4, <1>5, <1>6, <1>7, <1>8, <1>9, <1>10, <1>11, <1>12, <1>13,
     <1>14 DEF Next

LEMMA ReturnFinds ==
  ASSUME RInv, TInv, OInv, FInv
  PROVE  ReturnHasOwnType
<1> SUFFICES ASSUME About("return"), MethodsDiffer
             PROVE  enclosing_fn = events[Own].id
  BY DEF ReturnHasOwnType
<1>1. PICK hs : Explains(hs, events)
  BY DEF TInv, Tracked, History
<1>2. Told(hs)
  BY <1>1, AllTold
<1>3. PICK p \in 1..Len(events) : /\ p = pos + 1 /\ p - 1 = pos /\ events[p].kind = "return"
                                  /\ pos \in 0..Len(events) /\ stage = "check" /\ errors = {}
  BY <1>2 DEF About, Next1, TInv, Told
<1>4. PICK h : h = hs[pos] /\ h = hs[p - 1] /\ h \in Seq(1..Len(events)) /\ Len(h) \in Nat
  <2>1. hs[pos] \in Seq(1..Len(events))
    BY <1>1, <1>3 DEF Explains
  <2> QED
    BY <1>3, <2>1, LenProperties
<1>5. PICK m \in 1..Len(h) : IsA("func", events, h, m)
  BY <1>1, <1>3, <1>4 DEF OInv, ReturnsInside
<1>6. EnclosedBy("func", events, h, Len(h), enclosing_fn)
  BY <1>1, <1>3, <1>4 DEF FInv, Returning, SameOpen
<1>7. PICK j \in 1..Len(h) : /\ Innermost("func", events, h, Len(h), j)
                             /\ enclosing_fn = events[h[j]].id
  BY <1>5, <1>6 DEF EnclosedBy, Meant
<1>8. "func" \in Scoped /\ events[p].kind \in Kinds \cup {"return"}
  BY <1>3 DEF Scoped
<1>9. Max(Around("func", p)) = h[j]
  BY <1>2, <1>4, <1>7, <1>8, LastIsInnermost
<1>10. Own = h[j]
  BY <1>3, <1>9 DEF Own, Around
<1> QED
  BY <1>7, <1>10

(* Where functions and classes are not nested in blocks, a return is checked
   against the type of the function it stands in, unless a class has two methods
   of one name: a method is found by its class, a function by its name, of which
   the program has no other (type-checker.cc:138-144, 203-224, global-hoister.cc:155-163). *)
THEOREM ReturnsTyped == ASSUME Flat PROVE Spec => []ReturnHasOwnType
<1>1. BindingInit => FInv
  BY DEF BindingInit, FInv
<1>2. Spec => []TInv
  BY CStart, CStep, ResolverShapes, PTL DEF Spec
<1>3. RInv /\ RInv' /\ TInv /\ TInv' /\ OInv /\ [Next]_vars => OInv'
  <2>1. OInv /\ UNCHANGED resolverVars => OInv'
    BY OUnchanged DEF resolverVars
  <2> QED
    BY <2>1, OStep, OthersLeave DEF vars
<1>4. Spec => []OInv
  BY OStart, ResolverShapes, <1>2, <1>3, PTL DEF Spec
<1>5. RInv /\ TInv /\ OInv /\ DInv /\ FInv /\ [Next]_vars => FInv'
  BY FStep
<1>6. RInv /\ TInv /\ OInv /\ FInv => ReturnHasOwnType
  BY ReturnFinds
<1> QED
  BY ResolverShapes, Declared, <1>1, <1>2, <1>4, <1>5, <1>6, PTL DEF Spec
-----------------------------------------------------------------------------
(* What a name stands for, to the Resolver and to the TypeChecker. *)

\* A scope as the TypeChecker knows it: its symbols, by name.
Symbols == [Names -> Decls \cup {Absent}]
NoSymbols == [n \in Names |-> Absent]

\* The functions and classes at the top level, which the first pass declares.
Global(tp, k, n) == \E q \in 1..Len(tp) : tp[q].kind = k /\ tp[q].name = n
GlobalIs(tp, k, n, d) ==
  \E q \in 1..Len(tp) : tp[q].kind = k /\ tp[q].name = n /\ d = <<-q, "name">>

\* The entries of the Resolver's scope l that are symbols: no function, no variable
\* before its initializer has been checked, and a class from the start.
Shown(tp, ss, l, n) ==
  /\ n \in DOMAIN ss[l]
  /\ ss[l][n].ready \/ (l = 1 /\ Global(tp, "class", n))
  /\ ~(l = 1 /\ Global(tp, "func", n))
Symbol(tp, ss, l, n) == IF Shown(tp, ss, l, n) THEN ss[l][n].decl ELSE Absent

Sees(tp, v, ss) ==
  /\ v \in Seq(Symbols) /\ Len(v) = Len(ss)
  /\ \A l \in 1..Len(v) : \A n \in Names : v[l][n] = Symbol(tp, ss, l, n)

Parametrized(e) == [n \in Names |-> IF n \in Range(e.params) THEN <<e.id, "param">> ELSE Absent]

\* v has d as the symbol of n in the innermost scope, and else what w has.
Mapped(w, v, n, d) ==
  /\ n \in Names /\ d \in Decls /\ Len(w) > 0 /\ Len(v) = Len(w)
  /\ \A l \in 1..Len(w) : \A m \in Names :
       v[l][m] = IF l = Len(w) /\ m = n THEN d ELSE w[l][m]

\* v is what the TypeChecker knows after event e, if w is what it knew before.
Turned(w, v, e) ==
  \/ e.kind \in {"block", "class"} /\ v = Append(w, NoSymbols)
  \/ e.kind = "func" /\ v = Append(w, Parametrized(e))
  \/ e.kind = "exit" /\ Len(w) > 1 /\ v = Front(w)
  \/ e.kind = "endvar" /\ Mapped(w, v, e.name, e.bound)
  \/ e.kind \in {"var", "return"} \cup Refs /\ v = w

\* A symbol is looked for from the innermost scope out, then among the functions.
Nearest(v, n, l) ==
  l \in 1..Len(v) /\ v[l][n] # Absent /\ \A j \in l + 1..Len(v) : v[j][n] = Absent
ReadAs(tp, v, n, d) ==
  \/ \E l : Nearest(v, n, l) /\ d = v[l][n]
  \/ (\A l \in 1..Len(v) : v[l][n] = Absent) /\ GlobalIs(tp, "func", n, d)

\* d is a variable whose initializer is being checked after i events.
Unfinished(es, i, d) ==
  \E v \in 1..i : /\ es[v].kind = "var" /\ d = <<es[v].id, "name">>
                  /\ ~\E e \in v..i : es[e].kind = "endvar" /\ es[e].bound[1] = es[v].id

\* The innermost scope of v has d as the symbol of n.
HasSymbol(v, n, d) == n \in Names /\ Len(v) \in Nat \ {0} /\ v[Len(v)][n] = d

\* What the Resolver has bound a name to, as the TypeChecker sees it. A class has
\* been hoisted to where its statement stands.
Referred(tp, v, es, i) ==
  /\ es[i].kind = "class" => HasSymbol(v, es[i].name, <<es[i].id, "name">>)
  /\ es[i].kind \in {"use", "assign"} => es[i].name \in Names
  /\ es[i].kind = "use" => ReadAs(tp, v, es[i].name, es[i].bound)
  /\ es[i].kind = "assign" => \/ ReadAs(tp, v, es[i].name, es[i].bound)
                              \/ Unfinished(es, i - 1, es[i].bound)

OnlyClasses(tp, v) ==
  /\ Len(v) = 1
  /\ \A n \in Names : \/ GlobalIs(tp, "class", n, v[1][n])
                      \/ v[1][n] = Absent /\ ~Global(tp, "class", n)

\* vs[i] is what is known after i events, by level.
Views(tp, vs, es) ==
  /\ vs \in [0..Len(es) -> Seq(Symbols)]
  /\ OnlyClasses(tp, vs[0])
  /\ \A i \in 1..Len(es) : Turned(vs[i - 1], vs[i], es[i]) /\ Referred(tp, vs[i - 1], es, i)

-----------------------------------------------------------------------------
(* What the Resolver's scopes hold, without errors. *)

Initializes(fs) == fs # <<>> /\ Last(fs).kind = "var"

HoistedHere(tp, ss) ==
  \A q \in 1..Len(tp) : tp[q].kind \in {"func", "class"} =>
    /\ tp[q].name \in Names /\ tp[q].name \in DOMAIN ss[1]
    /\ ss[1][tp[q].name].decl = <<-q, "name">>

\* What is not ready waits for the second pass, or is being initialized.
ReadyThere(tp, fs, ss) ==
  \A l \in 1..Len(ss) : \A n \in DOMAIN ss[l] :
    \/ ss[l][n].ready
    \/ l = 1 /\ (Global(tp, "func", n) \/ Global(tp, "class", n))
    \/ Initializes(fs) /\ l = Len(ss) /\ n = Last(fs).name

VarInitialized(tp, fs, ss, es) ==
  Initializes(fs) =>
    /\ Last(fs).name \in DOMAIN ss[Len(ss)]
    /\ ss[Len(ss)][Last(fs).name] = Entry(<<Last(fs).id, "name">>, FALSE)
    /\ Len(ss) = 1 => ~Global(tp, "func", Last(fs).name) /\ ~Global(tp, "class", Last(fs).name)
    /\ Unfinished(es, Len(es), <<Last(fs).id, "name">>)

\* The declarations of the first pass are the functions and classes at the top
\* level, and all classes are there.
TopsRecorded ==
  /\ \A i \in 1..Len(events) :
       /\ events[i].kind = "class" => events[i].within = 0
       /\ events[i].kind \in {"func", "class"} /\ events[i].within = 0 =>
            \E q \in 1..next : /\ events[i].id = -q /\ events[i].kind = tops[q].kind
                               /\ events[i].name = tops[q].name
  /\ \A q \in 1..next : tops[q].kind \in {"func", "class"} =>
       \E i \in 1..Len(events) : /\ events[i].id = -q /\ events[i].within = 0
                                 /\ events[i].kind = tops[q].kind /\ events[i].name = tops[q].name

SInv ==
  /\ TopsRecorded
  /\ pass = "resolved" => next = Len(tops)
  /\ errors = {} =>
       /\ HoistedHere(tops, scopes) /\ ReadyThere(tops, frames, scopes)
       /\ VarInitialized(tops, frames, scopes, events)
       /\ pass = "declare" =>
            \A n \in DOMAIN scopes[1] : Global(tops, "func", n) \/ Global(tops, "class", n)
       /\ pass # "declare" =>
            \E vs : Views(tops, vs, events) /\ Sees(tops, vs[Len(events)], scopes)

-----------------------------------------------------------------------------
(* What the TypeChecker knows. *)

\* c[l] is the scope that holds level l of v.
Chain(c, v, ps, sy, s, m) ==
  /\ Len(v) \in Nat \ {0} /\ c \in [1..Len(v) -> 0..m - 1]
  /\ c[1] = 0 /\ c[Len(v)] = s /\ ps[1] = -1
  /\ \A i, j \in 1..Len(v) : i < j => c[i] < c[j]
  /\ \A l \in 2..Len(v) : ps[c[l] + 1] = c[l - 1]
  /\ \A l \in 1..Len(v) : \A n \in Names : sy[c[l] + 1][n] = v[l][n]

FunctionsKnown ==
  /\ \A n \in DOMAIN fn_types : GlobalIs(tops, "func", n, fn_types[n])
  /\ \A n : Global(tops, "func", n) => n \in DOMAIN fn_types

ScopesMade ==
  /\ next_id \in Nat /\ parents \in Seq(Int) /\ Len(parents) = next_id
  /\ symbols \in Seq(Symbols) /\ Len(symbols) = next_id

KInv ==
  /\ stage = "resolver" => /\ pos = 0 /\ open = <<>> /\ ~check_error
                           /\ parents = <<-1>> /\ symbols = <<NoSymbols>>
                           /\ curr_scope = 0 /\ next_id = 1
  /\ \A j \in 1..Len(open) : open[j].skip => check_error
  /\ stage # "resolver" => FunctionsKnown
  /\ stage = "check" /\ ~check_error =>
       /\ ScopesMade
       /\ \A vs : Views(tops, vs, events) =>
            \E c : Chain(c, vs[pos], parents, symbols, curr_scope, next_id)

-----------------------------------------------------------------------------
(* Scopes and what is seen of them. *)

LEMMA SymbolTyped ==
  ASSUME NEW tp, NEW ss \in Seq(Tables), NEW l \in 1..Len(ss), NEW n
  PROVE  /\ Symbol(tp, ss, l, n) \in Decls \cup {Absent}
         /\ Symbol(tp, ss, l, n) = Absent <=> ~Shown(tp, ss, l, n)
<1>1. n \in DOMAIN ss[l] => ss[l][n] \in Entries
  <2>1. ss[l] \in Tables
    BY ElementOfSeq
  <2> QED
    BY <2>1, TableOf
<1>2. Shown(tp, ss, l, n) => ss[l][n].decl \in Decls /\ ss[l][n].decl # Absent
  BY <1>1, AbsentIsNoDecl DEF Shown, Entries
<1> QED
  BY <1>2 DEF Symbol

LEMMA SeesPushed ==
  ASSUME NEW tp, NEW ss \in Seq(Tables), ss # <<>>, NEW v, Sees(tp, v, ss), NEW t \in Tables,
         NEW m \in Symbols,
         \A n \in Names : m[n] = IF n \in DOMAIN t /\ t[n].ready THEN t[n].decl ELSE Absent
  PROVE  Sees(tp, Append(v, m), Append(ss, t))
<1>1. PICK k \in Nat : k = Len(ss) /\ k # 0 /\ k = Len(v)
  BY LenProperties, EmptySeq DEF Sees
<1>2. PICK us : us = Append(ss, t) /\ Len(us) = k + 1 /\ us[k + 1] = t
                /\ \A j \in 1..k : us[j] = ss[j]
  <2>1. PICK us : us = Append(ss, t)
    OBVIOUS
  <2>2. k = Len(ss)
    BY <1>1
  <2>3. Len(us) = k + 1 /\ us[k + 1] = t /\ \A j \in 1..k : us[j] = ss[j]
    BY <2>1, <2>2, PushedAs
  <2> QED
    BY <2>1, <2>3
<1>3. PICK u : u = Append(v, m) /\ u \in Seq(Symbols) /\ Len(u) = k + 1 /\ u[k + 1] = m
               /\ \A j \in 1..k : u[j] = v[j]
  <2>1. PICK u : u = Append(v, m)
    OBVIOUS
  <2>2. v \in Seq(Symbols)
    BY DEF Sees
  <2>3. /\ u \in Seq(Symbols) /\ Len(u) = k + 1 /\ u[k + 1] = m
        /\ \A j \in 1..k : u[j] = v[j]
    BY <1>1, <2>1, <2>2, PushedAs
  <2> QED
    BY <2>1, <2>3
<1>4. ASSUME NEW l \in 1..k + 1, NEW n \in Names
      PROVE  u[l][n] = Symbol(tp, us, l, n)
  <2>1. CASE l = k + 1
    <3>1. l # 1
      BY <1>1, <2>1
    <3> QED
      BY <1>2, <1>3, <2>1, <3>1 DEF Symbol, Shown
  <2>2. CASE l # k + 1
    <3>1. l \in 1..k /\ us[l] = ss[l] /\ u[l] = v[l]
      BY <1>2, <1>3, <2>2
    <3>2. v[l][n] = Symbol(tp, ss, l, n)
      BY <1>1, <3>1 DEF Sees
    <3> QED
      BY <3>1, <3>2 DEF Symbol, Shown
  <2> QED
    BY <2>1, <2>2
<1> QED
  BY <1>2, <1>3, <1>4 DEF Sees

LEMMA SeesPopped ==
  ASSUME NEW tp, NEW ss \in Seq(Tables), Len(ss) > 1, NEW v, Sees(tp, v, ss)
  PROVE  Sees(tp, Front(v), Front(ss))
<1>1. PICK k \in Nat : k + 1 = Len(ss) /\ k # 0 /\ k + 1 = Len(v) /\ ss # <<>> /\ v # <<>>
  <2>1. Len(ss) \in Nat /\ Len(ss) = Len(v) /\ ss # <<>> /\ v # <<>>
    BY LenProperties, EmptySeq DEF Sees
  <2> QED
    BY <2>1
<1>2. PICK us : us = Front(ss) /\ Len(us) = k /\ \A j \in 1..k : us[j] = ss[j]
  BY <1>1, PoppedOff
<1>3. PICK u : u = Front(v) /\ u \in Seq(Symbols) /\ Len(u) = k /\ \A j \in 1..k : u[j] = v[j]
  BY <1>1, PoppedOff DEF Sees
<1>4. ASSUME NEW l \in 1..k, NEW n \in Names
      PROVE  u[l][n] = Symbol(tp, us, l, n)
  <2>1. v[l][n] = Symbol(tp, ss, l, n)
    BY <1>1 DEF Sees
  <2> QED
    BY <1>2, <1>3, <2>1 DEF Symbol, Shown
<1> QED
  BY <1>2, <1>3, <1>4 DEF Sees

\* Nothing else of what is seen depends on the entry that is added.
LEMMA SeesElsewhere ==
  ASSUME NEW tp, NEW ss \in Seq(Tables), NEW tt, NEW n, NEW e, AddedTo(ss, tt, n, e),
         NEW l \in 1..Len(ss), NEW m, l # Len(ss) \/ m # n
  PROVE  Symbol(tp, tt, l, m) = Symbol(tp, ss, l, m)
<1>1. m \in DOMAIN tt[l] <=> m \in DOMAIN ss[l]
  BY DEF AddedTo
<1>2. m \in DOMAIN tt[l] => tt[l][m] = ss[l][m]
  BY DEF AddedTo
<1>3. Shown(tp, tt, l, m) <=> Shown(tp, ss, l, m)
  BY <1>1, <1>2 DEF Shown
<1>4. CASE Shown(tp, tt, l, m)
  <2>1. tt[l][m].decl = ss[l][m].decl
    BY <1>2, <1>4 DEF Shown
  <2> QED
    BY <1>3, <1>4, <2>1 DEF Symbol
<1>5. CASE ~Shown(tp, tt, l, m)
  BY <1>3, <1>5 DEF Symbol
<1> QED
  BY <1>4, <1>5

LEMMA SeesKept ==
  ASSUME NEW tp, NEW ss \in Seq(Tables), NEW tt, NEW n, NEW e, AddedTo(ss, tt, n, e),
         Symbol(tp, tt, Len(ss), n) = Symbol(tp, ss, Len(ss), n), NEW v, Sees(tp, v, ss)
  PROVE  Sees(tp, v, tt)
<1>1. ASSUME NEW l \in 1..Len(v), NEW m \in Names
      PROVE  v[l][m] = Symbol(tp, tt, l, m)
  <2>1. l \in 1..Len(ss) /\ v[l][m] = Symbol(tp, ss, l, m)
    BY DEF Sees
  <2>2. CASE l = Len(ss) /\ m = n
    BY <2>1, <2>2
  <2>3. CASE l # Len(ss) \/ m # n
    BY <2>1, <2>3, SeesElsewhere
  <2> QED
    BY <2>2, <2>3
<1> QED
  BY <1>1 DEF Sees, AddedTo

LEMMA SeesMapped ==
  ASSUME NEW tp, NEW ss \in Seq(Tables), ss # <<>>, NEW tt, NEW n \in Names, NEW d \in Decls,
         NEW e, AddedTo(ss, tt, n, e), e.ready, e.decl = d, Len(ss) = 1 => ~Global(tp, "func", n),
         NEW w, Sees(tp, w, ss)
  PROVE  \E v \in Seq(Symbols) : Mapped(w, v, n, d) /\ Sees(tp, v, tt)
<1>1. PICK k \in Nat : k = Len(ss) /\ k # 0 /\ k = Len(w) /\ w \in Seq(Symbols) /\ k \in 1..k
  BY LenProperties, EmptySeq DEF Sees
<1> DEFINE t == [m \in Names |-> IF m = n THEN d ELSE w[k][m]]
           v == [w EXCEPT ![k] = t]
<1>2. w[k] \in Symbols
  BY <1>1, ElementOfSeq
<1>3. t \in Symbols /\ \A m \in Names : t[m] = IF m = n THEN d ELSE w[k][m]
  BY <1>2 DEF Symbols
<1> HIDE DEF t
<1>4. /\ v \in Seq(Symbols) /\ Len(v) = k /\ v[k] = t
      /\ \A l \in 1..k : l # k => v[l] = w[l]
  BY <1>1, <1>3, ExceptSeq, LenProperties
<1> HIDE DEF v
<1>5. Mapped(w, v, n, d)
  BY <1>1, <1>3, <1>4 DEF Mapped
<1>6. Symbol(tp, tt, k, n) = d
  <2>1. n \in DOMAIN tt[k] /\ tt[k][n] = e
    BY <1>1 DEF AddedTo
  <2>2. tt[k][n].ready /\ tt[k][n].decl = d
    BY <2>1
  <2>3. Shown(tp, tt, k, n)
    BY <1>1, <2>1, <2>2 DEF Shown
  <2> QED
    BY <2>2, <2>3 DEF Symbol
<1>7. ASSUME NEW l \in 1..k, NEW m \in Names
      PROVE  v[l][m] = Symbol(tp, tt, l, m)
  <2>1. w[l][m] = Symbol(tp, ss, l, m)
    BY <1>1 DEF Sees
  <2>2. CASE l = k /\ m = n
    BY <1>3, <1>4, <1>6, <2>2
  <2>3. CASE l # k \/ m # n
    <3>e. l \in 1..Len(ss) /\ (l # Len(ss) \/ m # n)
      BY <1>1, <2>3
    <3>1. Symbol(tp, tt, l, m) = Symbol(tp, ss, l, m)
      BY <3>e, SeesElsewhere
    <3> QED
      BY <1>3, <1>4, <2>1, <2>3, <3>1
  <2> QED
    BY <2>2, <2>3
<1> QED
  BY <1>1, <1>4, <1>5, <1>7 DEF Sees, AddedTo


\* What the Resolver finds by a name.
LEMMA ReadFinds ==
  ASSUME NEW tp, NEW ss \in Seq(Tables), NEW fs, HoistedHere(tp, ss), ReadyThere(tp, fs, ss),
         NEW n \in Names, NEW v, Sees(tp, v, ss), NEW i, i = ResolveLocal(ss, n), i # 0
  PROVE  \/ ReadAs(tp, v, n, ss[i][n].decl)
         \/ Initializes(fs) /\ i = Len(ss) /\ n = Last(fs).name /\ ~ss[i][n].ready
<1>1. /\ i \in 1..Len(ss) /\ n \in DOMAIN ss[i]
      /\ \A j \in i + 1..Len(ss) : n \notin DOMAIN ss[j]
  BY Resolved
<1>2. Len(v) = Len(ss) /\ Len(v) \in Nat /\ \A l \in 1..Len(v) : v[l][n] = Symbol(tp, ss, l, n)
  BY LenProperties DEF Sees
<1>3. \A j \in i + 1..Len(v) : v[j][n] = Absent
  <2>1. ASSUME NEW j \in i + 1..Len(v)
        PROVE  v[j][n] = Absent
    <3>1. n \notin DOMAIN ss[j] /\ j \in 1..Len(v)
      BY <1>1, <1>2
    <3> QED
      BY <1>2, <3>1 DEF Symbol, Shown
  <2> QED
    BY <2>1
<1>4. CASE Shown(tp, ss, i, n)
  <2>1. v[i][n] = ss[i][n].decl
    BY <1>1, <1>2, <1>4 DEF Symbol
  <2>2. v[i][n] # Absent
    BY <1>1, <1>2, <1>4, SymbolTyped
  <2> QED
    BY <1>1, <1>2, <1>3, <2>1, <2>2 DEF ReadAs, Nearest
<1>5. CASE i = 1 /\ Global(tp, "func", n)
  <2>1. PICK q \in 1..Len(tp) : tp[q].kind = "func" /\ tp[q].name = n
    BY <1>5 DEF Global
  <2>2. ss[i][n].decl = <<-q, "name">>
    BY <1>5, <2>1 DEF HoistedHere
  <2>3. v[1][n] = Absent
    BY <1>1, <1>2, <1>5 DEF Symbol, Shown
  <2>4. \A l \in 1..Len(v) : v[l][n] = Absent
    BY <1>2, <1>3, <1>5, <2>3
  <2> QED
    BY <2>1, <2>2, <2>4 DEF ReadAs, GlobalIs
<1>6. CASE ~Shown(tp, ss, i, n) /\ ~(i = 1 /\ Global(tp, "func", n))
  <2>1. ~ss[i][n].ready /\ ~(i = 1 /\ Global(tp, "class", n))
    BY <1>1, <1>6 DEF Shown
  <2> QED
    BY <1>1, <1>6, <2>1 DEF ReadyThere
<1> QED
  BY <1>4, <1>5, <1>6

LEMMA HoistedAdded ==
  ASSUME NEW tp, NEW ss \in Seq(Tables), ss # <<>>, HoistedHere(tp, ss),
         NEW tt, NEW n, NEW e, AddedTo(ss, tt, n, e),
         Len(ss) = 1 => \A q \in 1..Len(tp) :
           tp[q].kind \in {"func", "class"} /\ tp[q].name = n => e.decl = <<-q, "name">>
  PROVE  HoistedHere(tp, tt)
<1>1. Len(ss) \in Nat \ {0} /\ 1 \in 1..Len(ss)
  BY LenProperties, EmptySeq
<1>2. CASE Len(ss) # 1
  BY <1>1, <1>2 DEF HoistedHere, AddedTo
<1>3. CASE Len(ss) = 1
  <2>1. /\ DOMAIN tt[1] = DOMAIN ss[1] \cup {n}
        /\ \A m \in DOMAIN tt[1] : tt[1][m] = IF m = n THEN e ELSE ss[1][m]
    BY <1>3 DEF AddedTo
  <2> QED
    BY <1>3, <2>1 DEF HoistedHere
<1> QED
  BY <1>2, <1>3

LEMMA HoistedPushed ==
  ASSUME NEW tp, NEW ss \in Seq(Tables), ss # <<>>, HoistedHere(tp, ss), NEW t \in Tables
  PROVE  HoistedHere(tp, Append(ss, t))
<1>1. 1 \in 1..Len(ss)
  BY LenProperties, EmptySeq
<1>2. Append(ss, t)[1] = ss[1]
  BY <1>1, PushedOn
<1> QED
  BY <1>2 DEF HoistedHere

LEMMA HoistedPopped ==
  ASSUME NEW tp, NEW ss \in Seq(Tables), Len(ss) > 1, HoistedHere(tp, ss)
  PROVE  HoistedHere(tp, Front(ss))
<1>1. 1 \in 1..Len(ss) - 1 /\ ss # <<>>
  BY LenProperties, EmptySeq
<1>2. Front(ss)[1] = ss[1]
  BY <1>1, PoppedOff
<1> QED
  BY <1>2 DEF HoistedHere

LEMMA ReadyAdded ==
  ASSUME NEW tp, NEW ss \in Seq(Tables), NEW fs, ReadyThere(tp, fs, ss),
         NEW tt, NEW n, NEW e, AddedTo(ss, tt, n, e), NEW gs,
         Initializes(fs) => n = Last(fs).name,
         e.ready \/ (Initializes(gs) /\ n = Last(gs).name)
  PROVE  ReadyThere(tp, gs, tt)
<1> SUFFICES ASSUME NEW l \in 1..Len(ss), NEW m \in DOMAIN tt[l]
             PROVE  \/ tt[l][m].ready
                    \/ l = 1 /\ (Global(tp, "func", m) \/ Global(tp, "class", m))
                    \/ Initializes(gs) /\ l = Len(ss) /\ m = Last(gs).name
  BY DEF ReadyThere, AddedTo
<1>1. CASE l = Len(ss) /\ m = n
  <2>1. tt[l][m] = e
    BY <1>1 DEF AddedTo
  <2> QED
    BY <1>1, <2>1
<1>2. CASE ~(l = Len(ss) /\ m = n)
  <2>1. m \in DOMAIN ss[l] /\ tt[l][m] = ss[l][m]
    BY <1>2 DEF AddedTo
  <2> QED
    BY <1>2, <2>1 DEF ReadyThere
<1> QED
  BY <1>1, <1>2

LEMMA ReadyPushed ==
  ASSUME NEW tp, NEW ss \in Seq(Tables), NEW fs, ReadyThere(tp, fs, ss), ~Initializes(fs),
         NEW t \in Tables, \A m \in DOMAIN t : t[m].ready, NEW gs
  PROVE  ReadyThere(tp, gs, Append(ss, t))
<1>1. PICK k \in Nat : k = Len(ss)
  BY LenProperties
<1>2. PICK us : us = Append(ss, t)
  OBVIOUS
<1>3. Len(us) = k + 1 /\ us[k + 1] = t /\ \A j \in 1..k : us[j] = ss[j]
  BY <1>1, <1>2, PushedAs
<1>4. ASSUME NEW l \in 1..k + 1, NEW m \in DOMAIN us[l]
      PROVE  us[l][m].ready \/ (l = 1 /\ (Global(tp, "func", m) \/ Global(tp, "class", m)))
  <2>1. l = k + 1 \/ l \in 1..k
    BY <1>1
  <2> QED
    BY <1>1, <1>3, <1>4, <2>1 DEF ReadyThere
<1> QED
  BY <1>2, <1>3, <1>4 DEF ReadyThere

LEMMA ReadyPopped ==
  ASSUME NEW tp, NEW ss \in Seq(Tables), Len(ss) > 1, NEW fs, ReadyThere(tp, fs, ss),
         ~Initializes(fs), NEW gs
  PROVE  ReadyThere(tp, gs, Front(ss))
<1>1. ss # <<>>
  BY EmptySeq
<1>2. /\ Len(ss) \in Nat /\ Len(Front(ss)) = Len(ss) - 1
      /\ \A j \in 1..Len(ss) - 1 : Front(ss)[j] = ss[j]
  BY <1>1, PoppedOff
<1>3. ASSUME NEW l \in 1..Len(Front(ss)), NEW m \in DOMAIN Front(ss)[l]
      PROVE  \/ Front(ss)[l][m].ready
             \/ l = 1 /\ (Global(tp, "func", m) \/ Global(tp, "class", m))
  <2>1. l \in 1..Len(ss) /\ Front(ss)[l] = ss[l]
    BY <1>2
  <2> QED
    BY <1>3, <2>1 DEF ReadyThere
<1> QED
  BY <1>3 DEF ReadyThere

-----------------------------------------------------------------------------
(* One event more. *)

LEMMA UnfinishedKept ==
  ASSUME NEW es, NEW es2, NEW n \in Nat, Extended(es, es2, n), NEW i \in 0..n, NEW d
  PROVE  Unfinished(es2, i, d) <=> Unfinished(es, i, d)
<1>1. \A v \in 1..i : es2[v] = es[v] /\ \A x \in v..i : es2[x] = es[x]
  BY DEF Extended
<1> QED
  BY <1>1 DEF Unfinished

LEMMA UnfinishedOn ==
  ASSUME NEW es, NEW es2, NEW n \in Nat, Extended(es, es2, n), NEW d
  PROVE  /\ Unfinished(es, n, d) /\ es2[n + 1].kind # "endvar" => Unfinished(es2, n + 1, d)
         /\ es2[n + 1].kind = "var" /\ d = <<es2[n + 1].id, "name">> => Unfinished(es2, n + 1, d)
<1>1. ASSUME Unfinished(es, n, d), es2[n + 1].kind # "endvar"
      PROVE  Unfinished(es2, n + 1, d)
  <2>1. PICK v \in 1..n : /\ es[v].kind = "var" /\ d = <<es[v].id, "name">>
                          /\ ~\E x \in v..n : es[x].kind = "endvar" /\ es[x].bound[1] = es[v].id
    BY <1>1 DEF Unfinished
  <2>2. es2[v] = es[v] /\ v \in 1..n + 1
    BY DEF Extended
  <2>3. \A x \in v..n + 1 : x # n + 1 => x \in v..n /\ es2[x] = es[x]
    BY DEF Extended
  <2>4. ~\E x \in v..n + 1 : es2[x].kind = "endvar" /\ es2[x].bound[1] = es2[v].id
    BY <1>1, <2>1, <2>2, <2>3
  <2> QED
    BY <2>1, <2>2, <2>4 DEF Unfinished
<1>2. ASSUME es2[n + 1].kind = "var", d = <<es2[n + 1].id, "name">>
      PROVE  Unfinished(es2, n + 1, d)
  <2>1. n + 1 \in 1..n + 1 /\ \A x \in n + 1..n + 1 : es2[x].kind # "endvar"
    BY <1>2
  <2> QED
    BY <1>2, <2>1 DEF Unfinished
<1> QED
  BY <1>1, <1>2

LEMMA ViewsGrow ==
  ASSUME NEW tp, NEW es, NEW es2, NEW n \in Nat, Extended(es, es2, n), NEW vs, Views(tp, vs, es),
         NEW v \in Seq(Symbols), Turned(vs[n], v, es2[n + 1]), Referred(tp, vs[n], es2, n + 1)
  PROVE  \E vs2 : Views(tp, vs2, es2) /\ vs2[n + 1] = v
<1>0. n = Len(es) /\ Len(es2) = n + 1 /\ \A i \in 1..n : es2[i] = es[i]
  BY DEF Extended
<1> DEFINE vs2 == [i \in 0..n + 1 |-> IF i = n + 1 THEN v ELSE vs[i]]
<1>1. vs \in [0..n -> Seq(Symbols)]
  BY <1>0 DEF Views
<1>2. vs2 \in [0..n + 1 -> Seq(Symbols)]
  BY <1>1
<1>3. vs2[n + 1] = v /\ \A i \in 0..n : vs2[i] = vs[i]
  OBVIOUS
<1> HIDE DEF vs2
<1>4. ASSUME NEW i \in 1..n + 1
      PROVE  Turned(vs2[i - 1], vs2[i], es2[i]) /\ Referred(tp, vs2[i - 1], es2, i)
  <2>1. CASE i = n + 1
    <3>1. vs2[i] = v /\ vs2[i - 1] = vs[n]
      BY <1>3, <2>1
    <3> QED
      BY <2>1, <3>1
  <2>2. CASE i # n + 1
    <3>1. i \in 1..n /\ i - 1 \in 0..n /\ i \in 0..n
      BY <2>2
    <3>2. vs2[i] = vs[i] /\ vs2[i - 1] = vs[i - 1] /\ es2[i] = es[i]
      BY <1>0, <1>3, <3>1
    <3>3. Turned(vs[i - 1], vs[i], es[i]) /\ Referred(tp, vs[i - 1], es, i)
      BY <1>0, <3>1 DEF Views
    <3>4. PICK j \in 0..n : j = i - 1
      BY <3>1
    <3>5. \A d : Unfinished(es2, j, d) <=> Unfinished(es, j, d)
      BY UnfinishedKept
    <3> QED
      BY <3>2, <3>3, <3>4, <3>5 DEF Referred
  <2> QED
    BY <2>1, <2>2
<1>5. OnlyClasses(tp, vs2[0])
  BY <1>3 DEF Views
<1>6. Views(tp, vs2, es2)
  BY <1>0, <1>2, <1>4, <1>5 DEF Views
<1> QED
  BY <1>3, <1>6

\* The event is that of the top-level statement that is begun, if it is a function
\* or a class at the top level.
Placed(e) ==
  /\ next' = next \/ next' = next + 1
  /\ e.kind = "class" => e.within = 0
  /\ e.kind \in {"func", "class"} /\ e.within = 0 =>
       /\ next' = next + 1 /\ e.id = -next'
       /\ e.kind = tops[next'].kind /\ e.name = tops[next'].name
  /\ next' = next + 1 /\ tops[next'].kind \in {"func", "class"} =>
       /\ e.id = -next' /\ e.within = 0
       /\ e.kind = tops[next'].kind /\ e.name = tops[next'].name

\* What is said of the scopes is true after the event.
Prepared(e) ==
  /\ HoistedHere(tops, scopes') /\ ReadyThere(tops, frames', scopes')
  /\ VarInitialized(tops, frames', scopes', events')
  /\ \A w : Sees(tops, w, scopes) =>
       /\ \E v \in Seq(Symbols) : Turned(w, v, e) /\ Sees(tops, v, scopes')
       /\ e.kind = "class" => HasSymbol(w, e.name, <<e.id, "name">>)
       /\ e.kind \in {"use", "assign"} => e.name \in Names
       /\ e.kind = "use" => ReadAs(tops, w, e.name, e.bound)
       /\ e.kind = "assign" => \/ ReadAs(tops, w, e.name, e.bound)
                               \/ Unfinished(events, Len(events), e.bound)

LEMMA SRecorded ==
  ASSUME RInv, SInv, pass = "resolve", UNCHANGED <<pass, tops>>, NEW e \in Events,
         events' = Append(events, e), errors \subseteq errors', next' \in Int,
         Placed(e), errors' = {} => Prepared(e)
  PROVE  SInv'
<1>1. PICK n \in Nat : /\ n = Len(events) /\ Extended(events, events', n)
                       /\ events'[n + 1] = e /\ next \in Nat
  <2>1. events \in Seq(Events) /\ next \in 0..Len(tops) /\ Len(tops) \in Nat
    BY LenProperties DEF RInv, Shapes
  <2>2. PICK es2 : es2 = events'
    OBVIOUS
  <2>3. PICK n : n = Len(events)
    OBVIOUS
  <2>4. /\ n \in Nat /\ es2 \in Seq(Events) /\ Len(es2) = n + 1 /\ es2[n + 1] = e
        /\ \A i \in 1..n : es2[i] = events[i]
    BY <2>1, <2>2, <2>3, PushedAs
  <2> QED
    BY <2>1, <2>2, <2>3, <2>4 DEF Extended
<1>2. /\ Len(events') = n + 1 /\ \A i \in 1..n : events'[i] = events[i]
  BY <1>1 DEF Extended
<1>3. TopsRecorded'
  <2>1. TopsRecorded
    BY DEF SInv
  <2>2. ASSUME NEW i \in 1..n + 1
        PROVE  /\ events'[i].kind = "class" => events'[i].within = 0
               /\ events'[i].kind \in {"func", "class"} /\ events'[i].within = 0 =>
                    \E q \in 1..next' : /\ events'[i].id = -q /\ events'[i].kind = tops[q].kind
                                        /\ events'[i].name = tops[q].name
    <3>1. CASE i = n + 1
      <4>1. events'[i] = e
        BY <1>1, <3>1
      <4>2. e.kind \in {"func", "class"} /\ e.within = 0 => next' \in 1..next'
        BY <1>1 DEF Placed
      <4>3. e.kind \in {"func", "class"} /\ e.within = 0 =>
              \E q \in 1..next' : e.id = -q /\ e.kind = tops[q].kind /\ e.name = tops[q].name
        BY <4>2 DEF Placed
      <4> QED
        BY <4>1, <4>3 DEF Placed
    <3>2. CASE i # n + 1
      <4>1. i \in 1..n /\ events'[i] = events[i]
        BY <1>2, <3>2
      <4>2. \A q \in 1..next : q \in 1..next'
        BY <1>1 DEF Placed
      <4>3. events[i].kind = "class" => events[i].within = 0
        BY <1>1, <2>1, <4>1 DEF TopsRecorded
      <4>4. events[i].kind \in {"func", "class"} /\ events[i].within = 0 =>
              \E q \in 1..next : /\ events[i].id = -q /\ events[i].kind = tops[q].kind
                                 /\ events[i].name = tops[q].name
        BY <1>1, <2>1, <4>1 DEF TopsRecorded
      <4> QED
        BY <4>1, <4>2, <4>3, <4>4
    <3> QED
      BY <3>1, <3>2
  <2>3. ASSUME NEW q \in 1..next', tops[q].kind \in {"func", "class"}
        PROVE  \E i \in 1..n + 1 :
                 /\ events'[i].id = -q /\ events'[i].within = 0
                 /\ events'[i].kind = tops[q].kind /\ events'[i].name = tops[q].name
    <3>1. CASE q \in 1..next
      <4>1. PICK i \in 1..n : /\ events[i].id = -q /\ events[i].within = 0
                              /\ events[i].kind = tops[q].kind /\ events[i].name = tops[q].name
        BY <1>1, <2>1, <2>3, <3>1 DEF TopsRecorded
      <4>2. i \in 1..n + 1 /\ events'[i] = events[i]
        BY <1>2
      <4> QED
        BY <4>1, <4>2
    <3>2. CASE q \notin 1..next
      <4>1. next' = next + 1 /\ q = next'
        BY <1>1, <3>2 DEF Placed
      <4>2. e.id = -q /\ e.within = 0 /\ e.kind = tops[q].kind /\ e.name = tops[q].name
        BY <2>3, <4>1 DEF Placed
      <4> QED
        BY <1>1, <4>2
    <3> QED
      BY <3>1, <3>2
  <2>4. 1..Len(events') = 1..n + 1
    BY <1>2
  <2> QED
    BY <2>2, <2>3, <2>4 DEF TopsRecorded
<1>4. ASSUME errors' = {}
      PROVE  \E vs : Views(tops, vs, events') /\ Sees(tops, vs[Len(events')], scopes')
  <2>1. errors = {} /\ Prepared(e)
    BY <1>4
  <2>2. PICK vs : Views(tops, vs, events) /\ Sees(tops, vs[n], scopes)
    BY <1>1, <2>1 DEF SInv
  <2>3. PICK v \in Seq(Symbols) : Turned(vs[n], v, e) /\ Sees(tops, v, scopes')
    BY <2>1, <2>2 DEF Prepared
  <2>4. PICK es2 : es2 = events'
    OBVIOUS
  <2>5. n + 1 - 1 = n
    OBVIOUS
  <2>6. Extended(events, es2, n) /\ es2[n + 1] = e
    BY <1>1, <2>4
  <2>7. ASSUME NEW d
        PROVE  Unfinished(es2, n, d) <=> Unfinished(events, n, d)
    <3>1. n \in 0..n
      OBVIOUS
    <3> QED
      BY <2>6, <3>1, UnfinishedKept
  <2>8. Referred(tops, vs[n], es2, n + 1)
    <3>1. /\ e.kind = "class" => HasSymbol(vs[n], e.name, <<e.id, "name">>)
          /\ e.kind \in {"use", "assign"} => e.name \in Names
          /\ e.kind = "use" => ReadAs(tops, vs[n], e.name, e.bound)
          /\ e.kind = "assign" => \/ ReadAs(tops, vs[n], e.name, e.bound)
                                  \/ Unfinished(es2, n, e.bound)
      BY <1>1, <2>1, <2>2, <2>7 DEF Prepared
    <3> QED
      BY <2>5, <2>6, <3>1 DEF Referred
  <2>9. PICK vs2 : Views(tops, vs2, es2) /\ vs2[n + 1] = v
    BY <2>2, <2>3, <2>6, <2>8, ViewsGrow
  <2> QED
    BY <1>2, <2>3, <2>4, <2>9
<1> QED
  BY <1>3, <1>4 DEF SInv, Prepared

-----------------------------------------------------------------------------
(* The visits. *)

LEMMA VisitPlaced ==
  ASSUME RInv, DInv, Flat, NEW k \in Kinds \cup Refs \cup {"return"}, NEW n, Visit(k, n),
         NEW e, e.kind = k, e.id = Id, e.name = n, e.within = WithinId
  PROVE  Placed(e) /\ (k \in {"func", "class"} /\ Within # "class" => frames = <<>>)
<1>1. next \in Nat
  BY Visited DEF RInv
<1>2. CASE frames = <<>>
  <2>1. PICK x : x = [kind |-> k, name |-> n]
    OBVIOUS
  <2>2. next' = next + 1 /\ tops[next'] = x
    BY <1>2, <2>1 DEF Visit
  <2>3. e.id = -next' /\ e.within = 0
    BY <1>2 DEF Id, WithinId
  <2>4. e.kind = tops[next'].kind /\ e.name = tops[next'].name
    BY <2>1, <2>2
  <2> QED
    BY <1>2, <2>2, <2>3, <2>4 DEF Placed
<1>3. CASE frames # <<>>
  <2>1. Top \in Frames /\ Len(frames) \in 1..Len(frames) /\ Top = frames[Len(frames)]
    BY <1>3, Depths DEF RInv, Top
  <2>2. WithinId # 0 /\ Within = Top.kind
    BY <1>3, <2>1 DEF DInv, OneId, WithinId, Within
  <2>3. MayContain(Top.kind, k) /\ next' = next /\ Top.kind \in Kinds
    BY <1>3, <2>1 DEF Visit, Frames
  <2>4. k # "class" /\ (k = "func" => Top.kind = "class")
    BY <2>3 DEF MayContain, Kinds, Scoped, Refs, Flat
  <2>5. next' # next + 1
    BY <1>1, <2>3
  <2> QED
    BY <2>2, <2>3, <2>4, <2>5 DEF Placed
<1> QED
  BY <1>2, <1>3

\* The second pass defines what the first has declared.
LEMMA Redefined ==
  ASSUME RInv, HoistedHere(tops, scopes), ReadyThere(tops, frames, scopes),
         NEW k \in {"func", "class"}, NEW n \in Names, Visit(k, n), frames = <<>>,
         NEW tt, tt = Define(scopes, n, <<Id, "name">>)
  PROVE  /\ tt \in Seq(Tables) /\ tt # <<>>
         /\ HoistedHere(tops, tt) /\ ReadyThere(tops, frames, tt)
         /\ \A w : Sees(tops, w, scopes) => Sees(tops, w, tt)
         /\ k = "class" => \A w : Sees(tops, w, scopes) => HasSymbol(w, n, <<Id, "name">>)
<1>1. /\ scopes \in Seq(Tables) /\ scopes # <<>> /\ Len(scopes) = 1 /\ Id \in Int
  <2>1. Depth(frames) = 0
    BY Depths DEF RInv
  <2> QED
    BY <2>1, Depths, Visited DEF RInv, Nested
<1>2. /\ next' \in 1..Len(tops) /\ tops[next'].kind = k /\ tops[next'].name = n /\ Id = -next'
      /\ next' \in Nat
  <2>1. PICK x : x = [kind |-> k, name |-> n]
    OBVIOUS
  <2>2. next' = next + 1 /\ tops[next'] = x /\ next < Len(tops)
    BY <2>1 DEF Visit
  <2>3. next \in Nat /\ Len(tops) \in Nat
    BY Visited DEF RInv
  <2> QED
    BY <2>1, <2>2, <2>3 DEF Id
<1>3. PICK d : d = <<Id, "name">>
  OBVIOUS
<1>4. d \in Decls
  BY <1>1, <1>3 DEF Decls
<1>5. PICK e : e = Entry(d, TRUE)
  OBVIOUS
<1>6. tt \in Seq(Tables) /\ AddedTo(scopes, tt, n, e)
  BY <1>1, <1>3, <1>4, <1>5, Adding DEF Define
<1>7. e.ready /\ e.decl = d
  BY <1>5 DEF Entry
<1> HIDE <1>5
<1>8. n \in DOMAIN scopes[1] /\ scopes[1][n].decl = d
  BY <1>2, <1>3 DEF HoistedHere
<1>9. ASSUME NEW q \in 1..Len(tops), tops[q].kind \in {"func", "class"}, tops[q].name = n
      PROVE  q = next' /\ d = <<-q, "name">>
  <2>1. scopes[1][n].decl = <<-q, "name">>
    BY <1>9 DEF HoistedHere
  <2>2. PICK p \in Int : p = next' /\ d = <<-p, "name">>
    <3>1. PICK p : p = next'
      OBVIOUS
    <3>2. p \in Int /\ Id = -p
      BY <1>2, <3>1
    <3> QED
      BY <1>3, <3>1, <3>2
  <2>3. <<-q, "name">> = <<-p, "name">>
    BY <1>8, <2>1, <2>2
  <2>4. -q = -p
    BY <2>3
  <2>5. q \in Int
    OBVIOUS
  <2>6. q = p
    BY <2>4, <2>5
  <2> QED
    BY <1>8, <2>1, <2>2, <2>6
<1>10. HoistedHere(tops, tt)
  <2>1. \A q \in 1..Len(tops) :
          tops[q].kind \in {"func", "class"} /\ tops[q].name = n => e.decl = <<-q, "name">>
    BY <1>7, <1>9
  <2> QED
    BY <1>1, <1>6, <2>1, HoistedAdded
<1>11. ReadyThere(tops, frames, tt)
  BY <1>1, <1>6, <1>7, ReadyAdded DEF Initializes
<1>12. /\ DOMAIN tt[1] = DOMAIN scopes[1] \cup {n} /\ tt[1][n] = e
  BY <1>1, <1>6 DEF AddedTo
<1>13. CASE k = "func"
  <2>1. Global(tops, "func", n)
    BY <1>2, <1>13 DEF Global
  <2>2. Symbol(tops, tt, 1, n) = Symbol(tops, scopes, 1, n)
    BY <2>1 DEF Symbol, Shown
  <2>3. Symbol(tops, tt, Len(scopes), n) = Symbol(tops, scopes, Len(scopes), n)
    BY <1>1, <2>2
  <2>4. \A w : Sees(tops, w, scopes) => Sees(tops, w, tt)
    BY <1>1, <1>6, <2>3, SeesKept
  <2> QED
    BY <1>6, <1>10, <1>11, <1>1, <1>13, <2>4, EmptySeq DEF AddedTo
<1>14. CASE k = "class"
  <2>1. Global(tops, "class", n) /\ ~Global(tops, "func", n)
    BY <1>2, <1>9, <1>14 DEF Global
  <2>2. Shown(tops, tt, 1, n) /\ Shown(tops, scopes, 1, n)
    BY <1>8, <1>12, <2>1 DEF Shown
  <2>3. Symbol(tops, tt, 1, n) = d /\ Symbol(tops, scopes, 1, n) = d
    BY <1>7, <1>8, <1>12, <2>2 DEF Symbol
  <2>4. Symbol(tops, tt, Len(scopes), n) = Symbol(tops, scopes, Len(scopes), n)
    BY <1>1, <2>3
  <2>5. \A w : Sees(tops, w, scopes) => Sees(tops, w, tt)
    BY <1>1, <1>6, <2>4, SeesKept
  <2>6. ASSUME NEW w, Sees(tops, w, scopes)
        PROVE  HasSymbol(w, n, d)
    <3>1. Len(w) = 1 /\ w[1][n] = Symbol(tops, scopes, 1, n)
      BY <1>1, <2>6 DEF Sees
    <3> QED
      BY <2>3, <3>1 DEF HasSymbol
  <2> QED
    BY <1>3, <1>6, <1>10, <1>11, <1>1, <2>5, <2>6, EmptySeq DEF AddedTo
<1> QED
  BY <1>13, <1>14

\* The event and the frame of a visit that begins.
LEMMA Noted ==
  ASSUME RInv, DInv, Flat, NEW k \in Kinds \cup Refs \cup {"return"},
         NEW n \in Names \cup {NoName}, NEW params \in Seq(Names),
         NEW b \in Int \X {"name", "param", "this", NoName}, Visit(k, n), Record(k, n, params, b)
  PROVE  \E e \in Events : /\ e.kind = k /\ e.id = Id /\ e.name = n /\ e.params = params
                           /\ e.bound = b /\ events' = Append(events, e) /\ Placed(e)
                           /\ next' \in Int /\ pass = "resolve" /\ UNCHANGED <<pass, tops>>
<1>1. PICK e : e = [kind |-> k, id |-> Id, name |-> n, params |-> params,
                    bound |-> b, within |-> WithinId]
  OBVIOUS
<1>2. Id \in Int /\ WithinId \in Int /\ next' \in Int /\ pass = "resolve" /\ UNCHANGED <<pass, tops>>
  BY Visited DEF RInv
<1>3. e \in Events
  BY <1>1, <1>2 DEF Events
<1>4. /\ e.kind = k /\ e.id = Id /\ e.name = n /\ e.params = params /\ e.bound = b
      /\ e.within = WithinId /\ events' = Append(events, e)
  BY <1>1 DEF Record
<1> HIDE <1>1
<1>5. Placed(e)
  BY <1>4, VisitPlaced
<1> QED
  BY <1>2, <1>3, <1>4, <1>5

LEMMA FramePushed ==
  ASSUME RInv, NEW k, NEW n, Push(k, n)
  PROVE  /\ Initializes(frames') <=> k = "var"
         /\ Last(frames').id = Id /\ Last(frames').name = n
<1>1. PICK f : f = [kind |-> k, id |-> Id, name |-> n,
                    class |-> current_class, function |-> current_function]
  OBVIOUS
<1>2. f.kind = k /\ f.id = Id /\ f.name = n /\ frames' = Append(frames, f)
  BY <1>1 DEF Push
<1> HIDE <1>1
<1>3. IsList(frames)
  BY ListOf DEF RInv, Nested
<1>4. PICK gs : gs = frames'
  OBVIOUS
<1>5. gs # <<>> /\ gs[Len(gs)] = f
  BY <1>2, <1>3, <1>4, Appended
<1> QED
  BY <1>2, <1>4, <1>5 DEF Initializes, Last

ClassSeen(k, n) ==
  k = "class" /\ errors' = {} => \A w : Sees(tops, w, scopes) => HasSymbol(w, n, <<Id, "name">>)

LEMMA SOpened ==
  ASSUME RInv, DInv, SInv, Flat, NEW k \in Scoped, NEW n \in Names \cup {NoName}, ClassSeen(k, n),
         NEW params \in Seq(Names), Visit(k, n), Push(k, n), Record(k, n, params, None),
         errors \subseteq errors', NEW t \in Tables, \A x \in DOMAIN t : t[x].ready,
         NEW m \in Symbols,
         \A x \in Names : m[x] = IF x \in DOMAIN t /\ t[x].ready THEN t[x].decl ELSE Absent,
         m = IF k = "func" THEN [x \in Names |-> IF x \in Range(params) THEN <<Id, "param">> ELSE Absent]
             ELSE NoSymbols,
         errors' = {} =>
           \E tt \in Seq(Tables) :
             /\ tt # <<>> /\ HoistedHere(tops, tt) /\ ReadyThere(tops, frames, tt)
             /\ \A w : Sees(tops, w, scopes) => Sees(tops, w, tt)
             /\ scopes' = Append(tt, t)
  PROVE  SInv'
<1>1. PICK e \in Events : /\ e.kind = k /\ e.id = Id /\ e.name = n /\ e.params = params
                          /\ events' = Append(events, e) /\ Placed(e)
                          /\ next' \in Int /\ pass = "resolve" /\ UNCHANGED <<pass, tops>>
  <2>1. k \in Kinds \cup Refs \cup {"return"} /\ None \in Int \X {"name", "param", "this", NoName}
    BY DEF Kinds, None
  <2>2. PICK b \in Int \X {"name", "param", "this", NoName} : b = None
    BY <2>1
  <2>3. Record(k, n, params, b)
    BY <2>2
  <2>4. \E e \in Events : /\ e.kind = k /\ e.id = Id /\ e.name = n /\ e.params = params
                         /\ e.bound = b /\ events' = Append(events, e) /\ Placed(e)
                         /\ next' \in Int /\ pass = "resolve" /\ UNCHANGED <<pass, tops>>
    BY <2>1, <2>3, Noted
  <2> QED
    BY <2>4
<1>2. ~Initializes(frames) /\ ~Initializes(frames')
  <2>1. k \notin Refs /\ k # "var"
    BY DEF Scoped, Refs
  <2> QED
    BY <2>1, FramePushed, Visited DEF RInv, Initializes
<1>3. ASSUME errors' = {}
      PROVE  Prepared(e)
  <2>1. PICK tt \in Seq(Tables) :
             /\ tt # <<>> /\ HoistedHere(tops, tt) /\ ReadyThere(tops, frames, tt)
             /\ \A w : Sees(tops, w, scopes) => Sees(tops, w, tt)
             /\ scopes' = Append(tt, t)
    BY <1>3
  <2>2. PICK gs : gs = frames'
    OBVIOUS
  <2>3. HoistedHere(tops, scopes') /\ ReadyThere(tops, frames', scopes')
    BY <1>2, <2>1, <2>2, HoistedPushed, ReadyPushed
  <2>4. VarInitialized(tops, frames', scopes', events')
    BY <1>2 DEF VarInitialized
  <2>5. ASSUME NEW w, Sees(tops, w, scopes)
        PROVE  \E v \in Seq(Symbols) : Turned(w, v, e) /\ Sees(tops, v, scopes')
    <3>1. Sees(tops, Append(w, m), scopes')
      BY <2>1, <2>5, SeesPushed
    <3>2. Append(w, m) \in Seq(Symbols)
      BY <3>1 DEF Sees
    <3>3. Turned(w, Append(w, m), e)
      BY <1>1 DEF Turned, Parametrized, Scoped
    <3> QED
      BY <3>1, <3>2, <3>3
  <2>6. e.kind \notin {"use", "assign"}
    BY <1>1 DEF Scoped
  <2>7. ASSUME NEW w, Sees(tops, w, scopes), e.kind = "class"
        PROVE  HasSymbol(w, e.name, <<e.id, "name">>)
    BY <1>1, <1>3, <2>7 DEF ClassSeen
  <2> QED
    BY <2>3, <2>4, <2>5, <2>6, <2>7 DEF Prepared
<1> QED
  BY <1>1, <1>3, SRecorded


\* The end of a visit.
LEMMA NotedEnd ==
  ASSUME RInv, frames # <<>>, next' = next, NEW k \in {"exit", "endvar"},
         NEW n \in Names \cup {NoName}, NEW b \in Int \X {"name", "param", "this", NoName},
         Record(k, n, <<>>, b)
  PROVE  \E e \in Events : /\ e.kind = k /\ e.name = n /\ e.bound = b
                           /\ events' = Append(events, e) /\ Placed(e) /\ next' \in Int
<1>1. PICK e : e = [kind |-> k, id |-> Id, name |-> n, params |-> <<>>,
                    bound |-> b, within |-> WithinId]
  OBVIOUS
<1>2. Id \in Int /\ WithinId \in Int /\ next' \in Int /\ next \in Nat /\ <<>> \in Seq(Names)
  BY Ids, EmptySeq, LenProperties DEF RInv, Shapes
<1>3. e \in Events
  BY <1>1, <1>2 DEF Events
<1>4. e.kind = k /\ e.name = n /\ e.bound = b /\ events' = Append(events, e)
  BY <1>1 DEF Record
<1> HIDE <1>1
<1>5. next' # next + 1
  BY <1>2
<1>6. Placed(e)
  BY <1>4, <1>5 DEF Placed
<1> QED
  BY <1>2, <1>3, <1>4, <1>6

LEMMA FramePopped ==
  ASSUME NEW fs, NEW ss, Nested(fs, ss), fs # <<>>
  PROVE  ~Initializes(Front(fs))
<1>1. /\ fs \in Seq(Frames) /\ \A i \in 1..Len(fs) : fs[i].kind = "var" => i = Len(fs)
  BY DEF Nested
<1>2. PICK gs : gs = Front(fs)
  OBVIOUS
<1>3. /\ gs \in Seq(Frames) /\ Len(fs) \in Nat \ {0} /\ Len(gs) = Len(fs) - 1
      /\ \A i \in 1..Len(fs) - 1 : gs[i] = fs[i]
  BY <1>1, <1>2, PoppedOff
<1>4. ASSUME gs # <<>>
      PROVE  Last(gs).kind # "var"
  <2>1. Len(gs) \in Nat \ {0} /\ Last(gs) = gs[Len(gs)]
    BY <1>3, <1>4, EmptySeq DEF Last
  <2>2. Len(gs) \in 1..Len(fs) - 1
    BY <1>3, <2>1
  <2>3. Last(gs) = fs[Len(gs)] /\ Len(gs) \in 1..Len(fs) /\ Len(gs) # Len(fs)
    BY <1>3, <2>1, <2>2
  <2> QED
    BY <1>1, <2>3
<1> QED
  BY <1>2, <1>4 DEF Initializes

LEMMA SClosed == ASSUME RInv, SInv, Leave PROVE SInv'
<1>1. /\ frames # <<>> /\ Top.kind \in Scoped /\ Top \in Frames /\ Top = Last(frames)
      /\ scopes \in Seq(Tables) /\ Len(scopes) \in Nat /\ Len(scopes) > 1
  <2>1. frames # <<>> /\ Top.kind \in Scoped
    BY DEF Leave, Within, Scoped
  <2>2. Top.kind # "var" /\ Last(frames) = Top /\ Len(frames) \in Nat \ {0} /\ Top \in Frames
    BY <2>1, Depths DEF RInv, Top, Scoped
  <2>3. Depth(frames) = Len(frames)
    BY <2>2 DEF Depth
  <2>4. Len(scopes) = Len(frames) + 1 /\ scopes \in Seq(Tables)
    BY <2>3 DEF RInv, Nested
  <2> QED
    BY <2>1, <2>2, <2>4
<1>2. /\ pass = "resolve" /\ UNCHANGED <<pass, tops>> /\ next' = next /\ errors' = errors
      /\ scopes' = Front(scopes) /\ frames' = Front(frames)
  BY DEF Leave
<1>3. PICK e \in Events : e.kind = "exit" /\ events' = Append(events, e) /\ Placed(e)
                          /\ next' \in Int
  <2>1. PICK k, b, n : k = "exit" /\ b = None /\ n = Top.name
    OBVIOUS
  <2>2. Record(k, n, <<>>, b)
    BY <2>1 DEF Leave
  <2>3. /\ k \in {"exit", "endvar"} /\ n \in Names \cup {NoName}
        /\ b \in Int \X {"name", "param", "this", NoName}
    BY <1>1, <2>1 DEF None, Frames
  <2>4. k = "exit"
    BY <2>1
  <2> HIDE <2>1
  <2> QED
    BY <1>1, <1>2, <2>2, <2>3, <2>4, NotedEnd
<1>4. ~Initializes(frames) /\ ~Initializes(frames')
  BY <1>1, <1>2, FramePopped DEF RInv, Initializes, Scoped
<1>5. ASSUME errors' = {}
      PROVE  Prepared(e)
  <2>1. HoistedHere(tops, scopes) /\ ReadyThere(tops, frames, scopes)
    BY <1>2, <1>5 DEF SInv
  <2>2. PICK gs : gs = frames'
    OBVIOUS
  <2>3. HoistedHere(tops, scopes') /\ ReadyThere(tops, frames', scopes')
    BY <1>1, <1>2, <1>4, <2>1, <2>2, HoistedPopped, ReadyPopped
  <2>4. VarInitialized(tops, frames', scopes', events')
    BY <1>4 DEF VarInitialized
  <2>5. ASSUME NEW w, Sees(tops, w, scopes)
        PROVE  \E v \in Seq(Symbols) : Turned(w, v, e) /\ Sees(tops, v, scopes')
    <3>1. Sees(tops, Front(w), scopes')
      BY <1>1, <1>2, <2>5, SeesPopped
    <3>2. Front(w) \in Seq(Symbols) /\ Len(w) > 1
      BY <1>1, <2>5, <3>1 DEF Sees
    <3> QED
      BY <1>3, <3>1, <3>2 DEF Turned
  <2> QED
    BY <1>3, <2>3, <2>4, <2>5 DEF Prepared
<1> QED
  BY <1>2, <1>3, <1>5, SRecorded

LEMMA SDefined == ASSUME RInv, SInv, DefineVar PROVE SInv'
<1>1. /\ frames # <<>> /\ Top.kind = "var" /\ Top \in Frames /\ Top = Last(frames)
      /\ scopes \in Seq(Tables) /\ scopes # <<>>
  <2>1. frames # <<>> /\ Top.kind = "var"
    BY DEF DefineVar, Within
  <2> QED
    BY <2>1, Depths DEF RInv, Nested, Top
<1>2. /\ pass = "resolve" /\ UNCHANGED <<pass, tops>> /\ next' = next /\ errors' = errors
      /\ frames' = Front(frames)
  BY DEF DefineVar
<1>3. PICK n \in Names : n = Top.name /\ n = Last(frames).name
  BY <1>1 DEF Frames
<1>4. PICK d \in Decls : d = <<Top.id, "name">>
  BY <1>1 DEF Decls, Frames
<1>5. PICK x : x = Entry(d, TRUE)
  OBVIOUS
<1>6. AddedTo(scopes, scopes', n, x)
  BY <1>1, <1>3, <1>4, <1>5, Adding DEF Define, DefineVar
<1>7. x.ready /\ x.decl = d
  BY <1>5 DEF Entry
<1> HIDE <1>5
<1>8. PICK e \in Events : /\ e.kind = "endvar" /\ e.name = n /\ e.bound = d
                          /\ events' = Append(events, e) /\ Placed(e) /\ next' \in Int
  <2>1. PICK k : k = "endvar"
    OBVIOUS
  <2>2. Record(k, n, <<>>, d)
    BY <1>3, <1>4, <2>1 DEF DefineVar
  <2>3. k \in {"exit", "endvar"} /\ d \in Int \X {"name", "param", "this", NoName}
        /\ n \in Names \cup {NoName}
    BY <2>1 DEF Decls
  <2> QED
    BY <1>1, <1>2, <2>1, <2>2, <2>3, NotedEnd
<1>9. Initializes(frames) /\ ~Initializes(frames')
  BY <1>1, <1>2, FramePopped DEF RInv, Initializes
<1>10. ASSUME errors' = {}
       PROVE  Prepared(e)
  <2>1. /\ HoistedHere(tops, scopes) /\ ReadyThere(tops, frames, scopes)
        /\ Len(scopes) = 1 => ~Global(tops, "func", n) /\ ~Global(tops, "class", n)
    BY <1>2, <1>3, <1>9, <1>10 DEF SInv, VarInitialized
  <2>2. PICK tt, gs : tt = scopes' /\ gs = frames'
    OBVIOUS
  <2>3. HoistedHere(tops, tt)
    <3>1. Len(scopes) = 1 => \A q \in 1..Len(tops) :
            tops[q].kind \in {"func", "class"} /\ tops[q].name = n => x.decl = <<-q, "name">>
      BY <2>1 DEF Global
    <3> QED
      BY <1>1, <1>6, <2>1, <2>2, <3>1, HoistedAdded
  <2>4. ReadyThere(tops, gs, tt)
    BY <1>1, <1>3, <1>6, <1>7, <2>1, <2>2, ReadyAdded
  <2>5. VarInitialized(tops, frames', scopes', events')
    BY <1>9 DEF VarInitialized
  <2>6. ASSUME NEW w, Sees(tops, w, scopes)
        PROVE  \E v \in Seq(Symbols) : Turned(w, v, e) /\ Sees(tops, v, scopes')
    <3>1. PICK v \in Seq(Symbols) : Mapped(w, v, n, d) /\ Sees(tops, v, tt)
      BY <1>1, <1>6, <1>7, <2>1, <2>2, <2>6, SeesMapped
    <3> QED
      BY <1>8, <2>2, <3>1 DEF Turned
  <2> QED
    BY <1>8, <2>2, <2>3, <2>4, <2>5, <2>6 DEF Prepared
<1> QED
  BY <1>2, <1>8, <1>10, SRecorded

LEMMA SVariable == ASSUME RInv, DInv, SInv, Flat, NEW n \in Names, DeclareVar(n) PROVE SInv'
<1>1. /\ scopes \in Seq(Tables) /\ scopes # <<>> /\ ~Initializes(frames) /\ Id \in Int
      /\ Len(events) \in Nat /\ events \in Seq(Events)
  <2>1. Visit("var", n)
    BY DEF DeclareVar
  <2> QED
    BY <2>1, Visited, Depths DEF RInv, Shapes, Nested, Initializes, Refs
<1>2. PICK e \in Events : /\ e.kind = "var" /\ e.id = Id /\ events' = Append(events, e)
                          /\ Placed(e) /\ next' \in Int /\ pass = "resolve"
                          /\ UNCHANGED <<pass, tops>>
  <2>1. PICK k, b, ps : k = "var" /\ b = None /\ ps = <<>>
    OBVIOUS
  <2>2. Visit(k, n) /\ Record(k, n, ps, b)
    BY <2>1 DEF DeclareVar
  <2>3. /\ k \in Kinds \cup Refs \cup {"return"} /\ n \in Names \cup {NoName}
        /\ b \in Int \X {"name", "param", "this", NoName} /\ ps \in Seq(Names)
    BY <2>1, EmptySeq DEF None, Kinds
  <2>4. k = "var"
    BY <2>1
  <2> HIDE <2>1
  <2> QED
    BY <2>2, <2>3, <2>4, Noted
<1>3. Initializes(frames') /\ Last(frames').id = Id /\ Last(frames').name = n
  <2>1. Push("var", n)
    BY DEF DeclareVar
  <2> QED
    BY <2>1, FramePushed
<1>4. PICK d \in Decls : d = <<Id, "name">>
  BY <1>1 DEF Decls
<1>5. errors' = errors \cup Declare(scopes, n, d).errors /\ scopes' = Declare(scopes, n, d).ss
  BY <1>4 DEF DeclareVar
<1>6. ASSUME errors' = {}
      PROVE  Prepared(e)
  <2>1. HoistedHere(tops, scopes) /\ ReadyThere(tops, frames, scopes)
    BY <1>5, <1>6 DEF SInv
  <2>2. n \notin DOMAIN Last(scopes) /\ scopes' = Add(scopes, n, d, FALSE)
    BY <1>5, <1>6 DEF Declare
  <2>3. PICK x : x = Entry(d, FALSE)
    OBVIOUS
  <2>4. AddedTo(scopes, scopes', n, x)
    BY <1>1, <2>2, <2>3, Adding
  <2>5. ~x.ready /\ x.decl = d /\ x = Entry(<<Id, "name">>, FALSE)
    BY <1>4, <2>3 DEF Entry
  <2> HIDE <2>3
  <2>6. PICK tt, gs : tt = scopes' /\ gs = frames'
    OBVIOUS
  <2>7. PICK l \in 1..Len(scopes) : l = Len(scopes) /\ n \notin DOMAIN scopes[l]
    <3>1. Len(scopes) \in 1..Len(scopes)
      BY <1>1, LenProperties, EmptySeq
    <3> QED
      BY <2>2, <3>1 DEF Last
  <2>8. /\ l = 1 => ~Global(tops, "func", n) /\ ~Global(tops, "class", n)
        /\ l = 1 => \A q \in 1..Len(tops) :
             tops[q].kind \in {"func", "class"} /\ tops[q].name = n => x.decl = <<-q, "name">>
    BY <2>1, <2>7 DEF HoistedHere, Global
  <2>9. HoistedHere(tops, tt)
    BY <1>1, <2>1, <2>4, <2>6, <2>7, <2>8, HoistedAdded
  <2>10. ReadyThere(tops, gs, tt)
    BY <1>1, <1>3, <2>1, <2>4, <2>6, ReadyAdded
  <2>11. n \in DOMAIN tt[l] /\ tt[l][n] = x /\ Len(tt) = l
    BY <2>4, <2>6, <2>7 DEF AddedTo
  <2>12. Unfinished(events', Len(events'), d)
    <3>1. PICK m, es : m = Len(events) /\ es = events'
      OBVIOUS
    <3>2. /\ Len(es) = m + 1 /\ Extended(events, es, m) /\ es[m + 1] = e /\ m \in Nat
      <4>1. es = Append(events, e)
        BY <1>2, <3>1
      <4>2. es \in Seq(Events) /\ Len(es) = m + 1 /\ es[m + 1] = e /\ \A i \in 1..m : es[i] = events[i]
        BY <1>1, <3>1, <4>1, PushedAs
      <4> QED
        BY <1>1, <3>1, <4>2 DEF Extended
    <3>3. Unfinished(es, m + 1, d)
      BY <1>2, <1>4, <3>2, UnfinishedOn
    <3> QED
      BY <3>1, <3>2, <3>3
  <2>13. VarInitialized(tops, frames', scopes', events')
    BY <1>3, <1>4, <2>5, <2>6, <2>8, <2>11, <2>12 DEF VarInitialized
  <2>14. Symbol(tops, tt, Len(scopes), n) = Symbol(tops, scopes, Len(scopes), n)
    BY <2>5, <2>7, <2>8, <2>11 DEF Symbol, Shown
  <2>15. \A w : Sees(tops, w, scopes) => Sees(tops, w, tt) /\ w \in Seq(Symbols)
    <3>1. \A w : Sees(tops, w, scopes) => Sees(tops, w, tt)
      BY <1>1, <2>4, <2>6, <2>14, SeesKept
    <3> QED
      BY <3>1 DEF Sees
  <2>16. \A w : Turned(w, w, e)
    BY <1>2 DEF Turned
  <2> QED
    BY <1>2, <2>6, <2>9, <2>10, <2>13, <2>15, <2>16 DEF Prepared
<1> QED
  BY <1>2, <1>5, <1>6, SRecorded


LEMMA SReferring ==
  ASSUME RInv, DInv, SInv, Flat, NEW k \in Refs \cup {"return"}, NEW n \in Names \cup {NoName},
         NEW b \in Int \X {"name", "param", "this", NoName}, Visit(k, n), Record(k, n, <<>>, b),
         errors \subseteq errors', UNCHANGED <<scopes, frames>>,
         k \in {"use", "assign"} => n \in Names,
         errors' = {} => \A w : Sees(tops, w, scopes) =>
           /\ k = "use" => ReadAs(tops, w, n, b)
           /\ k = "assign" => ReadAs(tops, w, n, b) \/ Unfinished(events, Len(events), b)
  PROVE  SInv'
<1>1. PICK e \in Events : /\ e.kind = k /\ e.name = n /\ e.bound = b
                          /\ events' = Append(events, e) /\ Placed(e)
                          /\ next' \in Int /\ pass = "resolve" /\ UNCHANGED <<pass, tops>>
  <2>1. PICK j, m, d, ps : j = k /\ m = n /\ d = b /\ ps = <<>>
    OBVIOUS
  <2>2. /\ j \in Refs \cup {"return"} /\ m \in Names \cup {NoName}
        /\ d \in Int \X {"name", "param", "this", NoName} /\ Visit(j, m) /\ Record(j, m, ps, d)
        /\ j \in Kinds \cup Refs \cup {"return"} /\ ps \in Seq(Names)
    BY <2>1, EmptySeq
  <2>4. \E e \in Events : /\ e.kind = j /\ e.id = Id /\ e.name = m /\ e.params = ps
                         /\ e.bound = d /\ events' = Append(events, e) /\ Placed(e)
                         /\ next' \in Int /\ pass = "resolve" /\ UNCHANGED <<pass, tops>>
    <3> HIDE <2>1
    <3> QED
      BY <2>2, Noted
  <2> QED
    BY <2>1, <2>4
<1>2. ASSUME errors' = {}
      PROVE  Prepared(e)
  <2>1. /\ HoistedHere(tops, scopes) /\ ReadyThere(tops, frames, scopes)
        /\ VarInitialized(tops, frames, scopes, events)
    BY <1>2 DEF SInv
  <2>2. ASSUME NEW d, Unfinished(events, Len(events), d)
        PROVE  Unfinished(events', Len(events'), d)
    <3>1. PICK m, es : m = Len(events) /\ es = events'
      OBVIOUS
    <3>2. /\ Len(es) = m + 1 /\ Extended(events, es, m) /\ es[m + 1] = e /\ m \in Nat
      <4>1. es = Append(events, e) /\ events \in Seq(Events)
        BY <1>1, <3>1 DEF RInv, Shapes
      <4>2. /\ m \in Nat /\ es \in Seq(Events) /\ Len(es) = m + 1 /\ es[m + 1] = e
            /\ \A i \in 1..m : es[i] = events[i]
        BY <3>1, <4>1, PushedAs
      <4> QED
        BY <3>1, <4>1, <4>2 DEF Extended
    <3>3. es[m + 1].kind # "endvar"
      BY <1>1, <3>2 DEF Refs
    <3>4. Unfinished(es, m + 1, d)
      BY <2>2, <3>1, <3>2, <3>3, UnfinishedOn
    <3> QED
      BY <3>1, <3>2, <3>4
  <2>3. VarInitialized(tops, frames, scopes, events')
    BY <2>1, <2>2 DEF VarInitialized
  <2>4. \A w : Sees(tops, w, scopes) => w \in Seq(Symbols)
    BY DEF Sees
  <2>5. \A w : Turned(w, w, e)
    BY <1>1 DEF Turned
  <2>6. e.kind # "class"
    BY <1>1 DEF Refs
  <2> QED
    BY <1>1, <1>2, <2>1, <2>3, <2>4, <2>5, <2>6 DEF Prepared
<1> QED
  BY <1>1, <1>2, SRecorded

LEMMA SRead ==
  ASSUME RInv, DInv, SInv, Flat, NEW n \in Names, Variable(n) \/ Assignment(n)
  PROVE  SInv'
<1>1. scopes \in Seq(Tables) /\ events \in Seq(Events)
  BY DEF RInv, Nested, Shapes
<1>2. PICK b \in Int \X {"name", "param", "this", NoName} : b = Bound(n)
  BY BoundTyped DEF RInv
<1>3. PICK i : i = ResolveLocal(scopes, n)
  OBVIOUS
<1>4. i # 0 => b = scopes[i][n].decl
  BY <1>2, <1>3 DEF Bound
<1>5. i # 0 => i \in 1..Len(scopes) /\ n \in DOMAIN scopes[i]
  BY <1>1, <1>3, Resolved
<1>6. ASSUME errors = {}, i # 0, NEW w, Sees(tops, w, scopes)
      PROVE  \/ ReadAs(tops, w, n, b)
             \/ Initializes(frames) /\ i = Len(scopes) /\ n = Last(frames).name /\ ~scopes[i][n].ready
  <2>1. HoistedHere(tops, scopes) /\ ReadyThere(tops, frames, scopes)
    BY <1>6 DEF SInv
  <2> QED
    BY <1>1, <1>3, <1>4, <1>6, <2>1, ReadFinds
<1>7. CASE Variable(n)
  <2>1. PICK k : k = "use"
    OBVIOUS
  <2>2. /\ Visit(k, n) /\ Record(k, n, <<>>, b) /\ errors \subseteq errors'
        /\ UNCHANGED <<scopes, frames>>
    BY <1>2, <1>7, <2>1 DEF Variable
  <2>3. ASSUME errors' = {}, NEW w, Sees(tops, w, scopes)
        PROVE  ReadAs(tops, w, n, b)
    <3>1. errors = {} /\ ReadErrors(n) = {}
      BY <1>7, <2>3 DEF Variable
    <3>2. i # 0
      BY <1>3, <3>1 DEF ReadErrors, Undeclared
    <3>3. i = Len(scopes) => scopes[i][n].ready
      BY <1>5, <3>1, <3>2 DEF ReadErrors, Last
    <3> QED
      BY <1>6, <2>3, <3>1, <3>2, <3>3
  <2>4. k \in Refs \cup {"return"} /\ n \in Names \cup {NoName} /\ k # "assign"
    BY <2>1 DEF Refs
  <2> HIDE <2>1
  <2> QED
    BY <2>2, <2>3, <2>4, SReferring
<1>8. CASE Assignment(n)
  <2>1. PICK k : k = "assign"
    OBVIOUS
  <2>2. /\ Visit(k, n) /\ Record(k, n, <<>>, b) /\ errors \subseteq errors'
        /\ UNCHANGED <<scopes, frames>>
    BY <1>2, <1>8, <2>1 DEF Assignment
  <2>3. ASSUME errors' = {}, NEW w, Sees(tops, w, scopes)
        PROVE  ReadAs(tops, w, n, b) \/ Unfinished(events, Len(events), b)
    <3>1. errors = {} /\ Undeclared(n) = {}
      BY <1>8, <2>3 DEF Assignment
    <3>2. i # 0
      BY <1>3, <3>1 DEF Undeclared
    <3>3. CASE Initializes(frames) /\ i = Len(scopes) /\ n = Last(frames).name
      <4>1. /\ scopes[i][n] = Entry(<<Last(frames).id, "name">>, FALSE)
            /\ Unfinished(events, Len(events), <<Last(frames).id, "name">>)
        BY <3>1, <3>3 DEF SInv, VarInitialized
      <4>2. b = <<Last(frames).id, "name">>
        BY <1>4, <3>2, <4>1 DEF Entry
      <4> QED
        BY <4>1, <4>2
    <3> QED
      BY <1>6, <2>3, <3>1, <3>2, <3>3
  <2>4. k \in Refs \cup {"return"} /\ n \in Names \cup {NoName} /\ k # "use"
    BY <2>1 DEF Refs
  <2> HIDE <2>1
  <2> QED
    BY <2>2, <2>3, <2>4, SReferring
<1> QED
  BY <1>7, <1>8

\* The first pass.
LEMMA STopDeclared ==
  ASSUME RInv, SInv, NEW k \in TopKinds, NEW n \in NamesFor(k), DeclareTop(k, n)
  PROVE  SInv'
<1>1. /\ pass = "declare" /\ pass' = pass /\ frames = <<>> /\ frames' = frames
      /\ events = <<>> /\ events' = events /\ next = 0 /\ next' = next
  BY DEF DeclareTop, RInv, Shapes
<1>2. scopes \in Seq(Tables) /\ scopes # <<>> /\ Len(scopes) = 1
  <2>1. Depth(frames) = 0
    BY <1>1, Depths DEF RInv
  <2>2. scopes \in Seq(Tables) /\ Len(scopes) = Depth(frames) + 1
    BY DEF RInv, Nested
  <2>3. scopes # <<>>
    BY Depths DEF RInv
  <2> QED
    BY <2>1, <2>2, <2>3
<1>3. PICK tp, m : /\ tp = tops' /\ m = Len(tops) /\ m \in Nat /\ Len(tp) = m + 1
                   /\ tp[m + 1].kind = k /\ tp[m + 1].name = n
                   /\ \A q \in 1..m : tp[q] = tops[q]
  <2>1. PICK x : x = [kind |-> k, name |-> n]
    OBVIOUS
  <2>2. PICK tp, m : tp = tops' /\ m = Len(tops)
    OBVIOUS
  <2>3. x \in Tops /\ tops \in Seq(Tops) /\ tp = Append(tops, x)
    BY <2>1, <2>2 DEF NamesFor, Tops, RInv, Shapes, DeclareTop
  <2>4. /\ m \in Nat /\ Len(tp) = m + 1 /\ tp[m + 1] = x /\ \A q \in 1..m : tp[q] = tops[q]
    BY <2>2, <2>3, PushedAs
  <2>5. x.kind = k /\ x.name = n
    BY <2>1
  <2> HIDE <2>1
  <2> QED
    BY <2>2, <2>4, <2>5
<1>4. \A j, s : Global(tops, j, s) => Global(tp, j, s)
  <2>1. \A q \in 1..m : q \in 1..Len(tp)
    BY <1>3
  <2> QED
    BY <1>3, <2>1 DEF Global
<1>5. TopsRecorded'
  BY <1>1, EmptySeq DEF TopsRecorded
<1>6. ASSUME errors' = {}
      PROVE  /\ HoistedHere(tp, scopes') /\ Len(scopes') = 1
             /\ \A s \in DOMAIN scopes'[1] : Global(tp, "func", s) \/ Global(tp, "class", s)
  <2>1. errors \subseteq errors'
    BY KindsKnown DEF DeclareTop
  <2>2. /\ HoistedHere(tops, scopes)
        /\ \A s \in DOMAIN scopes[1] : Global(tops, "func", s) \/ Global(tops, "class", s)
    BY <1>1, <1>6, <2>1 DEF SInv
  <2>3. CASE k \in {"func", "class"}
    <3>1. n \in Names
      BY <2>3 DEF NamesFor, Named
    <3>2. PICK d : d = <<-(m + 1), "name">>
      OBVIOUS
    <3>3. d \in Decls /\ d = <<-Len(tops'), "name">>
      <4>1. -(m + 1) \in Int
        BY <1>3
      <4>2. d \in Decls
        BY <3>2, <4>1 DEF Decls
      <4>3. Len(tops') = m + 1
        BY <1>3
      <4> QED
        BY <3>2, <4>2, <4>3
    <3>4. scopes' = Declare(scopes, n, d).ss /\ Declare(scopes, n, d).errors = {}
      BY <1>6, <2>3, <3>3 DEF DeclareTop
    <3>5. Last(scopes) = scopes[1]
      BY <1>2 DEF Last
    <3>6. n \notin DOMAIN scopes[1] /\ scopes' = Add(scopes, n, d, FALSE)
      BY <3>4, <3>5 DEF Declare
    <3>7. PICK x : x = Entry(d, FALSE)
      OBVIOUS
    <3>8. AddedTo(scopes, scopes', n, x) /\ x.decl = d
      BY <1>2, <3>1, <3>3, <3>6, <3>7, Adding DEF Entry
    <3> HIDE <3>7
    <3>9. /\ Len(scopes') = 1 /\ DOMAIN scopes'[1] = DOMAIN scopes[1] \cup {n}
          /\ \A s \in DOMAIN scopes'[1] : scopes'[1][s] = IF s = n THEN x ELSE scopes[1][s]
      BY <1>2, <3>8 DEF AddedTo
    <3>10. ASSUME NEW q \in 1..m + 1, tp[q].kind \in {"func", "class"}
           PROVE  /\ tp[q].name \in Names /\ tp[q].name \in DOMAIN scopes'[1]
                  /\ scopes'[1][tp[q].name].decl = <<-q, "name">>
      <4>1. CASE q = m + 1
        BY <1>3, <3>1, <3>2, <3>8, <3>9, <4>1
      <4>2. CASE q # m + 1
        <5>1. q \in 1..m /\ tp[q] = tops[q]
          BY <1>3, <4>2
        <5>2. /\ tp[q].name \in Names /\ tp[q].name \in DOMAIN scopes[1]
              /\ scopes[1][tp[q].name].decl = <<-q, "name">>
          BY <1>3, <2>2, <3>10, <5>1 DEF HoistedHere
        <5> QED
          BY <3>6, <3>9, <5>2
      <4> QED
        BY <4>1, <4>2
    <3>11. Global(tp, k, n)
      <4>1. m + 1 \in 1..Len(tp)
        BY <1>3
      <4> QED
        BY <1>3, <4>1 DEF Global
    <3> QED
      BY <1>3, <1>4, <2>2, <2>3, <3>9, <3>10, <3>11 DEF HoistedHere
  <2>4. CASE k \notin {"func", "class"}
    <3>1. scopes' = scopes
      BY <2>4, KindsKnown DEF DeclareTop
    <3>2. \A q \in 1..Len(tp) : tp[q].kind \in {"func", "class"} => q \in 1..m /\ tp[q] = tops[q]
      BY <1>3, <2>4
    <3>3. HoistedHere(tp, scopes)
      BY <1>3, <2>2, <3>2 DEF HoistedHere
    <3> QED
      BY <1>2, <1>4, <2>2, <3>1, <3>3
  <2> QED
    BY <2>3, <2>4
<1>7. ASSUME errors' = {}
      PROVE  ReadyThere(tp, frames', scopes') /\ VarInitialized(tp, frames', scopes', events')
  <2>1. ~Initializes(frames')
    BY <1>1 DEF Initializes
  <2>2. PICK ss : ss = scopes'
    OBVIOUS
  <2>3. /\ Len(ss) = 1
        /\ \A s \in DOMAIN ss[1] : Global(tp, "func", s) \/ Global(tp, "class", s)
    BY <1>6, <1>7, <2>2
  <2>4. ReadyThere(tp, frames', ss)
    <3> SUFFICES ASSUME NEW l \in 1..Len(ss), NEW s \in DOMAIN ss[l]
                 PROVE  l = 1 /\ (Global(tp, "func", s) \/ Global(tp, "class", s))
      BY DEF ReadyThere
    <3>1. l = 1
      BY <2>3
    <3> QED
      BY <2>3, <3>1
  <2> QED
    BY <2>1, <2>2, <2>4 DEF VarInitialized
<1> QED
  BY <1>1, <1>3, <1>5, <1>6, <1>7 DEF SInv

LEMMA SStarting == ASSUME RInv, SInv, StartResolving PROVE SInv'
<1>1. /\ pass = "declare" /\ pass' = "resolve" /\ frames = <<>> /\ events = <<>>
      /\ UNCHANGED <<tops, next, scopes, frames, events, errors>>
  BY DEF StartResolving, RInv, Shapes
<1>2. scopes \in Seq(Tables) /\ scopes # <<>> /\ Len(scopes) = 1
  <2>1. Depth(frames) = 0
    BY <1>1, Depths DEF RInv
  <2>2. scopes \in Seq(Tables) /\ Len(scopes) = Depth(frames) + 1
    BY DEF RInv, Nested
  <2>3. scopes # <<>>
    BY Depths DEF RInv
  <2> QED
    BY <2>1, <2>2, <2>3
<1>3. ASSUME errors = {}
      PROVE  \E vs : Views(tops, vs, events) /\ Sees(tops, vs[Len(events)], scopes)
  <2>1. /\ HoistedHere(tops, scopes)
        /\ \A s \in DOMAIN scopes[1] : Global(tops, "func", s) \/ Global(tops, "class", s)
    BY <1>1, <1>3 DEF SInv
  <2>2. PICK g : g = [n \in Names |-> Symbol(tops, scopes, 1, n)]
    OBVIOUS
  <2>3. g \in Symbols
    <3>1. \A n \in Names : Symbol(tops, scopes, 1, n) \in Decls \cup {Absent}
      BY <1>2, SymbolTyped
    <3> QED
      BY <2>2, <3>1 DEF Symbols
  <2>4. PICK v : v \in Seq(Symbols) /\ Len(v) = 1 /\ v[1] = g
    <3> HIDE <2>2
    <3>1. PICK q : q = <<>>
      OBVIOUS
    <3>2. q \in Seq(Symbols) /\ Len(q) = 0
      BY <3>1, EmptySeq
    <3> HIDE <3>1
    <3>3. Append(q, g) \in Seq(Symbols) /\ Len(Append(q, g)) = 1 /\ Append(q, g)[1] = g
      BY <2>3, <3>2, PushedOn
    <3> QED
      BY <3>3
  <2>5. PICK vs : vs = [i \in 0..0 |-> v]
    OBVIOUS
  <2>6. Len(events) = 0 /\ vs \in [0..Len(events) -> Seq(Symbols)] /\ vs[0] = v
    BY <1>1, <2>4, <2>5, EmptySeq
  <2>7. ASSUME NEW n \in Names
        PROVE  GlobalIs(tops, "class", n, v[1][n]) \/ (v[1][n] = Absent /\ ~Global(tops, "class", n))
    <3>1. v[1][n] = Symbol(tops, scopes, 1, n)
      BY <2>2, <2>4
    <3>2. CASE Global(tops, "class", n)
      <4>1. PICK q \in 1..Len(tops) : tops[q].kind = "class" /\ tops[q].name = n
        BY <3>2 DEF Global
      <4>2. n \in DOMAIN scopes[1] /\ scopes[1][n].decl = <<-q, "name">>
        BY <2>1, <4>1 DEF HoistedHere
      <4>3. ~Global(tops, "func", n)
        <5> SUFFICES ASSUME NEW p \in 1..Len(tops), tops[p].kind = "func", tops[p].name = n
                     PROVE  FALSE
          BY DEF Global
        <5>1. scopes[1][n].decl = <<-p, "name">>
          BY <2>1 DEF HoistedHere
        <5>2. <<-p, "name">> = <<-q, "name">>
          BY <4>2, <5>1
        <5>3. -p = -q
          BY <5>2
        <5>4. p \in Int /\ q \in Int
          OBVIOUS
        <5>5. p = q
          BY <5>3, <5>4
        <5> QED
          BY <4>1, <5>5
      <4>4. Shown(tops, scopes, 1, n)
        BY <3>2, <4>2, <4>3 DEF Shown
      <4> QED
        BY <3>1, <4>1, <4>2, <4>4 DEF Symbol, GlobalIs
    <3>3. CASE ~Global(tops, "class", n)
      <4>1. ~Shown(tops, scopes, 1, n)
        BY <2>1, <3>3 DEF Shown
      <4> QED
        BY <3>1, <3>3, <4>1 DEF Symbol
    <3> QED
      BY <3>2, <3>3
  <2>8. OnlyClasses(tops, vs[0])
    BY <2>4, <2>6, <2>7 DEF OnlyClasses
  <2>9. Views(tops, vs, events)
    BY <2>6, <2>8 DEF Views
  <2>10. Sees(tops, vs[Len(events)], scopes)
    <3> SUFFICES ASSUME NEW l \in 1..1, NEW n \in Names
                 PROVE  v[l][n] = Symbol(tops, scopes, l, n)
      BY <1>2, <2>4, <2>6 DEF Sees
    <3>1. l = 1
      OBVIOUS
    <3> QED
      BY <2>2, <2>4, <3>1
  <2> QED
    BY <2>9, <2>10
<1>4. TopsRecorded'
  BY <1>1 DEF SInv, TopsRecorded
<1> QED
  BY <1>1, <1>3, <1>4 DEF SInv


LEMMA SBlock == ASSUME RInv, DInv, SInv, Flat, EnterBlock PROVE SInv'
<1>1. PICK k, n, ps, t : k = "block" /\ n = NoName /\ ps = <<>> /\ t = <<>>
  OBVIOUS
<1>2. /\ k \in Scoped /\ k # "func" /\ n \in Names \cup {NoName} /\ ps \in Seq(Names)
  BY <1>1, EmptySeq DEF Scoped
<1>3. DOMAIN t = {} /\ t \in Tables
  <2>1. DOMAIN t = {} /\ t = [x \in DOMAIN t |-> t[x]]
    BY <1>1
  <2> QED
    BY <2>1, TableOf
<1>4. /\ Visit(k, n) /\ Push(k, n) /\ Record(k, n, ps, None) /\ errors' = errors
      /\ scopes' = Append(scopes, t)
  BY <1>1 DEF EnterBlock
<1>b. ClassSeen(k, n)
  BY <1>1 DEF ClassSeen
<1> HIDE <1>1
<1>5. /\ NoSymbols \in Symbols
      /\ \A x \in Names : NoSymbols[x] = Absent
  BY DEF NoSymbols, Symbols
<1>6. PICK m : m = NoSymbols
  OBVIOUS
<1>7. /\ m \in Symbols
      /\ \A x \in Names : m[x] = IF x \in DOMAIN t /\ t[x].ready THEN t[x].decl ELSE Absent
  BY <1>3, <1>5, <1>6
<1>8. m = IF k = "func" THEN [x \in Names |-> IF x \in Range(ps) THEN <<Id, "param">> ELSE Absent]
          ELSE NoSymbols
  BY <1>2, <1>6
<1>9. errors' = {} =>
        \E tt \in Seq(Tables) :
          /\ tt # <<>> /\ HoistedHere(tops, tt) /\ ReadyThere(tops, frames, tt)
          /\ \A w : Sees(tops, w, scopes) => Sees(tops, w, tt)
          /\ scopes' = Append(tt, t)
  <2>1. scopes \in Seq(Tables) /\ scopes # <<>>
    BY Depths DEF RInv, Nested
  <2>2. errors' = {} => HoistedHere(tops, scopes) /\ ReadyThere(tops, frames, scopes)
    BY <1>4 DEF SInv
  <2> QED
    BY <1>4, <2>1, <2>2
<1>10. errors \subseteq errors' /\ \A x \in DOMAIN t : t[x].ready
  BY <1>3, <1>4
<1> HIDE <1>6
<1> QED
  BY <1>2, <1>3, <1>4, <1>7, <1>8, <1>9, <1>10, <1>b, SOpened

LEMMA SFunction ==
  ASSUME RInv, DInv, SInv, Flat, NEW n \in Names, NEW ps \in BoundedSeq(Names, MaxParams),
         EnterFunction(n, ps)
  PROVE  SInv'
<1>1. PICK k : k = "func"
  OBVIOUS
<1>2. /\ k \in Scoped /\ k \in {"func", "class"} /\ k \in Kinds \cup Refs \cup {"return"}
      /\ n \in Names \cup {NoName}
  BY <1>1 DEF Scoped, Kinds
<1>3. /\ Visit(k, n) /\ Push(k, n) /\ Record(k, n, ps, None) /\ errors \subseteq errors'
  BY <1>1 DEF EnterFunction
<1>b. ClassSeen(k, n)
  BY <1>1 DEF ClassSeen
<1>4. Id \in Int
  BY <1>3, Visited DEF RInv
<1>5. PICK t : t = Params(ps)
  OBVIOUS
<1>6. /\ ps \in Seq(Names) /\ t \in Tables /\ DOMAIN t = Range(ps) /\ Range(ps) \subseteq Names
      /\ \A p \in Range(ps) : t[p] = Entry(<<Id, "param">>, TRUE)
  BY <1>4, <1>5, Parameters
<1>7. PICK m : m = [x \in Names |-> IF x \in Range(ps) THEN <<Id, "param">> ELSE Absent]
  OBVIOUS
<1>8. <<Id, "param">> \in Decls
  BY <1>4 DEF Decls
<1>9. \A x \in DOMAIN t : t[x].ready /\ t[x].decl = <<Id, "param">>
  BY <1>6 DEF Entry
<1>10. /\ m \in Symbols
       /\ \A x \in Names : m[x] = IF x \in DOMAIN t /\ t[x].ready THEN t[x].decl ELSE Absent
  <2>1. m \in Symbols
    BY <1>7, <1>8 DEF Symbols
  <2>2. \A x \in Names : m[x] = IF x \in Range(ps) THEN <<Id, "param">> ELSE Absent
    BY <1>7
  <2> QED
    BY <1>6, <1>9, <2>1, <2>2
<1>11. m = IF k = "func" THEN [x \in Names |-> IF x \in Range(ps) THEN <<Id, "param">> ELSE Absent]
           ELSE NoSymbols
  BY <1>1, <1>7
<1>12. scopes \in Seq(Tables) /\ scopes # <<>>
  BY Depths DEF RInv, Nested
<1>13. errors' = {} =>
         \E tt \in Seq(Tables) :
           /\ tt # <<>> /\ HoistedHere(tops, tt) /\ ReadyThere(tops, frames, tt)
           /\ \A w : Sees(tops, w, scopes) => Sees(tops, w, tt)
           /\ scopes' = Append(tt, t)
  <2> SUFFICES ASSUME errors' = {}
               PROVE  \E tt \in Seq(Tables) :
                        /\ tt # <<>> /\ HoistedHere(tops, tt) /\ ReadyThere(tops, frames, tt)
                        /\ \A w : Sees(tops, w, scopes) => Sees(tops, w, tt)
                        /\ scopes' = Append(tt, t)
    OBVIOUS
  <2>1. HoistedHere(tops, scopes) /\ ReadyThere(tops, frames, scopes)
    BY <1>3 DEF SInv
  <2>2. CASE Within = "class"
    <3>1. scopes' = Append(scopes, t)
      BY <1>5, <2>2 DEF EnterFunction
    <3> QED
      BY <1>12, <2>1, <3>1
  <2>3. CASE Within # "class"
    <3>1. PICK tt : tt = Define(scopes, n, <<Id, "name">>)
      OBVIOUS
    <3>2. scopes' = Append(tt, t)
      BY <1>5, <2>3, <3>1 DEF EnterFunction
    <3>3. frames = <<>>
      <4>1. PICK e : e = [kind |-> k, id |-> Id, name |-> n, within |-> WithinId]
        OBVIOUS
      <4>2. e.kind = k /\ e.id = Id /\ e.name = n /\ e.within = WithinId
        BY <4>1
      <4> HIDE <1>1, <4>1
      <4>3. k \in {"func", "class"} /\ Within # "class" => frames = <<>>
        BY <1>2, <1>3, <4>2, VisitPlaced
      <4> QED
        BY <1>2, <2>3, <4>3
    <3>4. /\ tt \in Seq(Tables) /\ tt # <<>>
          /\ HoistedHere(tops, tt) /\ ReadyThere(tops, frames, tt)
          /\ \A w : Sees(tops, w, scopes) => Sees(tops, w, tt)
      <4> HIDE <1>1
      <4> QED
        BY <1>2, <1>3, <2>1, <3>1, <3>3, Redefined
    <3> QED
      BY <3>2, <3>4
  <2> QED
    BY <2>2, <2>3
<1>14. \A x \in DOMAIN t : t[x].ready
  BY <1>9
<1>15. ps \in Seq(Names) /\ t \in Tables
  BY <1>6
<1> HIDE <1>1, <1>5, <1>7
<1> QED
  BY <1>2, <1>3, <1>10, <1>11, <1>13, <1>14, <1>15, <1>b, SOpened

LEMMA SClass ==
  ASSUME RInv, DInv, SInv, Flat, NEW n \in Names, EnterClass(n)
  PROVE  SInv'
<1>1. PICK k, ps : k = "class" /\ ps = <<>>
  OBVIOUS
<1>2. /\ k \in Scoped /\ k \in {"func", "class"} /\ k \in Kinds \cup Refs \cup {"return"}
      /\ n \in Names \cup {NoName} /\ ps \in Seq(Names) /\ k # "func"
  BY <1>1, EmptySeq DEF Scoped, Kinds
<1>3. /\ Visit(k, n) /\ Push(k, n) /\ Record(k, n, ps, None) /\ errors' = errors
  BY <1>1 DEF EnterClass
<1>4. Id \in Int
  BY <1>3, Visited DEF RInv
<1>5. PICK t, d : d = <<Id, "this">> /\ t = [x \in {"this"} |-> Entry(d, TRUE)]
  OBVIOUS
<1>6. d \in Decls
  BY <1>4, <1>5 DEF Decls
<1>7. /\ DOMAIN t = {"this"} /\ t \in Tables
      /\ \A x \in DOMAIN t : t[x].ready
  <2>1. Entry(d, TRUE) \in Entries /\ Entry(d, TRUE).ready
    BY <1>6 DEF Entry, Entries
  <2>2. DOMAIN t = {"this"} /\ t = [x \in DOMAIN t |-> t[x]] /\ t["this"] = Entry(d, TRUE)
    BY <1>5
  <2> QED
    BY <2>1, <2>2, TableOf
<1>8. PICK m : m = NoSymbols
  OBVIOUS
<1>9. /\ m \in Symbols /\ \A x \in Names : m[x] = Absent
  BY <1>8 DEF NoSymbols, Symbols
<1>10. \A x \in Names : m[x] = IF x \in DOMAIN t /\ t[x].ready THEN t[x].decl ELSE Absent
  BY <1>7, <1>9, ThisIsNoName
<1>11. m = IF k = "func" THEN [x \in Names |-> IF x \in Range(ps) THEN <<Id, "param">> ELSE Absent]
           ELSE NoSymbols
  BY <1>2, <1>8
<1>12. PICK tt : tt = Define(scopes, n, <<Id, "name">>)
  OBVIOUS
<1>13. scopes' = Append(tt, t)
  BY <1>5, <1>12 DEF EnterClass
<1>14. frames = <<>>
  <2>1. Within # "class"
    <3>1. CASE frames = <<>>
      BY <3>1 DEF Within
    <3>2. CASE frames # <<>>
      <4>1. MayContain(Top.kind, k)
        BY <1>3, <3>2 DEF Visit
      <4>2. k # "func"
        BY <1>2
      <4> QED
        BY <3>2, <4>1, <4>2 DEF MayContain, Within
    <3> QED
      BY <3>1, <3>2
  <2>2. PICK e : e = [kind |-> k, id |-> Id, name |-> n, within |-> WithinId]
    OBVIOUS
  <2>3. e.kind = k /\ e.id = Id /\ e.name = n /\ e.within = WithinId
    BY <2>2
  <2> HIDE <1>1, <2>2
  <2>4. k \in {"func", "class"} /\ Within # "class" => frames = <<>>
    BY <1>2, <1>3, <2>3, VisitPlaced
  <2> QED
    BY <1>2, <2>1, <2>4
<1> HIDE <1>1, <1>5, <1>8
<1>b. ClassSeen(k, n)
  <2> SUFFICES ASSUME errors' = {}
               PROVE  \A w : Sees(tops, w, scopes) => HasSymbol(w, n, <<Id, "name">>)
    BY DEF ClassSeen
  <2>1. HoistedHere(tops, scopes) /\ ReadyThere(tops, frames, scopes)
    BY <1>3 DEF SInv
  <2> QED
    BY <1>2, <1>3, <1>12, <1>14, <2>1, Redefined
<1>15. errors' = {} =>
         \E ss \in Seq(Tables) :
           /\ ss # <<>> /\ HoistedHere(tops, ss) /\ ReadyThere(tops, frames, ss)
           /\ \A w : Sees(tops, w, scopes) => Sees(tops, w, ss)
           /\ scopes' = Append(ss, t)
  <2> SUFFICES ASSUME errors' = {}
               PROVE  \E ss \in Seq(Tables) :
                        /\ ss # <<>> /\ HoistedHere(tops, ss) /\ ReadyThere(tops, frames, ss)
                        /\ \A w : Sees(tops, w, scopes) => Sees(tops, w, ss)
                        /\ scopes' = Append(ss, t)
    OBVIOUS
  <2>1. HoistedHere(tops, scopes) /\ ReadyThere(tops, frames, scopes)
    BY <1>3 DEF SInv
  <2>2. /\ tt \in Seq(Tables) /\ tt # <<>>
        /\ HoistedHere(tops, tt) /\ ReadyThere(tops, frames, tt)
        /\ \A w : Sees(tops, w, scopes) => Sees(tops, w, tt)
    BY <1>2, <1>3, <1>12, <1>14, <2>1, Redefined
  <2> QED
    BY <1>13, <2>2
<1>16. errors \subseteq errors' /\ \A x \in DOMAIN t : t[x].ready
  BY <1>3, <1>7
<1> HIDE <1>12
<1> QED
  BY <1>2, <1>3, <1>7, <1>9, <1>10, <1>11, <1>15, <1>16, <1>b, SOpened

LEMMA SThis == ASSUME RInv, DInv, SInv, Flat, This PROVE SInv'
<1>1. PICK b \in Int \X {"name", "param", "this", NoName} : b = Bound("this")
  BY BoundTyped DEF RInv
<1>2. PICK k, n : k = "this" /\ n = NoName
  OBVIOUS
<1>3. /\ Visit(k, n) /\ Record(k, n, <<>>, b) /\ errors \subseteq errors'
      /\ UNCHANGED <<scopes, frames>>
  BY <1>1, <1>2 DEF This
<1>4. k \in Refs \cup {"return"} /\ n \in Names \cup {NoName} /\ k \notin {"use", "assign"}
  BY <1>2 DEF Refs
<1> HIDE <1>1, <1>2
<1> QED
  BY <1>3, <1>4, SReferring

LEMMA SReturn == ASSUME RInv, DInv, SInv, Flat, ReturnStmt PROVE SInv'
<1>1. PICK k, n, b : k = "return" /\ n = NoName /\ b = None
  OBVIOUS
<1>2. b \in Int \X {"name", "param", "this", NoName}
  BY <1>1 DEF None
<1>3. /\ Visit(k, n) /\ Record(k, n, <<>>, b) /\ errors \subseteq errors'
      /\ UNCHANGED <<scopes, frames>>
  BY <1>1 DEF ReturnStmt
<1>4. k \in Refs \cup {"return"} /\ n \in Names \cup {NoName} /\ k \notin {"use", "assign"}
  BY <1>1
<1> HIDE <1>1
<1> QED
  BY <1>2, <1>3, <1>4, SReferring

LEMMA SIndexed == ASSUME RInv, DInv, SInv, Flat, InIndex PROVE SInv'
<1>1. PICK k \in Refs, n \in Names \cup {NoName} :
        /\ k \notin {"use", "assign", "this", "return"}
        /\ Visit(k, n) /\ Record(k, n, <<>>, None)
        /\ None \in Int \X {"name", "param", "this", NoName}
        /\ errors' = errors /\ errors \subseteq errors'
        /\ UNCHANGED <<scopes, current_class, current_function, frames>>
  BY IndexedRefers
<1>2. PICK b : b = None
  OBVIOUS
<1>3. /\ k \in Refs \cup {"return"} /\ k \notin {"use", "assign"}
      /\ b \in Int \X {"name", "param", "this", NoName}
      /\ Visit(k, n) /\ Record(k, n, <<>>, b) /\ errors \subseteq errors'
      /\ UNCHANGED <<scopes, frames>>
  BY <1>1, <1>2
<1> HIDE <1>1, <1>2
<1> QED
  BY <1>3, SReferring

LEMMA SStep == ASSUME RInv, DInv, SInv, Flat, Resolve PROVE SInv'
<1>1. ASSUME NEW k \in TopKinds, NEW n \in NamesFor(k), DeclareTop(k, n)
      PROVE  SInv'
  BY <1>1, STopDeclared
<1>2. CASE StartResolving
  BY <1>2, SStarting
<1>3. ASSUME NEW n \in Names, EnterClass(n)
      PROVE  SInv'
  BY <1>3, SClass
<1>4. ASSUME NEW n \in Names, DeclareVar(n)
      PROVE  SInv'
  BY <1>4, SVariable
<1>5. ASSUME NEW n \in Names, NEW ps \in BoundedSeq(Names, MaxParams), EnterFunction(n, ps)
      PROVE  SInv'
  BY <1>5, SFunction
<1>6. ASSUME NEW n \in Names, Variable(n) \/ Assignment(n)
      PROVE  SInv'
  BY <1>6, SRead
<1>7. CASE EnterBlock
  BY <1>7, SBlock
<1>8. CASE Leave
  BY <1>8, SClosed
<1>9. CASE DefineVar
  BY <1>9, SDefined
<1>10. CASE This
  BY <1>10, SThis
<1>11. CASE ReturnStmt
  BY <1>11, SReturn
<1>12. CASE FinishResolving
  <2>1. /\ UNCHANGED <<tops, next, scopes, frames, events, errors>>
        /\ pass = "resolve" /\ pass' = "resolved" /\ next = Len(tops)
    BY <1>12 DEF FinishResolving
  <2>2. TopsRecorded'
    BY <2>1 DEF SInv, TopsRecorded
  <2> QED
    BY <2>1, <2>2 DEF SInv
<1>i. CASE InIndex
  BY <1>i, SIndexed
<1> QED
  BY <1>1, <1>2, <1>3, <1>4, <1>5, <1>6, <1>7, <1>8, <1>9, <1>10, <1>11, <1>12, <1>i, IndexedKinds
  DEF Resolve

LEMMA SStart == BindingInit => SInv
<1> SUFFICES ASSUME BindingInit
             PROVE  SInv
  OBVIOUS
<1>1. /\ pass = "declare" /\ tops = <<>> /\ next = 0 /\ frames = <<>> /\ events = <<>>
      /\ Len(tops) = 0 /\ Len(events) = 0
  BY EmptySeq DEF BindingInit, Init
<1>2. PICK t : t = <<>> /\ DOMAIN t = {}
  OBVIOUS
<1>3. scopes = <<t>> /\ Len(scopes) = 1 /\ scopes[1] = t
  BY <1>2 DEF BindingInit, Init
<1>4. TopsRecorded
  BY <1>1 DEF TopsRecorded
<1>5. HoistedHere(tops, scopes)
  BY <1>1 DEF HoistedHere
<1>6. ReadyThere(tops, frames, scopes)
  <2> SUFFICES ASSUME NEW l \in 1..Len(scopes), NEW n \in DOMAIN scopes[l]
               PROVE  FALSE
    BY DEF ReadyThere
  <2>1. l = 1
    BY <1>3
  <2> QED
    BY <1>2, <1>3, <2>1
<1>7. VarInitialized(tops, frames, scopes, events)
  BY <1>1 DEF VarInitialized, Initializes
<1> QED
  BY <1>1, <1>2, <1>3, <1>4, <1>5, <1>6, <1>7 DEF SInv

LEMMA SStutter == SInv /\ UNCHANGED resolverVars => SInv'
BY DEF SInv, resolverVars, TopsRecorded

-----------------------------------------------------------------------------
(* What a lookup finds. *)

\* Up the parents there is, from a scope to the global one, what encloses it.
LEMMA Ancestors ==
  ASSUME NEW p \in Seq(Int), NEW m, m = Len(p)
  PROVE  \E f : f = [i \in 0..m - 1 |-> {i} \cup IF p[i + 1] \in 0..i - 1 THEN f[p[i + 1]] ELSE {}]
<1> DEFINE U == 0..m - 1
           V == SUBSET U
           parent == [i \in U |-> IF p[i + 1] \in 0..i - 1 THEN p[i + 1] ELSE -1]
           base == [i \in U |-> {i}]
           step == [i \in U |-> [v \in V |-> {i} \cup v]]
<1>1. m \in Nat
  BY LenProperties
<1>2. \A i \in U : /\ i \in Nat
                   /\ parent[i] # -1 => /\ parent[i] = p[i + 1] /\ parent[i] \in 0..i - 1
                                        /\ parent[i] \in U /\ p[i + 1] \in 0..i - 1
                   /\ parent[i] = -1 => p[i + 1] \notin 0..i - 1
  BY <1>1
<1>3. Founded(U, parent)
  <2> SUFFICES ASSUME NEW S \in SUBSET U, S # {}
               PROVE  \E t \in S : parent[t] \notin S
    BY DEF Founded
  <2>1. S \in SUBSET Nat
    BY <1>2
  <2>2. PICK l \in S : \A n \in S : l <= n
    BY <2>1, LeastExists
  <2>3. parent[l] \notin S
    BY <1>2, <2>1, <2>2
  <2> QED
    BY <2>3
<1>4. base \in [U -> V] /\ step \in [U -> [V -> V]] /\ parent \in [U -> U \cup {-1}] /\ -1 \notin U
  BY <1>2
<1>5. \A i \in U : base[i] = {i} /\ \A v \in V : step[i][v] = {i} \cup v
  OBVIOUS
<1> HIDE DEF base, step, parent
<1>6. PICK f : Solves(U, f, parent, -1, V, base, step)
  <2>1. Recursion(U, -1, parent, V, base, step)
    BY <1>3, <1>4 DEF Recursion
  <2> QED
    BY <2>1, ChainRecursion
<1>7. \A i \in U : f[i] = {i} \cup IF p[i + 1] \in 0..i - 1 THEN f[p[i + 1]] ELSE {}
  <2> SUFFICES ASSUME NEW i \in U
               PROVE  f[i] = {i} \cup IF p[i + 1] \in 0..i - 1 THEN f[p[i + 1]] ELSE {}
    OBVIOUS
  <2>1. f[i] = IF parent[i] = -1 THEN base[i] ELSE step[i][f[parent[i]]]
    BY <1>6 DEF Solves
  <2>2. ASSUME p[i + 1] \notin 0..i - 1
        PROVE  f[i] = {i}
    BY <1>2, <1>5, <2>1, <2>2
  <2>3. ASSUME p[i + 1] \in 0..i - 1
        PROVE  f[i] = {i} \cup f[p[i + 1]]
    <3>1. PICK q \in U : q = parent[i] /\ q = p[i + 1] /\ q # -1
      BY <1>2, <1>4, <2>3
    <3>2. f[q] \in V
      BY <1>6 DEF Solves
    <3> HIDE DEF V
    <3>3. step[i][f[q]] = {i} \cup f[q]
      BY <1>5, <3>2
    <3> QED
      BY <2>1, <3>1, <3>3
  <2> QED
    BY <2>2, <2>3
<1>8. f = [i \in U |-> {i} \cup IF p[i + 1] \in 0..i - 1 THEN f[p[i + 1]] ELSE {}]
  BY <1>6, <1>7 DEF Solves
<1> QED
  BY <1>8

\* The scopes of a chain are those that enclose its last.
LEMMA ChainEncloses ==
  ASSUME parents \in Seq(Int), NEW m, m = Len(parents), NEW c, NEW v, NEW s,
         Chain(c, v, parents, symbols, s, m)
  PROVE  sm!Enclosing(s) = {c[l] : l \in 1..Len(v)}
<1> DEFINE up == CHOOSE g : g = [i \in 0..Len(parents) - 1 |->
                   {i} \cup IF parents[i + 1] \in 0..i - 1 THEN g[parents[i + 1]] ELSE {}]
<1>1. up = [i \in 0..m - 1 |->
              {i} \cup IF parents[i + 1] \in 0..i - 1 THEN up[parents[i + 1]] ELSE {}]
  BY Ancestors
<1>2. sm!Enclosing(s) = up[s]
  BY DEF sm!Enclosing, sm!Parent
<1> HIDE DEF up
<1>3. \A i \in 0..m - 1 :
        up[i] = {i} \cup IF parents[i + 1] \in 0..i - 1 THEN up[parents[i + 1]] ELSE {}
  BY <1>1
<1>4. PICK k : /\ k = Len(v) /\ k \in Nat \ {0} /\ c \in [1..k -> 0..m - 1]
               /\ c[1] = 0 /\ c[k] = s /\ parents[1] = -1
               /\ \A i, j \in 1..k : i < j => c[i] < c[j]
               /\ \A l \in 2..k : parents[c[l] + 1] = c[l - 1]
  BY DEF Chain
<1>5. m \in Nat
  BY LenProperties
<1> DEFINE Right(l) == up[c[l]] = {c[j] : j \in 1..l}
           Wrong == {l \in 1..k : ~Right(l)}
<1> HIDE DEF Right
<1>6. Wrong = {}
  <2> SUFFICES ASSUME Wrong # {}
               PROVE  FALSE
    OBVIOUS
  <2>1. Wrong \in SUBSET Nat
    BY <1>4
  <2>2. PICK l \in Wrong : \A j \in Wrong : l <= j
    BY <2>1, LeastExists
  <2>3. l \in 1..k /\ l \in Nat /\ c[l] \in 0..m - 1
    BY <1>4, <2>1
  <2>4. CASE l = 1
    <3>1. 0 \in 0..m - 1
      BY <1>4, <2>3, <2>4
    <3>2. up[0] = {0}
      <4>1. parents[0 + 1] \notin 0..0 - 1
        BY <1>4
      <4> QED
        BY <1>3, <3>1, <4>1
    <3>3. {c[j] : j \in 1..1} = {0}
      BY <1>4
    <3>4. Right(l)
      BY <1>4, <2>4, <3>2, <3>3 DEF Right
    <3> QED
      BY <3>4
  <2>5. CASE l # 1
    <3>1. PICK j : j = l - 1 /\ j \in 1..k /\ j < l /\ j \in Nat /\ j + 1 = l
      BY <1>4, <2>3, <2>5
    <3>2. j \notin Wrong
      BY <2>2, <2>3, <3>1
    <3>3. up[c[j]] = {c[i] : i \in 1..j}
      BY <3>1, <3>2 DEF Right
    <3>4. parents[c[l] + 1] = c[j] /\ c[j] < c[l]
      <4>1. l \in 2..k
        BY <1>4, <2>3, <2>5
      <4>2. parents[c[l] + 1] = c[l - 1]
        BY <1>4, <4>1
      <4> QED
        BY <1>4, <2>3, <3>1, <4>2
    <3>5. c[j] \in 0..m - 1
      BY <1>4, <3>1
    <3>6. parents[c[l] + 1] \in 0..c[l] - 1
      BY <1>5, <2>3, <3>4, <3>5
    <3>7. up[c[l]] = {c[l]} \cup up[c[j]]
      BY <1>3, <2>3, <3>4, <3>6
    <3>8. {c[i] : i \in 1..l} = {c[l]} \cup {c[i] : i \in 1..j}
      <4>1. \A i : i \in 1..l <=> i = l \/ i \in 1..j
        BY <2>3, <3>1
      <4> QED
        BY <4>1
    <3>9. Right(l)
      BY <3>3, <3>7, <3>8 DEF Right
    <3> QED
      BY <3>9
  <2> QED
    BY <2>4, <2>5
<1>7. k \in 1..k
  BY <1>4
<1>8. up[c[k]] = {c[j] : j \in 1..k}
  BY <1>6, <1>7 DEF Right
<1> QED
  BY <1>2, <1>4, <1>8

\* The nearest symbol is the one of the scope of largest id.
LEMMA LooksUp ==
  ASSUME parents \in Seq(Int), NEW m, m = Len(parents), NEW c, NEW v,
         Chain(c, v, parents, symbols, curr_scope, m), NEW n \in Names
  PROVE  /\ sm!IsMapped(n) <=> \E l \in 1..Len(v) : v[l][n] # Absent
         /\ \A l : Nearest(v, n, l) => sm!Get(n) = v[l][n]
<1>1. sm!Enclosing(curr_scope) = {c[l] : l \in 1..Len(v)}
  BY ChainEncloses
<1>2. PICK k : /\ k = Len(v) /\ k \in Nat \ {0} /\ c \in [1..k -> 0..m - 1]
               /\ \A i, j \in 1..k : i < j => c[i] < c[j]
               /\ \A l \in 1..k : symbols[c[l] + 1][n] = v[l][n]
  BY DEF Chain
<1>3. m \in Nat
  BY LenProperties
<1>4. PICK H : H = sm!Holders(n)
  OBVIOUS
<1>5. \A x : x \in H <=> \E l \in 1..k : x = c[l] /\ v[l][n] # Absent
  BY <1>1, <1>2, <1>4 DEF sm!Holders
<1>6. sm!IsMapped(n) <=> \E l \in 1..k : v[l][n] # Absent
  BY <1>4, <1>5 DEF sm!IsMapped
<1>7. ASSUME NEW l, Nearest(v, n, l)
      PROVE  sm!Get(n) = v[l][n]
  <2>1. l \in 1..k /\ v[l][n] # Absent /\ \A j \in l + 1..k : v[j][n] = Absent
    BY <1>2, <1>7 DEF Nearest
  <2>2. c[l] \in H /\ c[l] \in Int
    BY <1>2, <1>3, <1>5, <2>1
  <2>3. \A x \in H : x \in Int /\ x <= c[l]
    <3> SUFFICES ASSUME NEW j \in 1..k, v[j][n] # Absent
                 PROVE  c[j] \in Int /\ c[j] <= c[l]
      BY <1>5
    <3>1. c[j] \in Int
      BY <1>2, <1>3
    <3>2. j <= l
      BY <1>2, <2>1
    <3> QED
      BY <1>2, <2>1, <2>2, <3>1, <3>2
  <2>4. sm!Max(H) = c[l]
    <3>1. \A y \in H : c[l] >= y
      BY <2>2, <2>3
    <3>2. \A x \in H : (\A y \in H : x >= y) => x = c[l]
      BY <2>2, <2>3
    <3> QED
      BY <2>2, <3>1, <3>2 DEF sm!Max
  <2>5. sm!IsMapped(n)
    BY <1>6, <2>1
  <2> QED
    <3>1. sm!Get(n) = symbols[sm!Max(sm!Holders(n)) + 1][n]
      BY <2>5 DEF sm!Get
    <3>2. symbols[c[l] + 1][n] = v[l][n]
      BY <1>2, <2>1
    <3> QED
      BY <1>4, <2>4, <3>1, <3>2
<1> QED
  BY <1>2, <1>6, <1>7

\* One of the symbols of a name is the nearest.
LEMMA HasNearest ==
  ASSUME NEW v, Len(v) \in Nat, NEW n, NEW l \in 1..Len(v), v[l][n] # Absent
  PROVE  \E j : Nearest(v, n, j)
<1>1. PICK k \in Nat : k = Len(v)
  OBVIOUS
<1>2. PICK s \in SUBSET (1..k) : s = {j \in 1..k : v[j][n] # Absent}
  OBVIOUS
<1>3. Max(s) \in s /\ \A x \in s : x <= Max(s)
  BY <1>1, <1>2, MaxOfBounded
<1>4. PICK j : j = Max(s)
  OBVIOUS
<1>5. j \in 1..k /\ v[j][n] # Absent /\ \A x \in s : x <= j
  BY <1>2, <1>3, <1>4
<1>6. ASSUME NEW x \in j + 1..k
      PROVE  v[x][n] = Absent
  <2>1. x \in 1..k /\ ~(x <= j)
    BY <1>5
  <2> QED
    BY <1>2, <1>5, <2>1
<1> QED
  BY <1>1, <1>5, <1>6 DEF Nearest

-----------------------------------------------------------------------------
(* The TypeChecker's scopes, step by step. *)

LEMMA NumberPushed ==
  ASSUME NEW p \in Seq(Int), NEW x \in Int, NEW m, m = Len(p), NEW r, r = Append(p, x)
  PROVE  /\ r \in Seq(Int) /\ Len(r) = m + 1
         /\ r[m + 1] = x /\ \A i \in 1..m : r[i] = p[i]
BY PushedAs

\* q is p with x after its m elements.
With(p, m, x, q) == q[m + 1] = x /\ \A i \in 1..m : q[i] = p[i]

LEMMA ChainPushed ==
  ASSUME NEW ps, NEW sy, NEW m \in Nat, NEW c, NEW w \in Seq(Symbols), NEW s,
         Chain(c, w, ps, sy, s, m), NEW t \in Symbols, NEW v, v = Append(w, t),
         NEW ps2, With(ps, m, s, ps2), NEW sy2, With(sy, m, t, sy2)
  PROVE  \E c2 : Chain(c2, v, ps2, sy2, m, m + 1)
<1>1. PICK k : /\ k = Len(w) /\ k \in Nat \ {0} /\ c \in [1..k -> 0..m - 1]
               /\ c[1] = 0 /\ c[k] = s /\ ps[1] = -1
               /\ \A i, j \in 1..k : i < j => c[i] < c[j]
               /\ \A l \in 2..k : ps[c[l] + 1] = c[l - 1]
               /\ \A l \in 1..k : \A n \in Names : sy[c[l] + 1][n] = w[l][n]
  BY DEF Chain
<1>2. m \in Nat /\ s \in Int /\ s \in 0..m - 1
  <2>1. k \in 1..k
    BY <1>1
  <2> QED
    BY <1>1, <2>1
<1>3. ps2[m + 1] = s /\ \A i \in 1..m : ps2[i] = ps[i]
  BY DEF With
<1>4. sy2[m + 1] = t /\ \A i \in 1..m : sy2[i] = sy[i]
  BY DEF With
<1>5. Len(v) = k + 1 /\ v[k + 1] = t /\ \A i \in 1..k : v[i] = w[i]
  BY <1>1, PushedAs
<1>6. PICK c2 : c2 = [l \in 1..k + 1 |-> IF l = k + 1 THEN m ELSE c[l]]
  OBVIOUS
<1>7. \A l \in 1..k + 1 : l = k + 1 \/ l \in 1..k
  BY <1>1
<1>8. /\ c2[k + 1] = m
      /\ \A l \in 1..k : c2[l] = c[l] /\ c[l] \in 0..m - 1 /\ c[l] + 1 \in 1..m
  <2>1. k + 1 \in 1..k + 1 /\ \A l \in 1..k : l \in 1..k + 1 /\ l # k + 1
    BY <1>1
  <2>2. \A l \in 1..k : c[l] \in 0..m - 1
    BY <1>1
  <2>3. \A x \in 0..m - 1 : x + 1 \in 1..m
    BY <1>2
  <2> QED
    BY <1>6, <2>1, <2>2, <2>3
<1>9. c2 \in [1..k + 1 -> 0..m + 1 - 1]
  <2>1. \A l \in 1..k + 1 : (IF l = k + 1 THEN m ELSE c[l]) \in 0..m + 1 - 1
    <3>1. \A x \in 0..m - 1 : x \in 0..m + 1 - 1
      BY <1>2
    <3>2. m \in 0..m + 1 - 1
      BY <1>2
    <3> QED
      BY <1>7, <1>8, <3>1, <3>2
  <2> QED
    BY <1>6, <2>1
<1>10. c2[1] = 0 /\ ps2[1] = -1
  <2>1. 1 \in 1..k /\ 1 \in 1..m
    BY <1>1, <1>2
  <2> QED
    BY <1>1, <1>3, <1>8, <2>1
<1>11. ASSUME NEW i \in 1..k + 1, NEW j \in 1..k + 1, i < j
       PROVE  c2[i] < c2[j]
  <2>1. i \in 1..k
    BY <1>1, <1>11
  <2>2. CASE j = k + 1
    <3>1. c2[j] = m /\ c2[i] = c[i] /\ c[i] \in 0..m - 1
      BY <1>8, <2>1, <2>2
    <3> QED
      BY <1>2, <3>1
  <2>3. CASE j \in 1..k
    BY <1>1, <1>8, <1>11, <2>1, <2>3
  <2> QED
    BY <1>7, <2>2, <2>3
<1>12. ASSUME NEW l \in 2..k + 1
       PROVE  ps2[c2[l] + 1] = c2[l - 1]
  <2>1. CASE l = k + 1
    <3>1. l - 1 = k /\ k \in 1..k
      BY <1>1, <2>1
    <3> QED
      BY <1>1, <1>3, <1>8, <2>1, <3>1
  <2>2. CASE l # k + 1
    <3>1. l \in 2..k /\ l \in 1..k /\ l - 1 \in 1..k
      BY <1>1, <2>2
    <3>2. c2[l] = c[l] /\ c[l] + 1 \in 1..m /\ c2[l - 1] = c[l - 1]
      BY <1>8, <3>1
    <3>3. ps2[c[l] + 1] = ps[c[l] + 1] /\ ps[c[l] + 1] = c[l - 1]
      BY <1>1, <1>3, <3>1, <3>2
    <3> QED
      BY <3>2, <3>3
  <2> QED
    BY <2>1, <2>2
<1>13. ASSUME NEW l \in 1..k + 1, NEW n \in Names
       PROVE  sy2[c2[l] + 1][n] = v[l][n]
  <2>1. CASE l = k + 1
    <3>1. sy2[c2[l] + 1] = t /\ v[l] = t
      BY <1>4, <1>5, <1>8, <2>1
    <3> QED
      BY <3>1
  <2>2. CASE l \in 1..k
    <3>1. c2[l] = c[l] /\ c[l] + 1 \in 1..m
      BY <1>8, <2>2
    <3>2. sy2[c[l] + 1] = sy[c[l] + 1] /\ v[l] = w[l]
      BY <1>4, <1>5, <2>2, <3>1
    <3> QED
      BY <1>1, <2>2, <3>1, <3>2
  <2> QED
    BY <1>7, <2>1, <2>2
<1>14. k + 1 \in Nat \ {0}
  BY <1>1
<1>15. Chain(c2, v, ps2, sy2, m, m + 1)
  <2>1. PICK p, o : p = k + 1 /\ o = m + 1
    OBVIOUS
  <2>2. p = Len(v) /\ p \in Nat \ {0} /\ c2[p] = m /\ c2[1] = 0 /\ ps2[1] = -1
    BY <1>5, <1>8, <1>10, <1>14, <2>1
  <2>3. c2 \in [1..p -> 0..o - 1]
    BY <1>9, <2>1
  <2>4. \A i, j \in 1..p : i < j => c2[i] < c2[j]
    BY <1>11, <2>1
  <2>5. \A l \in 2..p : ps2[c2[l] + 1] = c2[l - 1]
    BY <1>12, <2>1
  <2>6. \A l \in 1..p : \A n \in Names : sy2[c2[l] + 1][n] = v[l][n]
    BY <1>13, <2>1
  <2>7. Chain(c2, v, ps2, sy2, m, o)
    BY <2>2, <2>3, <2>4, <2>5, <2>6 DEF Chain
  <2> QED
    BY <2>1, <2>7
<1> QED
  BY <1>15

LEMMA ChainPopped ==
  ASSUME NEW ps \in Seq(Int), NEW sy, NEW m, m = Len(ps), NEW c, NEW w \in Seq(Symbols),
         NEW s, Chain(c, w, ps, sy, s, m), Len(w) > 1, NEW v, v = Front(w),
         NEW s2, s2 = ps[s + 1]
  PROVE  \E c2 : Chain(c2, v, ps, sy, s2, m)
<1>1. PICK q : q = Len(w) - 1
  OBVIOUS
<1>2. w # <<>>
  BY EmptySeq
<1>3. /\ q \in Nat /\ Len(w) = q + 1 /\ Len(v) = q /\ q # 0
      /\ \A i \in 1..q : v[i] = w[i]
  <2>1. /\ q \in Nat /\ Len(w) = q + 1 /\ Len(v) = q
        /\ \A i \in 1..q : v[i] = w[i]
    <3>1. /\ Len(w) \in Nat \ {0} /\ Len(Front(w)) = Len(w) - 1
          /\ \A i \in 1..Len(w) - 1 : Front(w)[i] = w[i]
      BY <1>2, PoppedOff
    <3> QED
      BY <1>1, <3>1
  <2> QED
    BY <2>1
<1>4. /\ c \in [1..q + 1 -> 0..m - 1]
      /\ c[1] = 0 /\ c[q + 1] = s /\ ps[1] = -1
      /\ \A i, j \in 1..q + 1 : i < j => c[i] < c[j]
      /\ \A l \in 2..q + 1 : ps[c[l] + 1] = c[l - 1]
      /\ \A l \in 1..q + 1 : \A n \in Names : sy[c[l] + 1][n] = w[l][n]
  BY <1>3 DEF Chain
<1>5. s2 = c[q]
  <2>1. q + 1 \in 2..q + 1 /\ q + 1 - 1 = q
    BY <1>3
  <2> QED
    BY <1>4, <2>1, <1>3
<1>6. PICK c2 : c2 = [l \in 1..q |-> c[l]]
  OBVIOUS
<1>7. \A l \in 1..q : l \in 1..q + 1 /\ c2[l] = c[l] /\ c[l] \in 0..m - 1
  BY <1>3, <1>4, <1>6
<1>8. c2 \in [1..q -> 0..m - 1]
  BY <1>6, <1>7
<1>9. 1 \in 1..q /\ q \in 1..q
  BY <1>3
<1>10. \A l \in 2..q : l \in 1..q /\ l - 1 \in 1..q /\ l \in 2..q + 1
  BY <1>3
<1>11. \A i, j \in 1..q : i < j => c2[i] < c2[j]
  BY <1>4, <1>7
<1>12. \A l \in 2..q : ps[c2[l] + 1] = c2[l - 1]
  BY <1>4, <1>7, <1>10
<1>13. \A l \in 1..q : \A n \in Names : sy[c2[l] + 1][n] = v[l][n]
  <2> SUFFICES ASSUME NEW l \in 1..q, NEW n \in Names
               PROVE  sy[c2[l] + 1][n] = v[l][n]
    OBVIOUS
  <2>1. l \in 1..q + 1 /\ c2[l] = c[l] /\ v[l] = w[l]
    BY <1>3, <1>7
  <2> QED
    BY <1>4, <2>1
<1>14. c2[1] = 0 /\ c2[q] = s2 /\ ps[1] = -1 /\ q \in Nat \ {0}
  BY <1>3, <1>4, <1>5, <1>7, <1>9
<1>15. Chain(c2, v, ps, sy, s2, m)
  BY <1>3, <1>8, <1>11, <1>12, <1>13, <1>14 DEF Chain
<1> QED
  BY <1>15

LEMMA ChainMapped ==
  ASSUME NEW ps, NEW sy \in Seq(Symbols), NEW m, m = Len(sy), NEW c, NEW w, NEW s,
         Chain(c, w, ps, sy, s, m), NEW v, NEW n, NEW d, Mapped(w, v, n, d),
         NEW sy2, sy2 = [sy EXCEPT ![s + 1][n] = d]
  PROVE  Chain(c, v, ps, sy2, s, m)
<1>1. PICK k : /\ k = Len(w) /\ k \in Nat \ {0} /\ c \in [1..k -> 0..m - 1]
               /\ c[1] = 0 /\ c[k] = s /\ ps[1] = -1
               /\ \A i, j \in 1..k : i < j => c[i] < c[j]
               /\ \A l \in 2..k : ps[c[l] + 1] = c[l - 1]
               /\ \A l \in 1..k : \A x \in Names : sy[c[l] + 1][x] = w[l][x]
  BY DEF Chain
<1>2. /\ Len(v) = k /\ n \in Names /\ d \in Decls
      /\ \A l \in 1..k : \A x \in Names : v[l][x] = IF l = k /\ x = n THEN d ELSE w[l][x]
  BY <1>1 DEF Mapped
<1>3. m \in Nat /\ DOMAIN sy = 1..m /\ \A i \in 1..m : sy[i] \in Symbols
  BY LenProperties
<1>4. \A i \in 1..m : \A x \in Names :
        sy2[i][x] = IF i = s + 1 /\ x = n THEN d ELSE sy[i][x]
  <2> SUFFICES ASSUME NEW i \in 1..m, NEW x \in Names
               PROVE  sy2[i][x] = IF i = s + 1 /\ x = n THEN d ELSE sy[i][x]
    OBVIOUS
  <2>1. sy2[i] = IF i = s + 1 THEN [sy[i] EXCEPT ![n] = d] ELSE sy[i]
    BY <1>3
  <2>2. DOMAIN sy[i] = Names
    BY <1>3 DEF Symbols
  <2> QED
    BY <2>1, <2>2
<1>5. ASSUME NEW l \in 1..k, NEW x \in Names
      PROVE  sy2[c[l] + 1][x] = v[l][x]
  <2>1. c[l] + 1 \in 1..m /\ c[l] \in Int /\ c[k] \in Int
    <3>1. c[l] \in 0..m - 1 /\ k \in 1..k
      BY <1>1
    <3>2. c[k] \in 0..m - 1
      BY <1>1, <3>1
    <3> QED
      BY <1>3, <3>1, <3>2
  <2>2. c[l] + 1 = s + 1 <=> l = k
    <3>1. CASE l = k
      BY <1>1, <3>1
    <3>2. CASE l # k
      <4>1. l < k /\ k \in 1..k
        BY <1>1, <3>2
      <4>2. c[l] < c[k]
        BY <1>1, <4>1
      <4>3. c[l] # s
        BY <1>1, <2>1, <4>2
      <4> QED
        BY <1>1, <2>1, <3>2, <4>3
    <3> QED
      BY <3>1, <3>2
  <2>3. sy2[c[l] + 1][x] = IF l = k /\ x = n THEN d ELSE sy[c[l] + 1][x]
    BY <1>4, <2>1, <2>2
  <2> QED
    BY <1>1, <1>2, <2>3
<1> QED
  BY <1>1, <1>2, <1>5 DEF Chain

\* What the event of a step does to the symbols.
LEMMA Viewed ==
  ASSUME RInv, TInv, SInv, stage = "check", pos < Len(events)
  PROVE  /\ pos \in Nat /\ pos + 1 \in 1..Len(events)
         /\ \E vs : Views(tops, vs, events)
         /\ \A vs : Views(tops, vs, events) =>
              /\ Turned(vs[pos], vs[pos + 1], Next1) /\ vs[pos] \in Seq(Symbols)
              /\ Referred(tops, vs[pos], events, pos + 1)
<1>1. Len(events) \in Nat /\ pos \in 0..Len(events)
  BY LenProperties DEF RInv, Shapes, TInv
<1>2. pos \in Nat /\ pos + 1 \in 1..Len(events) /\ pos + 1 - 1 = pos
  BY <1>1
<1>3. errors = {} /\ pass # "declare"
  BY <1>2, EmptySeq DEF TInv, RInv, Shapes
<1>4. \E vs : Views(tops, vs, events)
  BY <1>3 DEF SInv
<1>5. ASSUME NEW vs, Views(tops, vs, events)
      PROVE  /\ Turned(vs[pos], vs[pos + 1], Next1) /\ vs[pos] \in Seq(Symbols)
             /\ Referred(tops, vs[pos], events, pos + 1)
  <2>1. /\ Turned(vs[pos + 1 - 1], vs[pos + 1], events[pos + 1])
        /\ Referred(tops, vs[pos + 1 - 1], events, pos + 1)
    BY <1>2, <1>5 DEF Views
  <2>2. vs[pos] \in Seq(Symbols)
    BY <1>1, <1>5 DEF Views
  <2> QED
    BY <1>2, <2>1, <2>2 DEF Next1
<1> QED
  BY <1>2, <1>4, <1>5


\* A step over an event does for the scopes what it does for the symbols in them.
LEMMA KWalked ==
  ASSUME RInv, TInv, SInv, KInv, NEW k, Walk(k), stage' # "resolver",
         \A j \in 1..Len(open') : open'[j].skip => check_error', check_error => check_error',
         ~check_error' /\ ~check_error => ScopesMade',
         ~check_error' /\ ~check_error =>
           \A w \in Seq(Symbols) : \A v, c :
             /\ Turned(w, v, Next1)
             /\ Chain(c, w, parents, symbols, curr_scope, next_id)
             => \E c2 : Chain(c2, v, parents', symbols', curr_scope', next_id')
  PROVE  KInv'
<1>1. /\ stage = "check" /\ pos < Len(events) /\ pos' = pos + 1
      /\ UNCHANGED <<tops, events, fn_types>>
  BY DEF Walk, resolverVars
<1>2. FunctionsKnown'
  BY <1>1 DEF KInv, FunctionsKnown
<1>3. ASSUME ~check_error', NEW vs, Views(tops, vs, events)
      PROVE  \E c : Chain(c, vs[pos + 1], parents', symbols', curr_scope', next_id')
  <2>1. ~check_error
    BY <1>3
  <2>2. PICK c : Chain(c, vs[pos], parents, symbols, curr_scope, next_id)
    BY <1>1, <1>3, <2>1 DEF KInv
  <2>3. Turned(vs[pos], vs[pos + 1], Next1) /\ vs[pos] \in Seq(Symbols)
    BY <1>1, <1>3, Viewed
  <2> QED
    BY <1>3, <2>1, <2>2, <2>3
<1>4. ~check_error' => /\ ScopesMade'
                       /\ \A vs : Views(tops, vs, events)' =>
                            \E c : Chain(c, vs[pos], parents, symbols, curr_scope, next_id)'
  BY <1>1, <1>3
<1> QED
  BY <1>2, <1>4 DEF KInv

LEMMA SkipsKnown ==
  ASSUME TInv, KInv, check_error => check_error',
         \/ \E s : Opened(s) /\ (s => check_error')
         \/ open # <<>> /\ open' = Front(open)
         \/ UNCHANGED open
  PROVE  \A j \in 1..Len(open') : open'[j].skip => check_error'
<1>1. IsList(open)
  BY DEF TInv, Tracked, SameOpen
<1>2. PICK n \in Nat : n = Len(open)
  BY <1>1, ListLength
<1>3. \A j \in 1..n : open[j].skip => check_error'
  BY <1>2 DEF KInv
<1>4. ASSUME NEW s, Opened(s), s => check_error'
      PROVE  \A j \in 1..Len(open') : open'[j].skip => check_error'
  <2>1. PICK o : o = [kind |-> Next1.kind, class |-> enclosing_class, fn |-> enclosing_fn, skip |-> s]
    OBVIOUS
  <2>2. open' = Append(open, o) /\ (o.skip => check_error')
    BY <1>4, <2>1 DEF Opened
  <2> HIDE <2>1
  <2>3. PICK op : op = open'
    OBVIOUS
  <2>4. Len(op) = n + 1 /\ op[n + 1] = o /\ \A i \in 1..n : op[i] = open[i]
    <3>1. /\ Len(Append(open, o)) = n + 1 /\ Append(open, o)[n + 1] = o
          /\ \A i \in 1..n : Append(open, o)[i] = open[i]
      BY <1>1, <1>2, AppendedAs
    <3> QED
      BY <2>2, <2>3, <3>1
  <2>5. \A j \in 1..n + 1 : j = n + 1 \/ j \in 1..n
    BY <1>2
  <2> QED
    BY <1>3, <2>2, <2>3, <2>4, <2>5
<1>5. ASSUME open # <<>>, open' = Front(open)
      PROVE  \A j \in 1..Len(open') : open'[j].skip => check_error'
  <2>1. PICK g : g = Front(open)
    OBVIOUS
  <2>2. PICK m \in Nat : Len(open) = m + 1 /\ Len(g) = m /\ \A j \in 1..m : g[j] = open[j]
    BY <1>1, <1>5, <2>1, PoppedList
  <2>3. \A j \in 1..m : j \in 1..n
    BY <1>2, <2>2
  <2> QED
    BY <1>3, <1>5, <2>1, <2>2, <2>3
<1>6. CASE UNCHANGED open
  BY <1>2, <1>3, <1>6
<1> QED
  BY <1>4, <1>5, <1>6

\* What ends has been begun.
LEMMA OpenUntilEnded ==
  ASSUME TInv, NEW k \in {"exit", "endvar"}, Walk(k)
  PROVE  open # <<>> /\ IsList(open)
<1>1. PICK hs : Tracked(hs)
  BY DEF TInv
<1>2. SameOpen("class", events, hs[pos], open, enclosing_class) /\ Explains(hs, events)
  BY <1>1 DEF Tracked, History
<1>3. IsList(open) /\ Len(open) = Len(hs[pos])
  BY <1>2 DEF SameOpen
<1>4. PICK n \in Nat : n = Len(open)
  BY <1>3, ListLength
<1>5. pos < Len(events) /\ pos \in 0..Len(events) /\ events[pos + 1].kind = k
  BY DEF Walk, TInv, Next1
<1>6. pos + 1 \in 1..Len(events) /\ pos + 1 - 1 = pos
  BY <1>5
<1>7. Follows(events, hs[pos + 1], hs[pos], pos + 1)
  <2>1. PICK i \in 1..Len(events) : i = pos + 1 /\ i - 1 = pos
    BY <1>5, <1>6
  <2>2. Follows(events, hs[i], hs[i - 1], i)
    BY <1>2 DEF Explains
  <2> QED
    BY <2>1, <2>2
<1>8. hs[pos] # <<>>
  BY <1>5, <1>7 DEF Follows, Kinds, Scoped, Refs
<1>9. hs[pos] \in Seq(1..Len(events))
  BY <1>2, <1>5 DEF Explains
<1>10. Len(hs[pos]) # 0
  BY <1>8, <1>9, EmptySeq
<1> QED
  BY <1>3, <1>10, EmptySeq

\* What is skipped is skipped after an error.
LEMMA NothingSkipped ==
  ASSUME TInv, KInv, ~check_error
  PROVE  ~Skipping
<1>1. IsList(open)
  BY DEF TInv, Tracked, SameOpen
<1>2. PICK n \in Nat : n = Len(open) /\ (open = <<>> <=> n = 0)
  BY <1>1, ListLength
<1>3. \A j \in 1..n : ~open[j].skip
  BY <1>2 DEF KInv
<1> QED
  BY <1>2, <1>3 DEF Skipping, Last

LEMMA KPushed ==
  ASSUME RInv, TInv, SInv, KInv, NEW k \in Kinds, Walk(k), stage' = stage,
         check_error' = check_error, Opened(FALSE),
         curr_scope' = next_id, next_id' = next_id + 1,
         ScopesMade => parents' = Append(parents, curr_scope),
         NEW t \in Symbols, ~check_error /\ ScopesMade => symbols' = Append(symbols, t),
         \A w \in Seq(Symbols) : \A v : Turned(w, v, Next1) => v = Append(w, t)
  PROVE  KInv'
<1>1. stage = "check"
  BY DEF Walk
<1>2. \A j \in 1..Len(open') : open'[j].skip => check_error'
  <2>1. PICK s : s = FALSE
    OBVIOUS
  <2>2. Opened(s) /\ (s => check_error')
    BY <2>1
  <2> HIDE <2>1
  <2> QED
    BY <2>2, SkipsKnown
<1>3. ASSUME ~check_error
      PROVE  /\ ScopesMade'
             /\ \A w \in Seq(Symbols) : \A v, c :
                  /\ Turned(w, v, Next1)
                  /\ Chain(c, w, parents, symbols, curr_scope, next_id)
                  => \E c2 : Chain(c2, v, parents', symbols', curr_scope', next_id')
  <2>1. PICK m \in Nat : m = next_id
    BY <1>1, <1>3 DEF KInv, ScopesMade
  <2>2. /\ parents \in Seq(Int) /\ Len(parents) = m /\ symbols \in Seq(Symbols) /\ Len(symbols) = m
        /\ ScopesMade
    BY <1>1, <1>3, <2>1 DEF KInv, ScopesMade
  <2>3. curr_scope \in Int
    <3>1. PICK vs : Views(tops, vs, events)
      BY <1>1, Viewed DEF Walk
    <3>2. PICK c : Chain(c, vs[pos], parents, symbols, curr_scope, next_id)
      BY <1>1, <1>3, <3>1 DEF KInv
    <3>3. PICK l : l = Len(vs[pos]) /\ l \in Nat \ {0} /\ c \in [1..l -> 0..m - 1] /\ c[l] = curr_scope
      BY <2>1, <3>2 DEF Chain
    <3>4. l \in 1..l
      BY <3>3
    <3> QED
      BY <2>1, <3>3, <3>4
  <2>4. PICK x : x = curr_scope
    OBVIOUS
  <2>4a. PICK ps : ps = parents' /\ ps = Append(parents, x) /\ x \in Int
    BY <2>2, <2>3, <2>4
  <2>5. PICK sy : sy = symbols' /\ sy = Append(symbols, t)
    BY <1>3, <2>2
  <2>6. /\ ps \in Seq(Int) /\ Len(ps) = m + 1
        /\ ps[m + 1] = x /\ \A i \in 1..m : ps[i] = parents[i]
    BY <2>2, <2>4a, NumberPushed
  <2>7. /\ sy \in Seq(Symbols) /\ Len(sy) = m + 1
        /\ sy[m + 1] = t /\ \A i \in 1..m : sy[i] = symbols[i]
    BY <2>2, <2>5, PushedAs
  <2>8. next_id' = m + 1 /\ m + 1 \in Nat
    BY <2>1
  <2>9. ScopesMade'
    BY <2>5, <2>6, <2>7, <2>8, <2>4a DEF ScopesMade
  <2>10. ASSUME NEW w \in Seq(Symbols), NEW v, NEW c, Turned(w, v, Next1),
                Chain(c, w, parents, symbols, curr_scope, next_id)
         PROVE  \E c2 : Chain(c2, v, parents', symbols', curr_scope', next_id')
    <3>1. v = Append(w, t) /\ Chain(c, w, parents, symbols, x, m)
      BY <2>1, <2>4, <2>10
    <3>2. \E c2 : Chain(c2, v, ps, sy, m, m + 1)
      <4>1. With(parents, m, x, ps)
        BY <2>6 DEF With
      <4>2. With(symbols, m, t, sy)
        BY <2>7 DEF With
      <4> QED
        BY <3>1, <4>1, <4>2, ChainPushed
    <3> QED
      BY <2>1, <2>5, <2>8, <2>4a, <3>2
  <2> QED
    BY <2>9, <2>10
<1> QED
  BY <1>1, <1>2, <1>3, KWalked

LEMMA Entered ==
  ASSUME sm!Enter, ScopesMade
  PROVE  /\ curr_scope' = next_id /\ next_id' = next_id + 1
         /\ parents' = Append(parents, curr_scope) /\ symbols' = Append(symbols, NoSymbols)
BY DEF sm!Enter, sm!Empty, ScopesMade, NoSymbols

LEMMA KEntered ==
  ASSUME RInv, TInv, SInv, KInv, NEW k, k = "block", Walk(k), stage' = stage,
         check_error' = check_error, Opened(FALSE), sm!Enter
  PROVE  KInv'
<1>1. PICK t : t = NoSymbols
  OBVIOUS
<1>2. t \in Symbols
  BY <1>1 DEF NoSymbols, Symbols
<1>3. /\ curr_scope' = next_id /\ next_id' = next_id + 1
      /\ ScopesMade => parents' = Append(parents, curr_scope) /\ symbols' = Append(symbols, t)
  BY <1>1, Entered DEF sm!Enter
<1>4. \A w \in Seq(Symbols) : \A v : Turned(w, v, Next1) => v = Append(w, t)
  BY <1>1 DEF Turned, Walk, Refs
<1>5. k \in Kinds
  BY DEF Kinds, Scoped
<1> HIDE <1>1
<1> QED
  BY <1>2, <1>3, <1>4, <1>5, KPushed

\* The class has been a symbol since it was hoisted.
LEMMA ClassKnown ==
  ASSUME RInv, TInv, SInv, KInv, Walk("class"), ScopesMade, ~check_error,
         NEW d, d = <<Next1.id, "name">>
  PROVE  [symbols EXCEPT ![curr_scope + 1][Next1.name] = d] = symbols
<1>1. stage = "check" /\ pos < Len(events) /\ Next1.kind = "class"
  BY DEF Walk
<1>2. PICK vs : Views(tops, vs, events)
  BY <1>1, Viewed
<1>3. PICK w : w = vs[pos]
  OBVIOUS
<1>4. HasSymbol(w, Next1.name, d)
  <2>1. Referred(tops, vs[pos], events, pos + 1)
    BY <1>1, <1>2, Viewed
  <2> QED
    BY <1>1, <1>3, <2>1 DEF Referred, Next1
<1>5. PICK c : Chain(c, w, parents, symbols, curr_scope, next_id)
  BY <1>1, <1>2, <1>3 DEF KInv
<1>6. PICK l \in Nat \ {0} : l = Len(w)
  BY <1>4 DEF HasSymbol
<1>7. /\ c[l] = curr_scope /\ c[l] \in 0..next_id - 1
      /\ symbols[c[l] + 1][Next1.name] = w[l][Next1.name] /\ Next1.name \in Names
  <2>1. l \in 1..l
    BY <1>6
  <2> QED
    BY <1>4, <1>5, <1>6, <2>1 DEF Chain, HasSymbol
<1>8. symbols[curr_scope + 1][Next1.name] = d
  BY <1>4, <1>6, <1>7 DEF HasSymbol
<1>9. curr_scope + 1 \in DOMAIN symbols /\ symbols = [i \in DOMAIN symbols |-> symbols[i]]
  <2>1. DOMAIN symbols = 1..next_id /\ symbols \in Seq(Symbols) /\ next_id \in Nat
    BY LenProperties DEF ScopesMade
  <2> QED
    BY <1>7, <2>1
<1>10. symbols[curr_scope + 1] \in Symbols
  BY <1>9, ElementOfSeq, LenProperties DEF ScopesMade
<1>11. [symbols[curr_scope + 1] EXCEPT ![Next1.name] = d] = symbols[curr_scope + 1]
  BY <1>7, <1>8, <1>10 DEF Symbols
<1> QED
  BY <1>9, <1>11

LEMMA KClass == ASSUME RInv, TInv, SInv, KInv, CheckClass PROVE KInv'
<1>1. PICK k, t, d : k = "class" /\ t = NoSymbols /\ d = <<Next1.id, "name">>
  OBVIOUS
<1>2. t \in Symbols
  BY <1>1 DEF NoSymbols, Symbols
<1>3. /\ Walk(k) /\ stage' = stage /\ check_error' = check_error /\ Opened(FALSE)
      /\ curr_scope' = next_id /\ next_id' = next_id + 1
      /\ parents' = Append(parents, curr_scope)
      /\ symbols' = Append([symbols EXCEPT ![curr_scope + 1][Next1.name] = d], t)
  BY <1>1 DEF CheckClass, sm!Empty, NoSymbols
<1>4. ~check_error /\ ScopesMade => symbols' = Append(symbols, t)
  <2>1. ~check_error /\ ScopesMade =>
          [symbols EXCEPT ![curr_scope + 1][Next1.name] = d] = symbols
    BY <1>1, <1>3, ClassKnown
  <2> QED
    BY <1>3, <2>1
<1>5. \A w \in Seq(Symbols) : \A v : Turned(w, v, Next1) => v = Append(w, t)
  BY <1>1, <1>3 DEF Turned, Walk, Refs
<1>6. k \in Kinds
  BY <1>1 DEF Kinds, Scoped
<1> HIDE <1>1
<1> QED
  BY <1>2, <1>3, <1>4, <1>5, <1>6, KPushed

LEMMA KFunction == ASSUME RInv, TInv, SInv, KInv, CheckFunc PROVE KInv'
<1>1. PICK k : k = "func"
  OBVIOUS
<1>2. PICK t : t = Parametrized(Next1)
  OBVIOUS
<1>3. /\ Walk(k) /\ stage' = stage /\ check_error' = check_error /\ Opened(FALSE)
      /\ curr_scope' = next_id /\ next_id' = next_id + 1
      /\ parents' = Append(parents, curr_scope) /\ symbols' = Append(symbols, t)
  BY <1>1, <1>2 DEF CheckFunc, Parametrized
<1>4. t \in Symbols
  <2>1. pos < Len(events) /\ pos \in 0..Len(events)
    BY DEF CheckFunc, Walk, TInv
  <2>2. pos + 1 \in 1..Len(events)
    BY <2>1
  <2>3. events[pos + 1] \in Events
    BY <2>2 DEF RInv, Shapes
  <2>4. Next1.id \in Int
    BY <2>3 DEF Next1, Events
  <2>5. <<Next1.id, "param">> \in Decls
    BY <2>4 DEF Decls
  <2> QED
    BY <1>2, <2>5 DEF Parametrized, Symbols
<1>5. \A w \in Seq(Symbols) : \A v : Turned(w, v, Next1) => v = Append(w, t)
  BY <1>1, <1>2, <1>3 DEF Turned, Walk, Refs
<1>6. k \in Kinds
  BY <1>1 DEF Kinds, Scoped
<1> HIDE <1>1, <1>2
<1> QED
  BY <1>3, <1>4, <1>5, <1>6, KPushed

LEMMA KExit == ASSUME RInv, TInv, SInv, KInv, CheckExit PROVE KInv'
<1>1. PICK k : k = "exit"
  OBVIOUS
<1>2. /\ Walk(k) /\ stage' = stage /\ check_error' = check_error /\ open' = Front(open)
      /\ UNCHANGED <<parents, symbols, next_id>> /\ curr_scope' = parents[curr_scope + 1]
      /\ stage = "check" /\ Next1.kind = "exit"
  BY <1>1 DEF CheckExit, sm!Exit, sm!Parent, Walk
<1>3. k \in {"exit", "endvar"}
  BY <1>1
<1> HIDE <1>1
<1>4. \A j \in 1..Len(open') : open'[j].skip => check_error'
  <2>1. open # <<>>
    BY <1>2, <1>3, OpenUntilEnded
  <2> QED
    BY <1>2, <2>1, SkipsKnown
<1>5. ~check_error => ScopesMade /\ ScopesMade'
  BY <1>2 DEF KInv, ScopesMade
<1>6. ASSUME ~check_error, NEW w \in Seq(Symbols), NEW v, NEW c, Turned(w, v, Next1),
             Chain(c, w, parents, symbols, curr_scope, next_id)
      PROVE  \E c2 : Chain(c2, v, parents', symbols', curr_scope', next_id')
  <2>1. Len(w) > 1 /\ v = Front(w)
    BY <1>2, <1>6 DEF Turned, Refs
  <2>2. PICK s2 : s2 = parents[curr_scope + 1]
    OBVIOUS
  <2>3. parents \in Seq(Int) /\ next_id = Len(parents)
    BY <1>5, <1>6 DEF ScopesMade
  <2>4. \E c2 : Chain(c2, v, parents, symbols, s2, next_id)
    BY <1>6, <2>1, <2>2, <2>3, ChainPopped
  <2> QED
    BY <1>2, <2>2, <2>4
<1> QED
  BY <1>2, <1>4, <1>5, <1>6, KWalked

LEMMA KEndVar == ASSUME RInv, TInv, SInv, KInv, CheckEndVar PROVE KInv'
<1>1. PICK k : k = "endvar"
  OBVIOUS
<1>2. /\ Walk(k) /\ stage' = stage /\ check_error' = check_error /\ open' = Front(open)
      /\ UNCHANGED <<parents, curr_scope, next_id>>
      /\ stage = "check" /\ Next1.kind = "endvar" /\ pos < Len(events)
  BY <1>1 DEF CheckEndVar, Walk
<1>3. k \in {"exit", "endvar"}
  BY <1>1
<1> HIDE <1>1
<1>4. \A j \in 1..Len(open') : open'[j].skip => check_error'
  <2>1. open # <<>>
    BY <1>2, <1>3, OpenUntilEnded
  <2> QED
    BY <1>2, <2>1, SkipsKnown
<1>5. ASSUME ~check_error
      PROVE  /\ ScopesMade'
             /\ \A w \in Seq(Symbols) : \A v, c :
                  /\ Turned(w, v, Next1)
                  /\ Chain(c, w, parents, symbols, curr_scope, next_id)
                  => \E c2 : Chain(c2, v, parents', symbols', curr_scope', next_id')
  <2>1. PICK n, d : n = Next1.name /\ d = Next1.bound
    OBVIOUS
  <2>2. symbols' = [symbols EXCEPT ![curr_scope + 1][n] = d]
    BY <1>5, <2>1, NothingSkipped DEF CheckEndVar, sm!Insert
  <2>3. \A w, v : Turned(w, v, Next1) => Mapped(w, v, n, d)
    BY <1>2, <2>1 DEF Turned, Refs
  <2>4. ScopesMade
    BY <1>2, <1>5 DEF KInv
  <2>5. PICK m : m = next_id /\ m \in Nat /\ symbols \in Seq(Symbols) /\ m = Len(symbols)
    BY <2>4 DEF ScopesMade
  <2>6. n \in Names /\ d \in Decls
    <3>1. PICK vs : Views(tops, vs, events)
      BY <1>2, Viewed
    <3>2. Turned(vs[pos], vs[pos + 1], Next1)
      BY <1>2, <3>1, Viewed
    <3> QED
      BY <2>3, <3>2 DEF Mapped
  <2>7. PICK sy : sy = symbols' /\ sy = [symbols EXCEPT ![curr_scope + 1][n] = d]
    BY <2>2
  <2>8. sy \in Seq(Symbols) /\ Len(sy) = m
    <3>1. DOMAIN symbols = 1..m /\ \A i \in 1..m : symbols[i] \in Symbols
      BY <2>5, LenProperties
    <3>2. ASSUME NEW i \in 1..m
          PROVE  sy[i] \in Symbols
      <4>1. sy[i] = IF i = curr_scope + 1 THEN [symbols[i] EXCEPT ![n] = d] ELSE symbols[i]
        BY <2>7, <3>1
      <4>2. [symbols[i] EXCEPT ![n] = d] \in Symbols
        BY <2>6, <3>1 DEF Symbols
      <4> QED
        BY <3>1, <4>1, <4>2
    <3>3. sy \in [1..m -> Symbols]
      <4>1. sy = [i \in 1..m |-> sy[i]]
        BY <2>7, <3>1
      <4> QED
        BY <3>2, <4>1
    <3> QED
      BY <2>5, <3>3, LenProperties, SeqDef
  <2>9. ScopesMade'
    BY <1>2, <2>4, <2>5, <2>7, <2>8 DEF ScopesMade
  <2>10. ASSUME NEW w \in Seq(Symbols), NEW v, NEW c, Turned(w, v, Next1),
                Chain(c, w, parents, symbols, curr_scope, next_id)
         PROVE  \E c2 : Chain(c2, v, parents', symbols', curr_scope', next_id')
    <3>1. Mapped(w, v, n, d) /\ Chain(c, w, parents, symbols, curr_scope, m)
      BY <2>3, <2>5, <2>10
    <3>2. Chain(c, v, parents, sy, curr_scope, m)
      BY <2>5, <2>7, <3>1, ChainMapped
    <3> QED
      BY <1>2, <2>5, <2>7, <3>2
  <2> QED
    BY <2>9, <2>10
<1> QED
  BY <1>2, <1>4, <1>5, KWalked

\* The other steps leave the scopes alone.
LEMMA KKept ==
  ASSUME RInv, TInv, SInv, KInv, NEW k, Walk(k), k \in {"var", "return"} \cup Refs,
         stage' # "resolver", UNCHANGED checkerVars, check_error => check_error',
         UNCHANGED open \/ \E s : Opened(s) /\ (s => check_error')
  PROVE  KInv'
<1>1. \A j \in 1..Len(open') : open'[j].skip => check_error'
  BY SkipsKnown
<1>2. UNCHANGED <<parents, symbols, curr_scope, next_id>> /\ stage = "check"
  BY DEF checkerVars, Walk
<1>3. ~check_error => ScopesMade'
  BY <1>2 DEF KInv, ScopesMade
<1>4. \A w, v : Turned(w, v, Next1) => v = w
  BY DEF Turned, Walk, Refs
<1> QED
  BY <1>1, <1>2, <1>3, <1>4, KWalked

-----------------------------------------------------------------------------
(* What is hoisted. *)

\* A name at the top level has one declaration of the first pass.
LEMMA OneGlobal ==
  ASSUME DInv, errors = {}, NEW j \in {"func", "class"}, NEW k \in {"func", "class"}, NEW n,
         NEW d, GlobalIs(tops, j, n, d), NEW e, GlobalIs(tops, k, n, e)
  PROVE  d = e /\ j = k
<1>1. PICK p \in 1..Len(tops) : tops[p].kind = j /\ tops[p].name = n /\ d = <<-p, "name">>
  BY DEF GlobalIs
<1>2. PICK q \in 1..Len(tops) : tops[q].kind = k /\ tops[q].name = n /\ e = <<-q, "name">>
  BY DEF GlobalIs
<1>3. p \in Hoisted /\ q \in Hoisted
  BY <1>1, <1>2 DEF Hoisted
<1>4. p = q
  BY <1>1, <1>2, <1>3 DEF DInv, FirstPass
<1> QED
  BY <1>1, <1>2, <1>4

\* A function at the top level is hoisted as one.
LEMMA TopIsHoisted ==
  ASSUME RInv, TInv, OInv, NEW i \in 1..Len(events), events[i].kind = "func",
         events[i].within = 0
  PROVE  i \in TopFunctions
<1>1. PICK hs : Explains(hs, events)
  BY DEF TInv, Tracked, History
<1>2. Told(hs)
  BY <1>1, AllTold
<1>3. PICK h : h = hs[i - 1]
  OBVIOUS
<1>4. h = <<>>
  <2> SUFFICES ASSUME h # <<>>
               PROVE  FALSE
    OBVIOUS
  <2>1. events[Last(h)].id = 0
    BY <1>2, <1>3 DEF Told, Linked
  <2>2. i - 1 \in 0..Len(events) /\ i - 1 + 1 = i
    BY <1>2 DEF Told
  <2>3. h \in Seq(1..Len(events)) /\ InOrder(events, h, i - 1)
    <3>1. h \in Seq(1..Len(events))
      BY <1>1, <1>3, <2>2 DEF Explains
    <3>2. PICK l \in 0..Len(events) : l = i - 1
      BY <2>2
    <3>3. InOrder(events, hs[l], l)
      BY <1>1, <1>2, HistoryInOrder DEF Told
    <3> QED
      BY <1>3, <3>1, <3>2, <3>3
  <2>4. Len(h) \in 1..Len(h) /\ Last(h) = h[Len(h)] /\ Last(h) \in 1..Len(events)
    <3>1. PICK S : S = 1..Len(events)
      OBVIOUS
    <3>2. h \in Seq(S)
      BY <2>3, <3>1
    <3>3. Last(h) \in S /\ Last(h) = h[Len(h)] /\ Len(h) \in Nat \ {0}
      <4> HIDE <3>1
      <4> QED
        BY <3>2, PoppedOff
    <3> QED
      BY <3>1, <3>3
  <2>5. events[Last(h)].kind \in Kinds
    BY <2>3, <2>4 DEF InOrder
  <2>6. IdsDiffer(events)
    BY <1>2 DEF Told
  <2> QED
    BY <2>1, <2>4, <2>5, <2>6 DEF IdsDiffer
<1>5. HoistedIn(i) = {}
  <2> SUFFICES ASSUME NEW c \in Of("class"), Inside(i, c)
               PROVE  FALSE
    BY DEF HoistedIn
  <2>1. /\ c \in 1..Len(events) /\ events[c].kind \in Scoped
        /\ events[i].kind \in Kinds \cup {"return"}
    BY <1>2 DEF Told, Of, Scoped, Kinds
  <2>2. Listed(hs[i - 1], c)
    BY <1>2, <2>1, InsideIsListed
  <2>3. Len(h) = 0
    BY <1>4, EmptySeq
  <2> QED
    BY <1>3, <2>2, <2>3 DEF Listed
<1> QED
  BY <1>2, <1>5 DEF TopFunctions, Of, Told

\* The last declaration of a name at the top level is the only one.
LEMMA LatestIsOnly ==
  ASSUME RInv, OInv, DInv, errors = {}, NEW k \in {"func", "class"}, NEW S,
         \A i \in S : i \in 1..Len(events) /\ events[i].kind = k /\ events[i].within = 0,
         NEW i \in S
  PROVE  Latest(S, events[i].name) = i
<1>1. DuplicatesReported /\ IdsDiffer(events) /\ DOMAIN events = 1..Len(events)
      /\ Len(events) \in Nat
  BY LenProperties DEF DInv, OInv, RInv, Shapes
<1>2. ~\E c \in DOMAIN events : events[c].kind = "class" /\ events[c].id = 0
  <2>1. "class" \in Kinds
    BY DEF Kinds, Scoped
  <2> QED
    BY <1>1, <2>1 DEF IdsDiffer
<1>3. \A x, y \in 1..Len(events) :
        x < y /\ events[x].kind = k /\ events[y].kind = k
        /\ events[x].within = 0 /\ events[y].within = 0 => events[x].name # events[y].name
  BY <1>1, <1>2 DEF DuplicatesReported
<1>4. \A j \in S : events[j].name = events[i].name => j = i
  BY <1>1, <1>3
<1>5. PICK T : T = {j \in S : events[j].name = events[i].name}
  OBVIOUS
<1>6. T = {i} /\ i \in Int
  BY <1>4, <1>5
<1>7. Max(T) = i
  BY <1>6 DEF Max
<1> QED
  BY <1>5, <1>7 DEF Latest

\* Of each kind, what is hoisted is what the first pass has declared.
LEMMA HoistedAsDeclared ==
  ASSUME RInv, OInv, DInv, SInv, errors = {}, pass = "resolved",
         NEW k \in {"func", "class"}, NEW S,
         \A i : i \in S <=> i \in 1..Len(events) /\ events[i].kind = k /\ events[i].within = 0
  PROVE  /\ \A n : n \in {events[i].name : i \in S} <=> Global(tops, k, n)
         /\ \A n : Global(tops, k, n) =>
              GlobalIs(tops, k, n, <<events[Latest(S, n)].id, "name">>)
<1>1. TopsRecorded /\ next = Len(tops)
  BY DEF SInv
<1>2. ASSUME NEW i \in S
      PROVE  /\ Global(tops, k, events[i].name)
             /\ GlobalIs(tops, k, events[i].name, <<events[i].id, "name">>)
  <2>1. i \in 1..Len(events) /\ events[i].kind = k /\ events[i].within = 0
    OBVIOUS
  <2>2. PICK q \in 1..next : /\ events[i].id = -q /\ events[i].kind = tops[q].kind
                             /\ events[i].name = tops[q].name
    BY <1>1, <2>1 DEF TopsRecorded
  <2> QED
    BY <1>1, <2>1, <2>2 DEF Global, GlobalIs
<1>3. ASSUME NEW n, Global(tops, k, n)
      PROVE  \E i \in S : events[i].name = n
  <2>1. PICK q \in 1..Len(tops) : tops[q].kind = k /\ tops[q].name = n
    BY <1>3 DEF Global
  <2>2. PICK i \in 1..Len(events) : /\ events[i].within = 0
                                    /\ events[i].kind = tops[q].kind /\ events[i].name = tops[q].name
    BY <1>1, <2>1 DEF TopsRecorded
  <2> QED
    BY <2>1, <2>2
<1>4. ASSUME NEW i \in S
      PROVE  Latest(S, events[i].name) = i
  <2>1. \A j \in S : j \in 1..Len(events) /\ events[j].kind = k /\ events[j].within = 0
    OBVIOUS
  <2> QED
    BY <2>1, LatestIsOnly
<1>5. \A n : n \in {events[i].name : i \in S} <=> Global(tops, k, n)
  BY <1>2, <1>3
<1>6. ASSUME NEW n, Global(tops, k, n)
      PROVE  GlobalIs(tops, k, n, <<events[Latest(S, n)].id, "name">>)
  <2>1. PICK i \in S : events[i].name = n
    BY <1>3, <1>6
  <2>2. Latest(S, n) = i
    BY <1>4, <2>1
  <2>3. GlobalIs(tops, k, n, <<events[i].id, "name">>)
    BY <1>2, <2>1
  <2> QED
    BY <2>2, <2>3
<1> QED
  BY <1>5, <1>6

LEMMA KHoisted == ASSUME RInv, TInv, OInv, DInv, SInv, KInv, Hoist PROVE KInv'
<1>1. /\ errors = {} /\ pass = "resolved" /\ stage = "resolver" /\ stage' = "check"
      /\ UNCHANGED <<tops, events, pos, parents, curr_scope, next_id, open, check_error>>
  BY DEF Hoist, resolverVars
<1>2. /\ pos = 0 /\ open = <<>> /\ ~check_error /\ parents = <<-1>>
      /\ symbols = <<NoSymbols>> /\ curr_scope = 0 /\ next_id = 1
  BY <1>1 DEF KInv
<1>3. Len(events) \in Nat /\ DOMAIN events = 1..Len(events)
  BY LenProperties DEF RInv, Shapes
<1>4. PICK F, C : F = TopFunctions /\ C = Of("class")
  OBVIOUS
<1>5. \A i : i \in F <=> i \in 1..Len(events) /\ events[i].kind = "func" /\ events[i].within = 0
  BY <1>4, HoistedAtTop, TopIsHoisted
<1>6. \A i : i \in C <=> i \in 1..Len(events) /\ events[i].kind = "class" /\ events[i].within = 0
  BY <1>3, <1>4 DEF Of, SInv, TopsRecorded
<1>7. fn_types' = [n \in {events[i].name : i \in F} |-> <<events[Latest(F, n)].id, "name">>]
  BY <1>4 DEF Hoist, TopFunctions
<1>8. PICK t : t = [n \in Names |-> IF n \in {events[i].name : i \in C}
                                   THEN <<events[Latest(C, n)].id, "name">> ELSE Absent]
  OBVIOUS
<1>9. symbols' = [symbols EXCEPT ![1] = t]
  BY <1>4, <1>8 DEF Hoist
<1>10. FunctionsKnown'
  <2>1. PICK k : k = "func"
    OBVIOUS
  <2>2. /\ k \in {"func", "class"}
        /\ \A i : i \in F <=> i \in 1..Len(events) /\ events[i].kind = k /\ events[i].within = 0
    BY <1>5, <2>1
  <2>3. /\ \A n : n \in {events[i].name : i \in F} <=> Global(tops, k, n)
        /\ \A n : Global(tops, k, n) => GlobalIs(tops, k, n, <<events[Latest(F, n)].id, "name">>)
    <3> HIDE <2>1
    <3> QED
      BY <1>1, <2>2, HoistedAsDeclared
  <2> QED
    BY <1>1, <1>7, <2>1, <2>3 DEF FunctionsKnown
<1>11. /\ \A n : n \in {events[i].name : i \in C} <=> Global(tops, "class", n)
       /\ \A n : Global(tops, "class", n) => GlobalIs(tops, "class", n, <<events[Latest(C, n)].id, "name">>)
  <2>1. PICK k : k = "class"
    OBVIOUS
  <2>2. /\ k \in {"func", "class"}
        /\ \A i : i \in C <=> i \in 1..Len(events) /\ events[i].kind = k /\ events[i].within = 0
    BY <1>6, <2>1
  <2>3. /\ \A n : n \in {events[i].name : i \in C} <=> Global(tops, k, n)
        /\ \A n : Global(tops, k, n) => GlobalIs(tops, k, n, <<events[Latest(C, n)].id, "name">>)
    <3> HIDE <2>1
    <3> QED
      BY <1>1, <2>2, HoistedAsDeclared
  <2> QED
    BY <2>1, <2>3
<1>12. \A n \in Names : \/ GlobalIs(tops, "class", n, t[n])
                        \/ t[n] = Absent /\ ~Global(tops, "class", n)
  BY <1>8, <1>11
<1>13. t \in Symbols
  <2>1. \A n \in Names : t[n] \in Decls \cup {Absent}
    <3> SUFFICES ASSUME NEW n \in Names, t[n] # Absent
                 PROVE  t[n] \in Decls
      OBVIOUS
    <3>1. PICK q \in 1..Len(tops) : t[n] = <<-q, "name">>
      BY <1>12 DEF GlobalIs
    <3> QED
      BY <3>1 DEF Decls
  <2> QED
    BY <1>8, <2>1 DEF Symbols
<1>14. PICK sy : sy = symbols' /\ Len(sy) = 1 /\ sy[1] = t /\ sy \in Seq(Symbols)
  <2>1. symbols' = <<t>>
    BY <1>2, <1>9
  <2>2. <<t>> \in Seq(Symbols) /\ Len(<<t>>) = 1 /\ <<t>>[1] = t
    BY <1>13
  <2> QED
    BY <2>1, <2>2
<1>15. PICK ps : ps = parents' /\ ps \in Seq(Int) /\ Len(ps) = 1 /\ ps[1] = -1
  <2>1. <<-1>> \in Seq(Int) /\ Len(<<-1>>) = 1 /\ <<-1>>[1] = -1
    OBVIOUS
  <2> QED
    BY <1>1, <1>2, <2>1
<1>16. ScopesMade'
  BY <1>1, <1>2, <1>14, <1>15 DEF ScopesMade
<1>17. ASSUME NEW vs, Views(tops, vs, events)
       PROVE  \E c : Chain(c, vs[0], ps, sy, 0, 1)
  <2>1. PICK v : v = vs[0] /\ Len(v) = 1
                 /\ \A n \in Names : \/ GlobalIs(tops, "class", n, v[1][n])
                                     \/ v[1][n] = Absent /\ ~Global(tops, "class", n)
    BY <1>17 DEF Views, OnlyClasses
  <2>2. ASSUME NEW n \in Names
        PROVE  v[1][n] = t[n]
    <3>1. CASE Global(tops, "class", n)
      <4>1. PICK k, d, e : k = "class" /\ d = v[1][n] /\ e = t[n]
        OBVIOUS
      <4>2. ~(v[1][n] = Absent /\ ~Global(tops, "class", n))
        BY <3>1
      <4>3. GlobalIs(tops, k, n, d) /\ GlobalIs(tops, k, n, e) /\ k \in {"func", "class"}
        BY <1>12, <2>1, <3>1, <4>1
      <4>4. d = e
        <5> HIDE <4>1
        <5> QED
          BY <1>1, <4>3, OneGlobal
      <4> QED
        BY <4>1, <4>4
    <3>2. CASE ~Global(tops, "class", n)
      <4>1. \A d : ~GlobalIs(tops, "class", n, d)
        BY <3>2 DEF Global, GlobalIs
      <4> QED
        BY <1>12, <2>1, <4>1
    <3> QED
      BY <3>1, <3>2
  <2>3. PICK c : c = [l \in 1..1 |-> 0]
    OBVIOUS
  <2>4. c[1] = 0 /\ c \in [1..1 -> 0..1 - 1]
    BY <2>3
  <2>5. ASSUME NEW l \in 1..1, NEW n \in Names
        PROVE  sy[c[l] + 1][n] = v[l][n]
    <3>1. l = 1 /\ c[l] + 1 = 1
      BY <2>4
    <3> QED
      BY <1>14, <2>2, <3>1
  <2>6. \A i, j \in 1..1 : ~(i < j)
    OBVIOUS
  <2>7. \A l \in 2..1 : FALSE
    OBVIOUS
  <2>8. Chain(c, v, ps, sy, 0, 1)
    BY <1>15, <2>1, <2>4, <2>5, <2>6, <2>7 DEF Chain
  <2> QED
    BY <2>1, <2>8
<1>18. \A vs : Views(tops, vs, events)' =>
         \E c : Chain(c, vs[pos], parents, symbols, curr_scope, next_id)'
  BY <1>1, <1>2, <1>14, <1>15, <1>17
<1>19. \A j \in 1..Len(open') : open'[j].skip => check_error'
  BY <1>1 DEF KInv
<1> QED
  BY <1>1, <1>10, <1>16, <1>18, <1>19 DEF KInv

-----------------------------------------------------------------------------
(* What the TypeChecker knows is kept. *)

LEMMA KStart == BindingInit => KInv
<1> SUFFICES ASSUME BindingInit
             PROVE  KInv
  OBVIOUS
<1>1. /\ stage = "resolver" /\ pos = 0 /\ open = <<>> /\ check_error = FALSE
      /\ parents = <<-1>> /\ symbols = <<NoSymbols>> /\ curr_scope = 0 /\ next_id = 1
  BY DEF BindingInit, sm!ScopeInit, sm!Empty, NoSymbols
<1>2. Len(open) = 0
  BY <1>1, EmptySeq
<1> QED
  BY <1>1, <1>2 DEF KInv

LEMMA KElsewhere ==
  ASSUME KInv, UNCHANGED <<tops, fn_types, open, check_error>>,
         (stage # "resolver" /\ stage' = "done") \/ UNCHANGED <<stage, pos, events, checkerVars>>
  PROVE  KInv'
<1>1. stage # "resolver" => FunctionsKnown'
  BY DEF KInv, FunctionsKnown
<1>2. \A j \in 1..Len(open') : open'[j].skip => check_error'
  BY DEF KInv
<1>3. CASE stage # "resolver" /\ stage' = "done"
  BY <1>1, <1>2, <1>3 DEF KInv
<1>4. CASE UNCHANGED <<stage, pos, events, checkerVars>>
  <2>1. ScopesMade => ScopesMade'
    BY <1>4 DEF ScopesMade, checkerVars
  <2> QED
    BY <1>1, <1>2, <1>4, <2>1 DEF KInv, checkerVars
<1> QED
  BY <1>3, <1>4

LEMMA KResolving == ASSUME KInv, Resolving PROVE KInv'
<1>1. /\ stage = "resolver" /\ stage' = "resolver"
      /\ UNCHANGED <<pos, parents, symbols, curr_scope, next_id, open, check_error>>
  BY DEF Resolving, checkerVars
<1> QED
  BY <1>1 DEF KInv

LEMMA KStep == ASSUME RInv, TInv, OInv, DInv, SInv, KInv, [Next]_vars PROVE KInv'
<1>1. CASE Resolving
  BY <1>1, KResolving
<1>2. CASE Hoist
  BY <1>2, KHoisted
<1>3. CASE CheckBlock
  <2>1. PICK k : k = "block"
    OBVIOUS
  <2>2. Walk(k) /\ Opened(FALSE) /\ stage' = stage /\ check_error' = check_error /\ sm!Enter
    BY <1>3, <2>1 DEF CheckBlock
  <2> QED
    BY <2>1, <2>2, KEntered
<1>4. CASE CheckFunc
  BY <1>4, KFunction
<1>5. CASE CheckClass
  BY <1>5, KClass
<1>6. CASE CheckVar
  <2>1. PICK k, s : k = "var" /\ s = NamesType(Next1.name)
    OBVIOUS
  <2>2. /\ Walk(k) /\ k \in {"var", "return"} \cup Refs /\ stage' # "resolver"
        /\ UNCHANGED checkerVars /\ check_error' = (check_error \/ s) /\ Opened(s)
    BY <1>6, <2>1 DEF CheckVar, Walk
  <2> HIDE <2>1
  <2>3. \E t : Opened(t) /\ (t => check_error')
    <3>1. Opened(s) /\ (s => check_error')
      BY <2>2
    <3> QED
      BY <3>1
  <2>4. check_error => check_error'
    BY <2>2
  <2> QED
    BY <2>2, <2>3, <2>4, KKept
<1>7. CASE CheckExit
  BY <1>7, KExit
<1>8. CASE CheckEndVar
  BY <1>8, KEndVar
<1>9. ASSUME CheckVariable \/ CheckAssignment \/ CheckThis \/ CheckReturn
      PROVE  KInv'
  <2>1. PICK k : /\ Walk(k) /\ k \in {"var", "return"} \cup Refs /\ stage' # "resolver"
                 /\ UNCHANGED checkerVars /\ UNCHANGED open /\ (check_error => check_error')
    <3>1. CASE CheckVariable
      BY <3>1 DEF CheckVariable, Walk, Refs
    <3>2. CASE CheckAssignment
      BY <3>2 DEF CheckAssignment, Walk, Refs
    <3>3. CASE CheckThis
      BY <3>3 DEF CheckThis, Walk, Refs
    <3>4. CASE CheckReturn
      BY <3>4 DEF CheckReturn, Walk, Refs
    <3> QED
      BY <1>9, <3>1, <3>2, <3>3, <3>4
  <2> QED
    BY <2>1, KKept
<1>10. CASE FinishCheck
  <2>1. /\ stage # "resolver" /\ stage' = "done"
        /\ UNCHANGED <<tops, fn_types, open, check_error>>
    BY <1>10 DEF FinishCheck, resolverVars
  <2> QED
    BY <2>1, KElsewhere
<1>11. CASE UNCHANGED vars
  <2>1. /\ UNCHANGED <<tops, fn_types, open, check_error>>
        /\ UNCHANGED <<stage, pos, events, checkerVars>>
    BY <1>11 DEF vars, resolverVars
  <2> QED
    BY <2>1, KElsewhere
<1> QED
  BY <1>1, <1>2, <1>3, <1>4, <1>5, <1>6, <1>7, <1>8, <1>9, <1>10, <1>11 DEF Next

-----------------------------------------------------------------------------
(* Both passes mean the same by a name. *)

\* Where the TypeChecker is: at a name that the Resolver has bound, in the scopes of v.
LEMMA KnownAt ==
  ASSUME RInv, TInv, SInv, KInv, NEW k \in {"use", "assign"}, About(k), ~check_error
  PROVE  \E v, c : /\ Chain(c, v, parents, symbols, curr_scope, next_id)
                   /\ Len(v) \in Nat /\ Referred(tops, v, events, pos + 1)
                   /\ ScopesMade /\ FunctionsKnown /\ errors = {} /\ Next1.name \in Names
                   /\ events[pos + 1] = Next1 /\ Next1.kind = k /\ pos \in Nat
<1>1. stage = "check" /\ pos < Len(events) /\ Next1.kind = k
  BY DEF About
<1>2. PICK vs : Views(tops, vs, events)
  BY <1>1, Viewed
<1>3. Referred(tops, vs[pos], events, pos + 1) /\ pos \in Nat
  BY <1>1, <1>2, Viewed
<1>4. PICK c : Chain(c, vs[pos], parents, symbols, curr_scope, next_id)
  BY <1>1, <1>2 DEF KInv
<1>5. Len(vs[pos]) \in Nat
  BY <1>4 DEF Chain
<1>6. ScopesMade /\ FunctionsKnown /\ errors = {}
  BY <1>1 DEF KInv, TInv
<1>7. events[pos + 1] = Next1
  BY DEF Next1
<1>8. Next1.name \in Names
  BY <1>1, <1>3, <1>7 DEF Referred
<1> QED
  BY <1>1, <1>3, <1>4, <1>5, <1>6, <1>7, <1>8

\* A name that stands for d has the symbol d, or none and names the function d.
LEMMA ReadLookedUp ==
  ASSUME DInv, errors = {}, ScopesMade, FunctionsKnown, NEW c, NEW v,
         Chain(c, v, parents, symbols, curr_scope, next_id), NEW n \in Names, NEW d,
         ReadAs(tops, v, n, d)
  PROVE  \/ sm!IsMapped(n) /\ sm!Get(n) = d
         \/ ~sm!IsMapped(n) /\ n \in DOMAIN fn_types /\ fn_types[n] = d
<1>1. PICK m : m = next_id /\ m = Len(parents) /\ parents \in Seq(Int)
  BY DEF ScopesMade
<1>2. Chain(c, v, parents, symbols, curr_scope, m)
  BY <1>1
<1>3. /\ sm!IsMapped(n) <=> \E l \in 1..Len(v) : v[l][n] # Absent
      /\ \A l : Nearest(v, n, l) => sm!Get(n) = v[l][n]
  <2>1. parents \in Seq(Int) /\ m = Len(parents)
    BY <1>1
  <2> QED
    BY <1>2, <2>1, LooksUp
<1>4. ASSUME NEW l, Nearest(v, n, l), d = v[l][n]
      PROVE  sm!IsMapped(n) /\ sm!Get(n) = d
  BY <1>3, <1>4 DEF Nearest
<1>5. ASSUME \A l \in 1..Len(v) : v[l][n] = Absent, GlobalIs(tops, "func", n, d)
      PROVE  ~sm!IsMapped(n) /\ n \in DOMAIN fn_types /\ fn_types[n] = d
  <2>1. ~sm!IsMapped(n)
    BY <1>3, <1>5
  <2>2. Global(tops, "func", n)
    BY <1>5 DEF Global, GlobalIs
  <2>3. n \in DOMAIN fn_types
    BY <2>2 DEF FunctionsKnown
  <2>4. PICK k, e : k = "func" /\ e = fn_types[n]
    OBVIOUS
  <2>5. k \in {"func", "class"} /\ GlobalIs(tops, k, n, e) /\ GlobalIs(tops, k, n, d)
    BY <1>5, <2>3, <2>4 DEF FunctionsKnown
  <2>6. d = e
    <3> HIDE <2>4
    <3> QED
      BY <2>5, OneGlobal
  <2> QED
    BY <2>1, <2>3, <2>4, <2>6
<1> QED
  BY <1>4, <1>5 DEF ReadAs

LEMMA UsesFound == ASSUME RInv, TInv, DInv, SInv, KInv PROVE UsesAgree
<1> SUFFICES ASSUME About("use"), ~check_error
             PROVE  Found(Next1.name) = Next1.bound
  BY DEF UsesAgree
<1>1. PICK k \in {"use", "assign"} : k = "use"
  OBVIOUS
<1>2. About(k)
  BY <1>1
<1>3. PICK v, c : /\ Chain(c, v, parents, symbols, curr_scope, next_id)
                  /\ Referred(tops, v, events, pos + 1)
                  /\ ScopesMade /\ FunctionsKnown /\ errors = {} /\ Next1.name \in Names
                  /\ events[pos + 1] = Next1 /\ Next1.kind = k
  <2> HIDE <1>1
  <2> QED
    BY <1>2, KnownAt
<1>4. PICK n, d : n \in Names /\ n = Next1.name /\ d = Next1.bound
  BY <1>3
<1>5. ReadAs(tops, v, n, d)
  BY <1>1, <1>3, <1>4 DEF Referred
<1>6. \/ sm!IsMapped(n) /\ sm!Get(n) = d
      \/ ~sm!IsMapped(n) /\ n \in DOMAIN fn_types /\ fn_types[n] = d
  BY <1>3, <1>4, <1>5, ReadLookedUp
<1>7. Found(n) = d
  BY <1>6 DEF Found
<1> QED
  BY <1>4, <1>7

LEMMA AssignmentsFound == ASSUME RInv, TInv, DInv, SInv, KInv PROVE AssignmentsAgree
<1> SUFFICES ASSUME About("assign"), ~check_error, Next1.bound \notin Symbolless
             PROVE  sm!IsMapped(Next1.name) /\ sm!Get(Next1.name) = Next1.bound
  BY DEF AssignmentsAgree
<1>1. PICK k \in {"use", "assign"} : k = "assign"
  OBVIOUS
<1>2. About(k)
  BY <1>1
<1>3. PICK v, c : /\ Chain(c, v, parents, symbols, curr_scope, next_id)
                  /\ Referred(tops, v, events, pos + 1)
                  /\ ScopesMade /\ FunctionsKnown /\ errors = {} /\ Next1.name \in Names
                  /\ events[pos + 1] = Next1 /\ Next1.kind = k /\ pos \in Nat
  <2> HIDE <1>1
  <2> QED
    BY <1>2, KnownAt
<1>4. PICK n, d : n \in Names /\ n = Next1.name /\ d = Next1.bound
  BY <1>3
<1>5. ~Unfinished(events, pos, d)
  <2> SUFFICES ASSUME Unfinished(events, pos, d)
               PROVE  d \in Symbolless
    BY <1>4
  <2>1. PICK i \in 1..pos : /\ events[i].kind = "var" /\ d = <<events[i].id, "name">>
                            /\ ~\E e \in i..pos : /\ events[e].kind = "endvar"
                                                  /\ events[e].bound[1] = events[i].id
    BY DEF Unfinished
  <2>2. DOMAIN events = 1..Len(events) /\ pos \in Nat /\ i <= pos
    <3>1. pos \in 0..Len(events) /\ Len(events) \in Nat
      BY LenProperties DEF TInv, RInv, Shapes
    <3> QED
      BY <2>1, <3>1, LenProperties DEF RInv, Shapes
  <2>3. i \in Of("var")
    <3>1. i \in DOMAIN events
      BY <1>2, <2>1, <2>2, LenProperties DEF RInv, Shapes, TInv
    <3> QED
      BY <2>1, <3>1 DEF Of
  <2> QED
    BY <2>1, <2>2, <2>3 DEF Symbolless
<1>6. ReadAs(tops, v, n, d)
  <2>1. PICK i : i = pos + 1 /\ i - 1 = pos /\ Referred(tops, v, events, i)
    <3>1. PICK j : j = pos + 1
      OBVIOUS
    <3>2. j - 1 = pos
      BY <1>3, <3>1
    <3>3. Referred(tops, v, events, j)
      BY <1>3, <3>1
    <3> QED
      BY <3>1, <3>2, <3>3
  <2>2. events[i].kind = "assign" /\ events[i].name = n /\ events[i].bound = d
    BY <1>1, <1>3, <1>4, <2>1
  <2>3. ReadAs(tops, v, n, d) \/ Unfinished(events, i - 1, d)
    BY <2>1, <2>2 DEF Referred
  <2> QED
    BY <1>5, <2>1, <2>3
<1>7. \/ sm!IsMapped(n) /\ sm!Get(n) = d
      \/ ~sm!IsMapped(n) /\ n \in DOMAIN fn_types /\ fn_types[n] = d
  BY <1>3, <1>4, <1>6, ReadLookedUp
<1>8. ~(n \in DOMAIN fn_types /\ fn_types[n] = d)
  BY <1>4 DEF Symbolless
<1> QED
  BY <1>4, <1>7, <1>8

\* What both passes know of names, in every state.
LEMMA NamesKnown == ASSUME Flat PROVE Spec => [](RInv /\ TInv /\ DInv /\ SInv /\ KInv)
<1>1. Spec => []TInv
  BY CStart, CStep, ResolverShapes, PTL DEF Spec
<1>2. RInv /\ RInv' /\ TInv /\ TInv' /\ OInv /\ [Next]_vars => OInv'
  <2>1. OInv /\ UNCHANGED resolverVars => OInv'
    BY OUnchanged DEF resolverVars
  <2> QED
    BY <2>1, OStep, OthersLeave DEF vars
<1>3. Spec => []OInv
  BY OStart, ResolverShapes, <1>1, <1>2, PTL DEF Spec
<1>4. RInv /\ DInv /\ SInv /\ [Next]_vars => SInv'
  BY SStep, SStutter, OthersLeave DEF vars
<1>5. Spec => []SInv
  BY SStart, ResolverShapes, Declared, <1>4, PTL DEF Spec
<1>6. RInv /\ TInv /\ OInv /\ DInv /\ SInv /\ KInv /\ [Next]_vars => KInv'
  BY KStep
<1> QED
  BY KStart, ResolverShapes, Declared, <1>1, <1>3, <1>5, <1>6, PTL DEF Spec

(* Where functions and classes stand at the top level only, the TypeChecker finds
   by every name that is read, outside of index expressions, the declaration the
   Resolver has found, whatever is shadowed, is declared later at the top level or is
   a function of the first pass only: the two keep scopes in different ways, and no
   link between them but the order of the walk (resolver.cc:124-136, 262-264,
   type-checker.cc:88-103). *)
THEOREM UsesFindTheirDeclaration == ASSUME Flat PROVE Spec => []UsesAgree
<1>1. RInv /\ TInv /\ DInv /\ SInv /\ KInv => UsesAgree
  BY UsesFound
<1> QED
  BY NamesKnown, <1>1, PTL

(* There, a name that is assigned to, outside of index expressions, has the symbol of
   the variable the Resolver has found, and so a type: of the assignments that it has
   visited, the TypeChecker follows a null pointer only for those to a function and to
   a variable in its own initializer (resolver.cc:64-67, 262-264,
   type-checker.cc:112-115). *)
THEOREM AssignmentsFindTheirVariable == ASSUME Flat PROVE Spec => []AssignmentsAgree
<1>1. RInv /\ TInv /\ DInv /\ SInv /\ KInv => AssignmentsAgree
  BY AssignmentsFound
<1> QED
  BY NamesKnown, <1>1, PTL
=============================================================================
