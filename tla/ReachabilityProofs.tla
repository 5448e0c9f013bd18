-------------------------- MODULE ReachabilityProofs --------------------------
(***************************************************************************)
(* What Reachability accepts returns on every path, in programs of any     *)
(* size, with functions and classes nested in any way; what it says of     *)
(* dead code is so, and in programs without nested functions it says all   *)
(* of it.  The emission of basic blocks takes Reachability through exactly *)
(* its own steps, an insertion block is open where control can get, and    *)
(* what was accepted leaves no block without a terminator.                 *)
(***************************************************************************)
EXTENDS LLVMBlocks, RecursionTheorems, FiniteSetTheorems

-----------------------------------------------------------------------------
(* The inductive invariant. *)

Blocks == [returns : BOOLEAN, succs : SUBSET Nat]

Frames ==
  [kind : {"func", "class", "then", "else"}, pred : Nat, block : Nat, then : Nat,
   rets : BOOLEAN, fn : Functions, live : BOOLEAN, thenLive : BOOLEAN]

\* Statements are attached to the newest block, whichever function it is of.
Shapes ==
  /\ blocks \in Seq(Blocks)
  /\ frames \in Seq(Frames)
  /\ funcs \in Seq(Functions)
  /\ live \in BOOLEAN
  /\ frames # <<>> => graph \in Seq(Nat) /\ graph # <<>> /\ Last(graph) = Len(blocks)

\* A set of blocks that control may stay in until it has passed p or fallen off
\* the end: none of them returns.
Escapes(bs, S, p) ==
  /\ S \subseteq DOMAIN bs
  /\ \A x \in S : /\ ~bs[x].returns
                  /\ x = p \/ bs[x].succs = {} \/ bs[x].succs \cap S # {}

\* Statement j of fs is statement i or around it, in the same function.
Around(fs, i, j) ==
  j <= i /\ fs[j].kind # "class" /\ \A k \in j + 1..i : fs[k].kind # "func"

\* The first blocks of those statements.
Current(fs, i) == {fs[j].block : j \in {k \in 1..i : Around(fs, i, k)}}

\* The newest block there was when the walk got to a statement.
Before(f) == IF f.kind = "func" THEN f.block - 1 ELSE f.pred

Ordered(bs, fs, i) ==
  fs[i].kind # "class" =>
    /\ fs[i].kind = "func" => fs[i].pred = 0
    /\ Before(fs[i]) < fs[i].block /\ fs[i].block <= Len(bs)
    /\ fs[i].kind = "else" => fs[i].pred < fs[i].then
    /\ \A j \in 1..i - 1 : fs[j].kind # "class" => fs[j].block <= Before(fs[i])

\* If control got to statement i, then it got there by blocks that do not return
\* and that nothing within statement i changes.
Pending(bs, fs, i) ==
  fs[i].kind # "class" /\ fs[i].live =>
    \E S \in SUBSET (1..Before(fs[i])) :
      Escapes(bs, S, fs[i].pred) /\ Current(fs, i - 1) \subseteq S

\* Can control get to the end of what is inside of statement i?
Inside(fs, lv, i) == IF i = Len(fs) THEN lv ELSE fs[i + 1].live

Branches(fs, lv, i) ==
  fs[i].kind # "func" =>
    /\ Inside(fs, lv, i) => fs[i].live
    /\ fs[i].thenLive => fs[i].live
    /\ fs[i].kind = "else" /\ fs[i].rets => ~fs[i].thenLive

\* If control gets here, then no statement around is known to return.
LiveNow(bs, fs, lv) ==
  lv /\ fs # <<>> =>
    \E S \in SUBSET DOMAIN bs : Escapes(bs, S, 0) /\ Current(fs, Len(fs)) \subseteq S

Tracked(bs, fs, lv) ==
  /\ \A i \in 1..Len(fs) : /\ Ordered(bs, fs, i)
                           /\ Pending(bs, fs, i)
                           /\ Branches(fs, lv, i)
  /\ LiveNow(bs, fs, lv)

IInv == Shapes /\ Tracked(blocks, frames, live) /\ NoReturnlessAccepted

-----------------------------------------------------------------------------
(* Sequences. *)

\* What is in two sequences up to n.
Same(q, r, n) == \A i \in 1..n : q[i] = r[i]

\* r has all of q but what is at p.
SameBut(q, r, p) == \A i \in 1..Len(r) : i # p => q[i] = r[i]
SameOutside(q, r, S) == \A i \in 1..Len(r) : i \notin S => q[i] = r[i]

-----------------------------------------------------------------------------
(* Blocks. *)

\* cs is bs with one more block, which returns or not, and perhaps edges to it.
Joined(bs, cs) ==
  /\ bs \in Seq(Blocks) /\ cs \in Seq(Blocks)
  /\ Len(cs) = Len(bs) + 1
  /\ cs[Len(cs)].succs = {}
  /\ \A x \in 1..Len(bs) : /\ cs[x].returns = bs[x].returns
                           /\ \/ cs[x].succs = bs[x].succs
                              \/ cs[x].succs = bs[x].succs \cup {Len(cs)}

\* A set that control may stay in is one that control may stay in with the new
\* block, if control gets from p to that block.
LEMMA EscapesJoined ==
  ASSUME NEW bs, NEW cs, Joined(bs, cs), ~cs[Len(cs)].returns,
         NEW S, NEW p, Escapes(bs, S, p), p \in S => Len(cs) \in cs[p].succs
  PROVE  Escapes(cs, S \cup {Len(cs)}, 0)
<1>1. /\ DOMAIN bs = 1..Len(bs) /\ DOMAIN cs = 1..Len(cs)
      /\ Len(bs) \in Nat /\ Len(cs) \in Nat /\ Len(cs) = Len(bs) + 1
  BY LenProperties DEF Joined
<1>2. S \cup {Len(cs)} \subseteq DOMAIN cs
  BY <1>1 DEF Escapes
<1>3. ASSUME NEW x \in S
      PROVE  /\ ~cs[x].returns
             /\ cs[x].succs = {} \/ cs[x].succs \cap (S \cup {Len(cs)}) # {}
  <2>1. x \in 1..Len(bs)
    BY <1>1 DEF Escapes
  <2>2. /\ cs[x].returns = bs[x].returns
        /\ cs[x].succs = bs[x].succs \/ cs[x].succs = bs[x].succs \cup {Len(cs)}
    BY <2>1 DEF Joined
  <2>3. ~bs[x].returns /\ (x = p \/ bs[x].succs = {} \/ bs[x].succs \cap S # {})
    BY DEF Escapes
  <2>. QED
    BY <2>2, <2>3
<1>. QED
  BY <1>2, <1>3 DEF Escapes, Joined

\* What does not change in the set need not be looked at.
LEMMA EscapesKept ==
  ASSUME NEW bs, NEW cs, NEW S, NEW p, Escapes(bs, S, p),
         S \subseteq DOMAIN cs, \A x \in S : cs[x] = bs[x]
  PROVE  Escapes(cs, S, p)
BY DEF Escapes

\* A block that control may stay at is not known to return.
LEMMA NotReturns ==
  ASSUME NEW S, Escapes(blocks, S, 0), NEW b \in S, blocks \in Seq(Blocks)
  PROVE  ~Returns(b)
<1>1. DOMAIN blocks = 1..Len(blocks) /\ Len(blocks) \in Nat
  BY LenProperties
<1>2. ReturnClosed(DOMAIN blocks \ S)
  BY <1>1 DEF ReturnClosed, Escapes
<1>. QED
  BY <1>2 DEF Returns

-----------------------------------------------------------------------------
(* Statements. *)

LEMMA CurrentKept ==
  ASSUME NEW fs, NEW gs, NEW n \in Nat, \A j \in 1..n : gs[j] = fs[j]
  PROVE  Current(gs, n) = Current(fs, n)
<1>1. \A j \in 1..n : Around(gs, n, j) <=> Around(fs, n, j)
  BY DEF Around
<1>. QED
  BY <1>1 DEF Current

\* What is around the newest statement is what is around the one before it,
\* unless it is a function.
LEMMA AroundNewest ==
  ASSUME NEW fs, NEW n \in Nat, NEW m, m = n + 1
  PROVE  /\ \A j \in 1..n : Around(fs, m, j) <=> Around(fs, n, j) /\ fs[m].kind # "func"
         /\ Around(fs, m, m) <=> fs[m].kind # "class"
         /\ 1..m = 1..n \cup {m}
<1>1. \A j \in 1..n : Around(fs, m, j) <=> Around(fs, n, j) /\ fs[m].kind # "func"
  BY DEF Around
<1>2. Around(fs, m, m) <=> fs[m].kind # "class"
  BY DEF Around
<1>3. 1..m = 1..n \cup {m}
  OBVIOUS
<1>. QED
  BY <1>1, <1>2, <1>3

LEMMA CurrentFunction ==
  ASSUME NEW fs, NEW n \in Nat, NEW m, m = n + 1, fs[m].kind = "func"
  PROVE  Current(fs, m) = {fs[m].block}
<1>1. \A j \in 1..n : ~Around(fs, m, j)
  BY AroundNewest
<1>2. Around(fs, m, m)
  BY AroundNewest
<1>3. 1..m = 1..n \cup {m}
  BY AroundNewest
<1>. QED
  BY <1>1, <1>2, <1>3 DEF Current

LEMMA CurrentClass ==
  ASSUME NEW fs, NEW n \in Nat, NEW m, m = n + 1, fs[m].kind = "class"
  PROVE  Current(fs, m) = Current(fs, n)
<1>1. \A j \in 1..n : Around(fs, m, j) <=> Around(fs, n, j)
  BY AroundNewest
<1>2. ~Around(fs, m, m)
  BY AroundNewest
<1>3. 1..m = 1..n \cup {m}
  BY AroundNewest
<1>. QED
  BY <1>1, <1>2, <1>3 DEF Current

LEMMA CurrentBranch ==
  ASSUME NEW fs, NEW n \in Nat, NEW m, m = n + 1,
         fs[m].kind = "then" \/ fs[m].kind = "else"
  PROVE  Current(fs, m) = Current(fs, n) \cup {fs[m].block}
<1>1. \A j \in 1..n : Around(fs, m, j) <=> Around(fs, n, j)
  BY AroundNewest
<1>2. Around(fs, m, m)
  BY AroundNewest
<1>3. 1..m = 1..n \cup {m}
  BY AroundNewest
<1>. QED
  BY <1>1, <1>2, <1>3 DEF Current

\* Nothing within a statement disturbs what is pending at it.
LEMMA PendingKept ==
  ASSUME NEW bs, NEW cs, NEW fs, NEW gs, NEW i \in Nat \ {0}, Pending(bs, fs, i),
         \A j \in 1..i : gs[j] = fs[j],
         fs[i].kind # "class" =>
           \A x \in DOMAIN bs : x \in 1..Before(fs[i]) => x \in DOMAIN cs /\ cs[x] = bs[x]
  PROVE  Pending(cs, gs, i)
<1>1. gs[i] = fs[i] /\ Current(gs, i - 1) = Current(fs, i - 1)
  BY CurrentKept
<1>2. ASSUME fs[i].kind # "class",
             NEW S \in SUBSET (1..Before(fs[i])), Escapes(bs, S, fs[i].pred)
      PROVE  Escapes(cs, S, fs[i].pred)
  BY <1>2, EscapesKept DEF Escapes
<1>. QED
  BY <1>1, <1>2 DEF Pending

\* What the walk is inside of stays as it is while something within changes.
LEMMA OuterKept ==
  ASSUME NEW bs \in Seq(Blocks), NEW cs \in Seq(Blocks), NEW fs \in Seq(Frames), NEW gs,
         NEW lv, NEW lw, Tracked(bs, fs, lv), NEW i \in 1..Len(fs),
         Len(cs) >= Len(bs), \A j \in 1..i : gs[j] = fs[j],
         fs[i].kind # "class" => \A x \in 1..Before(fs[i]) : cs[x] = bs[x],
         Inside(gs, lw, i) => Inside(fs, lv, i)
  PROVE  Ordered(cs, gs, i) /\ Pending(cs, gs, i) /\ Branches(gs, lw, i)
<1>1. /\ DOMAIN bs = 1..Len(bs) /\ DOMAIN cs = 1..Len(cs)
      /\ Len(bs) \in Nat /\ Len(cs) \in Nat /\ Len(fs) \in Nat
  BY LenProperties
<1>2. Ordered(bs, fs, i) /\ Pending(bs, fs, i) /\ Branches(fs, lv, i)
  BY DEF Tracked
<1>3. i \in Nat \ {0} /\ gs[i] = fs[i] /\ fs[i] \in Frames
  BY <1>1, ElementOfSeq
<1>4. Ordered(cs, gs, i)
  <2>1. CASE fs[i].kind = "class"
    BY <1>3, <2>1 DEF Ordered
  <2>2. CASE fs[i].kind # "class"
    <3>1. fs[i].block <= Len(cs)
      BY <1>1, <1>2, <1>3, <2>2 DEF Ordered, Frames
    <3>2. \A j \in 1..i - 1 : gs[j] = fs[j]
      BY <1>3
    <3>. QED
      BY <1>2, <1>3, <2>2, <3>1, <3>2 DEF Ordered
  <2>. QED
    BY <2>1, <2>2
<1>5. Pending(cs, gs, i)
  <2>1. ASSUME fs[i].kind # "class", NEW x \in DOMAIN bs, x \in 1..Before(fs[i])
        PROVE  x \in DOMAIN cs /\ cs[x] = bs[x]
    BY <1>1, <2>1
  <2>. QED
    BY <1>2, <1>3, <2>1, PendingKept
<1>6. Branches(gs, lw, i)
  BY <1>2, <1>3 DEF Branches
<1>. QED
  BY <1>4, <1>5, <1>6

\* The statements around one that is not a class begin before its blocks.
LEMMA OuterBefore ==
  ASSUME NEW bs \in Seq(Blocks), NEW fs \in Seq(Frames), NEW lv, Tracked(bs, fs, lv),
         NEW i \in 1..Len(fs), fs[i].kind # "class"
  PROVE  /\ fs[i].block \in Nat /\ fs[i].block <= Len(bs)
         /\ Before(fs[i]) \in Int /\ Before(fs[i]) < fs[i].block
         /\ \A k \in i + 1..Len(fs) : fs[k].kind # "class" => fs[i].block <= Before(fs[k])
<1>1. fs[i] \in Frames /\ Len(fs) \in Nat /\ Len(bs) \in Nat
  BY ElementOfSeq, LenProperties
<1>2. Ordered(bs, fs, i)
  BY DEF Tracked
<1>3. Before(fs[i]) \in Int /\ Before(fs[i]) < fs[i].block
  BY <1>1, <1>2 DEF Ordered, Before, Frames
<1>4. ASSUME NEW k \in i + 1..Len(fs), fs[k].kind # "class"
      PROVE  fs[i].block <= Before(fs[k])
  <2>1. k \in 1..Len(fs) /\ i \in 1..k - 1
    BY <1>1
  <2>2. Ordered(bs, fs, k)
    BY <2>1 DEF Tracked
  <2>. QED
    BY <1>4, <2>1, <2>2 DEF Ordered
<1>. QED
  BY <1>1, <1>2, <1>3, <1>4 DEF Ordered, Frames

-----------------------------------------------------------------------------
(* The steps, one lemma for each way the blocks and statements change.        *)

\* A return: the newest block is none that anything around relies upon.
LEMMA ReturnTracked ==
  ASSUME NEW bs \in Seq(Blocks), NEW cs \in Seq(Blocks), NEW fs \in Seq(Frames),
         NEW lv, Tracked(bs, fs, lv), Len(cs) = Len(bs),
         \A x \in 1..Len(bs) - 1 : cs[x] = bs[x]
  PROVE  Tracked(cs, fs, FALSE)
<1>1. ASSUME NEW i \in 1..Len(fs)
      PROVE  Ordered(cs, fs, i) /\ Pending(cs, fs, i) /\ Branches(fs, FALSE, i)
  <2>1. ASSUME fs[i].kind # "class", NEW x \in 1..Before(fs[i])
        PROVE  cs[x] = bs[x]
    <3>1. Len(bs) \in Nat
      BY LenProperties
    <3>2. x \in 1..Len(bs) - 1
      BY <2>1, <3>1, OuterBefore
    <3>. QED
      BY <3>2
  <2>2. Inside(fs, FALSE, i) => Inside(fs, lv, i)
    BY DEF Inside
  <2>3. Len(cs) >= Len(bs)
    BY LenProperties
  <2>. QED
    BY <2>1, <2>2, <2>3, OuterKept
<1>. QED
  BY <1>1 DEF Tracked, LiveNow

\* The end of a function or a class.
LEMMA LeaveTracked ==
  ASSUME NEW bs \in Seq(Blocks), NEW fs \in Seq(Frames), NEW gs \in Seq(Frames),
         NEW lv, NEW lw, Tracked(bs, fs, lv), NEW n \in Nat, Len(fs) = n + 1, Len(gs) = n,
         \A j \in 1..n : gs[j] = fs[j],
         \/ fs[n + 1].kind = "func" /\ lw = fs[n + 1].live
         \/ fs[n + 1].kind = "class" /\ lw = lv
  PROVE  Tracked(bs, gs, lw)
<1>1. n + 1 \in 1..Len(fs) /\ n \in 0..Len(fs) /\ fs # <<>>
  BY EmptySeq
<1>2. Ordered(bs, fs, n + 1) /\ Pending(bs, fs, n + 1) /\ Branches(fs, lv, n + 1)
  BY <1>1 DEF Tracked
<1>3. lw => fs[n + 1].live
  BY <1>2 DEF Branches, Inside
<1>4. ASSUME NEW i \in 1..n
      PROVE  Ordered(bs, gs, i) /\ Pending(bs, gs, i) /\ Branches(gs, lw, i)
  <2>1. Inside(gs, lw, i) => Inside(fs, lv, i)
    BY <1>3 DEF Inside
  <2>2. i \in 1..Len(fs) /\ \A j \in 1..i : gs[j] = fs[j]
    OBVIOUS
  <2>3. Len(bs) >= Len(bs)
    BY LenProperties
  <2>. QED
    BY <2>1, <2>2, <2>3, OuterKept
<1>5. Current(gs, n) = Current(fs, n)
  BY CurrentKept
<1>6. LiveNow(bs, gs, lw)
  <2>1. CASE fs[n + 1].kind = "func" /\ lw = fs[n + 1].live
    <3>1. ASSUME lw
          PROVE  \E S \in SUBSET (1..Before(fs[n + 1])) :
                   Escapes(bs, S, fs[n + 1].pred) /\ Current(fs, n + 1 - 1) \subseteq S
      BY <1>2, <2>1, <3>1 DEF Pending
    <3>2. fs[n + 1].pred = 0 /\ n + 1 - 1 = n
      BY <1>2, <2>1 DEF Ordered
    <3>3. ASSUME lw
          PROVE  \E S \in SUBSET DOMAIN bs : Escapes(bs, S, 0) /\ Current(gs, n) \subseteq S
      BY <1>5, <3>1, <3>2, <3>3 DEF Escapes
    <3>. QED
      BY <3>3 DEF LiveNow
  <2>2. CASE fs[n + 1].kind = "class" /\ lw = lv
    <3>1. Current(fs, n + 1) = Current(fs, n)
      BY <2>2, CurrentClass
    <3>. QED
      BY <1>1, <1>5, <2>2, <3>1 DEF Tracked, LiveNow
  <2>. QED
    BY <2>1, <2>2
<1>. QED
  BY <1>4, <1>6 DEF Tracked

\* A class in a function.
LEMMA ClassTracked ==
  ASSUME NEW bs \in Seq(Blocks), NEW fs \in Seq(Frames), NEW gs \in Seq(Frames),
         NEW lv, Tracked(bs, fs, lv), NEW n \in Nat \ {0}, Len(fs) = n, Len(gs) = n + 1,
         \A j \in 1..n : gs[j] = fs[j],
         gs[n + 1].kind = "class", gs[n + 1].live = lv, gs[n + 1].thenLive = FALSE
  PROVE  Tracked(bs, gs, lv)
<1>1. ASSUME NEW i \in 1..n
      PROVE  Ordered(bs, gs, i) /\ Pending(bs, gs, i) /\ Branches(gs, lv, i)
  <2>1. Inside(gs, lv, i) => Inside(fs, lv, i)
    BY DEF Inside
  <2>2. Len(bs) >= Len(bs) /\ \A j \in 1..i : gs[j] = fs[j]
    BY LenProperties
  <2>. QED
    BY <2>1, <2>2, OuterKept
<1>2. Ordered(bs, gs, n + 1) /\ Pending(bs, gs, n + 1) /\ Branches(gs, lv, n + 1)
  BY DEF Ordered, Pending, Branches, Inside
<1>3. Current(gs, n + 1) = Current(fs, n)
  <2>1. Current(gs, n) = Current(fs, n)
    BY CurrentKept
  <2>2. Current(gs, n + 1) = Current(gs, n)
    BY CurrentClass
  <2>. QED
    BY <2>1, <2>2
<1>4. fs # <<>>
  BY EmptySeq
<1>5. LiveNow(bs, gs, lv)
  BY <1>3, <1>4 DEF Tracked, LiveNow
<1>6. \A i \in 1..n + 1 : i \in 1..n \/ i = n + 1
  OBVIOUS
<1>. QED
  BY <1>1, <1>2, <1>5, <1>6 DEF Tracked

\* A function, with a block of its own.
LEMMA FunctionTracked ==
  ASSUME NEW bs \in Seq(Blocks), NEW cs \in Seq(Blocks), NEW fs \in Seq(Frames),
         NEW gs \in Seq(Frames), NEW lv, Tracked(bs, fs, lv), Joined(bs, cs),
         ~cs[Len(cs)].returns, \A x \in 1..Len(bs) : cs[x] = bs[x],
         NEW n \in Nat, Len(fs) = n, Len(gs) = n + 1, \A j \in 1..n : gs[j] = fs[j],
         gs[n + 1].kind = "func", gs[n + 1].pred = 0, gs[n + 1].block = Len(cs),
         gs[n + 1].live = lv
  PROVE  Tracked(cs, gs, TRUE)
<1>1. /\ Len(bs) \in Nat /\ Len(cs) = Len(bs) + 1
      /\ DOMAIN bs = 1..Len(bs) /\ DOMAIN cs = 1..Len(cs)
  BY LenProperties DEF Joined
<1>2. ASSUME NEW i \in 1..n
      PROVE  Ordered(cs, gs, i) /\ Pending(cs, gs, i) /\ Branches(gs, TRUE, i)
  <2>1. Inside(gs, TRUE, i) => Inside(fs, lv, i)
    BY DEF Inside
  <2>2. ASSUME fs[i].kind # "class", NEW x \in 1..Before(fs[i])
        PROVE  cs[x] = bs[x]
    <3>1. i \in 1..Len(fs)
      OBVIOUS
    <3>2. /\ fs[i].block \in Nat /\ fs[i].block <= Len(bs)
          /\ Before(fs[i]) \in Int /\ Before(fs[i]) < fs[i].block
      BY <2>2, <3>1, OuterBefore
    <3>3. x \in 1..Len(bs)
      BY <1>1, <3>2
    <3>. QED
      BY <3>3
  <2>3. Len(cs) >= Len(bs) /\ \A j \in 1..i : gs[j] = fs[j]
    BY <1>1
  <2>. QED
    BY <2>1, <2>2, <2>3, OuterKept
<1>3. Ordered(cs, gs, n + 1)
  <2>1. Before(gs[n + 1]) = Len(bs)
    BY <1>1 DEF Before
  <2>2. ASSUME NEW j \in 1..n, fs[j].kind # "class"
        PROVE  fs[j].block <= Len(bs)
    BY <2>2, OuterBefore
  <2>. QED
    BY <1>1, <2>1, <2>2 DEF Ordered
<1>4. Pending(cs, gs, n + 1)
  <2>1. Before(gs[n + 1]) = Len(bs) /\ n + 1 - 1 = n
    BY <1>1 DEF Before
  <2>2. Current(gs, n) = Current(fs, n)
    BY CurrentKept
  <2>3. ASSUME lv
        PROVE  \E S \in SUBSET (1..Len(bs)) : Escapes(cs, S, 0) /\ Current(gs, n) \subseteq S
    <3>1. CASE n = 0
      <4>1. Escapes(cs, {}, 0) /\ Current(gs, n) = {}
        BY <3>1 DEF Escapes, Current
      <4>. QED
        BY <4>1
    <3>2. CASE n # 0
      <4>1. fs # <<>>
        BY <3>2, EmptySeq
      <4>2. PICK S \in SUBSET DOMAIN bs : Escapes(bs, S, 0) /\ Current(fs, n) \subseteq S
        BY <2>3, <4>1 DEF Tracked, LiveNow
      <4>3. S \subseteq DOMAIN cs /\ \A x \in S : cs[x] = bs[x]
        BY <1>1, <4>2
      <4>4. Escapes(cs, S, 0)
        BY <4>2, <4>3, EscapesKept
      <4>. QED
        BY <1>1, <2>2, <4>2, <4>4
    <3>. QED
      BY <3>1, <3>2
  <2>. QED
    BY <2>1, <2>3 DEF Pending
<1>5. Branches(gs, TRUE, n + 1)
  BY DEF Branches
<1>6. LiveNow(cs, gs, TRUE)
  <2>1. Escapes(cs, {Len(cs)}, 0)
    BY <1>1 DEF Escapes, Joined
  <2>2. Current(gs, n + 1) = {Len(cs)}
    <3>1. Current(gs, n + 1) = {gs[n + 1].block}
      BY CurrentFunction
    <3>. QED
      BY <3>1
  <2>. QED
    BY <1>1, <2>1, <2>2 DEF LiveNow
<1>7. \A i \in 1..n + 1 : i \in 1..n \/ i = n + 1
  OBVIOUS
<1>. QED
  BY <1>2, <1>3, <1>4, <1>5, <1>6, <1>7 DEF Tracked

\* The branch of an if: control may stay in what is before it.
LEMMA ThenTracked ==
  ASSUME NEW bs \in Seq(Blocks), NEW cs \in Seq(Blocks), NEW fs \in Seq(Frames),
         NEW gs \in Seq(Frames), NEW lv, Tracked(bs, fs, lv), Joined(bs, cs),
         ~cs[Len(cs)].returns, \A x \in 1..Len(bs) - 1 : cs[x] = bs[x],
         NEW n \in Nat, n # 0, Len(fs) = n, Len(gs) = n + 1, \A j \in 1..n : gs[j] = fs[j],
         gs[n + 1].kind = "then", gs[n + 1].pred = Len(bs), gs[n + 1].block = Len(cs),
         gs[n + 1].live = lv, gs[n + 1].thenLive = FALSE
  PROVE  Tracked(cs, gs, lv)
<1>1. /\ Len(bs) \in Nat /\ Len(cs) = Len(bs) + 1
      /\ DOMAIN bs = 1..Len(bs) /\ DOMAIN cs = 1..Len(cs)
  BY LenProperties DEF Joined
<1>2. ASSUME NEW i \in 1..n
      PROVE  Ordered(cs, gs, i) /\ Pending(cs, gs, i) /\ Branches(gs, lv, i)
  <2>1. Inside(gs, lv, i) => Inside(fs, lv, i)
    BY DEF Inside
  <2>2. ASSUME fs[i].kind # "class", NEW x \in 1..Before(fs[i])
        PROVE  cs[x] = bs[x]
    <3>1. x \in 1..Len(bs) - 1
      BY <1>1, <2>2, OuterBefore, SMTT(40)
    <3>. QED
      BY <3>1
  <2>3. Len(cs) >= Len(bs) /\ \A j \in 1..i : gs[j] = fs[j]
    BY <1>1
  <2>. QED
    BY <2>1, <2>2, <2>3, OuterKept
<1>3. Before(gs[n + 1]) = Len(bs) /\ n + 1 - 1 = n
  BY DEF Before
<1>4. Ordered(cs, gs, n + 1)
  <2>1. ASSUME NEW j \in 1..n, fs[j].kind # "class"
        PROVE  fs[j].block <= Len(bs)
    BY <2>1, OuterBefore
  <2>. QED
    BY <1>1, <1>3, <2>1 DEF Ordered
<1>5. Current(gs, n) = Current(fs, n) /\ Current(gs, n + 1) = Current(fs, n) \cup {Len(cs)}
  <2>1. Current(gs, n) = Current(fs, n)
    BY CurrentKept
  <2>2. PICK m \in Nat : m = n + 1
    OBVIOUS
  <2>3. gs[m].kind = "then" \/ gs[m].kind = "else"
    BY <2>2
  <2>4. Current(gs, m) = Current(gs, n) \cup {gs[m].block}
    BY <2>2, <2>3, CurrentBranch
  <2>. QED
    BY <2>1, <2>2, <2>4
<1>6. ASSUME lv
      PROVE  \E S \in SUBSET (1..Len(bs)) : Escapes(bs, S, 0) /\ Current(fs, n) \subseteq S
  <2>1. fs # <<>>
    BY EmptySeq
  <2>. QED
    BY <1>1, <1>6, <2>1 DEF Tracked, LiveNow
<1>7. Pending(cs, gs, n + 1)
  <2>1. ASSUME NEW S \in SUBSET (1..Len(bs)), Escapes(bs, S, 0)
        PROVE  Escapes(cs, S, Len(bs))
    <3>1. ASSUME NEW x \in S, x # Len(bs)
          PROVE  cs[x] = bs[x] /\ x # 0
      <4>1. x \in 1..Len(bs)
        BY <2>1
      <4>2. Len(bs) \in Nat
        BY <1>1
      <4>3. x \in 1..Len(bs) - 1 /\ x # 0
        BY <3>1, <4>1, <4>2
      <4>. QED
        BY <4>3
    <3>2. ASSUME NEW x \in S
          PROVE  ~cs[x].returns
      <4>1. x \in 1..Len(bs)
        OBVIOUS
      <4>. QED
        BY <2>1, <4>1 DEF Escapes, Joined
    <3>3. ASSUME NEW x \in S, x # Len(bs)
          PROVE  cs[x].succs = {} \/ cs[x].succs \cap S # {}
      <4>1. cs[x] = bs[x] /\ x # 0
        BY <3>1, <3>3
      <4>2. x = 0 \/ bs[x].succs = {} \/ bs[x].succs \cap S # {}
        BY <2>1 DEF Escapes
      <4>. QED
        BY <4>1, <4>2
    <3>4. S \subseteq DOMAIN cs
      BY <1>1
    <3>. QED
      BY <3>2, <3>3, <3>4 DEF Escapes
  <2>2. ASSUME lv
        PROVE  \E S \in SUBSET (1..Len(bs)) :
                 Escapes(cs, S, Len(bs)) /\ Current(gs, n) \subseteq S
    <3>1. PICK S \in SUBSET (1..Len(bs)) : Escapes(bs, S, 0) /\ Current(fs, n) \subseteq S
      BY <1>6, <2>2
    <3>. QED
      BY <1>5, <2>1, <3>1
  <2>. QED
    BY <1>3, <2>2 DEF Pending
<1>8. Branches(gs, lv, n + 1)
  BY DEF Branches, Inside
<1>9. LiveNow(cs, gs, lv)
  <2>1. ASSUME lv
        PROVE  \E S \in SUBSET DOMAIN cs : Escapes(cs, S, 0) /\ Current(gs, n + 1) \subseteq S
    <3>1. PICK S \in SUBSET (1..Len(bs)) : Escapes(bs, S, 0) /\ Current(fs, n) \subseteq S
      BY <1>6, <2>1
    <3>2. 0 \notin S
      OBVIOUS
    <3>3. Escapes(cs, S \cup {Len(cs)}, 0)
      BY <3>1, <3>2, EscapesJoined
    <3>4. S \cup {Len(cs)} \in SUBSET DOMAIN cs
      BY <3>3 DEF Escapes
    <3>5. Current(gs, n + 1) \subseteq S \cup {Len(cs)}
      BY <1>5, <3>1
    <3>. QED
      BY <3>3, <3>4, <3>5
  <2>. QED
    BY <2>1 DEF LiveNow
<1>10. \A i \in 1..n + 1 : i \in 1..n \/ i = n + 1
  OBVIOUS
<1>. QED
  BY <1>2, <1>4, <1>7, <1>8, <1>9, <1>10 DEF Tracked

\* What the top statement has not changed is what the others rely upon.
LEMMA AroundTop ==
  ASSUME NEW bs \in Seq(Blocks), NEW cs \in Seq(Blocks), NEW fs \in Seq(Frames), NEW gs,
         NEW lv, NEW lw, Tracked(bs, fs, lv), Len(cs) >= Len(bs),
         NEW n \in Nat, NEW m, m = n + 1, NEW p \in Nat, Len(fs) = m,
         Same(gs, fs, n),
         p = fs[m].pred, fs[m].kind \in {"then", "else"},
         Same(cs, bs, p - 1),
         NEW i \in 1..n, Inside(gs, lw, i) => Inside(fs, lv, i)
  PROVE  Ordered(cs, gs, i) /\ Pending(cs, gs, i) /\ Branches(gs, lw, i)
<1>. USE DEF Same
<1>1. fs[m] \in Frames /\ Before(fs[m]) = fs[m].pred /\ i \in 1..Len(fs)
  BY ElementOfSeq DEF Before
<1>2. ASSUME fs[i].kind # "class", NEW x \in 1..Before(fs[i])
      PROVE  cs[x] = bs[x]
  <2>1. m \in i + 1..Len(fs) /\ fs[m].kind # "class"
    OBVIOUS
  <2>2. /\ fs[i].block <= fs[m].pred /\ fs[i].block \in Nat
        /\ Before(fs[i]) < fs[i].block /\ Before(fs[i]) \in Int
    BY <1>1, <1>2, <2>1, OuterBefore
  <2>3. fs[m].pred \in Nat
    BY <1>1 DEF Frames
  <2>4. x \in 1..fs[m].pred - 1
    BY <2>2, <2>3
  <2>. QED
    BY <2>4
<1>3. \A j \in 1..i : gs[j] = fs[j]
  OBVIOUS
<1>. QED
  BY <1>1, <1>2, <1>3, OuterKept

\* The end of an if: control that got to it may stay in what is before it and
\* the block behind it.
LEMMA EndIfTracked ==
  ASSUME NEW bs \in Seq(Blocks), NEW cs \in Seq(Blocks), NEW fs \in Seq(Frames),
         NEW gs \in Seq(Frames), NEW lv, NEW lw, Tracked(bs, fs, lv), Joined(bs, cs),
         ~cs[Len(cs)].returns,
         NEW n \in Nat, NEW m, m = n + 1, NEW p \in Nat, Len(fs) = m, Len(gs) = n,
         Same(gs, fs, n),
         p = fs[m].pred, fs[m].kind \in {"then", "else"},
         Same(cs, bs, p - 1),
         p \in 1..Len(bs) => Len(cs) \in cs[p].succs,
         lw => lv \/ fs[m].live \/ fs[m].thenLive
  PROVE  Tracked(cs, gs, lw)
<1>. USE DEF Same
<1>1. /\ Len(bs) \in Nat /\ Len(cs) = Len(bs) + 1
      /\ DOMAIN bs = 1..Len(bs) /\ DOMAIN cs = 1..Len(cs)
  BY LenProperties DEF Joined
<1>2. Pending(bs, fs, m) /\ Branches(fs, lv, m)
  BY DEF Tracked
<1>3. lw => fs[m].live
  BY <1>2 DEF Branches, Inside
<1>4. ASSUME NEW i \in 1..n
      PROVE  Ordered(cs, gs, i) /\ Pending(cs, gs, i) /\ Branches(gs, lw, i)
  <2>1. Inside(gs, lw, i) => Inside(fs, lv, i)
    BY <1>3 DEF Inside
  <2>2. Len(cs) >= Len(bs)
    BY <1>1
  <2>. QED
    BY <2>1, <2>2, AroundTop
<1>5. LiveNow(cs, gs, lw)
  <2>1. ASSUME lw
        PROVE  \E S \in SUBSET DOMAIN cs : Escapes(cs, S, 0) /\ Current(gs, n) \subseteq S
    <3>1. m - 1 = n /\ Current(gs, n) = Current(fs, n)
      BY CurrentKept
    <3>2. PICK S \in SUBSET (1..Before(fs[m])) :
            Escapes(bs, S, fs[m].pred) /\ Current(fs, n) \subseteq S
      BY <1>2, <1>3, <2>1, <3>1 DEF Pending
    <3>3. fs[m].pred \in S => Len(cs) \in cs[fs[m].pred].succs
      BY <1>1, <3>2 DEF Escapes
    <3>4. Escapes(cs, S \cup {Len(cs)}, 0)
      BY <3>2, <3>3, EscapesJoined
    <3>5. S \cup {Len(cs)} \in SUBSET DOMAIN cs
      BY <3>4 DEF Escapes
    <3>6. Current(gs, n) \subseteq S \cup {Len(cs)}
      BY <3>1, <3>2
    <3>. QED
      BY <3>4, <3>5, <3>6
  <2>. QED
    BY <2>1 DEF LiveNow
<1>. QED
  BY <1>4, <1>5 DEF Tracked

\* The end of an if both of whose branches return.
LEMMA EndReturningTracked ==
  ASSUME NEW bs \in Seq(Blocks), NEW cs \in Seq(Blocks), NEW fs \in Seq(Frames),
         NEW gs \in Seq(Frames), NEW lv, NEW lw, Tracked(bs, fs, lv),
         Len(cs) = Len(bs) + 1, Same(cs, bs, Len(bs)),
         NEW n \in Nat, NEW m, m = n + 1, Len(fs) = m, Len(gs) = n,
         Same(gs, fs, n),
         fs[m].kind = "else", fs[m].rets,
         lw => lv \/ fs[m].thenLive
  PROVE  Tracked(cs, gs, lw)
<1>. USE DEF Same
<1>1. /\ Len(bs) \in Nat /\ DOMAIN bs = 1..Len(bs) /\ DOMAIN cs = 1..Len(cs)
  BY LenProperties
<1>2. Branches(fs, lv, m) /\ fs[m] \in Frames
  BY ElementOfSeq DEF Tracked
<1>3. (lw => lv) /\ (lw => fs[m].live)
  BY <1>2 DEF Branches, Inside
<1>4. fs[m].pred <= Len(bs)
  <2>1. /\ Before(fs[m]) = fs[m].pred
        /\ Before(fs[m]) < fs[m].block /\ fs[m].block <= Len(bs)
    BY OuterBefore DEF Before
  <2>. QED
    BY <1>1, <1>2, <2>1 DEF Frames
<1>5. ASSUME NEW i \in 1..n
      PROVE  Ordered(cs, gs, i) /\ Pending(cs, gs, i) /\ Branches(gs, lw, i)
  <2>1. Inside(gs, lw, i) => Inside(fs, lv, i)
    BY <1>3 DEF Inside
  <2>2. PICK p \in Nat : p = fs[m].pred
    BY <1>2 DEF Frames
  <2>3. \A x \in 1..p - 1 : cs[x] = bs[x]
    BY <1>1, <1>4, <2>2
  <2>4. Len(cs) >= Len(bs) /\ fs[m].kind \in {"then", "else"}
    BY <1>1
  <2>. QED
    BY <2>1, <2>2, <2>3, <2>4, AroundTop
<1>6. LiveNow(cs, gs, lw)
  <2>1. ASSUME lw
        PROVE  \E S \in SUBSET DOMAIN cs : Escapes(cs, S, 0) /\ Current(gs, n) \subseteq S
    <3>1. fs # <<>>
      BY EmptySeq
    <3>2. PICK S \in SUBSET DOMAIN bs : Escapes(bs, S, 0) /\ Current(fs, m) \subseteq S
      BY <1>3, <2>1, <3>1 DEF Tracked, LiveNow
    <3>3. Current(gs, n) = Current(fs, n)
      BY CurrentKept
    <3>4. Current(fs, n) \subseteq Current(fs, m)
      BY CurrentBranch
    <3>5. S \subseteq DOMAIN cs /\ \A x \in S : cs[x] = bs[x]
      BY <1>1, <3>2
    <3>6. Escapes(cs, S, 0)
      BY <3>2, <3>5, EscapesKept
    <3>. QED
      BY <3>2, <3>3, <3>4, <3>5, <3>6
  <2>. QED
    BY <2>1 DEF LiveNow
<1>. QED
  BY <1>5, <1>6 DEF Tracked

\* The other branch of an if.
LEMMA ElseTracked ==
  ASSUME NEW bs \in Seq(Blocks), NEW cs \in Seq(Blocks), NEW fs \in Seq(Frames),
         NEW gs \in Seq(Frames), NEW lv, Tracked(bs, fs, lv), Joined(bs, cs),
         ~cs[Len(cs)].returns,
         NEW n \in Nat, NEW m, m = n + 1, NEW p \in Nat, Len(fs) = m, Len(gs) = m,
         Same(gs, fs, n),
         p = fs[m].pred, fs[m].kind = "then",
         SameBut(cs, bs, p),
         p \in 1..Len(bs) => Len(cs) \in cs[p].succs,
         gs[m].kind = "else", gs[m].pred = p,
         gs[m].block = Len(cs), gs[m].then = fs[m].block,
         gs[m].live = fs[m].live, gs[m].thenLive = lv, gs[m].rets => ~lv
  PROVE  Tracked(cs, gs, fs[m].live)
<1>. USE DEF Same
<1>1. /\ Len(bs) \in Nat /\ Len(cs) = Len(bs) + 1
      /\ DOMAIN bs = 1..Len(bs) /\ DOMAIN cs = 1..Len(cs)
  BY LenProperties DEF Joined
<1>2. Pending(bs, fs, m) /\ Branches(fs, lv, m) /\ Ordered(bs, fs, m)
  BY DEF Tracked
<1>3. /\ fs[m] \in Frames /\ fs[m].pred \in Nat /\ fs[m].block \in Nat
      /\ Before(fs[m]) = fs[m].pred /\ Before(gs[m]) = fs[m].pred
  <2>1. m \in 1..Len(fs)
    OBVIOUS
  <2>2. fs[m] \in Frames
    BY <2>1, ElementOfSeq
  <2>. QED
    BY <2>2 DEF Before, Frames
<1>4. fs[m].pred < fs[m].block /\ fs[m].block <= Len(bs)
  BY <1>2, <1>3 DEF Ordered
<1>5. ASSUME NEW i \in 1..n
      PROVE  /\ Ordered(cs, gs, i) /\ Pending(cs, gs, i)
             /\ Branches(gs, fs[m].live, i)
  <2>1. Inside(gs, fs[m].live, i) => Inside(fs, lv, i)
    <3>1. i # Len(fs) /\ i # Len(gs)
      OBVIOUS
    <3>2. gs[i + 1].live = fs[i + 1].live
      BY <3>1
    <3>. QED
      BY <3>1, <3>2 DEF Inside
  <2>2. Len(cs) >= Len(bs) /\ Same(cs, bs, p - 1)
    BY <1>1, <1>3, <1>4 DEF SameBut
  <2>3. fs[m].kind \in {"then", "else"}
    OBVIOUS
  <2>. HIDE DEF Same
  <2>. QED
    BY <2>1, <2>2, <2>3, AroundTop
<1>6. Ordered(cs, gs, m)
  <2>1. \A j \in 1..n : fs[j].kind # "class" => fs[j].block <= fs[m].pred
    BY <1>2, <1>3 DEF Ordered
  <2>. QED
    BY <1>1, <1>3, <1>4, <2>1 DEF Ordered
<1>7. /\ m - 1 = n /\ Current(gs, n) = Current(fs, n)
      /\ Current(gs, m) = Current(fs, n) \cup {Len(cs)}
  <2>1. Current(gs, n) = Current(fs, n)
    BY CurrentKept
  <2>2. n \in Nat /\ m = n + 1 /\ gs[m].kind = "else"
    OBVIOUS
  <2>3. Current(gs, m) = Current(gs, n) \cup {gs[m].block}
    BY ONLY <2>2, CurrentBranch
  <2>. QED
    BY ONLY <2>1, <2>2, <2>3, gs[m].block = Len(cs)
<1>8. Pending(cs, gs, m)
  <2>1. ASSUME NEW S \in SUBSET (1..fs[m].pred), Escapes(bs, S, fs[m].pred)
        PROVE  Escapes(cs, S, fs[m].pred)
    <3>1. S \subseteq DOMAIN cs /\ \A x \in S : x \in 1..Len(bs)
      BY <1>1, <2>1 DEF Escapes
    <3>2. \A x \in S : ~cs[x].returns
      BY <2>1, <3>1 DEF Escapes, Joined
    <3>3. \A x \in S : x # fs[m].pred => cs[x] = bs[x]
      BY <3>1 DEF SameBut
    <3>. QED
      BY <2>1, <3>1, <3>2, <3>3 DEF Escapes
  <2>. QED
    BY <1>2, <1>3, <1>7, <2>1 DEF Pending
<1>9. Branches(gs, fs[m].live, m)
  BY <1>2 DEF Branches, Inside
<1>10. LiveNow(cs, gs, fs[m].live)
  <2>1. ASSUME fs[m].live
        PROVE  \E S \in SUBSET DOMAIN cs : Escapes(cs, S, 0) /\ Current(gs, m) \subseteq S
    <3>1. PICK S \in SUBSET (1..Before(fs[m])) :
            Escapes(bs, S, fs[m].pred) /\ Current(fs, n) \subseteq S
      BY <1>2, <1>7, <2>1 DEF Pending
    <3>2. fs[m].pred \in S => Len(cs) \in cs[fs[m].pred].succs
      BY <1>1, <3>1 DEF Escapes
    <3>3. Escapes(cs, S \cup {Len(cs)}, 0)
      BY <3>1, <3>2, EscapesJoined
    <3>4. S \cup {Len(cs)} \in SUBSET DOMAIN cs
      BY <3>3 DEF Escapes
    <3>5. Current(gs, m) \subseteq S \cup {Len(cs)}
      BY <1>7, <3>1
    <3>. QED
      BY <3>3, <3>4, <3>5
  <2>. QED
    BY <2>1 DEF LiveNow
<1>11. \A i \in 1..m : i \in 1..n \/ i = m
  OBVIOUS
<1>. QED
  BY <1>5, <1>6, <1>8, <1>9, <1>10, <1>11 DEF Tracked

-----------------------------------------------------------------------------
(* What the actions do to the blocks.                                         *)

LEMMA FunctionIsSeq ==
  ASSUME NEW S, NEW n \in Nat, NEW f \in [1..n -> S]
  PROVE  f \in Seq(S) /\ Len(f) = n
<1>1. f \in Seq(S)
  BY SeqDef
<1>2. DOMAIN f = 1..Len(f) /\ Len(f) \in Nat /\ DOMAIN f = 1..n
  BY <1>1, LenProperties
<1>. QED
  BY <1>1, <1>2

LEMMA BlockAdded ==
  ASSUME NEW bs \in Seq(Blocks), NEW cs, cs = Append(bs, NewBlock)
  PROVE  /\ Joined(bs, cs) /\ ~cs[Len(cs)].returns
         /\ \A x \in 1..Len(bs) : cs[x] = bs[x]
<1>1. NewBlock \in Blocks /\ NewBlock.succs = {} /\ ~NewBlock.returns
  BY DEF NewBlock, Blocks
<1>2. /\ Len(bs) \in Nat /\ cs \in Seq(Blocks)
      /\ Len(cs) = Len(bs) + 1 /\ cs[Len(bs) + 1] = NewBlock
      /\ \A i \in 1..Len(bs) : cs[i] = bs[i]
  BY <1>1, PushedOn
<1>. QED
  BY <1>1, <1>2 DEF Joined

LEMMA SuccessorAdded ==
  ASSUME NEW bs \in Seq(Blocks), NEW ds, Joined(bs, ds), ~ds[Len(ds)].returns,
         NEW p \in Nat, p <= Len(bs), NEW m, m = Len(bs) + 1,
         NEW cs, cs = AddSuccessor(ds, p, m)
  PROVE  /\ Joined(bs, cs) /\ ~cs[Len(cs)].returns
         /\ \A x \in 1..Len(bs) : x # p => cs[x] = ds[x]
         /\ p \in 1..Len(bs) => Len(cs) \in cs[p].succs
         /\ \A x \in 1..Len(bs) : ds[x].succs \subseteq cs[x].succs
<1>1. /\ bs \in Seq(Blocks) /\ ds \in Seq(Blocks)
      /\ Len(bs) \in Nat /\ Len(ds) = Len(bs) + 1
      /\ DOMAIN ds = 1..Len(bs) + 1
  BY LenProperties DEF Joined
<1>2. /\ DOMAIN cs = 1..Len(bs) + 1
      /\ \A x \in 1..Len(bs) + 1 : x # p => cs[x] = ds[x]
      /\ p \in 1..Len(bs) => cs[p] = [ds[p] EXCEPT !.succs = @ \cup {Len(bs) + 1}]
  <2>1. cs = [ds EXCEPT ![p].succs = @ \cup {Len(bs) + 1}]
    BY DEF AddSuccessor
  <2>2. DOMAIN cs = DOMAIN ds
    BY <2>1
  <2>3. \A x \in DOMAIN ds : x # p => cs[x] = ds[x]
    BY <2>1
  <2>4. p \in DOMAIN ds => cs[p] = [ds[p] EXCEPT !.succs = @ \cup {Len(bs) + 1}]
    BY <2>1
  <2>. QED
    BY <1>1, <2>2, <2>3, <2>4
<1>3. \A x \in 1..Len(bs) + 1 : ds[x] \in Blocks
  BY <1>1, ElementOfSeq
<1>4. p \in 1..Len(bs) =>
        /\ cs[p] \in Blocks /\ cs[p].returns = ds[p].returns
        /\ cs[p].succs = ds[p].succs \cup {Len(bs) + 1}
  BY <1>1, <1>2, <1>3 DEF Blocks
<1>5. ASSUME NEW x \in 1..Len(bs) + 1
      PROVE  cs[x] \in Blocks
  BY <1>1, <1>2, <1>3, <1>4
<1>6. cs \in Seq(Blocks) /\ Len(cs) = Len(bs) + 1
  <2>1. cs = [x \in 1..Len(bs) + 1 |-> cs[x]]
    BY <1>2 DEF AddSuccessor
  <2>2. cs \in [1..Len(bs) + 1 -> Blocks] /\ Len(bs) + 1 \in Nat
    BY <1>1, <1>5, <2>1
  <2>. QED
    BY <2>2, FunctionIsSeq
<1>7. cs[Len(bs) + 1] = ds[Len(bs) + 1]
  BY <1>1, <1>2
<1>8. ASSUME NEW x \in 1..Len(bs)
      PROVE  /\ cs[x].returns = bs[x].returns
             /\ \/ cs[x].succs = bs[x].succs
                \/ cs[x].succs = bs[x].succs \cup {Len(cs)}
             /\ ds[x].succs \subseteq cs[x].succs
  <2>1. /\ ds[x].returns = bs[x].returns
        /\ \/ ds[x].succs = bs[x].succs
           \/ ds[x].succs = bs[x].succs \cup {Len(bs) + 1}
    BY <1>1 DEF Joined
  <2>2. CASE x = p
    BY <1>4, <1>6, <2>1, <2>2
  <2>3. CASE x # p
    BY <1>1, <1>2, <1>6, <2>1, <2>3
  <2>. QED
    BY <2>2, <2>3
<1>9. Joined(bs, cs)
  BY <1>1, <1>6, <1>7, <1>8 DEF Joined
<1>. QED
  BY <1>1, <1>2, <1>4, <1>6, <1>7, <1>8, <1>9

LEMMA OneSuccessorAdded ==
  ASSUME NEW bs \in Seq(Blocks), NEW p \in Nat, p <= Len(bs), NEW m, m = Len(bs) + 1,
         NEW cs, cs = AddSuccessor(Append(bs, NewBlock), p, m)
  PROVE  /\ Joined(bs, cs) /\ ~cs[Len(cs)].returns
         /\ \A x \in 1..Len(bs) : x # p => cs[x] = bs[x]
         /\ p \in 1..Len(bs) => Len(cs) \in cs[p].succs
<1>1. PICK ds : ds = Append(bs, NewBlock)
  OBVIOUS
<1>2. Joined(bs, ds) /\ ~ds[Len(ds)].returns /\ \A x \in 1..Len(bs) : ds[x] = bs[x]
  BY <1>1, BlockAdded
<1>3. cs = AddSuccessor(ds, p, m)
  BY <1>1
<1>4. Joined(bs, cs) /\ ~cs[Len(cs)].returns
  BY <1>2, <1>3, SuccessorAdded
<1>5. \A x \in 1..Len(bs) : x # p => cs[x] = ds[x]
  BY <1>2, <1>3, SuccessorAdded
<1>6. p \in 1..Len(bs) => Len(cs) \in cs[p].succs
  BY <1>2, <1>3, SuccessorAdded
<1>. QED
  BY <1>2, <1>4, <1>5, <1>6

LEMMA TwoSuccessorsAdded ==
  ASSUME NEW bs \in Seq(Blocks), NEW p \in Nat, p <= Len(bs), NEW q \in Nat, q <= Len(bs),
         NEW m, m = Len(bs) + 1,
         NEW cs, cs = AddSuccessor(AddSuccessor(Append(bs, NewBlock), p, m), q, m)
  PROVE  /\ Joined(bs, cs) /\ ~cs[Len(cs)].returns
         /\ \A x \in 1..Len(bs) : x # p /\ x # q => cs[x] = bs[x]
         /\ \A x \in 1..Len(bs) : x = p \/ x = q => Len(cs) \in cs[x].succs
<1>1. PICK ds : ds = AddSuccessor(Append(bs, NewBlock), p, m)
  OBVIOUS
<1>2. /\ Joined(bs, ds) /\ ~ds[Len(ds)].returns
      /\ \A x \in 1..Len(bs) : x # p => ds[x] = bs[x]
      /\ p \in 1..Len(bs) => Len(ds) \in ds[p].succs
  BY <1>1, OneSuccessorAdded
<1>3. cs = AddSuccessor(ds, q, m)
  BY <1>1
<1>4. Joined(bs, cs) /\ ~cs[Len(cs)].returns
  BY <1>2, <1>3, SuccessorAdded, SMTT(40)
<1>5. /\ \A x \in 1..Len(bs) : x # q => cs[x] = ds[x]
      /\ q \in 1..Len(bs) => cs[q] = [ds[q] EXCEPT !.succs = @ \cup {m}]
  <2>1. DOMAIN ds = 1..Len(bs) + 1 /\ Len(bs) \in Nat
    BY <1>2, LenProperties DEF Joined
  <2>2. cs = [ds EXCEPT ![q].succs = @ \cup {m}]
    BY <1>3 DEF AddSuccessor
  <2>3. \A x \in DOMAIN ds : x # q => cs[x] = ds[x]
    BY <2>2
  <2>4. q \in DOMAIN ds => cs[q] = [ds[q] EXCEPT !.succs = @ \cup {m}]
    BY <2>2
  <2>. QED
    BY <2>1, <2>3, <2>4
<1>6. ASSUME NEW x \in 1..Len(bs)
      PROVE  ds[x].succs \subseteq cs[x].succs
  <2>1. ds[x] \in Blocks
    BY <1>2, ElementOfSeq DEF Joined
  <2>. QED
    BY <1>5, <2>1 DEF Blocks
<1>7. Len(cs) = Len(ds)
  BY <1>2, <1>4 DEF Joined
<1>8. q \in 1..Len(bs) => Len(cs) \in cs[q].succs
  BY <1>2, <1>3, SuccessorAdded
<1>. QED
  BY <1>2, <1>4, <1>5, <1>6, <1>7, <1>8

\* The block behind an if: every block in joins leads to it.
Leading(bs, joins) ==
  [b \in DOMAIN bs |-> IF b \in joins THEN [bs[b] EXCEPT !.succs = @ \cup {Len(bs) + 1}]
                       ELSE bs[b]]

LEMMA BranchesJoined ==
  ASSUME NEW bs \in Seq(Blocks), NEW joins, NEW cs,
         cs = Append(Leading(bs, joins), NewBlock)
  PROVE  /\ Joined(bs, cs) /\ ~cs[Len(cs)].returns
         /\ SameOutside(cs, bs, joins)
         /\ \A x \in 1..Len(bs) : x \in joins => Len(cs) \in cs[x].succs
<1>1. Len(bs) \in Nat /\ DOMAIN bs = 1..Len(bs)
  BY LenProperties
<1>. PICK ds : ds = Leading(bs, joins)
  OBVIOUS
<1>. USE DEF Leading
<1>2. \A x \in 1..Len(bs) : bs[x] \in Blocks
  BY ElementOfSeq
<1>3. ASSUME NEW x \in 1..Len(bs)
      PROVE  /\ ds[x] \in Blocks /\ ds[x].returns = bs[x].returns
             /\ x \notin joins => ds[x] = bs[x]
             /\ x \in joins => ds[x].succs = bs[x].succs \cup {Len(bs) + 1}
  <2>1. CASE x \in joins
    <3>1. ds[x] = [bs[x] EXCEPT !.succs = @ \cup {Len(bs) + 1}]
      BY <1>1, <2>1
    <3>. QED
      BY <1>1, <1>2, <2>1, <3>1 DEF Blocks
  <2>2. CASE x \notin joins
    BY <1>1, <1>2, <2>2
  <2>. QED
    BY <2>1, <2>2
<1>4. ds \in [1..Len(bs) -> Blocks]
  BY <1>1, <1>3
<1>5. ds \in Seq(Blocks) /\ Len(ds) = Len(bs)
  BY <1>1, <1>4, FunctionIsSeq
<1>6. /\ Joined(ds, cs) /\ ~cs[Len(cs)].returns
      /\ \A x \in 1..Len(ds) : cs[x] = ds[x]
  <2>1. ds \in Seq(Blocks) /\ cs = Append(ds, NewBlock)
    BY <1>5
  <2>. QED
    BY <2>1, BlockAdded
<1>7. cs \in Seq(Blocks) /\ Len(cs) = Len(bs) + 1 /\ cs[Len(cs)].succs = {}
  BY <1>5, <1>6 DEF Joined
<1>. QED
  <2>1. ASSUME NEW x \in 1..Len(bs)
        PROVE  /\ cs[x].returns = bs[x].returns
               /\ cs[x].succs = bs[x].succs \/ cs[x].succs = bs[x].succs \cup {Len(cs)}
               /\ x \notin joins => cs[x] = bs[x]
               /\ x \in joins => Len(cs) \in cs[x].succs
    <3>1. cs[x] = ds[x]
      BY <1>5, <1>6
    <3>. QED
      BY <1>3, <1>7, <3>1
  <2>2. Joined(bs, cs)
    BY <1>7, <2>1 DEF Joined
  <2>3. SameOutside(cs, bs, joins)
    BY <2>1 DEF SameOutside
  <2>. QED
    BY <1>6, <2>1, <2>2, <2>3

-----------------------------------------------------------------------------
(* The actions.                                                               *)

\* The innermost statement, and what is left when it ends.
LEMMA Innermost ==
  ASSUME frames \in Seq(Frames), frames # <<>>
  PROVE  \E n \in Nat :
           /\ Len(frames) = n + 1 /\ Top = frames[n + 1] /\ Top \in Frames
           /\ Front(frames) \in Seq(Frames) /\ Len(Front(frames)) = n
           /\ \A j \in 1..n : Front(frames)[j] = frames[j]
<1>1. PICK n \in Nat : Len(frames) = n + 1
  <2>1. Len(frames) \in Nat \ {0}
    BY PoppedOff
  <2>. QED
    BY <2>1
<1>2. n = Len(frames) - 1
  BY <1>1
<1>3. /\ Front(frames) \in Seq(Frames) /\ Top \in Frames /\ Top = frames[Len(frames)]
      /\ Len(Front(frames)) = Len(frames) - 1
      /\ \A j \in 1..Len(frames) - 1 : Front(frames)[j] = frames[j]
  BY PoppedOff DEF Top
<1>. QED
  BY <1>1, <1>2, <1>3

\* A statement more.
LEMMA FramePushed ==
  ASSUME frames \in Seq(Frames), live \in BOOLEAN,
         NEW kind \in {"func", "class", "then", "else"}, NEW pred \in Nat, NEW block \in Nat,
         NEW fn \in Functions, NEW gs, gs = Append(frames, Frame(kind, pred, block, fn))
  PROVE  /\ gs \in Seq(Frames) /\ Len(frames) \in Nat /\ Len(gs) = Len(frames) + 1
         /\ \A j \in 1..Len(frames) : gs[j] = frames[j]
         /\ gs[Len(frames) + 1] = Frame(kind, pred, block, fn)
<1>1. Frame(kind, pred, block, fn) \in Frames
  BY DEF Frame, Frames
<1>. QED
  BY <1>1, PushedOn

LEMMA GraphGrown ==
  ASSUME NEW g, g \in Seq(Nat), NEW m \in Nat
  PROVE  Append(g, m) \in Seq(Nat) /\ Append(g, m) # <<>> /\ Last(Append(g, m)) = m
<1>1. /\ Append(g, m) \in Seq(Nat) /\ Len(g) \in Nat
      /\ Len(Append(g, m)) = Len(g) + 1 /\ Append(g, m)[Len(g) + 1] = m
  BY PushedOn
<1>2. Append(g, m) # <<>>
  BY <1>1, EmptySeq
<1>. QED
  BY <1>1, <1>2 DEF Last

\* While control gets here, the block that the walk is in is none that returns,
\* and neither is that of a statement around it.
LEMMA LiveNotReturning ==
  ASSUME IInv, frames # <<>>, Top.kind # "class", live
  PROVE  ~Returns(Top.block)
<1>1. frames \in Seq(Frames) /\ blocks \in Seq(Blocks) /\ Tracked(blocks, frames, live)
  BY DEF IInv, Shapes
<1>2. PICK n \in Nat : Len(frames) = n + 1 /\ Top = frames[n + 1]
  BY <1>1, Innermost
<1>3. PICK S \in SUBSET DOMAIN blocks :
        Escapes(blocks, S, 0) /\ Current(frames, Len(frames)) \subseteq S
  BY <1>1 DEF Tracked, LiveNow
<1>4. Top.block \in Current(frames, Len(frames))
  <2>1. Around(frames, n + 1, n + 1)
    BY <1>2 DEF Around
  <2>. QED
    BY <1>2, <2>1 DEF Current
<1>. QED
  BY <1>1, <1>3, <1>4, NotReturns

LEMMA FunctionEntered ==
  ASSUME frames \in Seq(Frames), live \in BOOLEAN, NEW f \in Functions,
         NEW bs \in Seq(Blocks), Tracked(bs, frames, live), EnterFunction(f, bs)
  PROVE  /\ blocks' \in Seq(Blocks) /\ frames' \in Seq(Frames) /\ live' \in BOOLEAN
         /\ graph' \in Seq(Nat) /\ graph' # <<>> /\ Last(graph') = Len(blocks')
         /\ Tracked(blocks', frames', live')
<1>1. /\ Joined(bs, blocks') /\ ~blocks'[Len(blocks')].returns
      /\ \A x \in 1..Len(bs) : blocks'[x] = bs[x]
  BY BlockAdded DEF EnterFunction
<1>2. blocks' \in Seq(Blocks) /\ Len(blocks') \in Nat
  BY <1>1, LenProperties DEF Joined
<1>3. frames' = Append(frames, Frame("func", 0, Len(blocks'), f)) /\ live' = TRUE
  BY DEF EnterFunction
<1>4. PICK n \in Nat : n = Len(frames)
  BY LenProperties
<1>5. /\ frames' \in Seq(Frames) /\ Len(frames') = n + 1
      /\ \A j \in 1..n : frames'[j] = frames[j]
      /\ frames'[n + 1].kind = "func" /\ frames'[n + 1].pred = 0
      /\ frames'[n + 1].block = Len(blocks') /\ frames'[n + 1].live = live
  <2>1. PICK m \in Nat : m = Len(blocks')
    BY <1>2
  <2>2. frames' = Append(frames, Frame("func", 0, m, f))
    BY <1>3, <2>1
  <2>3. /\ frames' \in Seq(Frames) /\ Len(frames') = Len(frames) + 1
        /\ \A j \in 1..Len(frames) : frames'[j] = frames[j]
        /\ frames'[Len(frames) + 1] = Frame("func", 0, m, f)
    BY <2>2, FramePushed
  <2>. QED
    BY <1>4, <2>1, <2>3 DEF Frame
<1>6. Tracked(blocks', frames', TRUE)
  BY <1>1, <1>2, <1>4, <1>5, FunctionTracked
<1>7. graph' = <<Len(blocks')>>
  BY DEF EnterFunction
<1>8. graph' \in Seq(Nat) /\ graph' # <<>> /\ Last(graph') = Len(blocks')
  BY <1>2, <1>7 DEF Last
<1>. QED
  BY <1>2, <1>3, <1>5, <1>6, <1>8

LEMMA AnalyzeFunctionKeeps == ASSUME IInv, AnalyzeFunction PROVE IInv'
<1>1. funcs # <<>> /\ funcs \in Seq(Functions)
  BY DEF AnalyzeFunction, IInv, Shapes
<1>2. Head(funcs) \in Functions /\ funcs' \in Seq(Functions)
  BY <1>1, HeadTailProperties DEF AnalyzeFunction
<1>3. Tracked(<<>>, frames, live)
  <2>1. Len(frames) = 0
    BY DEF AnalyzeFunction
  <2>. QED
    BY <2>1 DEF Tracked, LiveNow, AnalyzeFunction
<1>4. <<>> \in Seq(Blocks)
  OBVIOUS
<1>5. /\ blocks' \in Seq(Blocks) /\ frames' \in Seq(Frames) /\ live' \in BOOLEAN
      /\ graph' \in Seq(Nat) /\ graph' # <<>> /\ Last(graph') = Len(blocks')
      /\ Tracked(blocks', frames', live')
  BY <1>2, <1>3, <1>4, FunctionEntered DEF AnalyzeFunction, IInv, Shapes
<1>6. NoReturnlessAccepted'
  BY DEF AnalyzeFunction, NothingSaid, NoReturnlessAccepted
<1>. QED
  BY <1>2, <1>5, <1>6 DEF IInv, Shapes

LEMMA NestedFunctionKeeps ==
  ASSUME IInv, NEW f \in Functions, NestedFunction(f) PROVE IInv'
<1>1. /\ blocks' \in Seq(Blocks) /\ frames' \in Seq(Frames) /\ live' \in BOOLEAN
      /\ graph' \in Seq(Nat) /\ graph' # <<>> /\ Last(graph') = Len(blocks')
      /\ Tracked(blocks', frames', live')
  BY FunctionEntered DEF NestedFunction, IInv, Shapes
<1>2. NoReturnlessAccepted'
  BY DEF NestedFunction, IInv, NoReturnlessAccepted
<1>. QED
  BY <1>1, <1>2 DEF NestedFunction, IInv, Shapes

LEMMA NestedClassKeeps == ASSUME IInv, NestedClass PROVE IInv'
<1>1. /\ frames \in Seq(Frames) /\ frames # <<>> /\ live \in BOOLEAN
      /\ blocks \in Seq(Blocks) /\ Tracked(blocks, frames, live)
  BY DEF NestedClass, InBody, IInv, Shapes
<1>2. frames' = Append(frames, Frame("class", 0, 0, NoFn)) /\ NoFn \in Functions
  BY DEF NestedClass, NoFn, Functions
<1>3. PICK n \in Nat \ {0} : n = Len(frames)
  BY <1>1, EmptySeq
<1>4. /\ frames' \in Seq(Frames) /\ Len(frames') = n + 1
      /\ \A j \in 1..n : frames'[j] = frames[j]
      /\ frames'[n + 1].kind = "class" /\ frames'[n + 1].live = live
      /\ frames'[n + 1].thenLive = FALSE
  <2>1. /\ frames' \in Seq(Frames) /\ Len(frames') = Len(frames) + 1
        /\ \A j \in 1..Len(frames) : frames'[j] = frames[j]
        /\ frames'[Len(frames) + 1] = Frame("class", 0, 0, NoFn)
    BY <1>1, <1>2, FramePushed
  <2>. QED
    BY <1>3, <2>1 DEF Frame
<1>5. Tracked(blocks, frames', live)
  BY <1>1, <1>3, <1>4, ClassTracked
<1>. QED
  BY <1>1, <1>4, <1>5 DEF NestedClass, IInv, Shapes, NoReturnlessAccepted

LEMMA LeaveClassKeeps == ASSUME IInv, LeaveClass PROVE IInv'
<1>1. /\ frames \in Seq(Frames) /\ frames # <<>> /\ blocks \in Seq(Blocks)
      /\ Tracked(blocks, frames, live)
  BY DEF LeaveClass, IInv, Shapes
<1>2. PICK n \in Nat :
        /\ Len(frames) = n + 1 /\ Top = frames[n + 1]
        /\ Front(frames) \in Seq(Frames) /\ Len(Front(frames)) = n
        /\ \A j \in 1..n : Front(frames)[j] = frames[j]
  BY <1>1, Innermost
<1>3. frames[n + 1].kind = "class"
  BY <1>2 DEF LeaveClass
<1>4. Tracked(blocks, Front(frames), live)
  BY <1>1, <1>2, <1>3, LeaveTracked
<1>. QED
  BY <1>1, <1>2, <1>4 DEF LeaveClass, IInv, Shapes, NoReturnlessAccepted

LEMMA LeaveFunctionKeeps == ASSUME IInv, LeaveFunction PROVE IInv'
<1>1. /\ frames \in Seq(Frames) /\ frames # <<>> /\ blocks \in Seq(Blocks)
      /\ Tracked(blocks, frames, live)
  BY DEF LeaveFunction, InBody, IInv, Shapes
<1>2. PICK n \in Nat :
        /\ Len(frames) = n + 1 /\ Top = frames[n + 1] /\ Top \in Frames
        /\ Front(frames) \in Seq(Frames) /\ Len(Front(frames)) = n
        /\ \A j \in 1..n : Front(frames)[j] = frames[j]
  BY <1>1, Innermost
<1>3. frames[n + 1].kind = "func" /\ live' = frames[n + 1].live
  BY <1>2 DEF LeaveFunction
<1>4. Tracked(blocks, Front(frames), live')
  BY <1>1, <1>2, <1>3, LeaveTracked
<1>5. NoReturnlessAccepted'
  <2>1. Returns(Top.block) => ~live
    BY <1>1, LiveNotReturning DEF LeaveFunction, InBody
  <2>. QED
    BY <2>1 DEF LeaveFunction, Report, IInv, NoReturnlessAccepted
<1>6. live' \in BOOLEAN
  BY <1>2, <1>3 DEF Frames
<1>. QED
  BY <1>1, <1>2, <1>4, <1>5, <1>6 DEF LeaveFunction, IInv, Shapes

LEMMA ReturnStmtKeeps == ASSUME IInv, ReturnStmt PROVE IInv'
<1>1. /\ frames \in Seq(Frames) /\ frames # <<>> /\ blocks \in Seq(Blocks)
      /\ Tracked(blocks, frames, live) /\ Last(graph) = Len(blocks)
  BY DEF ReturnStmt, InBody, IInv, Shapes
<1>2. Len(blocks) \in Nat /\ DOMAIN blocks = 1..Len(blocks)
  BY <1>1, LenProperties
<1>3. blocks' = [blocks EXCEPT ![Len(blocks)].returns = TRUE]
  BY <1>1 DEF ReturnStmt
<1>4. /\ DOMAIN blocks' = 1..Len(blocks)
      /\ \A x \in 1..Len(blocks) - 1 : blocks'[x] = blocks[x]
      /\ Len(blocks) \in 1..Len(blocks) =>
           blocks'[Len(blocks)] = [blocks[Len(blocks)] EXCEPT !.returns = TRUE]
  <2>1. DOMAIN blocks' = DOMAIN blocks
    BY <1>3
  <2>2. \A x \in DOMAIN blocks : x # Len(blocks) => blocks'[x] = blocks[x]
    BY <1>3
  <2>3. Len(blocks) \in DOMAIN blocks =>
          blocks'[Len(blocks)] = [blocks[Len(blocks)] EXCEPT !.returns = TRUE]
    BY <1>3
  <2>. QED
    BY <1>2, <2>1, <2>2, <2>3
<1>5. \A x \in 1..Len(blocks) : blocks[x] \in Blocks
  BY <1>1, ElementOfSeq
<1>6. ASSUME NEW x \in 1..Len(blocks)
      PROVE  blocks'[x] \in Blocks
  <2>1. CASE x = Len(blocks)
    BY <1>4, <1>5, <2>1 DEF Blocks
  <2>2. CASE x # Len(blocks)
    BY <1>2, <1>4, <1>5, <2>2
  <2>. QED
    BY <2>1, <2>2
<1>7. blocks' \in Seq(Blocks) /\ Len(blocks') = Len(blocks)
  <2>1. blocks' = [x \in 1..Len(blocks) |-> blocks'[x]]
    BY <1>3, <1>4
  <2>2. blocks' \in [1..Len(blocks) -> Blocks]
    BY <1>6, <2>1
  <2>. QED
    BY <1>2, <2>2, FunctionIsSeq
<1>8. Tracked(blocks', frames, FALSE)
  BY <1>1, <1>4, <1>7, ReturnTracked
<1>9. NoReturnlessAccepted'
  BY DEF ReturnStmt, Report, NoReturnlessAccepted
<1>. QED
  BY <1>1, <1>7, <1>8, <1>9 DEF ReturnStmt, IInv, Shapes
LEMMA EnterThenKeeps == ASSUME IInv, EnterThen PROVE IInv'
<1>1. /\ frames \in Seq(Frames) /\ frames # <<>> /\ blocks \in Seq(Blocks)
      /\ live \in BOOLEAN /\ live' = live
      /\ Tracked(blocks, frames, live) /\ Last(graph) = Len(blocks) /\ graph \in Seq(Nat)
  BY DEF EnterThen, InBody, IInv, Shapes
<1>2. PICK l \in Nat : l = Len(blocks)
  BY <1>1, LenProperties
<1>3. PICK n \in Nat : n = Len(frames) /\ n # 0
  BY <1>1, EmptySeq
<1>4. PICK m \in Nat : m = l + 1 /\ m = New
  BY <1>2 DEF New
<1>5. PICK cs : cs = blocks'
  OBVIOUS
<1>6. cs = AddSuccessor(Append(blocks, NewBlock), l, m)
  BY <1>1, <1>2, <1>4, <1>5 DEF EnterThen
<1>7. /\ Joined(blocks, blocks') /\ ~blocks'[Len(blocks')].returns
      /\ \A x \in 1..Len(blocks) : x # l => blocks'[x] = blocks[x]
  <2>1. l <= Len(blocks) /\ m = Len(blocks) + 1
    BY <1>2, <1>4
  <2>. QED
    BY <1>1, <1>5, <1>6, <2>1, OneSuccessorAdded
<1>8. blocks' \in Seq(Blocks) /\ Len(blocks') = l + 1
  BY <1>2, <1>7 DEF Joined
<1>9. \A x \in 1..Len(blocks) - 1 : blocks'[x] = blocks[x]
  BY <1>2, <1>7
<1>10. /\ frames' \in Seq(Frames) /\ Len(frames') = n + 1
       /\ \A j \in 1..n : frames'[j] = frames[j]
       /\ frames'[n + 1].kind = "then" /\ frames'[n + 1].pred = Len(blocks)
       /\ frames'[n + 1].block = Len(blocks') /\ frames'[n + 1].live = live
       /\ frames'[n + 1].thenLive = FALSE
  <2>1. frames' = Append(frames, Frame("then", l, m, NoFn)) /\ NoFn \in Functions
    BY <1>1, <1>2, <1>4 DEF EnterThen, NoFn, Functions
  <2>2. /\ frames' \in Seq(Frames) /\ Len(frames') = Len(frames) + 1
        /\ \A j \in 1..Len(frames) : frames'[j] = frames[j]
        /\ frames'[Len(frames) + 1] = Frame("then", l, m, NoFn)
    BY <1>1, <2>1, FramePushed, SMTT(40)
  <2>. QED
    BY <1>2, <1>3, <1>4, <1>8, <2>2 DEF Frame
<1>11. Tracked(blocks', frames', live)
  BY <1>1, <1>3, <1>7, <1>8, <1>9, <1>10, ThenTracked
<1>12. graph' \in Seq(Nat) /\ graph' # <<>> /\ Last(graph') = Len(blocks')
  <2>1. graph' = Append(graph, m)
    BY <1>4 DEF EnterThen
  <2>. QED
    BY <1>1, <1>4, <1>8, <2>1, GraphGrown
<1>13. NoReturnlessAccepted'
  BY DEF EnterThen, Report, NoReturnlessAccepted
<1>. QED
  BY <1>1, <1>8, <1>10, <1>11, <1>12, <1>13 DEF EnterThen, IInv, Shapes

\* The statement that ends, and what is known of it.
LEMMA Ending ==
  ASSUME IInv, InBody, Top.kind \in {"then", "else"}
  PROVE  /\ Len(blocks) \in Nat /\ blocks \in Seq(Blocks)
         /\ Top.pred \in Nat /\ Top.block \in Nat /\ Top.then \in Nat
         /\ Top.pred < Top.block /\ Top.block <= Len(blocks)
         /\ Top.kind = "else" => Top.pred < Top.then
<1>1. /\ frames \in Seq(Frames) /\ frames # <<>> /\ blocks \in Seq(Blocks)
      /\ Tracked(blocks, frames, live)
  BY DEF InBody, IInv, Shapes
<1>2. PICK n \in Nat : Len(frames) = n + 1 /\ Top = frames[n + 1] /\ Top \in Frames
  BY <1>1, Innermost
<1>3. Ordered(blocks, frames, n + 1)
  BY <1>1, <1>2 DEF Tracked
<1>. QED
  BY <1>1, <1>2, <1>3, LenProperties DEF Ordered, Before, Frames

LEMMA LeaveIfKeeps == ASSUME IInv, LeaveIf PROVE IInv'
<1>1. /\ frames \in Seq(Frames) /\ frames # <<>> /\ blocks \in Seq(Blocks)
      /\ Tracked(blocks, frames, live) /\ graph \in Seq(Nat)
      /\ InBody /\ Top.kind \in {"then", "else"} /\ live' = (live \/ Top.live)
  BY DEF LeaveIf, InBody, IInv, Shapes
<1>2. PICK l \in Nat : l = Len(blocks)
  BY <1>1, LenProperties
<1>3. PICK n \in Nat, i \in Nat :
        /\ i = n + 1 /\ Len(frames) = i /\ Top = frames[i] /\ Top \in Frames
        /\ Front(frames) \in Seq(Frames) /\ Len(Front(frames)) = n
        /\ \A j \in 1..n : Front(frames)[j] = frames[j]
  BY <1>1, Innermost
<1>4. PICK p \in Nat, b \in Nat : p = Top.pred /\ b = Top.block /\ p < b /\ b <= l
  BY <1>1, <1>2, Ending
<1>5. PICK m \in Nat : m = l + 1 /\ m = New
  BY <1>2 DEF New
<1>6. PICK cs : cs = blocks'
  OBVIOUS
<1>7. cs = AddSuccessor(AddSuccessor(Append(blocks, NewBlock), p, m), b, m)
  BY <1>4, <1>5, <1>6 DEF LeaveIf
<1>8. /\ Joined(blocks, cs) /\ ~cs[Len(cs)].returns
      /\ \A x \in 1..Len(blocks) : x # p /\ x # b => cs[x] = blocks[x]
      /\ p \in 1..Len(blocks) => Len(cs) \in cs[p].succs
  <2>1. p <= Len(blocks) /\ b <= Len(blocks) /\ m = Len(blocks) + 1
    BY <1>2, <1>4, <1>5
  <2>2. blocks \in Seq(Blocks)
    BY <1>1
  <2>3. Joined(blocks, cs) /\ ~cs[Len(cs)].returns
    BY <1>7, <2>1, <2>2, TwoSuccessorsAdded
  <2>4. \A x \in 1..Len(blocks) : x # p /\ x # b => cs[x] = blocks[x]
    BY <1>7, <2>1, <2>2, TwoSuccessorsAdded, SMTT(40)
  <2>5. p \in 1..Len(blocks) => Len(cs) \in cs[p].succs
    BY <1>7, <2>1, <2>2, TwoSuccessorsAdded
  <2>. QED
    BY <2>3, <2>4, <2>5
<1>9. cs \in Seq(Blocks) /\ Len(cs) = l + 1
  BY <1>2, <1>8 DEF Joined
<1>10. Tracked(cs, Front(frames), live')
  <2>1. PICK gs \in Seq(Frames), fs \in Seq(Frames), bs \in Seq(Blocks) :
          gs = Front(frames) /\ fs = frames /\ bs = blocks
    BY <1>1, <1>3
  <2>2. PICK lv, lw : lv = live /\ lw = live'
    OBVIOUS
  <2>3. /\ Tracked(bs, fs, lv) /\ Joined(bs, cs) /\ ~cs[Len(cs)].returns
        /\ cs \in Seq(Blocks) /\ n \in Nat /\ i = n + 1
    BY <1>1, <1>3, <1>8, <1>9, <2>1, <2>2
  <2>4. /\ Len(fs) = i /\ p = fs[i].pred /\ fs[i].kind \in {"then", "else"}
        /\ Len(gs) = n /\ Same(gs, fs, n)
    BY <1>1, <1>3, <1>4, <2>1 DEF Same
  <2>5. lw => lv \/ fs[i].live \/ fs[i].thenLive
    BY <1>1, <1>3, <2>1, <2>2
  <2>6. Same(cs, bs, p - 1)
    <3>1. \A x \in 1..p - 1 : x \in 1..Len(blocks) /\ x # p /\ x # b
      BY <1>2, <1>3, <1>4, <2>1
    <3>. QED
      BY <1>8, <2>1, <3>1 DEF Same
  <2>7. p \in 1..Len(bs) => Len(cs) \in cs[p].succs
    BY <1>3, <1>4, <1>8, <2>1
  <2>8. Tracked(cs, gs, lw)
    BY ONLY <2>1, <2>3, <2>4, <2>5, <2>6, <2>7, EndIfTracked
  <2>. QED
    BY <2>1, <2>2, <2>8
<1>11. graph' \in Seq(Nat) /\ graph' # <<>> /\ Last(graph') = Len(blocks')
  <2>1. graph' = Append(graph, m)
    BY <1>5 DEF LeaveIf
  <2>. QED
    BY <1>1, <1>5, <1>6, <1>9, <2>1, GraphGrown
<1>12. live' \in BOOLEAN
  BY <1>1
<1>. QED
  BY <1>1, <1>3, <1>6, <1>9, <1>10, <1>11, <1>12
  DEF LeaveIf, IInv, Shapes, NoReturnlessAccepted
LEMMA EnterElseKeeps == ASSUME IInv, EnterElse PROVE IInv'
<1>1. /\ frames \in Seq(Frames) /\ frames # <<>> /\ blocks \in Seq(Blocks)
      /\ Tracked(blocks, frames, live) /\ live \in BOOLEAN /\ graph \in Seq(Nat)
      /\ InBody /\ Top.kind = "then" /\ live' = Top.live
  BY DEF EnterElse, InBody, IInv, Shapes
<1>2. PICK l \in Nat : l = Len(blocks)
  BY <1>1, LenProperties
<1>3. PICK n \in Nat, i \in Nat :
        /\ i = n + 1 /\ Len(frames) = i /\ Top = frames[i] /\ Top \in Frames
        /\ Front(frames) \in Seq(Frames) /\ Len(Front(frames)) = n
        /\ \A j \in 1..n : Front(frames)[j] = frames[j]
  BY <1>1, Innermost
<1>4. Top.kind \in {"then", "else"}
  BY <1>1
<1>5. PICK p \in Nat : p = Top.pred /\ p <= l
  BY <1>1, <1>2, <1>4, Ending
<1>6. PICK m \in Nat : m = l + 1 /\ m = New
  BY <1>2 DEF New
<1>7. PICK cs : cs = blocks'
  OBVIOUS
<1>8. /\ Joined(blocks, cs) /\ ~cs[Len(cs)].returns
      /\ \A x \in 1..Len(blocks) : x # p => cs[x] = blocks[x]
      /\ p \in 1..Len(blocks) => Len(cs) \in cs[p].succs
  <2>1. p <= Len(blocks) /\ m = Len(blocks) + 1 /\ blocks \in Seq(Blocks)
    BY <1>1, <1>2, <1>5, <1>6
  <2>2. cs = AddSuccessor(Append(blocks, NewBlock), p, m)
    BY <1>5, <1>6, <1>7 DEF EnterElse
  <2>3. Joined(blocks, cs) /\ ~cs[Len(cs)].returns
    BY <2>1, <2>2, OneSuccessorAdded
  <2>4. \A x \in 1..Len(blocks) : x # p => cs[x] = blocks[x]
    BY <2>1, <2>2, OneSuccessorAdded
  <2>5. p \in 1..Len(blocks) => Len(cs) \in cs[p].succs
    BY <2>1, <2>2, OneSuccessorAdded
  <2>. QED
    BY <2>3, <2>4, <2>5
<1>9. cs \in Seq(Blocks) /\ Len(cs) = m
  BY <1>2, <1>6, <1>8 DEF Joined
<1>10. PICK gs \in Seq(Frames) :
         /\ gs = frames' /\ Len(gs) = i /\ Same(gs, frames, n)
         /\ gs[i].kind = "else" /\ gs[i].pred = p /\ gs[i].block = m
         /\ gs[i].then = Top.block /\ gs[i].live = Top.live /\ gs[i].thenLive = live
         /\ gs[i].rets => ~live
  <2>1. PICK f : f = [Top EXCEPT !.kind = "else", !.block = New, !.then = Top.block,
                                 !.rets = Returns(Top.block), !.thenLive = live]
    OBVIOUS
  <2>2. Returns(Top.block) \in BOOLEAN
    BY DEF Returns
  <2>3. /\ f \in Frames
        /\ f.kind = "else" /\ f.pred = p /\ f.block = m /\ f.then = Top.block
        /\ f.live = Top.live /\ f.thenLive = live /\ f.rets = Returns(Top.block)
    BY <1>1, <1>3, <1>5, <1>6, <2>1, <2>2 DEF Frames
  <2>4. Returns(Top.block) => ~live
    BY <1>1, LiveNotReturning
  <2>5. frames' = Append(Front(frames), f)
    BY <2>1 DEF EnterElse
  <2>6. /\ frames' \in Seq(Frames) /\ Len(frames') = n + 1 /\ frames'[n + 1] = f
        /\ \A j \in 1..n : frames'[j] = Front(frames)[j]
    BY <1>3, <2>3, <2>5, PushedOn
  <2>. QED
    BY <1>3, <2>3, <2>4, <2>6 DEF Same
<1>11. Tracked(cs, frames', live')
  <2>1. PICK fs \in Seq(Frames), bs \in Seq(Blocks), lv \in BOOLEAN :
          fs = frames /\ bs = blocks /\ lv = live
    BY <1>1
  <2>2. /\ Tracked(bs, fs, lv) /\ Joined(bs, cs) /\ ~cs[Len(cs)].returns
        /\ cs \in Seq(Blocks) /\ n \in Nat /\ i = n + 1
    BY <1>1, <1>3, <1>8, <1>9, <2>1
  <2>3. /\ Len(fs) = i /\ p = fs[i].pred /\ fs[i].kind = "then"
        /\ Len(gs) = i /\ Same(gs, fs, n)
    BY <1>1, <1>3, <1>5, <1>10, <2>1
  <2>4. SameBut(cs, bs, p)
    BY <1>8, <2>1 DEF SameBut
  <2>5. p \in 1..Len(bs) => Len(cs) \in cs[p].succs
    BY <1>8, <2>1
  <2>6. /\ gs[i].kind = "else" /\ gs[i].pred = p /\ gs[i].block = Len(cs)
        /\ gs[i].then = fs[i].block /\ gs[i].live = fs[i].live /\ gs[i].thenLive = lv
    BY <1>3, <1>9, <1>10, <2>1
  <2>7. gs[i].rets => ~lv
    BY <1>10, <2>1
  <2>8. Tracked(cs, gs, fs[i].live)
    BY ONLY <1>10, <2>1, <2>2, <2>3, <2>4, <2>5, <2>6, <2>7, ElseTracked
  <2>. QED
    BY <1>1, <1>3, <1>10, <2>1, <2>8
<1>12. graph' \in Seq(Nat) /\ graph' # <<>> /\ Last(graph') = Len(blocks')
  <2>1. graph' = Append(graph, m)
    BY <1>6 DEF EnterElse
  <2>. QED
    BY <1>1, <1>6, <1>7, <1>9, <2>1, GraphGrown
<1>13. live' \in BOOLEAN
  BY <1>1, <1>3 DEF Frames
<1>. QED
  BY <1>1, <1>7, <1>9, <1>10, <1>11, <1>12, <1>13
  DEF EnterElse, IInv, Shapes, NoReturnlessAccepted

LEMMA LeaveElseKeeps == ASSUME IInv, LeaveElse PROVE IInv'
<1>1. /\ frames \in Seq(Frames) /\ frames # <<>> /\ blocks \in Seq(Blocks)
      /\ Tracked(blocks, frames, live) /\ live \in BOOLEAN /\ graph \in Seq(Nat)
      /\ InBody /\ Top.kind = "else" /\ live' = (live \/ Top.thenLive)
  BY DEF LeaveElse, InBody, IInv, Shapes
<1>2. PICK l \in Nat : l = Len(blocks)
  BY <1>1, LenProperties
<1>3. PICK n \in Nat, i \in Nat :
        /\ i = n + 1 /\ Len(frames) = i /\ Top = frames[i] /\ Top \in Frames
        /\ Front(frames) \in Seq(Frames) /\ Len(Front(frames)) = n
        /\ \A j \in 1..n : Front(frames)[j] = frames[j]
  BY <1>1, Innermost
<1>4. Top.kind \in {"then", "else"}
  BY <1>1
<1>5. PICK p \in Nat : p = Top.pred /\ p < Top.block /\ p < Top.then /\ p < l
  BY <1>1, <1>2, <1>4, Ending
<1>6. PICK m \in Nat : m = l + 1 /\ m = New
  BY <1>2 DEF New
<1>7. PICK cs, joins, rets :
        /\ cs = blocks' /\ rets = (Top.rets /\ Returns(Last(graph)))
        /\ joins = {Top.pred} \cup (IF Top.rets THEN {} ELSE {Top.then})
                              \cup (IF Returns(Last(graph)) THEN {} ELSE {Top.block})
  OBVIOUS
<1>8. PICK gs \in Seq(Frames), fs \in Seq(Frames), bs \in Seq(Blocks) :
        /\ gs = Front(frames) /\ fs = frames /\ bs = blocks
        /\ Len(fs) = i /\ p = fs[i].pred /\ fs[i].kind = "else"
        /\ Len(gs) = n /\ Same(gs, fs, n)
  BY <1>1, <1>3, <1>5 DEF Same
<1>9. PICK lv, lw : /\ lv = live /\ lw = live'
                    /\ Tracked(bs, fs, lv) /\ (lw => lv \/ fs[i].thenLive)
  BY <1>1, <1>3, <1>8
<1>10. /\ cs \in Seq(Blocks) /\ Len(cs) = m
       /\ Tracked(cs, gs, lw)
  <2>1. CASE rets
    <3>1. cs = Append(bs, ReturningBlock) /\ ReturningBlock \in Blocks
      BY <1>7, <1>8, <2>1 DEF LeaveElse, ReturningBlock, Blocks
    <3>2. cs \in Seq(Blocks) /\ Len(cs) = Len(bs) + 1 /\ Same(cs, bs, Len(bs))
      BY <3>1, PushedOn DEF Same
    <3>3. fs[i].rets
      BY <1>3, <1>7, <1>8, <2>1
    <3>4. lw => lv \/ fs[i].thenLive
      BY <1>9
    <3>5. Tracked(cs, gs, lw)
      BY ONLY <1>3, <1>8, <1>9, <3>2, <3>3, <3>4, EndReturningTracked
    <3>. QED
      BY <1>2, <1>6, <1>8, <3>2, <3>5
  <2>2. CASE ~rets
    <3>1. cs = Append(Leading(bs, joins), NewBlock)
      BY <1>2, <1>6, <1>7, <1>8, <2>2 DEF LeaveElse, New, Leading
    <3>2. /\ Joined(bs, cs) /\ ~cs[Len(cs)].returns /\ SameOutside(cs, bs, joins)
          /\ \A x \in 1..Len(bs) : x \in joins => Len(cs) \in cs[x].succs
      BY <3>1, BranchesJoined
    <3>3. cs \in Seq(Blocks) /\ Len(cs) = Len(bs) + 1
      BY <3>2 DEF Joined
    <3>4. Same(cs, bs, p - 1)
      <4>1. ASSUME NEW x \in 1..p - 1
            PROVE  x \in 1..Len(bs) /\ x \notin joins
        BY <1>2, <1>5, <1>7, <1>8
      <4>. QED
        BY <3>2, <4>1 DEF Same, SameOutside
    <3>5. p \in 1..Len(bs) => Len(cs) \in cs[p].succs
      BY <1>5, <1>7, <3>2
    <3>6. lw => lv \/ fs[i].live \/ fs[i].thenLive
      BY <1>9
    <3>7. /\ Joined(bs, cs) /\ ~cs[Len(cs)].returns /\ p \in Nat /\ n \in Nat
          /\ i = n + 1 /\ Tracked(bs, fs, lv) /\ fs[i].kind \in {"then", "else"}
      BY <1>3, <1>8, <1>9, <3>2
    <3>8. Tracked(cs, gs, lw)
      BY ONLY <1>8, <3>3, <3>4, <3>5, <3>6, <3>7, EndIfTracked
    <3>. QED
      BY <1>2, <1>6, <1>8, <3>3, <3>8
  <2>. QED
    BY <2>1, <2>2
<1>11. graph' \in Seq(Nat) /\ graph' # <<>> /\ Last(graph') = Len(blocks')
  <2>1. graph' = Append(graph, m)
    BY <1>6 DEF LeaveElse
  <2>. QED
    BY <1>1, <1>6, <1>7, <1>10, <2>1, GraphGrown
<1>12. live' \in BOOLEAN
  BY <1>1
<1>. QED
  BY <1>1, <1>3, <1>7, <1>8, <1>9, <1>10, <1>11, <1>12
  DEF LeaveElse, IInv, Shapes, NoReturnlessAccepted

-----------------------------------------------------------------------------
(* The invariant. *)

LEMMA Start1 == Init => IInv
<1>. SUFFICES ASSUME Init PROVE IInv
  OBVIOUS
<1>1. Shapes
  <2>1. \A S : <<>> \in Seq(S)
    OBVIOUS
  <2>2. live \in BOOLEAN
    BY DEF Init
  <2>. QED
    BY <2>1, <2>2, Zenon DEF Init, Shapes
<1>2. Tracked(blocks, frames, live)
  <2>1. Len(frames) = 0
    BY DEF Init
  <2>. QED
    BY <2>1 DEF Init, Tracked, LiveNow
<1>. QED
  BY <1>1, <1>2 DEF Init, IInv, NoReturnlessAccepted, NothingSaid

LEMMA Step1 == IInv /\ [Next]_vars => IInv'
<1>. SUFFICES ASSUME IInv, [Next]_vars PROVE IInv'
  OBVIOUS
<1>. USE DEF IInv
<1>1. ASSUME NEW f \in Functions, GatherFunction(f) PROVE IInv'
  <2>1. funcs' \in Seq(Functions)
    BY <1>1, AppendProperties DEF GatherFunction, Shapes
  <2>. QED
    BY <1>1, <2>1 DEF GatherFunction, Shapes, NoReturnlessAccepted
<1>2. ASSUME NEW f \in Functions, NestedFunction(f) PROVE IInv'
  BY <1>2, NestedFunctionKeeps
<1>3. CASE GatherClass
  BY <1>3 DEF GatherClass, Shapes, NoReturnlessAccepted
<1>4. CASE Gathered
  BY <1>4 DEF Gathered, Shapes, NoReturnlessAccepted
<1>5. CASE Unreachable
  BY <1>5 DEF Unreachable, Report, Shapes, NoReturnlessAccepted
<1>6. CASE PlainStmt
  BY <1>6 DEF PlainStmt, Report, Shapes, NoReturnlessAccepted
<1>7. CASE Finish
  BY <1>7 DEF Finish, Shapes, NoReturnlessAccepted
<1>8. CASE UNCHANGED vars
  BY <1>8 DEF vars, Shapes, NoReturnlessAccepted
<1>9. CASE AnalyzeFunction
  BY <1>9, AnalyzeFunctionKeeps
<1>10. CASE NestedClass
  BY <1>10, NestedClassKeeps
<1>11. CASE LeaveClass
  BY <1>11, LeaveClassKeeps
<1>12. CASE LeaveFunction
  BY <1>12, LeaveFunctionKeeps
<1>13. CASE ReturnStmt
  BY <1>13, ReturnStmtKeeps
<1>14. CASE EnterThen
  BY <1>14, EnterThenKeeps
<1>15. CASE LeaveIf
  BY <1>15, LeaveIfKeeps
<1>16. CASE EnterElse
  BY <1>16, EnterElseKeeps
<1>17. CASE LeaveElse
  BY <1>17, LeaveElseKeeps
<1>. QED
  BY <1>1, <1>2, <1>3, <1>4, <1>5, <1>6, <1>7, <1>8, <1>9, <1>10, <1>11, <1>12,
     <1>13, <1>14, <1>15, <1>16, <1>17 DEF Next

(* No function with a return type is accepted while control can reach the end of
   its body, whatever its ifs, returns and nested functions and classes
   (reachability.cc:60-63). *)
THEOREM AcceptedReturns == Spec => []NoReturnlessAccepted
<1>1. IInv => NoReturnlessAccepted
  BY DEF IInv
<1>. QED
  BY <1>1, Start1, Step1, PTL DEF Spec

(* Code generation visits what Reachability visits: every step of the emission of
   basic blocks is one of Reachability, or leaves it where it is, in a loop
   (codegen.cc:576-636, 706-715). *)
THEOREM EmissionFollows == FlowSpec => Spec
<1>1. FlowInit => Init
  BY DEF FlowInit
<1>2. [Emission]_flowVars => [Next]_vars
  <2>. SUFFICES ASSUME [Emission]_flowVars PROVE [Next]_vars
    OBVIOUS
  <2>1. CASE EmitFunction \/ Nested \/ Other
    BY <2>1 DEF EmitFunction, Nested, Other, Next
  <2>2. CASE EmitPlainStmt \/ EmitReturn \/ EmitThen \/ EmitElse \/ EmitEndIf \/ EmitWhile
    BY <2>2 DEF EmitPlainStmt, EmitReturn, EmitThen, EmitElse, EmitEndIf, EmitWhile, Next
  <2>3. CASE \/ LoopPlainStmt \/ LoopReturn \/ LoopWhile \/ LoopThen
             \/ LoopElse \/ LoopEndIf \/ LoopEnd
    BY <2>3 DEF LoopPlainStmt, LoopReturn, LoopWhile, LoopThen, LoopElse, LoopEndIf,
                LoopEnd, InLoop
  <2>4. CASE UNCHANGED flowVars
    BY <2>4 DEF flowVars
  <2>. QED
    BY <2>1, <2>2, <2>3, <2>4 DEF Emission
<1>. QED
  BY <1>1, <1>2, PTL DEF FlowSpec, Spec

(* The functions that code is generated for return on every path of theirs
   (codegen.cc:700, reachability.cc:60-63). *)
THEOREM EmittedReturns == FlowSpec => []NoReturnlessAccepted
BY AcceptedReturns, EmissionFollows, PTL

-----------------------------------------------------------------------------
(* What the pass says. *)

\* A function within the first one is remembered.
Counted(fs, ns) == \A j \in 2..Len(fs) : fs[j].kind = "func" => "func" \in ns

\* The newest block has no successor, and returns only if control has left.
OpenEnd(bs, lv) ==
  /\ Len(bs) > 0
  /\ bs[Len(bs)].succs = {}
  /\ lv => ~bs[Len(bs)].returns

\* An if that control got to, of which the newest block is a branch.
Branch(bs, f) ==
  /\ f.live
  /\ f.pred < f.block /\ f.block = Len(bs)
  /\ f.kind = "else" => /\ f.then \in 1..Len(bs) - 1 /\ f.pred # f.then
                        /\ bs[f.then].succs = {}
                        /\ f.thenLive <=> ~bs[f.then].returns
                        /\ f.rets <=> bs[f.then].returns

FlatFrames(bs, fs) ==
  /\ fs[1].kind = "func" /\ fs[1].block = 1
  /\ \A j \in 1..Len(fs) : /\ fs[j].kind \in {"then", "else"} => j = 2 /\ Branch(bs, fs[j])
                           /\ fs[j].kind = "class" => j = Len(fs)

LeadsOn(bs, b) ==
  \/ bs[b].returns
  \/ bs[b].succs # {} /\ bs[b].succs \subseteq b + 1..Len(bs)

IsThen(fs, b) == \E j \in 1..Len(fs) : fs[j].kind = "else" /\ fs[j].then = b

\* Every block but the newest returns or leads to later ones, the first branch of
\* an if with its second in progress excepted.
FlatBlocks(bs, fs, lv) ==
  /\ lv <=> ~bs[Len(bs)].returns
  /\ \A b \in 1..Len(bs) - 1 : LeadsOn(bs, b) \/ IsThen(fs, b)

Said(bs, fs, lv, ns) ==
  /\ Counted(fs, ns)
  /\ fs # <<>> /\ "func" \notin ns => OpenEnd(bs, lv)
  /\ fs # <<>> /\ ns = {} => FlatFrames(bs, fs) /\ FlatBlocks(bs, fs, lv)

VInv ==
  /\ Said(blocks, frames, live, nesting)
  /\ UnreachableJustified /\ VerdictExact

LEMMA EndReturns ==
  ASSUME NEW b \in DOMAIN blocks, blocks[b].succs = {}, blocks[b].returns \in BOOLEAN
  PROVE  Returns(b) <=> blocks[b].returns
<1>1. blocks[b].returns => Returns(b)
  BY DEF Returns, ReturnClosed
<1>2. ASSUME ~blocks[b].returns
      PROVE  ~Returns(b)
  <2>1. PICK S \in SUBSET DOMAIN blocks : S = DOMAIN blocks \ {b}
    OBVIOUS
  <2>2. ReturnClosed(S)
    BY <1>2, <2>1 DEF ReturnClosed
  <2> QED
    BY <2>1, <2>2 DEF Returns
<1>3. Returns(b) \in BOOLEAN
  BY DEF Returns
<1> QED
  BY <1>1, <1>2, <1>3

\* If the last block returns and every other leads on, then the first returns.
LEMMA AllReturn ==
  ASSUME blocks \in Seq(Blocks), Len(blocks) > 0, blocks[Len(blocks)].returns,
         \A b \in 1..Len(blocks) - 1 : LeadsOn(blocks, b)
  PROVE  Returns(1)
<1>1. Len(blocks) \in Nat /\ DOMAIN blocks = 1..Len(blocks)
  BY LenProperties
<1> SUFFICES ASSUME NEW S \in SUBSET DOMAIN blocks, ReturnClosed(S), 1 \notin S
             PROVE  FALSE
  BY DEF Returns
<1>2. PICK n \in Nat : n = Len(blocks) /\ n > 0
  BY <1>1
<1>3. PICK U \in SUBSET (1..n) : U = (1..n) \ S
  OBVIOUS
<1>4. U # {}
  BY <1>2, <1>3
<1>5. PICK m \in U : \A x \in U : x <= m
  <2>1. Max(U) \in U /\ \A x \in U : x <= Max(U)
    BY <1>4, MaxOfBounded
  <2> QED
    BY <2>1
<1>6. m \in 1..n /\ m \notin S /\ m + 1..n \subseteq S
  BY <1>3, <1>5
<1>7. m = n \/ m \in 1..n - 1
  BY <1>6
<1>8. blocks[m].returns \/ (blocks[m].succs # {} /\ blocks[m].succs \subseteq S)
  BY <1>2, <1>6, <1>7 DEF LeadsOn
<1> QED
  BY <1>1, <1>2, <1>6, <1>8 DEF ReturnClosed

LEMMA LeadsOnJoined ==
  ASSUME NEW bs, NEW cs, Joined(bs, cs), NEW b \in 1..Len(bs), LeadsOn(bs, b)
  PROVE  LeadsOn(cs, b)
<1>1. /\ Len(bs) \in Nat /\ Len(cs) = Len(bs) + 1
      /\ cs[b].returns = bs[b].returns
      /\ cs[b].succs = bs[b].succs \/ cs[b].succs = bs[b].succs \cup {Len(cs)}
  BY LenProperties DEF Joined
<1>2. b + 1..Len(bs) \subseteq b + 1..Len(cs) /\ Len(cs) \in b + 1..Len(cs)
  BY <1>1
<1> QED
  BY <1>1, <1>2 DEF LeadsOn

\* A block without successors leads on when it is joined to the new one.
LEMMA EndLeadsOn ==
  ASSUME NEW bs, NEW cs, Joined(bs, cs), NEW b \in 1..Len(bs), bs[b].succs = {},
         Len(cs) \in cs[b].succs
  PROVE  LeadsOn(cs, b)
<1>1. /\ Len(bs) \in Nat /\ Len(cs) = Len(bs) + 1 /\ cs[b].succs = {Len(cs)}
  BY LenProperties DEF Joined
<1> QED
  BY <1>1 DEF LeadsOn

LEMMA VStart == Init => VInv
<1> SUFFICES ASSUME Init PROVE VInv
  OBVIOUS
<1>1. frames = <<>> /\ Len(frames) = 0 /\ report.kind = "reached" /\ report.live
  BY DEF Init, NothingSaid
<1>2. Counted(frames, nesting)
  BY <1>1 DEF Counted
<1> QED
  BY <1>1, <1>2 DEF VInv, Said, UnreachableJustified, VerdictExact

LEMMA AnalyzeFunctionSays == ASSUME AnalyzeFunction PROVE VInv'
<1>1. PICK f : EnterFunction(f, <<>>)
  BY DEF AnalyzeFunction
<1>2. blocks' = <<NewBlock>> /\ Len(blocks') = 1 /\ frames' = <<Frame("func", 0, 1, f)>>
  BY <1>1 DEF EnterFunction, AnalyzeFunction
<1>3. /\ Len(frames') = 1 /\ frames'[1].kind = "func" /\ frames'[1].block = 1
      /\ blocks'[1].succs = {} /\ blocks'[1].returns = FALSE
  BY <1>2 DEF Frame, NewBlock
<1>4. live' = TRUE /\ report'.kind = "reached" /\ report'.live
  BY <1>1 DEF EnterFunction, AnalyzeFunction, NothingSaid
<1>5. Counted(frames', nesting')
  BY <1>3 DEF Counted
<1>6. OpenEnd(blocks', live')
  BY <1>2, <1>3 DEF OpenEnd
<1>7. FlatFrames(blocks', frames')
  BY <1>3 DEF FlatFrames
<1>8. FlatBlocks(blocks', frames', live')
  BY <1>2, <1>3, <1>4 DEF FlatBlocks
<1> QED
  BY <1>4, <1>5, <1>6, <1>7, <1>8 DEF VInv, Said, UnreachableJustified, VerdictExact

LEMMA NestedFunctionSays ==
  ASSUME VInv, NEW f, NestedFunction(f) PROVE VInv'
<1>1. "func" \in nesting' /\ nesting' # {}
  BY DEF NestedFunction
<1>2. report' = report
  BY DEF NestedFunction
<1> QED
  BY <1>1, <1>2 DEF VInv, Said, Counted, UnreachableJustified, VerdictExact

LEMMA NestedClassSays == ASSUME IInv, VInv, NestedClass PROVE VInv'
<1>1. /\ frames \in Seq(Frames) /\ frames # <<>> /\ live \in BOOLEAN
      /\ Top.kind # "class"
  BY DEF NestedClass, InBody, IInv, Shapes
<1>2. PICK n \in Nat : Len(frames) = n + 1 /\ Top = frames[n + 1]
  BY <1>1, Innermost
<1>3. frames' = Append(frames, Frame("class", 0, 0, NoFn)) /\ NoFn \in Functions
  BY DEF NestedClass, NoFn, Functions
<1>4. PICK gs \in Seq(Frames) :
        /\ gs = frames' /\ Len(gs) = n + 2
        /\ \A j \in 1..n + 1 : gs[j] = frames[j]
        /\ gs[n + 2].kind = "class"
  <2>1. /\ frames' \in Seq(Frames) /\ Len(frames') = Len(frames) + 1
        /\ \A j \in 1..Len(frames) : frames'[j] = frames[j]
        /\ frames'[Len(frames) + 1] = Frame("class", 0, 0, NoFn)
    BY <1>1, <1>3, FramePushed
  <2>2. frames'[n + 2].kind = "class"
    BY <1>2, <2>1 DEF Frame
  <2> QED
    BY <1>2, <2>1, <2>2
<1>5. \A j \in 1..n + 2 : j \in 1..n + 1 \/ j = n + 2
  OBVIOUS
<1>6. blocks' = blocks /\ live' = live /\ nesting' = nesting /\ report' = report
  BY DEF NestedClass
<1>7. Counted(gs, nesting)
  BY <1>2, <1>4, <1>5 DEF VInv, Said, Counted
<1>8. "func" \notin nesting => OpenEnd(blocks, live)
  BY <1>1 DEF VInv, Said
<1>9. ASSUME nesting = {}
      PROVE  FlatFrames(blocks, gs) /\ FlatBlocks(blocks, gs, live)
  <2>1. FlatFrames(blocks, frames) /\ FlatBlocks(blocks, frames, live)
    BY <1>1, <1>9 DEF VInv, Said
  <2>2. FlatFrames(blocks, gs)
    BY <1>1, <1>2, <1>4, <1>5, <2>1 DEF FlatFrames
  <2>3. \A b : IsThen(frames, b) => IsThen(gs, b)
    BY <1>2, <1>4 DEF IsThen
  <2> QED
    BY <2>1, <2>2, <2>3 DEF FlatBlocks
<1> QED
  BY <1>4, <1>6, <1>7, <1>8, <1>9 DEF VInv, Said, UnreachableJustified, VerdictExact

LEMMA LeaveClassSays == ASSUME IInv, VInv, LeaveClass PROVE VInv'
<1>1. frames \in Seq(Frames) /\ frames # <<>> /\ Top.kind = "class"
  BY DEF LeaveClass, IInv, Shapes
<1>2. PICK n \in Nat, gs \in Seq(Frames) :
        /\ Len(frames) = n + 1 /\ Top = frames[n + 1]
        /\ gs = Front(frames) /\ Len(gs) = n
        /\ \A j \in 1..n : gs[j] = frames[j]
  BY <1>1, Innermost
<1>3. /\ frames' = gs /\ blocks' = blocks /\ live' = live /\ nesting' = nesting
      /\ report' = report
  BY <1>2 DEF LeaveClass
<1>4. Counted(gs, nesting)
  BY <1>2 DEF VInv, Said, Counted
<1>5. "func" \notin nesting => OpenEnd(blocks, live)
  BY <1>1 DEF VInv, Said
<1>6. ASSUME nesting = {}, gs # <<>>
      PROVE  FlatFrames(blocks, gs) /\ FlatBlocks(blocks, gs, live)
  <2>1. FlatFrames(blocks, frames) /\ FlatBlocks(blocks, frames, live)
    BY <1>1, <1>6 DEF VInv, Said
  <2>2. n # 0 /\ 1 \in 1..n
    BY <1>2, <1>6, EmptySeq
  <2>3. FlatFrames(blocks, gs)
    BY <1>1, <1>2, <2>1, <2>2 DEF FlatFrames
  <2>4. ASSUME NEW b, IsThen(frames, b)
        PROVE  IsThen(gs, b)
    <3>1. PICK j \in 1..n + 1 : frames[j].kind = "else" /\ frames[j].then = b
      BY <1>2, <2>4 DEF IsThen
    <3>2. j \in 1..n
      BY <1>1, <1>2, <3>1
    <3> QED
      BY <1>2, <3>1, <3>2 DEF IsThen
  <2> QED
    BY <2>1, <2>3, <2>4 DEF FlatBlocks
<1> QED
  BY <1>3, <1>4, <1>5, <1>6 DEF VInv, Said, UnreachableJustified, VerdictExact

LEMMA LeaveFunctionSays == ASSUME IInv, VInv, LeaveFunction PROVE VInv'
<1>1. /\ frames \in Seq(Frames) /\ frames # <<>> /\ Top.kind = "func"
      /\ blocks \in Seq(Blocks) /\ nesting' = nesting
  BY DEF LeaveFunction, InBody, IInv, Shapes
<1>2. PICK n \in Nat, gs \in Seq(Frames) :
        /\ Len(frames) = n + 1 /\ Top = frames[n + 1]
        /\ gs = Front(frames) /\ Len(gs) = n
        /\ \A j \in 1..n : gs[j] = frames[j]
  BY <1>1, Innermost
<1>3. frames' = gs
  BY <1>2 DEF LeaveFunction
<1>4. n # 0 => "func" \in nesting
  BY <1>1, <1>2 DEF VInv, Said, Counted
<1>5. Counted(gs, nesting)
  BY <1>2 DEF VInv, Said, Counted
<1>6. gs # <<>> => "func" \in nesting
  BY <1>2, <1>4, EmptySeq
<1>7. Said(blocks', frames', live', nesting')
  BY <1>1, <1>3, <1>5, <1>6 DEF Said
<1>8. ASSUME nesting = {}, ~Returns(Top.block)
      PROVE  live
  <2>1. FlatFrames(blocks, frames) /\ FlatBlocks(blocks, frames, live) /\ OpenEnd(blocks, live)
    BY <1>1, <1>8 DEF VInv, Said
  <2>2. n = 0 /\ Top.block = 1 /\ ~(\E b : IsThen(frames, b))
    <3>1. n = 0
      BY <1>4, <1>8
    <3>2. \A j \in 1..Len(frames) : j = 1
      BY <1>2, <3>1
    <3> QED
      BY <1>1, <1>2, <2>1, <3>1, <3>2 DEF FlatFrames, IsThen
  <2>3. \A b \in 1..Len(blocks) - 1 : LeadsOn(blocks, b)
    BY <2>1, <2>2 DEF FlatBlocks
  <2>4. ~blocks[Len(blocks)].returns
    BY <1>1, <1>8, <2>1, <2>2, <2>3, AllReturn DEF OpenEnd
  <2> QED
    BY <2>1, <2>4 DEF FlatBlocks
<1>9. \/ report' = report
      \/ /\ report'.kind = IF Returns(Top.block) THEN "accepted" ELSE "returnless"
         /\ report'.live = live
  BY DEF LeaveFunction, Report
<1>10. UnreachableJustified'
  BY <1>1, <1>9 DEF VInv, UnreachableJustified
<1>11. VerdictExact'
  <2>1. CASE report' = report
    BY <1>1, <2>1 DEF VInv, VerdictExact
  <2>2. CASE /\ report'.kind = IF Returns(Top.block) THEN "accepted" ELSE "returnless"
             /\ report'.live = live
    BY <1>1, <1>8, <2>2 DEF VerdictExact
  <2> QED
    BY <1>9, <2>1, <2>2
<1> QED
  BY <1>7, <1>10, <1>11 DEF VInv

LEMMA ReturnStmtSays == ASSUME IInv, VInv, ReturnStmt PROVE VInv'
<1>1. /\ frames # <<>> /\ blocks \in Seq(Blocks) /\ Last(graph) = Len(blocks) /\ ~Blocked
      /\ graph # <<>>
  BY DEF ReturnStmt, InBody, IInv, Shapes
<1>2. PICK n \in Nat : n = Len(blocks) /\ DOMAIN blocks = 1..n
  BY <1>1, LenProperties
<1>3. PICK cs : cs = blocks' /\ cs = [blocks EXCEPT ![n].returns = TRUE]
  BY <1>1, <1>2 DEF ReturnStmt
<1>4. /\ frames' = frames /\ nesting' = nesting /\ live' = FALSE
      /\ report'.kind = "reached" /\ report'.live = live
  BY DEF ReturnStmt, Report
<1>5. Len(cs) = n /\ \A x \in 1..n : x # n => cs[x] = blocks[x]
  BY <1>2, <1>3
<1>6. ASSUME n \in 1..n
      PROVE  cs[n].returns /\ cs[n].succs = blocks[n].succs
  <2>1. blocks[n] \in Blocks
    BY <1>1, <1>2, <1>6, ElementOfSeq
  <2>2. cs[n] = [blocks[n] EXCEPT !.returns = TRUE]
    BY <1>2, <1>3, <1>6
  <2> QED
    BY <2>1, <2>2 DEF Blocks
<1>7. Counted(frames, nesting)
  BY DEF VInv, Said
<1>8. ASSUME "func" \notin nesting
      PROVE  OpenEnd(cs, FALSE)
  <2>1. OpenEnd(blocks, live)
    BY <1>1, <1>8 DEF VInv, Said
  <2> QED
    BY <1>2, <1>5, <1>6, <2>1 DEF OpenEnd
<1>9. ASSUME nesting = {}
      PROVE  FlatFrames(cs, frames) /\ FlatBlocks(cs, frames, FALSE) /\ live
  <2>1. FlatFrames(blocks, frames) /\ FlatBlocks(blocks, frames, live) /\ OpenEnd(blocks, live)
    BY <1>1, <1>9 DEF VInv, Said
  <2>2. n \in 1..n
    BY <1>2, <2>1 DEF OpenEnd
  <2>3. ASSUME NEW f, Branch(blocks, f)
        PROVE  Branch(cs, f)
    BY <1>2, <1>5, <2>3 DEF Branch
  <2>4. FlatFrames(cs, frames)
    BY <2>1, <2>3 DEF FlatFrames
  <2>5. FlatBlocks(cs, frames, FALSE)
    <3>1. \A b \in 1..n - 1 : cs[b] = blocks[b]
      BY <1>5
    <3> QED
      BY <1>2, <1>5, <1>6, <2>1, <2>2, <3>1 DEF FlatBlocks, LeadsOn
  <2>6. live
    BY <1>1, <2>1 DEF FlatBlocks, Blocked
  <2> QED
    BY <2>4, <2>5, <2>6
<1> QED
  BY <1>1, <1>3, <1>4, <1>7, <1>8, <1>9 DEF VInv, Said, UnreachableJustified, VerdictExact

LEMMA EnterThenSays == ASSUME IInv, VInv, EnterThen PROVE VInv'
<1>1. /\ frames \in Seq(Frames) /\ frames # <<>> /\ blocks \in Seq(Blocks)
      /\ live \in BOOLEAN /\ graph # <<>> /\ Last(graph) = Len(blocks) /\ ~Blocked
  BY DEF EnterThen, InBody, IInv, Shapes
<1>2. PICK p \in Nat, m \in Nat : p = Len(blocks) /\ m = p + 1 /\ m = New
  BY <1>1, LenProperties DEF New
<1>3. PICK n \in Nat : Len(frames) = n + 1 /\ Top = frames[n + 1]
  BY <1>1, Innermost
<1>4. PICK cs : /\ cs = blocks' /\ Joined(blocks, cs) /\ ~cs[Len(cs)].returns
                /\ p \in 1..Len(blocks) => Len(cs) \in cs[p].succs
  BY <1>1, <1>2, OneSuccessorAdded DEF EnterThen
<1>5. Len(cs) = m /\ cs[m].succs = {}
  BY <1>2, <1>4 DEF Joined
<1>6. PICK gs \in Seq(Frames) :
        /\ gs = frames' /\ Len(gs) = n + 2
        /\ \A j \in 1..n + 1 : gs[j] = frames[j]
        /\ gs[n + 2].kind = "then" /\ gs[n + 2].pred = p /\ gs[n + 2].block = m
        /\ gs[n + 2].live = live
  <2>1. frames' = Append(frames, Frame("then", p, m, NoFn)) /\ NoFn \in Functions
    BY <1>1, <1>2 DEF EnterThen, NoFn, Functions
  <2>2. /\ frames' \in Seq(Frames) /\ Len(frames') = Len(frames) + 1
        /\ \A j \in 1..Len(frames) : frames'[j] = frames[j]
        /\ frames'[Len(frames) + 1] = Frame("then", p, m, NoFn)
    BY <1>1, <2>1, FramePushed
  <2>3. PICK f : f = Frame("then", p, m, NoFn)
    OBVIOUS
  <2>4. f.kind = "then" /\ f.pred = p /\ f.block = m /\ f.live = live
    BY <2>3 DEF Frame
  <2> QED
    BY <1>3, <2>2, <2>3, <2>4
<1>7. /\ live' = live /\ report'.kind = "reached" /\ report'.live = live
      /\ nesting \subseteq nesting' /\ ("func" \in nesting' => "func" \in nesting)
      /\ nesting' = {} => Top.kind = "func"
  BY DEF EnterThen, Report
<1>8. \A j \in 1..n + 2 : j \in 1..n + 1 \/ j = n + 2
  OBVIOUS
<1>9. Counted(gs, nesting')
  BY <1>3, <1>6, <1>7, <1>8 DEF VInv, Said, Counted
<1>10. OpenEnd(cs, live)
  BY <1>2, <1>4, <1>5 DEF OpenEnd
<1>11. ASSUME nesting' = {}
       PROVE  FlatFrames(cs, gs) /\ FlatBlocks(cs, gs, live) /\ live
  <2>1. /\ FlatFrames(blocks, frames) /\ FlatBlocks(blocks, frames, live)
        /\ OpenEnd(blocks, live) /\ Counted(frames, nesting) /\ nesting = {}
    BY <1>1, <1>7, <1>11 DEF VInv, Said
  <2>2. n = 0
    BY <1>3, <1>7, <1>11, <2>1 DEF Counted
  <2>3. live
    BY <1>1, <2>1 DEF FlatBlocks, Blocked
  <2>4. \A j \in 1..2 : j = 1 \/ j = 2
    OBVIOUS
  <2>5. Branch(cs, gs[2])
    <3>1. PICK f : f = gs[2]
      OBVIOUS
    <3>2. n + 2 = 2
      BY <2>2
    <3>3. f.kind = "then" /\ f.pred = p /\ f.block = m /\ f.live
      BY <1>6, <2>3, <3>1, <3>2
    <3>4. Branch(cs, f)
      BY <1>2, <1>5, <3>3 DEF Branch
    <3> QED
      BY <3>1, <3>4
  <2>6. FlatFrames(cs, gs)
    BY <1>3, <1>6, <2>1, <2>2, <2>4, <2>5 DEF FlatFrames
  <2>7. \A j \in 1..Len(frames) : frames[j].kind = "func"
    BY <1>3, <2>1, <2>2 DEF FlatFrames
  <2>8. \A b \in 1..p - 1 : LeadsOn(blocks, b)
    BY <1>2, <2>1, <2>7 DEF FlatBlocks, IsThen
  <2>9. p \in 1..Len(blocks) /\ blocks[p].succs = {}
    BY <1>2, <2>1 DEF OpenEnd
  <2>10. LeadsOn(cs, p)
    BY <1>4, <2>9, EndLeadsOn
  <2>11. \A b \in 1..p - 1 : b \in 1..Len(blocks)
    BY <1>2
  <2>12. \A b \in 1..p - 1 : LeadsOn(cs, b)
    BY <1>4, <2>8, <2>11, LeadsOnJoined
  <2>13. \A b \in 1..m - 1 : b = p \/ b \in 1..p - 1
    BY <1>2
  <2>14. FlatBlocks(cs, gs, live)
    BY <1>4, <1>5, <2>3, <2>10, <2>12, <2>13 DEF FlatBlocks
  <2> QED
    BY <2>3, <2>6, <2>14
<1> QED
  BY <1>4, <1>6, <1>7, <1>9, <1>10, <1>11 DEF VInv, Said, UnreachableJustified, VerdictExact

LEMMA LeaveIfSays == ASSUME IInv, VInv, LeaveIf PROVE VInv'
<1>1. /\ frames \in Seq(Frames) /\ frames # <<>> /\ blocks \in Seq(Blocks)
      /\ live \in BOOLEAN /\ Top.kind = "then" /\ live' = (live \/ Top.live)
      /\ InBody
  BY DEF LeaveIf, InBody, IInv, Shapes
<1>2. PICK l \in Nat, m \in Nat : l = Len(blocks) /\ m = l + 1 /\ m = New
  BY <1>1, LenProperties DEF New
<1>3. PICK n \in Nat, gs \in Seq(Frames) :
        /\ Len(frames) = n + 1 /\ Top = frames[n + 1] /\ Top \in Frames
        /\ gs = Front(frames) /\ Len(gs) = n
        /\ \A j \in 1..n : gs[j] = frames[j]
  BY <1>1, Innermost
<1>4. PICK p \in Nat, b \in Nat : p = Top.pred /\ b = Top.block /\ p <= l /\ b <= l
  BY <1>1, <1>2, Ending
<1>5. PICK cs : /\ cs = blocks' /\ Joined(blocks, cs) /\ ~cs[Len(cs)].returns
                /\ \A x \in 1..l : x = p \/ x = b => Len(cs) \in cs[x].succs
  <2>1. blocks' = AddSuccessor(AddSuccessor(Append(blocks, NewBlock), p, m), b, m)
    BY <1>2, <1>4 DEF LeaveIf
  <2>2. p <= Len(blocks) /\ b <= Len(blocks) /\ m = Len(blocks) + 1
    BY <1>2, <1>4
  <2>3. Joined(blocks, blocks') /\ ~blocks'[Len(blocks')].returns
    BY <1>1, <2>1, <2>2, TwoSuccessorsAdded
  <2>4. \A x \in 1..Len(blocks) : x = p \/ x = b => Len(blocks') \in blocks'[x].succs
    BY <1>1, <2>1, <2>2, TwoSuccessorsAdded
  <2> QED
    BY <1>2, <2>3, <2>4
<1>6. Len(cs) = m /\ cs[m].succs = {}
  BY <1>2, <1>5 DEF Joined
<1>7. /\ frames' = gs /\ nesting' = nesting /\ report' = report
  BY <1>3 DEF LeaveIf
<1>8. Counted(gs, nesting)
  BY <1>3 DEF VInv, Said, Counted
<1>9. OpenEnd(cs, live')
  BY <1>2, <1>5, <1>6 DEF OpenEnd
<1>10. ASSUME nesting = {}
       PROVE  FlatFrames(cs, gs) /\ FlatBlocks(cs, gs, live')
  <2>1. /\ FlatFrames(blocks, frames) /\ FlatBlocks(blocks, frames, live)
        /\ OpenEnd(blocks, live)
    BY <1>1, <1>10 DEF VInv, Said
  <2>2. n = 1 /\ Top.live /\ b = l
    BY <1>1, <1>2, <1>3, <1>4, <2>1 DEF FlatFrames, Branch
  <2>3. FlatFrames(cs, gs)
    BY <1>3, <2>1, <2>2 DEF FlatFrames
  <2>4. \A j \in 1..Len(frames) : frames[j].kind # "else"
    BY <1>1, <1>3, <2>1, <2>2 DEF FlatFrames
  <2>5. \A x \in 1..l - 1 : LeadsOn(blocks, x)
    BY <1>2, <2>1, <2>4 DEF FlatBlocks, IsThen
  <2>6. \A x \in 1..l - 1 : LeadsOn(cs, x)
    <3>1. \A x \in 1..l - 1 : x \in 1..Len(blocks)
      BY <1>2
    <3> QED
      BY <1>5, <2>5, <3>1, LeadsOnJoined
  <2>7. LeadsOn(cs, l)
    <3>1. l \in 1..Len(blocks) /\ blocks[l].succs = {} /\ Len(cs) \in cs[l].succs
      BY <1>2, <1>5, <2>1, <2>2 DEF OpenEnd
    <3> QED
      BY <1>5, <3>1, EndLeadsOn
  <2>8. \A x \in 1..m - 1 : x = l \/ x \in 1..l - 1
    BY <1>2
  <2>9. FlatBlocks(cs, gs, live')
    BY <1>1, <1>5, <1>6, <2>2, <2>6, <2>7, <2>8 DEF FlatBlocks
  <2> QED
    BY <2>3, <2>9
<1> QED
  BY <1>5, <1>7, <1>8, <1>9, <1>10 DEF VInv, Said, UnreachableJustified, VerdictExact

LEMMA EnterElseSays == ASSUME IInv, VInv, EnterElse PROVE VInv'
<1>1. /\ frames \in Seq(Frames) /\ frames # <<>> /\ blocks \in Seq(Blocks)
      /\ live \in BOOLEAN /\ Top.kind = "then" /\ live' = Top.live
      /\ InBody
  BY DEF EnterElse, InBody, IInv, Shapes
<1>2. PICK l \in Nat, m \in Nat : l = Len(blocks) /\ m = l + 1 /\ m = New
  BY <1>1, LenProperties DEF New
<1>3. PICK n \in Nat :
        /\ Len(frames) = n + 1 /\ Top = frames[n + 1] /\ Top \in Frames
        /\ Front(frames) \in Seq(Frames) /\ Len(Front(frames)) = n
        /\ \A j \in 1..n : Front(frames)[j] = frames[j]
  BY <1>1, Innermost
<1>4. PICK p \in Nat, b \in Nat : p = Top.pred /\ b = Top.block /\ p < b /\ b <= l
  BY <1>1, <1>2, Ending
<1>5. PICK cs : /\ cs = blocks' /\ Joined(blocks, cs) /\ ~cs[Len(cs)].returns
                /\ \A x \in 1..l : x # p => cs[x] = blocks[x]
  <2>1. blocks' = AddSuccessor(Append(blocks, NewBlock), p, m)
    BY <1>2, <1>4 DEF EnterElse
  <2>2. p <= Len(blocks)
    BY <1>2, <1>4
  <2> QED
    BY <1>1, <1>2, <2>1, <2>2, OneSuccessorAdded
<1>6. Len(cs) = m /\ cs[m].succs = {}
  BY <1>2, <1>5 DEF Joined
<1>7. PICK gs, f :
        /\ gs \in Seq(Frames) /\ gs = frames' /\ Len(gs) = n + 1 /\ gs[n + 1] = f
        /\ \A j \in 1..n : gs[j] = frames[j]
        /\ f.kind = "else" /\ f.pred = p /\ f.block = m
        /\ f.then = b /\ f.live = Top.live /\ f.thenLive = live
        /\ f.rets = Returns(b)
  <2>1. PICK f : f = [Top EXCEPT !.kind = "else", !.block = New, !.then = Top.block,
                                 !.rets = Returns(Top.block), !.thenLive = live]
    OBVIOUS
  <2>2. Returns(Top.block) \in BOOLEAN
    BY DEF Returns
  <2>3. /\ f \in Frames
        /\ f.kind = "else" /\ f.pred = p /\ f.block = m /\ f.then = Top.block
        /\ f.live = Top.live /\ f.thenLive = live /\ f.rets = Returns(Top.block)
    BY <1>1, <1>2, <1>3, <1>4, <2>1, <2>2 DEF Frames
  <2>4. frames' = Append(Front(frames), f)
    BY <2>1 DEF EnterElse
  <2>5. /\ frames' \in Seq(Frames) /\ Len(frames') = n + 1 /\ frames'[n + 1] = f
        /\ \A j \in 1..n : frames'[j] = Front(frames)[j]
    BY <1>3, <2>3, <2>4, PushedOn
  <2> QED
    BY <1>3, <1>4, <2>3, <2>5
<1>8. nesting' = nesting /\ report' = report
  BY DEF EnterElse
<1>9. \A j \in 1..n + 1 : j \in 1..n \/ j = n + 1
  OBVIOUS
<1>10. Counted(gs, nesting)
  BY <1>3, <1>7, <1>9 DEF VInv, Said, Counted
<1>11. OpenEnd(cs, live')
  BY <1>2, <1>5, <1>6 DEF OpenEnd
<1>12. ASSUME nesting = {}
       PROVE  FlatFrames(cs, gs) /\ FlatBlocks(cs, gs, live')
  <2>1. /\ FlatFrames(blocks, frames) /\ FlatBlocks(blocks, frames, live)
        /\ OpenEnd(blocks, live)
    BY <1>1, <1>12 DEF VInv, Said
  <2>2. n = 1 /\ Top.live /\ b = l
    BY <1>1, <1>2, <1>3, <1>4, <2>1 DEF FlatFrames, Branch
  <2>3. /\ b \in 1..l /\ b \in DOMAIN blocks /\ blocks[b].succs = {}
        /\ blocks[b].returns \in BOOLEAN /\ cs[b] = blocks[b]
        /\ live <=> ~blocks[b].returns
    <3>1. b \in 1..l /\ b # p
      BY <1>2, <1>4, <2>1, <2>2 DEF OpenEnd
    <3>2. blocks[b] \in Blocks /\ DOMAIN blocks = 1..l
      BY <1>1, <1>2, <3>1, LenProperties, ElementOfSeq
    <3> QED
      BY <1>2, <1>5, <2>1, <2>2, <3>1, <3>2 DEF OpenEnd, FlatBlocks, Blocks
  <2>4. Returns(b) <=> blocks[b].returns
    BY <2>3, EndReturns
  <2>5. Branch(cs, f)
    BY <1>2, <1>4, <1>6, <1>7, <2>2, <2>3, <2>4 DEF Branch
  <2>6. FlatFrames(cs, gs)
    <3>1. n + 1 = 2 /\ \A j \in 1..2 : j = 1 \/ j = 2
      BY <2>2
    <3>2. gs[1] = frames[1] /\ gs[2] = f /\ Len(gs) = 2
      BY <1>7, <2>2, <3>1
    <3> QED
      BY <1>7, <2>1, <2>5, <3>1, <3>2 DEF FlatFrames
  <2>7. \A j \in 1..Len(frames) : frames[j].kind # "else"
    BY <1>1, <1>3, <2>1, <2>2 DEF FlatFrames
  <2>8. \A x \in 1..l - 1 : LeadsOn(blocks, x)
    BY <1>2, <2>1, <2>7 DEF FlatBlocks, IsThen
  <2>9. \A x \in 1..l - 1 : LeadsOn(cs, x)
    <3>1. \A x \in 1..l - 1 : x \in 1..Len(blocks)
      BY <1>2
    <3> QED
      BY <1>5, <2>8, <3>1, LeadsOnJoined
  <2>10. IsThen(gs, l)
    BY <1>7, <2>2 DEF IsThen
  <2>11. \A x \in 1..m - 1 : x = l \/ x \in 1..l - 1
    BY <1>2
  <2>12. FlatBlocks(cs, gs, live')
    BY <1>1, <1>5, <1>6, <2>2, <2>9, <2>10, <2>11 DEF FlatBlocks
  <2> QED
    BY <2>6, <2>12
<1> QED
  BY <1>5, <1>7, <1>8, <1>10, <1>11, <1>12 DEF VInv, Said, UnreachableJustified, VerdictExact
LEMMA LeaveElseSays == ASSUME IInv, VInv, LeaveElse PROVE VInv'
<1>1. /\ frames \in Seq(Frames) /\ frames # <<>> /\ blocks \in Seq(Blocks)
      /\ live \in BOOLEAN /\ Top.kind = "else" /\ live' = (live \/ Top.thenLive)
      /\ Tracked(blocks, frames, live) /\ Last(graph) = Len(blocks) /\ InBody
  BY DEF LeaveElse, InBody, IInv, Shapes
<1>2. PICK l \in Nat, m \in Nat : l = Len(blocks) /\ m = l + 1 /\ m = New
  BY <1>1, LenProperties DEF New
<1>3. PICK n \in Nat, gs \in Seq(Frames) :
        /\ Len(frames) = n + 1 /\ Top = frames[n + 1] /\ Top \in Frames
        /\ gs = Front(frames) /\ Len(gs) = n
        /\ \A j \in 1..n : gs[j] = frames[j]
  BY <1>1, Innermost
<1>4. PICK p, b, t, ended, joins :
        /\ p \in Nat /\ b \in Nat /\ t \in Nat
        /\ p = Top.pred /\ b = Top.block /\ t = Top.then /\ ended = Returns(l)
        /\ joins = {p} \cup (IF Top.rets THEN {} ELSE {t}) \cup (IF ended THEN {} ELSE {b})
  BY <1>1, Ending
<1>5. PICK cs :
        /\ cs = blocks'
        /\ cs = IF Top.rets /\ ended THEN Append(blocks, ReturningBlock)
                ELSE Append(Leading(blocks, joins), NewBlock)
  BY <1>1, <1>2, <1>4 DEF LeaveElse, Leading
<1>6. /\ Joined(blocks, cs)
      /\ cs[Len(cs)].returns <=> Top.rets /\ ended
      /\ ~(Top.rets /\ ended) => \A x \in 1..l : x \in joins => Len(cs) \in cs[x].succs
  <2>1. CASE Top.rets /\ ended
    <3>1. ReturningBlock \in Blocks /\ ReturningBlock.returns /\ ReturningBlock.succs = {}
      BY DEF ReturningBlock, Blocks
    <3>2. cs = Append(blocks, ReturningBlock)
      BY <1>5, <2>1
    <3>3. /\ Len(blocks) \in Nat /\ cs \in Seq(Blocks)
          /\ Len(cs) = Len(blocks) + 1 /\ cs[Len(blocks) + 1] = ReturningBlock
          /\ \A i \in 1..Len(blocks) : cs[i] = blocks[i]
      BY <1>1, <3>1, <3>2, PushedOn
    <3> QED
      BY <1>1, <2>1, <3>1, <3>3 DEF Joined
  <2>2. CASE ~(Top.rets /\ ended)
    <3>1. cs = Append(Leading(blocks, joins), NewBlock)
      BY <1>5, <2>2
    <3> QED
      BY <1>1, <1>2, <2>2, <3>1, BranchesJoined
  <2> QED
    BY <2>1, <2>2
<1>7. Len(cs) = m /\ cs[m].succs = {}
  BY <1>2, <1>6 DEF Joined
<1>8. /\ frames' = gs /\ nesting' = nesting /\ report' = report
  BY <1>3 DEF LeaveElse
<1>9. Counted(gs, nesting)
  BY <1>3 DEF VInv, Said, Counted
<1>10. Top.rets => ~Top.thenLive
  BY <1>1, <1>3 DEF Tracked, Branches
<1>11. OpenEnd(blocks, live) =>
         /\ l \in 1..l /\ blocks[l].succs = {}
         /\ ended <=> blocks[l].returns
  <2> HAVE OpenEnd(blocks, live)
  <2>1. l \in 1..l
    BY <1>2 DEF OpenEnd
  <2>2. blocks[l] \in Blocks /\ DOMAIN blocks = 1..l
    BY <1>1, <1>2, <2>1, LenProperties, ElementOfSeq
  <2>3. l \in DOMAIN blocks /\ blocks[l].succs = {} /\ blocks[l].returns \in BOOLEAN
    BY <1>2, <2>1, <2>2 DEF OpenEnd, Blocks
  <2> QED
    BY <1>4, <2>1, <2>3, EndReturns
<1>12. "func" \notin nesting => OpenEnd(cs, live')
  <2> HAVE "func" \notin nesting
  <2>1. OpenEnd(blocks, live)
    BY <1>1 DEF VInv, Said
  <2>2. ended => ~live
    BY <1>2, <1>11, <2>1 DEF OpenEnd
  <2> QED
    BY <1>1, <1>2, <1>6, <1>7, <1>10, <2>2 DEF OpenEnd
<1>13. ASSUME nesting = {}
       PROVE  FlatFrames(cs, gs) /\ FlatBlocks(cs, gs, live')
  <2>1. /\ FlatFrames(blocks, frames) /\ FlatBlocks(blocks, frames, live)
        /\ OpenEnd(blocks, live)
    BY <1>1, <1>13 DEF VInv, Said
  <2>2. n = 1 /\ Branch(blocks, Top)
    BY <1>1, <1>3, <2>1 DEF FlatFrames
  <2>3. /\ b = l /\ t \in 1..l - 1 /\ blocks[t].succs = {}
        /\ Top.thenLive <=> ~blocks[t].returns
        /\ Top.rets <=> blocks[t].returns
    BY <1>1, <1>2, <1>4, <2>2 DEF Branch
  <2>4. l \in 1..l /\ blocks[l].succs = {} /\ (ended <=> blocks[l].returns)
    BY <1>11, <2>1
  <2>5. FlatFrames(cs, gs)
    BY <1>3, <2>1, <2>2 DEF FlatFrames
  <2>6. live' <=> ~cs[m].returns
    BY <1>1, <1>2, <1>6, <1>7, <2>1, <2>3, <2>4 DEF FlatBlocks
  <2>7. ASSUME NEW x \in 1..l, blocks[x].succs = {}, ~blocks[x].returns, x \in joins,
               ~(Top.rets /\ ended)
        PROVE  LeadsOn(cs, x)
    BY <1>2, <1>6, <2>7, EndLeadsOn
  <2>8. ASSUME NEW x \in 1..l, blocks[x].returns
        PROVE  LeadsOn(cs, x)
    BY <1>2, <1>6, <2>8 DEF LeadsOn, Joined
  <2>9. LeadsOn(cs, t)
    <3>1. t \in 1..l /\ (~blocks[t].returns => t \in joins)
      BY <1>4, <2>3
    <3> QED
      BY <2>3, <2>7, <2>8, <3>1
  <2>10. LeadsOn(cs, l)
    <3>1. ~blocks[l].returns => l \in joins
      BY <1>4, <2>3, <2>4
    <3> QED
      BY <2>4, <2>7, <2>8, <3>1
  <2>11. ASSUME NEW x \in 1..l - 1
         PROVE  LeadsOn(cs, x)
    <3>1. CASE LeadsOn(blocks, x)
      <4>1. x \in 1..Len(blocks)
        BY <1>2
      <4> QED
        BY <1>6, <3>1, <4>1, LeadsOnJoined
    <3>2. CASE IsThen(frames, x)
      <4>1. PICK j \in 1..Len(frames) : frames[j].kind = "else" /\ frames[j].then = x
        BY <3>2 DEF IsThen
      <4>2. j = n + 1
        BY <1>3, <2>1, <2>2, <4>1 DEF FlatFrames
      <4> QED
        BY <1>3, <1>4, <2>9, <4>1, <4>2
    <3> QED
      BY <1>2, <2>1, <3>1, <3>2 DEF FlatBlocks
  <2>12. \A x \in 1..m - 1 : x = l \/ x \in 1..l - 1
    BY <1>2
  <2>13. FlatBlocks(cs, gs, live')
    BY <1>7, <2>6, <2>10, <2>11, <2>12 DEF FlatBlocks
  <2> QED
    BY <2>5, <2>13
<1> QED
  BY <1>5, <1>8, <1>9, <1>12, <1>13 DEF VInv, Said, UnreachableJustified, VerdictExact

LEMMA VStep == IInv /\ VInv /\ [Next]_vars => VInv'
<1> SUFFICES ASSUME IInv, VInv, [Next]_vars PROVE VInv'
  OBVIOUS
<1>1. ASSUME NEW f \in Functions, GatherFunction(f) PROVE VInv'
  BY <1>1 DEF GatherFunction, VInv, UnreachableJustified, VerdictExact
<1>2. ASSUME NEW f \in Functions, NestedFunction(f) PROVE VInv'
  BY <1>2, NestedFunctionSays
<1>3. CASE GatherClass
  BY <1>3 DEF GatherClass, VInv, UnreachableJustified, VerdictExact
<1>4. CASE Gathered
  BY <1>4 DEF Gathered, VInv, UnreachableJustified, VerdictExact
<1>5. CASE Unreachable
  <2>1. "func" \notin nesting => ~live
    BY <1>5 DEF Unreachable, InBody, Blocked, VInv, Said, OpenEnd, IInv, Shapes
  <2> QED
    BY <1>5, <2>1 DEF Unreachable, Report, VInv, UnreachableJustified, VerdictExact
<1>6. CASE PlainStmt
  <2>1. nesting = {} => live
    BY <1>6 DEF PlainStmt, InBody, Blocked, VInv, Said, FlatBlocks, IInv, Shapes
  <2> QED
    BY <1>6, <2>1 DEF PlainStmt, Report, VInv, UnreachableJustified, VerdictExact
<1>7. CASE Finish
  BY <1>7 DEF Finish, VInv, UnreachableJustified, VerdictExact
<1>8. CASE UNCHANGED vars
  BY <1>8 DEF vars, VInv, UnreachableJustified, VerdictExact
<1>9. CASE AnalyzeFunction
  BY <1>9, AnalyzeFunctionSays
<1>10. CASE NestedClass
  BY <1>10, NestedClassSays
<1>11. CASE LeaveClass
  BY <1>11, LeaveClassSays
<1>12. CASE LeaveFunction
  BY <1>12, LeaveFunctionSays
<1>13. CASE ReturnStmt
  BY <1>13, ReturnStmtSays
<1>14. CASE EnterThen
  BY <1>14, EnterThenSays
<1>15. CASE LeaveIf
  BY <1>15, LeaveIfSays
<1>16. CASE EnterElse
  BY <1>16, EnterElseSays
<1>17. CASE LeaveElse
  BY <1>17, LeaveElseSays
<1> QED
  BY <1>1, <1>2, <1>3, <1>4, <1>5, <1>6, <1>7, <1>8, <1>9, <1>10, <1>11, <1>12,
     <1>13, <1>14, <1>15, <1>16, <1>17 DEF Next

LEMMA Verdicts == Spec => [](IInv /\ VInv)
<1>1. Init => IInv /\ VInv
  BY Start1, VStart
<1>2. (IInv /\ VInv) /\ [Next]_vars => (IInv /\ VInv)'
  BY Step1, VStep
<1> QED
  BY <1>1, <1>2, PTL DEF Spec

(* A statement is called unreachable only where control cannot get, in a function
   that has had no other within it, however its ifs are nested
   (reachability.cc:7-11, 37-38). *)
THEOREM UnreachableIsDead == Spec => []UnreachableJustified
<1>1. VInv => UnreachableJustified
  BY DEF VInv
<1> QED
  BY <1>1, Verdicts, PTL

(* Without nesting, the verdict on every statement and every function is exact:
   what gets past the check can be reached, and a rejected function has a path
   that does not return (reachability.cc:60-63, 104-110). *)
THEOREM VerdictsExact == Spec => []VerdictExact
<1>1. VInv => VerdictExact
  BY DEF VInv
<1> QED
  BY <1>1, Verdicts, PTL

-----------------------------------------------------------------------------
(* The blocks of the emitted code. *)

Nests == [kind : {"while", "then", "else"}, merges : BOOLEAN, post : Nat,
          live : BOOLEAN, thenLive : BOOLEAN]

\* Can control get to statement i of the loop, or behind the last?
At(is, lv, i) == IF i = 1 THEN lv ELSE is[i - 1].live

\* Control gets to every statement in progress; a merge is remembered where the
\* first branch falls through; the blocks behind the loops differ.
Loops(is, lv) ==
  /\ is \in Seq(Nests)
  /\ \A i \in 1..Len(is) :
       /\ At(is, lv, i)
       /\ i = 1 => is[i].kind = "while"
       /\ is[i].kind = "while" <=> is[i].post # 0
       /\ is[i].merges <=> is[i].kind = "else" /\ is[i].thenLive
  /\ \A i, j \in 1..Len(is) : is[i].post = is[j].post /\ is[i].post # 0 => i = j

\* The same for the ifs both passes are inside of.
Ifs(fs, ms) ==
  /\ ms \in Seq(BOOLEAN) /\ Len(fs) = Len(ms) + 1
  /\ fs[1].kind = "func"
  /\ \A j \in 1..Len(ms) : /\ fs[j + 1].kind \in {"then", "else"}
                           /\ fs[j + 1].live
                           /\ ms[j] <=> fs[j + 1].kind = "else" /\ fs[j + 1].thenLive

PostsOf(is) == {is[i].post : i \in 1..Len(is)} \ {0}

\* The insertion block is open where control can get.
Placed(us, b, is, lv) ==
  /\ b \in Nat \ {0} /\ b \notin PostsOf(is)
  /\ us = PostsOf(is) \cup (IF At(is, lv, Len(is) + 1) THEN {b} ELSE {})

Emitted ==
  plain /\ frames # <<>> =>
    /\ ~misplaced /\ report.kind # "accepted"
    /\ Loops(inner, live)
    /\ Ifs(frames, merges)
    /\ Placed(unterminated, insert, inner, live)

FInv ==
  /\ inner # <<>> => frames # <<>>
  /\ Emitted
  /\ AcceptedIsTerminated

-----------------------------------------------------------------------------
LEMMA UnusedIsNew ==
  ASSUME NEW S \in SUBSET Nat, IsFiniteSet(S)
  PROVE  Unused(S) \in Nat \ {0} /\ Unused(S) \notin S
<1>0. Cardinality(S) \in Nat
  BY FS_CardinalityType, Zenon
<1>1. PICK c \in Nat : c = Cardinality(S)
  BY <1>0
<1>2. PICK T : T = (1..c + 1) \ S
  OBVIOUS
<1>a. T \in SUBSET Nat
  BY <1>2
<1>3. T # {}
  <2> SUFFICES ASSUME T = {}
               PROVE  FALSE
    OBVIOUS
  <2>1. 1..c + 1 \in SUBSET S
    BY <1>2
  <2>2. Cardinality(1..c + 1) <= c
    BY <1>1, <2>1, FS_Subset
  <2>3. Cardinality(1..c + 1) = c + 1
    <3>1. 1 \in Int /\ c + 1 \in Int /\ ~(1 > c + 1)
      OBVIOUS
    <3> QED
      BY <3>1, FS_Interval
  <2> QED
    BY <2>2, <2>3
<1>4. Min(T) \in T
  BY <1>3, <1>a, MinOfNaturals
<1> QED
  BY <1>1, <1>2, <1>4 DEF Unused

LEMMA FinitePosts ==
  ASSUME NEW is \in Seq(Nests)
  PROVE  LET P == {is[i].post : i \in 1..Len(is)}
         IN  P \in SUBSET Nat /\ IsFiniteSet(P)
<1> DEFINE P == {is[i].post : i \in 1..Len(is)}
           f == [i \in 1..Len(is) |-> is[i].post]
<1>1. Len(is) \in Nat /\ \A i \in 1..Len(is) : is[i] \in Nests
  BY LenProperties, ElementOfSeq
<1>2. P \in SUBSET Nat
  BY <1>1 DEF Nests
<1>3. f \in Surjection(1..Len(is), P)
  BY DEF Surjection
<1>4. IsFiniteSet(1..Len(is))
  BY <1>1, FS_Interval
<1> HIDE DEF P, f
<1>5. IsFiniteSet(P)
  BY <1>3, <1>4, FS_Surjection
<1> QED
  BY <1>2, <1>5 DEF P

LEMMA FreshBlocks ==
  ASSUME Loops(inner, live), Placed(unterminated, insert, inner, live)
  PROVE  /\ Fresh \in Nat \ {0} /\ Behind \in Nat \ {0} /\ Fresh # Behind
         /\ Fresh \notin PostsOf(inner) /\ Behind \notin PostsOf(inner)
<1> DEFINE P == {inner[i].post : i \in 1..Len(inner)}
<1>1. inner \in Seq(Nests) /\ insert \in Nat
  BY DEF Loops, Placed
<1>2. P \in SUBSET Nat /\ IsFiniteSet(P)
  BY <1>1, FinitePosts
<1>3. DOMAIN inner = 1..Len(inner)
  BY <1>1, LenProperties
<1>4. Used = P \cup {insert}
  BY <1>3 DEF Used, Placed, PostsOf
<1>5. PostsOf(inner) \subseteq Used
  BY <1>4 DEF PostsOf
<1> HIDE DEF P
<1>6. Used \in SUBSET Nat /\ IsFiniteSet(Used)
  BY <1>1, <1>2, <1>4, FS_AddElement
<1>7. Fresh \in Nat \ {0} /\ Fresh \notin Used
  BY <1>6, UnusedIsNew DEF Fresh
<1>8. Used \cup {Fresh} \in SUBSET Nat /\ IsFiniteSet(Used \cup {Fresh})
  BY <1>6, <1>7, FS_AddElement
<1>9. Behind \in Nat \ {0} /\ Behind \notin Used \cup {Fresh}
  <2>1. PICK S \in SUBSET Nat : S = Used \cup {Fresh} /\ IsFiniteSet(S)
    BY <1>8
  <2>2. Unused(S) \in Nat \ {0} /\ Unused(S) \notin S
    BY <2>1, UnusedIsNew
  <2> QED
    BY <2>1, <2>2 DEF Behind
<1> QED
  BY <1>5, <1>7, <1>9

-----------------------------------------------------------------------------
(* Statements in a loop begin and end. *)

LEMMA NestPushed ==
  ASSUME NEW is, NEW lv, Loops(is, lv), At(is, lv, Len(is) + 1),
         NEW e \in Nests, Len(is) = 0 => e.kind = "while",
         e.kind = "while" <=> e.post # 0,
         e.merges <=> e.kind = "else" /\ e.thenLive,
         e.post \notin PostsOf(is)
  PROVE  /\ Loops(Append(is, e), lv)
         /\ PostsOf(Append(is, e)) = PostsOf(is) \cup ({e.post} \ {0})
         /\ At(Append(is, e), lv, Len(Append(is, e)) + 1) <=> e.live
<1>1. is \in Seq(Nests)
  BY DEF Loops
<1>2. PICK n \in Nat, js \in Seq(Nests) :
        /\ n = Len(is) /\ js = Append(is, e) /\ Len(js) = n + 1 /\ js[n + 1] = e
        /\ \A i \in 1..n : js[i] = is[i]
  <2>1. /\ Len(is) \in Nat /\ Append(is, e) \in Seq(Nests)
        /\ Len(Append(is, e)) = Len(is) + 1 /\ Append(is, e)[Len(is) + 1] = e
        /\ \A i \in 1..Len(is) : Append(is, e)[i] = is[i]
    BY <1>1, PushedOn
  <2> QED
    BY <2>1
<1>3. \A i \in 1..n + 1 : i \in 1..n \/ i = n + 1
  OBVIOUS
<1>4. ASSUME NEW i \in 1..n + 1
      PROVE  At(js, lv, i) <=> At(is, lv, i)
  <2>1. i # 1 => i - 1 \in 1..n
    OBVIOUS
  <2> QED
    BY <1>2, <2>1 DEF At
<1>5. \A i \in 1..n + 1 : At(js, lv, i)
  BY <1>2, <1>3, <1>4 DEF Loops
<1>6. ASSUME NEW i \in 1..n + 1
      PROVE  /\ i = 1 => js[i].kind = "while"
             /\ js[i].kind = "while" <=> js[i].post # 0
             /\ js[i].merges <=> js[i].kind = "else" /\ js[i].thenLive
  <2>1. CASE i \in 1..n
    BY <1>2, <2>1 DEF Loops
  <2>2. CASE i = n + 1
    BY <1>2, <2>2
  <2> QED
    BY <1>3, <2>1, <2>2
<1>7. \A i \in 1..n : is[i].post # 0 => is[i].post # e.post
  BY <1>2 DEF PostsOf
<1>8. ASSUME NEW i \in 1..n + 1, NEW j \in 1..n + 1, js[i].post = js[j].post, js[i].post # 0
      PROVE  i = j
  <2>1. \A k \in 1..n : js[k].post = is[k].post
    BY <1>2
  <2>2. js[n + 1].post = e.post
    BY <1>2
  <2>3. CASE i \in 1..n /\ j \in 1..n
    BY <1>2, <1>8, <2>1, <2>3 DEF Loops
  <2>4. CASE i = n + 1 \/ j = n + 1
    BY <1>3, <1>7, <1>8, <2>1, <2>2, <2>4
  <2> QED
    BY <1>3, <2>3, <2>4
<1>9. Loops(js, lv)
  BY <1>2, <1>5, <1>6, <1>8 DEF Loops
<1>10. PostsOf(js) = PostsOf(is) \cup ({e.post} \ {0})
  <2>1. ASSUME NEW x
        PROVE  (\E i \in 1..n + 1 : x = js[i].post)
                 <=> x = e.post \/ \E i \in 1..n : x = is[i].post
    <3>1. ASSUME NEW i \in 1..n, x = is[i].post
          PROVE  \E k \in 1..n + 1 : x = js[k].post
      BY <1>2, <3>1
    <3>2. ASSUME NEW i \in 1..n + 1, x = js[i].post
          PROVE  x = e.post \/ \E k \in 1..n : x = is[k].post
      BY <1>2, <1>3, <3>2
    <3>3. n + 1 \in 1..n + 1
      OBVIOUS
    <3> QED
      BY <1>2, <3>1, <3>2, <3>3
  <2> QED
    BY <1>2, <2>1 DEF PostsOf
<1>11. At(js, lv, n + 2) <=> e.live
  <2>1. n + 2 # 1 /\ n + 2 - 1 = n + 1
    OBVIOUS
  <2> QED
    BY <1>2, <2>1 DEF At
<1> QED
  BY <1>2, <1>9, <1>10, <1>11

LEMMA NestPopped ==
  ASSUME NEW is, NEW lv, Loops(is, lv), is # <<>>
  PROVE  /\ Loops(Front(is), lv) /\ At(Front(is), lv, Len(Front(is)) + 1)
         /\ PostsOf(Front(is)) = PostsOf(is) \ {Last(is).post}
         /\ Last(is) \in Nests
         /\ At(is, lv, Len(is) + 1) <=> Last(is).live
         /\ Last(is).kind = "while" <=> Last(is).post # 0
         /\ Last(is).merges <=> Last(is).kind = "else" /\ Last(is).thenLive
         /\ Last(is).kind # "while" => Front(is) # <<>> /\ Last(Front(is)).live
<1>1. is \in Seq(Nests)
  BY DEF Loops
<1>2. PICK n \in Nat, js \in Seq(Nests), e \in Nests :
        /\ Len(is) = n + 1 /\ js = Front(is) /\ Len(js) = n
        /\ \A i \in 1..n : js[i] = is[i]
        /\ e = Last(is) /\ e = is[n + 1]
  <2>1. /\ Front(is) \in Seq(Nests) /\ Last(is) \in Nests /\ Last(is) = is[Len(is)]
        /\ Len(is) \in Nat \ {0} /\ Len(Front(is)) = Len(is) - 1
        /\ \A i \in 1..Len(is) - 1 : Front(is)[i] = is[i]
    BY <1>1, PoppedOff
  <2>2. PICK n \in Nat : Len(is) = n + 1 /\ Len(is) - 1 = n
    BY <2>1
  <2> QED
    BY <2>1, <2>2
<1>3. \A i \in 1..n + 1 : i \in 1..n \/ i = n + 1
  OBVIOUS
<1>4. ASSUME NEW i \in 1..n + 1
      PROVE  At(js, lv, i)
  <2>1. i # 1 => i - 1 \in 1..n
    OBVIOUS
  <2>2. At(is, lv, i)
    BY <1>2 DEF Loops
  <2> QED
    BY <1>2, <2>1, <2>2 DEF At
<1>5. Loops(js, lv)
  <2>1. \A i \in 1..n : i \in 1..n + 1
    OBVIOUS
  <2> QED
    BY <1>2, <1>4, <2>1 DEF Loops
<1>6. PostsOf(js) = PostsOf(is) \ {e.post}
  <2>1. \A i \in 1..n : i \in 1..n + 1 /\ i # n + 1
    OBVIOUS
  <2>2. n + 1 \in 1..n + 1
    OBVIOUS
  <2>3. \A i \in 1..n : is[i].post # 0 => is[i].post # e.post
    BY <1>2, <2>1, <2>2 DEF Loops
  <2>4. PostsOf(js) \subseteq PostsOf(is) \ {e.post}
    BY <1>2, <2>1, <2>3 DEF PostsOf
  <2>5. PostsOf(is) \ {e.post} \subseteq PostsOf(js)
    BY <1>2, <1>3 DEF PostsOf
  <2> QED
    BY <2>4, <2>5
<1>7. At(is, lv, n + 2) <=> e.live
  <2>1. n + 2 # 1 /\ n + 2 - 1 = n + 1
    OBVIOUS
  <2> QED
    BY <1>2, <2>1 DEF At
<1>8. n + 1 \in 1..n + 1
  OBVIOUS
<1>9. /\ e.kind = "while" <=> e.post # 0
      /\ e.merges <=> e.kind = "else" /\ e.thenLive
      /\ n + 1 = 1 => e.kind = "while"
  BY <1>2, <1>8 DEF Loops
<1>10. ASSUME e.kind # "while"
       PROVE  js # <<>> /\ Last(js).live
  <2>1. n # 0
    BY <1>9, <1>10
  <2>2. At(js, lv, n + 1)
    BY <1>4, <1>8
  <2>3. js # <<>> /\ n + 1 # 1 /\ n + 1 - 1 = n
    BY <1>2, <2>1, EmptySeq
  <2> QED
    BY <1>2, <2>2, <2>3 DEF At, Last
<1> QED
  BY <1>2, <1>4, <1>5, <1>6, <1>7, <1>8, <1>9, <1>10

\* What follows the innermost statement can be reached, or not.
LEMMA NestFlows ==
  ASSUME NEW is, NEW lv, Loops(is, lv), is # <<>>, NEW b \in BOOLEAN
  PROVE  /\ Loops(Flows(is, b), lv) /\ PostsOf(Flows(is, b)) = PostsOf(is)
         /\ At(Flows(is, b), lv, Len(Flows(is, b)) + 1) <=> b
<1>1. is \in Seq(Nests)
  BY DEF Loops
<1>2. PICK n \in Nat : n > 0 /\ Len(is) = n
  BY <1>1, EmptySeq
<1>3. PICK js : js = Flows(is, b)
  OBVIOUS
<1>4. /\ DOMAIN is = 1..n /\ DOMAIN js = 1..n
      /\ \A i \in 1..n : i # n => js[i] = is[i]
      /\ js[n] = [is[n] EXCEPT !.live = b]
  <2>1. DOMAIN is = 1..n /\ n \in 1..n
    BY <1>1, <1>2, LenProperties
  <2> QED
    BY <1>2, <1>3, <2>1 DEF Flows
<1>5. \A i \in 1..n : is[i] \in Nests
  BY <1>1, <1>2, ElementOfSeq
<1>6. ASSUME NEW i \in 1..n
      PROVE  /\ js[i] \in Nests /\ js[i].kind = is[i].kind /\ js[i].post = is[i].post
             /\ js[i].merges = is[i].merges /\ js[i].thenLive = is[i].thenLive
             /\ i # n => js[i].live = is[i].live
             /\ i = n => js[i].live = b
  <2>1. CASE i = n
    BY <1>4, <1>5, <2>1 DEF Nests
  <2>2. CASE i # n
    BY <1>4, <1>5, <2>2
  <2> QED
    BY <2>1, <2>2
<1>7. js \in Seq(Nests) /\ Len(js) = n
  <2>1. js = [i \in 1..n |-> js[i]]
    BY <1>3, <1>4 DEF Flows
  <2>2. js \in [1..n -> Nests]
    BY <1>6, <2>1
  <2> QED
    BY <2>2, FunctionIsSeq
<1>8. ASSUME NEW i \in 1..n
      PROVE  At(js, lv, i) <=> At(is, lv, i)
  <2>1. i # 1 => i - 1 \in 1..n /\ i - 1 # n
    OBVIOUS
  <2> QED
    BY <1>6, <2>1 DEF At
<1>9. Loops(js, lv)
  BY <1>2, <1>6, <1>7, <1>8 DEF Loops
<1>10. PostsOf(js) = PostsOf(is)
  BY <1>2, <1>6, <1>7 DEF PostsOf
<1>11. At(js, lv, n + 1) <=> b
  <2>1. n + 1 # 1 /\ n + 1 - 1 = n /\ n \in 1..n
    BY <1>2
  <2> QED
    BY <1>6, <2>1 DEF At
<1> QED
  BY <1>3, <1>7, <1>9, <1>10, <1>11

-----------------------------------------------------------------------------
(* Steps. *)

\* A function in progress that has had no dead code.
Ready == IInv /\ FInv /\ plain /\ frames # <<>>

LEMMA ReadyFacts ==
  ASSUME Ready
  PROVE  /\ ~misplaced /\ Loops(inner, live) /\ Ifs(frames, merges)
         /\ Placed(unterminated, insert, inner, live)
         /\ Control <=> At(inner, live, Len(inner) + 1)
         /\ insert # 0 /\ insert \in Nat
         /\ Falls <=> Control
         /\ Terminated = PostsOf(inner)
         /\ Fresh \in Nat \ {0} /\ Behind \in Nat \ {0} /\ Fresh # Behind
         /\ Fresh \notin PostsOf(inner) /\ Behind \notin PostsOf(inner)
<1>1. /\ ~misplaced /\ Loops(inner, live) /\ Ifs(frames, merges)
      /\ Placed(unterminated, insert, inner, live)
  BY DEF Ready, FInv, Emitted
<1>2. Control <=> At(inner, live, Len(inner) + 1)
  <2>1. CASE inner = <<>>
    BY <2>1 DEF Control, At
  <2>2. CASE inner # <<>>
    <3>1. At(inner, live, Len(inner) + 1) <=> Last(inner).live
      BY <1>1, <2>2, NestPopped
    <3> QED
      BY <2>2, <3>1 DEF Control
  <2> QED
    BY <2>1, <2>2
<1>3. insert \in Nat \ {0} /\ insert \notin PostsOf(inner)
  BY <1>1 DEF Placed
<1>4. (Falls <=> Control) /\ Terminated = PostsOf(inner)
  BY <1>1, <1>2, <1>3 DEF Placed, Falls, Terminated
<1> QED
  BY <1>1, <1>2, <1>3, <1>4, FreshBlocks

LEMMA NoPosts == PostsOf(<<>>) = {} /\ \A lv : Loops(<<>>, lv) /\ (At(<<>>, lv, Len(<<>>) + 1) <=> lv)
<1>1. Len(<<>>) = 0 /\ <<>> \in Seq(Nests) /\ 0 + 1 = 1
  OBVIOUS
<1> QED
  BY <1>1 DEF PostsOf, Loops, At

LEMMA EmitFunctionKeeps == ASSUME EmitFunction PROVE FInv'
<1>1. PICK f : EnterFunction(f, <<>>)
  BY DEF EmitFunction, AnalyzeFunction
<1>2. frames' = <<Frame("func", 0, 1, f)>>
  <2>1. Len(<<NewBlock>>) = 1 /\ Append(<<>>, NewBlock) = <<NewBlock>>
    OBVIOUS
  <2> QED
    BY <1>1, <2>1 DEF EnterFunction, EmitFunction, AnalyzeFunction
<1>3. /\ live' = TRUE /\ inner' = <<>> /\ merges' = <<>> /\ ~misplaced'
      /\ unterminated' = {1} /\ insert' = 1 /\ report'.kind = "reached"
  BY <1>1 DEF EnterFunction, EmitFunction, AnalyzeFunction, NothingSaid
<1>4. Ifs(frames', merges')
  <2>1. Len(frames') = 1 /\ frames'[1].kind = "func"
    BY <1>2 DEF Frame
  <2>2. Len(<<>>) = 0 /\ <<>> \in Seq(BOOLEAN)
    OBVIOUS
  <2> QED
    BY <1>3, <2>1, <2>2 DEF Ifs
<1>5. Loops(inner', live') /\ Placed(unterminated', insert', inner', live')
  <2>1. PICK lv : lv = live' /\ lv = TRUE
    BY <1>3
  <2>2. Loops(<<>>, lv) /\ At(<<>>, lv, Len(<<>>) + 1)
    BY <2>1, NoPosts
  <2>3. Placed({1}, 1, <<>>, lv)
    BY <2>2, NoPosts DEF Placed
  <2> QED
    BY <1>3, <2>1, <2>2, <2>3
<1>6. AcceptedIsTerminated'
  BY <1>3 DEF AcceptedIsTerminated
<1> QED
  BY <1>3, <1>4, <1>5, <1>6 DEF FInv, Emitted

LEMMA EmitPlainStmtKeeps == ASSUME IInv, FInv, EmitPlainStmt PROVE FInv'
<1>1. /\ frames' = frames /\ frames # <<>> /\ inner = <<>> /\ live' = live
      /\ inner' = inner /\ merges' = merges /\ insert' = insert
      /\ unterminated' = unterminated /\ report'.kind = "reached"
  BY DEF EmitPlainStmt, PlainStmt, Report, InBody, Lost, emission
<1>2. ASSUME plain'
      PROVE  ~misplaced' /\ plain
  <2>1. plain
    BY <1>2 DEF EmitPlainStmt, Lost, emission, Follows
  <2>2. Ready
    BY <1>1, <2>1 DEF Ready
  <2>3. misplaced' = (misplaced \/ ~Falls) /\ Control
    BY <1>2, <2>2, ReadyFacts DEF EmitPlainStmt, Lost, Append1, Follows, Falls
  <2> QED
    BY <2>1, <2>2, <2>3, ReadyFacts
<1>3. Emitted'
  BY <1>1, <1>2 DEF FInv, Emitted
<1> QED
  BY <1>1, <1>3 DEF FInv, AcceptedIsTerminated

LEMMA EmitReturnKeeps == ASSUME IInv, FInv, EmitReturn PROVE FInv'
<1>1. /\ frames' = frames /\ frames # <<>> /\ inner = <<>> /\ live' = FALSE
      /\ inner' = inner /\ report'.kind = "reached"
  BY DEF EmitReturn, ReturnStmt, Report, InBody, Lost, emission
<1>2. ASSUME plain'
      PROVE  /\ ~misplaced' /\ Loops(inner', live') /\ Ifs(frames', merges')
             /\ Placed(unterminated', insert', inner', live')
  <2>1. plain
    BY <1>2 DEF EmitReturn, Lost, emission, Follows
  <2>2. Ready
    BY <1>1, <2>1 DEF Ready
  <2>3. /\ misplaced' = (misplaced \/ ~Falls) /\ Control
        /\ unterminated' = Terminated /\ insert' = insert /\ merges' = merges
    BY <1>2, <2>2, ReadyFacts DEF EmitReturn, Lost, Append1, Follows, Falls
  <2>4. ~misplaced' /\ Ifs(frames', merges') /\ unterminated' = {}
    BY <1>1, <2>2, <2>3, ReadyFacts, NoPosts
  <2>5. insert' \in Nat \ {0}
    BY <2>2, <2>3, ReadyFacts
  <2>6. PICK lv : lv = live' /\ lv = FALSE
    BY <1>1
  <2> QED
    BY <1>1, <2>4, <2>5, <2>6, NoPosts DEF Placed
<1> QED
  BY <1>1, <1>2 DEF FInv, Emitted, AcceptedIsTerminated

\* The ifs after one more, or the second branch of one.
LEMMA IfPushed ==
  ASSUME NEW fs \in Seq(Frames), NEW ns, Ifs(fs, ns), NEW gs \in Seq(Frames), NEW n \in Nat,
         Len(fs) = n, Len(gs) = n + 1, \A j \in 1..n : gs[j] = fs[j],
         gs[n + 1].kind \in {"then", "else"}, gs[n + 1].live, NEW b \in BOOLEAN,
         b <=> gs[n + 1].kind = "else" /\ gs[n + 1].thenLive
  PROVE  Ifs(gs, Append(ns, b))
<1>1. ns \in Seq(BOOLEAN)
  BY DEF Ifs
<1>2. PICK m \in Nat, ms \in Seq(BOOLEAN) :
        /\ m = Len(ns) /\ ms = Append(ns, b) /\ Len(ms) = m + 1 /\ n = m + 1
        /\ ms[m + 1] = b /\ \A j \in 1..m : ms[j] = ns[j]
  <2>1. /\ Len(ns) \in Nat /\ Append(ns, b) \in Seq(BOOLEAN)
        /\ Len(Append(ns, b)) = Len(ns) + 1 /\ Append(ns, b)[Len(ns) + 1] = b
        /\ \A i \in 1..Len(ns) : Append(ns, b)[i] = ns[i]
    BY <1>1, PushedOn
  <2> QED
    BY <2>1 DEF Ifs
<1>3. ASSUME NEW j \in 1..m + 1
      PROVE  /\ gs[j + 1].kind \in {"then", "else"} /\ gs[j + 1].live
             /\ ms[j] <=> gs[j + 1].kind = "else" /\ gs[j + 1].thenLive
  <2>1. CASE j \in 1..m
    <3>1. j + 1 \in 1..n /\ j \in 1..Len(ns)
      BY <1>2, <2>1
    <3>2. gs[j + 1] = fs[j + 1] /\ ms[j] = ns[j]
      BY <1>2, <2>1, <3>1
    <3> QED
      BY <3>1, <3>2 DEF Ifs
  <2>2. CASE j = m + 1
    <3>1. gs[j + 1] = gs[n + 1] /\ ms[j] = b
      BY <1>2, <2>2
    <3> QED
      BY <3>1
  <2> QED
    BY <2>1, <2>2
<1>4. gs[1].kind = "func"
  BY <1>2 DEF Ifs
<1> QED
  BY <1>2, <1>3, <1>4 DEF Ifs

\* The ifs without the innermost.
LEMMA IfPopped ==
  ASSUME frames \in Seq(Frames), frames # <<>>, Ifs(frames, merges), Top.kind # "func"
  PROVE  /\ merges # <<>> /\ Last(merges) \in BOOLEAN
         /\ Front(frames) # <<>> /\ Ifs(Front(frames), Front(merges))
         /\ Top.live /\ Top.kind \in {"then", "else"}
         /\ Last(merges) <=> Top.kind = "else" /\ Top.thenLive
<1>1. merges \in Seq(BOOLEAN)
  BY DEF Ifs
<1>2. PICK n \in Nat, gs \in Seq(Frames) :
        /\ Len(frames) = n + 1 /\ Top = frames[n + 1]
        /\ gs = Front(frames) /\ Len(gs) = n
        /\ \A j \in 1..n : gs[j] = frames[j]
  BY Innermost
<1>3. n = Len(merges) /\ n # 0
  BY <1>1, <1>2, LenProperties DEF Ifs
<1>4. merges # <<>> /\ gs # <<>>
  BY <1>2, <1>3, EmptySeq
<1>5. PICK m \in Nat, ms \in Seq(BOOLEAN) :
        /\ m + 1 = n /\ ms = Front(merges) /\ Len(ms) = m
        /\ Last(merges) = merges[n] /\ Last(merges) \in BOOLEAN
        /\ \A j \in 1..m : ms[j] = merges[j]
  <2>1. /\ Front(merges) \in Seq(BOOLEAN) /\ Last(merges) \in BOOLEAN
        /\ Last(merges) = merges[Len(merges)]
        /\ Len(Front(merges)) = Len(merges) - 1
        /\ \A i \in 1..Len(merges) - 1 : Front(merges)[i] = merges[i]
    BY <1>1, <1>4, PoppedOff
  <2>2. PICK m \in Nat : m + 1 = n /\ Len(merges) - 1 = m
    BY <1>3
  <2> QED
    BY <1>3, <2>1, <2>2
<1>6. n \in 1..n /\ \A j \in 1..m : j \in 1..n /\ j + 1 \in 1..n
  BY <1>3, <1>5
<1>7. Ifs(gs, ms)
  <2>1. \A j \in 1..m : gs[j + 1] = frames[j + 1] /\ ms[j] = merges[j]
    BY <1>2, <1>5, <1>6
  <2>2. gs[1].kind = "func"
    BY <1>2, <1>3 DEF Ifs
  <2>3. ASSUME NEW j \in 1..m
        PROVE  /\ gs[j + 1].kind \in {"then", "else"} /\ gs[j + 1].live
               /\ ms[j] <=> gs[j + 1].kind = "else" /\ gs[j + 1].thenLive
    <3>1. gs[j + 1] = frames[j + 1] /\ ms[j] = merges[j] /\ j \in 1..Len(merges)
      BY <1>3, <1>6, <2>1
    <3> QED
      BY <3>1 DEF Ifs
  <2> QED
    BY <1>2, <1>5, <2>2, <2>3 DEF Ifs
<1>8. /\ Top.live /\ Top.kind \in {"then", "else"}
      /\ Last(merges) <=> Top.kind = "else" /\ Top.thenLive
  BY <1>2, <1>3, <1>5, <1>6 DEF Ifs
<1> QED
  BY <1>2, <1>4, <1>5, <1>7, <1>8

\* The insertion block is a new one, in a program without loops in progress.
LEMMA Started ==
  ASSUME NEW b \in Nat \ {0}, NEW lv \in BOOLEAN
  PROVE  Placed(IF lv THEN {b} ELSE {}, b, <<>>, lv)
  BY NoPosts DEF Placed

LEMMA EmitThenKeeps == ASSUME IInv, FInv, EmitThen PROVE FInv'
<1>1. /\ inner = <<>> /\ inner' = inner /\ live' = live /\ frames # <<>>
      /\ frames \in Seq(Frames) /\ live \in BOOLEAN
      /\ graph # <<>> /\ Last(graph) = Len(blocks) /\ blocks \in Seq(Blocks)
  BY DEF EmitThen, EnterThen, InBody, Lost, emission, IInv, Shapes
<1>2. PICK p \in Nat, m \in Nat : p = Last(graph) /\ m = New
  BY <1>1, LenProperties DEF New
<1>3. PICK n \in Nat, gs \in Seq(Frames) :
        /\ gs = frames' /\ n = Len(frames) /\ Len(gs) = n + 1
        /\ \A j \in 1..n : gs[j] = frames[j]
        /\ gs[n + 1].kind = "then" /\ gs[n + 1].live = live
  <2>1. frames' = Append(frames, Frame("then", p, m, NoFn)) /\ NoFn \in Functions
    BY <1>2 DEF EmitThen, EnterThen, NoFn, Functions
  <2>2. /\ frames' \in Seq(Frames) /\ Len(frames) \in Nat /\ Len(frames') = Len(frames) + 1
        /\ \A j \in 1..Len(frames) : frames'[j] = frames[j]
        /\ frames'[Len(frames) + 1] = Frame("then", p, m, NoFn)
    BY <1>1, <2>1, FramePushed
  <2>3. PICK f : f = Frame("then", p, m, NoFn)
    OBVIOUS
  <2>4. f.kind = "then" /\ f.live = live
    BY <2>3 DEF Frame
  <2> QED
    BY <2>2, <2>3, <2>4
<1>4. gs # <<>>
  BY <1>3, EmptySeq
<1>5. ASSUME plain'
      PROVE  /\ ~misplaced' /\ Loops(inner', live') /\ Ifs(frames', merges')
             /\ Placed(unterminated', insert', inner', live')
  <2>1. plain
    BY <1>5 DEF EmitThen, Lost, emission, Follows
  <2>2. Ready
    BY <1>1, <2>1 DEF Ready
  <2>3. /\ misplaced' = (misplaced \/ ~Falls) /\ Control
        /\ unterminated' = Terminated \cup {Fresh} \cup {} /\ insert' = Fresh
        /\ merges' = Append(merges, FALSE)
    BY <1>5, <2>2, ReadyFacts DEF EmitThen, Lost, Then, Start, Append1, Follows, Falls
  <2>4. ~misplaced' /\ unterminated' = {Fresh} /\ live
    BY <1>1, <2>2, <2>3, ReadyFacts, NoPosts
  <2>5. Ifs(gs, merges')
    <3>1. Ifs(frames, merges)
      BY <2>2, ReadyFacts
    <3>2. Ifs(gs, Append(merges, FALSE))
      BY <1>1, <1>3, <2>4, <3>1, IfPushed
    <3> QED
      BY <2>3, <3>2
  <2>6. Placed(unterminated', insert', <<>>, live)
    <3>1. Fresh \in Nat \ {0}
      BY <2>2, ReadyFacts
    <3> QED
      BY <1>1, <2>3, <2>4, <3>1, Started
  <2> QED
    BY <1>1, <1>3, <2>4, <2>5, <2>6, NoPosts
<1>6. report'.kind = "reached"
  BY DEF EmitThen, EnterThen, Report
<1> QED
  BY <1>1, <1>3, <1>4, <1>5, <1>6 DEF FInv, Emitted, AcceptedIsTerminated

LEMMA EmitElseKeeps == ASSUME IInv, FInv, EmitElse PROVE FInv'
<1>1. /\ inner = <<>> /\ inner' = inner /\ live' = Top.live /\ frames # <<>>
      /\ frames \in Seq(Frames) /\ live \in BOOLEAN /\ Top.kind = "then"
      /\ blocks \in Seq(Blocks) /\ report' = report /\ plain' = plain
  BY DEF EmitElse, EnterElse, InBody, Lost, emission, IInv, Shapes
<1>2. New \in Nat
  BY <1>1, LenProperties DEF New
<1>3. PICK n \in Nat, fs \in Seq(Frames) :
        /\ Len(frames) = n + 1 /\ Top = frames[n + 1] /\ Top \in Frames
        /\ fs = Front(frames) /\ Len(fs) = n
  BY <1>1, Innermost
<1>4. PICK gs \in Seq(Frames) :
        /\ gs = frames' /\ Len(gs) = n + 1 /\ \A j \in 1..n : gs[j] = fs[j]
        /\ gs[n + 1].kind = "else" /\ gs[n + 1].live = Top.live /\ gs[n + 1].thenLive = live
  <2>1. PICK f : f = [Top EXCEPT !.kind = "else", !.block = New, !.then = Top.block,
                                 !.rets = Returns(Top.block), !.thenLive = live]
    OBVIOUS
  <2>2. Returns(Top.block) \in BOOLEAN
    BY DEF Returns
  <2>3. f \in Frames /\ f.kind = "else" /\ f.live = Top.live /\ f.thenLive = live
    BY <1>1, <1>2, <1>3, <2>1, <2>2 DEF Frames
  <2>4. frames' = Append(fs, f)
    BY <1>3, <2>1 DEF EmitElse, EnterElse
  <2>5. /\ frames' \in Seq(Frames) /\ Len(frames') = n + 1 /\ frames'[n + 1] = f
        /\ \A j \in 1..n : frames'[j] = fs[j]
    BY <1>3, <2>3, <2>4, PushedOn
  <2> QED
    BY <2>3, <2>5
<1>5. gs # <<>>
  BY <1>4, EmptySeq
<1>6. ASSUME plain'
      PROVE  /\ ~misplaced' /\ Loops(inner', live') /\ Ifs(frames', merges')
             /\ Placed(unterminated', insert', inner', live')
  <2>1. Ready
    BY <1>1, <1>6 DEF Ready
  <2>2. /\ Ifs(frames, merges) /\ (Control <=> live) /\ ~misplaced
        /\ insert # 0 /\ (Falls <=> Control) /\ Terminated = {}
        /\ Fresh \in Nat \ {0}
    BY <1>1, <2>1, ReadyFacts, NoPosts
  <2>3. /\ unterminated' = Terminated \cup {Fresh} \cup {} /\ insert' = Fresh
        /\ merges' = Append(Front(merges), Merge(Last(merges))) /\ misplaced' = misplaced
    BY <2>2 DEF EmitElse, Lost, Start
  <2>4. /\ Ifs(fs, Front(merges)) /\ Top.live /\ Last(merges) \in BOOLEAN /\ ~Last(merges)
    BY <1>1, <1>3, <2>2, IfPopped
  <2>5. Merge(Last(merges)) \in BOOLEAN /\ (Merge(Last(merges)) <=> live)
    BY <2>2, <2>4 DEF Merge, Falls
  <2>6. Ifs(gs, merges')
    BY <1>3, <1>4, <2>3, <2>4, <2>5, IfPushed
  <2>7. live' \in BOOLEAN /\ live' /\ unterminated' = {Fresh}
    BY <1>1, <1>3, <2>2, <2>3, <2>4 DEF Frames
  <2>8. Placed(unterminated', insert', <<>>, live')
    BY <2>2, <2>3, <2>7, Started
  <2> QED
    BY <1>1, <1>4, <2>2, <2>3, <2>6, <2>8, NoPosts
<1> QED
  BY <1>1, <1>4, <1>5, <1>6 DEF FInv, Emitted, AcceptedIsTerminated

LEMMA EmitEndIfKeeps == ASSUME IInv, FInv, EmitEndIf PROVE FInv'
<1>1. /\ inner = <<>> /\ inner' = inner /\ frames # <<>>
      /\ frames \in Seq(Frames) /\ live \in BOOLEAN /\ Top.kind \in {"then", "else"}
      /\ report' = report /\ plain' = plain /\ frames' = Front(frames)
      /\ Top.kind = "then" => live' = (live \/ Top.live)
      /\ Top.kind = "else" => live' = (live \/ Top.thenLive)
  BY DEF EmitEndIf, LeaveIf, LeaveElse, InBody, Lost, emission, IInv, Shapes
<1>2. ASSUME plain
      PROVE  /\ ~misplaced' /\ Loops(inner', live') /\ Ifs(frames', merges')
             /\ Placed(unterminated', insert', inner', live') /\ frames' # <<>>
  <2>1. Ready
    BY <1>1, <1>2 DEF Ready
  <2>2. /\ Ifs(frames, merges) /\ (Control <=> live) /\ ~misplaced
        /\ insert \in Nat \ {0} /\ (Falls <=> Control) /\ Terminated = {}
        /\ Fresh \in Nat \ {0}
    BY <1>1, <2>1, ReadyFacts, NoPosts
  <2>3. /\ EndIf(IF Top.kind = "then" THEN TRUE ELSE Last(merges), Fresh)
        /\ merges' = Front(merges) /\ misplaced' = misplaced
    BY <2>2 DEF EmitEndIf, Lost
  <2>4. /\ Ifs(Front(frames), Front(merges)) /\ Top.live /\ Front(frames) # <<>>
        /\ Last(merges) <=> Top.kind = "else" /\ Top.thenLive
    BY <1>1, <2>2, IfPopped
  <2>5. live' \in BOOLEAN
    BY <1>1
  <2>6. Merge(IF Top.kind = "then" THEN TRUE ELSE Last(merges)) <=> live'
    <3>1. CASE Top.kind = "then"
      BY <1>1, <2>4, <3>1 DEF Merge
    <3>2. CASE Top.kind = "else"
      BY <1>1, <2>2, <2>4, <3>2 DEF Merge
    <3> QED
      BY <1>1, <3>1, <3>2
  <2>7. insert' \in Nat \ {0} /\ unterminated' = IF live' THEN {insert'} ELSE {}
    BY <2>2, <2>3, <2>6 DEF EndIf, Start
  <2>8. Placed(unterminated', insert', <<>>, live')
    BY <2>5, <2>7, Started
  <2> QED
    BY <1>1, <2>2, <2>3, <2>4, <2>8, NoPosts
<1> QED
  BY <1>1, <1>2 DEF FInv, Emitted, AcceptedIsTerminated

\* A loop is entered, by a step that leaves the ifs around as they are.
LEMMA WhileKeeps ==
  ASSUME Ready, While, plain', frames' = frames, live' = live
  PROVE  /\ ~misplaced' /\ Loops(inner', live') /\ Ifs(frames', merges')
         /\ Placed(unterminated', insert', inner', live')
<1>1. /\ misplaced' = (misplaced \/ ~Falls) /\ Control
      /\ insert' = Fresh /\ unterminated' = Terminated \cup {Fresh} \cup {Behind}
      /\ inner' = Append(inner, Nest("while", Behind)) /\ merges' = merges
  BY DEF While, Append1, Follows, Start, Falls
<1>2. PICK e : e = Nest("while", Behind)
  OBVIOUS
<1>3. /\ e \in Nests /\ e.kind = "while" /\ e.post = Behind /\ ~e.merges /\ e.live
  <2>1. Behind \in Nat /\ Control \in BOOLEAN
    <3>1. Control <=> At(inner, live, Len(inner) + 1)
      BY ReadyFacts
    <3>2. live \in BOOLEAN
      BY DEF Ready, IInv, Shapes
    <3>3. inner # <<>> => Last(inner) \in Nests
      BY ReadyFacts, NestPopped
    <3> QED
      BY <3>2, <3>3, ReadyFacts DEF Control, Nests
  <2>2. e = [kind |-> "while", merges |-> FALSE, post |-> Behind, live |-> Control,
             thenLive |-> FALSE]
    BY <1>2 DEF Nest
  <2> QED
    BY <1>1, <2>1, <2>2 DEF Nests
<1>4. /\ Behind # 0 /\ Behind \notin PostsOf(inner) /\ Fresh # Behind
      /\ Fresh \notin PostsOf(inner) /\ Fresh \in Nat \ {0}
      /\ Loops(inner, live) /\ At(inner, live, Len(inner) + 1)
      /\ Terminated = PostsOf(inner) /\ ~misplaced /\ Ifs(frames, merges) /\ (Falls <=> Control)
  BY <1>1, ReadyFacts
<1>5. PICK js : js = inner' /\ js = Append(inner, e)
  BY <1>1, <1>2
<1>6. /\ Loops(Append(inner, e), live)
      /\ PostsOf(Append(inner, e)) = PostsOf(inner) \cup ({e.post} \ {0})
      /\ At(Append(inner, e), live, Len(Append(inner, e)) + 1) <=> e.live
  BY <1>3, <1>4, NestPushed
<1>7. Loops(js, live) /\ PostsOf(js) = PostsOf(inner) \cup {Behind} /\ At(js, live, Len(js) + 1)
  BY <1>3, <1>4, <1>5, <1>6
<1>8. Placed(unterminated', insert', js, live)
  BY <1>1, <1>4, <1>7 DEF Placed
<1> QED
  BY <1>1, <1>4, <1>5, <1>7, <1>8

LEMMA EmitWhileKeeps == ASSUME IInv, FInv, EmitWhile PROVE FInv'
<1>1. /\ frames' = frames /\ frames # <<>> /\ live' = live /\ report'.kind = "reached"
  BY DEF EmitWhile, PlainStmt, Report, InBody
<1>2. ASSUME plain'
      PROVE  /\ ~misplaced' /\ Loops(inner', live') /\ Ifs(frames', merges')
             /\ Placed(unterminated', insert', inner', live')
  <2>1. plain /\ While
    BY <1>2 DEF EmitWhile, While, Follows
  <2>2. Ready
    BY <1>1, <2>1 DEF Ready
  <2> QED
    BY <1>1, <1>2, <2>1, <2>2, WhileKeeps
<1> QED
  BY <1>1, <1>2 DEF FInv, Emitted, AcceptedIsTerminated

LEMMA NestedKeeps == ASSUME Nested PROVE FInv'
<1>1. inner' = <<>> /\ ~plain'
  BY DEF Nested
<1> QED
  BY <1>1 DEF FInv, Emitted, AcceptedIsTerminated

LEMMA OtherKeeps == ASSUME IInv, FInv, Other PROVE FInv'
<1>1. /\ inner = <<>> /\ inner' = inner /\ merges' = merges /\ misplaced' = misplaced
      /\ unterminated' = unterminated /\ insert' = insert /\ (plain' => plain)
  BY DEF Other
<1>2. ASSUME plain'
      PROVE  \/ /\ frames' = frames /\ live' = live /\ report' = report
             \/ LeaveClass \/ LeaveFunction
  <2>1. ASSUME NEW f \in Functions, GatherFunction(f)
        PROVE  frames' = frames /\ live' = live /\ report' = report
    BY <2>1 DEF GatherFunction
  <2>2. CASE GatherClass
    BY <2>2 DEF GatherClass
  <2>3. CASE Gathered
    BY <2>3 DEF Gathered
  <2>4. CASE Finish
    BY <2>4 DEF Finish
  <2> QED
    BY <1>2, <2>1, <2>2, <2>3, <2>4 DEF Other
<1>3. ASSUME plain', frames' = frames, live' = live, report' = report
      PROVE  FInv'
  BY <1>1, <1>3 DEF FInv, Emitted, AcceptedIsTerminated
<1>4. ASSUME plain', LeaveClass
      PROVE  FALSE
  <2>1. Ready
    BY <1>1, <1>4 DEF Ready, LeaveClass
  <2>2. frames \in Seq(Frames) /\ Ifs(frames, merges)
    BY <2>1, ReadyFacts DEF Ready, IInv, Shapes
  <2>3. frames # <<>> /\ Top.kind = "class"
    BY <1>4 DEF LeaveClass
  <2> QED
    BY <2>2, <2>3, IfPopped
<1>5. ASSUME plain', LeaveFunction
      PROVE  FInv'
  <2>1. /\ frames # <<>> /\ Top.kind = "func" /\ frames' = Front(frames) /\ InBody
    BY <1>5 DEF LeaveFunction, InBody
  <2>2. Ready
    BY <1>1, <1>5, <2>1 DEF Ready
  <2>3. frames \in Seq(Frames) /\ Ifs(frames, merges)
    BY <2>2, ReadyFacts DEF Ready, IInv, Shapes
  <2>4. frames' = <<>>
    <3>1. PICK n \in Nat, gs \in Seq(Frames) :
            /\ Len(frames) = n + 1 /\ Top = frames[n + 1] /\ gs = Front(frames) /\ Len(gs) = n
      BY <2>1, <2>3, Innermost
    <3>2. n = Len(merges) /\ (n # 0 => n \in 1..n)
      BY <2>3, <3>1, LenProperties DEF Ifs
    <3>3. n = 0
      BY <2>1, <2>3, <3>1, <3>2 DEF Ifs
    <3> QED
      BY <2>1, <3>1, <3>3, EmptySeq
  <2>5. ASSUME report'.kind = "accepted"
        PROVE  ~live
    <3>1. report.kind # "accepted"
      BY <2>2 DEF Ready, FInv, Emitted
    <3>2. Returns(Top.block)
      BY <1>5, <2>5, <3>1 DEF LeaveFunction, Report
    <3> QED
      BY <2>1, <2>2, <3>2, LiveNotReturning DEF Ready
  <2>6. /\ ~misplaced /\ (Control <=> live) /\ (Falls <=> Control) /\ Terminated = {}
    BY <1>1, <2>2, ReadyFacts, NoPosts DEF Control
  <2>7. ~live => unterminated = {}
    BY <2>6 DEF Falls, Terminated
  <2>8. AcceptedIsTerminated'
    BY <1>1, <2>5, <2>6, <2>7 DEF AcceptedIsTerminated
  <2> QED
    BY <1>1, <2>4, <2>8 DEF FInv, Emitted
<1>6. CASE ~plain'
  BY <1>1, <1>6 DEF FInv, Emitted, AcceptedIsTerminated
<1> QED
  BY <1>2, <1>3, <1>4, <1>5, <1>6

-----------------------------------------------------------------------------
(* Steps in a loop.                                                           *)

\* What every step in a loop needs to show.
LEMMA LoopKeeps ==
  ASSUME IInv, FInv, InLoop, plain' => plain,
         Ready /\ plain' => ~misplaced' /\ Loops(inner', live)
                              /\ Placed(unterminated', insert', inner', live)
  PROVE  FInv'
<1>1. frames' = frames /\ frames # <<>> /\ live' = live /\ report' = report /\ merges' = merges
  BY DEF InLoop, vars, FInv
<1>2. ASSUME plain'
      PROVE  /\ Ready /\ Ifs(frames, merges) /\ report.kind # "accepted"
             /\ ~misplaced' /\ Loops(inner', live)
             /\ Placed(unterminated', insert', inner', live)
  <2>1. Ready
    BY <1>1, <1>2 DEF Ready
  <2> QED
    BY <1>1, <1>2, <2>1 DEF FInv, Emitted
<1> QED
  BY <1>1, <1>2 DEF FInv, Emitted, AcceptedIsTerminated

LEMMA LoopPlainStmtKeeps == ASSUME IInv, FInv, LoopPlainStmt PROVE FInv'
<1>1. /\ InLoop /\ (plain' => plain /\ Control) /\ misplaced' = (misplaced \/ ~Falls)
      /\ unterminated' = unterminated /\ insert' = insert /\ inner' = inner
  BY DEF LoopPlainStmt, Append1, Follows, Falls
<1>2. ASSUME Ready, plain'
      PROVE  ~misplaced' /\ Loops(inner', live) /\ Placed(unterminated', insert', inner', live)
  BY <1>1, <1>2, ReadyFacts
<1> QED
  BY <1>1, <1>2, LoopKeeps

LEMMA LoopWhileKeeps == ASSUME IInv, FInv, LoopWhile PROVE FInv'
<1>1. InLoop /\ While /\ (plain' => plain) /\ frames' = frames /\ live' = live
  BY DEF LoopWhile, While, Follows, InLoop, vars
<1>2. ASSUME Ready, plain'
      PROVE  ~misplaced' /\ Loops(inner', live) /\ Placed(unterminated', insert', inner', live)
  <2>1. ~misplaced' /\ Loops(inner', live') /\ Placed(unterminated', insert', inner', live')
    BY <1>1, <1>2, WhileKeeps
  <2> QED
    BY <1>1, <2>1
<1> QED
  BY <1>1, <1>2, LoopKeeps

LEMMA LoopReturnKeeps == ASSUME IInv, FInv, LoopReturn PROVE FInv'
<1>1. /\ InLoop /\ inner # <<>> /\ (plain' => plain /\ Control)
      /\ misplaced' = (misplaced \/ ~Falls) /\ unterminated' = Terminated
      /\ insert' = insert /\ inner' = Flows(inner, FALSE)
  BY DEF LoopReturn, InLoop, Append1, Follows, Falls
<1>2. ASSUME Ready, plain'
      PROVE  ~misplaced' /\ Loops(inner', live) /\ Placed(unterminated', insert', inner', live)
  <2>1. /\ ~misplaced' /\ Loops(inner, live) /\ Terminated = PostsOf(inner)
        /\ insert \in Nat \ {0} /\ insert \notin PostsOf(inner)
    BY <1>1, <1>2, ReadyFacts DEF Placed
  <2>2. PICK js : js = inner' /\ js = Flows(inner, FALSE)
    BY <1>1
  <2>3. /\ Loops(js, live) /\ PostsOf(js) = PostsOf(inner) /\ ~At(js, live, Len(js) + 1)
    BY <1>1, <2>1, <2>2, NestFlows
  <2>4. Placed(unterminated', insert', js, live)
    BY <1>1, <2>1, <2>3 DEF Placed
  <2> QED
    BY <2>1, <2>2, <2>3, <2>4
<1> QED
  BY <1>1, <1>2, LoopKeeps

LEMMA LoopThenKeeps == ASSUME IInv, FInv, LoopThen PROVE FInv'
<1>1. /\ InLoop /\ inner # <<>> /\ (plain' => plain /\ Control)
      /\ misplaced' = (misplaced \/ ~Falls) /\ insert' = Fresh
      /\ unterminated' = Terminated \cup {Fresh} \cup {}
      /\ inner' = Append(inner, Nest("then", 0))
  BY DEF LoopThen, Then, Start, InLoop, Append1, Follows, Falls
<1>2. ASSUME Ready, plain'
      PROVE  ~misplaced' /\ Loops(inner', live) /\ Placed(unterminated', insert', inner', live)
  <2>1. /\ ~misplaced' /\ Loops(inner, live) /\ Terminated = PostsOf(inner)
        /\ Fresh \in Nat \ {0} /\ Fresh \notin PostsOf(inner)
        /\ At(inner, live, Len(inner) + 1)
    BY <1>1, <1>2, ReadyFacts
  <2>2. PICK e : e = Nest("then", 0)
    OBVIOUS
  <2>3. e \in Nests /\ e.kind = "then" /\ e.post = 0 /\ ~e.merges /\ e.live
    <3>1. Control \in BOOLEAN /\ Control
      BY <1>1, <1>2, <2>1, NestPopped DEF Control, Nests
    <3>2. e = [kind |-> "then", merges |-> FALSE, post |-> 0, live |-> Control,
               thenLive |-> FALSE]
      BY <2>2 DEF Nest
    <3> QED
      BY <3>1, <3>2 DEF Nests
  <2>4. 0 \notin PostsOf(inner) /\ Len(inner) # 0
    BY <1>1, <2>1, EmptySeq DEF PostsOf, Loops
  <2>5. PICK js : js = inner' /\ js = Append(inner, e)
    BY <1>1, <2>2
  <2>6. Loops(js, live) /\ PostsOf(js) = PostsOf(inner) \cup ({e.post} \ {0})
        /\ (At(js, live, Len(js) + 1) <=> e.live)
    BY <2>1, <2>3, <2>4, <2>5, NestPushed
  <2>7. Placed(unterminated', insert', js, live)
    BY <1>1, <2>1, <2>3, <2>6 DEF Placed
  <2> QED
    BY <2>1, <2>5, <2>6, <2>7
<1> QED
  BY <1>1, <1>2, LoopKeeps

LEMMA LoopElseKeeps == ASSUME IInv, FInv, LoopElse PROVE FInv'
<1>1. /\ InLoop /\ inner # <<>> /\ Inmost.kind = "then" /\ plain' = plain
      /\ misplaced' = misplaced /\ insert' = Fresh
      /\ unterminated' = Terminated \cup {Fresh} \cup {}
      /\ inner' = Append(Outer, [Nest("else", 0) EXCEPT !.merges = Merge(FALSE),
                                 !.live = Last(Outer).live, !.thenLive = Control])
  BY DEF LoopElse, Start, InLoop
<1>2. ASSUME Ready, plain'
      PROVE  ~misplaced' /\ Loops(inner', live) /\ Placed(unterminated', insert', inner', live)
  <2>1. /\ ~misplaced' /\ Loops(inner, live) /\ Terminated = PostsOf(inner)
        /\ Fresh \in Nat \ {0} /\ Fresh \notin PostsOf(inner)
        /\ (Falls <=> Control)
    BY <1>1, <1>2, ReadyFacts
  <2>2. /\ Loops(Outer, live) /\ At(Outer, live, Len(Outer) + 1) /\ Outer # <<>>
        /\ PostsOf(Outer) = PostsOf(inner) \ {Inmost.post} /\ Inmost.post = 0
        /\ Inmost \in Nests /\ Last(Outer).live
    BY <1>1, <2>1, NestPopped DEF Outer, Inmost
  <2>3. Last(Outer) \in Nests
    BY <2>2, NestPopped
  <2>4. PICK e : e = [Nest("else", 0) EXCEPT !.merges = Merge(FALSE),
                      !.live = Last(Outer).live, !.thenLive = Control]
    OBVIOUS
  <2>5. /\ e \in Nests /\ e.kind = "else" /\ e.post = 0 /\ e.live
        /\ e.merges <=> e.kind = "else" /\ e.thenLive
    <3>1. Control \in BOOLEAN /\ Control = Inmost.live
      BY <1>1, <2>2 DEF Control, Inmost, Nests
    <3>2. Merge(FALSE) \in BOOLEAN /\ (Merge(FALSE) <=> Control)
      BY <2>1 DEF Merge, Falls
    <3>3. e = [kind |-> "else", merges |-> Merge(FALSE), post |-> 0,
               live |-> Last(Outer).live, thenLive |-> Control]
      BY <2>4 DEF Nest
    <3> QED
      BY <2>2, <2>3, <3>1, <3>2, <3>3 DEF Nests
  <2>6. 0 \notin PostsOf(Outer) /\ Len(Outer) # 0 /\ PostsOf(Outer) = PostsOf(inner)
    BY <2>2, EmptySeq DEF PostsOf, Loops
  <2>7. PICK js : js = inner' /\ js = Append(Outer, e)
    BY <1>1, <2>4
  <2>8. /\ Loops(js, live) /\ PostsOf(js) = PostsOf(Outer) \cup ({e.post} \ {0})
        /\ At(js, live, Len(js) + 1) <=> e.live
    BY <2>2, <2>5, <2>6, <2>7, NestPushed
  <2>9. Placed(unterminated', insert', js, live)
    BY <1>1, <2>1, <2>5, <2>6, <2>8 DEF Placed
  <2> QED
    BY <2>1, <2>7, <2>8, <2>9
<1> QED
  BY <1>1, <1>2, LoopKeeps

LEMMA LoopEndIfKeeps == ASSUME IInv, FInv, LoopEndIf PROVE FInv'
<1>1. PICK around :
      /\ InLoop /\ inner # <<>> /\ Inmost.kind \in {"then", "else"} /\ plain' = plain
      /\ misplaced' = misplaced /\ EndIf(Inmost.kind = "then" \/ Inmost.merges, Fresh)
      /\ around = IF Inmost.kind = "then" THEN Last(Outer).live ELSE Inmost.thenLive
      /\ inner' = Flows(Outer, Control \/ around)
  BY DEF LoopEndIf, InLoop
<1>2. ASSUME Ready, plain'
      PROVE  ~misplaced' /\ Loops(inner', live) /\ Placed(unterminated', insert', inner', live)
  <2>1. /\ ~misplaced' /\ Loops(inner, live) /\ Terminated = PostsOf(inner)
        /\ Fresh \in Nat \ {0} /\ Fresh \notin PostsOf(inner)
        /\ insert \in Nat \ {0} /\ insert \notin PostsOf(inner)
        /\ (Falls <=> Control)
    BY <1>1, <1>2, ReadyFacts DEF Placed
  <2>2. /\ Loops(Outer, live) /\ Outer # <<>>
        /\ PostsOf(Outer) = PostsOf(inner) \ {Inmost.post} /\ Inmost.post = 0
        /\ Inmost \in Nests /\ Last(Outer).live
        /\ Inmost.merges <=> Inmost.kind = "else" /\ Inmost.thenLive
    BY <1>1, <2>1, NestPopped DEF Outer, Inmost
  <2>3. PICK b \in BOOLEAN : b = (Control \/ around)
    OBVIOUS
  <2>4. Merge(Inmost.kind = "then" \/ Inmost.merges) <=> b
    <3>1. CASE Inmost.kind = "then"
      BY <1>1, <2>2, <2>3, <3>1 DEF Merge
    <3>2. CASE Inmost.kind = "else"
      BY <1>1, <2>1, <2>2, <2>3, <3>2 DEF Merge
    <3> QED
      BY <1>1, <3>1, <3>2
  <2>5. PICK js : js = inner' /\ js = Flows(Outer, b)
    BY <1>1, <2>3
  <2>6. /\ Loops(js, live) /\ PostsOf(js) = PostsOf(Outer)
        /\ At(js, live, Len(js) + 1) <=> b
    BY <2>2, <2>5, NestFlows
  <2>7. PostsOf(js) = PostsOf(inner)
    BY <2>2, <2>6 DEF PostsOf
  <2>8. /\ insert' \in Nat \ {0} /\ insert' \notin PostsOf(inner)
        /\ unterminated' = PostsOf(inner) \cup (IF b THEN {insert'} ELSE {})
    BY <1>1, <2>1, <2>4 DEF EndIf, Start
  <2>9. Placed(unterminated', insert', js, live)
    BY <2>6, <2>7, <2>8 DEF Placed
  <2> QED
    BY <2>1, <2>5, <2>6, <2>9
<1> QED
  BY <1>1, <1>2, LoopKeeps

LEMMA LoopEndKeeps == ASSUME IInv, FInv, LoopEnd PROVE FInv'
<1>1. /\ InLoop /\ inner # <<>> /\ Inmost.kind = "while" /\ (plain' => plain /\ Control)
      /\ misplaced' = (misplaced \/ ~Falls) /\ insert' = Inmost.post
      /\ unterminated' = Terminated /\ inner' = Outer
  BY DEF LoopEnd, InLoop, Append1, Follows, Falls
<1>2. ASSUME Ready, plain'
      PROVE  ~misplaced' /\ Loops(inner', live) /\ Placed(unterminated', insert', inner', live)
  <2>1. ~misplaced' /\ Loops(inner, live) /\ Terminated = PostsOf(inner)
    BY <1>1, <1>2, ReadyFacts
  <2>2. PICK is, e : is = inner /\ e = Inmost
    OBVIOUS
  <2>3. /\ Loops(Outer, live) /\ At(Outer, live, Len(Outer) + 1)
        /\ PostsOf(Outer) = PostsOf(is) \ {e.post} /\ e.post # 0 /\ e \in Nests
    BY <1>1, <2>1, <2>2, NestPopped DEF Outer, Inmost
  <2>4. e.post \in PostsOf(is)
    <3>1. is \in Seq(Nests) /\ is # <<>> /\ e = Last(is)
      BY <1>1, <2>1, <2>2 DEF Loops, Inmost
    <3>2. Last(is) = is[Len(is)] /\ Len(is) \in Nat \ {0}
      BY <3>1, PoppedOff
    <3>3. e = is[Len(is)] /\ Len(is) \in 1..Len(is)
      BY <3>1, <3>2
    <3> QED
      BY <2>3, <3>3 DEF PostsOf
  <2>5. PICK js : js = inner' /\ js = Outer
    BY <1>1
  <2>6. unterminated' = PostsOf(js) \cup {insert'} /\ insert' \in Nat \ {0}
        /\ insert' \notin PostsOf(js)
    BY <1>1, <2>1, <2>2, <2>3, <2>4, <2>5 DEF Nests
  <2>7. Placed(unterminated', insert', js, live)
    BY <2>3, <2>5, <2>6 DEF Placed
  <2> QED
    BY <2>1, <2>3, <2>5, <2>7
<1> QED
  BY <1>1, <1>2, LoopKeeps

LEMMA FStart == FlowInit => FInv
  BY DEF FlowInit, Init, NothingSaid, FInv, Emitted, AcceptedIsTerminated

LEMMA FStep == IInv /\ FInv /\ [Emission]_flowVars => FInv'
<1> SUFFICES ASSUME IInv, FInv, [Emission]_flowVars PROVE FInv'
  OBVIOUS
<1>1. CASE EmitFunction \/ Nested \/ Other
  BY <1>1, EmitFunctionKeeps, NestedKeeps, OtherKeeps
<1>2. CASE EmitPlainStmt \/ EmitReturn \/ EmitWhile
  BY <1>2, EmitPlainStmtKeeps, EmitReturnKeeps, EmitWhileKeeps
<1>3. CASE EmitThen \/ EmitElse \/ EmitEndIf
  BY <1>3, EmitThenKeeps, EmitElseKeeps, EmitEndIfKeeps
<1>4. CASE LoopPlainStmt \/ LoopReturn \/ LoopWhile
  BY <1>4, LoopPlainStmtKeeps, LoopReturnKeeps, LoopWhileKeeps
<1>5. CASE LoopThen \/ LoopElse \/ LoopEndIf \/ LoopEnd
  BY <1>5, LoopThenKeeps, LoopElseKeeps, LoopEndIfKeeps, LoopEndKeeps
<1>6. CASE UNCHANGED flowVars
  <2>1. /\ frames' = frames /\ live' = live /\ report' = report /\ unterminated' = unterminated
        /\ insert' = insert /\ misplaced' = misplaced /\ merges' = merges
        /\ inner' = inner /\ plain' = plain
    BY <1>6 DEF flowVars, vars, emission
  <2> QED
    BY <2>1 DEF FInv, Emitted, AcceptedIsTerminated
<1> QED
  BY <1>1, <1>2, <1>3, <1>4, <1>5, <1>6 DEF Emission

LEMMA Emits == FlowSpec => []FInv
<1>1. FlowSpec => []IInv
  BY Start1, Step1, EmissionFollows, PTL DEF Spec
<1> QED
  BY <1>1, FStart, FStep, PTL DEF FlowSpec

(* In a function without dead code, instructions are appended to the block that
   control is in, and no block is left open but that one and the ones behind the
   loops in progress, whatever the nesting of ifs, loops and returns
   (codegen.cc:576-636, 706-715). *)
THEOREM BlocksAreOpen == FlowSpec => []BlocksFollowFlow
<1>1. IInv /\ FInv => BlocksFollowFlow
  <2> SUFFICES ASSUME IInv, FInv, frames # <<>>, plain
               PROVE  /\ ~misplaced
                      /\ unterminated = Posts \cup (IF Control THEN {insert} ELSE {})
    BY DEF BlocksFollowFlow
  <2>1. Ready
    BY DEF Ready
  <2>2. /\ ~misplaced /\ Loops(inner, live) /\ Placed(unterminated, insert, inner, live)
        /\ Control <=> At(inner, live, Len(inner) + 1)
    BY <2>1, ReadyFacts
  <2>3. Posts = PostsOf(inner)
    BY <2>2, LenProperties DEF Posts, PostsOf, Loops
  <2> QED
    BY <2>2, <2>3 DEF Placed
<1>2. FlowSpec => []IInv
  BY Start1, Step1, EmissionFollows, PTL DEF Spec
<1> QED
  BY <1>1, <1>2, Emits, PTL

(* A function that Reachability accepts, without dead code, is emitted with a
   terminator at the end of every block and nowhere else (codegen.cc:595, 700;
   reachability.cc:60-63). *)
THEOREM AcceptedTerminates == FlowSpec => []AcceptedIsTerminated
<1>1. FInv => AcceptedIsTerminated
  BY DEF FInv
<1> QED
  BY <1>1, Emits, PTL
=============================================================================
