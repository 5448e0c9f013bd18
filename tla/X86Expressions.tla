--------------------------- MODULE X86Expressions ---------------------------
(***************************************************************************)
(* How the x86-64 backend emits code for expressions, and what that code   *)
(* does (src/src/backends/x86-64/codegen.cc). The expression is chosen     *)
(* while CodeGen visits it; frames holds the visits in progress, with what *)
(* each still needs. As every instruction of an expression is executed     *)
(* once and in the order it is emitted in, it is executed on the spot.     *)
(*                                                                         *)
(* A value is a number: n > 0 is what expression n computes, a parameter   *)
(* and the initial value of the local variable are negative, Junk is none  *)
(* of these. meaning says what the source means; reg and mem are what the  *)
(* code makes of it. "add" and "mul" stand for the operators visit(Binary) *)
(* emits one instruction for, at two levels of precedence. The expressions *)
(* of X86Objects are visited by the same rules.                            *)
(***************************************************************************)
EXTENDS RegisterTracker, SequencesExt

CONSTANTS Scratch,                \* of GP, what functions of the library need not preserve
          This,                   \* 1 in a method, whose first argument is "this"
          Params,                 \* parameters of each function
          FrameSizes,             \* totalSize of a function's stack frame
          Kinds, StmtKinds,       \* expressions and statements of a program
          LeftKinds, RightKinds,  \* operands of a binary operator
          NegKinds, GroupKinds,   \* operands of "-" and of parentheses
          ArgKinds,               \* arguments of calls
          ReceiverKinds,          \* of what members and elements are asked for
          OneSided,               \* has a binary operator a leaf on one side?
          NestedAssign,           \* are there assignments within expressions?
          MaxArgs, MaxNodes, MaxStmts  \* bounds

ASSUME ScratchAssumption == Scratch \subseteq GP

\* Every local variable, and what is there before the first, takes a word
\* (stackframe.h:35-36, stackframe.cc:27-33).
ASSUME LocalsAreWords == \A size \in FrameSizes : size \in Nat /\ size % 8 = 0

ASSUME ArgsAreCounted == MaxArgs \in Nat

VARIABLES
  ctl,      \* "stmt", "emit" (visit an operand), "back" (from last), "exited"
  stmt,     \* kind of the current statement
  stmts,    \* statements begun
  frames,   \* <<[kind, node, ops, arity, this, left, dest]>>
  last,     \* the expression whose visit returned
  nodes,    \* expressions met
  meaning,  \* expression -> value, for those visited
  tracker,  \* ValueRefTracker
  reg, mem, \* contents of the registers and of the one local variable
  stack,    \* what has been pushed below the frame: <<[r, v]>>
  totalSize,\* of the function's frame (stackframe.h)
  env       \* the value the source gives that variable

control == <<ctl, stmt, stmts, frames, last, nodes>>
memory == <<mem, stack, totalSize>>
machine == <<reg, memory>>
vars == <<control, meaning, tracker, machine, env>>

Junk == 0
InitialLocal == -9
Address(n) == -10 - n   \* of the method or the object that expression n asks for
ArgRegs == <<"rdi", "rsi">>
Rax == <<"%", "rax">>
Local == <<"mem", 0>>

\* Results and arguments have registers of their own.
ASSUME RegistersApart == GP \cap ({"rax"} \cup Range(ArgRegs)) = {}

Content(v) == CASE v[1] = "%" -> reg[v[2]] [] v[1] = "$" -> v[2] [] v[1] = "mem" -> mem
                [] OTHER -> Junk

\* Registers at the start of a function: the i-th parameter is the value -i.
CallerRegs == [r \in GP \cup {"rax"} \cup Range(ArgRegs) |->
                 IF r \in Range(ArgRegs) THEN 0 - SelectInSeq(ArgRegs, LAMBDA a : a = r)
                 ELSE Junk]

Init ==
  /\ ctl = "stmt" /\ stmt = "none" /\ stmts = 0
  /\ frames = <<>> /\ last = 0 /\ nodes = 0 /\ meaning = <<>>
  /\ tracker = Tracker0
  /\ reg = CallerRegs /\ mem = InitialLocal /\ env = InitialLocal
  /\ stack = <<>> /\ totalSize \in FrameSizes

Top == Last(frames)
Pop == frames' = Front(frames)
Ref == tracker.ref[last]

-----------------------------------------------------------------------------
(* Visiting. *)

BinaryOps == {"add", "mul", "and"}
Setters == {"assign", "set", "setindex"}

\* Precedence, as the grammar has it (parser.cc:272-421).
Level == [k \in Kinds |-> CASE k \in Setters -> 0 [] k = "and" -> 1 [] k = "add" -> 2
                            [] k = "mul" -> 3 [] k = "neg" -> 4 [] OTHER -> 5]

LeafKinds == {"lit", "local", "param", "this"}
CallKinds == {"call", "method", "new"}
Receiving == {"method", "field", "set", "index", "setindex"}

\* Expressions are numbered as they are met: the left operand of f is a leaf if
\* it is the last one.
MayFollow(k, f) ==
  CASE f.kind \in BinaryOps /\ f.ops = <<>> -> k \in LeftKinds /\ Level[k] >= Level[f.kind]
    [] f.kind \in BinaryOps /\ f.ops # <<>> ->
         /\ k \in RightKinds /\ Level[k] > Level[f.kind]
         /\ OneSided => nodes = f.node + 1 \/ k \in LeafKinds
    [] f.kind = "neg" -> k \in NegKinds /\ Level[k] >= Level["neg"]
    [] f.kind = "group" -> k \in GroupKinds
    [] f.kind \in Receiving /\ f.ops = <<>> -> k \in ReceiverKinds
    [] f.kind \in CallKinds /\ Len(f.ops) >= f.this -> Len(f.ops) < f.arity /\ k \in ArgKinds
    [] OTHER -> TRUE

Visit(k) ==
  /\ ctl = "emit"
  /\ k \in Kinds
  /\ nodes < MaxNodes
  /\ frames # <<>> => MayFollow(k, Top)
  /\ k \in Setters => (k = "assign" /\ NestedAssign) \/ (stmt = "expr" /\ frames = <<>>)
  /\ nodes' = nodes + 1
  /\ UNCHANGED <<stmt, stmts, env>>

\* A literal or a name: a reference is assigned, no code is emitted.
Leaf(k, v, m) ==
  /\ Visit(k)
  /\ tracker' = Assign(tracker, nodes', v)
  /\ meaning' = Put(meaning, nodes', m)
  /\ last' = nodes'
  /\ ctl' = "back"
  /\ UNCHANGED <<frames, machine>>

NumLiteral == Leaf("lit", <<"$", nodes + 1>>, nodes + 1)

Variable ==
  \/ Leaf("local", Local, env)
  \/ \E i \in This + 1..This + Params : Leaf("param", <<"%", ArgRegs[i]>>, -i)

\* A call supplies "this" or not: 1 or 0.
Frame(k, arity, this) ==
  [kind |-> k, node |-> nodes', ops |-> <<>>, arity |-> arity, this |-> this,
   left |-> Local, dest |-> "rax"]

Open(k) ==
  /\ Visit(k)
  /\ frames' = Append(frames, Frame(k, 0, 0))
  /\ UNCHANGED <<ctl, last, meaning, tracker, reg, memory>>

Pushed(r) == [r |-> r, v |-> IF r = "rbx" THEN Junk ELSE reg[r]]

\* Mutant: the test is inverted, as it is where an array is made (codegen.cc:56).
PaddingInverted(this) ==
  IF totalSize % (16 - 8 * this) = 0 THEN <<Pushed("rbx")>> ELSE <<>>

\* %rbx is pushed for the sake of alignment only.
Padding(this) == IF totalSize % (16 - 8 * this) # 0 THEN <<Pushed("rbx")>> ELSE <<>>

\* A call pushes the argument registers it is going to use, but for the one of
\* "this", and makes their number even.
Saves(this, n) ==
  Padding(this) \o [i \in 1..n |-> Pushed(ArgRegs[this + i])]
                \o (IF n % 2 = 1 THEN <<Pushed("rbx")>> ELSE <<>>)

OpenCall(n) ==
  /\ Visit("call")
  /\ frames' = Append(frames, Frame("call", n, 0))
  /\ stack' = stack \o Saves(0, n)
  /\ UNCHANGED <<ctl, last, meaning, tracker, reg, mem, totalSize>>

OpenAny ==
  \/ \E k \in BinaryOps \cup {"neg", "group", "assign"} : Open(k)
  \/ \E n \in 0..MaxArgs : OpenCall(n)

-----------------------------------------------------------------------------
(* After the visit of an operand. *)

Returned(k, n) ==
  /\ ctl = "back"
  /\ frames # <<>> /\ Top.kind = k /\ Len(Top.ops) = n
  /\ last \in DOMAIN tracker.ref
  /\ UNCHANGED <<stmt, stmts, nodes>>

\* The visit of the top frame ends: its expression means m.
Close(m) ==
  /\ Pop
  /\ last' = Top.node
  /\ meaning' = Put(meaning, Top.node, m)
  /\ ctl' = "back"

\* The next operand is visited.
Resume(f) ==
  /\ frames' = [frames EXCEPT ![Len(frames)] = f]
  /\ ctl' = "emit"
  /\ UNCHANGED <<last, meaning, env>>

\* "No GP register to assign", or "ValueRef requested for unknown expr":
\* the compiler exits.
GiveUp ==
  /\ ctl' = "exited"
  /\ UNCHANGED <<frames, last, meaning, tracker, machine, env>>

UnknownRef ==
  /\ ctl = "back"
  /\ last \notin DOMAIN tracker.ref
  /\ frames = <<>> => stmt # "expr"
  /\ GiveUp
  /\ UNCHANGED <<stmt, stmts, nodes>>

Grouping ==
  /\ Returned("group", 0)
  /\ tracker' = Overwrite(tracker, Top.node, Ref)
  /\ Close(meaning[last])
  /\ UNCHANGED <<machine, env>>

Unary ==
  /\ Returned("neg", 0)
  /\ LET choices == MakeAssignable(tracker, last)
     IN  \/ choices = {} /\ GiveUp
         \/ \E c \in choices :
              /\ reg' = [reg EXCEPT ![c.r] = IF Content(Ref) = meaning[last]
                                             THEN Top.node ELSE Junk]
              /\ tracker' = Assign(c.t, Top.node, <<"%", c.r>>)
              /\ Close(Top.node)
              /\ UNCHANGED <<memory, env>>

\* Mutant: the left operand stays where it is, even in %rax.
BinaryLeftInPlace ==
  /\ \E k \in {"add", "mul"} : Returned(k, 0)
  /\ LET choices == AcquireRegister(IF Ref = Rax THEN RegOverwrite(tracker, last, "rax")
                                    ELSE tracker, last)
     IN  \/ choices = {} /\ GiveUp
         \/ \E c \in choices :
              /\ reg' = [reg EXCEPT ![c.r] = Content(Ref)]
              /\ tracker' = RegOverwrite(c.t, last, c.r)
              /\ Resume([Top EXCEPT !.ops = <<last>>, !.left = Ref, !.dest = c.r])
              /\ UNCHANGED memory

\* The left operand is moved to an assignable register, dest.
BinaryLeft ==
  /\ \E k \in {"add", "mul"} : Returned(k, 0)
  /\ LET choices == MakeAssignable(tracker, last)
     IN  \/ choices = {} /\ GiveUp
         \/ \E c \in choices :
              /\ reg' = [reg EXCEPT ![c.r] = Content(Ref)]
              /\ tracker' = IF Ref # <<"%", c.r>> THEN RegOverwrite(c.t, last, c.r) ELSE c.t
              /\ Resume([Top EXCEPT !.ops = <<last>>, !.left = Ref, !.dest = c.r])
              /\ UNCHANGED memory

\* "op right, dest" accumulates in dest; left is freed before, right after.
BinaryRight ==
  /\ \E k \in {"add", "mul"} : Returned(k, 1)
  /\ LET sound == /\ reg[Top.dest] = meaning[Top.ops[1]]
                  /\ Content(Ref) = meaning[last]
     IN  reg' = [reg EXCEPT ![Top.dest] = IF sound THEN Top.node ELSE Junk]
  /\ tracker' = RegFree(RegOverwrite(RegFree(tracker, Top.left), Top.node, Top.dest), Ref)
  /\ Close(Top.node)
  /\ UNCHANGED <<memory, env>>

LogicalLeft ==
  /\ Returned("and", 0)
  /\ Resume([Top EXCEPT !.ops = <<last>>])
  /\ UNCHANGED <<tracker, machine>>

\* The left operand is made assignable only now, and it is not moved.
LogicalRight ==
  /\ Returned("and", 1)
  /\ LET left == Top.ops[1]
         choices == MakeAssignable(tracker, left)
     IN  \/ (choices = {} \/ left \notin DOMAIN tracker.ref) /\ GiveUp
         \/ \E c \in choices :
              /\ left \in DOMAIN tracker.ref
              /\ reg' = [reg EXCEPT ![c.r] = IF /\ reg[c.r] = meaning[left]
                                                /\ Content(Ref) = meaning[last]
                                             THEN Top.node ELSE Junk]
              /\ tracker' = RegFree(RegOverwrite(c.t, Top.node, c.r), Ref)
              /\ Close(Top.node)
              /\ UNCHANGED <<memory, env>>

Assignment ==
  /\ Returned("assign", 0)
  /\ LET choices == AcquireRegister(tracker, last)
     IN  \/ choices = {} /\ GiveUp
         \/ \E c \in choices :
              /\ reg' = [reg EXCEPT ![c.r] = Content(Ref)]
              /\ mem' = Content(Ref)
              /\ env' = meaning[last]
              /\ tracker' = Assign(RegFree(c.t, <<"%", c.r>>), Top.node, Local)
              /\ Close(meaning[last])
              /\ UNCHANGED <<stack, totalSize>>

CallArg ==
  /\ \E k \in CallKinds, n \in 0..MaxArgs : Returned(k, n) /\ n >= Top.this
  /\ LET target == ArgRegs[Len(Top.ops) + 1]
     IN  /\ reg' = [reg EXCEPT ![target] = Content(Ref)]
         /\ tracker' = IF Ref # <<"%", target>> THEN RegFree(tracker, Ref) ELSE tracker
  /\ Resume([Top EXCEPT !.ops = Append(@, last)])
  /\ UNCHANGED memory

\* All arguments are in their registers.
AtCall ==
  /\ ctl = "emit"
  /\ frames # <<>> /\ Top.kind \in CallKinds /\ Len(Top.ops) = Top.arity

\* What a call computes: what it means if each argument, and the address of the
\* method, is where the callee looks for it.
CallResult ==
  IF /\ \A i \in 1..Top.arity : reg[ArgRegs[i]] = meaning[Top.ops[i]]
     /\ Top.left[1] = "%" => Content(Top.left) = Address(Top.node)
  THEN Top.node ELSE Junk

\* Where the saved argument registers begin on the stack, after the padding.
SavedFrom ==
  LET n == Top.arity - Top.this
  IN  Len(stack) - (n + (n % 2))

\* The argument registers are popped in the order they were pushed in.
Popped(i) == stack[SavedFrom + Top.arity + 1 - i].v

AfterCall(regs) ==
  /\ AtCall
  /\ reg' = [regs EXCEPT !["rax"] = CallResult]
  /\ tracker' = Assign(RegFree(tracker, Top.left), Top.node, Rax)
  /\ stack' = SubSeq(stack, 1, SavedFrom - Len(Padding(Top.this)) - Top.this)
  /\ Close(Top.node)
  /\ UNCHANGED <<stmt, stmts, nodes, mem, totalSize, env>>

\* Mutant: what was pushed is dropped.
EndCallNoRestore == AfterCall(reg)

\* The general-purpose registers are preserved. The callee is taken to preserve
\* the argument registers that were not pushed.
EndCall ==
  AfterCall([r \in DOMAIN reg |->
    LET i == SelectInSeq(ArgRegs, LAMBDA a : a = r)
    IN  IF i \notin 1..Top.arity THEN reg[r]
        ELSE IF i > Top.this THEN Popped(i)
        ELSE stack[SavedFrom - Len(Padding(1))].v])

-----------------------------------------------------------------------------
(* Statements. Those in the body of an if or a while come after its          *)
(* condition, for which no register is held any more.                        *)

Begin(k) ==
  /\ ctl = "stmt"
  /\ stmts < MaxStmts
  /\ stmt' = k
  /\ stmts' = stmts + 1
  /\ ctl' = "emit"
  /\ UNCHANGED <<frames, last, nodes, meaning, tracker, machine, env>>

Finished(k) ==
  /\ ctl = "back" /\ stmt = k
  /\ frames = <<>>
  /\ k # "expr" => last \in DOMAIN tracker.ref
  /\ UNCHANGED <<stmt, stmts, nodes>>

EndStmt ==
  /\ ctl' = "stmt"
  /\ UNCHANGED <<frames, last, meaning>>

ExprStmt ==
  /\ Finished("expr")
  /\ tracker' = ResetRegisters(tracker)
  /\ EndStmt
  /\ UNCHANGED <<machine, env>>

\* A function of the library leaves v in %rax.
Library(v) == [r \in DOMAIN reg |-> IF r = "rax" THEN v ELSE IF r \in Scratch THEN Junk
                                    ELSE reg[r]]

\* Both argument registers are saved around printf.
PrintStmt ==
  /\ Finished("print")
  /\ reg' = Library(Junk)
  /\ tracker' = RegFree(tracker, Ref)
  /\ EndStmt
  /\ UNCHANGED <<memory, env>>

\* The rest of the program is another function.
ReturnStmt ==
  /\ Finished("return")
  /\ reg' = CallerRegs /\ mem' = InitialLocal /\ env' = InitialLocal
  /\ stack' = <<>> /\ totalSize' \in FrameSizes
  /\ EndStmt
  /\ UNCHANGED tracker

IfStmt ==
  /\ Finished("if")
  /\ LET choices == MakeAssignable(tracker, last)
     IN  \/ choices = {} /\ GiveUp
         \/ \E c \in choices :
              LET cond == <<"%", c.r>>
              IN  /\ reg' = [reg EXCEPT ![c.r] = Content(Ref)]
                  /\ tracker' = RegFree(IF Ref # cond THEN RegFree(c.t, Ref) ELSE c.t, cond)
                  /\ EndStmt
                  /\ UNCHANGED <<memory, env>>

WhileStmt ==
  /\ Finished("while")
  /\ LET choices == IF Ref[1] = "%" THEN {[t |-> tracker, r |-> Ref[2]]}
                    ELSE AcquireRegister(tracker, last)
     IN  \/ choices = {} /\ GiveUp
         \/ \E c \in choices :
              /\ reg' = [reg EXCEPT ![c.r] = Content(Ref)]
              /\ tracker' = RegFree(c.t, <<"%", c.r>>)
              /\ EndStmt
              /\ UNCHANGED <<memory, env>>

\* The variable declared takes the place of the local one. A value that is in no
\* register, nor a constant, goes through a register, which nothing frees.
VarStmt ==
  /\ Finished("var")
  /\ LET freed == RegFree(tracker, Ref)
         choices == IF Ref[1] \in {"%", "$"} THEN {[t |-> freed, r |-> "rax"]}
                    ELSE AcquireRegister(freed, last)
     IN  \/ choices = {} /\ GiveUp
         \/ \E c \in choices :
              /\ reg' = IF Ref[1] \in {"%", "$"} THEN reg ELSE [reg EXCEPT ![c.r] = Content(Ref)]
              /\ mem' = Content(Ref)
              /\ env' = meaning[last]
              /\ tracker' = c.t
              /\ EndStmt
              /\ UNCHANGED <<stack, totalSize>>

Next ==
  \/ NumLiteral \/ Variable \/ OpenAny
  \/ UnknownRef \/ Grouping \/ Unary \/ BinaryLeft \/ BinaryRight
  \/ LogicalLeft \/ LogicalRight \/ Assignment \/ CallArg \/ EndCall
  \/ \E k \in StmtKinds : Begin(k)
  \/ ExprStmt \/ PrintStmt \/ ReturnStmt \/ IfStmt \/ WhileStmt \/ VarStmt

Spec == Init /\ [][Next]_vars

-----------------------------------------------------------------------------
(* Whatever the program, a general-purpose register is unused or has an owner,
   so that resetRegisters can find it: none is lost for good, although the two
   may both be true of one (codegen.h:116-133). *)
NoRegisterLost == GP \subseteq tracker.unused \cup DOMAIN tracker.owner

(* Every expression, once visited, has a reference, and it is where that says:
   what the code computes is what the source means (codegen.h:77-85). *)
Evaluated == last \in DOMAIN tracker.ref /\ Content(Ref) = meaning[last]

RefHolds == ctl = "back" => Evaluated

(* Between statements the function's parameters are in their registers, where
   visit(Variable) will look for them (codegen.cc:519-528). *)
ParamsKept == ctl = "stmt" => \A i \in 1..This + Params : reg[ArgRegs[i]] = -i

(* Allocation fails only where more operations than there are registers are in
   progress, each of which holds or asks for one: their results and those of all
   earlier statements have been given back (codegen.h:44-59, 116-133). *)
ExitsOnlyWhenDeep ==
  ctl = "exited" =>
    Cardinality({i \in DOMAIN frames : frames[i].kind \notin {"group", "call", "new"}})
      + (IF last \in DOMAIN tracker.register THEN 1 ELSE 0) > Cardinality(GP)

(* "Each expression evaluates to a NL value" (doc/Lang.md:14), also one whose
   operands nest on both sides. *)
EvaluatesToItsValue == ctl = "back" /\ frames = <<>> => Evaluated
=============================================================================
