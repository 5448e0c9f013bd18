----------------------------- MODULE X86Objects -----------------------------
(***************************************************************************)
(* Objects, arrays and strings in the x86-64 backend (src/src/backends/    *)
(* x86-64/codegen.cc), on top of the expressions of X86Expressions: what   *)
(* registers and stack they use, and where they call a library. The heap   *)
(* is not modelled: a field or an element that is asked for has the value  *)
(* the source means if address and index are what it means.                *)
(***************************************************************************)
EXTENDS X86Expressions

Register(r) == <<"%", r>>

\* A literal that has been met before is only a label.
StrLiteral ==
  /\ frames = <<>> => stmt \in {"puts", "var", "expr"}
  /\ frames # <<>> => Top.kind \in CallKinds \cup {"set"}
  /\ \/ Leaf("str", <<"label", 0>>, nodes + 1)
     \/ /\ Visit("str")
        /\ \E c \in MakeAssignable(tracker, nodes') :
             /\ reg' = [reg EXCEPT ![c.r] = nodes']
             /\ tracker' = Assign(c.t, nodes', Register(c.r))
        /\ meaning' = Put(meaning, nodes', nodes')
        /\ last' = nodes'
        /\ ctl' = "back"
        /\ UNCHANGED <<frames, memory>>
     \/ /\ Visit("str")
        /\ MakeAssignable(tracker, nodes') = {}
        /\ frames' = Append(frames, Frame("str", 0, 0))
        /\ ctl' = "exited"
        /\ UNCHANGED <<last, meaning, tracker, machine>>

ThisLeaf == This = 1 /\ Leaf("this", Register("rdi"), -1)

OpenMember == \E k \in {"field", "set", "index", "setindex"} : Open(k)

-----------------------------------------------------------------------------
(* Calls that supply "this". *)

OpenMethod ==
  /\ Visit("method")
  /\ \E n \in 0..MaxArgs : frames' = Append(frames, Frame("method", n + 1, 1))
  /\ UNCHANGED <<ctl, last, meaning, tracker, machine>>

\* The address of the method is in a register until the call, the receiver in
\* %rdi from here on, while the arguments are evaluated. The expression that asks
\* for the method of call n is -n.
Receiver ==
  /\ Returned("method", 0)
  /\ LET choices == AcquireRegister(tracker, -Top.node)
         addr == IF Content(Ref) = meaning[last] THEN Address(Top.node) ELSE Junk
     IN  \/ choices = {} /\ GiveUp
         \/ \E c \in choices :
              /\ reg' = [reg EXCEPT ![c.r] = addr,
                                    !["rdi"] = IF Ref = Register(c.r) THEN addr
                                               ELSE Content(Ref)]
              /\ tracker' = RegFree(Assign(c.t, -Top.node, Register(c.r)), Ref)
              /\ stack' = stack \o <<Pushed("rdi")>> \o Saves(1, Top.arity - 1)
              /\ Resume([Top EXCEPT !.ops = <<last>>, !.left = Register(c.r)])
              /\ UNCHANGED <<mem, totalSize>>

\* malloc leaves the address of new memory in %rax.
\* emitClassInit() makes the object before the arguments of init are evaluated.
OpenNew ==
  /\ Visit("new")
  /\ \E n \in 0..MaxArgs :
       /\ frames' = Append(frames, [Frame("new", n + 1, 1) EXCEPT !.ops = <<nodes'>>])
       /\ stack' = stack \o <<Pushed("rdi")>> \o Saves(1, n)
  /\ reg' = [Library(Address(nodes')) EXCEPT !["rdi"] = Address(nodes')]
  /\ meaning' = Put(meaning, nodes', Address(nodes'))
  /\ UNCHANGED <<ctl, last, tracker, mem, totalSize>>

-----------------------------------------------------------------------------
(* Fields and elements. *)

Field ==
  /\ Returned("field", 0)
  /\ LET choices == MakeAssignable(RegFree(tracker, Ref), Top.node)
         v == IF Content(Ref) = meaning[last] THEN Top.node ELSE Junk
     IN  \/ choices = {} /\ GiveUp
         \/ \E c \in choices :
              /\ reg' = [reg EXCEPT !["rax"] = Junk, ![c.r] = v]
              /\ tracker' = Assign(c.t, Top.node, Register(c.r))
              /\ Close(Top.node)
              /\ UNCHANGED <<memory, env>>

SetObject ==
  /\ Returned("set", 0)
  /\ Resume([Top EXCEPT !.ops = <<last>>, !.left = Ref])
  /\ UNCHANGED <<tracker, machine>>

\* The field's address takes the place of %rax before the value is stored; the
\* expression is given no reference.
SetField ==
  /\ Returned("set", 1)
  /\ LET choices == IF Ref[1] \in {"%", "$"} THEN {[t |-> tracker, r |-> "rax"]}
                    ELSE AcquireRegister(tracker, last)
     IN  \/ choices = {} /\ GiveUp
         \/ \E c \in choices :
              /\ reg' = [reg EXCEPT ![c.r] = IF c.r = "rax" THEN Junk ELSE Content(Ref),
                                    !["rax"] = Junk]
              /\ tracker' = RegFree(RegFree(c.t, Top.left),
                                    IF Ref[1] \in {"%", "$"} THEN Ref ELSE Register(c.r))
              /\ Close(meaning[last])
              /\ UNCHANGED <<memory, env>>

NextOperand ==
  /\ Returned("index", 0) \/ Returned("setindex", 0) \/ Returned("setindex", 1)
  /\ Resume([Top EXCEPT !.ops = Append(@, last)])
  /\ UNCHANGED <<tracker, machine>>

\* The array and the index are made assignable when all operands have been
\* evaluated.
Addressed(a, i) ==
  UNION {{[t |-> d.t, arr |-> c.r, idx |-> d.r] : d \in MakeAssignable(c.t, i)} :
           c \in MakeAssignable(tracker, a)}

\* The element is visited through c; one operand may be in no place any more.
Element(a, i, c) ==
  /\ {a, i} \subseteq DOMAIN tracker.ref
  /\ c \in Addressed(a, i)

Unaddressed(a, i) ==
  /\ Addressed(a, i) = {} \/ ~({a, i} \subseteq DOMAIN tracker.ref)
  /\ GiveUp

\* The array's register is freed again when the result has its own.
GetIndex ==
  /\ Returned("index", 1)
  /\ LET a == Top.ops[1]
         v == IF /\ Content(tracker.ref[a]) = meaning[a]
                 /\ Content(Ref) = meaning[last]
              THEN Top.node ELSE Junk
     IN  \/ Unaddressed(a, last)
         \/ \E c \in Addressed(a, last) :
              /\ Element(a, last, c)
              /\ \E d \in MakeAssignable(RegFree(RegFree(c.t, Register(c.arr)),
                                                Register(c.idx)), Top.node) :
                   /\ reg' = [reg EXCEPT ![c.arr] = Content(tracker.ref[a]),
                                         ![c.idx] = Content(Ref), ![d.r] = v]
                   /\ tracker' = Assign(RegFree(d.t, Register(c.arr)), Top.node,
                                        Register(d.r))
              /\ Close(Top.node)
              /\ UNCHANGED <<memory, env>>

\* Both registers stay taken until the statement ends.
SetIndex ==
  /\ Returned("setindex", 2)
  /\ LET a == Top.ops[1]
         i == Top.ops[2]
     IN  \/ Unaddressed(a, i)
         \/ \E c \in Addressed(a, i) :
              /\ Element(a, i, c)
              /\ reg' = [reg EXCEPT ![c.arr] = Content(tracker.ref[a]),
                                    ![c.idx] = Content(tracker.ref[i])]
              /\ tracker' = Assign(c.t, Top.node, <<"element", 0>>)
              /\ Close(meaning[last])
              /\ UNCHANGED <<memory, env>>

-----------------------------------------------------------------------------
(* Statements. *)

\* A string is printed by another function of the library, which may use the
\* register of the second argument as well: only the first one's is saved.
PutsStmt ==
  /\ Finished("puts")
  /\ reg' = [Library(Junk) EXCEPT !["rsi"] = Junk]
  /\ tracker' = RegFree(tracker, Ref)
  /\ EndStmt
  /\ UNCHANGED <<memory, env>>

\* The variable of an array type is given new memory; the register of its
\* dimension is not freed.
ArrayStmt ==
  /\ Finished("array")
  /\ reg' = Library(Address(last))
  /\ mem' = Address(last) /\ env' = Address(last)
  /\ tracker' = RegFree(tracker, Rax)
  /\ EndStmt
  /\ UNCHANGED <<stack, totalSize>>

Zero == -8

\* Without an initializer, any other variable is 0.
DefaultVar ==
  /\ ctl = "stmt" /\ stmts < MaxStmts
  /\ "var" \in StmtKinds
  /\ stmt' = "var" /\ stmts' = stmts + 1
  /\ mem' = Zero /\ env' = Zero
  /\ UNCHANGED <<ctl, frames, last, nodes, meaning, tracker, reg, stack, totalSize>>

ObjectsNext ==
  \/ Next
  \/ StrLiteral \/ ThisLeaf \/ OpenMember \/ OpenMethod \/ Receiver \/ OpenNew
  \/ Field \/ SetObject \/ SetField \/ NextOperand \/ GetIndex \/ SetIndex
  \/ PutsStmt \/ ArrayStmt \/ DefaultVar

ObjectsSpec == Init /\ [][ObjectsNext]_vars

-----------------------------------------------------------------------------
\* What a print pushes around the call of the library.
PrintPushes == Padding(0) \o <<Pushed("rdi"), Pushed("rsi")>>
PutsPushes == Padding(0) \o <<Pushed("rdi")>> \o Padding(0)

Aligned(pushes) == (totalSize + 8 * (Len(stack) + Len(pushes))) % 16 = 0

\* The calls in progress around the one that is about to be made.
Around == {i \in 1..Len(frames) - 1 : frames[i].kind \in CallKinds}

\* The calls whose alignment the code takes care of.
Supported ==
  IF Around = {} THEN Top.kind = "call" \/ totalSize % 16 # 0
  ELSE totalSize % 16 = 0 /\ \A i \in Around \cup {Len(frames)} : frames[i].kind = "call"

(* The stack pointer is a multiple of 16 where the code calls a function that is
   no argument's, or prints a number, whatever the locals of the caller and
   whatever has been pushed and popped before; where it calls a method or prints
   a string, if the frame itself is no such multiple, and where it calls a function
   for the argument of another, if it is one (codegen.cc:150-186, 611-626). *)
CallsAligned ==
  /\ AtCall /\ Supported => Aligned(<<>>)
  /\ ctl = "back" /\ frames = <<>> /\ stmt = "print" => Aligned(PrintPushes)
  /\ ctl = "back" /\ frames = <<>> /\ stmt = "puts" /\ totalSize % 16 # 0
       => Aligned(PutsPushes)
=============================================================================
