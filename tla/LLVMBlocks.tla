------------------------------ MODULE LLVMBlocks ------------------------------
(***************************************************************************)
(* The basic blocks LLVM's code generation (src/src/backends/llvm/         *)
(* codegen.cc) emits for the functions that Reachability accepts. It has   *)
(* no graph of its own: it relies on Reachability for every path to end in *)
(* a return, and for no statement to follow one. Both passes walk the same *)
(* body, and are taken through it together here; the bodies of loops are   *)
(* walked by code generation alone.                                        *)
(*                                                                         *)
(* Only blocks that are in the function and have no terminator yet are     *)
(* remembered, by numbers that are used again. That an instruction behind  *)
(* a terminator, or a block without one, breaks a function is external.    *)
(***************************************************************************)
EXTENDS Reachability, FiniteSetsExt

CONSTANT MaxInner   \* bound: statements within statements in a loop

VARIABLES
  unterminated,  \* blocks of the function without a terminator
  insert,        \* the block instructions are appended to
  misplaced,     \* has an instruction been appended behind a terminator?
  merges,        \* the merge_occurs of each if that Reachability is inside of
  inner,         \* statements in progress in a loop: <<[kind, merges, post, live,
                 \* thenLive]>>; live is a ghost as in Reachability
  plain          \* ghost: so far, no statement of this function was out of
                 \* control's reach, nor the end of a loop's body, and no function
                 \* was nested in it

emission == <<unterminated, insert, misplaced, merges, inner, plain>>
flowVars == <<vars, emission>>

FlowInit ==
  /\ Init
  /\ unterminated = {} /\ insert = 0
  /\ misplaced = FALSE
  /\ merges = <<>> /\ inner = <<>>
  /\ plain = TRUE

-----------------------------------------------------------------------------
(* The IRBuilder. *)

Used == unterminated \cup {insert} \cup {inner[i].post : i \in DOMAIN inner}
Unused(S) == Min((1..Cardinality(S) + 1) \ S)
Fresh == Unused(Used)
Behind == Unused(Used \cup {Fresh})

\* An instruction at the insertion point, and a terminator.
Append1 == misplaced' = (misplaced \/ insert \notin unterminated)
Terminated == unterminated \ {insert}

\* The block the code is in is branched out of only if it is not terminated.
Falls == insert \in unterminated

\* SetInsertPoint to a block that joins the function.
Start(b, others) == insert' = b /\ unterminated' = Terminated \cup {b} \cup others

\* Can control get here?
Control == IF inner = <<>> THEN live ELSE Last(inner).live

Follows == plain' = (plain /\ Control)

-----------------------------------------------------------------------------
(* A function is entered, and whatever is nested in it ends the model of it:   *)
(* its name is not in the module (codegen.cc:670).                             *)

EmitFunction ==
  /\ AnalyzeFunction
  /\ unterminated' = {1} /\ insert' = 1
  /\ misplaced' = FALSE /\ plain' = TRUE
  /\ merges' = <<>> /\ inner' = <<>>

Nested ==
  /\ inner = <<>>
  /\ (\E f \in Functions : NestedFunction(f)) \/ NestedClass
  /\ unterminated' = {} /\ insert' = 0 /\ merges' = <<>>
  /\ plain' = FALSE
  /\ UNCHANGED <<misplaced, inner>>

\* No code is emitted for a program with an error.
Other ==
  /\ inner = <<>>
  /\ \/ /\ (\E f \in Functions : GatherFunction(f)) \/ GatherClass \/ Gathered \/ LeaveClass
           \/ LeaveFunction \/ Finish
        /\ UNCHANGED plain
     \/ Unreachable /\ plain' = FALSE
  /\ UNCHANGED <<unterminated, insert, misplaced, merges, inner>>

\* Within a nested function, only Reachability goes on.
Lost == insert = 0 /\ UNCHANGED emission

-----------------------------------------------------------------------------
(* Statements that both passes visit. *)

\* Branch on the condition to "then".
Then(b) == Append1 /\ Start(b, {})

\* At the end of a branch: to the merge block, if the block has not returned.
Merge(merged) == merged \/ Falls

\* Mutant: whether the else branch falls through is not remembered.
EndIfForgetsElse(merged, b) ==
  IF merged THEN Start(b, {}) ELSE unterminated' = Terminated /\ UNCHANGED insert

\* The merge block joins the function if a branch leads there.
EndIf(merged, b) ==
  IF Merge(merged) THEN Start(b, {}) ELSE unterminated' = Terminated /\ UNCHANGED insert

EmitPlainStmt ==
  /\ inner = <<>> /\ PlainStmt
  /\ \/ Lost
     \/ /\ insert # 0
        /\ Append1 /\ Follows
        /\ UNCHANGED <<unterminated, insert, merges, inner>>

EmitReturn ==
  /\ inner = <<>> /\ ReturnStmt
  /\ \/ Lost
     \/ /\ insert # 0
        /\ Append1 /\ Follows
        /\ unterminated' = Terminated
        /\ UNCHANGED <<insert, merges, inner>>

EmitThen ==
  /\ inner = <<>> /\ EnterThen
  /\ \/ Lost
     \/ /\ insert # 0
        /\ Then(Fresh) /\ Follows
        /\ merges' = Append(merges, FALSE)
        /\ UNCHANGED inner

EmitElse ==
  /\ inner = <<>> /\ EnterElse
  /\ \/ Lost
     \/ /\ insert # 0
        /\ Start(Fresh, {})
        /\ merges' = Append(Front(merges), Merge(Last(merges)))
        /\ UNCHANGED <<misplaced, inner, plain>>

\* Without an else branch, the else block leads to the merge block at once.
EmitEndIf ==
  /\ inner = <<>>
  /\ LeaveIf \/ LeaveElse
  /\ \/ Lost
     \/ /\ insert # 0
        /\ EndIf(IF Top.kind = "then" THEN TRUE ELSE Last(merges), Fresh)
        /\ merges' = Front(merges)
        /\ UNCHANGED <<misplaced, inner, plain>>

Nest(kind, post) ==
  [kind |-> kind, merges |-> FALSE, post |-> post, live |-> Control, thenLive |-> FALSE]

\* The condition's block has its terminator already; the block behind the loop
\* joins the function before the body does.
While ==
  /\ Append1 /\ Follows
  /\ Start(Fresh, {Behind})
  /\ inner' = Append(inner, Nest("while", Behind))
  /\ UNCHANGED merges

EmitWhile == inner = <<>> /\ PlainStmt /\ insert # 0 /\ While

-----------------------------------------------------------------------------
(* The body of a loop. *)

Inmost == Last(inner)
Outer == Front(inner)
InLoop == inner # <<>> /\ UNCHANGED <<vars, merges>>
InnerRoom == Len(inner) < MaxInner

\* Control gets to the statement behind, or not.
Flows(stack, b) == [stack EXCEPT ![Len(stack)].live = b]

LoopPlainStmt == InLoop /\ Append1 /\ Follows /\ UNCHANGED <<unterminated, insert, inner>>
LoopWhile == InLoop /\ InnerRoom /\ While

LoopReturn ==
  /\ InLoop
  /\ Append1 /\ Follows
  /\ unterminated' = Terminated
  /\ inner' = Flows(inner, FALSE)
  /\ UNCHANGED insert

LoopThen ==
  /\ InLoop /\ InnerRoom
  /\ Then(Fresh) /\ Follows
  /\ inner' = Append(inner, Nest("then", 0))

LoopElse ==
  /\ InLoop /\ Inmost.kind = "then"
  /\ Start(Fresh, {})
  /\ inner' = Append(Outer, [Nest("else", 0) EXCEPT !.merges = Merge(FALSE),
                             !.live = Last(Outer).live, !.thenLive = Control])
  /\ UNCHANGED <<misplaced, plain>>

LoopEndIf ==
  /\ InLoop /\ Inmost.kind \in {"then", "else"}
  /\ EndIf(Inmost.kind = "then" \/ Inmost.merges, Fresh)
  /\ LET around == IF Inmost.kind = "then" THEN Last(Outer).live ELSE Inmost.thenLive
     IN  inner' = Flows(Outer, Control \/ around)
  /\ UNCHANGED <<misplaced, plain>>

\* The body leads back to the condition, whether or not it has returned.
LoopEnd ==
  /\ InLoop /\ Inmost.kind = "while"
  /\ Append1 /\ Follows
  /\ insert' = Inmost.post /\ unterminated' = Terminated
  /\ inner' = Outer

Emission ==
  \/ EmitFunction \/ Nested \/ Other
  \/ EmitPlainStmt \/ EmitReturn \/ EmitThen \/ EmitElse \/ EmitEndIf \/ EmitWhile
  \/ LoopPlainStmt \/ LoopReturn \/ LoopWhile \/ LoopThen \/ LoopElse \/ LoopEndIf \/ LoopEnd

FlowSpec == FlowInit /\ [][Emission]_flowVars

-----------------------------------------------------------------------------
Posts == {inner[i].post : i \in DOMAIN inner} \ {0}

(* In a function without dead code, no instruction follows a terminator, and
   the block code is inserted in has no terminator exactly where control can get:
   ifs, loops and returns in any nesting leave no other block open but the ones
   behind the loops in progress (codegen.cc:576-636, 706-715). *)
BlocksFollowFlow ==
  phase = "analyze" /\ frames # <<>> /\ plain =>
    /\ ~misplaced
    /\ unterminated = Posts \cup (IF Control THEN {insert} ELSE {})

(* Code generation relies on Reachability: a function that it accepts, without
   dead code or a loop whose body ends in a return, has a terminator at the end of
   every block and nowhere else (codegen.cc:595, 700; reachability.cc:60-63). *)
AcceptedIsTerminated ==
  frames = <<>> /\ report.kind = "accepted" /\ plain => unterminated = {} /\ ~misplaced
===============================================================================
