----------------------------- MODULE Reachability -----------------------------
(***************************************************************************)
(* The Reachability pass (src/src/reachability.cc, cfg.h, cfg.cc). It      *)
(* gathers the functions of the program, then builds the control-flow      *)
(* graph of each while it walks the body, which is chosen on the way. A    *)
(* basic block is its position in blocks, in order of creation.            *)
(*                                                                         *)
(* live is a ghost: can control reach this point of the body, when every   *)
(* condition may be true or false? report is what the pass last said, next *)
(* to what is the case; nesting remembers what this top-level function has *)
(* had inside of another. The body of a while is not walked.               *)
(***************************************************************************)
EXTENDS Naturals, Sequences, SequencesExt

CONSTANTS NestedScopes,  \* may a body hold functions and classes?
          MaxFuncs,      \* bound: functions gathered
          MaxDepth,      \* bound: statements within statements
          MaxBlocks      \* bound: basic blocks

VARIABLES
  phase,     \* "gather" (gather_fns_pass), "analyze", "done"
  in_class,
  funcs,     \* functions still to be analyzed: <<[void, init]>>
  blocks,    \* <<[returns, succs]>>
  graph,     \* CFG: positions in blocks
  frames,    \* statements the walk is inside of, innermost last
  live,
  report,    \* [kind, live]
  nesting    \* SUBSET {"if", "func"}

vars == <<phase, in_class, funcs, blocks, graph, frames, live, report, nesting>>

\* The parser gives an init the type of its class: it is not void.
Functions == {f \in [void : BOOLEAN, init : BOOLEAN] : f.init => ~f.void}

NewBlock == [returns |-> FALSE, succs |-> {}]
ReturningBlock == [returns |-> TRUE, succs |-> {}]
New == Len(blocks) + 1

NothingSaid == [kind |-> "reached", live |-> TRUE]

Init ==
  /\ phase = "gather"
  /\ in_class = FALSE
  /\ funcs = <<>> /\ blocks = <<>> /\ graph = <<>> /\ frames = <<>>
  /\ live = FALSE
  /\ report = NothingSaid
  /\ nesting = {}

-----------------------------------------------------------------------------
(* Basic blocks. *)

\* The blocks for which returns() is true: the least set that contains the
\* ones that return themselves and the ones all of whose successors are in it.
ReturnClosed(S) ==
  \A b \in DOMAIN blocks :
    blocks[b].returns \/ (blocks[b].succs # {} /\ blocks[b].succs \subseteq S) => b \in S

Returns(b) == \A S \in SUBSET DOMAIN blocks : ReturnClosed(S) => b \in S

\* ENSURE_REACHABLE: the last block of the graph has returned already.
Blocked == graph # <<>> /\ blocks[Last(graph)].returns

AddSuccessor(bs, b, s) == [bs EXCEPT ![b].succs = @ \cup {s}]

Report(kind) == report' = [kind |-> kind, live |-> live]

-----------------------------------------------------------------------------
(* The first pass over the top-level statements. *)

GatherFunction(f) ==
  /\ phase = "gather"
  /\ Len(funcs) < MaxFuncs
  /\ f.init => in_class
  /\ funcs' = Append(funcs, f)
  /\ UNCHANGED <<phase, in_class, blocks, graph, frames, live, report, nesting>>

GatherClass ==
  /\ phase = "gather"
  /\ in_class' = ~in_class
  /\ UNCHANGED <<phase, funcs, blocks, graph, frames, live, report, nesting>>

Gathered ==
  /\ phase = "gather"
  /\ ~in_class
  /\ phase' = "analyze"
  /\ UNCHANGED <<in_class, funcs, blocks, graph, frames, live, report, nesting>>

-----------------------------------------------------------------------------
(* The analysis. *)

Top == Last(frames)
InBody == frames # <<>> /\ Top.kind # "class"
Room == Len(frames) < MaxDepth /\ Len(blocks) < MaxBlocks

Frame(kind, pred, block, fn) ==
  [kind |-> kind, pred |-> pred, block |-> block, then |-> 0, rets |-> FALSE,
   fn |-> fn, live |-> live, thenLive |-> FALSE]

NoFn == [void |-> TRUE, init |-> FALSE]

\* visit(FuncStmt) starts a graph of its own; bs are the blocks still in use.
EnterFunction(f, bs) ==
  /\ blocks' = Append(bs, NewBlock)
  /\ graph' = <<Len(blocks')>>
  /\ frames' = Append(frames, Frame("func", 0, Len(blocks'), f))
  /\ live' = TRUE

AnalyzeFunction ==
  /\ phase = "analyze"
  /\ frames = <<>> /\ funcs # <<>>
  /\ EnterFunction(Head(funcs), <<>>)
  /\ funcs' = Tail(funcs)
  /\ nesting' = {} /\ report' = NothingSaid
  /\ UNCHANGED <<phase, in_class>>

NestedFunction(f) ==
  /\ NestedScopes
  /\ frames # <<>> /\ Room
  /\ f.init => Top.kind = "class"
  /\ EnterFunction(f, blocks)
  /\ nesting' = nesting \cup {"func"}
  /\ UNCHANGED <<phase, in_class, funcs, report>>

NestedClass ==
  /\ NestedScopes
  /\ InBody /\ Room
  /\ in_class' = TRUE
  /\ frames' = Append(frames, Frame("class", 0, 0, NoFn))
  /\ UNCHANGED <<phase, funcs, blocks, graph, live, report, nesting>>

LeaveClass ==
  /\ frames # <<>> /\ Top.kind = "class"
  /\ in_class' = FALSE
  /\ frames' = Front(frames)
  /\ UNCHANGED <<phase, funcs, blocks, graph, live, report, nesting>>

\* "Non-Void function has return-less code path(s)", or not. Whether the
\* function is an init is asked of in_class as it is now.
LeaveFunction ==
  /\ InBody /\ Top.kind = "func"
  /\ IF Top.fn.void \/ (in_class /\ Top.fn.init)
     THEN UNCHANGED report
     ELSE Report(IF Returns(Top.block) THEN "accepted" ELSE "returnless")
  /\ live' = Top.live
  /\ frames' = Front(frames)
  /\ UNCHANGED <<phase, in_class, funcs, blocks, graph, nesting>>

\* "Unreachable statement": any statement that is not a block, a function or a
\* class. It is not visited any further.
Unreachable ==
  /\ InBody /\ Blocked
  /\ Report("unreachable")
  /\ UNCHANGED <<phase, in_class, funcs, blocks, graph, frames, live, nesting>>

\* Expressions, print, variable declarations and while: no flow.
PlainStmt ==
  /\ InBody /\ ~Blocked
  /\ Report("reached")
  /\ UNCHANGED <<phase, in_class, funcs, blocks, graph, frames, live, nesting>>

ReturnStmt ==
  /\ InBody /\ ~Blocked
  /\ blocks' = [blocks EXCEPT ![Last(graph)].returns = TRUE]
  /\ live' = FALSE
  /\ Report("reached")
  /\ UNCHANGED <<phase, in_class, funcs, graph, frames, nesting>>

EnterThen ==
  /\ InBody /\ ~Blocked /\ Room
  /\ blocks' = AddSuccessor(Append(blocks, NewBlock), Last(graph), New)
  /\ graph' = Append(graph, New)
  /\ frames' = Append(frames, Frame("then", Last(graph), New, NoFn))
  /\ nesting' = IF Top.kind = "func" THEN nesting ELSE nesting \cup {"if"}
  /\ Report("reached")
  /\ UNCHANGED <<phase, in_class, funcs, live>>

\* Mutant: without an else, the block before the if gets no second successor.
LeaveIfNoSkip ==
  /\ InBody /\ Top.kind = "then"
  /\ Len(blocks) < MaxBlocks
  /\ blocks' = AddSuccessor(Append(blocks, NewBlock), Top.block, New)
  /\ graph' = Append(graph, New)
  /\ live' = (live \/ Top.live)
  /\ frames' = Front(frames)
  /\ UNCHANGED <<phase, in_class, funcs, report, nesting>>

\* No else branch: the block before the if and the branch lead to a new one.
LeaveIf ==
  /\ InBody /\ Top.kind = "then"
  /\ Len(blocks) < MaxBlocks
  /\ blocks' = AddSuccessor(AddSuccessor(Append(blocks, NewBlock), Top.pred, New),
                            Top.block, New)
  /\ graph' = Append(graph, New)
  /\ live' = (live \/ Top.live)
  /\ frames' = Front(frames)
  /\ UNCHANGED <<phase, in_class, funcs, report, nesting>>

EnterElse ==
  /\ InBody /\ Top.kind = "then"
  /\ Len(blocks) < MaxBlocks
  /\ blocks' = AddSuccessor(Append(blocks, NewBlock), Top.pred, New)
  /\ graph' = Append(graph, New)
  /\ frames' = Append(Front(frames),
                      [Top EXCEPT !.kind = "else", !.block = New, !.then = Top.block,
                                  !.rets = Returns(Top.block), !.thenLive = live])
  /\ live' = Top.live
  /\ UNCHANGED <<phase, in_class, funcs, report, nesting>>

\* Mutant: one returning branch makes the statement return.
LeaveElseEither ==
  /\ InBody /\ Top.kind = "else"
  /\ Len(blocks) < MaxBlocks
  /\ LET elseRets == Returns(Last(graph))
         joins == {Top.pred} \cup (IF Top.rets THEN {} ELSE {Top.then})
                             \cup (IF elseRets THEN {} ELSE {Top.block})
     IN  blocks' = IF Top.rets \/ elseRets
                   THEN Append(blocks, ReturningBlock)
                   ELSE Append([b \in DOMAIN blocks |->
                                  IF b \in joins
                                  THEN [blocks[b] EXCEPT !.succs = @ \cup {New}]
                                  ELSE blocks[b]], NewBlock)
  /\ graph' = Append(graph, New)
  /\ live' = (live \/ Top.thenLive)
  /\ frames' = Front(frames)
  /\ UNCHANGED <<phase, in_class, funcs, report, nesting>>

\* Mutant: what follows the statement is joined to it although both branches
\* return.
LeaveElseAlwaysJoins ==
  /\ InBody /\ Top.kind = "else"
  /\ Len(blocks) < MaxBlocks
  /\ LET joins == {Top.pred} \cup (IF Top.rets THEN {} ELSE {Top.then})
                             \cup (IF Returns(Last(graph)) THEN {} ELSE {Top.block})
     IN  blocks' = Append([b \in DOMAIN blocks |->
                             IF b \in joins THEN [blocks[b] EXCEPT !.succs = @ \cup {New}]
                             ELSE blocks[b]], NewBlock)
  /\ graph' = Append(graph, New)
  /\ live' = (live \/ Top.thenLive)
  /\ frames' = Front(frames)
  /\ UNCHANGED <<phase, in_class, funcs, report, nesting>>

\* Does the else branch return? The question is put to the graph's last block.
\* If both return, what follows is blocked; if not, the block before the if and
\* the branches that do not return lead to a new block.
LeaveElse ==
  /\ InBody /\ Top.kind = "else"
  /\ Len(blocks) < MaxBlocks
  /\ LET elseRets == Returns(Last(graph))
         joins == {Top.pred} \cup (IF Top.rets THEN {} ELSE {Top.then})
                             \cup (IF elseRets THEN {} ELSE {Top.block})
     IN  blocks' = IF Top.rets /\ elseRets
                   THEN Append(blocks, ReturningBlock)
                   ELSE Append([b \in DOMAIN blocks |->
                                  IF b \in joins
                                  THEN [blocks[b] EXCEPT !.succs = @ \cup {New}]
                                  ELSE blocks[b]], NewBlock)
  /\ graph' = Append(graph, New)
  /\ live' = (live \/ Top.thenLive)
  /\ frames' = Front(frames)
  /\ UNCHANGED <<phase, in_class, funcs, report, nesting>>

Finish ==
  /\ phase = "analyze"
  /\ frames = <<>> /\ funcs = <<>>
  /\ phase' = "done"
  /\ UNCHANGED <<in_class, funcs, blocks, graph, frames, live, report, nesting>>

Next ==
  \/ \E f \in Functions : GatherFunction(f) \/ NestedFunction(f)
  \/ GatherClass \/ Gathered \/ AnalyzeFunction \/ NestedClass \/ LeaveClass
  \/ LeaveFunction \/ Unreachable \/ PlainStmt \/ ReturnStmt
  \/ EnterThen \/ LeaveIf \/ EnterElse \/ LeaveElse \/ Finish

Spec == Init /\ [][Next]_vars

-----------------------------------------------------------------------------
(* No function with a return type is accepted while control can reach the end
   of its body: its callers would use a value nobody returned
   (reachability.cc:60-63). *)
NoReturnlessAccepted == report.kind = "accepted" => ~report.live

(* A statement is called unreachable only if it is, in a function that has had
   no other within it: visit(FuncStmt) does not restore the graph, and what
   follows the inner function is taken to follow its return (reachability.cc:
   7-11, 37-38). *)
UnreachableJustified ==
  "func" \notin nesting /\ report.kind = "unreachable" => ~report.live

(* Where no if is within another, and no function within a function, the pass
   says exactly what is the case: a statement that gets past its check can be
   reached, and a function it rejects has a path that does not return
   (reachability.cc:60-63, 104-110). *)
VerdictExact ==
  nesting = {} /\ report.kind \in {"reached", "returnless"} => report.live
==============================================================================
