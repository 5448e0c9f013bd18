# NeeiLang in TLA+

Models, model-checking runs and machine-checked proofs for the NeeiLang compiler
(`src/src`). Paths below are relative to `src/src` unless they start with
`doc/` or `test/`.

The compiler is one sequential program. What is hard about it is not
concurrency but *agreement*: eight walks over the same program, one after the
other, each with tables of its own, which have to come to the same conclusions
about scopes, names, classes and slots; mutable "where am I" variables that a
recursive walk must save and restore; a register allocator whose state outlives
the expression it serves. A program is the input, so every module chooses it
nondeterministically while the pass walks it.

## 1. Inventory

| Component | Source | State | Operations | Module |
|---|---|---|---|---|
| Scanner | `scanner.cc` | start, position, line, errors | one loop per kind of token | `Scanner` |
| Parser | `parser.cc`, `type-parse.cc` | position, `outer_class`, errors | recursive descent, `synchronize` | `Parser` |
| Resolver | `resolver.cc` | stack of scopes, `current_class`, `current_function`, first pass or second | one visit per statement and reference | `Resolver` |
| GlobalHoister | `global-hoister.cc` | global type table, `encl_class` | visits of class, function and variable statements, twice | `TypeHierarchy` |
| Type layout | `type.h`, `type.cc` | supertype, fields, methods of each class | `subclass_of`, `field_idx`, `get_methods`, `method_idx` | `TypeLayout` |
| Scopes | `scope-manager.h`, `scope.h`, `cactus-table.h` | tree of scopes, current scope, next id, a table in each | `enter`, `exit`, `reset`, `get`, `insert` | `ScopeManager`, `ScopeReplay` |
| Reachability | `reachability.cc`, `cfg.cc` | graph of basic blocks, `in_class`, first pass or second | visits of statements | `Reachability`, `LLVMBlocks` |
| TypeChecker | `type-checker.cc` | scopes, enclosing class and function, a type per expression | visits of statements and expressions | `NameBinding` (names), `ScopeReplay` (scopes), `StaticTypes`, `ExpressionTypes` (types) |
| Primitives, arrays, function types | `primitives.cc`, `arrays.cc`, `functype.cc` | tables of immutable types | subclassing, enclosed type, argument lists | `StaticTypes` |
| x86-64 backend | `backends/x86-64` | `ValueRefTracker`, stack frame, current method | visits, register allocation, the stack | `RegisterTracker`, `X86Expressions`, `X86Objects` |
| LLVM backend | `backends/llvm` | `ll_types`, named values, `last_deref_obj`, insertion point, vtables | two passes, values, basic blocks, `TypeBuilder::to_llvm` | `ScopeReplay`, `LLVMValues`, `ExpressionTypes`, `LLVMBlocks`, `TypeBuilder` |
| Driver | `neeilang.cc` | `had_error` | runs the passes, stops after one with errors | composition, see below |
| AST, AstPrinter, libc and bitcode glue | | none | | not modelled |

**How they interact.** `neeilang.cc:39-101` runs Scanner, Parser, Resolver,
GlobalHoister, Reachability, TypeChecker and a backend in this order. They share
the AST; the global `Scope` (symbols and types), which the hoister fills; and a
`ScopeManager`, which the TypeChecker fills and the backend's passes replay. The
Resolver hands on nothing but its errors. The classes' `Type` objects are built
by the hoister and read by everything after it.

**What is hard, and what makes each part correct.** `PROJECT.json` lists the
hazards line by line. In short:

- *Scanner:* loops that each have to count lines and mind the end of the source.
  Correct if every token is the longest that begins there, its line is right, and
  the scan ends whatever is left open.
- *Parser:* errors are exceptions through a recursion that keeps `outer_class`
  aside. Correct if brackets match, an init gets the type of its class, every
  error is followed by progress, and the parse ends.
- *Resolver:* a saved and restored context in a recursive walk; two passes of
  which only the first declares; and it visits nothing of `a[i]` and `a[i] = v`
  (`resolver.cc:262-264`, "TODO: Resolve these"). Correct, for what it visits, if a
  name that is read is not its own initializer, if "this" and return have their
  place, if duplicates are found.
- *GlobalHoister, layout:* classes refer forwards and may be reopened. Correct if
  the hierarchy never has a cycle (every walk up the chain ends), a field has one
  slot in a class and its subclasses, an override takes the overridden slot.
- *Scopes:* ids are handed out by counting. Correct if a later pass is in the
  scope the TypeChecker was in, creates none and reads what was declared.
- *Reachability:* edges are added to blocks remembered from before a branch was
  walked. Correct if it accepts no function that may end without a return, and
  rejects nothing else.
- *TypeChecker:* it looks up every name again, and passes `TypeError` on without a
  message. It is the first to look at names in index expressions. Correct if it finds
  what the Resolver found, checks a return against the right function, and lets no
  type error go unreported.
- *LLVM values:* conversions are chosen from the TypeChecker's types, instructions
  from the operands'; a method gets its `this` from one global variable. Correct if
  what was accepted gets a value of the type that was computed for it.
- *LLVM basic blocks:* no graph of its own; it relies on Reachability's verdict for
  every block to have one terminator.
- *x86-64:* registers are freed through references that may be stale; what is
  pushed around a call decides the alignment of the next one. Correct if the
  emitted code computes what the source means, no register is lost for good, and
  the stack is aligned where a library is called.
- *TypeBuilder:* recursion through classes that mention each other. Correct if it
  ends and every field is in the slot that code generation uses.

## 2. Modules

Each definition's source lines are in the `map` of `PROJECT.json`.

**`TypeLayout`** — `struct Type` as operators over three relations, `super`,
`fields`, `methods`. `SubclassOf` is stated as membership in the least up-closed
set, `NoCycle` as a property of all sets of classes: both avoid recursion over
data, so that they can be proved about. Slots, indices and vtables are recursive
functions on classes, defined where the hierarchy has no cycle.
**`TypeHierarchyProofs`** proves about this module and the next.

**`TypeHierarchy`** — the GlobalHoister. `DeclareClass` is its first walk;
`RejectSuperclass`, `RejectField`, `EnterClass`, `HoistMethod`, `HoistFunction`,
`RejectType` and the two `Leave` actions are the second. `frames` is the
recursion of `hoist()`, with the `encl_class` each visit of a class has saved.

**`ScopeManager`** — the manager and its tables, one operator per method, `Get`
with the insertion of a default value that `cactus-table.h:34` performs.
**`ScopeReplay`** composes it with the three passes that share it: the
TypeChecker, which creates scopes; the pass in the middle (StackFrameSizer, or
LLVM's globals pass), which skips some of them; code generation. The TypeChecker
records the statements in `events`, and where the manager was in the ghost
`trace`. `GoesAstray` is `scopes[curr_scope]` with an id of no scope. `phase` is
"undefined" then, and where LLVM's passes come to a variable outside of all functions,
which the grammar admits and `enclosing_func` asserts there is not
(`NoEnclosingFunction`, `llvm/codegen.cc:295`).
**`ScopeReplayProofs`** proves about it for both values of `Backend`.

**`Scanner`** — a step is a turn of one of the scanner's loops (`mode` says which),
with the two characters of lookahead. A character stands for its class.
**`ScannerProofs`** proves about it.

**`Parser`** — the recursive descent as a stack `todo` of what the functions in
progress still have to do, one operator per function of `parser.cc`. Tokens are
chosen when they are first looked at. An error empties the stack up to the
`catch` of `declaration()`, which leaves `outer_class` as it is; `Synchronize` is
the loop of that name, a token a step. `open`, `depth` and `moved` are ghosts.
**`ParserProofs`** proves about it.

**`RegisterTracker`** — `ValueRefTracker` as operators on a record of its four
maps; an operator that may take any unused register returns the set of outcomes,
because the code takes `begin()` of an unordered set.
**`X86Expressions`** visits expressions chosen on the way with it and executes
the emitted instructions on the spot. Values are symbols: `meaning` says what the
source means, `reg` and `mem` what the code makes of it. Two arithmetic operators
stand for those that are emitted as one instruction, at two precedence levels.
`stack` is what has been pushed below the frame, in bytes of `%rsp` where alignment
is concerned. **`X86Objects`** EXTENDS it with methods, constructors, fields,
arrays, strings and the statements that use them. A call of a library (`printf`,
`puts`, `malloc`) may overwrite `%rax` and the registers in `Scratch`, and `puts`, around
which only `%rdi` is saved, `%rsi` as well. **`X86Proofs`** proves about all three.

**`StaticTypes`** — the TypeChecker's rules, an operator for each kind of
expression. **`LLVMValues`** — the values code generation makes of the same
expressions, as the types they are represented by; `Invalid` is IR that breaks a
rule. **`ExpressionTypes`** takes both through the expressions and statements of
one function. An expression is put together from operands on `stack`, so its depth
is not bounded, only the operands that wait at one time. What code generation has
no code for is marked `partial`, and listed in section 5. Its names are kept apart from
those of `ScopeReplay`, as `ScopeReplayProofs` proves about both.

**`Reachability`** — the pass and its basic blocks. `live` is a ghost that says
what is the case: can control get here, if each condition may be true or false?
`report` holds the pass's last verdict next to it. A branch is a pair of actions
(`EnterThen`, then `LeaveIf` or `EnterElse` and `LeaveElse`), which is where the
remembered blocks go stale. `nesting` is a ghost the properties refer to.
**`LLVMBlocks`** EXTENDS it with the emission of basic blocks, which walks the same
body in step with it (`EmitThen` is `EnterThen` and the blocks), and on its own
through the bodies of loops, which Reachability does not visit. Only blocks
without a terminator are remembered; a new block has a number no block in use has.
**`ReachabilityProofs`** proves about both.

**`Resolver`** — both passes. `events` records each statement and reference with
the declaration it was bound to. References inside `a[i]` and `a[i] = v`, be it in the
array, the index or the stored value, are kinds of their own, `"[use]"`, `"[assign]"` and
`"[this]"`: `Indexed` looks nothing up and reports nothing, as the empty visits do, and
records them for the TypeChecker, which visits them. **`NameBinding`** EXTENDS it with the names the
hoister makes global and with the TypeChecker, which walks `events` with an
instance of `ScopeManager` and looks names up anew; it runs only after a Resolver
without errors, as the driver has it. `stage = "undefined"` is the use of a null
type (`type-checker.cc:113`, or that of a "this" outside of a class) or of a missing
enclosing function.
**`NameBindingProofs`** proves about both.

**`TypeBuilder`** — `to_llvm` with its stack of calls in progress; the classes of
the program are chosen in `BuilderInit`, over the relations of `TypeLayout`. Its names
are kept apart from those of `TypeHierarchy`, with which `TypeHierarchyProofs` takes it
together.

**`RecursionTheorems`** holds the lemmas the proof modules share.

The `MC` modules give constants their values and define symmetry sets.

## 3. Runs

All TLC bounds are constants of the modules, given in the `.cfg`. Deadlock is not
checked because every model stops when compilation does, or where a bound is met.

| Run | Question | Bounds, and why they do |
|---|---|---|
| `Scanner` | Is every token the longest, on the right line, and does the scan end on every source? | Every source of up to 5 of 10 characters. Every loop can be entered, left and cut off by the end: `1.1`, `/**/`, `"` over a newline, a reserved word and an identifier that begins like it. |
| `Parser` | Does every error lead to progress, and an init to the class it is in? | 26 token types, up to 5 tokens after nothing, after the beginning of a method, or of a class within one. A recovery needs an error, a token skipped and one to begin with again; a bracket pair within another fits. 1 parameter (8 in the code), so that its limit is met. |
| `Hierarchy` | Can class statements in any order build a hierarchy that loops, a field that moves, a vtable that dispatches wrongly? | 3 classes and a primitive, 3 class statements, 2 field names and 2 method names, 1 of each per statement or class. A cycle through a third class, an override that skips a class, a class in a method of a class and a reopened class all fit. |
| `NamesFlat` | Do Resolver and TypeChecker agree, and is what passes the Resolver safe? | 2 top-level statements of 6 kinds, 5 scopes, 1 parameter, 1 variable, 1 reference, 2 names: a method and a function of one name, each with its body, and a reference, an assignment, a return or "this" in any place, inside an index expression or not. No block within a body. |
| `NamesNested` | Is the enclosing class right when classes nest in methods? | 7 scopes: class, method, block, class, method, block and one more. |
| `ExpressionTypes` | Does what the TypeChecker accepts get code of the types it says? | 2 classes, one a subclass, with 3 methods and a field each; a function of 2 parameters; arrays of 1 dimension. 2 operands wait at a time (3 with arguments), so a call's argument may itself take a member: expressions of any depth that keep within that. |
| `ScopeReplay` | Is code generated in the scopes the program was checked in? | `Backend = "x86"`, 5 scopes and 2 variables, which may be at the top level too: a class with two methods and a body each, or a class in a function; names repeated in sibling scopes. For LLVM's pass in the middle the proofs cover `EmitReplays` and `ScopesFrozen`; `EmitReadsDeclaredType` is checked for x86-64 only. |
| `Reachability` | Is the verdict what is the case, and is it enough for LLVM's basic blocks? | `FlowSpec`: 6 basic blocks, depth 4, 1 function, 2 statements within each other in a loop: an if with else in a branch of another, in a function within a function or a class; a return in a loop in a branch. |
| `BuilderClasses` | Are struct types right and their construction finite? | 3 classes with every supertype relation and every field type, arrays of one class and arrays of these arrays, any order of requests. |
| `X86OneSided` | Does the code compute what the source means where a leaf is on one side of each operator? | 6 expressions in 2 statements, 2 registers, methods and fields. With two registers the limit is met three operators deep; the second statement shows what the first has left behind. |
| `X86Any` | Can any statement or shape lose a register for good, or call with the stack unaligned? | 4 expressions of all 16 kinds in 2 statements of all 8 kinds, frames of both alignments. Bugs of this kind need one expression and a later statement; a call in the argument of a call fits. |
| `X86Mixed_value` | Does `1 + 2 + 3 + 4 * 5` have its value? It has not. | 9 expressions, so that the sum and the product fit, and 4 registers as in the code. |

`X86Mixed_value` is expected to fail: it checks a claim of the documentation that
the code does not keep (section 5).

**Fairness.** The program is sequential and nothing else runs in it: whatever loop
or call has begun runs on. `ScanEnds` and `ParseEnds` assume `WF_vars(Next)`, every
step being one of the scanner's or the parser's own; that a program is finite is
the bound on its length. `CallsReturn` assumes `WF_builderVars(Step)`: a recursive
call that has begun runs on; new requests (`Request`) are not fair. All three are about
what could loop: a comment that is not closed, an error at a token that
`synchronize` stops at, classes that mention each other.

**Properties and their scope.** Where a property is known to fail for a class of
programs, it is stated for the others and says so:

- `DispatchReachesOverride` and `ReturnHasOwnType`: classes without two methods of
  one name.
- `UnreachableJustified`: functions without another nested in them. `VerdictExact`
  (nothing is called unreachable, and no function rejected, without a reason):
  without an if within an if either.
- `BlocksFollowFlow` and `AcceptedIsTerminated`: functions without dead code, without
  a loop whose body ends in a return, and without a nested function (`plain`).
- `OuterClassIsInnermost`: programs without a syntax error.
- `UsesAgree`, `AssignmentsAgree`, `ThisIsInnermostClass`, `NoReadOfItself` and the first
  half of `ThisAndReturnHaveTheirPlace`: references the Resolver visits, which are those
  outside of index expressions. Of the assignments among them, `AssignmentsAgree` leaves
  out the two that use the null type.
- `ValueHasItsType` and `StatementsEmitted`: expressions without a `partial` form, over
  classes without a field and a method of one name (`MembersDiffer`; the run has none).
- `CallsAligned`: calls of functions that are not in an argument, and `printf` of a
  number; calls of methods and `puts` in frames that are no multiple of 16; calls in
  an argument, of functions alone, in frames that are one. The others are in
  section 5.
- `RefHolds`: operators with a leaf on one side, methods of at most one argument
  that is not `this`, no logical operators, no constructors within expressions; no
  string printed, because `puts` loses the second parameter. The same programs for
  `ParamsKept`.
- `ExitsOnlyWhenDeep`: without what keeps a register, as section 5 lists it.
- `SlotIsTheField`: programs in which no field leads to a subclass of its class
  (`ChildFields = FALSE`).

The excluded programs are those of section 5.

## 4. Proofs

TLAPS proves the following for all values of the constants: the bounds of the runs
only make fewer steps possible, so that nothing below is about small programs.

**Induction without a rule for it.** What a recursive function computes is proved
by least counterexample: a set of naturals that is not empty has a least element
(`RecursionTheorems!LeastExists`, from `NatLessThanWellFounded` of the library), and the
step before it contradicts that. `ChainRecursion` shows with it that a recursion
along parent pointers has a solution wherever the pointers have no cycle, and
`SolutionsAgree` that there is only one: without both, `CHOOSE` says nothing of a
function that is defined by recursion. `FoldExists` does the same for the functions
over sequences. The rest of the module is about lists: what `Append`, `Front`,
`SubSeq` and `EXCEPT` do to one (`Appended`, `Fronted`, `Cut`, `Replaced`, ...).

**GlobalHoister and layout** (`TypeHierarchyProofs`)

- `TypeCorrect`: `Spec => []TypeOK`. `TypeOK` is inductive; the part that matters is
  that every supertype is in the type table.
- `AcyclicHierarchy`: `Spec => []Acyclic`. The only step that links classes has asked
  `ClosesCycle` first. If the new link made a set of classes without a way out,
  `SubclassOf` would have led from the superclass to the class: lemma by lemma, an
  up-closed set that excludes the class is exhibited.
- `EnclosingClass`: `Spec => []EnclosingClassIsInnermost`. The invariant says of every
  visit in `frames` what `encl_class` it will restore.
- `FieldSlotsInherited`, `DispatchInherited`: in any hierarchy without a cycle, whoever
  built it, the recursions of `Type` agree with each other: `field_idx` is a position
  in the list of slots and the same in a subclass; `get_methods` gives an override
  the slot of what it overrides. `FieldSlotsOfSubclasses` and `DispatchThroughTables`
  are the two invariants the `Hierarchy` run checks, `FieldSlotsAgree` and
  `DispatchReachesOverride`, with `AcyclicHierarchy` for the hypothesis.

**TypeBuilder** (`TypeHierarchyProofs`), for any classes, fields and arrays

- `RecursionEnds`: `BuilderSpec => []NoEndlessRecursion`. The invariant `BInv` says that
  each call is for a type the one below it mentions (`Chained`) and that the classes
  with a call in progress are the ones whose struct type is opaque (`Opaques`), so that
  there is at most one for each. Arrays have no opaque type. After the last class only
  arrays are left, each an array of the next and so no two the same; before it, an array
  cannot come twice either, because the classes that end the two chains of elements
  would be the same (`HeadDistinct`, `TailDistinct`). Hence twice the number of arrays.
- `BuiltSlots`: `BuilderSpec => []SlotIsTheField`, assuming `~ChildFields` as the run
  does. `Bodies` says that a complete struct is the header and the slots of
  `Type::field_idx`, `Beginnings` that one in the making is the header, what is inherited
  and a number of the own fields. That the supertype is complete when its elements are
  taken is the point: were it opaque, it would have a call in progress, that call would
  have led to the one for its subclass (`CallsLead`), and this is what `~ChildFields`
  excludes.

**Scopes** (`ScopeReplayProofs`), for either backend

- `EmitReplaysScopes`: `Spec => []EmitReplays`, and `ScopesStayFrozen`:
  `Spec => ScopesFrozen`. `EmitReplays` is not inductive: code generation finds the
  right scope only if `enter` does not create one and `exit` follows the right
  parent. `IInv` adds `Shapes` (types, parents below children, lengths),
  `TraceExplained` (each entry of `trace` follows from the one before by the event
  between them, given the tree of scopes), `CheckInv` (the TypeChecker is where its
  trace ends), `MiddleInv` (ids handed out never exceed the scopes there are) and
  `EmitInv`. The heart is that the middle pass enters at most as often as the
  TypeChecker did, and that `Reset` makes what it did there irrelevant.
- `EmitReadsTypes`: `Spec => []EmitReadsDeclaredType`. To `IInv`, `TInv` adds that the
  type of every declaration in `events` is in the table of the scope `trace` has for
  it. Lookups add entries, but only where there was none (`CheckVar` asks `IsMapped`
  before it inserts), and a default entry is no type. Declarations may be at the top
  level: `Rooted` says that every scope is below the program's, so that a lookup adds a default
  there only for a name that has no entry anywhere above.

**Types and LLVM's values** (`ScopeReplayProofs`), for any classes, members, functions and
declarations, and expressions of any depth and any number of operands

- The rules come first, each away from the state: `UnaryRule`, `BinaryRule`, `GetRule`, ...
  say that a rule gives a type, that it gives `TypeError` only with a message or for an
  operand that has it, and that the value made of operands represented by their types is
  represented by the type the rule gives. What this rests on is `SubclassIs` (a value that
  is accepted for another type can be cast to it), `MatchIs` (no object is a number),
  `FieldsHaveTypes` and `AncestorsAreClasses`; the last two are recursions along
  `Super`, for which `ChainRecursion` is needed.
- `TypeErrorsAreReported`: `TypesSpec => []TypeErrorsReported`, and
  `MethodsGetTheirReceiver`: `TypesSpec => []ThisIsReceiver`. Code generation remembers one
  object, the last one a member was taken of; arguments overwrite it. The property is not
  inductive, for it only speaks of callees. `TypesInv` adds that a method on top of the
  stack has just been taken from the object that is remembered (`TopKept`): when it becomes
  the callee, before any argument, that is its own. It also says that only what is called
  has the type of a function, and that variables have types of values.
- `ValuesHaveTheirTypes`: `TypesSpec => []ValueHasItsType`, and `StatementsAreEmitted`:
  `TypesSpec => []StatementsEmitted`, both assuming `MembersDiffer`. `ValuesInv` is
  inductive together with `TypesInv`: an operator's operands have the values their types
  say, so that its rule's lemma applies (`VisitEnds`), and a statement's operands are of
  the types it asks for (`StatementIs`). `MembersDiffer` came out of the proof of
  `GetRule`: without it the property is false, as section 5 says.

**Scanner** (`ScannerProofs`)

- `CountsLines`: `Spec => []LinesCounted`. Every loop advances by one character, and
  the line by one if that is a line break.
- `LongestMatches`: `Spec => []LongestMatch`. The first character decides which form of
  lexeme a text can have at all (`Firsts`); `Matching` says for each mode of the scanner
  what has been consumed since `start`. That the text consumed is a lexeme and no longer
  one is, is a lemma for each form (`IdentifierLongest`, `StringLongest`, ...), about
  sources and positions and not about the scanner; `LexemeBetween` translates the
  definition of a lexeme, a predicate on texts, into one on positions.

**Parser** (`ParserProofs`)

- `InnermostClass`: `Spec => []OuterClassIsInnermost`. The invariant `ClassesNest` says
  what `outer_class` will be when each of the calls of `class_declaration` in progress
  returns, and that there are as many of them in `todo` as `depth` says.
- `RecoveryAdvances`: `Spec => ErrorsAdvance`. The invariant `NoTokenTwice` says where
  in `todo` a token may be left that caused the last error, and that none is looked at
  again before one has been consumed.
- `BracketsClose`: `Spec => []BracketsMatch`. `BracketsMatch` says nothing of the time
  between declarations; `TodoClosesOpen` does: `todo`, read from left to right, closes
  the brackets that are open, from the innermost to the outermost, and each that it
  opens itself. What a function of the grammar leaves to do closes what it consumed
  (`Balanced`, a lemma for each function, `RuleBalanced` for all), so that the function
  can be replaced by it in `todo` (`Replaced`).

**Reachability and LLVM's basic blocks** (`ReachabilityProofs`)

- `AcceptedReturns`: `Spec => []NoReturnlessAccepted`, for ifs, functions and classes
  nested to any depth. `Returns` is a least fixed point, so that a block is shown not
  to return by a set of blocks none of which returns and each of which has a successor
  within the set, or none at all (`Escapes`). The invariant `Tracked` says that such a
  set exists while control can reach the point the walk is at, with the first block of
  every statement around it that is in the same function (`LiveNow`), and that one
  existed at the beginning of each of these statements, up to the block the statement
  hangs from (`Pending`). The sets are needed for all statements in progress: a branch
  that returns ends the set of the moment, and what follows the if goes on with the
  one from before it. `Ordered` keeps later blocks out of earlier sets. A lemma for
  each way the blocks change (`ReturnTracked`, `ThenTracked`, `ElseTracked`, ...) is
  stated about sequences of blocks and statements, away from the actions.
- `UnreachableIsDead`: `Spec => []UnreachableJustified`, and `VerdictsExact`:
  `Spec => []VerdictExact`. The other direction needs a path instead of a set: that the
  block the walk is at is reached from the entry while control is, block by block.
- `EmissionFollows`: `FlowSpec => Spec`. Every step of the emission of basic blocks is
  one of Reachability, or none within a loop. With it, `EmittedReturns`:
  `FlowSpec => []NoReturnlessAccepted`.
- `BlocksAreOpen`: `FlowSpec => []BlocksFollowFlow`. What is inductive is said of every
  statement in progress: which of its blocks are still without a terminator, that they
  are different ones, and where control goes on after it. `AcceptedTerminates`:
  `FlowSpec => []AcceptedIsTerminated` follows from it and `EmittedReturns`.

**Names** (`NameBindingProofs`)

- `InTheirPlace`: `Spec => []ThisAndReturnHaveTheirPlace`. `current_class` and
  `current_function` are saved and restored in a walk of any depth: `Nested` says that
  the stack of scopes is as high as the statements in progress ask for, and that "this"
  is a name only in the scope of a class; `InPlace` that each `current_function` a
  visit has saved tells of a function around it. Nothing is assumed of the nesting. This
  theorem and the others about references speak of those the Resolver visits: about
  what is inside an index expression they say nothing, and what goes wrong there is in
  section 5.
- `NotItself`: `Spec => []NoReadOfItself`: a name that is declared and not yet defined
  is found by no lookup that goes through.
- `NoDuplicates`: `Spec => []DuplicatesReported`, assuming `Flat`: functions and classes
  are not nested in blocks. Without it the property is false, as section 5 says, for
  the second pass defines what it has not declared.
- `ThisIsInnermost`: `Spec => []ThisIsInnermostClass`, across the two passes and for any
  nesting. Neither hands anything to the other, so the invariant `TInv` speaks of a
  history: for each event, the statements in progress before it (`Explains`). It says
  that the Resolver's frames are the last of these lists and that every "this" it
  visits was bound to the innermost class in its own, since a scope has a "this" if and only if it is a
  class's (`ThisMeans`); and that what the TypeChecker has saved in `open` is, for each
  statement of the list at its place, the class around it (`SameOpen`).
- `ReturnsTyped`: `Spec => []ReturnHasOwnType`, assuming `Flat`. The TypeChecker finds
  the type of a function again by name, among the methods of a class or the functions
  that the GlobalHoister has entered. Three invariants connect the passes. `OInv`: the
  Resolver records every event with the statement around it, gives no identity twice,
  and records no return outside of a function; so the statements that an event is
  `Inside` of are those its history lists, and the last of them is the innermost
  (`ListedUntilEnded`, `LastIsInnermost`). `FunctionsTyped`: what is hoisted under a name
  is the only function of that name, which is where `NoDuplicates` is needed. `Returning`:
  `SameOpen`, for functions in place of classes. A method is found by its class, because
  no other class has its name with the same method (`MethodsDiffer`, the condition of
  the property).
- `UsesFindTheirDeclaration`: `Spec => []UsesAgree`, and `AssignmentsFindTheirVariable`:
  `Spec => []AssignmentsAgree`, assuming `Flat`. The Resolver keeps a stack of scopes with
  everything that is declared; the TypeChecker a tree, with only what has a symbol:
  functions are in a table of their own, classes are there from the start, and a variable
  comes after its initializer. `Views` is what links them, a sequence `vs` that depends
  on the events alone: `vs[i]` is what a walk of the first `i` events knows, by level of
  nesting (`Turned` for each event). Two invariants say that each pass has it.
  `SInv`: without errors the Resolver's scopes are the last view, except for what has no
  symbol (`Sees`, `Shown`), and every name it has bound (those in index expressions it has not) is the nearest
  one in the view it was read in, or a function of the first pass (`Referred`); what is not ready waits for
  the second pass or is being initialized (`ReadyThere`). `KInv`: while there is no type
  error, the ancestors of the TypeChecker's scope, by increasing id, are the levels of
  `vs[pos]` (`Chain`), and `fn_types` has exactly the functions of the top level. The
  lookup by parents is a recursive function, which exists because a parent's id is
  smaller (`Ancestors`); what it finds is the symbol of the nearest level (`LooksUp`).
  A name with a symbol of the view is then found by both, and one without by both among
  the functions, where it is the only one (`OneGlobal`, from `NoDuplicates`). `KHoisted`
  shows that the GlobalHoister, which keeps the last of two declarations with one name,
  enters what the first pass has declared.

**x86-64** (`X86Proofs`)

- `RegistersKept`: `ObjectsSpec => []NoRegisterLost`. Each operation of the tracker keeps
  `Sound`; what is awkward is that it does so for any expressions and references, also
  stale ones and those that are no register.
- `CallsStayAligned`: `ObjectsSpec => []CallsAligned`. The invariant `Held` says that the
  stack is as high as the sum of what each visit in progress has pushed (`Words`), given
  by its kind, arity, and whether its receiver has been evaluated: `Heights` are the
  partial sums. A call pops what it has pushed (`EndCallHeld`), the padding included,
  since that depends only on the frame and "this". Whether the sum is even or odd then
  decides (`HeightZero` where no other call is in progress, `HeightEven` where only
  calls of functions are).
- `ValuesAreFound`: `ObjectsSpec => []RefHolds`, and `ParametersAreKept`:
  `ObjectsSpec => []ParamsKept`, assuming `Simple`: operators with a leaf on one side
  (`OneSided`), parentheses around what has a register, functions of at most one
  argument, fields that are read, assignments anywhere, and statements of every kind but
  `puts`, around which only the first parameter is saved (`NoPuts` says none is begun).
  What it leaves out goes wrong (section 5) or is left to the runs (methods). `PInv` is
  the invariant. A left
  operand stays in `dest` while the right one is visited, although the tracker may have
  given that register back already: `Kept` says that no other visit in progress has
  the register, and that it is in use, or else that only a leaf is still to come, which
  needs none. `FoundWhere` says of the value that has just been computed that it is in
  the register it has been assigned and that no visit in progress holds a left operand
  there. `Tracks` and `Numbered` keep the maps apart: registers are assigned to
  expressions met before and not to the ones whose visits are in progress. `Saved`
  finds what each call has pushed, at the height that `Held` gives it, so that `%rdi` is
  popped from where it was pushed (`CallUnwinds`); it holds an argument only between
  the last visit of a call's operands and the call (`Passing`).
- `RunsOutOnlyWhenDeep`: `ObjectsSpec => []ExitsOnlyWhenDeep`, assuming `Frugal`: `Simple`,
  without what keeps a register for good (section 5), and two registers. On top of `PInv`,
  `DInv` says of every register that it is unused, or the left operand's of a visit in
  progress, or holds the value that has just been computed (`GivenBack`); that value has
  its register on record where the next step would ask for another. What is freed under a
  stale name still goes to the unused ones, since a register in use has an owner
  (`GivenFreed`, from `NoRegisterLost`). So where none is unused, each belongs to another
  visit in progress, the top one is none of these and asks for one more: `RegistersCounted`
  compares the sets (`FS_Surjection` and `FS_Subset` of the library).

**Assumptions.** `NoTypeIsNoType`, `AbsentIsNoType` (the null pointer is no type), `AbsentIsNoDecl` (nor is it a declaration),
`TypesAssumption` (types are classes and primitives), `ThisIsNoName` ("this" is a
keyword and no identifier), `NoNameIsNone` (the name of what has no name, a block or a
"this", is no identifier), `KindsKnown` (the constants name kinds of statements),
`LettersApart` (the characters with a meaning of their own are no letters or digits),
`RegistersApart` and `ScratchAssumption` (the general-purpose registers, `%r10` to `%r13`,
are none that results and arguments are passed in, and those a library overwrites are
among them; `codegen.h:136`),
`LengthIsNatural` and `ArgsAreCounted` (bounds are numbers), `LocalsAreWords` (the size
of a frame is a multiple of 8, `stackframe.h:35-36`), `TypesAreFinite`, `TypesAreApart`
and `DimensionsEnd` (a program has finitely many types, an array type is no class, and
an array has elements of fewer dimensions), `ClassNamesAssumption` (no class has the name
of a primitive: it would replace it in the type table), `SuperAssumption` (superclasses
have no cycle, which is `AcyclicHierarchy` for what the GlobalHoister builds),
`MembersAssumption` and `DeclaredAssumption` (the types that members, functions and
variables are declared with were found). TLC evaluates each in the run of
its module. The proofs about Parser, Reachability and LLVMBlocks assume nothing.

**Only model-checked.** Liveness (`ParseEnds`, `ScanEnds`, `CallsReturn`), which is out of
the prover's reach; and `RefHolds`, `ParamsKept` and `ExitsOnlyWhenDeep` with calls of
methods, which their run `X86OneSided` has and `Simple` has not: among the arguments of
such a call `%rdi` is the receiver, and a register holds the address of the method.

## 5. Disagreements met while modelling

Shown by a run (see `findings` in `PROJECT.json`):

- `X86Mixed_value` — `1 + 2 + 3 + 4 * 5` loses its result: `visit(Binary)` frees
  the register of the left operand that it accumulates in (`x86-64/codegen.cc:385`),
  while `doc/Lang.md:14` says each expression evaluates to a value.

Also met, in the code or in the models with other bounds, and the reason for the
conditions in section 3.

Scanner and Parser:

- A `/*` that is never closed is accepted without an error (`scanner.cc:93`).
- After an error within a class `outer_class` still points at it, and an init that
  follows takes its type from there (`parser.cc:102`).
- A `fn init` within a method is taken for an initializer, as `outer_class` is set.
- `for (; ...)` is rejected, although the comment at `parser.cc:178` makes the
  initializer optional. Initializers of fields are parsed and dropped.
- `synchronize` consumes the token the error was met at, even one that begins a
  statement (`parser.cc:509`).

Names, scopes and layout:

- An assignment to a function, or to a variable in its own initializer, passes the
  Resolver; the TypeChecker then uses the null type of a symbol that is not there
  (`type-checker.cc:113`).
- `a[i]` and `a[i] = v` are not resolved at all (`resolver.cc:262-264`). Hence
  `var x: Int = a[x];` passes the Resolver; `a[0] = this;` outside of a class does, and the
  TypeChecker makes an expression of a null class type (`type-checker.cc:128-130`); and
  `a[0] = (z = 1);` with `z` undeclared does, a third use of the null type at
  `type-checker.cc:113`.
- A variable at the top level is parsed and type-checked (`parser.cc:24-34`), but LLVM's
  passes fail at it with an assertion (`llvm/codegen.cc:295`); `doc/Lang.md:27` admits
  only functions and classes there.
- Two methods of one name are hoisted (`global-hoister.cc:157`) although
  `llvm/codegen.cc:513` says "NL doesn't allow name reuse"; returns of the second
  are checked against the first one's type (`type-checker.cc:141`).
- For a class within a function the sizer replays scopes that are not the
  statement's and may read `scopes[-1]` (`scope-manager.h:18,37`).
- The key of a nested function replaces that of a global one
  (`global-hoister.cc:160`); a nested function or class is defined without being
  declared (`resolver.cc:84`), so a duplicate goes unnoticed.
- After the first pass over any class, "this" outside a class gets another error
  than the one at `resolver.cc:71` (`resolver.cc:90`).
- Both backends ask for a function before a variable of that name
  (`llvm/codegen.cc:318`, `x86-64/codegen.cc:513`).
- A class with a field of its own subclass: the subclass copies the elements of a
  struct that has none yet (`type-builder.cc:33`), against
  `test/codegen/child_as_field.ll:5`.

Reachability and LLVM's basic blocks:

- An init at the top level is rejected for lack of a return: `in_class` is false
  when it is analyzed (`reachability.cc:55-56`).
- A nested function clears the graph of the outer one (`reachability.cc:50`): what
  follows it may be called unreachable.
- `if (a) { if (b) { x; } } return 1;` is rejected, against `cfg.h:49-50`, because
  edges leave the first block of a branch, not its last. Likewise, what follows a
  nested if may be out of control's reach and pass.
- The body of a while is not visited: a return in it counts for nothing.
- A body of a while that ends in a return gets a second terminator
  (`llvm/codegen.cc:634`), and a Void function that does not end in one gets none.
- A function or class within a function is not in the module when its body is
  generated (`llvm/codegen.cc:670`); what `verifyFunction` says is not looked at.

Types and LLVM's values (the `partial` forms of `ExpressionTypes`, and what else the
TypeChecker accepts):

- `!` has no value, so that `if (!a)` leaves out the whole statement
  (`llvm/codegen.cc:578`). Strings and objects have no code for `+`, `<` and `==`;
  `"a" - "b"` is accepted by a case that falls through (`type-checker.cc:266-281`),
  and `==` accepts operands of any two types.
- An assignment to a field or an element has the type of what is stored and the value
  of a void store. An object of a subclass is stored without a cast.
- A class used as a value, or a member of a class's name other than init, has none.
  `(a.m)()` gets no `this`; `(A).init` casts the parenthesis to a `Variable`.
- A class may have a field and a method of one name: the TypeChecker takes the field
  (`type-checker.cc:390`), code generation the method (`llvm/codegen.cc:439`), so that the
  value is not what its type says.
- A method of a superclass is not found by `has_method`; an overriding method may
  have any signature; arrays are covariant; a Void variable is accepted; a variable
  named like a type is not.
- A function whose name ends in `_init` is taken for an initializer.

x86-64:

- `visit(ReturnStmt)` frees no register: the fifth function that returns a sum
  exits the compiler (`x86-64/codegen.cc:339`), although `codegen.h:29-30` speaks of
  a fallback to the stack. Two other registers stay taken: that of a variable's
  initializer in memory (`:217`), and, where a negation is an operand (`- -a`, `-a + b`)
  or assigned within an expression, that of what is negated, which owns the register
  although the result is in it (`:350-369`).
- `getBool() && getAnotherBool()` (`doc/Lang.md:140`): the left operand is made
  assignable after the right one has been emitted, and never moved
  (`x86-64/codegen.cc:555`).
- A call in parentheses makes `%rax` a register with an owner, `regFree`
  (`codegen.h:123`) then makes it a general-purpose one; likewise `%rdi` for a
  parameter in parentheses.
- "Restore scratch registers" (`x86-64/codegen.cc:656`) pops in the order of the
  pushes, so that two arguments change places.
- An argument, or the receiver, is moved into its register while a later argument is
  still to be read from there: `f(b, a)`, `a.m(this)` (`:637`, `:603`).
- `a.f = g()` stores the field's address, as `%rax` holds it when the call returns in
  it (`:746`). `malloc` in a constructor overwrites `%r10` and `%r11`.
- Around `puts` only `%rdi` is saved (`:156-163`): a second parameter, in `%rsi`, may be
  lost, and what is in `%r10` and `%r11`.
- A literal that occurs again is only its label. `GetIndex` frees the array's register
  twice, the second time perhaps that of its own result (`:785-787`).
- The stack is not aligned at a call of a method or constructor, or of `puts`, in a
  frame that is a multiple of 16 (`:611-626`), at `malloc` for an object in one that
  is not, or ever for an array; in the argument of another call it depends on both.
- Eight parameters are admitted and six registers used for them (`:609`).
- The label of a method that is inherited is that of the class that does not define
  it, or an assertion fails (`:29`). After a class within a class `enclosingClass_`
  is null (`:239`).
- Division reads 32 bits of the dividend (`:422`); LESS tests the carry and `set`
  writes one byte of a register that holds the left operand (`:436`): `300 < 5`.

## 6. Not modelled

- *AST and visitors* beyond what the Parser asks of an expression; *AstPrinter*,
  *libc and bitcode glue*, command line and exit codes: formatting and calls of
  libraries, no state of their own.
- *x86-64:* division and comparison (`:422`, `:436`) are operators like the others,
  as values are symbols and widths are not seen; Floats; the labels of vtables
  (`:29`); more than two arguments (`:609`); the offsets in a stack frame, which are
  a sum over its variables. A callee is taken to preserve argument registers not
  saved for it, and what the heap holds is what the source means.
- *LLVM:* the contents of vtables beyond the order that `TypeLayout` gives them, the
  function types of methods, alignment and names of values. What makes IR invalid is
  external, taken from how the code builds it.
- *Loops in Reachability:* the pass does not walk the body of a while at all, so a
  return in one is invisible to it; `LLVMBlocks` walks it.
- *Programs as text:* between the modules a program is what each walks over, chosen
  anew in each; that the Parser's tree is the one the later passes walk is not stated.

## 7. Plan

Built, with proofs: `TypeLayout`, `TypeHierarchy` and `TypeBuilder`; `ScopeManager` and `ScopeReplay`;
`RegisterTracker`, `X86Expressions` and `X86Objects`; `Reachability` and `LLVMBlocks`;
`Resolver` and `NameBinding`; `Parser`; `Scanner`; `StaticTypes`, `LLVMValues` and
`ExpressionTypes`.

Next, in order of weight:

1. *Abstract specifications.* A reference pass for names, one tree of lexical scopes,
   that `Resolver` and `NameBinding` both implement; the map "statement to scope"
   that `ScopeReplay` implements.
2. *Widths.* Division and comparison of x86-64 as functions on 64-bit values.
