--------------------------- MODULE RegisterTracker ---------------------------
(***************************************************************************)
(* ValueRefTracker (src/src/backends/x86-64/codegen.h:31-140), the naive   *)
(* register allocator of the x86-64 backend, as operators over its state   *)
(*   t.ref       exprToRef_       where the code finds an expression       *)
(*   t.register  exprToRegister_  the register assigned to an expression   *)
(*   t.owner     registerToExpr_  the expression a register belongs to     *)
(*   t.unused    unusedGpRegs_                                             *)
(* Expressions are numbers. A reference is <<"%", register>>,              *)
(* <<"$", immediate>> or <<"mem", 0>>, the one local variable. Which       *)
(* register begin() yields depends on the hash table: any unused one may.  *)
(***************************************************************************)
EXTENDS Integers, Sequences, Functions

CONSTANT GP    \* the general-purpose registers, %r10 to %r13

Tracker0 == [ref |-> <<>>, register |-> <<>>, owner |-> <<>>, unused |-> GP]

\* What f[x] = v and erase(x) make of a map.
Put(f, x, v) == [y \in DOMAIN f \cup {x} |-> IF y = x THEN v ELSE f[y]]
Without(f, x) == Restrict(f, DOMAIN f \ {x})

Assign(t, e, v) == [t EXCEPT !.ref = Put(@, e, v)]

RegOverwrite(t, e, r) ==
  [ref |-> Put(t.ref, e, <<"%", r>>), register |-> Put(t.register, e, r),
   owner |-> Put(t.owner, r, e), unused |-> t.unused]

Overwrite(t, e, v) == IF v[1] = "%" THEN RegOverwrite(t, e, v[2]) ELSE Assign(t, e, v)

Take(t, e, r) ==
  [ref |-> t.ref, register |-> Put(t.register, e, r), owner |-> Put(t.owner, r, e),
   unused |-> t.unused \ {r}]

\* The ways makeAssignable(e) can answer; none when it gives up.
MakeAssignable(t, e) ==
  IF e \in DOMAIN t.register /\ t.register[e] # "rax"
  THEN {[t |-> t, r |-> t.register[e]]}
  ELSE {[t |-> Take(t, e, r), r |-> r] : r \in t.unused}

AcquireRegister(t, e) ==
  IF e \in DOMAIN t.register
  THEN {[t |-> t, r |-> t.register[e]]}
  ELSE {[t |-> Take(t, e, r), r |-> r] : r \in t.unused}

\* Mutant: the register is not given back.
RegFreeKeeps(t, v) ==
  IF v[1] = "%" /\ v[2] \in DOMAIN t.owner
  THEN [t EXCEPT !.owner = Without(@, v[2]),
                 !.ref = Without(@, t.owner[v[2]]),
                 !.register = Without(@, t.owner[v[2]])]
  ELSE t

\* Whatever register has an owner joins the unused ones, %rax and the argument
\* registers too; a reference that is not a register has none.
RegFree(t, v) ==
  IF v[1] = "%" /\ v[2] \in DOMAIN t.owner
  THEN [ref |-> Without(t.ref, t.owner[v[2]]),
        register |-> Without(t.register, t.owner[v[2]]),
        owner |-> Without(t.owner, v[2]),
        unused |-> t.unused \cup {v[2]}]
  ELSE t

ResetRegisters(t) ==
  [ref |-> Restrict(t.ref, DOMAIN t.ref \ Range(t.owner)),
   register |-> Restrict(t.register, DOMAIN t.register \ Range(t.owner)),
   owner |-> <<>>,
   unused |-> t.unused \cup DOMAIN t.owner]
=============================================================================
