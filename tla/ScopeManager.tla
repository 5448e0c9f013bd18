---------------------------- MODULE ScopeManager ----------------------------
(***************************************************************************)
(* ScopeManager, Scope and the type table of each scope                    *)
(* (src/src/scope-manager.h, scope.h, cactus-table.h). A scope is its id;  *)
(* scopes holds the parent of each id, tables its own mappings.            *)
(***************************************************************************)
EXTENDS Integers, Sequences, FiniteSetsExt

CONSTANTS Names,    \* names that get mapped
          Values,   \* the types they are mapped to
          Null,     \* a default-constructed NLType
          Absent    \* no mapping

VARIABLES scopes, tables, curr_scope, next_id

scopeVars == <<scopes, tables, curr_scope, next_id>>

Empty == [n \in Names |-> Absent]

ScopeInit ==
  /\ scopes = <<-1>>
  /\ tables = <<Empty>>
  /\ curr_scope = 0
  /\ next_id = 1

Parent(id) == scopes[id + 1]

-----------------------------------------------------------------------------
\* reset() starts the next pass: ids are handed out again from 1.
Reset ==
  /\ curr_scope' = 0
  /\ next_id' = 1
  /\ UNCHANGED <<scopes, tables>>

\* enter() hands out the next id, and creates its scope when there is none yet.
Enter ==
  /\ curr_scope' = next_id
  /\ next_id' = next_id + 1
  /\ IF Len(scopes) > next_id
     THEN UNCHANGED <<scopes, tables>>
     ELSE /\ scopes' = Append(scopes, curr_scope)
          /\ tables' = Append(tables, Empty)

Exit ==
  /\ curr_scope' = Parent(curr_scope)
  /\ UNCHANGED <<scopes, tables, next_id>>

-----------------------------------------------------------------------------
(* CactusTable: a lookup walks the parents. A parent's id is below its      *)
(* child's, so the nearest scope with a mapping is the one of largest id.   *)

Enclosing(id) ==
  LET up[i \in 0..Len(scopes) - 1] ==
        {i} \cup IF Parent(i) \in 0..i - 1 THEN up[Parent(i)] ELSE {}
  IN  up[id]

Holders(n) == {id \in Enclosing(curr_scope) : tables[id + 1][n] # Absent}

IsMapped(n) == Holders(n) # {}

Insert(n, v) == tables' = [tables EXCEPT ![curr_scope + 1][n] = v]

\* get() of an unmapped name maps it, at the root, to a default value.
Get(n) == IF IsMapped(n) THEN tables[Max(Holders(n)) + 1][n] ELSE Null

GetInserts(n) ==
  tables' = IF IsMapped(n) THEN tables ELSE [tables EXCEPT ![1][n] = Null]
=============================================================================
