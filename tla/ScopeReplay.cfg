\* The TypeChecker, the StackFrameSizer and CodeGen of the x86-64 backend.
CONSTANTS
  Names = {x, y}
  Values = {int, str}
  Null = Null
  Absent = Absent
  Backend = "x86"
  MaxScopes = 5
  MaxVars = 2
SPECIFICATION Spec
SYMMETRY Sym
CHECK_DEADLOCK FALSE
INVARIANTS
  EmitReplays
  EmitReadsDeclaredType
PROPERTY
  ScopesFrozen
