\* Any statement at the top level; variables and references in functions and blocks.
CONSTANTS
  Names = {a, b}
  TopKinds = {"func", "class", "block", "var", "use", "return"}
  InnerKinds = {"var", "use", "assign", "this", "return", "[use]", "[assign]", "[this]"}
  MaxTops = 2
  MaxParams = 1
  MaxScopes = 5
  MaxVars = 1
  MaxRefs = 1
  Null = Null
  Absent = Absent
SPECIFICATION Spec
SYMMETRY Sym
CHECK_DEADLOCK FALSE
INVARIANTS
  UsesAgree
  ReturnHasOwnType
  NoReadOfItself
  ThisAndReturnHaveTheirPlace
  DuplicatesReported
  AssignmentsAgree
