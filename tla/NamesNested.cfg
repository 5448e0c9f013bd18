\* Functions and classes nested in methods and functions.
CONSTANTS
  Names = {a, b}
  TopKinds = {"func", "class"}
  InnerKinds = {"func", "class", "this", "return", "[this]"}
  MaxTops = 1
  MaxParams = 0
  MaxScopes = 7
  MaxVars = 0
  MaxRefs = 1
  Null = Null
  Absent = Absent
SPECIFICATION Spec
SYMMETRY Sym
CHECK_DEADLOCK FALSE
INVARIANTS
  ThisIsInnermostClass
