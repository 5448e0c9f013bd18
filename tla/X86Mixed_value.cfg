\* A sum of three literals plus a product: the compiler loses the result.
CONSTANTS
  GP = {r10, r11, r12, r13}
  Scratch = {}
  This = 0
  Params = 1
  FrameSizes = {16}
  Kinds = {"lit", "add", "mul"}
  StmtKinds = {"print"}
  LeftKinds = {"lit", "add", "mul"}
  RightKinds = {"lit", "add", "mul"}
  NegKinds = {"lit"}
  GroupKinds = {"lit"}
  ArgKinds = {"lit"}
  ReceiverKinds = {"local"}
  OneSided = FALSE
  NestedAssign = FALSE
  MaxArgs = 0
  MaxNodes = 9
  MaxStmts = 1
SPECIFICATION Spec
SYMMETRY Sym
CHECK_DEADLOCK FALSE
INVARIANTS
  EvaluatesToItsValue
