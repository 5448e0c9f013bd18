\* Binary operators nest on one side only, to the left or to the right.
CONSTANTS
  GP = {r10, r11}
  Scratch = {r10, r11}
  This = 1
  Params = 1
  FrameSizes = {24}
  Kinds = {"lit", "local", "param", "add", "mul", "neg", "group", "call", "assign",
           "method", "field"}
  StmtKinds = {"expr", "print", "if", "while"}
  LeftKinds = {"lit", "local", "param", "add", "mul", "call", "group", "method", "field"}
  RightKinds = {"lit", "local", "param", "mul", "group", "call", "method", "field"}
  NegKinds = {"lit", "local", "param"}
  GroupKinds = {"add", "mul", "neg"}
  ArgKinds = {"lit", "local", "param", "add", "group", "call", "method"}
  ReceiverKinds = {"local", "param", "field", "method"}
  OneSided = TRUE
  NestedAssign = FALSE
  MaxArgs = 1
  MaxNodes = 6
  MaxStmts = 2
SPECIFICATION ObjectsSpec
SYMMETRY Sym
CHECK_DEADLOCK FALSE
INVARIANTS
  RefHolds
  ParamsKept
  ExitsOnlyWhenDeep
