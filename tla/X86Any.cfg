\* Small programs of any shape: methods with objects, arrays and strings.
CONSTANTS
  GP = {r10, r11}
  Scratch = {r10, r11}
  This = 1
  Params = 1
  FrameSizes = {16, 24}
  Kinds = {"lit", "local", "this", "param", "str", "add", "and", "group", "assign",
           "call", "method", "new", "field", "set", "index", "setindex"}
  StmtKinds = {"expr", "print", "puts", "return", "if", "while", "var", "array"}
  LeftKinds = {"lit", "local", "param", "add", "group", "call", "and", "field", "index"}
  RightKinds = {"lit", "local", "param", "group", "call", "and", "method", "field", "index"}
  NegKinds = {"lit", "local", "param", "neg", "group", "call", "and"}
  GroupKinds = {"lit", "local", "param", "add", "group", "call", "and", "this", "new"}
  ArgKinds = {"lit", "local", "param", "this", "str", "add", "group", "call", "and", "new", "method"}
  ReceiverKinds = {"local", "this", "param", "field", "method", "group", "call"}
  OneSided = FALSE
  NestedAssign = TRUE
  MaxArgs = 1
  MaxNodes = 4
  MaxStmts = 2
SPECIFICATION ObjectsSpec
SYMMETRY Sym
CHECK_DEADLOCK FALSE
INVARIANTS
  NoRegisterLost
  CallsAligned
