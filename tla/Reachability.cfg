\* Bodies with ifs, loops, functions and classes, side by side and within each other.
CONSTANTS
  NestedScopes = TRUE
  MaxFuncs = 1
  MaxDepth = 4
  MaxBlocks = 6
  MaxInner = 2
SPECIFICATION FlowSpec
CHECK_DEADLOCK FALSE
INVARIANTS
  NoReturnlessAccepted
  UnreachableJustified
  VerdictExact
  BlocksFollowFlow
  AcceptedIsTerminated
