\* Three classes, one of which may be reopened, with fields, overrides and nesting.
CONSTANTS
  A = A
  B = B
  C = C
  IntT = IntT
  NoType = NoType
  Types <- ThreeTypes
  Classes <- Three
  Prims <- PrimNames
  FieldNames = {f, g}
  MethodNames = {m, n}
  MaxFrames = 3
  MaxVisits = 3
  MaxFields = 1
  MaxMethods = 1
  MaxFunctions = 1
SPECIFICATION Spec
SYMMETRY Sym
CHECK_DEADLOCK FALSE
INVARIANTS
  TypeOK
  Acyclic
  FieldSlotsAgree
  DispatchReachesOverride
  EnclosingClassIsInnermost
