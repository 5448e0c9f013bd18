\* Three classes, related in any way, with arrays of one and arrays of those.
CONSTANTS
  Types = {"A", "B", "C", "int"}
  Builtins = {"int"}
  NoType = NoType
  Arrays = {"A[]", "A[][]"}
  Elem <- ElemOf
  ChildFields = FALSE
  MaxOwn = 1
SPECIFICATION BuilderSpec
CHECK_DEADLOCK FALSE
INVARIANTS
  SlotIsTheField
  NoEndlessRecursion
PROPERTY
  CallsReturn
