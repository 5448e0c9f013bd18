CONSTANTS
  Chars = {"f", "n", "1", ".", "/", "*", "q", "=", "@", "newline"}
  Letters = {"f", "n"}
  Keywords <- Reserved
  MaxLength = 5
SPECIFICATION Spec
CHECK_DEADLOCK FALSE
INVARIANTS
  LinesCounted
  LongestMatch
PROPERTIES
  ScanEnds
