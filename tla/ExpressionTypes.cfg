CONSTANTS
  ClassNames <- Two
  Super <- Inherits
  Fields <- OwnFields
  Methods <- OwnMethods
  Functions <- TopLevel
  Vars = {"x"}
  Declarable <- Declared
  ReturnTypes <- Returns
  ThisClass = "B"
  MaxDims = 1
  MaxOperands = 2
  MaxStack = 3
SPECIFICATION TypesSpec
CHECK_DEADLOCK FALSE
INVARIANTS
  TypeErrorsReported
  ValueHasItsType
  StatementsEmitted
  ThisIsReceiver
