\* Up to two parameters of four types, up to two other variables.
CONSTANTS
  Types <- SomeTypes
  MaxParams = 2
  Locals <- SomeLocals
SPECIFICATION Spec
INVARIANTS
  IInv
  ReadAsMeant
  NamesTheVariable
  IndexCounts
CHECK_DEADLOCK FALSE
