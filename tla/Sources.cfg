\* Every kind of producer, consumer and dereference.
CONSTANTS
  Insns <- SourceInsns
  MaxCode = 5
  MaxStack = 4
SPECIFICATION Spec
INVARIANTS
  TypeOK
  IInv
  BlamesOrigin
  NeverOvershoots
PROPERTY Terminates
CHECK_DEADLOCK FALSE
