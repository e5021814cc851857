\* An exception without a message thrown again.
CONSTANTS
  Insns <- FinallyInsns
  MaxCode = 4
  MaxStack = 6
SPECIFICATION Spec
INVARIANT ThrowingNullIsTrue
CHECK_DEADLOCK FALSE
