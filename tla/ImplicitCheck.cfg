\* javac's implicit requireNonNull.
CONSTANTS
  Insns <- RequireInsns
  MaxCode = 4
  MaxStack = 6
SPECIFICATION Spec
INVARIANT ExplainsRequireNonNull
CHECK_DEADLOCK FALSE
