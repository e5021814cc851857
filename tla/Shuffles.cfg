\* The dup family, swap and checkcast in every order.
CONSTANTS
  Insns <- ShuffleInsns
  MaxCode = 6
  MaxStack = 6
SPECIFICATION Spec
INVARIANTS
  WatchesTheNull
  BlamesOrigin
  UnknownOnlyAtDup
CHECK_DEADLOCK FALSE
