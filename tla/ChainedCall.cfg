\* a.foo(b).bar(): the result of a call with an argument.
CONSTANTS
  Insns <- ChainInsns
  MaxCode = 4
  MaxStack = 6
SPECIFICATION Spec
INVARIANT NamesTheNullOrigin
CHECK_DEADLOCK FALSE
