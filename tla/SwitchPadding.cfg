\* A switch whose operands need no padding.
CONSTANTS
  Insns <- ScanInsns
  MaxInsns = 3
  MaxBytes = 100
  Memory = 8
  Stray <- StrayBytes
SPECIFICATION Spec
INVARIANT PaddingIsZeroToThree
CHECK_DEADLOCK FALSE
