\* Methods of up to three instructions, at every alignment.
CONSTANTS
  Insns <- ScanInsns
  MaxInsns = 3
  MaxBytes = 300
  Memory = 8
  Stray <- StrayBytes
SPECIFICATION Spec
INVARIANTS
  TypeOK
  IInv
  InStep
  ReadsInside
  FindsLocation
  RefusesNone
PROPERTY Finds
CHECK_DEADLOCK FALSE
