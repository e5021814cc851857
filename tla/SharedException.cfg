\* An NPE that two threads throw at the same time.
CONSTANTS
  t1 = t1
  t2 = t2
  npe1 = npe1
  npe2 = npe2
  npe3 = npe3
  other = other
  Threads <- TwoThreads
  Exceptions <- OneNpe
  Npe <- OneNpe
  MayThrow <- Shared
  MaxThrows = 2
  MaxNest = 1
SPECIFICATION Spec
PROPERTY MessageNotOverwritten
CHECK_DEADLOCK FALSE
