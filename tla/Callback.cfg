\* NPEs confined to the thread that made them.
CONSTANTS
  t1 = t1
  t2 = t2
  npe1 = npe1
  npe2 = npe2
  npe3 = npe3
  other = other
  Threads <- TwoThreads
  Exceptions <- FourExceptions
  Npe <- Npes
  MayThrow <- InOneThread
  MaxThrows = 3
  MaxNest = 2
SPECIFICATION Spec
INVARIANTS
  IInv
  DescribesItsThrow
  NoSilentLoss
  LoggerRaceCost
PROPERTIES
  ConstructorMessageKept
  MessageNotOverwritten
  CallbacksReturn
  Annotates
CHECK_DEADLOCK FALSE
