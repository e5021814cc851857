\* Two environments, two Java exceptions, one nested callback.
CONSTANTS
  e1 = e1
  e2 = e2
  NoEnv = NoEnv
  Envs <- TwoEnvs
  MaxRaises = 2
  MaxNested = 1
SPECIFICATION Spec
INVARIANTS
  IInv
  CallbackSurvives
  NoCallWhilePending
  LeavesNothing
  EnvironmentReady
PROPERTIES
  NoFailureIgnored
  CallbackEnds
CHECK_DEADLOCK FALSE
