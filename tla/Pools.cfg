\* Six pools in every order of their constants.
CONSTANT Pools <- SomePools
SPECIFICATION Spec
INVARIANTS
  IInv
  Aligned
  CountAgrees
  RefusesOnlyNew
  MembersNamed
PROPERTY Resolves
CHECK_DEADLOCK FALSE
