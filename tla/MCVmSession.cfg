SPECIFICATION Spec
CONSTANTS
  Envs = {"a", "b"}
  Commands = 3
  Plans <- MCPlans
  MaxCrashes = 1
PROPERTY Settles
INVARIANT OneVm
INVARIANT Findable
CHECK_DEADLOCK FALSE
