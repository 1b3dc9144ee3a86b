SPECIFICATION Spec
CONSTANTS
  c1 = c1
  c2 = c2
  Callers = {c1, c2}
  Requests <- MCRequests
  Scenarios <- MCScenarios
  Proofs <- MCProofs
  BreakglassMax = 2
  MaxTime = 3
SYMMETRY Symmetry
INVARIANTS
  AllowOnceIsOnce
  OverridesRespectSafety
  EgressIsStrictest
  EveryLevelIsEarned
PROPERTIES
  MoreUseNeverLoosens
CHECK_DEADLOCK FALSE
