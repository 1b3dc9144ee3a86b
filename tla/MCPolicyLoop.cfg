SPECIFICATION Spec
CONSTANTS
  PolicySets <- MCPolicySets
  Inputs <- MCInputs
INVARIANTS
  TypeOK
  LoopComputesEvaluatePolicy
  StrictestPermissionWins
  SimulationSeesRelaxations
  UnattendedIsScoped
CHECK_DEADLOCK FALSE
