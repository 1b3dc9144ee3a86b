SPECIFICATION Spec
CONSTANTS
  c1 = c1
  c2 = c2
  Unparsable = Unparsable
  NoPolicy = NoPolicy
  Calls <- MCCalls
  Requests <- MCRequests
  Policies <- MCPolicies
  MaxFaults = 1
  MaxCrashes = 1
  MaxEdits = 0
SYMMETRY MCSymmetry
INVARIANTS
  TypeOK
  NoRequestWithoutAuthority
  BlockedRowsNeverSent
  RowsAreTruthful
  ConsentIsReal
  AtMostOneRequest
  AnswersAreAudited
  McpConfirmationPrecedesRequest
  LedgerShadowsAudit
  NoLockLeaks
  CountsAreCallsAndApprovals
PROPERTIES
  ImplementsGatedExecution
CHECK_DEADLOCK FALSE
