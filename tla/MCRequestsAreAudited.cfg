SPECIFICATION Spec
CONSTANTS
  c1 = c1
  c2 = c2
  Unparsable = Unparsable
  NoPolicy = NoPolicy
  Calls <- MCCalls
  Requests <- MCRequests
  Policies <- MCPolicies
  MaxFaults = 0
  MaxCrashes = 0
  MaxEdits = 0
INVARIANT
  RequestsAreAudited
CHECK_DEADLOCK FALSE
