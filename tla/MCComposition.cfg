SPECIFICATION Spec
CONSTANTS
  Plans <- MCPlans
  RetryPolicies <- MCRetryPolicies
  StatusCodes = {401, 409, 503}
INVARIANTS
  EffectOnce
  AttemptsAreBounded
  HiddenEffectIsReviewed
  CompletedIsDone
CHECK_DEADLOCK FALSE
