---------------------------- MODULE MCComposition ----------------------------
(***************************************************************************)
(* Bounds for Composition: two normal steps, the first of every            *)
(* idempotency mode, and a compensation; retry policies that are absent,   *)
(* allow three attempts, or are automatic with none.                       *)
(***************************************************************************)
EXTENDS Composition

Step(required, role, kind, method, mode, hasKey) ==
  [required |-> required, role |-> role, sideEffectKind |-> kind, method |-> method,
   idempotencyMode |-> mode, hasKey |-> hasKey]

FirstSteps ==
  {Step(TRUE, "normal", "write", "POST", mode, hasKey) : mode \in IdempotencyModes, hasKey \in BOOLEAN}
    \cup {Step(TRUE, "normal", "destructive", "DELETE", "method", FALSE),
          Step(FALSE, "normal", "write", "POST", "none", FALSE),
          Step(TRUE, "normal", "read", "GET", "none", FALSE)}

MCPlans ==
  {<<first, Step(TRUE, "normal", "write", "POST", "none", FALSE),
     Step(required, "compensation", "destructive", "DELETE", "none", FALSE)>> :
     first \in FirstSteps, required \in BOOLEAN}

MCRetryPolicies ==
  {<<>>, [automatic |-> TRUE, maxAttempts |-> 3], [automatic |-> TRUE, maxAttempts |-> 0],
   [automatic |-> TRUE, maxAttempts |-> 2, retryableStatus |-> {401, 409}]}

=============================================================================
