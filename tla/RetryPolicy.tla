----------------------------- MODULE RetryPolicy -----------------------------
(***************************************************************************)
(* evaluateHttpRetryPolicy: whether a failed HTTP attempt may be repeated. *)
(* An input carries the method, status code or error code, outcome, side   *)
(* effect kind, attempt (from 0), idempotency mode and whether there is an *)
(* idempotency key; "policy" holds the fields of the partial retry policy. *)
(***************************************************************************)
EXTENDS Naturals

IdempotencyModes == {"none", "method", "provider_key", "conditional", "external_reconcile"}

RepeatableMethods == {"GET", "HEAD", "OPTIONS", "PUT", "DELETE"}

NoStatus == 0  \* no answer came

DefaultHttpRetryPolicy ==
  [automatic |-> FALSE, maxAttempts |-> 1, retryableStatus |-> {408, 429, 500, 502, 503, 504}]

NormalizeRetryPolicy(given) ==
  [field \in DOMAIN DefaultHttpRetryPolicy |->
     IF field \in DOMAIN given THEN given[field] ELSE DefaultHttpRetryPolicy[field]]

RetryableError(input, policy) ==
  /\ input.statusCode \notin {401, 403}
  /\ IF input.statusCode # NoStatus THEN input.statusCode \in policy.retryableStatus
     ELSE input.errorCode \in {"HTTP_TIMEOUT", "NETWORK_ERROR"}

RequiresReconcile(input) ==
  input.outcome = "unknown_after_timeout" /\ input.sideEffectKind # "read"

\* Mutant: a provider key mode is trusted without a key.
RepeatableWithoutKey(input) ==
  /\ ~ RequiresReconcile(input)
  /\ \/ input.idempotencyMode \in {"provider_key", "conditional"}
     \/ /\ input.idempotencyMode = "method" \/ input.sideEffectKind = "read"
        /\ input.method \in RepeatableMethods

OperationRepeatable(input) ==
  /\ ~ RequiresReconcile(input)
  /\ \/ input.idempotencyMode = "provider_key" /\ input.hasKey
     \/ input.idempotencyMode = "conditional"
     \/ /\ input.idempotencyMode # "provider_key"
        /\ input.idempotencyMode = "method" \/ input.sideEffectKind = "read"
        /\ input.method \in RepeatableMethods

\* Mutant: the first attempt is not counted.
OneAttemptMore(input, policy) == input.attempt >= policy.maxAttempts

MaxAttemptsReached(input, policy) == input.attempt + 1 >= policy.maxAttempts

\* The tests in the order of the code's returns: each reason with what raises it.
ReasonCode(input, policy) ==
  LET raised == <<
        [code |-> "non_retryable_error",                on |-> ~ RetryableError(input, policy)],
        [code |-> "unknown_outcome_requires_reconcile", on |-> RequiresReconcile(input)],
        [code |-> "non_idempotent_operation",           on |-> ~ OperationRepeatable(input)],
        [code |-> "automatic_retry_disabled",           on |-> ~ policy.automatic],
        [code |-> "max_attempts_reached",               on |-> MaxAttemptsReached(input, policy)],
        [code |-> "retry_allowed",                      on |-> TRUE]>>
  IN  raised[CHOOSE k \in DOMAIN raised : raised[k].on /\ \A j \in 1..(k - 1) : ~ raised[j].on].code

EvaluateHttpRetryPolicy(input) ==
  LET reason == ReasonCode(input, NormalizeRetryPolicy(input.policy))
  IN  [shouldRetry  |-> reason = "retry_allowed",
       reasonCode   |-> reason,
       retryAttempt |-> IF reason = "retry_allowed" THEN input.attempt + 1 ELSE input.attempt]

=============================================================================
