----------------------------- MODULE Composition -----------------------------
(***************************************************************************)
(* A composition run by a host: normal steps one after the other, each an  *)
(* HTTP request that evaluateHttpRetryPolicy may allow to be repeated,     *)
(* until evaluateCompositionFailureRecovery says stop; compensation steps  *)
(* only when a person starts them after a decision that asks for review.   *)
(* The two functions are the code's; the host that calls them and the      *)
(* provider are external, and both a request and its answer may be lost or *)
(* late.                                                                   *)
(***************************************************************************)
EXTENDS RetryPolicy, CompositionRecovery

CONSTANTS
  Plans,         \* compositions: sequences of steps
  RetryPolicies, \* partial retry policies
  StatusCodes    \* error status codes a provider answers with

ASSUME CompositionAssumption ==
  /\ \A p \in Plans :
       /\ p # <<>> /\ p[1].role = "normal"
       /\ p \in Seq([required : BOOLEAN, role : {"normal", "compensation"},
                     sideEffectKind : STRING, method : STRING,
                     idempotencyMode : IdempotencyModes, hasKey : BOOLEAN])
  /\ \A given \in RetryPolicies :
       NormalizeRetryPolicy(given) \in
         [automatic : BOOLEAN, maxAttempts : Nat, retryableStatus : SUBSET Nat]

VARIABLES
  plan,     \* per step: required, role, sideEffectKind, method, idempotencyMode, hasKey
  policy,   \* the retry policy of every step
  outcome,  \* per step: its outcome, not_started at first
  at,       \* the step that is running, 0 when none is
  attempt,  \* attempts of that step that came to an end
  request,  \* its request: "none", "sent", or "performed" by the provider
  late,     \* per step: requests given up that the provider may still perform
  sent,     \* per step: requests sent
  effects,  \* per step: times the provider changed something
  decision  \* the last recovery decision

vars == <<plan, policy, outcome, at, attempt, request, late, sent, effects, decision>>

Steps(outcomes) ==
  [k \in DOMAIN plan |-> [required |-> plan[k].required, role |-> plan[k].role,
                          outcome  |-> outcomes[k]]]

Init ==
  /\ plan \in Plans
  /\ policy \in RetryPolicies
  /\ outcome = [k \in DOMAIN plan |-> "not_started"]
  /\ at = 0
  /\ attempt = 0
  /\ request = "none"
  /\ late = [k \in DOMAIN plan |-> 0]
  /\ sent = [k \in DOMAIN plan |-> 0]
  /\ effects = [k \in DOMAIN plan |-> 0]
  /\ decision = EvaluateCompositionFailureRecovery(Steps(outcome))

NotStarted(role) == {k \in DOMAIN plan : plan[k].role = role /\ outcome[k] = "not_started"}

Starts(k) ==
  /\ at' = k
  /\ attempt' = 0
  /\ UNCHANGED <<plan, policy, outcome, request, late, sent, effects, decision>>

\* The host goes on with the next normal step unless the decision says stop.
NextStep ==
  /\ at = 0
  /\ ~ decision.stopDownstream
  /\ NotStarted("normal") # {}
  /\ Starts(FirstOf(NotStarted("normal")))

\* A person who reviews the composition starts one of its compensations.
Compensate ==
  /\ at = 0
  /\ decision.manualReviewRequired
  /\ \E k \in NotStarted("compensation") : Starts(k)

\* The step has its outcome, and the composition is judged anew.
StepEnds(result) ==
  /\ at' = 0
  /\ request' = "none"
  /\ outcome' = [outcome EXCEPT ![at] = result]
  /\ decision' = EvaluateCompositionFailureRecovery(Steps(outcome'))
  /\ UNCHANGED <<plan, policy, attempt, sent, effects>>

\* A gate refuses the step, or it fails before its request (no secret).  The gates are
\* passed once: what is repeated is the request.
GateRefuses ==
  /\ at # 0
  /\ request = "none"
  /\ attempt = 0
  /\ \E result \in {"blocked", "failed_before_request"} : StepEnds(result)
  /\ UNCHANGED late

Send ==
  /\ at # 0
  /\ request = "none"
  /\ request' = "sent"
  /\ sent' = [sent EXCEPT ![at] = @ + 1]
  /\ UNCHANGED <<plan, policy, outcome, at, attempt, late, effects, decision>>

\* A request repeated with its key, under a precondition that no longer holds, or by a
\* method that is idempotent changes nothing more.
Deduplicated(step) ==
  \/ step.idempotencyMode = "provider_key" /\ step.hasKey
  \/ step.idempotencyMode = "conditional"
  \/ step.method \in RepeatableMethods

Performs(k) ==
  effects' = [effects EXCEPT ![k] = IF @ > 0 /\ Deduplicated(plan[k]) THEN @ ELSE @ + 1]

ProviderActs ==
  /\ request = "sent"
  /\ Performs(at)
  /\ request' = "performed"
  /\ UNCHANGED <<plan, policy, outcome, at, attempt, late, sent, decision>>

\* The provider performs a request its caller no longer waits for.
ProviderActsLate(k) ==
  /\ late[k] > 0
  /\ Performs(k)
  /\ late' = [late EXCEPT ![k] = @ - 1]
  /\ UNCHANGED <<plan, policy, outcome, at, attempt, request, sent, decision>>

Succeeds ==
  /\ request = "performed"
  /\ StepEnds("success")
  /\ UNCHANGED late

RetryInput(statusCode, errorCode, result) ==
  [method |-> plan[at].method, statusCode |-> statusCode, errorCode |-> errorCode,
   outcome |-> result, sideEffectKind |-> plan[at].sideEffectKind, attempt |-> attempt,
   idempotencyMode |-> plan[at].idempotencyMode, hasKey |-> plan[at].hasKey, policy |-> policy]

\* The attempt failed: it is repeated if the retry policy says so, or ends the step.
AttemptFails(statusCode, errorCode, result) ==
  LET retry == EvaluateHttpRetryPolicy(RetryInput(statusCode, errorCode, result))
  IN  IF retry.shouldRetry
      THEN /\ attempt' = retry.retryAttempt
           /\ request' = "none"
           /\ UNCHANGED <<plan, policy, outcome, at, sent, effects, decision>>
      ELSE StepEnds(result)

AnswersWithError ==
  /\ request \in {"sent", "performed"}
  /\ \E status \in StatusCodes : AttemptFails(status, "HTTP_ERROR", "failed_after_request")
  /\ UNCHANGED late

\* The caller gives up: nothing tells it whether the request will still be performed.
GivesUp ==
  /\ request \in {"sent", "performed"}
  /\ \/ AttemptFails(NoStatus, "HTTP_TIMEOUT", "unknown_after_timeout")
     \/ AttemptFails(NoStatus, "NETWORK_ERROR", "failed_after_request")
  /\ late' = IF request = "sent" THEN [late EXCEPT ![at] = @ + 1] ELSE late

Next ==
  \/ NextStep \/ Compensate
  \/ GateRefuses \/ Send \/ Succeeds \/ AnswersWithError \/ GivesUp
  \/ ProviderActs \/ \E k \in DOMAIN plan : ProviderActsLate(k)

Spec == Init /\ [][Next]_vars

-----------------------------------------------------------------------------
\* A step that is not a read changes something at most once, however often its request
\* is repeated and however late a request that was given up is performed: what was
\* maybe done is repeated only where the provider can tell the repetition.
EffectOnce ==
  \A k \in DOMAIN plan : plan[k].sideEffectKind # "read" => effects[k] <= 1

\* A step is sent no more often than the policy's maxAttempts, and once without
\* automatic retry (or with a maxAttempts of zero).
AttemptsAreBounded ==
  LET given == NormalizeRetryPolicy(policy)
  IN  \A k \in DOMAIN plan :
        sent[k] <= IF given.automatic /\ given.maxAttempts > 0 THEN given.maxAttempts ELSE 1

\* Whenever no step is running, an effect of a required step that did not end in
\* success is before a person: an unknown one always, a failed one unless a gate has
\* refused a required step since, which the recovery reports instead.
HiddenEffectIsReviewed ==
  (at = 0) =>
    \A k \in DOMAIN plan :
      (plan[k].required /\ effects[k] > 0 /\ outcome[k] # "success") =>
        \/ decision.manualReviewRequired
        \/ outcome[k] = "failed_after_request" /\ decision.compositionOutcome = "blocked"

\* A composition that is reported completed when nothing is left to run has done every
\* required step, and nothing it had to compensate is open.
CompletedIsDone ==
  (at = 0 /\ decision.compositionOutcome = "completed" /\ NotStarted("normal") = {}) =>
    \A k \in DOMAIN plan :
      /\ plan[k].required /\ plan[k].role = "normal" => outcome[k] = "success" /\ effects[k] > 0
      /\ plan[k].role = "compensation" => outcome[k] = "not_started"

=============================================================================
