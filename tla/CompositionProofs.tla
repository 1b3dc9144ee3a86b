-------------------------- MODULE CompositionProofs --------------------------
(***************************************************************************)
(* For every composition and every retry policy: how often a step is sent  *)
(* and takes effect, and what the recovery decision does not hide.         *)
(***************************************************************************)
EXTENDS Composition, TLAPS

Policies == INSTANCE PolicyEvaluationProofs

-----------------------------------------------------------------------------
(* The inductive invariant.                                                 *)

AfterRequest == {"success", "failed_after_request", "unknown_after_timeout"}

Types ==
  /\ plan \in Plans /\ policy \in RetryPolicies
  /\ outcome \in [DOMAIN plan -> Outcomes]
  /\ at \in {0} \cup DOMAIN plan
  /\ attempt \in Nat
  /\ request \in {"none", "sent", "performed"}
  /\ late \in [DOMAIN plan -> Nat]
  /\ sent \in [DOMAIN plan -> Nat]
  /\ effects \in [DOMAIN plan -> Nat]

\* A step that is running has no outcome yet, and the decision is always about the
\* outcomes there are.
RunInv ==
  /\ at = 0 => request = "none"
  /\ at # 0 => outcome[at] = "not_started"
  /\ decision = EvaluateCompositionFailureRecovery(Steps(outcome))

\* The attempts a policy gives a step.
Bound ==
  LET given == NormalizeRetryPolicy(policy)
  IN  IF given.automatic /\ given.maxAttempts > 0 THEN given.maxAttempts ELSE 1

\* The requests of a step are its attempts that ended and the one that is under way.
SentInv ==
  /\ at # 0 => attempt < Bound
  /\ \A k \in DOMAIN plan :
       /\ k = at => sent[k] = IF request = "none" THEN attempt ELSE attempt + 1
       /\ k # at /\ outcome[k] = "not_started" => sent[k] = 0
       /\ sent[k] <= Bound

\* An effect is of a request, and a request leaves its step with an outcome that says so.
EffectInv ==
  \A k \in DOMAIN plan :
    /\ effects[k] > 0 \/ late[k] > 0 => sent[k] > 0
    /\ k # at /\ sent[k] > 0 => outcome[k] \in AfterRequest
    /\ outcome[k] = "success" \/ (k = at /\ request = "performed") => effects[k] > 0

\* What the provider can tell apart takes effect once; what it cannot, and is not a read,
\* is sent once, and that request is open, given up or performed.
OnceInv ==
  \A k \in DOMAIN plan :
    /\ Deduplicated(plan[k]) => effects[k] <= 1
    /\ ~ Deduplicated(plan[k]) /\ plan[k].sideEffectKind # "read" =>
         /\ effects[k] + late[k] + (IF k = at /\ request = "sent" THEN 1 ELSE 0) <= sent[k]
         /\ sent[k] <= 1
         /\ k = at => attempt = 0

\* What stops a composition.
Trouble(steps) ==
  CompensationFailures(steps) \cup RequiredUnknowns(steps) \cup RequiredBlocked(steps)
    \cup RequiredFailures(steps)

\* A compensation is started only after trouble, and trouble does not go away.
TroubleInv ==
  \A k \in DOMAIN plan :
    plan[k].role = "compensation" /\ (outcome[k] # "not_started" \/ k = at) =>
      Trouble(Steps(outcome)) # {}

IInv == Types /\ RunInv /\ SentInv /\ EffectInv /\ OnceInv /\ TroubleInv

-----------------------------------------------------------------------------
(* The operators.                                                           *)

\* A plan is a sequence of steps.
LEMMA PlanTypes ==
  ASSUME plan \in Plans
  PROVE  /\ DOMAIN plan = 1..Len(plan) /\ Len(plan) \in Nat
         /\ \A k \in DOMAIN plan : /\ plan[k].required \in BOOLEAN
                                   /\ plan[k].role \in {"normal", "compensation"}
                                   /\ plan[k].hasKey \in BOOLEAN
                                   /\ plan[k].idempotencyMode \in IdempotencyModes
<1> DEFINE S == [required : BOOLEAN, role : {"normal", "compensation"},
                 sideEffectKind : STRING, method : STRING,
                 idempotencyMode : IdempotencyModes, hasKey : BOOLEAN]
<1>1. plan \in Seq(S)
  BY CompositionAssumption
<1>2. DOMAIN plan = 1..Len(plan) /\ Len(plan) \in Nat
  BY <1>1
<1>3. \A k \in DOMAIN plan : plan[k] \in S
  <2> HIDE DEF S
  <2>1. QED
    BY <1>1
<1>4. QED
  BY <1>2, <1>3

\* A nonempty set of indices has a first one.
LEMMA FirstOfIsOne ==
  ASSUME NEW S, S \subseteq Nat, S # {}
  PROVE  FirstOf(S) \in S
<1>1. \E m \in S : \A k \in S : m <= k
  BY Policies!LeastNatural
<1>2. QED
  BY <1>1 DEF FirstOf

\* A repetition is allowed only when none of the reasons against it is raised.
LEMMA RetryIsAllowed ==
  ASSUME NEW input, EvaluateHttpRetryPolicy(input).shouldRetry
  PROVE  LET given == NormalizeRetryPolicy(input.policy)
         IN  /\ OperationRepeatable(input)
             /\ given.automatic
             /\ ~ MaxAttemptsReached(input, given)
             /\ EvaluateHttpRetryPolicy(input).retryAttempt = input.attempt + 1
<1> DEFINE given  == NormalizeRetryPolicy(input.policy)
           raised == <<
             [code |-> "non_retryable_error",                on |-> ~ RetryableError(input, given)],
             [code |-> "unknown_outcome_requires_reconcile", on |-> RequiresReconcile(input)],
             [code |-> "non_idempotent_operation",           on |-> ~ OperationRepeatable(input)],
             [code |-> "automatic_retry_disabled",           on |-> ~ given.automatic],
             [code |-> "max_attempts_reached",               on |-> MaxAttemptsReached(input, given)],
             [code |-> "retry_allowed",                      on |-> TRUE]>>
           IsFirst(k) == raised[k].on /\ \A j \in 1..(k - 1) : ~ raised[j].on
           first      == CHOOSE k \in DOMAIN raised : IsFirst(k)
           On         == {k \in DOMAIN raised : raised[k].on}
<1>1. ReasonCode(input, given) = raised[first].code
  BY DEF ReasonCode
<1>2. DOMAIN raised = 1..6
  OBVIOUS
<1>3. raised[6].on /\ raised[6].code = "retry_allowed"
  OBVIOUS
<1>4. \A k \in 1..5 : raised[k].code # "retry_allowed"
  OBVIOUS
<1>5. /\ raised[3].on <=> ~ OperationRepeatable(input)
      /\ raised[4].on <=> ~ given.automatic
      /\ raised[5].on <=> MaxAttemptsReached(input, given)
  OBVIOUS
<1>6. ReasonCode(input, given) = "retry_allowed"
  BY DEF EvaluateHttpRetryPolicy
<1> HIDE DEF raised, given
<1>7. \E k \in DOMAIN raised : IsFirst(k)
  <2>1. On \subseteq Nat /\ 6 \in On
    BY <1>2, <1>3
  <2>2. PICK m \in On : \A k \in On : m <= k
    <3> HIDE DEF On
    <3>1. QED
      BY <2>1, Policies!LeastNatural
  <2>3. m \in 1..6
    BY <1>2, <2>2
  <2>4. \A j \in 1..(m - 1) : ~ raised[j].on
    <3>1. \A j \in 1..(m - 1) : j \in DOMAIN raised /\ ~ (m <= j)
      BY <1>2, <2>3
    <3>2. QED
      BY <2>2, <3>1
  <2>5. QED
    BY <1>2, <2>2, <2>3, <2>4
<1>8. first \in 1..6 /\ IsFirst(first)
  BY <1>2, <1>7
<1> HIDE DEF first
<1>9. first = 6
  <2>1. raised[first].code = "retry_allowed"
    BY <1>1, <1>6
  <2>2. first \notin 1..5
    BY <1>4, <2>1
  <2>3. QED
    BY <1>8, <2>2
<1>10. ~ raised[3].on /\ ~ raised[4].on /\ ~ raised[5].on
  BY <1>8, <1>9
<1>11. EvaluateHttpRetryPolicy(input).retryAttempt = input.attempt + 1
  BY <1>6 DEF EvaluateHttpRetryPolicy, given
<1>12. QED
  BY <1>5, <1>10, <1>11 DEF given

\* What may be repeated, and is not a read, is what the provider can tell apart.
LEMMA RepeatableIsDeduplicated ==
  ASSUME NEW k, NEW status, NEW error, NEW result,
         plan[at].sideEffectKind # "read",
         OperationRepeatable(RetryInput(status, error, result))
  PROVE  Deduplicated(plan[at])
BY DEF OperationRepeatable, RetryInput, Deduplicated

\* The recovery decision: completed when there is no trouble, and asking for review when
\* there is any but a step that a gate refused.
LEMMA DecisionTells ==
  ASSUME NEW steps, NEW decided, decided = EvaluateCompositionFailureRecovery(steps)
  PROVE  /\ decided.compositionOutcome = "completed" <=> Trouble(steps) = {}
         /\ decided.manualReviewRequired => Trouble(steps) # {}
         /\ CompensationFailures(steps) # {} \/ RequiredUnknowns(steps) # {} =>
              decided.manualReviewRequired
         /\ RequiredFailures(steps) # {} =>
              decided.manualReviewRequired \/ decided.compositionOutcome = "blocked"
<1>1. CASE CompensationFailures(steps) # {}
  BY <1>1 DEF EvaluateCompositionFailureRecovery, Decision, Trouble
<1>2. CASE CompensationFailures(steps) = {} /\ RequiredUnknowns(steps) # {}
  BY <1>2 DEF EvaluateCompositionFailureRecovery, Decision, Trouble
<1>3. CASE /\ CompensationFailures(steps) = {} /\ RequiredUnknowns(steps) = {}
           /\ RequiredBlocked(steps) # {}
  BY <1>3 DEF EvaluateCompositionFailureRecovery, Decision, Trouble
<1>4. CASE /\ CompensationFailures(steps) = {} /\ RequiredUnknowns(steps) = {}
           /\ RequiredBlocked(steps) = {} /\ RequiredFailures(steps) # {}
  BY <1>4 DEF EvaluateCompositionFailureRecovery, Decision, Trouble
<1>5. CASE Trouble(steps) = {}
  BY <1>5 DEF EvaluateCompositionFailureRecovery, Decision, Trouble
<1>6. QED
  BY <1>1, <1>2, <1>3, <1>4, <1>5 DEF Trouble

-----------------------------------------------------------------------------
(* What a step of the composition does, in the terms of the invariant.      *)

StartedStep(k) ==
  /\ at = 0 /\ k \in DOMAIN plan /\ outcome[k] = "not_started"
  /\ plan[k].role = "compensation" => decision.manualReviewRequired
  /\ at' = k /\ attempt' = 0
  /\ UNCHANGED <<plan, policy, outcome, request, late, sent, effects, decision>>

\* A request that was sent and is no longer waited for may still be performed.
GivenUp == \/ late' = late
           \/ request = "sent" /\ late' = [late EXCEPT ![at] = @ + 1]

EndedStep(result) ==
  /\ at # 0 /\ at' = 0 /\ request' = "none"
  /\ outcome' = [outcome EXCEPT ![at] = result]
  /\ decision' = EvaluateCompositionFailureRecovery(Steps(outcome'))
  /\ \/ result \in {"blocked", "failed_before_request"} /\ request = "none" /\ attempt = 0
     \/ result \in {"failed_after_request", "unknown_after_timeout"} /\ request # "none"
     \/ result = "success" /\ request = "performed"
  /\ GivenUp
  /\ UNCHANGED <<plan, policy, attempt, sent, effects>>

RepeatedStep ==
  /\ at # 0 /\ request # "none" /\ request' = "none"
  /\ attempt' = attempt + 1 /\ attempt + 1 < Bound
  /\ plan[at].sideEffectKind # "read" => Deduplicated(plan[at])
  /\ GivenUp
  /\ UNCHANGED <<plan, policy, outcome, at, sent, effects, decision>>

PerformedStep(k) ==
  /\ k \in DOMAIN plan
  /\ Performs(k)
  /\ \/ k = at /\ request = "sent" /\ request' = "performed" /\ late' = late
     \/ late[k] > 0 /\ late' = [late EXCEPT ![k] = @ - 1] /\ request' = request
  /\ UNCHANGED <<plan, policy, outcome, at, attempt, sent, decision>>

\* An attempt that fails ends its step or is repeated within the policy.
LEMMA FailingAttempt ==
  ASSUME Types, at # 0, request # "none", GivenUp,
         NEW status, NEW error, NEW result \in {"failed_after_request", "unknown_after_timeout"},
         AttemptFails(status, error, result)
  PROVE  EndedStep(result) \/ RepeatedStep
<1> DEFINE input == RetryInput(status, error, result)
           retry == EvaluateHttpRetryPolicy(input)
<1>1. CASE retry.shouldRetry
  <2> DEFINE given == NormalizeRetryPolicy(policy)
  <2>1. input.policy = policy /\ input.attempt = attempt
    BY DEF RetryInput
  <2>2. /\ OperationRepeatable(input) /\ given.automatic
        /\ ~ MaxAttemptsReached(input, given)
        /\ retry.retryAttempt = input.attempt + 1
    <3> HIDE DEF input
    <3>1. QED
      BY <1>1, <2>1, RetryIsAllowed
  <2>3. given.maxAttempts \in Nat /\ attempt \in Nat
    BY CompositionAssumption DEF Types
  <2>4. attempt + 1 < given.maxAttempts
    BY <2>1, <2>2, <2>3 DEF MaxAttemptsReached
  <2>5. attempt + 1 < Bound
    BY <2>2, <2>3, <2>4 DEF Bound
  <2>6. plan[at].sideEffectKind # "read" => Deduplicated(plan[at])
    BY <2>2, RepeatableIsDeduplicated
  <2> HIDE DEF retry
  <2>7. /\ attempt' = retry.retryAttempt /\ request' = "none"
        /\ UNCHANGED <<plan, policy, outcome, at, sent, effects, decision>>
    BY <1>1 DEF AttemptFails, retry
  <2>8. QED
    BY <2>1, <2>2, <2>5, <2>6, <2>7 DEF RepeatedStep
<1>2. CASE ~ retry.shouldRetry
  <2>1. StepEnds(result)
    BY <1>2 DEF AttemptFails
  <2>2. QED
    BY <2>1 DEF StepEnds, EndedStep
<1>3. QED
  BY <1>1, <1>2

\* Every step of the composition is one of these, or sends a request.
LEMMA StepIsOne ==
  ASSUME Types, RunInv, Next
  PROVE  \/ \E k : StartedStep(k)
         \/ \E result \in Outcomes : EndedStep(result)
         \/ RepeatedStep
         \/ Send
         \/ \E k : PerformedStep(k)
<1>1. DOMAIN plan \subseteq Nat
  BY PlanTypes DEF Types
<1>2. CASE NextStep
  <2> DEFINE S == NotStarted("normal")
  <2>1. S \subseteq Nat /\ S # {}
    BY <1>1, <1>2 DEF NextStep, NotStarted
  <2>2. FirstOf(S) \in S
    <3> HIDE DEF S
    <3>1. QED
      BY <2>1, FirstOfIsOne
  <2>3. StartedStep(FirstOf(S))
    BY <1>2, <2>2 DEF NextStep, Starts, StartedStep, NotStarted
  <2>4. QED
    BY <2>3
<1>3. CASE Compensate
  <2>1. PICK k \in NotStarted("compensation") : Starts(k)
    BY <1>3 DEF Compensate
  <2>2. StartedStep(k)
    BY <1>3, <2>1 DEF Compensate, Starts, StartedStep, NotStarted
  <2>3. QED
    BY <2>2
<1>4. CASE GateRefuses
  <2>1. PICK result \in {"blocked", "failed_before_request"} : StepEnds(result)
    BY <1>4 DEF GateRefuses
  <2>2. EndedStep(result)
    BY <1>4, <2>1 DEF GateRefuses, StepEnds, EndedStep, GivenUp
  <2>3. QED
    BY <2>2 DEF Outcomes
<1>5. CASE Succeeds
  <2>1. EndedStep("success")
    BY <1>5 DEF Succeeds, StepEnds, EndedStep, GivenUp, RunInv
  <2>2. QED
    BY <2>1 DEF Outcomes
<1>6. CASE AnswersWithError
  <2>1. PICK status \in StatusCodes : AttemptFails(status, "HTTP_ERROR", "failed_after_request")
    BY <1>6 DEF AnswersWithError
  <2>2. at # 0 /\ request # "none" /\ GivenUp
    BY <1>6 DEF AnswersWithError, RunInv, GivenUp
  <2>3. QED
    BY <2>1, <2>2, FailingAttempt DEF Outcomes
<1>7. CASE GivesUp
  <2>1. at # 0 /\ request # "none" /\ GivenUp
    BY <1>7 DEF GivesUp, RunInv, GivenUp
  <2>2. \/ AttemptFails(NoStatus, "HTTP_TIMEOUT", "unknown_after_timeout")
        \/ AttemptFails(NoStatus, "NETWORK_ERROR", "failed_after_request")
    BY <1>7 DEF GivesUp
  <2>3. QED
    BY <2>1, <2>2, FailingAttempt DEF Outcomes
<1>8. CASE ProviderActs
  <2>1. at \in DOMAIN plan
    BY <1>8 DEF ProviderActs, RunInv, Types
  <2>2. PerformedStep(at)
    BY <1>8, <2>1 DEF ProviderActs, PerformedStep
  <2>3. QED
    BY <2>2
<1>9. ASSUME NEW k \in DOMAIN plan, ProviderActsLate(k)
      PROVE  PerformedStep(k)
  BY <1>9 DEF ProviderActsLate, PerformedStep
<1>10. QED
  BY <1>2, <1>3, <1>4, <1>5, <1>6, <1>7, <1>8, <1>9 DEF Next

-----------------------------------------------------------------------------
(* The invariant holds at the start and every step keeps it.                *)

\* The invariant holds before the first step is sent.
LEMMA InitInv == Init => IInv
<1> SUFFICES ASSUME Init PROVE IInv
  OBVIOUS
<1>1. Types
  BY DEF Init, Types, Outcomes
<1>2. RunInv
  BY DEF Init, RunInv, Steps
<1>3. 0 \notin DOMAIN plan
  BY <1>1, PlanTypes DEF Types
<1>4. SentInv
  <2>1. Bound \in Nat
    BY <1>1, CompositionAssumption DEF Types, Bound
  <2>2. QED
    BY <1>3, <2>1 DEF Init, SentInv
<1>5. EffectInv /\ OnceInv
  BY <1>3 DEF Init, EffectInv, OnceInv
<1>6. TroubleInv
  BY <1>3 DEF Init, TroubleInv
<1>7. QED
  BY <1>1, <1>2, <1>4, <1>5, <1>6 DEF IInv

\* A step that ends has no outcome before, and nothing but its own outcome changes.
LEMMA EndedFacts ==
  ASSUME Types, NEW result \in Outcomes, EndedStep(result)
  PROVE  /\ at \in DOMAIN plan /\ outcome'[at] = result
         /\ outcome' \in [DOMAIN plan -> Outcomes]
         /\ \A k \in DOMAIN plan : k # at => outcome'[k] = outcome[k]
BY DEF Types, EndedStep

\* What giving up on a request changes.
LEMMA GivenUpFacts ==
  ASSUME Types, at # 0, GivenUp
  PROVE  /\ late' \in [DOMAIN plan -> Nat]
         /\ \A k \in DOMAIN plan : k # at => late'[k] = late[k]
         /\ \/ late'[at] = late[at]
            \/ request = "sent" /\ late'[at] = late[at] + 1
BY DEF Types, GivenUp

\* What the provider changes when it performs a request.
LEMMA PerformedFacts ==
  ASSUME Types, NEW k, PerformedStep(k)
  PROVE  /\ effects' \in [DOMAIN plan -> Nat] /\ late' \in [DOMAIN plan -> Nat]
         /\ \A j \in DOMAIN plan : j # k => effects'[j] = effects[j] /\ late'[j] = late[j]
         /\ effects'[k] = IF effects[k] > 0 /\ Deduplicated(plan[k]) THEN effects[k] ELSE effects[k] + 1
         /\ \/ k = at /\ request = "sent" /\ request' = "performed" /\ late'[k] = late[k]
            \/ late[k] > 0 /\ late'[k] = late[k] - 1 /\ request' = request
BY DEF Types, PerformedStep, Performs

\* What sending a request changes.
LEMMA SendFacts ==
  ASSUME Types, Send
  PROVE  /\ at \in DOMAIN plan
         /\ sent' \in [DOMAIN plan -> Nat] /\ sent'[at] = sent[at] + 1
         /\ \A k \in DOMAIN plan : k # at => sent'[k] = sent[k]
         /\ request = "none" /\ request' = "sent"
         /\ UNCHANGED <<plan, policy, outcome, at, attempt, late, effects, decision>>
BY DEF Types, Send

\* Every step keeps the types.
LEMMA KeepsTypes ==
  ASSUME IInv, [Next]_vars
  PROVE  Types'
<1>1. Types /\ RunInv
  BY DEF IInv
<1>2. ASSUME NEW k, StartedStep(k)
      PROVE  Types'
  BY <1>1, <1>2 DEF Types, StartedStep
<1>3. ASSUME NEW result \in Outcomes, EndedStep(result)
      PROVE  Types'
  BY <1>1, <1>3, EndedFacts, GivenUpFacts DEF Types, EndedStep
<1>4. CASE RepeatedStep
  BY <1>1, <1>4, GivenUpFacts DEF Types, RepeatedStep
<1>5. CASE Send
  BY <1>1, <1>5, SendFacts DEF Types
<1>6. ASSUME NEW k, PerformedStep(k)
      PROVE  Types'
  BY <1>1, <1>6, PerformedFacts DEF Types, PerformedStep
<1>7. CASE UNCHANGED vars
  BY <1>1, <1>7 DEF Types, vars
<1>8. QED
  BY <1>1, <1>2, <1>3, <1>4, <1>5, <1>6, <1>7, StepIsOne

\* Every step keeps what holds of the running step.
LEMMA KeepsRunInv ==
  ASSUME IInv, [Next]_vars
  PROVE  RunInv'
<1>1. Types /\ RunInv
  BY DEF IInv
<1>2. ASSUME NEW k, StartedStep(k)
      PROVE  RunInv'
  BY <1>1, <1>2 DEF RunInv, StartedStep, Steps
<1>3. ASSUME NEW result \in Outcomes, EndedStep(result)
      PROVE  RunInv'
  BY <1>1, <1>3 DEF RunInv, EndedStep, Steps
<1>4. CASE RepeatedStep
  BY <1>1, <1>4 DEF RunInv, RepeatedStep, Steps
<1>5. CASE Send
  BY <1>1, <1>5 DEF RunInv, Send, Steps
<1>6. ASSUME NEW k, PerformedStep(k)
      PROVE  RunInv'
  BY <1>1, <1>6 DEF RunInv, PerformedStep, Steps
<1>7. CASE UNCHANGED vars
  BY <1>1, <1>7 DEF RunInv, vars, Steps
<1>8. QED
  BY <1>1, <1>2, <1>3, <1>4, <1>5, <1>6, <1>7, StepIsOne

\* A step starts at attempt zero, with nothing sent; a request is sent once per attempt,
\* and an attempt is added only below the bound.
LEMMA KeepsSentInv ==
  ASSUME IInv, [Next]_vars
  PROVE  SentInv'
<1>1. Types /\ RunInv /\ SentInv
  BY DEF IInv
<1>2. Bound \in Nat /\ Bound > 0
  BY <1>1, CompositionAssumption DEF Types, Bound
<1>3. policy' = policy => Bound' = Bound
  BY DEF Bound
<1>4. 0 \notin DOMAIN plan
  BY <1>1, PlanTypes DEF Types
<1> DEFINE Sent(k) ==
      /\ k = at => sent[k] = IF request = "none" THEN attempt ELSE attempt + 1
      /\ k # at /\ outcome[k] = "not_started" => sent[k] = 0
      /\ sent[k] <= Bound
<1>5. \A k \in DOMAIN plan : Sent(k)
  BY <1>1 DEF SentInv
<1>6. attempt \in Nat /\ \A k \in DOMAIN plan : sent[k] \in Nat
  BY <1>1 DEF Types
<1>7. ASSUME at' # 0 => attempt' < Bound', plan' = plan, \A k \in DOMAIN plan : Sent(k)'
      PROVE  SentInv'
  BY <1>7 DEF SentInv
<1>8. ASSUME NEW j, StartedStep(j)
      PROVE  SentInv'
  <2>1. UNCHANGED <<plan, policy, outcome, request, sent>> /\ at = 0 /\ at' = j /\ attempt' = 0
        /\ outcome[j] = "not_started" /\ j \in DOMAIN plan
    BY <1>8 DEF StartedStep
  <2>2. request = "none" /\ sent[j] = 0
    BY <1>1, <1>4, <1>5, <2>1 DEF RunInv
  <2>3. \A k \in DOMAIN plan : Sent(k)'
    BY <1>3, <1>4, <1>5, <2>1, <2>2
  <2> HIDE DEF Sent
  <2>4. QED
    BY <1>2, <1>3, <1>7, <2>1, <2>3
<1>9. ASSUME NEW result \in Outcomes, EndedStep(result)
      PROVE  SentInv'
  <2>1. UNCHANGED <<plan, policy, sent>> /\ at' = 0 /\ result # "not_started"
    BY <1>9 DEF EndedStep
  <2>2. outcome'[at] = result /\ \A k \in DOMAIN plan : k # at => outcome'[k] = outcome[k]
    BY <1>1, <1>9, EndedFacts
  <2>3. \A k \in DOMAIN plan : Sent(k)'
    BY <1>3, <1>4, <1>5, <2>1, <2>2
  <2> HIDE DEF Sent
  <2>4. QED
    BY <1>7, <2>1, <2>3
<1>10. CASE RepeatedStep
  <2>1. UNCHANGED <<plan, policy, outcome, at, sent>> /\ request # "none" /\ request' = "none"
        /\ attempt' = attempt + 1 /\ attempt + 1 < Bound
    BY <1>10 DEF RepeatedStep
  <2>2. \A k \in DOMAIN plan : Sent(k)'
    BY <1>3, <1>5, <1>6, <2>1
  <2> HIDE DEF Sent
  <2>3. QED
    BY <1>3, <1>7, <2>1, <2>2
<1>11. CASE Send
  <2>1. /\ sent'[at] = sent[at] + 1 /\ at \in DOMAIN plan
        /\ \A k \in DOMAIN plan : k # at => sent'[k] = sent[k]
        /\ request = "none" /\ request' = "sent"
        /\ UNCHANGED <<plan, policy, outcome, at, attempt>>
    BY <1>1, <1>11, SendFacts
  <2>2. attempt < Bound
    BY <1>1, <1>4, <2>1 DEF SentInv
  <2>3. \A k \in DOMAIN plan : Sent(k)'
    BY <1>2, <1>3, <1>5, <1>6, <2>1, <2>2
  <2> HIDE DEF Sent
  <2>4. QED
    BY <1>3, <1>7, <2>1, <2>2, <2>3
<1>12. ASSUME NEW j, PerformedStep(j)
       PROVE  SentInv'
  <2>1. /\ UNCHANGED <<plan, policy, outcome, at, attempt, sent>>
        /\ request' = request \/ (request = "sent" /\ request' = "performed")
    BY <1>12 DEF PerformedStep
  <2>2. \A k \in DOMAIN plan : Sent(k)'
    BY <1>3, <1>5, <2>1
  <2> HIDE DEF Sent
  <2>3. QED
    BY <1>1, <1>3, <1>7, <2>1, <2>2 DEF SentInv
<1>13. CASE UNCHANGED vars
  BY <1>1, <1>13 DEF SentInv, Bound, vars
<1>14. QED
  BY <1>1, <1>8, <1>9, <1>10, <1>11, <1>12, <1>13, StepIsOne

\* A step that was sent ends with an outcome after a request: it could be refused, or fail
\* before its request, only when nothing was sent.
LEMMA KeepsEffectInv ==
  ASSUME IInv, [Next]_vars
  PROVE  EffectInv'
<1>1. Types /\ RunInv /\ SentInv /\ EffectInv
  BY DEF IInv
<1>2. 0 \notin DOMAIN plan
  BY <1>1, PlanTypes DEF Types
<1> DEFINE Effect(k) ==
      /\ effects[k] > 0 \/ late[k] > 0 => sent[k] > 0
      /\ k # at /\ sent[k] > 0 => outcome[k] \in AfterRequest
      /\ outcome[k] = "success" \/ (k = at /\ request = "performed") => effects[k] > 0
<1>3. \A k \in DOMAIN plan : Effect(k)
  BY <1>1 DEF EffectInv
<1>4. /\ attempt \in Nat
      /\ \A k \in DOMAIN plan : sent[k] \in Nat /\ late[k] \in Nat /\ effects[k] \in Nat
  BY <1>1 DEF Types
<1>5. \A k \in DOMAIN plan : k = at => sent[k] = IF request = "none" THEN attempt ELSE attempt + 1
  BY <1>1 DEF SentInv
<1>6. ASSUME plan' = plan, \A k \in DOMAIN plan : Effect(k)'
      PROVE  EffectInv'
  BY <1>6 DEF EffectInv
<1>7. ASSUME NEW j, StartedStep(j)
      PROVE  EffectInv'
  <2>1. /\ UNCHANGED <<plan, outcome, request, late, sent, effects>> /\ at = 0 /\ at' = j
        /\ request = "none"
    BY <1>1, <1>7 DEF StartedStep, RunInv
  <2>2. \A k \in DOMAIN plan : Effect(k)'
    BY <1>2, <1>3, <2>1
  <2> HIDE DEF Effect
  <2>3. QED
    BY <1>6, <2>1, <2>2
<1>8. ASSUME NEW result \in Outcomes, EndedStep(result)
      PROVE  EffectInv'
  <2>1. /\ UNCHANGED <<plan, sent, effects>> /\ at' = 0 /\ request' = "none" /\ at # 0 /\ GivenUp
        /\ \/ result \in {"blocked", "failed_before_request"} /\ request = "none" /\ attempt = 0
           \/ result \in {"failed_after_request", "unknown_after_timeout"} /\ request # "none"
           \/ result = "success" /\ request = "performed"
    BY <1>8 DEF EndedStep
  <2>2. /\ at \in DOMAIN plan /\ outcome'[at] = result
        /\ \A k \in DOMAIN plan : k # at => outcome'[k] = outcome[k]
    BY <1>1, <1>8, EndedFacts
  <2>3. /\ \A k \in DOMAIN plan : k # at => late'[k] = late[k]
        /\ \/ late'[at] = late[at]
           \/ request = "sent" /\ late'[at] = late[at] + 1
    BY <1>1, <2>1, GivenUpFacts
  <2>4. sent[at] > 0 => result \in AfterRequest
    BY <1>4, <1>5, <2>1, <2>2 DEF AfterRequest
  <2>5. \A k \in DOMAIN plan : k = at => Effect(k)'
    BY <1>2, <1>3, <1>4, <1>5, <2>1, <2>2, <2>3, <2>4
  <2>6. \A k \in DOMAIN plan : k # at => Effect(k)'
    BY <1>2, <1>3, <2>1, <2>2, <2>3
  <2> HIDE DEF Effect
  <2>7. QED
    BY <1>6, <2>1, <2>5, <2>6
<1>9. CASE RepeatedStep
  <2>1. /\ UNCHANGED <<plan, outcome, at, sent, effects>> /\ request # "none" /\ request' = "none"
        /\ at # 0 /\ GivenUp /\ at \in DOMAIN plan
    BY <1>1, <1>9 DEF RepeatedStep, Types
  <2>2. /\ \A k \in DOMAIN plan : k # at => late'[k] = late[k]
        /\ \/ late'[at] = late[at]
           \/ request = "sent" /\ late'[at] = late[at] + 1
    BY <1>1, <2>1, GivenUpFacts
  <2>3. sent[at] > 0
    BY <1>4, <1>5, <2>1
  <2>4. \A k \in DOMAIN plan : Effect(k)'
    BY <1>3, <2>1, <2>2, <2>3
  <2> HIDE DEF Effect
  <2>5. QED
    BY <1>6, <2>1, <2>4
<1>10. CASE Send
  <2>1. /\ sent'[at] = sent[at] + 1 /\ at \in DOMAIN plan
        /\ \A k \in DOMAIN plan : k # at => sent'[k] = sent[k]
        /\ request = "none" /\ request' = "sent"
        /\ UNCHANGED <<plan, outcome, at, late, effects>>
    BY <1>1, <1>10, SendFacts
  <2>2. \A k \in DOMAIN plan : Effect(k)'
    BY <1>3, <1>4, <2>1
  <2> HIDE DEF Effect
  <2>3. QED
    BY <1>6, <2>1, <2>2
<1>11. ASSUME NEW j, PerformedStep(j)
       PROVE  EffectInv'
  <2>1. UNCHANGED <<plan, outcome, at, sent>> /\ j \in DOMAIN plan
    BY <1>11 DEF PerformedStep
  <2>2. /\ \A k \in DOMAIN plan : k # j => effects'[k] = effects[k] /\ late'[k] = late[k]
        /\ effects'[j] = IF effects[j] > 0 /\ Deduplicated(plan[j]) THEN effects[j] ELSE effects[j] + 1
        /\ \/ j = at /\ request = "sent" /\ request' = "performed" /\ late'[j] = late[j]
           \/ late[j] > 0 /\ late'[j] = late[j] - 1 /\ request' = request
    BY <1>1, <1>11, PerformedFacts
  <2>3. effects'[j] > 0
    BY <1>4, <2>1, <2>2
  <2>4. sent[j] > 0
    BY <1>3, <1>4, <1>5, <2>1, <2>2
  <2>5. Effect(j)'
    BY <1>3, <2>1, <2>3, <2>4
  <2>6. \A k \in DOMAIN plan : k # j => Effect(k)'
    BY <1>3, <2>1, <2>2
  <2> HIDE DEF Effect
  <2>7. QED
    BY <1>6, <2>1, <2>5, <2>6
<1>12. CASE UNCHANGED vars
  BY <1>1, <1>12 DEF EffectInv, vars
<1>13. QED
  BY <1>1, <1>7, <1>8, <1>9, <1>10, <1>11, <1>12, StepIsOne

\* Where the provider cannot tell a repetition, nothing but a read is repeated, and the one
\* request is open, given up or performed; where it can, a second one has no effect.
LEMMA KeepsOnceInv ==
  ASSUME IInv, [Next]_vars
  PROVE  OnceInv'
<1>1. Types /\ RunInv /\ SentInv /\ EffectInv /\ OnceInv
  BY DEF IInv
<1>2. 0 \notin DOMAIN plan
  BY <1>1, PlanTypes DEF Types
<1> DEFINE Told(k)   == Deduplicated(plan[k])
           Risky(k)  == ~ Told(k) /\ plan[k].sideEffectKind # "read"
           Open(k)   == IF k = at /\ request = "sent" THEN 1 ELSE 0
           Single(k) == /\ effects[k] + late[k] + Open(k) <= sent[k]
                        /\ sent[k] <= 1
                        /\ k = at => attempt = 0
           Once(k)   == /\ Told(k) => effects[k] <= 1
                        /\ Risky(k) => Single(k)
<1>3. \A k \in DOMAIN plan : Once(k)
  BY <1>1 DEF OnceInv
<1>4. /\ attempt \in Nat
      /\ \A k \in DOMAIN plan : sent[k] \in Nat /\ late[k] \in Nat /\ effects[k] \in Nat
  BY <1>1 DEF Types
<1>5. \A k \in DOMAIN plan : k = at => sent[k] = IF request = "none" THEN attempt ELSE attempt + 1
  BY <1>1 DEF SentInv
<1>6. ASSUME plan' = plan, \A k \in DOMAIN plan : (Told(k) => effects'[k] <= 1) /\ (Risky(k) => Single(k)')
      PROVE  OnceInv'
  BY <1>6 DEF OnceInv
<1>7. ASSUME NEW j, StartedStep(j)
      PROVE  OnceInv'
  <2>1. /\ UNCHANGED <<plan, outcome, request, late, sent, effects>> /\ at = 0 /\ at' = j
        /\ request = "none" /\ attempt' = 0
    BY <1>1, <1>7 DEF StartedStep, RunInv
  <2>2. \A k \in DOMAIN plan : (Told(k) => effects'[k] <= 1) /\ (Risky(k) => Single(k)')
    <3> HIDE DEF Told, Risky
    <3>1. QED
      BY <1>2, <1>3, <2>1
  <2> HIDE DEF Told, Risky, Single
  <2>3. QED
    BY <1>6, <2>1, <2>2
<1>8. ASSUME NEW result \in Outcomes, EndedStep(result)
      PROVE  OnceInv'
  <2>1. UNCHANGED <<plan, sent, effects>> /\ at' = 0 /\ request' = "none" /\ at # 0 /\ GivenUp
    BY <1>8 DEF EndedStep
  <2>2. /\ \A k \in DOMAIN plan : k # at => late'[k] = late[k]
        /\ \/ late'[at] = late[at]
           \/ request = "sent" /\ late'[at] = late[at] + 1
    BY <1>1, <2>1, GivenUpFacts
  <2>3. \A k \in DOMAIN plan : (Told(k) => effects'[k] <= 1) /\ (Risky(k) => Single(k)')
    <3> HIDE DEF Told, Risky
    <3>1. QED
      BY <1>2, <1>3, <1>4, <2>1, <2>2
  <2> HIDE DEF Told, Risky, Single
  <2>4. QED
    BY <1>6, <2>1, <2>3
<1>9. CASE RepeatedStep
  <2>1. /\ UNCHANGED <<plan, outcome, at, sent, effects>> /\ request # "none" /\ request' = "none"
        /\ at # 0 /\ GivenUp /\ at \in DOMAIN plan
        /\ plan[at].sideEffectKind # "read" => Told(at)
    BY <1>1, <1>9 DEF RepeatedStep, Types
  <2>2. \A k \in DOMAIN plan : k # at => late'[k] = late[k]
    BY <1>1, <2>1, GivenUpFacts
  <2>3. ~ Risky(at)
    BY <2>1
  <2>4. \A k \in DOMAIN plan : (Told(k) => effects'[k] <= 1) /\ (Risky(k) => Single(k)')
    <3> HIDE DEF Told, Risky
    <3>1. QED
      BY <1>3, <2>1, <2>2, <2>3
  <2> HIDE DEF Told, Risky, Single
  <2>5. QED
    BY <1>6, <2>1, <2>4
<1>10. CASE Send
  <2>1. /\ sent'[at] = sent[at] + 1 /\ at \in DOMAIN plan
        /\ \A k \in DOMAIN plan : k # at => sent'[k] = sent[k]
        /\ request = "none" /\ request' = "sent"
        /\ UNCHANGED <<plan, outcome, at, attempt, late, effects>>
    BY <1>1, <1>10, SendFacts
  <2>2. \A k \in DOMAIN plan : (Told(k) => effects'[k] <= 1) /\ (Risky(k) => Single(k)')
    <3> HIDE DEF Told, Risky
    <3>1. QED
      BY <1>3, <1>4, <1>5, <2>1
  <2> HIDE DEF Told, Risky, Single
  <2>3. QED
    BY <1>6, <2>1, <2>2
<1>11. ASSUME NEW j, PerformedStep(j)
       PROVE  OnceInv'
  <2>1. UNCHANGED <<plan, outcome, at, attempt, sent>> /\ j \in DOMAIN plan
    BY <1>11 DEF PerformedStep
  <2>2. /\ \A k \in DOMAIN plan : k # j => effects'[k] = effects[k] /\ late'[k] = late[k]
        /\ effects'[j] = IF effects[j] > 0 /\ Told(j) THEN effects[j] ELSE effects[j] + 1
        /\ \/ j = at /\ request = "sent" /\ request' = "performed" /\ late'[j] = late[j]
           \/ late[j] > 0 /\ late'[j] = late[j] - 1 /\ request' = request
    BY <1>1, <1>11, PerformedFacts
  <2> HIDE DEF Told
  <2>3. (Told(j) => effects'[j] <= 1) /\ (Risky(j) => Single(j)')
    BY <1>3, <1>4, <2>1, <2>2
  <2> HIDE DEF Risky
  <2>4. \A k \in DOMAIN plan : k # j => (Told(k) => effects'[k] <= 1) /\ (Risky(k) => Single(k)')
    BY <1>3, <2>1, <2>2
  <2> HIDE DEF Single
  <2>5. QED
    BY <1>6, <2>1, <2>3, <2>4
<1>12. CASE UNCHANGED vars
  BY <1>1, <1>12 DEF OnceInv, vars
<1>13. QED
  BY <1>1, <1>7, <1>8, <1>9, <1>10, <1>11, <1>12, StepIsOne

\* A step that ended keeps its outcome, so what stopped the composition stays.
LEMMA TroubleStays ==
  ASSUME Types, RunInv, NEW result \in Outcomes, EndedStep(result), Trouble(Steps(outcome)) # {}
  PROVE  Trouble(Steps(outcome')) # {}
<1>1. /\ at \in DOMAIN plan /\ outcome[at] = "not_started"
      /\ \A k \in DOMAIN plan : k # at => outcome'[k] = outcome[k]
  BY EndedFacts DEF RunInv, EndedStep
<1>2. ASSUME NEW outcomes
      PROVE  /\ DOMAIN Steps(outcomes) = DOMAIN plan
             /\ \A k \in DOMAIN plan : /\ Steps(outcomes)[k].outcome = outcomes[k]
                                       /\ Steps(outcomes)[k].role = plan[k].role
                                       /\ Steps(outcomes)[k].required = plan[k].required
  BY DEF Steps
<1> DEFINE Bad(o) == Trouble(Steps(o))
<1>3. PICK k \in Bad(outcome) : TRUE
  OBVIOUS
<1>4. k \in DOMAIN plan /\ outcome[k] # "not_started"
  BY <1>2, <1>3 DEF Trouble, CompensationFailures, RequiredUnknowns, RequiredBlocked,
                    RequiredFailures, Failed
<1>5. outcome'[k] = outcome[k]
  BY <1>1, <1>4
<1>6. k \in Bad(outcome')
  BY <1>2, <1>3, <1>4, <1>5 DEF Trouble, CompensationFailures, RequiredUnknowns, RequiredBlocked,
                                RequiredFailures
<1>7. QED
  BY <1>6

\* Every step keeps what holds of the steps that did not end in success.
LEMMA KeepsTroubleInv ==
  ASSUME IInv, [Next]_vars
  PROVE  TroubleInv'
<1>1. Types /\ RunInv /\ TroubleInv
  BY DEF IInv
<1>2. 0 \notin DOMAIN plan
  BY <1>1, PlanTypes DEF Types
<1>3. UNCHANGED <<plan, outcome>> => Steps(outcome)' = Steps(outcome)
  BY DEF Steps
<1>4. ASSUME UNCHANGED <<plan, outcome, at>>
      PROVE  TroubleInv'
  BY <1>1, <1>3, <1>4 DEF TroubleInv
<1>5. ASSUME NEW j, StartedStep(j)
      PROVE  TroubleInv'
  <2>1. /\ UNCHANGED <<plan, outcome>> /\ at' = j
        /\ plan[j].role = "compensation" => decision.manualReviewRequired
    BY <1>5 DEF StartedStep
  <2>2. plan[j].role = "compensation" => Trouble(Steps(outcome)) # {}
    BY <1>1, <2>1, DecisionTells DEF RunInv
  <2>3. QED
    BY <1>1, <1>3, <2>1, <2>2 DEF TroubleInv
<1>6. ASSUME NEW result \in Outcomes, EndedStep(result)
      PROVE  TroubleInv'
  <2>1. plan' = plan /\ at' = 0
    BY <1>6 DEF EndedStep
  <2>2. \A k \in DOMAIN plan : k # at => outcome'[k] = outcome[k]
    BY <1>1, <1>6, EndedFacts
  <2>3. Steps(outcome)' = Steps(outcome')
    BY <2>1 DEF Steps
  <2>4. ASSUME NEW k \in DOMAIN plan, plan[k].role = "compensation", outcome'[k] # "not_started"
        PROVE  Trouble(Steps(outcome')) # {}
    <3>1. Trouble(Steps(outcome)) # {}
      BY <1>1, <2>2, <2>4 DEF TroubleInv
    <3>2. QED
      BY <1>1, <1>6, <3>1, TroubleStays
  <2>5. QED
    BY <1>2, <2>1, <2>3, <2>4 DEF TroubleInv, Trouble
<1>7. ASSUME NEW j, PerformedStep(j)
      PROVE  UNCHANGED <<plan, outcome, at>>
  BY <1>7 DEF PerformedStep
<1>8. RepeatedStep \/ Send \/ UNCHANGED vars => UNCHANGED <<plan, outcome, at>>
  BY DEF RepeatedStep, Send, vars
<1>9. QED
  BY <1>1, <1>4, <1>5, <1>6, <1>7, <1>8, StepIsOne

-----------------------------------------------------------------------------
(* What follows.                                                            *)

\* The inductive invariant holds in every reachable state.
THEOREM CompositionInvariant == Spec => []IInv
<1>1. IInv /\ [Next]_vars => IInv'
  BY KeepsTypes, KeepsRunInv, KeepsSentInv, KeepsEffectInv, KeepsOnceInv, KeepsTroubleInv DEF IInv
<1>2. QED
  BY <1>1, InitInv, PTL DEF Spec

\* A step is sent no more often than the policy's maxAttempts, and once without automatic
\* retry, however attempts fail.
THEOREM AttemptsBounded == Spec => []AttemptsAreBounded
<1>1. IInv => AttemptsAreBounded
  BY DEF IInv, SentInv, Bound, AttemptsAreBounded
<1>2. QED
  BY <1>1, CompositionInvariant, PTL

\* A step that is not a read takes effect at most once, however often its request is
\* repeated and however late one that was given up is performed.
THEOREM EffectsHappenOnce == Spec => []EffectOnce
<1>1. IInv => EffectOnce
  <2> SUFFICES ASSUME IInv, NEW k \in DOMAIN plan, plan[k].sideEffectKind # "read"
               PROVE  effects[k] <= 1
    BY DEF EffectOnce
  <2>1. effects[k] \in Nat /\ late[k] \in Nat /\ sent[k] \in Nat
    BY DEF IInv, Types
  <2>2. QED
    BY <2>1 DEF IInv, OnceInv
<1>2. QED
  BY <1>1, CompositionInvariant, PTL

\* An effect of a required step that did not end in success is before a person, unless a
\* gate has refused a required step, which the recovery then reports.
THEOREM EffectsAreReviewed == Spec => []HiddenEffectIsReviewed
<1>1. IInv => HiddenEffectIsReviewed
  <2> DEFINE steps == Steps(outcome)
  <2> SUFFICES ASSUME IInv, at = 0, NEW k \in DOMAIN plan, plan[k].required, effects[k] > 0,
                      outcome[k] # "success"
               PROVE  \/ decision.manualReviewRequired
                      \/ outcome[k] = "failed_after_request" /\ decision.compositionOutcome = "blocked"
    BY DEF HiddenEffectIsReviewed
  <2>1. decision = EvaluateCompositionFailureRecovery(steps)
    BY DEF IInv, RunInv
  <2>2. k # at
    BY PlanTypes DEF IInv, Types
  <2>3. outcome[k] \in {"failed_after_request", "unknown_after_timeout"}
    BY <2>2 DEF IInv, EffectInv, AfterRequest
  <2>4. /\ DOMAIN steps = DOMAIN plan /\ steps[k].outcome = outcome[k]
        /\ steps[k].role = plan[k].role /\ steps[k].required = plan[k].required
    BY DEF Steps
  <2> HIDE DEF steps
  <2>5. CASE outcome[k] = "unknown_after_timeout"
    <3>1. k \in RequiredUnknowns(steps)
      BY <2>4, <2>5 DEF RequiredUnknowns
    <3>2. QED
      BY <2>1, <3>1, DecisionTells
  <2>6. CASE outcome[k] = "failed_after_request" /\ plan[k].role = "compensation"
    <3>1. k \in CompensationFailures(steps)
      BY <2>4, <2>6 DEF CompensationFailures, Failed
    <3>2. QED
      BY <2>1, <3>1, DecisionTells
  <2>7. CASE outcome[k] = "failed_after_request" /\ plan[k].role # "compensation"
    <3>1. k \in RequiredFailures(steps)
      BY <2>4, <2>7 DEF RequiredFailures, Failed
    <3>2. QED
      BY <2>1, <2>7, <3>1, DecisionTells
  <2>8. QED
    BY <2>3, <2>5, <2>6, <2>7
<1>2. QED
  BY <1>1, CompositionInvariant, PTL

\* A composition that is reported completed when nothing is left to run has done every
\* required step, and has started no compensation.
THEOREM CompletedMeansDone == Spec => []CompletedIsDone
<1>1. IInv => CompletedIsDone
  <2> DEFINE steps == Steps(outcome)
  <2> SUFFICES ASSUME IInv, at = 0, decision.compositionOutcome = "completed",
                      NotStarted("normal") = {}, NEW k \in DOMAIN plan
               PROVE  /\ plan[k].required /\ plan[k].role = "normal" =>
                           outcome[k] = "success" /\ effects[k] > 0
                      /\ plan[k].role = "compensation" => outcome[k] = "not_started"
    BY DEF CompletedIsDone
  <2>1. decision = EvaluateCompositionFailureRecovery(steps)
    BY DEF IInv, RunInv
  <2>2. Trouble(steps) = {}
    BY <2>1, DecisionTells
  <2>3. /\ DOMAIN steps = DOMAIN plan /\ steps[k].outcome = outcome[k]
        /\ steps[k].role = plan[k].role /\ steps[k].required = plan[k].required
    BY DEF Steps
  <2>4. outcome[k] \in Outcomes
    BY DEF IInv, Types
  <2>5. ASSUME plan[k].required, plan[k].role = "normal"
        PROVE  outcome[k] = "success" /\ effects[k] > 0
    <3>1. outcome[k] # "not_started"
      BY <2>5 DEF NotStarted
    <3>2. /\ k \notin RequiredUnknowns(steps) /\ k \notin RequiredBlocked(steps)
          /\ k \notin RequiredFailures(steps)
      BY <2>2 DEF Trouble
    <3> HIDE DEF steps
    <3>3. outcome[k] = "success"
      BY <2>3, <2>4, <2>5, <3>1, <3>2 DEF RequiredUnknowns, RequiredBlocked, RequiredFailures,
                                          Failed, Outcomes
    <3>4. QED
      BY <3>3 DEF IInv, EffectInv
  <2>6. ASSUME plan[k].role = "compensation"
        PROVE  outcome[k] = "not_started"
    BY <2>2, <2>6 DEF IInv, TroubleInv
  <2>7. QED
    BY <2>5, <2>6
<1>2. QED
  BY <1>1, CompositionInvariant, PTL

=============================================================================
