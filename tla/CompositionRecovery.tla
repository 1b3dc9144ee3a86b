------------------------- MODULE CompositionRecovery -------------------------
(***************************************************************************)
(* evaluateCompositionFailureRecovery: what became of a composition, from  *)
(* the steps it has, each with its role, whether it is required and its    *)
(* outcome.  Four tests in a fixed order; the first that finds a step      *)
(* decides.                                                                *)
(***************************************************************************)
EXTENDS Naturals, Sequences

Outcomes == {"not_started", "success", "blocked", "failed_before_request",
             "failed_after_request", "unknown_after_timeout", "partial"}

Failed == {"failed_before_request", "failed_after_request", "partial"}

\* The indices of the steps each test looks for.
CompensationFailures(steps) ==
  {k \in DOMAIN steps : /\ steps[k].role = "compensation"
                        /\ steps[k].outcome \in Failed \cup {"unknown_after_timeout"}}

\* Mutant: the test of "required" is inverted.
OptionalUnknowns(steps) ==
  {k \in DOMAIN steps : ~ steps[k].required /\ steps[k].outcome = "unknown_after_timeout"}

RequiredUnknowns(steps) ==
  {k \in DOMAIN steps : steps[k].required /\ steps[k].outcome = "unknown_after_timeout"}

RequiredBlocked(steps) ==
  {k \in DOMAIN steps : steps[k].required /\ steps[k].outcome = "blocked"}

\* Mutant: a step whose request was answered is not looked at.
FailuresBeforeRequest(steps) ==
  {k \in DOMAIN steps : /\ steps[k].required
                        /\ steps[k].role # "compensation"
                        /\ steps[k].outcome = "failed_before_request"}

RequiredFailures(steps) ==
  {k \in DOMAIN steps : /\ steps[k].required
                        /\ steps[k].role # "compensation"
                        /\ steps[k].outcome \in Failed}

Completed(steps) == {k \in DOMAIN steps : steps[k].outcome = "success"}

FirstOf(indices) == CHOOSE k \in indices : \A j \in indices : k <= j

Decision(outcome, action, blocking, review) ==
  [compositionOutcome   |-> outcome,
   recommendedAction    |-> action,
   blockingStep         |-> blocking,
   stopDownstream       |-> outcome # "completed",
   manualReviewRequired |-> review]

\* 0 stands for no blocking step.
EvaluateCompositionFailureRecovery(steps) ==
  IF CompensationFailures(steps) # {}
  THEN Decision("manual_review_required", "manual_review_after_compensation_failure",
                FirstOf(CompensationFailures(steps)), TRUE)
  ELSE IF RequiredUnknowns(steps) # {}
  THEN Decision("unknown", "reconcile_before_retry_or_compensation",
                FirstOf(RequiredUnknowns(steps)), TRUE)
  ELSE IF RequiredBlocked(steps) # {}
  THEN Decision("blocked", "stop_after_blocked_step", FirstOf(RequiredBlocked(steps)), FALSE)
  ELSE IF RequiredFailures(steps) # {}
  THEN Decision(IF Completed(steps) # {} THEN "partial" ELSE "failed",
                "retry_failed_step_or_manual_compensation",
                FirstOf(RequiredFailures(steps)), TRUE)
  ELSE Decision("completed", "continue", 0, FALSE)

=============================================================================
