----------------------------- MODULE RuntimeGates -----------------------------
(***************************************************************************)
(* The gates a host evaluates before secrets are resolved: what a decision *)
(* allows, the gate for revoked Capabilities, quotas and budgets, abuse    *)
(* throttling and consent to spend.  A rule's match holds the fields it    *)
(* names; limits and use are numbers of one window.                        *)
(***************************************************************************)
EXTENDS Naturals, Sequences

\* gateDecisionSemantics: allow executes, ask executes once the user confirmed; deny,
\* block and redact (until the input is transformed) execute nothing.
ExecutionAllowed(decision, confirmed) == decision = "allow" \/ (decision = "ask" /\ confirmed)

\* createGateDecision: a boundary is hard when the caller says so or the decision blocks.
GateDecision(gate, decision, reason, hard) ==
  [gateId |-> gate, decision |-> decision, reasonCode |-> reason,
   hardBoundary |-> hard \/ decision = "block"]

RuleDecisions == {"allow", "warn", "ask", "deny"}

\* A rule that warns lets the call pass.
GateDecisionKind(ruleDecision) == IF ruleDecision \in {"ask", "deny"} THEN ruleDecision ELSE "allow"

Matches(match, context) ==
  \A field \in DOMAIN match : field \in DOMAIN context /\ match[field] = context[field]

FirstIndex(indices) == CHOOSE k \in indices : \A j \in indices : k <= j

-----------------------------------------------------------------------------
(* evaluateRevokedCapabilityInvokeGate                                      *)

EvaluateRevokedCapabilityInvokeGate(lifecycle, highestRisk, explicitOverride) ==
  CASE lifecycle # "revoked" ->
         GateDecision("lifecycle", "allow", "CAPABILITY_NOT_REVOKED", FALSE)
    [] lifecycle = "revoked" /\ highestRisk # "read_only" ->
         GateDecision("lifecycle", "deny", "CAPABILITY_REVOKED_INVOKE_DENY", TRUE)
    [] lifecycle = "revoked" /\ highestRisk = "read_only" /\ explicitOverride ->
         GateDecision("lifecycle", "allow", "CAPABILITY_REVOKED_READ_ONLY_OVERRIDE", FALSE)
    [] OTHER ->
         GateDecision("lifecycle", "ask", "CAPABILITY_REVOKED_READ_ONLY_REQUIRES_OVERRIDE", FALSE)

-----------------------------------------------------------------------------
(* evaluateQuotaBudgetGate.  A policy is [quotas, budgets], two sequences   *)
(* of rules [match, limit, used, decision].                                 *)

\* Mutant: a limit is exceeded only while the use equals it.
ExactlyAtLimit(rule) == rule.used = rule.limit

Exceeded(rule) == rule.used >= rule.limit

ExceededRules(rules, context) ==
  {k \in DOMAIN rules : Matches(rules[k].match, context) /\ Exceeded(rules[k])}

WarningRules(rules, context) ==
  {k \in DOMAIN rules : Matches(rules[k].match, context) /\ rules[k].decision = "warn"}

RuleGate(gate, rule) == GateDecision(gate, GateDecisionKind(rule.decision), rule.decision, FALSE)

EvaluateQuotaBudgetGate(context, policy) ==
  LET budget(found) == RuleGate("budget", policy.budgets[FirstIndex(found)])
      quota(found)  == RuleGate("quota", policy.quotas[FirstIndex(found)])
  IN  IF ExceededRules(policy.budgets, context) # {} THEN budget(ExceededRules(policy.budgets, context))
      ELSE IF ExceededRules(policy.quotas, context) # {} THEN quota(ExceededRules(policy.quotas, context))
      ELSE IF WarningRules(policy.quotas, context) # {} THEN quota(WarningRules(policy.quotas, context))
      ELSE IF WarningRules(policy.budgets, context) # {} THEN budget(WarningRules(policy.budgets, context))
      ELSE GateDecision("quota", "allow", "QUOTA_BUDGET_ALLOW", FALSE)

-----------------------------------------------------------------------------
(* evaluateAbuseThrottleGate.  The rules are [match, limit, window,         *)
(* decision]; the use is one snapshot [count, window].                      *)

DefaultExternalSendAbuseThrottleRule ==
  [match |-> [risk |-> "external_send"], limit |-> 3, window |-> "1m", decision |-> "ask"]

EvaluateAbuseThrottleGate(context, rules) ==
  LET applies  == {k \in DOMAIN rules : /\ Matches(rules[k].match, context)
                                        /\ rules[k].window = context.usage.window}
      exceeded == {k \in applies : /\ rules[k].decision # "warn"
                                   /\ context.usage.count >= rules[k].limit}
      warnings == {k \in applies : rules[k].decision = "warn"}
  IN  IF exceeded # {} THEN RuleGate("abuse_throttle", rules[FirstIndex(exceeded)])
      ELSE IF warnings # {} THEN RuleGate("abuse_throttle", rules[FirstIndex(warnings)])
      ELSE GateDecision("abuse_throttle", "allow", "ABUSE_THROTTLE_ALLOW", FALSE)

-----------------------------------------------------------------------------
(* evaluateFinancialConsentSpendGate                                        *)

EvaluateFinancialConsentSpendGate(context, consent, policy) ==
  IF context.risk # "financial"
  THEN GateDecision("financial_consent", "allow", "FINANCIAL_CONSENT_NOT_REQUIRED", FALSE)
  ELSE IF consent # "approved"
       THEN GateDecision("financial_consent", "ask", "FINANCIAL_CONSENT_REQUIRED", FALSE)
       ELSE EvaluateQuotaBudgetGate(context, policy)

=============================================================================
