---------------------------- MODULE PolicyTooling ----------------------------
(***************************************************************************)
(* What `opencap policy validate' and `opencap policy simulate' say of a   *)
(* policies.yml before it is activated (packages/runtime/src/              *)
(* policy-validator.ts, policy-simulation.ts), against what evaluatePolicy *)
(* then does with it.  The policy sets are parsed ones: the findings about *)
(* the form of the file are left out.  A rule without "id" is unnamed.     *)
(***************************************************************************)
EXTENDS PolicyLoop

-----------------------------------------------------------------------------
(* validatePolicyYml.  A finding is [code, severity, rule].                 *)

HighRiskAllow == Risks \ {"read_only"}

StrictBoundaryAllow == {"external_send", "destructive", "financial"}

Boundary == {"capabilityId", "resource", "action"}

Finding(code, severity, k) == [code |-> code, severity |-> severity, rule |-> k]

\* Mutant: one field of the boundary is enough.
WithoutAnyBoundary(rule) ==
  rule.match.risk \in StrictBoundaryAllow /\ Boundary \cap DOMAIN rule.match = {}

WithoutBoundary(rule) ==
  rule.match.risk \in StrictBoundaryAllow /\ ~ Boundary \subseteq DOMAIN rule.match

\* Only a rule that allows and names a risk is looked at.
BroadAllowFindings(rule, k) ==
  IF rule.decision # "allow" \/ "risk" \notin DOMAIN rule.match THEN {}
  ELSE (IF rule.match.risk = "write" /\ {"capabilityId", "resource"} \cap DOMAIN rule.match = {}
        THEN {Finding("POLICY_BROAD_ALLOW_HIGH_RISK", "warning", k)} ELSE {})
         \cup (IF WithoutBoundary(rule)
               THEN {Finding("POLICY_BROAD_ALLOW_REQUIRES_BOUNDARY", "error", k)} ELSE {})
         \cup (IF rule.match.risk \in HighRiskAllow /\ "id" \notin DOMAIN rule
               THEN {Finding("POLICY_HIGH_RISK_ALLOW_UNNAMED", "warning", k)} ELSE {})

DuplicateIdFindings(ps, k) ==
  LET Named(j) == "id" \in DOMAIN ps.rules[j]
  IN  IF Named(k) /\ \E j \in 1..(k - 1) : Named(j) /\ ps.rules[j].id = ps.rules[k].id
      THEN {Finding("POLICY_RULE_ID_DUPLICATE", "warning", k)} ELSE {}

ValidatePolicyYml(ps) ==
  LET findings == UNION {BroadAllowFindings(ps.rules[k], k) \cup DuplicateIdFindings(ps, k) :
                           k \in DOMAIN ps.rules}
  IN  [ok |-> \A f \in findings : f.severity # "error", findings |-> findings]

-----------------------------------------------------------------------------
(* simulatePolicyDiff.  A scenario is [capabilityId, permission,            *)
(* dataClasses]; a finding of one is [category, severity].                  *)

SensitiveEgressClasses == {"secret_like", "pii", "source_code", "internal_url", "financial_data"}

\* Neither the channel nor the trust level is part of a scenario.
ScenarioInput(scenario) ==
  [capabilityId |-> scenario.capabilityId,
   permissions  |-> <<scenario.permission>>,
   channel      |-> Undefined,
   host         |-> Undefined,
   trustLevel   |-> Undefined]

RelaxationSeverity(risk) == IF risk \in {"destructive", "financial"} THEN "error" ELSE "warning"

\* Mutant: a deny that becomes a question is only mentioned.
AskedInsteadOfDenied(risk, before, after) ==
  CASE before = after -> {}
    [] before = "ask" /\ after = "allow" ->
         {[category |-> "ask_to_allow", severity |-> RelaxationSeverity(risk)]}
    [] before = "deny" /\ after = "allow" ->
         {[category |-> "new_allow", severity |-> RelaxationSeverity(risk)]}
    [] before = "deny" /\ after = "ask" -> {[category |-> "deny_to_ask", severity |-> "info"]}
    [] before # "deny" /\ after = "deny" -> {[category |-> "new_deny", severity |-> "info"]}
    [] OTHER -> {}

DecisionDiff(risk, before, after) ==
  CASE before = after -> {}
    [] before = "ask" /\ after = "allow" ->
         {[category |-> "ask_to_allow", severity |-> RelaxationSeverity(risk)]}
    [] before = "deny" /\ after = "allow" ->
         {[category |-> "new_allow", severity |-> RelaxationSeverity(risk)]}
    [] before = "deny" /\ after = "ask" -> {[category |-> "deny_to_ask", severity |-> "warning"]}
    [] before # "deny" /\ after = "deny" -> {[category |-> "new_deny", severity |-> "info"]}
    [] OTHER -> {}

EgressRelaxation(scenario, before, after) ==
  IF after = "allow" /\ before # "allow" /\ scenario.dataClasses \cap SensitiveEgressClasses # {}
  THEN {[category |-> "data_egress_relaxed", severity |-> "error"]} ELSE {}

\* The call is allowed, by the default or by a rule that leaves part of the boundary open.
IsBroadAllow(ps, evaluation) ==
  /\ evaluation.decision = "allow"
  /\ evaluation.rule # 0 => ~ Boundary \subseteq DOMAIN ps.rules[evaluation.rule].match

BroadDataEgressAllow(scenario, after) ==
  IF after = "allow" /\ scenario.dataClasses \cap {"secret_like", "pii", "source_code"} # {}
  THEN {[category |-> "broad_data_egress_allow", severity |-> "error"]} ELSE {}

FinancialRelaxation(risk, before, after) ==
  IF risk = "financial" /\ after = "allow" /\ before # "allow"
  THEN {[category |-> "financial_relaxed", severity |-> "error"]} ELSE {}

ScenarioFindings(policyBefore, policyAfter, scenario) ==
  LET evaluation == EvaluatePolicy(policyAfter, ScenarioInput(scenario))
      before     == EvaluatePolicy(policyBefore, ScenarioInput(scenario)).decision
      after      == evaluation.decision
      risk       == scenario.permission.risk
  IN  DecisionDiff(risk, before, after)
        \cup EgressRelaxation(scenario, before, after)
        \cup (IF IsBroadAllow(policyAfter, evaluation)
              THEN BroadDataEgressAllow(scenario, after) ELSE {})
        \cup FinancialRelaxation(risk, before, after)

SimulatePolicyDiff(policyBefore, policyAfter, scenarios) ==
  LET findings == UNION {ScenarioFindings(policyBefore, policyAfter, s) : s \in scenarios}
  IN  [ok |-> \A f \in findings : f.severity = "info", findings |-> findings]

-----------------------------------------------------------------------------
\* One scenario per permission of the evaluated Capability.
Scenarios(dataClasses) ==
  {[capabilityId |-> input.capabilityId, permission |-> input.permissions[k],
    dataClasses |-> dataClasses] : k \in 1..Len(input.permissions)}

\* The rules match only on what a scenario has.
Comparable(ps) ==
  \A k \in DOMAIN ps.rules :
    DOMAIN ps.rules[k].match \subseteq {"capabilityId", "risk", "resource", "action"}

RulesWithout(rules, k) ==
  [j \in 1..(Len(rules) - 1) |-> IF j < k THEN rules[j] ELSE rules[j + 1]]

\* What the file may have been before: nothing, another default, one rule less.
Before(ps) ==
  {DefaultPolicySet}
    \cup {[default |-> d, rules |-> ps.rules] : d \in Decisions}
    \cup {[default |-> ps.default, rules |-> RulesWithout(ps.rules, k)] : k \in DOMAIN ps.rules}

\* A change that the simulation of a Capability's permissions finds nothing in but new
\* denials makes no call of that Capability looser, whatever the other rules are and
\* although each permission is simulated alone (simulatePolicyDiff).  It holds for rules
\* that match on nothing but capability, risk, resource and action: the simulation passes
\* neither channel nor trust level, so what a rule does on one channel escapes it.
SimulationSeesRelaxations ==
  (phase = "done" /\ input.permissions # <<>>) =>
    \A before \in Before(policySet) :
      (/\ Comparable(before) /\ Comparable(policySet)
       /\ SimulatePolicyDiff(before, policySet, Scenarios({})).ok)
        => Rank[verdict.decision] >= Rank[EvaluatePolicy(before, input).decision]

\* A rule of the file allows exactly this permission of this Capability.
IsScoped(permission) ==
  \E k \in DOMAIN policySet.rules :
    LET match == policySet.rules[k].match
    IN  /\ policySet.rules[k].decision = "allow"
        /\ Boundary \subseteq DOMAIN match
        /\ match.capabilityId = input.capabilityId
        /\ match.resource = permission.resource
        /\ match.action = permission.action

\* What runs without a question was allowed by name: in a file that validates, a
\* permission that sends, destroys or pays (as long as the default allows nothing and no
\* rule allows without naming a risk: the validator looks at neither), and in a file
\* whose simulation with personal data is ok, every permission of the Capability.
UnattendedIsScoped ==
  (phase = "done" /\ verdict.decision = "allow") =>
    \A k \in 1..Len(input.permissions) :
      /\ (/\ ValidatePolicyYml(policySet).ok
          /\ policySet.default # "allow"
          /\ \A j \in DOMAIN policySet.rules :
               policySet.rules[j].decision = "allow" => "risk" \in DOMAIN policySet.rules[j].match
          /\ input.permissions[k].risk \in StrictBoundaryAllow)
           => IsScoped(input.permissions[k])
      /\ (/\ Comparable(policySet)
          /\ SimulatePolicyDiff(policySet, policySet, Scenarios({"pii"})).ok)
           => IsScoped(input.permissions[k])

=============================================================================
