------------------------------ MODULE GatedCalls ------------------------------
(***************************************************************************)
(* A host that puts its calls through the runtime's gates.  Each caller    *)
(* reads the stored overrides, the use so far and the state of the         *)
(* Capability, evaluates the gates on what it read, and then counts its    *)
(* call and stores the overrides that remain; reviewers move the           *)
(* Capability between trust levels or revoke it meanwhile.  The gates are  *)
(* the code's; the host is external: the code leaves storing and counting  *)
(* to its caller, and names no lock.                                       *)
(***************************************************************************)
EXTENDS RuntimeGates, DataEgress, PolicyOverride, TrustTransition, Integers, FiniteSets

CONSTANTS
  Callers,   \* concurrent callers of one Capability
  Requests,  \* what they ask for
  Scenarios, \* policies, stored overrides, trust level, and bounds on calls and reviews
  Proofs,    \* the evidence reviewers come with
  MaxTime    \* bound on the clock

\* What the types of the policy files and of a call's context say.
IsUseRules(rules) ==
  /\ rules \in Seq({rules[k] : k \in DOMAIN rules})
  /\ \A k \in DOMAIN rules : /\ {"match", "limit", "decision"} \subseteq DOMAIN rules[k]
                             /\ rules[k].limit \in Int
                             /\ rules[k].decision \in RuleDecisions
                             /\ "usage" \notin DOMAIN rules[k].match

IsEgressPolicy(policy) ==
  /\ policy.rules \in Seq({policy.rules[k] : k \in DOMAIN policy.rules})
  /\ policy.default \in EgressDecisions
  /\ \A k \in DOMAIN policy.rules : policy.rules[k].decision \in EgressDecisions

IsOverrides(records) ==
  /\ records \in Seq({records[k] : k \in DOMAIN records})
  /\ \A k \in DOMAIN records : records[k].type \in OverrideTypes /\ records[k].expiresAt \in Nat

ASSUME GatedCallsAssumption ==
  /\ Proofs \subseteq Evidence
  /\ MaxTime \in Nat \ {0}
  /\ \A request \in Requests : {"risk", "outboundAllowed"} \subseteq DOMAIN request
  /\ \A s \in Scenarios :
       /\ s.level \in Levels
       /\ IsUseRules(s.quotas) /\ IsUseRules(s.budgets) /\ IsUseRules(s.throttle)
       /\ IsEgressPolicy(s.egress)
       /\ IsOverrides(s.overrides)

VARIABLES
  scenario,   \* the scenario at the start; its policies do not change
  overrides,  \* the stored override records
  now,        \* the time
  used,       \* calls counted in the current window
  level,      \* trust level of the Capability
  earned,     \* levels it has passed with evidence, up to its own
  lifecycle,  \* "active" or "revoked"
  reviews,    \* reviews so far
  calls,      \* calls begun so far
  caller,     \* per caller: where it is, what it read and what came of it
  uses,       \* per override: the calls it was applied to
  overlapped  \* two callers were busy at once

vars == <<scenario, overrides, now, used, level, earned, lifecycle, reviews, calls, caller, uses,
          overlapped>>

Idle == [step |-> "idle"]

Init ==
  /\ scenario \in Scenarios
  /\ overrides = scenario.overrides
  /\ now = 1
  /\ used = 0
  /\ level = scenario.level
  /\ earned = {l \in Levels : LevelIndex[l] <= LevelIndex[scenario.level]}
  /\ lifecycle = "active"
  /\ reviews = 0
  /\ calls = 0
  /\ caller = [c \in Callers |-> Idle]
  /\ uses = [k \in DOMAIN scenario.overrides |-> 0]
  /\ overlapped = FALSE

-----------------------------------------------------------------------------
(* The gates on what a caller read.                                         *)

\* A record with further fields.
With(record, fields) ==
  [f \in DOMAIN record \cup DOMAIN fields |-> IF f \in DOMAIN fields THEN fields[f] ELSE record[f]]

Context(request, count, trustLevel) ==
  With(request, [trustLevel |-> trustLevel, usage |-> [count |-> count, window |-> "1m"]])

WithUse(rules, count) == [k \in DOMAIN rules |-> With(rules[k], [used |-> count])]

SpendPolicy(count) ==
  [quotas |-> WithUse(scenario.quotas, count), budgets |-> WithUse(scenario.budgets, count)]

EgressDecision(request) == EvaluateDataEgressPolicy(request, scenario.egress).decision

OverrideContext(request, status) ==
  With(request, [dataEgressDecision |-> EgressDecision(request), capabilityStatus |-> status])

UseDecisions(request, count, trustLevel) ==
  LET context == Context(request, count, trustLevel)
  IN  [spend    |-> EvaluateQuotaBudgetGate(context, SpendPolicy(count)).decision,
       throttle |-> EvaluateAbuseThrottleGate(context, scenario.throttle).decision]

\* Every gate lets the call pass; what one of them asks, the user is asked.
Passes(seen, result, confirmed) ==
  LET request == seen.request
      context == Context(request, seen.used, seen.level)
      consent == IF confirmed THEN "approved" ELSE "rejected"
  IN  \A decision \in
        {result.decision,
         EgressDecision(request),
         EvaluateRevokedCapabilityInvokeGate(seen.lifecycle, request.risk,
                                             request.explicitOverride).decision,
         EvaluateAbuseThrottleGate(context, scenario.throttle).decision,
         EvaluateFinancialConsentSpendGate(context, consent, SpendPolicy(seen.used)).decision,
         EvaluateQuotaBudgetGate(context, SpendPolicy(seen.used)).decision} :
          ExecutionAllowed(decision, confirmed)

-----------------------------------------------------------------------------
Begin(c) ==
  /\ caller[c] = Idle
  /\ calls < scenario.maxCalls
  /\ calls' = calls + 1
  /\ \E request \in Requests :
       caller' = [caller EXCEPT ![c] =
         [step |-> "read", request |-> request, overrides |-> overrides, used |-> used,
          level |-> level, lifecycle |-> lifecycle]]
  /\ overlapped' = (overlapped \/ \E other \in Callers : caller[other] # Idle)
  /\ UNCHANGED <<scenario, overrides, now, used, level, earned, lifecycle, reviews, uses>>

\* consumePolicyOverride and the gates, on what was read, at the time it is now.
Decide(c) ==
  LET seen   == caller[c]
      result == ApplyPolicyOverrides(seen.request.base, seen.overrides,
                                     OverrideContext(seen.request, seen.lifecycle), now)
  IN  /\ seen.step = "read"
      /\ \E confirmed \in BOOLEAN :
           caller' = [caller EXCEPT ![c] =
             With(seen, [step |-> "decided", result |-> result, at |-> now,
                         goes |-> Passes(seen, result, confirmed)])]
      /\ UNCHANGED <<scenario, overrides, now, used, level, earned, lifecycle, reviews, calls, uses,
                     overlapped>>

\* The caller stores the remaining overrides if it consumed one, and counts a call that
\* goes on.
Finish(c) ==
  LET result == caller[c].result
  IN  /\ caller[c].step = "decided"
      /\ overrides' = IF result.override.type = "allow_once"
                      THEN RemainingOverrides(result, caller[c].overrides) ELSE overrides
      /\ uses' = [k \in DOMAIN uses |->
                    IF scenario.overrides[k].id = result.override.id
                         /\ scenario.overrides[k].type = result.override.type
                    THEN uses[k] + 1 ELSE uses[k]]
      /\ used' = IF caller[c].goes THEN used + 1 ELSE used
      /\ caller' = [caller EXCEPT ![c] = Idle]
      /\ UNCHANGED <<scenario, now, level, earned, lifecycle, reviews, calls, overlapped>>

Tick ==
  /\ now < MaxTime
  /\ now' = now + 1
  /\ UNCHANGED <<scenario, overrides, used, level, earned, lifecycle, reviews, calls, caller, uses,
                 overlapped>>

WindowRolls ==
  /\ used > 0
  /\ used' = 0
  /\ UNCHANGED <<scenario, overrides, now, level, earned, lifecycle, reviews, calls, caller, uses,
                 overlapped>>

\* A reviewer carries out a transition that is allowed.  A level that is left downwards
\* has to be earned again.
Review ==
  /\ reviews < scenario.maxReviews
  /\ reviews' = reviews + 1
  /\ \E to \in Targets, evidence \in Proofs :
       /\ TransitionAllowed(level, to, evidence, TRUE)
       /\ IF to = "revoked"
          THEN lifecycle' = "revoked" /\ UNCHANGED <<level, earned>>
          ELSE /\ level' = to
               /\ earned' = {l \in earned : LevelIndex[l] <= LevelIndex[to]}
                              \cup (IF Required[to] \subseteq evidence /\ evidence \cap Freezing = {}
                                    THEN {to} ELSE {})
               /\ UNCHANGED lifecycle
  /\ UNCHANGED <<scenario, overrides, now, used, calls, caller, uses, overlapped>>

Next ==
  \/ \E c \in Callers : Begin(c) \/ Decide(c) \/ Finish(c)
  \/ Tick \/ WindowRolls \/ Review

Spec == Init /\ [][Next]_vars

-----------------------------------------------------------------------------
\* An override that allows once is used once as long as callers take turns: it is gone
\* from the store before the next one reads.  Callers that overlap can both use it,
\* since the code leaves the read and the store to them.
AllowOnceIsOnce ==
  ~ overlapped =>
    \A k \in DOMAIN uses : scenario.overrides[k].type = "allow_once" => uses[k] <= 1

\* What an override may not do: relax the decision about a call that the data egress
\* policy denies, that was blocked for its target, whose Capability was revoked when it
\* was read, or that is financial; and the record it comes from is one that was stored
\* when the caller read and had not expired when it decided.
OverridesRespectSafety ==
  \A c \in Callers : caller[c].step = "decided" =>
    LET seen   == caller[c]
        record == seen.result.override
        denied == \E k \in DOMAIN scenario.egress.rules :
                    /\ RuleMatches(seen.request, scenario.egress.rules[k])
                    /\ scenario.egress.rules[k].decision = "deny"
    IN  (record # NoOverride) =>
          /\ record.type # "deny_override" =>
               /\ ~ denied /\ scenario.egress.default # "deny"
               /\ seen.request.outboundAllowed
               /\ seen.lifecycle # "revoked"
               /\ seen.request.risk # "financial"
          /\ \E k \in DOMAIN seen.overrides :
               seen.overrides[k].id = record.id /\ seen.overrides[k].expiresAt > seen.at

\* The egress decision is the strictest of the default and of all rules that match, in
\* whatever order they stand: no rule hides a stricter one.
EgressIsStrictest ==
  \A request \in Requests :
    LET matching == {k \in DOMAIN scenario.egress.rules : RuleMatches(request, scenario.egress.rules[k])}
        ranks    == {DecisionRank[scenario.egress.default]} \cup
                      {DecisionRank[scenario.egress.rules[k].decision] : k \in matching}
        rank     == DecisionRank[EgressDecision(request)]
    IN  rank \in ranks /\ \A other \in ranks : other <= rank

\* A policy that lists stricter rules first: budgets before quotas, as they are asked.
StrictFirst(rules) ==
  LET strictness == [allow |-> 0, warn |-> 0, ask |-> 1, deny |-> 2]
  IN  \A j, k \in DOMAIN rules : j < k => strictness[rules[j].decision] >= strictness[rules[k].decision]

\* Calling more often never loosens what quotas, budgets and throttling decide, for the
\* policies that list stricter rules first.  (For others it can: the first exceeded rule
\* decides, and a rule that only warns may be exceeded later than one that denies.)
MoreUseNeverLoosens ==
  [][(used' > used /\ level' = level) =>
       \A request \in Requests :
         LET rank   == [allow |-> 0, ask |-> 1, deny |-> 2]
             before == UseDecisions(request, used, level)
             after  == UseDecisions(request, used', level)
         IN  /\ StrictFirst(scenario.budgets \o scenario.quotas) =>
                  rank[after.spend] >= rank[before.spend]
             /\ StrictFirst(scenario.throttle) => rank[after.throttle] >= rank[before.throttle]]_vars

\* A Capability has a level only after every level below it, each with the evidence it
\* asks for and none while an advisory was open or tests were failing: no sequence of
\* upgrades, downgrades and revocations gets around one.
EveryLevelIsEarned == \A l \in Levels : LevelIndex[l] <= LevelIndex[level] => l \in earned

=============================================================================
