--------------------------- MODULE GatedCallsProofs ---------------------------
(***************************************************************************)
(* For any number of callers, any policies, stored overrides and evidence: *)
(* what the gates decide, and what callers and reviewers can make of it.   *)
(***************************************************************************)
EXTENDS GatedCalls, TLAPS

Policies == INSTANCE PolicyEvaluationProofs

-----------------------------------------------------------------------------
(* Trust levels.                                                            *)

\* The levels and their places in the order.
LEMMA LevelPlaces ==
  /\ Levels = {"unverified", "listed", "tested", "maintainer_verified", "official"}
  /\ LevelIndex["unverified"] = 1
  /\ LevelIndex["listed"] = 2
  /\ LevelIndex["tested"] = 3
  /\ LevelIndex["maintainer_verified"] = 4
  /\ LevelIndex["official"] = 5
<1>1. DOMAIN TrustLevels = 1..5
  BY DEF TrustLevels
<1>2. /\ TrustLevels[1] = "unverified" /\ TrustLevels[2] = "listed" /\ TrustLevels[3] = "tested"
      /\ TrustLevels[4] = "maintainer_verified" /\ TrustLevels[5] = "official"
  BY DEF TrustLevels
<1>3. \A k \in 1..5 : k = 1 \/ k = 2 \/ k = 3 \/ k = 4 \/ k = 5
  OBVIOUS
<1>4. Levels = {"unverified", "listed", "tested", "maintainer_verified", "official"}
  BY <1>1, <1>2, <1>3 DEF Levels
<1>5. ASSUME NEW k \in 1..5
      PROVE  LevelIndex[TrustLevels[k]] = k
  <2>1. \A j \in 1..5 : TrustLevels[j] = TrustLevels[k] => j = k
    BY <1>2, <1>3
  <2>2. (CHOOSE j \in 1..5 : TrustLevels[j] = TrustLevels[k]) = k
    BY <2>1
  <2>3. TrustLevels[k] \in Levels
    BY <1>1 DEF Levels
  <2>4. QED
    BY <1>1, <2>2, <2>3 DEF LevelIndex
<1>6. QED
  BY <1>2, <1>4, <1>5

\* A level that has been reached was earned, and so was every level below it.
EarnedInv ==
  /\ level \in Levels
  /\ EveryLevelIsEarned

\* No transition that evaluateTrustLevelTransition allows gets around a level: an
\* upgrade goes one level up with what that level asks for, and a downgrade keeps
\* what was earned up to the level it ends at.
LEMMA ReviewKeepsEarned ==
  ASSUME EarnedInv, Review
  PROVE  EarnedInv'
<1>1. PICK to \in Targets, evidence \in Proofs :
         /\ TransitionAllowed(level, to, evidence, TRUE)
         /\ IF to = "revoked"
            THEN lifecycle' = "revoked" /\ UNCHANGED <<level, earned>>
            ELSE /\ level' = to
                 /\ earned' = {l \in earned : LevelIndex[l] <= LevelIndex[to]}
                                \cup (IF Required[to] \subseteq evidence /\ evidence \cap Freezing = {}
                                      THEN {to} ELSE {})
                 /\ UNCHANGED lifecycle
  BY DEF Review
<1>2. CASE to = "revoked"
  BY <1>1, <1>2 DEF EarnedInv, EveryLevelIsEarned
<1>3. CASE to # "revoked"
  <2>1. to \in Levels /\ level \in Levels
    BY <1>3 DEF Targets, EarnedInv
  <2>2. \A l \in Levels : LevelIndex[l] \in 1..5
    BY LevelPlaces
  <2>3. \A k, l \in Levels : LevelIndex[k] = LevelIndex[l] => k = l
    BY LevelPlaces
  <2>4. \A l \in Levels : LevelIndex[l] <= LevelIndex[level] => l \in earned
    BY DEF EarnedInv, EveryLevelIsEarned
  <2>5. ASSUME NEW l \in Levels, LevelIndex[l] <= LevelIndex[to]
        PROVE  l \in earned'
    <3>1. CASE LevelIndex[to] <= LevelIndex[level]
      BY <1>1, <1>3, <2>1, <2>2, <2>4, <2>5, <3>1
    <3>2. CASE LevelIndex[to] > LevelIndex[level]
      <4>1. to # level
        BY <2>1, <2>2, <3>2
      <4>2. evidence \cap Freezing = {}
        BY <1>1, <1>3, <3>2, <4>1 DEF TransitionAllowed, Kind
      <4>3. Kind(level, to, evidence) = "upgrade"
        BY <1>3, <3>2, <4>1, <4>2 DEF Kind
      <4>4. LevelIndex[to] = LevelIndex[level] + 1 /\ Required[to] \subseteq evidence
        BY <1>1, <4>3 DEF TransitionAllowed, Stepwise
      <4>5. CASE l = to
        BY <1>1, <1>3, <4>2, <4>4, <4>5
      <4>6. CASE l # to
        <5>1. LevelIndex[l] <= LevelIndex[level]
          BY <2>1, <2>2, <2>3, <2>5, <4>4, <4>6
        <5>2. QED
          BY <1>1, <1>3, <2>4, <2>5, <5>1
      <4>7. QED
        BY <4>5, <4>6
    <3>3. QED
      BY <2>1, <2>2, <3>1, <3>2
  <2>6. QED
    BY <1>1, <1>3, <2>1, <2>5 DEF EarnedInv, EveryLevelIsEarned
<1>4. QED
  BY <1>2, <1>3

\* A Capability has a level only after every level below it, each with the evidence it
\* asks for: no sequence of reviews gets around one.
THEOREM LevelsAreEarned == Spec => []EveryLevelIsEarned
<1>1. Init => EarnedInv
  BY GatedCallsAssumption DEF Init, EarnedInv, EveryLevelIsEarned
<1>2. EarnedInv /\ [Next]_vars => EarnedInv'
  <2> SUFFICES ASSUME EarnedInv, [Next]_vars
               PROVE  EarnedInv'
    OBVIOUS
  <2>1. CASE Review
    BY <2>1, ReviewKeepsEarned
  <2>2. CASE ~ Review
    <3>1. UNCHANGED <<level, earned>>
      BY <2>2 DEF Next, Begin, Decide, Finish, Tick, WindowRolls, vars
    <3>2. QED
      BY <3>1 DEF EarnedInv, EveryLevelIsEarned
  <2>3. QED
    BY <2>1, <2>2
<1>3. EarnedInv => EveryLevelIsEarned
  BY DEF EarnedInv
<1>4. QED
  BY <1>1, <1>2, <1>3, PTL DEF Spec

-----------------------------------------------------------------------------
(* Data egress.                                                             *)

\* The pass over the rules, as what it holds after each of them.
LEMMA EgressPass ==
  ASSUME NEW context, NEW policy, IsEgressPolicy(policy)
  PROVE  \E found \in [0..Len(policy.rules) -> [decision : EgressDecisions, rule : Nat]] :
            /\ found[0] = [decision |-> policy.default, rule |-> 0]
            /\ \A k \in 1..Len(policy.rules) :
                 found[k] = Visit(context, found[k - 1], policy.rules[k], k)
            /\ EvaluateDataEgressPolicy(context, policy) = found[Len(policy.rules)]
<1> DEFINE n    == Len(policy.rules)
           S    == [decision : EgressDecisions, rule : Nat]
           base == [decision |-> policy.default, rule |-> 0]
           step == [x \in S \X (1..n) |-> Visit(context, x[1], policy.rules[x[2]], x[2])]
           Pass(f) == f = [k \in 0..n |-> IF k = 0 THEN base
                                          ELSE Visit(context, f[k - 1], policy.rules[k], k)]
<1>1. n \in Nat /\ base \in S
  BY DEF IsEgressPolicy
<1>2. ASSUME NEW x \in S, NEW k \in 1..n
      PROVE  Visit(context, x, policy.rules[k], k) \in S
  BY <1>2 DEF Visit, IsEgressPolicy
<1>3. PICK f : Policies!IsFold(f, n, S, base, step)
  <2>1. Policies!IsStep(step, n, S)
    BY <1>2 DEF Policies!IsStep
  <2> HIDE DEF n, S, base, step
  <2>2. QED
    BY ONLY <1>1, <2>1, Policies!FoldExists
<1> USE DEF Policies!IsFold
<1>4. ASSUME NEW k \in 1..n
      PROVE  step[<<f[k - 1], k>>] = Visit(context, f[k - 1], policy.rules[k], k)
  <2>1. k - 1 \in 0..n
    BY <1>1
  <2> HIDE DEF n, S
  <2>2. f[k - 1] \in S
    BY <1>3, <2>1
  <2>3. QED
    BY <2>2
<1>5. Pass(f)
  <2> HIDE DEF step, base, S
  <2>1. \A k \in 0..n : k # 0 => k \in 1..n
    BY <1>1
  <2>2. QED
    BY <1>3, <1>4, <2>1
<1> DEFINE found == CHOOSE g : Pass(g)
<1>6. Pass(found)
  BY <1>5
<1>7. EvaluateDataEgressPolicy(context, policy) = found[n]
  BY DEF EvaluateDataEgressPolicy
<1> HIDE DEF found
<1>8. /\ found = [k \in 0..n |-> found[k]]
      /\ found[0] = base
      /\ \A k \in 1..n : found[k] = Visit(context, found[k - 1], policy.rules[k], k)
  <2> HIDE DEF base
  <2>1. \A k \in 1..n : k \in 0..n /\ k # 0
    OBVIOUS
  <2>2. QED
    BY <1>1, <1>6, <2>1
<1>9. \A k \in 0..n : found[k] \in S
  <2> DEFINE Good == {k \in 0..n : found[k] \in S}
  <2>1. 0 \in Good
    BY <1>1, <1>8
  <2>2. ASSUME NEW k \in 1..n, k - 1 \in Good
        PROVE  k \in Good
    <3>1. found[k - 1] \in S
      BY <2>2
    <3>2. found[k] \in S
      BY ONLY <1>2, <1>8, <3>1
    <3>3. QED
      BY <3>2
  <2> HIDE DEF Good
  <2>3. \A k \in 0..n : k \in Good
    BY ONLY <1>1, <2>1, <2>2, Policies!InductionUpTo
  <2> USE DEF Good
  <2>4. QED
    BY <2>3
<1>10. QED
  BY <1>7, <1>8, <1>9

\* The ranks of the egress decisions are the numbers from 0 to 3.
LEMMA RanksOfDecisions ==
  \A d \in EgressDecisions : DecisionRank[d] \in 0..3
BY DEF EgressDecisions, DecisionRank

\* What the pass holds after k rules is the default or the decision of one of them that
\* matches, and none of those is stricter.
Strictest(context, policy, k, found) ==
  /\ found.decision \in EgressDecisions
  /\ \/ found.decision = policy.default
     \/ \E j \in 1..k : RuleMatches(context, policy.rules[j]) /\ found.decision = policy.rules[j].decision
  /\ DecisionRank[policy.default] <= DecisionRank[found.decision]
  /\ \A j \in 1..k : RuleMatches(context, policy.rules[j]) =>
                       DecisionRank[policy.rules[j].decision] <= DecisionRank[found.decision]

\* evaluateDataEgressPolicy returns a strictest decision.
LEMMA EgressResult ==
  ASSUME NEW context, NEW policy, IsEgressPolicy(policy)
  PROVE  Strictest(context, policy, Len(policy.rules), EvaluateDataEgressPolicy(context, policy))
<1> DEFINE n == Len(policy.rules)
<1>1. /\ n \in Nat /\ policy.default \in EgressDecisions
      /\ \A k \in 1..n : policy.rules[k].decision \in EgressDecisions
  BY DEF IsEgressPolicy
<1>2. PICK found \in [0..n -> [decision : EgressDecisions, rule : Nat]] :
         /\ found[0] = [decision |-> policy.default, rule |-> 0]
         /\ \A k \in 1..n : found[k] = Visit(context, found[k - 1], policy.rules[k], k)
         /\ EvaluateDataEgressPolicy(context, policy) = found[n]
  BY EgressPass
<1> DEFINE Good == {k \in 0..n : Strictest(context, policy, k, found[k])}
<1>3. 0 \in Good
  BY <1>1, <1>2, RanksOfDecisions DEF Strictest
<1>4. ASSUME NEW k \in 1..n, k - 1 \in Good
      PROVE  k \in Good
  <2> DEFINE before == found[k - 1]
             rule   == policy.rules[k]
  <2>1. Strictest(context, policy, k - 1, before)
    BY <1>4
  <2>2. \A j \in 1..k : j \in 1..(k - 1) \/ j = k
    BY <1>1
  <2>3. found[k] = Visit(context, before, rule, k)
    BY <1>2
  <2>4. rule.decision \in EgressDecisions /\ before.decision \in EgressDecisions
    BY <1>1, <2>1 DEF Strictest
  <2> HIDE DEF before
  <2>5. CASE RuleMatches(context, rule) /\ DecisionRank[rule.decision] >= DecisionRank[before.decision]
    <3>1. found[k].decision = rule.decision
      BY <2>3, <2>5 DEF Visit
    <3>2. \A j \in 1..k : RuleMatches(context, policy.rules[j]) =>
            DecisionRank[policy.rules[j].decision] <= DecisionRank[rule.decision]
      <4>1. ASSUME NEW j \in 1..(k - 1), RuleMatches(context, policy.rules[j])
            PROVE  DecisionRank[policy.rules[j].decision] <= DecisionRank[rule.decision]
        <5>1. DecisionRank[policy.rules[j].decision] <= DecisionRank[before.decision]
          BY <2>1, <4>1 DEF Strictest
        <5>2. policy.rules[j].decision \in EgressDecisions
          BY <1>1
        <5>3. QED
          BY <2>4, <2>5, <5>1, <5>2, RanksOfDecisions
      <4>2. DecisionRank[rule.decision] <= DecisionRank[rule.decision]
        BY <2>4, RanksOfDecisions
      <4>3. QED
        BY <2>2, <4>1, <4>2
    <3>3. DecisionRank[policy.default] <= DecisionRank[rule.decision]
      BY <1>1, <2>1, <2>4, <2>5, RanksOfDecisions DEF Strictest
    <3>4. Strictest(context, policy, k, found[k])
      BY <2>4, <2>5, <3>1, <3>2, <3>3 DEF Strictest
    <3>5. QED
      BY <3>4
  <2>6. CASE ~ (RuleMatches(context, rule) /\ DecisionRank[rule.decision] >= DecisionRank[before.decision])
    <3>1. found[k] = before
      BY <2>3, <2>6 DEF Visit
    <3>2. RuleMatches(context, rule) => DecisionRank[rule.decision] <= DecisionRank[before.decision]
      BY <2>4, <2>6, RanksOfDecisions
    <3>3. Strictest(context, policy, k, before)
      <4>1. \A j \in 1..(k - 1) : j \in 1..k
        BY <1>1
      <4>2. QED
        BY <2>1, <2>2, <3>2, <4>1 DEF Strictest
    <3>4. QED
      BY <3>1, <3>3
  <2>7. QED
    BY <2>5, <2>6
<1> HIDE DEF Good
<1>5. \A k \in 0..n : k \in Good
  BY ONLY <1>1, <1>3, <1>4, Policies!InductionUpTo
<1> USE DEF Good
<1>6. Strictest(context, policy, n, found[n])
  BY <1>1, <1>5
<1>7. QED
  BY <1>2, <1>6

\* The scenario is one of those given.
Given == scenario \in Scenarios

\* The egress decision is the strictest of the default and of the rules that match, in
\* whatever order they stand: no rule hides a stricter one.
THEOREM NoRuleHidesAStricter == Spec => []EgressIsStrictest
<1>1. Init => Given
  BY DEF Init, Given
<1>2. Given /\ [Next]_vars => Given'
  BY DEF Given, Next, Begin, Decide, Finish, Tick, WindowRolls, Review, vars
<1>3. Given => EgressIsStrictest
  <2> SUFFICES ASSUME scenario \in Scenarios, NEW request \in Requests
               PROVE  LET matching == {k \in DOMAIN scenario.egress.rules :
                                         RuleMatches(request, scenario.egress.rules[k])}
                          ranks    == {DecisionRank[scenario.egress.default]} \cup
                                        {DecisionRank[scenario.egress.rules[k].decision] : k \in matching}
                          rank     == DecisionRank[EgressDecision(request)]
                      IN  rank \in ranks /\ \A other \in ranks : other <= rank
    BY DEF EgressIsStrictest, Given
  <2> DEFINE policy == scenario.egress
  <2>1. IsEgressPolicy(policy)
    BY GatedCallsAssumption
  <2>2. Strictest(request, policy, Len(policy.rules), EvaluateDataEgressPolicy(request, policy))
    BY <2>1, EgressResult
  <2>3. DOMAIN policy.rules = 1..Len(policy.rules)
    BY <2>1 DEF IsEgressPolicy
  <2>4. QED
    BY <2>2, <2>3 DEF Strictest, EgressDecision
<1>4. QED
  BY <1>1, <1>2, <1>3, PTL DEF Spec

-----------------------------------------------------------------------------
(* Quotas, budgets and throttling as the use grows.                         *)

\* A nonempty set of indices has a first one.
LEMMA FirstIndexIsLeast ==
  ASSUME NEW S, S \subseteq Nat, S # {}
  PROVE  FirstIndex(S) \in S /\ \A k \in S : FirstIndex(S) <= k
<1>1. \E m \in S : \A k \in S : m <= k
  BY Policies!LeastNatural
<1>2. QED
  BY <1>1 DEF FirstIndex

\* How strict what a rule decides is.
Strictness == [allow |-> 0, warn |-> 0, ask |-> 1, deny |-> 2]

GateRank == [allow |-> 0, ask |-> 1, deny |-> 2]

\* A gate is as strict as the rule it took its decision from.
LEMMA RuleGateRank ==
  ASSUME NEW gate, NEW rule, rule.decision \in RuleDecisions
  PROVE  /\ GateRank[RuleGate(gate, rule).decision] = Strictness[rule.decision]
         /\ Strictness[rule.decision] \in 0..2
BY DEF RuleGate, GateDecision, GateDecisionKind, RuleDecisions, Strictness, GateRank

\* What a rule says of a call at a count: that it applies does not depend on the count.
Applies(rule, request, trustLevel) == Matches(rule.match, Context(request, 0, trustLevel))

\* A context with another count differs in nothing a rule may name.
LEMMA AppliesAtAnyCount ==
  ASSUME NEW request, NEW count, NEW trustLevel, NEW rule, "usage" \notin DOMAIN rule.match
  PROVE  Matches(rule.match, Context(request, count, trustLevel)) <=> Applies(rule, request, trustLevel)
<1> DEFINE here  == Context(request, count, trustLevel)
           there == Context(request, 0, trustLevel)
<1>1. DOMAIN here = DOMAIN there
  BY DEF Context, With
<1>2. ASSUME NEW field \in DOMAIN here, field # "usage"
      PROVE  here[field] = there[field]
  BY <1>2 DEF Context, With
<1> HIDE DEF here, there
<1>3. Matches(rule.match, here) <=> Matches(rule.match, there)
  BY <1>1, <1>2 DEF Matches
<1>4. QED
  BY <1>3 DEF Applies, here, there

\* The rules of a list that a count exceeds.
Over(rules, request, count, trustLevel) ==
  {k \in DOMAIN rules : Applies(rules[k], request, trustLevel) /\ count >= rules[k].limit}

\* With the count filled in, these are the rules the spend gate finds exceeded, and what
\* they decide is what the policy says.
LEMMA ExceededAtCount ==
  ASSUME NEW rules, IsUseRules(rules), NEW request, NEW count \in Nat, NEW trustLevel
  PROVE  /\ ExceededRules(WithUse(rules, count), Context(request, count, trustLevel))
              = Over(rules, request, count, trustLevel)
         /\ \A k \in DOMAIN rules : WithUse(rules, count)[k].decision = rules[k].decision
         /\ DOMAIN WithUse(rules, count) = DOMAIN rules
<1>1. ASSUME NEW k \in DOMAIN rules
      PROVE  /\ WithUse(rules, count)[k].decision = rules[k].decision
             /\ WithUse(rules, count)[k].match = rules[k].match
             /\ WithUse(rules, count)[k].limit = rules[k].limit
             /\ WithUse(rules, count)[k].used = count
  BY DEF WithUse, With, IsUseRules
<1>2. DOMAIN WithUse(rules, count) = DOMAIN rules
  BY DEF WithUse
<1>3. ASSUME NEW k \in DOMAIN rules
      PROVE  Matches(WithUse(rules, count)[k].match, Context(request, count, trustLevel))
               <=> Applies(rules[k], request, trustLevel)
  BY <1>1, AppliesAtAnyCount DEF IsUseRules
<1>4. QED
  BY <1>1, <1>2, <1>3 DEF ExceededRules, Over, Exceeded

\* What the spend gate decides at a count: the first exceeded budget decides, else the
\* first exceeded quota, else the call passes.
LEMMA SpendAtCount ==
  ASSUME Given, NEW request, NEW count \in Nat, NEW trustLevel,
         NEW B, B = Over(scenario.budgets, request, count, trustLevel),
         NEW Q, Q = Over(scenario.quotas, request, count, trustLevel)
  PROVE  GateRank[UseDecisions(request, count, trustLevel).spend] =
           IF B # {} THEN Strictness[scenario.budgets[FirstIndex(B)].decision]
           ELSE IF Q # {} THEN Strictness[scenario.quotas[FirstIndex(Q)].decision]
           ELSE 0
<1> DEFINE context == Context(request, count, trustLevel)
           budgets == WithUse(scenario.budgets, count)
           quotas  == WithUse(scenario.quotas, count)
           gate    == EvaluateQuotaBudgetGate(context, SpendPolicy(count))
<1>1. IsUseRules(scenario.budgets) /\ IsUseRules(scenario.quotas)
  BY GatedCallsAssumption DEF Given
<1>2. SpendPolicy(count).budgets = budgets /\ SpendPolicy(count).quotas = quotas
  BY DEF SpendPolicy
<1>3. /\ ExceededRules(budgets, context) = B
      /\ ExceededRules(quotas, context) = Q
      /\ \A k \in DOMAIN scenario.budgets : budgets[k].decision = scenario.budgets[k].decision
      /\ \A k \in DOMAIN scenario.quotas : quotas[k].decision = scenario.quotas[k].decision
  BY <1>1, ExceededAtCount
<1>4. /\ B \subseteq DOMAIN scenario.budgets /\ B \subseteq Nat
      /\ Q \subseteq DOMAIN scenario.quotas /\ Q \subseteq Nat
  BY <1>1 DEF Over, IsUseRules
<1>5. UseDecisions(request, count, trustLevel).spend = gate.decision
  BY DEF UseDecisions
<1> HIDE DEF context, budgets, quotas
<1>6. CASE B # {}
  <2>1. FirstIndex(B) \in DOMAIN scenario.budgets
    BY <1>4, <1>6, FirstIndexIsLeast
  <2>2. gate = RuleGate("budget", budgets[FirstIndex(B)])
    BY <1>2, <1>3, <1>6 DEF EvaluateQuotaBudgetGate
  <2>3. budgets[FirstIndex(B)].decision = scenario.budgets[FirstIndex(B)].decision
    BY <1>3, <2>1
  <2>4. scenario.budgets[FirstIndex(B)].decision \in RuleDecisions
    BY <1>1, <2>1 DEF IsUseRules
  <2>5. QED
    BY <1>5, <1>6, <2>2, <2>3, <2>4, RuleGateRank
<1>7. CASE B = {} /\ Q # {}
  <2>1. FirstIndex(Q) \in DOMAIN scenario.quotas
    BY <1>4, <1>7, FirstIndexIsLeast
  <2>2. gate = RuleGate("quota", quotas[FirstIndex(Q)])
    BY <1>2, <1>3, <1>7 DEF EvaluateQuotaBudgetGate
  <2>3. quotas[FirstIndex(Q)].decision = scenario.quotas[FirstIndex(Q)].decision
    BY <1>3, <2>1
  <2>4. scenario.quotas[FirstIndex(Q)].decision \in RuleDecisions
    BY <1>1, <2>1 DEF IsUseRules
  <2>5. QED
    BY <1>5, <1>7, <2>2, <2>3, <2>4, RuleGateRank
<1>8. CASE B = {} /\ Q = {}
  <2> DEFINE WB == WarningRules(budgets, context)
             WQ == WarningRules(quotas, context)
  <2>1. /\ DOMAIN budgets = DOMAIN scenario.budgets
        /\ DOMAIN quotas = DOMAIN scenario.quotas
    BY <1>1, ExceededAtCount DEF budgets, quotas
  <2>2. /\ WB \subseteq Nat /\ \A k \in WB : budgets[k].decision = "warn"
        /\ WQ \subseteq Nat /\ \A k \in WQ : quotas[k].decision = "warn"
    BY <1>1, <2>1 DEF WarningRules, IsUseRules
  <2>3. ASSUME NEW name, NEW rule, rule.decision = "warn"
        PROVE  RuleGate(name, rule).decision = "allow"
    BY <2>3 DEF RuleGate, GateDecision, GateDecisionKind
  <2> HIDE DEF WB, WQ
  <2>4. CASE WQ # {}
    <3>1. gate = RuleGate("quota", quotas[FirstIndex(WQ)])
      BY <1>2, <1>3, <1>8, <2>4 DEF EvaluateQuotaBudgetGate, WQ
    <3>2. quotas[FirstIndex(WQ)].decision = "warn"
      BY <2>2, <2>4, FirstIndexIsLeast
    <3>3. QED
      BY <1>5, <1>8, <2>3, <3>1, <3>2 DEF GateRank
  <2>5. CASE WQ = {} /\ WB # {}
    <3>1. gate = RuleGate("budget", budgets[FirstIndex(WB)])
      BY <1>2, <1>3, <1>8, <2>5 DEF EvaluateQuotaBudgetGate, WQ, WB
    <3>2. budgets[FirstIndex(WB)].decision = "warn"
      BY <2>2, <2>5, FirstIndexIsLeast
    <3>3. QED
      BY <1>5, <1>8, <2>3, <3>1, <3>2 DEF GateRank
  <2>6. CASE WQ = {} /\ WB = {}
    BY <1>2, <1>3, <1>5, <1>8, <2>6 DEF EvaluateQuotaBudgetGate, GateDecision, GateRank, WQ, WB
  <2>7. QED
    BY <2>4, <2>5, <2>6
<1>9. QED
  BY <1>6, <1>7, <1>8

\* Of a list with the stricter rules first, more use exceeds an earlier rule or the same.
LEMMA MoreIsExceeded ==
  ASSUME NEW rules, IsUseRules(rules), NEW request, NEW trustLevel,
         NEW count \in Nat, NEW more \in Nat, count <= more,
         NEW S, S = Over(rules, request, count, trustLevel), S # {},
         NEW T, T = Over(rules, request, more, trustLevel)
  PROVE  /\ T # {}
         /\ StrictFirst(rules) =>
              Strictness[rules[FirstIndex(T)].decision] >= Strictness[rules[FirstIndex(S)].decision]
<1>1. /\ S \subseteq T /\ T \subseteq DOMAIN rules
      /\ T \subseteq Nat
  BY DEF Over, IsUseRules
<1>2. /\ FirstIndex(S) \in S /\ FirstIndex(T) \in T
      /\ FirstIndex(T) <= FirstIndex(S)
  BY <1>1, FirstIndexIsLeast
<1>3. FirstIndex(T) \in DOMAIN rules /\ FirstIndex(S) \in DOMAIN rules
  BY <1>1, <1>2
<1>4. \A k \in DOMAIN rules : Strictness[rules[k].decision] \in 0..2
  BY DEF IsUseRules, RuleDecisions, Strictness
<1>5. FirstIndex(T) < FirstIndex(S) \/ FirstIndex(T) = FirstIndex(S)
  BY <1>1, <1>2
<1>6. StrictFirst(rules) =>
        \A j, k \in DOMAIN rules : j < k => Strictness[rules[j].decision] >= Strictness[rules[k].decision]
  BY DEF StrictFirst, Strictness
<1>7. QED
  BY <1>1, <1>3, <1>4, <1>5, <1>6

\* What the throttle decides at a count: the first rule of the window that is exceeded and
\* does not only warn, else the call passes.
OverThrottle(request, count, trustLevel) ==
  {k \in DOMAIN scenario.throttle :
     /\ Applies(scenario.throttle[k], request, trustLevel)
     /\ scenario.throttle[k].window = "1m"
     /\ scenario.throttle[k].decision # "warn"
     /\ count >= scenario.throttle[k].limit}

\* What the throttle decides at a count is what this first rule decides.
LEMMA ThrottleAtCount ==
  ASSUME Given, NEW request, NEW count \in Nat, NEW trustLevel,
         NEW S, S = OverThrottle(request, count, trustLevel)
  PROVE  GateRank[UseDecisions(request, count, trustLevel).throttle] =
           IF S # {} THEN Strictness[scenario.throttle[FirstIndex(S)].decision] ELSE 0
<1> DEFINE context  == Context(request, count, trustLevel)
           rules    == scenario.throttle
           applies  == {k \in DOMAIN rules : /\ Matches(rules[k].match, context)
                                             /\ rules[k].window = context.usage.window}
           exceeded == {k \in applies : /\ rules[k].decision # "warn"
                                        /\ context.usage.count >= rules[k].limit}
           warnings == {k \in applies : rules[k].decision = "warn"}
           gate     == EvaluateAbuseThrottleGate(context, rules)
<1>1. IsUseRules(rules)
  BY GatedCallsAssumption DEF Given
<1>2. context.usage = [count |-> count, window |-> "1m"]
  BY DEF Context, With
<1>3. \A k \in DOMAIN rules : Matches(rules[k].match, context) <=> Applies(rules[k], request, trustLevel)
  BY <1>1, AppliesAtAnyCount DEF IsUseRules
<1> HIDE DEF context
<1>4. exceeded = S
  BY <1>2, <1>3 DEF OverThrottle
<1>5. /\ S \subseteq DOMAIN rules /\ S \subseteq Nat /\ warnings \subseteq Nat
      /\ \A k \in warnings : rules[k].decision = "warn"
  BY <1>1, <1>4 DEF IsUseRules, OverThrottle
<1>6. UseDecisions(request, count, trustLevel).throttle = gate.decision
  BY DEF UseDecisions, context
<1>7. gate = IF exceeded # {} THEN RuleGate("abuse_throttle", rules[FirstIndex(exceeded)])
             ELSE IF warnings # {} THEN RuleGate("abuse_throttle", rules[FirstIndex(warnings)])
             ELSE GateDecision("abuse_throttle", "allow", "ABUSE_THROTTLE_ALLOW", FALSE)
  BY DEF EvaluateAbuseThrottleGate
<1> HIDE DEF exceeded, warnings, gate
<1>8. CASE S # {}
  <2>1. FirstIndex(S) \in DOMAIN rules
    BY <1>5, <1>8, FirstIndexIsLeast
  <2>2. rules[FirstIndex(S)].decision \in RuleDecisions
    BY <1>1, <2>1 DEF IsUseRules
  <2>3. QED
    BY <1>4, <1>6, <1>7, <1>8, <2>2, RuleGateRank
<1>9. CASE S = {} /\ warnings # {}
  <2>1. rules[FirstIndex(warnings)].decision = "warn"
    BY <1>5, <1>9, FirstIndexIsLeast
  <2>2. gate = RuleGate("abuse_throttle", rules[FirstIndex(warnings)])
    BY <1>4, <1>7, <1>9
  <2>3. gate.decision = "allow"
    BY <2>1, <2>2 DEF RuleGate, GateDecision, GateDecisionKind
  <2>4. QED
    BY <1>6, <1>9, <2>3 DEF GateRank
<1>10. CASE S = {} /\ warnings = {}
  BY <1>4, <1>6, <1>7, <1>10 DEF GateDecision, GateRank
<1>11. QED
  BY <1>8, <1>9, <1>10

\* If the stricter rules stand first in two lists together, they do in each, and every rule
\* of the first list is as strict as those of the second.
LEMMA StrictFirstInBoth ==
  ASSUME NEW budgets, IsUseRules(budgets), NEW quotas, IsUseRules(quotas),
         StrictFirst(budgets \o quotas)
  PROVE  /\ StrictFirst(budgets) /\ StrictFirst(quotas)
         /\ \A j \in DOMAIN budgets, k \in DOMAIN quotas :
              Strictness[budgets[j].decision] >= Strictness[quotas[k].decision]
<1> DEFINE all   == {budgets[k] : k \in DOMAIN budgets} \cup {quotas[k] : k \in DOMAIN quotas}
           both  == budgets \o quotas
           above(rules, j, k) == Strictness[rules[j].decision] >= Strictness[rules[k].decision]
<1>1. budgets \in Seq(all) /\ quotas \in Seq(all)
  BY DEF IsUseRules
<1>2. \A j, k \in DOMAIN both : j < k => above(both, j, k)
  BY DEF StrictFirst, Strictness
<1> HIDE DEF all
<1>3. /\ DOMAIN budgets = 1..Len(budgets) /\ DOMAIN quotas = 1..Len(quotas)
      /\ Len(budgets) \in Nat /\ Len(quotas) \in Nat
  BY <1>1
<1>4. DOMAIN both = 1..(Len(budgets) + Len(quotas))
  BY <1>1
<1>5. \A j \in DOMAIN budgets : both[j] = budgets[j] /\ j \in DOMAIN both
  BY <1>1
<1>6. ASSUME NEW k \in DOMAIN quotas
      PROVE  /\ Len(budgets) + k \in DOMAIN both
             /\ both[Len(budgets) + k] = quotas[k]
             /\ \A j \in DOMAIN budgets : j < Len(budgets) + k
  BY <1>1, <1>3, <1>4
<1> HIDE DEF both
<1>7. StrictFirst(budgets)
  <2>1. \A j, k \in DOMAIN budgets : j < k => above(budgets, j, k)
    BY <1>2, <1>5
  <2>2. QED
    BY <2>1 DEF StrictFirst, Strictness
<1>8. StrictFirst(quotas)
  <2>1. ASSUME NEW j \in DOMAIN quotas, NEW k \in DOMAIN quotas, j < k
        PROVE  above(quotas, j, k)
    <3>1. Len(budgets) + j < Len(budgets) + k
      BY <1>3, <2>1
    <3>2. QED
      BY <1>2, <1>6, <3>1
  <2>2. QED
    BY <2>1 DEF StrictFirst, Strictness
<1>9. \A j \in DOMAIN budgets, k \in DOMAIN quotas :
        Strictness[budgets[j].decision] >= Strictness[quotas[k].decision]
  BY <1>2, <1>5, <1>6
<1>10. QED
  BY <1>7, <1>8, <1>9

\* The gates are no looser at a higher count.
LEMMA NotLooser ==
  ASSUME Given, NEW request, NEW trustLevel,
         NEW count \in Nat, NEW more \in Nat, count <= more
  PROVE  LET before == UseDecisions(request, count, trustLevel)
             after  == UseDecisions(request, more, trustLevel)
         IN  /\ StrictFirst(scenario.budgets \o scenario.quotas) =>
                  GateRank[after.spend] >= GateRank[before.spend]
             /\ StrictFirst(scenario.throttle) =>
                  GateRank[after.throttle] >= GateRank[before.throttle]
<1> DEFINE budgets == scenario.budgets
           quotas  == scenario.quotas
           before  == UseDecisions(request, count, trustLevel)
           after   == UseDecisions(request, more, trustLevel)
<1>1. IsUseRules(budgets) /\ IsUseRules(quotas) /\ IsUseRules(scenario.throttle)
  BY GatedCallsAssumption DEF Given
<1>2. ASSUME NEW rules, IsUseRules(rules)
      PROVE  /\ \A k \in DOMAIN rules : Strictness[rules[k].decision] \in 0..2
             /\ StrictFirst(rules) <=>
                  \A j, k \in DOMAIN rules :
                    j < k => Strictness[rules[j].decision] >= Strictness[rules[k].decision]
  BY <1>2 DEF IsUseRules, RuleDecisions, Strictness, StrictFirst
<1>3. ASSUME StrictFirst(budgets \o quotas)
      PROVE  /\ StrictFirst(budgets) /\ StrictFirst(quotas)
             /\ \A j \in DOMAIN budgets, k \in DOMAIN quotas :
                  Strictness[budgets[j].decision] >= Strictness[quotas[k].decision]
  BY <1>1, <1>3, StrictFirstInBoth
<1>4. ASSUME StrictFirst(budgets \o quotas)
      PROVE  GateRank[after.spend] >= GateRank[before.spend]
  <2> DEFINE B == Over(budgets, request, count, trustLevel)
             Q == Over(quotas, request, count, trustLevel)
             C == Over(budgets, request, more, trustLevel)
             R == Over(quotas, request, more, trustLevel)
             b(S) == Strictness[budgets[FirstIndex(S)].decision]
             q(S) == Strictness[quotas[FirstIndex(S)].decision]
  <2>1. GateRank[before.spend] = IF B # {} THEN b(B) ELSE IF Q # {} THEN q(Q) ELSE 0
    BY SpendAtCount
  <2>2. GateRank[after.spend] = IF C # {} THEN b(C) ELSE IF R # {} THEN q(R) ELSE 0
    BY SpendAtCount
  <2>3. /\ B # {} => C # {} /\ b(C) >= b(B)
        /\ Q # {} => R # {} /\ q(R) >= q(Q)
    BY <1>1, <1>3, <1>4, MoreIsExceeded
  <2>4. /\ C \subseteq DOMAIN budgets /\ C \subseteq Nat /\ R \subseteq DOMAIN quotas /\ R \subseteq Nat
        /\ Q \subseteq DOMAIN quotas /\ Q \subseteq Nat
    BY <1>1 DEF IsUseRules, Over
  <2> HIDE DEF B, Q, C, R
  <2>5. /\ C # {} => FirstIndex(C) \in DOMAIN budgets
        /\ R # {} => FirstIndex(R) \in DOMAIN quotas
        /\ Q # {} => FirstIndex(Q) \in DOMAIN quotas
    BY <2>4, FirstIndexIsLeast
  <2>6. C # {} => b(C) \in 0..2
    BY <1>1, <1>2, <2>5
  <2>7. R # {} => q(R) \in 0..2
    BY <1>1, <1>2, <2>5
  <2>8. C # {} /\ Q # {} => b(C) >= q(Q)
    BY <1>3, <1>4, <2>5
  <2> HIDE DEF b, q, before, after
  <2>9. QED
    BY <2>1, <2>2, <2>3, <2>6, <2>7, <2>8
<1>5. ASSUME StrictFirst(scenario.throttle)
      PROVE  GateRank[after.throttle] >= GateRank[before.throttle]
  <2> DEFINE rules == scenario.throttle
             S == OverThrottle(request, count, trustLevel)
             T == OverThrottle(request, more, trustLevel)
             d(k) == Strictness[rules[k].decision]
  <2>1. /\ GateRank[before.throttle] = IF S # {} THEN d(FirstIndex(S)) ELSE 0
        /\ GateRank[after.throttle] = IF T # {} THEN d(FirstIndex(T)) ELSE 0
    BY ThrottleAtCount
  <2>2. S \subseteq T /\ T \subseteq DOMAIN rules /\ T \subseteq Nat
    BY <1>1 DEF OverThrottle, IsUseRules
  <2> HIDE DEF S, T
  <2>3. /\ T # {} => FirstIndex(T) \in DOMAIN rules /\ d(FirstIndex(T)) \in 0..2
        /\ S # {} => /\ FirstIndex(S) \in DOMAIN rules /\ d(FirstIndex(S)) \in 0..2
                     /\ FirstIndex(T) <= FirstIndex(S)
    <3>1. \A k \in DOMAIN rules : d(k) \in 0..2
      BY <1>1, <1>2
    <3>2. T # {} => FirstIndex(T) \in T /\ \A k \in T : FirstIndex(T) <= k
      BY <2>2, FirstIndexIsLeast
    <3>3. S # {} => FirstIndex(S) \in S
      BY <2>2, FirstIndexIsLeast
    <3>4. QED
      BY <2>2, <3>1, <3>2, <3>3
  <2>4. S # {} => d(FirstIndex(T)) >= d(FirstIndex(S))
    <3>1. \A j, k \in DOMAIN rules : j < k => d(j) >= d(k)
      BY <1>1, <1>2, <1>5
    <3>2. S # {} => FirstIndex(T) < FirstIndex(S) \/ FirstIndex(T) = FirstIndex(S)
      <4>1. S # {} => FirstIndex(T) \in Nat /\ FirstIndex(S) \in Nat
        BY <1>1, <2>2, <2>3 DEF IsUseRules
      <4>2. QED
        BY <2>3, <4>1
    <3>3. QED
      BY <2>2, <2>3, <3>1, <3>2
  <2>5. S # {} => T # {}
    BY <2>2
  <2> HIDE DEF d, before, after
  <2>6. QED
    BY <2>1, <2>3, <2>4, <2>5
<1>6. QED
  BY <1>4, <1>5

\* Calls are counted from zero.
CountInv == Given /\ used \in Nat

\* Calling more often never loosens what quotas, budgets and throttling decide, for the
\* policies that list stricter rules first.
THEOREM MoreUseIsNotLooser == Spec => MoreUseNeverLoosens
<1>1. Init => CountInv
  BY DEF Init, CountInv, Given
<1>2. CountInv /\ [Next]_vars => CountInv'
  <2> SUFFICES ASSUME CountInv, [Next]_vars
               PROVE  scenario' = scenario /\ used' \in {used, used + 1, 0}
    BY DEF CountInv, Given
  <2>1. ASSUME NEW c \in Callers, Begin(c) \/ Decide(c)
        PROVE  scenario' = scenario /\ used' = used
    BY <2>1 DEF Begin, Decide
  <2>2. ASSUME NEW c \in Callers, Finish(c)
        PROVE  scenario' = scenario /\ used' \in {used, used + 1}
    BY <2>2 DEF Finish
  <2>3. Tick \/ WindowRolls \/ Review => scenario' = scenario /\ used' \in {used, 0}
    BY DEF Tick, WindowRolls, Review
  <2>4. QED
    BY <2>1, <2>2, <2>3 DEF Next, vars
<1>3. CountInv /\ [Next]_vars =>
        [(used' > used /\ level' = level) =>
           \A request \in Requests :
             LET rank   == [allow |-> 0, ask |-> 1, deny |-> 2]
                 before == UseDecisions(request, used, level)
                 after  == UseDecisions(request, used', level)
             IN  /\ StrictFirst(scenario.budgets \o scenario.quotas) =>
                      rank[after.spend] >= rank[before.spend]
                 /\ StrictFirst(scenario.throttle) => rank[after.throttle] >= rank[before.throttle]]_vars
  <2> SUFFICES ASSUME CountInv, [Next]_vars, used' > used, NEW request \in Requests
               PROVE  LET before == UseDecisions(request, used, level)
                          after  == UseDecisions(request, used', level)
                      IN  /\ StrictFirst(scenario.budgets \o scenario.quotas) =>
                               GateRank[after.spend] >= GateRank[before.spend]
                          /\ StrictFirst(scenario.throttle) =>
                               GateRank[after.throttle] >= GateRank[before.throttle]
    BY DEF GateRank
  <2>1. Given /\ used \in Nat /\ used' \in Nat /\ used <= used'
    <3>1. CountInv'
      BY <1>2
    <3>2. QED
      BY <3>1 DEF CountInv
  <2>2. QED
    BY ONLY <2>1, NotLooser
<1>4. QED
  BY <1>1, <1>2, <1>3, PTL DEF Spec, MoreUseNeverLoosens

-----------------------------------------------------------------------------
(* Overrides.                                                               *)

\* What is left without the records of an id are stored records with other ids.
LEMMA WithoutKeeps ==
  ASSUME NEW records, IsOverrides(records), NEW id
  PROVE  /\ IsOverrides(Without(records, id))
         /\ \A k \in DOMAIN Without(records, id) :
              /\ Without(records, id)[k].id # id
              /\ \E j \in DOMAIN records : Without(records, id)[k] = records[j]
<1> DEFINE n    == Len(records)
           R    == {records[k] : k \in DOMAIN records}
           S    == Seq({r \in R : r.id # id})
           next(x, k) == IF records[k].id # id THEN Append(x, records[k]) ELSE x
           step == [x \in S \X (1..n) |-> next(x[1], x[2])]
           Pass(f) == f = [k \in 0..n |-> IF k = 0 THEN <<>>
                                          ELSE IF records[k].id # id THEN Append(f[k - 1], records[k])
                                               ELSE f[k - 1]]
           kept == CHOOSE f : Pass(f)
<1>1. n \in Nat /\ DOMAIN records = 1..n /\ <<>> \in S
  BY DEF IsOverrides
<1>2. ASSUME NEW x \in S, NEW k \in 1..n
      PROVE  next(x, k) \in S
  BY <1>1, <1>2
<1>3. \E f : Pass(f)
  <2>1. Policies!IsStep(step, n, S)
    BY <1>2 DEF Policies!IsStep
  <2>2. PICK f : Policies!IsFold(f, n, S, <<>>, step)
    <3> HIDE DEF n, S, step
    <3>1. QED
      BY ONLY <1>1, <2>1, Policies!FoldExists
  <2>3. /\ f \in [0..n -> S] /\ f[0] = <<>>
        /\ \A k \in 1..n : f[k] = step[<<f[k - 1], k>>]
    BY <2>2 DEF Policies!IsFold
  <2>4. ASSUME NEW k \in 1..n
        PROVE  f[k] = next(f[k - 1], k)
    <3>1. k - 1 \in 0..n
      BY <1>1
    <3> HIDE DEF n, S, next
    <3>2. f[k - 1] \in S
      BY <2>3, <3>1
    <3>3. QED
      BY <2>3, <3>2
  <2>5. Pass(f)
    <3> HIDE DEF step, S
    <3>1. \A k \in 0..n : k # 0 => k \in 1..n
      BY <1>1
    <3>2. QED
      BY <2>3, <2>4, <3>1
  <2>6. QED
    BY <2>5
<1>4. Pass(kept)
  BY <1>3
<1>5. Without(records, id) = kept[n]
  BY DEF Without
<1> HIDE DEF kept
<1>6. /\ kept[0] = <<>>
      /\ \A k \in 1..n : kept[k] = next(kept[k - 1], k)
  <2>1. 0 \in 0..n /\ \A k \in 1..n : k \in 0..n /\ k # 0
    BY <1>1
  <2> HIDE DEF n
  <2>2. kept[0] = <<>>
    BY <1>4, <2>1
  <2>3. ASSUME NEW k \in 1..n
        PROVE  kept[k] = next(kept[k - 1], k)
    BY <1>4, <2>1
  <2>4. QED
    BY <2>2, <2>3
<1>7. kept[n] \in S
  <2> DEFINE Good == {k \in 0..n : kept[k] \in S}
  <2>1. 0 \in Good
    <3>1. 0 \in 0..n
      BY <1>1
    <3> HIDE DEF S, n
    <3>2. QED
      BY <1>1, <1>6, <3>1
  <2>2. ASSUME NEW k \in 1..n, k - 1 \in Good
        PROVE  k \in Good
    <3>1. kept[k - 1] \in S
      BY <2>2
    <3>2. kept[k] \in S
      BY ONLY <1>2, <1>6, <3>1
    <3>3. QED
      BY <3>2
  <2> HIDE DEF Good
  <2>3. \A k \in 0..n : k \in Good
    BY ONLY <1>1, <2>1, <2>2, Policies!InductionUpTo
  <2> USE DEF Good
  <2>4. QED
    BY <1>1, <2>3
<1> DEFINE left == kept[n]
<1> HIDE DEF left
<1>8. /\ left \in S /\ DOMAIN left = 1..Len(left) /\ Len(left) \in Nat
      /\ \A k \in DOMAIN left : left[k] \in R /\ left[k].id # id
  BY <1>7 DEF left
<1>9. left \in Seq({left[k] : k \in DOMAIN left})
  BY <1>8
<1>10. QED
  BY <1>5, <1>8, <1>9 DEF IsOverrides, left

\* An override that was applied comes from a record that is valid, matches and is stopped
\* by no safety gate.
LEMMA ResultIsOfARecord ==
  ASSUME NEW base, NEW records, IsOverrides(records), NEW context, NEW time,
         NEW result, result = ApplyPolicyOverrides(base, records, context, time)
  PROVE  \/ result.override = NoOverride
         \/ \E k \in DOMAIN records :
              /\ Applicable(records[k], context, time)
              /\ result.override = [id |-> records[k].id, type |-> records[k].type]
<1> DEFINE applicable == {k \in DOMAIN records : Applicable(records[k], context, time)}
<1>1. applicable \subseteq Nat
  BY DEF IsOverrides
<1>2. CASE applicable = {}
  BY <1>2 DEF ApplyPolicyOverrides
<1>3. CASE applicable # {}
  <2> DEFINE first == CHOOSE k \in applicable : \A j \in applicable : k <= j
  <2>1. first \in applicable
    <3> HIDE DEF applicable
    <3>1. \E m \in applicable : \A k \in applicable : m <= k
      BY <1>1, <1>3, Policies!LeastNatural
    <3>2. QED
      BY <3>1
  <2>2. result.override = [id |-> records[first].id, type |-> records[first].type]
    BY <1>3 DEF ApplyPolicyOverrides
  <2> HIDE DEF first
  <2>3. QED
    BY <2>1, <2>2
<1>4. QED
  BY <1>2, <1>3

-----------------------------------------------------------------------------
(* What callers hold.                                                       *)

ReadFields == {"step", "request", "overrides", "used", "level", "lifecycle"}

\* The record a result names is one of those given.
NamesOneOf(result, records) ==
  \/ result.override = NoOverride
  \/ \E k \in DOMAIN records :
       result.override = [id |-> records[k].id, type |-> records[k].type]

\* What OverridesRespectSafety says of one caller.
OverrideIsSafe(c) ==
  LET seen   == caller[c]
      record == seen.result.override
      denied == \E k \in DOMAIN scenario.egress.rules :
                  /\ RuleMatches(seen.request, scenario.egress.rules[k])
                  /\ scenario.egress.rules[k].decision = "deny"
  IN  (record # NoOverride) =>
        /\ record.type # "deny_override" =>
             /\ ~ denied /\ scenario.egress.default # "deny"
             /\ seen.request.outboundAllowed
             /\ seen.lifecycle # "revoked"
             /\ seen.request.risk # "financial"
        /\ \E k \in DOMAIN seen.overrides :
             seen.overrides[k].id = record.id /\ seen.overrides[k].expiresAt > seen.at

\* A busy caller has a request and the stored records it read; once it has decided, what
\* it holds is of one of these records and respects the safety gates.
CallerInv(c) ==
  (caller[c] # Idle) =>
    /\ caller[c].step \in {"read", "decided"}
    /\ ReadFields \subseteq DOMAIN caller[c]
    /\ caller[c].request \in Requests
    /\ IsOverrides(caller[c].overrides)
    /\ caller[c].step = "decided" => /\ NamesOneOf(caller[c].result, caller[c].overrides)
                                     /\ OverrideIsSafe(c)

HoldInv ==
  /\ Given
  /\ now \in Nat
  /\ IsOverrides(overrides)
  /\ caller = [c \in Callers |-> caller[c]]
  /\ \A c \in Callers : CallerInv(c)

\* Callers that take turns: at most one is busy, what it read is still what is stored,
\* and an override that allows once and was used is no longer there.
TurnInv ==
  /\ DOMAIN uses = DOMAIN scenario.overrides
  /\ ~ overlapped =>
       /\ \A c, d \in Callers : caller[c] # Idle /\ caller[d] # Idle => c = d
       /\ \A c \in Callers : caller[c] # Idle => caller[c].overrides = overrides
       /\ \A k \in DOMAIN uses : scenario.overrides[k].type = "allow_once" =>
            /\ uses[k] \in {0, 1}
            /\ uses[k] = 1 => \A j \in DOMAIN overrides : overrides[j].id # scenario.overrides[k].id

\* A call that a matching rule or the default denies has the egress decision deny.
LEMMA DenialDecides ==
  ASSUME Given, NEW request,
         \/ scenario.egress.default = "deny"
         \/ \E k \in DOMAIN scenario.egress.rules :
              /\ RuleMatches(request, scenario.egress.rules[k])
              /\ scenario.egress.rules[k].decision = "deny"
  PROVE  EgressDecision(request) = "deny"
<1> DEFINE policy == scenario.egress
           found  == EvaluateDataEgressPolicy(request, policy)
<1>1. IsEgressPolicy(policy)
  BY GatedCallsAssumption DEF Given
<1>2. Strictest(request, policy, Len(policy.rules), found)
  BY <1>1, EgressResult
<1>3. DOMAIN policy.rules = 1..Len(policy.rules)
  BY <1>1 DEF IsEgressPolicy
<1>4. DecisionRank["deny"] = 3
  BY DEF DecisionRank
<1> HIDE DEF found
<1>5. DecisionRank[found.decision] >= 3 /\ found.decision \in EgressDecisions
  BY <1>2, <1>3, <1>4, RanksOfDecisions DEF Strictest
<1>6. found.decision = "deny"
  BY <1>5 DEF DecisionRank, EgressDecisions
<1>7. QED
  BY <1>6 DEF EgressDecision, found

\* What consumePolicyOverride returns on what a caller read names one of the records it
\* read, one that has not expired, and respects every safety gate.
LEMMA ResultIsSafe ==
  ASSUME Given, now \in Nat, NEW request \in Requests, NEW records, IsOverrides(records),
         NEW status, NEW result,
         result = ApplyPolicyOverrides(request.base, records, OverrideContext(request, status), now)
  PROVE  /\ NamesOneOf(result, records)
         /\ (result.override # NoOverride) =>
              /\ result.override.type # "deny_override" =>
                   /\ EgressDecision(request) # "deny"
                   /\ request.outboundAllowed
                   /\ status # "revoked"
                   /\ request.risk # "financial"
              /\ \E k \in DOMAIN records : /\ records[k].id = result.override.id
                                           /\ records[k].expiresAt > now
<1> DEFINE context == OverrideContext(request, status)
<1>1. /\ context.dataEgressDecision = EgressDecision(request)
      /\ context.capabilityStatus = status
      /\ context.outboundAllowed = request.outboundAllowed
      /\ context.risk = request.risk
  <2>1. "risk" \in DOMAIN request /\ "outboundAllowed" \in DOMAIN request
    BY GatedCallsAssumption
  <2>2. QED
    BY <2>1 DEF OverrideContext, With
<1> HIDE DEF context
<1>2. \/ result.override = NoOverride
      \/ \E k \in DOMAIN records :
           /\ Applicable(records[k], context, now)
           /\ result.override = [id |-> records[k].id, type |-> records[k].type]
  BY ResultIsOfARecord DEF context
<1>3. CASE result.override = NoOverride
  BY <1>3 DEF NamesOneOf
<1>4. CASE result.override # NoOverride
  <2>1. PICK k \in DOMAIN records :
          /\ Applicable(records[k], context, now)
          /\ result.override = [id |-> records[k].id, type |-> records[k].type]
    BY <1>2, <1>4
  <2>2. NamesOneOf(result, records)
    BY <2>1 DEF NamesOneOf
  <2>3. result.override.id = records[k].id /\ result.override.type = records[k].type
    BY <2>1
  <2>4. records[k].expiresAt > now
    <3>1. records[k].expiresAt \in Nat
      BY DEF IsOverrides
    <3>2. ~ (records[k].expiresAt <= now)
      <4>1. Findings(records[k], now) = {}
        BY <2>1 DEF Applicable
      <4>2. records[k].expiresAt # Invalid
        BY <4>1 DEF Findings
      <4>3. QED
        BY <4>1, <4>2 DEF Findings
    <3>3. QED
      BY <3>1, <3>2
  <2>5. result.override.type # "deny_override" =>
           /\ EgressDecision(request) # "deny" /\ request.outboundAllowed
           /\ status # "revoked" /\ request.risk # "financial"
    BY <1>1, <2>1, <2>3 DEF Applicable, SafetyBlocks
  <2>6. QED
    BY <2>2, <2>3, <2>4, <2>5
<1>5. QED
  BY <1>3, <1>4

\* A caller that has decided holds what it read and what came of it.
LEMMA DecidedRecord ==
  ASSUME NEW seen, ReadFields \subseteq DOMAIN seen, NEW result, NEW time, NEW goes,
         NEW decided, decided = With(seen, [step |-> "decided", result |-> result, at |-> time,
                                            goes |-> goes])
  PROVE  /\ decided.step = "decided" /\ decided.result = result /\ decided.at = time
         /\ decided.request = seen.request /\ decided.overrides = seen.overrides
         /\ decided.lifecycle = seen.lifecycle
         /\ ReadFields \subseteq DOMAIN decided
BY DEF With, ReadFields

\* A record with a step other than "idle" is not Idle.
LEMMA NotIdle ==
  ASSUME NEW held, held.step # "idle"
  PROVE  held # Idle
BY DEF Idle

\* The callers start idle and no override was used.
LEMMA InitHolds == Init => HoldInv /\ TurnInv
<1> SUFFICES ASSUME Init PROVE HoldInv /\ TurnInv
  OBVIOUS
<1>1. Given /\ IsOverrides(overrides)
  BY GatedCallsAssumption DEF Init, Given
<1>2. \A c \in Callers : caller[c] = Idle
  BY DEF Init
<1>3. HoldInv
  BY <1>1, <1>2 DEF Init, HoldInv, CallerInv
<1>4. TurnInv
  BY <1>2 DEF Init, TurnInv
<1>5. QED
  BY <1>3, <1>4

\* A step that leaves the callers alone, and the scenario and the stored overrides.
LEMMA OthersKeepHold ==
  ASSUME HoldInv, TurnInv, UNCHANGED <<scenario, overrides, caller, uses, overlapped>>, now' \in Nat
  PROVE  HoldInv' /\ TurnInv'
<1>1. ASSUME NEW c \in Callers
      PROVE  CallerInv(c)'
  BY DEF HoldInv, CallerInv, OverrideIsSafe
<1>2. HoldInv'
  BY <1>1 DEF HoldInv, Given
<1>3. TurnInv'
  BY DEF TurnInv
<1>4. QED
  BY <1>2, <1>3

\* A caller whose record a step leaves alone.
LEMMA CallerStays ==
  ASSUME NEW c, CallerInv(c), caller'[c] = caller[c], scenario' = scenario
  PROVE  CallerInv(c)'
BY DEF CallerInv, OverrideIsSafe

\* A caller that begins reads what is stored; if it is not alone, callers overlap.
LEMMA BeginKeepsHold ==
  ASSUME HoldInv, TurnInv, NEW c \in Callers, Begin(c)
  PROVE  HoldInv' /\ TurnInv'
<1>1. PICK request \in Requests :
         caller' = [caller EXCEPT ![c] =
           [step |-> "read", request |-> request, overrides |-> overrides, used |-> used,
            level |-> level, lifecycle |-> lifecycle]]
  BY DEF Begin
<1> DEFINE held == [step |-> "read", request |-> request, overrides |-> overrides, used |-> used,
                    level |-> level, lifecycle |-> lifecycle]
<1>2. caller = [d \in Callers |-> caller[d]]
  BY DEF HoldInv
<1>3. caller'[c] = held /\ \A d \in Callers : d # c => caller'[d] = caller[d]
  BY <1>1, <1>2
<1>4. caller' = [d \in Callers |-> caller'[d]]
  BY <1>1, <1>2
<1>5. UNCHANGED <<scenario, overrides, now, uses>>
  BY DEF Begin
<1>6. held.step = "read" /\ held.request = request /\ held.overrides = overrides
      /\ ReadFields = DOMAIN held
  BY DEF ReadFields
<1> HIDE DEF held
<1>7. CallerInv(c)'
  BY <1>3, <1>5, <1>6 DEF CallerInv, HoldInv
<1>8. ASSUME NEW d \in Callers
      PROVE  CallerInv(d)'
  BY <1>3, <1>5, <1>7, CallerStays DEF HoldInv
<1>9. HoldInv'
  BY <1>4, <1>5, <1>8 DEF HoldInv, Given
<1>10. TurnInv'
  <2>1. ~ overlapped' => ~ overlapped /\ \A d \in Callers : caller[d] = Idle
    BY DEF Begin
  <2>2. CASE overlapped'
    BY <1>5, <2>2 DEF TurnInv
  <2>3. CASE ~ overlapped'
    <3>1. \A d \in Callers : caller'[d] # Idle => d = c
      BY <1>3, <2>1, <2>3
    <3>2. caller'[c].overrides = overrides'
      BY <1>3, <1>5, <1>6
    <3>3. QED
      BY <1>5, <2>1, <2>3, <3>1, <3>2 DEF TurnInv
  <2>4. QED
    BY <2>2, <2>3
<1>11. QED
  BY <1>9, <1>10

\* A caller decides on what it read.
LEMMA DecideKeepsHold ==
  ASSUME HoldInv, TurnInv, NEW c \in Callers, Decide(c)
  PROVE  HoldInv' /\ TurnInv'
<1> DEFINE seen   == caller[c]
           result == ApplyPolicyOverrides(seen.request.base, seen.overrides,
                                          OverrideContext(seen.request, seen.lifecycle), now)
<1>1. PICK goes :
         caller' = [caller EXCEPT ![c] =
           With(seen, [step |-> "decided", result |-> result, at |-> now, goes |-> goes])]
  BY DEF Decide
<1> DEFINE held == With(seen, [step |-> "decided", result |-> result, at |-> now, goes |-> goes])
<1>2. caller = [d \in Callers |-> caller[d]]
  BY DEF HoldInv
<1>3. caller'[c] = held /\ \A d \in Callers : d # c => caller'[d] = caller[d]
  BY <1>1, <1>2
<1>4. caller' = [d \in Callers |-> caller'[d]]
  BY <1>1, <1>2
<1>5. UNCHANGED <<scenario, overrides, now, uses, overlapped>>
  BY DEF Decide
<1>6. seen # Idle
  BY NotIdle DEF Decide
<1>7. /\ ReadFields \subseteq DOMAIN seen /\ seen.request \in Requests /\ IsOverrides(seen.overrides)
      /\ Given /\ now \in Nat
  BY <1>6 DEF HoldInv, CallerInv
<1>8. /\ held.step = "decided" /\ held.result = result /\ held.at = now
      /\ held.request = seen.request /\ held.overrides = seen.overrides
      /\ held.lifecycle = seen.lifecycle
      /\ ReadFields \subseteq DOMAIN held
  <2> HIDE DEF result, seen
  <2>1. QED
    BY <1>7, DecidedRecord
<1> DEFINE request == seen.request
           records == seen.overrides
           status  == seen.lifecycle
<1>9. /\ NamesOneOf(result, records)
      /\ (result.override # NoOverride) =>
           /\ result.override.type # "deny_override" =>
                /\ EgressDecision(request) # "deny"
                /\ request.outboundAllowed
                /\ status # "revoked"
                /\ request.risk # "financial"
           /\ \E k \in DOMAIN records : /\ records[k].id = result.override.id
                                        /\ records[k].expiresAt > now
  BY <1>7, ResultIsSafe
<1> HIDE DEF held, result, seen
<1>10. CallerInv(c)'
  <2>1. OverrideIsSafe(c)'
    <3> SUFFICES ASSUME result.override # NoOverride
                 PROVE  /\ result.override.type # "deny_override" =>
                             /\ ~ \E k \in DOMAIN scenario.egress.rules :
                                     /\ RuleMatches(request, scenario.egress.rules[k])
                                     /\ scenario.egress.rules[k].decision = "deny"
                             /\ scenario.egress.default # "deny"
                             /\ request.outboundAllowed
                             /\ status # "revoked"
                             /\ request.risk # "financial"
                        /\ \E k \in DOMAIN records : /\ records[k].id = result.override.id
                                                     /\ records[k].expiresAt > now
      BY <1>3, <1>5, <1>8 DEF OverrideIsSafe
    <3>1. QED
      BY <1>7, <1>9, DenialDecides
  <2>2. NamesOneOf(result, records)
    BY <1>9
  <2>3. QED
    BY <1>3, <1>7, <1>8, <2>1, <2>2 DEF CallerInv
<1>11. ASSUME NEW d \in Callers
       PROVE  CallerInv(d)'
  BY <1>3, <1>5, <1>10, CallerStays DEF HoldInv
<1>12. HoldInv'
  BY <1>4, <1>5, <1>11 DEF HoldInv, Given
<1>13. TurnInv'
  <2>1. \A d \in Callers : caller'[d] # Idle => caller[d] # Idle
    BY <1>3, <1>6 DEF seen
  <2>2. \A d \in Callers : caller'[d] # Idle => caller'[d].overrides = caller[d].overrides
    BY <1>3, <1>8 DEF seen
  <2>3. QED
    BY <1>5, <2>1, <2>2 DEF TurnInv
<1>14. QED
  BY <1>12, <1>13

\* What is left after a result are records that were given, and not those it consumed.
LEMMA RemainingKeeps ==
  ASSUME NEW records, IsOverrides(records), NEW result
  PROVE  /\ IsOverrides(RemainingOverrides(result, records))
         /\ \A k \in DOMAIN RemainingOverrides(result, records) :
              \E j \in DOMAIN records : RemainingOverrides(result, records)[k] = records[j]
         /\ result.override.type = "allow_once" =>
              \A k \in DOMAIN RemainingOverrides(result, records) :
                RemainingOverrides(result, records)[k].id # result.override.id
<1>1. CASE result.override.type = "allow_once"
  BY <1>1, WithoutKeeps DEF RemainingOverrides
<1>2. CASE result.override.type # "allow_once"
  BY <1>2 DEF RemainingOverrides
<1>3. QED
  BY <1>1, <1>2

\* A caller stores what remains of what it read; taking turns, that is what is stored
\* without the record it consumed.
LEMMA FinishKeepsHold ==
  ASSUME HoldInv, TurnInv, NEW c \in Callers, Finish(c)
  PROVE  HoldInv' /\ TurnInv'
<1> DEFINE held   == caller[c]
           result == held.result
           left   == RemainingOverrides(result, held.overrides)
           once   == result.override.type = "allow_once"
<1>1. caller = [d \in Callers |-> caller[d]]
  BY DEF HoldInv
<1>2. /\ caller' = [d \in Callers |-> caller'[d]]
      /\ caller'[c] = Idle /\ \A d \in Callers : d # c => caller'[d] = caller[d]
  BY <1>1 DEF Finish
<1>3. /\ held.step = "decided"
      /\ overrides' = IF once THEN left ELSE overrides
      /\ uses' = [k \in DOMAIN uses |->
                    IF scenario.overrides[k].id = result.override.id
                         /\ scenario.overrides[k].type = result.override.type
                    THEN uses[k] + 1 ELSE uses[k]]
      /\ UNCHANGED <<scenario, now, overlapped>>
  BY DEF Finish
<1>4. held # Idle
  BY <1>3, NotIdle
<1>5. IsOverrides(held.overrides) /\ NamesOneOf(result, held.overrides)
  BY <1>3, <1>4 DEF HoldInv, CallerInv
<1>6. /\ IsOverrides(left)
      /\ \A k \in DOMAIN left : \E j \in DOMAIN held.overrides : left[k] = held.overrides[j]
      /\ once => \A k \in DOMAIN left : left[k].id # result.override.id
  <2> HIDE DEF held
  <2>1. QED
    BY <1>5, RemainingKeeps
<1> HIDE DEF left
<1>7. CallerInv(c)'
  BY <1>2 DEF CallerInv
<1>8. ASSUME NEW d \in Callers
      PROVE  CallerInv(d)'
  BY <1>2, <1>3, <1>7, CallerStays DEF HoldInv
<1>9. IsOverrides(overrides')
  BY <1>3, <1>6 DEF HoldInv
<1>10. HoldInv'
  BY <1>2, <1>3, <1>8, <1>9 DEF HoldInv, Given
<1>11. TurnInv'
  <2>1. DOMAIN uses' = DOMAIN scenario'.overrides /\ DOMAIN uses' = DOMAIN uses
    BY <1>3 DEF TurnInv
  <2>2. CASE overlapped
    BY <1>3, <2>1, <2>2 DEF TurnInv
  <2>3. CASE ~ overlapped
    <3>1. \A d \in Callers : caller'[d] = Idle
      BY <1>2, <1>4, <2>3 DEF TurnInv
    <3>2. held.overrides = overrides
      BY <1>4, <2>3 DEF TurnInv
    <3>3. ASSUME NEW k \in DOMAIN uses, scenario.overrides[k].type = "allow_once"
          PROVE  /\ uses'[k] \in {0, 1}
                 /\ uses'[k] = 1 => \A j \in DOMAIN overrides' : overrides'[j].id # scenario.overrides[k].id
      <4> DEFINE record == scenario.overrides[k]
      <4>1. /\ uses[k] \in {0, 1}
            /\ uses[k] = 1 => \A j \in DOMAIN overrides : overrides[j].id # record.id
        BY <2>3, <3>3 DEF TurnInv
      <4>2. CASE record.id = result.override.id /\ record.type = result.override.type
        <5>1. once
          BY <3>3, <4>2
        <5>2. uses[k] = 0
          <6>1. result.override # NoOverride
            BY <5>1 DEF NoOverride
          <6>2. \E j \in DOMAIN overrides : overrides[j].id = result.override.id
            <7> HIDE DEF held, result
            <7>1. PICK j \in DOMAIN held.overrides :
                    result.override = [id |-> held.overrides[j].id, type |-> held.overrides[j].type]
              BY <1>5, <6>1 DEF NamesOneOf
            <7>2. QED
              BY <3>2, <7>1
          <6>3. QED
            BY <4>1, <4>2, <6>2
        <5>3. uses'[k] = 1
          BY <1>3, <4>2, <5>2
        <5>4. \A j \in DOMAIN overrides' : overrides'[j].id # record.id
          BY <1>3, <1>6, <4>2, <5>1
        <5>5. QED
          BY <5>3, <5>4
      <4>3. CASE ~ (record.id = result.override.id /\ record.type = result.override.type)
        <5>1. uses'[k] = uses[k]
          BY <1>3, <4>3
        <5>2. \A j \in DOMAIN overrides' : \E i \in DOMAIN overrides : overrides'[j] = overrides[i]
          BY <1>3, <1>6, <3>2
        <5>3. QED
          BY <4>1, <5>1, <5>2
      <4>4. QED
        BY <4>2, <4>3
    <3>4. QED
      BY <1>3, <2>1, <2>3, <3>1, <3>3 DEF TurnInv
  <2>4. QED
    BY <2>2, <2>3
<1>12. QED
  BY <1>10, <1>11

\* Every step keeps both: reviewers, the clock and the window touch neither.
LEMMA StepKeepsHold == HoldInv /\ TurnInv /\ [Next]_vars => (HoldInv /\ TurnInv)'
<1> SUFFICES ASSUME HoldInv, TurnInv, [Next]_vars
             PROVE  HoldInv' /\ TurnInv'
  OBVIOUS
<1>1. ASSUME NEW c \in Callers, Begin(c)
      PROVE  HoldInv' /\ TurnInv'
  BY <1>1, BeginKeepsHold
<1>2. ASSUME NEW c \in Callers, Decide(c)
      PROVE  HoldInv' /\ TurnInv'
  BY <1>2, DecideKeepsHold
<1>3. ASSUME NEW c \in Callers, Finish(c)
      PROVE  HoldInv' /\ TurnInv'
  BY <1>3, FinishKeepsHold
<1>4. CASE Tick \/ WindowRolls \/ Review \/ UNCHANGED vars
  <2>1. UNCHANGED <<scenario, overrides, caller, uses, overlapped>> /\ now' \in {now, now + 1}
    BY <1>4 DEF Tick, WindowRolls, Review, vars
  <2>2. now' \in Nat
    BY <2>1 DEF HoldInv
  <2>3. QED
    BY <2>1, <2>2, OthersKeepHold
<1>5. QED
  BY <1>1, <1>2, <1>3, <1>4 DEF Next

\* An override that allows once is used once as long as callers take turns.
THEOREM OnceIsOnce == Spec => []AllowOnceIsOnce
<1>1. HoldInv /\ TurnInv => AllowOnceIsOnce
  BY DEF TurnInv, AllowOnceIsOnce
<1>2. QED
  BY <1>1, InitHolds, StepKeepsHold, PTL DEF Spec

\* No override relaxes the decision about a call that the egress policy denies, that was
\* blocked for its target, whose Capability was revoked when it was read, or that is
\* financial; and the record it comes from had not expired.
THEOREM SafetyGatesHold == Spec => []OverridesRespectSafety
<1>1. HoldInv => OverridesRespectSafety
  <2> SUFFICES ASSUME HoldInv, NEW c \in Callers, caller[c].step = "decided"
               PROVE  OverrideIsSafe(c)
    BY DEF OverridesRespectSafety, OverrideIsSafe
  <2>1. caller[c] # Idle
    BY NotIdle
  <2>2. QED
    BY <2>1 DEF HoldInv, CallerInv
<1>2. QED
  BY <1>1, InitHolds, StepKeepsHold, PTL DEF Spec

=============================================================================
