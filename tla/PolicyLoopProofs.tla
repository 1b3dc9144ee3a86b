-------------------------- MODULE PolicyLoopProofs --------------------------
(***************************************************************************)
(* For every set of policy sets and every set of inputs the two loops of   *)
(* evaluatePolicy return the declared decision, and what the policy tools  *)
(* pass does not loosen it (PolicyLoop, PolicyTooling).                    *)
(***************************************************************************)
EXTENDS PolicyTooling, PolicyEvaluationProofs, SequenceTheorems, TLAPS

-----------------------------------------------------------------------------
N == Len(input.permissions)

\* The pushed decisions are those of the first permissions, and the scan has
\* passed only rules that do not match the permission it is looking at.
MapInv ==
  /\ phase # "done" =>
       /\ Len(decisions) <= N
       /\ \A k \in 1..Len(decisions) :
            decisions[k] = EvaluatePermission(policySet, input, input.permissions[k])
  /\ phase = "map" /\ Len(decisions) < N =>
       /\ scan <= Len(policySet.rules) + 1
       /\ \A i \in 1..(scan - 1) :
            ~ PolicyRuleMatches(policySet.rules[i], Facts(input, Permission))

\* The reduce holds the first strictest of the decisions it has looked at.
ReduceInv ==
  phase = "reduce" =>
    /\ Len(decisions) = N
    /\ N > 0
    /\ next \in 2..(N + 1)
    /\ \E k \in 1..(next - 1) : /\ IsFirstStrictest(decisions, next - 1, k)
                                /\ current = decisions[k]

IInv == TypeOK /\ MapInv /\ ReduceInv /\ LoopComputesEvaluatePolicy

\* The facts about the constants and the types that every step uses.
LEMMA Typing ==
  ASSUME TypeOK
  PROVE  /\ IsPolicySet(policySet)
         /\ N \in Nat
         /\ Len(policySet.rules) \in Nat
         /\ DOMAIN policySet.rules = 1..Len(policySet.rules)
         /\ \A i \in DOMAIN policySet.rules : RuleDecision(policySet, i) \in DecisionRecord
         /\ DefaultDecision(policySet) \in DecisionRecord
         /\ decisions \in Seq(DecisionRecord)
         /\ Len(decisions) \in Nat
         /\ \A k \in 1..Len(decisions) : decisions[k] \in DecisionRecord
<1>1. IsPolicySet(policySet)
  BY PolicyLoopAssumption DEF TypeOK
<1>2. N \in Nat
  BY PolicyLoopAssumption DEF TypeOK, N
<1>3. \A i \in DOMAIN policySet.rules : RuleDecision(policySet, i) \in DecisionRecord
  BY <1>1 DEF IsPolicySet, RuleDecision, DecisionRecord
<1>4. DefaultDecision(policySet) \in DecisionRecord
  BY <1>1 DEF IsPolicySet, DefaultDecision, DecisionRecord
<1>5. QED
  BY <1>1, <1>2, <1>3, <1>4 DEF IsPolicySet, TypeOK

\* The invariant holds before the first rule is looked at.
LEMMA InitEstablishes == Init => IInv
<1> SUFFICES ASSUME Init PROVE IInv
  OBVIOUS
<1>1. TypeOK
  BY PolicyLoopAssumption DEF Init, TypeOK
<1>2. MapInv
  <2>1. Len(decisions) = 0 /\ scan = 1
    BY DEF Init
  <2>2. N \in Nat /\ Len(policySet.rules) \in Nat
    BY <1>1, Typing
  <2>3. QED
    BY <2>1, <2>2 DEF MapInv
<1>3. ReduceInv /\ LoopComputesEvaluatePolicy
  BY DEF Init, ReduceInv, LoopComputesEvaluatePolicy
<1>4. QED
  BY <1>1, <1>2, <1>3 DEF IInv

\* Pushing the decision of the permission the scan stands at keeps MapInv.
LEMMA PushKeepsMapInv ==
  ASSUME TypeOK, MapInv, phase = "map", Len(decisions) < N,
         NEW d \in DecisionRecord,
         d = EvaluatePermission(policySet, input, Permission),
         decisions' = Append(decisions, d),
         scan' = 1,
         UNCHANGED <<policySet, input, phase, current, next, verdict>>
  PROVE  TypeOK' /\ MapInv'
<1> DEFINE L == Len(decisions)
<1>1. /\ L \in Nat
      /\ N \in Nat
      /\ decisions' \in Seq(DecisionRecord)
      /\ Len(decisions') = L + 1
      /\ \A k \in 1..L : decisions'[k] = decisions[k]
      /\ decisions'[L + 1] = d
  BY Typing
<1>2. TypeOK'
  BY <1>1 DEF TypeOK, N
<1>3. \A k \in 1..(L + 1) :
         decisions'[k] = EvaluatePermission(policySet, input, input.permissions[k])
  <2>1. \A k \in 1..(L + 1) : k \in 1..L \/ k = L + 1
    BY <1>1
  <2>2. QED
    BY <1>1, <2>1 DEF MapInv, Permission
<1>4. MapInv'
  <2>1. N' = N /\ policySet' = policySet /\ input' = input
    BY DEF N
  <2>2. 1..(scan' - 1) = {}
    OBVIOUS
  <2>3. scan' <= Len(policySet.rules) + 1
    BY Typing
  <2>4. QED
    BY <1>1, <1>3, <2>1, <2>2, <2>3 DEF MapInv
<1>5. QED
  BY <1>2, <1>4

\* Every step of the evaluation preserves the inductive invariant.
LEMMA StepPreserves == IInv /\ [Next]_vars => IInv'
<1> SUFFICES ASSUME IInv, [Next]_vars PROVE IInv'
  OBVIOUS
<1> USE DEF IInv
<1>1. CASE ScanNextRule
  <2>1. TypeOK'
    BY <1>1, Typing DEF ScanNextRule, TypeOK
  <2>2. MapInv'
    <3> DEFINE F == Facts(input, Permission)
    <3>1. /\ phase = "map"
          /\ Len(decisions) < N
          /\ scan \in 1..Len(policySet.rules)
          /\ scan' = scan + 1
          /\ ~ PolicyRuleMatches(policySet.rules[scan], F)
          /\ policySet' = policySet
          /\ Permission' = Permission
          /\ input' = input
          /\ decisions' = decisions
          /\ phase' = phase
          /\ N' = N
      BY <1>1, Typing DEF ScanNextRule, N, Permission
    <3>2. \A i \in 1..(scan' - 1) : i \in 1..(scan - 1) \/ i = scan
      BY <3>1
    <3>3. \A i \in 1..(scan' - 1) : ~ PolicyRuleMatches(policySet.rules[i], F)
      BY <3>1, <3>2 DEF MapInv
    <3>4. scan' <= Len(policySet.rules) + 1
      BY <3>1, Typing
    <3>5. QED
      BY <3>1, <3>3, <3>4 DEF MapInv
  <2>3. ReduceInv' /\ LoopComputesEvaluatePolicy'
    BY <1>1 DEF ScanNextRule, ReduceInv, LoopComputesEvaluatePolicy
  <2>4. QED
    BY <2>1, <2>2, <2>3
<1>2. CASE PushRuleDecision
  <2> DEFINE F == Facts(input, Permission)
  <2>1. IsFirstMatch(policySet, F, scan)
    <3>1. /\ phase = "map"
          /\ Len(decisions) < N
          /\ scan \in DOMAIN policySet.rules
          /\ PolicyRuleMatches(policySet.rules[scan], F)
      BY <1>2 DEF PushRuleDecision, N
    <3>2. \A j \in DOMAIN policySet.rules :
             PolicyRuleMatches(policySet.rules[j], F) => scan <= j
      <4> SUFFICES ASSUME NEW j \in DOMAIN policySet.rules, ~ (scan <= j)
                   PROVE  ~ PolicyRuleMatches(policySet.rules[j], F)
        OBVIOUS
      <4>1. j \in 1..(scan - 1)
        BY <3>1, Typing
      <4>2. QED
        BY <3>1, <4>1 DEF MapInv
    <3>3. QED
      BY <3>1, <3>2 DEF IsFirstMatch, MatchingRules
  <2>2. EvaluatePermission(policySet, input, Permission) = RuleDecision(policySet, scan)
    BY <2>1, Typing, FirstMatchIsChosen
  <2>3. TypeOK' /\ MapInv'
    BY <1>2, <2>2, PushKeepsMapInv, Typing DEF PushRuleDecision, N
  <2>4. ReduceInv' /\ LoopComputesEvaluatePolicy'
    BY <1>2 DEF PushRuleDecision, ReduceInv, LoopComputesEvaluatePolicy
  <2>5. QED
    BY <2>3, <2>4
<1>3. CASE PushDefaultDecision
  <2> DEFINE F == Facts(input, Permission)
  <2>1. MatchingRules(policySet, F) = {}
    <3>1. /\ phase = "map"
          /\ Len(decisions) < N
          /\ scan \notin 1..Len(policySet.rules)
      BY <1>3, Typing DEF PushDefaultDecision, N
    <3>2. scan = Len(policySet.rules) + 1
      BY <3>1, Typing DEF TypeOK, MapInv
    <3>3. \A i \in 1..Len(policySet.rules) : ~ PolicyRuleMatches(policySet.rules[i], F)
      BY <3>1, <3>2, Typing DEF MapInv
    <3>4. QED
      BY <3>3, Typing DEF MatchingRules
  <2>2. EvaluatePermission(policySet, input, Permission) = DefaultDecision(policySet)
    BY <2>1, NoMatchIsDefault
  <2>3. TypeOK' /\ MapInv'
    BY <1>3, <2>2, PushKeepsMapInv, Typing DEF PushDefaultDecision, N
  <2>4. ReduceInv' /\ LoopComputesEvaluatePolicy'
    BY <1>3 DEF PushDefaultDecision, ReduceInv, LoopComputesEvaluatePolicy
  <2>5. QED
    BY <2>3, <2>4
<1>4. CASE ReturnDefault
  <2>1. TypeOK'
    BY <1>4, Typing DEF ReturnDefault, TypeOK
  <2>2. LoopComputesEvaluatePolicy'
    BY <1>4 DEF ReturnDefault, LoopComputesEvaluatePolicy, EvaluatePolicy
  <2>3. MapInv' /\ ReduceInv'
    BY <1>4 DEF ReturnDefault, MapInv, ReduceInv
  <2>4. QED
    BY <2>1, <2>2, <2>3
<1>5. CASE StartReduce
  <2>1. /\ N \in Nat
        /\ N > 0
        /\ Len(decisions) = N
        /\ decisions' = decisions
        /\ N' = N
        /\ next' = 2
        /\ current' = decisions[1]
        /\ phase' = "reduce"
    BY <1>5, Typing DEF StartReduce, N
  <2>2. TypeOK'
    BY <1>5, <2>1, Typing DEF StartReduce, TypeOK
  <2>3. MapInv'
    BY <1>5 DEF StartReduce, MapInv, N
  <2>4. ReduceInv'
    <3>1. IsFirstStrictest(decisions, 1, 1)
      <4>1. decisions[1].decision \in Decisions
        BY <2>1, Typing DEF DecisionRecord
      <4>2. Rank[decisions[1].decision] \in Nat
        BY <4>1 DEF Decisions, Rank
      <4>3. QED
        BY <4>2 DEF IsFirstStrictest
    <3>2. next' - 1 = 1
      BY <2>1
    <3>3. QED
      BY <2>1, <3>1, <3>2 DEF ReduceInv
  <2>5. LoopComputesEvaluatePolicy'
    BY <2>1 DEF LoopComputesEvaluatePolicy
  <2>6. QED
    BY <2>2, <2>3, <2>4, <2>5
<1>6. CASE ReduceStep
  <2>1. /\ N \in Nat
        /\ Len(decisions) = N
        /\ next \in 2..N
        /\ next' = next + 1
        /\ current' = StricterPolicyDecision(current, decisions[next])
        /\ phase' = "reduce"
        /\ decisions' = decisions
        /\ N' = N
    BY <1>6, Typing DEF ReduceStep, ReduceInv, N
  <2>2. PICK k \in 1..(next - 1) : /\ IsFirstStrictest(decisions, next - 1, k)
                                  /\ current = decisions[k]
    BY <1>6 DEF ReduceStep, ReduceInv
  <2>3. \A j \in 1..next : decisions[j].decision \in Decisions
    BY <2>1, Typing DEF DecisionRecord
  <2>4. PICK l \in 1..next : /\ IsFirstStrictest(decisions, next, l)
                            /\ StricterPolicyDecision(decisions[k], decisions[next]) = decisions[l]
    <3> DEFINE m == next - 1
    <3>1. m \in Nat /\ m + 1 = next
      BY <2>1
    <3> HIDE DEF m
    <3>2. k \in 1..m /\ IsFirstStrictest(decisions, m, k)
      BY <2>2 DEF m
    <3>3. \A j \in 1..(m + 1) : decisions[j].decision \in Decisions
      BY <2>3, <3>1
    <3>4. \E l \in 1..(m + 1) :
             /\ IsFirstStrictest(decisions, m + 1, l)
             /\ StricterPolicyDecision(decisions[k], decisions[m + 1]) = decisions[l]
      BY <3>1, <3>2, <3>3, ReduceKeepsFirstStrictest
    <3>5. QED
      BY <3>1, <3>4
  <2>5. ReduceInv'
    <3>1. next' - 1 = next
      BY <2>1
    <3>2. QED
      BY <2>1, <2>2, <2>4, <3>1 DEF ReduceInv
  <2>6. TypeOK'
    <3>1. current' \in DecisionRecord
      BY <2>1, <2>2, <2>4, Typing
    <3>2. QED
      BY <1>6, <2>1, <3>1 DEF ReduceStep, TypeOK
  <2>7. MapInv' /\ LoopComputesEvaluatePolicy'
    BY <1>6 DEF ReduceStep, MapInv, LoopComputesEvaluatePolicy, ReduceInv, N
  <2>8. QED
    BY <2>5, <2>6, <2>7
<1>7. CASE ReturnStrictest
  <2>1. /\ N \in Nat
        /\ N > 0
        /\ Len(decisions) = N
        /\ next - 1 = N
        /\ verdict' = current
        /\ phase' = "done"
        /\ UNCHANGED <<policySet, input, decisions, scan, current, next>>
    BY <1>7, Typing DEF ReturnStrictest, ReduceInv
  <2>2. PICK k \in 1..N : IsFirstStrictest(decisions, N, k) /\ current = decisions[k]
    BY <1>7, <2>1 DEF ReturnStrictest, ReduceInv
  <2> DEFINE ds == PermissionDecisions(policySet, input)
  <2>3. \A j \in 1..N : decisions[j] = ds[j] /\ ds[j].decision \in Decisions
    <3>1. \A j \in 1..N : decisions[j] = EvaluatePermission(policySet, input, input.permissions[j])
      BY <1>7, <2>1 DEF ReturnStrictest, MapInv
    <3>2. \A j \in 1..N : decisions[j].decision \in Decisions
      BY <2>1, Typing DEF DecisionRecord
    <3>3. QED
      BY <3>1, <3>2 DEF PermissionDecisions, N
  <2>4. IsFirstStrictest(ds, N, k)
    BY <2>2, <2>3 DEF IsFirstStrictest
  <2>5. (CHOOSE j \in 1..N : IsFirstStrictest(ds, N, j)) = k
    <3> HIDE DEF ds
    <3>1. \A j \in 1..N : IsFirstStrictest(ds, N, j) => j = k
      BY <2>1, <2>3, <2>4, FirstStrictestIsUnique
    <3>2. QED
      BY <2>4, <3>1
  <2>6. EvaluatePolicy(policySet, input) = ds[k]
    <3>1. EvaluatePolicy(policySet, input) = ds[CHOOSE j \in 1..N : IsFirstStrictest(ds, N, j)]
      <4>1. Len(input.permissions) # 0
        BY <2>1 DEF N
      <4>2. QED
        BY ONLY <4>1 DEF EvaluatePolicy, N
    <3>2. QED
      BY ONLY <2>5, <3>1
  <2>7. LoopComputesEvaluatePolicy'
    BY <2>1, <2>2, <2>3, <2>6 DEF LoopComputesEvaluatePolicy
  <2>8. TypeOK'
    BY <2>1 DEF TypeOK
  <2>9. MapInv' /\ ReduceInv'
    BY <2>1 DEF MapInv, ReduceInv
  <2>10. QED
    BY <2>7, <2>8, <2>9
<1>8. CASE UNCHANGED vars
  BY <1>8 DEF vars, TypeOK, MapInv, ReduceInv, LoopComputesEvaluatePolicy, N, Permission
<1>9. QED
  BY <1>1, <1>2, <1>3, <1>4, <1>5, <1>6, <1>7, <1>8 DEF Next

\* evaluatePolicy keeps its types for every policy file and every input.
THEOREM LoopTypes == Spec => []TypeOK
<1>1. IInv => TypeOK
  BY DEF IInv
<1>2. QED
  BY <1>1, InitEstablishes, StepPreserves, PTL DEF Spec

\* For every policy file and every input the loops of evaluatePolicy return the
\* first of the strictest permission decisions, which is what the other modules
\* take evaluatePolicy to return.
THEOREM LoopCorrect == Spec => []LoopComputesEvaluatePolicy
<1>1. IInv => LoopComputesEvaluatePolicy
  BY DEF IInv
<1>2. QED
  BY <1>1, InitEstablishes, StepPreserves, PTL DEF Spec

\* The verdict is a strictest decision of all the permissions, for every policy file and
\* every input: a permissive permission hides no strict one, wherever it stands.
THEOREM StrictestWins == Spec => []StrictestPermissionWins
<1>1. IInv => StrictestPermissionWins
  <2> SUFFICES ASSUME IInv, phase = "done", input.permissions # <<>>
               PROVE  StrictestPermissionWins
    BY DEF StrictestPermissionWins
  <2> DEFINE each == {EvaluatePermission(policySet, input, input.permissions[k]).decision :
                        k \in 1..Len(input.permissions)}
  <2>1. IsPolicySet(policySet) /\ Len(input.permissions) \in Nat
    BY Typing DEF IInv, N
  <2>2. Len(input.permissions) # 0
    BY PolicyLoopAssumption DEF IInv, TypeOK
  <2>3. verdict = EvaluatePolicy(policySet, input)
    BY DEF IInv, LoopComputesEvaluatePolicy
  <2>4. verdict.decision = IF "deny" \in each THEN "deny"
                           ELSE IF "ask" \in each THEN "ask" ELSE "allow"
    BY <2>1, <2>2, <2>3, PolicyDecisionIsStrictest
  <2>5. QED
    BY <2>4 DEF StrictestPermissionWins
<1>2. QED
  BY <1>1, InitEstablishes, StepPreserves, PTL DEF Spec

-----------------------------------------------------------------------------
(* The policy tools.  A scenario of the simulation has one permission and   *)
(* no channel: for rules that match on neither, its evaluation decides that *)
(* permission as evaluatePolicy does.                                       *)

\* The decision for a single permission is the whole decision.
LEMMA OnePermission ==
  ASSUME NEW ps, IsPolicySet(ps), NEW in, NEW permission, in.permissions = <<permission>>
  PROVE  EvaluatePolicy(ps, in) = EvaluatePermission(ps, in, permission)
<1> DEFINE ds == PermissionDecisions(ps, in)
<1>1. Len(in.permissions) = 1 /\ in.permissions[1] = permission
  OBVIOUS
<1>2. ds[1] = EvaluatePermission(ps, in, permission)
  BY <1>1 DEF PermissionDecisions
<1>3. EvaluatePolicy(ps, in) = ds[CHOOSE k \in 1..1 : IsFirstStrictest(ds, 1, k)]
  <2>1. EvaluatePolicy(ps, in) =
          ds[CHOOSE k \in 1..Len(in.permissions) : IsFirstStrictest(ds, Len(in.permissions), k)]
    BY <1>1 DEF EvaluatePolicy
  <2> QED BY ONLY <1>1, <2>1
<1>4. ds[1].decision \in Decisions
  BY <1>2, PermissionDecisionTyped
<1> HIDE DEF ds
<1>5. IsFirstStrictest(ds, 1, 1)
  BY <1>4 DEF IsFirstStrictest, Decisions, Rank
<1>6. (CHOOSE k \in 1..1 : IsFirstStrictest(ds, 1, k)) = 1
  BY <1>5
<1> QED BY <1>2, <1>3, <1>6

\* What a rule that matches only on what a scenario has does to the scenario, it does to
\* the permission of the call.
LEMMA ScenarioDecides ==
  ASSUME NEW ps, IsPolicySet(ps), Comparable(ps), NEW in, NEW scenario,
         scenario.capabilityId = in.capabilityId
  PROVE  EvaluatePolicy(ps, ScenarioInput(scenario)) =
           EvaluatePermission(ps, in, scenario.permission)
<1> DEFINE permission == scenario.permission
           simulated  == ScenarioInput(scenario)
           First(M)   == CHOOSE i \in DOMAIN ps.rules : i \in M /\ \A j \in M : i <= j
           Result(M)  == IF M = {} THEN DefaultDecision(ps) ELSE RuleDecision(ps, First(M))
<1>1. EvaluatePolicy(ps, simulated) = EvaluatePermission(ps, simulated, permission)
  BY OnePermission DEF ScenarioInput
<1>2. \A field \in {"capabilityId", "risk", "resource", "action"} :
        Facts(simulated, permission)[field] = Facts(in, permission)[field]
  BY DEF Facts, ScenarioInput
<1>3. \A k \in DOMAIN ps.rules :
        PolicyRuleMatches(ps.rules[k], Facts(simulated, permission)) <=>
          PolicyRuleMatches(ps.rules[k], Facts(in, permission))
  BY <1>2 DEF Comparable, PolicyRuleMatches
<1>4. MatchingRules(ps, Facts(simulated, permission)) = MatchingRules(ps, Facts(in, permission))
  BY <1>3 DEF MatchingRules
<1>5. \A any : EvaluatePermission(ps, any, permission) =
                 Result(MatchingRules(ps, Facts(any, permission)))
  BY DEF EvaluatePermission, IsFirstMatch
<1> QED BY <1>1, <1>4, <1>5

\* A file that a change may have come from is a policy set.
LEMMA BeforeTyped ==
  ASSUME NEW ps, IsPolicySet(ps), NEW before \in Before(ps)
  PROVE  IsPolicySet(before)
<1>1. CASE before = DefaultPolicySet
  BY <1>1 DEF DefaultPolicySet, IsPolicySet, Decisions
<1>2. CASE \E d \in Decisions : before = [default |-> d, rules |-> ps.rules]
  BY <1>2 DEF IsPolicySet
<1>3. ASSUME NEW k \in DOMAIN ps.rules,
             before = [default |-> ps.default, rules |-> RulesWithout(ps.rules, k)]
      PROVE  IsPolicySet(before)
  <2> DEFINE m    == Len(ps.rules) - 1
             all  == {ps.rules[j] : j \in DOMAIN ps.rules}
  <2>1. m \in Nat /\ DOMAIN ps.rules = 1..(m + 1)
    BY DEF IsPolicySet
  <2>2. before.rules \in [1..m -> all]
    <3>1. before.rules = [j \in 1..m |-> IF j < k THEN ps.rules[j] ELSE ps.rules[j + 1]]
      BY <1>3 DEF RulesWithout
    <3> HIDE DEF m
    <3>2. \A j \in 1..m : j \in DOMAIN ps.rules /\ j + 1 \in DOMAIN ps.rules
      BY <2>1
    <3> QED BY <3>1, <3>2
  <2>3. before.rules \in Seq(all) /\ DOMAIN before.rules = 1..m
    BY <2>1, <2>2, SeqDef
  <2>4. Len(before.rules) = m
    BY <2>1, <2>3, LenProperties
  <2>5. \A j \in 1..m : before.rules[j].decision \in Decisions
    BY <2>2 DEF IsPolicySet
  <2> QED BY <1>3, <2>1, <2>3, <2>4, <2>5 DEF IsPolicySet
<1> QED BY <1>1, <1>2, <1>3 DEF Before

\* When the simulation finds nothing but new denials, each permission it was asked about
\* is decided no looser after the change than before.
LEMMA ScenarioIsNoLooser ==
  ASSUME NEW before, IsPolicySet(before), Comparable(before),
         NEW after, IsPolicySet(after), Comparable(after),
         NEW in, NEW scenario, scenario.capabilityId = in.capabilityId,
         \A f \in ScenarioFindings(before, after, scenario) : f.severity = "info"
  PROVE  Rank[EvaluatePermission(after, in, scenario.permission).decision] >=
           Rank[EvaluatePermission(before, in, scenario.permission).decision]
<1> DEFINE old == EvaluatePermission(before, in, scenario.permission).decision
           new == EvaluatePermission(after, in, scenario.permission).decision
<1>1. old \in Decisions /\ new \in Decisions
  BY PermissionDecisionTyped
<1>2. \A f \in DecisionDiff(scenario.permission.risk, old, new) : f.severity = "info"
  BY ScenarioDecides DEF ScenarioFindings
<1> HIDE DEF old, new
<1>3. \A risk : RelaxationSeverity(risk) # "info"
  BY DEF RelaxationSeverity
<1>4. ~ (old = "ask" /\ new = "allow")
  BY <1>2, <1>3 DEF DecisionDiff
<1>5. ~ (old = "deny" /\ new = "allow")
  BY <1>2, <1>3 DEF DecisionDiff
<1>6. ~ (old = "deny" /\ new = "ask")
  BY <1>2 DEF DecisionDiff
<1>7. Rank[new] >= Rank[old]
  BY <1>1, <1>4, <1>5, <1>6 DEF Decisions, Rank
<1> QED BY <1>7 DEF old, new

\* For every two files whose rules match on capability, risk, resource and action, every
\* Capability and every call of it: a change that `opencap policy simulate' passes for
\* each permission alone makes the decision for all of them no looser.
THEOREM SimulationIsSound ==
  ASSUME NEW before, IsPolicySet(before), Comparable(before),
         NEW after, IsPolicySet(after), Comparable(after),
         NEW in, Len(in.permissions) \in Nat, Len(in.permissions) # 0,
         \A k \in 1..Len(in.permissions) :
           \E scenario : /\ scenario.capabilityId = in.capabilityId
                         /\ scenario.permission = in.permissions[k]
                         /\ \A f \in ScenarioFindings(before, after, scenario) : f.severity = "info"
  PROVE  Rank[EvaluatePolicy(after, in).decision] >= Rank[EvaluatePolicy(before, in).decision]
<1> DEFINE n      == Len(in.permissions)
           old(k) == EvaluatePermission(before, in, in.permissions[k]).decision
           new(k) == EvaluatePermission(after, in, in.permissions[k]).decision
           olds   == {old(k) : k \in 1..n}
           news   == {new(k) : k \in 1..n}
<1>1. \A k \in 1..n : Rank[new(k)] >= Rank[old(k)]
  BY ScenarioIsNoLooser
<1>2. \A k \in 1..n : old(k) \in Decisions /\ new(k) \in Decisions
  BY PermissionDecisionTyped
<1>3. EvaluatePolicy(before, in).decision = IF "deny" \in olds THEN "deny"
                                            ELSE IF "ask" \in olds THEN "ask" ELSE "allow"
  BY PolicyDecisionIsStrictest
<1>4. EvaluatePolicy(after, in).decision = IF "deny" \in news THEN "deny"
                                           ELSE IF "ask" \in news THEN "ask" ELSE "allow"
  BY PolicyDecisionIsStrictest
<1> HIDE DEF old, new
<1>5. "deny" \in olds => "deny" \in news
  BY <1>1, <1>2 DEF Decisions, Rank
<1>6. "ask" \in olds => "ask" \in news \/ "deny" \in news
  BY <1>1, <1>2 DEF Decisions, Rank
<1> QED BY <1>3, <1>4, <1>5, <1>6 DEF Rank

\* What a finished evaluation is about: a policy set, a call, and the declared decision.
LEMMA DoneIsEvaluated ==
  ASSUME IInv, phase = "done"
  PROVE  /\ IsPolicySet(policySet)
         /\ Len(input.permissions) \in Nat
         /\ input.permissions # <<>> => Len(input.permissions) # 0
         /\ verdict = EvaluatePolicy(policySet, input)
BY Typing, PolicyLoopAssumption DEF IInv, TypeOK, N, LoopComputesEvaluatePolicy

\* For every policy file, every Capability and every earlier file that differs by its
\* default or by one rule: what the simulation passes makes no call looser.
THEOREM RelaxationsAreSeen == Spec => []SimulationSeesRelaxations
<1>1. IInv => SimulationSeesRelaxations
  <2> SUFFICES ASSUME IInv, phase = "done", input.permissions # <<>>,
                      NEW before \in Before(policySet),
                      Comparable(before), Comparable(policySet),
                      SimulatePolicyDiff(before, policySet, Scenarios({})).ok
               PROVE  Rank[verdict.decision] >= Rank[EvaluatePolicy(before, input).decision]
    BY DEF SimulationSeesRelaxations
  <2>1. /\ IsPolicySet(policySet) /\ IsPolicySet(before)
        /\ Len(input.permissions) \in Nat /\ Len(input.permissions) # 0
        /\ verdict = EvaluatePolicy(policySet, input)
    BY DoneIsEvaluated, BeforeTyped
  <2>2. ASSUME NEW k \in 1..Len(input.permissions)
        PROVE  \E scenario :
                 /\ scenario.capabilityId = input.capabilityId
                 /\ scenario.permission = input.permissions[k]
                 /\ \A f \in ScenarioFindings(before, policySet, scenario) : f.severity = "info"
    <3> DEFINE scenario == [capabilityId |-> input.capabilityId,
                            permission |-> input.permissions[k], dataClasses |-> {}]
    <3>1. scenario \in Scenarios({})
      BY DEF Scenarios
    <3>2. \A f \in ScenarioFindings(before, policySet, scenario) : f.severity = "info"
      BY <3>1 DEF SimulatePolicyDiff
    <3> QED BY <3>2
  <2> QED BY <2>1, <2>2, SimulationIsSound
<1> QED BY <1>1, InitEstablishes, StepPreserves, PTL DEF Spec

-----------------------------------------------------------------------------
(* What runs without a question.                                            *)

\* A permission that is allowed by no rule is allowed by the default.
LEMMA AllowedByRule ==
  ASSUME NEW ps, IsPolicySet(ps), NEW in, NEW permission,
         EvaluatePermission(ps, in, permission).decision = "allow"
  PROVE  \/ /\ EvaluatePermission(ps, in, permission) = DefaultDecision(ps)
            /\ ps.default = "allow"
         \/ \E i \in DOMAIN ps.rules :
              /\ EvaluatePermission(ps, in, permission) = RuleDecision(ps, i)
              /\ ps.rules[i].decision = "allow"
              /\ PolicyRuleMatches(ps.rules[i], Facts(in, permission))
<1> DEFINE S == MatchingRules(ps, Facts(in, permission))
<1>1. CASE S = {}
  BY <1>1, NoMatchIsDefault DEF DefaultDecision
<1>2. CASE S # {}
  <2>1. S \subseteq Nat
    BY DEF MatchingRules, IsPolicySet
  <2>2. PICK i \in S : \A j \in S : i <= j
    BY <1>2, <2>1, LeastNatural
  <2>3. EvaluatePermission(ps, in, permission) = RuleDecision(ps, i)
    BY <2>2, FirstMatchIsChosen DEF IsFirstMatch
  <2> QED BY <2>2, <2>3 DEF MatchingRules, RuleDecision
<1> QED BY <1>1, <1>2

\* A rule that names all of the boundary and allows a permission allows just this one.
LEMMA BoundaryIsScope ==
  ASSUME NEW k \in DOMAIN policySet.rules, policySet.rules[k].decision = "allow",
         Boundary \subseteq DOMAIN policySet.rules[k].match, NEW permission,
         PolicyRuleMatches(policySet.rules[k], Facts(input, permission))
  PROVE  IsScoped(permission)
<1> DEFINE match == policySet.rules[k].match
<1>1. \A field \in Boundary : match[field] = Facts(input, permission)[field]
  BY DEF PolicyRuleMatches
<1>2. /\ match["capabilityId"] = input.capabilityId
      /\ match["resource"] = permission.resource
      /\ match["action"] = permission.action
  BY <1>1 DEF Boundary, Facts
<1> QED BY <1>2 DEF IsScoped

\* For every policy file and every Capability: what a file that validates lets send,
\* destroy or pay without a question, and what a file whose simulation with personal data
\* is ok lets do anything without a question, a rule allows by name.
THEOREM UnattendedIsNamed == Spec => []UnattendedIsScoped
<1>1. IInv => UnattendedIsScoped
  <2> SUFFICES ASSUME IInv, phase = "done", verdict.decision = "allow",
                      NEW k \in 1..Len(input.permissions)
               PROVE  /\ (/\ ValidatePolicyYml(policySet).ok
                          /\ policySet.default # "allow"
                          /\ \A j \in DOMAIN policySet.rules :
                               policySet.rules[j].decision = "allow" =>
                                 "risk" \in DOMAIN policySet.rules[j].match
                          /\ input.permissions[k].risk \in StrictBoundaryAllow)
                           => IsScoped(input.permissions[k])
                      /\ (/\ Comparable(policySet)
                          /\ SimulatePolicyDiff(policySet, policySet, Scenarios({"pii"})).ok)
                           => IsScoped(input.permissions[k])
    BY DEF UnattendedIsScoped
  <2> DEFINE permission == input.permissions[k]
             each == {EvaluatePermission(policySet, input, input.permissions[j]).decision :
                        j \in 1..Len(input.permissions)}
  <2>1. /\ IsPolicySet(policySet)
        /\ Len(input.permissions) \in Nat /\ Len(input.permissions) # 0
        /\ verdict = EvaluatePolicy(policySet, input)
    BY DoneIsEvaluated
  <2>2. EvaluatePermission(policySet, input, permission).decision = "allow"
    <3>1. "deny" \notin each /\ "ask" \notin each
      <4>1. verdict.decision = IF "deny" \in each THEN "deny"
                               ELSE IF "ask" \in each THEN "ask" ELSE "allow"
        BY ONLY <2>1, PolicyDecisionIsStrictest
      <4> HIDE DEF each
      <4> QED BY <4>1
    <3>2. EvaluatePermission(policySet, input, permission).decision \in each \cap Decisions
      BY <2>1, PermissionDecisionTyped
    <3> QED BY <3>1, <3>2 DEF Decisions
  <2>3. ASSUME ValidatePolicyYml(policySet).ok, policySet.default # "allow",
               \A j \in DOMAIN policySet.rules :
                 policySet.rules[j].decision = "allow" =>
                   "risk" \in DOMAIN policySet.rules[j].match,
               permission.risk \in StrictBoundaryAllow
        PROVE  IsScoped(permission)
    <3>1. PICK i \in DOMAIN policySet.rules :
            /\ policySet.rules[i].decision = "allow"
            /\ PolicyRuleMatches(policySet.rules[i], Facts(input, permission))
      BY <2>1, <2>2, <2>3, AllowedByRule
    <3>2. policySet.rules[i].match["risk"] = permission.risk
      BY <2>3, <3>1 DEF PolicyRuleMatches, Facts
    <3>3. \A f \in BroadAllowFindings(policySet.rules[i], i) : f.severity # "error"
      BY <2>3 DEF ValidatePolicyYml
    <3>4. ~ WithoutBoundary(policySet.rules[i])
      <4> DEFINE rule  == policySet.rules[i]
                 broad == Finding("POLICY_BROAD_ALLOW_REQUIRES_BOUNDARY", "error", i)
      <4>1. "risk" \in DOMAIN rule.match
        BY <2>3, <3>1
      <4>2. WithoutBoundary(rule) => broad \in BroadAllowFindings(rule, i)
        BY <3>1, <4>1 DEF BroadAllowFindings
      <4> QED BY <3>3, <4>2 DEF Finding
    <3>5. Boundary \subseteq DOMAIN policySet.rules[i].match
      BY <2>3, <3>2, <3>4 DEF WithoutBoundary
    <3> QED BY <3>1, <3>5, BoundaryIsScope
  <2>4. ASSUME Comparable(policySet),
               SimulatePolicyDiff(policySet, policySet, Scenarios({"pii"})).ok
        PROVE  IsScoped(permission)
    <3> DEFINE scenario   == [capabilityId |-> input.capabilityId, permission |-> permission,
                              dataClasses |-> {"pii"}]
               evaluation == EvaluatePolicy(policySet, ScenarioInput(scenario))
    <3>1. scenario \in Scenarios({"pii"})
      BY DEF Scenarios
    <3>2. \A f \in ScenarioFindings(policySet, policySet, scenario) : f.severity = "info"
      BY <2>4, <3>1 DEF SimulatePolicyDiff
    <3>3. evaluation = EvaluatePermission(policySet, input, permission)
      BY <2>1, <2>4, ScenarioDecides
    <3>4. ~ IsBroadAllow(policySet, evaluation)
      <4>1. SUFFICES ASSUME IsBroadAllow(policySet, evaluation) PROVE FALSE
        OBVIOUS
      <4>2. \A f \in BroadDataEgressAllow(scenario, "allow") : f.severity = "info"
        BY <2>2, <3>2, <3>3, <4>1 DEF ScenarioFindings
      <4> QED BY <4>2 DEF BroadDataEgressAllow
    <3>5. PICK i \in DOMAIN policySet.rules :
            /\ evaluation = RuleDecision(policySet, i)
            /\ policySet.rules[i].decision = "allow"
            /\ PolicyRuleMatches(policySet.rules[i], Facts(input, permission))
      <4>1. evaluation # DefaultDecision(policySet)
        BY <2>2, <3>3, <3>4 DEF IsBroadAllow, DefaultDecision
      <4> QED BY <2>1, <2>2, <3>3, <4>1, AllowedByRule
    <3>6. Boundary \subseteq DOMAIN policySet.rules[i].match
      <4>1. evaluation.decision = "allow" /\ evaluation.rule = i
        BY <3>5 DEF RuleDecision
      <4>2. i # 0
        BY <2>1 DEF IsPolicySet
      <4> HIDE DEF evaluation
      <4> QED BY <3>4, <4>1, <4>2 DEF IsBroadAllow
    <3> QED BY <3>5, <3>6, BoundaryIsScope
  <2> QED BY <2>3, <2>4
<1> QED BY <1>1, InitEstablishes, StepPreserves, PTL DEF Spec

=============================================================================
