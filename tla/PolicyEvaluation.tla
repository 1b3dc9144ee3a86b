-------------------------- MODULE PolicyEvaluation --------------------------
(***************************************************************************)
(* The risk policy of the runtime: policies.yml as a policy set, matching  *)
(* of one rule, the decision for one permission and the decision for a     *)
(* whole Capability (packages/runtime/src/index.ts, evaluatePolicy).       *)
(*                                                                         *)
(* The operators are the result the code computes, stated declaratively;   *)
(* PolicyLoop is the computation itself, and PolicyLoopProofs proves that  *)
(* the two agree for every policy set and every list of permissions.       *)
(*                                                                         *)
(* A rule's match is a function whose domain holds only the fields the     *)
(* file gives: an absent field places no condition.  The texts (reason,    *)
(* summary, revision digest) are left out; `rule' is the 1-based index of  *)
(* the rule that decided, 0 when the default did.                          *)
(***************************************************************************)
EXTENDS Integers, Sequences

Decisions == {"allow", "ask", "deny"}

Rank == [allow |-> 1, ask |-> 2, deny |-> 3]

Risks == {"read_only", "write", "external_send", "destructive",
          "financial", "code_execution", "secret_access"}

\* The value of an input field the caller does not give.
Undefined == "undefined"

IsPolicySet(ps) ==
  /\ ps.default \in Decisions
  /\ Len(ps.rules) \in Nat
  /\ DOMAIN ps.rules = 1..Len(ps.rules)
  /\ \A i \in DOMAIN ps.rules : ps.rules[i].decision \in Decisions

\* What policies.yml stands for when the file does not exist.
DefaultPolicySet == [default |-> "ask", rules |-> <<>>]

-----------------------------------------------------------------------------
Facts(input, permission) ==
  [capabilityId |-> input.capabilityId,
   risk         |-> permission.risk,
   resource     |-> permission.resource,
   action       |-> permission.action,
   channel      |-> input.channel,
   host         |-> input.host,
   trustLevel   |-> input.trustLevel]

PolicyRuleMatches(rule, facts) ==
  \A field \in DOMAIN rule.match : rule.match[field] = facts[field]

MatchingRules(ps, facts) ==
  {i \in DOMAIN ps.rules : PolicyRuleMatches(ps.rules[i], facts)}

IsFirstMatch(ps, facts, i) ==
  /\ i \in MatchingRules(ps, facts)
  /\ \A j \in MatchingRules(ps, facts) : i <= j

\* Mutant: findIndex's "not found" leaks into the decision.
LeakedIndexDefault(ps) == [decision |-> ps.default, rule |-> -1]

DefaultDecision(ps) == [decision |-> ps.default, rule |-> 0]

RuleDecision(ps, i) == [decision |-> ps.rules[i].decision, rule |-> i]

\* The first matching rule decides; without one the default does.
EvaluatePermission(ps, input, permission) ==
  LET facts == Facts(input, permission)
  IN  IF MatchingRules(ps, facts) = {}
      THEN DefaultDecision(ps)
      ELSE RuleDecision(ps, CHOOSE i \in DOMAIN ps.rules : IsFirstMatch(ps, facts, i))

\* Mutants: the later one wins a tie; the comparison is the wrong way round.
LaterOnTie(current, next) ==
  IF Rank[next.decision] >= Rank[current.decision] THEN next ELSE current
LooserPolicyDecision(current, next) ==
  IF Rank[next.decision] < Rank[current.decision] THEN next ELSE current

StricterPolicyDecision(current, next) ==
  IF Rank[next.decision] > Rank[current.decision] THEN next ELSE current

\* k is what a left-to-right reduce by StricterPolicyDecision keeps of the
\* first n elements of ds: the strictest, and the first of those.
IsFirstStrictest(ds, n, k) ==
  /\ k \in 1..n
  /\ \A j \in 1..n : /\ Rank[ds[j].decision] <= Rank[ds[k].decision]
                     /\ j < k => Rank[ds[j].decision] < Rank[ds[k].decision]

PermissionDecisions(ps, input) ==
  [k \in 1..Len(input.permissions) |->
     EvaluatePermission(ps, input, input.permissions[k])]

EvaluatePolicy(ps, input) ==
  LET n  == Len(input.permissions)
      ds == PermissionDecisions(ps, input)
  IN  IF n = 0
      THEN DefaultDecision(ps)
      ELSE ds[CHOOSE k \in 1..n : IsFirstStrictest(ds, n, k)]

=============================================================================
