------------------------------ MODULE DataEgress ------------------------------
(***************************************************************************)
(* evaluateDataEgressPolicy: one pass over the rules that keeps the        *)
(* strictest decision so far and, among equals, the later rule.  A context *)
(* has provider, targetOrigin, risk, the classes of the input data and the *)
(* rendered fields [destination, dataClasses]; a rule is [match, decision],*)
(* its match a function on the fields it names.                            *)
(***************************************************************************)
EXTENDS Naturals, Sequences

EgressDecisions == {"allow", "ask", "redact", "deny"}

DecisionRank == [allow |-> 0, ask |-> 1, redact |-> 2, deny |-> 3]

DefaultEgressPolicy ==
  [default |-> "allow",
   rules   |-> <<[match |-> [dataClass |-> "secret_like"], decision |-> "deny"],
                 [match |-> [dataClass |-> "internal_url"], decision |-> "deny"],
                 [match |-> [dataClass |-> "pii", risk |-> "external_send"], decision |-> "ask"],
                 [match |-> [dataClass |-> "source_code", risk |-> "external_send"],
                  decision |-> "ask"]>>]

Names(rule, field) == field \in DOMAIN rule.match

\* The rendered fields a rule is about: its destination, its data class.
FieldMatches(rule, field) ==
  /\ Names(rule, "destination") => field.destination = rule.match.destination
  /\ Names(rule, "dataClass") => rule.match.dataClass \in field.dataClasses

\* The code then asks again for a field or the class itself; the class is there.
RuleMatches(context, rule) ==
  /\ \A f \in {"provider", "targetOrigin", "risk"} \cap DOMAIN rule.match : context[f] = rule.match[f]
  /\ Names(rule, "dataClass") => rule.match.dataClass \in context.dataClasses
  /\ Names(rule, "destination") => \E field \in context.renderedFields : FieldMatches(rule, field)

\* Mutant: a later matching rule replaces an earlier one, strict or not.
LastMatchWins(context, found, rule, k) ==
  IF RuleMatches(context, rule) THEN [decision |-> rule.decision, rule |-> k] ELSE found

Visit(context, found, rule, k) ==
  IF RuleMatches(context, rule) /\ DecisionRank[rule.decision] >= DecisionRank[found.decision]
  THEN [decision |-> rule.decision, rule |-> k]
  ELSE found

\* The decision and the index of the rule it comes from, 0 for the default.
EvaluateDataEgressPolicy(context, policy) ==
  LET found[k \in 0..Len(policy.rules)] ==
        IF k = 0 THEN [decision |-> policy.default, rule |-> 0]
        ELSE Visit(context, found[k - 1], policy.rules[k], k)
  IN  found[Len(policy.rules)]

=============================================================================
