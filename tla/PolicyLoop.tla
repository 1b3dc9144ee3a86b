----------------------------- MODULE PolicyLoop -----------------------------
(***************************************************************************)
(* evaluatePolicy as the computation it is: for each permission in turn,   *)
(* scan the rules until one matches (findIndex) and push its decision;     *)
(* then reduce the pushed decisions from the left with                     *)
(* stricterPolicyDecision.                                                 *)
(***************************************************************************)
EXTENDS PolicyEvaluation

CONSTANTS PolicySets,  \* the policy sets a file can hold
          Inputs       \* the evaluation inputs a caller can build

ASSUME PolicyLoopAssumption ==
  /\ \A ps \in PolicySets : IsPolicySet(ps)
  /\ \A in \in Inputs : in.permissions \in Seq([resource : STRING, action : STRING, risk : Risks])

VARIABLES
  policySet,  \* the parsed policies.yml
  input,      \* capability, permissions, channel and trust level
  phase,      \* "map" | "reduce" | "done"
  decisions,  \* permissionDecisions so far
  scan,       \* index of the rule findIndex looks at
  current,    \* the decision the reduce holds, NoVerdict before it starts
  next,       \* index of the decision the reduce looks at
  verdict     \* the returned decision, or NoVerdict

vars == <<policySet, input, phase, decisions, scan, current, next, verdict>>

NoVerdict == [decision |-> "none", rule |-> 0]

Permission == input.permissions[Len(decisions) + 1]

Init ==
  /\ policySet \in PolicySets
  /\ input \in Inputs
  /\ phase = "map"
  /\ decisions = <<>>
  /\ scan = 1
  /\ current = NoVerdict
  /\ next = 1
  /\ verdict = NoVerdict

\* findIndex: the rule does not match, look at the following one.
ScanNextRule ==
  /\ phase = "map"
  /\ Len(decisions) < Len(input.permissions)
  /\ scan \in DOMAIN policySet.rules
  /\ ~ PolicyRuleMatches(policySet.rules[scan], Facts(input, Permission))
  /\ scan' = scan + 1
  /\ UNCHANGED <<policySet, input, phase, decisions, current, next, verdict>>

\* The rule matches: its decision is the permission's.
PushRuleDecision ==
  /\ phase = "map"
  /\ Len(decisions) < Len(input.permissions)
  /\ scan \in DOMAIN policySet.rules
  /\ PolicyRuleMatches(policySet.rules[scan], Facts(input, Permission))
  /\ decisions' = Append(decisions, RuleDecision(policySet, scan))
  /\ scan' = 1
  /\ UNCHANGED <<policySet, input, phase, current, next, verdict>>

\* No rule matched: the default is the permission's decision.
PushDefaultDecision ==
  /\ phase = "map"
  /\ Len(decisions) < Len(input.permissions)
  /\ scan \notin DOMAIN policySet.rules
  /\ decisions' = Append(decisions, DefaultDecision(policySet))
  /\ scan' = 1
  /\ UNCHANGED <<policySet, input, phase, current, next, verdict>>

\* A Capability without permissions gets the default.
ReturnDefault ==
  /\ phase = "map"
  /\ Len(input.permissions) = 0
  /\ verdict' = DefaultDecision(policySet)
  /\ phase' = "done"
  /\ UNCHANGED <<policySet, input, decisions, scan, current, next>>

StartReduce ==
  /\ phase = "map"
  /\ Len(input.permissions) > 0
  /\ Len(decisions) = Len(input.permissions)
  /\ phase' = "reduce"
  /\ current' = decisions[1]
  /\ next' = 2
  /\ UNCHANGED <<policySet, input, decisions, scan, verdict>>

ReduceStep ==
  /\ phase = "reduce"
  /\ next <= Len(decisions)
  /\ current' = StricterPolicyDecision(current, decisions[next])
  /\ next' = next + 1
  /\ UNCHANGED <<policySet, input, phase, decisions, scan, verdict>>

ReturnStrictest ==
  /\ phase = "reduce"
  /\ next > Len(decisions)
  /\ verdict' = current
  /\ phase' = "done"
  /\ UNCHANGED <<policySet, input, decisions, scan, current, next>>

Next ==
  \/ ScanNextRule
  \/ PushRuleDecision
  \/ PushDefaultDecision
  \/ ReturnDefault
  \/ StartReduce
  \/ ReduceStep
  \/ ReturnStrictest

Spec == Init /\ [][Next]_vars

-----------------------------------------------------------------------------
DecisionRecord == [decision : Decisions, rule : Nat]

TypeOK ==
  /\ policySet \in PolicySets
  /\ input \in Inputs
  /\ phase \in {"map", "reduce", "done"}
  /\ decisions \in Seq(DecisionRecord)
  /\ Len(decisions) <= Len(input.permissions)
  /\ scan \in Nat \ {0}
  /\ current \in DecisionRecord \cup {NoVerdict}
  /\ next \in Nat \ {0}
  /\ verdict \in DecisionRecord \cup {NoVerdict}

\* What the two loops return is the declared result: the decision, and the rule
\* the trace names, of the first of the strictest permissions (evaluatePolicy).
LoopComputesEvaluatePolicy ==
  phase = "done" => verdict = EvaluatePolicy(policySet, input)

\* A Capability with several permissions is denied as soon as one of them is, asks
\* as soon as one asks and none is denied, and is allowed only when all are: a
\* permissive permission never hides a strict one, in whatever order they stand.
StrictestPermissionWins ==
  (phase = "done" /\ input.permissions # <<>>) =>
    LET each == {EvaluatePermission(policySet, input, input.permissions[k]).decision :
                   k \in 1..Len(input.permissions)}
    IN  verdict.decision = IF "deny" \in each THEN "deny"
                           ELSE IF "ask" \in each THEN "ask" ELSE "allow"

=============================================================================
