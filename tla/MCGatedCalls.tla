----------------------------- MODULE MCGatedCalls -----------------------------
(***************************************************************************)
(* Bounds for GatedCalls.  Each scenario lets one thing grow: the orders   *)
(* of egress rules, the quotas, budgets and throttle rules, the stored     *)
(* overrides with two callers that overlap and a revocation between their  *)
(* steps, or a sequence of five reviews.                                   *)
(***************************************************************************)
EXTENDS GatedCalls, TLC

CONSTANTS c1, c2

Field(destination, classes) == [destination |-> destination, dataClasses |-> classes]

Request(risk, base, classes, outboundAllowed, explicitOverride) ==
  [capabilityId |-> "cap", provider |-> "svc", targetOrigin |-> "o1", channel |-> "cli",
   risk |-> risk, base |-> base, dataClasses |-> classes,
   renderedFields |-> {Field("body", classes), Field("query", {})},
   outboundAllowed |-> outboundAllowed, explicitOverride |-> explicitOverride]

MCRequests ==
  {Request("external_send", "ask", {"pii"}, TRUE, FALSE),
   Request("external_send", "ask", {"pii", "secret_like"}, TRUE, FALSE),
   Request("financial", "deny", {}, TRUE, FALSE),
   Request("read_only", "deny", {}, FALSE, TRUE)}

EgressRule(match, decision) == [match |-> match, decision |-> decision]

EgressRules ==
  {EgressRule([dataClass |-> "pii"], "redact"), EgressRule([dataClass |-> "secret_like"], "deny"),
   EgressRule([destination |-> "body", dataClass |-> "pii"], "ask"),
   EgressRule([targetOrigin |-> "o2"], "deny"), EgressRule([risk |-> "financial"], "allow")}

EgressPolicies ==
  [default : EgressDecisions, rules : [1..2 -> EgressRules] \cup [1..3 -> EgressRules]]

Rule(match, limit, decision) ==
  [match |-> match, limit |-> limit, window |-> "1m", decision |-> decision]

UseRules ==
  {Rule(<<>>, 1, "deny"), Rule(<<>>, 2, "ask"), Rule([risk |-> "external_send"], 2, "deny"),
   Rule([trustLevel |-> "listed"], 1, "warn")}

RuleLists == {<<>>} \cup [1..1 -> UseRules] \cup [1..2 -> UseRules]

Override(id, type, match, expiresAt) ==
  [id |-> id, type |-> type, match |-> match, dataClasses |-> {}, reasonGiven |-> TRUE,
   expiresAt |-> expiresAt]

OverrideLists ==
  {<<>>,
   <<Override("once", "allow_once", <<>>, 2), Override("no", "deny_override", <<>>, 3)>>,
   <<Override("glass", "breakglass", [risk |-> "read_only"], 3),
     Override("until", "allow_until", [risk |-> "external_send"], 2)>>,
   <<Override("bad", "allow_until", <<>>, Invalid), Override("long", "breakglass", <<>>, 9),
     [Override("once", "allow_once", <<>>, 3) EXCEPT !.dataClasses = {"pii"}]>>}

Plain ==
  [egress |-> DefaultEgressPolicy, quotas |-> <<>>, budgets |-> <<>>,
   throttle |-> <<DefaultExternalSendAbuseThrottleRule>>, overrides |-> <<>>,
   level |-> "listed", maxCalls |-> 0, maxReviews |-> 0]

MCScenarios ==
  {[Plain EXCEPT !.egress = policy] : policy \in EgressPolicies}
    \cup {[Plain EXCEPT !.quotas = quotas, !.budgets = budgets, !.throttle = quotas, !.maxCalls = 3] :
            quotas \in RuleLists, budgets \in {<<>>, <<Rule(<<>>, 2, "warn")>>, <<Rule(<<>>, 1, "deny")>>}}
    \cup {[Plain EXCEPT !.overrides = list, !.maxCalls = 3, !.maxReviews = 1] : list \in OverrideLists}
    \cup {[Plain EXCEPT !.level = "unverified", !.maxReviews = 5]}

MCProofs ==
  {Required[l] : l \in Levels}
    \cup {Required[l] \cup {"openHighAdvisory"} : l \in {"tested", "official"}}
    \cup {Required["maintainer_verified"] \ {"reviewFresh"}, {"revocationRef"},
          Required["official"] \cup Required["listed"]}

Symmetry == Permutations({c1, c2})

=============================================================================
