---------------------------- MODULE PolicyOverride ----------------------------
(***************************************************************************)
(* applyPolicyOverrides and consumePolicyOverride: the first record that   *)
(* is valid, matches the call and is stopped by no safety gate replaces    *)
(* the policy's decision.  A record has id, type, match (the fields it     *)
(* names), dataClasses, reasonGiven and expiresAt, a time or Invalid.      *)
(***************************************************************************)
EXTENDS Naturals, Sequences

CONSTANT BreakglassMax  \* the longest life of a breakglass record, 15 minutes

ASSUME BreakglassAssumption == BreakglassMax \in Nat

OverrideTypes == {"allow_once", "allow_until", "deny_override", "breakglass"}

Invalid == 0  \* an expiresAt that is no timestamp

\* validatePolicyOverrideRecord: the codes of the findings.
Findings(record, now) ==
  (IF record.type = "breakglass" /\ ~ record.reasonGiven THEN {"OVERRIDE_REASON_REQUIRED"} ELSE {})
    \cup IF record.expiresAt = Invalid THEN {"OVERRIDE_EXPIRATION_INVALID"}
         ELSE (IF record.expiresAt <= now THEN {"OVERRIDE_EXPIRED"} ELSE {})
                \cup IF record.type = "breakglass" /\ record.expiresAt > now + BreakglassMax
                     THEN {"BREAKGLASS_EXPIRATION_TOO_LONG"} ELSE {}

RecordMatches(record, context) ==
  /\ \A field \in DOMAIN record.match : record.match[field] = context[field]
  /\ record.dataClasses \subseteq context.dataClasses

\* Mutant: a revoked Capability is left to the lifecycle gate.
BlockedByEgressOrRisk(record, context) ==
  /\ record.type # "deny_override"
  /\ \/ context.dataEgressDecision = "deny"
     \/ ~ context.outboundAllowed
     \/ context.risk = "financial"

\* safetyBlockReason is defined.
SafetyBlocks(record, context) ==
  /\ record.type # "deny_override"
  /\ \/ context.dataEgressDecision = "deny"
     \/ ~ context.outboundAllowed
     \/ context.capabilityStatus \in {"revoked", "malicious"}
     \/ context.risk = "financial"

Applicable(record, context, now) ==
  /\ Findings(record, now) = {}
  /\ RecordMatches(record, context)
  /\ ~ SafetyBlocks(record, context)

NoOverride == [id |-> "none", type |-> "none"]

\* The decision, and the record it comes from or NoOverride.
ApplyPolicyOverrides(base, records, context, now) ==
  LET applicable == {k \in DOMAIN records : Applicable(records[k], context, now)}
      first      == records[CHOOSE k \in applicable : \A j \in applicable : k <= j]
  IN  IF applicable = {} THEN [decision |-> base, override |-> NoOverride]
      ELSE [decision |-> IF first.type = "deny_override" THEN "deny" ELSE "allow",
            override |-> [id |-> first.id, type |-> first.type]]

\* Mutant: the record that was used stays among the remaining ones.
NothingConsumed(result, records) == records

\* The records without those of an id, in their order.
Without(records, id) ==
  LET kept[k \in 0..Len(records)] ==
        IF k = 0 THEN <<>>
        ELSE IF records[k].id # id THEN Append(kept[k - 1], records[k]) ELSE kept[k - 1]
  IN  kept[Len(records)]

\* What is left for the caller to store after a result.
RemainingOverrides(result, records) ==
  IF result.override.type # "allow_once" THEN records
  ELSE Without(records, result.override.id)

=============================================================================
