---------------------------- MODULE MCPolicyLoop ----------------------------
(***************************************************************************)
(* Bounds for PolicyLoop and PolicyTooling: up to two rules over eight     *)
(* kinds of match, and up to three permissions, so that a rule can shadow  *)
(* a later one, a rule can hold for one permission and not for another,    *)
(* the reduce meets ties, and a destructive permission is allowed broadly, *)
(* by Capability only, or by name.                                         *)
(***************************************************************************)
EXTENDS PolicyTooling

MCMatches == {<<>>, [risk |-> "read_only"], [risk |-> "write"], [channel |-> "mcp"],
              [risk |-> "write", channel |-> "cli"]}

MCScopedMatches ==
  {[risk |-> "destructive"],
   [risk |-> "destructive", capabilityId |-> "cap"],
   [risk |-> "destructive", capabilityId |-> "cap", resource |-> "issue", action |-> "use"]}

MCRules ==
  [match : MCMatches, decision : Decisions] \cup [match : MCScopedMatches, decision : {"allow"}]
    \cup [match : {[risk |-> "write"]}, decision : {"allow"}, id : {"writes"}]

MCPolicySets ==
  [default : Decisions,
   rules   : {<<>>} \cup [1..1 -> MCRules] \cup [1..2 -> MCRules]]

MCPermissions(risks) == [resource : {"issue"}, action : {"use"}, risk : risks]

MCPermissionLists ==
  {<<>>} \cup UNION {[1..n -> MCPermissions({"read_only", "write", "destructive"})] : n \in 1..2}
    \cup [1..3 -> MCPermissions({"read_only", "write"})]

MCInput(ids, channels) ==
  [capabilityId : ids, permissions : MCPermissionLists, channel : channels,
   host : {Undefined}, trustLevel : {Undefined}]

MCInputs == MCInput({"cap"}, {"cli", "mcp"}) \cup MCInput({"other"}, {"cli"})

=============================================================================
