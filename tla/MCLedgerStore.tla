---------------------------- MODULE MCLedgerStore ----------------------------
(***************************************************************************)
(* Bounds for LedgerStore: two writers build three records at two times,   *)
(* so that records reach a file against the order of their times, an       *)
(* append follows a torn one, and a listing of page size 1 needs several   *)
(* pages while it grows.                                                   *)
(***************************************************************************)
EXTENDS LedgerStore, TLC

CONSTANTS w1, w2

Capability(lifecycle) ==
  [recordKind |-> "capability", capabilityId |-> "cap", version |-> "1", rawOrSecret |-> FALSE,
   lifecycle |-> lifecycle, identityLifecycle |-> "active"]

Policy(event) ==
  [recordKind |-> "policy", policySetId |-> "default", event |-> event, rawOrSecret |-> FALSE,
   toRevision |-> "r1", activeRevision |-> "none", policyDigest |-> "d1"]

Invocation(status, rawOrSecret) ==
  [recordKind |-> "invocation", requestId |-> "req", capabilityId |-> "cap", channel |-> "cli",
   status |-> status, rawOrSecret |-> rawOrSecret]

MCDrafts ==
  {Capability("revoked"), Policy("activation"), Policy("failed_activation"),
   Invocation("success", FALSE), Invocation("failed", TRUE),
   [recordKind |-> "compatibility", hostId |-> "host", profileId |-> "mcp",
    capabilityId |-> "other", result |-> "pass", rawOrSecret |-> FALSE]}

MCListings ==
  {[recordKind |-> "capability", given |-> [lifecycle |-> "revoked"]],
   [recordKind |-> "policy", given |-> [revision |-> "r1", since |-> 2]]}

MCLookups ==
  {[recordKind |-> "policy", given |-> [policySetId |-> "default"]],
   [recordKind |-> "invocation", given |-> [requestId |-> "req"]],
   [recordKind |-> "compatibility", given |-> [hostId |-> "host", profileId |-> "mcp"]]}

MCExports ==
  {[kinds |-> Range(Kinds), capability |-> {}, limit |-> 1],
   [kinds |-> Range(Kinds), capability |-> {"cap"}, limit |-> 2]}

Symmetry == Permutations({w1, w2})

=============================================================================
