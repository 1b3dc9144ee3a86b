--------------------------- MODULE TrustTransition ---------------------------
(***************************************************************************)
(* evaluateTrustLevelTransition: whether a reviewer may move a Capability  *)
(* from its trust level to another one, or revoke it, on the evidence      *)
(* given.  Evidence is the set of what holds of it, by the names below.    *)
(***************************************************************************)
EXTENDS Naturals, Sequences

TrustLevels == <<"unverified", "listed", "tested", "maintainer_verified", "official">>

Levels == {TrustLevels[k] : k \in DOMAIN TrustLevels}

Targets == Levels \cup {"revoked"}

LevelIndex == [level \in Levels |-> CHOOSE k \in DOMAIN TrustLevels : TrustLevels[k] = level]

\* What an upgrade to a level asks for (validateUpgradeTarget).
Required ==
  [unverified          |-> {},
   listed              |-> {"manifestValid", "packageValid", "reviewChecklistPassed"},
   tested              |-> {"registryTestsPassing", "conformanceRef"},
   maintainer_verified |-> {"maintainerVerified", "leastPrivilegePass", "reviewFresh"},
   official            |-> {"coreMaintainer", "releaseGatePass"}]

Freezing == {"openHighAdvisory", "registryTestsFailing"}

Evidence ==
  SUBSET (UNION {Required[level] : level \in Levels} \cup Freezing \cup {"revocationRef"})

Kind(from, to, evidence) ==
  CASE to = "revoked" -> "revoke"
    [] to # "revoked" /\ to = from -> "noop"
    [] OTHER -> IF LevelIndex[to] > LevelIndex[from]
                THEN IF evidence \cap Freezing # {} THEN "freeze" ELSE "upgrade"
                ELSE "downgrade"

\* Mutant: a promotion may skip levels.
AnyStep(from, to) == TRUE

Stepwise(from, to) == LevelIndex[to] = LevelIndex[from] + 1

\* No finding, and not frozen.
TransitionAllowed(from, to, evidence, reasonGiven) ==
  /\ reasonGiven
  /\ Kind(from, to, evidence) # "freeze"
  /\ Kind(from, to, evidence) = "upgrade" => Stepwise(from, to) /\ Required[to] \subseteq evidence
  /\ Kind(from, to, evidence) = "revoke" => "revocationRef" \in evidence

=============================================================================
