----------------------------- MODULE MCInstall -----------------------------
(***************************************************************************)
(* Three installers of two versions: enough for a check that is stale      *)
(* because of a second process and a third one that meets what the two     *)
(* left behind.                                                            *)
(***************************************************************************)
EXTENDS InstalledLoader, TLC

CONSTANTS p1, p2, p3, v1, v2

MCInstallers == {p1, p2, p3}
MCVersions == {v1, v2}

MCSymmetry == Permutations(MCInstallers) \cup Permutations(MCVersions)

\* Two installers for the run with a crash.
MCPair == {p1, p2}

=============================================================================
