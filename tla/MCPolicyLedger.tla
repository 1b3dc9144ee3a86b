---------------------------- MODULE MCPolicyLedger ----------------------------
(***************************************************************************)
(* Bounds for PolicyLedger: three processes and four changes of two        *)
(* revisions, so that a change overlaps two others and a chain of          *)
(* revisions is longer than its overlap, with two failures.                *)
(***************************************************************************)
EXTENDS PolicyLedger, TLC

CONSTANTS p1, p2, p3

Symmetry == Permutations({p1, p2, p3})

=============================================================================
