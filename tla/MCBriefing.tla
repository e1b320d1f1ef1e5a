----------------------------- MODULE MCBriefing -----------------------------
(* BriefingOps for TLC: the runs are interchangeable.                      *)
EXTENDS BriefingOps, TLC

Symmetry == Permutations(Run)
=============================================================================
