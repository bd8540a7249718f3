---------------------------- MODULE MCDurableRun ----------------------------
(* Instances of DurableRun for TLC.                                        *)
EXTENDS DurableRun, TLC

CONSTANTS v1, v2, v3

Symmetry == Permutations(Reviewer)
=============================================================================
