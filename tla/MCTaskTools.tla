----------------------------- MODULE MCTaskTools -----------------------------
(* Instances of TaskTools for TLC.                                         *)
EXTENDS TaskTools, TLC

CONSTANTS r1, r2, t1, w1, k1
=============================================================================
