--------------------------- MODULE MCControlPlane ---------------------------
(* Small instances of ControlPlane for TLC.                                *)
EXTENDS ControlPlane, TLC

CONSTANTS w1, w2, q1, q2, q3, q4

QueueIdSymmetry == Permutations(QueueIds) \cup Permutations(Workers)
=============================================================================
