----------------------------- MODULE MCIncidents -----------------------------
(* Small instances of Incidents for TLC.                                   *)
EXTENDS Incidents, TLC

CONSTANTS w1, w2, i1, i2

RunSymmetry == Permutations(Workers) \cup Permutations(Ids)
=============================================================================
