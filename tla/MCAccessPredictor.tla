-------------------------- MODULE MCAccessPredictor --------------------------
(* Model values for the run of AccessPredictor.                             *)
EXTENDS AccessPredictor, TLC

CONSTANTS k1, k2, a1, a2, a3, g1

MCKey == {k1, k2}
MCAccess == {a1, a2, a3}
MCReader == {g1}
MCSymmetry == Permutations(MCKey) \cup Permutations(MCAccess)
=============================================================================
