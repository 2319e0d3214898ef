--------------------------- MODULE MCChaosEngineer ---------------------------
(* Model values for the run of ChaosEngineer.                               *)
EXTENDS ChaosEngineer

CONSTANTS r1, r2, q1, q2, q3, q4

MCRun == {r1, r2}
MCDeployed == {q1, q2, q3}
MCPod == {q1, q2, q3, q4}
=============================================================================
