--------------------------- MODULE MCPruningService ---------------------------
(* Model values for the runs of PruningService.                             *)
EXTENDS PruningService

CONSTANTS p1, p2, k1, k2, k3, k4

MCOne == {p1}
MCTwo == {p1, p2}
MCKey == {k1, k2, k3, k4}
MCStray == {k4}
MCNone == {}
=============================================================================
