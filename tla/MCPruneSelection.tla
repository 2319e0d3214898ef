--------------------------- MODULE MCPruneSelection ---------------------------
(* Sizes in units of 100 MB (2 is large); ages for each branch of the       *)
(* heuristics.                                                              *)
EXTENDS PruneSelection

MCSizes == {1, 2}
MCAges == {0, 2, 4, 8, 31}
MCNeeds == {1, 3, 5}
=============================================================================
