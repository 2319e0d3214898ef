----------------------------- MODULE MCGcsPruner -----------------------------
(* The bounds of the runs of GcsPruner.                                     *)
EXTENDS GcsPruner

MCSizes == {1, 2}
=============================================================================
