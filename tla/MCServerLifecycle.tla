-------------------------- MODULE MCServerLifecycle --------------------------
(* Model values for the run of ServerLifecycle.                             *)
EXTENDS ServerLifecycle

CONSTANTS k1, k2, u1, u2

MCKey == {k1, k2}
MCUpload == {u1, u2}
=============================================================================
