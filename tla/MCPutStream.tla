----------------------------- MODULE MCPutStream -----------------------------
(* Model values for the run of PutStream.                                   *)
EXTENDS PutStream

CONSTANTS k1, u1, u2

MCKey == {k1}
MCUpload == {u1, u2}
=============================================================================
