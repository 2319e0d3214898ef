---------------------------- MODULE MCCacheServer ----------------------------
(* Model values for the runs of CacheServer.                                *)
EXTENDS CacheServer

CONSTANTS k1, k2, u1, u2, r1

MCTwoKeys == {k1, k2}
MCUpload == {u1, u2}
MCReader == {r1}
=============================================================================
