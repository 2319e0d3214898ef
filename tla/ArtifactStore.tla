---------------------------- MODULE ArtifactStore ----------------------------
(***************************************************************************)
(* What the build cache promises its clients about Put: an upload takes    *)
(* effect at once and whole, at most once, and before it is acknowledged.  *)
(* One that is refused never takes effect; one that failed may have, or    *)
(* may still.  A name holds one artifact or nothing, and eviction may      *)
(* empty it at any time: this is a cache.                                  *)
(***************************************************************************)
CONSTANTS Key, Upload, Nothing

VARIABLES
    store,      \* store[k]: the upload whose artifact k holds, or Nothing
    target,     \* target[u]: the name upload u is for
    applied,    \* the uploads that took effect
    status      \* status[u]: open, acked, refused or failed

vars == <<store, target, applied, status>>

Init ==
    /\ store = [k \in Key |-> Nothing]
    /\ target \in [Upload -> Key]
    /\ applied = {}
    /\ status = [u \in Upload |-> "open"]

Store(u) ==
    /\ u \notin applied /\ status[u] # "refused"
    /\ store' = [store EXCEPT ![target[u]] = u]
    /\ applied' = applied \cup {u}
    /\ UNCHANGED <<target, status>>

Ack(u) ==
    /\ status[u] = "open" /\ u \in applied
    /\ status' = [status EXCEPT ![u] = "acked"]
    /\ UNCHANGED <<store, target, applied>>

Refuse(u) ==
    /\ status[u] = "open" /\ u \notin applied
    /\ status' = [status EXCEPT ![u] = "refused"]
    /\ UNCHANGED <<store, target, applied>>

(* Calls fail one by one, or together when the process serving them dies.   *)
Fail(S) ==
    /\ \A u \in S : status[u] = "open"
    /\ status' = [u \in Upload |-> IF u \in S THEN "failed" ELSE status[u]]
    /\ UNCHANGED <<store, target, applied>>

Evict(k) ==
    /\ store' = [store EXCEPT ![k] = Nothing]
    /\ UNCHANGED <<target, applied, status>>

Next ==
    \/ \E u \in Upload : Store(u) \/ Ack(u) \/ Refuse(u)
    \/ \E S \in SUBSET Upload : Fail(S)
    \/ \E k \in Key : Evict(k)

Spec == Init /\ [][Next]_vars
=============================================================================
