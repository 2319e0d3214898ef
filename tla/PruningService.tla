---------------------------- MODULE PruningService ----------------------------
(***************************************************************************)
(* The in-server pruner (internal/pruning/service.go).  Every replica of   *)
(* the cache server runs one over the same bucket: a cycle measures the    *)
(* bucket, lists it, selects in memory and deletes one object after the    *)
(* other, while clients store and read and other replicas prune.           *)
(*                                                                         *)
(* All objects have size 1, so that sizes are counts.  Of last_accessed    *)
(* only the class matters that the selection uses: recent (within a day),  *)
(* old, expired (beyond RetentionDays).                                    *)
(***************************************************************************)
EXTENDS SelectionContract

CONSTANTS
    Replica,        \* the replicas of the server
    Key,            \* object names
    Stray,          \* those of objects without cache_key, outside "cache/": no
                    \* call reaches them; List dates them by attrs.Updated
    MaxCacheSize,   \* Config.MaxCacheSize, in objects
    MaxWrites,      \* bound on the stores and accesses of clients
    MaxAges,        \* bound on the objects that grow a class older
    MaxErrors       \* bound on failing calls to Cloud Storage, and crashes

ASSUME PruningAssumption ==
    /\ IsFiniteSet(Key) /\ Stray \subseteq Key
    /\ MaxCacheSize \in Nat \ {0}
    /\ MaxWrites \in Nat /\ MaxAges \in Nat /\ MaxErrors \in Nat

(* int64(float64(MaxCacheSize) * 0.8)                                       *)
Target == (MaxCacheSize * 8) \div 10

VARIABLES
    object,     \* object[k]: the class of k's last access, or "absent"
    pc,         \* pc[p]: where the pruner of p is
    need,       \* need[p]: bytesToRemove, from the size measured first
    queue,      \* queue[p]: what is still to be deleted, as it was listed
    undisturbed,\* the pruners since whose measure no other one deleted
    writes,     \* stores and accesses of clients so far
    ages,       \* objects that grew a class older so far
    errors      \* failures so far

vars == <<object, pc, need, queue, undisturbed, writes, ages, errors>>

Class == {"recent", "old", "expired"}
Present == {k \in Key : object[k] # "absent"}
Listed(c) == {k \in Key : object[k] = c}
Entries(K) == {[key |-> k, expired |-> object[k] = "expired"] : k \in K}

Init ==
    /\ object \in [Key -> Class \cup {"absent"}]
    /\ pc = [p \in Replica |-> "start"]
    /\ need = [p \in Replica |-> 0]
    /\ queue = [p \in Replica |-> {}]
    /\ undisturbed = {}
    /\ writes = 0 /\ ages = 0 /\ errors = 0

-----------------------------------------------------------------------------
(* One cycle of one pruner.                                                 *)

(* RunPruning is left, and what it computed is gone.                        *)
Leave(p, where) ==
    /\ pc' = [pc EXCEPT ![p] = where]
    /\ need' = [need EXCEPT ![p] = 0]
    /\ undisturbed' = undisturbed \ {p}

(* The ticker fires, or a restarted replica begins with an initial cycle.   *)
Begin(p) ==
    /\ pc[p] \in {"waiting", "down"}
    /\ pc' = [pc EXCEPT ![p] = "start"]
    /\ UNCHANGED <<object, need, queue, undisturbed, writes, ages, errors>>

(* GetTotalSize: within the limit there is nothing to do.                   *)
WithinLimit(p) ==
    /\ pc[p] = "start" /\ Cardinality(Present) <= MaxCacheSize
    /\ Leave(p, "waiting")
    /\ UNCHANGED <<object, queue, writes, ages, errors>>

(* Mutant: the limit is not checked.                                        *)
OverLimitUnchecked(p) ==
    /\ pc[p] = "start"
    /\ pc' = [pc EXCEPT ![p] = "listing"]
    /\ need' = [need EXCEPT ![p] = Cardinality(Present) - Target]
    /\ undisturbed' = undisturbed \cup {p}
    /\ UNCHANGED <<object, queue, writes, ages, errors>>

(* Mutant: the target is not subtracted.                                    *)
OverLimitToNothing(p) ==
    /\ pc[p] = "start" /\ Cardinality(Present) > MaxCacheSize
    /\ pc' = [pc EXCEPT ![p] = "listing"]
    /\ need' = [need EXCEPT ![p] = Cardinality(Present)]
    /\ undisturbed' = undisturbed \cup {p}
    /\ UNCHANGED <<object, queue, writes, ages, errors>>

OverLimit(p) ==
    /\ pc[p] = "start" /\ Cardinality(Present) > MaxCacheSize
    /\ pc' = [pc EXCEPT ![p] = "listing"]
    /\ need' = [need EXCEPT ![p] = Cardinality(Present) - Target]
    /\ undisturbed' = undisturbed \cup {p}
    /\ UNCHANGED <<object, queue, writes, ages, errors>>

(* List, a second pass over the bucket, and the selection from what it      *)
(* returned.  Deletion goes by the names in that list, and no longer by the *)
(* amount.                                                                  *)
ListAndSelect(p) ==
    LET X == Listed("expired") O == Listed("old") K == Listed("recent") IN
    /\ pc[p] = "listing" /\ ~Panics(X, O, K, need[p])
    /\ \E S \in Selections(X, O, K, need[p]) :
          queue' = [queue EXCEPT ![p] = Entries(S)]
    /\ pc' = [pc EXCEPT ![p] = "deleting"]
    /\ need' = [need EXCEPT ![p] = 0]
    /\ UNCHANGED <<object, undisturbed, writes, ages, errors>>

(* The selection panics: no goroutine of the server recovers, the process   *)
(* ends.                                                                    *)
SelectionPanics(p) ==
    /\ pc[p] = "listing"
    /\ Panics(Listed("expired"), Listed("old"), Listed("recent"), need[p])
    /\ Leave(p, "down")
    /\ UNCHANGED <<object, queue, writes, ages, errors>>

(* The objects that Delete finds for the key listed for k: List returns the *)
(* cache_key of an object, which sanitizeKey maps to its name again, but of *)
(* a stray one its name, which sanitizeKey maps to one that does not exist. *)
Sanitized(k) == IF k \in Stray THEN {} ELSE {k}

(* toDelete holds what the first pass selected, the expired, before the     *)
(* rest; the order within each part is that of a listing or of a sort.      *)
Foremost(Q) == {e \in Q : (\E f \in Q : f.expired) => e.expired}

(* Mutant: Delete does not sanitize its key, finds no object of that name,  *)
(* and reports success.                                                     *)
DeleteUnsanitized(p) ==
    /\ pc[p] = "deleting"
    /\ \E e \in Foremost(queue[p]) : queue' = [queue EXCEPT ![p] = @ \ {e}]
    /\ undisturbed' = undisturbed \cap {p}
    /\ UNCHANGED <<object, pc, need, writes, ages, errors>>

(* cache.Delete: the object, whatever it is by now, is removed; one that is *)
(* not there counts as deleted.                                             *)
DeleteNext(p) ==
    /\ pc[p] = "deleting"
    /\ \E e \in Foremost(queue[p]) :
          /\ object' = [k \in Key |-> IF k \in Sanitized(e.key) THEN "absent" ELSE object[k]]
          /\ queue' = [queue EXCEPT ![p] = @ \ {e}]
    /\ undisturbed' = undisturbed \cap {p}
    /\ UNCHANGED <<pc, need, writes, ages, errors>>

(* A deletion that fails is logged and passed over.                         *)
DeleteFails(p) ==
    /\ pc[p] = "deleting" /\ errors < MaxErrors
    /\ \E e \in Foremost(queue[p]) : queue' = [queue EXCEPT ![p] = @ \ {e}]
    /\ errors' = errors + 1
    /\ UNCHANGED <<object, pc, need, undisturbed, writes, ages>>

CycleEnds(p) ==
    /\ pc[p] = "deleting" /\ queue[p] = {}
    /\ Leave(p, "waiting")
    /\ UNCHANGED <<object, queue, writes, ages, errors>>

(* GetTotalSize or List fails: the cycle is given up until the next tick.   *)
ScanFails(p) ==
    /\ pc[p] \in {"start", "listing"} /\ errors < MaxErrors
    /\ Leave(p, "waiting")
    /\ errors' = errors + 1
    /\ UNCHANGED <<object, queue, writes, ages>>

(* The replica dies at any point of its cycle.                              *)
Crash(p) ==
    /\ pc[p] # "down" /\ errors < MaxErrors
    /\ Leave(p, "down")
    /\ queue' = [queue EXCEPT ![p] = {}]
    /\ errors' = errors + 1
    /\ UNCHANGED <<object, writes, ages>>

Pruner(p) ==
    \/ Begin(p) \/ WithinLimit(p) \/ OverLimit(p)
    \/ ListAndSelect(p) \/ SelectionPanics(p)
    \/ DeleteNext(p) \/ CycleEnds(p)

-----------------------------------------------------------------------------
(* Clients and the passage of time.                                         *)

(* A Put, or a Get that hits (the Update of last_accessed).                 *)
Write(k) ==
    /\ writes < MaxWrites /\ k \notin Stray
    /\ object' = [object EXCEPT ![k] = "recent"]
    /\ writes' = writes + 1
    /\ UNCHANGED <<pc, need, queue, undisturbed, ages, errors>>

Age(k) ==
    /\ object[k] \in {"recent", "old"} /\ ages < MaxAges
    /\ object' = [object EXCEPT ![k] = IF @ = "recent" THEN "old" ELSE "expired"]
    /\ ages' = ages + 1
    /\ UNCHANGED <<pc, need, queue, undisturbed, writes, errors>>

Next ==
    \/ \E p \in Replica : Pruner(p) \/ DeleteFails(p) \/ ScanFails(p) \/ Crash(p)
    \/ \E k \in Key : Write(k) \/ Age(k)

(* The goroutine runs, its ticker fires, and Kubernetes restarts a process  *)
(* that ended.  Clients, failures and time are not fair.                    *)
Spec == Init /\ [][Next]_vars /\ \A p \in Replica : WF_vars(Pruner(p))

-----------------------------------------------------------------------------
TypeOK ==
    /\ object \in [Key -> Class \cup {"absent"}]
    /\ pc \in [Replica -> {"start", "listing", "deleting", "waiting", "down"}]
    /\ need \in [Replica -> {0} \cup (MaxCacheSize - Target + 1 .. Cardinality(Key))]
    /\ queue \in [Replica -> SUBSET [key : Key, expired : BOOLEAN]]
    /\ undisturbed \subseteq Replica
    /\ writes \in 0 .. MaxWrites
    /\ ages \in 0 .. MaxAges
    /\ errors \in 0 .. MaxErrors

(* The step deletes the object listed as e on behalf of p.                  *)
Deletes(p, e) ==
    /\ e \in queue[p] /\ e \notin queue'[p]
    /\ object[e.key] # "absent" /\ object'[e.key] = "absent"

(* Pruning ends at the target size ("80% of max to provide buffer"): what   *)
(* was not listed as expired is deleted only while the cache is above it.   *)
KeepsTarget ==
    [][\A p \in Replica : \A e \in queue[p] :
          Deletes(p, e) /\ ~e.expired => Cardinality(Present) > Target]_vars

(* So it does for a pruner that no other one disturbed, whatever clients do *)
(* between its measure, its listing and its deletions.                      *)
KeepsTargetAlone ==
    [][\A p \in undisturbed : \A e \in queue[p] :
          Deletes(p, e) /\ ~e.expired => Cardinality(Present) > Target]_vars

(* Once clients are quiet, the cache comes down to its limit.               *)
ShrinksToLimit == []<>(Cardinality(Present) <= MaxCacheSize)

(* So it does, unless its objects are such that every cycle on them panics: *)
(* the pruners, their failures and their restarts do not keep each other    *)
(* from it, and neither do stray objects of any age, which are selected     *)
(* again and again but never deleted.                                       *)
ShrinksUnlessPanics ==
    []<>(\/ Cardinality(Present) <= MaxCacheSize
         \/ Panics(Listed("expired"), Listed("old"), Listed("recent"),
                   Cardinality(Present) - Target))
=============================================================================
