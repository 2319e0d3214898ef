------------------------------ MODULE GcsPruner ------------------------------
(***************************************************************************)
(* The external pruner (pruning-service/internal/gcs/gcs.go and            *)
(* cmd/pruner/main.go), a CronJob that prunes the bucket the server        *)
(* replicas store into.  A job lists the bucket page by page, orders what  *)
(* it has seen by Updated and deletes by name, while clients store and     *)
(* read and the pruners of the replicas delete.                            *)
(*                                                                         *)
(* Every write advances the clock, so that the time of its creation        *)
(* identifies an object (its generation in Cloud Storage).                 *)
(***************************************************************************)
EXTENDS Integers, FiniteSetsExt

CONSTANTS
    NumKeys,        \* object names are 1 .. NumKeys, in the order of listings
    Sizes,          \* sizes of objects
    MaxTotalBytes,  \* Config.MaxTotalBytes
    MinAge,         \* Config.MinAgeToDelete
    MaxTime,        \* bound on the clock, and so on the writes of clients
    MaxErrors,      \* bound on failing calls, killed jobs, foreign deletions
    NoObject        \* what a name without an object holds

ASSUME GcsAssumption ==
    /\ NumKeys \in Nat /\ Sizes \subseteq Nat \ {0} /\ MaxTotalBytes \in Nat
    /\ MaxTime \in Nat /\ MinAge \in 1 .. MaxTime /\ MaxErrors \in Nat

VARIABLES
    bucket,     \* bucket[k]: the object named k, or NoObject
    now,        \* the clock of Cloud Storage and of the job
    pc,         \* where the job is
    cursor,     \* the name the iterator has come to
    objects,    \* the attributes listed, of objects not yet passed
    failed,     \* the attributes of objects that could not be deleted
    totalBytes, \* the variable of Prune
    threshold,  \* the variable of Prune
    listed,     \* all attributes listed (the slice before the loop)
    zeroBatch,  \* Config.DeleteBatchSize is 0
    lost,       \* bytes that went from under the names listed without being
                \* subtracted: others deleted or replaced an object, or the
                \* answer to a deletion was lost  (history)
    errors      \* failures so far

vars == <<bucket, now, pc, cursor, objects, failed, totalBytes, threshold,
          listed, zeroBatch, lost, errors>>

Key == 1 .. NumKeys
Object == [size : Sizes, created : 0 .. MaxTime, updated : 0 .. MaxTime]
ASSUME NoObjectAssumption == NoObject \notin Object

Attrs == [name : Key, size : Sizes, created : 0 .. MaxTime, updated : 0 .. MaxTime]

Present == {k \in Key : bucket[k] # NoObject}
BucketBytes == MapThenSumSet(LAMBDA k : bucket[k].size, Present)
AttrsOf(k) == [name |-> k, size |-> bucket[k].size,
               created |-> bucket[k].created, updated |-> bucket[k].updated]

Active == pc \in {"scanning", "deleting"}
Names == {o.name : o \in listed}

Init ==
    /\ bucket \in [Key -> {NoObject} \cup {[size |-> s, created |-> 0, updated |-> 0] : s \in Sizes}]
    /\ now = MinAge
    /\ pc = "waiting"
    /\ cursor = 1
    /\ objects = {} /\ failed = {} /\ listed = {}
    /\ totalBytes = 0 /\ threshold = 0
    /\ zeroBatch \in BOOLEAN
    /\ lost = 0
    /\ errors = 0

-----------------------------------------------------------------------------
(* The job.                                                                 *)

(* The CronJob starts a job, or Kubernetes the container of one that died   *)
(* (concurrencyPolicy Forbid, restartPolicy OnFailure): nothing is kept.    *)
Start ==
    /\ pc \in {"waiting", "dead"}
    /\ pc' = "scanning"
    /\ UNCHANGED <<bucket, now, cursor, objects, failed, totalBytes, threshold,
                   listed, zeroBatch, lost, errors>>

(* The process ends, and its variables with it.                             *)
Ends(where) ==
    /\ pc' = where /\ cursor' = 1
    /\ objects' = {} /\ failed' = {} /\ listed' = {}
    /\ totalBytes' = 0 /\ threshold' = 0
    /\ lost' = 0
    /\ UNCHANGED zeroBatch

(* it.Next returns the object at the iterator, or there is none.            *)
ScanObject ==
    /\ pc = "scanning" /\ cursor \in Present
    /\ objects' = objects \cup {AttrsOf(cursor)}
    /\ listed' = listed \cup {AttrsOf(cursor)}
    /\ totalBytes' = totalBytes + bucket[cursor].size
    /\ cursor' = cursor + 1
    /\ UNCHANGED <<bucket, now, pc, failed, threshold, zeroBatch, lost, errors>>

ScanGap ==
    /\ pc = "scanning" /\ cursor \in Key \ Present
    /\ cursor' = cursor + 1
    /\ UNCHANGED <<bucket, now, pc, objects, failed, totalBytes, threshold,
                   listed, zeroBatch, lost, errors>>

(* The listing is complete.                                                 *)
UnderLimit ==
    /\ pc = "scanning" /\ cursor > NumKeys /\ totalBytes <= MaxTotalBytes
    /\ Ends("waiting")
    /\ UNCHANGED <<bucket, now, errors>>

(* Mutant: the age is added to the present.                                 *)
OverLimitInFuture ==
    /\ pc = "scanning" /\ cursor > NumKeys /\ totalBytes > MaxTotalBytes
    /\ pc' = "deleting" /\ threshold' = now + MinAge
    /\ UNCHANGED <<bucket, now, cursor, objects, failed, totalBytes, listed,
                   zeroBatch, lost, errors>>

OverLimit ==
    /\ pc = "scanning" /\ cursor > NumKeys /\ totalBytes > MaxTotalBytes
    /\ pc' = "deleting" /\ threshold' = now - MinAge
    /\ UNCHANGED <<bucket, now, cursor, objects, failed, totalBytes, listed,
                   zeroBatch, lost, errors>>

(* The loop goes by Updated, oldest first; sort.Slice is not stable.        *)
Oldest(o) == o \in objects /\ \A p \in objects : o.updated <= p.updated

(* Mutant: an object exactly as old as the threshold is skipped.            *)
SkipNotOlder ==
    /\ pc = "deleting" /\ totalBytes > MaxTotalBytes
    /\ \E o \in objects :
          /\ Oldest(o) /\ o.updated >= threshold
          /\ objects' = objects \ {o}
    /\ UNCHANGED <<bucket, now, pc, cursor, failed, totalBytes, threshold,
                   listed, zeroBatch, lost, errors>>

SkipRecent ==
    /\ pc = "deleting" /\ totalBytes > MaxTotalBytes
    /\ \E o \in objects :
          /\ Oldest(o) /\ o.updated > threshold
          /\ objects' = objects \ {o}
    /\ UNCHANGED <<bucket, now, pc, cursor, failed, totalBytes, threshold,
                   listed, zeroBatch, lost, errors>>

(* Mutant: the loop does not look at the total.                             *)
DeleteUnconditionally ==
    /\ pc = "deleting"
    /\ \E o \in objects :
          /\ Oldest(o) /\ o.updated <= threshold
          /\ o.name \in Present
          /\ bucket' = [bucket EXCEPT ![o.name] = NoObject]
          /\ objects' = objects \ {o}
          /\ totalBytes' = totalBytes - o.size
    /\ UNCHANGED <<now, pc, cursor, failed, threshold, listed, zeroBatch, lost, errors>>

(* Deletion is by name, without a precondition.                             *)
DeleteObject ==
    /\ pc = "deleting" /\ totalBytes > MaxTotalBytes /\ ~zeroBatch
    /\ \E o \in objects :
          /\ Oldest(o) /\ o.updated <= threshold
          /\ o.name \in Present
          /\ bucket' = [bucket EXCEPT ![o.name] = NoObject]
          /\ objects' = objects \ {o}
          /\ totalBytes' = totalBytes - o.size
    /\ UNCHANGED <<now, pc, cursor, failed, threshold, listed, zeroBatch, lost, errors>>

(* The remainder of the deletions so far by a batch size of 0 panics.       *)
DeletePanics ==
    /\ pc = "deleting" /\ totalBytes > MaxTotalBytes /\ zeroBatch
    /\ \E o \in objects :
          /\ Oldest(o) /\ o.updated <= threshold
          /\ o.name \in Present
          /\ bucket' = [bucket EXCEPT ![o.name] = NoObject]
    /\ Ends("dead")
    /\ UNCHANGED <<now, errors>>

(* Mutant: an object that could not be deleted is subtracted as well.       *)
DeleteFailsSubtracting ==
    /\ pc = "deleting" /\ totalBytes > MaxTotalBytes
    /\ \E o \in objects :
          /\ Oldest(o) /\ o.updated <= threshold
          /\ \/ o.name \notin Present /\ UNCHANGED errors
             \/ errors < MaxErrors /\ errors' = errors + 1
          /\ objects' = objects \ {o}
          /\ failed' = failed \cup {o}
          /\ totalBytes' = totalBytes - o.size
    /\ UNCHANGED <<bucket, now, pc, cursor, threshold, listed, zeroBatch, lost>>

(* The object is gone (ErrObjectNotExist is an error here), or the call     *)
(* fails: logged, passed over, and still counted in totalBytes.             *)
DeleteFails ==
    /\ pc = "deleting" /\ totalBytes > MaxTotalBytes
    /\ \E o \in objects :
          /\ Oldest(o) /\ o.updated <= threshold
          /\ \/ o.name \notin Present /\ UNCHANGED errors
             \/ errors < MaxErrors /\ errors' = errors + 1
          /\ objects' = objects \ {o}
          /\ failed' = failed \cup {o}
    /\ UNCHANGED <<bucket, now, pc, cursor, totalBytes, threshold, listed, zeroBatch, lost>>

(* The object is deleted, the answer is an error all the same.              *)
DeleteAnswerLost ==
    /\ pc = "deleting" /\ totalBytes > MaxTotalBytes /\ errors < MaxErrors
    /\ \E o \in objects :
          /\ Oldest(o) /\ o.updated <= threshold
          /\ o.name \in Present
          /\ bucket' = [bucket EXCEPT ![o.name] = NoObject]
          /\ objects' = objects \ {o}
          /\ failed' = failed \cup {o}
          /\ lost' = lost + bucket[o.name].size
    /\ errors' = errors + 1
    /\ UNCHANGED <<now, pc, cursor, totalBytes, threshold, listed, zeroBatch>>

(* Mutant: a deletion that fails ends the loop.                             *)
FinishOnFailure ==
    /\ pc = "deleting" /\ (totalBytes <= MaxTotalBytes \/ objects = {} \/ failed # {})
    /\ Ends("waiting")
    /\ UNCHANGED <<bucket, now, errors>>

(* The loop ends, main returns.                                             *)
Finish ==
    /\ pc = "deleting" /\ (totalBytes <= MaxTotalBytes \/ objects = {})
    /\ Ends("waiting")
    /\ UNCHANGED <<bucket, now, errors>>

(* The listing fails and main ends with log.Fatal, or the node dies.        *)
Die ==
    /\ Active /\ errors < MaxErrors
    /\ Ends("dead")
    /\ errors' = errors + 1
    /\ UNCHANGED <<bucket, now>>

Job ==
    \/ Start \/ ScanObject \/ ScanGap \/ UnderLimit \/ OverLimit
    \/ SkipRecent \/ DeleteObject \/ DeletePanics \/ DeleteFails \/ DeleteAnswerLost
    \/ Finish \/ Die

-----------------------------------------------------------------------------
(* The other users of the bucket.                                           *)

(* A Put of a replica creates or replaces the object.                       *)
Store(k, s) ==
    /\ now < MaxTime
    /\ now' = now + 1
    /\ bucket' = [bucket EXCEPT ![k] = [size |-> s, created |-> now', updated |-> now']]
    /\ lost' = IF k \in Names \cap Present /\ s < bucket[k].size
               THEN lost + bucket[k].size ELSE lost
    /\ UNCHANGED <<pc, cursor, objects, failed, totalBytes, threshold, listed,
                   zeroBatch, errors>>

(* A Get that hits sets last_accessed, and the update of the metadata sets  *)
(* Updated.                                                                 *)
Access(k) ==
    /\ now < MaxTime /\ k \in Present
    /\ now' = now + 1
    /\ bucket' = [bucket EXCEPT ![k].updated = now']
    /\ UNCHANGED <<pc, cursor, objects, failed, totalBytes, threshold, listed,
                   zeroBatch, lost, errors>>

(* The pruner of a replica, or the lifecycle rule of the bucket.            *)
DeletedByOther(k) ==
    /\ k \in Present /\ errors < MaxErrors
    /\ bucket' = [bucket EXCEPT ![k] = NoObject]
    /\ lost' = IF k \in Names THEN lost + bucket[k].size ELSE lost
    /\ errors' = errors + 1
    /\ UNCHANGED <<now, pc, cursor, objects, failed, totalBytes, threshold, listed,
                   zeroBatch>>

Tick ==
    /\ now < MaxTime
    /\ now' = now + 1
    /\ UNCHANGED <<bucket, pc, cursor, objects, failed, totalBytes, threshold,
                   listed, zeroBatch, lost, errors>>

Next ==
    \/ Job
    \/ \E k \in Key : \/ Access(k) \/ DeletedByOther(k)
                      \/ \E s \in Sizes : Store(k, s)
    \/ Tick

(* The CronJob is scheduled every day and its process runs.                 *)
Spec == Init /\ [][Next]_vars /\ WF_vars(Job)

-----------------------------------------------------------------------------
TypeOK ==
    /\ bucket \in [Key -> Object \cup {NoObject}]
    /\ now \in 0 .. MaxTime
    /\ pc \in {"waiting", "scanning", "deleting", "dead"}
    /\ cursor \in 1 .. NumKeys + 1
    /\ objects \subseteq Attrs /\ failed \subseteq Attrs /\ listed \subseteq Attrs
    /\ totalBytes \in Nat /\ threshold \in 0 .. MaxTime
    /\ zeroBatch \in BOOLEAN /\ lost \in Nat /\ errors \in 0 .. MaxErrors

(* The generation that was listed as o is still in the bucket.              *)
Remains(o) == o.name \in Present /\ bucket[o.name].created = o.created

(* Stats.Total is never below what is left of the objects that were listed: *)
(* a job that reports a size within the limit has brought them within it,   *)
(* whatever failed or was replaced or deleted in between.                   *)
ReportedTotalIsSafe ==
    MapThenSumSet(LAMBDA o : o.size, {o \in listed : Remains(o)}) <= totalBytes

(* A job that deletes from a bucket within its limit is wrong about it by   *)
(* no more than was lost: what others took from under the names it listed,  *)
(* by deleting an object or replacing it by a smaller one, and what it      *)
(* deleted itself without being told.  Failed deletions, objects that came  *)
(* or grew meanwhile and jobs that died before add nothing to that.         *)
DeletesOnlyOverLimit ==
    [][pc = "deleting" /\ Present' # Present /\ objects' # objects
          => BucketBytes + lost > MaxTotalBytes]_vars

(* A job that ends over its limit has tried everything old enough: what     *)
(* remains of its listing was recent then, or could not be deleted.         *)
GivesUpOnlyOnRecent ==
    [][pc = "deleting" /\ pc' = "waiting" /\ totalBytes > MaxTotalBytes =>
          \A o \in listed : Remains(o) => o.updated > threshold \/ o \in failed]_vars

(* Once clients are quiet, the bucket comes down to its limit or to objects *)
(* too recent to delete, through failures, restarts and other pruners.      *)
ComesDown ==
    []<>(BucketBytes <= MaxTotalBytes \/ \A k \in Present : bucket[k].updated > now - MinAge)
=============================================================================
