--------------------------- MODULE PutStreamProofs ---------------------------
(***************************************************************************)
(* What PutStream guarantees for every set of uploads and names and every  *)
(* bound on the chunks.  The argument: the goroutines of one Put stay in   *)
(* step (GoroutinesInStep), so that when the handler reads nil from        *)
(* errChan what it committed is all that the pump received, and the pump   *)
(* received all that the client had to send.                               *)
(***************************************************************************)
EXTENDS PutStream, TLAPS

Inductive == TypeOK /\ GoroutinesInStep /\ AckedUploadIsWhole

LEMMA InductiveInit == Init => Inductive
<1> SUFFICES ASSUME Init PROVE Inductive
  OBVIOUS
<1> USE MaxChunksAssumption DEF Init
<1>1. TypeOK
  BY DEF TypeOK, Object, Chunks, InFlight, NotStored
<1>2. GoroutinesInStep
  BY DEF GoroutinesInStep, InStep, InFlight
<1>3. AckedUploadIsWhole
  BY DEF AckedUploadIsWhole
<1>4. QED
  BY <1>1, <1>2, <1>3 DEF Inductive

LEMMA InductiveStep == Inductive /\ [Next]_vars => Inductive'
<1> SUFFICES ASSUME Inductive, [Next]_vars PROVE Inductive'
  OBVIOUS
<1> USE MaxChunksAssumption
        DEF Inductive, TypeOK, GoroutinesInStep, InStep, AckedUploadIsWhole,
            InFlight, Chunks, Request, NotStored
<1>1. ASSUME NEW u \in Upload, Reject(u) PROVE Inductive'
  BY <1>1 DEF Reject, Return
<1>2. ASSUME NEW u \in Upload, Accept(u) PROVE Inductive'
  <2>1. CASE UNCHANGED received /\ pump' = [pump EXCEPT ![u] = "receiving"]
    BY <1>2, <2>1 DEF Accept
  <2>2. CASE request[u].chunks > 0 /\ received' = [received EXCEPT ![u] = 1]
                /\ pump' = [pump EXCEPT ![u] = "writing"]
    <3>1. request[u].chunks \in 0 .. MaxChunks /\ 1 \in 0 .. MaxChunks
      BY <2>2
    <3>2. TypeOK'
      BY <1>2, <2>2, <3>1 DEF Accept
    <3>3. GoroutinesInStep' /\ AckedUploadIsWhole'
      BY <1>2, <2>2, <3>1 DEF Accept
    <3>4. QED
      BY <3>2, <3>3
  <2>3. QED
    BY <1>2, <2>1, <2>2 DEF Accept
<1>3. ASSUME NEW u \in Upload, CopyChunk(u) PROVE Inductive'
  BY <1>3 DEF CopyChunk
<1>4. ASSUME NEW u \in Upload, CopyFails(u) PROVE Inductive'
  <2>1. CASE pump' = pump
    BY <1>4, <2>1 DEF CopyFails, Return
  <2>2. CASE pump' = [pump EXCEPT ![u] = "receiving"]
    BY <1>4, <2>2 DEF CopyFails, Return
  <2>3. QED
    BY <1>4, <2>1, <2>2 DEF CopyFails
<1>5. ASSUME NEW u \in Upload, CopyEnds(u) PROVE Inductive'
  BY <1>5 DEF CopyEnds
<1>6. ASSUME NEW u \in Upload, Commit(u) PROVE Inductive'
  BY <1>6 DEF Commit
<1>7. ASSUME NEW u \in Upload, CommitFails(u) PROVE Inductive'
  BY <1>7 DEF CommitFails, Return
<1>8. ASSUME NEW u \in Upload, Land(u) PROVE Inductive'
  BY <1>8 DEF Land, MakeVisible, Object
<1>9. ASSUME NEW u \in Upload, PumpFailed(u) PROVE Inductive'
  BY <1>9 DEF PumpFailed, Return
<1>10. ASSUME NEW u \in Upload, Reply(u) PROVE Inductive'
  <2>1. stored[u] = request[u].chunks
    BY <1>10 DEF Reply
  <2>2. PICK r \in {"ok", "response_error"} : Return(u, r)
    BY <1>10 DEF Reply
  <2>3. TypeOK'
    BY <1>10, <2>2 DEF Reply, Return
  <2>4. GoroutinesInStep'
    BY <1>10, <2>2 DEF Reply, Return
  <2>5. AckedUploadIsWhole'
    BY <1>10, <2>1, <2>2 DEF Reply, Return
  <2>6. QED
    BY <2>3, <2>4, <2>5
<1>11. ASSUME NEW u \in Upload, RecvChunk(u) PROVE Inductive'
  BY <1>11 DEF RecvChunk
<1>12. ASSUME NEW u \in Upload, RecvEOF(u) PROVE Inductive'
  BY <1>12 DEF RecvEOF, PumpEnds
<1>13. ASSUME NEW u \in Upload, RecvFails(u) PROVE Inductive'
  BY <1>13 DEF RecvFails, PumpEnds
<1>14. ASSUME NEW u \in Upload, PumpCloses(u) PROVE Inductive'
  BY <1>14 DEF PumpCloses
<1>15. ASSUME NEW u \in Upload, Cancel(u) PROVE Inductive'
  BY <1>15 DEF Cancel
<1>16. ASSUME NEW k \in Key, Evict(k) PROVE Inductive'
  BY <1>16 DEF Evict
<1>17. ASSUME NEW S \in SUBSET {u \in Upload : handler[u] \in InFlight}, Crash(S)
       PROVE Inductive'
  BY <1>17 DEF Crash
<1>18. CASE UNCHANGED vars
  BY <1>18 DEF vars
<1> HIDE DEF Inductive, TypeOK, GoroutinesInStep, InStep, AckedUploadIsWhole
<1>19. ASSUME NEW u \in Upload, UploadStep(u) PROVE Inductive'
  BY <1>1, <1>2, <1>3, <1>4, <1>5, <1>6, <1>7, <1>8, <1>9, <1>10, <1>11, <1>12,
     <1>13, <1>14, <1>15, <1>19 DEF UploadStep, HandlerStep, PumpStep
<1>20. CASE Next
  <2>1. CASE \E u \in Upload : UploadStep(u)
    BY <1>19, <2>1
  <2>2. CASE \E k \in Key : Evict(k)
    BY <1>16, <2>2
  <2>3. CASE \E S \in SUBSET {u \in Upload : handler[u] \in InFlight} :
                S # {} /\ Crash(S)
    BY <1>17, <2>3
  <2>4. QED
    BY <1>20, <2>1, <2>2, <2>3 DEF Next
<1>21. QED
  BY <1>18, <1>20

-----------------------------------------------------------------------------
(* Every reachable state is well typed, and the two goroutines of every Put *)
(* agree on how much of the artifact has passed between them.               *)
THEOREM InductiveHolds == Spec => []Inductive
<1>1. QED
  BY InductiveInit, InductiveStep, PTL DEF Spec

(* Type correctness of PutStream.                                           *)
THEOREM TypeCorrect == Spec => []TypeOK
<1>1. Inductive => TypeOK
  BY DEF Inductive
<1>2. QED
  BY <1>1, InductiveHolds, PTL

(* A Put that was acknowledged stored its whole artifact.                   *)
THEOREM AckedWhole == Spec => []AckedUploadIsWhole
<1>1. Inductive => AckedUploadIsWhole
  BY DEF Inductive
<1>2. QED
  BY <1>1, InductiveHolds, PTL

-----------------------------------------------------------------------------
(* What only holds while every message of a stream can be received.         *)
PendingIsWhole == \A u \in pending : written[u] = request[u].chunks

Clean == ErrorMeansCancelled /\ PendingIsWhole /\ NoTruncatedObject

LEMMA CleanInit == Init => Clean
  BY DEF Init, Clean, ErrorMeansCancelled, PendingIsWhole, NoTruncatedObject,
     InFlight

(* An error on errChan that no dead context explains cannot appear.         *)
LEMMA ErrorStep ==
  BadMessages = FALSE =>
    (Inductive /\ ErrorMeansCancelled /\ [Next]_vars => ErrorMeansCancelled')
<1> SUFFICES ASSUME BadMessages = FALSE, Inductive, ErrorMeansCancelled,
                    [Next]_vars
             PROVE  ErrorMeansCancelled'
  OBVIOUS
<1> USE DEF ErrorMeansCancelled, InFlight
<1>1. TypeOK /\ \A u \in Upload : InStep(u)
  BY DEF Inductive, GoroutinesInStep
<1>2. ASSUME NEW u \in Upload, HandlerStep(u) \/ Reject(u) \/ Accept(u)
      PROVE  ErrorMeansCancelled'
  BY <1>1, <1>2 DEF TypeOK, InStep, HandlerStep, CopyChunk, CopyFails, CopyEnds,
     Commit, CommitFails, PumpFailed, Reply, Reject, Accept, Return
<1>3. ASSUME NEW u \in Upload, PumpStep(u) PROVE ErrorMeansCancelled'
  BY <1>1, <1>3 DEF TypeOK, PumpStep, RecvChunk, RecvEOF, RecvFails, PumpCloses,
     PumpEnds
<1>4. ASSUME NEW u \in Upload, Cancel(u) \/ Land(u)
      PROVE  ErrorMeansCancelled'
  BY <1>4 DEF Cancel, Land
<1>5. ASSUME NEW k \in Key, Evict(k) PROVE ErrorMeansCancelled'
  BY <1>5 DEF Evict
<1>6. ASSUME NEW S \in SUBSET {u \in Upload : handler[u] \in InFlight}, Crash(S)
      PROVE ErrorMeansCancelled'
  BY <1>1, <1>6 DEF Crash, TypeOK
<1>7. CASE UNCHANGED vars
  BY <1>7 DEF vars
<1>8. QED
  BY <1>2, <1>3, <1>4, <1>5, <1>6, <1>7 DEF Next, UploadStep

(* A writer closed on a live context has been given the whole artifact, and *)
(* no data follows its final request.                                       *)
LEMMA PendingStep ==
  Inductive /\ ErrorMeansCancelled /\ PendingIsWhole /\ [Next]_vars
    => PendingIsWhole'
<1> SUFFICES ASSUME Inductive, ErrorMeansCancelled, PendingIsWhole, [Next]_vars
             PROVE  PendingIsWhole'
  OBVIOUS
<1> USE DEF PendingIsWhole
<1>1. TypeOK /\ \A u \in Upload : InStep(u)
  BY DEF Inductive, GoroutinesInStep
<1>2. ASSUME NEW u \in Upload, CopyEnds(u) PROVE PendingIsWhole'
  <2>1. CASE u \in cancelled
    BY <1>2, <2>1 DEF CopyEnds
  <2>2. CASE u \notin cancelled
    <3>1. errChan[u] = "nil"
      BY <1>1, <1>2, <2>2
         DEF TypeOK, InStep, CopyEnds, ErrorMeansCancelled, InFlight
    <3>2. written[u] = request[u].chunks
      BY <1>1, <1>2, <3>1 DEF TypeOK, InStep, CopyEnds, Chunks
    <3>3. QED
      BY <1>2, <3>2 DEF CopyEnds
  <2>3. QED
    BY <2>1, <2>2
<1>3. ASSUME NEW u \in Upload, CopyChunk(u) PROVE PendingIsWhole'
  BY <1>1, <1>3 DEF CopyChunk, InStep, TypeOK
<1>4. ASSUME NEW u \in Upload, Land(u) PROVE PendingIsWhole'
  BY <1>4 DEF Land
<1>5. ASSUME NEW u \in Upload, UploadStep(u), ~CopyEnds(u), ~CopyChunk(u),
             ~Land(u)
      PROVE  UNCHANGED <<pending, written, request>>
  BY <1>5 DEF UploadStep, HandlerStep, PumpStep, CopyFails, Commit, CommitFails,
     PumpFailed, Reply, Reject, Accept, RecvChunk, RecvEOF, RecvFails,
     PumpCloses, PumpEnds, Cancel
<1>6. ASSUME NEW k \in Key, Evict(k) PROVE PendingIsWhole'
  BY <1>6 DEF Evict
<1>7. ASSUME NEW S \in SUBSET {u \in Upload : handler[u] \in InFlight}, Crash(S)
      PROVE PendingIsWhole'
  BY <1>7 DEF Crash
<1>8. CASE UNCHANGED vars
  BY <1>8 DEF vars
<1>9. QED
  BY <1>2, <1>3, <1>4, <1>5, <1>6, <1>7, <1>8 DEF Next

(* Only a final request that lands puts an object in the bucket.            *)
LEMMA WholeStep ==
  Inductive /\ Clean /\ [Next]_vars => NoTruncatedObject'
<1> SUFFICES ASSUME Inductive, PendingIsWhole, NoTruncatedObject, [Next]_vars
             PROVE  NoTruncatedObject'
  BY DEF Clean
<1> USE DEF NoTruncatedObject
<1>1. TypeOK
  BY DEF Inductive
<1>2. ASSUME NEW u \in Upload, Land(u)
      PROVE  NoTruncatedObject'
  <2>1. /\ written[u] = request[u].chunks
        /\ request' = request
        /\ bucket' = [bucket EXCEPT ![request[u].key] =
                                         [by |-> u, len |-> written[u]]]
    BY <1>2 DEF Land, MakeVisible, PendingIsWhole
  <2>2. QED
    BY <1>1, <2>1 DEF TypeOK, Request
<1>3. ASSUME NEW u \in Upload, UploadStep(u), ~Land(u)
      PROVE  bucket' = bucket /\ request' = request
  BY <1>3 DEF UploadStep, HandlerStep, PumpStep, CopyChunk, CopyFails, CopyEnds,
     Commit, CommitFails, PumpFailed, Reply, Reject, Accept, RecvChunk, RecvEOF,
     RecvFails, PumpCloses, PumpEnds, Cancel
<1>4. ASSUME NEW k \in Key, Evict(k) PROVE NoTruncatedObject'
  BY <1>1, <1>4 DEF Evict, TypeOK
<1>5. ASSUME NEW S \in SUBSET {u \in Upload : handler[u] \in InFlight}, Crash(S)
      PROVE NoTruncatedObject'
  BY <1>5 DEF Crash
<1>6. CASE UNCHANGED vars
  BY <1>6 DEF vars
<1>7. QED
  BY <1>2, <1>3, <1>4, <1>5, <1>6 DEF Next

LEMMA CleanHolds == BadMessages = FALSE => (Spec => []Clean)
<1> SUFFICES ASSUME BadMessages = FALSE PROVE Spec => []Clean
  OBVIOUS
<1>1. Inductive /\ Clean /\ [Next]_vars => Clean'
  BY ErrorStep, PendingStep, WholeStep DEF Clean
<1>2. QED
  BY <1>1, CleanInit, InductiveHolds, PTL DEF Spec

(* On streams whose messages can all be received, no interleaving of        *)
(* cancellations, storage failures, crashes and evictions leaves part of an *)
(* artifact in the bucket.                                                  *)
THEOREM WholeObjects ==
  BadMessages = FALSE => (Spec => []NoTruncatedObject)
<1>1. Clean => NoTruncatedObject
  BY DEF Clean
<1>2. QED
  BY <1>1, CleanHolds, PTL

-----------------------------------------------------------------------------
(* The pump.                                                                *)

LEMMA PumpStepKeeps ==
  Inductive /\ PumpOutlivesOnlyStorageErrors /\ [Next]_vars
    => PumpOutlivesOnlyStorageErrors'
<1> SUFFICES ASSUME Inductive, PumpOutlivesOnlyStorageErrors, [Next]_vars
             PROVE  PumpOutlivesOnlyStorageErrors'
  OBVIOUS
<1> USE DEF PumpOutlivesOnlyStorageErrors
<1>1. TypeOK /\ \A u \in Upload : InStep(u)
  BY DEF Inductive, GoroutinesInStep
<1>2. ASSUME NEW u \in Upload, HandlerStep(u) \/ Reject(u) \/ Accept(u)
      PROVE  PumpOutlivesOnlyStorageErrors'
  BY <1>1, <1>2 DEF TypeOK, InStep, HandlerStep, CopyChunk, CopyFails, CopyEnds,
     Commit, CommitFails, PumpFailed, Reply, Reject, Accept, Return
<1>3. ASSUME NEW u \in Upload, PumpStep(u) PROVE PumpOutlivesOnlyStorageErrors'
  BY <1>1, <1>3 DEF TypeOK, PumpStep, RecvChunk, RecvEOF, RecvFails, PumpCloses,
     PumpEnds
<1>4. ASSUME NEW u \in Upload, Cancel(u) \/ Land(u)
      PROVE  PumpOutlivesOnlyStorageErrors'
  BY <1>4 DEF Cancel, Land
<1>5. ASSUME NEW k \in Key, Evict(k) PROVE PumpOutlivesOnlyStorageErrors'
  BY <1>5 DEF Evict
<1>6. ASSUME NEW S \in SUBSET {u \in Upload : handler[u] \in InFlight}, Crash(S)
      PROVE PumpOutlivesOnlyStorageErrors'
  BY <1>1, <1>6 DEF Crash, TypeOK
<1>7. CASE UNCHANGED vars
  BY <1>7 DEF vars
<1>8. QED
  BY <1>2, <1>3, <1>4, <1>5, <1>6, <1>7 DEF Next, UploadStep

(* The pump goroutine outlives its Put only when storage failed.            *)
THEOREM PumpLeavesPipe == Spec => []PumpOutlivesOnlyStorageErrors
<1>1. Init => PumpOutlivesOnlyStorageErrors
  BY DEF Init, PumpOutlivesOnlyStorageErrors
<1>2. QED
  BY <1>1, PumpStepKeeps, InductiveHolds, PTL DEF Spec

-----------------------------------------------------------------------------
(* Put is atomic: PutStream implements ArtifactStore.                       *)

LEMMA RefinesInit == Init => Artifacts!Init
<1> SUFFICES ASSUME Init PROVE Artifacts!Init
  OBVIOUS
<1>1. \A k \in Key : HeldBy(k) = NoObject
  BY DEF Init, HeldBy
<1>2. \A u \in Upload : /\ request[u].key \in Key
                        /\ stored[u] = NotStored
                        /\ StatusOf(u) = "open"
  BY DEF Init, StatusOf, Request
<1>3. QED
  BY <1>1, <1>2 DEF Artifacts!Init

(* The steps that answer one call change what its client knows, nothing     *)
(* else of the artifact store.                                              *)
LEMMA ReturnChangesStatus ==
  ASSUME TypeOK, NEW u \in Upload,
         NEW r \in {"ok", "invalid", "storage_error", "stream_error",
                    "response_error"},
         InStep(u), handler[u] # "done", Return(u, r)
  PROVE  /\ StatusOf(u) = "open"
         /\ StatusOf(u)' = CASE r = "ok" -> "acked"
                             [] r = "invalid" -> "refused"
                             [] OTHER -> "failed"
         /\ \A v \in Upload \ {u} : StatusOf(v)' = StatusOf(v)
  BY DEF TypeOK, InStep, Return, StatusOf

(* Every step of PutStream is a step of the artifact store or invisible.    *)
LEMMA RefinesStep ==
  Inductive /\ Clean /\ [Next]_vars => [Artifacts!Next]_(Artifacts!vars)
<1> SUFFICES ASSUME Inductive, Clean, [Next]_vars
             PROVE  [Artifacts!Next]_(Artifacts!vars)
  OBVIOUS
<1>1. TypeOK /\ \A u \in Upload : InStep(u)
  BY DEF Inductive, GoroutinesInStep
<1>2. ASSUME NEW u \in Upload, Land(u)
      PROVE  Artifacts!Store(u)
  <2>1. /\ written[u] = request[u].chunks
        /\ request' = request /\ result' = result
        /\ stored' = [stored EXCEPT ![u] = written[u]]
        /\ bucket' = [bucket EXCEPT ![request[u].key] =
                                         [by |-> u, len |-> written[u]]]
    BY <1>2 DEF Clean, PendingIsWhole, Land, MakeVisible
  <2>2. stored[u] = NotStored /\ written[u] # NotStored
    BY <1>1, <1>2 DEF Land, InStep, TypeOK, Chunks, NotStored
  <2>3. StatusOf(u) # "refused"
    BY <1>1, <1>2 DEF TypeOK, Land, InStep, StatusOf
  <2>4. [by |-> u, len |-> written[u]] # NoObject
    BY <1>1, NoObjectAssumption DEF TypeOK, Object
  <2>5. request[u].key \in Key
    BY <1>1 DEF TypeOK, Request
  <2>6. \A k \in Key : HeldBy(k)' = IF k = request[u].key THEN u ELSE HeldBy(k)
    BY <1>1, <2>1, <2>4, <2>5 DEF HeldBy, TypeOK
  <2>7. \A v \in Upload : StatusOf(v)' = StatusOf(v)
    BY <2>1 DEF StatusOf
  <2>8. {v \in Upload : stored[v] # NotStored}'
            = {v \in Upload : stored[v] # NotStored} \cup {u}
    BY <1>1, <2>1, <2>2 DEF TypeOK, NotStored
  <2>9. QED
    BY <2>1, <2>2, <2>3, <2>5, <2>6, <2>7, <2>8 DEF Artifacts!Store
<1>3. ASSUME NEW u \in Upload, Reply(u)
      PROVE  Artifacts!Ack(u) \/ Artifacts!Fail({u})
  <2>1. PICK r \in {"ok", "response_error"} : Return(u, r)
    BY <1>3 DEF Reply
  <2>2. /\ handler[u] = "waiting" /\ stored[u] # NotStored
        /\ bucket' = bucket /\ request' = request /\ stored' = stored
    BY <1>1, <1>3 DEF Reply, InStep, TypeOK, Chunks, NotStored
  <2>3. /\ StatusOf(u) = "open"
        /\ StatusOf(u)' = IF r = "ok" THEN "acked" ELSE "failed"
        /\ \A v \in Upload \ {u} : StatusOf(v)' = StatusOf(v)
    BY <1>1, <2>1, <2>2, ReturnChangesStatus
  <2>4. \A k \in Key : HeldBy(k)' = HeldBy(k)
    BY <2>2 DEF HeldBy
  <2>5. QED
    BY <2>2, <2>3, <2>4 DEF Artifacts!Ack, Artifacts!Fail
<1>4. ASSUME NEW u \in Upload, CopyFails(u) \/ CommitFails(u) \/ PumpFailed(u)
      PROVE  Artifacts!Fail({u})
  <2>1. PICK r \in {"storage_error", "stream_error"} : Return(u, r)
    BY <1>4 DEF CopyFails, CommitFails, PumpFailed
  <2>2. /\ handler[u] # "done"
        /\ bucket' = bucket /\ request' = request /\ stored' = stored
    BY <1>4 DEF CopyFails, CommitFails, PumpFailed
  <2>3. /\ StatusOf(u) = "open" /\ StatusOf(u)' = "failed"
        /\ \A v \in Upload \ {u} : StatusOf(v)' = StatusOf(v)
    BY <1>1, <2>1, <2>2, ReturnChangesStatus
  <2>4. \A k \in Key : HeldBy(k)' = HeldBy(k)
    BY <2>2 DEF HeldBy
  <2>5. QED
    BY <2>2, <2>3, <2>4 DEF Artifacts!Fail
<1>5. ASSUME NEW u \in Upload, Reject(u)
      PROVE  Artifacts!Refuse(u)
  <2>1. /\ handler[u] = "idle" /\ Return(u, "invalid")
        /\ bucket' = bucket /\ request' = request /\ stored' = stored
    BY <1>5 DEF Reject
  <2>2. stored[u] = NotStored
    BY <1>1, <2>1 DEF InStep
  <2>3. /\ StatusOf(u) = "open" /\ StatusOf(u)' = "refused"
        /\ \A v \in Upload \ {u} : StatusOf(v)' = StatusOf(v)
    BY <1>1, <2>1, ReturnChangesStatus
  <2>4. \A k \in Key : HeldBy(k)' = HeldBy(k)
    BY <2>1 DEF HeldBy
  <2>5. QED
    BY <2>1, <2>2, <2>3, <2>4 DEF Artifacts!Refuse
<1>6. ASSUME NEW u \in Upload,
             \/ Accept(u) \/ CopyChunk(u) \/ CopyEnds(u) \/ Commit(u)
             \/ PumpStep(u) \/ Cancel(u)
      PROVE  UNCHANGED Artifacts!vars
  <2>1. UNCHANGED <<bucket, request, result, stored>>
    BY <1>6 DEF Accept, CopyChunk, CopyEnds, Commit, PumpStep, RecvChunk,
       RecvEOF, RecvFails, PumpCloses, PumpEnds, Cancel
  <2>2. \A k \in Key : HeldBy(k)' = HeldBy(k)
    BY <2>1 DEF HeldBy
  <2>3. \A v \in Upload : StatusOf(v)' = StatusOf(v)
    BY <2>1 DEF StatusOf
  <2>4. QED
    BY <2>1, <2>2, <2>3 DEF Artifacts!vars
<1>7. ASSUME NEW k \in Key, Evict(k) PROVE Artifacts!Evict(k)
  <2>1. \A j \in Key : HeldBy(j)' = IF j = k THEN NoObject ELSE HeldBy(j)
    BY <1>1, <1>7 DEF Evict, HeldBy, TypeOK
  <2>2. \A v \in Upload : StatusOf(v)' = StatusOf(v)
    BY <1>7 DEF Evict, StatusOf
  <2>3. QED
    BY <1>7, <2>1, <2>2 DEF Artifacts!Evict, Evict
<1>8. ASSUME NEW S \in SUBSET {u \in Upload : handler[u] \in InFlight}, Crash(S)
      PROVE Artifacts!Fail(S)
  <2>1. \A u \in S : StatusOf(u) = "open" /\ StatusOf(u)' = "failed"
    BY <1>1, <1>8 DEF InFlight, InStep, Crash, StatusOf
  <2>2. \A v \in Upload \ S : StatusOf(v)' = StatusOf(v)
    BY <1>8 DEF Crash, StatusOf
  <2>3. \A k \in Key : HeldBy(k)' = HeldBy(k)
    BY <1>8 DEF Crash, HeldBy
  <2>4. QED
    BY <1>8, <2>1, <2>2, <2>3 DEF Artifacts!Fail, Crash
<1>9. CASE UNCHANGED vars
  BY <1>9 DEF vars, Artifacts!vars, HeldBy, StatusOf
<1>10. QED
  BY <1>2, <1>3, <1>4, <1>5, <1>6, <1>7, <1>8, <1>9
     DEF Next, UploadStep, HandlerStep, Artifacts!Next

(* On clean streams PutStream implements ArtifactStore: to everyone who     *)
(* reads the bucket, a Put happens at once and whole, at most once, and     *)
(* before it is acknowledged.                                               *)
THEOREM PutRefinesArtifactStore == BadMessages = FALSE => (Spec => PutIsAtomic)
<1>1. QED
  BY RefinesInit, RefinesStep, InductiveHolds, CleanHolds, PTL
     DEF Spec, PutIsAtomic, Artifacts!Spec
=============================================================================
