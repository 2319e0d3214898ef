------------------------------ MODULE PutStream ------------------------------
(***************************************************************************)
(* The Put handler of the gRPC server (pkg/grpc/server/cache_server.go)    *)
(* together with cache.Service.Put (internal/cache/service.go).            *)
(*                                                                         *)
(* One Put is two goroutines.  The pump receives the client's messages     *)
(* and writes them to a pipe; the handler copies the pipe into a Cloud     *)
(* Storage writer, closes the writer (which is what makes the object       *)
(* visible), and only then asks the pump, over errChan, how it ended.      *)
(*                                                                         *)
(* An artifact is the sequence of its chunks, of which only the number     *)
(* matters: an object [by |-> u, len |-> n] is the first n chunks of the   *)
(* artifact that upload u carries.                                         *)
(***************************************************************************)
EXTENDS Integers

CONSTANTS
    Key,            \* object names of the bucket
    Upload,         \* the Put calls
    MaxChunks,      \* bound on the chunks of one artifact
    BadMessages,    \* TRUE: Recv may fail while the call's context is alive
                    \* (a message over the size limit, or undecodable)
    NoObject        \* what a name without an object holds

ASSUME MaxChunksAssumption == MaxChunks \in Nat
ASSUME BadMessagesAssumption == BadMessages \in BOOLEAN

Chunks == 0 .. MaxChunks
Object == [by : Upload, len : Chunks]
ASSUME NoObjectAssumption == NoObject \notin Object

VARIABLES
    bucket,     \* bucket[k]: the visible object of name k, or NoObject
    request,    \* request[u]: what the client of u intends to send
    cancelled,  \* the calls whose stream.Context() is done
    handler,    \* handler[u]: where the handler goroutine of u is
    pump,       \* pump[u]: where the pump goroutine of u is
    errChan,    \* errChan[u]: the content of the channel of capacity 1
    received,   \* received[u]: chunks the pump has taken from the stream
    written,    \* written[u]: chunks handed to the storage writer
    pending,    \* calls whose final request is with Cloud Storage, undecided
    stored,     \* stored[u]: length of the object u committed, or NotStored
    result      \* result[u]: how the call ended

vars == <<bucket, request, cancelled, handler, pump, errChan, received,
          written, pending, stored, result>>

NotStored == -1

(* What the client intends; the size in the digest it sends is never        *)
(* compared with the data and left out.                                     *)
Request == [key : Key, chunks : Chunks]

InFlight == {"copying", "closing", "waiting"}

Init ==
    /\ bucket = [k \in Key |-> NoObject]
    /\ request \in [Upload -> Request]
    /\ cancelled = {}
    /\ handler = [u \in Upload |-> "idle"]
    /\ pump = [u \in Upload |-> "off"]
    /\ errChan = [u \in Upload |-> "empty"]
    /\ received = [u \in Upload |-> 0]
    /\ written = [u \in Upload |-> 0]
    /\ pending = {}
    /\ stored = [u \in Upload |-> NotStored]
    /\ result = [u \in Upload |-> "none"]

(* The handler returns, which also ends the stream's context: a pump that   *)
(* is still in Recv gets an error.  Nothing closes the pipe's read end.     *)
Return(u, r) ==
    /\ handler' = [handler EXCEPT ![u] = "done"]
    /\ result' = [result EXCEPT ![u] = r]
    /\ cancelled' = cancelled \cup {u}

(* The object of a finished writer replaces what its name held.             *)
MakeVisible(u) ==
    /\ bucket' = [bucket EXCEPT ![request[u].key] =
                                     [by |-> u, len |-> written[u]]]
    /\ stored' = [stored EXCEPT ![u] = written[u]]

-----------------------------------------------------------------------------
(* The handler.                                                             *)

(* Mutant: the goroutine is started before the metadata is checked.         *)
RejectAfterPump(u) ==
    /\ handler[u] = "idle"
    /\ Return(u, "invalid")
    /\ pump' = [pump EXCEPT ![u] = "writing"]
    /\ UNCHANGED <<bucket, request, errChan, received, written, pending,
                   stored>>

(* The first Recv fails, or the metadata or its digest is missing.          *)
Reject(u) ==
    /\ handler[u] = "idle"
    /\ Return(u, "invalid")
    /\ UNCHANGED <<bucket, request, pump, errChan, received, written, pending,
                   stored>>

(* The first message is good; its data, when it has any, is the first chunk *)
(* and the pump starts by writing it.                                       *)
Accept(u) ==
    /\ handler[u] = "idle"
    /\ handler' = [handler EXCEPT ![u] = "copying"]
    /\ \/ /\ pump' = [pump EXCEPT ![u] = "receiving"]
          /\ UNCHANGED received
       \/ /\ request[u].chunks > 0
          /\ received' = [received EXCEPT ![u] = 1]
          /\ pump' = [pump EXCEPT ![u] = "writing"]
    /\ UNCHANGED <<bucket, request, cancelled, errChan, written, pending,
                   stored, result>>

(* One round of io.Copy: the read end takes the pump's chunk, which lets    *)
(* the pump go on, and the storage writer accepts it.                       *)
CopyChunk(u) ==
    /\ handler[u] = "copying" /\ pump[u] = "writing"
    /\ pump' = [pump EXCEPT ![u] = "receiving"]
    /\ written' = [written EXCEPT ![u] = @ + 1]
    /\ UNCHANGED <<bucket, request, cancelled, handler, errChan, received,
                   pending, stored, result>>

(* Mutant: the writer is closed on the error path as if it could commit.    *)
CopyFailsCommitting(u) ==
    /\ handler[u] = "copying" /\ pump[u] = "writing"
    /\ pump' \in {pump, [pump EXCEPT ![u] = "receiving"]}
    /\ MakeVisible(u)
    /\ Return(u, "storage_error")
    /\ UNCHANGED <<request, errChan, received, written, pending>>

(* The storage writer fails: the upload is given up, nothing is visible.    *)
(* The pump goes on when io.Copy had taken the whole chunk, and stays in    *)
(* pw.Write when the chunk is larger than the buffer of io.Copy.            *)
CopyFails(u) ==
    /\ handler[u] = "copying" /\ pump[u] = "writing"
    /\ pump' \in {pump, [pump EXCEPT ![u] = "receiving"]}
    /\ Return(u, "storage_error")
    /\ UNCHANGED <<bucket, request, errChan, received, written, pending,
                   stored>>

(* Mutant: the writer is created with a context that outlives the call.     *)
CopyEndsOnBackground(u) ==
    /\ handler[u] = "copying" /\ pump[u] = "exited"
    /\ handler' = [handler EXCEPT ![u] = "closing"]
    /\ pending' = pending \cup {u}
    /\ UNCHANGED <<bucket, request, cancelled, pump, errChan, received,
                   written, stored, result>>

(* The pipe's write end is closed, without an error whatever ended the      *)
(* pump: io.Copy sees the end of the data, and writer.Close sends the final *)
(* request, unless the writer's context is done.                            *)
CopyEnds(u) ==
    /\ handler[u] = "copying" /\ pump[u] = "exited"
    /\ handler' = [handler EXCEPT ![u] = "closing"]
    /\ pending' = pending \cup ({u} \ cancelled)
    /\ UNCHANGED <<bucket, request, cancelled, pump, errChan, received,
                   written, stored, result>>

Commit(u) ==
    /\ handler[u] = "closing" /\ stored[u] # NotStored
    /\ handler' = [handler EXCEPT ![u] = "waiting"]
    /\ UNCHANGED <<bucket, request, cancelled, pump, errChan, received,
                   written, pending, stored, result>>

(* The writer never sent the request, storage refused it, or the answer is  *)
(* lost: then the object is visible already or may still become so.         *)
CommitFails(u) ==
    /\ handler[u] = "closing"
    /\ Return(u, "storage_error")
    /\ UNCHANGED <<bucket, request, pump, errChan, received, written, pending,
                   stored>>

PumpFailed(u) ==
    /\ handler[u] = "waiting" /\ errChan[u] = "error"
    /\ errChan' = [errChan EXCEPT ![u] = "empty"]
    /\ Return(u, "stream_error")
    /\ UNCHANGED <<bucket, request, pump, received, written, pending, stored>>

(* Mutant: the handler answers without looking at what errChan carries.     *)
ReplyUnchecked(u) ==
    /\ handler[u] = "waiting" /\ errChan[u] # "empty"
    /\ errChan' = [errChan EXCEPT ![u] = "empty"]
    /\ \/ u \notin cancelled /\ Return(u, "ok")
       \/ Return(u, "response_error")
    /\ UNCHANGED <<bucket, request, pump, received, written, pending, stored>>

(* SendAndClose fails at any time, and succeeds only on a live context.     *)
Reply(u) ==
    /\ handler[u] = "waiting" /\ errChan[u] = "nil"
    /\ errChan' = [errChan EXCEPT ![u] = "empty"]
    /\ \/ u \notin cancelled /\ Return(u, "ok")
       \/ Return(u, "response_error")
    /\ UNCHANGED <<bucket, request, pump, received, written, pending, stored>>

-----------------------------------------------------------------------------
(* The pump.  Messages without data change nothing and are left out.        *)

(* Mutant: one message too many is taken.                                   *)
RecvChunkPastEnd(u) ==
    /\ pump[u] = "receiving" /\ received[u] <= request[u].chunks
    /\ received' = [received EXCEPT ![u] = @ + 1]
    /\ pump' = [pump EXCEPT ![u] = "writing"]
    /\ UNCHANGED <<bucket, request, cancelled, handler, errChan, written,
                   pending, stored, result>>

(* A message that arrived before the context was done may still be read.    *)
RecvChunk(u) ==
    /\ pump[u] = "receiving" /\ received[u] < request[u].chunks
    /\ received' = [received EXCEPT ![u] = @ + 1]
    /\ pump' = [pump EXCEPT ![u] = "writing"]
    /\ UNCHANGED <<bucket, request, cancelled, handler, errChan, written,
                   pending, stored, result>>

PumpEnds(u, outcome) ==
    /\ errChan' = [errChan EXCEPT ![u] = outcome]
    /\ pump' = [pump EXCEPT ![u] = "leaving"]
    /\ UNCHANGED <<bucket, request, cancelled, handler, received, written,
                   pending, stored, result>>

RecvEOF(u) ==
    /\ pump[u] = "receiving" /\ received[u] = request[u].chunks
    /\ PumpEnds(u, "nil")

(* Mutant: the goroutine returns on an error without sending it.            *)
RecvFailsSilently(u) ==
    /\ pump[u] = "receiving"
    /\ \/ u \in cancelled
       \/ BadMessages /\ received[u] < request[u].chunks
    /\ PumpEnds(u, "empty")

(* The context is done, or the next message cannot be received.             *)
RecvFails(u) ==
    /\ pump[u] = "receiving"
    /\ \/ u \in cancelled
       \/ BadMessages /\ received[u] < request[u].chunks
    /\ PumpEnds(u, "error")

(* The deferred pw.Close runs after the send on errChan.                    *)
PumpCloses(u) ==
    /\ pump[u] = "leaving"
    /\ pump' = [pump EXCEPT ![u] = "exited"]
    /\ UNCHANGED <<bucket, request, cancelled, handler, errChan, received,
                   written, pending, stored, result>>

-----------------------------------------------------------------------------
(* The environment.                                                         *)

(* The client goes away or its deadline passes.                             *)
Cancel(u) ==
    /\ handler[u] \in InFlight /\ u \notin cancelled
    /\ cancelled' = cancelled \cup {u}
    /\ UNCHANGED <<bucket, request, handler, pump, errChan, received, written,
                   pending, stored, result>>

(* Cloud Storage carries a final request out, late perhaps: its call may    *)
(* have failed, or its process died.                                        *)
Land(u) ==
    /\ u \in pending
    /\ MakeVisible(u)
    /\ pending' = pending \ {u}
    /\ UNCHANGED <<request, cancelled, handler, pump, errChan, received,
                   written, result>>

(* A pruner or the bucket's lifecycle rule removes an object.               *)
Evict(k) ==
    /\ bucket[k] # NoObject
    /\ bucket' = [bucket EXCEPT ![k] = NoObject]
    /\ UNCHANGED <<request, cancelled, handler, pump, errChan, received,
                   written, pending, stored, result>>

(* A replica dies with the calls S that it serves; what their writers have  *)
(* not sent never becomes visible.                                          *)
Crash(S) ==
    /\ handler' = [u \in Upload |-> IF u \in S THEN "done" ELSE handler[u]]
    /\ result' = [u \in Upload |-> IF u \in S THEN "crashed" ELSE result[u]]
    /\ pump' = [u \in Upload |-> IF u \in S THEN "exited" ELSE pump[u]]
    /\ cancelled' = cancelled \cup S
    /\ UNCHANGED <<bucket, request, errChan, received, written, pending,
                   stored>>

-----------------------------------------------------------------------------
HandlerStep(u) ==
    \/ CopyChunk(u) \/ CopyFails(u) \/ CopyEnds(u)
    \/ Commit(u) \/ CommitFails(u)
    \/ PumpFailed(u) \/ Reply(u)

PumpStep(u) == RecvChunk(u) \/ RecvEOF(u) \/ RecvFails(u) \/ PumpCloses(u)

UploadStep(u) ==
    \/ Reject(u) \/ Accept(u) \/ HandlerStep(u) \/ PumpStep(u)
    \/ Cancel(u) \/ Land(u)

Next ==
    \/ \E u \in Upload : UploadStep(u)
    \/ \E k \in Key : Evict(k)
    \/ \E S \in SUBSET {u \in Upload : handler[u] \in InFlight} :
          S # {} /\ Crash(S)

(* Goroutines run; a client's stream ends or fails sooner or later (the     *)
(* fairness of RecvChunk, RecvEOF and RecvFails).  Nothing else is fair.    *)
Fairness == \A u \in Upload : WF_vars(HandlerStep(u)) /\ WF_vars(PumpStep(u))

Spec == Init /\ [][Next]_vars /\ Fairness

-----------------------------------------------------------------------------
TypeOK ==
    /\ bucket \in [Key -> Object \cup {NoObject}]
    /\ request \in [Upload -> Request]
    /\ cancelled \subseteq Upload
    /\ handler \in [Upload -> {"idle", "done"} \cup InFlight]
    /\ pump \in [Upload -> {"off", "receiving", "writing", "leaving", "exited"}]
    /\ errChan \in [Upload -> {"empty", "nil", "error"}]
    /\ received \in [Upload -> Chunks]
    /\ written \in [Upload -> Chunks]
    /\ pending \subseteq Upload
    /\ stored \in [Upload -> Chunks \cup {NotStored}]
    /\ result \in [Upload -> {"none", "ok", "invalid", "storage_error",
                              "stream_error", "response_error", "crashed"}]

(* How the two goroutines of a Put stay in step: the chunk counts on the    *)
(* two sides of the pipe, and what errChan holds while the handler waits.   *)
InStep(u) ==
    /\ handler[u] = "idle" =>
           /\ pump[u] = "off" /\ errChan[u] = "empty"
           /\ received[u] = 0 /\ written[u] = 0
    /\ handler[u] = "copying" =>
           /\ pump[u] # "off"
           /\ received[u] = written[u] + (IF pump[u] = "writing" THEN 1 ELSE 0)
    /\ handler[u] \in {"closing", "waiting"} =>
           pump[u] = "exited" /\ received[u] = written[u]
    /\ handler[u] \in InFlight /\ pump[u] \in {"leaving", "exited"} =>
           errChan[u] # "empty"
    /\ errChan[u] = "nil" => received[u] = request[u].chunks
    /\ handler[u] = "waiting" => stored[u] = written[u]
    /\ u \in pending \/ stored[u] # NotStored =>
           handler[u] \in {"closing", "waiting", "done"} /\ result[u] # "invalid"
    /\ u \in pending => handler[u] # "waiting" /\ stored[u] = NotStored
    /\ stored[u] # NotStored => stored[u] = written[u]
    /\ handler[u] # "done" => result[u] = "none"

GoroutinesInStep == \A u \in Upload : InStep(u)

(* While a call is in flight on clean streams, only a dead context makes    *)
(* its pump report an error.                                                *)
ErrorMeansCancelled ==
    \A u \in Upload :
        handler[u] \in InFlight /\ errChan[u] = "error" => u \in cancelled

(* A client that is told its Put succeeded has its whole artifact in the    *)
(* object that Put made visible, whatever was lost, cancelled or reordered  *)
(* between the two goroutines.                                              *)
AckedUploadIsWhole ==
    \A u \in Upload : result[u] = "ok" => stored[u] = request[u].chunks

(* No object holds part of an artifact: a cancelled, failed or crashed Put  *)
(* leaves the bucket alone or stores all of its artifact.  The pipe ends    *)
(* without an error even when the stream failed, so only the dead context   *)
(* keeps the partial data from being committed: BadMessages = TRUE refutes  *)
(* this.                                                                    *)
NoTruncatedObject ==
    \A k \in Key : bucket[k] # NoObject =>
        LET u == bucket[k].by IN
            /\ request[u].key = k
            /\ bucket[k].len = request[u].chunks

(* The pump goroutine is left behind, blocked for ever in pw.Write because  *)
(* nobody closes the read end, only by a Put that failed on storage: on     *)
(* every other return it has left the pipe or was never started.            *)
PumpOutlivesOnlyStorageErrors ==
    \A u \in Upload :
        result[u] \notin {"none", "storage_error"} => pump[u] \in {"off", "exited"}

(* Every accepted Put returns: the handler never waits for ever on the pipe *)
(* or on errChan.                                                           *)
PutReturns ==
    \A u \in Upload : handler[u] = "copying" ~> handler[u] = "done"

(* The artifact store that the bucket stands for: an object that is not one *)
(* whole artifact under its own name is Torn, which no artifact store holds.*)
HeldBy(k) ==
    LET u == bucket[k].by IN
    IF bucket[k] = NoObject THEN NoObject
    ELSE IF request[u].key = k /\ bucket[k].len = request[u].chunks THEN u
    ELSE "torn"

StatusOf(u) ==
    CASE result[u] = "none" -> "open"
      [] result[u] = "ok" -> "acked"
      [] result[u] = "invalid" -> "refused"
      [] OTHER -> "failed"

Artifacts == INSTANCE ArtifactStore WITH
    Nothing <- NoObject,
    store <- [k \in Key |-> HeldBy(k)],
    target <- [u \in Upload |-> request[u].key],
    applied <- {u \in Upload : stored[u] # NotStored},
    status <- [u \in Upload |-> StatusOf(u)]

(* A Put is atomic for everyone who reads the bucket, although it runs in   *)
(* two goroutines and is committed before the pump's outcome is known.      *)
PutIsAtomic == Artifacts!Spec
=============================================================================
