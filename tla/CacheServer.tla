----------------------------- MODULE CacheServer -----------------------------
(***************************************************************************)
(* The gRPC server over one bucket: the Put calls of PutStream together    *)
(* with the calls that read, Get and Contains.  Both read through          *)
(* cache.Service.Get, which makes two calls to Cloud Storage that other    *)
(* calls interleave with: Attrs, then NewReader.  The Update of            *)
(* last_accessed between them changes no artifact, and its failure is      *)
(* ignored; PruningService models it.                                      *)
(***************************************************************************)
EXTENDS PutStream, Sequences, FiniteSets

CONSTANTS
    Reader,         \* the Get and Contains calls
    MaxDigests      \* bound on the digests of one Contains request

ASSUME MaxDigestsAssumption == MaxDigests \in Nat \ {0}

VARIABLES
    query,      \* query[r]: what the client of r asks, kind and names
    step,       \* step[r]: where the call is
    announced,  \* announced[r]: size from Attrs, sent as Digest.SizeBytes
    opened,     \* opened[r]: the readers the call holds, oldest first
    sent,       \* sent[r]: chunks streamed to the client of a Get
    found,      \* found[r]: the Exists flags of a Contains, in order
    answer,     \* answer[r]: how the call ended
    replaced    \* history: the Gets whose name changed hands between their
                \* Attrs and their NewReader

readVars == <<query, step, announced, opened, sent, found, answer>>
allVars == <<vars, readVars, replaced>>

Query ==
    [kind : {"get"}, names : [1 .. 1 -> Key]]
        \cup [kind : {"contains"},
              names : UNION {[1 .. n -> Key] : n \in 1 .. MaxDigests}]

CInit ==
    /\ Init
    /\ query \in [Reader -> Query]
    /\ step = [r \in Reader |-> "attrs"]
    /\ announced = [r \in Reader |-> 0]
    /\ opened = [r \in Reader |-> <<>>]
    /\ sent = [r \in Reader |-> 0]
    /\ found = [r \in Reader |-> <<>>]
    /\ answer = [r \in Reader |-> "none"]
    /\ replaced = {}

(* The name a call looks up next.                                           *)
Wanted(r) == query[r].names[Len(found[r]) + 1]

(* A Get closes its reader when it returns.  A Contains closes none of its  *)
(* readers: they go with the context of the call, when it returns.          *)
Answer(r, a) ==
    /\ step' = [step EXCEPT ![r] = "done"]
    /\ answer' = [answer EXCEPT ![r] = a]

(* Contains goes on with the next digest, or returns after the last.        *)
Report(r, exists) ==
    /\ found' = [found EXCEPT ![r] = Append(@, exists)]
    /\ IF Len(found'[r]) = Len(query[r].names)
       THEN Answer(r, "ok")
       ELSE /\ step' = [step EXCEPT ![r] = "attrs"]
            /\ UNCHANGED answer

-----------------------------------------------------------------------------
(* A Get without a digest, or a Contains without any, is refused before it  *)
(* looks anything up.                                                       *)
RejectRead(r) ==
    /\ step[r] = "attrs" /\ found[r] = <<>>
    /\ Answer(r, "invalid")
    /\ UNCHANGED <<query, announced, opened, sent, found>>

GetAttrs(r) ==
    /\ step[r] = "attrs"
    /\ bucket[Wanted(r)] # NoObject
    /\ announced' = [announced EXCEPT ![r] = bucket[Wanted(r)].len]
    /\ step' = [step EXCEPT ![r] = "opening"]
    /\ UNCHANGED <<query, opened, sent, found, answer>>

(* Mutant: Contains takes every answer of Get for a hit.                    *)
LookupFailsAsHit(r) ==
    /\ step[r] \in {"attrs", "opening"}
    /\ \/ query[r].kind = "get" /\ Answer(r, "not_found") /\ UNCHANGED found
       \/ query[r].kind = "contains" /\ Report(r, TRUE)
    /\ UNCHANGED <<query, announced, opened, sent>>

(* Mutant: an object that went away after Attrs is waited for.              *)
LookupFailsAtAttrs(r) ==
    /\ step[r] = "attrs"
    /\ \/ query[r].kind = "get" /\ Answer(r, "not_found") /\ UNCHANGED found
       \/ query[r].kind = "contains" /\ Report(r, FALSE)
    /\ UNCHANGED <<query, announced, opened, sent>>

(* No object, or any error of Cloud Storage, in either call: Get answers    *)
(* NotFound, Contains reports the digest as not existing.                   *)
LookupFails(r) ==
    /\ step[r] \in {"attrs", "opening"}
    /\ \/ query[r].kind = "get" /\ Answer(r, "not_found") /\ UNCHANGED found
       \/ query[r].kind = "contains" /\ Report(r, FALSE)
    /\ UNCHANGED <<query, announced, opened, sent>>

(* A reader is pinned to the object that it was opened on.                  *)
OpenReader(r) ==
    /\ step[r] = "opening"
    /\ bucket[Wanted(r)] # NoObject
    /\ opened' = [opened EXCEPT ![r] = Append(@, bucket[Wanted(r)])]
    /\ \/ /\ query[r].kind = "get"
          /\ step' = [step EXCEPT ![r] = "streaming"]
          /\ UNCHANGED <<found, answer>>
       \/ query[r].kind = "contains" /\ Report(r, TRUE)
    /\ UNCHANGED <<query, announced, sent>>

(* Mutant: the loop reads once more after the end of the object.            *)
SendChunkPastEnd(r) ==
    /\ step[r] = "streaming" /\ sent[r] <= opened[r][1].len
    /\ sent' = [sent EXCEPT ![r] = @ + 1]
    /\ UNCHANGED <<query, step, announced, opened, found, answer>>


SendChunk(r) ==
    /\ step[r] = "streaming" /\ sent[r] < opened[r][1].len
    /\ sent' = [sent EXCEPT ![r] = @ + 1]
    /\ UNCHANGED <<query, step, announced, opened, found, answer>>

(* Send or Read fails: the client is gone or the storage connection is.     *)
StreamFails(r) ==
    /\ step[r] = "streaming"
    /\ Answer(r, "internal")
    /\ UNCHANGED <<query, announced, opened, sent, found>>

(* Mutant: a read error is taken for the end of the object.                 *)
GetEndsOnError(r) ==
    /\ step[r] = "streaming"
    /\ Answer(r, "ok")
    /\ UNCHANGED <<query, announced, opened, sent, found>>

(* Mutant: the error of Read is looked at before its data: the last chunk,  *)
(* which comes with io.EOF, is dropped.                                     *)
GetEndsDroppingLast(r) ==
    /\ step[r] = "streaming" /\ sent[r] >= opened[r][1].len - 1
    /\ Answer(r, "ok")
    /\ UNCHANGED <<query, announced, opened, sent, found>>

GetEnds(r) ==
    /\ step[r] = "streaming" /\ sent[r] = opened[r][1].len
    /\ Answer(r, "ok")
    /\ UNCHANGED <<query, announced, opened, sent, found>>

ReaderStep(r) ==
    RejectRead(r) \/ GetAttrs(r) \/ LookupFails(r) \/ OpenReader(r)
        \/ SendChunk(r) \/ StreamFails(r) \/ GetEnds(r)

(* The replica that dies takes the calls of both kinds that it serves.      *)
ReplicaCrash ==
    \E S \in SUBSET {u \in Upload : handler[u] \in InFlight},
       R \in SUBSET {r \in Reader : step[r] # "done"} :
        /\ R # {}
        /\ Crash(S)
        /\ step' = [r \in Reader |-> IF r \in R THEN "done" ELSE step[r]]
        /\ answer' = [r \in Reader |-> IF r \in R THEN "crashed" ELSE answer[r]]
        /\ UNCHANGED <<query, announced, opened, sent, found, replaced>>

(* A Put or an eviction may come between the two calls of a Get's lookup.   *)
Overtaken ==
    {r \in Reader : /\ query[r].kind = "get" /\ step[r] = "opening"
                    /\ bucket'[Wanted(r)] # bucket[Wanted(r)]}

CNext ==
    \/ Next /\ UNCHANGED readVars /\ replaced' = replaced \cup Overtaken
    \/ \E r \in Reader : ReaderStep(r) /\ UNCHANGED <<vars, replaced>>
    \/ ReplicaCrash

(* A Get or Contains runs until it returns: its client takes the chunks or  *)
(* goes away.  No fairness is needed of the Puts.                           *)
CSpec ==
    /\ CInit /\ [][CNext]_allVars
    /\ \A r \in Reader : WF_allVars(ReaderStep(r) /\ UNCHANGED <<vars, replaced>>)

-----------------------------------------------------------------------------
ReadTypeOK ==
    /\ query \in [Reader -> Query]
    /\ step \in [Reader -> {"attrs", "opening", "streaming", "done"}]
    /\ announced \in [Reader -> Chunks]
    /\ opened \in [Reader -> Seq(Object)]
    /\ sent \in [Reader -> Chunks]
    /\ found \in [Reader -> Seq(BOOLEAN)]
    /\ answer \in [Reader -> {"none", "ok", "invalid", "not_found", "internal",
                              "crashed"}]
    /\ replaced \subseteq Reader

IsWhole(obj, k) ==
    request[obj.by].key = k /\ request[obj.by].chunks = obj.len

(* A Get that succeeds has streamed one whole artifact of the name asked    *)
(* for, whatever overwrote, evicted or cancelled in the meantime.           *)
GetDeliversWholeArtifact ==
    \A r \in Reader :
        query[r].kind = "get" /\ answer[r] = "ok" =>
            /\ IsWhole(opened[r][1], query[r].names[1])
            /\ sent[r] = opened[r][1].len

(* The digest of every GetResponse carries the size that Attrs gave, the    *)
(* data comes from the reader opened later.  They differ only when another  *)
(* object came under the name between the two calls, not when that happens  *)
(* before, during the streaming, or on a stream that left part of an        *)
(* artifact.                                                                *)
AnnouncedSizeIsSent ==
    \A r \in Reader \ replaced :
        query[r].kind = "get" =>
            /\ opened[r] # <<>> => announced[r] = opened[r][1].len
            /\ answer[r] = "ok" => announced[r] = sent[r]

(* What a Contains reports as existing was opened as a whole artifact of    *)
(* that very digest: no flag is attached to another digest of the request.  *)
ContainsReportsWholeArtifacts ==
    \A r \in Reader :
        query[r].kind = "contains" =>
            LET hits == {i \in DOMAIN found[r] : found[r][i]} IN
            \A i \in hits :
                LET nth == Cardinality({j \in hits : j <= i}) IN
                nth <= Len(opened[r]) /\ IsWhole(opened[r][nth], query[r].names[i])

(* Every Get and Contains returns.                                          *)
ReadsReturn == \A r \in Reader : <>(step[r] = "done")
=============================================================================
