---------------------------- MODULE ServerProofs -----------------------------
(***************************************************************************)
(* What the server guarantees beyond a single Put, for every set of calls  *)
(* and names: Get and Contains beside the Puts (CacheServer), and the Puts *)
(* around the end of their process (ServerLifecycle).  The invariants of   *)
(* PutStreamProofs carry over to both.                                     *)
(***************************************************************************)
EXTENDS CacheServer, ServerLifecycle, PutStreamProofs, FiniteSetTheorems,
        SequenceTheorems

-----------------------------------------------------------------------------
(* Get and Contains.  A call reads its object in two steps that anything    *)
(* may happen between; what saves it is that no object is part of an        *)
(* artifact (proved of the Puts) and that an opened reader is pinned.       *)

(* The digests of a Contains found to exist, and which of its readers was   *)
(* opened for the one at position i.                                        *)
Hits(f) == {i \in DOMAIN f : f[i]}
Rank(f, i) == Cardinality({j \in Hits(f) : j <= i})

(* Where a reading call is and what it holds there.                         *)
GetInStep(r) ==
    /\ found[r] = <<>>
    /\ step[r] \in {"attrs", "opening"} => opened[r] = <<>> /\ sent[r] = 0
    /\ step[r] = "streaming" => Len(opened[r]) = 1 /\ sent[r] <= opened[r][1].len
    /\ answer[r] = "ok" =>
           step[r] = "done" /\ Len(opened[r]) = 1 /\ sent[r] = opened[r][1].len

ContainsInStep(r) ==
    /\ step[r] # "streaming"
    /\ Len(opened[r]) = Cardinality(Hits(found[r]))
    /\ Len(found[r]) <= Len(query[r].names)

ReadInStep(r) ==
    /\ step[r] # "done" =>
           Len(found[r]) < Len(query[r].names) /\ answer[r] = "none"
    /\ query[r].kind = "get" => GetInStep(r)
    /\ query[r].kind = "contains" => ContainsInStep(r)

ReadsInStep == \A r \in Reader : ReadInStep(r)

ReadInductive == TypeOK /\ ReadTypeOK /\ ReadsInStep

(* Every reader is pinned to a whole artifact of the name it was opened for.*)
ReadsWhole(r) ==
    /\ query[r].kind = "get" /\ opened[r] # <<>> =>
           IsWhole(opened[r][1], query[r].names[1])
    /\ query[r].kind = "contains" => \A i \in Hits(found[r]) :
           /\ Rank(found[r], i) \in 1 .. Len(opened[r])
           /\ IsWhole(opened[r][Rank(found[r], i)], query[r].names[i])

ReadersAreWhole == \A r \in Reader : ReadsWhole(r)

(* What Attrs told is the object that the name still holds, or the one that *)
(* the reader is pinned to, unless the name changed hands in between.       *)
AnnouncedIsHeld(r) ==
    query[r].kind = "get" /\ r \notin replaced =>
        /\ step[r] = "opening" => announced[r] = bucket[query[r].names[1]].len
        /\ opened[r] # <<>> => announced[r] = opened[r][1].len

AnnouncedAreHeld == \A r \in Reader : AnnouncedIsHeld(r)

-----------------------------------------------------------------------------
(* A request names at least one digest.                                     *)
LEMMA QueryNames ==
  ASSUME NEW q \in Query
  PROVE  /\ q.kind \in {"get", "contains"}
         /\ q.names \in Seq(Key)
         /\ Len(q.names) \in Nat \ {0}
         /\ q.kind = "get" => Len(q.names) = 1
<1>0. ASSUME NEW n \in Nat, NEW s \in [1 .. n -> Key]
      PROVE  s \in Seq(Key) /\ Len(s) = n
  OBVIOUS
<1>1. CASE q \in [kind : {"get"}, names : [1 .. 1 -> Key]]
  <2>1. q.kind = "get" /\ q.names \in [1 .. 1 -> Key]
    BY <1>1
  <2>2. q.names \in Seq(Key) /\ Len(q.names) = 1
    BY <1>0, <2>1
  <2>3. QED
    BY <2>1, <2>2
<1>2. CASE q \in [kind : {"contains"},
                  names : UNION {[1 .. n -> Key] : n \in 1 .. MaxDigests}]
  <2>1. q.kind = "contains"
    BY <1>2
  <2>2. PICK n \in 1 .. MaxDigests : q.names \in [1 .. n -> Key]
    BY <1>2
  <2>3. q.names \in Seq(Key) /\ Len(q.names) = n
    BY <2>2, MaxDigestsAssumption
  <2>4. QED
    BY <2>1, <2>2, <2>3, MaxDigestsAssumption
<1>3. QED
  BY <1>1, <1>2 DEF Query

(* One flag more: the ranks of the earlier hits stay, the new one is last.  *)
LEMMA HitsAppend ==
  ASSUME NEW f \in Seq(BOOLEAN), NEW b \in BOOLEAN
  PROVE  /\ Hits(Append(f, b)) = Hits(f) \cup (IF b THEN {Len(f) + 1} ELSE {})
         /\ Cardinality(Hits(Append(f, b)))
                = Cardinality(Hits(f)) + (IF b THEN 1 ELSE 0)
         /\ Cardinality(Hits(f)) \in Nat
         /\ \A i \in Hits(f) : Rank(Append(f, b), i) = Rank(f, i)
         /\ b => Rank(Append(f, b), Len(f) + 1) = Cardinality(Hits(f)) + 1
<1>1. /\ Len(f) \in Nat /\ DOMAIN f = 1 .. Len(f)
      /\ DOMAIN Append(f, b) = 1 .. Len(f) + 1
      /\ \A i \in 1 .. Len(f) : Append(f, b)[i] = f[i]
      /\ Append(f, b)[Len(f) + 1] = b
  OBVIOUS
<1>2. Hits(Append(f, b)) = Hits(f) \cup (IF b THEN {Len(f) + 1} ELSE {})
  BY <1>1 DEF Hits
<1>3. IsFiniteSet(Hits(f)) /\ Cardinality(Hits(f)) \in Nat
  <2>1. IsFiniteSet(1 .. Len(f))
    BY <1>1, FS_Interval
  <2>2. Hits(f) \in SUBSET (1 .. Len(f))
    BY <1>1 DEF Hits
  <2>3. QED
    BY <2>1, <2>2, FS_Subset, FS_CardinalityType
<1>4. Len(f) + 1 \notin Hits(f)
  BY <1>1 DEF Hits
<1>5. Cardinality(Hits(Append(f, b)))
          = Cardinality(Hits(f)) + (IF b THEN 1 ELSE 0)
  <2>1. CASE b
    BY <1>2, <1>3, <1>4, <2>1, FS_AddElement
  <2>2. CASE ~b
    BY <1>2, <1>3, <2>2
  <2>3. QED
    BY <2>1, <2>2
<1>6. ASSUME NEW i \in Hits(f) PROVE Rank(Append(f, b), i) = Rank(f, i)
  <2>1. {j \in Hits(Append(f, b)) : j <= i} = {j \in Hits(f) : j <= i}
    BY <1>1, <1>2 DEF Hits
  <2>2. QED
    BY <2>1 DEF Rank
<1>7. ASSUME b PROVE Rank(Append(f, b), Len(f) + 1) = Cardinality(Hits(f)) + 1
  <2>1. {j \in Hits(Append(f, b)) : j <= Len(f) + 1} = Hits(Append(f, b))
    BY <1>1 DEF Hits
  <2>2. QED
    BY <1>5, <1>7, <2>1 DEF Rank
<1>8. QED
  BY <1>2, <1>3, <1>5, <1>6, <1>7

-----------------------------------------------------------------------------
(* A step of the server, seen from the Puts: one of theirs, or none.  The   *)
(* death of a replica may take no Put with it.                              *)
LEMMA PutsStep ==
  TypeOK /\ [CNext]_allVars => [Next]_vars
<1> SUFFICES ASSUME TypeOK, ReplicaCrash PROVE [Next]_vars
  BY DEF CNext, allVars
<1>1. PICK S \in SUBSET {u \in Upload : handler[u] \in InFlight} : Crash(S)
  BY DEF ReplicaCrash
<1>2. CASE S = {}
  BY <1>1, <1>2 DEF Crash, TypeOK, vars
<1>3. CASE S # {}
  BY <1>1, <1>3 DEF Next
<1>4. QED
  BY <1>2, <1>3

(* What the client of a Put intends never changes.                          *)
LEMMA RequestFixed == [Next]_vars => request' = request
  BY DEF Next, vars, UploadStep, HandlerStep, PumpStep, CopyChunk, CopyFails,
     CopyEnds, Commit, CommitFails, PumpFailed, Reply, Reject, Accept,
     RecvChunk, RecvEOF, RecvFails, PumpCloses, PumpEnds, Cancel, Land,
     MakeVisible, Return, Evict, Crash

(* What the reading steps are to one call: its own, another's, or a crash.  *)
LEMMA ReadSteps ==
  [CNext]_allVars =>
    \/ UNCHANGED readVars /\ replaced' \subseteq replaced \cup Reader
    \/ \E r \in Reader : ReaderStep(r) /\ UNCHANGED <<vars, replaced>>
    \/ \E R \in SUBSET {r \in Reader : step[r] # "done"} :
        /\ step' = [r \in Reader |-> IF r \in R THEN "done" ELSE step[r]]
        /\ answer' = [r \in Reader |-> IF r \in R THEN "crashed" ELSE answer[r]]
        /\ UNCHANGED <<query, announced, opened, sent, found, replaced>>
  BY DEF CNext, allVars, ReplicaCrash, Overtaken

(* The name looked up next is one of the request, while the call runs.      *)
LEMMA WantedIsKey ==
  ASSUME ReadTypeOK, ReadsInStep, NEW r \in Reader, step[r] # "done"
  PROVE  /\ Len(found[r]) \in Nat /\ Wanted(r) \in Key
         /\ query[r].kind = "get" => Wanted(r) = query[r].names[1]
<1>1. query[r] \in Query /\ found[r] \in Seq(BOOLEAN)
  BY DEF ReadTypeOK
<1>2. Len(found[r]) < Len(query[r].names)
  BY DEF ReadsInStep, ReadInStep
<1>3. query[r].names \in Seq(Key) /\ Len(query[r].names) \in Nat
  BY <1>1, QueryNames
<1>4. Len(found[r]) \in Nat /\ Len(found[r]) + 1 \in 1 .. Len(query[r].names)
  BY <1>1, <1>2, <1>3
<1>5. query[r].kind = "get" => Len(found[r]) = 0
  BY DEF ReadsInStep, ReadInStep, GetInStep
<1>6. QED
  BY <1>3, <1>4, <1>5, ElementOfSeq DEF Wanted

(* One digest of a Contains more is answered: the call goes on or returns.  *)
LEMMA ReportStep ==
  ASSUME ReadTypeOK, ReadsInStep, NEW r \in Reader, step[r] # "done",
         NEW e \in BOOLEAN, Report(r, e)
  PROVE  /\ found' = [found EXCEPT ![r] = Append(found[r], e)]
         /\ found' \in [Reader -> Seq(BOOLEAN)]
         /\ Len(found'[r]) \in Nat /\ Len(found'[r]) <= Len(query[r].names)
         /\ \/ /\ Len(found'[r]) < Len(query[r].names)
               /\ step' = [step EXCEPT ![r] = "attrs"] /\ answer' = answer
            \/ /\ step' = [step EXCEPT ![r] = "done"]
               /\ answer' = [answer EXCEPT ![r] = "ok"]
<1>1. found \in [Reader -> Seq(BOOLEAN)] /\ found[r] \in Seq(BOOLEAN)
  BY DEF ReadTypeOK
<1>2. query[r].names \in Seq(Key) /\ Len(query[r].names) \in Nat
  BY QueryNames DEF ReadTypeOK
<1>3. Len(found[r]) \in Nat /\ Len(found[r]) < Len(query[r].names)
  BY <1>1 DEF ReadsInStep, ReadInStep
<1>4. /\ found' = [found EXCEPT ![r] = Append(found[r], e)]
      /\ found'[r] = Append(found[r], e)
  BY <1>1 DEF Report
<1>5. Append(found[r], e) \in Seq(BOOLEAN) /\ Len(found'[r]) = Len(found[r]) + 1
  BY <1>1, <1>4
<1>6. Len(found'[r]) \in Nat /\ Len(found'[r]) <= Len(query[r].names)
  BY <1>2, <1>3, <1>5
<1>7. found' \in [Reader -> Seq(BOOLEAN)]
  BY <1>1, <1>4, <1>5
<1>8. CASE Len(found'[r]) = Len(query[r].names)
  BY <1>4, <1>6, <1>7, <1>8 DEF Report, Answer
<1>9. CASE Len(found'[r]) # Len(query[r].names)
  <2>1. Len(found'[r]) < Len(query[r].names)
    BY <1>2, <1>6, <1>9
  <2>2. QED
    BY <1>4, <1>6, <1>7, <1>9, <2>1 DEF Report
<1>10. QED
  BY <1>8, <1>9

(* Each step of a call leaves its bookkeeping in order: this is where a     *)
(* reader's object, its count of chunks and its flags are tied together.    *)
LEMMA ReaderStepKeeps ==
  ASSUME ReadInductive, NEW r \in Reader, ReaderStep(r), UNCHANGED <<vars, replaced>>
  PROVE  ReadTypeOK' /\ ReadInStep(r)'
<1>1. ReadTypeOK /\ ReadsInStep /\ ReadInStep(r) /\ TypeOK
  BY DEF ReadInductive, ReadsInStep
<1>2. query' = query /\ bucket' = bucket
  BY DEF ReaderStep, vars, RejectRead, GetAttrs, LookupFails, OpenReader,
     SendChunk, StreamFails, GetEnds
<1>3. /\ query[r].kind \in {"get", "contains"}
      /\ query[r].names \in Seq(Key) /\ Len(query[r].names) \in Nat \ {0}
      /\ query[r].kind = "get" => Len(query[r].names) = 1
  BY <1>1, QueryNames DEF ReadTypeOK
<1>4. CASE RejectRead(r)
  <2>1. step[r] = "attrs" /\ Answer(r, "invalid")
        /\ UNCHANGED <<query, announced, opened, sent, found, replaced>>
    BY <1>4 DEF RejectRead
  <2>2. ReadTypeOK'
    BY <1>1, <2>1 DEF Answer, ReadTypeOK
  <2>3. QED
    BY <1>1, <2>1, <2>2
       DEF Answer, ReadTypeOK, ReadInStep, GetInStep, ContainsInStep
<1>5. CASE GetAttrs(r)
  <2>1. bucket[Wanted(r)].len \in Chunks
    BY <1>1, <1>5, WantedIsKey DEF GetAttrs, TypeOK, Object
  <2>2. ReadTypeOK'
    BY <1>1, <1>5, <2>1 DEF GetAttrs, ReadTypeOK
  <2>3. QED
    BY <1>1, <1>5, <2>2
       DEF GetAttrs, ReadTypeOK, ReadInStep, GetInStep, ContainsInStep, Hits
<1>6. CASE LookupFails(r)
  <2>1. step[r] \in {"attrs", "opening"}
    BY <1>6 DEF LookupFails
  <2>2. CASE query[r].kind = "get" /\ Answer(r, "not_found") /\ UNCHANGED found
    BY <1>1, <1>6, <2>2
       DEF LookupFails, Answer, ReadTypeOK, ReadInStep, GetInStep
  <2>3. CASE query[r].kind = "contains" /\ Report(r, FALSE)
    <3>1. found'[r] = Append(found[r], FALSE) /\ found[r] \in Seq(BOOLEAN)
      BY <1>1, <2>1, <2>3, ReportStep DEF ReadTypeOK
    <3>2. Cardinality(Hits(found'[r])) = Cardinality(Hits(found[r]))
      BY <3>1, HitsAppend
    <3>3. UNCHANGED <<query, announced, opened, sent>>
      BY <1>6 DEF LookupFails
    <3>4. ReadTypeOK'
      BY <1>1, <2>1, <2>3, <3>3, ReportStep DEF ReadTypeOK
    <3>5. ReadInStep(r)'
      BY <1>1, <2>1, <2>3, <3>2, <3>3, ReportStep
         DEF ReadTypeOK, ReadInStep, ContainsInStep
    <3>6. QED
      BY <3>4, <3>5
  <2>4. QED
    BY <1>6, <2>2, <2>3 DEF LookupFails
<1>7. CASE OpenReader(r)
  <2>1. step[r] = "opening" /\ bucket[Wanted(r)] \in Object
    BY <1>1, <1>7, WantedIsKey DEF OpenReader, TypeOK
  <2>2. /\ opened[r] \in Seq(Object)
        /\ opened'[r] = Append(opened[r], bucket[Wanted(r)])
        /\ opened' = [opened EXCEPT ![r] = Append(opened[r], bucket[Wanted(r)])]
    BY <1>1, <1>7 DEF OpenReader, ReadTypeOK
  <2>3. opened' \in [Reader -> Seq(Object)] /\ Len(opened'[r]) = Len(opened[r]) + 1
    BY <1>1, <2>1, <2>2, AppendProperties DEF ReadTypeOK
  <2>4. UNCHANGED <<query, announced, sent>>
    BY <1>7 DEF OpenReader
  <2>5. CASE /\ query[r].kind = "get"
             /\ step' = [step EXCEPT ![r] = "streaming"]
             /\ UNCHANGED <<found, answer>>
    <3>1. opened[r] = <<>> /\ sent[r] = 0 /\ found[r] = <<>>
      BY <1>1, <2>1, <2>5 DEF ReadInStep, GetInStep
    <3>2. opened'[r][1] = bucket[Wanted(r)] /\ Len(opened'[r]) = 1
      BY <2>1, <2>2, <3>1
    <3>3. 0 <= bucket[Wanted(r)].len
      BY <2>1 DEF Object, Chunks
    <3>4. ReadTypeOK'
      BY <1>1, <2>3, <2>4, <2>5 DEF ReadTypeOK
    <3>5. ReadInStep(r)'
      BY <1>1, <2>1, <2>4, <2>5, <3>1, <3>2, <3>3
         DEF ReadTypeOK, ReadInStep, GetInStep
    <3>6. QED
      BY <3>4, <3>5
  <2>6. CASE query[r].kind = "contains" /\ Report(r, TRUE)
    <3>1. found'[r] = Append(found[r], TRUE) /\ found[r] \in Seq(BOOLEAN)
      BY <1>1, <2>1, <2>6, ReportStep DEF ReadTypeOK
    <3>2. Cardinality(Hits(found'[r])) = Cardinality(Hits(found[r])) + 1
      BY <3>1, HitsAppend
    <3>3. ReadTypeOK'
      BY <1>1, <2>1, <2>3, <2>4, <2>6, ReportStep DEF ReadTypeOK
    <3>4. ReadInStep(r)'
      BY <1>1, <2>1, <2>3, <2>4, <2>6, <3>2, ReportStep
         DEF ReadTypeOK, ReadInStep, ContainsInStep
    <3>5. QED
      BY <3>3, <3>4
  <2>7. QED
    BY <1>7, <2>5, <2>6 DEF OpenReader
<1>8. CASE SendChunk(r)
  <2>1. /\ step[r] = "streaming" /\ query[r].kind = "get"
        /\ Len(opened[r]) = 1 /\ sent[r] < opened[r][1].len
    BY <1>1, <1>3, <1>8
       DEF SendChunk, ReadInStep, GetInStep, ContainsInStep
  <2>2. opened[r][1].len \in Chunks /\ sent[r] \in Chunks
    <3>1. opened[r] \in Seq(Object) /\ sent[r] \in Chunks
      BY <1>1 DEF ReadTypeOK
    <3>2. opened[r][1] \in Object
      BY <2>1, <3>1, ElementOfSeq
    <3>3. QED
      BY <3>1, <3>2 DEF Object
  <2>3. /\ sent' = [sent EXCEPT ![r] = sent[r] + 1]
        /\ sent[r] + 1 \in Chunks /\ sent[r] + 1 <= opened[r][1].len
    BY <1>1, <1>8, <2>1, <2>2, MaxChunksAssumption
       DEF SendChunk, Chunks, ReadTypeOK
  <2>4. UNCHANGED <<query, step, announced, opened, found, answer>>
    BY <1>8 DEF SendChunk
  <2>5. ReadTypeOK'
    BY <1>1, <2>3, <2>4 DEF ReadTypeOK
  <2>6. ReadInStep(r)'
    BY <1>1, <2>1, <2>3, <2>4 DEF ReadTypeOK, ReadInStep, GetInStep
  <2>7. QED
    BY <2>5, <2>6
<1>9. CASE StreamFails(r) \/ GetEnds(r)
  <2>1. /\ step[r] = "streaming" /\ query[r].kind = "get"
        /\ Len(opened[r]) = 1
    BY <1>1, <1>3, <1>9
       DEF StreamFails, GetEnds, ReadInStep, GetInStep, ContainsInStep
  <2>2. ReadTypeOK'
    BY <1>1, <1>9 DEF StreamFails, GetEnds, Answer, ReadTypeOK
  <2>3. ReadInStep(r)'
    BY <1>1, <1>9, <2>1
       DEF StreamFails, GetEnds, Answer, ReadTypeOK, ReadInStep, GetInStep
  <2>4. QED
    BY <2>2, <2>3
<1>10. QED
  BY <1>4, <1>5, <1>6, <1>7, <1>8, <1>9 DEF ReaderStep

LEMMA ReadInductiveInit == CInit => ReadInductive
<1> SUFFICES ASSUME CInit PROVE ReadInductive
  OBVIOUS
<1>1. TypeOK
  BY InductiveInit DEF CInit, Inductive
<1>2. 0 \in Chunks
  BY MaxChunksAssumption DEF Chunks
<1>3. ReadTypeOK
  BY <1>2 DEF CInit, ReadTypeOK
<1>4. ASSUME NEW r \in Reader PROVE ReadInStep(r)
  <2>1. /\ step[r] = "attrs" /\ opened[r] = <<>> /\ sent[r] = 0
        /\ found[r] = <<>> /\ answer[r] = "none"
    BY DEF CInit
  <2>2. Len(query[r].names) \in Nat \ {0}
    BY <1>3, QueryNames DEF ReadTypeOK
  <2>3. Hits(found[r]) = {}
    BY <2>1 DEF Hits
  <2>4. Cardinality(Hits(found[r])) = 0
    BY <2>3, FS_EmptySet
  <2>5. QED
    BY <2>1, <2>2, <2>4 DEF ReadInStep, GetInStep, ContainsInStep
<1>5. QED
  BY <1>1, <1>3, <1>4 DEF ReadInductive, ReadsInStep

LEMMA ReadInductiveStep ==
  TypeOK' /\ ReadInductive /\ [CNext]_allVars => ReadInductive'
<1> SUFFICES ASSUME TypeOK', ReadInductive, [CNext]_allVars
             PROVE  ReadInductive'
  OBVIOUS
<1>1. ReadTypeOK /\ ReadsInStep
  BY DEF ReadInductive
<1>2. CASE UNCHANGED readVars /\ replaced' \subseteq replaced \cup Reader
  BY <1>1, <1>2
     DEF ReadInductive, readVars, ReadTypeOK, ReadsInStep, ReadInStep,
         GetInStep, ContainsInStep
<1>3. ASSUME NEW r \in Reader, ReaderStep(r), UNCHANGED <<vars, replaced>>
      PROVE  ReadInductive'
  <2>1. ReadTypeOK' /\ ReadInStep(r)'
    BY <1>3, ReaderStepKeeps
  <2>2. \A q \in Reader \ {r} :
            /\ query'[q] = query[q] /\ step'[q] = step[q]
            /\ announced'[q] = announced[q] /\ opened'[q] = opened[q]
            /\ sent'[q] = sent[q] /\ found'[q] = found[q]
            /\ answer'[q] = answer[q]
    BY <1>1, <1>3
       DEF ReadTypeOK, ReaderStep, RejectRead, GetAttrs, LookupFails,
           OpenReader, SendChunk, StreamFails, GetEnds, Answer, Report
  <2>3. \A q \in Reader \ {r} : ReadInStep(q)'
    BY <1>1, <2>2 DEF ReadsInStep, ReadInStep, GetInStep, ContainsInStep
  <2>4. QED
    BY <2>1, <2>3 DEF ReadInductive, ReadsInStep
<1>4. ASSUME NEW R \in SUBSET {r \in Reader : step[r] # "done"},
             step' = [r \in Reader |-> IF r \in R THEN "done" ELSE step[r]],
             answer' = [r \in Reader |-> IF r \in R THEN "crashed" ELSE answer[r]],
             UNCHANGED <<query, announced, opened, sent, found, replaced>>
      PROVE  ReadInductive'
  <2>1. ReadTypeOK'
    BY <1>1, <1>4 DEF ReadTypeOK
  <2>2. ASSUME NEW r \in Reader PROVE ReadInStep(r)'
    <3>1. ReadInStep(r)
      BY <1>1 DEF ReadsInStep
    <3>2. CASE r \in R
      BY <1>4, <3>1, <3>2 DEF ReadInStep, GetInStep, ContainsInStep
    <3>3. CASE r \notin R
      BY <1>4, <3>1, <3>3 DEF ReadInStep, GetInStep, ContainsInStep
    <3>4. QED
      BY <3>2, <3>3
  <2>3. QED
    BY <2>1, <2>2 DEF ReadInductive, ReadsInStep
<1>5. QED
  BY <1>2, <1>3, <1>4, ReadSteps

-----------------------------------------------------------------------------
(* The Puts of the server keep all that they promise, beside any reads and  *)
(* whatever replica dies.                                                   *)
LEMMA PutsHold == CSpec => []Inductive
<1>1. CInit => Inductive
  BY InductiveInit DEF CInit
<1>2. Inductive /\ [CNext]_allVars => Inductive'
  BY PutsStep, InductiveStep DEF Inductive
<1>3. QED
  BY <1>1, <1>2, PTL DEF CSpec

LEMMA ReadInductiveHolds == CSpec => []ReadInductive
<1>1. Inductive' => TypeOK'
  BY DEF Inductive
<1>2. QED
  BY <1>1, PutsHold, ReadInductiveInit, ReadInductiveStep, PTL DEF CSpec

(* Type correctness of the reading calls: among others, no more chunks are  *)
(* sent than an artifact can have.                                          *)
THEOREM ReadTypeCorrect == CSpec => []ReadTypeOK
<1>1. ReadInductive => ReadTypeOK
  BY DEF ReadInductive
<1>2. QED
  BY <1>1, ReadInductiveHolds, PTL

(* An acknowledged Put stored its whole artifact beside reading calls, also *)
(* on streams that break.                                                   *)
THEOREM AckedBesideReads == CSpec => []AckedUploadIsWhole
<1>1. Inductive => AckedUploadIsWhole
  BY DEF Inductive
<1>2. QED
  BY <1>1, PutsHold, PTL

LEMMA CleanBesideReads == BadMessages = FALSE => (CSpec => []Clean)
<1> SUFFICES ASSUME BadMessages = FALSE PROVE CSpec => []Clean
  OBVIOUS
<1>1. CInit => Clean
  BY CleanInit DEF CInit
<1>2. Inductive /\ Clean /\ [CNext]_allVars => Clean'
  BY PutsStep, ErrorStep, PendingStep, WholeStep DEF Clean, Inductive
<1>3. QED
  BY <1>1, <1>2, PutsHold, PTL DEF CSpec

(* No object is part of an artifact while calls read beside the Puts, and   *)
(* replicas that serve both kinds die.                                      *)
THEOREM WholeObjectsBesideReads ==
  BadMessages = FALSE => (CSpec => []NoTruncatedObject)
<1>1. Clean => NoTruncatedObject
  BY DEF Clean
<1>2. QED
  BY <1>1, CleanBesideReads, PTL

(* Put stays atomic when calls read beside it and replicas that serve both  *)
(* kinds of call die: the server implements ArtifactStore.                  *)
THEOREM ServerRefinesArtifactStore ==
  BadMessages = FALSE => (CSpec => PutIsAtomic)
<1> SUFFICES ASSUME BadMessages = FALSE PROVE CSpec => PutIsAtomic
  OBVIOUS
<1>1. CInit => Artifacts!Init
  BY RefinesInit DEF CInit
<1>2. Inductive /\ Clean /\ [CNext]_allVars
        => [Artifacts!Next]_(Artifacts!vars)
  BY PutsStep, RefinesStep DEF Inductive
<1>3. QED
  BY <1>1, <1>2, PutsHold, CleanBesideReads, PTL
     DEF CSpec, PutIsAtomic, Artifacts!Spec

-----------------------------------------------------------------------------
(* Two calls to storage, and still a whole artifact: the reader is opened   *)
(* on an object that is one, and pinned to it from then on.                 *)

LEMMA ReaderStaysWhole ==
  ASSUME ReadInductive, NoTruncatedObject, NEW r \in Reader, ReadsWhole(r),
         ReaderStep(r), UNCHANGED <<vars, replaced>>
  PROVE  ReadsWhole(r)'
<1>1. ReadTypeOK /\ ReadsInStep /\ ReadInStep(r) /\ TypeOK
  BY DEF ReadInductive, ReadsInStep
<1>2. query' = query /\ request' = request
  BY DEF ReaderStep, vars, RejectRead, GetAttrs, LookupFails, OpenReader,
     SendChunk, StreamFails, GetEnds
<1>3. CASE UNCHANGED <<opened, found>>
  BY <1>2, <1>3 DEF ReadsWhole, IsWhole
<1>4. CASE /\ query[r].kind = "contains" /\ Report(r, FALSE)
           /\ step[r] # "done" /\ UNCHANGED opened
  <2>1. found'[r] = Append(found[r], FALSE) /\ found[r] \in Seq(BOOLEAN)
    BY <1>1, <1>4, ReportStep DEF ReadTypeOK
  <2>2. /\ Hits(found'[r]) = Hits(found[r])
        /\ \A i \in Hits(found[r]) : Rank(found'[r], i) = Rank(found[r], i)
    BY <2>1, HitsAppend
  <2>3. QED
    BY <1>2, <1>4, <2>2 DEF ReadsWhole, IsWhole
<1>5. CASE OpenReader(r)
  <2> DEFINE obj == bucket[Wanted(r)]
  <2>1. step[r] = "opening" /\ obj \in Object /\ IsWhole(obj, Wanted(r))
    BY <1>1, <1>5, WantedIsKey
       DEF OpenReader, TypeOK, NoTruncatedObject, IsWhole
  <2>2. /\ opened[r] \in Seq(Object)
        /\ opened'[r] = Append(opened[r], obj)
    BY <1>1, <1>5 DEF OpenReader, ReadTypeOK
  <2>3. /\ Len(opened[r]) \in Nat /\ Len(opened'[r]) = Len(opened[r]) + 1
        /\ \A i \in 1 .. Len(opened[r]) : opened'[r][i] = opened[r][i]
        /\ opened'[r][Len(opened[r]) + 1] = obj
    BY <2>1, <2>2
  <2>4. CASE query[r].kind = "get"
    <3>1. opened[r] = <<>>
      BY <1>1, <2>1, <2>4 DEF ReadInStep, GetInStep
    <3>2. opened'[r][1] = obj
      BY <2>3, <3>1
    <3>3. Wanted(r) = query[r].names[1]
      BY <1>1, <2>1, <2>4, WantedIsKey
    <3>4. QED
      BY <1>2, <2>1, <2>4, <3>2, <3>3 DEF ReadsWhole, IsWhole
  <2>5. CASE query[r].kind = "contains" /\ Report(r, TRUE)
    <3>1. found'[r] = Append(found[r], TRUE) /\ found[r] \in Seq(BOOLEAN)
      BY <1>1, <2>1, <2>5, ReportStep DEF ReadTypeOK
    <3>2. /\ Hits(found'[r]) = Hits(found[r]) \cup {Len(found[r]) + 1}
          /\ \A i \in Hits(found[r]) : Rank(found'[r], i) = Rank(found[r], i)
          /\ Rank(found'[r], Len(found[r]) + 1) = Cardinality(Hits(found[r])) + 1
      BY <3>1, HitsAppend
    <3>3. Len(opened[r]) = Cardinality(Hits(found[r]))
      BY <1>1, <2>5 DEF ReadInStep, ContainsInStep
    <3>4. ASSUME NEW i \in Hits(found[r])
          PROVE  /\ Rank(found'[r], i) \in 1 .. Len(opened'[r])
                 /\ IsWhole(opened'[r][Rank(found'[r], i)], query[r].names[i])
      <4>1. /\ Rank(found[r], i) \in 1 .. Len(opened[r])
            /\ IsWhole(opened[r][Rank(found[r], i)], query[r].names[i])
        BY <2>5 DEF ReadsWhole
      <4>2. QED
        BY <2>3, <3>2, <4>1
    <3>5. /\ Rank(found'[r], Len(found[r]) + 1) = Len(opened'[r])
          /\ Len(opened'[r]) \in 1 .. Len(opened'[r])
          /\ opened'[r][Len(opened'[r])] = obj
      BY <2>3, <3>2, <3>3
    <3>6. IsWhole(obj, query[r].names[Len(found[r]) + 1])
      BY <2>1 DEF Wanted
    <3>7. \A i \in Hits(found'[r]) :
              /\ Rank(found'[r], i) \in 1 .. Len(opened'[r])
              /\ IsWhole(opened'[r][Rank(found'[r], i)], query[r].names[i])
      BY <3>2, <3>4, <3>5, <3>6
    <3>8. QED
      BY <1>2, <2>5, <3>7 DEF ReadsWhole, IsWhole
  <2>6. QED
    BY <1>5, <2>4, <2>5 DEF OpenReader
<1>6. QED
  BY <1>3, <1>4, <1>5
     DEF ReaderStep, RejectRead, GetAttrs, LookupFails, SendChunk, StreamFails,
         GetEnds,
         Answer

LEMMA ReadersWholeStep ==
  ReadInductive /\ NoTruncatedObject /\ ReadersAreWhole /\ [CNext]_allVars
    => ReadersAreWhole'
<1> SUFFICES ASSUME ReadInductive, NoTruncatedObject, ReadersAreWhole,
                    [CNext]_allVars
             PROVE  ReadersAreWhole'
  OBVIOUS
<1>1. ReadTypeOK /\ TypeOK
  BY DEF ReadInductive
<1>2. request' = request
  BY <1>1, PutsStep, RequestFixed
<1>3. CASE UNCHANGED <<query, opened, found>>
  BY <1>2, <1>3 DEF ReadersAreWhole, ReadsWhole, IsWhole
<1>4. ASSUME NEW r \in Reader, ReaderStep(r), UNCHANGED <<vars, replaced>>
      PROVE  ReadersAreWhole'
  <2>1. ReadsWhole(r)'
    BY <1>4, ReaderStaysWhole DEF ReadersAreWhole
  <2>2. \A q \in Reader \ {r} : /\ query'[q] = query[q]
                                 /\ opened'[q] = opened[q]
                                 /\ found'[q] = found[q]
    BY <1>1, <1>4
       DEF ReadTypeOK, ReaderStep, RejectRead, GetAttrs, LookupFails,
           OpenReader, SendChunk, StreamFails, GetEnds, Answer, Report
  <2>3. \A q \in Reader \ {r} : ReadsWhole(q)'
    BY <1>2, <2>2 DEF ReadersAreWhole, ReadsWhole, IsWhole
  <2>4. QED
    BY <2>1, <2>3 DEF ReadersAreWhole
<1>5. QED
  BY <1>3, <1>4, ReadSteps DEF readVars

LEMMA ReadersWholeHold ==
  BadMessages = FALSE => (CSpec => []ReadersAreWhole)
<1> SUFFICES ASSUME BadMessages = FALSE PROVE CSpec => []ReadersAreWhole
  OBVIOUS
<1>1. CInit => ReadersAreWhole
  BY DEF CInit, ReadersAreWhole, ReadsWhole, Hits
<1>2. QED
  BY <1>1, ReadersWholeStep, ReadInductiveHolds, WholeObjectsBesideReads, PTL
     DEF CSpec

(* A Get that succeeds has streamed one whole artifact of the name asked    *)
(* for, whatever overwrote, evicted or cancelled between its two calls to   *)
(* Cloud Storage.                                                           *)
THEOREM GetIsWhole ==
  BadMessages = FALSE => (CSpec => []GetDeliversWholeArtifact)
<1>1. ReadInductive /\ ReadersAreWhole => GetDeliversWholeArtifact
  <2> SUFFICES ASSUME ReadInductive, ReadersAreWhole, NEW r \in Reader,
                      query[r].kind = "get", answer[r] = "ok"
               PROVE  /\ IsWhole(opened[r][1], query[r].names[1])
                      /\ sent[r] = opened[r][1].len
    BY DEF GetDeliversWholeArtifact
  <2>1. Len(opened[r]) = 1 /\ sent[r] = opened[r][1].len
    BY DEF ReadInductive, ReadsInStep, ReadInStep, GetInStep
  <2>2. opened[r] # <<>>
    BY <2>1, EmptySeq
  <2>3. QED
    BY <2>1, <2>2 DEF ReadersAreWhole, ReadsWhole
<1>2. QED
  BY <1>1, ReadInductiveHolds, ReadersWholeHold, PTL

(* Each digest that a Contains reports as existing was opened as a whole    *)
(* artifact of that digest: the flags are never attached to another one.    *)
THEOREM ContainsIsTrue ==
  BadMessages = FALSE => (CSpec => []ContainsReportsWholeArtifacts)
<1>1. ReadInductive /\ ReadersAreWhole => ContainsReportsWholeArtifacts
  <2> SUFFICES ASSUME ReadInductive, ReadersAreWhole, NEW r \in Reader,
                      query[r].kind = "contains", NEW i \in Hits(found[r])
               PROVE  /\ Rank(found[r], i) <= Len(opened[r])
                      /\ IsWhole(opened[r][Rank(found[r], i)],
                                 query[r].names[i])
    BY DEF ContainsReportsWholeArtifacts, Hits, Rank
  <2>1. /\ Rank(found[r], i) \in 1 .. Len(opened[r])
        /\ IsWhole(opened[r][Rank(found[r], i)], query[r].names[i])
    BY DEF ReadersAreWhole, ReadsWhole
  <2>2. QED
    BY <2>1
<1>2. QED
  BY <1>1, ReadInductiveHolds, ReadersWholeHold, PTL

-----------------------------------------------------------------------------
(* The size announced is read by the first call, the data come from the     *)
(* second: they agree unless the name changed hands between the two.        *)

(* A step of the Puts cannot change what a Get has announced and is about   *)
(* to open without that Get being noted.                                    *)
LEMMA AnnouncedBesidePuts ==
  ASSUME ReadInductive, AnnouncedAreHeld, UNCHANGED readVars,
         replaced' = replaced \cup Overtaken, NEW r \in Reader
  PROVE  AnnouncedIsHeld(r)'
<1> SUFFICES ASSUME query[r].kind = "get", r \notin replaced'
             PROVE  /\ step'[r] = "opening" =>
                           announced'[r] = bucket'[query'[r].names[1]].len
                    /\ opened'[r] # <<>> => announced'[r] = opened'[r][1].len
  BY DEF AnnouncedIsHeld, readVars
<1>1. r \notin replaced /\ r \notin Overtaken
  OBVIOUS
<1>2. AnnouncedIsHeld(r) /\ UNCHANGED <<query, step, announced, opened>>
  BY DEF AnnouncedAreHeld, readVars
<1>3. opened'[r] # <<>> => announced'[r] = opened'[r][1].len
  BY <1>1, <1>2 DEF AnnouncedIsHeld
<1>4. ASSUME step[r] = "opening"
      PROVE  announced'[r] = bucket'[query'[r].names[1]].len
  <2>1. Wanted(r) = query[r].names[1]
    BY <1>4, WantedIsKey DEF ReadInductive
  <2>2. bucket'[query[r].names[1]] = bucket[query[r].names[1]]
    BY <1>1, <1>4, <2>1 DEF Overtaken
  <2>3. QED
    BY <1>1, <1>2, <1>4, <2>2 DEF AnnouncedIsHeld
<1>5. QED
  BY <1>2, <1>3, <1>4

(* The lookup and the reader of a call itself.                              *)
LEMMA AnnouncedByReader ==
  ASSUME ReadInductive, AnnouncedAreHeld, NEW r \in Reader, ReaderStep(r),
         UNCHANGED <<vars, replaced>>
  PROVE  AnnouncedIsHeld(r)'
<1> SUFFICES ASSUME query[r].kind = "get", r \notin replaced
             PROVE  AnnouncedIsHeld(r)'
  BY DEF AnnouncedIsHeld, ReaderStep, RejectRead, GetAttrs, LookupFails,
     OpenReader, SendChunk, StreamFails, GetEnds
<1>1. /\ ReadTypeOK /\ ReadsInStep /\ GetInStep(r) /\ AnnouncedIsHeld(r)
      /\ UNCHANGED <<query, bucket, replaced>>
  BY DEF ReadInductive, ReadsInStep, ReadInStep, AnnouncedAreHeld, ReaderStep,
     vars, RejectRead, GetAttrs, LookupFails, OpenReader, SendChunk,
     StreamFails, GetEnds
<1>2. CASE GetAttrs(r)
  <2>1. step[r] = "attrs" /\ Wanted(r) = query[r].names[1]
    BY <1>1, <1>2, WantedIsKey DEF GetAttrs
  <2>2. /\ announced'[r] = bucket[Wanted(r)].len
        /\ opened'[r] = <<>>
    BY <1>1, <1>2, <2>1 DEF GetAttrs, ReadTypeOK, GetInStep
  <2>3. QED
    BY <1>1, <2>1, <2>2 DEF AnnouncedIsHeld
<1>3. CASE OpenReader(r)
  <2>1. step[r] = "opening" /\ Wanted(r) = query[r].names[1]
    BY <1>1, <1>3, WantedIsKey DEF OpenReader
  <2>2. bucket[Wanted(r)] \in Object /\ opened[r] = <<>>
    BY <1>1, <1>3, <2>1, WantedIsKey
       DEF OpenReader, ReadInductive, TypeOK, GetInStep
  <2>3. /\ opened'[r] = Append(<<>>, bucket[Wanted(r)])
        /\ step'[r] = "streaming" /\ announced' = announced
    BY <1>1, <1>3, <2>2 DEF OpenReader, ReadTypeOK
  <2>4. opened'[r][1] = bucket[Wanted(r)]
    BY <2>2, <2>3
  <2>5. announced[r] = bucket[Wanted(r)].len
    BY <1>1, <2>1 DEF AnnouncedIsHeld
  <2>6. QED
    BY <1>1, <2>3, <2>4, <2>5 DEF AnnouncedIsHeld
<1>4. CASE RejectRead(r) \/ LookupFails(r) \/ SendChunk(r) \/ StreamFails(r)
             \/ GetEnds(r)
  <2>1. UNCHANGED <<announced, opened>> /\ step'[r] # "opening"
    BY <1>1, <1>4
       DEF ReadTypeOK, RejectRead, LookupFails, SendChunk, StreamFails,
           GetEnds, Answer
  <2>2. QED
    BY <1>1, <2>1 DEF AnnouncedIsHeld
<1>5. QED
  BY <1>2, <1>3, <1>4 DEF ReaderStep

LEMMA AnnouncedStep ==
  ReadInductive /\ AnnouncedAreHeld /\ [CNext]_allVars => AnnouncedAreHeld'
<1> SUFFICES ASSUME ReadInductive, AnnouncedAreHeld, [CNext]_allVars,
                    NEW q \in Reader
             PROVE  AnnouncedIsHeld(q)'
  BY DEF AnnouncedAreHeld
<1>1. ReadTypeOK /\ AnnouncedIsHeld(q)
  BY DEF ReadInductive, AnnouncedAreHeld
<1>2. CASE Next /\ UNCHANGED readVars /\ replaced' = replaced \cup Overtaken
  BY <1>2, AnnouncedBesidePuts
<1>3. ASSUME NEW r \in Reader, ReaderStep(r), UNCHANGED <<vars, replaced>>
      PROVE  AnnouncedIsHeld(q)'
  <2>1. CASE q = r
    BY <1>3, <2>1, AnnouncedByReader
  <2>2. CASE q # r
    <3>1. /\ step'[q] = step[q] /\ announced'[q] = announced[q]
          /\ opened'[q] = opened[q] /\ query'[q] = query[q]
      BY <1>1, <1>3, <2>2
         DEF ReadTypeOK, ReaderStep, RejectRead, GetAttrs, LookupFails,
             OpenReader, SendChunk, StreamFails, GetEnds, Answer, Report
    <3>2. UNCHANGED <<bucket, replaced>>
      BY <1>3 DEF vars
    <3>3. QED
      BY <1>1, <3>1, <3>2 DEF AnnouncedIsHeld
  <2>3. QED
    BY <2>1, <2>2
<1>4. CASE ReplicaCrash
  <2>1. UNCHANGED <<bucket, query, announced, opened, replaced>>
    BY <1>4 DEF ReplicaCrash, Crash
  <2>2. step'[q] = "opening" => step[q] = "opening"
    BY <1>1, <1>4 DEF ReplicaCrash
  <2>3. QED
    BY <1>1, <2>1, <2>2 DEF AnnouncedIsHeld
<1>5. CASE UNCHANGED allVars
  BY <1>1, <1>5 DEF allVars, vars, readVars, AnnouncedIsHeld
<1>6. QED
  BY <1>2, <1>3, <1>4, <1>5 DEF CNext

(* The digest of every GetResponse carries the size of the data that are    *)
(* streamed, unless another object came under the name between Attrs and    *)
(* NewReader: nothing is assumed of the streams or of the artifacts.        *)
THEOREM AnnouncedIsSent == CSpec => []AnnouncedSizeIsSent
<1>1. CInit => AnnouncedAreHeld
  BY DEF CInit, AnnouncedAreHeld, AnnouncedIsHeld
<1>2. ReadInductive /\ AnnouncedAreHeld => AnnouncedSizeIsSent
  <2> SUFFICES ASSUME ReadInductive, AnnouncedAreHeld,
                      NEW r \in Reader \ replaced, query[r].kind = "get"
               PROVE  /\ opened[r] # <<>> => announced[r] = opened[r][1].len
                      /\ answer[r] = "ok" => announced[r] = sent[r]
    BY DEF AnnouncedSizeIsSent
  <2>1. opened[r] # <<>> => announced[r] = opened[r][1].len
    BY DEF AnnouncedAreHeld, AnnouncedIsHeld
  <2>2. answer[r] = "ok" => Len(opened[r]) = 1 /\ sent[r] = opened[r][1].len
    BY DEF ReadInductive, ReadsInStep, ReadInStep, GetInStep
  <2>3. QED
    BY <2>1, <2>2, EmptySeq
<1>3. QED
  BY <1>1, <1>2, AnnouncedStep, ReadInductiveHolds, PTL DEF CSpec

-----------------------------------------------------------------------------
(* The process.  Most steps of ServerLifecycle are steps of PutStream; only *)
(* the end of the process and the timeout of the graceful stop change a Put *)
(* from outside.                                                            *)

(* A handler that has returned has given a result, and no call is crashed   *)
(* while the process runs.                                                  *)
ReturnedHasResult == \A u \in Upload : handler[u] = "done" => result[u] # "none"
CrashedWithProcess == Running => \A u \in Upload : result[u] # "crashed"

(* Stop has ended the context of every call that is still open.             *)
ForcedMeansCancelled == server = "forced" => Open \subseteq cancelled

LInductive ==
    /\ Inductive
    /\ LTypeOK
    /\ ReturnedHasResult
    /\ CrashedWithProcess
    /\ ForcedMeansCancelled
    /\ GracefulStopCutsNothing

LEMMA LInductiveInit == LInit => LInductive
<1> SUFFICES ASSUME LInit PROVE LInductive
  OBVIOUS
<1>1. Inductive /\ TypeOK
  BY InductiveInit DEF LInit, Inductive
<1>2. LTypeOK
  BY <1>1 DEF LInit, Init, LTypeOK, ServerState
<1>3. /\ ReturnedHasResult /\ CrashedWithProcess /\ ForcedMeansCancelled
      /\ GracefulStopCutsNothing
  BY DEF LInit, Init, ReturnedHasResult, CrashedWithProcess,
     ForcedMeansCancelled, GracefulStopCutsNothing
<1>4. QED
  BY <1>1, <1>2, <1>3 DEF LInductive

(* What each step is to PutStream: one of its own, or none at all, except   *)
(* the end of the process and the timeout.                                  *)
LEMMA StepsOfPut ==
  [LNext]_lifeVars =>
    [Next]_vars \/ Timeout \/ \E how \in {"stopped", "killed"} : ProcessEnds(how)
  BY DEF LNext, lifeVars, vars, Main, Serve, GracefulStop, Drained, ForcedExit,
     Killed, Signal, OpenCall, CallStep, Next, UploadStep

(* The process may end, and Stop may be called, at any point of any Put:    *)
(* its two goroutines stay in step.                                         *)
LEMMA InductiveLStep ==
  Inductive /\ LTypeOK /\ [LNext]_lifeVars => Inductive'
<1> SUFFICES ASSUME Inductive, LTypeOK, [LNext]_lifeVars PROVE Inductive'
  OBVIOUS
<1>1. CASE [Next]_vars
  BY <1>1, InductiveStep
<1>2. CASE Timeout
  <2>1. TypeOK'
    BY <1>2 DEF Inductive, Timeout, Open, LTypeOK, TypeOK
  <2>2. ASSUME NEW u \in Upload PROVE InStep(u)'
    BY <1>2 DEF Inductive, Timeout, GoroutinesInStep, InStep
  <2>3. QED
    BY <1>2, <2>1, <2>2 DEF Inductive, Timeout, GoroutinesInStep,
       AckedUploadIsWhole
<1>3. ASSUME NEW how \in {"stopped", "killed"}, ProcessEnds(how)
      PROVE  Inductive'
  <2> USE <1>3 DEF ProcessEnds, Open, Inductive
  <2>1. TypeOK'
    BY DEF TypeOK, LTypeOK
  <2>2. ASSUME NEW u \in Upload PROVE InStep(u)'
    <3>1. CASE u \in accepted
      BY <3>1 DEF TypeOK, GoroutinesInStep, InStep, InFlight
    <3>2. CASE u \notin accepted
      BY <3>2 DEF TypeOK, GoroutinesInStep, InStep, InFlight
    <3>3. QED
      BY <3>1, <3>2
  <2>3. AckedUploadIsWhole'
    BY DEF AckedUploadIsWhole, TypeOK
  <2>4. QED
    BY <2>1, <2>2, <2>3 DEF GoroutinesInStep
<1>4. QED
  BY <1>1, <1>2, <1>3, StepsOfPut

(* Calls that were not accepted are idle, whatever happens to the others.   *)
LEMMA LTypeStep ==
  Inductive /\ LTypeOK /\ [LNext]_lifeVars => LTypeOK'
<1> SUFFICES ASSUME Inductive, LTypeOK, [LNext]_lifeVars PROVE LTypeOK'
  OBVIOUS
<1>1. TypeOK'
  BY InductiveLStep DEF Inductive
<1> USE DEF LTypeOK, ServerState
<1>2. CASE Serve \/ GracefulStop \/ Signal \/ Timeout
  BY <1>1, <1>2 DEF Serve, GracefulStop, Signal, Timeout, vars
<1>3. ASSUME NEW how \in {"stopped", "killed"}, ProcessEnds(how)
      PROVE  LTypeOK'
  BY <1>1, <1>3 DEF ProcessEnds, TypeOK
<1>4. ASSUME NEW u \in Upload, OpenCall(u) PROVE LTypeOK'
  BY <1>1, <1>4 DEF OpenCall, vars
<1>5. ASSUME NEW u \in Upload, CallStep(u) PROVE LTypeOK'
  <2>1. \A v \in Upload \ {u} :
            handler'[v] = handler[v] /\ pump'[v] = pump[v]
    BY <1>5 DEF CallStep, UploadStep, HandlerStep, PumpStep, CopyChunk,
       CopyFails, CopyEnds, Commit, CommitFails, PumpFailed, Reply, Reject,
       Accept, RecvChunk, RecvEOF, RecvFails, PumpCloses, PumpEnds, Cancel,
       Land, Return, TypeOK
  <2>2. QED
    BY <1>1, <1>5, <2>1 DEF CallStep
<1>6. ASSUME NEW u \in Upload, Land(u), UNCHANGED <<server, accepted>>
      PROVE  LTypeOK'
  BY <1>1, <1>6 DEF Land
<1>7. ASSUME NEW k \in Key, Evict(k), UNCHANGED <<server, accepted>>
      PROVE  LTypeOK'
  BY <1>1, <1>7 DEF Evict
<1>8. CASE UNCHANGED lifeVars
  BY <1>1, <1>8 DEF lifeVars
<1>9. QED
  BY <1>2, <1>3, <1>4, <1>5, <1>6, <1>7, <1>8
     DEF LNext, Main, Drained, ForcedExit, Killed

(* Only the end of the process crashes a call, and a handler never returns  *)
(* without a result.                                                        *)
LEMMA ResultStep ==
  LInductive /\ [LNext]_lifeVars => ReturnedHasResult' /\ CrashedWithProcess'
<1> SUFFICES ASSUME LInductive, [LNext]_lifeVars
             PROVE  ReturnedHasResult' /\ CrashedWithProcess'
  OBVIOUS
<1> USE DEF ReturnedHasResult, CrashedWithProcess, Running
<1>1. TypeOK /\ \A u \in Upload : InStep(u)
  BY DEF LInductive, Inductive, GoroutinesInStep
<1>2. CASE Serve \/ GracefulStop \/ Signal \/ Timeout
  BY <1>2 DEF LInductive, Serve, GracefulStop, Signal, Timeout, vars
<1>3. ASSUME NEW how \in {"stopped", "killed"}, ProcessEnds(how)
      PROVE  ReturnedHasResult' /\ CrashedWithProcess'
  BY <1>1, <1>3 DEF LInductive, ProcessEnds, Open
<1>4. ASSUME NEW u \in Upload, OpenCall(u)
      PROVE  ReturnedHasResult' /\ CrashedWithProcess'
  BY <1>4 DEF LInductive, OpenCall, vars
<1>5. ASSUME NEW u \in Upload, CallStep(u)
      PROVE  ReturnedHasResult' /\ CrashedWithProcess'
  <2>1. \/ UNCHANGED <<handler, result>>
        \/ \E h \in InFlight : /\ handler' = [handler EXCEPT ![u] = h]
                                /\ result' = result
        \/ \E r \in {"ok", "invalid", "storage_error", "stream_error",
                      "response_error"} : Return(u, r)
    BY <1>5 DEF CallStep, UploadStep, HandlerStep, PumpStep, CopyChunk,
       CopyFails, CopyEnds, Commit, CommitFails, PumpFailed, Reply, Reject,
       Accept, RecvChunk, RecvEOF, RecvFails, PumpCloses, PumpEnds, Cancel,
       Land, InFlight
  <2>2. QED
    BY <1>1, <1>5, <2>1 DEF LInductive, CallStep, Return, TypeOK, InFlight
<1>6. ASSUME NEW u \in Upload, Land(u), UNCHANGED <<server, accepted>>
      PROVE  ReturnedHasResult' /\ CrashedWithProcess'
  BY <1>6 DEF LInductive, Land
<1>7. ASSUME NEW k \in Key, Evict(k), UNCHANGED <<server, accepted>>
      PROVE  ReturnedHasResult' /\ CrashedWithProcess'
  BY <1>7 DEF LInductive, Evict
<1>8. CASE UNCHANGED lifeVars
  BY <1>8 DEF LInductive, lifeVars
<1>9. QED
  BY <1>2, <1>3, <1>4, <1>5, <1>6, <1>7, <1>8
     DEF LNext, Main, Drained, ForcedExit, Killed

(* Once Stop was called every call that is still open works on a dead       *)
(* context, and no context comes back to life.                              *)
LEMMA ForcedStep ==
  LInductive /\ [LNext]_lifeVars => ForcedMeansCancelled'
<1> SUFFICES ASSUME LInductive, [LNext]_lifeVars PROVE ForcedMeansCancelled'
  OBVIOUS
<1> USE DEF ForcedMeansCancelled, Open
<1>1. CASE Serve \/ GracefulStop \/ Signal
  BY <1>1 DEF Serve, GracefulStop, Signal
<1>2. CASE Timeout
  BY <1>2 DEF Timeout
<1>3. ASSUME NEW how \in {"stopped", "killed"}, ProcessEnds(how)
      PROVE  ForcedMeansCancelled'
  BY <1>3 DEF ProcessEnds
<1>4. ASSUME NEW u \in Upload, OpenCall(u) PROVE ForcedMeansCancelled'
  BY <1>4 DEF OpenCall
<1>5. ASSUME NEW u \in Upload, CallStep(u) PROVE ForcedMeansCancelled'
  <2>1. /\ server' = server /\ accepted' = accepted /\ cancelled \subseteq cancelled'
        /\ \A v \in Upload : handler[v] = "done" => handler'[v] = "done"
    BY <1>5 DEF LInductive, LTypeOK, TypeOK, CallStep, UploadStep, HandlerStep,
       PumpStep, CopyChunk, CopyFails, CopyEnds, Commit, CommitFails,
       PumpFailed, Reply, Reject, Accept, RecvChunk, RecvEOF, RecvFails,
       PumpCloses, PumpEnds, Cancel, Land, Return
  <2>2. QED
    BY <2>1 DEF LInductive, LTypeOK
<1>6. ASSUME NEW u \in Upload, Land(u), UNCHANGED <<server, accepted>>
      PROVE  ForcedMeansCancelled'
  BY <1>6 DEF LInductive, Land
<1>7. ASSUME NEW k \in Key, Evict(k), UNCHANGED <<server, accepted>>
      PROVE  ForcedMeansCancelled'
  BY <1>7 DEF LInductive, Evict
<1>8. CASE UNCHANGED lifeVars
  BY <1>8 DEF LInductive, lifeVars
<1>9. QED
  BY <1>1, <1>2, <1>3, <1>4, <1>5, <1>6, <1>7, <1>8
     DEF LNext, Main, Drained, ForcedExit, Killed

(* The graceful stop ends the process when no call is open, and after that  *)
(* no call takes a step.                                                    *)
LEMMA GracefulStep ==
  LInductive /\ [LNext]_lifeVars => GracefulStopCutsNothing'
<1> SUFFICES ASSUME LInductive, [LNext]_lifeVars, server' = "stopped"
             PROVE  \A u \in accepted' : result'[u] \notin {"none", "crashed"}
  BY DEF GracefulStopCutsNothing
<1> USE DEF LInductive
<1>1. CASE Drained
  <2>1. /\ server = "draining" /\ accepted' = accepted /\ result' = result
        /\ \A u \in accepted : handler[u] = "done"
    BY <1>1 DEF Drained, ProcessEnds, Open, LTypeOK, TypeOK
  <2>2. QED
    BY <2>1 DEF ReturnedHasResult, CrashedWithProcess, Running, LTypeOK
<1>2. CASE server = "stopped" /\ UNCHANGED <<result, accepted>>
  BY <1>2 DEF GracefulStopCutsNothing
<1>3. QED
  BY <1>1, <1>2 DEF LNext, Main, Serve, GracefulStop, Timeout, ForcedExit,
     Signal, Killed, ProcessEnds, OpenCall, CallStep, Land, Evict, Running,
     lifeVars

-----------------------------------------------------------------------------
(* Every reachable state satisfies the inductive invariant of the process.  *)
LEMMA LInductiveHolds == LSpec => []LInductive
<1>1. LInductive /\ [LNext]_lifeVars => LInductive'
  BY InductiveLStep, LTypeStep, ResultStep, ForcedStep, GracefulStep
     DEF LInductive
<1>2. QED
  BY <1>1, LInductiveInit, PTL DEF LSpec

(* Type correctness of ServerLifecycle.                                     *)
THEOREM LTypeCorrect == LSpec => []LTypeOK
<1>1. LInductive => LTypeOK
  BY DEF LInductive
<1>2. QED
  BY <1>1, LInductiveHolds, PTL

(* An acknowledged Put stored its whole artifact whatever became of the     *)
(* process: also when Stop cut it, and on streams that break.               *)
THEOREM AckedThroughStop == LSpec => []AckedUploadIsWhole
<1>1. LInductive => AckedUploadIsWhole
  BY DEF LInductive, Inductive
<1>2. QED
  BY <1>1, LInductiveHolds, PTL

(* When main returns from the graceful stop, every call that the server     *)
(* accepted has run to its own end, the ones accepted after the signal too. *)
THEOREM GracefulCutsNothing == LSpec => []GracefulStopCutsNothing
<1>1. LInductive => GracefulStopCutsNothing
  BY DEF LInductive
<1>2. QED
  BY <1>1, LInductiveHolds, PTL

(* After Stop, and after the end of the process, no call sends a final      *)
(* request to Cloud Storage: its writer's context is dead.                  *)
THEOREM StopIsFinal == LSpec => NothingSentAfterStop
<1>1. ASSUME LInductive, [LNext]_lifeVars, server = "forced" \/ ~Running
      PROVE  pending' \subseteq pending
  <2>1. ASSUME NEW u \in Upload, CallStep(u) PROVE pending' \subseteq pending
    <3>1. CASE CopyEnds(u)
      BY <1>1, <2>1, <3>1 DEF LInductive, ForcedMeansCancelled, Open, CallStep,
         CopyEnds
    <3>2. CASE ~CopyEnds(u)
      BY <2>1, <3>2 DEF CallStep, UploadStep, HandlerStep, PumpStep, CopyChunk,
         CopyFails, Commit, CommitFails, PumpFailed, Reply, Reject, Accept,
         RecvChunk, RecvEOF, RecvFails, PumpCloses, PumpEnds, Cancel, Land
    <3>3. QED
      BY <3>1, <3>2
  <2>2. CASE ~\E u \in Upload : CallStep(u)
    BY <1>1, <2>2 DEF LNext, Main, Serve, GracefulStop, Drained, Timeout,
       ForcedExit, Signal, Killed, ProcessEnds, OpenCall, Land, Evict, vars,
       lifeVars
  <2>3. QED
    BY <2>1, <2>2
<1>2. QED
  BY <1>1, LInductiveHolds, PTL DEF LSpec, NothingSentAfterStop

-----------------------------------------------------------------------------
(* Put stays atomic whatever becomes of the process that serves it.         *)

(* Neither the timeout nor the end of the process sends data or touches the *)
(* bucket, and both leave errors only on dead contexts.                     *)
LEMMA CleanLStep ==
  BadMessages = FALSE =>
    (LInductive /\ Clean /\ [LNext]_lifeVars => Clean')
<1> SUFFICES ASSUME BadMessages = FALSE, LInductive, Clean, [LNext]_lifeVars
             PROVE  Clean'
  OBVIOUS
<1>1. CASE [Next]_vars
  BY <1>1, ErrorStep, PendingStep, WholeStep DEF Clean, LInductive
<1>2. CASE Timeout
  BY <1>2 DEF Timeout, Clean, ErrorMeansCancelled, PendingIsWhole,
     NoTruncatedObject
<1>3. ASSUME NEW how \in {"stopped", "killed"}, ProcessEnds(how)
      PROVE  Clean'
  <2>1. ErrorMeansCancelled'
    BY <1>3 DEF ProcessEnds, Clean, ErrorMeansCancelled, InFlight
  <2>2. PendingIsWhole' /\ NoTruncatedObject'
    BY <1>3 DEF ProcessEnds, Clean, PendingIsWhole, NoTruncatedObject
  <2>3. QED
    BY <2>1, <2>2 DEF Clean
<1>4. QED
  BY <1>1, <1>2, <1>3, StepsOfPut

(* The end of the process fails all its open calls at once; the timeout     *)
(* cannot be seen in the artifact store.                                    *)
LEMMA RefinesLStep ==
  LInductive /\ Clean /\ [LNext]_lifeVars => [Artifacts!Next]_(Artifacts!vars)
<1> SUFFICES ASSUME LInductive, Clean, [LNext]_lifeVars
             PROVE  [Artifacts!Next]_(Artifacts!vars)
  OBVIOUS
<1>1. CASE [Next]_vars
  BY <1>1, RefinesStep DEF LInductive
<1>2. CASE Timeout
  <2>1. UNCHANGED <<bucket, request, result, stored>>
    BY <1>2 DEF Timeout
  <2>2. \A k \in Key : HeldBy(k)' = HeldBy(k)
    BY <2>1 DEF HeldBy
  <2>3. \A u \in Upload : StatusOf(u)' = StatusOf(u)
    BY <2>1 DEF StatusOf
  <2>4. QED
    BY <2>1, <2>2, <2>3 DEF Artifacts!vars
<1>3. ASSUME NEW how \in {"stopped", "killed"}, ProcessEnds(how)
      PROVE  Artifacts!Fail(Open)
  <2>1. \A u \in Open : result[u] = "none"
    BY DEF LInductive, Inductive, GoroutinesInStep, InStep, Open, LTypeOK
  <2>2. Open \subseteq Upload
    BY DEF LInductive, LTypeOK, Open
  <2>3. \A u \in Open : StatusOf(u) = "open" /\ StatusOf(u)' = "failed"
    BY <1>3, <2>1, <2>2 DEF ProcessEnds, StatusOf
  <2>4. \A u \in Upload \ Open : StatusOf(u)' = StatusOf(u)
    BY <1>3 DEF ProcessEnds, StatusOf
  <2>5. \A k \in Key : HeldBy(k)' = HeldBy(k)
    BY <1>3 DEF ProcessEnds, HeldBy
  <2>6. QED
    BY <1>3, <2>2, <2>3, <2>4, <2>5 DEF Artifacts!Fail, ProcessEnds
<1>4. Open \in SUBSET Upload
  BY DEF LInductive, LTypeOK, Open
<1>5. QED
  BY <1>1, <1>2, <1>3, <1>4, StepsOfPut DEF Artifacts!Next

(* On clean streams the server process implements ArtifactStore: start-up,  *)
(* signal, graceful stop, timeout and sudden death included, a Put takes    *)
(* effect whole, at most once and before it is acknowledged.                *)
THEOREM LifecycleRefinesArtifactStore ==
  BadMessages = FALSE => (LSpec => PutIsAtomic)
<1> SUFFICES ASSUME BadMessages = FALSE PROVE LSpec => PutIsAtomic
  OBVIOUS
<1>1. LInit => Clean /\ Artifacts!Init
  BY CleanInit, RefinesInit DEF LInit
<1>2. LSpec => []Clean
  BY <1>1, CleanLStep, LInductiveHolds, PTL DEF LSpec
<1>3. QED
  BY <1>1, <1>2, RefinesLStep, LInductiveHolds, PTL
     DEF LSpec, PutIsAtomic, Artifacts!Spec
=============================================================================
