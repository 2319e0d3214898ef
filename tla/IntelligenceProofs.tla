-------------------------- MODULE IntelligenceProofs --------------------------
(***************************************************************************)
(* What the advisor guarantees for any number of concurrent feedbacks and  *)
(* reports, any window and any failures of Redis.  A counter that was read *)
(* may be stale when it is written back, but never ahead of the feedbacks  *)
(* counted by then: this is what bounds the counters under every race.     *)
(***************************************************************************)
EXTENDS Intelligence, FiniteSetTheorems, TLAPS

Count == Cardinality(Feedback)

(* What the functions hold that TypeOK describes only by subsets.           *)
Rec == [artifact : {"global-policy", "storage-policy", "performance-policy"},
        action : {"cache", "evict", "promote"}, confidence : {80, 85, 90},
        timestamp : 0 .. MaxTime, validUntil : 0 .. MaxTime + Window]
Req == [by : Report, artifact : {"global-policy", "storage-policy", "performance-policy"},
        timestamp : 0 .. MaxTime, validUntil : 0 .. MaxTime + Window,
        since : 0 .. MaxTime, ttl : Int, awaited : BOOLEAN]
StoredRec == [artifact : {"global-policy", "storage-policy", "performance-policy"},
              timestamp : 0 .. MaxTime, validUntil : 0 .. MaxTime + Window,
              since : 0 .. MaxTime, landed : 0 .. MaxTime, expires : 0 .. Never]

RecsTyped ==
    /\ recs \in [Report -> SUBSET Rec]
    /\ unstored \in [Report -> SUBSET Rec] /\ applied \in [Report -> SUBSET Rec]
    /\ inflight \subseteq Req /\ stored \subseteq StoredRec

(* A counter in the hands of a call is never ahead of those counted.        *)
LoadedBehind ==
    \A c \in Feedback :
        /\ pc[c] = "counted" => loaded[c] <= Cardinality(Counted)
        /\ pc[c] = "rated" => loaded[c] <= Cardinality(Rated)
        /\ pc[c] \in {"rate", "rated", "divide"} => c \in rated

(* Two calls in updateModelAccuracy have both raced, so that while one that *)
(* has not raced is there, nobody else writes back, and what it has read is *)
(* not behind those who count for good.                                     *)
RacedTogether == \A c, d \in Updating : c = d \/ {c, d} \subseteq raced

LoadedKeepsUp ==
    \A c \in Feedback :
        /\ pc[c] = "counted" => Cardinality(Counted \ raced) <= loaded[c]
        /\ pc[c] = "rated" => Cardinality(Rated \ raced) <= loaded[c]

SomeCounted == predictions = 0 => Counted = {}

(* What may still reach Redis was named.                                    *)
StrayedWereSent == \A c \in strayed : pc[c] \in {"storing", "ok", "error"}

(* A Set carries the validity that was left when its expiry was computed,   *)
(* and Redis counts it from when the Set arrives.                           *)
SentWithWhatIsLeft ==
    \A q \in inflight : q.since <= now /\ q.ttl = q.validUntil - q.since
ExpiresWhenOutdated ==
    \A e \in stored : \/ e.since >= e.validUntil
                       \/ e.expires = e.landed + (e.validUntil - e.since)

(* Nothing is carried out before it is recommended.                         *)
IdleIsEmpty == \A g \in Report : asked[g] = "idle" => applied[g] = {}

(* TypeOK in the parts that the two kinds of call touch.                    *)
FeedbackType ==
    /\ now \in 0 .. MaxTime
    /\ predictions \in 0 .. Count /\ correct \in 0 .. Count
    /\ accuracy \in [num : 0 .. Count, den : Nat \ {0}]
    /\ pc \in [Feedback -> {"idle", "invalid", "counted", "rate", "rated", "divide",
                            "stamp", "storing", "ok", "error"}]
    /\ rated \subseteq Feedback
    /\ loaded \in [Feedback -> 0 .. Count]
    /\ key \in [Feedback -> 0 .. MaxTime]
    /\ learning \in [0 .. MaxTime -> Feedback \cup {NoFeedback}]
    /\ raced \subseteq Feedback /\ strayed \subseteq Feedback

ReportType ==
    /\ now \in 0 .. MaxTime
    /\ asked \in [Report -> {"idle", "storing", "sending", "returned", "optimized"}]
    /\ \A g \in Report : unstored[g] \subseteq recs[g] /\ applied[g] \subseteq recs[g]
    /\ \A e \in stored : e.landed \in e.since .. now /\ e.expires \in now + 1 .. Never

FeedbackInv ==
    /\ FeedbackType
    /\ CountersTrackFeedback /\ LoadedBehind /\ RacedTogether /\ LoadedKeepsUp
    /\ SomeCounted
    /\ StrayedWereSent /\ AckedIsLearntOrReplaced

ReportInv ==
    /\ ReportType /\ RecsTyped
    /\ SentWithWhatIsLeft /\ ExpiresWhenOutdated /\ IdleIsEmpty

AdvisorInv == FeedbackInv /\ ReportInv /\ errors \in 0 .. MaxErrors

-----------------------------------------------------------------------------
LEMMA CountedFinite ==
  /\ IsFiniteSet(Counted) /\ Cardinality(Counted) \in 0 .. Count
  /\ IsFiniteSet(Rated) /\ Cardinality(Rated) \in 0 .. Cardinality(Counted)
  /\ Count \in Nat
<1>1. IsFiniteSet(Feedback) /\ Count \in Nat
  BY IntelligenceAssumption, FS_CardinalityType DEF Count
<1>2. Counted \in SUBSET Feedback /\ Rated \in SUBSET Counted
  BY DEF Counted, Rated
<1>3. IsFiniteSet(Counted) /\ Cardinality(Counted) <= Count
  BY <1>1, <1>2, FS_Subset DEF Count
<1>4. IsFiniteSet(Rated) /\ Cardinality(Rated) <= Cardinality(Counted)
  BY <1>2, <1>3, FS_Subset
<1>5. QED
  BY <1>1, <1>3, <1>4, FS_CardinalityType

(* Taking more away leaves no more.                                         *)
LEMMA LessWithout ==
  ASSUME NEW S, IsFiniteSet(S), NEW R, NEW T, R \subseteq T
  PROVE  /\ Cardinality(S \ R) \in Nat /\ Cardinality(S \ T) \in Nat
         /\ Cardinality(S \ T) <= Cardinality(S \ R)
<1>1. IsFiniteSet(S \ R)
  BY FS_Subset
<1>2. IsFiniteSet(S \ T) /\ Cardinality(S \ T) <= Cardinality(S \ R)
  <2>1. (S \ T) \in SUBSET (S \ R)
    OBVIOUS
  <2>2. QED
    BY <1>1, <2>1, FS_Subset
<1>3. QED
  BY <1>1, <1>2, FS_CardinalityType

(* One more adds at most one to those that are not taken away.              *)
LEMMA OneMoreWithout ==
  ASSUME NEW S, IsFiniteSet(S), NEW R, NEW x, x \notin S
  PROVE  /\ Cardinality((S \cup {x}) \ R) \in Nat /\ Cardinality(S \ R) \in Nat
         /\ Cardinality((S \cup {x}) \ R) <= Cardinality(S \ R) + 1
<1>1. IsFiniteSet(S \ R) /\ Cardinality(S \ R) \in Nat
  BY FS_Subset, FS_CardinalityType
<1>2. CASE x \in R
  <2>1. (S \cup {x}) \ R = S \ R
    BY <1>2
  <2>2. QED
    BY <1>1, <2>1
<1>3. CASE x \notin R
  <2>1. (S \cup {x}) \ R = (S \ R) \cup {x} /\ x \notin (S \ R)
    BY <1>3
  <2>2. Cardinality((S \ R) \cup {x}) = Cardinality(S \ R) + 1
    BY <1>1, <2>1, FS_AddElement
  <2>3. QED
    BY <1>1, <2>1, <2>2
<1>4. QED
  BY <1>2, <1>3

LEMMA AdvisorInit == Init => AdvisorInv
<1> SUFFICES ASSUME Init PROVE AdvisorInv
  OBVIOUS
<1>1. Count \in Nat
  BY CountedFinite
<1>2. Counted = {} /\ Rated = {} /\ Updating = {}
  BY DEF Init, Counted, Rated, Updating
<1>3. /\ Cardinality(Counted) = 0 /\ Cardinality(Rated) = 0
      /\ Cardinality(Counted \ raced) = 0 /\ Cardinality(Rated \ raced) = 0
  BY <1>2, FS_EmptySet
<1>4. FeedbackType
  <2>1. /\ now \in 0 .. MaxTime /\ predictions \in 0 .. Count /\ correct \in 0 .. Count
        /\ accuracy \in [num : 0 .. Count, den : Nat \ {0}]
        /\ loaded \in [Feedback -> 0 .. Count] /\ key \in [Feedback -> 0 .. MaxTime]
    BY <1>1, IntelligenceAssumption DEF Init
  <2>2. learning \in [0 .. MaxTime -> Feedback \cup {NoFeedback}]
    BY DEF Init
  <2>3. /\ pc \in [Feedback -> {"idle"}] /\ rated = {} /\ raced = {} /\ strayed = {}
    BY DEF Init
  <2>4. QED
    BY <2>1, <2>2, <2>3 DEF FeedbackType
<1>5. ReportInv
  BY IntelligenceAssumption
     DEF Init, ReportInv, ReportType, RecsTyped, SentWithWhatIsLeft,
         ExpiresWhenOutdated, IdleIsEmpty
<1>6. /\ CountersTrackFeedback /\ LoadedBehind /\ RacedTogether /\ LoadedKeepsUp
      /\ SomeCounted
  BY <1>2, <1>3
     DEF Init, CountersTrackFeedback, LoadedBehind, RacedTogether, LoadedKeepsUp,
         SomeCounted
<1>7. StrayedWereSent /\ AckedIsLearntOrReplaced /\ errors \in 0 .. MaxErrors
  BY IntelligenceAssumption DEF Init, StrayedWereSent, AckedIsLearntOrReplaced
<1>8. QED
  BY <1>4, <1>5, <1>6, <1>7 DEF AdvisorInv, FeedbackInv

-----------------------------------------------------------------------------
(* Feedback.                                                                *)

(* Steps outside updateModelAccuracy: they count nothing and write nothing  *)
(* back.                                                                    *)
LEMMA PlainStep ==
  ASSUME FeedbackInv, UNCHANGED <<counters, rated, loaded, raced>>,
         \A c \in Feedback : \/ pc'[c] = pc[c]
                             \/ pc[c] = "idle" /\ pc'[c] = "invalid"
                             \/ /\ pc[c] \in {"stamp", "storing"}
                                /\ pc'[c] \in {"storing", "ok", "error"}
  PROVE  /\ CountersTrackFeedback' /\ LoadedBehind' /\ RacedTogether' /\ LoadedKeepsUp'
         /\ SomeCounted'
<1>1. Counted' = Counted /\ Rated' = Rated /\ Updating' = Updating
  BY DEF Counted, Rated, Updating
<1>2. \A d \in Feedback : pc'[d] \in {"counted", "rate", "rated", "divide"}
                              => pc'[d] = pc[d]
  OBVIOUS
<1>3. CountersTrackFeedback' /\ SomeCounted'
  BY <1>1 DEF FeedbackInv, CountersTrackFeedback, SomeCounted, counters
<1>4. LoadedBehind' /\ LoadedKeepsUp'
  BY <1>1, <1>2 DEF FeedbackInv, LoadedBehind, LoadedKeepsUp
<1>5. RacedTogether'
  BY <1>1 DEF FeedbackInv, RacedTogether
<1>6. QED
  BY <1>3, <1>4, <1>5

(* Steps in updateModelAccuracy touch no name and no record.                *)
LEMMA CountingKeepsRecords ==
  ASSUME FeedbackInv, NEW c \in Feedback, NEW w,
         pc[c] \notin {"storing", "ok", "error"}, w # "ok", Goto(c, w),
         UNCHANGED <<key, learning, strayed>>
  PROVE  StrayedWereSent' /\ AckedIsLearntOrReplaced'
<1>1. \A d \in Feedback : pc[d] \in {"storing", "ok", "error"} => pc'[d] = pc[d]
  BY DEF FeedbackInv, FeedbackType, Goto
<1>2. \A d \in Feedback : pc'[d] = "ok" => pc[d] = "ok"
  BY DEF FeedbackInv, FeedbackType, Goto
<1>3. StrayedWereSent'
  BY <1>1 DEF FeedbackInv, FeedbackType, StrayedWereSent
<1>4. AckedIsLearntOrReplaced'
  BY <1>1, <1>2 DEF FeedbackInv, AckedIsLearntOrReplaced
<1>5. QED
  BY <1>3, <1>4

(* The counter is read: other calls may already be under way, and then they *)
(* have all raced from now on.                                              *)
LEMMA LoadCountStep ==
  ASSUME FeedbackInv, NEW c \in Feedback, LoadCount(c)
  PROVE  FeedbackInv'
<1>1. /\ FeedbackType /\ pc[c] = "idle" /\ rated' \in {rated, rated \cup {c}}
      /\ loaded' = [loaded EXCEPT ![c] = predictions]
      /\ raced' = IF Updating = {} THEN raced ELSE raced \cup Updating \cup {c}
      /\ pc' = [pc EXCEPT ![c] = "counted"]
      /\ UNCHANGED <<now, predictions, correct, accuracy, key, learning, strayed>>
  BY DEF FeedbackInv, LoadCount, Goto, counters
<1>2. Counted' = Counted /\ Rated' = Rated /\ Updating' = Updating \cup {c}
  BY <1>1 DEF FeedbackType, Counted, Rated, Updating
<1>3. FeedbackType'
  BY <1>1 DEF FeedbackType, Updating
<1>4. /\ Cardinality(Counted' \ raced') <= Cardinality(Counted \ raced)
      /\ Cardinality(Rated' \ raced') <= Cardinality(Rated \ raced)
      /\ Cardinality(Counted' \ raced') \in Nat /\ Cardinality(Rated' \ raced') \in Nat
      /\ Cardinality(Counted \ raced) \in Nat /\ Cardinality(Rated \ raced) \in Nat
  <2>1. raced \subseteq raced'
    BY <1>1
  <2>2. QED
    BY <1>2, <2>1, CountedFinite, LessWithout
<1>5. /\ predictions \in Cardinality(Counted \ raced) .. Cardinality(Counted)
      /\ correct \in Cardinality(Rated \ raced) .. Cardinality(Rated)
      /\ raced = {} => accuracy.num <= accuracy.den
      /\ Cardinality(Counted) \in Nat /\ Cardinality(Rated) \in Nat
  BY CountedFinite DEF FeedbackInv, CountersTrackFeedback
<1>6. CountersTrackFeedback' /\ SomeCounted'
  <2>1. raced' = {} => raced = {}
    BY <1>1
  <2>2. /\ predictions \in Cardinality(Counted' \ raced') .. Cardinality(Counted')
        /\ correct \in Cardinality(Rated' \ raced') .. Cardinality(Rated')
    BY <1>2, <1>4, <1>5
  <2>3. QED
    BY <1>1, <1>2, <1>5, <2>1, <2>2
       DEF FeedbackInv, CountersTrackFeedback, SomeCounted
<1>7. \A d \in Feedback \ {c} : pc'[d] = pc[d] /\ loaded'[d] = loaded[d]
  BY <1>1 DEF FeedbackType
<1>8. pc'[c] = "counted" /\ loaded'[c] = predictions
  BY <1>1 DEF FeedbackType
<1>9. LoadedBehind'
  BY <1>1, <1>2, <1>5, <1>7, <1>8 DEF FeedbackInv, LoadedBehind
<1>10. LoadedKeepsUp'
  <2>1. \A d \in Feedback : loaded[d] \in Nat
    BY <1>1, CountedFinite DEF FeedbackType
  <2>2. ASSUME NEW d \in Feedback, d # c
        PROVE  /\ pc'[d] = "counted" => Cardinality(Counted' \ raced') <= loaded'[d]
               /\ pc'[d] = "rated" => Cardinality(Rated' \ raced') <= loaded'[d]
    BY <1>4, <1>7, <2>1, <2>2 DEF FeedbackInv, LoadedKeepsUp
  <2>3. Cardinality(Counted' \ raced') <= loaded'[c]
    BY <1>4, <1>5, <1>8
  <2>4. QED
    BY <1>8, <2>2, <2>3 DEF LoadedKeepsUp
<1>11. RacedTogether'
  BY <1>1, <1>2 DEF FeedbackInv, RacedTogether
<1>12. StrayedWereSent' /\ AckedIsLearntOrReplaced'
  BY <1>1, CountingKeepsRecords DEF LoadCount
<1>13. QED
  BY <1>3, <1>6, <1>9, <1>10, <1>11, <1>12 DEF FeedbackInv

(* The counter is written back: one more call is counted, so that a counter *)
(* that was behind those counted is so again.  Whoever is in its midst then *)
(* has raced, as has this call.                                             *)
LEMMA StoreCountStep ==
  ASSUME FeedbackInv, NEW c \in Feedback, StoreCount(c)
  PROVE  FeedbackInv'
<1> DEFINE w == IF c \in rated THEN "rate" ELSE "stamp"
<1>1. /\ FeedbackType /\ pc[c] = "counted" /\ predictions' = loaded[c] + 1
      /\ pc' = [pc EXCEPT ![c] = w]
      /\ UNCHANGED <<now, correct, accuracy, rated, loaded, key, learning, raced, strayed>>
  BY DEF FeedbackInv, StoreCount, Goto
<1>2. /\ Counted' = Counted \cup {c} /\ c \notin Counted /\ Rated' = Rated
      /\ Updating' \subseteq Updating /\ c \in Updating
  BY <1>1 DEF FeedbackType, Counted, Rated, Updating
<1>3. /\ Cardinality(Counted') = Cardinality(Counted) + 1
      /\ Cardinality(Counted) + 1 \in 0 .. Count
      /\ Cardinality(Counted) \in Nat /\ Cardinality(Rated) \in Nat
  <2>1. Cardinality(Counted') \in 0 .. Count
    <3>1. Counted' \in SUBSET Feedback
      BY DEF Counted
    <3>2. QED
      BY <3>1, CountedFinite, FS_Subset, FS_CardinalityType,
         IntelligenceAssumption DEF Count
  <2>2. Cardinality(Counted') = Cardinality(Counted) + 1
    BY <1>2, CountedFinite, FS_AddElement
  <2>3. Cardinality(Counted) \in Nat /\ Cardinality(Rated) \in Nat
    BY CountedFinite
  <2>4. QED
    BY <2>1, <2>2, <2>3
<1>4. /\ loaded[c] \in Nat /\ loaded[c] <= Cardinality(Counted) /\ loaded[c] \in 0 .. Count
      /\ Cardinality(Counted \ raced) <= loaded[c]
  <2>1. loaded[c] \in Nat /\ loaded[c] \in 0 .. Count
    BY <1>1, CountedFinite DEF FeedbackType
  <2>2. loaded[c] <= Cardinality(Counted)
    BY <1>1 DEF FeedbackInv, LoadedBehind
  <2>3. Cardinality(Counted \ raced) <= loaded[c]
    BY <1>1 DEF FeedbackInv, LoadedKeepsUp
  <2>4. QED
    BY <2>1, <2>2, <2>3
<1>5. FeedbackType'
  <2>1. predictions' \in 0 .. Count
    BY <1>1, <1>3, <1>4, CountedFinite
  <2>2. pc' \in [Feedback -> {"idle", "invalid", "counted", "rate", "rated", "divide",
                             "stamp", "storing", "ok", "error"}]
    BY <1>1 DEF FeedbackType
  <2>3. QED
    BY <1>1, <2>1, <2>2 DEF FeedbackType, Count
<1>6. /\ Cardinality(Counted' \ raced') \in Nat /\ Cardinality(Counted \ raced) \in Nat
      /\ Cardinality(Counted' \ raced') <= Cardinality(Counted \ raced) + 1
  BY <1>1, <1>2, CountedFinite, OneMoreWithout
<1>7. CountersTrackFeedback' /\ SomeCounted'
  <2>1. predictions' \in Cardinality(Counted' \ raced') .. Cardinality(Counted')
    BY <1>1, <1>3, <1>4, <1>6
  <2>2. predictions' # 0
    BY <1>1, <1>4
  <2>3. QED
    BY <1>1, <1>2, <2>1, <2>2 DEF FeedbackInv, CountersTrackFeedback, SomeCounted
<1>8. \A d \in Feedback \ {c} : pc'[d] = pc[d] /\ loaded[d] \in Nat
  BY <1>1, CountedFinite DEF FeedbackType
<1>9. pc'[c] \in {"rate", "stamp"} /\ (pc'[c] = "rate" => c \in rated)
  BY <1>1 DEF FeedbackType
<1>10. LoadedBehind'
  BY <1>1, <1>2, <1>3, <1>8, <1>9 DEF FeedbackInv, LoadedBehind
<1>11. LoadedKeepsUp'
  <2>1. ASSUME NEW d \in Feedback, pc'[d] = "counted"
        PROVE  Cardinality(Counted' \ raced') <= loaded'[d]
    <3>1. d # c /\ pc[d] = "counted" /\ d \in Updating
      BY <1>8, <1>9, <2>1 DEF Updating
    <3>2. c \in raced
      BY <1>2, <3>1 DEF FeedbackInv, RacedTogether
    <3>3. Counted' \ raced' = Counted \ raced
      BY <1>1, <1>2, <3>2
    <3>4. QED
      BY <1>1, <3>1, <3>3 DEF FeedbackInv, LoadedKeepsUp
  <2>2. ASSUME NEW d \in Feedback, pc'[d] = "rated"
        PROVE  Cardinality(Rated' \ raced') <= loaded'[d]
    BY <1>1, <1>2, <1>8, <1>9, <2>2 DEF FeedbackInv, LoadedKeepsUp
  <2>3. QED
    BY <2>1, <2>2 DEF LoadedKeepsUp
<1>12. RacedTogether'
  BY <1>1, <1>2 DEF FeedbackInv, RacedTogether
<1>13. StrayedWereSent' /\ AckedIsLearntOrReplaced'
  BY <1>1, CountingKeepsRecords DEF StoreCount
<1>14. QED
  BY <1>5, <1>7, <1>10, <1>11, <1>12, <1>13 DEF FeedbackInv

LEMMA LoadCorrectStep ==
  ASSUME FeedbackInv, NEW c \in Feedback, LoadCorrect(c)
  PROVE  FeedbackInv'
<1>1. /\ FeedbackType /\ pc[c] = "rate"
      /\ loaded' = [loaded EXCEPT ![c] = correct]
      /\ pc' = [pc EXCEPT ![c] = "rated"]
      /\ UNCHANGED <<now, predictions, correct, accuracy, rated, key, learning, raced,
                     strayed>>
  BY DEF FeedbackInv, LoadCorrect, Goto, counters
<1>2. /\ Counted' = Counted /\ Rated' = Rated /\ Updating' = Updating
      /\ c \in Updating
  BY <1>1 DEF FeedbackType, Counted, Rated, Updating
<1>3. FeedbackType'
  BY <1>1 DEF FeedbackType
<1>4. CountersTrackFeedback' /\ SomeCounted'
  BY <1>1, <1>2 DEF FeedbackInv, CountersTrackFeedback, SomeCounted
<1>5. LoadedBehind'
  BY <1>1, <1>2, CountedFinite
     DEF FeedbackInv, FeedbackType, LoadedBehind, CountersTrackFeedback
<1>6. LoadedKeepsUp'
  <2>1. \A d \in Feedback \ {c} : pc'[d] = pc[d] /\ loaded'[d] = loaded[d]
    BY <1>1 DEF FeedbackType
  <2>2. pc'[c] = "rated" /\ loaded'[c] = correct
    BY <1>1 DEF FeedbackType
  <2>3. Cardinality(Rated \ raced) <= correct
    BY CountedFinite DEF FeedbackInv, CountersTrackFeedback
  <2>4. QED
    BY <1>1, <1>2, <2>1, <2>2, <2>3 DEF FeedbackInv, LoadedKeepsUp
<1>7. RacedTogether'
  BY <1>1, <1>2 DEF FeedbackInv, RacedTogether
<1>8. StrayedWereSent' /\ AckedIsLearntOrReplaced'
  BY <1>1, CountingKeepsRecords DEF LoadCorrect
<1>9. QED
  BY <1>3, <1>4, <1>5, <1>6, <1>7, <1>8 DEF FeedbackInv

LEMMA StoreCorrectStep ==
  ASSUME FeedbackInv, NEW c \in Feedback, StoreCorrect(c)
  PROVE  FeedbackInv'
<1>1. /\ FeedbackType /\ pc[c] = "rated" /\ correct' = loaded[c] + 1
      /\ pc' = [pc EXCEPT ![c] = "divide"] /\ c \in rated
      /\ UNCHANGED <<now, predictions, accuracy, rated, loaded, key, learning, raced,
                     strayed>>
  BY DEF FeedbackInv, LoadedBehind, StoreCorrect, Goto
<1>2. /\ Counted' = Counted /\ Rated' = Rated \cup {c} /\ c \notin Rated
      /\ Updating' = Updating /\ c \in Updating
  BY <1>1 DEF FeedbackType, Counted, Rated, Updating
<1>3. /\ Cardinality(Rated') = Cardinality(Rated) + 1
      /\ Cardinality(Rated) + 1 \in 0 .. Count /\ Cardinality(Rated) \in Nat
  <2>1. Cardinality(Rated') \in 0 .. Count
    <3>1. Rated' \in SUBSET Feedback
      BY DEF Rated, Counted
    <3>2. QED
      BY <3>1, CountedFinite, FS_Subset, FS_CardinalityType,
         IntelligenceAssumption DEF Count
  <2>2. Cardinality(Rated') = Cardinality(Rated) + 1
    BY <1>2, CountedFinite, FS_AddElement
  <2>3. Cardinality(Rated) \in Nat
    BY CountedFinite
  <2>4. QED
    BY <2>1, <2>2, <2>3
<1>4. /\ loaded[c] \in Nat /\ loaded[c] <= Cardinality(Rated)
      /\ Cardinality(Rated \ raced) <= loaded[c]
  <2>1. loaded[c] \in Nat /\ loaded[c] \in 0 .. Count
    BY <1>1, CountedFinite DEF FeedbackType
  <2>2. loaded[c] <= Cardinality(Rated)
    BY <1>1 DEF FeedbackInv, LoadedBehind
  <2>3. Cardinality(Rated \ raced) <= loaded[c]
    BY <1>1 DEF FeedbackInv, LoadedKeepsUp
  <2>4. QED
    BY <2>1, <2>2, <2>3
<1>5. FeedbackType'
  <2>1. correct' \in 0 .. Count
    BY <1>1, <1>3, <1>4, CountedFinite
  <2>2. QED
    BY <1>1, <2>1 DEF FeedbackType
<1>6. /\ Cardinality(Rated' \ raced') \in Nat /\ Cardinality(Rated \ raced) \in Nat
      /\ Cardinality(Rated' \ raced') <= Cardinality(Rated \ raced) + 1
  BY <1>1, <1>2, CountedFinite, OneMoreWithout
<1>7. CountersTrackFeedback' /\ SomeCounted'
  <2>1. correct' \in Cardinality(Rated' \ raced') .. Cardinality(Rated')
    BY <1>1, <1>3, <1>4, <1>6
  <2>2. QED
    BY <1>1, <1>2, <2>1 DEF FeedbackInv, CountersTrackFeedback, SomeCounted
<1>8. \A d \in Feedback \ {c} : pc'[d] = pc[d] /\ loaded[d] \in Nat
  BY <1>1, CountedFinite DEF FeedbackType
<1>9. pc'[c] = "divide"
  BY <1>1 DEF FeedbackType
<1>10. LoadedBehind'
  BY <1>1, <1>2, <1>3, <1>8, <1>9 DEF FeedbackInv, LoadedBehind
<1>11. LoadedKeepsUp'
  <2>1. ASSUME NEW d \in Feedback, pc'[d] = "rated"
        PROVE  Cardinality(Rated' \ raced') <= loaded'[d]
    <3>1. d # c /\ pc[d] = "rated" /\ d \in Updating
      BY <1>8, <1>9, <2>1 DEF Updating
    <3>2. c \in raced
      BY <1>2, <3>1 DEF FeedbackInv, RacedTogether
    <3>3. Rated' \ raced' = Rated \ raced
      BY <1>1, <1>2, <3>2
    <3>4. QED
      BY <1>1, <3>1, <3>3 DEF FeedbackInv, LoadedKeepsUp
  <2>2. ASSUME NEW d \in Feedback, pc'[d] = "counted"
        PROVE  Cardinality(Counted' \ raced') <= loaded'[d]
    BY <1>1, <1>2, <1>8, <1>9, <2>2 DEF FeedbackInv, LoadedKeepsUp
  <2>3. QED
    BY <2>1, <2>2 DEF LoadedKeepsUp
<1>12. RacedTogether'
  BY <1>1, <1>2 DEF FeedbackInv, RacedTogether
<1>13. StrayedWereSent' /\ AckedIsLearntOrReplaced'
  BY <1>1, CountingKeepsRecords DEF StoreCorrect
<1>14. QED
  BY <1>5, <1>7, <1>10, <1>11, <1>12, <1>13 DEF FeedbackInv

(* The quotient has a divisor: the call that divides has counted itself.    *)
LEMMA DivideStep ==
  ASSUME FeedbackInv, NEW c \in Feedback, Divide(c)
  PROVE  FeedbackInv'
<1>1. /\ FeedbackType /\ pc[c] = "divide"
      /\ accuracy' = [num |-> correct, den |-> predictions]
      /\ pc' = [pc EXCEPT ![c] = "stamp"]
      /\ UNCHANGED <<now, predictions, correct, rated, loaded, key, learning, raced,
                     strayed>>
  BY DEF FeedbackInv, Divide, Goto
<1>2. /\ Counted' = Counted /\ Rated' = Rated /\ Updating' \subseteq Updating
      /\ c \in Counted
  BY <1>1 DEF FeedbackType, Counted, Rated, Updating
<1>3. predictions # 0
  BY <1>2 DEF FeedbackInv, SomeCounted
<1>4. FeedbackType'
  <2>1. predictions \in Nat \ {0}
    BY <1>1, <1>3, CountedFinite DEF FeedbackType
  <2>2. QED
    BY <1>1, <2>1 DEF FeedbackType
<1>5. CountersTrackFeedback' /\ SomeCounted'
  <2>1. ASSUME raced = {} PROVE accuracy'.num <= accuracy'.den
    <3>1. Counted \ raced = Counted /\ Cardinality(Rated) <= Cardinality(Counted)
      BY <2>1, CountedFinite
    <3>2. correct <= Cardinality(Rated) /\ Cardinality(Counted) <= predictions
      BY <3>1, CountedFinite DEF FeedbackInv, CountersTrackFeedback
    <3>3. correct \in Nat /\ predictions \in Nat
      BY <1>1, CountedFinite DEF FeedbackType
    <3>4. QED
      BY <1>1, <3>1, <3>2, <3>3, CountedFinite
  <2>2. QED
    BY <1>1, <1>2, <2>1 DEF FeedbackInv, CountersTrackFeedback, SomeCounted
<1>6. LoadedBehind' /\ LoadedKeepsUp'
  <2>1. \A d \in Feedback : pc'[d] \in {"counted", "rate", "rated", "divide"}
                                => pc'[d] = pc[d]
    BY <1>1 DEF FeedbackType
  <2>2. QED
    BY <1>1, <1>2, <2>1 DEF FeedbackInv, LoadedBehind, LoadedKeepsUp
<1>7. RacedTogether'
  BY <1>1, <1>2 DEF FeedbackInv, RacedTogether
<1>8. StrayedWereSent' /\ AckedIsLearntOrReplaced'
  BY <1>1, CountingKeepsRecords DEF Divide
<1>9. QED
  BY <1>4, <1>5, <1>6, <1>7, <1>8 DEF FeedbackInv

(* A record is named and stored, and what it replaces was named after the   *)
(* same second.                                                             *)
LEMMA RecordStep ==
  ASSUME FeedbackInv, NEW c \in Feedback,
         \/ RejectFeedback(c) \/ MarshalFails(c) \/ NameRecord(c)
         \/ StoreRecord(c) \/ RepeatRecord(c) \/ StoreFails(c) \/ StrayRecordLands(c)
  PROVE  FeedbackInv'
<1> DEFINE Sent == {"storing", "ok", "error"}
<1>1. FeedbackType /\ StrayedWereSent /\ AckedIsLearntOrReplaced
  BY DEF FeedbackInv
<1>2. CASE RejectFeedback(c) \/ MarshalFails(c)
  <2>1. PICK w \in {"invalid", "error"} :
            /\ \/ pc[c] = "idle" /\ w = "invalid"
               \/ pc[c] = "stamp" /\ w = "error"
            /\ Goto(c, w) /\ pc' = [pc EXCEPT ![c] = w]
            /\ UNCHANGED <<now, counters, rated, loaded, key, learning, raced, strayed>>
    BY <1>2 DEF RejectFeedback, MarshalFails, Goto
  <2>2. FeedbackType'
    BY <1>1, <2>1 DEF FeedbackType, counters
  <2>3. /\ CountersTrackFeedback' /\ LoadedBehind' /\ RacedTogether' /\ LoadedKeepsUp'
        /\ SomeCounted'
    BY <1>1, <2>1, PlainStep DEF FeedbackType
  <2>4. StrayedWereSent' /\ AckedIsLearntOrReplaced'
    BY <2>1, CountingKeepsRecords
  <2>5. QED
    BY <2>2, <2>3, <2>4 DEF FeedbackInv
<1>3. CASE NameRecord(c)
  <2>1. /\ pc[c] = "stamp" /\ key' = [key EXCEPT ![c] = now]
        /\ pc' = [pc EXCEPT ![c] = "storing"]
        /\ UNCHANGED <<now, counters, rated, loaded, learning, raced, strayed>>
    BY <1>3 DEF NameRecord, Goto
  <2>2. FeedbackType'
    BY <1>1, <2>1 DEF FeedbackType, counters
  <2>3. /\ CountersTrackFeedback' /\ LoadedBehind' /\ RacedTogether' /\ LoadedKeepsUp'
        /\ SomeCounted'
    BY <1>1, <2>1, PlainStep DEF FeedbackType
  <2>4. \A d \in Feedback : pc[d] \in Sent => d # c /\ pc'[d] = pc[d] /\ key'[d] = key[d]
    BY <1>1, <2>1 DEF FeedbackType
  <2>5. \A d \in Feedback : pc'[d] = "ok" => pc[d] = "ok"
    BY <1>1, <2>1 DEF FeedbackType
  <2>6. StrayedWereSent' /\ AckedIsLearntOrReplaced'
    BY <1>1, <2>1, <2>4, <2>5
       DEF FeedbackType, StrayedWereSent, AckedIsLearntOrReplaced
  <2>7. QED
    BY <2>2, <2>3, <2>6 DEF FeedbackInv
<1>4. CASE StoreRecord(c) \/ RepeatRecord(c) \/ StoreFails(c) \/ StrayRecordLands(c)
  <2>1. /\ pc[c] \in Sent
        /\ \/ pc' = pc
           \/ pc[c] = "storing" /\ pc' = [pc EXCEPT ![c] = "error"]
           \/ /\ pc[c] = "storing" /\ pc' = [pc EXCEPT ![c] = "ok"]
              /\ learning' = [learning EXCEPT ![key[c]] = c]
        /\ learning' \in {learning, [learning EXCEPT ![key[c]] = c]}
        /\ strayed' \subseteq strayed \cup {c}
        /\ UNCHANGED <<now, counters, rated, loaded, key, raced>>
    BY <1>1, <1>4
       DEF StoreRecord, RepeatRecord, StoreFails, StrayRecordLands, Goto, StrayedWereSent
  <2>2. FeedbackType'
    BY <1>1, <2>1 DEF FeedbackType, counters
  <2>3. \A d \in Feedback : /\ d # c => pc'[d] = pc[d]
                            /\ pc[d] \in Sent => pc'[d] \in Sent
                            /\ key[d] \in 0 .. MaxTime
    BY <1>1, <2>1 DEF FeedbackType
  <2>4. \/ pc'[c] = pc[c]
        \/ pc[c] = "storing" /\ pc'[c] \in Sent
    BY <1>1, <2>1 DEF FeedbackType
  <2>5. /\ CountersTrackFeedback' /\ LoadedBehind' /\ RacedTogether' /\ LoadedKeepsUp'
        /\ SomeCounted'
    BY <2>1, <2>3, <2>4, PlainStep
  <2>6. StrayedWereSent'
    BY <1>1, <2>1, <2>3 DEF FeedbackType, StrayedWereSent
  <2>7. AckedIsLearntOrReplaced'
    <3>1. \A s \in 0 .. MaxTime : \/ learning'[s] = learning[s]
                                  \/ s = key[c] /\ learning'[s] = c
      BY <1>1, <2>1 DEF FeedbackType
    <3>2. ASSUME NEW d \in Feedback, pc'[d] = "ok"
          PROVE  \E x \in Feedback : /\ learning'[key[d]] = x
                                     /\ key[x] = key[d] /\ pc'[x] \in Sent
      <4>1. CASE learning'[key[d]] = c /\ key[d] = key[c]
        BY <2>1, <2>3, <4>1
      <4>2. CASE learning'[key[d]] = learning[key[d]] /\ pc[d] = "ok"
        BY <1>1, <2>3, <4>2 DEF AckedIsLearntOrReplaced
      <4>3. CASE pc[d] # "ok"
        <5>1. d = c /\ learning' = [learning EXCEPT ![key[c]] = c]
          BY <1>1, <2>1, <2>3, <3>2, <4>3 DEF FeedbackType
        <5>2. learning'[key[d]] = c
          BY <1>1, <2>3, <5>1 DEF FeedbackType
        <5>3. QED
          BY <4>1, <5>1, <5>2
      <4>4. QED
        BY <2>3, <3>1, <4>1, <4>2, <4>3
    <3>3. QED
      BY <2>1, <3>2 DEF AckedIsLearntOrReplaced
  <2>8. QED
    BY <2>2, <2>5, <2>6, <2>7 DEF FeedbackInv
<1>5. QED
  BY <1>2, <1>3, <1>4

(* Steps of others.                                                         *)
LEMMA FeedbackAside ==
  ASSUME FeedbackInv, UNCHANGED feedbackVars, now' \in 0 .. MaxTime
  PROVE  FeedbackInv'
<1> USE DEF feedbackVars, counters, FeedbackInv
<1>1. FeedbackType'
  BY DEF FeedbackType
<1>2. Counted' = Counted /\ Rated' = Rated /\ Updating' = Updating
  BY DEF Counted, Rated, Updating
<1>3. /\ CountersTrackFeedback' /\ LoadedBehind' /\ RacedTogether' /\ LoadedKeepsUp'
      /\ SomeCounted'
  BY <1>2 DEF CountersTrackFeedback, LoadedBehind, RacedTogether, LoadedKeepsUp,
     SomeCounted
<1>4. StrayedWereSent' /\ AckedIsLearntOrReplaced'
  BY DEF StrayedWereSent, AckedIsLearntOrReplaced
<1>5. QED
  BY <1>1, <1>3, <1>4

LEMMA LearnStep ==
  ASSUME FeedbackInv, NEW c \in Feedback, Learn(c)
  PROVE  FeedbackInv'
BY LoadCountStep, StoreCountStep, LoadCorrectStep, StoreCorrectStep, DivideStep,
   RecordStep DEF Learn

-----------------------------------------------------------------------------
(* Recommendations.                                                         *)

(* A Set is sent with what is left of the validity.                         *)
LEMMA SendStep ==
  ASSUME ReportInv, NEW g \in Report, StoreRecommendation(g)
  PROVE  ReportInv'
<1> USE DEF ReportInv
<1>1. PICK r \in unstored[g] : Send(g, r, r.validUntil - now)
  BY DEF StoreRecommendation
<1> DEFINE q == Request(g, r, r.validUntil - now)
<1>2. /\ inflight' = inflight \cup {q}
      /\ unstored' = [unstored EXCEPT ![g] = unstored[g] \ {r}]
      /\ asked' = [asked EXCEPT ![g] = "sending"] /\ asked[g] = "storing"
      /\ UNCHANGED <<now, recs, applied, stored>>
  BY <1>1 DEF Send, StoreRecommendation
<1>3. r \in Rec /\ now \in 0 .. MaxTime /\ MaxTime \in Nat /\ Window \in Nat
  BY IntelligenceAssumption DEF ReportType, RecsTyped
<1>4. /\ q \in Req /\ q.since = now /\ q.ttl = q.validUntil - q.since
  <2>1. r.validUntil - now \in Int
    BY <1>3 DEF Rec
  <2>2. QED
    BY <1>3, <2>1 DEF Rec, Req, Request
<1> HIDE DEF q
<1>5. ReportType' /\ RecsTyped' /\ ExpiresWhenOutdated' /\ IdleIsEmpty'
  BY <1>2, <1>4 DEF ReportType, RecsTyped, ExpiresWhenOutdated, IdleIsEmpty
<1>6. SentWithWhatIsLeft'
  BY <1>2, <1>3, <1>4 DEF SentWithWhatIsLeft
<1>7. QED
  BY <1>5, <1>6

(* What Redis sets leaves when it is outdated, later by as much as the Set  *)
(* was under way, or was outdated when it was sent.                         *)
LEMMA LandedIsTyped ==
  ASSUME ReportInv, NEW q \in inflight
  PROVE  /\ Landed(q) \subseteq StoredRec
         /\ \A e \in Landed(q) :
                /\ e.landed \in e.since .. now /\ e.expires \in now + 1 .. Never
                /\ \/ e.since >= e.validUntil
                   \/ e.expires = e.landed + (e.validUntil - e.since)
<1>1. /\ now \in 0 .. MaxTime /\ MaxTime \in Nat /\ Window \in Nat
      /\ Never = 2 * MaxTime + Window + 1
  BY IntelligenceAssumption DEF ReportInv, ReportType, Never
<1>2. /\ q.validUntil \in 0 .. MaxTime + Window /\ q.timestamp \in 0 .. MaxTime
      /\ q.artifact \in {"global-policy", "storage-policy", "performance-policy"}
      /\ q.since \in 0 .. MaxTime /\ q.since <= now
      /\ q.ttl = q.validUntil - q.since
  BY DEF ReportInv, RecsTyped, SentWithWhatIsLeft, Req
<1> DEFINE expires == IF q.ttl > 0 THEN now + q.ttl ELSE Never
           new == [artifact |-> q.artifact, timestamp |-> q.timestamp,
                   validUntil |-> q.validUntil, since |-> q.since, landed |-> now,
                   expires |-> expires]
<1>3. /\ expires \in now + 1 .. Never /\ expires \in 0 .. Never
      /\ (q.since >= q.validUntil \/ expires = now + (q.validUntil - q.since))
  BY <1>1, <1>2
<1>4. /\ new.expires = expires /\ new.validUntil = q.validUntil
      /\ new.since = q.since /\ new.landed = now
  OBVIOUS
<1>5. now \in q.since .. now
  BY <1>1, <1>2
<1>6. new \in StoredRec
  <2> HIDE DEF expires
  <2>1. QED
    BY <1>1, <1>2, <1>3 DEF StoredRec
<1>7. Landed(q) \subseteq stored \cup {new}
  BY DEF Landed
<1> HIDE DEF new, expires
<1>8. \A e \in stored : /\ e \in StoredRec
                        /\ e.landed \in e.since .. now /\ e.expires \in now + 1 .. Never
                        /\ \/ e.since >= e.validUntil
                           \/ e.expires = e.landed + (e.validUntil - e.since)
  BY DEF ReportInv, ReportType, RecsTyped, ExpiresWhenOutdated
<1>9. QED
  BY <1>3, <1>4, <1>5, <1>6, <1>7, <1>8

(* A Set arrives, is repeated or is given up.                               *)
LEMMA InFlightStep ==
  ASSUME ReportInv, NEW g \in Report,
         \/ RecommendationLands(g) \/ StrayRecommendationLands(g)
         \/ RepeatRecommendation(g) \/ StoreRecommendationFails(g)
  PROVE  ReportInv'
<1>1. PICK q \in inflight :
        /\ inflight' \subseteq inflight \cup {Unanswered(q)}
        /\ stored' \in {stored, Landed(q)}
        /\ asked' \in {asked, [asked EXCEPT ![g] = "storing"]}
        /\ asked' = asked \/ Awaited(g) # {}
        /\ UNCHANGED <<now, recs, unstored, applied>>
  BY DEF RecommendationLands, StrayRecommendationLands, RepeatRecommendation,
     StoreRecommendationFails, Awaited
<1>2. /\ Unanswered(q) \in Req
      /\ Unanswered(q).since <= now
      /\ Unanswered(q).ttl = Unanswered(q).validUntil - Unanswered(q).since
  BY DEF ReportInv, RecsTyped, SentWithWhatIsLeft, Req, Unanswered
<1>3. /\ stored' \subseteq StoredRec
      /\ \A e \in stored' :
            /\ e.landed \in e.since .. now /\ e.expires \in now + 1 .. Never
            /\ \/ e.since >= e.validUntil
               \/ e.expires = e.landed + (e.validUntil - e.since)
  BY <1>1, LandedIsTyped DEF ReportInv, ReportType, RecsTyped, ExpiresWhenOutdated
<1>4. ReportType' /\ ExpiresWhenOutdated'
  BY <1>1, <1>3 DEF ReportInv, ReportType, ExpiresWhenOutdated
<1>5. RecsTyped' /\ SentWithWhatIsLeft'
  BY <1>1, <1>2, <1>3 DEF ReportInv, RecsTyped, SentWithWhatIsLeft
<1>6. IdleIsEmpty'
  BY <1>1 DEF ReportInv, ReportType, IdleIsEmpty
<1>7. QED
  BY <1>4, <1>5, <1>6 DEF ReportInv

LEMMA RecommendStep ==
  ASSUME ReportInv, NEW g \in Report, Recommend(g)
  PROVE  ReportInv'
<1>1. /\ now \in 0 .. MaxTime /\ ReportType /\ RecsTyped
      /\ recs \in [Report -> SUBSET Rec] /\ unstored \in [Report -> SUBSET Rec]
      /\ applied \in [Report -> SUBSET Rec]
      /\ asked \in [Report -> {"idle", "storing", "sending", "returned", "optimized"}]
      /\ SentWithWhatIsLeft /\ ExpiresWhenOutdated /\ IdleIsEmpty
  BY DEF ReportInv, ReportType, RecsTyped
<1>2. CASE Analyze(g)
  <2>1. PICK m \in Metrics :
          LET found == AnalyzeHitRatePatterns(m) \cup AnalyzeStorageOptimization(m)
                       \cup AnalyzePerformanceBottlenecks(m)
          IN  /\ recs' = [recs EXCEPT ![g] = found]
              /\ unstored' = [unstored EXCEPT ![g] = found]
    BY <1>2 DEF Analyze
  <2> DEFINE found == AnalyzeHitRatePatterns(m) \cup AnalyzeStorageOptimization(m)
                      \cup AnalyzePerformanceBottlenecks(m)
  <2>2. now + Window \in 0 .. MaxTime + Window
    BY <1>1, IntelligenceAssumption
  <2>3. found \subseteq Rec
    BY <1>1, <2>2 DEF Rec, Recommendation, AnalyzeHitRatePatterns,
       AnalyzeStorageOptimization, AnalyzePerformanceBottlenecks
  <2>4. /\ recs' = [recs EXCEPT ![g] = found]
        /\ unstored' = [unstored EXCEPT ![g] = found]
    BY <2>1
  <2> HIDE DEF found
  <2>5. /\ asked[g] = "idle" /\ asked' = [asked EXCEPT ![g] = "storing"]
        /\ UNCHANGED <<now, applied, stored, inflight>>
    BY <1>2 DEF Analyze
  <2>6. applied[g] \subseteq recs'[g]
    BY <1>1, <2>5 DEF IdleIsEmpty
  <2>7. ReportType' /\ RecsTyped'
    BY <1>1, <2>3, <2>4, <2>5, <2>6 DEF ReportType, RecsTyped
  <2>8. SentWithWhatIsLeft' /\ ExpiresWhenOutdated' /\ IdleIsEmpty'
    BY <1>1, <2>5 DEF SentWithWhatIsLeft, ExpiresWhenOutdated, IdleIsEmpty
  <2>9. QED
    BY <2>7, <2>8 DEF ReportInv
<1>3. CASE StoreRecommendation(g)
  BY <1>3, SendStep
<1>4. CASE \/ RecommendationLands(g) \/ StrayRecommendationLands(g)
           \/ RepeatRecommendation(g) \/ StoreRecommendationFails(g)
  BY <1>4, InFlightStep
<1>5. CASE MarshalRecommendationFails(g)
  <2>1. PICK r \in unstored[g] : unstored' = [unstored EXCEPT ![g] = unstored[g] \ {r}]
    BY <1>5 DEF MarshalRecommendationFails
  <2>2. UNCHANGED <<now, asked, recs, inflight, applied, stored>>
    BY <1>5 DEF MarshalRecommendationFails
  <2>3. QED
    BY <1>1, <2>1, <2>2 DEF ReportInv, ReportType, RecsTyped, SentWithWhatIsLeft,
       ExpiresWhenOutdated, IdleIsEmpty
<1>6. CASE ReturnRecommendations(g)
  BY <1>1, <1>6 DEF ReturnRecommendations, ReportInv, ReportType, RecsTyped,
     SentWithWhatIsLeft, ExpiresWhenOutdated, IdleIsEmpty
<1>7. CASE OptimizeCache(g)
  BY <1>1, <1>7 DEF OptimizeCache, ReportInv, ReportType, RecsTyped,
     SentWithWhatIsLeft, ExpiresWhenOutdated, IdleIsEmpty
<1>8. QED
  BY <1>2, <1>3, <1>4, <1>5, <1>6, <1>7 DEF Recommend

(* A second passes: what expires with it is dropped.                        *)
LEMMA TickStep ==
  ASSUME FeedbackInv, ReportInv, Tick
  PROVE  FeedbackInv' /\ ReportInv'
<1>1. /\ now \in 0 .. MaxTime /\ now < MaxTime /\ now' = now + 1 /\ MaxTime \in Nat
      /\ stored' = {e \in stored : e.expires > now + 1}
      /\ UNCHANGED <<feedbackVars, asked, recs, unstored, inflight, applied>>
  BY IntelligenceAssumption DEF Tick, ReportInv, ReportType
<1>2. now' \in 0 .. MaxTime
  BY <1>1
<1>3. FeedbackInv'
  BY <1>1, <1>2, FeedbackAside
<1>4. \A e \in stored' : /\ e \in stored
                         /\ e.landed \in e.since .. now' /\ e.expires \in now' + 1 .. Never
  <2>1. Never \in Int
    BY IntelligenceAssumption DEF Never
  <2>2. \A e \in stored : e.since \in Int
    BY DEF ReportInv, RecsTyped, StoredRec
  <2>3. QED
    BY <1>1, <2>1, <2>2 DEF ReportInv, ReportType
<1>5. ReportType'
  BY <1>1, <1>2, <1>4 DEF ReportInv, ReportType
<1>6. RecsTyped' /\ ExpiresWhenOutdated' /\ IdleIsEmpty'
  BY <1>1, <1>4 DEF ReportInv, RecsTyped, ExpiresWhenOutdated, IdleIsEmpty
<1>7. SentWithWhatIsLeft'
  <2>1. \A q \in inflight : q.since \in Int
    BY DEF ReportInv, RecsTyped, Req
  <2>2. QED
    BY <1>1, <2>1 DEF ReportInv, SentWithWhatIsLeft
<1>8. QED
  BY <1>3, <1>5, <1>6, <1>7 DEF ReportInv

(* Steps of others.                                                         *)
LEMMA ReportAside ==
  ASSUME ReportInv, UNCHANGED <<now, reportVars>>
  PROVE  ReportInv'
BY DEF ReportInv, reportVars, ReportType, RecsTyped, SentWithWhatIsLeft,
   ExpiresWhenOutdated, IdleIsEmpty

LEMMA AdvisorStep == AdvisorInv /\ [Next]_vars => AdvisorInv'
<1> SUFFICES ASSUME AdvisorInv, [Next]_vars PROVE AdvisorInv'
  OBVIOUS
<1>1. /\ FeedbackInv /\ ReportInv /\ errors \in 0 .. MaxErrors
      /\ now \in 0 .. MaxTime /\ MaxErrors \in Nat
  BY IntelligenceAssumption DEF AdvisorInv, ReportInv, ReportType
<1>2. ASSUME NEW c \in Feedback, Learn(c) PROVE AdvisorInv'
  <2>1. UNCHANGED <<now, reportVars>>
    BY <1>2 DEF Learn, RejectFeedback, LoadCount, StoreCount, LoadCorrect,
       StoreCorrect, Divide, MarshalFails, NameRecord, StoreRecord, RepeatRecord,
       StoreFails, StrayRecordLands
  <2>2. errors' \in 0 .. MaxErrors
    BY <1>1, <1>2 DEF Learn, RejectFeedback, LoadCount, StoreCount, LoadCorrect,
       StoreCorrect, Divide, MarshalFails, NameRecord, StoreRecord, RepeatRecord,
       StoreFails, StrayRecordLands
  <2>3. QED
    BY <1>1, <1>2, <2>1, <2>2, LearnStep, ReportAside DEF AdvisorInv
<1>3. ASSUME NEW g \in Report, Recommend(g) PROVE AdvisorInv'
  <2>1. UNCHANGED <<now, feedbackVars>>
    BY <1>3 DEF Recommend, Analyze, StoreRecommendation, MarshalRecommendationFails,
       RecommendationLands, RepeatRecommendation, StoreRecommendationFails,
       StrayRecommendationLands, ReturnRecommendations, OptimizeCache
  <2>2. errors' \in 0 .. MaxErrors
    BY <1>1, <1>3 DEF Recommend, Analyze, StoreRecommendation, MarshalRecommendationFails,
       RecommendationLands, RepeatRecommendation, StoreRecommendationFails,
       StrayRecommendationLands, ReturnRecommendations, OptimizeCache
  <2>3. QED
    BY <1>1, <1>3, <2>1, <2>2, RecommendStep, FeedbackAside DEF AdvisorInv
<1>4. CASE Tick
  BY <1>1, <1>4, TickStep DEF AdvisorInv, Tick
<1>5. CASE UNCHANGED vars
  BY <1>1, <1>5, FeedbackAside, ReportAside DEF AdvisorInv, vars
<1>6. QED
  BY <1>2, <1>3, <1>4, <1>5 DEF Next

LEMMA AdvisorInvHolds == Spec => []AdvisorInv
BY AdvisorInit, AdvisorStep, PTL DEF Spec

-----------------------------------------------------------------------------
(* The state of the advisor has its types: no counter passes the number of  *)
(* calls, and the accuracy is never divided by zero.                        *)
THEOREM TypeCorrect == Spec => []TypeOK
<1>1. AdvisorInv => TypeOK
  BY DEF AdvisorInv, FeedbackInv, FeedbackType, ReportInv, ReportType, TypeOK, Count
<1>2. QED
  BY <1>1, AdvisorInvHolds, PTL

(* updateModelAccuracy increments without a lock: whatever is lost by that, *)
(* nothing is invented, and nothing is lost of a call that met no other.    *)
THEOREM CountersAreTracked == Spec => []CountersTrackFeedback
<1>1. AdvisorInv => CountersTrackFeedback
  BY DEF AdvisorInv, FeedbackInv
<1>2. QED
  BY <1>1, AdvisorInvHolds, PTL

(* LearnFromFeedback does not acknowledge what it has not stored, and what  *)
(* takes its place, now or when a Set arrives late, has the same second in  *)
(* its name.                                                                *)
THEOREM FeedbackIsLearnt == Spec => []AckedIsLearntOrReplaced
<1>1. AdvisorInv => AckedIsLearntOrReplaced
  BY DEF AdvisorInv, FeedbackInv
<1>2. QED
  BY <1>1, AdvisorInvHolds, PTL

(* storeRecommendation sends an expiry with which Redis drops what is       *)
(* outdated, late by no more than the Set was under way: through a wait for *)
(* a connection, repeated attempts, and attempts that arrive after the call *)
(* has failed.                                                              *)
THEOREM OutdatedIsDropped == Spec => []OutdatedOnlyIfLate
<1>1. AdvisorInv => OutdatedOnlyIfLate
  <2> SUFFICES ASSUME AdvisorInv, NEW e \in stored, now >= e.validUntil,
                      ~(e.since >= e.validUntil)
               PROVE  now - e.validUntil < e.landed - e.since
    BY DEF OutdatedOnlyIfLate
  <2>1. /\ now \in Int /\ e.since \in Int /\ e.landed \in Int /\ e.validUntil \in Int
    BY DEF AdvisorInv, ReportInv, ReportType, RecsTyped, StoredRec
  <2>2. e.expires \in now + 1 .. Never /\ Never \in Int
    BY IntelligenceAssumption DEF AdvisorInv, ReportInv, ReportType, Never
  <2>3. e.expires = e.landed + (e.validUntil - e.since)
    BY DEF AdvisorInv, ReportInv, ExpiresWhenOutdated
  <2>4. QED
    BY <2>1, <2>2, <2>3
<1>2. QED
  BY <1>1, AdvisorInvHolds, PTL
=============================================================================
