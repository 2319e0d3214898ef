----------------------------- MODULE Intelligence -----------------------------
(***************************************************************************)
(* The optimisation advisor (internal/ai/intelligence.go).  Concurrent     *)
(* callers give feedback (LearnFromFeedback), which is counted without a   *)
(* lock and stored in Redis under the Unix second, and ask for             *)
(* recommendations (GenerateRecommendations), which are stored with an     *)
(* expiry and then carried out (OptimizeCache).                            *)
(*                                                                         *)
(* A second is a unit of time.  An increment of a counter is a read and a  *)
(* write, as the compiled code has it.  A Set may wait for a connection,   *)
(* and the client of Redis sends it again, with the expiry it was given,   *)
(* when it has no answer: the earlier one may reach Redis at any time, also *)
(* after its call has failed.                                              *)
(***************************************************************************)
EXTENDS Integers, FiniteSets

CONSTANTS
    Feedback,   \* calls of LearnFromFeedback
    Report,     \* calls of GenerateRecommendations, then OptimizeCache
    Metrics,    \* what analyses may find the metrics to be
    Window,     \* RecommendationWindow, in seconds
    MaxTime,    \* bound on the clock
    MaxErrors   \* bound on attempts of a Set that fail

Finding == {"missing", "fine", "bad"}

ASSUME IntelligenceAssumption ==
    /\ Metrics \subseteq [hit_rate : Finding, storage : Finding, latency : Finding]
    /\ Window \in Nat /\ MaxTime \in Nat /\ MaxErrors \in Nat
    /\ IsFiniteSet(Feedback)

VARIABLES
    now,        \* time.Now().Unix()
    predictions,\* metrics.PredictionsCount
    correct,    \* metrics.CorrectPredictions
    accuracy,   \* metrics.Accuracy, as the quotient num / den
    pc,         \* pc[c]: where the feedback c is, or its answer
    rated,      \* the feedbacks with a prediction_accuracy
    loaded,     \* loaded[c]: the counter as c has read it
    key,        \* key[c]: the second in the name c is stored under
    learning,   \* learning[s]: the feedback under "ai:learning:s" in Redis
    raced,      \* those in updateModelAccuracy beside another  (history)
    strayed,    \* the feedbacks with an unanswered Set on its way to Redis
    asked,      \* asked[g]: where the report g is
    recs,       \* recs[g]: its recommendations
    unstored,   \* unstored[g]: those it has not yet tried to store
    inflight,   \* Sets of recommendations on their way to Redis
    applied,    \* applied[g]: those OptimizeCache carried out
    stored,     \* recommendations in Redis, with their expiry
    errors      \* failures so far

counters == <<predictions, correct, accuracy>>
feedbackVars == <<counters, pc, rated, loaded, key, learning, raced, strayed>>
reportVars == <<asked, recs, unstored, inflight, applied, stored>>
vars == <<now, feedbackVars, reportVars, errors>>

NoFeedback == "none"
Never == 2 * MaxTime + Window + 1   \* no expiry

Init ==
    /\ now = 0 /\ errors = 0
    /\ predictions = 0 /\ correct = 0 /\ accuracy = [num |-> 0, den |-> 1]
    /\ pc = [c \in Feedback |-> "idle"]
    /\ rated = {}
    /\ loaded = [c \in Feedback |-> 0]
    /\ key = [c \in Feedback |-> 0]
    /\ learning = [s \in 0 .. MaxTime |-> NoFeedback]
    /\ raced = {} /\ strayed = {}
    /\ asked = [g \in Report |-> "idle"]
    /\ recs = [g \in Report |-> {}]
    /\ unstored = [g \in Report |-> {}]
    /\ applied = [g \in Report |-> {}]
    /\ inflight = {} /\ stored = {}

-----------------------------------------------------------------------------
(* LearnFromFeedback                                                        *)

(* Between the first read and the last write of updateModelAccuracy.        *)
Updating == {c \in Feedback : pc[c] \in {"counted", "rate", "rated", "divide"}}

Goto(c, where) == pc' = [pc EXCEPT ![c] = where]

(* hit_rate or avg_latency is missing or no number.                         *)
RejectFeedback(c) ==
    /\ pc[c] = "idle"
    /\ Goto(c, "invalid")
    /\ UNCHANGED <<now, counters, rated, loaded, key, learning, raced, strayed, reportVars, errors>>

(* updateModelAccuracy, reading PredictionsCount.                           *)
LoadCount(c) ==
    /\ pc[c] = "idle"
    /\ rated' \in {rated, rated \cup {c}}
    /\ loaded' = [loaded EXCEPT ![c] = predictions]
    /\ raced' = IF Updating = {} THEN raced ELSE raced \cup Updating \cup {c}
    /\ Goto(c, "counted")
    /\ UNCHANGED <<now, counters, key, learning, strayed, reportVars, errors>>

(* Mutant: a feedback with a rating is counted with the ratings only.       *)
StoreCountUnlessRated(c) ==
    /\ pc[c] = "counted"
    /\ predictions' = IF c \in rated THEN predictions ELSE loaded[c] + 1
    /\ Goto(c, IF c \in rated THEN "rate" ELSE "stamp")
    /\ UNCHANGED <<now, correct, accuracy, rated, loaded, key, learning, raced, strayed,
                   reportVars, errors>>

(* PredictionsCount++ is written.                                           *)
StoreCount(c) ==
    /\ pc[c] = "counted"
    /\ predictions' = loaded[c] + 1
    /\ Goto(c, IF c \in rated THEN "rate" ELSE "stamp")
    /\ UNCHANGED <<now, correct, accuracy, rated, loaded, key, learning, raced, strayed,
                   reportVars, errors>>

LoadCorrect(c) ==
    /\ pc[c] = "rate"
    /\ loaded' = [loaded EXCEPT ![c] = correct]
    /\ Goto(c, "rated")
    /\ UNCHANGED <<now, counters, rated, key, learning, raced, strayed, reportVars, errors>>

(* CorrectPredictions++, whatever the rating says.                          *)
StoreCorrect(c) ==
    /\ pc[c] = "rated"
    /\ correct' = loaded[c] + 1
    /\ Goto(c, "divide")
    /\ UNCHANGED <<now, predictions, accuracy, rated, loaded, key, learning, raced, strayed,
                   reportVars, errors>>

Divide(c) ==
    /\ pc[c] = "divide"
    /\ accuracy' = [num |-> correct, den |-> predictions]
    /\ Goto(c, "stamp")
    /\ UNCHANGED <<now, predictions, correct, rated, loaded, key, learning, raced, strayed,
                   reportVars, errors>>

(* json.Marshal fails: a number in the feedback is infinite, or none.       *)
MarshalFails(c) ==
    /\ pc[c] = "stamp"
    /\ Goto(c, "error")
    /\ UNCHANGED <<now, counters, rated, loaded, key, learning, raced, strayed, reportVars, errors>>

(* The name is made of the second it is now.                                *)
NameRecord(c) ==
    /\ pc[c] = "stamp"
    /\ key' = [key EXCEPT ![c] = now]
    /\ Goto(c, "storing")
    /\ UNCHANGED <<now, counters, rated, loaded, learning, raced, strayed, reportVars, errors>>

(* Set, which replaces what is under that name.                             *)
StoreRecord(c) ==
    /\ pc[c] = "storing"
    /\ learning' = [learning EXCEPT ![key[c]] = c]
    /\ Goto(c, "ok")
    /\ UNCHANGED <<now, counters, rated, loaded, key, raced, strayed, reportVars, errors>>

(* An attempt has no answer, and is made again.                             *)
RepeatRecord(c) ==
    /\ pc[c] = "storing" /\ errors < MaxErrors
    /\ errors' = errors + 1
    /\ strayed' = strayed \cup {c}
    /\ UNCHANGED <<now, counters, pc, rated, loaded, key, learning, raced, reportVars>>

(* Mutant: a failure to store is only logged.                               *)
StoreFailsSilently(c) ==
    /\ pc[c] = "storing" /\ errors < MaxErrors
    /\ errors' = errors + 1
    /\ strayed' \in {strayed, strayed \cup {c}}
    /\ Goto(c, "ok")
    /\ UNCHANGED <<now, counters, rated, loaded, key, learning, raced, reportVars>>

(* Mutant: a failure to store repeats the whole call.                       *)
StoreFailsRepeating(c) ==
    /\ pc[c] = "storing" /\ errors < MaxErrors
    /\ errors' = errors + 1
    /\ strayed' \in {strayed, strayed \cup {c}}
    /\ Goto(c, "idle")
    /\ UNCHANGED <<now, counters, rated, loaded, key, learning, raced, reportVars>>

(* Set fails, and may yet take effect.  What was counted stays.             *)
StoreFails(c) ==
    /\ pc[c] = "storing" /\ errors < MaxErrors
    /\ errors' = errors + 1
    /\ strayed' \in {strayed, strayed \cup {c}}
    /\ Goto(c, "error")
    /\ UNCHANGED <<now, counters, rated, loaded, key, learning, raced, reportVars>>

(* An attempt without an answer reaches Redis.                              *)
StrayRecordLands(c) ==
    /\ c \in strayed
    /\ strayed' = strayed \ {c}
    /\ learning' = [learning EXCEPT ![key[c]] = c]
    /\ UNCHANGED <<now, counters, pc, rated, loaded, key, raced, reportVars, errors>>

Learn(c) ==
    \/ RejectFeedback(c)
    \/ LoadCount(c) \/ StoreCount(c) \/ LoadCorrect(c) \/ StoreCorrect(c) \/ Divide(c)
    \/ MarshalFails(c) \/ NameRecord(c)
    \/ StoreRecord(c) \/ RepeatRecord(c) \/ StoreFails(c) \/ StrayRecordLands(c)

-----------------------------------------------------------------------------
(* GenerateRecommendations and OptimizeCache                                *)

Recommendation(hash, action, confidence) ==
    [artifact |-> hash, action |-> action, confidence |-> confidence,
     timestamp |-> now, validUntil |-> now + Window]

(* Below 0.6.  A missing hit_rate is an error, which is only logged.        *)
AnalyzeHitRatePatterns(m) ==
    IF m.hit_rate = "bad" THEN {Recommendation("global-policy", "cache", 85)} ELSE {}

(* Above 0.85 of the capacity.                                              *)
AnalyzeStorageOptimization(m) ==
    IF m.storage = "bad" THEN {Recommendation("storage-policy", "evict", 90)} ELSE {}

(* Above 100 ms.                                                            *)
AnalyzePerformanceBottlenecks(m) ==
    IF m.latency = "bad" THEN {Recommendation("performance-policy", "promote", 80)} ELSE {}

Analyze(g) ==
    /\ asked[g] = "idle"
    /\ \E m \in Metrics :
          LET found == AnalyzeHitRatePatterns(m) \cup AnalyzeStorageOptimization(m)
                       \cup AnalyzePerformanceBottlenecks(m)
          IN  /\ recs' = [recs EXCEPT ![g] = found]
              /\ unstored' = [unstored EXCEPT ![g] = found]
    /\ asked' = [asked EXCEPT ![g] = "storing"]
    /\ UNCHANGED <<now, feedbackVars, inflight, applied, stored, errors>>

(* A Set of g, with what is left of ValidUntil as its expiry: the clock is  *)
(* read before the client has a connection.                                 *)
Request(g, r, ttl) ==
    [by |-> g, artifact |-> r.artifact, timestamp |-> r.timestamp,
     validUntil |-> r.validUntil, since |-> now, ttl |-> ttl, awaited |-> TRUE]

Send(g, r, ttl) ==
    /\ inflight' = inflight \cup {Request(g, r, ttl)}
    /\ unstored' = [unstored EXCEPT ![g] = @ \ {r}]
    /\ asked' = [asked EXCEPT ![g] = "sending"]

(* Mutant: the expiry is the window, from when it is stored.                *)
StoreForWindow(g) ==
    /\ asked[g] = "storing"
    /\ \E r \in unstored[g] : Send(g, r, Window)
    /\ UNCHANGED <<now, feedbackVars, recs, applied, stored, errors>>

(* storeRecommendation.                                                     *)
StoreRecommendation(g) ==
    /\ asked[g] = "storing"
    /\ \E r \in unstored[g] : Send(g, r, r.validUntil - now)
    /\ UNCHANGED <<now, feedbackVars, recs, applied, stored, errors>>

(* json.Marshal refuses the infinite impact that a capacity of 0 makes.     *)
MarshalRecommendationFails(g) ==
    /\ asked[g] = "storing"
    /\ \E r \in unstored[g] :
          /\ r.artifact = "storage-policy"
          /\ unstored' = [unstored EXCEPT ![g] = @ \ {r}]
    /\ UNCHANGED <<now, feedbackVars, asked, recs, inflight, applied, stored, errors>>

(* The Set that g waits for.                                                *)
Awaited(g) == {q \in inflight : q.by = g /\ q.awaited}
Unanswered(q) == [q EXCEPT !.awaited = FALSE]

(* The name is the policy and the second, so that a later one replaces it.  *)
(* For no time, or less, the client asks for no expiry at all.              *)
Landed(q) ==
    {e \in stored : e.artifact # q.artifact \/ e.timestamp # q.timestamp}
    \cup {[artifact |-> q.artifact, timestamp |-> q.timestamp,
           validUntil |-> q.validUntil, since |-> q.since, landed |-> now,
           expires |-> IF q.ttl > 0 THEN now + q.ttl ELSE Never]}

(* Redis sets, and answers.                                                 *)
RecommendationLands(g) ==
    /\ \E q \in Awaited(g) : /\ stored' = Landed(q)
                             /\ inflight' = inflight \ {q}
    /\ asked' = [asked EXCEPT ![g] = "storing"]
    /\ UNCHANGED <<now, feedbackVars, recs, unstored, applied, errors>>

(* An attempt that nobody waits for any more reaches Redis.                 *)
StrayRecommendationLands(g) ==
    /\ \E q \in inflight : /\ q.by = g /\ ~q.awaited
                           /\ stored' = Landed(q)
                           /\ inflight' = inflight \ {q}
    /\ UNCHANGED <<now, feedbackVars, asked, recs, unstored, applied, errors>>

(* An attempt has no answer, and is made again with the expiry it had.      *)
RepeatRecommendation(g) ==
    /\ errors < MaxErrors
    /\ \E q \in Awaited(g) : inflight' = inflight \cup {Unanswered(q)}
    /\ errors' = errors + 1
    /\ UNCHANGED <<now, feedbackVars, asked, recs, unstored, applied, stored>>

(* One whose Set fails, and may yet take effect, is logged, and returned    *)
(* like the others.                                                         *)
StoreRecommendationFails(g) ==
    /\ errors < MaxErrors
    /\ \E q \in Awaited(g) :
          inflight' \in {inflight \ {q}, (inflight \ {q}) \cup {Unanswered(q)}}
    /\ asked' = [asked EXCEPT ![g] = "storing"]
    /\ errors' = errors + 1
    /\ UNCHANGED <<now, feedbackVars, recs, unstored, applied, stored>>

ReturnRecommendations(g) ==
    /\ asked[g] = "storing" /\ unstored[g] = {}
    /\ asked' = [asked EXCEPT ![g] = "returned"]
    /\ UNCHANGED <<now, feedbackVars, recs, unstored, inflight, applied, stored, errors>>

(* A confidence below 0.7 is passed over; ValidUntil is not looked at.  The *)
(* four apply functions do nothing and never fail.                          *)
OptimizeCache(g) ==
    /\ asked[g] = "returned"
    /\ applied' = [applied EXCEPT ![g] = {r \in recs[g] : r.confidence >= 70}]
    /\ asked' = [asked EXCEPT ![g] = "optimized"]
    /\ UNCHANGED <<now, feedbackVars, recs, unstored, inflight, stored, errors>>

Recommend(g) ==
    \/ Analyze(g)
    \/ StoreRecommendation(g) \/ MarshalRecommendationFails(g)
    \/ RecommendationLands(g) \/ RepeatRecommendation(g) \/ StoreRecommendationFails(g)
    \/ StrayRecommendationLands(g)
    \/ ReturnRecommendations(g) \/ OptimizeCache(g)

(* A second passes, and Redis drops what expires.                           *)
Tick ==
    /\ now < MaxTime
    /\ now' = now + 1
    /\ stored' = {e \in stored : e.expires > now + 1}
    /\ UNCHANGED <<feedbackVars, asked, recs, unstored, inflight, applied, errors>>

Next ==
    \/ \E c \in Feedback : Learn(c)
    \/ \E g \in Report : Recommend(g)
    \/ Tick

Spec == Init /\ [][Next]_vars

-----------------------------------------------------------------------------
TypeOK ==
    /\ now \in 0 .. MaxTime /\ errors \in 0 .. MaxErrors
    /\ predictions \in 0 .. Cardinality(Feedback)
    /\ correct \in 0 .. Cardinality(Feedback)
    /\ accuracy \in [num : 0 .. Cardinality(Feedback), den : Nat \ {0}]
    /\ pc \in [Feedback -> {"idle", "invalid", "counted", "rate", "rated", "divide",
                            "stamp", "storing", "ok", "error"}]
    /\ rated \subseteq Feedback
    /\ loaded \in [Feedback -> 0 .. Cardinality(Feedback)]
    /\ key \in [Feedback -> 0 .. MaxTime]
    /\ learning \in [0 .. MaxTime -> Feedback \cup {NoFeedback}]
    /\ raced \subseteq Feedback /\ strayed \subseteq Feedback
    /\ asked \in [Report -> {"idle", "storing", "sending", "returned", "optimized"}]
    /\ \A g \in Report : unstored[g] \subseteq recs[g] /\ applied[g] \subseteq recs[g]
    /\ \A e \in stored : e.landed \in e.since .. now /\ e.expires \in now + 1 .. Never

Counted == {c \in Feedback : pc[c] \notin {"idle", "invalid", "counted"}}
Rated == {c \in rated \cap Counted : pc[c] \notin {"rate", "rated"}}

(* Racing increments may be lost but are never invented: no counter is      *)
(* ahead of the feedback that was accepted.  And none is lost but that of a *)
(* call that was in updateModelAccuracy beside another: a call that was     *)
(* there alone is counted for good, whatever races before and after it,     *)
(* also where it fails to store its feedback.  Without a race the accuracy  *)
(* is a proportion.                                                         *)
CountersTrackFeedback ==
    /\ predictions \in Cardinality(Counted \ raced) .. Cardinality(Counted)
    /\ correct \in Cardinality(Rated \ raced) .. Cardinality(Rated)
    /\ raced = {} => accuracy.num <= accuracy.den

(* Where feedback was acknowledged there is learning data: its own, or that *)
(* of another call that was named after the same second, which may itself   *)
(* have failed.  Nothing else replaces it and nothing leaves the place      *)
(* empty.                                                                   *)
AckedIsLearntOrReplaced ==
    \A c \in Feedback : pc[c] = "ok" =>
       \E d \in Feedback : /\ learning[key[c]] = d
                          /\ key[d] = key[c] /\ pc[d] \in {"storing", "ok", "error"}

(* A recommendation outlives its validity in Redis by less than its Set was *)
(* on the way, however often that was repeated, unless it was outdated when *)
(* its expiry was computed.                                                 *)
OutdatedOnlyIfLate ==
    \A e \in stored :
       now >= e.validUntil => \/ e.since >= e.validUntil
                              \/ now - e.validUntil < e.landed - e.since
=============================================================================
