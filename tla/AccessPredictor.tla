--------------------------- MODULE AccessPredictor ---------------------------
(***************************************************************************)
(* The predictor of accesses (internal/ml/predictor.go).  RecordAccess     *)
(* updates a pattern under patternMutex and leaves a goroutine behind that *)
(* stores the pattern in Redis, without the lock and with the context of   *)
(* the request; GetPredictions reads the patterns under the read lock; a   *)
(* background loop replaces weights and model without any lock.            *)
(*                                                                         *)
(* persistPattern, loadModel and the helpers of the training are not in    *)
(* the repository: persistPattern is a read of the pattern it was given,   *)
(* then a Set in Redis with the context it was given.  Of a pattern the    *)
(* model keeps AccessCount; analyzePatterns and the correlations are left  *)
(* out, and with the confidences which keys are returned.                  *)
(***************************************************************************)
EXTENDS Integers, FiniteSets

CONSTANTS
    Key,            \* cache keys
    Access,         \* calls of RecordAccess
    Reader,         \* calls of GetPredictions
    MaxTrainings,   \* bound on the trainings that have enough data
    MaxErrors       \* bound on failing calls to Redis and restarts

ASSUME PredictorAssumption ==
    /\ IsFiniteSet(Access)
    /\ MaxTrainings \in Nat /\ MaxErrors \in Nat

VARIABLES
    count,      \* accessPatterns[k].AccessCount; 0: k has no pattern
    writer,     \* who holds patternMutex: a set of at most one access
    readers,    \* who holds its read lock
    access,     \* access[a]: where the call a is
    keyOf,      \* keyOf[a]: the key it records
    loaded,     \* loaded[a]: AccessCount as a has read it to increment it
    ended,      \* accesses whose request is over: their context is done
    persist,    \* persist[a]: the goroutine a left behind
    copy,       \* copy[a]: the count that goroutine has read
    saved,      \* saved[k]: the count in Redis
    blurred,    \* keys whose last goroutine failed or was not alone  (history)
    weights,    \* the training the weights come from; 0: nil, or as loaded
    model,      \* the training the model comes from, Nil or Loaded
    reader,     \* reader[g]: where the call g is
    found,      \* found[g]: the model g found
    unranked,   \* unranked[g]: keys g has still to rank
    used,       \* used[g]: the weights g ranked with        (history)
    errors      \* failures so far

patternVars == <<count, writer, readers>>
accessVars == <<access, keyOf, loaded, ended>>
persistVars == <<persist, copy, saved, blurred>>
modelVars == <<weights, model>>
readerVars == <<reader, found, unranked, used>>
vars == <<patternVars, accessVars, persistVars, modelVars, readerVars, errors>>

NoKey == "none"
Nil == -1       \* no model
Loaded == 0     \* a model that loadModel found
Running == {a \in Access : persist[a] \in {"started", "read"}}
Known == {k \in Key : count[k] > 0}

(* NewCachePredictor: no patterns, and the model loadModel finds.           *)
Init ==
    /\ count = [k \in Key |-> 0]
    /\ writer = {} /\ readers = {}
    /\ access = [a \in Access |-> "idle"]
    /\ keyOf = [a \in Access |-> NoKey]
    /\ loaded = [a \in Access |-> 0]
    /\ ended = {}
    /\ persist = [a \in Access |-> "none"]
    /\ copy = [a \in Access |-> 0]
    /\ saved = [k \in Key |-> 0]
    /\ blurred = {}
    /\ weights = 0 /\ model \in {Nil, Loaded}
    /\ reader = [g \in Reader |-> "idle"]
    /\ found = [g \in Reader |-> Nil]
    /\ unranked = [g \in Reader |-> {}]
    /\ used = [g \in Reader |-> {}]
    /\ errors = 0

-----------------------------------------------------------------------------
(* RecordAccess                                                             *)

(* Mutant: the lock is shared.                                              *)
LockShared(a) ==
    /\ access[a] = "idle"
    /\ writer' = writer \cup {a}
    /\ \E k \in Key : /\ keyOf' = [keyOf EXCEPT ![a] = k]
                      /\ loaded' = [loaded EXCEPT ![a] = count[k]]
    /\ access' = [access EXCEPT ![a] = "locked"]
    /\ UNCHANGED <<count, readers, ended, persistVars, modelVars, readerVars, errors>>

(* The lock is taken, the pattern found or created, AccessCount read.       *)
Lock(a) ==
    /\ access[a] = "idle" /\ writer = {} /\ readers = {}
    /\ writer' = {a}
    /\ \E k \in Key : /\ keyOf' = [keyOf EXCEPT ![a] = k]
                      /\ loaded' = [loaded EXCEPT ![a] = count[k]]
    /\ access' = [access EXCEPT ![a] = "locked"]
    /\ UNCHANGED <<count, readers, ended, persistVars, modelVars, readerVars, errors>>

(* The pattern is updated.                                                  *)
Update(a) ==
    /\ access[a] = "locked"
    /\ count' = [count EXCEPT ![keyOf[a]] = loaded[a] + 1]
    /\ access' = [access EXCEPT ![a] = "updated"]
    /\ UNCHANGED <<writer, readers, keyOf, loaded, ended, persistVars, modelVars,
                   readerVars, errors>>

(* Mutant: only a new pattern is stored.                                    *)
ReturnStoringNew(a) ==
    /\ access[a] = "updated"
    /\ persist' = [persist EXCEPT ![a] = IF loaded[a] = 0 THEN "started" ELSE @]
    /\ blurred' = IF \E b \in Running : keyOf[b] = keyOf[a]
                  THEN blurred \cup {keyOf[a]} ELSE blurred \ {keyOf[a]}
    /\ writer' = writer \ {a}
    /\ access' = [access EXCEPT ![a] = "returned"]
    /\ loaded' = [loaded EXCEPT ![a] = 0]
    /\ UNCHANGED <<count, readers, keyOf, ended, copy, saved, modelVars,
                   readerVars, errors>>

(* go cp.persistPattern(ctx, pattern), and the deferred unlock.             *)
Return(a) ==
    /\ access[a] = "updated"
    /\ persist' = [persist EXCEPT ![a] = "started"]
    /\ blurred' = IF \E b \in Running : keyOf[b] = keyOf[a]
                  THEN blurred \cup {keyOf[a]} ELSE blurred \ {keyOf[a]}
    /\ writer' = writer \ {a}
    /\ access' = [access EXCEPT ![a] = "returned"]
    /\ loaded' = [loaded EXCEPT ![a] = 0]
    /\ UNCHANGED <<count, readers, keyOf, ended, copy, saved, modelVars,
                   readerVars, errors>>

(* The handler that recorded the access returns, which ends its context.    *)
RequestEnds(a) ==
    /\ access[a] = "returned" /\ a \notin ended
    /\ ended' = ended \cup {a}
    /\ UNCHANGED <<patternVars, access, keyOf, loaded, persistVars, modelVars,
                   readerVars, errors>>

-----------------------------------------------------------------------------
(* The goroutine of persistPattern: it reads the pattern, which others may  *)
(* be updating, and sets it in Redis.                                       *)

ReadPattern(a) ==
    /\ persist[a] = "started"
    /\ copy' = [copy EXCEPT ![a] = count[keyOf[a]]]
    /\ persist' = [persist EXCEPT ![a] = "read"]
    /\ UNCHANGED <<patternVars, accessVars, saved, blurred, modelVars, readerVars, errors>>

SavePattern(a) ==
    /\ persist[a] = "read" /\ a \notin ended
    /\ saved' = [saved EXCEPT ![keyOf[a]] = copy[a]]
    /\ persist' = [persist EXCEPT ![a] = "done"]
    /\ copy' = [copy EXCEPT ![a] = 0]
    /\ UNCHANGED <<patternVars, accessVars, blurred, modelVars, readerVars, errors>>

(* Always so on a context that is done; the Set may have taken effect all   *)
(* the same.  Nobody is told.                                               *)
SaveFails(a) ==
    /\ persist[a] = "read" /\ (a \in ended \/ errors < MaxErrors)
    /\ errors' = IF a \in ended THEN errors ELSE errors + 1
    /\ persist' = [persist EXCEPT ![a] = "done"]
    /\ copy' = [copy EXCEPT ![a] = 0]
    /\ saved' \in {saved, [saved EXCEPT ![keyOf[a]] = copy[a]]}
    /\ blurred' = blurred \cup {keyOf[a]}
    /\ UNCHANGED <<patternVars, accessVars, modelVars, readerVars>>

-----------------------------------------------------------------------------
(* trainModel.  With less than 100 samples it returns and changes nothing.  *)

(* Mutant: the model comes first.                                           *)
TrainModelFirst ==
    /\ model # weights + 1 /\ weights < MaxTrainings
    /\ model' = weights + 1
    /\ UNCHANGED <<patternVars, accessVars, persistVars, weights, readerVars, errors>>

TrainWeights ==
    /\ weights = 0 \/ model = weights
    /\ weights < MaxTrainings
    /\ weights' = weights + 1
    /\ UNCHANGED <<patternVars, accessVars, persistVars, model, readerVars, errors>>

TrainModel ==
    /\ weights > 0 /\ model # weights
    /\ model' = weights
    /\ UNCHANGED <<patternVars, accessVars, persistVars, weights, readerVars, errors>>

-----------------------------------------------------------------------------
(* GetPredictions                                                           *)

(* cp.model is read, without a lock.                                        *)
CheckModel(g) ==
    /\ reader[g] = "idle"
    /\ found' = [found EXCEPT ![g] = model]
    /\ reader' = [reader EXCEPT ![g] = IF model = Nil THEN "done" ELSE "checked"]
    /\ UNCHANGED <<patternVars, accessVars, persistVars, modelVars, unranked, used, errors>>

(* The read lock; for a key without a pattern nothing is ranked.            *)
RLock(g) ==
    /\ reader[g] = "checked" /\ writer = {}
    /\ readers' = readers \cup {g}
    /\ \E k \in Key : unranked' = [unranked EXCEPT ![g] =
                                     IF k \in Known THEN Known \ {k} ELSE {}]
    /\ reader' = [reader EXCEPT ![g] = "ranking"]
    /\ UNCHANGED <<count, writer, accessVars, persistVars, modelVars, found, used, errors>>

(* One confidence: by the weights as they are now, by the heuristic if      *)
(* there are none.                                                          *)
Rank(g) ==
    /\ reader[g] = "ranking"
    /\ \E k \in unranked[g] : unranked' = [unranked EXCEPT ![g] = @ \ {k}]
    /\ used' = [used EXCEPT ![g] = @ \cup {weights}]
    /\ UNCHANGED <<patternVars, accessVars, persistVars, modelVars, reader, found, errors>>

(* The predictions are returned, with the deferred unlock.                  *)
RUnlock(g) ==
    /\ reader[g] = "ranking" /\ unranked[g] = {}
    /\ used' = [used EXCEPT ![g] = {}]
    /\ readers' = readers \ {g}
    /\ reader' = [reader EXCEPT ![g] = "done"]
    /\ UNCHANGED <<count, writer, accessVars, persistVars, modelVars, found, unranked, errors>>

-----------------------------------------------------------------------------
(* The process is restarted.  Only the model is loaded again: the patterns  *)
(* in Redis are not read back, and the calls in flight are gone.            *)
Restart ==
    /\ errors < MaxErrors /\ errors' = errors + 1
    /\ count' = [k \in Key |-> 0]
    /\ writer' = {} /\ readers' = {}
    /\ access' = [a \in Access |-> IF access[a] = "idle" THEN "idle" ELSE "lost"]
    /\ persist' = [a \in Access |-> "none"]
    /\ weights' = 0 /\ model' \in {Nil, Loaded}
    /\ reader' = [g \in Reader |-> IF reader[g] = "idle" THEN "idle" ELSE "done"]
    /\ loaded' = [a \in Access |-> 0] /\ copy' = [a \in Access |-> 0]
    /\ unranked' = [g \in Reader |-> {}] /\ used' = [g \in Reader |-> {}]
    /\ UNCHANGED <<keyOf, ended, saved, blurred, found>>

Next ==
    \/ \E a \in Access :
          \/ Lock(a) \/ Update(a) \/ Return(a) \/ RequestEnds(a)
          \/ ReadPattern(a) \/ SavePattern(a) \/ SaveFails(a)
    \/ TrainWeights \/ TrainModel
    \/ \E g \in Reader : CheckModel(g) \/ RLock(g) \/ Rank(g) \/ RUnlock(g)
    \/ Restart

Spec == Init /\ [][Next]_vars

-----------------------------------------------------------------------------
TypeOK ==
    /\ count \in [Key -> 0 .. Cardinality(Access)]
    /\ writer \subseteq Access /\ Cardinality(writer) <= 1
    /\ readers \subseteq Reader /\ (writer = {} \/ readers = {})
    /\ access \in [Access -> {"idle", "locked", "updated", "returned", "lost"}]
    /\ keyOf \in [Access -> Key \cup {NoKey}]
    /\ loaded \in [Access -> 0 .. Cardinality(Access)]
    /\ ended \subseteq Access
    /\ persist \in [Access -> {"none", "started", "read", "done"}]
    /\ copy \in [Access -> 0 .. Cardinality(Access)]
    /\ saved \in [Key -> 0 .. Cardinality(Access)]
    /\ blurred \subseteq Key
    /\ weights \in 0 .. MaxTrainings /\ model \in Nil .. MaxTrainings
    /\ reader \in [Reader -> {"idle", "checked", "ranking", "done"}]
    /\ found \in [Reader -> Nil .. MaxTrainings]
    /\ unranked \in [Reader -> SUBSET Key]
    /\ used \in [Reader -> SUBSET (0 .. MaxTrainings)]
    /\ errors \in 0 .. MaxErrors

(* The accesses of k that RecordAccess has counted since the process began. *)
Recorded(k) == {a \in Access : keyOf[a] = k /\ access[a] \in {"updated", "returned"}}

(* When all is quiet about a key, Redis has the number of times it was      *)
(* accessed since the process began: concurrent calls lose no increment,    *)
(* and what is read without the lock is never too old, unless the last      *)
(* goroutine failed (its request was over, say) or raced another one.       *)
QuietKeyIsSaved ==
    \A k \in Key \ blurred :
       /\ \E a \in Access : keyOf[a] = k /\ access[a] = "returned"
       /\ \A a \in Access : keyOf[a] = k =>
             a \notin Running /\ access[a] \notin {"locked", "updated"}
       => saved[k] = Cardinality(Recorded(k))

(* A call that finds a model that was trained ranks with the weights of     *)
(* that training or of a later one, though neither is read under a lock:    *)
(* the heuristic is left to models that were loaded.                        *)
RanksWithItsModel ==
    \A g \in Reader : \A w \in used[g] : w >= found[g]
=============================================================================
