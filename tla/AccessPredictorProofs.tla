------------------------ MODULE AccessPredictorProofs ------------------------
(***************************************************************************)
(* What the predictor guarantees for any number of keys, accesses and      *)
(* readers.  The lock makes the count of a key that of the accesses        *)
(* recorded; a goroutine that reads it without the lock has the latest one *)
(* unless an access is being recorded, which leaves a goroutine of its own. *)
(***************************************************************************)
EXTENDS AccessPredictor, FiniteSetTheorems, TLAPS

(* patternMutex is held by the one access that is recorded.                 *)
LockHeld ==
    /\ \A a \in Access : access[a] \in {"locked", "updated"} <=> a \in writer
    /\ \A a, b \in writer : a = b
    /\ \A a \in Access : access[a] \notin {"idle", "lost"} => keyOf[a] \in Key

CountIsRecorded ==
    /\ \A k \in Key : count[k] = Cardinality(Recorded(k))
    /\ \A a \in Access : access[a] = "locked" => loaded[a] = count[keyOf[a]]

(* A goroutine was left by an access that returned; the key of two that run *)
(* is blurred.                                                              *)
RunningOnce ==
    /\ \A a \in Access : persist[a] # "none" => access[a] = "returned"
    /\ \A k \in Key \ blurred : \A a, b \in Running :
          keyOf[a] = k /\ keyOf[b] = k => a = b

(* What a goroutine has read, or has saved, is the count, unless an access  *)
(* has just updated it and not yet returned.                                *)
Settled(k) == \A a \in Access : keyOf[a] = k => access[a] # "updated"
LatestIsSaved ==
    \A k \in Key \ blurred : Settled(k) =>
       /\ \A a \in Access : keyOf[a] = k /\ persist[a] = "read" => copy[a] = count[k]
       /\ \/ \A a \in Access : keyOf[a] = k => access[a] # "returned"
          \/ \E a \in Running : keyOf[a] = k
          \/ saved[k] = count[k]

(* Neither the model nor what a reader has found of it is ahead of the      *)
(* weights.                                                                 *)
WeightsFirst ==
    /\ model <= weights
    /\ \A g \in Reader :
          /\ reader[g] \in {"checked", "ranking"} => found[g] <= weights
          /\ reader[g] # "ranking" => used[g] = {}
          /\ \A w \in used[g] : w >= found[g]

N == Cardinality(Access)

(* TypeOK in the parts that accesses and readers touch.                     *)
PatternType ==
    /\ count \in [Key -> 0 .. N]
    /\ writer \subseteq Access
    /\ access \in [Access -> {"idle", "locked", "updated", "returned", "lost"}]
    /\ keyOf \in [Access -> Key \cup {NoKey}]
    /\ loaded \in [Access -> 0 .. N]
    /\ ended \subseteq Access
    /\ persist \in [Access -> {"none", "started", "read", "done"}]
    /\ copy \in [Access -> 0 .. N]
    /\ saved \in [Key -> 0 .. N]
    /\ blurred \subseteq Key

ReaderType ==
    /\ readers \subseteq Reader
    /\ weights \in 0 .. MaxTrainings /\ model \in Nil .. MaxTrainings
    /\ reader \in [Reader -> {"idle", "checked", "ranking", "done"}]
    /\ found \in [Reader -> Nil .. MaxTrainings]
    /\ unranked \in [Reader -> SUBSET Key]
    /\ used \in [Reader -> SUBSET (0 .. MaxTrainings)]

PatternInv ==
    /\ PatternType
    /\ LockHeld /\ CountIsRecorded /\ RunningOnce /\ LatestIsSaved
ReaderInv == ReaderType /\ WeightsFirst
PredictorInv ==
    /\ PatternInv /\ ReaderInv
    /\ writer = {} \/ readers = {}
    /\ errors \in 0 .. MaxErrors

-----------------------------------------------------------------------------
LEMMA RecordedFinite ==
  \A k : /\ IsFiniteSet(Recorded(k)) /\ Cardinality(Recorded(k)) \in 0 .. N
         /\ N \in Nat
<1> TAKE k
<1>1. Recorded(k) \in SUBSET Access
  BY DEF Recorded
<1>2. QED
  BY <1>1, PredictorAssumption, FS_Subset, FS_CardinalityType DEF N

LEMMA PredictorInit == Init => PredictorInv
<1> SUFFICES ASSUME Init PROVE PredictorInv
  OBVIOUS
<1>1. N \in Nat
  BY RecordedFinite
<1>2. PatternType
  BY <1>1 DEF Init, PatternType
<1>3. \A k : Recorded(k) = {}
  BY DEF Init, Recorded
<1>4. CountIsRecorded
  BY <1>3, FS_EmptySet DEF Init, CountIsRecorded
<1>5. LockHeld /\ RunningOnce
  BY DEF Init, LockHeld, RunningOnce, Running
<1>6. LatestIsSaved
  BY DEF Init, LatestIsSaved
<1>7. ReaderInv
  BY PredictorAssumption DEF Init, ReaderInv, ReaderType, WeightsFirst, Nil, Loaded
<1>8. QED
  BY <1>2, <1>4, <1>5, <1>6, <1>7, PredictorAssumption
     DEF Init, PredictorInv, PatternInv

-----------------------------------------------------------------------------
(* Accesses.                                                                *)

LEMMA LockStep ==
  ASSUME PatternInv, NEW a \in Access, Lock(a)
  PROVE  PatternInv'
<1> USE DEF PatternInv
<1>1. PICK k \in Key : /\ keyOf' = [keyOf EXCEPT ![a] = k]
                       /\ loaded' = [loaded EXCEPT ![a] = count[k]]
  BY DEF Lock
<1>2. /\ access[a] = "idle" /\ writer = {} /\ writer' = {a}
      /\ access' = [access EXCEPT ![a] = "locked"]
      /\ UNCHANGED <<count, ended, persist, copy, saved, blurred>>
  BY DEF Lock, persistVars
<1>3. PatternType'
  BY <1>1, <1>2 DEF PatternType
<1>4. /\ access'[a] = "locked" /\ keyOf'[a] = k /\ loaded'[a] = count[k]
      /\ \A b \in Access \ {a} : /\ access'[b] = access[b] /\ keyOf'[b] = keyOf[b]
                                /\ loaded'[b] = loaded[b]
      /\ persist[a] = "none"
  BY <1>1, <1>2 DEF PatternType, RunningOnce
<1>5. LockHeld'
  BY <1>2, <1>4 DEF LockHeld
<1>6. \A x : Recorded(x)' = Recorded(x)
  BY <1>2, <1>4 DEF Recorded
<1>7. CountIsRecorded'
  BY <1>2, <1>4, <1>6 DEF CountIsRecorded, LockHeld
<1>8. Running' = Running /\ a \notin Running
  BY <1>2, <1>4 DEF Running
<1>9. RunningOnce'
  <2>1. \A b \in Access : persist'[b] # "none" => access'[b] = "returned"
    BY <1>2, <1>4 DEF RunningOnce
  <2>2. \A b \in Running : b \in Access /\ keyOf'[b] = keyOf[b]
    BY <1>4, <1>8 DEF Running
  <2>3. QED
    BY <1>2, <1>8, <2>1, <2>2 DEF RunningOnce
<1>10. LatestIsSaved'
  <2> SUFFICES ASSUME NEW x \in Key \ blurred, Settled(x)'
               PROVE  /\ \A b \in Access : keyOf'[b] = x /\ persist[b] = "read"
                                            => copy[b] = count[x]
                      /\ \/ \A b \in Access : keyOf'[b] = x => access'[b] # "returned"
                         \/ \E b \in Running : keyOf'[b] = x
                         \/ saved[x] = count[x]
    BY <1>2, <1>8 DEF LatestIsSaved
  <2>1. Settled(x)
    BY <1>2, <1>4 DEF Settled
  <2>2. QED
    BY <1>2, <1>4, <1>8, <2>1 DEF LatestIsSaved, Running
<1>11. QED
  BY <1>3, <1>5, <1>7, <1>9, <1>10

LEMMA UpdateStep ==
  ASSUME PatternInv, NEW a \in Access, Update(a)
  PROVE  PatternInv'
<1> USE DEF PatternInv
<1>0. PICK k \in Key : k = keyOf[a]
  BY DEF Update, LockHeld
<1>1. /\ access[a] = "locked" /\ a \in writer
      /\ count' = [count EXCEPT ![k] = loaded[a] + 1] /\ loaded[a] = count[k]
      /\ access' = [access EXCEPT ![a] = "updated"]
      /\ UNCHANGED <<writer, keyOf, loaded, ended, persist, copy, saved, blurred>>
  BY <1>0 DEF Update, LockHeld, CountIsRecorded, persistVars
<1>2. k = keyOf[a] /\ access'[a] = "updated" /\ \A b \in Access \ {a} : access'[b] = access[b]
  BY <1>0, <1>1 DEF PatternType
<1>3. /\ Recorded(k)' = Recorded(k) \cup {a} /\ a \notin Recorded(k)
      /\ \A x : x # k => Recorded(x)' = Recorded(x)
  <2>1. a \notin Recorded(k)
    BY <1>1 DEF Recorded
  <2>2. ASSUME NEW x, NEW b \in Access
        PROVE  b \in Recorded(x)' <=> b \in Recorded(x) \/ (b = a /\ x = k)
    BY <1>1, <1>2 DEF Recorded
  <2>3. \A x : Recorded(x) \subseteq Access /\ Recorded(x)' \subseteq Access
    BY DEF Recorded
  <2>4. Recorded(k)' = Recorded(k) \cup {a}
    BY <2>2, <2>3
  <2>5. ASSUME NEW x, x # k PROVE Recorded(x)' = Recorded(x)
    BY <2>2, <2>3, <2>5
  <2>6. QED
    BY <2>1, <2>4, <2>5
<1>4. /\ Cardinality(Recorded(k)') = count[k] + 1
      /\ Cardinality(Recorded(k)') \in 0 .. N
  <2>1. Recorded(k)' \in SUBSET Access
    BY DEF Recorded
  <2>2. Cardinality(Recorded(k)') \in 0 .. N
    BY <2>1, PredictorAssumption, FS_Subset, FS_CardinalityType DEF N
  <2>3. Cardinality(Recorded(k)') = Cardinality(Recorded(k)) + 1
    BY <1>3, RecordedFinite, FS_AddElement
  <2>4. QED
    BY <1>1, <2>2, <2>3 DEF CountIsRecorded
<1>5. /\ count'[k] = Cardinality(Recorded(k)')
      /\ \A x \in Key \ {k} : count'[x] = count[x]
  BY <1>1, <1>4 DEF PatternType
<1>6. PatternType'
  <2>1. loaded[a] + 1 \in 0 .. N
    BY <1>1, <1>4
  <2>2. QED
    BY <1>1, <2>1 DEF PatternType
<1>7. LockHeld'
  BY <1>1, <1>2 DEF LockHeld
<1>8. CountIsRecorded'
  <2>1. \A b \in Access : access'[b] # "locked"
    BY <1>1, <1>2 DEF LockHeld
  <2>2. ASSUME NEW x \in Key PROVE count'[x] = Cardinality(Recorded(x)')
    <3>1. CASE x = k
      BY <1>5, <3>1
    <3>2. CASE x # k
      BY <1>3, <1>5, <3>2 DEF CountIsRecorded
    <3>3. QED
      BY <3>1, <3>2
  <2>3. QED
    BY <2>1, <2>2 DEF CountIsRecorded
<1>9. Running' = Running
  BY <1>1 DEF Running
<1>10. RunningOnce'
  <2>1. persist[a] = "none"
    BY <1>1 DEF RunningOnce
  <2>2. QED
    BY <1>1, <1>2, <1>9, <2>1 DEF RunningOnce
<1>11. LatestIsSaved'
  <2> SUFFICES ASSUME NEW x \in Key \ blurred, Settled(x)'
               PROVE  /\ \A b \in Access : keyOf[b] = x /\ persist[b] = "read"
                                            => copy[b] = count'[x]
                      /\ \/ \A b \in Access : keyOf[b] = x => access'[b] # "returned"
                         \/ \E b \in Running : keyOf[b] = x
                         \/ saved[x] = count'[x]
    BY <1>1, <1>9 DEF LatestIsSaved
  <2>1. x # k
    BY <1>2, <1>1 DEF Settled
  <2>2. Settled(x) /\ count'[x] = count[x]
    BY <1>1, <1>2, <1>5, <2>1 DEF Settled
  <2>3. QED
    BY <1>1, <1>2, <2>1, <2>2 DEF LatestIsSaved
<1>12. QED
  BY <1>6, <1>7, <1>8, <1>10, <1>11

(* The access leaves a goroutine: the only one of its key, or the key is    *)
(* blurred.                                                                 *)
LEMMA ReturnStep ==
  ASSUME PatternInv, NEW a \in Access, Return(a)
  PROVE  PatternInv'
<1> USE DEF PatternInv
<1> DEFINE k == keyOf[a]
<1>1. /\ access[a] = "updated" /\ a \in writer /\ k \in Key /\ persist[a] = "none"
      /\ persist' = [persist EXCEPT ![a] = "started"]
      /\ blurred' = IF \E b \in Running : keyOf[b] = k THEN blurred \cup {k} ELSE blurred \ {k}
      /\ writer' = writer \ {a}
      /\ access' = [access EXCEPT ![a] = "returned"]
      /\ loaded' = [loaded EXCEPT ![a] = 0]
      /\ UNCHANGED <<count, keyOf, ended, copy, saved>>
  BY DEF Return, LockHeld, RunningOnce
<1> HIDE DEF k
<1>2. /\ k = keyOf[a] /\ access'[a] = "returned" /\ persist'[a] = "started"
      /\ \A b \in Access \ {a} : /\ access'[b] = access[b] /\ persist'[b] = persist[b]
                                /\ loaded'[b] = loaded[b]
  BY <1>1 DEF PatternType, k
<1>3. \A x : Recorded(x)' = Recorded(x)
  BY <1>1, <1>2 DEF Recorded
<1>4. PatternType'
  BY <1>1, RecordedFinite DEF PatternType
<1>5. LockHeld'
  BY <1>1, <1>2 DEF LockHeld
<1>6. CountIsRecorded'
  BY <1>1, <1>2, <1>3 DEF CountIsRecorded
<1>7. Running' = Running \cup {a}
  BY <1>1, <1>2 DEF Running
<1>8. k \notin blurred' => \A b \in Running : keyOf[b] # k
  BY <1>1
<1>9. \A x \in Key \ {k} : x \in blurred' <=> x \in blurred
  BY <1>1
<1>10. RunningOnce'
  <2>1. ASSUME NEW x \in Key \ blurred', NEW b \in Running', NEW c \in Running',
               keyOf[b] = x, keyOf[c] = x
        PROVE  b = c
    <3>1. CASE x = k
      BY <1>2, <1>7, <1>8, <2>1, <3>1
    <3>2. CASE x # k
      BY <1>2, <1>7, <1>9, <2>1, <3>2 DEF RunningOnce
    <3>3. QED
      BY <3>1, <3>2
  <2>2. QED
    BY <1>1, <1>2, <2>1 DEF RunningOnce
<1>11. LatestIsSaved'
  <2> SUFFICES ASSUME NEW x \in Key \ blurred', Settled(x)'
               PROVE  /\ \A b \in Access : keyOf[b] = x /\ persist'[b] = "read"
                                            => copy[b] = count[x]
                      /\ \/ \A b \in Access : keyOf[b] = x => access'[b] # "returned"
                         \/ \E b \in Running' : keyOf[b] = x
                         \/ saved[x] = count[x]
    BY <1>1 DEF LatestIsSaved
  <2>1. CASE x = k
    <3>1. \A b \in Access : keyOf[b] = x => persist'[b] # "read"
      BY <1>2, <1>8, <2>1 DEF Running
    <3>2. a \in Running' /\ keyOf[a] = x
      BY <1>2, <1>7, <2>1
    <3>3. QED
      BY <3>1, <3>2
  <2>2. CASE x # k
    <3>1. Settled(x) /\ x \notin blurred
      BY <1>1, <1>2, <1>9, <2>2 DEF Settled
    <3>2. QED
      BY <1>2, <1>7, <2>2, <3>1 DEF LatestIsSaved
  <2>3. QED
    BY <2>1, <2>2
<1>12. QED
  BY <1>4, <1>5, <1>6, <1>10, <1>11

LEMMA PatternUnchanged ==
  ASSUME PatternInv, ended' \subseteq Access,
         UNCHANGED <<count, writer, access, keyOf, loaded, persistVars>>
  PROVE  PatternInv'
<1> USE DEF PatternInv, persistVars
<1>1. Running' = Running /\ \A x : Recorded(x)' = Recorded(x)
  BY DEF Running, Recorded
<1>2. \A x : Settled(x)' <=> Settled(x)
  BY DEF Settled
<1>3. PatternType' /\ LockHeld'
  BY DEF PatternType, LockHeld
<1>4. CountIsRecorded' /\ RunningOnce'
  BY <1>1 DEF CountIsRecorded, RunningOnce
<1>5. LatestIsSaved'
  BY <1>1, <1>2 DEF LatestIsSaved
<1>6. QED
  BY <1>3, <1>4, <1>5

-----------------------------------------------------------------------------
(* Goroutines.                                                              *)

LEMMA ReadPatternStep ==
  ASSUME PatternInv, NEW a \in Access, ReadPattern(a)
  PROVE  PatternInv'
<1> USE DEF PatternInv
<1>0. PICK k \in Key : k = keyOf[a]
  BY DEF ReadPattern, RunningOnce, LockHeld
<1>1. /\ persist[a] = "started" /\ access[a] = "returned"
      /\ copy' = [copy EXCEPT ![a] = count[k]]
      /\ persist' = [persist EXCEPT ![a] = "read"]
      /\ UNCHANGED <<count, writer, access, keyOf, loaded, ended, saved, blurred>>
  BY <1>0 DEF ReadPattern, RunningOnce, patternVars, accessVars
<1>2. /\ copy'[a] = count[k] /\ persist'[a] = "read"
      /\ \A b \in Access \ {a} : copy'[b] = copy[b] /\ persist'[b] = persist[b]
  BY <1>1 DEF PatternType
<1>3. Running' = Running /\ \A x : Recorded(x)' = Recorded(x)
  BY <1>1, <1>2 DEF Running, Recorded
<1>4. PatternType' /\ LockHeld'
  BY <1>1 DEF PatternType, LockHeld
<1>5. CountIsRecorded' /\ RunningOnce'
  BY <1>1, <1>2, <1>3 DEF CountIsRecorded, RunningOnce
<1>6. LatestIsSaved'
  <2> SUFFICES ASSUME NEW x \in Key \ blurred, Settled(x)'
               PROVE  /\ \A b \in Access : keyOf[b] = x /\ persist'[b] = "read"
                                            => copy'[b] = count[x]
                      /\ \/ \A b \in Access : keyOf[b] = x => access[b] # "returned"
                         \/ \E b \in Running : keyOf[b] = x
                         \/ saved[x] = count[x]
    BY <1>1, <1>3 DEF LatestIsSaved
  <2>1. Settled(x)
    BY <1>1 DEF Settled
  <2>2. QED
    BY <1>0, <1>2, <2>1 DEF LatestIsSaved
<1>7. QED
  BY <1>4, <1>5, <1>6

(* The end of a goroutine, whether its Set succeeds or fails: it was the    *)
(* only one of its key and had the count, or the key is blurred.            *)
LEMMA GoroutineEnds ==
  ASSUME PatternInv, NEW a \in Access,
         persist[a] = "read",
         persist' = [persist EXCEPT ![a] = "done"],
         copy' = [copy EXCEPT ![a] = 0],
         \/ /\ saved' = [saved EXCEPT ![keyOf[a]] = copy[a]]
            /\ blurred' = blurred
         \/ /\ saved' \in {saved, [saved EXCEPT ![keyOf[a]] = copy[a]]}
            /\ blurred' = blurred \cup {keyOf[a]},
         UNCHANGED <<count, writer, access, keyOf, loaded, ended>>
  PROVE  PatternInv'
<1> USE DEF PatternInv
<1>0. PICK k \in Key : k = keyOf[a]
  BY DEF RunningOnce, LockHeld
<1>1. access[a] = "returned" /\ copy[a] \in 0 .. N
  BY DEF RunningOnce, PatternType
<1>2. /\ copy'[a] = 0 /\ persist'[a] = "done"
      /\ \A b \in Access \ {a} : copy'[b] = copy[b] /\ persist'[b] = persist[b]
  BY DEF PatternType
<1>3. /\ \A x \in Key \ {k} : saved'[x] = saved[x] /\ (x \in blurred' <=> x \in blurred)
      /\ k \notin blurred' => k \notin blurred /\ saved'[k] = copy[a]
  BY <1>0 DEF PatternType
<1>4. Running' = Running \ {a} /\ \A x : Recorded(x)' = Recorded(x)
  BY <1>2 DEF Running, Recorded
<1>5. PatternType'
  <2>1. saved' \in [Key -> 0 .. N] /\ blurred' \subseteq Key
    BY <1>0, <1>1 DEF PatternType
  <2>2. copy' \in [Access -> 0 .. N]
    BY <1>1, RecordedFinite DEF PatternType
  <2>3. QED
    BY <2>1, <2>2 DEF PatternType
<1>6. LockHeld' /\ CountIsRecorded'
  BY <1>4 DEF LockHeld, CountIsRecorded
<1>7. RunningOnce'
  <2>1. \A x \in Key \ blurred' : x \notin blurred
    BY <1>3
  <2>2. QED
    BY <1>1, <1>2, <1>4, <2>1 DEF RunningOnce
<1>8. LatestIsSaved'
  <2> SUFFICES ASSUME NEW x \in Key \ blurred', Settled(x)'
               PROVE  /\ \A b \in Access : keyOf[b] = x /\ persist'[b] = "read"
                                            => copy'[b] = count[x]
                      /\ \/ \A b \in Access : keyOf[b] = x => access[b] # "returned"
                         \/ \E b \in Running' : keyOf[b] = x
                         \/ saved'[x] = count[x]
    BY DEF LatestIsSaved
  <2>1. Settled(x) /\ x \in Key \ blurred
    BY <1>3 DEF Settled
  <2>2. \A b \in Access : keyOf[b] = x /\ persist[b] = "read" => copy[b] = count[x]
    BY <2>1 DEF LatestIsSaved
  <2>3. CASE x = k
    BY <1>0, <1>2, <1>3, <2>2, <2>3
  <2>4. CASE x # k
    BY <1>0, <1>2, <1>3, <1>4, <2>1, <2>2, <2>4 DEF LatestIsSaved
  <2>5. QED
    BY <2>3, <2>4
<1>9. QED
  BY <1>5, <1>6, <1>7, <1>8

-----------------------------------------------------------------------------
(* Trainings, readers, restarts.                                            *)

LEMMA ReaderStep ==
  ASSUME ReaderInv, NEW g \in Reader, CheckModel(g) \/ RLock(g) \/ Rank(g) \/ RUnlock(g)
  PROVE  ReaderInv'
<1> USE DEF ReaderInv
<1>1. CASE CheckModel(g)
  BY <1>1 DEF CheckModel, ReaderType, WeightsFirst, patternVars, modelVars
<1>2. CASE RLock(g)
  <2>1. PICK k \in Key : unranked' = [unranked EXCEPT ![g] =
                                        IF k \in Known THEN Known \ {k} ELSE {}]
    BY <1>2 DEF RLock
  <2>2. unranked' \in [Reader -> SUBSET Key]
    BY <2>1 DEF ReaderType, Known
  <2>3. ReaderType'
    BY <1>2, <2>2 DEF RLock, ReaderType, modelVars
  <2>4. WeightsFirst'
    BY <1>2 DEF RLock, ReaderType, WeightsFirst, modelVars
  <2>5. QED
    BY <2>3, <2>4
<1>3. CASE Rank(g)
  <2>1. /\ reader[g] = "ranking" /\ found[g] <= weights
        /\ used' = [used EXCEPT ![g] = @ \cup {weights}]
        /\ UNCHANGED <<readers, weights, model, reader, found>>
    BY <1>3 DEF Rank, WeightsFirst, patternVars, modelVars
  <2>2. PICK k \in unranked[g] : unranked' = [unranked EXCEPT ![g] = @ \ {k}]
    BY <1>3 DEF Rank
  <2>3. ReaderType'
    BY <2>1, <2>2 DEF ReaderType
  <2>4. WeightsFirst'
    BY <2>1 DEF ReaderType, WeightsFirst
  <2>5. QED
    BY <2>3, <2>4
<1>4. CASE RUnlock(g)
  BY <1>4 DEF RUnlock, ReaderType, WeightsFirst, modelVars
<1>5. QED
  BY <1>1, <1>2, <1>3, <1>4

LEMMA TrainingStep ==
  ASSUME ReaderInv, TrainWeights \/ TrainModel
  PROVE  ReaderInv'
<1> USE DEF ReaderInv
<1>1. CASE TrainWeights
  BY <1>1, PredictorAssumption
     DEF TrainWeights, ReaderType, WeightsFirst, patternVars, readerVars, Nil
<1>2. CASE TrainModel
  BY <1>2, PredictorAssumption
     DEF TrainModel, ReaderType, WeightsFirst, patternVars, readerVars, Nil
<1>3. QED
  BY <1>1, <1>2

(* After a restart no goroutine runs and no access has returned.            *)
LEMMA RestartStep ==
  ASSUME PatternInv, ReaderInv, Restart
  PROVE  PatternInv' /\ ReaderInv'
<1> USE DEF PatternInv, ReaderInv
<1>1. N \in Nat
  BY RecordedFinite
<1>2. PatternType'
  BY <1>1 DEF Restart, PatternType
<1>3. \A x : Recorded(x)' = {}
  BY DEF Restart, Recorded
<1>4. CountIsRecorded'
  BY <1>3, FS_EmptySet DEF Restart, CountIsRecorded
<1>5. Running' = {}
  BY DEF Restart, Running
<1>6. LockHeld' /\ RunningOnce'
  BY <1>5 DEF Restart, LockHeld, RunningOnce
<1>7. LatestIsSaved'
  BY DEF Restart, LatestIsSaved
<1>8. ReaderInv'
  BY PredictorAssumption DEF Restart, ReaderType, WeightsFirst, Nil, Loaded
<1>9. QED
  BY <1>2, <1>4, <1>6, <1>7, <1>8

-----------------------------------------------------------------------------
LEMMA PredictorInductive ==
  ASSUME PredictorInv, [Next]_vars
  PROVE  PredictorInv'
<1> USE DEF PredictorInv
<1>1. ended \subseteq Access
  BY DEF PatternInv, PatternType
<1>2. ASSUME UNCHANGED <<readers, modelVars, readerVars>> PROVE ReaderInv'
  BY <1>2 DEF modelVars, readerVars, ReaderInv, ReaderType, WeightsFirst
<1>3. ASSUME NEW a \in Access, Lock(a) PROVE PredictorInv'
  BY <1>2, <1>3, LockStep DEF Lock
<1>4. ASSUME NEW a \in Access, Update(a) PROVE PredictorInv'
  BY <1>2, <1>4, UpdateStep DEF Update
<1>5. ASSUME NEW a \in Access, Return(a) PROVE PredictorInv'
  BY <1>2, <1>5, ReturnStep DEF Return
<1>6. ASSUME NEW a \in Access, RequestEnds(a) PROVE PredictorInv'
  BY <1>1, <1>2, <1>6, PatternUnchanged DEF RequestEnds, patternVars
<1>7. ASSUME NEW a \in Access, ReadPattern(a) PROVE PredictorInv'
  BY <1>2, <1>7, ReadPatternStep DEF ReadPattern, patternVars
<1>8. ASSUME NEW a \in Access, SavePattern(a) PROVE PredictorInv'
  <2>1. PatternInv'
    BY <1>8, GoroutineEnds DEF SavePattern, patternVars, accessVars
  <2>2. QED
    BY <1>2, <1>8, <2>1 DEF SavePattern, patternVars
<1>9. ASSUME NEW a \in Access, SaveFails(a) PROVE PredictorInv'
  <2>1. PatternInv'
    BY <1>9, GoroutineEnds DEF SaveFails, patternVars, accessVars
  <2>2. errors' \in 0 .. MaxErrors
    BY <1>9, PredictorAssumption DEF SaveFails
  <2>3. QED
    BY <1>2, <1>9, <2>1, <2>2 DEF SaveFails, patternVars
<1>10. ASSUME TrainWeights \/ TrainModel PROVE PredictorInv'
  <2>1. UNCHANGED <<patternVars, accessVars, persistVars, errors>>
    BY <1>10 DEF TrainWeights, TrainModel
  <2>2. PatternInv'
    BY <1>1, <2>1, PatternUnchanged DEF patternVars, accessVars
  <2>3. QED
    BY <1>10, <2>1, <2>2, TrainingStep DEF patternVars
<1>11. ASSUME NEW g \in Reader, CheckModel(g) \/ RLock(g) \/ Rank(g) \/ RUnlock(g)
       PROVE  PredictorInv'
  <2>1. /\ UNCHANGED <<count, writer, accessVars, persistVars, errors>>
        /\ readers' \subseteq readers \/ writer = {}
    BY <1>11 DEF CheckModel, RLock, Rank, RUnlock, patternVars
  <2>2. PatternInv'
    BY <1>1, <2>1, PatternUnchanged DEF accessVars
  <2>3. QED
    BY <1>11, <2>1, <2>2, ReaderStep
<1>12. ASSUME Restart PROVE PredictorInv'
  BY <1>12, RestartStep, PredictorAssumption DEF Restart
<1>13. ASSUME UNCHANGED vars PROVE PredictorInv'
  <2>1. PatternInv'
    BY <1>1, <1>13, PatternUnchanged DEF vars, patternVars, accessVars
  <2>2. QED
    BY <1>2, <1>13, <2>1 DEF vars, patternVars
<1>14. QED
  BY <1>3, <1>4, <1>5, <1>6, <1>7, <1>8, <1>9, <1>10, <1>11, <1>12, <1>13 DEF Next

LEMMA PredictorAlways == Spec => []PredictorInv
<1>1. PredictorInv /\ [Next]_vars => PredictorInv'
  BY PredictorInductive
<1>2. QED
  BY PredictorInit, <1>1, PTL DEF Spec

(* Every variable has its type; one access at most holds patternMutex, and  *)
(* none while GetPredictions holds the read lock.                           *)
THEOREM TypeCorrect == Spec => []TypeOK
<1>1. PredictorInv => TypeOK
  <2> SUFFICES ASSUME PredictorInv PROVE TypeOK
    OBVIOUS
  <2>1. Cardinality(writer) <= 1
    <3>1. CASE writer = {}
      BY <3>1, FS_EmptySet
    <3>2. CASE writer # {}
      <4>1. PICK a : writer = {a}
        BY <3>2 DEF PredictorInv, PatternInv, LockHeld
      <4>2. Cardinality({a}) = 1
        BY FS_Singleton
      <4>3. QED
        BY <4>1, <4>2
    <3>3. QED
      BY <3>1, <3>2
  <2>2. QED
    BY <2>1 DEF PredictorInv, PatternInv, PatternType, ReaderInv, ReaderType, TypeOK, N
<1>2. QED
  BY <1>1, PredictorAlways, PTL

(* Concurrent calls of RecordAccess lose no increment, and a goroutine that *)
(* reads the pattern without the lock saves the latest count, unless it     *)
(* failed or raced another one of its key.                                  *)
THEOREM QuietKeysAreSaved == Spec => []QuietKeyIsSaved
<1>1. PredictorInv => QuietKeyIsSaved
  <2> SUFFICES ASSUME PredictorInv, NEW k \in Key \ blurred,
                      \E a \in Access : keyOf[a] = k /\ access[a] = "returned",
                      \A a \in Access : keyOf[a] = k =>
                         a \notin Running /\ access[a] \notin {"locked", "updated"}
               PROVE  saved[k] = Cardinality(Recorded(k))
    BY DEF QuietKeyIsSaved
  <2>1. Settled(k) /\ ~ \E a \in Running : keyOf[a] = k
    BY DEF Settled, Running
  <2>2. saved[k] = count[k]
    BY <2>1 DEF PredictorInv, PatternInv, LatestIsSaved
  <2>3. QED
    BY <2>2 DEF PredictorInv, PatternInv, CountIsRecorded
<1>2. QED
  BY <1>1, PredictorAlways, PTL

(* trainModel replaces the weights before the model, GetPredictions reads   *)
(* the model first: the weights it ranks with are never older.              *)
THEOREM RanksWithWeightsOfModel == Spec => []RanksWithItsModel
<1>1. PredictorInv => RanksWithItsModel
  BY DEF PredictorInv, ReaderInv, WeightsFirst, RanksWithItsModel
<1>2. QED
  BY <1>1, PredictorAlways, PTL
=============================================================================
