------------------------- MODULE PruningServiceProofs -------------------------
(***************************************************************************)
(* What the in-server pruner guarantees for any number of replicas and     *)
(* objects.  The amount to remove is computed before the listing and the   *)
(* deletions go by the listing, so that the target is kept only as long as *)
(* no other pruner deletes: then what is still queued is never more than   *)
(* what is left above the target.                                          *)
(***************************************************************************)
EXTENDS PruningService, FiniteSetTheorems, TLAPS

(* Nothing is queued outside the loop of deletions.                         *)
QueueOfCycle ==
    \A p \in Replica : /\ IsFiniteSet(queue[p])
                       /\ pc[p] # "deleting" => queue[p] = {}

(* What was measured is still there when the bucket is listed.              *)
MeasureHolds ==
    \A p \in undisturbed :
       pc[p] = "listing" => need[p] <= Cardinality(Present) - Target

(* A queue with an entry that is not expired fits above the target.         *)
QueueFits ==
    \A p \in undisturbed :
       (\E e \in queue[p] : ~e.expired) =>
          Cardinality(Present) >= Target + Cardinality(queue[p])

PrunerInv == TypeOK /\ QueueOfCycle /\ MeasureHolds /\ QueueFits

-----------------------------------------------------------------------------
LEMMA TargetType == Target \in Nat /\ Target <= MaxCacheSize
BY PruningAssumption DEF Target

LEMMA PresentFinite ==
  /\ IsFiniteSet(Present) /\ Cardinality(Present) \in 0 .. Cardinality(Key)
  /\ Cardinality(Key) \in Nat
<1>1. Present \in SUBSET Key
  BY DEF Present
<1>2. QED
  BY <1>1, PruningAssumption, FS_Subset, FS_CardinalityType

(* The selection ends at the amount to remove, or takes what is expired     *)
(* and no more.                                                             *)
LEMMA SelectionFits ==
  ASSUME NEW X, NEW O, NEW K, IsFiniteSet(X), IsFiniteSet(O), IsFiniteSet(K),
         NEW n \in Int, NEW S \in Selections(X, O, K, n)
  PROVE  /\ S \subseteq X \cup O \cup K
         /\ S \subseteq X \/ Cardinality(S) <= n
<1> DEFINE missing == n - Cardinality(X)
           rest == missing - Cardinality(O)
<1>1. Cardinality(X) \in Nat /\ Cardinality(O) \in Nat /\ Cardinality(K) \in Nat
  BY FS_CardinalityType
<1>2. ASSUME NEW T, NEW R, IsFiniteSet(T), IsFiniteSet(R)
      PROVE  /\ IsFiniteSet(T \cup R)
             /\ Cardinality(T \cup R) <= Cardinality(T) + Cardinality(R)
             /\ Cardinality(T \cup R) \in Nat
             /\ Cardinality(T) \in Nat /\ Cardinality(R) \in Nat
  <2>1. /\ IsFiniteSet(T \cup R)
        /\ Cardinality(T \cup R) = Cardinality(T) + Cardinality(R) - Cardinality(T \cap R)
    BY <1>2, FS_Union
  <2>2. IsFiniteSet(T \cap R)
    BY <1>2, FS_Subset
  <2>3. /\ Cardinality(T \cap R) \in Nat /\ Cardinality(T) \in Nat
        /\ Cardinality(R) \in Nat /\ Cardinality(T \cup R) \in Nat
    BY <1>2, <2>1, <2>2, FS_CardinalityType
  <2>4. QED
    BY <2>1, <2>3
<1>3. CASE missing <= 0
  BY <1>3 DEF Selections
<1>4. CASE missing > 0 /\ rest <= 0
  <2>1. PICK T \in kSubset(missing, O) : S = X \cup T
    BY <1>1, <1>4 DEF Selections
  <2>2. T \in SUBSET O /\ Cardinality(T) = missing
    BY <2>1 DEF kSubset
  <2>3. IsFiniteSet(T)
    BY <2>2, FS_Subset
  <2>4. Cardinality(S) <= Cardinality(X) + missing /\ Cardinality(S) \in Nat
    BY <1>2, <2>1, <2>2, <2>3
  <2>5. QED
    BY <1>1, <2>1, <2>2, <2>4
<1>5. CASE missing > 0 /\ rest > 0 /\ rest >= Cardinality(K)
  <2>1. S = (X \cup O) \cup K
    BY <1>1, <1>5 DEF Selections
  <2>2. /\ IsFiniteSet(X \cup O) /\ Cardinality(X \cup O) \in Nat
        /\ Cardinality(X \cup O) <= Cardinality(X) + Cardinality(O)
    BY <1>2
  <2>3. Cardinality(S) <= Cardinality(X \cup O) + Cardinality(K) /\ Cardinality(S) \in Nat
    BY <1>2, <2>1, <2>2
  <2>4. QED
    BY <1>1, <1>5, <2>1, <2>2, <2>3
<1>6. CASE missing > 0 /\ rest > 0 /\ rest < Cardinality(K)
  <2>1. PICK T \in kSubset(rest, K) : S = (X \cup O) \cup T
    BY <1>1, <1>6 DEF Selections
  <2>2. T \in SUBSET K /\ Cardinality(T) = rest
    BY <2>1 DEF kSubset
  <2>3. IsFiniteSet(T)
    BY <2>2, FS_Subset
  <2>4. /\ IsFiniteSet(X \cup O) /\ Cardinality(X \cup O) \in Nat
        /\ Cardinality(X \cup O) <= Cardinality(X) + Cardinality(O)
    BY <1>2
  <2>5. Cardinality(S) <= Cardinality(X \cup O) + rest /\ Cardinality(S) \in Nat
    BY <1>2, <2>1, <2>2, <2>3, <2>4
  <2>6. QED
    BY <1>1, <2>1, <2>2, <2>4, <2>5
<1>7. QED
  BY <1>1, <1>3, <1>4, <1>5, <1>6

(* The entries listed for a set of names are no more than the names.        *)
LEMMA EntriesFinite ==
  ASSUME NEW S, S \subseteq Key
  PROVE  /\ Entries(S) \subseteq [key : Key, expired : BOOLEAN]
         /\ IsFiniteSet(Entries(S)) /\ IsFiniteSet(S)
         /\ Cardinality(Entries(S)) <= Cardinality(S)
         /\ Cardinality(Entries(S)) \in Nat /\ Cardinality(S) \in Nat
<1>1. IsFiniteSet(S)
  BY PruningAssumption, FS_Subset
<1> DEFINE m == [k \in S |-> [key |-> k, expired |-> object[k] = "expired"]]
<1>2. m \in Surjection(S, Entries(S))
  <2>1. \A k \in S : m[k] \in Entries(S)
    BY DEF Entries
  <2>2. \A e \in Entries(S) : \E k \in S : m[k] = e
    BY DEF Entries
  <2> HIDE DEF m
  <2>3. m \in [S -> Entries(S)]
    BY <2>1 DEF m
  <2>4. QED
    BY <2>2, <2>3 DEF Surjection
<1>3. IsFiniteSet(Entries(S)) /\ Cardinality(Entries(S)) <= Cardinality(S)
  BY <1>1, <1>2, FS_Surjection
<1>4. Entries(S) \subseteq [key : Key, expired : BOOLEAN]
  <2>1. ASSUME NEW k \in S
        PROVE  [key |-> k, expired |-> object[k] = "expired"] \in [key : Key, expired : BOOLEAN]
    <3>1. (object[k] = "expired") \in BOOLEAN /\ k \in Key
      OBVIOUS
    <3>2. QED
      BY <3>1
  <2>2. QED
    BY <2>1 DEF Entries
<1>5. QED
  BY <1>1, <1>3, <1>4, FS_CardinalityType

-----------------------------------------------------------------------------
LEMMA PrunerInit == Init => PrunerInv
<1> SUFFICES ASSUME Init PROVE PrunerInv
  OBVIOUS
<1>1. TypeOK
  BY PruningAssumption DEF Init, TypeOK
<1>2. QueueOfCycle /\ MeasureHolds /\ QueueFits
  BY FS_EmptySet DEF Init, QueueOfCycle, MeasureHolds, QueueFits
<1>3. QED
  BY <1>1, <1>2 DEF PrunerInv

(* A cycle is left: nothing is queued, and nothing is claimed of it.        *)
LEMMA LeaveStep ==
  ASSUME PrunerInv, NEW p \in Replica, NEW w \in {"waiting", "down"},
         Leave(p, w), UNCHANGED <<object, writes, ages>>, errors' \in 0 .. MaxErrors,
         \/ queue' = queue /\ queue[p] = {}
         \/ queue' = [queue EXCEPT ![p] = {}]
  PROVE  PrunerInv'
<1> USE DEF PrunerInv
<1>1. /\ pc' = [pc EXCEPT ![p] = w] /\ need' = [need EXCEPT ![p] = 0]
      /\ undisturbed' = undisturbed \ {p}
  BY DEF Leave
<1>2. queue'[p] = {} /\ \A q \in Replica \ {p} : queue'[q] = queue[q]
  BY DEF TypeOK
<1>3. TypeOK'
  BY <1>1 DEF TypeOK
<1>4. QueueOfCycle'
  BY <1>1, <1>2, FS_EmptySet DEF TypeOK, QueueOfCycle
<1>5. Present' = Present
  BY DEF Present
<1>6. undisturbed \subseteq Replica
  BY DEF TypeOK
<1>7. MeasureHolds' /\ QueueFits'
  BY <1>1, <1>2, <1>5, <1>6 DEF TypeOK, MeasureHolds, QueueFits
<1>8. QED
  BY <1>3, <1>4, <1>7

LEMMA CycleStep ==
  ASSUME PrunerInv, NEW p \in Replica,
         Begin(p) \/ WithinLimit(p) \/ SelectionPanics(p) \/ CycleEnds(p)
         \/ ScanFails(p) \/ Crash(p)
  PROVE  PrunerInv'
<1>1. /\ TypeOK /\ QueueOfCycle /\ errors \in 0 .. MaxErrors /\ MaxErrors \in Nat
  BY PruningAssumption DEF PrunerInv, TypeOK
<1>2. CASE Begin(p)
  <2>1. Present' = Present
    BY <1>2 DEF Begin, Present
  <2>2. QED
    BY <1>2, <2>1
       DEF Begin, PrunerInv, TypeOK, QueueOfCycle, MeasureHolds, QueueFits
<1>3. CASE WithinLimit(p) \/ SelectionPanics(p) \/ CycleEnds(p)
  BY <1>1, <1>3, LeaveStep
     DEF WithinLimit, SelectionPanics, CycleEnds, QueueOfCycle
<1>4. CASE ScanFails(p) \/ Crash(p)
  <2>1. errors' \in 0 .. MaxErrors
    BY <1>1, <1>4 DEF ScanFails, Crash
  <2>2. QED
    BY <1>1, <1>4, <2>1, LeaveStep DEF ScanFails, Crash, QueueOfCycle
<1>5. QED
  BY <1>2, <1>3, <1>4

(* The amount to remove is what is above the target.                        *)
LEMMA MeasureStep ==
  ASSUME PrunerInv, NEW p \in Replica, OverLimit(p)
  PROVE  PrunerInv'
<1> USE DEF PrunerInv
<1> DEFINE n == Cardinality(Present) - Target
<1>1. /\ pc[p] = "start" /\ pc' = [pc EXCEPT ![p] = "listing"]
      /\ need' = [need EXCEPT ![p] = n] /\ undisturbed' = undisturbed \cup {p}
      /\ Cardinality(Present) > MaxCacheSize
      /\ UNCHANGED <<object, queue, writes, ages, errors>>
  BY DEF OverLimit
<1>2. n \in MaxCacheSize - Target + 1 .. Cardinality(Key)
  BY <1>1, TargetType, PresentFinite, PruningAssumption
<1>3. Present' = Present
  BY <1>1 DEF Present
<1>4. TypeOK'
  BY <1>1, <1>2 DEF TypeOK
<1>5. QueueOfCycle' /\ queue[p] = {}
  BY <1>1 DEF TypeOK, QueueOfCycle
<1>6. undisturbed \subseteq Replica
  BY DEF TypeOK
<1>7. MeasureHolds'
  <2>1. need'[p] <= n
    BY <1>1, TargetType, PresentFinite DEF TypeOK
  <2>2. \A q \in Replica \ {p} : need'[q] = need[q] /\ pc'[q] = pc[q]
    BY <1>1 DEF TypeOK
  <2>3. QED
    BY <1>1, <1>3, <1>6, <2>1, <2>2 DEF MeasureHolds
<1>8. QueueFits'
  BY <1>1, <1>3, <1>5 DEF QueueFits
<1>9. QED
  BY <1>4, <1>5, <1>7, <1>8

(* What is queued fits: the bucket has not become smaller since.            *)
LEMMA SelectStep ==
  ASSUME PrunerInv, NEW p \in Replica, ListAndSelect(p)
  PROVE  PrunerInv'
<1> USE DEF PrunerInv
<1> DEFINE X == Listed("expired")
           O == Listed("old")
           K == Listed("recent")
<1>1. PICK S \in Selections(X, O, K, need[p]) : queue' = [queue EXCEPT ![p] = Entries(S)]
  BY DEF ListAndSelect
<1>2. /\ pc[p] = "listing" /\ pc' = [pc EXCEPT ![p] = "deleting"]
      /\ need' = [need EXCEPT ![p] = 0]
      /\ UNCHANGED <<object, undisturbed, writes, ages, errors>>
  BY DEF ListAndSelect
<1>3. /\ X \in SUBSET Key /\ O \in SUBSET Key /\ K \in SUBSET Key
      /\ IsFiniteSet(X) /\ IsFiniteSet(O) /\ IsFiniteSet(K)
  BY PruningAssumption, FS_Subset DEF Listed
<1>4. need[p] \in Int
  BY PruningAssumption, TargetType, PresentFinite DEF TypeOK
<1> HIDE DEF X, O, K
<1>5. S \subseteq Key /\ (S \subseteq X \/ Cardinality(S) <= need[p])
  BY <1>1, <1>3, <1>4, SelectionFits
<1>6. TypeOK'
  <2>1. Entries(S) \in SUBSET [key : Key, expired : BOOLEAN]
    BY <1>5, EntriesFinite
  <2>2. QED
    BY <1>1, <1>2, <2>1 DEF TypeOK
<1>7. QueueOfCycle'
  BY <1>1, <1>2, <1>5, EntriesFinite DEF TypeOK, QueueOfCycle
<1>8. Present' = Present /\ undisturbed \subseteq Replica
  BY <1>2 DEF Present, TypeOK
<1>9. MeasureHolds'
  BY <1>2, <1>8 DEF TypeOK, MeasureHolds
<1>10. QueueFits'
  <2> SUFFICES ASSUME NEW q \in undisturbed, NEW e \in queue'[q], ~e.expired
               PROVE  Cardinality(Present) >= Target + Cardinality(queue'[q])
    BY <1>2, <1>8 DEF QueueFits
  <2>1. CASE q # p
    <3>1. queue'[q] = queue[q]
      BY <1>1, <1>8, <2>1 DEF TypeOK
    <3>2. QED
      BY <3>1 DEF QueueFits
  <2>2. CASE q = p
    <3>1. queue'[p] = Entries(S)
      BY <1>1 DEF TypeOK
    <3>2. ~(S \subseteq X)
      <4>1. PICK k \in S : e = [key |-> k, expired |-> object[k] = "expired"]
        BY <2>2, <3>1 DEF Entries
      <4>2. object[k] # "expired"
        BY <4>1
      <4>3. QED
        BY <4>2 DEF X, Listed
    <3>3. Cardinality(S) <= need[p] /\ need[p] <= Cardinality(Present) - Target
      BY <1>2, <1>5, <2>2, <3>2 DEF MeasureHolds
    <3>4. QED
      BY <1>4, <1>5, <2>2, <3>1, <3>3, EntriesFinite, TargetType, PresentFinite
  <2>3. QED
    BY <2>1, <2>2
<1>11. QED
  BY <1>6, <1>7, <1>9, <1>10

(* An entry leaves the queue, and at most one object the bucket.            *)
LEMMA DeleteStep ==
  ASSUME PrunerInv, NEW p \in Replica, DeleteNext(p)
  PROVE  PrunerInv'
<1> USE DEF PrunerInv
<1>1. PICK e \in queue[p] :
        /\ object' = [k \in Key |-> IF k \in Sanitized(e.key) THEN "absent" ELSE object[k]]
        /\ queue' = [queue EXCEPT ![p] = queue[p] \ {e}]
  BY DEF DeleteNext, Foremost
<1>2. /\ pc[p] = "deleting" /\ undisturbed' = undisturbed \cap {p}
      /\ UNCHANGED <<pc, need, writes, ages, errors>>
  BY DEF DeleteNext
<1>3. /\ IsFiniteSet(queue[p]) /\ IsFiniteSet(queue'[p])
      /\ queue'[p] = queue[p] \ {e} /\ queue'[p] \in SUBSET queue[p]
      /\ Cardinality(queue[p]) \in Nat
      /\ Cardinality(queue'[p]) = Cardinality(queue[p]) - 1
      /\ \A q \in Replica \ {p} : queue'[q] = queue[q]
  BY <1>1, FS_RemoveElement, FS_CardinalityType DEF QueueOfCycle, TypeOK
<1>4. TypeOK'
  <2>1. object' \in [Key -> Class \cup {"absent"}]
    BY <1>1 DEF TypeOK
  <2>2. queue' \in [Replica -> SUBSET [key : Key, expired : BOOLEAN]]
    BY <1>1, <1>3 DEF TypeOK
  <2>3. QED
    BY <1>2, <2>1, <2>2 DEF TypeOK
<1>5. QueueOfCycle'
  BY <1>2, <1>3 DEF QueueOfCycle
<1>6. MeasureHolds'
  BY <1>2 DEF MeasureHolds
<1>7. /\ Cardinality(Present') >= Cardinality(Present) - 1
      /\ Cardinality(Present) \in Nat /\ Cardinality(Present') \in Nat
  <2>1. Present \ {e.key} \subseteq Present'
    BY <1>1 DEF Present, Sanitized
  <2>2. /\ IsFiniteSet(Present) /\ IsFiniteSet(Present')
        /\ Cardinality(Present) \in Nat /\ Cardinality(Present') \in Nat
    <3>1. Present' \in SUBSET Key
      BY DEF Present
    <3>2. QED
      BY <3>1, PresentFinite, PruningAssumption, FS_Subset, FS_CardinalityType
  <2>3. /\ IsFiniteSet(Present \ {e.key})
        /\ Cardinality(Present \ {e.key}) >= Cardinality(Present) - 1
        /\ Cardinality(Present \ {e.key}) \in Nat
    <3>1. /\ IsFiniteSet(Present \ {e.key})
          /\ Cardinality(Present \ {e.key}) =
                IF e.key \in Present THEN Cardinality(Present) - 1 ELSE Cardinality(Present)
      BY <2>2, FS_RemoveElement
    <3>2. Cardinality(Present \ {e.key}) \in Nat
      BY <3>1, FS_CardinalityType
    <3>3. QED
      BY <2>2, <3>1, <3>2
  <2>4. Cardinality(Present \ {e.key}) <= Cardinality(Present')
    BY <2>1, <2>2, FS_Subset
  <2>5. QED
    BY <2>2, <2>3, <2>4
<1>8. QueueFits'
  <2> SUFFICES ASSUME p \in undisturbed, NEW x \in queue'[p], ~x.expired
               PROVE  Cardinality(Present') >= Target + Cardinality(queue'[p])
    BY <1>2 DEF QueueFits
  <2>1. Cardinality(Present) >= Target + Cardinality(queue[p])
    BY <1>3 DEF QueueFits
  <2>2. QED
    BY <1>3, <1>7, <2>1, TargetType
<1>9. QED
  BY <1>4, <1>5, <1>6, <1>8

LEMMA DeleteFailsStep ==
  ASSUME PrunerInv, NEW p \in Replica, DeleteFails(p)
  PROVE  PrunerInv'
<1> USE DEF PrunerInv
<1>1. PICK e \in queue[p] : queue' = [queue EXCEPT ![p] = queue[p] \ {e}]
  BY DEF DeleteFails, Foremost
<1>2. /\ pc[p] = "deleting" /\ errors' \in 0 .. MaxErrors
      /\ UNCHANGED <<object, pc, need, undisturbed, writes, ages>>
  BY PruningAssumption DEF DeleteFails, TypeOK
<1>3. /\ IsFiniteSet(queue[p]) /\ IsFiniteSet(queue'[p])
      /\ queue'[p] = queue[p] \ {e} /\ queue'[p] \in SUBSET queue[p]
      /\ Cardinality(queue[p]) \in Nat
      /\ Cardinality(queue'[p]) = Cardinality(queue[p]) - 1
      /\ \A q \in Replica \ {p} : queue'[q] = queue[q]
  BY <1>1, FS_RemoveElement, FS_CardinalityType DEF QueueOfCycle, TypeOK
<1>4. TypeOK'
  <2>1. queue' \in [Replica -> SUBSET [key : Key, expired : BOOLEAN]]
    BY <1>1, <1>3 DEF TypeOK
  <2>2. QED
    BY <1>2, <2>1 DEF TypeOK
<1>5. QueueOfCycle'
  BY <1>2, <1>3 DEF QueueOfCycle
<1>6. Present' = Present /\ Cardinality(Present) \in Nat /\ undisturbed \subseteq Replica
  BY <1>2, PresentFinite DEF Present, TypeOK
<1>7. MeasureHolds'
  BY <1>2, <1>6 DEF MeasureHolds
<1>8. QueueFits'
  <2> SUFFICES ASSUME NEW q \in undisturbed, NEW x \in queue'[q], ~x.expired
               PROVE  Cardinality(Present) >= Target + Cardinality(queue'[q])
    BY <1>2, <1>6 DEF QueueFits
  <2>1. x \in queue[q]
    BY <1>3, <1>6
  <2>2. Cardinality(Present) >= Target + Cardinality(queue[q])
    BY <2>1 DEF QueueFits
  <2>3. CASE q = p
    <3>1. Cardinality(queue'[q]) = Cardinality(queue[q]) - 1 /\ Cardinality(queue[q]) \in Nat
      BY <1>3, <2>3
    <3> DEFINE before == Cardinality(queue[q])
               after == Cardinality(queue'[q])
    <3>2. after = before - 1 /\ before \in Nat /\ Cardinality(Present) >= Target + before
      BY <2>2, <3>1
    <3> HIDE DEF before, after
    <3>3. Cardinality(Present) >= Target + after
      BY <1>6, <3>2, TargetType
    <3>4. QED
      BY <3>3 DEF after
  <2>4. CASE q # p
    BY <1>3, <1>6, <2>2, <2>4
  <2>5. QED
    BY <2>3, <2>4
<1>9. QED
  BY <1>4, <1>5, <1>7, <1>8

(* Clients only add to the bucket, and time changes what is there.          *)
LEMMA ClientStep ==
  ASSUME PrunerInv, NEW k \in Key, Write(k) \/ Age(k)
  PROVE  PrunerInv'
<1> USE DEF PrunerInv
<1>1. /\ \E c \in Class : object' = [object EXCEPT ![k] = c]
      /\ UNCHANGED <<pc, need, queue, undisturbed, errors>>
      /\ writes' \in 0 .. MaxWrites /\ ages' \in 0 .. MaxAges
  BY PruningAssumption DEF Write, Age, Class, TypeOK
<1>2. TypeOK'
  BY <1>1 DEF TypeOK
<1>3. QueueOfCycle'
  BY <1>1 DEF QueueOfCycle
<1>4. /\ Cardinality(Present) <= Cardinality(Present')
      /\ Cardinality(Present) \in Nat /\ Cardinality(Present') \in Nat
  <2>1. Present \subseteq Present'
    BY <1>1 DEF Present, Class, TypeOK
  <2>2. Present' \in SUBSET Key
    BY DEF Present
  <2>3. QED
    BY <2>1, <2>2, PruningAssumption, FS_Subset, FS_CardinalityType
<1>5. \A p \in undisturbed : need[p] \in Int /\ Cardinality(queue[p]) \in Nat
  BY TargetType, PresentFinite, PruningAssumption, FS_CardinalityType
     DEF TypeOK, QueueOfCycle
<1>6. MeasureHolds' /\ QueueFits'
  BY <1>1, <1>4, <1>5, TargetType DEF MeasureHolds, QueueFits
<1>7. QED
  BY <1>2, <1>3, <1>6

LEMMA PrunerStep == PrunerInv /\ [Next]_vars => PrunerInv'
<1> SUFFICES ASSUME PrunerInv, [Next]_vars PROVE PrunerInv'
  OBVIOUS
<1>1. CASE UNCHANGED vars
  <2>1. Present' = Present
    BY <1>1 DEF vars, Present
  <2>2. QED
    BY <1>1, <2>1 DEF vars, PrunerInv, TypeOK, QueueOfCycle, MeasureHolds, QueueFits
<1>2. CASE Next
  BY <1>2, CycleStep, MeasureStep, SelectStep, DeleteStep, DeleteFailsStep, ClientStep
     DEF Next, Pruner
<1>3. QED
  BY <1>1, <1>2

LEMMA PrunerInvHolds == Spec => []PrunerInv
BY PrunerInit, PrunerStep, PTL DEF Spec

-----------------------------------------------------------------------------
(* The state of the pruners and of the bucket has its types: a cycle is     *)
(* never asked to remove less than the difference between limit and target. *)
THEOREM TypeCorrect == Spec => []TypeOK
<1>1. PrunerInv => TypeOK
  BY DEF PrunerInv
<1>2. QED
  BY <1>1, PrunerInvHolds, PTL

(* RunPruning does not go below 80 % of the limit for what is not expired,  *)
(* however clients store and objects age between its measure, its listing   *)
(* and its deletions, unless another pruner deletes meanwhile.              *)
THEOREM TargetIsKept == Spec => KeepsTargetAlone
<1>1. ASSUME PrunerInv, NEW p \in undisturbed, NEW e \in queue[p],
             Deletes(p, e), ~e.expired
      PROVE  Cardinality(Present) > Target
  <2>1. p \in Replica /\ IsFiniteSet(queue[p])
    BY <1>1 DEF PrunerInv, TypeOK, QueueOfCycle
  <2>2. Cardinality(queue[p]) \in Nat /\ Cardinality(queue[p]) # 0
    BY <2>1, FS_CardinalityType, FS_EmptySet
  <2>3. Cardinality(Present) >= Target + Cardinality(queue[p])
    BY <1>1 DEF PrunerInv, QueueFits
  <2>4. QED
    BY <2>2, <2>3, TargetType, PresentFinite
<1>2. PrunerInv =>
        [\A p \in undisturbed : \A e \in queue[p] :
            Deletes(p, e) /\ ~e.expired => Cardinality(Present) > Target]_vars
  BY <1>1
<1>3. QED
  BY <1>2, PrunerInvHolds, PTL DEF KeepsTargetAlone
=============================================================================
