------------------------- MODULE ChaosEngineerProofs -------------------------
(***************************************************************************)
(* What a chaos experiment guarantees for any number of executions and     *)
(* pods and every percentage.  An execution deletes from a list that ages, *)
(* so that what it may still cost is bounded by the pods of the list it    *)
(* has still to delete.                                                    *)
(***************************************************************************)
EXTENDS ChaosEngineer, FiniteSetTheorems, TLAPS

(* The pods that an execution has brought down or has still to delete are   *)
(* its share.  The list itself is never empty.                              *)
SharePending ==
    \A r \in Run : view[r] # NoView =>
       /\ view[r].listed >= 1
       /\ view[r].up - Cardinality(Up) + Cardinality(targets[r]) <= NumToKill(view[r].listed)

(* Only an execution that went on to kill has brought a pod down, and none  *)
(* that kills can end in an error.                                          *)
KillersKill ==
    \A r \in killers : pc[r] \in {"killing", "waiting", "cleaning"}

ChaosInv == TypeOK /\ SharePending /\ KillersKill

-----------------------------------------------------------------------------
LEMMA PodsFinite ==
  /\ \A S : S \subseteq Pod => IsFiniteSet(S) /\ Cardinality(S) \in 0 .. Cardinality(Pod)
  /\ Cardinality(Pod) \in Nat /\ Replicas \in Nat
<1>1. ASSUME NEW S, S \subseteq Pod
      PROVE  IsFiniteSet(S) /\ Cardinality(S) \in 0 .. Cardinality(Pod)
  BY <1>1, ChaosAssumption, FS_Subset, FS_CardinalityType
<1>2. Cardinality(Pod) \in Nat /\ Replicas \in Nat
  BY <1>1, ChaosAssumption, FS_CardinalityType DEF Replicas
<1>3. QED
  BY <1>1, <1>2

LEMMA UpFinite ==
  /\ Up \subseteq Pod /\ IsFiniteSet(Up) /\ Cardinality(Up) \in Nat
  /\ Listed \subseteq Pod /\ IsFiniteSet(Listed)
<1>1. Up \subseteq Pod /\ Listed \subseteq Pod
  BY DEF Up, Listed
<1>2. QED
  BY <1>1, PodsFinite

(* numToKill is one pod, or no more than the percentage.                    *)
LEMMA ShareIsOneOrLess ==
  ASSUME NEW n \in Nat
  PROVE  /\ NumToKill(n) \in Nat /\ NumToKill(n) >= 1
         /\ NumToKill(n) = 1 \/ NumToKill(n) * 100 <= Percentage * n
<1>1. PICK m \in Nat : m = n * Percentage
  BY ChaosAssumption
<1>2. m = Percentage * n
  BY <1>1, ChaosAssumption
<1>3. m \div 100 \in Nat /\ (m \div 100) * 100 <= m
  OBVIOUS
<1>4. NumToKill(n) = IF m \div 100 = 0 THEN 1 ELSE m \div 100
  BY <1>1 DEF NumToKill
<1>5. CASE m \div 100 = 0
  BY <1>4, <1>5
<1>6. CASE m \div 100 # 0
  BY <1>2, <1>3, <1>4, <1>6
<1>7. QED
  BY <1>5, <1>6

(* A pod that comes up or goes changes the number of those up by one.       *)
LEMMA OnePodChanges ==
  ASSUME TypeOK, NEW q \in Pod, NEW state, pod' = [pod EXCEPT ![q] = state]
  PROVE  /\ state = "up" => Up' = Up \cup {q}
         /\ state # "up" => Up' = Up \ {q}
BY DEF TypeOK, Up

(* What others bring down is taken off what an execution found up.          *)
LEMMA LostToTyped ==
  ASSUME TypeOK, NEW S, LostTo(S)
  PROVE  /\ view' \in [Run -> [up : Int, listed : 1 .. Cardinality(Pod)] \cup {NoView}]
         /\ \A s \in Run : view'[s] # NoView =>
               /\ view[s] # NoView /\ view'[s].listed = view[s].listed
               /\ view'[s].up = IF s \in S THEN view[s].up - 1 ELSE view[s].up
<1> DEFINE V == [up : Int, listed : 1 .. Cardinality(Pod)]
<1>1. \A s \in Run : view[s] \in V \cup {NoView}
  BY DEF TypeOK
<1>2. \A v \in V : /\ [v EXCEPT !.up = @ - 1] \in V
                   /\ [v EXCEPT !.up = @ - 1].listed = v.listed
                   /\ [v EXCEPT !.up = @ - 1].up = v.up - 1
  OBVIOUS
<1>3. view' = [s \in Run |-> IF s \in S /\ view[s] # NoView
                             THEN [view[s] EXCEPT !.up = @ - 1] ELSE view[s]]
  BY DEF LostTo
<1>4. \A s \in Run : view[s] # NoView => view[s] \in V
  BY <1>1
<1> HIDE DEF V
<1>5. \A s \in Run : view'[s] \in V \cup {NoView}
  BY <1>1, <1>2, <1>3, <1>4
<1>6. view' \in [Run -> V \cup {NoView}]
  BY <1>3, <1>5
<1>7. ASSUME NEW s \in Run, view'[s] # NoView
      PROVE  /\ view[s] # NoView /\ view'[s].listed = view[s].listed
             /\ view'[s].up = IF s \in S THEN view[s].up - 1 ELSE view[s].up
  BY <1>2, <1>3, <1>4, <1>7
<1>8. QED
  BY <1>6, <1>7 DEF V

LEMMA ChaosInit == Init => ChaosInv
<1> SUFFICES ASSUME Init PROVE ChaosInv
  OBVIOUS
<1>1. TypeOK
  <2>1. view \in [Run -> [up : Int, listed : 1 .. Cardinality(Pod)] \cup {NoView}]
    BY DEF Init
  <2>2. errors \in 0 .. MaxErrors
    BY ChaosAssumption DEF Init
  <2>3. /\ pod \in [Pod -> {"unused", "up", "stopping", "gone"}]
        /\ kind \in [Run -> Experiments \cup {"none"}]
        /\ targets \in [Run -> SUBSET Pod]
        /\ monitor \in [Run -> {"none", "watching", "stopped"}]
        /\ stopChan \subseteq {r \in Run : monitor[r] # "none"} /\ killers \subseteq Run
    BY DEF Init
  <2>4. pc \in [Run -> {"idle", "called", "executing", "killing", "waiting", "cleaning"}
                        \cup Ended]
    BY DEF Init
  <2>5. cancelled \in BOOLEAN
    BY DEF Init
  <2>6. QED
    BY <2>1, <2>2, <2>3, <2>4, <2>5 DEF TypeOK
<1>2. SharePending
  BY DEF Init, SharePending
<1>3. KillersKill
  BY DEF Init, KillersKill
<1>4. QED
  BY <1>1, <1>2, <1>3 DEF ChaosInv

-----------------------------------------------------------------------------
(* Steps that change neither pods nor targets.                              *)
LEMMA SharesUnchanged ==
  ASSUME ChaosInv, UNCHANGED <<pod, targets>>,
         \A r \in Run : view'[r] \in {view[r], NoView}
  PROVE  SharePending'
<1>1. Up' = Up
  BY DEF Up
<1>2. QED
  BY <1>1 DEF ChaosInv, SharePending

(* The steps of an execution that neither list nor delete.                  *)
LEMMA ReturnStep ==
  ASSUME ChaosInv, NEW r \in Run, NEW how \in Ended \ {"error"}, Return(r, how),
         UNCHANGED <<pod, cancelled, targets, monitor, stopChan, errors>>
  PROVE  ChaosInv'
<1> USE DEF ChaosInv
<1>1. /\ pc' = [pc EXCEPT ![r] = how]
      /\ kind' = [kind EXCEPT ![r] = "none"]
      /\ view' = [view EXCEPT ![r] = NoView]
      /\ killers' = killers \ {r}
  BY DEF Return, Goto
<1>2. TypeOK'
  BY <1>1 DEF TypeOK
<1>3. SharePending'
  BY <1>1, SharesUnchanged DEF TypeOK
<1>4. KillersKill'
  BY <1>1 DEF KillersKill, TypeOK
<1>5. QED
  BY <1>2, <1>3, <1>4

LEMMA QuietStep ==
  ASSUME ChaosInv, NEW r \in Run,
         \/ Schedule(r) \/ Execute(r) \/ Stress(r) \/ NoPods(r) \/ ListFails(r)
         \/ KillsDone(r) \/ DurationOver(r) \/ MonitorStops(r) \/ Cancel
  PROVE  ChaosInv'
<1> USE DEF ChaosInv
<1>1. UNCHANGED <<pod, targets, view, killers>>
  BY DEF Schedule, Execute, Stress, NoPods, ListFails, KillsDone, DurationOver,
         MonitorStops, Cancel, history
<1>2. SharePending'
  BY <1>1, SharesUnchanged
<1>3. \A s \in Run : pc[s] \in {"killing", "waiting", "cleaning"}
                        => pc'[s] \in {"killing", "waiting", "cleaning"}
  BY DEF Schedule, Execute, Stress, NoPods, ListFails, KillsDone, DurationOver,
         MonitorStops, Cancel, Goto, TypeOK
<1>4. KillersKill'
  BY <1>1, <1>3 DEF KillersKill, TypeOK
<1>5. TypeOK'
  <2>1. CASE Schedule(r)
    BY <2>1 DEF Schedule, Goto, TypeOK, history
  <2>2. CASE Execute(r)
    BY <2>2 DEF Execute, Goto, TypeOK, history
  <2>3. CASE Stress(r) \/ NoPods(r) \/ KillsDone(r)
    BY <2>3 DEF Stress, NoPods, KillsDone, Goto, TypeOK, history, Ended
  <2>4. CASE ListFails(r)
    BY <2>4, ChaosAssumption DEF ListFails, Goto, TypeOK, history, Ended
  <2>5. CASE DurationOver(r)
    BY <2>5 DEF DurationOver, Goto, TypeOK, history
  <2>6. CASE MonitorStops(r)
    BY <2>6 DEF MonitorStops, TypeOK, history
  <2>7. CASE Cancel
    BY <2>7 DEF Cancel, TypeOK, history
  <2>8. QED
    BY <2>1, <2>2, <2>3, <2>4, <2>5, <2>6, <2>7
<1>6. QED
  BY <1>2, <1>4, <1>5

-----------------------------------------------------------------------------
(* The list, and the share of it: nothing is brought down yet.              *)
LEMMA ListStep ==
  ASSUME ChaosInv, NEW r \in Run, ListPods(r)
  PROVE  ChaosInv'
<1> USE DEF ChaosInv
<1> DEFINE n == Cardinality(Listed)
<1>1. n \in 1 .. Cardinality(Pod)
  <2>1. n \in 0 .. Cardinality(Pod)
    BY UpFinite, PodsFinite
  <2>2. n # 0
    BY UpFinite, FS_EmptySet DEF ListPods
  <2>3. QED
    BY <2>1, <2>2, PodsFinite
<1>2. PICK S \in kSubset(NumToKill(n), Listed) : targets' = [targets EXCEPT ![r] = S]
  BY DEF ListPods
<1>3. S \subseteq Pod /\ Cardinality(S) = NumToKill(n)
  BY <1>2, UpFinite DEF kSubset
<1>4. /\ view' = [view EXCEPT ![r] = [up |-> Cardinality(Up), listed |-> n]]
      /\ pc' = [pc EXCEPT ![r] = "killing"]
      /\ UNCHANGED <<pod, cancelled, kind, monitor, stopChan, killers, errors>>
  BY DEF ListPods, Goto
<1>5. Up' = Up
  BY <1>4 DEF Up
<1> HIDE DEF n
<1>6. TypeOK'
  <2>1. [up |-> Cardinality(Up), listed |-> n]
          \in [up : Int, listed : 1 .. Cardinality(Pod)]
    BY <1>1, UpFinite, PodsFinite
  <2>2. view' \in [Run -> [up : Int, listed : 1 .. Cardinality(Pod)] \cup {NoView}]
    BY <1>4, <2>1 DEF TypeOK
  <2>3. QED
    BY <1>2, <1>3, <1>4, <2>2 DEF TypeOK
<1>7. SharePending'
  <2>1. ASSUME NEW s \in Run, view'[s] # NoView
        PROVE  /\ view'[s].listed >= 1
               /\ view'[s].up - Cardinality(Up) + Cardinality(targets'[s])
                     <= NumToKill(view'[s].listed)
    <3>1. CASE s = r
      <4>1. /\ view'[s].up = Cardinality(Up) /\ view'[s].listed = n
            /\ Cardinality(targets'[s]) = NumToKill(n)
        BY <1>2, <1>3, <1>4, <3>1 DEF TypeOK
      <4>2. NumToKill(n) \in Nat
        BY <1>1, ShareIsOneOrLess, PodsFinite
      <4>3. QED
        BY <1>1, <4>1, <4>2, UpFinite
    <3>2. CASE s # r
      <4>1. view'[s] = view[s] /\ targets'[s] = targets[s]
        BY <1>2, <1>4, <3>2 DEF TypeOK
      <4>2. QED
        BY <2>1, <4>1 DEF SharePending
    <3>3. QED
      BY <3>1, <3>2
  <2>2. QED
    BY <1>5, <2>1 DEF SharePending
<1>8. KillersKill'
  BY <1>4, <1>5 DEF KillersKill, TypeOK
<1>9. QED
  BY <1>6, <1>7, <1>8

(* A target less, and perhaps a pod less: the sum stays within the share.   *)
LEMMA KillStep ==
  ASSUME ChaosInv, NEW r \in Run, NEW q \in targets[r], BringDown(r, q),
         pc[r] = "killing", targets' = [targets EXCEPT ![r] = @ \ {q}],
         errors' \in 0 .. MaxErrors,
         UNCHANGED <<cancelled, kind, pc, monitor, stopChan>>
  PROVE  ChaosInv'
<1> USE DEF ChaosInv
<1>0. q \in Pod /\ targets[r] \subseteq Pod
  BY DEF TypeOK
<1>1. CASE pod[q] # "up"
  <2>1. pod' = pod /\ view' = view /\ killers' = killers
    BY <1>1 DEF BringDown, TypeOK
  <2>2. TypeOK'
    BY <2>1 DEF TypeOK
  <2>3. Up' = Up
    BY <2>1 DEF Up
  <2>4. \A s \in Run : Cardinality(targets'[s]) <= Cardinality(targets[s])
    <3>1. ASSUME NEW s \in Run PROVE Cardinality(targets'[s]) <= Cardinality(targets[s])
      <4>1. targets'[s] \in SUBSET targets[s] /\ targets[s] \subseteq Pod
        BY DEF TypeOK
      <4>2. QED
        BY <4>1, PodsFinite, FS_Subset
    <3>2. QED
      BY <3>1
  <2>5. SharePending'
    <3>1. ASSUME NEW s \in Run, view[s] # NoView
          PROVE  /\ view[s].listed >= 1
                 /\ view[s].up - Cardinality(Up) + Cardinality(targets'[s])
                       <= NumToKill(view[s].listed)
      <4>1. /\ Cardinality(targets'[s]) \in Nat /\ Cardinality(targets[s]) \in Nat
            /\ view[s].up \in Int /\ view[s].listed \in Nat
        BY <2>2, <3>1, PodsFinite DEF TypeOK
      <4>2. NumToKill(view[s].listed) \in Nat
        BY <4>1, ShareIsOneOrLess
      <4>3. /\ view[s].listed >= 1 /\ Cardinality(targets'[s]) <= Cardinality(targets[s])
            /\ view[s].up - Cardinality(Up) + Cardinality(targets[s])
                  <= NumToKill(view[s].listed)
        BY <2>4, <3>1 DEF SharePending
      <4>4. QED
        BY <4>1, <4>2, <4>3, UpFinite
    <3>2. QED
      BY <2>1, <2>3, <3>1 DEF SharePending
  <2>6. KillersKill'
    BY <2>1, <2>3 DEF KillersKill
  <2>7. QED
    BY <2>2, <2>5, <2>6
<1>2. CASE pod[q] = "up"
  <2>1. /\ pod' = [pod EXCEPT ![q] = "stopping"] /\ killers' = killers \cup {r}
        /\ LostTo(Run \ {r})
    BY <1>0, <1>2 DEF BringDown, TypeOK
  <2>2. TypeOK'
    BY <2>1, LostToTyped DEF TypeOK
  <2>3. Up' = Up \ {q} /\ q \in Up
    BY <1>0, <1>2, <2>1, OnePodChanges DEF Up
  <2>4. Cardinality(Up') = Cardinality(Up) - 1
    BY <2>3, UpFinite, FS_RemoveElement
  <2>5. Cardinality(targets'[r]) = Cardinality(targets[r]) - 1
    <3>1. targets'[r] = targets[r] \ {q} /\ IsFiniteSet(targets[r])
      BY <1>0, PodsFinite DEF TypeOK
    <3>2. QED
      BY <3>1, FS_RemoveElement
  <2>6. SharePending'
    <3>1. ASSUME NEW s \in Run, view'[s] # NoView
          PROVE  /\ view'[s].listed >= 1
                 /\ view'[s].up - Cardinality(Up') + Cardinality(targets'[s])
                       <= NumToKill(view'[s].listed)
      <4>1. /\ view[s] # NoView /\ view'[s].listed = view[s].listed
            /\ view'[s].up = IF s = r THEN view[s].up ELSE view[s].up - 1
        BY <2>1, <3>1, LostToTyped
      <4>2. /\ Cardinality(targets[s]) \in Nat
            /\ view[s].up \in Int /\ view[s].listed \in Nat
        BY <4>1, PodsFinite DEF TypeOK
      <4>3. Cardinality(targets'[s]) = IF s = r THEN Cardinality(targets[s]) - 1
                                                ELSE Cardinality(targets[s])
        BY <2>5 DEF TypeOK
      <4>4. NumToKill(view[s].listed) \in Nat
        BY <4>2, ShareIsOneOrLess
      <4>5. /\ view[s].listed >= 1
            /\ view[s].up - Cardinality(Up) + Cardinality(targets[s])
                  <= NumToKill(view[s].listed)
        BY <4>1 DEF SharePending
      <4>6. QED
        BY <2>4, <4>1, <4>2, <4>3, <4>4, <4>5, UpFinite
    <3>2. QED
      BY <3>1 DEF SharePending
  <2>7. KillersKill'
    BY <2>1, <2>4, UpFinite, PodsFinite DEF KillersKill
  <2>8. QED
    BY <2>2, <2>6, <2>7
<1>3. QED
  BY <1>1, <1>2

(* A target less that was not brought down.                                 *)
LEMMA KillFailsStep ==
  ASSUME ChaosInv, NEW r \in Run, KillFails(r)
  PROVE  ChaosInv'
<1> USE DEF ChaosInv
<1>1. PICK q \in targets[r] : targets' = [targets EXCEPT ![r] = @ \ {q}]
  BY DEF KillFails
<1>2. UNCHANGED <<pod, cancelled, kind, pc, monitor, stopChan, view, killers>>
  BY DEF KillFails, history
<1>3. TypeOK'
  BY <1>1, <1>2, ChaosAssumption DEF KillFails, TypeOK
<1>4. Up' = Up
  BY <1>2 DEF Up
<1>5. \A s \in Run : /\ Cardinality(targets'[s]) <= Cardinality(targets[s])
                     /\ Cardinality(targets'[s]) \in Nat /\ Cardinality(targets[s]) \in Nat
  <2>1. ASSUME NEW s \in Run
        PROVE  /\ Cardinality(targets'[s]) <= Cardinality(targets[s])
               /\ Cardinality(targets'[s]) \in Nat /\ Cardinality(targets[s]) \in Nat
    <3>1. targets'[s] \in SUBSET targets[s] /\ targets[s] \subseteq Pod
      BY <1>1 DEF TypeOK
    <3>2. IsFiniteSet(targets[s])
      BY <3>1, PodsFinite
    <3>3. QED
      BY <3>1, <3>2, FS_Subset, FS_CardinalityType
  <2>2. QED
    BY <2>1
<1>6. SharePending'
  <2>1. ASSUME NEW s \in Run, view[s] # NoView
        PROVE  /\ view[s].listed >= 1
               /\ view[s].up - Cardinality(Up) + Cardinality(targets'[s])
                     <= NumToKill(view[s].listed)
    <3>1. view[s].up \in Int /\ view[s].listed \in Nat
      BY <2>1, PodsFinite DEF TypeOK
    <3>2. NumToKill(view[s].listed) \in Nat
      BY <3>1, ShareIsOneOrLess
    <3>3. QED
      BY <1>5, <2>1, <3>1, <3>2, UpFinite DEF SharePending
  <2>2. QED
    BY <1>2, <1>4, <2>1 DEF SharePending
<1>7. KillersKill'
  BY <1>2, <1>4 DEF KillersKill
<1>8. QED
  BY <1>3, <1>6, <1>7

-----------------------------------------------------------------------------
(* The rest of the cluster.  A pod that starts can only help; one that is   *)
(* lost is no execution's.                                                  *)
LEMMA PodStep ==
  ASSUME ChaosInv, NEW q \in Pod, PodStarts(q) \/ PodGone(q) \/ PodLost(q)
  PROVE  ChaosInv'
<1> USE DEF ChaosInv
<1>1. KillersKill'
  BY DEF PodStarts, PodGone, PodLost, history, KillersKill
<1>2. TypeOK'
  BY ChaosAssumption, LostToTyped DEF PodStarts, PodGone, PodLost, history, TypeOK
<1>3. CASE PodStarts(q)
  <2>1. /\ Up' = Up \cup {q} /\ q \notin Up
        /\ Cardinality(Up) < Replicas /\ UNCHANGED <<targets, view>>
    BY <1>3, OnePodChanges DEF PodStarts, history, Up
  <2>2. Cardinality(Up') = Cardinality(Up) + 1
    BY <2>1, UpFinite, FS_AddElement
  <2>3. SharePending'
    <3>1. ASSUME NEW s \in Run, view[s] # NoView
          PROVE  /\ view[s].listed >= 1
                 /\ view[s].up - Cardinality(Up') + Cardinality(targets[s])
                       <= NumToKill(view[s].listed)
      <4>1. /\ view[s].up \in Int /\ view[s].listed \in Nat
            /\ Cardinality(targets[s]) \in Nat
        BY <3>1, PodsFinite DEF TypeOK
      <4>2. NumToKill(view[s].listed) \in Nat
        BY <4>1, ShareIsOneOrLess
      <4>3. QED
        BY <2>2, <3>1, <4>1, <4>2, UpFinite DEF SharePending
    <3>2. QED
      BY <2>1, <3>1 DEF SharePending
  <2>4. QED
    BY <1>1, <1>2, <2>3
<1>4. CASE PodGone(q)
  <2>1. Up' = Up /\ UNCHANGED <<targets, view>>
    BY <1>4 DEF PodGone, history, Up, TypeOK
  <2>2. QED
    BY <1>1, <1>2, <2>1 DEF SharePending
<1>5. CASE PodLost(q)
  <2>0. pod' = [pod EXCEPT ![q] = "gone"] /\ pod[q] = "up" /\ LostTo(Run) /\ targets' = targets
    BY <1>5 DEF PodLost
  <2>1. Up' = Up \ {q} /\ q \in Up
    BY <2>0 DEF Up, TypeOK
  <2>2. Cardinality(Up') = Cardinality(Up) - 1
    BY <2>1, UpFinite, FS_RemoveElement
  <2>3. SharePending'
    <3>1. ASSUME NEW s \in Run, view'[s] # NoView
          PROVE  /\ view'[s].listed >= 1
                 /\ view'[s].up - Cardinality(Up') + Cardinality(targets[s])
                       <= NumToKill(view'[s].listed)
      <4>1. /\ view[s] # NoView /\ view'[s].listed = view[s].listed
            /\ view'[s].up = view[s].up - 1
        BY <2>0, <3>1, LostToTyped
      <4>2. /\ Cardinality(targets[s]) \in Nat
            /\ view[s].up \in Int /\ view[s].listed \in Nat
        BY <4>1, PodsFinite DEF TypeOK
      <4>3. NumToKill(view[s].listed) \in Nat
        BY <4>2, ShareIsOneOrLess
      <4>4. /\ view[s].listed >= 1
            /\ view[s].up - Cardinality(Up) + Cardinality(targets[s])
                  <= NumToKill(view[s].listed)
        BY <4>1 DEF SharePending
      <4>5. QED
        BY <2>2, <4>1, <4>2, <4>3, <4>4, UpFinite
    <3>2. QED
      BY <2>0, <3>1 DEF SharePending
  <2>4. QED
    BY <1>1, <1>2, <2>3
<1>6. QED
  BY <1>3, <1>4, <1>5

LEMMA ChaosInductive ==
  ASSUME ChaosInv, [Next]_vars
  PROVE  ChaosInv'
<1>1. ASSUME NEW r \in Run, Skip(r) \/ WaitCancelled(r) \/ CleanUp(r)
      PROVE  ChaosInv'
  BY <1>1, ReturnStep DEF Skip, WaitCancelled, CleanUp, Ended
<1>2. ASSUME NEW r \in Run,
             \/ Schedule(r) \/ Execute(r) \/ Stress(r) \/ NoPods(r) \/ ListFails(r)
             \/ KillsDone(r) \/ DurationOver(r) \/ MonitorStops(r) \/ Cancel
      PROVE  ChaosInv'
  BY <1>2, QuietStep
<1>3. ASSUME NEW r \in Run, KillPod(r) \/ KillAnswerLost(r) PROVE ChaosInv'
  <2>1. /\ pc[r] = "killing" /\ errors' \in 0 .. MaxErrors
        /\ UNCHANGED <<cancelled, kind, pc, monitor, stopChan>>
    BY <1>3, ChaosAssumption DEF KillPod, KillAnswerLost, ChaosInv, TypeOK
  <2>2. PICK q \in targets[r] : BringDown(r, q) /\ targets' = [targets EXCEPT ![r] = @ \ {q}]
    BY <1>3 DEF KillPod, KillAnswerLost
  <2>3. QED
    BY <2>1, <2>2, KillStep
<1>4. ASSUME Cancel PROVE ChaosInv'
  <2>1. UNCHANGED <<pod, targets, view, killers, pc, kind, monitor, stopChan, errors>>
        /\ cancelled' = TRUE
    BY <1>4 DEF Cancel, history
  <2>2. QED
    BY <2>1, SharesUnchanged DEF ChaosInv, TypeOK, KillersKill
<1>5. CASE UNCHANGED vars
  <2>1. UNCHANGED <<pod, cancelled, targets, view, killers, pc, kind, monitor, stopChan, errors>>
    BY <1>5 DEF vars
  <2>2. QED
    BY <2>1, SharesUnchanged DEF ChaosInv, TypeOK, KillersKill
<1>6. QED
  BY <1>1, <1>2, <1>3, <1>4, <1>5, ListStep, KillFailsStep, PodStep
     DEF Next, Experiment

LEMMA ChaosAlways == Spec => []ChaosInv
<1>1. ChaosInv /\ [Next]_vars => ChaosInv'
  BY ChaosInductive
<1>2. QED
  BY ChaosInit, <1>1, PTL DEF Spec

(* Every variable has its type: no list is empty, and no stopChan is closed *)
(* without a monitor.                                                       *)
THEOREM TypeCorrect == Spec => []TypeOK
<1>1. ChaosInv => TypeOK
  BY DEF ChaosInv
<1>2. QED
  BY <1>1, ChaosAlways, PTL

(* A pod-kill costs the service one pod, or no more than its percentage of  *)
(* the pods it listed, however its deletions fail or their answers are      *)
(* lost, and whatever other executions bring down meanwhile.                *)
THEOREM ShareIsKept == Spec => []CostsOnlyItsShare
<1>1. ChaosInv => CostsOnlyItsShare
  <2> SUFFICES ASSUME ChaosInv, NEW r \in Run, view[r] # NoView
               PROVE  LET cost == view[r].up - Cardinality(Up)
                      IN  cost <= 1 \/ cost * 100 <= Percentage * view[r].listed
    BY DEF CostsOnlyItsShare
  <2>1. PICK u \in Int, n \in Nat : view[r].up = u /\ view[r].listed = n
    BY PodsFinite DEF ChaosInv, TypeOK
  <2>2. Cardinality(targets[r]) \in Nat
    BY PodsFinite DEF ChaosInv, TypeOK
  <2>3. PICK cost \in Int : cost = u - Cardinality(Up)
    BY UpFinite
  <2>4. cost <= NumToKill(n) /\ NumToKill(n) \in Nat
    BY <2>1, <2>2, <2>3, UpFinite, ShareIsOneOrLess DEF ChaosInv, SharePending
  <2>5. CASE NumToKill(n) = 1
    BY <2>1, <2>3, <2>4, <2>5
  <2>6. CASE NumToKill(n) * 100 <= Percentage * n
    <3>1. PICK m \in Int : m = Percentage * n
      BY ChaosAssumption
    <3>2. cost * 100 <= m
      BY <2>4, <2>6, <3>1
    <3>3. QED
      BY <2>1, <2>3, <3>1, <3>2
  <2>7. QED
    BY <2>5, <2>6, ShareIsOneOrLess
<1>2. QED
  BY <1>1, ChaosAlways, PTL

(* An execution that ends in an error of its own has brought no pod down,   *)
(* so that it may be tried again.                                           *)
THEOREM FailedKilledNothing == Spec => []FailureKillsNothing
<1>1. ChaosInv => FailureKillsNothing
  BY DEF ChaosInv, KillersKill, FailureKillsNothing
<1>2. QED
  BY <1>1, ChaosAlways, PTL
=============================================================================
