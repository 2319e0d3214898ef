---------------------------- MODULE ChaosEngineer ----------------------------
(***************************************************************************)
(* Chaos experiments on the pods of the cache server                       *)
(* (internal/chaos/engineer.go): executeExperiment, the pods it kills, and *)
(* the health monitor goroutine it leaves running beside it.               *)
(*                                                                         *)
(* The scheduler, getTargetPods and cleanupExperiment are not in the       *)
(* repository: the scheduler may start any loaded experiment at any time,  *)
(* so that executions overlap; the list holds what Kubernetes lists.       *)
(* checkHealth answers true always, so that no rollback is ever called.    *)
(***************************************************************************)
EXTENDS Integers, FiniteSets, FiniteSetsExt

CONSTANTS
    Run,        \* executions of experiments
    Pod,        \* names of pods; Kubernetes gives none to two pods
    Deployed,   \* the pods running at first, as many as the deployment asks for
    Percentage, \* Target.Percentage of the pod-kill experiment
    MaxErrors   \* bound on failing calls to Kubernetes and on pods lost otherwise

ASSUME ChaosAssumption ==
    /\ IsFiniteSet(Pod)
    /\ Deployed \subseteq Pod
    /\ Percentage \in 0 .. 100
    /\ MaxErrors \in Nat

(* spec.replicas of the deployment *)
Replicas == Cardinality(Deployed)

VARIABLES
    pod,        \* pod[q]: "unused", "up", "stopping" or "gone"
    cancelled,  \* the context of Start is done
    kind,       \* kind[r]: the experiment r executes
    pc,         \* pc[r]: where r is, or how it ended
    targets,    \* targets[r]: pods[i:numToKill], those r has still to delete
    monitor,    \* monitor[r]: r's health monitor goroutine
    stopChan,   \* the executions whose stopChan is closed
    view,       \* view[r]: the pods up when r listed them, less those that
                \* others brought down since, and those listed   (history)
    killers,    \* executions that brought a pod down           (history)
    errors      \* failures so far

vars == <<pod, cancelled, kind, pc, targets, monitor, stopChan,
          view, killers, errors>>
history == <<view, killers>>

(* LoadExperiments: "stress" stands for network-delay, cpu-stress and       *)
(* memory-stress, whose executors do nothing but log.  Only pod-kill has    *)
(* Rollback.Enabled.                                                        *)
Experiments == {"pod-kill", "stress"}
RollbackEnabled == {"pod-kill"}

NoView == [up |-> 0, listed |-> 0]
Ended == {"skipped", "ok", "error", "cancelled"}
Up == {q \in Pod : pod[q] = "up"}
Listed == {q \in Pod : pod[q] \in {"up", "stopping"}}

NumToKill(n) == LET share == (n * Percentage) \div 100
                IN  IF share = 0 THEN 1 ELSE share

Init ==
    /\ pod = [q \in Pod |-> IF q \in Deployed THEN "up" ELSE "unused"]
    /\ cancelled = FALSE
    /\ kind = [r \in Run |-> "none"]
    /\ pc = [r \in Run |-> "idle"]
    /\ targets = [r \in Run |-> {}]
    /\ monitor = [r \in Run |-> "none"]
    /\ stopChan = {}
    /\ view = [r \in Run |-> NoView]
    /\ killers = {}
    /\ errors = 0

-----------------------------------------------------------------------------
(* executeExperiment                                                        *)

Goto(r, where) == pc' = [pc EXCEPT ![r] = where]

(* executeExperiment returns nil or ctx.Err(): what is known of r is of no  *)
(* use any more.                                                            *)
Return(r, how) ==
    /\ Goto(r, how)
    /\ kind' = [kind EXCEPT ![r] = "none"]
    /\ view' = [view EXCEPT ![r] = NoView]
    /\ killers' = killers \ {r}

(* The scheduler calls executeExperiment.                                   *)
Schedule(r) ==
    /\ pc[r] = "idle"
    /\ \E e \in Experiments : kind' = [kind EXCEPT ![r] = e]
    /\ Goto(r, "called")
    /\ UNCHANGED <<pod, cancelled, targets, monitor, stopChan, history, errors>>

(* rand.Float64() > experiment.Probability                                  *)
Skip(r) ==
    /\ pc[r] = "called"
    /\ Return(r, "skipped")
    /\ UNCHANGED <<pod, cancelled, targets, monitor, stopChan, errors>>

(* The monitor starts before the experiment.                                *)
Execute(r) ==
    /\ pc[r] = "called"
    /\ Goto(r, "executing")
    /\ monitor' = [monitor EXCEPT ![r] =
                     IF kind[r] \in RollbackEnabled THEN "watching" ELSE @]
    /\ UNCHANGED <<pod, cancelled, kind, targets, stopChan, history, errors>>

(* executeNetworkDelay-, CPUStress- and MemoryStressExperiment              *)
Stress(r) ==
    /\ pc[r] = "executing" /\ kind[r] = "stress"
    /\ Goto(r, "waiting")
    /\ UNCHANGED <<pod, cancelled, kind, targets, monitor, stopChan, history, errors>>

(* executePodKillExperiment: the list, and the first numToKill of a shuffle.*)
ListPods(r) ==
    /\ pc[r] = "executing" /\ kind[r] = "pod-kill"
    /\ ~cancelled /\ Listed # {}
    /\ LET n == Cardinality(Listed) IN
       /\ \E S \in kSubset(NumToKill(n), Listed) : targets' = [targets EXCEPT ![r] = S]
       /\ view' = [view EXCEPT ![r] = [up |-> Cardinality(Up), listed |-> n]]
    /\ Goto(r, "killing")
    /\ UNCHANGED <<pod, cancelled, kind, monitor, stopChan, killers, errors>>

(* "no target pods found": the error returns, the monitor is not stopped.   *)
NoPods(r) ==
    /\ pc[r] = "executing" /\ kind[r] = "pod-kill" /\ Listed = {}
    /\ Goto(r, "error")
    /\ UNCHANGED <<pod, cancelled, kind, targets, monitor, stopChan, history, errors>>

(* The list fails, always so on a context that is done.                     *)
ListFails(r) ==
    /\ pc[r] = "executing" /\ kind[r] = "pod-kill"
    /\ cancelled \/ errors < MaxErrors
    /\ errors' = IF cancelled THEN errors ELSE errors + 1
    /\ Goto(r, "error")
    /\ UNCHANGED <<pod, cancelled, kind, targets, monitor, stopChan, history>>

(* A pod goes that those of S have not brought down.                        *)
LostTo(S) ==
    view' = [s \in Run |-> IF s \in S /\ view[s] # NoView
                           THEN [view[s] EXCEPT !.up = @ - 1] ELSE view[s]]

(* Pods(...).Delete takes effect on q.  It is by name: a pod that is gone   *)
(* by now, or is stopping already, is not brought down twice.               *)
BringDown(r, q) ==
    /\ pod' = [pod EXCEPT ![q] = IF @ = "up" THEN "stopping" ELSE @]
    /\ killers' = IF pod[q] = "up" THEN killers \cup {r} ELSE killers
    /\ IF pod[q] = "up" THEN LostTo(Run \ {r}) ELSE UNCHANGED view

KillPod(r) ==
    /\ pc[r] = "killing" /\ ~cancelled
    /\ \E q \in targets[r] :
          /\ BringDown(r, q)
          /\ targets' = [targets EXCEPT ![r] = @ \ {q}]
    /\ UNCHANGED <<cancelled, kind, pc, monitor, stopChan, errors>>

(* Mutant: another pod is taken for the one that could not be deleted.      *)
KillAnswerLostRetried(r) ==
    /\ pc[r] = "killing" /\ ~cancelled /\ errors < MaxErrors
    /\ \E q \in targets[r], other \in Listed \ targets[r] :
          /\ BringDown(r, q)
          /\ targets' = [targets EXCEPT ![r] = (@ \ {q}) \cup {other}]
    /\ errors' = errors + 1
    /\ UNCHANGED <<cancelled, kind, pc, monitor, stopChan>>

(* The pod is deleted, but the call fails: logged, like the next one.       *)
KillAnswerLost(r) ==
    /\ pc[r] = "killing" /\ ~cancelled /\ errors < MaxErrors
    /\ \E q \in targets[r] :
          /\ BringDown(r, q)
          /\ targets' = [targets EXCEPT ![r] = @ \ {q}]
    /\ errors' = errors + 1
    /\ UNCHANGED <<cancelled, kind, pc, monitor, stopChan>>

(* Mutant: the first deletion that fails is returned as the experiment's.   *)
KillFailsExperiment(r) ==
    /\ pc[r] = "killing"
    /\ cancelled \/ errors < MaxErrors
    /\ errors' = IF cancelled THEN errors ELSE errors + 1
    /\ targets[r] # {}
    /\ targets' = [targets EXCEPT ![r] = {}]
    /\ Goto(r, "error")
    /\ UNCHANGED <<pod, cancelled, kind, monitor, stopChan, history>>

(* A deletion that fails is logged and passed over.                         *)
KillFails(r) ==
    /\ pc[r] = "killing"
    /\ cancelled \/ errors < MaxErrors
    /\ errors' = IF cancelled THEN errors ELSE errors + 1
    /\ \E q \in targets[r] : targets' = [targets EXCEPT ![r] = @ \ {q}]
    /\ UNCHANGED <<pod, cancelled, kind, pc, monitor, stopChan, history>>

KillsDone(r) ==
    /\ pc[r] = "killing" /\ targets[r] = {}
    /\ Goto(r, "waiting")
    /\ UNCHANGED <<pod, cancelled, kind, targets, monitor, stopChan, history, errors>>

(* The wait for the duration: ctx.Done() returns at once, without Stop and  *)
(* without cleanup.                                                         *)
WaitCancelled(r) ==
    /\ pc[r] = "waiting" /\ cancelled
    /\ Return(r, "cancelled")
    /\ UNCHANGED <<pod, cancelled, targets, monitor, stopChan, errors>>

(* Mutant: the monitor is not stopped.                                      *)
DurationOverUnstopped(r) ==
    /\ pc[r] = "waiting"
    /\ Goto(r, "cleaning")
    /\ UNCHANGED <<pod, cancelled, kind, targets, monitor, stopChan, history, errors>>

(* Mutant: Stop is called whether or not there is a monitor.                *)
DurationOverUnguarded(r) ==
    /\ pc[r] = "waiting"
    /\ stopChan' = stopChan \cup {r}
    /\ Goto(r, "cleaning")
    /\ UNCHANGED <<pod, cancelled, kind, targets, monitor, history, errors>>

(* The duration is over: the monitor, if there is one, is told to stop.     *)
DurationOver(r) ==
    /\ pc[r] = "waiting"
    /\ stopChan' = IF monitor[r] = "none" THEN stopChan ELSE stopChan \cup {r}
    /\ Goto(r, "cleaning")
    /\ UNCHANGED <<pod, cancelled, kind, targets, monitor, history, errors>>

(* cleanupExperiment, and nil is returned.                                  *)
CleanUp(r) ==
    /\ pc[r] = "cleaning"
    /\ Return(r, "ok")
    /\ UNCHANGED <<pod, cancelled, targets, monitor, stopChan, errors>>

(* HealthMonitor.Start: a tick finds the service healthy and changes        *)
(* nothing; ctx.Done() or stopChan ends the goroutine.                      *)
MonitorStops(r) ==
    /\ monitor[r] = "watching" /\ (cancelled \/ r \in stopChan)
    /\ monitor' = [monitor EXCEPT ![r] = "stopped"]
    /\ UNCHANGED <<pod, cancelled, kind, pc, targets, stopChan, history, errors>>

Experiment(r) ==
    \/ Skip(r) \/ Execute(r) \/ Stress(r)
    \/ ListPods(r) \/ NoPods(r) \/ ListFails(r)
    \/ KillPod(r) \/ KillAnswerLost(r) \/ KillFails(r) \/ KillsDone(r)
    \/ WaitCancelled(r) \/ DurationOver(r) \/ CleanUp(r)

-----------------------------------------------------------------------------
(* The rest of the cluster.                                                 *)

Cancel ==
    /\ ~cancelled /\ cancelled' = TRUE
    /\ UNCHANGED <<pod, kind, pc, targets, monitor, stopChan, history, errors>>

PodStarts(q) ==
    /\ pod[q] = "unused" /\ Cardinality(Up) < Replicas
    /\ pod' = [pod EXCEPT ![q] = "up"]
    /\ UNCHANGED <<cancelled, kind, pc, targets, monitor, stopChan, history, errors>>

PodGone(q) ==
    /\ pod[q] = "stopping"
    /\ pod' = [pod EXCEPT ![q] = "gone"]
    /\ UNCHANGED <<cancelled, kind, pc, targets, monitor, stopChan, history, errors>>

(* A node fails, or the deployment is scaled down.                          *)
PodLost(q) ==
    /\ pod[q] = "up" /\ errors < MaxErrors
    /\ pod' = [pod EXCEPT ![q] = "gone"]
    /\ errors' = errors + 1
    /\ LostTo(Run)
    /\ UNCHANGED <<cancelled, kind, pc, targets, monitor, stopChan, killers>>

Next ==
    \/ \E r \in Run : Schedule(r) \/ Experiment(r) \/ MonitorStops(r)
    \/ Cancel
    \/ \E q \in Pod : PodStarts(q) \/ PodGone(q) \/ PodLost(q)

(* Goroutines are scheduled, calls to Kubernetes return and the timer of    *)
(* the duration fires.  Nothing else is fair.                               *)
Spec ==
    /\ Init /\ [][Next]_vars
    /\ \A r \in Run : WF_vars(Experiment(r)) /\ WF_vars(MonitorStops(r))

-----------------------------------------------------------------------------
TypeOK ==
    /\ pod \in [Pod -> {"unused", "up", "stopping", "gone"}]
    /\ cancelled \in BOOLEAN
    /\ kind \in [Run -> Experiments \cup {"none"}]
    /\ pc \in [Run -> {"idle", "called", "executing", "killing", "waiting", "cleaning"}
                      \cup Ended]
    /\ targets \in [Run -> SUBSET Pod]
    /\ monitor \in [Run -> {"none", "watching", "stopped"}]
    /\ stopChan \subseteq {r \in Run : monitor[r] # "none"}
    /\ view \in [Run -> [up : Int, listed : 1 .. Cardinality(Pod)] \cup {NoView}]
    /\ killers \subseteq Run
    /\ errors \in 0 .. MaxErrors

(* A pod-kill costs the service no more than the percentage asked for, or   *)
(* one pod: as many as were up when it listed them, but for those and for   *)
(* what others brought down since, are up or replaced at every moment, with *)
(* whatever answers of Kubernetes are lost.  This holds of executions that  *)
(* overlap and whose lists share pods, too: each answers for its own share. *)
CostsOnlyItsShare ==
    \A r \in {s \in Run : view[s] # NoView} :
       LET cost == view[r].up - Cardinality(Up)
       IN  cost <= 1 \/ cost * 100 <= Percentage * view[r].listed

(* An execution that returns an error of its own, for which the scheduler   *)
(* may try it again, has brought no pod down: deletions that fail are not   *)
(* reported.                                                                *)
FailureKillsNothing ==
    \A r \in Run : pc[r] = "error" => r \notin killers

(* Every execution ends, and with it its health monitor, unless it ended in *)
(* an error: then the monitor stays until the context of Start is done.     *)
ExperimentsEnd ==
    \A r \in Run :
       pc[r] = "called" ~> /\ pc[r] \in Ended
                           /\ monitor[r] # "watching" \/ (pc[r] = "error" /\ ~cancelled)
=============================================================================
