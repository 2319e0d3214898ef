# Verification of the distributed build cache

TLA+ models, TLC runs and TLAPS proofs for the remote build cache in `src/`: a
gRPC server with several replicas, one Cloud Storage bucket that holds the
artifacts, and two pruners that delete from it.  The code is the reference;
where a doc or a comment promises more than the code does, a run shows it
(section *Findings*).

Contents: 1 the system · 2 plan · 3 modules and code · 4 runs · 5 fairness ·
6 proofs · 7 findings · 8 assumptions and abstractions · 9 not modelled

## 1. The system

Everything that several actors share is in **one bucket**.  The replicas keep
no artifact in memory and do not talk to each other.

| Component | State it keeps | Operations | Interacts with |
|---|---|---|---|
| gRPC `Put` (`pkg/grpc/server/cache_server.go:116-235`, `internal/cache/service.go:113-163`) | per call: stream context, pipe, `errChan`, storage writer | receive, pipe, copy, commit, answer | its own pump goroutine, the client, the bucket |
| gRPC `Get`, `Contains` (`cache_server.go:53-113, 238-271`, `service.go:69-111`) | per call: attributes, storage reader | look up, open, stream, report | the bucket, against Puts and deletions |
| In-server pruner (`internal/pruning/service.go`), one per replica | `entries`, `candidates`, `bytesToRemove` of one cycle | measure, list, select, delete | the bucket, the pruners of other replicas, clients |
| External pruner (`pruning-service/`), a CronJob | `objects`, `totalBytes`, `threshold` of one job | list, sort, delete | the same bucket |
| Server process (`cmd/cache-server/main.go`) | gRPC server, signal channel, `done` | serve, announce, stop, time out | ends every goroutine of its replica |
| Optimisation advisor (`internal/ai/intelligence.go`) | accuracy counters in memory; recommendations and learning data in Redis | analyse, store, apply, learn | Redis, concurrent callers |
| Anomaly and demand prediction (`internal/ai/predictor.go`) | model parameters | predict, detect | Vertex AI |
| Access predictor (`internal/ml/predictor.go`) | `accessPatterns` under a mutex; `weights` and `model` under none | record, persist, train, predict | Redis, by goroutines it starts |
| Cost optimizer (`internal/cost/optimizer.go`) | strategies, `savingsAchieved` | run strategies and their actions every six hours | the metrics collector |
| Chaos engineer (`internal/chaos/engineer.go`) | per execution: the pods still to delete, a health monitor goroutine and its `stopChan` | list pods, delete them, wait, stop the monitor | Kubernetes, other executions |
| Tiered cache (`internal/cache/enhanced_service.go`) | levels, deduplication index | Get, Put over the levels | not wired into `main` |
| Security, configuration, metrics, interceptors, deployment | see section 9 | | |

What is hard, and what correctness means, per component:

* **Put** is two goroutines.  The pump (`cache_server.go:144-181`) moves the
  stream into a pipe; the handler copies the pipe into a storage writer, closes
  the writer, *which makes the object visible*, and only then asks the pump how
  the stream ended.  Cancellation, a broken stream, a failing or unanswered
  storage call and the death of the process can fall between any two of these
  steps.  Correct: an acknowledged artifact is stored whole; nothing
  partial becomes visible; a Put takes effect at most once and atomically; the
  handler returns; no pump is left behind without need.
* **Get** and **Contains** read an object in two calls (attributes, then a
  reader) between which it may be replaced or deleted.  Correct: what is
  delivered is one whole artifact, of the announced size unless it was replaced
  just there; an existence flag belongs to the digest it was asked for; every call
  returns.
* **Selection** is three loops, the second of which removes from the slice it
  ranges over.  Correct: enough but not too much is selected, nothing twice,
  recent entries last.
* **Pruning cycles** of several replicas overlap, each acting on what it
  measured and listed before.  Correct: the cache comes down to its limit and
  pruning stops at its target.
* **The external pruner** deletes by name, on old attributes, a bucket others
  change, and may be killed and restarted.  Correct: what it reports is safe,
  it deletes only what is old enough in the listing and, but for what others took
  meanwhile, only what is needed; the bucket comes down.
* **A chaos experiment** deletes pods from a list that ages while it works, beside
  other executions.  Correct: it costs the service its own share and no more; a
  failed one has cost nothing; its monitor ends with it, unless it failed.
* **The advisor** counts feedback without a lock and names what it stores after
  the second.  Correct: counters are never ahead of the feedback, and only calls
  that race are lost; acknowledged feedback is stored or replaced by another of its
  second; a recommendation does not outlive its validity by more than its way to
  Redis.
* **The access predictor** leaves goroutines behind that persist without the lock,
  and replaces weights and model without one.  Correct: when a key is quiet, Redis
  knows its count; who finds a trained model ranks with its weights.
* **The process** stops gracefully against a timeout.  Correct: a graceful stop
  cuts no call, a forced one leaves nothing torn, and the process ends.

`PROJECT.json` lists every hazard at its line, with the properties that cover
it or the reason why none does yet.

## 2. Plan

Modelled, in this order: the abstract `ArtifactStore`; `PutStream` and
`PutStreamProofs`; `CacheServer`; `PruneSelection`, its closed form
`SelectionContract`, and `PruningService` on top of it; `GcsPruner`;
`ServerLifecycle`; `ChaosEngineer`; `Intelligence`; `AccessPredictor`.

`CostOptimizer`, once planned, was dropped: a cycle panics before it does
anything (section 9).  Of the planned `KeySpace`, the round trip of a name from
`List` to `Delete` went into `PruningService` (`Stray`, `Sanitized`), where it
meets the cycles it disturbs; the `CacheSize` gauge is left out.

Proved: every safety invariant, every action property that a passing run checks
and the three refinements of `ArtifactStore` (section 6).  What is left is
liveness, which stays with TLC, and a theorem that no run has a property for: what
a cycle of `PruningService` deletes at most when other replicas do disturb it.

## 3. Modules and code

| Module | Role | State variable ← code |
|---|---|---|
| `ArtifactStore` | abstract: an upload takes effect at once, whole, at most once, before its acknowledgement | what `src/api/proto/buildcache.proto` and the README promise of Put |
| `PutStream` | Put, handler and pump, over the bucket | `handler`/`pump`: program counters of the two goroutines; `errChan`: the channel of capacity 1; `received`, `written`: chunks on the two sides of the pipe; `cancelled`: `stream.Context()`; `pending`: final requests sent by `writer.Close`; `bucket`, `stored`: Cloud Storage; `result`: the gRPC status |
| `CacheServer` | extends `PutStream` with Get and Contains | `announced`: `attrs.Size`; `opened`: readers; `sent`, `found`, `answer`: what the client gets; `replaced`: history |
| `PruneSelection` | `selectEntriesForDeletion`, one iteration per step | `cand`, `live`: backing array and length of `candidates`; `need`: `bytesToRemove`; `toDelete`, `i` |
| `SelectionContract` | its closed form for entries of equal size | |
| `PruningService` | cycles of several replicas, clients, failures, objects no deletion reaches | `need`, `queue`: `bytesToRemove`, `toDelete`; `object`: the class of `last_accessed` |
| `GcsPruner` | the external job against everyone else | `objects`, `totalBytes`, `threshold`: the variables of `Prune`; `bucket[k].updated`: `ObjectAttrs.Updated`; `zeroBatch`: `Config.DeleteBatchSize = 0`; `lost`: history |
| `ServerLifecycle` | extends `PutStream` with the process | `server`: where `main` is; `accepted`: calls accepted |
| `ChaosEngineer` | executions, their monitors, the pods | `pc`: where `executeExperiment` is; `targets`: `pods[i:numToKill]`; `monitor`: the goroutine of `HealthMonitor.Start`; `stopChan`: those closed; `pod`: Kubernetes |
| `Intelligence` | feedback and recommendations over Redis and the clock | `predictions`, `correct`, `accuracy`: `ModelMetrics`; `loaded`: what an increment has read; `learning`, `stored`: Redis; `strayed`, `inflight`: Sets that have not reached it; `recs`: `recommendations`; `raced`: history |
| `AccessPredictor` | accesses, persisting goroutines, training, predictions | `count`: `accessPatterns[k].AccessCount`; `writer`, `readers`: `patternMutex`; `persist`, `copy`: the goroutine of line 135; `saved`: Redis; `weights`, `model`: the training they come from |
| `PutStreamProofs`, `ServerProofs`, `PruneSelectionProofs`, `PruningServiceProofs`, `GcsPrunerProofs`, `ChaosEngineerProofs`, `IntelligenceProofs`, `AccessPredictorProofs` | theorems on the modules above; `ServerProofs` on `CacheServer` and `ServerLifecycle` (section 6) | |

`PutStream` maps onto `ArtifactStore` by `store` ← the whole artifact a name
holds (an object that is not one maps to a value no artifact store holds),
`applied` ← the uploads with a visible commit, `status` ← the answers.
`PutIsAtomic` is `ArtifactStore`'s specification under this map.

`PruningService` does not repeat the loops: it takes from `SelectionContract`
which sets they can select, and when they panic.  The two agree
on every listing (`UnitSelection`, checked by the run `PruneSelection` and
proved for listings of any length by `SelectsAsContracted`).

Actions whose comment begins with *Mutant* are not part of any specification.
Each is the action after it with a plausible mistake; with it in that action's
place, the property named in `PROJECT.json` is violated, which shows that the
property says something about the code.

## 4. Runs

Distinct states are those TLC reports.  Deadlock is not checked where all calls
are finite in number (`PutStream`, `CacheServer`, `ServerLifecycle`), where the
selection or the process ends (`PruneSelection`, `ServerLifecycle`), and where a
quiet system has nothing to do but what it has counted up to its bounds
(`PruningService`, `ChaosEngineer`, `Intelligence`, `AccessPredictor`); it is in
`GcsPruner`.

| Run | Instance | States | Shows |
|---|---|---|---|
| `PutStream` | 2 uploads, 1 name, ≤ 2 chunks, streams that may break | 46 816 | acknowledged means whole; pumps leave; handlers return |
| `CacheServer` | 2 uploads, 1 reader, 2 names, ≤ 1 chunk, ≤ 2 digests, clean streams, artifacts of one name of any sizes | 2.0 M | no truncated object; readers get whole artifacts, announced correctly unless replaced inside the lookup, and return |
| `ServerLifecycle` | 2 uploads, 2 names, ≤ 2 chunks, clean streams | 296 350 | atomic Put through the process's life; graceful and forced stop; the process ends |
| `PruneSelection` | every listing of ≤ 4 entries, 2 sizes, 5 ages, 3 amounts | 539 944 | the selection is enough, minimal, free of duplicates, spares recent entries; its closed form |
| `PruningService` | 2 replicas, 3 objects and perhaps a stray one of any age, limit 2, 1 write, 1 object ageing once, 1 failure | 863 083 | an undisturbed pruner stops at the target; the cache comes down unless every cycle on it panics |
| `GcsPruner` | 3 names, sizes 1 and 2, limit 3, clock ≤ 4, 1 failure, batch size 0 or not | 1.7 M | the reported total is safe; no more is deleted than needed but for what was lost; the bucket comes down |
| `ChaosEngineer` | 2 executions, 3 pods and a replacement, 67 %, 1 failure | 567 189 | a pod-kill costs its own share; a failed one nothing; executions end, with their monitors |
| `Intelligence` | 2 feedbacks, 1 report, window 2, clock ≤ 2, 3 states of the metrics, 1 failed attempt; symmetry | 2.3 M | counters; learning data and recommendations in Redis with Sets that are late, repeated or unanswered |
| `AccessPredictor` | 3 accesses of 2 keys, 1 reader, 2 trainings, 1 failure or restart; symmetry | 301 766 | what Redis holds of a quiet key; weights against model |
| `TornGet`, `OverPruning`, `CrashLoop` | see section 7 | | the three findings |

Why the bounds are enough for the cases of interest:

* *Puts.* Two uploads to one name overlap in every order, and they may belong to
  one replica or two (`Crash` takes any set of calls in flight).  Two chunks give
  an empty artifact, one that breaks before, between and after its chunks, and a
  first message with or without data.
* *Reads.* One reader meets an overwrite, an eviction and a crash between any two
  of its steps; two names and two digests let a Contains flag slip to the wrong
  digest.  One chunk is enough here, because what a reader could see of a Put is
  only what became visible.
* *Selection.* The removal under `range` needs a third entry to skip one, and a
  fourth to skip another; ages 0, 2, 4, 8, 31 take each branch of `shouldDelete`
  for both sizes and the retention period; amounts 1, 3, 5 end the selection in
  each pass.
* *Pruning.* Three objects over a limit of two and a target of one leave room for
  two replicas to interfere; a stray one beside them, recent, old or expired, is
  selected again and again in place of another, and lets the selection panic on
  what another replica left.  An old stray beside three old objects makes every
  cycle panic, which `ShrinksUnlessPanics` names as the one way not to come down;
  one failure is one failed scan, deletion or death at every point.
* *External pruner.* One name can be listed, replaced with another size, accessed
  and deleted by others between any two steps of the job; `MinAge = 1` with a
  clock up to 4 has objects younger than, as old as and older than the threshold.

* *Chaos.* Two executions overlap in every way, a kill of two pods beside another
  one.  The configured 20 % of three pods is less than one, so that a share of two
  needs a larger percentage.  With the replacement a pod can be listed that is
  stopping, and the second list differ from the first.
* *Advisor.* Two increments race; a clock of three seconds lets two feedbacks fall
  into one second or not, and a report end before, at and after the end of its
  window; one failure is one attempt of a Set without an answer, which may land at
  any later time.  Three states of the metrics have a report without
  recommendations, with one, and with two of which one cannot be marshalled; the
  feedbacks are interchangeable.
* *Predictor.* With three accesses of two keys, two goroutines of one key
  race while a third access updates the pattern; with two trainings a reader can
  find the model of the first beside weights of either.  Keys and accesses are
  interchangeable, hence the symmetry; the run has no liveness property.

All constants that only bound the model say so where they are declared:
`MaxChunks`, `MaxDigests`, `MaxEntries`, `MaxWrites`, `MaxAges`, `MaxErrors`,
`MaxTime`, `MaxTrainings`, `Metrics`, `NumKeys`.  `MaxCacheSize`, `MaxTotalBytes`, `MinAge`, `RetentionDays`,
`LargeSize`, `Percentage` and `Window` are values of the code's configuration or source.

## 5. Fairness

* `PutStream`: weak fairness of each handler and of each pump.  Goroutines are
  scheduled, and a client's stream ends, breaks or is cancelled sooner or later
  (`Recv` returns).  Commit and CommitFails together stand for `Close`, which
  returns; cancellation, crashes, evictions and late landings are not fair.
* `CacheServer`: weak fairness of each reader.  Its client takes chunks or goes
  away.  Nothing is asked of the Puts.
* `ServerLifecycle`: weak fairness of `main`'s own steps, its timer among them.
  Nothing is asked of clients, who may hold a stream open for ever, and no
  signal need come: that is why the timeout matters.
* `PruningService`: weak fairness of each pruner: its goroutine runs, its ticker
  fires, Kubernetes restarts a process that ended.  Clients and failures are not
  fair, and bounded: the liveness property speaks of the time after the last of
  them.
* `GcsPruner`: weak fairness of the job: the CronJob starts it every day and its
  process runs.
* `ChaosEngineer`: weak fairness of each execution and of each monitor: goroutines
  are scheduled, calls to Kubernetes return, the timer of the duration fires.
  Kubernetes replaces pods or does not; cancellation, failures and the scheduler
  are not fair.
* `PruneSelection`, `Intelligence` and `AccessPredictor` state no fairness: the runs
  ask for safety only.

## 6. Proofs

All proofs hold for every value of the constants under the named assumptions of
the modules, which say that bounds are natural numbers, that the sets of calls,
replicas, pods and keys counted are finite, and which values are distinct.
TLC evaluates each of them in a run.  Each invariant named below was checked by
TLC on the run of its module before it was proved.

| Theorem | Statement | Holds when |
|---|---|---|
| **`PutStreamProofs`** | | |
| `TypeCorrect` | `Spec => []TypeOK` | always |
| `AckedWhole` | `Spec => []AckedUploadIsWhole` | always, on broken streams too |
| `PumpLeavesPipe` | `Spec => []PumpOutlivesOnlyStorageErrors` | always |
| `WholeObjects` | `Spec => []NoTruncatedObject` | `BadMessages = FALSE` |
| `PutRefinesArtifactStore` | `Spec => PutIsAtomic` | `BadMessages = FALSE` |
| **`ServerProofs`**, on `CacheServer` | | |
| `ReadTypeCorrect` | `CSpec => []ReadTypeOK` | always |
| `AckedBesideReads` | `CSpec => []AckedUploadIsWhole` | always, on broken streams too |
| `WholeObjectsBesideReads` | `CSpec => []NoTruncatedObject` | `BadMessages = FALSE` |
| `ServerRefinesArtifactStore` | `CSpec => PutIsAtomic` | `BadMessages = FALSE` |
| `GetIsWhole` | `CSpec => []GetDeliversWholeArtifact` | `BadMessages = FALSE` |
| `ContainsIsTrue` | `CSpec => []ContainsReportsWholeArtifacts` | `BadMessages = FALSE` |
| `AnnouncedIsSent` | `CSpec => []AnnouncedSizeIsSent` | always, on broken streams too |
| **`ServerProofs`**, on `ServerLifecycle` | | |
| `LTypeCorrect` | `LSpec => []LTypeOK` | always |
| `AckedThroughStop` | `LSpec => []AckedUploadIsWhole` | always, on broken streams too |
| `GracefulCutsNothing` | `LSpec => []GracefulStopCutsNothing` | always |
| `StopIsFinal` | `LSpec => NothingSentAfterStop` (action property) | always |
| `LifecycleRefinesArtifactStore` | `LSpec => PutIsAtomic` | `BadMessages = FALSE` |
| **`PruneSelectionProofs`** | | |
| `TypeCorrect`, `SelectedOnce`, `SelectsEnough`, `SelectsNothingInVain`, `SelectsRecentLast` | `TypeOK`, `NoDuplicates`, `EnoughSelected`, `NothingTakenInVain`, `RecentGoLast` | always |
| `SelectsAsContracted` | `Spec => []UnitSelection`: the loops are `SelectionContract` | always; `UnitSelection` speaks of entries of size 1 |
| **`PruningServiceProofs`** | | |
| `TypeCorrect`, `TargetIsKept` | `TypeOK`; `KeepsTargetAlone` (action property) | always |
| **`GcsPrunerProofs`** | | |
| `TypeCorrect`, `ReportIsSafe` | `TypeOK`, `ReportedTotalIsSafe` | always |
| `DeletesNoMore`, `TriesAllThatIsOld` | `DeletesOnlyOverLimit`, `GivesUpOnlyOnRecent` (action properties) | always |
| **`IntelligenceProofs`** | | |
| `TypeCorrect`, `CountersAreTracked`, `FeedbackIsLearnt`, `OutdatedIsDropped` | `TypeOK`, `CountersTrackFeedback`, `AckedIsLearntOrReplaced`, `OutdatedOnlyIfLate` | always |
| **`AccessPredictorProofs`** | | |
| `TypeCorrect`, `QuietKeysAreSaved`, `RanksWithWeightsOfModel` | `TypeOK`, `QuietKeyIsSaved`, `RanksWithItsModel` | always |
| **`ChaosEngineerProofs`** | | |
| `TypeCorrect`, `ShareIsKept`, `FailedKilledNothing` | `TypeOK`, `CostsOnlyItsShare`, `FailureKillsNothing` | always |

`BadMessages = FALSE` is needed, not convenient: with `TRUE` the run `TornGet`
has the counterexample.

### Put

*The invariant.*  `AckedUploadIsWhole` speaks of `stored` and `request` only and
is not inductive: the step `Reply` needs to know that `nil` on `errChan` means
that the pump received everything, that everything received was written, and
that what was written is what was committed.  `GoroutinesInStep` says these, with
what relates the program counters of the two goroutines; `Inductive` is
`TypeOK /\ GoroutinesInStep /\ AckedUploadIsWhole`.

*Clean streams.*  Whether the pipe ended because the stream ended or because it
broke cannot be told by the handler before it commits.  What keeps a truncated
object from being committed is the context: with `BadMessages = FALSE`, `Recv`
fails only on a context that is done (`ErrorMeansCancelled`), and on such a
context no final request is sent, so that what is pending is whole
(`PendingIsWhole`) and so is what lands, however late (`NoTruncatedObject`).
These three together are `Clean`, inductive relative to `Inductive`.

*Refinement.*  Each action of `PutStream` is a step of `ArtifactStore` under the
map or leaves it unchanged: `Land` is `Store` (by `PendingIsWhole` the artifact
is whole), a `Reply` with "ok" is `Ack`, `Reject` is `Refuse`, the other returns
and `Crash` are `Fail`, evictions are `Evict`.

### Reading calls and the process

`ServerProofs` takes the lemmas of `PutStreamProofs` step by step: a step of
`CacheServer` is a step of `PutStream` or leaves its variables alone, so that
`Inductive`, `Clean` and the refinement carry over.

For the reading calls, `GetDeliversWholeArtifact` says something only at the end
of a call.  `ReadInductive` ties the place of a call to the readers it holds, the
flags found and the chunks sent; `ReadersAreWhole` adds that each reader is pinned
to a whole artifact of the name it was opened for, which holds when it is opened
because of `NoTruncatedObject`, and stays because the reader is pinned.  For
Contains the invariant must say *which* reader belongs to a digest: the one whose
rank among the readers is that of the digest among the flags that are true.  The
announced size comes from another call to storage than the reader.  It stays the
size of the object under the name until the reader is opened, and of the reader
from then on, unless the name changed hands between the two calls: those calls are
the history `replaced`, and `AnnouncedAreHeld` says the rest of all others.  It
needs neither clean streams nor artifacts of one size.

Most steps of `ServerLifecycle` are steps of `PutStream` too; the end of the
process is a `Crash` of all of its calls, the forced stop a cancellation of all of
them.  `LInductive` says in addition that no call is crashed while the process runs
(`CrashedWithProcess`), so that one that has returned before the graceful stop
ends has ended by itself, and that Stop has ended the context of every open call
(`ForcedMeansCancelled`), from which `NothingSentAfterStop` follows.

### Selection

`SelectionInv` has one part per pass.  The first two name what has been selected
and what is still in the slice; `Rest(1)` is all that is not selected although
the second pass shifts elements under its own index.  In the third pass the
invariant speaks of the entries not yet visited, `Rest(i)`.  That the array stays
sorted is what makes `RecentGoLast` hold: what is selected in the second pass is
older than a day, and the third visits old entries first.

`SelectsAsContracted` needs to know when the second pass runs past the slice.
`ArrayInv` says what the array looks like behind the slice: it holds copies of
the newest candidate, as many as entries were removed.  While there is no recent
entry every visit selects, so that the index is one more than the number of
removals and the slice is reached when half of the candidates are gone;
otherwise the newest candidate is recent and its copies are not selected.
`PanicInv` states the outcome; `SelectsByContract` counts the three classes.

### Pruners

`PrunerInv` follows an undisturbed cycle through its phases: what was measured is
still in excess when the bucket is listed (`MeasureHolds`), and a queue with an
entry that has not expired is no longer than the excess over the target
(`QueueFits`), by the contract of the selection.

The properties of `GcsPruner` compare sums of sizes over sets of objects.  `JobInv`
relates the running total to two such sums: from above what the listing has still
in the bucket (`TotalCovers`), from below what stands under the names listed
and what was `lost` from under them (`TotalStands`).  What the proofs
need of `MapThenSumSet` (its type, what one element adds, that it grows along an
injection) is proved first.  The provers have no induction scheme
with a formula as a parameter; `SetInduction` takes the *set* of numbers for
which the formula holds instead, and gets the least one missing from it from the
library's `WFMin`.

### Advisor, predictor, chaos engineer

`AdvisorInv`: a counter in the hands of a call is never ahead of those counted
(`LoadedBehind`), and never behind those that were counted without a race
(`LoadedKeepsUp`, from `RacedTogether`: two calls that are there together have
both raced, so that nobody writes back beside one that has not).  What may still
reach Redis of feedbacks was named before (`StrayedWereSent`).  A Set of a
recommendation carries the validity left when the clock was read
(`SentWithWhatIsLeft`), and Redis counts it from when it lands, so that the
recommendation outlives its window by the time on the way, unless nothing was left
(`ExpiresWhenOutdated`).

`PredictorInv`: `LockHeld` (the mutex admits one writer or readers),
`CountIsRecorded` (the count is the number of accesses recorded), `RunningOnce`
(at most one goroutine runs for a key, unless two raced) and `LatestIsSaved` (that
goroutine has the latest count, or Redis has).  For the ranking, `WeightsFirst`:
the weights are never older than the model, because they are assigned first.

`ChaosInv`: the pods that are missing from those an execution found up, but for
what others brought down since, with those it has still to delete, are at most
its share (`SharePending`); only executions that went on
to kill have brought a pod down, and such a one cannot end in an error
(`KillersKill`).

### What the proofs changed

Trying to prove them corrected the models in three places.  `TypeOK` of
`Intelligence` was wrong about the accuracy of a set without feedback.
`GcsPruner` lacked the assumptions that an absent object is no object and that
the clock can reach `MinAge`.  `UnitSelection` was stated over the run's module and
is now `PruneSelection`'s own property.

### Model-checked only

Every liveness property (`PutReturns`, `ReadsReturn`, `ShutdownEnds`,
`ShrinksUnlessPanics`, `ComesDown`, `ExperimentsEnd`): fairness and ENABLED are out of
the prover's reach.  That `Clean` fails, that replicas together prune below the
target and that a cycle can panic for ever are counterexamples of TLC (section 7).

## 7. Findings

| Run | Property | What the code does |
|---|---|---|
| `TornGet` | `GetDeliversWholeArtifact` | A stream that fails on a live context ends the pipe cleanly: the part received is committed, the Put answers an error, and a later Get delivers the truncated object as a success. |
| `CrashLoop` | `ShrinksToLimit` | When every candidate has not been accessed for a day and more than half of them are needed (at equal sizes: a cache above 1.6 times its limit, without expired entries), the same loop slices out of range.  Nothing recovers; each restart begins with a cycle and panics again. |
| `OverPruning` | `KeepsTarget` | The amount to remove is measured before the listing it is applied to: when another replica prunes in between, what was measured for the larger cache is removed from the smaller one. |

Of the same code, the properties that do hold are the more telling ones: a Put
whose stream breaks is never *acknowledged* (`AckedUploadIsWhole` holds with
`BadMessages = TRUE`); the skipping pass still spares recent entries and selects
enough (`RecentGoLast`, `EnoughSelected`); clients alone cannot make a pruner
delete below its target (`KeepsTargetAlone`); the external job's total errs only
to the safe side (`ReportedTotalIsSafe`).

`CrashLoop` has one replica and four old objects.  In the run `PruningService`
three old objects and one old stray do it too; `ShrinksUnlessPanics`, which holds
there, says that there is no other way for the cache to stay above its limit:
overlapping replicas, failures, deaths and stray objects do not add one.

Three observations without a run, because no line of the repository denies them
outright: the second pass of the selection skips entries while it removes from
the slice it ranges over, so that of three entries the middle one can stay and
the newest go (`UnitSelection` says how many go of each age class, not which);
the external pruner deletes by name, so that an object stored again after the
listing goes although it is younger than `MinAge`; and two pod-kills that overlap
cost twice the share together, with the disruption budget not consulted
(`CostsOnlyItsShare` holds each of them to its own share).

Some hazards are what the code does and not something it could get wrong: the pump
that stays blocked after a storage error, the monitor a failed experiment leaves
behind, updates lost between callers that race, learning data replaced within a
second, an older count persisted by a late goroutine.  Their properties name that
one cause and hold the code to it: nothing else leads there
(`PumpOutlivesOnlyStorageErrors`, `ExperimentsEnd`, `CountersTrackFeedback`,
`AckedIsLearntOrReplaced`, `QuietKeyIsSaved`).

## 8. Assumptions and abstractions

*The build.*  The repository does not compile as it stands (missing functions and
fields).  The models translate what is there.  `CacheServer.metrics`, which
`NewCacheServer` leaves nil, is taken to be set.

*Data.*  An artifact is its number of chunks and the upload that sent it.  Digest
sizes that clients send and `PutResponse` returns are compared with nothing in
the code and are left out; nor does `Put` compare the data with the digest, so that
artifacts of one name may have different sizes.  Messages without data move
nothing.

*Pipe.*  The read end is never closed, so `pw.Write` never fails and the pump's
branches for that error are dead: a pump can only stay blocked
(`PumpOutlivesOnlyStorageErrors`).

*Cloud Storage* is external and modelled from its use: an object appears whole
when its writer's final request is carried out, or not at all; a writer whose
context is done sends no such request; a request that was sent may be carried
out although the call failed, was cancelled or its process died, and late
(`Land`); a reader is pinned to the generation it was opened on; any call may
fail, and a deletion may take place and lose its answer.  A hit updates the
object's metadata, which moves its `Updated` time.

*gRPC* is external: a handler's return ends its stream's context; `GracefulStop`
takes no new calls and waits for handlers; `Stop` ends their contexts and waits
for none.

*Crashes.*  `Crash` ends any set of calls in flight, since they are spread over
three replicas.  `ServerLifecycle` has one replica, with which all of its calls
end.

*Pruning.*  In `PruningService` all objects have size 1 and the last access is
one of three classes.  That is what the selection can tell apart: the
heuristics of `shouldDelete` amount to "not accessed for a day", because their
last test subsumes the others.  Time moves objects from one class to the next
at any moment.

*Stray objects.*  `List` gives the `cache_key` of an object, which `sanitizeKey`
maps to the object's name again; of an object without one it gives the name,
which `sanitizeKey` maps to a name that does not exist.  Such an object was not
written by this server; its age is that of its last update, and so any.

*Chaos.*  The scheduler, `getTargetPods` and `cleanupExperiment` are missing in
the repository: any execution may start at any time, the list is what Kubernetes
lists (pods that are stopping included), and the cleanup changes nothing.
`checkHealth` answers true always, so that `rollbackExperiment` is never called.
`view` and `killers` are history variables; what others bring down is taken off
`view[r].up`.

*Redis* is external: a `Set` may fail before or after it took effect; given an
expiry of zero or less the client sets none.  Its client may wait for a connection
and sends a `Set` again that has no answer, with the expiry it was given; an
unanswered one may reach Redis at any later time.  `persistPattern` is missing: it is
taken to read the pattern and to set it with the context it was given, on which
no call succeeds once the context is done.

*Memory.*  An increment of a shared counter is a read and a write.  Stores of one
goroutine to `weights` and `model` are seen in program order, as on amd64, for
which the Dockerfile builds; the Go memory model promises less.  The helpers of the
training are missing; a training with too little data changes nothing.

*External pruner.*  Every write moves the clock, so that the creation time names
a generation.  `lost` is a history variable: the bytes that went from under the
names listed without being subtracted from `totalBytes`.  A configured batch size
of 0 makes every deletion panic after it took effect (`DeletePanics`).

## 9. Not modelled

* **Action results** (`cache_server.go:274-325`): stubs without state.
* **Interceptors**: logging; those for authentication and rates are not registered.
* **Tiered cache**: not wired, and the functions that would move the data
  (`storeInAllLevels`, `createDeduplicationReference`, the `populate` functions)
  do not exist.
* **Cost optimizer**: its `metricsCollector` is never set, the functions that carry
  out its actions do not exist, and `params["age_days"].(float64)`
  (`optimizer.go:327`) on the integer of line 136 panics in the first strategy of
  every cycle.  Nothing lies beyond that to model.
* **Anomaly and demand prediction**: statistics of one call's input, with no state
  kept.  It does not compile (`strings` is not imported), `structpb.NewStruct`
  refuses the slice `PredictCacheHit` gives it, and `WarmCache` is a stub.
* **Of the access predictor**: features, correlations and confidences, the limit to
  ten predictions, `analyzePatterns`.
* **Of the advisor**: the Prometheus metrics, and precision, recall and F1, which
  are constants.
* **Zero-trust security**: predicates on a single request, out of scope.
* **Configuration, metrics, observability**: read once, or written and never read
  back.  The `CacheSize` gauge is listed under the hazards.
* **Deployment**: manifests; what they imply is in the models (three replicas,
  restarts, `concurrencyPolicy: Forbid`, a lifecycle rule that deletes).
