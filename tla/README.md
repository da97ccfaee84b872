# TLA+ models of the TApp controller

TApp is a Kubernetes controller for applications whose instances are numbered,
can be updated one by one, and are updated in place when only an image changes.
This directory holds TLA+ models of it, the TLC runs that check them, and TLAPS
proofs about them. `PROJECT.json` lists components, runs, mutants, hazards,
findings, theorems, and the source lines of every definition.

## 1. Inventory

| Component | State it keeps | Operations | Talks to |
|---|---|---|---|
| Sync (`controller.go` 379-491, 1103-1257) | none between Syncs; one Sync holds a copy of the TApp and of its pods | preprocess the spec, plan, write readiness gates, change instances, write status | reads informer caches; writes through the API server |
| Planner (`controller.go` 597-961, `tapp_utils.go`) | none, pure | desired instances, an action per pod, budgets, the plan | called by Sync |
| Status (`controller.go` 963-1101) | none, pure | status per instance, of the app, whether to write it | called by Sync |
| Instance client (`instance.go`) | none | create, delete, delete by force, update in place with retries; claims | one goroutine per create and delete, updates one after the other |
| Hashes (`pkg/hash`) | two labels on a template | whether a change can be made in place | planner |
| Informer caches | copies of TApps, pods, nodes | deliver watch events, resync every 30 s | read by everyone, and **written** by two retry paths |
| Work queue and handlers (`controller.go` 195-376) | queued, processing and delayed keys; notifications not yet handled | find the TApp of a pod, enqueue, one worker per key, rate-limited retry | informers, Sync |
| Start-up and leader election (`main.go`) | the flags, the lease | elect, register, start the informers, the server and the workers | all of the above |
| CRD bootstrap (`crd.go`), webhook registration (`admission.go`) | the CRD and the webhook configuration; a version in a package variable | get, then create or update, polled | API server |
| Admission (`pkg/admission`) | none | validate a TApp | called by the API server before it stores a TApp |
| API types, generated clients, version, build helpers | - | - | - |

What is hard here:

* **Caches behind the server.** Every decision is made from informer caches.
  Budgets count pods that may already be down.
* **Writes to cached objects.** After a conflict, `updateTAppStatus` (line 1130)
  and `setInPlaceUpdateCondition` (line 1243) go on with the object in the
  informer cache, not a copy. The next Sync reads a state nobody stored.
* **Partial failure.** `SyncInstances` only logs errors, and Sync writes the
  status and `observedGeneration` regardless.
* **Early return.** A finished TApp whose generation is observed is not looked
  at again (line 419), so a generation must not be stamped as observed without
  being acted on.
* **Map order.** The force pass walks a Go map.
* **Edits in quick succession**, crashes between API calls, nodes that vanish,
  node and claim informers nobody waits for.
* **Wake-ups.** They go by labels, while a pod belongs to a TApp by its
  controllerRef: overlapping or invalid selectors send them to the wrong TApp or
  to nobody, and only the resync makes up for it.
* **Shared objects at start-up**, edited by others and by the process that led
  before; a resource version that outlives the attempt that read it.
* **In-place updates** that change labels and images but not the rest of a pod.

What correctness means, per component:

* Sync: status never claims a generation it does not describe, never goes back,
  and the TApp reaches its spec once it is left alone.
* Planner: budgets are kept, an update never wedges itself, a plan that does
  nothing means nothing is to be done.
* Instance client: only pods of lost nodes are deleted by force; an image is
  replaced only after its pod was drained.
  A pod is not created before its claims, and its hash label says what it runs.
* Queue: no wake-up is lost, a key is handled by one worker at a time, and every
  TApp is handled as it is now.
* Start-up: one leader, which gets to work whatever it finds registered.
* Admission: what is admitted cannot wedge an update.

## 2. Modules

| Module | Content |
|---|---|
| `TAppPlan` | The pure part: types, `tapp_utils.go`, status, preprocessing, planner. No variables. |
| `TAppController` | The state machine: Sync split at its API calls, API server, watch streams, caches, user, kubelets, nodes, faults, crashes; invariants and properties. |
| `MCTAppController` | Specs, initial clusters and budgets of the controller runs. |
| `Admission` | The validation rules and the answers of the webhook, as predicates on the TApps of `TAppPlan`. |
| `Planner` | One decision of the planner for any TApp, pod list and nodes; what every plan keeps and does. |
| `PlanLoops` | The three loops of `transformPodActions`, one step per iteration. Implements `Planner`. |
| `MCTAppPlan` | All planner inputs of a bounded range; all results of the loops. |
| `Wakeups` | Abstract: a key that is woken is handled afterwards, by one worker at a time. |
| `Dispatch`, `MCDispatch` | Informers and their notifications, handlers, `getTAppForPod`, work queue, workers. Implements `Wakeups`. |
| `Bootstrap`, `MCBootstrap` | Processes that elect a leader, register CRD and webhook, and start server, informers and workers. |
| `Instance`, `MCInstance` | One instance in detail: hash labels, pod, claims, in-place merge. |
| `Rollout`, `MCRollout` | One rolling update of a settled TApp: the hypotheses under which `RollingBudget` and `Drained` are claimed, the stages of a pod, the inductive invariant. |
| `TAppPlanProofs`, `PlannerProofs` | The budget theorems of the two update passes; what an admitted budget is worth; both put together for whole plans; the loops implement `Planner`. |
| `TAppControllerProofs`, `WatchProofs` | Theorems about `TAppController`: types and status; caches, watch streams and forced deletes. |
| `RolloutProofs` | A rolling update keeps its budget and drains every pod first. |
| `DispatchProofs`, `InstanceProofs`, `BootstrapProofs` | Inductive invariants and theorems about the other specifications. |

The modules fit together as follows. `Dispatch` shows what `TAppController` and
`Instance` take for granted: Syncs of a TApp never overlap (`OneWorkerPerKey`) and
come again after every change (`NoLostWakeup`, `Attended`), which is their
fairness of `Sync`. `Admission` says which specs reach the planner when the webhook
is on. `Bootstrap` says when the workers of `Dispatch` exist and, with
leader election, that they exist in one process only.

Operators marked "Faulty variant" are plausible mistakes in the code. No
specification uses them; `PROJECT.json` pairs each with the property that has
to catch it.

### How state and actions correspond to the code

`tapp` and `pods` are the objects in the API server. `tappEvents` and
`podEvents` are watch events on their way. `cachedTApp` and `cachedPods` are the
informer stores, which Sync also writes to where the code omits a `DeepCopy`.
`app` and `list` are the copies one Sync works on, and `fresh` and `listed` say
whether such a copy still has the current resource version: an update of one
that does not is refused with a conflict. `plan`, `todo`, `retry` and `tries`
are the locals of Sync and of the functions it calls.

| Action | Code |
|---|---|
| `GetTApp` | `Sync` up to and including the pre-update of `preprocessTApp` |
| `preprocessTApp` | the rest of it: defaults, unused templates, selector, scale selector, and the write; the early return when there is no selector (a template without labels, or a selector that does not parse) |
| `preprocessStatus` | the `UpdateStatus` that follows a changed spec when `Update` answers with another status than Sync began with |
| `ListPods` | `getPodsForTApp`, the early return, `instanceToSync` |
| `setInPlaceUpdateCondition`, `WaitConditions` | one goroutine of `syncPodConditions` and its `wg.Wait` |
| `createInstance`, `deleteInstance`, `forceDeleteInstance`, `WaitInstances` | the goroutines of `SyncInstances` and its `wg.Wait` |
| `updateInstance` | one attempt of `ApiServerInstanceClient.Update`, in slice order |
| `FinishInstances`, `updateTAppStatus` | `shouldUpdateTAppStatus`, and one round of the retry loop |
| `Crash` | the process dies anywhere and `Run` starts again |
| `DeliverTApp`, `DeliverPod`, `SyncNodes` | informers |
| `UserEdit`, `StartPod`, `RestartContainer`, `ReportReady`, `ExitPod`, `RemovePod`, `NodeFails`, `EvictPod` | the environment |

`Dispatch`: a TApp is reduced to its selector and to whether it is stored without
one, with one, or deleted; a pod to its labels and version. An informer changes its
store first (`DeliverPod`, `ListPods`) and its handlers see the notification later
(`addPod`, `updatePod` and `updateOldPod`, `deletePod`, `enqueueTApp`). `queue`,
`dirty`, `processing` and `delayed` are those of the client-go work queue.
`SyncOk` and `SyncFails` stand for a whole Sync: it reads the TApp, gives it a
selector when it has none, and lists its pods. `stale` is a history variable: the
TApps whose view changed since a Sync read it. Notifications of one TApp are
merged, as the queue merges them anyway. The first idle worker stands for all, and
`Forget` has no effect on what is queued.

`Bootstrap`: `pc` of a process is its place in `main` and `run`; `held` says of the
copy of each object a process carries whether its resource version is current, old
or unset. In `EnsureCRDCreated` that copy is the package variable and survives the
attempt (`crd.go` 72); in `Register` it is built anew. The lease has a holder and an
age in ticks. A holder goes by a clock of
its own (`timer`), which only an answer to a renewal of the same round puts back: it waits
`RetryPeriod`, tries for `RenewDeadline`, and then calls `OnStoppedLeading`, which ends the
process. Time passes for it all the same (`Tick`), whatever its place in `run`; two delays
are bounded, that of an answer that still counts and that of the exit. `RenewalFails` is
time that passes while a renewal is due. Identities are host names, so a restarted process
has its own lease back.

`Instance`: a template is labels, a port annotation, an image, an init image and
local volumes. The hash of a value is the value. Hash labels are set in Sync's copy
only; for a pool template without labels they are lost with the loop variable
(`controller.go` 545). `todo` and `failed` are the locals of
`createPersistentVolumeClaims`, `tries` and `ins` those of `Update`.

A failing call is `"error"` (not made) or `"timeout"` (made, the answer lost).
A pre-update that is refused ends its Sync with nothing changed, so it is a
stutter and has no step of its own.

Data abstractions: a template is its shape, restart policy and image, which is
all the two hashes tell apart; `appStatus`, `replicas` and `readyReplicas` are
functions of `statuses`; every pod is assigned to a node; one TApp is modelled,
because Syncs of different TApps share nothing but the queue. A generation grows
with every change of the spec, made by the user or by the controller.
There is no deletion of a TApp, which Sync leaves to the garbage collector.

## 3. Runs

Bounds: `MaxReplicas` instances, at most `MaxLag` undelivered events per stream,
and `Budget`, which counts edits, failing calls, crashes, exits and node losses.
Three instances are needed for a rolling update that has one pod down, one
updated and one to go; two for anything about one instance disturbing another;
one suffices where faults and losses are combined, since they act on one pod. A lag of
two lets a cache be two versions behind, so that a retried write meets a conflict as
well; `restart` uses a lag of one and spends the states on edits instead; `instance`
uses three, which lets Sync decide on a pod that was deleted and replaced since.

| Run | Instance | What it shows |
|---|---|---|
| `rolling` | a new image, or a change that needs new pods, a crash, 3 instances, lag 2 | `RollingBudget`, `Drained`, `Converges` |
| `restart` | kill and un-kill with another image, 2 edits, late node informer, 2 instances, lag 1 | `CacheCoherent`: without faults, a cache that has caught up equals the store although retries write to it; `Converges`, through updates of pods that are gone |
| `nodes` | a lost node, an eviction, and a kill or a new template, 1 instance, lag 2 | `ForceDeleteSafe`, `Converges` |
| `faults` | a failing call, a crash, a lost node, 2 edits out of five (a new image, a kill, no replicas, a template missing from the pool, no selector), 1 instance, lag 2 | `TypeOK`, `ObservedTruth`, `ObservedForward`, `ForceDeleteSafe` |
| `plan` | `MCSpec`: `PlanLoops` from a wide range of pod states, assignments and budgets, 3 instances | `LoopsDecide` (all of `Planner`), `PlansAreLoopResults` (every plan described is made in some order), `PlanKeepsBudget`, `AdmittedNeverWedged`, `QuietMeansDone` |
| `queue` | 2 TApps in 5 constellations of selectors, a pod, 2 workers, 2 events | `OneWorkerPerKey`, `NoLostWakeup`, `Promise` (all of `Wakeups`, its liveness too), `Attended` |
| `start` | 2 processes, 4 combinations of flags, 3 events, a lease of 6 ticks against 1 + 2 (wait and try) and delays of 1 and 1 | `OneLeader`, `StartsUnlessStranded`, `WritesServed` |
| `instance` | 7 specs, 2 claims, 3 events, lag 3 | `ClaimsBeforePod`, `HashTellsTruth`, `PortKept`, `SettlesUnlessOrphaned` |

In the last three runs `MaxEvents` bounds edits, failing calls, crashes, broken
watches and outside changes together. Two events suffice for a wake-up to meet a
failing Sync, a relist or a crash. Three let a write lose its answer, the object be
edited and the process die in one start; they also let a leader miss its renewals up to
the deadline and one tick of the exit beyond, with the lease one tick from being free. Two
edits in `faults` let a status be computed for one spec while the next is stored: a kill,
or replicas taken away and back, changes what the status of the instance has to be. In the
`plan` run budgets go from -1 to 2
and from 0% to 100%, so that every rule of the webhook decides for some input.

`plan` may stop: a plan is made once per input. So may `queue` when every TApp is
deleted, `start` when a process waits for a CRD that was deleted, and `instance`
when the pod is up to date. Every other run also checks that the system never
deadlocks. No run uses symmetry: ids, names and workers are ordered.

Runs whose property is **violated**, each a disagreement between the code and
what a comment or the documentation says (details under `findings`):

| Run | What happens |
|---|---|
| `v_rerun` | The cached TApp is given a result that was never stored, the finished pod is deleted, the job runs again. |
| `v_repair` | The force pass never updates pods when none is available, even with a budget of 100%. |
| `v_nodes` | Before the node informer has listed, dying pods of healthy nodes are deleted by force. |
| `v_init` | A new init image is rolled out in place, but only the images of containers are merged: the pod is labelled as up to date with the old init image. |

`ForceDeleteSafe` passes in `nodes` and `faults`, where the node informer has listed
before the workers start, and fails in `v_nodes`, where it has not.

`RollingBudget` and `Drained` are claimed under `RollingUpdate` of `Rollout`, which TLC
evaluates in `rolling`: all pods serve at the start, at most one edit is made and it
changes templates only where they roll, budgets are well formed, pods do not exit, nodes
do not fail and API calls fail by conflicts only; the controller may crash at any time. A
single rolling edit keeps its budget with any staleness because pods are taken in
ascending order: a stale Sync picks the same pod again. With two edits it does not: when a
rolling update is reverted half-way, a pod that was already updated is outdated again and comes
first, while the pod whose update is under way still counts as available in a
stale cache, so with two edits both can be down.

Nor does `Drained` hold with two edits. `setInPlaceUpdateCondition`
gives up after two conflicts without a write or an error, and Sync goes on. With a
second image edit while pod events of the first update are undelivered, its copy of
the pod and then the cached one are both behind; the events arrive, `Update` finds
the version it reads current, and the image of a pod in service is replaced.

`HashTellsTruth` is about what an in-place update carries over: image and labels. It
does not hold of volumes. Sync may decide on an update by comparing the new template
with a cached pod that was deleted and replaced since, by a pod of a third spec.
`Update` reads the lister again by name (`instance.go` 456) and merges the hash
labels into the replacement, which keeps the volumes it has. This takes a cache three
versions behind.

`PortKept` asks that a port mapping which is still on the pod is kept. A mapping that is
taken away between two attempts of `Update` is outside its claim: the first attempt has
copied it into the expected pod, which is kept, and the next one writes it back
(`instance.go` 431).

`NoLostWakeup` needs selectors that match disjoint sets of pods and are not empty:
an empty selector matches nothing in `getTAppForPod` (`controller.go` 348) and every
owned pod in `getPodsForTApp` (304). `Attended` covers the rest through the resync.

Four more disagreements have no run of their own.
When the retries of a status write fail after they overwrote the cached TApp, the
stored status is never written again (`controller.go` 1130). An instance that is
killed and un-killed in quick succession stays stopped: the retry stamps a
generation nobody acted on, and the early return at line 419 trusts it. And the
force pass, which has no order, may take a second pod down while the first still
counts as available in a stale cache (line 858). The fourth is about rounding:
`doc/tutorial.md` 343 says that with 50% of three pods "at most 50% of the 3 running pods
will be updating at the same time" and that two pods never do, but both passes have the
percentage rounded up (lines 831 and 876), so 50% of 3 is 2 and two are taken together.
`PlanKeepsBudget` states the rounding: a percentage of `total` allows the least whole number
of instances that is not below it. The `plan` run covers this very case.

`StartsUnlessStranded` has two exceptions, and both happen. A process that has read
a version of the CRD can never create it again (`crd.go` 73), so a CRD deleted
between two attempts strands it until it is restarted. And a CRD deleted after it
was ensured, or never asked for, keeps the informers waiting. `WritesServed` holds
because only a dead server ends the process: with the failure policy Fail every
write of a TApp is refused until a leader serves again. The webhook stays
registered when the flag is taken back. `SettlesUnlessOrphaned` has one exception: an
in-place update may change labels, and a pod that leaves the selector is neither
seen nor replaced.

Some detail is kept for the order of the writes and carries little weight in a property: the
scale selector of the status decides only whether `preprocessTApp` writes, and so matters
to `Converges` alone.

### Fairness

`FairSpec` adds weak fairness of `Sync`, of the informers, of each kubelet and
of the eviction of pods of lost nodes. The informers are created with a resync of
30 s (`main.go` 110-111), whose update events enqueue every TApp for ever, and
workers run until the process ends. Weak fairness of `Sync` as a whole suffices:
between API calls exactly the steps of the one Sync are enabled. `Dispatch` checks this
premise instead of assuming it: it has weak fairness of each worker, of the
handlers, of informer deliveries, of a first list, of a retry that is due and of the
resync, which the model lets come only when the handlers are through and no TApp that
can succeed is being handled. `Bootstrap` has weak fairness of every step of a
process, of the restart by the kubelet and of time, and strong fairness of taking a
free lease, which the elector tries every two seconds, and of getting the answer in time. `Instance` has that of
`TAppController`. Faults,
crashes, edits, exits and losses are never fair, and they are finitely many, so
liveness says what happens once they stop.

## 4. Proofs

For every number of instances, pool, set of user specs, budget and lag, from the
named assumptions of the modules: constants have their types, `MaxReplicas`
and `MaxLag` are positive, the initial TApp is truthful, null values are no
records, and no image has the name of one of the two marks for a container that has none
or is pulling; names order TApps, and pods are finitely many and start at version 0; the
lease is longer than answer delay, retry period, renew deadline and exit delay together. With
the defaults (`main.go` 74-76: 15, 10 and 2 seconds) the two delays may take just under 3
seconds; client-go only asks for a deadline shorter than the lease, so flags can break it.

| Theorem | Statement |
|---|---|
| `TypeCorrect` | `Spec => []TypeOK` of `TAppController` |
| `StatusTruthful`, `StatusForward` | `Spec => []ObservedTruth`, `Spec => ObservedForward` |
| `CachesCoherent` | `Spec => []CacheCoherent` |
| `ForcedDeletesSafe` | `Spec => ForceDeleteSafe`, when `NodesSyncedAtStart` |
| `RollingBudgetKept`, `DrainedFirst` | `Spec => []RollingBudget` and `Spec => Drained`, when `RollingUpdate` |
| `RolloutInvariance` | `Spec => []RollInv`, when `RollingUpdate`: the invariant both rest on |
| `ForcePickBudget`, `RollPickBudget` | each update pass keeps its minimum |
| `AdmittedValue`, `AdmittedStrategy` | budgets the webhook lets through are well formed and let at least one pod go |
| `PlansKeepBudget`, `AdmittedUpdatesMove`, `QuietPlansAreDone` | the three properties of `Planner`, for every TApp and pod list |
| `MinimumIsBudget` | the minimum the passes compare with is the budget, a percentage rounded up and no further |
| `LoopsImplementPlanner` | `LoopSpec => LoopsDecide`: the loops of `PlanLoops` implement `Planner` |
| `OneWorker` | `Spec => []OneWorkerPerKey` of `Dispatch`, for any TApps and workers |
| `WakeupsReachQueue` | `Spec => []NoLostWakeup`, for any TApps, pods, labels and workers |
| `Refinement` | `Dispatch!Spec => W!Safe`, the safety part of `Wakeups` |
| `PodsHaveClaims`, `HashesTellTruth`, `PortsKept` | `ClaimsBeforePod`, `HashTellsTruth` and `PortKept` of `Instance`, for any templates and claims |
| `Leadership` | `Bootstrap!Spec => []OneLeader`, for any processes and periods |

The inductive invariants are written in the module of their specification, the one of a
rolling update in `Rollout` and the one of the loops, which only says how far a loop has
got, in `PlannerProofs`. All but the last were checked with TLC on the instances of the
runs (those of `WatchProofs` also with a lag of four, `Told` also with two pods and with
three events) before they were proved.

**Status.** `TypeOK` is not inductive alone: that `createInstance` stores a pod with a
template needs `PlanBacked` (what is planned has a template in the TApp that was
planned from), and that a write which succeeds finds a pod to write to needs
`PodsWatched` (a copy of the current version exists exactly when the pod does).
`ObservedTruth` says nothing of copies, yet `updateTAppStatus` writes the status
of one: it needs `AllTruthful`, that all copies keep the promise, including the
cached one the retry edits, and `TAppWatched`, that a copy of the current version
has the stored spec. Their conjunction is `Inv`. Its key step is the status
write: it succeeds only on the current version, so the status computed for the
copy's spec is stored next to that very spec. `StatusForward` adds `CopyObserved`
(a current copy has observed no less than the store). There is one lemma per
action or group of actions, and frame lemmas for what most actions leave alone.

**Caches and forced deletes.** The force delete names a pod that a plan from a possibly
old list found dying on a lost node. `ForceDeleteSafe` speaks of the step only, so
`ForcePlanned` carries the reason from `ListPods` to the delete: the node is lost, and
the pod is still dying or gone. That needs `PodStream`: in one watch stream a doomed
pod stays doomed and no removal is followed by a later event of the same id, because
`createInstance` asks the cache first and creates only after the removal was
delivered. `CacheCoherent` needs the same, and `NoFaults`: code that edits a cached
object before its call is harmless when the call is accepted (then the store has the
same edit) or refused as outdated (then an event that replaces the cached object is
still to come), and only then; a failing call breaks it. `ForcedDeletesSafe` rests on
the environment of the model: pods are deleted only by this controller and by the
eviction from lost nodes, a lost node does not come back, and an instance keeps its
node. `v_nodes` shows that the assumption on the node informer is needed.

**Rolling update.** `RollingBudget` counts stored pods, while every plan counts cached
ones, so what is needed is an order on the versions of a pod. `Rollout` gives a pod a
stage: it serves with the old template (0), its gate took it out of service (1), it is
replaced or dying (2), the new image runs or the old pod is gone (3), a new pod is not
ready yet (4), it serves with the new template (5). `RollInv` says that the cached pod,
the events on the stream in their order, and the stored pod have ascending stages
(`PodsForward`), and that a pod gets past stage 3 only when the cache has seen that stage:
somebody has to write the gate back or create the pod, and looks at the cache first.
`PlanRolls` says that whatever is planned changes, is not past stage 3, and is past stage 0
as soon as its goroutine of `syncPodConditions` is through. This is where giving up after
two conflicts matters: both copies were outdated, so the pod has been written since, and
the first write of a settled pod is the one that closes its gate.
`ConditionRolls` says the same of the goroutines that have still to run, and that a gate
is opened only on a copy that is through.
`WithinBudget` is the budget as an invariant: everybody who does not change, has finished,
or comes after everyone taken so far is `Kept`, and at most `maxUnavailable` are not.
`PickKeepsBudget` is its key step, the only one that uses the ascending order: a plan from
an old cache takes again what was taken before, and what it takes beyond that is within
the budget counted on the pods still kept. Before the edit has reached a Sync nothing
happens at all (`Untouched`), and no status ever calls an instance finished (`NoResults`),
so the instances stay the same. A crash forgets the plan and reads the caches anew, which
puts every copy at the stage of the stored pod. Each part of `RollingUpdate` is needed:
with two edits stages do not ascend (section 3), a pod that exits or loses its node is out
of service at no fault of the planner, a failing call leaves an edit in the cache that was
never stored, and pods outside the rolling template go by another budget.

**Plans.** A plan takes what the two passes take (`Taken`): the budget of a whole plan
follows from `ForcePickBudget` and `RollPickBudget` once no available pod is deleted by
the first loop (`AvailableNotDeleted`). That an admitted update moves uses
`AdmittedStrategy`: its budget lets a pod go.
These theorems are about plans as `ForcePick` and `RollPick` describe them.
`LoopsImplementPlanner` carries them over to the loops of the code by an invariant for each
loop: the force pass has taken all it has visited or has reached its minimum; the rolling
pass has taken what `RollPick` says of the ids visited, and either all of those that were
available or so many that the minimum is reached. That makes the size of the growing
`availablePods`, which the code compares, and the number of available pods with higher
ids, which `RollPick` compares, fall on the same side of the minimum.

**Queue.** `OneWorkerPerKey` is not inductive: that `Get` hands out a key nobody holds
needs that no queued key is being processed, which `Done` and `Push` keep up only if a
key is queued at most once and every queued key is dirty. That is `QueueInv`, proved as
`QueueInvariance`. The refinement maps `due` to `dirty \cup delayed` and `busy` to
`processing`: `Get` may leave a delayed retry of its key due, so `Begin` lets a
wake-up stay behind; and that the key `Get` takes is due and not busy is again
`QueueInv`. `NoLostWakeup` speaks of the moment when the handlers are through; `Told`
says for every moment where the wake-up of a stale TApp is, and that a notification
of a pod still counts needs that its TApp is in the cache with its selector. `updatePod`
drops notifications whose two pods have the same version, so `Told` also needs
`VersionsTell`: equal versions are equal pods, in the store, the cache and every event.

**Instance.** `ClaimsBeforePod` needs `ClaimsSeen`: what the claim lister shows and what
the loop has passed exists or was deleted by others. `HashTellsTruth` needs `AllMarked`,
the same of every copy of the pod, and that an update is never made from a template
without hash labels: such a template compares as unchanged or as not updatable in
place. `Watched` ties an accepted write to the version it was merged into, which gives
`PortKept`.

**Leases.** `OneLeader` says nothing of time. `LeaseInv` adds that whoever works holds the
lease and renews it, that the lease is older than the holder's clock says by no more than the
delay of an answer (an answer puts the clock back some time after the write), and that this
clock has not passed wait, deadline and exit. Together the lease of somebody at work is at
most `AnswerDelay + Patience + ExitDelay` old, less than what `AcquireLease` asks for. That
the clock stays there is the work of `OnStoppedLeading`, which takes the process out of
`renewing` and out of work in one step; a callback that only returned would leave a worker
behind that no clock stops.

Only model-checked: all liveness (`Converges`, `EveryWantedServes`, `Attended`,
`StartsUnlessStranded`, `WritesServed`, `SettlesUnlessOrphaned`, and the fairness
part of `Promise`), since liveness under fairness is beyond the prover; and that
every plan described is made in some order of the map (`PlansAreLoopResults`). The theorem
has that no other plan is made; this direction says that an order exists, which takes a
construction by induction over the loops.

## 5. Not modelled, and the plan

Left out, and why:

* The hash function and its collisions; logging, recorded events, formatting of
  names, host names and subdomains (`identity_mappers.go`): data no property tells
  apart. Names are model values.
* Generated clients, listers and deep copies: their effect is the environment above.
  HTTP and certificates are I/O. Version flags, the import linter and test doubles
  have no state.
* The election protocol and the queue's back-off inside client-go: modelled from the
  configuration and the calls in this repository.
* Deep equality of a defaulted CRD or webhook configuration with the wanted one may
  fail at every start; the update that follows has the same outcome as none.
* `runWorker` never ends on shutdown (its `return` leaves the inner function only);
  a process that shuts down exits, so this has no further effect.
* The readiness gate when its writes fail, and TApps whose template is missing from
  the pool: the behaviour is modelled, but nothing states what it should be.
* A TApp that is deleted and recreated under the same name; its claims are met as
  claims that are already there (`Init` of `Instance`).
* Admission holds only for what is written while the webhook is registered. The
  `plan` run therefore also takes budgets the webhook would refuse.

Worth proving next: the refinement of the status part of `TAppController` by an abstract
status that only moves forward; and how far `RollingBudget` can be exceeded by a second
edit, which needs stages that start over.
