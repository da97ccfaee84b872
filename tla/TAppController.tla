--------------------------- MODULE TAppController ---------------------------
(***************************************************************************)
(* The TApp controller of pkg/tapp running against an API server: one TApp *)
(* object and the pods it owns, the watch streams that feed the informer   *)
(* caches, the Sync of the one worker that holds the TApp's key, and the   *)
(* user, the kubelets, the nodes, failing API calls and crashes around it. *)
(*                                                                         *)
(* Sync is split at every API call, because that is where everybody else   *)
(* may step in.  Resource versions are not stored: a cached copy is the    *)
(* current version exactly when no event for its object is undelivered,    *)
(* fresh and listed remember the same of the copies Sync holds, and an     *)
(* update of a copy that is not current is refused with a conflict.        *)
(***************************************************************************)
EXTENDS TAppPlan, Sequences

CONSTANTS
    Specs,               \* specs the user may write
    InitTApp, InitPods,  \* the cluster at the start
    BadImages,           \* images that can never be pulled
    NodesSyncedAtStart,  \* has the node informer listed before the workers start
    Budget,              \* how often the environment may [edits, faults, crashes, exits, losses]
    MaxLag               \* bound on undelivered events of one watch stream

\* observedGeneration = generation promises that status speaks about this spec
Truthful(t) ==
    /\ t.status.observed <= t.gen
    /\ t.status.observed = t.gen =>
         \A i \in Id : i < t.spec.replicas =>
            /\ t.status.statuses[i] # "None"
            /\ i \in t.spec.killed => t.status.statuses[i] # "NotCreated"

BudgetType == [edits : Nat, faults : Nat, crashes : Nat, exits : Nat, losses : Nat]

ASSUME SpecsAssumption == Specs \subseteq TAppSpec

ASSUME InitAssumption ==
    InitTApp \in TApp /\ Truthful(InitTApp) /\ InitPods \in PodMap

ASSUME EnvironmentAssumption ==
    NodesSyncedAtStart \in BOOLEAN /\ Budget \in BudgetType /\ MaxLag \in Nat \ {0}

VARIABLES
    tapp, pods,              \* the objects in the API server
    lost,                    \* ids of the pods whose node is down
    tappEvents, podEvents,   \* watch events not yet delivered, oldest first
    cachedTApp, cachedPods,  \* the informer caches, which the code also writes to
    nodesSynced,             \* the node informer has listed
    pc,                      \* where Sync is; "idle": not running
    app, fresh,              \* Sync's copy of the TApp; it is the current version
    list, listed,            \* Sync's copies of the pods; ids whose copy is current
    plan, todo,              \* what instanceToSync decided; instances still to handle
    retry, tries,            \* instances being retried; attempts made so far
    budget                   \* what is left of Budget

cluster == <<tapp, pods, lost>>
watch == <<tappEvents, podEvents>>
caches == <<cachedTApp, cachedPods, nodesSynced>>
locals == <<app, fresh, list, listed, plan, todo, retry, tries>>
vars == <<cluster, watch, caches, pc, locals, budget>>

updateRetries == 3
statusUpdateRetries == 2

NoPods == [i \in Id |-> NoPod]
NoPlan == [add |-> {}, del |-> {}, forceDel |-> {}, update |-> {}]

PodEvent == [id : Id, pod : Pod \cup {NoPod}]

TypeOK ==
    /\ tapp \in TApp /\ pods \in PodMap /\ lost \subseteq Id
    /\ tappEvents \in Seq(TApp) /\ podEvents \in Seq(PodEvent)
    /\ cachedTApp \in TApp /\ cachedPods \in PodMap /\ nodesSynced \in BOOLEAN
    /\ pc \in {"idle", "preprocess", "preprocessStatus", "list", "conditions", "instances",
               "updates", "status"}
    /\ app \in TApp /\ fresh \in BOOLEAN
    /\ list \in PodMap /\ listed \subseteq Id
    /\ plan \in InstancePlan /\ todo \subseteq Id
    /\ retry \subseteq Id /\ tries \in 0 .. updateRetries
    /\ budget \in BudgetType

Init ==
    /\ tapp = InitTApp /\ pods = InitPods /\ lost = {}
    /\ tappEvents = <<>> /\ podEvents = <<>>
    /\ cachedTApp = InitTApp /\ cachedPods = InitPods /\ nodesSynced = NodesSyncedAtStart
    /\ pc = "idle" /\ app = InitTApp /\ fresh = FALSE
    /\ list = NoPods /\ listed = {} /\ plan = NoPlan /\ todo = {}
    /\ retry = {} /\ tries = 0
    /\ budget = Budget

-----------------------------------------------------------------------------
(* The API server *)

TAppCurrent == tappEvents = <<>>

PodCurrent(i) == \A k \in DOMAIN podEvents : podEvents[k].id # i

\* Store t; a write that changes nothing makes no new version and no event
WriteTApp(t) ==
    \/ t = tapp /\ UNCHANGED <<tapp, tappEvents>>
    \/ /\ t # tapp /\ Len(tappEvents) < MaxLag
       /\ tapp' = t /\ tappEvents' = Append(tappEvents, t)

WritePod(i, pod) ==
    \/ pod = pods[i] /\ UNCHANGED <<pods, podEvents, listed>>
    \/ /\ pod # pods[i] /\ Len(podEvents) < MaxLag
       /\ pods' = [pods EXCEPT ![i] = pod]
       /\ podEvents' = Append(podEvents, [id |-> i, pod |-> pod])
       /\ listed' = listed \ {i}

\* What can become of an update of a copy that is (not) current.  "error": nothing
\* was done; "timeout": it was done and the caller still sees an error.
Outcome(current) ==
    (IF current THEN {"ok"} ELSE {"conflict"}) \cup
    (IF budget.faults = 0 THEN {} ELSE IF current THEN {"error", "timeout"} ELSE {"error"})

Charge(r) ==
    budget' = IF r \in {"error", "timeout"} THEN [budget EXCEPT !.faults = @ - 1] ELSE budget

Applied(r) == r \in {"ok", "timeout"}

-----------------------------------------------------------------------------
(* Sync *)

\* Sync returns, with or without an error: its locals are gone
Return ==
    /\ pc' = "idle" /\ app' = InitTApp /\ fresh' = FALSE
    /\ list' = NoPods /\ listed' = {} /\ plan' = NoPlan
    /\ todo' = {} /\ retry' = {} /\ tries' = 0

\* The copy of the cached TApp, and the pre-update of preprocessTApp: an Update that
\* changes nothing, so it succeeds only on the current version and returns that version.
\* A refused call ends the Sync with nothing changed.
GetTApp ==
    /\ pc = "idle"
    /\ \/ cachedTApp.gen = cachedTApp.status.observed /\ app' = cachedTApp
       \/ cachedTApp.gen # cachedTApp.status.observed /\ TAppCurrent /\ app' = tapp
    /\ fresh' = TAppCurrent
    /\ pc' = "preprocess"
    /\ UNCHANGED <<cluster, watch, caches, list, listed, plan, todo, retry, tries, budget>>

\* The object preprocessTApp wants.  A changed spec goes through Update, which answers
\* with the status of the server: scaleLabelSelector has to wait for the next Sync.
preprocessed ==
    LET spec == preprocessSpec(app.spec)
    IN  IF spec # app.spec
        THEN [gen |-> app.gen + 1, spec |-> spec, status |-> tapp.status]
        ELSE [app EXCEPT !.status.scale = TRUE]

\* After an Update of the spec UpdateStatus is called as well when the answered status is not
\* the one Sync began with: it began with a cached status that a failed retry had edited.
statusAnswered == preprocessed.spec # app.spec /\ tapp.status # app.status

\* setLabelSelector and setScaleLabelSelector end the Sync when there is no selector
hasSelector == preprocessSpec(app.spec).selector = "set"

preprocessTApp ==
    /\ pc = "preprocess"
    /\ UNCHANGED <<pods, lost, podEvents, caches>>
    /\ \/ ~hasSelector /\ Return /\ UNCHANGED <<tapp, tappEvents, budget>>
       \/ /\ hasSelector /\ preprocessed = app
          /\ pc' = "list"
          /\ UNCHANGED <<tapp, tappEvents, locals, budget>>
       \/ /\ hasSelector /\ preprocessed # app
          /\ \E r \in Outcome(fresh) :
               /\ Charge(r)
               /\ WriteTApp(IF Applied(r) THEN preprocessed ELSE tapp)
               /\ \/ /\ r = "ok"
                     /\ app' = preprocessed /\ fresh' = TRUE
                     /\ pc' = IF statusAnswered THEN "preprocessStatus" ELSE "list"
                     /\ UNCHANGED <<list, listed, plan, todo, retry, tries>>
                  \/ r # "ok" /\ Return

\* That UpdateStatus sends back what the API server has just answered
preprocessStatus ==
    /\ pc = "preprocessStatus"
    /\ UNCHANGED <<cluster, watch, caches>>
    /\ \E r \in Outcome(fresh) :
         /\ Charge(r)
         /\ \/ r = "ok" /\ pc' = "list" /\ UNCHANGED locals
            \/ r # "ok" /\ Return

\* needForceDelete asks a node store that Run does not wait for
NoNode == IF nodesSynced THEN lost ELSE Id

appFinished ==
    /\ isTAppFinished(app) /\ app.gen = app.status.observed
    /\ app.spec.replicas = getTotalReplicas(app.status.statuses)
    /\ cachedPods = NoPods

\* getPodsForTApp, the early return for a finished TApp, and instanceToSync
ListPods ==
    /\ pc = "list"
    /\ UNCHANGED <<cluster, watch, caches, budget>>
    /\ \/ appFinished /\ Return
       \/ /\ ~appFinished
          /\ list' = cachedPods
          /\ listed' = {i \in Id : PodCurrent(i)}
          /\ plan' \in instanceToSync(app, cachedPods, NoNode)
          /\ todo' = {i \in Id : cachedPods[i] # NoPod}
          /\ pc' = "conditions"
          /\ UNCHANGED <<app, fresh, retry, tries>>

\* Faulty variant: syncPodConditions is told about the deletes only.
gateOfDeletes(i) ==
    IF i \in plan.del \/ (list[i].phase = "Running" /\ isUpdating(list[i]))
    THEN "False" ELSE "True"

\* The condition syncPodConditions wants pod i to have
gateOf(i) ==
    IF i \in plan.del \cup plan.update \/ (list[i].phase = "Running" /\ isUpdating(list[i]))
    THEN "False" ELSE "True"

withGate(pod, gate) ==
    [pod EXCEPT !.gate = gate,
                !.ready = IF gate = "False" /\ @ = "True" THEN "Gate"
                          ELSE IF gate = "True" /\ @ = "Gate" THEN "True" ELSE @]

\* One goroutine of syncPodConditions.  The first try edits Sync's own copy of the pod;
\* after a conflict the second edits the object in the informer cache.
setInPlaceUpdateCondition(i) ==
    LET again  == i \in retry
        source == IF again THEN cachedPods[i] ELSE list[i]
        new    == withGate(source, gateOf(i))
        needUpdate == source # NoPod /\ source.gate # gateOf(i)
        Finish == todo' = todo \ {i} /\ UNCHANGED retry
    IN  /\ pc = "conditions" /\ i \in todo
        /\ UNCHANGED <<tapp, lost, tappEvents, cachedTApp, nodesSynced,
                       pc, app, fresh, plan, tries>>
        /\ \/ /\ ~needUpdate
              /\ Finish
              /\ UNCHANGED <<pods, podEvents, cachedPods, list, listed, budget>>
           \/ /\ needUpdate
              /\ list' = IF again THEN list ELSE [list EXCEPT ![i] = new]
              /\ cachedPods' = IF again THEN [cachedPods EXCEPT ![i] = new] ELSE cachedPods
              /\ \E r \in Outcome(IF again THEN PodCurrent(i) ELSE i \in listed) :
                   /\ Charge(r)
                   /\ WritePod(i, IF Applied(r)
                                  THEN [pods[i] EXCEPT !.gate = new.gate, !.ready = new.ready]
                                  ELSE pods[i])
                   /\ \/ /\ r = "conflict" /\ ~again /\ pods[i] # NoPod
                         /\ retry' = retry \cup {i} /\ UNCHANGED todo
                      \/ ~(r = "conflict" /\ ~again /\ pods[i] # NoPod) /\ Finish

\* wg.Wait() of syncPodConditions
WaitConditions ==
    /\ pc = "conditions" /\ todo = {}
    /\ pc' = "instances"
    /\ todo' = plan.add \cup plan.del \cup plan.forceDel
    /\ retry' = {}
    /\ UNCHANGED <<cluster, watch, caches, app, fresh, list, listed, plan, tries, budget>>

newPod(i) ==
    [tmpl |-> getPodTemplate(app.spec, i), phase |-> "Pending", dying |-> FALSE,
     gate |-> "None", ready |-> "None", run |-> "none", inPlace |-> FALSE]

\* The frame of the three goroutines of SyncInstances.  Each makes one call that asks for
\* no version; its error is only logged.
InstanceStep(i) ==
    /\ pc = "instances" /\ i \in todo
    /\ todo' = todo \ {i}
    /\ UNCHANGED <<tapp, tappEvents, caches, pc, app, fresh, list, plan, retry, tries>>

createInstance(i) ==
    /\ i \in plan.add /\ InstanceStep(i) /\ UNCHANGED lost
    /\ \E r \in Outcome(TRUE) :
         /\ Charge(r)
         /\ WritePod(i, IF Applied(r) /\ cachedPods[i] = NoPod /\ pods[i] = NoPod
                        THEN newPod(i) ELSE pods[i])

deleteInstance(i) ==
    /\ i \in plan.del /\ InstanceStep(i) /\ UNCHANGED lost
    /\ \E r \in Outcome(TRUE) :
         /\ Charge(r)
         /\ WritePod(i, IF /\ Applied(r) /\ pods[i] # NoPod
                           /\ cachedPods[i] # NoPod /\ ~isPodDying(cachedPods[i])
                        THEN [pods[i] EXCEPT !.dying = TRUE] ELSE pods[i])

forceDeleteInstance(i) ==
    /\ i \in plan.forceDel /\ InstanceStep(i)
    /\ \E r \in Outcome(TRUE) :
         LET gone == Applied(r) /\ cachedPods[i] # NoPod
         IN  /\ Charge(r)
             /\ WritePod(i, IF gone THEN NoPod ELSE pods[i])
             /\ lost' = IF gone THEN lost \ {i} ELSE lost

\* wg.Wait() of SyncInstances
WaitInstances ==
    /\ pc = "instances" /\ todo = {}
    /\ pc' = "updates"
    /\ todo' = plan.update
    /\ UNCHANGED <<cluster, watch, caches, app, fresh, list, listed, plan, retry, tries, budget>>

\* The update slice: what the force pass took in its order, then the rolling ids ascending
nextUpdate(i) ==
    /\ i \in todo /\ retry \subseteq {i}
    /\ isInRollingUpdate(app.spec, i) =>
         \A j \in todo \ {i} : isInRollingUpdate(app.spec, j) /\ i < j

\* mergePod, with the annotation setInPlaceUpdateAnnotation put into the expected pod
mergePod(pod, i) == [pod EXCEPT !.tmpl = getPodTemplate(app.spec, i), !.inPlace = TRUE]

\* One attempt of ApiServerInstanceClient.Update on a fresh copy of the cached pod
updateInstance(i) ==
    LET Finish == todo' = todo \ {i} /\ retry' = {} /\ tries' = 0
    IN  /\ pc = "updates" /\ nextUpdate(i)
        /\ UNCHANGED <<tapp, lost, tappEvents, caches, pc, app, fresh, list, plan>>
        /\ \/ cachedPods[i] = NoPod /\ Finish /\ UNCHANGED <<pods, podEvents, listed, budget>>
           \/ /\ cachedPods[i] # NoPod
              /\ \E r \in Outcome(PodCurrent(i)) :
                   /\ Charge(r)
                   /\ WritePod(i, IF Applied(r) THEN mergePod(pods[i], i) ELSE pods[i])
                   /\ \/ (r = "ok" \/ tries = updateRetries) /\ Finish
                      \/ /\ r # "ok" /\ tries < updateRetries
                         /\ retry' = {i} /\ tries' = tries + 1 /\ UNCHANGED todo

\* SyncInstances is done; updateTAppStatus begins with shouldUpdateTAppStatus
FinishInstances ==
    /\ pc = "updates" /\ todo = {}
    /\ UNCHANGED <<cluster, watch, caches, budget>>
    /\ \/ /\ shouldUpdateTAppStatus(app, list) /\ pc' = "status" /\ UNCHANGED locals
       \/ ~shouldUpdateTAppStatus(app, list) /\ Return

\* The TApp of a round: Sync's own copy, then the object in the informer cache
statusTApp == IF tries = 0 THEN app ELSE cachedTApp

\* Faulty variant: the statuses are computed once, before the first round; a retry takes the
\* generation of the TApp it reads again.
hoistedStatus ==
    [statusTApp EXCEPT !.status.statuses = getInstanceStatus(app, list),
                       !.status.observed = statusTApp.gen]

\* The TApp with the status a round sends
roundTApp == withStatus(statusTApp, list)

\* Faulty variant: a retry that gives up after it has edited the cached TApp.
unsentStatus == IF tries = 0 THEN Outcome(fresh) ELSE {"conflict"}

statusOutcome == Outcome(IF tries = 0 THEN fresh ELSE TAppCurrent)

\* One round of updateTAppStatus, which overwrites the status of its TApp before the call
updateTAppStatus ==
    LET new == roundTApp
    IN  /\ pc = "status"
        /\ UNCHANGED <<pods, lost, podEvents, cachedPods, nodesSynced>>
        /\ cachedTApp' = IF tries = 0 THEN cachedTApp ELSE new
        /\ \E r \in statusOutcome :
             /\ Charge(r)
             /\ WriteTApp(IF Applied(r) THEN [tapp EXCEPT !.status = new.status] ELSE tapp)
             /\ \/ (r = "ok" \/ tries = statusUpdateRetries) /\ Return
                \/ /\ r # "ok" /\ tries < statusUpdateRetries
                   /\ tries' = tries + 1
                   /\ UNCHANGED <<pc, app, fresh, list, listed, plan, todo, retry>>

Sync ==
    \/ GetTApp \/ preprocessTApp \/ preprocessStatus \/ ListPods
    \/ \E i \in Id : setInPlaceUpdateCondition(i)
    \/ WaitConditions
    \/ \E i \in Id : createInstance(i)
    \/ \E i \in Id : deleteInstance(i)
    \/ \E i \in Id : forceDeleteInstance(i)
    \/ WaitInstances
    \/ \E i \in Id : updateInstance(i)
    \/ FinishInstances
    \/ updateTAppStatus

-----------------------------------------------------------------------------
(* Informers, and a controller that dies and is replaced *)

DeliverTApp ==
    /\ tappEvents # <<>>
    /\ cachedTApp' = Head(tappEvents) /\ tappEvents' = Tail(tappEvents)
    /\ UNCHANGED <<cluster, podEvents, cachedPods, nodesSynced, pc, locals, budget>>

DeliverPod ==
    /\ podEvents # <<>>
    /\ cachedPods' = [cachedPods EXCEPT ![Head(podEvents).id] = Head(podEvents).pod]
    /\ podEvents' = Tail(podEvents)
    /\ UNCHANGED <<cluster, tappEvents, cachedTApp, nodesSynced, pc, locals, budget>>

SyncNodes ==
    /\ ~nodesSynced /\ nodesSynced' = TRUE
    /\ UNCHANGED <<cluster, watch, cachedTApp, cachedPods, pc, locals, budget>>

\* Run waits for the pod and TApp informers before the workers start, for no other
Crash ==
    /\ budget.crashes > 0 /\ budget' = [budget EXCEPT !.crashes = @ - 1]
    /\ cachedTApp' = tapp /\ cachedPods' = pods /\ nodesSynced' = NodesSyncedAtStart
    /\ tappEvents' = <<>> /\ podEvents' = <<>>
    /\ Return
    /\ UNCHANGED cluster

-----------------------------------------------------------------------------
(* The user, the kubelets and the nodes *)

UserEdit ==
    /\ budget.edits > 0 /\ budget' = [budget EXCEPT !.edits = @ - 1]
    /\ \E s \in Specs \ {tapp.spec} :
         WriteTApp([tapp EXCEPT !.gen = @ + 1, !.spec = s])
    /\ fresh' = FALSE
    /\ UNCHANGED <<pods, lost, podEvents, caches, pc,
                   app, list, listed, plan, todo, retry, tries>>

\* A kubelet reports a new status of its pod i, or that the pod is gone
Report(i, pod) ==
    /\ i \notin lost
    /\ WritePod(i, pod)
    /\ UNCHANGED <<tapp, lost, tappEvents, caches, pc, app, fresh, list, plan, todo, retry, tries>>

\* Ready as the kubelet computes it for running containers: the readiness gate counts
readyWith(gate) ==
    CASE gate = "True" -> "True" [] gate = "False" -> "Gate" [] gate = "None" -> "False"

isAlive(i) == pods[i] # NoPod /\ ~isPodDying(pods[i])

StartPod(i) ==
    /\ isAlive(i) /\ pods[i].phase = "Pending" /\ pods[i].tmpl.image \notin BadImages
    /\ Report(i, [pods[i] EXCEPT !.phase = "Running", !.run = pods[i].tmpl.image,
                                 !.ready = readyWith(pods[i].gate)])
    /\ UNCHANGED budget

\* An in-place update: the old container is stopped, then the new image is pulled and run
RestartContainer(i) ==
    /\ isAlive(i) /\ pods[i].phase = "Running" /\ pods[i].run # pods[i].tmpl.image
    /\ \/ /\ pods[i].run # "pulling"
          /\ Report(i, [pods[i] EXCEPT !.run = "pulling", !.ready = "False"])
       \/ /\ pods[i].run = "pulling" /\ pods[i].tmpl.image \notin BadImages
          /\ Report(i, [pods[i] EXCEPT !.run = pods[i].tmpl.image,
                                       !.ready = readyWith(pods[i].gate)])
    /\ UNCHANGED budget

ReportReady(i) ==
    /\ isAlive(i) /\ pods[i].phase = "Running" /\ pods[i].run = pods[i].tmpl.image
    /\ pods[i].ready # readyWith(pods[i].gate)
    /\ Report(i, [pods[i] EXCEPT !.ready = readyWith(pods[i].gate)])
    /\ UNCHANGED budget

\* Containers exit as the restart policy allows; Failed is also an eviction, or, for a
\* pending pod, a rejection by the kubelet
ExitPod(i) ==
    /\ isAlive(i) /\ pods[i].phase \in {"Pending", "Running"}
    /\ budget.exits > 0 /\ budget' = [budget EXCEPT !.exits = @ - 1]
    /\ \E phase \in {"Succeeded", "Failed"} :
         /\ phase = "Succeeded" => pods[i].phase = "Running" /\ pods[i].tmpl.restart # "Always"
         /\ Report(i, [pods[i] EXCEPT !.phase = phase, !.ready = "False"])

RemovePod(i) ==
    /\ pods[i] # NoPod /\ isPodDying(pods[i])
    /\ Report(i, NoPod)
    /\ UNCHANGED budget

NodeFails(i) ==
    /\ pods[i] # NoPod /\ i \notin lost
    /\ budget.losses > 0 /\ budget' = [budget EXCEPT !.losses = @ - 1]
    /\ lost' = lost \cup {i}
    /\ UNCHANGED <<tapp, pods, watch, caches, pc, locals>>

\* The node lifecycle controller deletes the pods of a lost node; no kubelet confirms it
EvictPod(i) ==
    /\ i \in lost /\ isAlive(i)
    /\ WritePod(i, [pods[i] EXCEPT !.dying = TRUE])
    /\ UNCHANGED <<tapp, lost, tappEvents, caches, pc, app, fresh, list, plan, todo, retry,
                   tries, budget>>

Kubelet(i) == StartPod(i) \/ RestartContainer(i) \/ ReportReady(i) \/ RemovePod(i)

Next ==
    \/ Sync
    \/ DeliverTApp \/ DeliverPod \/ SyncNodes \/ Crash
    \/ UserEdit
    \/ \E i \in Id : StartPod(i)
    \/ \E i \in Id : RestartContainer(i)
    \/ \E i \in Id : ReportReady(i)
    \/ \E i \in Id : ExitPod(i)
    \/ \E i \in Id : RemovePod(i)
    \/ \E i \in Id : NodeFails(i)
    \/ \E i \in Id : EvictPod(i)

Spec == Init /\ [][Next]_vars

\* The 30 s resync of the TApp informer re-enqueues the key for ever; informers, kubelets
\* and the node lifecycle controller keep working.
Fairness ==
    /\ WF_vars(Sync) /\ WF_vars(DeliverTApp) /\ WF_vars(DeliverPod) /\ WF_vars(SyncNodes)
    /\ \A i \in Id : WF_vars(Kubelet(i)) /\ WF_vars(EvictPod(i))

FairSpec == Spec /\ Fairness

-----------------------------------------------------------------------------
(* The inductive invariant of TAppControllerProofs *)

\* Sync has a plan only after instanceToSync, and newInstance cannot fail on it
PlanBacked ==
    /\ pc \in {"idle", "preprocess", "preprocessStatus", "list"} => plan = NoPlan
    /\ pc = "updates" => todo \subseteq plan.update
    /\ \A i \in plan.add \cup plan.update : getPodTemplate(app.spec, i) # NoTemplate

SameSpec(t, u) == t.gen = u.gen /\ t.spec = u.spec

\* The newest event is the stored TApp; a copy of its version has its spec
TAppWatched ==
    /\ tappEvents # <<>> => tappEvents[Len(tappEvents)] = tapp
    /\ TAppCurrent => SameSpec(cachedTApp, tapp)
    /\ fresh => SameSpec(app, tapp)

\* The newest event of a pod is the stored pod; a copy of its version exists when it does
PodsWatched ==
    /\ \A k \in DOMAIN podEvents :
         (\A m \in DOMAIN podEvents : m > k => podEvents[m].id # podEvents[k].id) =>
            podEvents[k].pod = pods[podEvents[k].id]
    /\ \A i \in Id : PodCurrent(i) => (cachedPods[i] = NoPod <=> pods[i] = NoPod)
    /\ \A i \in listed : list[i] = NoPod <=> pods[i] = NoPod

\* Every copy of the TApp keeps the promise, also those that are behind or edited in place
AllTruthful ==
    /\ Truthful(tapp) /\ Truthful(cachedTApp) /\ Truthful(app)
    /\ \A k \in DOMAIN tappEvents : Truthful(tappEvents[k])

Inv == TypeOK /\ PlanBacked /\ TAppWatched /\ PodsWatched /\ AllTruthful

(* The inductive invariants of WatchProofs *)

\* No call fails that the environment does not pay for
NoFaults == Budget.faults = 0 => budget.faults = 0

\* A version of a pod that no later version brings back to life
isDoomed(pod) == pod = NoPod \/ isPodDying(pod)

\* One stream never spans two pods of the same name with a removal in between: createInstance
\* asks the cache, so it creates a pod only when the removal of the last one was delivered.
PodStream ==
    /\ \A k, m \in DOMAIN podEvents : k < m /\ podEvents[k].id = podEvents[m].id =>
         /\ podEvents[k].pod # NoPod
         /\ isDoomed(podEvents[k].pod) => isDoomed(podEvents[m].pod)
    /\ \A k \in DOMAIN podEvents :
         /\ podEvents[k].pod = NoPod => cachedPods[podEvents[k].id] # NoPod
         /\ isDoomed(podEvents[k].pod) => isDoomed(pods[podEvents[k].id])
    /\ \A i \in Id : cachedPods[i] # NoPod /\ isPodDying(cachedPods[i]) =>
         /\ isDoomed(pods[i])
         /\ \A k \in DOMAIN podEvents : podEvents[k].id = i => isDoomed(podEvents[k].pod)
    /\ \A i \in Id : cachedPods[i] = NoPod =>
         /\ pods[i] = NoPod => PodCurrent(i)
         /\ pods[i] # NoPod /\ isPodDying(pods[i]) => i \in lost

\* An instance that Sync has still to delete forcefully is on a lost node, and the pod the
\* plan was made for is dying or was removed and not replaced
ForcePlanned ==
    NodesSyncedAtStart =>
      /\ nodesSynced
      /\ \A i \in plan.forceDel :
           pc = "conditions" \/ (pc = "instances" /\ i \in todo) =>
             /\ i \in lost
             /\ IF cachedPods[i] = NoPod THEN pods[i] = NoPod ELSE isPodDying(cachedPods[i])

-----------------------------------------------------------------------------
(* Properties *)

\* A status that claims to have observed the current generation has an entry for every
\* instance of the current spec, and none that calls a killed instance "not created":
\* no write of updateTAppStatus or preprocessTApp pairs an old status with a new spec.
ObservedTruth == Truthful(tapp)

\* observedGeneration never goes back, and moves only to the generation it is stored with,
\* whatever conflicts, retries on the cached object and restarts happen in between.
ObservedForward ==
    [][LET old == tapp.status.observed
           new == tapp'.status.observed
       IN  new = old \/ (new > old /\ new = tapp'.gen)]_vars

\* While no API call fails, an informer cache that has caught up shows the stored objects,
\* although the retries of updateTAppStatus and setInPlaceUpdateCondition write into it.
CacheCoherent ==
    Budget.faults = 0 =>
      /\ TAppCurrent => cachedTApp = tapp
      /\ \A i \in Id : PodCurrent(i) => cachedPods[i] = pods[i]

wanted == {i \in Id : i < tapp.spec.replicas} \ tapp.spec.killed

\* Pods that serve: what getAvailablePods counts, taken from the server and not a cache
serving == getAvailablePods(pods, wanted)

\* A rolling update of a healthy TApp never takes more than maxUnavailable instances out
\* of service, although every Sync plans from caches that may be behind.  This is claimed
\* for one edit of a settled TApp (RollingUpdate in Rollout).
RollingBudget ==
    Cardinality(wanted \ serving)
      <= scaledValue(setDefaultValue(tapp.spec).maxUnavailable, Cardinality(wanted))

\* An in-place update replaces the image of a pod only after the pod was taken out of
\* service through its readiness gate.  This is claimed for one edit of a settled TApp: two
\* conflicts in a row end setInPlaceUpdateCondition without a write, and Sync goes on.
Drained ==
    [][\A i \in Id : updateInstance(i) /\ pods'[i] # pods[i] => pods[i].ready # "True"]_vars

\* The grace-period-0 delete, which goes by name only, hits a pod that is already being
\* deleted and whose node is down, never a healthy pod or a replacement.
ForceDeleteSafe ==
    [][\A i \in Id : forceDeleteInstance(i) /\ pods'[i] # pods[i] =>
          isPodDying(pods[i]) /\ i \in lost]_vars

converged ==
    /\ tapp.status.observed = tapp.gen /\ tapp.status.scale
    /\ \A i \in Id :
         IF i \in wanted
         THEN /\ i \in serving
              /\ pods[i].tmpl = getPodTemplate(tapp.spec, i)
              /\ pods[i].run = pods[i].tmpl.image
              /\ tapp.status.statuses[i] = "Running"
         ELSE /\ pods[i] = NoPod
              /\ tapp.status.statuses[i] =
                   IF i < tapp.spec.replicas THEN "Killed" ELSE "None"

\* Once the user and the faults leave it alone, the TApp reaches its spec and stays there:
\* every wanted instance serves the right template, no other pod is left, status says so.
Converges == <>[]converged

\* Every wanted instance whose image can be pulled ends up serving its template, whatever
\* state an earlier spec or a failed call left its pod in.
EveryWantedServes ==
    <>[](\A i \in wanted : getPodTemplate(tapp.spec, i).image \notin BadImages =>
            i \in serving /\ pods[i].tmpl = getPodTemplate(tapp.spec, i))

\* The pod of a finished instance goes away only after the stored status has recorded the
\* result: otherwise getInstanceStatus calls it not created and its work is done again.
RecordedBeforeRemoved ==
    [][\A i \in wanted :
         /\ pods[i] # NoPod /\ isPodCompleted(pods[i]) /\ pods'[i] = NoPod
         /\ ~shouldPodMigrate(tapp.spec, i, pods[i])
         => isInstanceFinished(tapp.status.statuses[i])]_vars
=============================================================================
