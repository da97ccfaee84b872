------------------------------ MODULE Dispatch ------------------------------
(***************************************************************************)
(* How a change in the cluster becomes a Sync: the TApp and pod informers  *)
(* and their event handlers, the search for the TApp of a pod, the rate    *)
(* limited work queue and the workers.  What a Sync does is the subject of *)
(* TAppController; here a Sync reads its TApp, gives it a selector when it *)
(* has none, lists its pods and succeeds or fails.                         *)
(*                                                                         *)
(* An informer first changes its store and calls the handlers later, so    *)
(* the notifications not yet handled are a part of the state.              *)
(***************************************************************************)
EXTENDS Naturals, Sequences, FiniteSets, Functions

CONSTANTS
    Keys,           \* TApps
    NoKey,
    Created, Name,  \* creation time of a TApp; place of its name in the alphabet
    Starts,         \* the clusters to start with: [selector, tapp, pods]
    Invalid,        \* a selector that does not parse
    PodNames,
    Owner,          \* the TApp in the controllerRef of a pod
    PodLabels,      \* label sets a pod may have
    NoPod,
    Workers,        \* a set of numbers; its size is threadiness
    MaxEvents       \* bound on changes of the cluster, failing calls, broken watches and crashes

ASSUME OrderAssumption ==
    /\ Created \in [Keys -> Nat] /\ Name \in [Keys -> Nat]
    /\ \A k, l \in Keys : Name[k] = Name[l] => k = l

ASSUME OwnerAssumption == Owner \in [PodNames -> Keys]

ASSUME EventsAssumption == MaxEvents \in Nat /\ IsFiniteSet(PodNames)

VARIABLES
    selector,                \* the selector each TApp has, or will be given
    tapp, pods,              \* the objects in the API server
    podEvents,               \* pod changes the watch has not delivered, oldest first
    cachedTApp, cachedPods,  \* the informer stores
    tappsSynced, podsSynced,
    tappNotes, podNotes,     \* notifications the handlers have not taken yet
    queue, dirty, processing, delayed,  \* the work queue
    pc, key,                 \* of each worker: where it is, its key
    stale,                   \* TApps the stores changed for since a Sync read them (history)
    events                   \* events so far

cluster == <<tapp, pods, podEvents>>
stores == <<cachedTApp, cachedPods, tappsSynced, podsSynced>>
notes == <<tappNotes, podNotes>>
workqueue == <<queue, dirty, processing, delayed>>
workers == <<pc, key>>
vars == <<selector, cluster, stores, notes, workqueue, workers, stale, events>>

\* "new": stored without a selector, "set": stored with its selector
Stages == {"none", "new", "set", "deleted"}
Present(stage) == stage \in {"new", "set"}

Pod == [labels : PodLabels, version : Nat]
PodOrNone == Pod \cup {NoPod}
PodEvent == [name : PodNames, pod : PodOrNone]
Note == [kind : {"add", "update", "updateOld", "delete"}, old : PodOrNone, cur : PodOrNone]

\* Versions are counted from the start
ASSUME StartsAssumption ==
    \A s \in Starts :
        /\ s.tapp \in [Keys -> Stages]
        /\ s.pods \in [PodNames -> [labels : PodLabels, version : {0}] \cup {NoPod}]

TypeOK ==
    /\ tapp \in [Keys -> Stages] /\ cachedTApp \in [Keys -> Stages]
    /\ pods \in [PodNames -> PodOrNone] /\ cachedPods \in [PodNames -> PodOrNone]
    /\ podEvents \in Seq(PodEvent) /\ podNotes \in Seq(Note) /\ tappNotes \subseteq Keys
    /\ tappsSynced \in BOOLEAN /\ podsSynced \in BOOLEAN
    /\ queue \in Seq(Keys) /\ dirty \subseteq Keys
    /\ processing \subseteq Keys /\ delayed \subseteq Keys
    /\ pc \in [Workers -> {"idle", "sync", "done"}]
    /\ key \in [Workers -> Keys \cup {NoKey}]
    /\ stale \subseteq Keys /\ events \in 0 .. MaxEvents

Init ==
    /\ \E s \in Starts : selector = s.selector /\ tapp = s.tapp /\ pods = s.pods
    /\ cachedTApp = [k \in Keys |-> "none"]
    /\ cachedPods = [p \in PodNames |-> NoPod]
    /\ podEvents = <<>> /\ podNotes = <<>> /\ tappNotes = {}
    /\ tappsSynced = FALSE /\ podsSynced = FALSE
    /\ queue = <<>> /\ dirty = {} /\ processing = {} /\ delayed = {}
    /\ pc = [w \in Workers |-> "idle"]
    /\ key = [w \in Workers |-> NoKey]
    /\ stale = {}
    /\ events = 0

Event == events < MaxEvents /\ events' = events + 1

-----------------------------------------------------------------------------
(* The work queue *)

\* Faulty variant: a key that is being handled is queued at once
AddHeld(k) ==
    /\ dirty' = dirty \cup {k}
    /\ queue' = IF k \in dirty THEN queue ELSE Append(queue, k)
    /\ UNCHANGED <<processing, delayed>>

\* A key that is waiting is not queued twice, one that is being handled not before Done
Push(k) ==
    /\ dirty' = dirty \cup {k}
    /\ queue' = IF k \in dirty \cup processing THEN queue ELSE Append(queue, k)

Add(k) == Push(k) /\ UNCHANGED <<processing, delayed>>

\* The delay of AddRateLimited is over
AddDelayed(k) ==
    /\ k \in delayed
    /\ delayed' = delayed \ {k}
    /\ Push(k)
    /\ UNCHANGED <<selector, cluster, stores, notes, processing, workers, stale, events>>

-----------------------------------------------------------------------------
(* Handlers *)

\* overlappingTApps: the oldest first, then by name
Less(k, l) == Created[k] < Created[l] \/ (Created[k] = Created[l] /\ Name[k] < Name[l])

Matches(k, labels) ==
    /\ cachedTApp[k] = "set"
    /\ selector[k] # Invalid
    /\ selector[k] # {} /\ selector[k] \subseteq labels

\* The one TApp a pod with these labels wakes, as a set of at most one key.  A single
\* TApp with a selector that does not parse spoils the search for every pod.
getTAppForPod(labels) ==
    IF labels = {} \/ \E k \in Keys : cachedTApp[k] = "set" /\ selector[k] = Invalid
    THEN {}
    ELSE LET tapps == {k \in Keys : Matches(k, labels)}
         IN {k \in tapps : \A l \in tapps \ {k} : Less(k, l)}

EnqueueOwner(pod) ==
    \/ \E k \in getTAppForPod(pod.labels) : Add(k)
    \/ getTAppForPod(pod.labels) = {} /\ UNCHANGED workqueue

addPod ==
    /\ podNotes # <<>> /\ Head(podNotes).kind = "add"
    /\ EnqueueOwner(Head(podNotes).cur)
    /\ podNotes' = Tail(podNotes)
    /\ UNCHANGED <<selector, cluster, stores, tappNotes, workers, stale, events>>

\* Faulty variant: the TApp a relabelled pod had before is not told
updateCurOnly ==
    /\ podNotes # <<>> /\ Head(podNotes).kind = "update"
    /\ EnqueueOwner(Head(podNotes).cur)
    /\ podNotes' = Tail(podNotes)
    /\ UNCHANGED <<selector, cluster, stores, tappNotes, workers, stale, events>>

\* A resync repeats the version that is known.  Else the TApp of the pod is enqueued and,
\* when the labels differ, the TApp it had before: by updateOldPod, a second lock of the
\* queue later.
updatePod ==
    /\ podNotes # <<>> /\ Head(podNotes).kind = "update"
    /\ LET n == Head(podNotes)
       IN \/ /\ n.cur.version = n.old.version
             /\ podNotes' = Tail(podNotes) /\ UNCHANGED workqueue
          \/ /\ n.cur.version # n.old.version
             /\ EnqueueOwner(n.cur)
             /\ podNotes' = IF n.cur.labels = n.old.labels THEN Tail(podNotes)
                            ELSE [podNotes EXCEPT ![1].kind = "updateOld"]
    /\ UNCHANGED <<selector, cluster, stores, tappNotes, workers, stale, events>>

updateOldPod ==
    /\ podNotes # <<>> /\ Head(podNotes).kind = "updateOld"
    /\ EnqueueOwner(Head(podNotes).old)
    /\ podNotes' = Tail(podNotes)
    /\ UNCHANGED <<selector, cluster, stores, tappNotes, workers, stale, events>>

\* A tombstone of a relist carries the pod as it was last known, like a delete event
deletePod ==
    /\ podNotes # <<>> /\ Head(podNotes).kind = "delete"
    /\ EnqueueOwner(Head(podNotes).old)
    /\ podNotes' = Tail(podNotes)
    /\ UNCHANGED <<selector, cluster, stores, tappNotes, workers, stale, events>>

\* Added, updated, resynced and deleted TApps are all enqueued
enqueueTApp(k) ==
    /\ k \in tappNotes
    /\ Add(k)
    /\ tappNotes' = tappNotes \ {k}
    /\ UNCHANGED <<selector, cluster, stores, podNotes, workers, stale, events>>

\* The pods Sync finds for its TApp: those its selector matches and whose controllerRef
\* names it, unlike getTAppForPod, which never looks at the controllerRef
PodsOf(k, store) ==
    {p \in PodNames : store[p] # NoPod /\ Owner[p] = k /\ selector[k] # Invalid
                       /\ selector[k] \subseteq store[p].labels}

getPodsForTApp(k, store) == [p \in PodsOf(k, store) |-> store[p]]

\* What Sync reads of the stores, and the TApps for which that changes
View(k, stages, store) ==
    CASE stages[k] = "set" -> <<"set", getPodsForTApp(k, store)>>
      [] stages[k] = "new" -> <<"new">>  \* no selector, no pods
      [] OTHER -> <<"none">>

Store(stages, store) ==
    /\ cachedTApp' = stages /\ cachedPods' = store
    /\ stale' = stale \cup
         {k \in Keys : View(k, stages, store) # View(k, cachedTApp, cachedPods)}

-----------------------------------------------------------------------------
(* Informers *)

After(stage) ==
    IF stage = "new" THEN "set" ELSE "deleted"

DeliverTApp(k) ==
    /\ tappsSynced /\ cachedTApp[k] # tapp[k]
    /\ Store([cachedTApp EXCEPT ![k] = After(@)], cachedPods)
    /\ tappNotes' = tappNotes \cup {k}
    /\ UNCHANGED <<selector, cluster, tappsSynced, podsSynced, podNotes, workqueue, workers,
                   events>>

\* What the handlers are told when the store has one copy of a pod and gets another
NoteOf(old, cur) ==
    [kind |-> IF old = NoPod THEN "add" ELSE IF cur = NoPod THEN "delete" ELSE "update",
     old |-> old, cur |-> cur]

DeliverPod ==
    /\ podsSynced /\ podEvents # <<>>
    /\ LET e == Head(podEvents)
       IN /\ Store(cachedTApp, [cachedPods EXCEPT ![e.name] = e.pod])
          /\ podNotes' = Append(podNotes, NoteOf(cachedPods[e.name], e.pod))
    /\ podEvents' = Tail(podEvents)
    /\ UNCHANGED <<selector, tapp, pods, tappsSynced, podsSynced, tappNotes, workqueue, workers,
                   events>>

\* The first list of an informer, or a new one after its watch broke: the store becomes
\* what the server has, and what it missed is told at once
EventUnlessFirst(synced) ==
    \/ ~synced /\ UNCHANGED events
    \/ synced /\ Event

ListTApps ==
    /\ EventUnlessFirst(tappsSynced)
    /\ Store(tapp, cachedPods) /\ tappsSynced' = TRUE
    /\ tappNotes' = tappNotes \cup {k \in Keys : Present(tapp[k]) \/ Present(cachedTApp[k])}
    /\ UNCHANGED <<selector, cluster, podsSynced, podNotes, workqueue, workers>>

ListPods ==
    /\ EventUnlessFirst(podsSynced)
    /\ Store(cachedTApp, pods) /\ podsSynced' = TRUE
    /\ podEvents' = <<>>
    /\ LET known == {p \in PodNames : pods[p] # NoPod \/ cachedPods[p] # NoPod}
           n == Cardinality(known)
       IN \E ps \in Bijection(1 .. n, known) :
            podNotes' = podNotes \o [i \in 1 .. n |-> NoteOf(cachedPods[ps[i]], pods[ps[i]])]
    /\ UNCHANGED <<selector, tapp, pods, tappsSynced, tappNotes, workqueue, workers>>

\* Faulty variant: a TApp whose version is known is not enqueued, as for pods
ResyncIgnored == tappsSynced /\ UNCHANGED vars

\* Every 30 s each TApp in the store is reported as updated.  Bound: a resync comes when the
\* handlers are through and only TApps that can never succeed are being handled.
Resync ==
    /\ tappsSynced
    /\ tappNotes = {} /\ podNotes = <<>>
    /\ \A k \in dirty \cup processing : selector[k] = Invalid
    /\ \E k \in Keys : Present(cachedTApp[k])
    /\ tappNotes' = {k \in Keys : Present(cachedTApp[k])}
    /\ UNCHANGED <<selector, cluster, stores, podNotes, workqueue, workers, stale, events>>

-----------------------------------------------------------------------------
(* Workers *)

\* Run starts them when both informers have listed.  Workers are alike, so the first idle
\* one stands for all.
Get(w) ==
    /\ tappsSynced /\ podsSynced
    /\ pc[w] = "idle" /\ \A v \in Workers : v < w => pc[v] # "idle"
    /\ queue # <<>>
    /\ queue' = Tail(queue)
    /\ dirty' = dirty \ {Head(queue)}
    /\ processing' = processing \cup {Head(queue)}
    /\ key' = [key EXCEPT ![w] = Head(queue)]
    /\ pc' = [pc EXCEPT ![w] = "sync"]
    /\ UNCHANGED <<selector, cluster, stores, notes, delayed, stale, events>>

\* Sync reads its TApp, gives it a selector when it has none (a write that is refused when
\* the copy is old) and reads its pods.  The Forget after a success has no effect here.
SyncOk(w) ==
    /\ pc[w] = "sync"
    /\ LET k == key[w]
           stage == cachedTApp[k]
       IN /\ \/ ~Present(stage) /\ UNCHANGED tapp
             \/ stage = "set" /\ selector[k] # Invalid /\ UNCHANGED tapp
             \/ stage = "new" /\ tapp[k] = "new" /\ tapp' = [tapp EXCEPT ![k] = "set"]
          /\ stale' = stale \ {k}
    /\ pc' = [pc EXCEPT ![w] = "done"]
    /\ UNCHANGED <<selector, pods, podEvents, stores, notes, workqueue, key, events>>

\* Sync fails: the write is refused, a call fails, or the selector does not parse.
\* AddRateLimited comes before the deferred Done, so the retry may come due while the key
\* is still held.
SyncFails(w) ==
    /\ pc[w] = "sync" /\ Present(cachedTApp[key[w]])
    /\ \/ cachedTApp[key[w]] = "new" /\ tapp[key[w]] # "new" /\ UNCHANGED events
       \/ cachedTApp[key[w]] = "set" /\ selector[key[w]] = Invalid /\ UNCHANGED events
       \/ Event
    /\ delayed' = delayed \cup {key[w]}
    /\ pc' = [pc EXCEPT ![w] = "done"]
    /\ UNCHANGED <<selector, cluster, stores, notes, queue, dirty, processing, key, stale>>

\* Faulty variant: the key is never given back
NeverDone(w) ==
    /\ pc[w] = "done"
    /\ pc' = [pc EXCEPT ![w] = "idle"] /\ key' = [key EXCEPT ![w] = NoKey]
    /\ UNCHANGED <<selector, cluster, stores, notes, workqueue, stale, events>>

Done(w) ==
    /\ pc[w] = "done"
    /\ processing' = processing \ {key[w]}
    /\ queue' = IF key[w] \in dirty THEN Append(queue, key[w]) ELSE queue
    /\ pc' = [pc EXCEPT ![w] = "idle"] /\ key' = [key EXCEPT ![w] = NoKey]
    /\ UNCHANGED <<selector, cluster, stores, notes, dirty, delayed, stale, events>>

runWorker(w) == Get(w) \/ SyncOk(w) \/ SyncFails(w) \/ Done(w)

-----------------------------------------------------------------------------
(* Users, kubelets, crashes *)

UserDeletes(k) ==
    /\ tapp[k] = "set" /\ Event
    /\ tapp' = [tapp EXCEPT ![k] = "deleted"]
    /\ UNCHANGED <<selector, pods, podEvents, stores, notes, workqueue, workers, stale>>

\* A pod is created, relabelled, reported on by its kubelet, or removed
PodChanges(p) ==
    /\ tapp[Owner[p]] = "set" /\ Event
    /\ \E pod \in [labels : PodLabels, version : {events'}] \cup {NoPod} :
         /\ pod # NoPod \/ pods[p] # NoPod
         /\ pods' = [pods EXCEPT ![p] = pod]
         /\ podEvents' = Append(podEvents, [name |-> p, pod |-> pod])
    /\ UNCHANGED <<selector, tapp, stores, notes, workqueue, workers, stale>>

\* The process dies and starts again with empty stores
Crash ==
    /\ Event
    /\ cachedTApp' = [k \in Keys |-> "none"] /\ cachedPods' = [p \in PodNames |-> NoPod]
    /\ tappsSynced' = FALSE /\ podsSynced' = FALSE
    /\ tappNotes' = {} /\ podNotes' = <<>>
    /\ queue' = <<>> /\ dirty' = {} /\ processing' = {} /\ delayed' = {}
    /\ pc' = [w \in Workers |-> "idle"]
    /\ key' = [w \in Workers |-> NoKey]
    /\ stale' = {}
    /\ UNCHANGED <<selector, cluster>>

Handlers == addPod \/ updatePod \/ updateOldPod \/ deletePod

Next ==
    \/ Handlers
    \/ DeliverPod \/ ListTApps \/ ListPods \/ Resync \/ Crash
    \/ \E k \in Keys : enqueueTApp(k) \/ AddDelayed(k) \/ DeliverTApp(k) \/ UserDeletes(k)
    \/ \E p \in PodNames : PodChanges(p)
    \/ \E w \in Workers : runWorker(w)

Spec == Init /\ [][Next]_vars

\* Goroutines of the process go on as long as they can
Fairness ==
    /\ WF_vars(Handlers) /\ WF_vars(DeliverPod) /\ WF_vars(Resync)
    /\ WF_vars(ListTApps /\ ~tappsSynced) /\ WF_vars(ListPods /\ ~podsSynced)
    /\ \A k \in Keys : WF_vars(enqueueTApp(k)) /\ WF_vars(AddDelayed(k)) /\ WF_vars(DeliverTApp(k))
    /\ \A w \in Workers : WF_vars(runWorker(w))

FairSpec == Spec /\ Fairness

-----------------------------------------------------------------------------
(* Properties *)

\* Two workers never Sync the same TApp at the same time (the comment of runWorker), which
\* TAppController relies on
OneWorkerPerKey ==
    \A v, w \in Workers : v # w /\ pc[v] # "idle" /\ pc[w] # "idle" => key[v] # key[w]

\* The inductive invariant of DispatchProofs: what is in the queue is dirty, in it once and
\* not being handled; what a worker holds is being handled
QueueInv ==
    /\ queue \in Seq(Keys) /\ dirty \subseteq Keys
    /\ processing \subseteq Keys /\ delayed \subseteq Keys
    /\ pc \in [Workers -> {"idle", "sync", "done"}] /\ key \in [Workers -> Keys \cup {NoKey}]
    /\ \A i \in DOMAIN queue : queue[i] \in dirty \ processing
    /\ \A i, j \in DOMAIN queue : i # j => queue[i] # queue[j]
    /\ \A w \in Workers : pc[w] # "idle" => key[w] \in processing
    /\ OneWorkerPerKey

\* No pod can be taken for one of another TApp, or for nobody's: getTAppForPod lets an empty
\* selector match nothing, getPodsForTApp lets it match everything
Unambiguous ==
    /\ \A k \in Keys : selector[k] # Invalid /\ selector[k] # {}
    /\ \A labels \in PodLabels : \A k, l \in Keys :
         selector[k] \subseteq labels /\ selector[l] \subseteq labels => k = l

Unfinished(k) ==
    \/ k \in dirty \cup delayed
    \/ \E w \in Workers : key[w] = k /\ pc[w] = "sync"

\* All the copies there are of a pod
Copies(p) ==
    {pods[p], cachedPods[p]} \cup
    {podEvents[i].pod : i \in {j \in DOMAIN podEvents : podEvents[j].name = p}}

\* updatePod may take copies with the same version for the same
VersionsTell ==
    \A p \in PodNames : \A c, d \in Copies(p) \ {NoPod} :
        c.version <= events /\ (c.version = d.version => c = d)

BelongsTo(pod, k) == pod # NoPod /\ selector[k] # {} /\ selector[k] \subseteq pod.labels

\* The handler of notification n is going to enqueue TApp k
Wakes(n, k) ==
    \/ n.kind = "add" /\ BelongsTo(n.cur, k)
    \/ /\ n.kind = "update" /\ n.cur.version # n.old.version
       /\ BelongsTo(n.cur, k) \/ (n.cur.labels # n.old.labels /\ BelongsTo(n.old, k))
    \/ n.kind \in {"updateOld", "delete"} /\ BelongsTo(n.old, k)

\* Every TApp the stores changed for is on its way to a Sync: in a notification, in the queue
\* or with a worker that has not read it yet
Told ==
    Unambiguous =>
      \A k \in stale :
        \/ k \in tappNotes \/ Unfinished(k)
        \/ cachedTApp[k] = "set" /\ \E i \in DOMAIN podNotes : Wakes(podNotes[i], k)

\* Without overlapping selectors the handlers alone suffice, whatever is delivered late,
\* relisted or relabelled: once they are through, a TApp that is neither waiting nor being
\* handled had a Sync after the last change of what the stores hold for it
NoLostWakeup ==
    Unambiguous /\ podNotes = <<>> =>
      \A k \in stale \ tappNotes : Unfinished(k)

\* The queue and the workers keep the promise of Wakeups: what is waiting, delayed or not,
\* is due, and no wake-up is lost or handled twice at a time
W == INSTANCE Wakeups WITH due <- dirty \cup delayed, busy <- processing

Promise == W!Spec

\* With overlapping or broken selectors wake-ups do go to the wrong TApp or nowhere, but the
\* resync makes up for it: when the cluster is left alone, every TApp has been handled as it
\* is now, with the pods it has now
Attended ==
    <>[](/\ cachedTApp = tapp /\ cachedPods = pods
         /\ \A k \in stale : selector[k] = Invalid)
=============================================================================
