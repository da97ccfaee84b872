--------------------------- MODULE DispatchProofs ---------------------------
(* The work queue and its workers, for any number of TApps, workers and    *)
(* events: one worker per TApp, and no wake-up lost on the way.            *)
EXTENDS Dispatch, SequenceTheorems, FiniteSetTheorems, TLAPS

\* Adding a key keeps the queue free of duplicates and of keys being handled.
LEMMA PushKeeps ==
    ASSUME QueueInv, NEW k \in Keys, Push(k), UNCHANGED <<processing, workers>>,
           delayed' \subseteq Keys
    PROVE  QueueInv'
<1>1. CASE k \in dirty \cup processing
  BY <1>1 DEF QueueInv, Push, workers, OneWorkerPerKey
<1>2. CASE k \notin dirty \cup processing
  <2> DEFINE n == Len(queue)
  <2>1. /\ n \in Nat /\ DOMAIN queue = 1 .. n
        /\ queue' = Append(queue, k) /\ queue' \in Seq(Keys)
        /\ DOMAIN queue' = 1 .. n + 1
        /\ \A i \in 1 .. n : queue'[i] = queue[i]
        /\ queue'[n + 1] = k
    BY <1>2 DEF QueueInv, Push
  <2>2. dirty' = dirty \cup {k} /\ UNCHANGED <<processing, pc, key>>
    BY DEF Push, workers
  <2>3. \A i \in 1 .. n : queue[i] \in dirty \ processing /\ queue[i] # k
    BY <1>2, <2>1 DEF QueueInv
  <2>4. \A i \in DOMAIN queue' : queue'[i] \in dirty' \ processing'
    BY <1>2, <2>1, <2>2, <2>3
  <2>5. \A i, j \in DOMAIN queue' : i # j => queue'[i] # queue'[j]
    <3>1. \A i, j \in 1 .. n : i # j => queue[i] # queue[j]
      BY <2>1 DEF QueueInv
    <3> QED
      BY <2>1, <2>3, <3>1
  <2> QED
    BY <2>1, <2>2, <2>4, <2>5 DEF QueueInv, OneWorkerPerKey
<1> QED
  BY <1>1, <1>2

LEMMA AddKeeps ==
    ASSUME QueueInv, NEW k \in Keys, Add(k), UNCHANGED workers
    PROVE  QueueInv'
<1>1. delayed' \subseteq Keys
  BY DEF QueueInv, Add
<1> QED
  BY <1>1, PushKeeps DEF Add

\* A handler that wakes the TApp of a pod, or nobody.
LEMMA EnqueueKeeps ==
    ASSUME QueueInv, NEW pod, EnqueueOwner(pod), UNCHANGED workers
    PROVE  QueueInv'
<1>1. CASE UNCHANGED workqueue
  BY <1>1 DEF QueueInv, workqueue, workers, OneWorkerPerKey
<1>2. CASE \E k \in getTAppForPod(pod.labels) : Add(k)
  <2>1. PICK k \in getTAppForPod(pod.labels) : Add(k)
    BY <1>2
  <2>2. k \in Keys
    BY <2>1 DEF getTAppForPod
  <2> QED
    BY <2>1, <2>2, AddKeeps
<1> QED
  BY <1>1, <1>2 DEF EnqueueOwner

LEMMA AddDelayedKeeps ==
    ASSUME QueueInv, NEW k \in Keys, AddDelayed(k)
    PROVE  QueueInv'
<1>1. delayed' \subseteq Keys
  BY DEF QueueInv, AddDelayed
<1> QED
  BY <1>1, PushKeeps DEF AddDelayed

\* A worker takes the head of the queue: nobody holds that key.
LEMMA GetKeeps ==
    ASSUME QueueInv, NEW w \in Workers, Get(w)
    PROVE  QueueInv'
<1> DEFINE h == Head(queue)
           n == Len(queue)
<1>1. /\ n \in Nat /\ n >= 1 /\ DOMAIN queue = 1 .. n /\ h = queue[1]
      /\ queue' = Tail(queue) /\ queue' \in Seq(Keys)
      /\ DOMAIN queue' = 1 .. n - 1
      /\ \A i \in 1 .. n - 1 : queue'[i] = queue[i + 1]
  BY DEF QueueInv, Get
<1>2. /\ dirty' = dirty \ {h} /\ processing' = processing \cup {h} /\ UNCHANGED delayed
      /\ key' = [key EXCEPT ![w] = h] /\ pc' = [pc EXCEPT ![w] = "sync"]
  BY DEF Get
<1>3. h \in Keys /\ h \in dirty \ processing
  BY <1>1 DEF QueueInv
<1>4. \A i \in 1 .. n - 1 : queue[i + 1] \in dirty \ processing /\ queue[i + 1] # h
  <2>1. \A i \in 1 .. n - 1 : i + 1 \in 1 .. n /\ i + 1 # 1
    BY <1>1
  <2> QED
    BY <1>1, <2>1 DEF QueueInv
<1>5. \A i \in DOMAIN queue' : queue'[i] \in dirty' \ processing'
  BY <1>1, <1>2, <1>4
<1>6. \A i, j \in DOMAIN queue' : i # j => queue'[i] # queue'[j]
  <2>1. \A i, j \in 1 .. n : i # j => queue[i] # queue[j]
    BY <1>1 DEF QueueInv
  <2>2. \A i \in 1 .. n - 1 : i + 1 \in 1 .. n
    BY <1>1
  <2> QED
    BY <1>1, <2>1, <2>2
<1> HIDE DEF h, n
<1>7. \A v \in Workers : pc'[v] # "idle" => key'[v] \in processing'
  BY <1>2 DEF QueueInv
<1>8. OneWorkerPerKey'
  <2>1. \A v \in Workers \ {w} : pc'[v] # "idle" => key'[v] # h
    BY <1>2, <1>3 DEF QueueInv
  <2> QED
    BY <1>2, <2>1 DEF QueueInv, OneWorkerPerKey
<1> QED
  BY <1>1, <1>2, <1>3, <1>5, <1>6, <1>7, <1>8 DEF QueueInv

\* Done gives the key back; a key that was woken meanwhile goes to the end of the queue.
LEMMA DoneKeeps ==
    ASSUME QueueInv, NEW w \in Workers, Done(w)
    PROVE  QueueInv'
<1> DEFINE k == key[w]
           n == Len(queue)
<1>1. /\ pc[w] = "done" /\ k \in processing /\ k \in Keys
      /\ processing' = processing \ {k} /\ UNCHANGED <<dirty, delayed>>
      /\ pc' = [pc EXCEPT ![w] = "idle"] /\ key' = [key EXCEPT ![w] = NoKey]
  BY DEF QueueInv, Done
<1>2. \A v \in Workers : pc'[v] # "idle" => key'[v] \in processing'
  BY <1>1 DEF QueueInv, OneWorkerPerKey
<1>3. OneWorkerPerKey'
  BY <1>1 DEF QueueInv, OneWorkerPerKey
<1>4. /\ pc' \in [Workers -> {"idle", "sync", "done"}]
      /\ key' \in [Workers -> Keys \cup {NoKey}]
  BY <1>1 DEF QueueInv
<1>5. n \in Nat /\ DOMAIN queue = 1 .. n /\ queue \in Seq(Keys)
  BY DEF QueueInv
<1>6. \A i \in 1 .. n : queue[i] \in dirty \ processing /\ queue[i] # k
  BY <1>1, <1>5 DEF QueueInv
<1>7. \A i, j \in 1 .. n : i # j => queue[i] # queue[j]
  BY <1>5 DEF QueueInv
<1>8. CASE k \notin dirty
  <2>1. queue' = queue
    BY <1>8 DEF Done
  <2> QED
    BY <1>1, <1>2, <1>3, <1>4, <1>5, <1>6, <1>7, <2>1 DEF QueueInv
<1>9. CASE k \in dirty
  <2>1. /\ queue' = Append(queue, k) /\ queue' \in Seq(Keys)
        /\ DOMAIN queue' = 1 .. n + 1
        /\ \A i \in 1 .. n : queue'[i] = queue[i]
        /\ queue'[n + 1] = k
    BY <1>1, <1>5, <1>9 DEF Done
  <2>2. \A i \in DOMAIN queue' : queue'[i] \in dirty' \ processing'
    BY <1>1, <1>5, <1>6, <1>9, <2>1
  <2>3. \A i, j \in DOMAIN queue' : i # j => queue'[i] # queue'[j]
    BY <1>5, <1>6, <1>7, <2>1
  <2> QED
    BY <1>1, <1>2, <1>3, <1>4, <2>1, <2>2, <2>3 DEF QueueInv
<1> QED
  BY <1>8, <1>9

\* A Sync that ends, in success or failure, keeps its key until Done.
LEMMA SyncKeeps ==
    ASSUME QueueInv, NEW w \in Workers, SyncOk(w) \/ SyncFails(w)
    PROVE  QueueInv'
<1>1. /\ pc[w] = "sync" /\ pc' = [pc EXCEPT ![w] = "done"]
      /\ UNCHANGED <<queue, dirty, processing, key>>
  BY DEF SyncOk, SyncFails, workqueue
<1>2. delayed' \subseteq Keys
  BY <1>1 DEF QueueInv, SyncOk, SyncFails, workqueue
<1> QED
  BY <1>1, <1>2 DEF QueueInv, OneWorkerPerKey

\* Everything else leaves the queue and the workers alone.
LEMMA IdleKeeps ==
    ASSUME QueueInv, UNCHANGED <<workqueue, workers>>
    PROVE  QueueInv'
BY DEF QueueInv, workqueue, workers, OneWorkerPerKey

LEMMA CrashKeeps ==
    ASSUME QueueInv, Crash
    PROVE  QueueInv'
<1>1. /\ queue' = <<>> /\ dirty' = {} /\ processing' = {} /\ delayed' = {}
      /\ pc' = [w \in Workers |-> "idle"] /\ key' = [w \in Workers |-> NoKey]
  BY DEF Crash
<1>2. queue' \in Seq(Keys) /\ DOMAIN queue' = {}
  BY <1>1
<1> QED
  BY <1>1, <1>2 DEF QueueInv, OneWorkerPerKey

LEMMA StepKeeps == QueueInv /\ [Next]_vars => QueueInv'
<1> SUFFICES ASSUME QueueInv, [Next]_vars
             PROVE  QueueInv'
  OBVIOUS
<1>1. CASE Handlers
  <2>1. CASE addPod
    BY <2>1, EnqueueKeeps DEF addPod
  <2>2. CASE updatePod
    <3>1. CASE UNCHANGED workqueue
      BY <2>2, <3>1, IdleKeeps DEF updatePod
    <3>2. CASE EnqueueOwner(Head(podNotes).cur)
      BY <2>2, <3>2, EnqueueKeeps DEF updatePod
    <3> QED
      BY <2>2, <3>1, <3>2 DEF updatePod
  <2>3. CASE updateOldPod
    BY <2>3, EnqueueKeeps DEF updateOldPod
  <2>4. CASE deletePod
    BY <2>4, EnqueueKeeps DEF deletePod
  <2> QED
    BY <1>1, <2>1, <2>2, <2>3, <2>4 DEF Handlers
<1>2. CASE DeliverPod \/ ListTApps \/ ListPods \/ Resync
  BY <1>2, IdleKeeps DEF DeliverPod, ListTApps, ListPods, Resync
<1>3. CASE Crash
  BY <1>3, CrashKeeps
<1>4. ASSUME NEW k \in Keys, enqueueTApp(k)
      PROVE  QueueInv'
  BY <1>4, AddKeeps DEF enqueueTApp
<1>5. ASSUME NEW k \in Keys, AddDelayed(k)
      PROVE  QueueInv'
  BY <1>5, AddDelayedKeeps
<1>6. ASSUME NEW k \in Keys, DeliverTApp(k) \/ UserDeletes(k)
      PROVE  QueueInv'
  BY <1>6, IdleKeeps DEF DeliverTApp, UserDeletes
<1>7. ASSUME NEW p \in PodNames, PodChanges(p)
      PROVE  QueueInv'
  BY <1>7, IdleKeeps DEF PodChanges
<1>8. ASSUME NEW w \in Workers, runWorker(w)
      PROVE  QueueInv'
  BY <1>8, GetKeeps, SyncKeeps, DoneKeeps DEF runWorker
<1>9. CASE UNCHANGED vars
  BY <1>9, IdleKeeps DEF vars
<1> QED
  BY <1>1, <1>2, <1>3, <1>4, <1>5, <1>6, <1>7, <1>8, <1>9 DEF Next

LEMMA InitQueue == Init => QueueInv
<1> SUFFICES ASSUME Init
             PROVE  QueueInv
  OBVIOUS
<1>1. queue \in Seq(Keys) /\ DOMAIN queue = {}
  BY DEF Init
<1> QED
  BY <1>1 DEF Init, QueueInv, OneWorkerPerKey

\* In every reachable state what is queued is dirty, queued once and not being handled.
THEOREM QueueInvariance == Spec => []QueueInv
BY InitQueue, StepKeeps, PTL DEF Spec

\* Two workers never Sync the same TApp at the same time: the comment of runWorker, for any
\* number of workers and TApps.
THEOREM OneWorker == Spec => []OneWorkerPerKey
<1>1. QueueInv => OneWorkerPerKey
  BY DEF QueueInv
<1> QED
  BY <1>1, QueueInvariance, PTL

-----------------------------------------------------------------------------
(* The refinement: a step of the queue and its workers is a step of Wakeups *)

LEMMA AddWakes ==
    ASSUME NEW k \in Keys, Add(k)
    PROVE  W!Next
BY DEF Add, Push, W!Next, W!Wake

LEMMA EnqueueWakes ==
    ASSUME NEW pod, EnqueueOwner(pod)
    PROVE  [W!Next]_(W!vars)
<1>1. \A k \in getTAppForPod(pod.labels) : k \in Keys
  BY DEF getTAppForPod
<1>2. UNCHANGED workqueue => UNCHANGED W!vars
  BY DEF workqueue, W!vars
<1> QED
  BY <1>1, <1>2, AddWakes DEF EnqueueOwner

LEMMA GetBegins ==
    ASSUME QueueInv, NEW w \in Workers, Get(w)
    PROVE  W!Next
<1> DEFINE h == Head(queue)
<1>1. h \in Keys /\ h \in dirty \ processing
  <2>1. queue \in Seq(Keys) /\ queue # <<>> /\ 1 \in DOMAIN queue /\ h = queue[1]
    BY DEF QueueInv, Get
  <2> QED
    BY <2>1 DEF QueueInv
<1>2. dirty' = dirty \ {h} /\ processing' = processing \cup {h} /\ delayed' = delayed
  BY DEF Get
<1> HIDE DEF h
<1>3. W!Begin(h)
  BY <1>1, <1>2 DEF W!Begin
<1> QED
  BY <1>1, <1>3 DEF W!Next

LEMMA StepWakes == QueueInv /\ [Next]_vars => [W!Next]_(W!vars)
<1> SUFFICES ASSUME QueueInv, [Next]_vars
             PROVE  [W!Next]_(W!vars)
  OBVIOUS
<1>0. UNCHANGED workqueue => UNCHANGED W!vars
  BY DEF workqueue, W!vars
<1>1. CASE Handlers
  BY <1>0, <1>1, EnqueueWakes DEF Handlers, addPod, updatePod, updateOldPod, deletePod
<1>2. CASE DeliverPod \/ ListTApps \/ ListPods \/ Resync
  BY <1>0, <1>2 DEF DeliverPod, ListTApps, ListPods, Resync
<1>3. CASE Crash
  BY <1>3 DEF Crash, W!Next, W!Crash
<1>4. ASSUME NEW k \in Keys, enqueueTApp(k)
      PROVE  [W!Next]_(W!vars)
  BY <1>4, AddWakes DEF enqueueTApp
<1>5. ASSUME NEW k \in Keys, AddDelayed(k)
      PROVE  UNCHANGED W!vars
  BY <1>5 DEF AddDelayed, Push, W!vars
<1>6. ASSUME NEW k \in Keys, DeliverTApp(k) \/ UserDeletes(k)
      PROVE  UNCHANGED W!vars
  BY <1>0, <1>6 DEF DeliverTApp, UserDeletes
<1>7. ASSUME NEW p \in PodNames, PodChanges(p)
      PROVE  UNCHANGED W!vars
  BY <1>0, <1>7 DEF PodChanges
<1>8. ASSUME NEW w \in Workers, runWorker(w)
      PROVE  [W!Next]_(W!vars)
  <2>1. CASE Get(w)
    BY <2>1, GetBegins
  <2>2. CASE SyncOk(w)
    BY <1>0, <2>2 DEF SyncOk
  <2>3. ASSUME SyncFails(w)
        PROVE  W!Next
    <3>1. key[w] \in Keys
      BY <2>3 DEF SyncFails, QueueInv
    <3> QED
      BY <2>3, <3>1 DEF SyncFails, W!Next, W!Wake
  <2>4. ASSUME Done(w)
        PROVE  W!Next
    <3>1. key[w] \in Keys /\ key[w] \in processing
      BY <2>4 DEF Done, QueueInv
    <3> QED
      BY <2>4, <3>1 DEF Done, W!Next, W!End
  <2> QED
    BY <1>8, <2>1, <2>2, <2>3, <2>4 DEF runWorker
<1>9. CASE UNCHANGED vars
  BY <1>0, <1>9 DEF vars
<1> QED
  BY <1>1, <1>2, <1>3, <1>4, <1>5, <1>6, <1>7, <1>8, <1>9 DEF Next

\* The queue and the workers implement the safety part of Wakeups: a key is begun only when
\* a wake-up of it is outstanding and nobody handles it, and a wake-up that arrives while
\* its key is being handled stays outstanding.
THEOREM Refinement == Spec => W!Safe
<1>1. Init => W!Init
  BY DEF Init, W!Init
<1> QED
  BY <1>1, StepWakes, QueueInvariance, PTL DEF Spec, W!Safe

-----------------------------------------------------------------------------
(* The types of the stores, the notifications and the events *)

\* The handlers take the oldest notification.
LEMMA NotesTail ==
    ASSUME podNotes \in Seq(Note), podNotes # <<>>
    PROVE  /\ Head(podNotes) = podNotes[1] /\ podNotes[1] \in Note
           /\ Tail(podNotes) \in Seq(Note)
           /\ Len(podNotes) \in Nat /\ Len(podNotes) >= 1
           /\ DOMAIN podNotes = 1 .. Len(podNotes)
           /\ DOMAIN Tail(podNotes) = 1 .. Len(podNotes) - 1
           /\ \A i \in 1 .. Len(podNotes) - 1 : Tail(podNotes)[i] = podNotes[i + 1]
<1>1. Len(podNotes) \in Nat /\ Len(podNotes) >= 1 /\ DOMAIN podNotes = 1 .. Len(podNotes)
  OBVIOUS
<1>2. podNotes[1] \in Note
  BY <1>1, ElementOfSeq
<1> QED
  BY <1>1, <1>2, HeadTailProperties

LEMMA NoteType ==
    ASSUME NEW old \in PodOrNone, NEW cur \in PodOrNone
    PROVE  NoteOf(old, cur) \in Note
BY DEF NoteOf, Note

\* What a relist tells the handlers: one notification for every pod known to either side.
LEMMA Relisted ==
    ASSUME TypeOK, ListPods
    PROVE  /\ podNotes' \in Seq(Note) /\ Len(podNotes) \in Nat
           /\ \A i \in DOMAIN podNotes : i \in DOMAIN podNotes' /\ podNotes'[i] = podNotes[i]
           /\ \A p \in PodNames : pods[p] # NoPod \/ cachedPods[p] # NoPod =>
                \E i \in DOMAIN podNotes' : podNotes'[i] = NoteOf(cachedPods[p], pods[p])
<1> DEFINE known == {p \in PodNames : pods[p] # NoPod \/ cachedPods[p] # NoPod}
           n == Cardinality(known)
<1>1. PICK ps \in Bijection(1 .. n, known) :
        podNotes' = podNotes \o [i \in 1 .. n |-> NoteOf(cachedPods[ps[i]], pods[ps[i]])]
  BY DEF ListPods
<1>2. IsFiniteSet(known) /\ n \in Nat
  BY EventsAssumption, FS_Subset, FS_CardinalityType
<1>3. /\ ps \in [1 .. n -> known]
      /\ \A p \in known : \E i \in 1 .. n : ps[i] = p
  BY DEF Bijection, Surjection
<1> DEFINE more == [i \in 1 .. n |-> NoteOf(cachedPods[ps[i]], pods[ps[i]])]
<1> HIDE DEF n
<1>4. \A i \in 1 .. n : NoteOf(cachedPods[ps[i]], pods[ps[i]]) \in Note
  <2>1. \A p \in known : cachedPods[p] \in PodOrNone /\ pods[p] \in PodOrNone
    BY DEF TypeOK
  <2> QED
    BY <1>3, <2>1, NoteType
<1>5. more \in Seq(Note) /\ Len(more) = n
  BY <1>2, <1>4
<1>6. \A i \in 1 .. n : more[i] = NoteOf(cachedPods[ps[i]], pods[ps[i]])
  OBVIOUS
<1>7. podNotes \in Seq(Note) /\ Len(podNotes) \in Nat /\ DOMAIN podNotes = 1 .. Len(podNotes)
  BY DEF TypeOK
<1>8. podNotes' = podNotes \o more
  BY <1>1
<1> HIDE DEF more
<1>9. /\ podNotes' \in Seq(Note) /\ DOMAIN podNotes' = 1 .. Len(podNotes) + n
      /\ \A i \in 1 .. Len(podNotes) + n :
           podNotes'[i] = IF i <= Len(podNotes) THEN podNotes[i] ELSE more[i - Len(podNotes)]
  BY <1>2, <1>5, <1>7, <1>8, ConcatProperties
<1>10. \A i \in DOMAIN podNotes : i \in DOMAIN podNotes' /\ podNotes'[i] = podNotes[i]
  BY <1>2, <1>7, <1>9
<1>11. ASSUME NEW p \in PodNames, pods[p] # NoPod \/ cachedPods[p] # NoPod
       PROVE  \E i \in DOMAIN podNotes' : podNotes'[i] = NoteOf(cachedPods[p], pods[p])
  <2>1. PICK i \in 1 .. n : ps[i] = p
    BY <1>3, <1>11
  <2>2. /\ Len(podNotes) + i \in DOMAIN podNotes' /\ ~(Len(podNotes) + i <= Len(podNotes))
        /\ (Len(podNotes) + i) - Len(podNotes) = i
    BY <1>2, <1>7, <1>9
  <2>3. podNotes'[Len(podNotes) + i] = more[i]
    BY <1>9, <2>2
  <2> QED
    BY <1>6, <2>1, <2>2, <2>3
<1> QED
  BY <1>7, <1>9, <1>10, <1>11

\* updatePod leaves the notification in place for the TApp the pod had before.
LEMMA Relabelled ==
    ASSUME podNotes \in Seq(Note), podNotes # <<>>,
           podNotes' = [podNotes EXCEPT ![1].kind = "updateOld"]
    PROVE  /\ podNotes' \in Seq(Note) /\ DOMAIN podNotes' = DOMAIN podNotes
           /\ podNotes'[1].kind = "updateOld" /\ podNotes'[1].old = podNotes[1].old
           /\ \A i \in DOMAIN podNotes : i # 1 => podNotes'[i] = podNotes[i]
<1> DEFINE e == [podNotes[1] EXCEPT !.kind = "updateOld"]
<1>1. podNotes[1] \in Note /\ DOMAIN podNotes = 1 .. Len(podNotes) /\ 1 \in DOMAIN podNotes
  BY NotesTail
<1>2. e \in Note /\ e.kind = "updateOld" /\ e.old = podNotes[1].old
  BY <1>1 DEF Note
<1>3. podNotes' = [podNotes EXCEPT ![1] = e]
  OBVIOUS
<1> HIDE DEF e
<1>4. podNotes' \in Seq(Note) /\ DOMAIN podNotes' = DOMAIN podNotes
  BY <1>1, <1>2, <1>3, ExceptSeq
<1>5. podNotes'[1] = e /\ \A i \in DOMAIN podNotes : i # 1 => podNotes'[i] = podNotes[i]
  BY <1>1, <1>3
<1> QED
  BY <1>2, <1>4, <1>5

\* The four handlers, seen from the notifications
LEMMA HandlerNotes ==
    ASSUME podNotes \in Seq(Note), Handlers
    PROVE  /\ podNotes # <<>> /\ podNotes' \in Seq(Note)
           /\ \/ podNotes' = Tail(podNotes)
              \/ podNotes' = [podNotes EXCEPT ![1].kind = "updateOld"]
           /\ UNCHANGED <<selector, cluster, stores, tappNotes, workers, stale, events>>
<1>1. /\ podNotes # <<>>
      /\ \/ podNotes' = Tail(podNotes)
         \/ podNotes' = [podNotes EXCEPT ![1].kind = "updateOld"]
      /\ UNCHANGED <<selector, cluster, stores, tappNotes, workers, stale, events>>
  BY DEF Handlers, addPod, updatePod, updateOldPod, deletePod
<1> QED
  BY <1>1, NotesTail, Relabelled

LEMMA TypeNext == TypeOK /\ QueueInv' /\ [Next]_vars => TypeOK'
<1> SUFFICES ASSUME TypeOK, QueueInv', [Next]_vars PROVE TypeOK'
  OBVIOUS
<1> DEFINE Kept == /\ tapp' \in [Keys -> Stages] /\ cachedTApp' \in [Keys -> Stages]
                   /\ pods' \in [PodNames -> PodOrNone] /\ cachedPods' \in [PodNames -> PodOrNone]
                   /\ podEvents' \in Seq(PodEvent) /\ podNotes' \in Seq(Note)
                   /\ tappNotes' \subseteq Keys /\ stale' \subseteq Keys
                   /\ tappsSynced' \in BOOLEAN /\ podsSynced' \in BOOLEAN
                   /\ events' \in 0 .. MaxEvents
<1>1. ASSUME Kept PROVE TypeOK'
  BY <1>1 DEF TypeOK, QueueInv
<1> USE DEF cluster, stores, notes, TypeOK
<1>2. Event => events' \in 0 .. MaxEvents
  BY EventsAssumption DEF Event
<1>3. ASSUME Handlers PROVE Kept
  BY <1>3, HandlerNotes
<1>4. ASSUME DeliverPod PROVE Kept
  <2> DEFINE e == Head(podEvents)
  <2>1. e \in PodEvent /\ Tail(podEvents) \in Seq(PodEvent)
    BY <1>4, HeadTailProperties DEF DeliverPod
  <2>2. e.name \in PodNames /\ e.pod \in PodOrNone
    BY <2>1 DEF PodEvent
  <2>3. NoteOf(cachedPods[e.name], e.pod) \in Note
    BY <2>2, NoteType
  <2>4. podNotes' = Append(podNotes, NoteOf(cachedPods[e.name], e.pod))
    BY <1>4 DEF DeliverPod
  <2>5. podNotes' \in Seq(Note)
    BY <2>3, <2>4, AppendProperties
  <2>6. cachedPods' = [cachedPods EXCEPT ![e.name] = e.pod]
    BY <1>4 DEF DeliverPod, Store
  <2> HIDE DEF e
  <2>7. cachedPods' \in [PodNames -> PodOrNone]
    BY <2>2, <2>6
  <2> QED
    BY <1>4, <2>1, <2>5, <2>7 DEF DeliverPod, Store
<1>5. ASSUME ListTApps PROVE Kept
  <2>1. events' \in 0 .. MaxEvents
    BY <1>2, <1>5 DEF ListTApps, EventUnlessFirst
  <2>2. tappsSynced' \in BOOLEAN /\ podsSynced' \in BOOLEAN
    BY <1>5, Zenon DEF ListTApps
  <2> QED
    BY <1>5, <2>1, <2>2 DEF ListTApps, Store
<1>6. ASSUME ListPods PROVE Kept
  <2>1. events' \in 0 .. MaxEvents
    BY <1>2, <1>6 DEF ListPods, EventUnlessFirst
  <2>2. tappsSynced' \in BOOLEAN /\ podsSynced' \in BOOLEAN
    BY <1>6, Zenon DEF ListPods
  <2>3. podNotes' \in Seq(Note)
    BY <1>6, Relisted
  <2>4. podEvents' \in Seq(PodEvent)
    BY <1>6 DEF ListPods
  <2> QED
    BY <1>6, <2>1, <2>2, <2>3, <2>4 DEF ListPods, Store
<1>7. ASSUME Resync PROVE Kept
  BY <1>7 DEF Resync
<1>8. ASSUME Crash PROVE Kept
  <2>1. cachedTApp' \in [Keys -> Stages] /\ cachedPods' \in [PodNames -> PodOrNone]
    BY <1>8 DEF Crash, Stages, PodOrNone
  <2>2. tappsSynced' \in BOOLEAN /\ podsSynced' \in BOOLEAN
    BY <1>8, Zenon DEF Crash
  <2>3. podNotes' \in Seq(Note)
    BY <1>8 DEF Crash
  <2> QED
    BY <1>2, <1>8, <2>1, <2>2, <2>3 DEF Crash
<1>9. ASSUME NEW k \in Keys, enqueueTApp(k) \/ AddDelayed(k) PROVE Kept
  BY <1>9 DEF enqueueTApp, AddDelayed
<1>10. ASSUME NEW k \in Keys, DeliverTApp(k) PROVE Kept
  BY <1>10 DEF DeliverTApp, Store, After, Stages
<1>11. ASSUME NEW k \in Keys, UserDeletes(k) PROVE Kept
  BY <1>2, <1>11 DEF UserDeletes, Stages
<1>12. ASSUME NEW p \in PodNames, PodChanges(p) PROVE Kept
  <2>1. PICK pod \in [labels : PodLabels, version : {events'}] \cup {NoPod} :
          /\ pods' = [pods EXCEPT ![p] = pod]
          /\ podEvents' = Append(podEvents, [name |-> p, pod |-> pod])
    BY <1>12 DEF PodChanges
  <2>2. events' \in 0 .. MaxEvents /\ events' \in Nat
    BY <1>2, <1>12, EventsAssumption DEF PodChanges
  <2>3. pod \in PodOrNone
    BY <2>1, <2>2 DEF PodOrNone, Pod
  <2>4. [name |-> p, pod |-> pod] \in PodEvent
    BY <2>3 DEF PodEvent
  <2>5. podEvents' \in Seq(PodEvent)
    BY <2>1, <2>4, AppendProperties
  <2> QED
    BY <1>12, <2>1, <2>2, <2>3, <2>5 DEF PodChanges
<1>13. ASSUME NEW w \in Workers, runWorker(w) PROVE Kept
  <2>1. CASE Get(w) \/ Done(w)
    BY <2>1 DEF Get, Done
  <2>2. CASE SyncOk(w)
    BY <2>2 DEF SyncOk, Stages
  <2>3. CASE SyncFails(w)
    BY <1>2, <2>3 DEF SyncFails
  <2> QED
    BY <1>13, <2>1, <2>2, <2>3 DEF runWorker
<1>14. ASSUME UNCHANGED vars PROVE Kept
  BY <1>14 DEF vars
<1> QED
  BY <1>1, <1>3, <1>4, <1>5, <1>6, <1>7, <1>8, <1>9, <1>10, <1>11, <1>12, <1>13, <1>14 DEF Next

-----------------------------------------------------------------------------
(* Versions *)

LEMMA CopyTypes ==
    ASSUME TypeOK, NEW p \in PodNames, NEW c \in Copies(p)
    PROVE  c \in PodOrNone
<1>1. \A i \in DOMAIN podEvents : podEvents[i] \in PodEvent
  BY ElementOfSeq DEF TypeOK
<1> QED
  BY <1>1 DEF Copies, TypeOK, PodEvent

\* A step that makes no new copy of a pod
LEMMA CopiesFrame ==
    ASSUME TypeOK, VersionsTell, events' \in {events, events + 1},
           \A p \in PodNames : \A c \in Copies(p)' \ {NoPod} : c \in Copies(p)
    PROVE  VersionsTell'
<1> SUFFICES ASSUME NEW p \in PodNames,
                    NEW c \in Copies(p)' \ {NoPod}, NEW d \in Copies(p)' \ {NoPod}
             PROVE  c.version <= events' /\ (c.version = d.version => c = d)
  BY DEF VersionsTell
<1>1. c \in Copies(p) \ {NoPod} /\ d \in Copies(p) \ {NoPod}
  OBVIOUS
<1>2. c \in Pod /\ d \in Pod /\ events \in Nat
  BY <1>1, CopyTypes, EventsAssumption DEF PodOrNone, TypeOK
<1>3. c.version \in Nat
  BY <1>2 DEF Pod
<1>4. c.version <= events /\ (c.version = d.version => c = d)
  BY <1>1 DEF VersionsTell
<1> QED
  BY <1>2, <1>3, <1>4

\* A pod never has two versions of the same number: updatePod may skip what it takes for a
\* resync.
LEMMA VersionsNext == TypeOK /\ TypeOK' /\ VersionsTell /\ [Next]_vars => VersionsTell'
<1> SUFFICES ASSUME TypeOK, TypeOK', VersionsTell, [Next]_vars PROVE VersionsTell'
  OBVIOUS
<1> USE DEF cluster, stores
<1>1. ASSUME UNCHANGED <<pods, podEvents, cachedPods>>, events' \in {events, events + 1}
      PROVE  VersionsTell'
  BY <1>1, CopiesFrame DEF Copies
<1>2. CASE Handlers \/ Resync \/ ListTApps
  BY <1>1, <1>2 DEF Handlers, addPod, updatePod, updateOldPod, deletePod, Resync, ListTApps, Store,
                    EventUnlessFirst, Event
<1>3. CASE DeliverPod
  <2>1. podEvents \in Seq(PodEvent) /\ podEvents # <<>>
    BY <1>3 DEF TypeOK, DeliverPod
  <2>2. /\ Head(podEvents) = podEvents[1] /\ 1 \in DOMAIN podEvents
        /\ \A i \in DOMAIN Tail(podEvents) : /\ i + 1 \in DOMAIN podEvents
                                             /\ Tail(podEvents)[i] = podEvents[i + 1]
    BY <2>1, HeadTailProperties
  <2>3. /\ UNCHANGED <<pods, events>> /\ podEvents' = Tail(podEvents)
        /\ cachedPods' = [cachedPods EXCEPT ![podEvents[1].name] = podEvents[1].pod]
    BY <1>3, <2>2 DEF DeliverPod, Store
  <2>4. \A p \in PodNames : cachedPods'[p] = cachedPods[p] \/
                             (p = podEvents[1].name /\ cachedPods'[p] = podEvents[1].pod)
    BY <2>3 DEF TypeOK
  <2>5. ASSUME NEW p \in PodNames, NEW c \in Copies(p)' PROVE c \in Copies(p)
    <3>1. CASE c = pods'[p] \/ c = cachedPods'[p]
      BY <2>2, <2>3, <2>4, <3>1 DEF Copies
    <3>2. CASE \E i \in DOMAIN podEvents' : podEvents'[i].name = p /\ c = podEvents'[i].pod
      BY <2>2, <2>3, <3>2 DEF Copies
    <3> QED
      BY <2>5, <3>1, <3>2 DEF Copies
  <2> QED
    BY <2>3, <2>5, CopiesFrame
<1>4. CASE ListPods
  <2>1. /\ UNCHANGED pods /\ cachedPods' = pods /\ podEvents' = <<>>
        /\ events' \in {events, events + 1}
    BY <1>4 DEF ListPods, Store, EventUnlessFirst, Event
  <2> QED
    BY <2>1, CopiesFrame DEF Copies
<1>5. CASE Crash
  <2>1. /\ UNCHANGED <<pods, podEvents>> /\ cachedPods' = [p \in PodNames |-> NoPod]
        /\ events' \in {events, events + 1}
    BY <1>5 DEF Crash, Event
  <2> QED
    BY <2>1, CopiesFrame DEF Copies
<1>6. ASSUME NEW k \in Keys, enqueueTApp(k) \/ AddDelayed(k) \/ DeliverTApp(k) \/ UserDeletes(k)
      PROVE  VersionsTell'
  BY <1>1, <1>6 DEF enqueueTApp, AddDelayed, DeliverTApp, UserDeletes, Store, Event
<1>7. ASSUME NEW p \in PodNames, PodChanges(p) PROVE VersionsTell'
  <2>1. PICK pod \in [labels : PodLabels, version : {events'}] \cup {NoPod} :
          /\ pods' = [pods EXCEPT ![p] = pod]
          /\ podEvents' = Append(podEvents, [name |-> p, pod |-> pod])
    BY <1>7 DEF PodChanges
  <2>2. UNCHANGED cachedPods /\ events' = events + 1 /\ events \in Nat
    BY <1>7, EventsAssumption DEF PodChanges, Event, TypeOK
  <2>3. pod # NoPod => pod.version = events'
    BY <2>1
  <2> DEFINE e == [name |-> p, pod |-> pod]
  <2>4. podEvents \in Seq(PodEvent) /\ e.name = p /\ e.pod = pod /\ e \in PodEvent
    BY <2>1, <2>2 DEF TypeOK, PodEvent, PodOrNone, Pod
  <2>5. podEvents' = Append(podEvents, e)
    BY <2>1
  <2> HIDE DEF e
  <2>6. \A i \in DOMAIN podEvents' : \/ i \in DOMAIN podEvents /\ podEvents'[i] = podEvents[i]
                                     \/ podEvents'[i] = e
    BY <2>4, <2>5, AppendProperties
  <2>7. \A q \in PodNames : pods'[q] = pods[q] \/ (q = p /\ pods'[q] = pod)
    BY <2>1 DEF TypeOK
  <2>8. ASSUME NEW q \in PodNames, NEW c \in Copies(q)' \ {NoPod}
        PROVE  (c \in Copies(q) /\ c \in Pod /\ c.version <= events /\ c.version \in Nat)
                 \/ (c = pod /\ c.version = events')
    <3>1. c \in Copies(q) \/ c = pod
      BY <2>2, <2>4, <2>6, <2>7 DEF Copies
    <3>2. CASE c \in Copies(q)
      BY <3>2, CopyTypes DEF VersionsTell, PodOrNone, Pod
    <3> QED
      BY <2>3, <3>1, <3>2
  <2>9. ASSUME NEW q \in PodNames, NEW c \in Copies(q)' \ {NoPod}, NEW d \in Copies(q)' \ {NoPod}
        PROVE  c.version <= events' /\ (c.version = d.version => c = d)
    <3>1. /\ (c \in Copies(q) /\ c.version <= events /\ c.version \in Nat)
                 \/ (c = pod /\ c.version = events')
          /\ (d \in Copies(q) /\ d.version <= events /\ d.version \in Nat)
                 \/ (d = pod /\ d.version = events')
      BY <2>8
    <3>2. c \in Copies(q) /\ d \in Copies(q) => (c.version = d.version => c = d)
      BY DEF VersionsTell
    <3> QED
      BY <2>2, <3>1, <3>2
  <2> QED
    BY <2>9 DEF VersionsTell
<1>8. ASSUME NEW w \in Workers, runWorker(w) PROVE VersionsTell'
  BY <1>1, <1>8 DEF runWorker, Get, SyncOk, SyncFails, Done, Event
<1>9. CASE UNCHANGED vars
  BY <1>1, <1>9 DEF vars
<1> QED
  BY <1>2, <1>3, <1>4, <1>5, <1>6, <1>7, <1>8, <1>9 DEF Next

-----------------------------------------------------------------------------
(* No wake-up is lost between a store and the queue *)

\* When selectors are unambiguous, the search for the TApp of a pod finds the one it belongs to.
LEMMA OwnerFound ==
    ASSUME Unambiguous, NEW k \in Keys, cachedTApp[k] = "set",
           NEW pod \in PodOrNone, BelongsTo(pod, k), EnqueueOwner(pod)
    PROVE  k \in dirty'
<1>1. pod \in Pod /\ pod.labels \in PodLabels /\ pod.labels # {}
  BY DEF BelongsTo, PodOrNone, Pod
<1>2. \A l \in Keys : Matches(l, pod.labels) <=> l = k
  BY <1>1 DEF Matches, BelongsTo, Unambiguous
<1>3. getTAppForPod(pod.labels) = {k}
  <2>1. {l \in Keys : Matches(l, pod.labels)} = {k}
    BY <1>2
  <2>2. ~(pod.labels = {} \/ \E l \in Keys : cachedTApp[l] = "set" /\ selector[l] = Invalid)
    BY <1>1 DEF Unambiguous
  <2> QED
    BY <2>1, <2>2 DEF getTAppForPod
<1> QED
  BY <1>3 DEF EnqueueOwner, Add, Push

LEMMA EnqueueGrows ==
    ASSUME NEW pod, EnqueueOwner(pod)
    PROVE  dirty \subseteq dirty' /\ UNCHANGED delayed
BY DEF EnqueueOwner, Add, Push, workqueue

LEMMA UnfinishedFrame ==
    ASSUME NEW k, Unfinished(k),
           dirty \subseteq dirty', delayed \subseteq delayed', UNCHANGED workers
    PROVE  Unfinished(k)'
BY DEF Unfinished, workers

\* The pods Sync finds are those the handlers take for pods of its TApp.
LEMMA PodsFound ==
    ASSUME Unambiguous, NEW k \in Keys, NEW store
    PROVE  PodsOf(k, store) = {p \in PodNames : Owner[p] = k /\ BelongsTo(store[p], k)}
BY DEF PodsOf, BelongsTo, Unambiguous

\* Copies of the same version are the same
SameCopy(c, d) == c # NoPod /\ d # NoPod /\ c.version = d.version => c = d

\* When what Sync reads for its TApp changes with the pods, a notification wakes that TApp.
LEMMA ViewChange ==
    ASSUME Unambiguous, NEW k \in Keys, NEW stages,
           NEW old \in [PodNames -> PodOrNone], NEW cur \in [PodNames -> PodOrNone],
           View(k, stages, cur) # View(k, stages, old),
           \A p \in PodNames : SameCopy(old[p], cur[p])
    PROVE  /\ stages[k] = "set"
           /\ \E p \in PodNames : old[p] # cur[p] /\ Wakes(NoteOf(old[p], cur[p]), k)
<1>1. stages[k] = "set" /\ getPodsForTApp(k, cur) # getPodsForTApp(k, old)
  BY DEF View
<1>2. PICK p \in PodNames : old[p] # cur[p] /\ (BelongsTo(old[p], k) \/ BelongsTo(cur[p], k))
  <2> SUFFICES ASSUME \A p \in PodNames : old[p] = cur[p] \/
                                           ~(BelongsTo(old[p], k) \/ BelongsTo(cur[p], k))
               PROVE  FALSE
    OBVIOUS
  <2>1. PodsOf(k, old) = PodsOf(k, cur)
    <3>1. \A p \in PodNames : BelongsTo(old[p], k) <=> BelongsTo(cur[p], k)
      OBVIOUS
    <3>2. /\ PodsOf(k, old) = {p \in PodNames : Owner[p] = k /\ BelongsTo(old[p], k)}
          /\ PodsOf(k, cur) = {p \in PodNames : Owner[p] = k /\ BelongsTo(cur[p], k)}
      BY PodsFound
    <3> QED
      BY <3>1, <3>2
  <2>2. \A p \in PodsOf(k, cur) : old[p] = cur[p]
    BY PodsFound
  <2> QED
    BY <1>1, <2>1, <2>2 DEF getPodsForTApp
<1> DEFINE n == NoteOf(old[p], cur[p])
<1>3. n.old = old[p] /\ n.cur = cur[p]
  BY DEF NoteOf
<1>4. CASE old[p] = NoPod
  <2>1. n.kind = "add" /\ BelongsTo(cur[p], k)
    BY <1>2, <1>4 DEF NoteOf, BelongsTo
  <2> HIDE DEF n
  <2>2. Wakes(n, k)
    BY <1>3, <2>1 DEF Wakes
  <2> QED
    BY <1>1, <1>2, <2>2 DEF n
<1>5. CASE old[p] # NoPod /\ cur[p] = NoPod
  <2>1. n.kind = "delete" /\ BelongsTo(old[p], k)
    BY <1>2, <1>5 DEF NoteOf, BelongsTo
  <2> HIDE DEF n
  <2>2. Wakes(n, k)
    BY <1>3, <2>1 DEF Wakes
  <2> QED
    BY <1>1, <1>2, <2>2 DEF n
<1>6. CASE old[p] # NoPod /\ cur[p] # NoPod
  <2>1. n.kind = "update"
    BY <1>6 DEF NoteOf
  <2>2. n.cur.version # n.old.version
    BY <1>2, <1>3, <1>6 DEF SameCopy
  <2>3. BelongsTo(n.cur, k) \/ (n.cur.labels # n.old.labels /\ BelongsTo(n.old, k))
    BY <1>2, <1>3, <1>6 DEF BelongsTo
  <2> HIDE DEF n
  <2>4. Wakes(n, k)
    BY <2>1, <2>2, <2>3 DEF Wakes
  <2> QED
    BY <1>1, <1>2, <2>4 DEF n
<1> QED
  BY <1>4, <1>5, <1>6

\* A handler takes a notification away only when the TApps it wakes are in the queue.
LEMMA HandlerTells ==
    ASSUME TypeOK, Unambiguous, Handlers, NEW k \in Keys, cachedTApp[k] = "set",
           NEW i \in DOMAIN podNotes, Wakes(podNotes[i], k)
    PROVE  k \in dirty' \/ \E j \in DOMAIN podNotes' : Wakes(podNotes'[j], k)
<1>1. podNotes \in Seq(Note) /\ podNotes # <<>>
  BY HandlerNotes DEF TypeOK
<1>2. /\ Head(podNotes) = podNotes[1] /\ podNotes[1] \in Note
      /\ Len(podNotes) \in Nat /\ DOMAIN podNotes = 1 .. Len(podNotes)
      /\ DOMAIN Tail(podNotes) = 1 .. Len(podNotes) - 1
      /\ \A j \in 1 .. Len(podNotes) - 1 : Tail(podNotes)[j] = podNotes[j + 1]
  BY <1>1, NotesTail
<1>3. CASE i # 1
  <2>1. CASE podNotes' = Tail(podNotes)
    <3>1. i - 1 \in DOMAIN podNotes' /\ podNotes'[i - 1] = podNotes[i]
      BY <1>2, <1>3, <2>1
    <3> QED
      BY <3>1
  <2>2. CASE podNotes' = [podNotes EXCEPT ![1].kind = "updateOld"]
    BY <1>1, <1>3, <2>2, Relabelled
  <2> QED
    BY <1>1, <2>1, <2>2, HandlerNotes
<1>4. CASE i = 1
  <2> DEFINE n == podNotes[1]
  <2>1. Wakes(n, k) /\ n.cur \in PodOrNone /\ n.old \in PodOrNone
    BY <1>2, <1>4 DEF Note
  <2>2. CASE addPod
    <3>1. n.kind = "add" /\ EnqueueOwner(n.cur)
      BY <1>2, <2>2 DEF addPod
    <3>2. BelongsTo(n.cur, k)
      BY <2>1, <3>1 DEF Wakes
    <3> QED
      BY <2>1, <3>1, <3>2, OwnerFound
  <2>3. CASE updatePod
    <3>1. n.kind = "update"
      BY <1>2, <2>3 DEF updatePod
    <3>2. /\ n.cur.version # n.old.version
          /\ BelongsTo(n.cur, k) \/ (n.cur.labels # n.old.labels /\ BelongsTo(n.old, k))
      BY <2>1, <3>1 DEF Wakes
    <3>3. /\ EnqueueOwner(n.cur)
          /\ n.cur.labels # n.old.labels => podNotes' = [podNotes EXCEPT ![1].kind = "updateOld"]
      BY <1>2, <2>3, <3>2 DEF updatePod
    <3>4. CASE BelongsTo(n.cur, k)
      BY <2>1, <3>3, <3>4, OwnerFound
    <3>5. CASE n.cur.labels # n.old.labels /\ BelongsTo(n.old, k)
      <4>1. /\ DOMAIN podNotes' = DOMAIN podNotes
            /\ podNotes'[1].kind = "updateOld" /\ podNotes'[1].old = n.old
        BY <1>1, <3>3, <3>5, Relabelled
      <4>2. Wakes(podNotes'[1], k)
        BY <3>5, <4>1 DEF Wakes
      <4> QED
        BY <1>4, <4>1, <4>2
    <3> QED
      BY <3>2, <3>4, <3>5
  <2>4. CASE updateOldPod \/ deletePod
    <3>1. n.kind \in {"updateOld", "delete"} /\ EnqueueOwner(n.old)
      BY <1>2, <2>4 DEF updateOldPod, deletePod
    <3>2. BelongsTo(n.old, k)
      BY <2>1, <3>1 DEF Wakes
    <3> QED
      BY <2>1, <3>1, <3>2, OwnerFound
  <2> QED
    BY <2>2, <2>3, <2>4 DEF Handlers
<1> QED
  BY <1>3, <1>4

\* Told is inductive, given the types, QueueInv and VersionsTell.
LEMMA ToldNext ==
    ASSUME TypeOK, QueueInv, VersionsTell, Told, [Next]_vars
    PROVE  Told'
<1> DEFINE Noted(k)  == cachedTApp[k] = "set" /\ \E i \in DOMAIN podNotes : Wakes(podNotes[i], k)
           Noted1(k) == cachedTApp'[k] = "set" /\ \E i \in DOMAIN podNotes' : Wakes(podNotes'[i], k)
<1>1. selector' = selector
  BY DEF Next, Handlers, addPod, updatePod, updateOldPod, deletePod, DeliverPod, ListTApps,
            ListPods,
         Resync, Crash, enqueueTApp, AddDelayed, DeliverTApp, UserDeletes, PodChanges, runWorker,
         Get, SyncOk, SyncFails, Done, vars
<1> SUFFICES ASSUME Unambiguous, NEW k \in stale'
             PROVE  k \in tappNotes' \/ Unfinished(k)' \/ Noted1(k)
  BY <1>1 DEF Told, Unambiguous, Wakes, BelongsTo
<1>2. k \in stale => k \in Keys /\ (k \in tappNotes \/ Unfinished(k) \/ Noted(k))
  BY DEF Told, TypeOK
<1> USE DEF cluster, stores, notes
<1>3. ASSUME k \in stale, tappNotes \subseteq tappNotes',
             dirty \subseteq dirty', delayed \subseteq delayed',
             UNCHANGED <<workers, cachedTApp, podNotes>>
      PROVE  k \in tappNotes' \/ Unfinished(k)' \/ Noted1(k)
  BY <1>2, <1>3, UnfinishedFrame
<1>4. CASE Handlers
  <2>1. UNCHANGED <<stores, tappNotes, workers, stale>>
    BY <1>4, HandlerNotes DEF TypeOK
  <2>2. dirty \subseteq dirty' /\ UNCHANGED delayed
    BY <1>4, EnqueueGrows DEF Handlers, addPod, updatePod, updateOldPod, deletePod, workqueue
  <2>3. CASE Noted(k)
    BY <1>2, <1>4, <2>1, <2>3, HandlerTells DEF Unfinished
  <2> QED
    BY <1>2, <2>1, <2>2, <2>3, UnfinishedFrame
<1>5. CASE DeliverPod
  <2> DEFINE e == Head(podEvents)
             n == NoteOf(cachedPods[e.name], e.pod)
             store == [cachedPods EXCEPT ![e.name] = e.pod]
  <2>1. e = podEvents[1] /\ 1 \in DOMAIN podEvents /\ e \in PodEvent
    BY <1>5 DEF DeliverPod, TypeOK
  <2>2. e.name \in PodNames /\ e.pod \in PodOrNone /\ e.pod \in Copies(e.name)
    BY <2>1 DEF PodEvent, Copies
  <2>3. n \in Note /\ podNotes \in Seq(Note)
    BY <2>2, NoteType DEF TypeOK
  <2>4. podNotes' = Append(podNotes, n) /\ UNCHANGED <<cachedTApp, tappNotes, workqueue, workers>>
    BY <1>5 DEF DeliverPod, Store
  <2>5. stale' = stale \cup
          {l \in Keys : View(l, cachedTApp, store) # View(l, cachedTApp, cachedPods)}
    BY <1>5 DEF DeliverPod, Store
  <2>6. /\ \A i \in DOMAIN podNotes : i \in DOMAIN podNotes' /\ podNotes'[i] = podNotes[i]
        /\ \E i \in DOMAIN podNotes' : podNotes'[i] = n
    <3> HIDE DEF n
    <3>1. Len(podNotes) + 1 \in DOMAIN podNotes' /\ podNotes'[Len(podNotes) + 1] = n
      BY <2>3, <2>4
    <3>2. \A i \in DOMAIN podNotes : i \in DOMAIN podNotes' /\ podNotes'[i] = podNotes[i]
      BY <2>3, <2>4
    <3> QED
      BY <3>1, <3>2
  <2>7. CASE k \in stale
    <3>1. Unfinished(k) => Unfinished(k)'
      BY <2>4, UnfinishedFrame DEF workqueue
    <3> QED
      BY <1>2, <2>4, <2>6, <2>7, <3>1
  <2>8. CASE k \in Keys /\ View(k, cachedTApp, store) # View(k, cachedTApp, cachedPods)
    <3>1. /\ store \in [PodNames -> PodOrNone] /\ cachedPods \in [PodNames -> PodOrNone]
          /\ \A p \in PodNames : store[p] = IF p = e.name THEN e.pod ELSE cachedPods[p]
      BY <2>2 DEF TypeOK
    <3>2. cachedPods[e.name] \in Copies(e.name)
      BY DEF Copies
    <3> HIDE DEF store, e
    <3>3. \A p \in PodNames : SameCopy(cachedPods[p], store[p])
      BY <2>2, <3>1, <3>2 DEF VersionsTell, SameCopy
    <3>4. PICK p \in PodNames : /\ cachedTApp[k] = "set" /\ cachedPods[p] # store[p]
                                /\ Wakes(NoteOf(cachedPods[p], store[p]), k)
      BY <2>8, <3>1, <3>3, ViewChange
    <3>5. NoteOf(cachedPods[p], store[p]) = n
      BY <3>1, <3>4
    <3> HIDE DEF n
    <3> QED
      BY <2>4, <2>6, <3>4, <3>5
  <2> QED
    BY <2>5, <2>7, <2>8
<1>6. CASE ListTApps
  <2>1. /\ tappNotes' = tappNotes \cup {l \in Keys : Present(tapp[l]) \/ Present(cachedTApp[l])}
        /\ stale' = stale \cup
             {l \in Keys : View(l, tapp, cachedPods) # View(l, cachedTApp, cachedPods)}
        /\ UNCHANGED <<workqueue, workers>>
    BY <1>6 DEF ListTApps, Store
  <2>2. CASE k \in stale
    <3>1. Noted(k) => k \in tappNotes'
      BY <1>2, <2>1, <2>2 DEF Present
    <3>2. Unfinished(k) => Unfinished(k)'
      BY <2>1, UnfinishedFrame DEF workqueue
    <3> QED
      BY <1>2, <2>1, <2>2, <3>1, <3>2
  <2>3. CASE k \in Keys /\ View(k, tapp, cachedPods) # View(k, cachedTApp, cachedPods)
    <3>1. Present(tapp[k]) \/ Present(cachedTApp[k])
      BY <2>3 DEF View, Present
    <3> QED
      BY <2>1, <2>3, <3>1
  <2> QED
    BY <2>1, <2>2, <2>3
<1>7. CASE ListPods
  <2>1. /\ stale' = stale \cup
             {l \in Keys : View(l, cachedTApp, pods) # View(l, cachedTApp, cachedPods)}
        /\ UNCHANGED <<cachedTApp, tappNotes, workqueue, workers>>
    BY <1>7 DEF ListPods, Store
  <2>2. /\ \A i \in DOMAIN podNotes : i \in DOMAIN podNotes' /\ podNotes'[i] = podNotes[i]
        /\ \A p \in PodNames : pods[p] # NoPod \/ cachedPods[p] # NoPod =>
             \E i \in DOMAIN podNotes' : podNotes'[i] = NoteOf(cachedPods[p], pods[p])
    BY <1>7, Relisted
  <2>3. CASE k \in stale
    <3>1. Unfinished(k) => Unfinished(k)'
      BY <2>1, UnfinishedFrame DEF workqueue
    <3> QED
      BY <1>2, <2>1, <2>2, <2>3, <3>1
  <2>4. CASE k \in Keys /\ View(k, cachedTApp, pods) # View(k, cachedTApp, cachedPods)
    <3>1. pods \in [PodNames -> PodOrNone] /\ cachedPods \in [PodNames -> PodOrNone]
      BY DEF TypeOK
    <3>2. \A p \in PodNames : SameCopy(cachedPods[p], pods[p])
      BY DEF VersionsTell, Copies, SameCopy
    <3>3. PICK p \in PodNames : /\ cachedTApp[k] = "set" /\ cachedPods[p] # pods[p]
                                /\ Wakes(NoteOf(cachedPods[p], pods[p]), k)
      BY <2>4, <3>1, <3>2, ViewChange
    <3> QED
      BY <2>1, <2>2, <3>3
  <2> QED
    BY <2>1, <2>3, <2>4
<1>8. CASE Resync
  BY <1>3, <1>8 DEF Resync, workqueue
<1>9. CASE Crash
  BY <1>9 DEF Crash
<1>10. ASSUME NEW l \in Keys, enqueueTApp(l)
       PROVE  k \in tappNotes' \/ Unfinished(k)' \/ Noted1(k)
  <2>1. /\ dirty' = dirty \cup {l} /\ tappNotes' = tappNotes \ {l}
        /\ UNCHANGED <<delayed, workers, cachedTApp, podNotes, stale>>
    BY <1>10 DEF enqueueTApp, Add, Push
  <2>2. Unfinished(k) => Unfinished(k)'
    BY <2>1, UnfinishedFrame
  <2>3. k = l => Unfinished(k)'
    BY <2>1 DEF Unfinished
  <2> QED
    BY <1>2, <2>1, <2>2, <2>3
<1>11. ASSUME NEW l \in Keys, AddDelayed(l)
       PROVE  k \in tappNotes' \/ Unfinished(k)' \/ Noted1(k)
  <2>1. /\ dirty' = dirty \cup {l} /\ delayed' = delayed \ {l}
        /\ UNCHANGED <<tappNotes, pc, key, cachedTApp, podNotes, stale>>
    BY <1>11 DEF AddDelayed, Push, workers
  <2>2. Unfinished(k) => Unfinished(k)'
    BY <2>1 DEF Unfinished
  <2> QED
    BY <1>2, <2>1, <2>2
<1>12. ASSUME NEW l \in Keys, DeliverTApp(l)
       PROVE  k \in tappNotes' \/ Unfinished(k)' \/ Noted1(k)
  <2> DEFINE stages == [cachedTApp EXCEPT ![l] = After(@)]
  <2>1. /\ tappNotes' = tappNotes \cup {l} /\ UNCHANGED <<podNotes, workqueue, workers>>
        /\ cachedTApp' = stages
        /\ stale' = stale \cup
             {m \in Keys : View(m, stages, cachedPods) # View(m, cachedTApp, cachedPods)}
    BY <1>12 DEF DeliverTApp, Store
  <2>2. \A m \in Keys \ {l} : stages[m] = cachedTApp[m]
    BY DEF TypeOK
  <2> HIDE DEF stages
  <2>3. CASE k # l
    <3>1. k \in stale
      BY <2>1, <2>2, <2>3 DEF View
    <3>2. cachedTApp'[k] = cachedTApp[k]
      BY <1>2, <2>1, <2>2, <2>3, <3>1
    <3>3. Unfinished(k) => Unfinished(k)'
      BY <2>1, UnfinishedFrame DEF workqueue
    <3> QED
      BY <1>2, <2>1, <3>1, <3>2, <3>3
  <2> QED
    BY <2>1, <2>3
<1>13. ASSUME NEW l \in Keys, UserDeletes(l)
       PROVE  k \in tappNotes' \/ Unfinished(k)' \/ Noted1(k)
  BY <1>3, <1>13 DEF UserDeletes, workqueue
<1>14. ASSUME NEW p \in PodNames, PodChanges(p)
       PROVE  k \in tappNotes' \/ Unfinished(k)' \/ Noted1(k)
  BY <1>3, <1>14 DEF PodChanges, workqueue
<1>15. ASSUME NEW w \in Workers, runWorker(w)
       PROVE  k \in tappNotes' \/ Unfinished(k)' \/ Noted1(k)
  <2>1. k \in stale /\ UNCHANGED <<tappNotes, podNotes, cachedTApp>>
    BY <1>15 DEF runWorker, Get, SyncOk, SyncFails, Done
  <2>2. ASSUME Unfinished(k) PROVE Unfinished(k)'
    <3>1. CASE Get(w)
      <4>1. /\ pc[w] = "idle" /\ dirty' = dirty \ {Head(queue)} /\ UNCHANGED delayed
            /\ key' = [key EXCEPT ![w] = Head(queue)] /\ pc' = [pc EXCEPT ![w] = "sync"]
        BY <3>1 DEF Get
      <4> QED
        BY <2>2, <4>1 DEF Unfinished, QueueInv
    <3>2. CASE SyncOk(w)
      <4>1. /\ k # key[w] /\ pc' = [pc EXCEPT ![w] = "done"]
            /\ UNCHANGED <<dirty, delayed, key>>
        BY <3>2 DEF SyncOk, workqueue
      <4> QED
        BY <2>2, <4>1 DEF Unfinished, QueueInv
    <3>3. CASE SyncFails(w)
      <4>1. /\ delayed' = delayed \cup {key[w]} /\ pc' = [pc EXCEPT ![w] = "done"]
            /\ UNCHANGED <<dirty, key>>
        BY <3>3 DEF SyncFails
      <4> QED
        BY <2>2, <4>1 DEF Unfinished, QueueInv
    <3>4. CASE Done(w)
      <4>1. /\ pc[w] = "done" /\ pc' = [pc EXCEPT ![w] = "idle"]
            /\ key' = [key EXCEPT ![w] = NoKey] /\ UNCHANGED <<dirty, delayed>>
        BY <3>4 DEF Done
      <4> QED
        BY <2>2, <4>1 DEF Unfinished, QueueInv
    <3> QED
      BY <1>15, <3>1, <3>2, <3>3, <3>4 DEF runWorker
  <2> QED
    BY <1>2, <2>1, <2>2
<1>16. CASE UNCHANGED vars
  BY <1>3, <1>16 DEF vars, workqueue
<1> QED
  BY <1>4, <1>5, <1>6, <1>7, <1>8, <1>9, <1>10, <1>11, <1>12, <1>13, <1>14, <1>15, <1>16 DEF Next

\* Where no two selectors match the same pod and none is empty, the handlers lose no wake-up: a
\* TApp for which the stores changed since its Sync read them is in a notification, in the queue
\* or with a worker that has yet to read it, for any number of TApps, pods and workers.
THEOREM WakeupsReachQueue == Spec => []NoLostWakeup
<1>1. Init => TypeOK /\ VersionsTell /\ Told
  <2> SUFFICES ASSUME Init PROVE TypeOK /\ VersionsTell /\ Told
    OBVIOUS
  <2>1. PICK s \in Starts : selector = s.selector /\ tapp = s.tapp /\ pods = s.pods
    BY DEF Init
  <2>2. /\ tapp \in [Keys -> Stages]
        /\ pods \in [PodNames -> [labels : PodLabels, version : {0}] \cup {NoPod}]
    BY <2>1, StartsAssumption
  <2>3. TypeOK
    <3>1. pods \in [PodNames -> PodOrNone] /\ cachedPods \in [PodNames -> PodOrNone]
      BY <2>2 DEF Init, PodOrNone, Pod
    <3>2. tappsSynced \in BOOLEAN /\ podsSynced \in BOOLEAN
      BY Zenon DEF Init
    <3>3. queue \in Seq(Keys) /\ podEvents \in Seq(PodEvent) /\ podNotes \in Seq(Note)
      BY DEF Init
    <3>4. events \in 0 .. MaxEvents
      BY EventsAssumption DEF Init
    <3> QED
      BY <2>2, <3>1, <3>2, <3>3, <3>4 DEF Init, TypeOK, Stages
  <2>4. VersionsTell
    <3>1. \A p \in PodNames : \A c \in Copies(p) \ {NoPod} : c = pods[p] /\ c.version = 0
      BY <2>2 DEF Init, Copies
    <3>2. events = 0
      BY DEF Init
    <3> QED
      BY <3>1, <3>2 DEF VersionsTell
  <2> QED
    BY <2>3, <2>4 DEF Init, Told
<1>2. Told => NoLostWakeup
  BY DEF Told, NoLostWakeup
<1> QED
  BY <1>1, <1>2, InitQueue, StepKeeps, TypeNext, VersionsNext, ToldNext, PTL DEF Spec
=============================================================================
