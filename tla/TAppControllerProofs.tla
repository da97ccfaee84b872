------------------------ MODULE TAppControllerProofs ------------------------
(***************************************************************************)
(* Inv of TAppController is inductive, so every reachable state of every   *)
(* instance is well typed and its stored status is truthful.  The argument *)
(* follows the versions: whatever is refused for being behind cannot hurt, *)
(* and a write that is accepted was computed from the stored spec.         *)
(***************************************************************************)
EXTENDS TAppController, TAppPlanProofs, SequenceTheorems

-----------------------------------------------------------------------------
(* Values *)

\* preprocessTApp, updateTAppStatus and the user store well-formed TApps.
LEMMA TAppValues ==
    ASSUME NEW t \in TApp, NEW u \in TApp, NEW p \in PodMap, NEW s \in TAppSpec
    PROVE  /\ withStatus(t, p) \in TApp
           /\ [t EXCEPT !.status = u.status] \in TApp
           /\ [t EXCEPT !.status.scale = TRUE] \in TApp
           /\ [gen |-> t.gen + 1, spec |-> s, status |-> u.status] \in TApp
           /\ [t EXCEPT !.gen = @ + 1, !.spec = s] \in TApp
<1>1. getInstanceStatus(t, p) \in Statuses
  BY InstanceStatusType
<1>2. withStatus(t, p) \in TApp
  BY <1>1 DEF withStatus, TApp, TAppStatus
<1>3. [t EXCEPT !.status = u.status] \in TApp
  BY DEF TApp
<1>4. [t EXCEPT !.status.scale = TRUE] \in TApp
  BY DEF TApp, TAppStatus
<1>5. t.gen + 1 \in Nat /\ u.status \in TAppStatus
  BY DEF TApp
<1>6. [gen |-> t.gen + 1, spec |-> s, status |-> u.status] \in TApp
  BY <1>5 DEF TApp
<1>7. [t EXCEPT !.gen = @ + 1, !.spec = s] \in TApp
  BY <1>5 DEF TApp
<1> QED
  BY <1>2, <1>3, <1>4, <1>6, <1>7

\* The status updateTAppStatus computes is truthful about the spec it computes it from,
\* and a new generation makes no promise yet.
LEMMA TruthfulValues ==
    ASSUME NEW t \in TApp, NEW p \in PodMap, NEW s, Truthful(t)
    PROVE  /\ Truthful(withStatus(t, p))
           /\ Truthful([t EXCEPT !.status.scale = TRUE])
           /\ Truthful([gen |-> t.gen + 1, spec |-> s, status |-> t.status])
           /\ Truthful([t EXCEPT !.gen = @ + 1, !.spec = s])
<1>1. \A i \in Id : i < t.spec.replicas =>
        /\ getInstanceStatus(t, p)[i] # "None"
        /\ i \in t.spec.killed => getInstanceStatus(t, p)[i] # "NotCreated"
  BY InstanceStatusCovers
<1>2. Truthful(withStatus(t, p))
  <2>1. /\ withStatus(t, p).gen = t.gen /\ withStatus(t, p).spec = t.spec
        /\ withStatus(t, p).status.observed = t.gen
        /\ withStatus(t, p).status.statuses = getInstanceStatus(t, p)
    BY DEF withStatus, TApp, TAppStatus
  <2> QED
    BY <1>1, <2>1 DEF Truthful, TApp
<1>3. Truthful([t EXCEPT !.status.scale = TRUE])
  BY DEF Truthful, TApp, TAppStatus
<1>4. t.status.observed # t.gen + 1 /\ t.status.observed <= t.gen + 1
  BY DEF Truthful, TApp, TAppStatus
<1> QED
  BY <1>2, <1>3, <1>4 DEF Truthful, TApp

\* The calls of Sync and the reports of the kubelets store well-formed pods.
LEMMA PodValues ==
    ASSUME NEW pod \in Pod, NEW gate \in {"True", "False"}, NEW t \in Template,
           NEW q \in Pod
    PROVE  /\ withGate(pod, gate) \in Pod
           /\ [pod EXCEPT !.gate = q.gate, !.ready = q.ready] \in Pod
           /\ [pod EXCEPT !.dying = TRUE] \in Pod
           /\ [pod EXCEPT !.tmpl = t, !.inPlace = TRUE] \in Pod
BY DEF withGate, Pod

-----------------------------------------------------------------------------
(* The API server *)

\* Storing a truthful TApp keeps the event queue truthful and up to date.
LEMMA WriteTAppKeeps ==
    ASSUME TypeOK, TAppWatched, AllTruthful,
           NEW t \in TApp, Truthful(t), WriteTApp(t)
    PROVE  /\ tapp' = t /\ tappEvents' \in Seq(TApp)
           /\ tappEvents' # <<>> => tappEvents'[Len(tappEvents')] = tapp'
           /\ \A k \in DOMAIN tappEvents' : Truthful(tappEvents'[k])
           /\ tappEvents' = <<>> => tappEvents = <<>> /\ tapp' = tapp
<1>1. CASE t = tapp /\ UNCHANGED <<tapp, tappEvents>>
  BY <1>1 DEF TypeOK, TAppWatched, AllTruthful
<1>2. CASE tapp' = t /\ tappEvents' = Append(tappEvents, t)
  BY <1>2 DEF TypeOK, AllTruthful
<1> QED
  BY <1>1, <1>2 DEF WriteTApp

\* Storing a pod keeps the newest event of every pod up to date, and makes every copy
\* of the old version a stale one.
LEMMA WritePodKeeps ==
    ASSUME TypeOK, PodsWatched, NEW i \in Id, NEW pod \in Pod \cup {NoPod}, WritePod(i, pod)
    PROVE  /\ pods' \in PodMap /\ podEvents' \in Seq(PodEvent) /\ listed' \subseteq listed
           /\ \A k \in DOMAIN podEvents' :
                (\A m \in DOMAIN podEvents' : m > k => podEvents'[m].id # podEvents'[k].id) =>
                   podEvents'[k].pod = pods'[podEvents'[k].id]
           /\ \A j \in Id : PodCurrent(j)' => PodCurrent(j) /\ pods'[j] = pods[j]
           /\ \A j \in listed' : pods'[j] = pods[j]
           /\ pods' = [pods EXCEPT ![i] = pod]
<1>1. CASE pod = pods[i] /\ UNCHANGED <<pods, podEvents, listed>>
  BY <1>1 DEF TypeOK, PodsWatched, PodCurrent, PodMap
<1>2. CASE /\ pods' = [pods EXCEPT ![i] = pod]
           /\ podEvents' = Append(podEvents, [id |-> i, pod |-> pod])
           /\ listed' = listed \ {i}
  <2> DEFINE e == [id |-> i, pod |-> pod]
  <2>1. e \in PodEvent /\ e.id = i /\ e.pod = pod
    BY DEF PodEvent
  <2>2. podEvents \in Seq(PodEvent)
    BY DEF TypeOK
  <2> HIDE DEF e
  <2>3. /\ podEvents' \in Seq(PodEvent) /\ Len(podEvents') = Len(podEvents) + 1
        /\ \A k \in 1 .. Len(podEvents) : podEvents'[k] = podEvents[k]
        /\ podEvents'[Len(podEvents) + 1] = e
        /\ DOMAIN podEvents' = 1 .. Len(podEvents) + 1
        /\ DOMAIN podEvents = 1 .. Len(podEvents)
        /\ Len(podEvents) \in Nat
    BY <1>2, <2>1, <2>2 DEF e
  <2>4. pods' \in PodMap /\ \A j \in Id : pods'[j] = IF j = i THEN pod ELSE pods[j]
    BY <1>2 DEF TypeOK, PodMap
  <2>5. \A k \in 1 .. Len(podEvents) : podEvents[k].id \in Id
    <3>1. \A k \in 1 .. Len(podEvents) : podEvents[k] \in PodEvent
      BY <2>2, ElementOfSeq
    <3> QED
      BY <3>1 DEF PodEvent
  <2>6. ASSUME NEW k \in DOMAIN podEvents',
               \A m \in DOMAIN podEvents' : m > k => podEvents'[m].id # podEvents'[k].id
        PROVE  podEvents'[k].pod = pods'[podEvents'[k].id]
    <3>1. CASE k = Len(podEvents) + 1
      BY <2>1, <2>3, <2>4, <3>1
    <3>2. CASE k # Len(podEvents) + 1
      <4>1. k \in 1 .. Len(podEvents) /\ Len(podEvents) + 1 > k
        BY <2>3, <3>2
      <4>2. podEvents[k].id # i
        BY <2>1, <2>3, <2>6, <4>1
      <4>3. \A m \in DOMAIN podEvents : m > k => podEvents[m].id # podEvents[k].id
        BY <2>3, <2>6, <4>1
      <4>4. podEvents[k].pod = pods[podEvents[k].id]
        BY <2>3, <4>1, <4>3 DEF PodsWatched
      <4> QED
        BY <2>3, <2>4, <2>5, <4>1, <4>2, <4>4
    <3> QED
      BY <3>1, <3>2
  <2>7. ASSUME NEW j \in Id, PodCurrent(j)'
        PROVE  PodCurrent(j) /\ pods'[j] = pods[j]
    BY <2>1, <2>3, <2>4, <2>7 DEF PodCurrent
  <2> QED
    BY <1>2, <2>3, <2>4, <2>6, <2>7 DEF TypeOK
<1> QED
  BY <1>1, <1>2 DEF WritePod

\* Only an update of the current version is applied, and a failed call is paid for.
LEMMA Outcomes ==
    ASSUME budget \in BudgetType, NEW c \in BOOLEAN, NEW r \in Outcome(c), Charge(r)
    PROVE  budget' \in BudgetType /\ (Applied(r) => c)
<1>1. CASE budget.faults = 0
  BY <1>1 DEF Outcome, Charge, Applied, BudgetType
<1>2. CASE budget.faults # 0
  <2>1. budget.faults - 1 \in Nat
    BY <1>2 DEF BudgetType
  <2> QED
    BY <1>2, <2>1 DEF Outcome, Charge, Applied, BudgetType
<1> QED
  BY <1>1, <1>2

-----------------------------------------------------------------------------
(* What a step leaves alone *)

TAppSide == <<tapp, tappEvents, cachedTApp, app, fresh>>

PodSide == <<pods, podEvents, cachedPods, list, listed>>

\* A step that touches no copy of the TApp keeps what Inv says about them.
LEMMA TAppFrame ==
    ASSUME Inv, UNCHANGED TAppSide
    PROVE  TAppWatched' /\ AllTruthful'
BY DEF Inv, TAppSide, TAppWatched, AllTruthful, TAppCurrent, SameSpec, Truthful

\* A step that touches no copy of a pod keeps what Inv says about them.
LEMMA PodFrame ==
    ASSUME Inv, UNCHANGED PodSide
    PROVE  PodsWatched'
BY DEF Inv, PodSide, PodsWatched, PodCurrent

\* A stored pod keeps what Inv says about pods, if the copies come and go with nobody.
LEMMA PodWriteFrame ==
    ASSUME Inv, NEW i \in Id, NEW pod \in Pod \cup {NoPod}, WritePod(i, pod),
           \A j \in Id : cachedPods'[j] = NoPod <=> cachedPods[j] = NoPod,
           \A j \in Id : list'[j] = NoPod <=> list[j] = NoPod
    PROVE  PodsWatched'
<1>1. /\ \A k \in DOMAIN podEvents' :
           (\A m \in DOMAIN podEvents' : m > k => podEvents'[m].id # podEvents'[k].id) =>
              podEvents'[k].pod = pods'[podEvents'[k].id]
      /\ \A j \in Id : PodCurrent(j)' => PodCurrent(j) /\ pods'[j] = pods[j]
      /\ \A j \in listed' : pods'[j] = pods[j] /\ j \in listed /\ j \in Id
  BY WritePodKeeps DEF Inv, TypeOK
<1> QED
  BY <1>1 DEF Inv, PodsWatched

\* Sync returns: its copies are gone and promise nothing.
LEMMA ReturnFrame ==
    ASSUME Inv, Return
    PROVE  /\ PlanBacked'
           /\ app' \in TApp /\ Truthful(app') /\ fresh' = FALSE
           /\ list' \in PodMap /\ listed' = {}
           /\ pc' = "idle" /\ plan' \in InstancePlan /\ todo' \subseteq Id /\ retry' \subseteq Id
           /\ tries' \in 0 .. updateRetries
BY InitAssumption
   DEF Return, PlanBacked, NoPlan, NoPods, InstancePlan, PodMap, updateRetries

\* Sync returns and nothing is stored.
LEMMA ReturnKeeps ==
    ASSUME Inv, Return, UNCHANGED <<cluster, watch, caches>>, budget' \in BudgetType
    PROVE  Inv'
<1> USE DEF cluster, watch, caches
<1>1. TypeOK'
  BY ReturnFrame DEF Inv, TypeOK
<1>2. TAppWatched' /\ AllTruthful'
  BY ReturnFrame DEF Inv, TAppWatched, AllTruthful, TAppCurrent, SameSpec
<1>3. PodsWatched'
  BY ReturnFrame DEF Inv, PodsWatched, PodCurrent
<1> QED
  BY <1>1, <1>2, <1>3, ReturnFrame DEF Inv

\* A step that stores one well-formed pod and otherwise only counts.
LEMMA PodStepKeeps ==
    ASSUME Inv, NEW i \in Id, NEW pod \in Pod \cup {NoPod}, WritePod(i, pod),
           UNCHANGED <<tapp, tappEvents, caches, pc, app, fresh, list, plan>>,
           lost' \subseteq Id, budget' \in BudgetType,
           todo' \subseteq todo, retry' \subseteq Id, tries' \in 0 .. updateRetries
    PROVE  Inv'
<1> USE DEF caches
<1>1. /\ pods' \in PodMap /\ podEvents' \in Seq(PodEvent) /\ listed' \subseteq listed
  BY WritePodKeeps DEF Inv
<1>2. TypeOK'
  BY <1>1 DEF Inv, TypeOK
<1>3. PlanBacked'
  BY DEF Inv, PlanBacked
<1>4. TAppWatched' /\ AllTruthful'
  BY TAppFrame DEF TAppSide
<1>5. PodsWatched'
  BY PodWriteFrame
<1> QED
  BY <1>2, <1>3, <1>4, <1>5 DEF Inv

-----------------------------------------------------------------------------
(* Inv is inductive *)

\* Inv holds when the controller starts.
LEMMA InvInit == Init => Inv
<1> SUFFICES ASSUME Init PROVE Inv
  OBVIOUS
<1> USE InitAssumption, EnvironmentAssumption
<1>1. TypeOK
  <2>1. NoPods \in PodMap /\ NoPlan \in InstancePlan
    BY DEF NoPods, NoPlan, PodMap, InstancePlan
  <2>2. 0 \in 0 .. updateRetries
    BY DEF updateRetries
  <2>3. nodesSynced \in BOOLEAN /\ fresh \in BOOLEAN
    BY Zenon DEF Init
  <2>4. tappEvents \in Seq(TApp) /\ podEvents \in Seq(PodEvent)
    BY DEF Init
  <2> QED
    BY <2>1, <2>2, <2>3, <2>4 DEF Init, TypeOK
<1>2. PlanBacked
  BY DEF Init, PlanBacked, NoPlan
<1>3. TAppWatched /\ PodsWatched
  BY DEF Init, TAppWatched, PodsWatched, SameSpec
<1>4. AllTruthful
  BY DEF Init, AllTruthful
<1> QED
  BY <1>1, <1>2, <1>3, <1>4 DEF Inv

\* GetTApp: both ways to get a copy give a truthful one.
LEMMA GetTAppKeeps == Inv /\ GetTApp => Inv'
<1> SUFFICES ASSUME Inv, GetTApp PROVE Inv'
  OBVIOUS
<1>1. TypeOK'
  BY DEF Inv, TypeOK, GetTApp, cluster, watch, caches, TAppCurrent
<1>2. PlanBacked'
  BY DEF Inv, PlanBacked, GetTApp, NoPlan
<1>3. TAppWatched'
  BY DEF Inv, TAppWatched, GetTApp, cluster, watch, caches, TAppCurrent, SameSpec
<1>4. PodsWatched'
  BY PodFrame DEF GetTApp, PodSide, cluster, watch, caches
<1>5. AllTruthful'
  BY DEF Inv, AllTruthful, GetTApp, cluster, watch, caches
<1> QED
  BY <1>1, <1>2, <1>3, <1>4, <1>5 DEF Inv

\* preprocessTApp: the object it stores is based on the stored version.
LEMMA PreprocessKeeps == Inv /\ preprocessTApp => Inv'
<1> SUFFICES ASSUME Inv, preprocessTApp PROVE Inv'
  OBVIOUS
<1> USE DEF preprocessTApp
<1>0. CASE Return /\ UNCHANGED <<tapp, tappEvents, budget>>
  BY <1>0, ReturnKeeps DEF Inv, TypeOK, cluster, watch
<1>1. CASE preprocessed = app /\ pc' = "list" /\ UNCHANGED <<tapp, tappEvents, locals, budget>>
  <2> USE <1>1 DEF locals, caches
  <2>1. TypeOK'
    BY DEF Inv, TypeOK
  <2>2. PlanBacked'
    BY DEF Inv, PlanBacked
  <2>3. TAppWatched' /\ AllTruthful'
    BY TAppFrame DEF TAppSide
  <2>4. PodsWatched'
    BY PodFrame DEF PodSide
  <2> QED
    BY <2>1, <2>2, <2>3, <2>4 DEF Inv
<1>2. CASE \E r \in Outcome(fresh) :
             /\ Charge(r)
             /\ WriteTApp(IF Applied(r) THEN preprocessed ELSE tapp)
             /\ \/ /\ r = "ok"
                   /\ app' = preprocessed /\ fresh' = TRUE
                   /\ pc' = IF statusAnswered THEN "preprocessStatus" ELSE "list"
                   /\ UNCHANGED <<list, listed, plan, todo, retry, tries>>
                \/ r # "ok" /\ Return
  <2>1. PICK r \in Outcome(fresh) :
          /\ Charge(r)
          /\ WriteTApp(IF Applied(r) THEN preprocessed ELSE tapp)
          /\ \/ /\ r = "ok"
                /\ app' = preprocessed /\ fresh' = TRUE
                /\ pc' \in {"list", "preprocessStatus"}
                /\ UNCHANGED <<list, listed, plan, todo, retry, tries>>
             \/ r # "ok" /\ Return
    BY <1>2
  <2>2. budget' \in BudgetType /\ (Applied(r) => fresh)
    BY <2>1, Outcomes DEF Inv, TypeOK
  <2> DEFINE t == IF Applied(r) THEN preprocessed ELSE tapp
  <2>3. fresh => preprocessed \in TApp /\ Truthful(preprocessed)
    <3>1. app \in TApp /\ tapp \in TApp /\ app.spec \in TAppSpec /\ list \in PodMap
      BY DEF Inv, TypeOK, TApp
    <3>2. preprocessSpec(app.spec) \in TAppSpec
      BY <3>1, PreprocessType
    <3>3. Truthful(app) /\ Truthful(tapp)
      BY DEF Inv, AllTruthful
    <3>4. fresh => app.gen = tapp.gen
      BY DEF Inv, TAppWatched, SameSpec
    <3>5. [app EXCEPT !.status.scale = TRUE] \in TApp /\ Truthful([app EXCEPT !.status.scale = TRUE])
      BY <3>1, <3>3, TAppValues, TruthfulValues
    <3>6. /\ [gen |-> tapp.gen + 1, spec |-> preprocessSpec(app.spec), status |-> tapp.status] \in TApp
          /\ Truthful([gen |-> tapp.gen + 1, spec |-> preprocessSpec(app.spec), status |-> tapp.status])
      BY <3>1, <3>2, <3>3, TAppValues, TruthfulValues
    <3> QED
      BY <3>4, <3>5, <3>6 DEF preprocessed
  <2>4. t \in TApp /\ Truthful(t)
    BY <2>2, <2>3 DEF Inv, TypeOK, AllTruthful
  <2>5. /\ tapp' = t /\ tappEvents' \in Seq(TApp)
        /\ tappEvents' # <<>> => tappEvents'[Len(tappEvents')] = tapp'
        /\ \A k \in DOMAIN tappEvents' : Truthful(tappEvents'[k])
        /\ tappEvents' = <<>> => tappEvents = <<>> /\ tapp' = tapp
    BY <2>1, <2>4, WriteTAppKeeps DEF Inv
  <2>6. PodsWatched'
    <3>1. CASE UNCHANGED <<list, listed>>
      BY <3>1, PodFrame DEF PodSide, caches
    <3>2. CASE Return
      BY <3>2 DEF Inv, PodsWatched, PodCurrent, Return, caches
    <3> QED
      BY <2>1, <3>1, <3>2
  <2>7. CASE /\ r = "ok" /\ app' = preprocessed /\ fresh' = TRUE
             /\ pc' \in {"list", "preprocessStatus"}
             /\ UNCHANGED <<list, listed, plan, todo, retry, tries>>
    <3>1. tapp' = preprocessed /\ preprocessed \in TApp /\ Truthful(preprocessed)
      BY <2>2, <2>3, <2>5, <2>7 DEF Applied
    <3>2. TypeOK'
      BY <2>2, <2>5, <2>7, <3>1 DEF Inv, TypeOK, caches
    <3>3. PlanBacked'
      BY <2>7 DEF Inv, PlanBacked, NoPlan
    <3>4. TAppWatched' /\ AllTruthful'
      BY <2>5, <2>7, <3>1 DEF Inv, TAppWatched, AllTruthful, TAppCurrent, SameSpec, caches
    <3> QED
      BY <2>6, <3>2, <3>3, <3>4 DEF Inv
  <2>8. CASE Return
    <3>1. TypeOK'
      BY <2>2, <2>4, <2>5, <2>8, ReturnFrame DEF Inv, TypeOK, caches
    <3>2. TAppWatched' /\ AllTruthful'
      BY <2>4, <2>5, <2>8, ReturnFrame
         DEF Inv, TAppWatched, AllTruthful, TAppCurrent, SameSpec, caches
    <3> QED
      BY <2>6, <2>8, <3>1, <3>2, ReturnFrame DEF Inv
  <2> QED
    BY <2>1, <2>7, <2>8
<1> QED
  BY <1>0, <1>1, <1>2

\* preprocessStatus stores nothing that is not stored already.
LEMMA PreprocessStatusKeeps == Inv /\ preprocessStatus => Inv'
<1> SUFFICES ASSUME Inv, preprocessStatus PROVE Inv'
  OBVIOUS
<1>1. budget' \in BudgetType
  BY Outcomes DEF Inv, TypeOK, preprocessStatus
<1>2. CASE Return
  BY <1>1, <1>2, ReturnKeeps DEF preprocessStatus
<1>3. CASE pc' = "list" /\ UNCHANGED locals
  <2> USE <1>3 DEF preprocessStatus, cluster, watch, caches, locals
  <2>1. TypeOK'
    BY <1>1 DEF Inv, TypeOK
  <2>2. PlanBacked'
    BY DEF Inv, PlanBacked
  <2>3. TAppWatched' /\ AllTruthful'
    BY TAppFrame DEF TAppSide
  <2>4. PodsWatched'
    BY PodFrame DEF PodSide
  <2> QED
    BY <2>1, <2>2, <2>3, <2>4 DEF Inv
<1> QED
  BY <1>2, <1>3 DEF preprocessStatus

\* ListPods: the plan is one that instanceToSync makes, and the copies of the pods whose
\* events are all delivered are as current as the cache.
LEMMA ListPodsKeeps == Inv /\ ListPods => Inv'
<1> SUFFICES ASSUME Inv, ListPods PROVE Inv'
  OBVIOUS
<1>1. CASE Return
  BY <1>1, ReturnKeeps DEF ListPods, Inv, TypeOK
<1>2. CASE /\ list' = cachedPods
           /\ listed' = {i \in Id : PodCurrent(i)}
           /\ plan' \in instanceToSync(app, cachedPods, NoNode)
           /\ todo' = {i \in Id : cachedPods[i] # NoPod}
           /\ pc' = "conditions"
           /\ UNCHANGED <<app, fresh, retry, tries>>
  <2> USE DEF ListPods, cluster, watch, caches
  <2>1. /\ plan' \in InstancePlan
        /\ \A i \in plan'.add \cup plan'.update : getPodTemplate(app.spec, i) # NoTemplate
    BY <1>2, PlanType DEF Inv, TypeOK
  <2>2. TypeOK'
    BY <1>2, <2>1 DEF Inv, TypeOK
  <2>3. PlanBacked'
    BY <1>2, <2>1 DEF PlanBacked
  <2>4. TAppWatched' /\ AllTruthful'
    BY <1>2, TAppFrame DEF TAppSide
  <2>5. PodsWatched'
    BY <1>2 DEF Inv, PodsWatched, PodCurrent
  <2> QED
    BY <2>2, <2>3, <2>4, <2>5 DEF Inv
<1> QED
  BY <1>1, <1>2 DEF ListPods

\* setInPlaceUpdateCondition: it edits copies of pods, and stores the edit only when the
\* pod behind the copy still exists.
LEMMA ConditionKeeps == ASSUME NEW i \in Id PROVE Inv /\ setInPlaceUpdateCondition(i) => Inv'
<1> SUFFICES ASSUME Inv, setInPlaceUpdateCondition(i) PROVE Inv'
  OBVIOUS
<1> DEFINE again  == i \in retry
           source == IF again THEN cachedPods[i] ELSE list[i]
           new    == withGate(source, gateOf(i))
           needUpdate == source # NoPod /\ source.gate # gateOf(i)
           Finish == todo' = todo \ {i} /\ UNCHANGED retry
           Stored(r) == IF Applied(r)
                        THEN [pods[i] EXCEPT !.gate = new.gate, !.ready = new.ready]
                        ELSE pods[i]
<1>1. /\ pc = "conditions" /\ i \in todo
      /\ UNCHANGED <<tapp, lost, tappEvents, cachedTApp, nodesSynced,
                     pc, app, fresh, plan, tries>>
  BY DEF setInPlaceUpdateCondition
<1>2. TAppWatched' /\ AllTruthful'
  BY <1>1, TAppFrame DEF TAppSide
<1>3. PlanBacked'
  BY <1>1 DEF Inv, PlanBacked
<1>4. CASE ~needUpdate /\ Finish /\ UNCHANGED <<pods, podEvents, cachedPods, list, listed, budget>>
  <2>1. TypeOK'
    BY <1>1, <1>4 DEF Inv, TypeOK
  <2>2. PodsWatched'
    BY <1>4, PodFrame DEF PodSide
  <2> QED
    BY <1>2, <1>3, <2>1, <2>2 DEF Inv
<1>5. CASE /\ needUpdate
           /\ list' = IF again THEN list ELSE [list EXCEPT ![i] = new]
           /\ cachedPods' = IF again THEN [cachedPods EXCEPT ![i] = new] ELSE cachedPods
           /\ \E r \in Outcome(IF again THEN PodCurrent(i) ELSE i \in listed) :
                /\ Charge(r)
                /\ WritePod(i, Stored(r))
                /\ \/ retry' = retry \cup {i} /\ UNCHANGED todo
                   \/ Finish
  <2>1. PICK r \in Outcome(IF again THEN PodCurrent(i) ELSE i \in listed) :
          /\ Charge(r)
          /\ WritePod(i, Stored(r))
          /\ todo' \subseteq todo /\ retry' \subseteq retry \cup {i}
    BY <1>5
  <2>2. (IF again THEN PodCurrent(i) ELSE i \in listed) \in BOOLEAN
    <3>1. PodCurrent(i) \in BOOLEAN /\ (i \in listed) \in BOOLEAN
      BY DEF PodCurrent
    <3> QED
      BY <3>1, Zenon
  <2>3. /\ budget' \in BudgetType
        /\ Applied(r) => IF again THEN PodCurrent(i) ELSE i \in listed
    BY <2>1, <2>2, Outcomes DEF Inv, TypeOK
  <2>4. source \in Pod
    BY <1>5 DEF Inv, TypeOK, PodMap
  <2>5. gateOf(i) \in {"True", "False"}
    BY DEF gateOf
  <2>6. source.tmpl \in Template
    BY <2>4 DEF Pod
  <2> HIDE DEF source
  <2>7. new \in Pod /\ new # NoPod
    BY <2>4, <2>5, <2>6, PodValues, NullAssumption
  <2> USE DEF source
  <2> HIDE DEF new
  <2>8. Applied(r) => pods[i] \in Pod
    BY <1>5, <2>3 DEF Inv, TypeOK, PodMap, PodsWatched
  <2>9. Stored(r) \in Pod \cup {NoPod}
    BY <2>6, <2>7, <2>8, PodValues DEF Inv, TypeOK, PodMap
  <2>10. list' \in PodMap /\ cachedPods' \in PodMap
    BY <1>5, <2>7 DEF Inv, TypeOK, PodMap
  <2>11. \A j \in Id : /\ cachedPods'[j] = NoPod <=> cachedPods[j] = NoPod
                       /\ list'[j] = NoPod <=> list[j] = NoPod
    BY <1>5, <2>7 DEF Inv, TypeOK, PodMap
  <2>12. PodsWatched'
    BY <2>1, <2>9, <2>11, PodWriteFrame
  <2>13. /\ pods' \in PodMap /\ podEvents' \in Seq(PodEvent) /\ listed' \subseteq listed
    BY <2>1, <2>9, WritePodKeeps DEF Inv
  <2>14. TypeOK'
    BY <1>1, <2>1, <2>3, <2>10, <2>13 DEF Inv, TypeOK
  <2> QED
    BY <1>2, <1>3, <2>12, <2>14 DEF Inv
<1> QED
  BY <1>4, <1>5 DEF setInPlaceUpdateCondition

\* WaitConditions and WaitInstances only choose the instances to handle next.
LEMMA WaitsKeep == Inv /\ (WaitConditions \/ WaitInstances) => Inv'
<1> SUFFICES ASSUME Inv, WaitConditions \/ WaitInstances PROVE Inv'
  OBVIOUS
<1> USE DEF WaitConditions, WaitInstances, cluster, watch, caches
<1>1. TypeOK'
  BY DEF Inv, TypeOK, InstancePlan
<1>2. PlanBacked'
  BY DEF Inv, PlanBacked
<1>3. TAppWatched' /\ AllTruthful'
  BY TAppFrame DEF TAppSide
<1>4. PodsWatched'
  BY PodFrame DEF PodSide
<1> QED
  BY <1>1, <1>2, <1>3, <1>4 DEF Inv

\* createInstance, deleteInstance and forceDeleteInstance store a new pod, a dying pod
\* or none.
LEMMA InstancesKeep ==
    ASSUME NEW i \in Id
    PROVE  Inv /\ (createInstance(i) \/ deleteInstance(i) \/ forceDeleteInstance(i)) => Inv'
<1> SUFFICES ASSUME Inv, createInstance(i) \/ deleteInstance(i) \/ forceDeleteInstance(i)
             PROVE  Inv'
  OBVIOUS
<1>1. /\ UNCHANGED <<tapp, tappEvents, caches, pc, app, fresh, list, plan>>
      /\ todo' \subseteq todo /\ retry' \subseteq Id /\ tries' \in 0 .. updateRetries
      /\ lost \subseteq Id /\ budget \in BudgetType /\ pods[i] \in Pod \cup {NoPod}
  BY DEF createInstance, deleteInstance, forceDeleteInstance, InstanceStep, Inv, TypeOK, PodMap
<1>2. ASSUME createInstance(i) PROVE Inv'
  <2>1. newPod(i) \in Pod
    <3>1. getPodTemplate(app.spec, i) \in Template
      <4>1. app.spec \in TAppSpec
        BY DEF Inv, TypeOK, TApp
      <4> QED
        BY <1>2, <4>1, PodTemplateType DEF createInstance, Inv, PlanBacked
    <3> QED
      BY <3>1 DEF newPod, Pod
  <2>2. PICK r \in Outcome(TRUE) :
          /\ Charge(r)
          /\ WritePod(i, IF Applied(r) /\ cachedPods[i] = NoPod /\ pods[i] = NoPod
                         THEN newPod(i) ELSE pods[i])
    BY <1>2 DEF createInstance
  <2>3. budget' \in BudgetType
    BY <1>1, <2>2, Outcomes
  <2>4. lost' \subseteq Id
    BY <1>1, <1>2 DEF createInstance
  <2> QED
    BY <1>1, <2>1, <2>2, <2>3, <2>4, PodStepKeeps
<1>3. ASSUME deleteInstance(i) PROVE Inv'
  <2>1. pods[i] # NoPod => [pods[i] EXCEPT !.dying = TRUE] \in Pod
    BY <1>1 DEF Pod
  <2>2. PICK r \in Outcome(TRUE) :
          /\ Charge(r)
          /\ WritePod(i, IF /\ Applied(r) /\ pods[i] # NoPod
                            /\ cachedPods[i] # NoPod /\ ~isPodDying(cachedPods[i])
                         THEN [pods[i] EXCEPT !.dying = TRUE] ELSE pods[i])
    BY <1>3 DEF deleteInstance
  <2>3. budget' \in BudgetType
    BY <1>1, <2>2, Outcomes
  <2>4. lost' \subseteq Id
    BY <1>1, <1>3 DEF deleteInstance
  <2> QED
    BY <1>1, <2>1, <2>2, <2>3, <2>4, PodStepKeeps
<1>4. ASSUME forceDeleteInstance(i) PROVE Inv'
  <2>1. PICK r \in Outcome(TRUE) :
          /\ Charge(r)
          /\ WritePod(i, IF Applied(r) /\ cachedPods[i] # NoPod THEN NoPod ELSE pods[i])
          /\ lost' \subseteq lost
    BY <1>4 DEF forceDeleteInstance
  <2>2. budget' \in BudgetType
    BY <1>1, <2>1, Outcomes
  <2> QED
    BY <1>1, <2>1, <2>2, PodStepKeeps
<1> QED
  BY <1>2, <1>3, <1>4

\* updateInstance: newInstance finds the template, and only a pod that exists is merged.
LEMMA UpdateKeeps == ASSUME NEW i \in Id PROVE Inv /\ updateInstance(i) => Inv'
<1> SUFFICES ASSUME Inv, updateInstance(i) PROVE Inv'
  OBVIOUS
<1>1. /\ UNCHANGED <<tapp, lost, tappEvents, caches, pc, app, fresh, list, plan>>
      /\ pc = "updates" /\ i \in todo
      /\ lost' \subseteq Id /\ budget \in BudgetType /\ pods[i] \in Pod \cup {NoPod}
      /\ tries \in 0 .. updateRetries
  BY DEF updateInstance, nextUpdate, Inv, TypeOK, PodMap
<1> DEFINE Finish == todo' = todo \ {i} /\ retry' = {} /\ tries' = 0
<1>2. CASE Finish /\ UNCHANGED <<pods, podEvents, listed, budget>>
  <2>1. TypeOK'
    BY <1>1, <1>2 DEF Inv, TypeOK, caches, updateRetries
  <2>2. PlanBacked'
    BY <1>1, <1>2 DEF Inv, PlanBacked
  <2>3. TAppWatched' /\ AllTruthful'
    BY <1>1, TAppFrame DEF TAppSide, caches
  <2>4. PodsWatched'
    BY <1>1, <1>2, PodFrame DEF PodSide, caches
  <2> QED
    BY <2>1, <2>2, <2>3, <2>4 DEF Inv
<1>3. CASE /\ cachedPods[i] # NoPod
           /\ \E r \in Outcome(PodCurrent(i)) :
                /\ Charge(r)
                /\ WritePod(i, IF Applied(r) THEN mergePod(pods[i], i) ELSE pods[i])
                /\ \/ (r = "ok" \/ tries = updateRetries) /\ Finish
                   \/ /\ r # "ok" /\ tries < updateRetries
                      /\ retry' = {i} /\ tries' = tries + 1 /\ UNCHANGED todo
  <2>1. PICK r \in Outcome(PodCurrent(i)) :
          /\ Charge(r)
          /\ WritePod(i, IF Applied(r) THEN mergePod(pods[i], i) ELSE pods[i])
          /\ \/ Finish
             \/ tries < updateRetries /\ retry' = {i} /\ tries' = tries + 1 /\ UNCHANGED todo
    BY <1>3
  <2>2. PodCurrent(i) \in BOOLEAN
    BY DEF PodCurrent
  <2>3. budget' \in BudgetType /\ (Applied(r) => PodCurrent(i))
    BY <1>1, <2>1, <2>2, Outcomes
  <2>4. todo' \subseteq todo /\ retry' \subseteq Id /\ tries' \in 0 .. updateRetries
    BY <1>1, <2>1 DEF updateRetries
  <2>5. getPodTemplate(app.spec, i) \in Template
    <3>1. app.spec \in TAppSpec
      BY DEF Inv, TypeOK, TApp
    <3> QED
      BY <1>1, <3>1, PodTemplateType DEF Inv, PlanBacked
  <2>6. Applied(r) => pods[i] \in Pod
    BY <1>1, <1>3, <2>3 DEF Inv, PodsWatched
  <2>7. Applied(r) => mergePod(pods[i], i) \in Pod
    BY <2>5, <2>6 DEF mergePod, Pod
  <2> QED
    BY <1>1, <2>1, <2>3, <2>4, <2>7, PodStepKeeps
<1> QED
  BY <1>2, <1>3 DEF updateInstance

\* FinishInstances: Sync returns or goes on to the status with what it has.
LEMMA FinishKeeps == Inv /\ FinishInstances => Inv'
<1> SUFFICES ASSUME Inv, FinishInstances PROVE Inv'
  OBVIOUS
<1>1. CASE Return
  BY <1>1, ReturnKeeps DEF FinishInstances, Inv, TypeOK
<1>2. CASE pc' = "status" /\ UNCHANGED locals
  <2> USE <1>2 DEF FinishInstances, cluster, watch, caches, locals
  <2>1. TypeOK'
    BY DEF Inv, TypeOK
  <2>2. PlanBacked'
    BY DEF Inv, PlanBacked
  <2>3. TAppWatched' /\ AllTruthful'
    BY TAppFrame DEF TAppSide
  <2>4. PodsWatched'
    BY PodFrame DEF PodSide
  <2> QED
    BY <2>1, <2>2, <2>3, <2>4 DEF Inv
<1> QED
  BY <1>1, <1>2 DEF FinishInstances

\* updateTAppStatus: what it computes from a copy is truthful about the copy, and it is
\* stored only when the copy has the stored spec.
LEMMA StatusKeeps == Inv /\ updateTAppStatus => Inv'
<1> SUFFICES ASSUME Inv, updateTAppStatus PROVE Inv'
  OBVIOUS
<1> DEFINE own == tries = 0
           src == statusTApp
           new == withStatus(src, list)
           current == IF own THEN fresh ELSE TAppCurrent
<1>1. /\ UNCHANGED <<pods, lost, podEvents, cachedPods, nodesSynced>>
      /\ cachedTApp' = IF own THEN cachedTApp ELSE new
  BY DEF updateTAppStatus, roundTApp
<1>2. PICK r \in Outcome(current) :
        /\ Charge(r)
        /\ WriteTApp(IF Applied(r) THEN [tapp EXCEPT !.status = new.status] ELSE tapp)
        /\ \/ Return
           \/ /\ tries < statusUpdateRetries /\ tries' = tries + 1
              /\ UNCHANGED <<pc, app, fresh, list, listed, plan, todo, retry>>
  BY Zenon DEF updateTAppStatus, statusOutcome, roundTApp
<1>3. current \in BOOLEAN
  <2>1. fresh \in BOOLEAN /\ TAppCurrent \in BOOLEAN
    BY DEF Inv, TypeOK, TAppCurrent
  <2> QED
    BY <2>1, Zenon
<1>4. budget' \in BudgetType /\ (Applied(r) => current)
  BY <1>2, <1>3, Outcomes DEF Inv, TypeOK
<1>5. src \in TApp /\ Truthful(src) /\ list \in PodMap /\ tapp \in TApp /\ Truthful(tapp)
  BY DEF Inv, TypeOK, AllTruthful, statusTApp
<1>6. Applied(r) => SameSpec(src, tapp)
  BY <1>4 DEF Inv, TAppWatched, statusTApp
<1> HIDE DEF src, current
<1>7. src.spec \in TAppSpec
  BY <1>5 DEF TApp
<1>8. new \in TApp /\ Truthful(new) /\ SameSpec(new, src)
  <2>1. new \in TApp /\ Truthful(new)
    BY <1>5, <1>7, TAppValues, TruthfulValues
  <2>2. SameSpec(new, src)
    BY <1>5 DEF SameSpec, withStatus, TApp, TAppStatus
  <2> QED
    BY <2>1, <2>2
<1> HIDE DEF new
<1> DEFINE t == IF Applied(r) THEN [tapp EXCEPT !.status = new.status] ELSE tapp
<1>9. t \in TApp /\ Truthful(t) /\ SameSpec(t, tapp)
  <2>1. [tapp EXCEPT !.status = new.status] \in TApp
    BY <1>5, <1>8 DEF TApp
  <2>2. Applied(r) => Truthful([tapp EXCEPT !.status = new.status])
    BY <1>5, <1>6, <1>8 DEF SameSpec, Truthful, TApp
  <2>3. SameSpec([tapp EXCEPT !.status = new.status], tapp)
    BY <1>5 DEF SameSpec, TApp
  <2> QED
    BY <1>5, <2>1, <2>2, <2>3 DEF SameSpec
<1>10. /\ tapp' = t /\ tappEvents' \in Seq(TApp)
       /\ tappEvents' # <<>> => tappEvents'[Len(tappEvents')] = tapp'
       /\ \A k \in DOMAIN tappEvents' : Truthful(tappEvents'[k])
       /\ tappEvents' = <<>> => tappEvents = <<>> /\ tapp' = tapp
  BY <1>2, <1>9, WriteTAppKeeps DEF Inv
<1> HIDE DEF t
<1>11. cachedTApp' \in TApp /\ Truthful(cachedTApp') /\ SameSpec(cachedTApp', cachedTApp)
  <2>1. CASE own
    BY <1>1, <2>1 DEF Inv, TypeOK, AllTruthful, SameSpec
  <2>2. CASE ~own
    BY <1>1, <1>8, <2>2 DEF src, statusTApp
  <2> QED
    BY <2>1, <2>2
<1>12. TAppCurrent' => SameSpec(cachedTApp', tapp')
  BY <1>10, <1>11 DEF Inv, TAppWatched, TAppCurrent, SameSpec
<1>13. CASE Return
  <2>1. TypeOK'
    BY <1>1, <1>4, <1>9, <1>10, <1>11, <1>13, ReturnFrame DEF Inv, TypeOK
  <2>2. TAppWatched' /\ AllTruthful'
    BY <1>9, <1>10, <1>11, <1>12, <1>13, ReturnFrame DEF TAppWatched, AllTruthful
  <2>3. PodsWatched'
    BY <1>1, <1>13, ReturnFrame DEF Inv, PodsWatched, PodCurrent
  <2> QED
    BY <1>13, <2>1, <2>2, <2>3, ReturnFrame DEF Inv
<1>14. CASE /\ tries < statusUpdateRetries /\ tries' = tries + 1
            /\ UNCHANGED <<pc, app, fresh, list, listed, plan, todo, retry>>
  <2>1. TypeOK'
    BY <1>1, <1>4, <1>9, <1>10, <1>11, <1>14
       DEF Inv, TypeOK, statusUpdateRetries, updateRetries
  <2>2. TAppWatched'
    BY <1>9, <1>10, <1>12, <1>14 DEF Inv, TAppWatched, SameSpec
  <2>3. AllTruthful'
    BY <1>9, <1>10, <1>11, <1>14 DEF Inv, AllTruthful
  <2>4. PodsWatched'
    BY <1>1, <1>14, PodFrame DEF PodSide
  <2>5. PlanBacked'
    BY <1>14 DEF Inv, PlanBacked
  <2> QED
    BY <2>1, <2>2, <2>3, <2>4, <2>5 DEF Inv
<1> QED
  BY <1>2, <1>13, <1>14

\* DeliverTApp: the cache moves to the oldest event, and to the stored TApp with the last.
LEMMA DeliverTAppKeeps == Inv /\ DeliverTApp => Inv'
<1> SUFFICES ASSUME Inv, DeliverTApp PROVE Inv'
  OBVIOUS
<1> USE DEF DeliverTApp, cluster, locals
<1>1. tappEvents \in Seq(TApp) /\ tappEvents # <<>>
  BY DEF Inv, TypeOK
<1>2. /\ tappEvents' \in Seq(TApp) /\ Len(tappEvents') = Len(tappEvents) - 1
      /\ \A k \in 1 .. Len(tappEvents') : tappEvents'[k] = tappEvents[k + 1]
      /\ cachedTApp' = tappEvents[1] /\ cachedTApp' \in TApp
      /\ Len(tappEvents) \in Nat \ {0}
  BY <1>1
<1>3. TypeOK'
  BY <1>2 DEF Inv, TypeOK
<1>4. TAppWatched'
  <2>1. tappEvents[Len(tappEvents)] = tapp
    BY <1>1 DEF Inv, TAppWatched
  <2>2. CASE tappEvents' = <<>>
    <3>1. Len(tappEvents) = 1
      <4>1. Len(tappEvents') = 0
        <5>1. Len(<<>>) = 0
          OBVIOUS
        <5> QED
          BY <2>2, <5>1, Zenon
      <4> QED
        BY <1>2, <4>1
    <3> QED
      BY <1>2, <2>1, <2>2, <3>1 DEF Inv, TAppWatched, SameSpec
  <2>3. CASE tappEvents' # <<>>
    <3>1. Len(tappEvents') \in 1 .. Len(tappEvents')
      BY <1>2, <2>3
    <3> QED
      BY <1>2, <2>1, <2>3, <3>1 DEF Inv, TAppWatched, TAppCurrent, SameSpec
  <2> QED
    BY <2>2, <2>3
<1>5. AllTruthful'
  BY <1>1, <1>2 DEF Inv, AllTruthful
<1>6. PodsWatched'
  BY PodFrame DEF PodSide
<1>7. PlanBacked'
  BY DEF Inv, PlanBacked
<1> QED
  BY <1>3, <1>4, <1>5, <1>6, <1>7 DEF Inv

\* DeliverPod: the last event of a pod brings its cached copy up to date.
LEMMA DeliverPodKeeps == Inv /\ DeliverPod => Inv'
<1> SUFFICES ASSUME Inv, DeliverPod PROVE Inv'
  OBVIOUS
<1> USE DEF DeliverPod, cluster, locals
<1> DEFINE e == podEvents[1]
           n == Len(podEvents)
<1>1. podEvents \in Seq(PodEvent) /\ podEvents # <<>>
  BY DEF Inv, TypeOK
<1>2. /\ podEvents' \in Seq(PodEvent) /\ DOMAIN podEvents' = 1 .. n - 1
      /\ \A k \in 1 .. n - 1 : podEvents'[k] = podEvents[k + 1]
      /\ cachedPods' = [cachedPods EXCEPT ![e.id] = e.pod]
      /\ n \in Nat \ {0} /\ DOMAIN podEvents = 1 .. n /\ e \in PodEvent
  <2>1. n \in Nat \ {0} /\ DOMAIN podEvents = 1 .. n /\ e \in PodEvent
    BY <1>1
  <2>2. Head(podEvents) = e /\ podEvents' = Tail(podEvents)
    BY <1>1
  <2>3. /\ podEvents' \in Seq(PodEvent) /\ DOMAIN podEvents' = 1 .. n - 1
        /\ \A k \in 1 .. n - 1 : podEvents'[k] = podEvents[k + 1]
    BY <1>1, <2>2, HeadTailProperties
  <2> QED
    BY <2>1, <2>2, <2>3
<1>3. e.id \in Id /\ e.pod \in Pod \cup {NoPod}
  BY <1>2 DEF PodEvent
<1> HIDE DEF n
<1>4. cachedPods' \in PodMap
        /\ \A i \in Id : cachedPods'[i] = IF i = e.id THEN e.pod ELSE cachedPods[i]
  BY <1>2, <1>3 DEF Inv, TypeOK, PodMap
<1>5. TypeOK'
  BY <1>2, <1>4 DEF Inv, TypeOK
<1>6. PodsWatched'
  <2>1. ASSUME NEW k \in DOMAIN podEvents',
               \A m \in DOMAIN podEvents' : m > k => podEvents'[m].id # podEvents'[k].id
        PROVE  podEvents'[k].pod = pods'[podEvents'[k].id]
    <3>1. k + 1 \in DOMAIN podEvents /\ podEvents'[k] = podEvents[k + 1]
      BY <1>2
    <3>2. ASSUME NEW m \in DOMAIN podEvents, m > k + 1
          PROVE  podEvents[m].id # podEvents[k + 1].id
      <4>1. m - 1 \in DOMAIN podEvents' /\ m - 1 > k /\ (m - 1) + 1 = m
        BY <1>2, <3>1, <3>2
      <4> QED
        BY <1>2, <2>1, <3>1, <4>1
    <3> QED
      BY <3>1, <3>2 DEF Inv, PodsWatched
  <2>2. ASSUME NEW i \in Id, PodCurrent(i)' PROVE cachedPods'[i] = NoPod <=> pods'[i] = NoPod
    <3>0. ASSUME NEW m \in DOMAIN podEvents, m > 1 PROVE podEvents[m].id # i
      <4>1. m - 1 \in DOMAIN podEvents' /\ (m - 1) + 1 = m
        BY <1>2, <3>0
      <4> QED
        BY <1>2, <2>2, <4>1 DEF PodCurrent
    <3>1. CASE i = e.id
      <4>1. e.pod = pods[i]
        BY <1>2, <3>0, <3>1 DEF Inv, PodsWatched
      <4> QED
        BY <1>4, <3>1, <4>1
    <3>2. CASE i # e.id
      <4>1. PodCurrent(i)
        BY <1>2, <3>0, <3>2 DEF PodCurrent
      <4> QED
        BY <1>4, <3>2, <4>1 DEF Inv, PodsWatched
    <3> QED
      BY <3>1, <3>2
  <2> QED
    BY <2>1, <2>2 DEF Inv, PodsWatched
<1>7. TAppWatched' /\ AllTruthful'
  BY TAppFrame DEF TAppSide
<1>8. PlanBacked'
  BY DEF Inv, PlanBacked
<1> QED
  BY <1>5, <1>6, <1>7, <1>8 DEF Inv

\* SyncNodes and NodeFails touch neither a TApp nor a pod.
LEMMA NodesKeep == Inv /\ (SyncNodes \/ \E i \in Id : NodeFails(i)) => Inv'
<1> SUFFICES ASSUME Inv, SyncNodes \/ \E i \in Id : NodeFails(i) PROVE Inv'
  OBVIOUS
<1> USE DEF SyncNodes, NodeFails, cluster, watch, caches, locals
<1>1. budget' \in BudgetType
  <2>1. ASSUME NEW i \in Id, NodeFails(i) PROVE budget' \in BudgetType
    <3>1. budget.losses - 1 \in Nat
      BY <2>1 DEF Inv, TypeOK, BudgetType
    <3> QED
      BY <2>1, <3>1 DEF Inv, TypeOK, BudgetType
  <2> QED
    BY <2>1 DEF Inv, TypeOK
<1>2. TypeOK'
  BY <1>1 DEF Inv, TypeOK
<1>3. PlanBacked'
  BY DEF Inv, PlanBacked
<1>4. TAppWatched' /\ AllTruthful'
  BY TAppFrame DEF TAppSide
<1>5. PodsWatched'
  BY PodFrame DEF PodSide
<1> QED
  BY <1>2, <1>3, <1>4, <1>5 DEF Inv

\* Crash: the next controller starts from the stored objects.
LEMMA CrashKeeps == Inv /\ Crash => Inv'
<1> SUFFICES ASSUME Inv, Crash PROVE Inv'
  OBVIOUS
<1> USE DEF Crash, cluster
<1>1. Return
  OBVIOUS
<1>2. TypeOK'
  <2>1. budget' \in BudgetType
    <3>1. budget.crashes - 1 \in Nat
      BY DEF Inv, TypeOK, BudgetType
    <3> QED
      BY <3>1 DEF Inv, TypeOK, BudgetType
  <2>2. nodesSynced' \in BOOLEAN
    BY EnvironmentAssumption, Zenon
  <2>3. tappEvents' \in Seq(TApp) /\ podEvents' \in Seq(PodEvent)
    OBVIOUS
  <2> QED
    BY <1>1, <2>1, <2>2, <2>3, ReturnFrame DEF Inv, TypeOK
<1>3. TAppWatched'
  BY <1>1, ReturnFrame DEF TAppWatched, SameSpec
<1>4. AllTruthful'
  <2>1. Truthful(tapp') /\ Truthful(cachedTApp') /\ Truthful(app')
    BY <1>1, ReturnFrame DEF Inv, AllTruthful
  <2>2. DOMAIN tappEvents' = {}
    OBVIOUS
  <2> QED
    BY <2>1, <2>2 DEF AllTruthful
<1>5. PodsWatched'
  BY <1>1, ReturnFrame DEF PodsWatched
<1> QED
  BY <1>1, <1>2, <1>3, <1>4, <1>5, ReturnFrame DEF Inv

\* UserEdit: a new generation that no status claims to have observed.
LEMMA UserKeeps == Inv /\ UserEdit => Inv'
<1> SUFFICES ASSUME Inv, UserEdit PROVE Inv'
  OBVIOUS
<1> USE DEF UserEdit, caches
<1>1. PICK s \in Specs : WriteTApp([tapp EXCEPT !.gen = @ + 1, !.spec = s])
  OBVIOUS
<1> DEFINE t == [tapp EXCEPT !.gen = @ + 1, !.spec = s]
<1>2. t \in TApp /\ Truthful(t)
  BY SpecsAssumption, TAppValues, TruthfulValues DEF Inv, TypeOK, AllTruthful
<1>3. /\ tapp' = t /\ tappEvents' \in Seq(TApp)
      /\ tappEvents' # <<>> => tappEvents'[Len(tappEvents')] = tapp'
      /\ \A k \in DOMAIN tappEvents' : Truthful(tappEvents'[k])
      /\ tappEvents' = <<>> => tappEvents = <<>> /\ tapp' = tapp
  BY <1>1, <1>2, WriteTAppKeeps DEF Inv
<1> HIDE DEF t
<1>4. TypeOK'
  <2>1. budget' \in BudgetType
    <3>1. budget.edits - 1 \in Nat
      BY DEF Inv, TypeOK, BudgetType
    <3> QED
      BY <3>1 DEF Inv, TypeOK, BudgetType
  <2> QED
    BY <1>2, <1>3, <2>1 DEF Inv, TypeOK
<1>5. TAppWatched' /\ AllTruthful'
  BY <1>2, <1>3 DEF Inv, TAppWatched, AllTruthful, TAppCurrent, SameSpec
<1>6. PodsWatched'
  BY PodFrame DEF PodSide
<1>7. PlanBacked'
  BY DEF Inv, PlanBacked
<1> QED
  BY <1>4, <1>5, <1>6, <1>7 DEF Inv

\* The kubelet and the node lifecycle controller store well-formed pods.
LEMMA KubeletKeeps ==
    ASSUME NEW i \in Id
    PROVE  Inv /\ (StartPod(i) \/ RestartContainer(i) \/ ReportReady(i) \/ ExitPod(i)
                     \/ RemovePod(i) \/ EvictPod(i)) => Inv'
<1> SUFFICES ASSUME Inv, StartPod(i) \/ RestartContainer(i) \/ ReportReady(i) \/ ExitPod(i)
                           \/ RemovePod(i) \/ EvictPod(i)
             PROVE  Inv'
  OBVIOUS
<1> DEFINE Values == Pod \cup {NoPod}
           Frame == /\ UNCHANGED <<tapp, tappEvents, caches, pc, app, fresh, list, plan, lost,
                                   todo, retry, tries>>
                    /\ budget' \in BudgetType
<1>1. pods[i] \in Values /\ lost \subseteq Id /\ todo \subseteq Id /\ retry \subseteq Id
        /\ tries \in 0 .. updateRetries /\ budget \in BudgetType
  BY DEF Inv, TypeOK, PodMap
<1>2. \A gate \in {"None", "True", "False"} : readyWith(gate) \in {"True", "False", "Gate"}
  BY DEF readyWith
<1>3. pods[i] \in Pod =>
        /\ pods[i].tmpl.image \in Images /\ readyWith(pods[i].gate) \in {"True", "False", "Gate"}
  BY <1>2 DEF Pod, Template
<1>4. \E pod \in Values : WritePod(i, pod) /\ Frame
  <2> USE DEF Report, isAlive
  <2>1. CASE StartPod(i)
    <3>1. [pods[i] EXCEPT !.phase = "Running", !.run = pods[i].tmpl.image,
                          !.ready = readyWith(pods[i].gate)] \in Pod
      BY <1>1, <1>3, <2>1 DEF StartPod, Pod
    <3> QED
      BY <1>1, <2>1, <3>1 DEF StartPod
  <2>2. CASE RestartContainer(i)
    <3>1. /\ [pods[i] EXCEPT !.run = "pulling", !.ready = "False"] \in Pod
          /\ [pods[i] EXCEPT !.run = pods[i].tmpl.image, !.ready = readyWith(pods[i].gate)] \in Pod
      BY <1>1, <1>3, <2>2 DEF RestartContainer, Pod
    <3> QED
      BY <1>1, <2>2, <3>1 DEF RestartContainer
  <2>3. CASE ReportReady(i)
    <3>1. [pods[i] EXCEPT !.ready = readyWith(pods[i].gate)] \in Pod
      BY <1>1, <1>3, <2>3 DEF ReportReady, Pod
    <3> QED
      BY <1>1, <2>3, <3>1 DEF ReportReady
  <2>4. CASE ExitPod(i)
    <3>1. \A phase \in {"Succeeded", "Failed"} :
             [pods[i] EXCEPT !.phase = phase, !.ready = "False"] \in Pod
      BY <1>1, <2>4 DEF ExitPod, Pod
    <3>2. budget' \in BudgetType
      <4>1. budget.exits - 1 \in Nat
        BY <1>1, <2>4 DEF ExitPod, BudgetType
      <4> QED
        BY <1>1, <2>4, <4>1 DEF ExitPod, BudgetType
    <3> QED
      BY <2>4, <3>1, <3>2 DEF ExitPod
  <2>5. CASE RemovePod(i)
    BY <1>1, <2>5 DEF RemovePod
  <2>6. CASE EvictPod(i)
    <3>1. [pods[i] EXCEPT !.dying = TRUE] \in Pod
      BY <1>1, <2>6 DEF EvictPod, Pod
    <3> QED
      BY <1>1, <2>6, <3>1 DEF EvictPod
  <2> QED
    BY <2>1, <2>2, <2>3, <2>4, <2>5, <2>6
<1> QED
  BY <1>1, <1>4, PodStepKeeps

\* Inv is kept by every step.
LEMMA InvNext == Inv /\ [Next]_vars => Inv'
<1> SUFFICES ASSUME Inv, [Next]_vars PROVE Inv'
  OBVIOUS
<1>1. CASE Next
  BY <1>1, GetTAppKeeps, PreprocessKeeps, PreprocessStatusKeeps, ListPodsKeeps, ConditionKeeps, WaitsKeep,
     InstancesKeep, UpdateKeeps, FinishKeeps, StatusKeeps, DeliverTAppKeeps, DeliverPodKeeps,
     NodesKeep, CrashKeeps, UserKeeps, KubeletKeeps
     DEF Next, Sync
<1>2. CASE UNCHANGED vars
  <2> USE <1>2 DEF vars, cluster, watch, caches, locals
  <2>1. TypeOK'
    BY DEF Inv, TypeOK
  <2>2. PlanBacked'
    BY DEF Inv, PlanBacked
  <2>3. TAppWatched' /\ AllTruthful'
    BY TAppFrame DEF TAppSide
  <2>4. PodsWatched'
    BY PodFrame DEF PodSide
  <2> QED
    BY <2>1, <2>2, <2>3, <2>4 DEF Inv
<1> QED
  BY <1>1, <1>2

\* Inv holds in every reachable state.
THEOREM Invariance == Spec => []Inv
BY InvInit, InvNext, PTL DEF Spec

\* Every reachable state is well typed: no Sync ever plans for an instance that does not
\* exist, builds a pod without a template or counts past its retries.
THEOREM TypeCorrect == Spec => []TypeOK
<1>1. Inv => TypeOK
  BY DEF Inv
<1> QED
  BY <1>1, Invariance, PTL

\* The stored status never claims to describe a spec that updateTAppStatus did not look at:
\* when observedGeneration is the current generation, every replica has an entry and no
\* killed replica is called "not created", for any number of replicas, specs, lost calls,
\* crashes, and any lag of the watch.
THEOREM StatusTruthful == Spec => []ObservedTruth
<1>1. Inv => ObservedTruth
  BY DEF Inv, AllTruthful, ObservedTruth
<1> QED
  BY <1>1, Invariance, PTL

-----------------------------------------------------------------------------
(* observedGeneration only moves forward *)

\* The copy that preprocessTApp may send to UpdateStatus carries either the stored
\* observedGeneration or, if a failed retry has edited the cache, the current one.
CopyObserved ==
    pc = "preprocess" /\ fresh => app.status.observed \in {app.gen, tapp.status.observed}

\* Nobody but GetTApp makes such a copy, and a UserEdit makes it a stale one.
LEMMA CopyObservedNext == Inv /\ CopyObserved /\ [Next]_vars => CopyObserved'
<1> SUFFICES ASSUME Inv, CopyObserved, [Next]_vars, pc' = "preprocess", fresh'
             PROVE  app'.status.observed \in {app'.gen, tapp'.status.observed}
  BY DEF CopyObserved
<1>1. CASE GetTApp
  BY <1>1 DEF GetTApp, cluster
<1>2. CASE UNCHANGED <<pc, tapp, app, fresh>>
  BY <1>2 DEF CopyObserved
<1>3. GetTApp \/ UNCHANGED <<pc, tapp, app, fresh>>
  <2> USE DEF cluster, watch, caches, locals
  <2>1. CASE Sync
    <3>1. ASSUME NEW i \in Id,
                 createInstance(i) \/ deleteInstance(i) \/ forceDeleteInstance(i)
          PROVE  UNCHANGED <<pc, tapp, app, fresh>>
      BY <3>1 DEF createInstance, deleteInstance, forceDeleteInstance, InstanceStep
    <3>2. ASSUME NEW i \in Id, setInPlaceUpdateCondition(i) \/ updateInstance(i)
          PROVE  UNCHANGED <<pc, tapp, app, fresh>>
      BY <3>2 DEF setInPlaceUpdateCondition, updateInstance
    <3>3. ~preprocessTApp /\ ~preprocessStatus
      BY DEF preprocessTApp, preprocessStatus, Return
    <3>4. ~ListPods /\ ~WaitConditions /\ ~WaitInstances /\ ~FinishInstances
      BY DEF ListPods, WaitConditions, WaitInstances, FinishInstances, Return
    <3>5. ~updateTAppStatus
      BY DEF updateTAppStatus, Return
    <3> QED
      BY <2>1, <3>1, <3>2, <3>3, <3>4, <3>5 DEF Sync
  <2>2. CASE DeliverTApp \/ DeliverPod \/ SyncNodes \/ \E i \in Id : NodeFails(i)
    BY <2>2 DEF DeliverTApp, DeliverPod, SyncNodes, NodeFails
  <2>3. ~Crash /\ ~UserEdit
    BY DEF Crash, UserEdit, Return
  <2>4. ASSUME NEW i \in Id, StartPod(i) \/ RestartContainer(i) \/ ReportReady(i) \/ ExitPod(i)
                               \/ RemovePod(i) \/ EvictPod(i)
        PROVE  UNCHANGED <<pc, tapp, app, fresh>>
    BY <2>4 DEF StartPod, RestartContainer, ReportReady, ExitPod, RemovePod, EvictPod, Report
  <2>5. CASE UNCHANGED vars
    BY <2>5 DEF vars
  <2> QED
    BY <2>1, <2>2, <2>3, <2>4, <2>5 DEF Next
<1> QED
  BY <1>1, <1>2, <1>3

Forward ==
    LET old == tapp.status.observed
        new == tapp'.status.observed
    IN  new = old \/ (new > old /\ new = tapp'.gen)

\* A step that does not store a TApp moves nothing, and preprocessTApp and
\* updateTAppStatus move observedGeneration only to the stored generation.
LEMMA ForwardNext == Inv /\ CopyObserved /\ [Next]_vars => Forward
<1> SUFFICES ASSUME Inv, CopyObserved, [Next]_vars PROVE Forward
  OBVIOUS
<1>1. tapp \in TApp /\ tapp.status.observed <= tapp.gen
        /\ tapp.gen \in Nat /\ tapp.status.observed \in Nat
  BY DEF Inv, TypeOK, AllTruthful, Truthful, TApp, TAppStatus
<1>2. CASE tapp' = tapp
  BY <1>2 DEF Forward
<1>3. ASSUME UserEdit PROVE Forward
  <2>1. tapp'.status = tapp.status
    BY <1>1, <1>3 DEF UserEdit, WriteTApp, TApp
  <2> QED
    BY <2>1 DEF Forward
<1>4. ASSUME preprocessTApp PROVE Forward
  <2>1. CASE tapp' = preprocessed /\ fresh
    <3>1. pc = "preprocess" /\ app \in TApp /\ app.gen = tapp.gen
      BY <1>4, <2>1 DEF preprocessTApp, Inv, TypeOK, TAppWatched, SameSpec
    <3>2. CASE tapp'.status = tapp.status
      BY <3>2 DEF Forward
    <3>3. CASE tapp' = [app EXCEPT !.status.scale = TRUE]
      <4>1. tapp'.gen = app.gen /\ tapp'.status.observed = app.status.observed
        BY <3>1, <3>3 DEF TApp, TAppStatus
      <4>2. app.status.observed \in {app.gen, tapp.status.observed}
        BY <2>1, <3>1 DEF CopyObserved
      <4> QED
        BY <1>1, <3>1, <4>1, <4>2 DEF Forward
    <3> QED
      BY <2>1, <3>2, <3>3 DEF preprocessed
  <2>2. tapp' = tapp \/ (tapp' = preprocessed /\ fresh)
    <3>1. CASE UNCHANGED tapp
      BY <3>1
    <3>2. CASE \E r \in Outcome(fresh) :
                 Charge(r) /\ WriteTApp(IF Applied(r) THEN preprocessed ELSE tapp)
      <4>1. PICK r \in Outcome(fresh) :
              Charge(r) /\ WriteTApp(IF Applied(r) THEN preprocessed ELSE tapp)
        BY <3>2
      <4>2. Applied(r) => fresh
        BY <4>1, Outcomes DEF Inv, TypeOK
      <4> QED
        BY <4>1, <4>2 DEF WriteTApp
    <3> QED
      BY <1>4, <3>1, <3>2 DEF preprocessTApp
  <2> QED
    BY <1>2, <2>1, <2>2
<1>5. ASSUME updateTAppStatus PROVE Forward
  <2> DEFINE src == statusTApp
             new == withStatus(src, list)
             current == IF tries = 0 THEN fresh ELSE TAppCurrent
  <2>1. PICK r \in Outcome(current) :
          /\ Charge(r)
          /\ WriteTApp(IF Applied(r) THEN [tapp EXCEPT !.status = new.status] ELSE tapp)
    BY <1>5, Zenon DEF updateTAppStatus, statusOutcome, roundTApp
  <2>2. current \in BOOLEAN
    <3>1. fresh \in BOOLEAN /\ TAppCurrent \in BOOLEAN
      BY DEF Inv, TypeOK, TAppCurrent
    <3> QED
      BY <3>1, Zenon
  <2>3. Applied(r) => current
    BY <2>1, <2>2, Outcomes DEF Inv, TypeOK
  <2>4. Applied(r) => src.gen = tapp.gen
    BY <2>3 DEF Inv, TAppWatched, SameSpec, statusTApp
  <2>5. src \in TApp
    BY DEF Inv, TypeOK, statusTApp
  <2> HIDE DEF src
  <2>6. new.status.observed = src.gen
    BY <2>5 DEF withStatus, TApp, TAppStatus
  <2> HIDE DEF new
  <2>7. CASE Applied(r)
    <3>1. tapp' = [tapp EXCEPT !.status = new.status]
      BY <2>1, <2>7 DEF WriteTApp
    <3>2. tapp'.gen = tapp.gen /\ tapp'.status.observed = tapp.gen
      BY <1>1, <2>4, <2>6, <2>7, <3>1 DEF TApp
    <3> QED
      BY <1>1, <3>2 DEF Forward
  <2>8. CASE ~Applied(r)
    <3>1. tapp' = tapp
      BY <2>1, <2>8 DEF WriteTApp
    <3> QED
      BY <1>2, <3>1
  <2> QED
    BY <2>7, <2>8
<1>6. tapp' = tapp \/ UserEdit \/ preprocessTApp \/ updateTAppStatus
  <2> USE DEF cluster, watch, caches, locals
  <2>1. CASE \/ GetTApp \/ preprocessStatus \/ ListPods
             \/ WaitConditions \/ WaitInstances \/ FinishInstances
    BY <2>1 DEF GetTApp, preprocessStatus, ListPods, WaitConditions, WaitInstances, FinishInstances
  <2>2. ASSUME NEW i \in Id,
               createInstance(i) \/ deleteInstance(i) \/ forceDeleteInstance(i)
        PROVE  tapp' = tapp
    BY <2>2 DEF createInstance, deleteInstance, forceDeleteInstance, InstanceStep
  <2>3. ASSUME NEW i \in Id, setInPlaceUpdateCondition(i) \/ updateInstance(i)
        PROVE  tapp' = tapp
    BY <2>3 DEF setInPlaceUpdateCondition, updateInstance
  <2>4. CASE \/ DeliverTApp \/ DeliverPod \/ SyncNodes \/ Crash
             \/ \E i \in Id : NodeFails(i)
    BY <2>4 DEF DeliverTApp, DeliverPod, SyncNodes, Crash, NodeFails
  <2>5. ASSUME NEW i \in Id, StartPod(i) \/ RestartContainer(i) \/ ReportReady(i) \/ ExitPod(i)
                               \/ RemovePod(i) \/ EvictPod(i)
        PROVE  tapp' = tapp
    BY <2>5 DEF StartPod, RestartContainer, ReportReady, ExitPod, RemovePod, EvictPod, Report
  <2>6. CASE UNCHANGED vars
    BY <2>6 DEF vars
  <2> QED
    BY <2>1, <2>2, <2>3, <2>4, <2>5, <2>6 DEF Next, Sync
<1> QED
  BY <1>2, <1>3, <1>4, <1>5, <1>6

\* observedGeneration never goes back and is only ever advanced to the generation stored
\* with it, although updateTAppStatus retries with whatever the cache holds and
\* preprocessTApp writes a status as well.
THEOREM StatusForward == Spec => ObservedForward
<1>1. Init => CopyObserved
  BY DEF Init, CopyObserved
<1>2. Spec => []CopyObserved
  BY <1>1, CopyObservedNext, Invariance, PTL DEF Spec
<1>3. ObservedForward <=> [][Forward]_vars
  BY DEF ObservedForward, Forward
<1> QED
  BY <1>2, <1>3, ForwardNext, Invariance, PTL DEF Spec
=============================================================================
