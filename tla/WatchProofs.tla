---------------------------- MODULE WatchProofs -----------------------------
(***************************************************************************)
(* What the informer caches and the watch streams of TAppController say    *)
(* about the stored objects, and what that makes of the two places where   *)
(* the code relies on them without a version: the cached objects it edits  *)
(* in place, and the forced delete that goes by the name of a pod.         *)
(***************************************************************************)
EXTENDS TAppControllerProofs

-----------------------------------------------------------------------------
(* Who writes what *)

\* The steps that touch the stored TApp, its stream or its cached copy
LEMMA TAppSteps ==
    ASSUME [Next]_vars
    PROVE  \/ UNCHANGED <<tapp, tappEvents, cachedTApp>>
           \/ preprocessTApp \/ updateTAppStatus \/ DeliverTApp \/ Crash \/ UserEdit
<1> USE DEF cluster, watch, caches, locals
<1>1. CASE \/ GetTApp \/ preprocessStatus \/ ListPods
           \/ WaitConditions \/ WaitInstances \/ FinishInstances
  BY <1>1 DEF GetTApp, preprocessStatus, ListPods, WaitConditions, WaitInstances, FinishInstances
<1>2. ASSUME NEW i \in Id, createInstance(i) \/ deleteInstance(i) \/ forceDeleteInstance(i)
      PROVE  UNCHANGED <<tapp, tappEvents, cachedTApp>>
  BY <1>2 DEF createInstance, deleteInstance, forceDeleteInstance, InstanceStep
<1>3. ASSUME NEW i \in Id, setInPlaceUpdateCondition(i) \/ updateInstance(i)
      PROVE  UNCHANGED <<tapp, tappEvents, cachedTApp>>
  BY <1>3 DEF setInPlaceUpdateCondition, updateInstance
<1>4. CASE DeliverPod \/ SyncNodes \/ \E i \in Id : NodeFails(i)
  BY <1>4 DEF DeliverPod, SyncNodes, NodeFails
<1>5. ASSUME NEW i \in Id, StartPod(i) \/ RestartContainer(i) \/ ReportReady(i) \/ ExitPod(i)
                             \/ RemovePod(i) \/ EvictPod(i)
      PROVE  UNCHANGED <<tapp, tappEvents, cachedTApp>>
  BY <1>5 DEF StartPod, RestartContainer, ReportReady, ExitPod, RemovePod, EvictPod, Report
<1>6. CASE UNCHANGED vars
  BY <1>6 DEF vars
<1> QED
  BY <1>1, <1>2, <1>3, <1>4, <1>5, <1>6 DEF Next, Sync

\* The cached pods are edited only in place: none appears, disappears or comes back to life.
SameLife ==
    \A j \in Id : /\ cachedPods'[j] = NoPod <=> cachedPods[j] = NoPod
                  /\ cachedPods[j] # NoPod => cachedPods'[j].dying = cachedPods[j].dying

\* A write of pod i: of a pod that exists, or the creation of one where the cache has none
PodWrite(i, pod) ==
    /\ WritePod(i, pod) /\ SameLife /\ UNCHANGED <<nodesSynced, pc, plan>>
    /\ todo' \subseteq todo /\ lost \ {i} \subseteq lost'
    /\ \/ /\ pods[i] = NoPod => pod = NoPod
          /\ isDoomed(pods[i]) => isDoomed(pod)
          /\ pod = NoPod => pods[i] = NoPod \/ cachedPods[i] # NoPod
          /\ cachedPods[i] = NoPod /\ pod # NoPod /\ isPodDying(pod) => i \in lost'
          /\ i \in lost => i \in lost' \/ (pc = "instances" /\ i \notin todo')
       \/ /\ pods[i] = NoPod /\ cachedPods[i] = NoPod /\ pod # NoPod /\ ~isPodDying(pod)
          /\ lost' = lost /\ pc = "instances" /\ i \notin todo'

PodStep(i) == \E pod \in Pod \cup {NoPod} : PodWrite(i, pod)

LEMMA SameLifeFrame == UNCHANGED cachedPods => SameLife
BY DEF SameLife

\* The dying flag of a pod after an edit of its other fields
LEMMA EditedLife ==
    ASSUME NEW pod \in Pod
    PROVE  /\ \A g, r : [pod EXCEPT !.gate = g, !.ready = r].dying = pod.dying
           /\ \A g : withGate(pod, g).dying = pod.dying
           /\ \A t : [pod EXCEPT !.tmpl = t, !.inPlace = TRUE].dying = pod.dying
           /\ \A f, r, g : [pod EXCEPT !.phase = f, !.run = r, !.ready = g].dying = pod.dying
           /\ \A r, g : [pod EXCEPT !.run = r, !.ready = g].dying = pod.dying
           /\ \A g : [pod EXCEPT !.ready = g].dying = pod.dying
           /\ \A f, g : [pod EXCEPT !.phase = f, !.ready = g].dying = pod.dying
           /\ [pod EXCEPT !.dying = TRUE].dying = TRUE
BY DEF Pod, withGate

\* A pod that is edited with its dying flag kept, or not written at all
LEMMA EditedWrite ==
    ASSUME Inv, PodStream, NEW i \in Id, NEW pod \in Pod \cup {NoPod}, WritePod(i, pod), SameLife,
           UNCHANGED <<nodesSynced, pc, plan, lost>>, todo' \subseteq todo,
           pod = pods[i] \/ (pods[i] \in Pod /\ pod \in Pod /\ pod.dying = pods[i].dying)
    PROVE  PodStep(i)
<1>1. pod # pods[i] => pods[i] # NoPod /\ pod # NoPod /\ pod.dying = pods[i].dying
  BY NullAssumption
<1>2. isDoomed(pods[i]) => isDoomed(pod)
  BY <1>1 DEF isDoomed, isPodDying
<1>3. cachedPods[i] = NoPod /\ pod # NoPod /\ isPodDying(pod) => i \in lost'
  BY <1>1 DEF PodStream, isPodDying
<1> QED
  BY <1>1, <1>2, <1>3 DEF PodStep, PodWrite

LEMMA CreateIsPodStep ==
    ASSUME Inv, PodStream, NEW i \in Id, createInstance(i)
    PROVE  PodStep(i)
<1>1. /\ UNCHANGED <<lost, cachedPods, nodesSynced, pc, plan>> /\ pc = "instances"
      /\ todo' \subseteq todo /\ i \notin todo' /\ pods[i] \in Pod \cup {NoPod}
  BY DEF createInstance, InstanceStep, caches, Inv, TypeOK, PodMap
<1>2. newPod(i) \in Pod /\ newPod(i) # NoPod /\ ~isPodDying(newPod(i))
  <2>1. app.spec \in TAppSpec
    BY DEF Inv, TypeOK, TApp
  <2>2. getPodTemplate(app.spec, i) \in Template
    BY <2>1, PodTemplateType DEF createInstance, Inv, PlanBacked
  <2>3. newPod(i) \in Pod
    BY <2>2 DEF newPod, Pod
  <2>4. newPod(i).dying = FALSE
    BY DEF newPod
  <2> QED
    BY <2>3, <2>4, NullAssumption DEF isPodDying
<1>3. SameLife
  BY <1>1, SameLifeFrame
<1>4. CASE WritePod(i, pods[i])
  BY <1>1, <1>3, <1>4, EditedWrite
<1>5. CASE WritePod(i, newPod(i)) /\ cachedPods[i] = NoPod /\ pods[i] = NoPod
  <2>1. PodWrite(i, newPod(i))
    BY <1>1, <1>2, <1>3, <1>5 DEF PodWrite
  <2> QED
    BY <1>2, <2>1 DEF PodStep
<1>6. WritePod(i, pods[i]) \/ (WritePod(i, newPod(i)) /\ cachedPods[i] = NoPod /\ pods[i] = NoPod)
  BY DEF createInstance
<1> QED
  BY <1>4, <1>5, <1>6

LEMMA DeleteIsPodStep ==
    ASSUME Inv, PodStream, NEW i \in Id, deleteInstance(i)
    PROVE  PodStep(i)
<1> DEFINE dead == [pods[i] EXCEPT !.dying = TRUE]
<1>1. /\ UNCHANGED <<lost, cachedPods, nodesSynced, pc, plan>>
      /\ todo' \subseteq todo /\ pods[i] \in Pod \cup {NoPod}
  BY DEF deleteInstance, InstanceStep, caches, Inv, TypeOK, PodMap
<1>2. SameLife
  BY <1>1, SameLifeFrame
<1>3. CASE WritePod(i, pods[i])
  BY <1>1, <1>2, <1>3, EditedWrite
<1>4. CASE WritePod(i, dead) /\ cachedPods[i] # NoPod /\ pods[i] # NoPod
  <2>1. dead \in Pod /\ dead # NoPod /\ isDoomed(dead)
    BY <1>1, <1>4, NullAssumption DEF Pod, isDoomed, isPodDying
  <2> HIDE DEF dead
  <2>2. PodWrite(i, dead)
    BY <1>1, <1>2, <1>4, <2>1 DEF PodWrite
  <2> QED
    BY <2>1, <2>2 DEF PodStep
<1>5. WritePod(i, pods[i]) \/ (WritePod(i, dead) /\ cachedPods[i] # NoPod /\ pods[i] # NoPod)
  BY DEF deleteInstance
<1> QED
  BY <1>3, <1>4, <1>5

LEMMA ForceDeleteIsPodStep ==
    ASSUME Inv, PodStream, NEW i \in Id, forceDeleteInstance(i)
    PROVE  PodStep(i)
<1>1. /\ UNCHANGED <<cachedPods, nodesSynced, pc, plan>> /\ pc = "instances"
      /\ todo' \subseteq todo /\ i \notin todo' /\ pods[i] \in Pod \cup {NoPod}
  BY DEF forceDeleteInstance, InstanceStep, caches, Inv, TypeOK, PodMap
<1>2. SameLife
  BY <1>1, SameLifeFrame
<1>3. CASE WritePod(i, pods[i]) /\ lost' = lost
  BY <1>1, <1>2, <1>3, EditedWrite
<1>4. CASE WritePod(i, NoPod) /\ lost' = lost \ {i} /\ cachedPods[i] # NoPod
  <2>1. PodWrite(i, NoPod)
    BY <1>1, <1>2, <1>4 DEF PodWrite, isDoomed
  <2> QED
    BY <2>1 DEF PodStep
<1>5. \/ WritePod(i, pods[i]) /\ lost' = lost
      \/ WritePod(i, NoPod) /\ lost' = lost \ {i} /\ cachedPods[i] # NoPod
  BY DEF forceDeleteInstance
<1> QED
  BY <1>3, <1>4, <1>5

LEMMA UpdateIsPodStep ==
    ASSUME Inv, PodStream, NEW i \in Id, updateInstance(i)
    PROVE  PodStep(i)
<1>1. /\ UNCHANGED <<lost, cachedPods, nodesSynced, pc, plan>>
      /\ todo' \subseteq todo /\ pods[i] \in Pod \cup {NoPod} /\ pc = "updates" /\ i \in todo
  BY DEF updateInstance, nextUpdate, caches, Inv, TypeOK, PodMap
<1>2. SameLife
  BY <1>1, SameLifeFrame
<1>3. CASE WritePod(i, pods[i])
  BY <1>1, <1>2, <1>3, EditedWrite
<1>4. CASE WritePod(i, mergePod(pods[i], i)) /\ cachedPods[i] # NoPod /\ PodCurrent(i)
  <2>1. pods[i] \in Pod
    BY <1>1, <1>4 DEF Inv, PodsWatched
  <2>2. app.spec \in TAppSpec
    BY DEF Inv, TypeOK, TApp
  <2>3. getPodTemplate(app.spec, i) \in Template
    BY <1>1, <2>2, PodTemplateType DEF Inv, PlanBacked
  <2>4. mergePod(pods[i], i) \in Pod /\ mergePod(pods[i], i).dying = pods[i].dying
    BY <2>1, <2>3 DEF mergePod, Pod
  <2> QED
    BY <1>1, <1>2, <1>4, <2>1, <2>4, EditedWrite
<1>5. \/ WritePod(i, pods[i])
      \/ WritePod(i, mergePod(pods[i], i)) /\ cachedPods[i] # NoPod /\ PodCurrent(i)
  <2>1. CASE cachedPods[i] = NoPod /\ UNCHANGED <<pods, podEvents, listed, budget>>
    BY <2>1 DEF WritePod
  <2>2. CASE cachedPods[i] # NoPod
    <3>1. PICK r \in Outcome(PodCurrent(i)) :
             Charge(r) /\ WritePod(i, IF Applied(r) THEN mergePod(pods[i], i) ELSE pods[i])
      BY <2>2 DEF updateInstance
    <3>2. PodCurrent(i) \in BOOLEAN
      BY DEF PodCurrent
    <3>3. Applied(r) => PodCurrent(i)
      BY <3>1, <3>2, Outcomes DEF Inv, TypeOK
    <3> QED
      BY <2>2, <3>1, <3>3
  <2> QED
    BY <2>1, <2>2 DEF updateInstance
<1> QED
  BY <1>3, <1>4, <1>5

\* One goroutine of syncPodConditions: a write of the stored pod and, on a retry, of the cached
\* one.  The two get the same gate.
LEMMA ConditionStep ==
    ASSUME Inv, NEW i \in Id, setInPlaceUpdateCondition(i)
    PROVE  \/ UNCHANGED <<pods, podEvents, cachedPods, listed, budget>>
           \/ \E c \in BOOLEAN : \E r \in Outcome(c), pod \in Pod \cup {NoPod} :
                /\ Charge(r) /\ WritePod(i, pod)
                /\ pod = pods[i] \/ (pods[i] \in Pod /\ pod \in Pod /\ pod.dying = pods[i].dying)
                /\ \/ UNCHANGED cachedPods
                   \/ /\ c = PodCurrent(i) /\ cachedPods[i] \in Pod
                      /\ cachedPods' = [cachedPods EXCEPT ![i] = withGate(cachedPods[i], gateOf(i))]
                      /\ Applied(r) => pod = [pods[i] EXCEPT
                                                !.gate = withGate(cachedPods[i], gateOf(i)).gate,
                                                !.ready = withGate(cachedPods[i], gateOf(i)).ready]
<1> DEFINE again  == i \in retry
           source == IF again THEN cachedPods[i] ELSE list[i]
           new    == withGate(source, gateOf(i))
           needUpdate == source # NoPod /\ source.gate # gateOf(i)
           current == IF again THEN PodCurrent(i) ELSE i \in listed
           Stored(r) == IF Applied(r)
                        THEN [pods[i] EXCEPT !.gate = new.gate, !.ready = new.ready]
                        ELSE pods[i]
<1>1. CASE UNCHANGED <<pods, podEvents, cachedPods, listed, budget>>
  BY <1>1
<1>2. CASE /\ needUpdate
           /\ cachedPods' = IF again THEN [cachedPods EXCEPT ![i] = new] ELSE cachedPods
           /\ \E r \in Outcome(current) : Charge(r) /\ WritePod(i, Stored(r))
  <2>1. PICK r \in Outcome(current) : Charge(r) /\ WritePod(i, Stored(r))
    BY <1>2
  <2>2. current \in BOOLEAN
    <3>1. PodCurrent(i) \in BOOLEAN /\ (i \in listed) \in BOOLEAN
      BY DEF PodCurrent
    <3> QED
      BY <3>1, Zenon
  <2>3. Applied(r) => current
    BY <2>1, <2>2, Outcomes DEF Inv, TypeOK
  <2>4. source \in Pod /\ pods[i] \in Pod \cup {NoPod}
    BY <1>2 DEF Inv, TypeOK, PodMap
  <2>5. gateOf(i) \in {"True", "False"}
    BY DEF gateOf
  <2>6. source.tmpl \in Template
    BY <2>4 DEF Pod
  <2>7. Applied(r) => pods[i] \in Pod
    BY <1>2, <2>3 DEF Inv, TypeOK, PodMap, PodsWatched
  <2> HIDE DEF source
  <2>8. new \in Pod
    BY <2>4, <2>5, <2>6, PodValues
  <2>9. again => source = cachedPods[i] /\ current = PodCurrent(i)
    BY Zenon DEF source
  <2> HIDE DEF new
  <2>10. /\ Stored(r) \in Pod \cup {NoPod}
         /\ \/ Stored(r) = pods[i]
            \/ pods[i] \in Pod /\ Stored(r) \in Pod /\ Stored(r).dying = pods[i].dying
    <3>1. CASE Applied(r)
      <4> DEFINE edited == [pods[i] EXCEPT !.gate = new.gate, !.ready = new.ready]
      <4>1. pods[i] \in Pod
        BY <2>7, <3>1
      <4>2. edited \in Pod
        BY <2>6, <2>8, <4>1, PodValues
      <4>3. edited.dying = pods[i].dying
        BY <4>1, EditedLife
      <4> QED
        BY <3>1, <4>1, <4>2, <4>3
    <3>2. CASE ~Applied(r)
      BY <2>4, <3>2
    <3> QED
      BY <3>1, <3>2
  <2>11. CASE again
    <3>1. /\ cachedPods[i] \in Pod /\ new = withGate(cachedPods[i], gateOf(i))
          /\ cachedPods' = [cachedPods EXCEPT ![i] = new]
      BY <1>2, <2>4, <2>9, <2>11 DEF new
    <3>2. Applied(r) => Stored(r) = [pods[i] EXCEPT !.gate = new.gate, !.ready = new.ready]
      OBVIOUS
    <3> HIDE DEF Stored, current
    <3> QED
      BY <2>1, <2>2, <2>9, <2>10, <2>11, <3>1, <3>2
  <2>12. CASE ~again
    <3>1. UNCHANGED cachedPods
      BY <1>2, <2>12
    <3> HIDE DEF Stored, current
    <3> QED
      BY <2>1, <2>2, <2>10, <3>1
  <2> QED
    BY <2>11, <2>12
<1> QED
  BY <1>1, <1>2 DEF setInPlaceUpdateCondition

LEMMA ConditionIsPodStep ==
    ASSUME Inv, PodStream, NEW i \in Id, setInPlaceUpdateCondition(i)
    PROVE  PodStep(i)
<1>1. UNCHANGED <<lost, nodesSynced, pc, plan>> /\ todo' \subseteq todo
  BY DEF setInPlaceUpdateCondition
<1>2. CASE UNCHANGED <<pods, podEvents, cachedPods, listed, budget>>
  <2>1. WritePod(i, pods[i]) /\ SameLife /\ pods[i] \in Pod \cup {NoPod}
    BY <1>2, SameLifeFrame DEF WritePod, Inv, TypeOK, PodMap
  <2> QED
    BY <1>1, <2>1, EditedWrite
<1>3. ASSUME NEW pod \in Pod \cup {NoPod}, WritePod(i, pod),
             pod = pods[i] \/ (pods[i] \in Pod /\ pod \in Pod /\ pod.dying = pods[i].dying),
             \/ UNCHANGED cachedPods
             \/ /\ cachedPods[i] \in Pod
                /\ cachedPods' = [cachedPods EXCEPT ![i] = withGate(cachedPods[i], gateOf(i))]
      PROVE  PodStep(i)
  <2>1. SameLife
    <3>1. CASE UNCHANGED cachedPods
      BY <3>1, SameLifeFrame
    <3>2. CASE /\ cachedPods[i] \in Pod
               /\ cachedPods' = [cachedPods EXCEPT ![i] = withGate(cachedPods[i], gateOf(i))]
      <4> DEFINE new == withGate(cachedPods[i], gateOf(i))
      <4>1. gateOf(i) \in {"True", "False"} /\ cachedPods[i].tmpl \in Template
        BY <3>2 DEF gateOf, Pod
      <4>2. new \in Pod /\ new # NoPod /\ new.dying = cachedPods[i].dying
        BY <3>2, <4>1, PodValues, EditedLife, NullAssumption
      <4> HIDE DEF new
      <4>3. \A j \in Id : cachedPods'[j] = IF j = i THEN new ELSE cachedPods[j]
        BY <3>2 DEF Inv, TypeOK, PodMap, new
      <4> QED
        BY <3>2, <4>2, <4>3, NullAssumption DEF SameLife
    <3> QED
      BY <1>3, <3>1, <3>2
  <2> QED
    BY <1>1, <1>3, <2>1, EditedWrite
<1> QED
  BY <1>2, <1>3, ConditionStep

LEMMA KubeletIsPodStep ==
    ASSUME Inv, PodStream, NEW i \in Id,
           \/ StartPod(i) \/ RestartContainer(i) \/ ReportReady(i)
           \/ ExitPod(i) \/ RemovePod(i) \/ EvictPod(i)
    PROVE  PodStep(i)
<1>1. /\ UNCHANGED <<lost, cachedPods, nodesSynced, pc, plan, todo>>
      /\ pods[i] \in Pod
  BY DEF StartPod, RestartContainer, ReportReady, ExitPod, RemovePod, EvictPod, Report, isAlive,
         caches, Inv, TypeOK, PodMap
<1>2. SameLife
  BY <1>1, SameLifeFrame
<1>3. readyWith(pods[i].gate) \in {"True", "False", "Gate"} /\ pods[i].tmpl.image \in Images
  BY <1>1 DEF readyWith, Pod, Template
<1>4. ASSUME NEW pod \in Pod, WritePod(i, pod), pod.dying = pods[i].dying
      PROVE  PodStep(i)
  BY <1>1, <1>2, <1>4, EditedWrite
<1> USE DEF Report
<1>5. CASE StartPod(i)
  <2> DEFINE pod == [pods[i] EXCEPT !.phase = "Running", !.run = pods[i].tmpl.image,
                                    !.ready = readyWith(pods[i].gate)]
  <2>1. WritePod(i, pod)
    BY <1>5 DEF StartPod
  <2>2. pod \in Pod /\ pod.dying = pods[i].dying
    BY <1>1, <1>3 DEF Pod
  <2> HIDE DEF pod
  <2> QED
    BY <1>4, <2>1, <2>2
<1>6. CASE RestartContainer(i)
  <2>1. \A r \in Images \cup {"pulling"}, g \in {"True", "False", "Gate"} :
           /\ [pods[i] EXCEPT !.run = r, !.ready = g] \in Pod
           /\ [pods[i] EXCEPT !.run = r, !.ready = g].dying = pods[i].dying
    BY <1>1 DEF Pod
  <2>2. \E r \in Images \cup {"pulling"}, g \in {"True", "False", "Gate"} :
           WritePod(i, [pods[i] EXCEPT !.run = r, !.ready = g])
    BY <1>3, <1>6 DEF RestartContainer
  <2> QED
    BY <1>4, <2>1, <2>2
<1>7. CASE ReportReady(i)
  <2> DEFINE pod == [pods[i] EXCEPT !.ready = readyWith(pods[i].gate)]
  <2>1. WritePod(i, pod)
    BY <1>7 DEF ReportReady
  <2>2. pod \in Pod /\ pod.dying = pods[i].dying
    BY <1>1, <1>3 DEF Pod
  <2> HIDE DEF pod
  <2> QED
    BY <1>4, <2>1, <2>2
<1>8. CASE ExitPod(i)
  <2>1. \A f \in {"Succeeded", "Failed"} :
           /\ [pods[i] EXCEPT !.phase = f, !.ready = "False"] \in Pod
           /\ [pods[i] EXCEPT !.phase = f, !.ready = "False"].dying = pods[i].dying
    BY <1>1 DEF Pod
  <2>2. \E f \in {"Succeeded", "Failed"} :
           WritePod(i, [pods[i] EXCEPT !.phase = f, !.ready = "False"])
    BY <1>8 DEF ExitPod
  <2> QED
    BY <1>4, <2>1, <2>2
<1>9. CASE RemovePod(i)
  <2>1. WritePod(i, NoPod) /\ pods[i] # NoPod /\ isPodDying(pods[i]) /\ i \notin lost
    BY <1>9 DEF RemovePod
  <2>2. cachedPods[i] # NoPod
    BY <2>1 DEF PodStream
  <2>3. PodWrite(i, NoPod)
    BY <1>1, <1>2, <2>1, <2>2 DEF PodWrite, isDoomed
  <2> QED
    BY <2>3 DEF PodStep
<1>10. CASE EvictPod(i)
  <2> DEFINE dead == [pods[i] EXCEPT !.dying = TRUE]
  <2>1. dead \in Pod /\ dead # NoPod /\ isDoomed(dead)
    BY <1>1, NullAssumption DEF Pod, isDoomed, isPodDying
  <2>2. WritePod(i, dead) /\ i \in lost
    BY <1>10 DEF EvictPod
  <2> HIDE DEF dead
  <2>3. PodWrite(i, dead)
    BY <1>1, <1>2, <2>1, <2>2, NullAssumption DEF PodWrite
  <2> QED
    BY <2>1, <2>3 DEF PodStep
<1> QED
  BY <1>5, <1>6, <1>7, <1>8, <1>9, <1>10

-----------------------------------------------------------------------------
(* The streams of the pods *)

\* Every step of the specification, seen from the pods
LEMMA PodSteps ==
    ASSUME Inv, PodStream, [Next]_vars
    PROVE  \/ \E i \in Id : PodStep(i)
           \/ DeliverPod \/ Crash
           \/ /\ UNCHANGED <<pods, podEvents, cachedPods>>
              /\ lost \subseteq lost' /\ (nodesSynced => nodesSynced')
              /\ \/ ListPods \/ WaitConditions \/ UNCHANGED <<pc, plan, todo>>
                 \/ pc' \notin {"conditions", "instances"}
<1> USE DEF cluster, watch, caches, locals
<1>1. CASE GetTApp \/ ListPods \/ WaitConditions \/ WaitInstances \/ FinishInstances
  BY <1>1 DEF GetTApp, ListPods, WaitConditions, WaitInstances, FinishInstances, Return
<1>2. CASE \/ preprocessTApp \/ preprocessStatus \/ updateTAppStatus
           \/ DeliverTApp \/ SyncNodes \/ UserEdit
  BY <1>2 DEF preprocessTApp, preprocessStatus, updateTAppStatus, DeliverTApp, SyncNodes,
              UserEdit, Return
<1>3. CASE \E i \in Id : NodeFails(i)
  BY <1>3 DEF NodeFails
<1>4. CASE UNCHANGED vars
  BY <1>4 DEF vars
<1> QED
  BY <1>1, <1>2, <1>3, <1>4, CreateIsPodStep, DeleteIsPodStep, ForceDeleteIsPodStep,
     UpdateIsPodStep, ConditionIsPodStep, KubeletIsPodStep DEF Next, Sync

\* The stream after a write that changes pod i
LEMMA Appended ==
    ASSUME TypeOK, NEW i \in Id, NEW pod \in Pod \cup {NoPod}, WritePod(i, pod)
    PROVE  /\ \A j \in Id : pods'[j] = IF j = i THEN pod ELSE pods[j]
           /\ Len(podEvents) \in Nat /\ DOMAIN podEvents = 1 .. Len(podEvents)
           /\ \A k \in DOMAIN podEvents : podEvents[k] \in PodEvent /\ podEvents[k].id \in Id
           /\ pod # pods[i] =>
                /\ DOMAIN podEvents' = 1 .. Len(podEvents) + 1
                /\ \A k \in 1 .. Len(podEvents) : podEvents'[k] = podEvents[k]
                /\ podEvents'[Len(podEvents) + 1].id = i
                /\ podEvents'[Len(podEvents) + 1].pod = pod
           /\ pod = pods[i] => podEvents' = podEvents
<1> DEFINE e == [id |-> i, pod |-> pod]
<1>1. podEvents \in Seq(PodEvent) /\ e \in PodEvent /\ e.id = i /\ e.pod = pod
  BY DEF TypeOK, PodEvent
<1> HIDE DEF e
<1>2. Len(podEvents) \in Nat /\ DOMAIN podEvents = 1 .. Len(podEvents)
  BY <1>1
<1>3. \A k \in DOMAIN podEvents : podEvents[k] \in PodEvent /\ podEvents[k].id \in Id
  <2>1. \A k \in 1 .. Len(podEvents) : podEvents[k] \in PodEvent
    BY <1>1, ElementOfSeq
  <2> QED
    BY <1>2, <2>1 DEF PodEvent
<1>4. \A j \in Id : pods'[j] = IF j = i THEN pod ELSE pods[j]
  BY DEF WritePod, TypeOK, PodMap
<1>5. CASE pod # pods[i]
  <2>1. podEvents' = Append(podEvents, e)
    BY <1>5 DEF WritePod, e
  <2>2. /\ DOMAIN podEvents' = 1 .. Len(podEvents) + 1
        /\ \A k \in 1 .. Len(podEvents) : podEvents'[k] = podEvents[k]
        /\ podEvents'[Len(podEvents) + 1] = e
    BY <1>1, <1>2, <2>1
  <2> QED
    BY <1>1, <1>2, <1>3, <1>4, <1>5, <2>2
<1>6. CASE pod = pods[i]
  BY <1>2, <1>3, <1>4, <1>6 DEF WritePod
<1> QED
  BY <1>5, <1>6

\* The stream and the cache after the delivery of the oldest event
LEMMA Delivered ==
    ASSUME TypeOK, DeliverPod
    PROVE  \E n \in Nat :
             /\ DOMAIN podEvents = 1 .. n + 1 /\ DOMAIN podEvents' = 1 .. n
             /\ \A k \in 1 .. n : podEvents'[k] = podEvents[k + 1]
             /\ \A k \in 1 .. n + 1 : podEvents[k].id \in Id
             /\ \A j \in Id : cachedPods'[j] = IF j = podEvents[1].id THEN podEvents[1].pod
                                                                    ELSE cachedPods[j]
<1> DEFINE n == Len(podEvents) - 1
<1>1. podEvents \in Seq(PodEvent) /\ podEvents # <<>>
  BY DEF TypeOK, DeliverPod
<1>2. n \in Nat /\ n + 1 = Len(podEvents) /\ DOMAIN podEvents = 1 .. n + 1
  BY <1>1
<1>3. Head(podEvents) = podEvents[1] /\ podEvents' = Tail(podEvents)
  BY <1>1 DEF DeliverPod
<1>4. DOMAIN podEvents' = 1 .. n /\ \A k \in 1 .. n : podEvents'[k] = podEvents[k + 1]
  BY <1>1, <1>3, HeadTailProperties
<1>5. \A k \in 1 .. n + 1 : podEvents[k].id \in Id
  <2>1. \A k \in 1 .. Len(podEvents) : podEvents[k] \in PodEvent
    BY <1>1, ElementOfSeq
  <2> QED
    BY <1>2, <2>1 DEF PodEvent
<1> HIDE DEF n
<1>6. cachedPods' = [cachedPods EXCEPT ![podEvents[1].id] = podEvents[1].pod]
  BY <1>3 DEF DeliverPod
<1>7. \A j \in Id : cachedPods'[j] = IF j = podEvents[1].id THEN podEvents[1].pod
                                                           ELSE cachedPods[j]
  BY <1>6 DEF TypeOK, PodMap
<1> QED
  BY <1>2, <1>4, <1>5, <1>7

\* What a write of pod i makes of the stream: no event of pod i speaks of a removal, and a
\* pod is brought back only when no event of it is left.
LEMMA PodWriteStream ==
    ASSUME Inv, PodStream, NEW i \in Id, NEW pod \in Pod \cup {NoPod}, PodWrite(i, pod)
    PROVE  PodStream'
<1> DEFINE n == Len(podEvents)
<1>1. TypeOK /\ WritePod(i, pod) /\ SameLife /\ lost \ {i} \subseteq lost'
  BY DEF Inv, PodWrite
<1>2. /\ \A j \in Id : pods'[j] = IF j = i THEN pod ELSE pods[j]
      /\ n \in Nat /\ DOMAIN podEvents = 1 .. n
      /\ \A k \in DOMAIN podEvents : podEvents[k].id \in Id
      /\ pod # pods[i] =>
           /\ DOMAIN podEvents' = 1 .. n + 1
           /\ \A k \in 1 .. n : podEvents'[k] = podEvents[k]
           /\ podEvents'[n + 1].id = i /\ podEvents'[n + 1].pod = pod
      /\ pod = pods[i] => podEvents' = podEvents
  BY <1>1, Appended
<1>3. \A j \in Id : /\ cachedPods'[j] = NoPod <=> cachedPods[j] = NoPod
                    /\ cachedPods[j] # NoPod =>
                         (isPodDying(cachedPods'[j]) <=> isPodDying(cachedPods[j]))
  BY <1>1 DEF SameLife, isPodDying
<1>4. \A k \in DOMAIN podEvents : podEvents[k].id = i /\ isDoomed(podEvents[k].pod) => isDoomed(pod)
  <2>1. CASE isDoomed(pods[i]) => isDoomed(pod)
    BY <2>1 DEF PodStream
  <2>2. CASE pods[i] = NoPod /\ cachedPods[i] = NoPod
    BY <2>2 DEF PodStream, PodCurrent
  <2> QED
    BY <2>1, <2>2 DEF PodWrite
<1>5. ASSUME pod # pods[i], NEW k \in DOMAIN podEvents, podEvents[k].id = i
      PROVE  podEvents[k].pod # NoPod
  <2> SUFFICES ASSUME podEvents[k].pod = NoPod PROVE FALSE
    OBVIOUS
  <2>1. \A m \in DOMAIN podEvents : m > k => podEvents[m].id # podEvents[k].id
    BY <1>2 DEF PodStream
  <2>2. pods[i] = NoPod
    BY <1>5, <2>1 DEF Inv, PodsWatched
  <2>3. cachedPods[i] # NoPod
    BY <1>5 DEF PodStream
  <2> QED
    BY <1>5, <2>2, <2>3 DEF PodWrite
<1>6. cachedPods[i] # NoPod /\ isPodDying(cachedPods[i]) => isDoomed(pod)
  BY DEF PodWrite, PodStream
<1>7. pod = NoPod => pods[i] = NoPod \/ cachedPods[i] # NoPod
  BY DEF PodWrite
<1>8. cachedPods[i] = NoPod /\ pod # NoPod /\ isPodDying(pod) => i \in lost'
  BY DEF PodWrite
<1> HIDE DEF n
<1>9. ASSUME NEW k \in DOMAIN podEvents', NEW m \in DOMAIN podEvents',
             k < m, podEvents'[k].id = podEvents'[m].id
      PROVE  /\ podEvents'[k].pod # NoPod
             /\ isDoomed(podEvents'[k].pod) => isDoomed(podEvents'[m].pod)
  <2>1. CASE pod = pods[i]
    BY <1>2, <1>9, <2>1 DEF PodStream
  <2>2. CASE pod # pods[i] /\ m = n + 1
    <3>1. k \in 1 .. n /\ k \in DOMAIN podEvents /\ podEvents'[k] = podEvents[k]
      BY <1>2, <1>9, <2>2
    <3> QED
      BY <1>2, <1>4, <1>5, <1>9, <2>2, <3>1
  <2>3. CASE pod # pods[i] /\ m # n + 1
    <3>1. /\ k \in DOMAIN podEvents /\ podEvents'[k] = podEvents[k]
          /\ m \in DOMAIN podEvents /\ podEvents'[m] = podEvents[m]
      BY <1>2, <1>9, <2>3
    <3> QED
      BY <1>9, <3>1 DEF PodStream
  <2> QED
    BY <2>1, <2>2, <2>3
<1>10. ASSUME NEW k \in DOMAIN podEvents'
       PROVE  /\ podEvents'[k].pod = NoPod => cachedPods'[podEvents'[k].id] # NoPod
              /\ isDoomed(podEvents'[k].pod) => isDoomed(pods'[podEvents'[k].id])
  <2>1. CASE k \in DOMAIN podEvents /\ podEvents'[k] = podEvents[k]
    <3>1. podEvents[k].id \in Id
      BY <1>2, <2>1
    <3> QED
      BY <1>2, <1>3, <1>4, <2>1, <3>1 DEF PodStream
  <2>2. CASE podEvents'[k].id = i /\ podEvents'[k].pod = pod /\ pod # pods[i]
    BY <1>2, <1>3, <1>7, <2>2
  <2> QED
    BY <1>2, <2>1, <2>2
<1>11. ASSUME NEW j \in Id, cachedPods'[j] # NoPod, isPodDying(cachedPods'[j])
       PROVE  /\ isDoomed(pods'[j])
              /\ \A k \in DOMAIN podEvents' : podEvents'[k].id = j => isDoomed(podEvents'[k].pod)
  <2>1. /\ isDoomed(pods[j])
        /\ \A k \in DOMAIN podEvents : podEvents[k].id = j => isDoomed(podEvents[k].pod)
        /\ j = i => isDoomed(pod)
    BY <1>3, <1>6, <1>11 DEF PodStream
  <2> QED
    BY <1>2, <2>1
<1>12. ASSUME NEW j \in Id, cachedPods'[j] = NoPod
       PROVE  /\ pods'[j] = NoPod => PodCurrent(j)'
              /\ pods'[j] # NoPod /\ isPodDying(pods'[j]) => j \in lost'
  <2>1. /\ pods[j] = NoPod => PodCurrent(j)
        /\ pods[j] # NoPod /\ isPodDying(pods[j]) => j \in lost
    BY <1>3, <1>12 DEF PodStream
  <2>2. CASE j # i
    BY <1>1, <1>2, <2>1, <2>2 DEF PodCurrent
  <2>3. CASE j = i
    <3>1. cachedPods[i] = NoPod
      BY <1>3, <1>12, <2>3
    <3>2. pod = NoPod => pod = pods[i]
      BY <1>7, <3>1
    <3> QED
      BY <1>2, <1>8, <2>1, <2>3, <3>1, <3>2 DEF PodCurrent
  <2> QED
    BY <2>2, <2>3
<1> QED
  BY <1>9, <1>10, <1>11, <1>12 DEF PodStream, isDoomed, isPodDying

\* The delivery of an event: the cache gets the state the events behind it go on from.
LEMMA DeliverStream ==
    ASSUME Inv, PodStream, DeliverPod
    PROVE  PodStream'
<1>1. PICK n \in Nat :
        /\ DOMAIN podEvents = 1 .. n + 1 /\ DOMAIN podEvents' = 1 .. n
        /\ \A k \in 1 .. n : podEvents'[k] = podEvents[k + 1]
        /\ \A k \in 1 .. n + 1 : podEvents[k].id \in Id
        /\ \A j \in Id : cachedPods'[j] = IF j = podEvents[1].id THEN podEvents[1].pod
                                                               ELSE cachedPods[j]
  BY Delivered DEF Inv
<1>2. UNCHANGED <<pods, lost>> /\ podEvents[1].id \in Id /\ 1 \in DOMAIN podEvents
  BY <1>1 DEF DeliverPod, cluster
<1>3. \A k \in DOMAIN podEvents' : /\ podEvents'[k] = podEvents[k + 1] /\ 1 < k + 1
                                  /\ k + 1 \in DOMAIN podEvents /\ podEvents[k + 1].id \in Id
  BY <1>1
<1>4. ASSUME NEW j \in Id, j = podEvents[1].id, podEvents[1].pod = NoPod
      PROVE  pods[j] = NoPod /\ PodCurrent(j)'
  <2>1. \A m \in DOMAIN podEvents : m > 1 => podEvents[m].id # podEvents[1].id
    BY <1>1, <1>2, <1>4 DEF PodStream
  <2>2. pods[j] = NoPod
    BY <1>2, <1>4, <2>1 DEF Inv, PodsWatched
  <2>3. \A k \in DOMAIN podEvents' : podEvents'[k].id # j
    BY <1>1, <1>3, <1>4, <2>1
  <2> QED
    BY <2>2, <2>3 DEF PodCurrent
<1>5. ASSUME NEW k \in DOMAIN podEvents', NEW m \in DOMAIN podEvents',
             k < m, podEvents'[k].id = podEvents'[m].id
      PROVE  /\ podEvents'[k].pod # NoPod
             /\ isDoomed(podEvents'[k].pod) => isDoomed(podEvents'[m].pod)
  <2>1. k + 1 < m + 1
    BY <1>1, <1>5
  <2> QED
    BY <1>3, <1>5, <2>1 DEF PodStream
<1>6. ASSUME NEW k \in DOMAIN podEvents'
      PROVE  /\ podEvents'[k].pod = NoPod => cachedPods'[podEvents'[k].id] # NoPod
             /\ isDoomed(podEvents'[k].pod) => isDoomed(pods'[podEvents'[k].id])
  <2>1. podEvents'[k].pod = NoPod /\ podEvents'[k].id = podEvents[1].id => podEvents[1].pod # NoPod
    BY <1>2, <1>3 DEF PodStream
  <2>2. podEvents'[k].pod = NoPod => cachedPods[podEvents'[k].id] # NoPod
    BY <1>3 DEF PodStream
  <2>3. isDoomed(podEvents'[k].pod) => isDoomed(pods'[podEvents'[k].id])
    BY <1>2, <1>3 DEF PodStream
  <2>4. podEvents'[k].id \in Id
    BY <1>3
  <2> QED
    BY <1>1, <2>1, <2>2, <2>3, <2>4
<1>7. ASSUME NEW j \in Id, cachedPods'[j] # NoPod, isPodDying(cachedPods'[j])
      PROVE  /\ isDoomed(pods'[j])
             /\ \A k \in DOMAIN podEvents' : podEvents'[k].id = j => isDoomed(podEvents'[k].pod)
  <2>1. CASE j = podEvents[1].id
    <3>1. isDoomed(podEvents[1].pod)
      BY <1>1, <1>7, <2>1 DEF isDoomed
    <3> QED
      BY <1>2, <1>3, <2>1, <3>1 DEF PodStream
  <2>2. CASE j # podEvents[1].id
    <3>1. cachedPods'[j] = cachedPods[j]
      BY <1>1, <2>2
    <3> QED
      BY <1>2, <1>3, <1>7, <3>1 DEF PodStream
  <2> QED
    BY <2>1, <2>2
<1>8. ASSUME NEW j \in Id, cachedPods'[j] = NoPod
      PROVE  /\ pods'[j] = NoPod => PodCurrent(j)'
             /\ pods'[j] # NoPod /\ isPodDying(pods'[j]) => j \in lost'
  <2>1. CASE j = podEvents[1].id
    BY <1>1, <1>2, <1>4, <1>8, <2>1
  <2>2. CASE j # podEvents[1].id
    <3>1. cachedPods[j] = NoPod
      BY <1>1, <1>8, <2>2
    <3>2. PodCurrent(j) => PodCurrent(j)'
      BY <1>3 DEF PodCurrent
    <3> QED
      BY <1>2, <3>1, <3>2 DEF PodStream
  <2> QED
    BY <2>1, <2>2
<1> QED
  BY <1>5, <1>6, <1>7, <1>8 DEF PodStream, isDoomed, isPodDying

\* PodStream is inductive, given Inv.
LEMMA PodStreamNext == Inv /\ PodStream /\ [Next]_vars => PodStream'
<1> SUFFICES ASSUME Inv, PodStream, [Next]_vars PROVE PodStream'
  OBVIOUS
<1>1. CASE \E i \in Id : PodStep(i)
  BY <1>1, PodWriteStream DEF PodStep
<1>2. CASE DeliverPod
  BY <1>2, DeliverStream
<1>3. CASE Crash
  <2>1. podEvents' = <<>> /\ cachedPods' = pods /\ pods' = pods
    BY <1>3 DEF Crash, cluster
  <2> QED
    BY <2>1 DEF PodStream, PodCurrent, isDoomed
<1>4. CASE UNCHANGED <<pods, podEvents, cachedPods>> /\ lost \subseteq lost'
  BY <1>4 DEF PodStream, PodCurrent
<1> QED
  BY <1>1, <1>2, <1>3, <1>4, PodSteps

-----------------------------------------------------------------------------
(* The forced delete *)

\* instanceToSync plans a forced delete only for a pod that is being deleted on a node that
\* the node store does not know as ready.
LEMMA ForcedDying ==
    ASSUME NEW a \in TApp, NEW seen \in PodMap, NEW noNode,
           NEW p \in instanceToSync(a, seen, noNode), NEW i \in p.forceDel
    PROVE  i \in Id /\ i \in noNode /\ seen[i] # NoPod /\ isPodDying(seen[i])
<1> DEFINE actions == getNextActionsForPods(a, seen)
<1>1. p.forceDel = toForceDelete(a.spec, actions, seen, noNode)
  BY DEF instanceToSync, transformPodActions, planWith
<1>2. i \in Id /\ actions[i] = "DELETE" /\ isPodDying(seen[i]) /\ i \in noNode
  BY <1>1 DEF toForceDelete, needForceDelete
<1>3. seen[i] # NoPod
  BY <1>2 DEF getNextActionsForPods, syncRunningPod
<1> QED
  BY <1>2, <1>3

\* ForcePlanned is inductive, given Inv and PodStream.
LEMMA ForcePlannedNext == Inv /\ PodStream /\ ForcePlanned /\ [Next]_vars => ForcePlanned'
<1> SUFFICES ASSUME Inv, PodStream, ForcePlanned, [Next]_vars, NodesSyncedAtStart
             PROVE  /\ nodesSynced'
                    /\ \A i \in plan'.forceDel :
                         pc' = "conditions" \/ (pc' = "instances" /\ i \in todo') =>
                           /\ i \in lost'
                           /\ IF cachedPods'[i] = NoPod THEN pods'[i] = NoPod
                                                        ELSE isPodDying(cachedPods'[i])
  BY DEF ForcePlanned, isPodDying
<1>1. /\ nodesSynced
      /\ \A i \in plan.forceDel :
           pc = "conditions" \/ (pc = "instances" /\ i \in todo) =>
             /\ i \in lost
             /\ cachedPods[i] = NoPod => pods[i] = NoPod
             /\ cachedPods[i] # NoPod => isPodDying(cachedPods[i])
  BY DEF ForcePlanned
<1>2. plan.forceDel \subseteq Id
  BY DEF Inv, TypeOK, InstancePlan
<1>3. ASSUME NEW i \in Id, NEW pod \in Pod \cup {NoPod}, PodWrite(i, pod)
      PROVE  /\ nodesSynced'
             /\ \A j \in plan'.forceDel :
                  pc' = "conditions" \/ (pc' = "instances" /\ j \in todo') =>
                    /\ j \in lost'
                    /\ cachedPods'[j] = NoPod => pods'[j] = NoPod
                    /\ cachedPods'[j] # NoPod => isPodDying(cachedPods'[j])
  <2>1. /\ UNCHANGED <<nodesSynced, pc, plan>> /\ todo' \subseteq todo /\ SameLife
        /\ lost \ {i} \subseteq lost'
    BY <1>3 DEF PodWrite
  <2>2. \A j \in Id : pods'[j] = IF j = i THEN pod ELSE pods[j]
    BY <1>3, Appended DEF Inv, PodWrite
  <2>3. pc = "conditions" \/ (pc = "instances" /\ i \in todo') =>
          (pods[i] = NoPod => pod = NoPod) /\ (i \in lost => i \in lost')
    BY <1>3 DEF PodWrite
  <2>4. \A j \in Id : /\ cachedPods'[j] = NoPod <=> cachedPods[j] = NoPod
                      /\ cachedPods[j] # NoPod =>
                           (isPodDying(cachedPods'[j]) <=> isPodDying(cachedPods[j]))
    BY <2>1 DEF SameLife, isPodDying
  <2>5. ASSUME NEW j \in plan.forceDel, pc = "conditions" \/ (pc = "instances" /\ j \in todo')
        PROVE  /\ j \in lost'
               /\ cachedPods'[j] = NoPod => pods'[j] = NoPod
               /\ cachedPods'[j] # NoPod => isPodDying(cachedPods'[j])
    <3>1. /\ j \in lost /\ j \in Id
          /\ cachedPods[j] = NoPod => pods[j] = NoPod
          /\ cachedPods[j] # NoPod => isPodDying(cachedPods[j])
      BY <1>1, <1>2, <2>1, <2>5
    <3> QED
      BY <2>1, <2>2, <2>3, <2>4, <2>5, <3>1
  <2> QED
    BY <1>1, <2>1, <2>5
<1>4. CASE DeliverPod
  <2>1. UNCHANGED <<pods, lost, nodesSynced, pc, plan, todo>>
    BY <1>4 DEF DeliverPod, cluster, locals
  <2>2. PICK n \in Nat :
          /\ DOMAIN podEvents = 1 .. n + 1
          /\ \A j \in Id : cachedPods'[j] = IF j = podEvents[1].id THEN podEvents[1].pod
                                                                 ELSE cachedPods[j]
    BY <1>4, Delivered DEF Inv
  <2>3. 1 \in DOMAIN podEvents
    BY <2>2
  <2>4. podEvents[1].pod = NoPod => pods[podEvents[1].id] = NoPod
    <3>1. podEvents[1].pod = NoPod =>
            \A m \in DOMAIN podEvents : m > 1 => podEvents[m].id # podEvents[1].id
      BY <2>3 DEF PodStream
    <3> QED
      BY <2>3, <3>1 DEF Inv, PodsWatched
  <2>5. ASSUME NEW j \in plan.forceDel, pc = "conditions" \/ (pc = "instances" /\ j \in todo),
               j = podEvents[1].id
        PROVE  podEvents[1].pod = NoPod \/ isPodDying(podEvents[1].pod)
    <3>1. cachedPods[j] # NoPod
      BY <1>1, <1>2, <2>3, <2>5 DEF PodStream, PodCurrent
    <3>2. isDoomed(podEvents[1].pod)
      BY <1>1, <1>2, <2>3, <2>5, <3>1 DEF PodStream
    <3> QED
      BY <3>2 DEF isDoomed
  <2> QED
    BY <1>1, <1>2, <2>1, <2>2, <2>4, <2>5
<1>5. CASE Crash
  BY <1>5 DEF Crash, Return
<1>6. CASE ListPods
  <2>1. CASE Return /\ UNCHANGED nodesSynced
    BY <1>1, <2>1 DEF Return
  <2>2. CASE plan' \in instanceToSync(app, cachedPods, NoNode) /\ UNCHANGED nodesSynced
    <3>1. NoNode = lost /\ UNCHANGED <<lost, cachedPods>>
      BY <1>1, <1>6 DEF NoNode, ListPods, cluster, caches
    <3>2. \A i \in plan'.forceDel : i \in lost /\ cachedPods[i] # NoPod /\ isPodDying(cachedPods[i])
      BY <2>2, <3>1, ForcedDying DEF Inv, TypeOK
    <3> QED
      BY <1>1, <2>2, <3>1, <3>2
  <2> QED
    BY <1>6, <2>1, <2>2 DEF ListPods, caches
<1>7. CASE WaitConditions
  BY <1>1, <1>7 DEF WaitConditions, cluster, caches
<1>8. CASE /\ UNCHANGED <<pods, cachedPods>>
           /\ lost \subseteq lost' /\ (nodesSynced => nodesSynced')
           /\ UNCHANGED <<pc, plan, todo>> \/ pc' \notin {"conditions", "instances"}
  BY <1>1, <1>8
<1> QED
  BY <1>3, <1>4, <1>5, <1>6, <1>7, <1>8, PodSteps DEF PodStep

\* The grace-period-0 delete hits only a pod that is being deleted on a lost node.  It is
\* made by name, from a plan that may be old: what protects the pod is that a dying pod stays
\* dying in every later event of its stream, and that no replacement is created before the
\* removal was delivered and this Sync is over.  The node informer must have listed first.
THEOREM ForcedDeletesSafe ==
    ASSUME NodesSyncedAtStart
    PROVE  Spec => ForceDeleteSafe
<1> DEFINE Safe == \A i \in Id : forceDeleteInstance(i) /\ pods'[i] # pods[i] =>
                                  isPodDying(pods[i]) /\ i \in lost
<1>1. Init => PodStream /\ ForcePlanned
  <2> SUFFICES ASSUME Init PROVE PodStream /\ ForcePlanned
    OBVIOUS
  <2>1. podEvents = <<>> /\ cachedPods = pods /\ plan = NoPlan
    BY DEF Init
  <2>2. PodStream
    BY <2>1 DEF PodStream, PodCurrent, isDoomed
  <2>3. nodesSynced
    BY Zenon DEF Init
  <2> QED
    BY <2>1, <2>2, <2>3 DEF ForcePlanned, NoPlan
<1>2. Inv /\ PodStream /\ ForcePlanned /\ [Next]_vars => Safe
  <2> SUFFICES ASSUME Inv, PodStream, ForcePlanned, NEW i \in Id,
                      forceDeleteInstance(i), pods'[i] # pods[i]
               PROVE  isPodDying(pods[i]) /\ i \in lost
    OBVIOUS
  <2>1. /\ i \in plan.forceDel /\ pc = "instances" /\ i \in todo
        /\ cachedPods[i] # NoPod /\ WritePod(i, NoPod)
    BY DEF forceDeleteInstance, InstanceStep, WritePod
  <2>2. i \in lost /\ isPodDying(cachedPods[i])
    BY <2>1 DEF ForcePlanned
  <2>3. pods[i] # NoPod
    BY <2>1 DEF WritePod
  <2> QED
    BY <2>1, <2>2, <2>3 DEF PodStream, isDoomed
<1> QED
  BY <1>1, <1>2, InvInit, InvNext, PodStreamNext, ForcePlannedNext, PTL
     DEF Spec, ForceDeleteSafe

-----------------------------------------------------------------------------
(* The caches that the code writes to *)

\* A call that the environment cannot make fail is applied when its copy is current, and
\* costs nothing.
LEMMA NoFaultOutcome ==
    ASSUME budget.faults = 0, NEW c \in BOOLEAN, NEW r \in Outcome(c), Charge(r)
    PROVE  UNCHANGED budget /\ (c => Applied(r))
BY DEF Outcome, Charge, Applied

\* Where there is no fault to begin with there never is one.
LEMMA NoFaultsNext == Inv /\ NoFaults /\ [Next]_vars => NoFaults'
<1> SUFFICES ASSUME Inv, [Next]_vars, budget.faults = 0 PROVE budget'.faults = 0
  BY DEF NoFaults
<1>1. \A c \in BOOLEAN : \A r \in Outcome(c) : Charge(r) => budget' = budget
  BY NoFaultOutcome
<1>2. budget \in BudgetType /\ fresh \in BOOLEAN
  BY DEF Inv, TypeOK
<1> USE DEF cluster, watch, caches, locals
<1>3. CASE GetTApp \/ ListPods \/ WaitConditions \/ WaitInstances \/ FinishInstances
  BY <1>3 DEF GetTApp, ListPods, WaitConditions, WaitInstances, FinishInstances
<1>4. CASE preprocessTApp \/ preprocessStatus
  BY <1>1, <1>2, <1>4 DEF preprocessTApp, preprocessStatus
<1>5. CASE updateTAppStatus
  <2>1. TAppCurrent \in BOOLEAN
    BY DEF TAppCurrent
  <2>2. (IF tries = 0 THEN fresh ELSE TAppCurrent) \in BOOLEAN
    BY <1>2, <2>1, Zenon
  <2> QED
    BY <1>1, <1>5, <2>2 DEF updateTAppStatus, statusOutcome
<1>6. ASSUME NEW i \in Id, createInstance(i) \/ deleteInstance(i) \/ forceDeleteInstance(i)
      PROVE  UNCHANGED budget
  BY <1>1, <1>6 DEF createInstance, deleteInstance, forceDeleteInstance
<1>7. ASSUME NEW i \in Id, updateInstance(i) PROVE UNCHANGED budget
  <2>1. PodCurrent(i) \in BOOLEAN
    BY DEF PodCurrent
  <2> QED
    BY <1>1, <1>7, <2>1 DEF updateInstance
<1>8. ASSUME NEW i \in Id, setInPlaceUpdateCondition(i) PROVE UNCHANGED budget
  BY <1>1, <1>8, ConditionStep
<1>9. CASE DeliverTApp \/ DeliverPod \/ SyncNodes
  BY <1>9 DEF DeliverTApp, DeliverPod, SyncNodes
<1>10. CASE Crash \/ UserEdit
  BY <1>2, <1>10 DEF Crash, UserEdit, BudgetType
<1>11. ASSUME NEW i \in Id, ExitPod(i) \/ NodeFails(i) PROVE budget'.faults = 0
  BY <1>2, <1>11 DEF ExitPod, NodeFails, BudgetType
<1>12. ASSUME NEW i \in Id,
              StartPod(i) \/ RestartContainer(i) \/ ReportReady(i) \/ RemovePod(i) \/ EvictPod(i)
       PROVE  UNCHANGED budget
  BY <1>12 DEF StartPod, RestartContainer, ReportReady, RemovePod, EvictPod
<1>13. CASE UNCHANGED vars
  BY <1>13 DEF vars
<1> QED
  BY <1>3, <1>4, <1>5, <1>6, <1>7, <1>8, <1>9, <1>10, <1>11, <1>12, <1>13 DEF Next, Sync

\* The cached TApp: a round of updateTAppStatus that edits it while it is current is accepted,
\* and what it stores is what it wrote into the cache.
LEMMA CachedTAppNext ==
    ASSUME Inv, budget.faults = 0, TAppCurrent => cachedTApp = tapp, [Next]_vars
    PROVE  TAppCurrent' => cachedTApp' = tapp'
<1> SUFFICES ASSUME TAppCurrent' PROVE cachedTApp' = tapp'
  OBVIOUS
<1>1. tappEvents \in Seq(TApp) /\ tapp \in TApp /\ tappEvents' = <<>>
  BY DEF Inv, TypeOK, TAppCurrent
<1>2. ASSUME NEW t, WriteTApp(t) PROVE TAppCurrent /\ t = tapp /\ tapp' = tapp
  <2>1. Append(tappEvents, t) # <<>>
    BY <1>1
  <2> QED
    BY <1>1, <1>2, <2>1 DEF WriteTApp, TAppCurrent
<1>3. CASE UNCHANGED <<tapp, tappEvents, cachedTApp>>
  BY <1>3 DEF TAppCurrent
<1>4. CASE preprocessTApp
  <2>1. cachedTApp' = cachedTApp
    BY <1>4 DEF preprocessTApp, caches
  <2>2. UNCHANGED <<tapp, tappEvents>> \/ \E t : WriteTApp(t)
    BY <1>4 DEF preprocessTApp
  <2> QED
    BY <1>2, <2>1, <2>2 DEF TAppCurrent
<1>5. CASE UserEdit
  BY <1>2, <1>5 DEF UserEdit, caches
<1>6. CASE updateTAppStatus
  <2> DEFINE new == withStatus(statusTApp, list)
  <2>1. CASE tries = 0
    BY <1>2, <1>6, <2>1 DEF updateTAppStatus, roundTApp
  <2>2. CASE tries # 0
    <3>1. PICK r \in Outcome(TAppCurrent) :
            /\ Charge(r)
            /\ WriteTApp(IF Applied(r) THEN [tapp EXCEPT !.status = new.status] ELSE tapp)
      BY <1>6, <2>2 DEF updateTAppStatus, statusOutcome, roundTApp
    <3>2. cachedTApp' = new /\ statusTApp = cachedTApp
      BY <1>6, <2>2 DEF updateTAppStatus, statusTApp, roundTApp
    <3>3. TAppCurrent /\ tapp' = tapp
      BY <1>2, <3>1
    <3>4. TAppCurrent \in BOOLEAN
      BY DEF TAppCurrent
    <3>5. Applied(r)
      BY <3>1, <3>3, <3>4, NoFaultOutcome
    <3>6. [tapp EXCEPT !.status = new.status] = tapp
      BY <1>2, <3>1, <3>5
    <3>7. statusTApp = tapp
      BY <3>2, <3>3
    <3>8. new = [tapp EXCEPT !.status = new.status]
      BY <1>1, <3>7 DEF withStatus, TApp, TAppStatus
    <3> QED
      BY <3>2, <3>3, <3>6, <3>8
  <2> QED
    BY <2>1, <2>2
<1>7. CASE DeliverTApp
  <2>1. tappEvents # <<>> /\ Tail(tappEvents) = <<>>
    BY <1>1, <1>7 DEF DeliverTApp
  <2>2. Len(tappEvents) = 1
    <3>1. Len(Tail(tappEvents)) = Len(tappEvents) - 1 /\ Len(tappEvents) \in Nat
      BY <1>1, <2>1, HeadTailProperties
    <3>2. Len(Tail(tappEvents)) = 0
      BY <2>1
    <3> QED
      BY <3>1, <3>2
  <2>3. Head(tappEvents) = tappEvents[Len(tappEvents)]
    BY <1>1, <2>1, <2>2
  <2> QED
    BY <1>7, <2>1, <2>3 DEF DeliverTApp, cluster, Inv, TAppWatched
<1>8. CASE Crash
  BY <1>8 DEF Crash, cluster
<1> QED
  BY <1>3, <1>4, <1>5, <1>6, <1>7, <1>8, TAppSteps

\* The steps that touch the cached pods
LEMMA CachedPodSteps ==
    ASSUME [Next]_vars
    PROVE  \/ UNCHANGED cachedPods \/ DeliverPod \/ Crash
           \/ \E i \in Id : setInPlaceUpdateCondition(i)
<1> USE DEF cluster, watch, caches, locals
<1>1. CASE GetTApp \/ ListPods \/ WaitConditions \/ WaitInstances \/ FinishInstances
  BY <1>1 DEF GetTApp, ListPods, WaitConditions, WaitInstances, FinishInstances
<1>2. CASE \/ preprocessTApp \/ preprocessStatus \/ updateTAppStatus
           \/ DeliverTApp \/ SyncNodes \/ UserEdit
  BY <1>2 DEF preprocessTApp, preprocessStatus, updateTAppStatus, DeliverTApp, SyncNodes,
              UserEdit
<1>3. ASSUME NEW i \in Id, \/ createInstance(i) \/ deleteInstance(i) \/ forceDeleteInstance(i)
                           \/ updateInstance(i) \/ NodeFails(i) \/ EvictPod(i)
      PROVE  UNCHANGED cachedPods
  BY <1>3 DEF createInstance, deleteInstance, forceDeleteInstance, InstanceStep,
              updateInstance, NodeFails, EvictPod
<1>4. ASSUME NEW i \in Id, \/ StartPod(i) \/ RestartContainer(i) \/ ReportReady(i)
                           \/ ExitPod(i) \/ RemovePod(i)
      PROVE  UNCHANGED cachedPods
  BY <1>4 DEF StartPod, RestartContainer, ReportReady, ExitPod, RemovePod, Report
<1>5. CASE UNCHANGED vars
  BY <1>5 DEF vars
<1> QED
  BY <1>1, <1>2, <1>3, <1>4, <1>5 DEF Next, Sync

\* The cached pods: the same for the retries of setInPlaceUpdateCondition
LEMMA CachedPodNext ==
    ASSUME Inv, PodStream, budget.faults = 0, [Next]_vars,
           \A j \in Id : PodCurrent(j) => cachedPods[j] = pods[j]
    PROVE  \A j \in Id : PodCurrent(j)' => cachedPods'[j] = pods'[j]
<1>1. TypeOK /\ PodsWatched
  BY DEF Inv
<1>2. CASE DeliverPod
  <2>1. PICK n \in Nat :
          /\ DOMAIN podEvents = 1 .. n + 1 /\ DOMAIN podEvents' = 1 .. n
          /\ \A k \in 1 .. n : podEvents'[k] = podEvents[k + 1]
          /\ \A j \in Id : cachedPods'[j] = IF j = podEvents[1].id THEN podEvents[1].pod
                                                                 ELSE cachedPods[j]
    BY <1>2, Delivered DEF Inv
  <2>2. UNCHANGED pods
    BY <1>2 DEF DeliverPod, cluster
  <2> SUFFICES ASSUME NEW j \in Id, PodCurrent(j)' PROVE cachedPods'[j] = pods[j]
    BY <2>2
  <2>3. ASSUME NEW m \in DOMAIN podEvents, m > 1 PROVE podEvents[m].id # j
    <3>1. m - 1 \in DOMAIN podEvents' /\ (m - 1) + 1 = m
      BY <2>1, <2>3
    <3> QED
      BY <2>1, <3>1 DEF PodCurrent
  <2>4. CASE j = podEvents[1].id
    <3>1. podEvents[1].pod = pods[j]
      BY <2>1, <2>3, <2>4 DEF Inv, PodsWatched
    <3> QED
      BY <2>1, <2>4, <3>1
  <2>5. CASE j # podEvents[1].id
    <3>1. PodCurrent(j)
      BY <2>1, <2>3, <2>5 DEF PodCurrent
    <3> QED
      BY <2>1, <2>5, <3>1
  <2> QED
    BY <2>4, <2>5
<1>3. CASE Crash
  BY <1>3 DEF Crash, cluster
<1>4. ASSUME NEW i \in Id, setInPlaceUpdateCondition(i)
      PROVE  \A j \in Id : PodCurrent(j)' => cachedPods'[j] = pods'[j]
  <2>1. CASE UNCHANGED <<pods, podEvents, cachedPods>>
    BY <2>1 DEF PodCurrent
  <2>2. ASSUME NEW c \in BOOLEAN, NEW r \in Outcome(c), NEW pod \in Pod \cup {NoPod},
               Charge(r), WritePod(i, pod),
               \/ UNCHANGED cachedPods
               \/ /\ c = PodCurrent(i) /\ cachedPods[i] \in Pod
                  /\ cachedPods' = [cachedPods EXCEPT ![i] = withGate(cachedPods[i], gateOf(i))]
                  /\ Applied(r) => pod = [pods[i] EXCEPT
                                            !.gate = withGate(cachedPods[i], gateOf(i)).gate,
                                            !.ready = withGate(cachedPods[i], gateOf(i)).ready]
        PROVE  \A j \in Id : PodCurrent(j)' => cachedPods'[j] = pods'[j]
    <3> SUFFICES ASSUME NEW j \in Id, PodCurrent(j)' PROVE cachedPods'[j] = pods'[j]
      OBVIOUS
    <3> DEFINE new == withGate(cachedPods[i], gateOf(i))
    <3>1. PodCurrent(j) /\ pods'[j] = pods[j] /\ cachedPods[j] = pods[j] /\ (j = i => pod = pods[i])
      <4>1. WritePod(i, pod)
        BY <2>2
      <4>2. PodCurrent(j) /\ pods'[j] = pods[j] /\ (j = i => pod = pods[i])
        BY <1>1, <4>1, WritePodKeeps, Appended
      <4> QED
        BY <4>2
    <3>2. CASE UNCHANGED cachedPods
      BY <3>1, <3>2
    <3>3. CASE /\ c = PodCurrent(i) /\ cachedPods[i] \in Pod
               /\ cachedPods' = [cachedPods EXCEPT ![i] = new]
               /\ Applied(r) => pod = [pods[i] EXCEPT !.gate = new.gate, !.ready = new.ready]
      <4>1. CASE j # i
        BY <3>1, <3>3, <4>1 DEF Inv, TypeOK, PodMap
      <4>2. CASE j = i
        <5>1. Applied(r)
          BY <2>2, <3>1, <3>3, <4>2, NoFaultOutcome
        <5>2. pods[i] = [pods[i] EXCEPT !.gate = new.gate, !.ready = new.ready]
          BY <3>1, <3>3, <4>2, <5>1
        <5>3. pods[i] \in Pod /\ cachedPods[i] = pods[i]
          BY <3>1, <3>3, <4>2
        <5>4. new = [pods[i] EXCEPT !.gate = new.gate, !.ready = new.ready]
          BY <5>3 DEF withGate, Pod
        <5>5. cachedPods'[i] = new
          BY <3>3 DEF Inv, TypeOK, PodMap
        <5> QED
          BY <3>1, <4>2, <5>2, <5>4, <5>5
      <4> QED
        BY <4>1, <4>2
    <3> QED
      BY <2>2, <3>2, <3>3
  <2> QED
    BY <1>4, <2>1, <2>2, ConditionStep
<1>5. CASE UNCHANGED cachedPods /\ \E i \in Id : PodStep(i)
  <2>1. PICK i \in Id, pod \in Pod \cup {NoPod} : WritePod(i, pod)
    BY <1>5 DEF PodStep, PodWrite
  <2>2. \A j \in Id : PodCurrent(j)' => PodCurrent(j) /\ pods'[j] = pods[j]
    BY <1>1, <2>1, WritePodKeeps
  <2> QED
    BY <1>5, <2>2
<1>6. CASE UNCHANGED <<pods, podEvents, cachedPods>>
  BY <1>6 DEF PodCurrent
<1> QED
  BY <1>2, <1>3, <1>4, <1>5, <1>6, PodSteps, CachedPodSteps

\* While no call fails, an informer cache that has caught up shows the stored objects.  The
\* code edits cached objects in place before it knows whether its call is accepted; the edit
\* of a copy that is current is, and the edit of one that is behind is overwritten by the
\* events still to come.
THEOREM CachesCoherent == Spec => []CacheCoherent
<1>1. Init => PodStream /\ NoFaults /\ CacheCoherent
  BY DEF Init, PodStream, PodCurrent, isDoomed, NoFaults, CacheCoherent
<1>2. Inv /\ PodStream /\ NoFaults /\ CacheCoherent /\ [Next]_vars => CacheCoherent'
  <2> SUFFICES ASSUME Inv, PodStream, NoFaults, CacheCoherent, [Next]_vars, Budget.faults = 0
               PROVE  /\ TAppCurrent' => cachedTApp' = tapp'
                      /\ \A i \in Id : PodCurrent(i)' => cachedPods'[i] = pods'[i]
    BY DEF CacheCoherent
  <2> QED
    BY CachedTAppNext, CachedPodNext DEF NoFaults, CacheCoherent
<1> QED
  BY <1>1, <1>2, InvInit, InvNext, PodStreamNext, NoFaultsNext, PTL DEF Spec
=============================================================================
