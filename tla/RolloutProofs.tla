--------------------------- MODULE RolloutProofs ---------------------------
(***************************************************************************)
(* A rolling update stays within maxUnavailable and replaces an image only *)
(* on a pod that was taken out of service.  First what the stages of a pod *)
(* mean and how an edit moves it, then what one plan of instanceToSync     *)
(* takes, then one lemma for the steps that write pods and one for each    *)
(* part of Sync.                                                           *)
(***************************************************************************)
EXTENDS Rollout, WatchProofs, FiniteSetTheorems

-----------------------------------------------------------------------------
(* The stages *)

isDrained(pod, t) ==
    /\ pod \in Pod /\ pod.tmpl = t /\ pod.run = t.image
    /\ pod.phase = "Running" /\ ~isPodDying(pod)
    /\ pod.gate = "False" /\ pod.ready = "Gate"

\* The versions of pod i, each with its stage
Shape(spec, i, pod) ==
    \/ ~changing(spec, i) /\ pod = InitPods[i] /\ stage(spec, i, pod) = 0
    \/ /\ changing(spec, i)
       /\ \/ /\ pod = InitPods[i] /\ isSettled(pod, origin(i))
             /\ stage(spec, i, pod) = 0
          \/ /\ pod = withGate(InitPods[i], "False") /\ isDrained(pod, origin(i))
             /\ stage(spec, i, pod) = 1
          \/ ~inPlace(spec, i) /\ dyingPod(i, pod) /\ stage(spec, i, pod) = 2
          \/ ~inPlace(spec, i) /\ pod = NoPod /\ stage(spec, i, pod) = 3
          \/ /\ ~inPlace(spec, i) /\ createdPod(spec, i, pod)
             /\ stage(spec, i, pod) = IF pod.ready = "True" THEN 5 ELSE 4
          \/ /\ inPlace(spec, i) /\ updatedPod(spec, i, pod)
             /\ stage(spec, i, pod) = IF pod.ready = "True" THEN 5
                                      ELSE IF pod.run = target(spec, i).image THEN 3 ELSE 2

\* Every stored spec has the same instances, and a template for each
LEMMA SpecFacts ==
    ASSUME RollingUpdate, NEW spec \in StoredSpecs
    PROVE  /\ spec \in TAppSpec
           /\ Instances \subseteq Id
           /\ {i \in Id : i < spec.replicas} \ spec.killed = Instances
           /\ \A i \in Instances :
                /\ origin(i) \in Template /\ target(spec, i) \in Template
                /\ changing(spec, i) => isInRollingUpdate(spec, i)
<1>1. InitTApp.spec \in TAppSpec /\ spec \in TAppSpec
  BY InitAssumption, SpecsAssumption DEF StoredSpecs, TApp
<1>2. isRollingEdit(spec) /\ isRollingEdit(InitTApp.spec)
  BY DEF RollingUpdate, StoredSpecs
<1>3. Instances \subseteq Id /\ {i \in Id : i < spec.replicas} \ spec.killed = Instances
  BY <1>2 DEF Instances, isRollingEdit
<1>4. ASSUME NEW i \in Instances
      PROVE  /\ origin(i) \in Template /\ target(spec, i) \in Template
             /\ changing(spec, i) => isInRollingUpdate(spec, i)
  BY <1>1, <1>2, <1>3, <1>4, PodTemplateType DEF isRollingEdit, origin, target, changing
<1> QED
  BY <1>1, <1>3, <1>4

\* withGate takes a settled pod out of service
LEMMA SettledGate ==
    ASSUME NEW t, NEW pod, isSettled(pod, t)
    PROVE  isDrained(withGate(pod, "False"), t)
BY DEF isSettled, isDrained, withGate, Pod, isPodDying

\* Where a pod is on its track, and with which stage
LEMMA ShapeOf ==
    ASSUME RollingUpdate, NEW spec \in StoredSpecs, NEW i \in Id, NEW pod,
           OnTrack(spec, i, pod)
    PROVE  Shape(spec, i, pod)
<1>1. CASE ~changing(spec, i)
  BY <1>1 DEF OnTrack, Shape, stage
<1>2. CASE changing(spec, i)
  <2>1. /\ i \in Instances /\ target(spec, i) # origin(i)
        /\ isSettled(InitPods[i], origin(i))
    BY <1>2 DEF changing, RollingUpdate
  <2>2. CASE pod = InitPods[i]
    BY <1>2, <2>1, <2>2, NullAssumption DEF Shape, stage, isSettled
  <2>3. CASE pod = withGate(InitPods[i], "False")
    <3>1. isDrained(pod, origin(i))
      BY <2>1, <2>3, SettledGate
    <3> QED
      BY <1>2, <2>3, <3>1, NullAssumption DEF Shape, stage, isDrained
  <2>4. CASE ~inPlace(spec, i) /\ pod = NoPod
    BY <1>2, <2>4 DEF Shape, stage
  <2>5. CASE ~inPlace(spec, i) /\ dyingPod(i, pod)
    BY <1>2, <2>5, NullAssumption DEF Shape, stage, dyingPod
  <2>6. CASE ~inPlace(spec, i) /\ createdPod(spec, i, pod)
    BY <1>2, <2>1, <2>6, NullAssumption DEF Shape, stage, createdPod
  <2>7. CASE inPlace(spec, i) /\ updatedPod(spec, i, pod)
    BY <1>2, <2>1, <2>7, NullAssumption DEF Shape, stage, updatedPod
  <2> QED
    BY <1>2, <2>2, <2>3, <2>4, <2>5, <2>6, <2>7 DEF OnTrack
<1> QED
  BY <1>1, <1>2

\* Stages go from 0 to 5
LEMMA StageRange ==
    ASSUME NEW spec, NEW i, NEW pod
    PROVE  stage(spec, i, pod) \in 0 .. 5
BY DEF stage

\* The order of the versions is transitive
LEMMA Later ==
    ASSUME NEW spec, NEW i, NEW p, NEW q, NEW r
    PROVE  /\ UpTo(spec, i, p, p)
           /\ UpTo(spec, i, p, q) /\ Precedes(spec, i, q, r) => Precedes(spec, i, p, r)
           /\ Precedes(spec, i, p, q) /\ UpTo(spec, i, q, r) => Precedes(spec, i, p, r)
           /\ UpTo(spec, i, p, q) /\ UpTo(spec, i, q, r) => UpTo(spec, i, p, r)
           /\ UpTo(spec, i, p, q) => stage(spec, i, p) <= stage(spec, i, q)
BY StageRange DEF UpTo, Precedes

-----------------------------------------------------------------------------
(* How an edit moves a pod *)

\* A pod that was taken and has still to come back goes on to a version that is no nearer
\* than that, unless it was already being brought back
Moves(spec, i, p, q) ==
    /\ q \in Pod \cup {NoPod} /\ OnTrack(spec, i, q)
    /\ stage(spec, i, p) >= 1 /\ Precedes(spec, i, p, q)
    /\ stage(spec, i, p) <= 3 => stage(spec, i, q) <= 3

\* What a write of the readiness gate does to a version of a pod
LEMMA GateEdit ==
    ASSUME RollingUpdate, NEW spec \in StoredSpecs, NEW i \in Id, changing(spec, i),
           NEW p, OnTrack(spec, i, p), p # NoPod, NEW g \in {"True", "False"}, p.gate # g,
           g = "False" => stage(spec, i, p) <= 3,
           g = "True" => isThrough(spec, i, p)
    PROVE  LET q == withGate(p, g)
           IN  /\ q \in Pod /\ OnTrack(spec, i, q)
               /\ Precedes(spec, i, p, q) /\ Precedes(spec, i, q, q)
               /\ \A r : Precedes(spec, i, p, r) => Precedes(spec, i, q, r)
               /\ g = "False" => stage(spec, i, q) <= 3
               /\ stage(spec, i, q) >= 4 => stage(spec, i, p) >= 3
<1> DEFINE q == withGate(p, g)
<1>1. Shape(spec, i, p)
  BY ShapeOf
<1>2. /\ i \in Instances /\ target(spec, i) # origin(i)
  BY DEF changing
<1> SUFFICES /\ q \in Pod /\ OnTrack(spec, i, q)
             /\ \/ stage(spec, i, p) = 0 /\ stage(spec, i, q) = 1
                \/ /\ stage(spec, i, q) = stage(spec, i, p) /\ ~inPlace(spec, i)
                   /\ stage(spec, i, p) \in {2, 4} /\ (g = "False" => stage(spec, i, p) = 2)
                \/ g = "True" /\ stage(spec, i, p) = 3 /\ inPlace(spec, i)
                   /\ stage(spec, i, q) = 5
  BY StageRange DEF Precedes
<1>3. CASE p = InitPods[i] /\ isSettled(p, origin(i)) /\ stage(spec, i, p) = 0
  <2>1. g = "False"
    BY <1>3 DEF isSettled
  <2>2. isDrained(q, origin(i)) /\ OnTrack(spec, i, q)
    BY <1>3, <2>1, SettledGate DEF OnTrack
  <2>3. stage(spec, i, q) = 1
    BY <2>2, NullAssumption DEF isDrained, stage
  <2> QED
    BY <1>3, <2>2, <2>3 DEF isDrained
<1>4. CASE isDrained(p, origin(i)) /\ stage(spec, i, p) = 1
  BY <1>4 DEF isDrained, isThrough
<1>5. CASE ~inPlace(spec, i) /\ dyingPod(i, p) /\ stage(spec, i, p) = 2
  <2>1. q \in Pod /\ dyingPod(i, q)
    BY <1>5 DEF dyingPod, withGate, Pod, isPodDying
  <2>2. OnTrack(spec, i, q) /\ stage(spec, i, q) = 2
    BY <1>2, <1>5, <2>1, NullAssumption DEF OnTrack, stage, changing, dyingPod
  <2> QED
    BY <1>5, <2>1, <2>2
<1>6. CASE /\ ~inPlace(spec, i) /\ createdPod(spec, i, p)
           /\ stage(spec, i, p) = IF p.ready = "True" THEN 5 ELSE 4
  <2>1. g = "True" /\ p.ready # "True" /\ p.ready # "Gate"
    BY <1>6 DEF createdPod
  <2>2. q \in Pod /\ createdPod(spec, i, q) /\ q.ready # "True"
    BY <1>6, <2>1 DEF createdPod, withGate, Pod, isPodDying
  <2>3. OnTrack(spec, i, q) /\ stage(spec, i, q) = 4
    BY <1>2, <1>6, <2>2, NullAssumption DEF OnTrack, stage, changing, createdPod
  <2> QED
    BY <1>6, <2>1, <2>2, <2>3
<1>7. CASE /\ inPlace(spec, i) /\ updatedPod(spec, i, p)
           /\ stage(spec, i, p) = IF p.ready = "True" THEN 5
                                  ELSE IF p.run = target(spec, i).image THEN 3 ELSE 2
  <2>1. g = "True" /\ p.ready = "Gate" /\ p.run = target(spec, i).image
    BY <1>7 DEF updatedPod, isThrough
  <2>2. q \in Pod /\ updatedPod(spec, i, q) /\ q.ready = "True"
    BY <1>7, <2>1 DEF updatedPod, withGate, Pod, isPodDying
  <2>3. OnTrack(spec, i, q) /\ stage(spec, i, q) = 5
    BY <1>2, <1>7, <2>2, NullAssumption DEF OnTrack, stage, changing, updatedPod
  <2> QED
    BY <1>7, <2>1, <2>2, <2>3
<1> HIDE DEF q
<1> QED
  BY <1>1, <1>3, <1>4, <1>5, <1>6, <1>7 DEF Shape

\* What the kubelet reports only moves a pod forward
LEMMA KubeletEdit ==
    ASSUME RollingUpdate, NEW spec \in StoredSpecs, NEW i \in Id,
           NEW p, OnTrack(spec, i, p), p # NoPod, ~isPodDying(p), NEW q,
           \/ /\ p.phase = "Pending"
              /\ q = [p EXCEPT !.phase = "Running", !.run = p.tmpl.image,
                               !.ready = readyWith(p.gate)]
           \/ /\ p.phase = "Running" /\ p.run # p.tmpl.image /\ p.run # "pulling"
              /\ q = [p EXCEPT !.run = "pulling", !.ready = "False"]
           \/ /\ p.phase = "Running" /\ p.run # p.tmpl.image
              /\ q = [p EXCEPT !.run = p.tmpl.image, !.ready = readyWith(p.gate)]
           \/ /\ p.phase = "Running" /\ p.run = p.tmpl.image /\ p.ready # readyWith(p.gate)
              /\ q = [p EXCEPT !.ready = readyWith(p.gate)]
    PROVE  Moves(spec, i, p, q)
<1>1. Shape(spec, i, p)
  BY ShapeOf
<1>2. isSettled(p, p.tmpl) => FALSE
  BY DEF isSettled, readyWith
<1>3. CASE ~changing(spec, i)
  <2>1. p = InitPods[i]
    BY <1>1, <1>3 DEF Shape
  <2>2. isSettled(p, p.tmpl)
    BY <2>1 DEF RollingUpdate, isSettled
  <2> QED
    BY <1>2, <2>2
<1>4. CASE isSettled(p, origin(i))
  BY <1>2, <1>4 DEF isSettled
<1>5. CASE isDrained(p, origin(i))
  BY <1>5 DEF isDrained, readyWith
<1>6. CASE /\ changing(spec, i) /\ ~inPlace(spec, i) /\ createdPod(spec, i, p)
           /\ stage(spec, i, p) = IF p.ready = "True" THEN 5 ELSE 4
  <2>1. /\ i \in Instances /\ target(spec, i) # origin(i) /\ target(spec, i) \in Template
    BY <1>6, SpecFacts DEF changing
  <2>2. readyWith(p.gate) = IF p.gate = "True" THEN "True" ELSE "False"
    BY <1>6 DEF createdPod, Pod, readyWith
  <2>3. q \in Pod /\ createdPod(spec, i, q) /\ (p.ready = "True" => q.ready = "True")
    <3>1. CASE /\ p.phase = "Pending"
               /\ q = [p EXCEPT !.phase = "Running", !.run = p.tmpl.image,
                                !.ready = readyWith(p.gate)]
      <4>1. q \in Pod /\ q.tmpl = p.tmpl /\ q.phase = "Running" /\ q.run = p.tmpl.image
            /\ q.ready = readyWith(p.gate) /\ q.gate = p.gate /\ ~isPodDying(q) /\ ~q.inPlace
        BY <1>6, <2>1, <3>1 DEF createdPod, Pod, isPodDying, readyWith, Template
      <4> QED
        BY <1>6, <2>2, <3>1, <4>1 DEF createdPod
    <3>2. CASE p.phase = "Running" /\ q = [p EXCEPT !.ready = readyWith(p.gate)]
      <4>1. q \in Pod /\ q.tmpl = p.tmpl /\ q.phase = "Running" /\ q.run = p.run
            /\ q.ready = readyWith(p.gate) /\ q.gate = p.gate /\ ~isPodDying(q) /\ ~q.inPlace
        BY <1>6, <2>1, <3>2 DEF createdPod, Pod, isPodDying, readyWith
      <4> QED
        BY <1>6, <2>2, <3>2, <4>1 DEF createdPod
    <3>3. p.phase = "Running" => p.run = p.tmpl.image
      BY <1>6 DEF createdPod
    <3> QED
      BY <3>1, <3>2, <3>3
  <2>4. OnTrack(spec, i, q) /\ stage(spec, i, q) = IF q.ready = "True" THEN 5 ELSE 4
    BY <1>6, <2>1, <2>3, NullAssumption DEF OnTrack, stage, createdPod
  <2> QED
    BY <1>6, <2>3, <2>4 DEF Moves, Precedes
<1>7. CASE /\ changing(spec, i) /\ inPlace(spec, i) /\ updatedPod(spec, i, p)
           /\ stage(spec, i, p) = IF p.ready = "True" THEN 5
                                  ELSE IF p.run = target(spec, i).image THEN 3 ELSE 2
  <2>1. /\ i \in Instances /\ target(spec, i) # origin(i) /\ target(spec, i) \in Template
    BY <1>7, SpecFacts DEF changing
  <2>2. target(spec, i).image \notin {"none", "pulling"}
    BY <2>1, ImagesAssumption DEF Template
  <2>3. p.gate = "False" /\ p.ready # "True" /\ p.run # target(spec, i).image
    BY <1>7 DEF updatedPod, readyWith
  <2>4. q \in Pod /\ updatedPod(spec, i, q) /\ q.ready # "True"
    <3>1. CASE q = [p EXCEPT !.run = "pulling", !.ready = "False"]
      BY <1>7, <2>2, <2>3, <3>1 DEF updatedPod, Pod, isPodDying
    <3>2. CASE q = [p EXCEPT !.run = p.tmpl.image, !.ready = readyWith(p.gate)]
      <4>1. readyWith(p.gate) = "Gate"
        BY <2>3 DEF readyWith
      <4>2. p.tmpl.image \in Images
        BY <1>7, <2>1 DEF updatedPod, Template
      <4> QED
        BY <1>7, <2>2, <2>3, <3>2, <4>1, <4>2 DEF updatedPod, Pod, isPodDying
    <3>3. p.phase = "Running" /\ p.run # p.tmpl.image
      BY <1>7, <2>3 DEF updatedPod
    <3> QED
      BY <3>1, <3>2, <3>3
  <2>5. OnTrack(spec, i, q) /\ stage(spec, i, q) \in {2, 3}
    BY <1>7, <2>1, <2>4, NullAssumption DEF OnTrack, stage, updatedPod
  <2> QED
    BY <1>7, <2>3, <2>4, <2>5 DEF Moves, Precedes
<1>8. ~dyingPod(i, p)
  BY DEF dyingPod
<1> QED
  BY <1>1, <1>3, <1>4, <1>5, <1>6, <1>7, <1>8 DEF Shape

\* So does the end of a pod that is being deleted
LEMMA RemoveEdit ==
    ASSUME RollingUpdate, NEW spec \in StoredSpecs, NEW i \in Id,
           NEW p, OnTrack(spec, i, p), p # NoPod, isPodDying(p)
    PROVE  Moves(spec, i, p, NoPod)
<1>1. Shape(spec, i, p)
  BY ShapeOf
<1>2. changing(spec, i) /\ ~inPlace(spec, i) /\ stage(spec, i, p) = 2
  BY <1>1 DEF Shape, isSettled, isDrained, createdPod, updatedPod, RollingUpdate
<1> QED
  BY <1>2 DEF Moves, Precedes, OnTrack, stage

\* A pod made by createInstance comes after the one that is gone
LEMMA CreateEdit ==
    ASSUME RollingUpdate, NEW spec \in StoredSpecs, NEW i \in Id,
           changing(spec, i), ~inPlace(spec, i)
    PROVE  LET q == [tmpl |-> target(spec, i), phase |-> "Pending", dying |-> FALSE,
                     gate |-> "None", ready |-> "None", run |-> "none", inPlace |-> FALSE]
           IN  /\ q \in Pod /\ OnTrack(spec, i, q)
               /\ stage(spec, i, NoPod) = 3 /\ stage(spec, i, q) = 4
<1> DEFINE q == [tmpl |-> target(spec, i), phase |-> "Pending", dying |-> FALSE,
                 gate |-> "None", ready |-> "None", run |-> "none", inPlace |-> FALSE]
<1>1. /\ i \in Instances /\ target(spec, i) # origin(i) /\ target(spec, i) \in Template
  BY SpecFacts DEF changing
<1>2. q \in Pod /\ createdPod(spec, i, q) /\ q.ready # "True"
  BY <1>1 DEF createdPod, Pod, isPodDying
<1> HIDE DEF q
<1>3. OnTrack(spec, i, q) /\ stage(spec, i, q) = 4 /\ stage(spec, i, NoPod) = 3
  BY <1>1, <1>2, NullAssumption DEF OnTrack, stage, createdPod
<1> QED
  BY <1>2, <1>3 DEF q

\* A delete moves a pod forward that was taken out of service
LEMMA DeleteEdit ==
    ASSUME RollingUpdate, NEW spec \in StoredSpecs, NEW i \in Id,
           changing(spec, i), ~inPlace(spec, i),
           NEW p, OnTrack(spec, i, p), p # NoPod, stage(spec, i, p) \in 1 .. 3
    PROVE  Moves(spec, i, p, [p EXCEPT !.dying = TRUE])
<1> DEFINE q == [p EXCEPT !.dying = TRUE]
<1>1. Shape(spec, i, p)
  BY ShapeOf
<1>2. isDrained(p, origin(i)) \/ dyingPod(i, p)
  BY <1>1 DEF Shape
<1>3. q \in Pod /\ dyingPod(i, q)
  BY <1>2 DEF isDrained, dyingPod, Pod, isPodDying
<1> HIDE DEF q
<1>4. OnTrack(spec, i, q) /\ stage(spec, i, q) = 2 /\ stage(spec, i, p) <= 2
  BY <1>1, <1>2, <1>3, NullAssumption DEF OnTrack, stage, dyingPod, isDrained
<1> QED
  BY <1>3, <1>4 DEF Moves, Precedes, q

\* So does the merge of the new template by an update in place
LEMMA MergeEdit ==
    ASSUME RollingUpdate, NEW spec \in StoredSpecs, NEW i \in Id,
           changing(spec, i), inPlace(spec, i),
           NEW p, OnTrack(spec, i, p), stage(spec, i, p) \in 1 .. 3
    PROVE  LET q == [p EXCEPT !.tmpl = target(spec, i), !.inPlace = TRUE]
           IN  q = p \/ Moves(spec, i, p, q)
<1> DEFINE q == [p EXCEPT !.tmpl = target(spec, i), !.inPlace = TRUE]
<1>1. Shape(spec, i, p)
  BY ShapeOf
<1>2. /\ i \in Instances /\ target(spec, i) # origin(i) /\ target(spec, i) \in Template
      /\ origin(i) \in Template
  BY SpecFacts DEF changing
<1>3. CASE isDrained(p, origin(i)) /\ stage(spec, i, p) = 1
  <2>1. origin(i).image # "none"
    BY <1>2, ImagesAssumption DEF Template
  <2>2. q \in Pod /\ updatedPod(spec, i, q) /\ q.ready = "Gate"
    BY <1>2, <1>3, <2>1 DEF isDrained, updatedPod, Pod, isPodDying
  <2> HIDE DEF q
  <2>3. OnTrack(spec, i, q) /\ stage(spec, i, q) \in {2, 3}
    BY <1>2, <2>2, NullAssumption DEF OnTrack, stage, updatedPod
  <2>4. Moves(spec, i, p, q)
    BY <1>3, <2>2, <2>3 DEF Moves, Precedes
  <2> QED
    BY <2>4 DEF q
<1>4. CASE updatedPod(spec, i, p)
  <2>1. q = p
    BY <1>4 DEF updatedPod, Pod
  <2> QED
    BY <2>1
<1> QED
  BY <1>1, <1>3, <1>4 DEF Shape

-----------------------------------------------------------------------------
(* What one plan takes *)

\* The instances whose pod still has the old template
outdated(spec, seen) ==
    {i \in Id : changing(spec, i) /\ stage(spec, i, seen[i]) <= 1}

\* The desired instances are the ones of the edit
LEMMA RollRunning ==
    ASSUME RollingUpdate, NEW a \in TApp, a.spec \in StoredSpecs, hasNoResult(a)
    PROVE  /\ desiredRunning(a) = Instances
           /\ \A i \in Instances : ~(i >= a.spec.replicas \/ i \in desiredCompleted(a))
<1>1. {i \in Id : a.status.statuses[i] \in {"Failed", "Succ"}} = {}
  BY DEF hasNoResult
<1>2. desiredCompleted(a) = a.spec.killed
  BY <1>1 DEF desiredCompleted
<1>3. {i \in Id : i < a.spec.replicas} \ a.spec.killed = Instances
  BY SpecFacts
<1>4. \A i \in Instances : i \in Id /\ i < a.spec.replicas /\ i \notin a.spec.killed
  BY <1>3
<1>5. a.spec.replicas \in Int /\ \A i \in Id : i \in Int
  BY MaxReplicasAssumption, SpecFacts DEF TAppSpec, Id
<1> QED
  BY <1>2, <1>3, <1>4, <1>5 DEF desiredRunning

\* getNextActionsForPods updates or recreates exactly the outdated pods, creates only what
\* is gone, and deletes only what is dying already
LEMMA RollAction ==
    ASSUME RollingUpdate, NEW a \in TApp, a.spec \in StoredSpecs, hasNoResult(a),
           NEW seen \in PodMap, NEW i \in Id, OnTrack(a.spec, i, seen[i]),
           NEW act, act = getNextActionsForPods(a, seen)[i]
    PROVE  /\ act = "CREATE" => changing(a.spec, i) /\ ~inPlace(a.spec, i) /\ seen[i] = NoPod
           /\ act = "DELETE" => seen[i] # NoPod /\ isPodDying(seen[i])
           /\ act \in {"UPDATE", "RECREATE"} <=> i \in outdated(a.spec, seen)
           /\ act = "UPDATE" => inPlace(a.spec, i)
           /\ act = "RECREATE" => ~inPlace(a.spec, i)
<1> DEFINE pod == seen[i]
<1>1. Shape(a.spec, i, pod)
  BY ShapeOf
<1>2. desiredRunning(a) = Instances
  BY RollRunning
<1>3. CASE i \notin Instances
  <2>1. ~changing(a.spec, i) /\ pod = NoPod
    BY <1>1, <1>3 DEF changing, Shape, RollingUpdate
  <2>2. act = "NONE"
    BY <1>2, <1>3, <2>1 DEF getNextActionsForPods
  <2> QED
    BY <2>1, <2>2 DEF outdated
<1>4. CASE i \in Instances
  <2>1. act = syncRunningPod(a.spec, i, pod)
    BY <1>2, <1>4, RollRunning DEF getNextActionsForPods
  <2>2. /\ target(a.spec, i) \in Template /\ target(a.spec, i) # NoTemplate
        /\ isSettled(InitPods[i], origin(i))
    BY <1>4, SpecFacts, NullAssumption DEF RollingUpdate
  <2>3. ASSUME pod \in Pod, ~isPodDying(pod), pod.phase \in {"Pending", "Running"},
               pod.tmpl = target(a.spec, i)
        PROVE  act = "NONE"
    BY <2>1, <2>2, <2>3, NullAssumption
       DEF syncRunningPod, isPodCompleted, isTemplateHashChanged, TemplateHash, target
  <2>4. ASSUME pod \in Pod, ~isPodDying(pod), pod.phase = "Running", pod.tmpl = origin(i),
               changing(a.spec, i)
        PROVE  act = IF inPlace(a.spec, i) THEN "UPDATE" ELSE "RECREATE"
    BY <2>1, <2>2, <2>4, NullAssumption
       DEF syncRunningPod, isPodCompleted, isTemplateHashChanged, TemplateHash,
           isUniqHashChanged, target, changing, inPlace
  <2>5. CASE ~changing(a.spec, i)
    <3>1. pod = InitPods[i] /\ target(a.spec, i) = origin(i)
      BY <1>1, <1>4, <2>5 DEF Shape, changing
    <3>2. act = "NONE"
      BY <2>2, <2>3, <3>1 DEF isSettled
    <3> QED
      BY <2>5, <3>2 DEF outdated
  <2>6. CASE changing(a.spec, i) /\ (isSettled(pod, origin(i)) \/ isDrained(pod, origin(i)))
             /\ stage(a.spec, i, pod) <= 1
    BY <2>4, <2>6 DEF isSettled, isDrained, outdated
  <2>7. CASE dyingPod(i, pod) /\ stage(a.spec, i, pod) = 2
    <3>1. act = "DELETE"
      BY <2>1, <2>7, NullAssumption DEF syncRunningPod, dyingPod
    <3> QED
      BY <2>7, <3>1, NullAssumption DEF outdated, dyingPod
  <2>8. CASE pod = NoPod /\ ~inPlace(a.spec, i) /\ changing(a.spec, i)
             /\ stage(a.spec, i, pod) = 3
    <3>1. act = "CREATE"
      BY <2>1, <2>8 DEF syncRunningPod
    <3> QED
      BY <2>8, <3>1 DEF outdated
  <2>9. CASE (createdPod(a.spec, i, pod) \/ updatedPod(a.spec, i, pod))
             /\ stage(a.spec, i, pod) \in 2 .. 5
    <3>1. act = "NONE"
      BY <2>3, <2>9 DEF createdPod, updatedPod
    <3> QED
      BY <2>9, <3>1 DEF outdated
  <2> HIDE DEF pod
  <2> QED
    BY <1>1, <2>5, <2>6, <2>7, <2>8, <2>9 DEF Shape
<1> QED
  BY <1>3, <1>4

\* A plan takes what the rolling pass picks, nothing by force, and creates what is gone
LEMMA RollPlan ==
    ASSUME RollingUpdate, NEW a \in TApp, a.spec \in StoredSpecs, hasNoResult(a),
           NEW seen \in PodMap, \A i \in Id : OnTrack(a.spec, i, seen[i]),
           NEW p \in instanceToSync(a, seen, {})
    PROVE  LET picked == RollPick(outdated(a.spec, seen), getAvailablePods(seen, Instances),
                                  Cardinality(Instances) - allowed(a.spec))
           IN  /\ p.forceDel = {}
               /\ \A i \in p.add : /\ i \in Id /\ seen[i] = NoPod
                                   /\ changing(a.spec, i) /\ ~inPlace(a.spec, i)
               /\ p.del = {i \in picked : ~inPlace(a.spec, i)}
               /\ p.update = {i \in picked : inPlace(a.spec, i)}
<1> DEFINE acts    == getNextActionsForPods(a, seen)
           changed == {i \in Id : acts[i] \in {"UPDATE", "RECREATE"}}
           A       == getAvailablePods(seen, Instances)
           min     == Cardinality(Instances) - allowed(a.spec)
           picked  == RollPick(outdated(a.spec, seen), A, min)
<1>1. \A i \in Id :
        /\ acts[i] = "CREATE" => /\ changing(a.spec, i) /\ ~inPlace(a.spec, i)
                                 /\ seen[i] = NoPod
        /\ acts[i] = "DELETE" => seen[i] # NoPod /\ isPodDying(seen[i])
        /\ acts[i] \in {"UPDATE", "RECREATE"} <=> i \in outdated(a.spec, seen)
        /\ acts[i] = "UPDATE" => inPlace(a.spec, i)
        /\ acts[i] = "RECREATE" => ~inPlace(a.spec, i)
  BY RollAction
<1>2. changed = outdated(a.spec, seen)
  BY <1>1 DEF outdated
<1>3. {i \in changed : isInRollingUpdate(a.spec, i)} = changed
  BY <1>2, SpecFacts DEF outdated, changing
<1>4. A \ {i \in Id : acts[i] = "DELETE"} = A
  BY <1>1 DEF getAvailablePods, isPodInActive
<1>5. /\ setDefaultValue(a.spec).forceMaxUnavailable.kind # "bad"
      /\ setDefaultValue(a.spec).maxUnavailable.kind # "bad"
  BY DEF RollingUpdate, isStored
<1>6. PICK C \in pickedUpdates(a.spec, acts, seen, Instances) :
        p = planWith(a.spec, acts, seen, {}, C)
  BY RollRunning DEF instanceToSync, transformPodActions
<1> HIDE DEF acts
<1>7. C = picked
  <2>1. \A X, m : ForcePick({}, X, m) \subseteq {{}}
    BY DEF ForcePick
  <2>2. changed \ changed = {} /\ A \ {} = A
    OBVIOUS
  <2> DEFINE force == setDefaultValue(a.spec).forceMaxUnavailable
             m == Cardinality(Instances) - scaledValue(force, Cardinality(Instances))
  <2>3. C \in {F \cup RollPick(changed, A \ F, min) : F \in ForcePick(changed \ changed, A, m)}
    <3> DEFINE rolling   == {i \in changed : isInRollingUpdate(a.spec, i)}
               available == A \ {i \in Id : acts[i] = "DELETE"}
    <3>1. pickedUpdates(a.spec, acts, seen, Instances) =
            {F \cup RollPick(rolling, available \ F, min)
               : F \in ForcePick(changed \ rolling, available, m)}
      BY <1>5 DEF pickedUpdates, allowed
    <3>2. rolling = changed /\ available = A
      BY <1>3, <1>4
    <3> HIDE DEF rolling, available
    <3> QED
      BY <1>6, <3>1, <3>2
  <2> HIDE DEF A, m, changed
  <2>4. C = {} \cup RollPick(changed, A \ {}, min)
    BY <2>1, <2>2, <2>3
  <2> QED
    BY <1>2, <2>2, <2>4
<1>8. toForceDelete(a.spec, acts, seen, {}) = {}
  BY DEF toForceDelete, needForceDelete
<1>9. picked \subseteq outdated(a.spec, seen) /\ outdated(a.spec, seen) \subseteq Id
  BY DEF RollPick, outdated
<1>10. p.forceDel = {} /\ p.add = toCreate(a.spec, acts)
  BY <1>6, <1>8 DEF planWith
<1>11. p.del = {i \in picked : ~inPlace(a.spec, i)}
  <2> HIDE DEF picked
  <2>1. {i \in Id \ {} : acts[i] = "DELETE" /\ ~isPodDying(seen[i])} = {}
    BY <1>1
  <2>2. p.del = {i \in C : acts[i] = "RECREATE"}
    BY <1>6, <1>8, <2>1 DEF planWith
  <2> QED
    BY <1>1, <1>7, <1>9, <2>2
<1>12. p.update = {i \in picked : inPlace(a.spec, i)}
  <2> HIDE DEF picked
  <2>1. p.update = {i \in C : acts[i] = "UPDATE"}
    BY <1>6 DEF planWith
  <2> QED
    BY <1>1, <1>7, <1>9, <2>1
<1> QED
  BY <1>1, <1>10, <1>11, <1>12 DEF toCreate

-----------------------------------------------------------------------------
(* Writes and deliveries of pods *)

\* Pod i is written as q while its cached copy becomes c
LEMMA WriteRolls ==
    ASSUME Inv, PodsOnTrack, PodsForward, tapp'.spec = tapp.spec,
           NEW i \in Id, NEW q \in Pod \cup {NoPod}, WritePod(i, q),
           NEW c, cachedPods' = [cachedPods EXCEPT ![i] = c], OnTrack(tapp.spec, i, c),
           q # pods[i] => OnTrack(tapp.spec, i, q) /\ Precedes(tapp.spec, i, pods[i], q)
                          /\ Precedes(tapp.spec, i, c, q),
           UpTo(tapp.spec, i, c, q),
           \A k \in DOMAIN podEvents :
              podEvents[k].id = i => Precedes(tapp.spec, i, c, podEvents[k].pod),
           PodCurrent(i) /\ q = pods[i] => c = q,
           stage(tapp.spec, i, q) >= 4 => stage(tapp.spec, i, c) >= 3
    PROVE  PodsOnTrack' /\ PodsForward'
<1> DEFINE s == tapp.spec
           n == Len(podEvents)
<1>1. /\ \A j \in Id : pods'[j] = IF j = i THEN q ELSE pods[j]
      /\ n \in Nat /\ DOMAIN podEvents = 1 .. n
      /\ \A k \in DOMAIN podEvents : podEvents[k] \in PodEvent /\ podEvents[k].id \in Id
      /\ q # pods[i] =>
           /\ DOMAIN podEvents' = 1 .. n + 1
           /\ \A k \in 1 .. n : podEvents'[k] = podEvents[k]
           /\ podEvents'[n + 1].id = i /\ podEvents'[n + 1].pod = q
      /\ q = pods[i] => podEvents' = podEvents
  BY Appended DEF Inv
<1>2. \A j \in Id : cachedPods'[j] = IF j = i THEN c ELSE cachedPods[j]
  BY DEF Inv, TypeOK, PodMap
<1>3. \A j \in Id : PodCurrent(j)' => PodCurrent(j) /\ pods'[j] = pods[j]
  BY WritePodKeeps DEF Inv
<1>4. ASSUME NEW j \in Id
      PROVE  /\ OnTrack(s, j, pods'[j]) /\ OnTrack(s, j, cachedPods'[j])
             /\ UpTo(s, j, cachedPods'[j], pods'[j]) /\ UpTo(s, j, pods[j], pods'[j])
             /\ PodCurrent(j)' => cachedPods'[j] = pods'[j]
             /\ stage(s, j, pods'[j]) >= 4 => stage(s, j, cachedPods'[j]) >= 3
  <2>1. CASE j = i
    BY <1>1, <1>2, <1>3, <2>1 DEF PodsOnTrack, UpTo
  <2>2. CASE j # i
    BY <1>1, <1>2, <1>3, <2>2 DEF PodsOnTrack, PodsForward, UpTo
  <2> QED
    BY <2>1, <2>2
<1>5. ASSUME NEW k \in DOMAIN podEvents
      PROVE  /\ podEvents[k].id \in Id
             /\ OnTrack(s, podEvents[k].id, podEvents[k].pod)
             /\ Precedes(s, podEvents[k].id, cachedPods'[podEvents[k].id], podEvents[k].pod)
             /\ UpTo(s, podEvents[k].id, podEvents[k].pod, pods'[podEvents[k].id])
             /\ \A m \in DOMAIN podEvents : m > k /\ podEvents[m].id = podEvents[k].id =>
                  Precedes(s, podEvents[k].id, podEvents[k].pod, podEvents[m].pod)
  <2>1. podEvents[k].id \in Id
    BY <1>1
  <2>2. UpTo(s, podEvents[k].id, podEvents[k].pod, pods[podEvents[k].id])
    BY DEF PodsForward
  <2>3. UpTo(s, podEvents[k].id, podEvents[k].pod, pods'[podEvents[k].id])
    BY <1>4, <2>1, <2>2, Later
  <2>4. Precedes(s, podEvents[k].id, cachedPods'[podEvents[k].id], podEvents[k].pod)
    BY <1>2, <2>1 DEF PodsForward
  <2> QED
    BY <2>1, <2>3, <2>4 DEF PodsOnTrack, PodsForward
<1>6. CASE q = pods[i]
  <2>1. podEvents' = podEvents
    BY <1>1, <1>6
  <2> QED
    BY <1>4, <1>5, <2>1 DEF PodsOnTrack, PodsForward
<1>7. CASE q # pods[i]
  <2>1. /\ DOMAIN podEvents' = 1 .. n + 1
        /\ \A k \in 1 .. n : podEvents'[k] = podEvents[k]
        /\ podEvents'[n + 1].id = i /\ podEvents'[n + 1].pod = q
    BY <1>1, <1>7
  <2>2. ASSUME NEW k \in 1 .. n, podEvents[k].id = i
        PROVE  Precedes(s, i, podEvents[k].pod, q)
    <3>1. UpTo(s, i, podEvents[k].pod, pods[i])
      BY <1>1, <2>2 DEF PodsForward
    <3> QED
      BY <1>7, <3>1, Later
  <2>3. pods'[i] = q /\ cachedPods'[i] = c /\ UpTo(s, i, q, q)
    BY <1>1, <1>2, Later
  <2>4. ASSUME NEW k \in DOMAIN podEvents'
        PROVE  /\ OnTrack(s, podEvents'[k].id, podEvents'[k].pod)
               /\ Precedes(s, podEvents'[k].id, cachedPods'[podEvents'[k].id], podEvents'[k].pod)
               /\ UpTo(s, podEvents'[k].id, podEvents'[k].pod, pods'[podEvents'[k].id])
               /\ \A m \in DOMAIN podEvents' : m > k /\ podEvents'[m].id = podEvents'[k].id =>
                    Precedes(s, podEvents'[k].id, podEvents'[k].pod, podEvents'[m].pod)
    <3>1. CASE k = n + 1
      <4>1. \A m \in DOMAIN podEvents' : ~(m > k)
        BY <1>1, <2>1, <3>1
      <4> QED
        BY <1>7, <2>1, <2>3, <3>1, <4>1
    <3>2. CASE k \in 1 .. n
      <4>1. podEvents'[k] = podEvents[k] /\ k \in DOMAIN podEvents
        BY <1>1, <2>1, <3>2
      <4>2. ASSUME NEW m \in DOMAIN podEvents', m > k, podEvents'[m].id = podEvents[k].id
            PROVE  Precedes(s, podEvents[k].id, podEvents[k].pod, podEvents'[m].pod)
        <5>1. CASE m = n + 1
          BY <2>1, <2>2, <3>2, <4>2, <5>1
        <5>2. CASE m \in 1 .. n
          BY <1>1, <1>5, <2>1, <4>1, <4>2, <5>2
        <5> QED
          BY <1>1, <2>1, <5>1, <5>2
      <4> QED
        BY <1>5, <4>1, <4>2
    <3> QED
      BY <1>1, <2>1, <3>1, <3>2
  <2> QED
    BY <1>4, <2>4 DEF PodsOnTrack, PodsForward
<1> QED
  BY <1>6, <1>7

\* The informer moves its copy of a pod forward
LEMMA DeliverRolls ==
    ASSUME Inv, PodsOnTrack, PodsForward, DeliverPod
    PROVE  /\ PodsOnTrack' /\ PodsForward'
           /\ \A j \in Id : UpTo(tapp.spec, j, cachedPods[j], cachedPods'[j])
<1> DEFINE s == tapp.spec
<1>1. PICK n \in Nat :
        /\ DOMAIN podEvents = 1 .. n + 1 /\ DOMAIN podEvents' = 1 .. n
        /\ \A k \in 1 .. n : podEvents'[k] = podEvents[k + 1]
        /\ \A k \in 1 .. n + 1 : podEvents[k].id \in Id
        /\ \A j \in Id : cachedPods'[j] = IF j = podEvents[1].id THEN podEvents[1].pod
                                                               ELSE cachedPods[j]
  BY Delivered DEF Inv
<1>2. tapp' = tapp /\ pods' = pods /\ 1 \in DOMAIN podEvents
  BY <1>1 DEF DeliverPod, cluster
<1>3. ASSUME NEW j \in Id
      PROVE  /\ OnTrack(s, j, pods[j]) /\ OnTrack(s, j, cachedPods'[j])
             /\ UpTo(s, j, cachedPods'[j], pods[j]) /\ UpTo(s, j, cachedPods[j], cachedPods'[j])
             /\ stage(s, j, pods[j]) >= 4 => stage(s, j, cachedPods'[j]) >= 3
  <2>1. CASE j = podEvents[1].id
    <3>1. /\ cachedPods'[j] = podEvents[1].pod
          /\ Precedes(s, j, cachedPods[j], cachedPods'[j])
          /\ UpTo(s, j, cachedPods'[j], pods[j]) /\ OnTrack(s, j, cachedPods'[j])
      BY <1>1, <1>2, <2>1 DEF PodsForward, PodsOnTrack
    <3>2. stage(s, j, cachedPods[j]) <= stage(s, j, cachedPods'[j])
      BY <3>1 DEF Precedes
    <3> QED
      BY <3>1, <3>2, StageRange DEF PodsForward, PodsOnTrack, UpTo
  <2>2. CASE j # podEvents[1].id
    BY <1>1, <2>2 DEF PodsForward, PodsOnTrack, UpTo
  <2> QED
    BY <2>1, <2>2
<1>4. ASSUME NEW j \in Id, PodCurrent(j)'
      PROVE  cachedPods'[j] = pods[j]
  <2>1. \A k \in 2 .. n + 1 : podEvents[k].id # j
    <3> SUFFICES ASSUME NEW k \in 2 .. n + 1 PROVE podEvents[k].id # j
      OBVIOUS
    <3>1. k - 1 \in 1 .. n /\ podEvents'[k - 1] = podEvents[k]
      BY <1>1
    <3> QED
      BY <1>1, <1>4, <3>1 DEF PodCurrent
  <2>2. CASE podEvents[1].id = j
    <3>1. podEvents[1].pod = pods[j]
      BY <1>1, <2>1, <2>2 DEF Inv, PodsWatched
    <3> QED
      BY <1>1, <2>2, <3>1
  <2>3. CASE podEvents[1].id # j
    <3>1. PodCurrent(j)
      BY <1>1, <2>1, <2>3 DEF PodCurrent
    <3> QED
      BY <1>1, <2>3, <3>1 DEF PodsForward
  <2> QED
    BY <2>2, <2>3
<1>5. ASSUME NEW k \in DOMAIN podEvents'
      PROVE  /\ OnTrack(s, podEvents'[k].id, podEvents'[k].pod)
             /\ Precedes(s, podEvents'[k].id, cachedPods'[podEvents'[k].id], podEvents'[k].pod)
             /\ UpTo(s, podEvents'[k].id, podEvents'[k].pod, pods[podEvents'[k].id])
             /\ \A m \in DOMAIN podEvents' : m > k /\ podEvents'[m].id = podEvents'[k].id =>
                  Precedes(s, podEvents'[k].id, podEvents'[k].pod, podEvents'[m].pod)
  <2> DEFINE i == podEvents[k + 1].id
  <2>1. k + 1 \in DOMAIN podEvents /\ k + 1 > 1 /\ podEvents'[k] = podEvents[k + 1] /\ i \in Id
    BY <1>1
  <2>2. OnTrack(s, i, podEvents[k + 1].pod) /\ UpTo(s, i, podEvents[k + 1].pod, pods[i])
    BY <2>1 DEF PodsOnTrack, PodsForward
  <2>3. Precedes(s, i, cachedPods'[i], podEvents[k + 1].pod)
    BY <1>1, <1>2, <2>1 DEF PodsForward
  <2>4. ASSUME NEW m \in DOMAIN podEvents', m > k, podEvents'[m].id = i
        PROVE  Precedes(s, i, podEvents[k + 1].pod, podEvents'[m].pod)
    <3>1. m + 1 \in DOMAIN podEvents /\ m + 1 > k + 1 /\ podEvents'[m] = podEvents[m + 1]
      BY <1>1, <2>4
    <3> QED
      BY <2>1, <2>4, <3>1 DEF PodsForward
  <2> QED
    BY <2>1, <2>2, <2>3, <2>4
<1> QED
  BY <1>2, <1>3, <1>4, <1>5 DEF PodsOnTrack, PodsForward

\* The budget is a number
LEMMA Allowed ==
    ASSUME RollingUpdate, NEW spec \in StoredSpecs
    PROVE  /\ allowed(spec) \in Nat
           /\ IsFiniteSet(Instances) /\ Cardinality(Instances) \in Nat
<1>1. spec \in TAppSpec /\ Instances \subseteq Id
  BY SpecFacts
<1>2. IsFiniteSet(Instances)
  <2>1. IsFiniteSet(Id)
    BY MaxReplicasAssumption, FS_Interval DEF Id
  <2> QED
    BY <1>1, <2>1, FS_Subset
<1>3. Cardinality(Instances) \in Nat
  BY <1>2, FS_CardinalityType
<1> DEFINE v == setDefaultValue(spec).maxUnavailable
           total == Cardinality(Instances)
<1>4. v \in [kind : {"int", "percent"}, val : Nat]
  <2>1. v \in IntOrString /\ v.kind # "nil"
    BY <1>1 DEF setDefaultValue, TAppSpec, IntOrString
  <2>2. v.kind # "bad" /\ v.val >= 0
    BY DEF RollingUpdate, isStored
  <2> QED
    BY <2>1, <2>2 DEF IntOrString
<1>5. v.val * total \in Nat
  BY <1>3, <1>4
<1>6. (v.val * total + 99) \div 100 \in Nat
  BY <1>5
<1>7. scaledValue(v, total) \in Nat
  BY <1>4, <1>6 DEF scaledValue
<1> QED
  BY <1>2, <1>3, <1>7 DEF allowed

\* Nobody new is taken and whoever is done stays done
LEMMA BudgetKeeps ==
    ASSUME RollingUpdate, tapp.spec \in StoredSpecs, WithinBudget, tapp'.spec = tapp.spec,
           picks' \subseteq picks,
           \A j \in Id : /\ stage(tapp.spec, j, pods'[j]) >= 1 => j \in Taken
                         /\ stage(tapp.spec, j, pods[j]) = 5 => stage(tapp.spec, j, pods'[j]) = 5
    PROVE  WithinBudget'
<1>1. Taken' \subseteq Taken
  BY DEF Taken
<1>2. Kept \subseteq Kept'
  BY <1>1, SpecFacts DEF Kept
<1>3. IsFiniteSet(Kept')
  <2>1. Kept' \subseteq Instances
    BY DEF Kept
  <2> QED
    BY <2>1, Allowed, FS_Subset
<1>4. /\ Cardinality(Kept) \in Nat /\ Cardinality(Kept') \in Nat
      /\ Cardinality(Kept) <= Cardinality(Kept')
  BY <1>2, <1>3, FS_Subset, FS_CardinalityType
<1>5. Cardinality(Instances) \in Nat /\ allowed(tapp.spec) \in Nat
  BY Allowed
<1> HIDE DEF Taken, Kept
<1> QED
  BY <1>4, <1>5 DEF WithinBudget

\* The next version of pod i, which was taken before
RollWrite(i, q) ==
    /\ WritePod(i, q)
    /\ q # pods[i] =>
         /\ OnTrack(tapp.spec, i, q) /\ Precedes(tapp.spec, i, pods[i], q)
         /\ stage(tapp.spec, i, pods[i]) >= 1 \/ i \in picks
         /\ i \in picks => stage(tapp.spec, i, q) <= 3

\* A write that is due keeps the budget and the plan
LEMMA WriteMoves ==
    ASSUME RollingUpdate, Inv, RollInv, NEW i \in Id, NEW q \in Pod \cup {NoPod},
           RollWrite(i, q), UNCHANGED <<tapp, plan>>
    PROVE  /\ WithinBudget'
           /\ \A j \in Id : UpTo(tapp.spec, j, pods[j], pods'[j])
           /\ \A j \in picks : stage(tapp.spec, j, pods'[j]) <= 3
           /\ Untouched => q = pods[i]
<1> DEFINE s == tapp.spec
<1>1. \A j \in Id : pods'[j] = IF j = i THEN q ELSE pods[j]
  BY Appended DEF Inv, RollWrite
<1>2. s \in StoredSpecs
  BY DEF RollInv, EditInOrder
<1>3. \A j \in Id : UpTo(s, j, pods[j], pods'[j])
  BY <1>1 DEF RollWrite, UpTo
<1>4. ASSUME NEW j \in picks
      PROVE  stage(s, j, pods'[j]) <= 3
  <2>1. j \in Id /\ stage(s, j, pods[j]) <= 3
    BY DEF RollInv, PlanRolls, picks, Inv, TypeOK, InstancePlan
  <2> QED
    BY <1>1, <1>4, <2>1 DEF RollWrite
<1>5. \A j \in Id : stage(s, j, pods'[j]) >= 1 => j \in Taken
  BY <1>1 DEF RollWrite, Taken
<1>6. \A j \in Id : stage(s, j, pods[j]) = 5 => stage(s, j, pods'[j]) = 5
  <2> SUFFICES ASSUME NEW j \in Id, stage(s, j, pods[j]) = 5 PROVE stage(s, j, pods'[j]) = 5
    OBVIOUS
  <2>1. stage(s, j, pods[j]) <= stage(s, j, pods'[j])
    BY <1>3, Later
  <2> QED
    BY <2>1, StageRange
<1>7. WithinBudget'
  <2>1. picks' = picks
    BY DEF picks
  <2> HIDE DEF s
  <2>2. WithinBudget
    BY DEF RollInv
  <2> QED
    BY <1>2, <1>5, <1>6, <2>1, <2>2, BudgetKeeps DEF s
<1>8. ASSUME Untouched, q # pods[i]
      PROVE  FALSE
  <2>1. picks = {} /\ pods[i] = InitPods[i]
    BY <1>8 DEF Untouched, NoPlan, picks
  <2>2. stage(s, i, InitPods[i]) = 0
    <3>1. isSettled(InitPods[i], origin(i)) \/ ~changing(s, i)
      BY DEF changing, RollingUpdate
    <3> QED
      BY <3>1, NullAssumption DEF stage, isSettled
  <2> QED
    BY <1>8, <2>1, <2>2 DEF RollWrite
<1> QED
  BY <1>3, <1>4, <1>7, <1>8

\* A write of a pod that leaves Sync where it is
LEMMA PodStepRolls ==
    ASSUME RollingUpdate, Inv, RollInv, NEW i \in Id, NEW q \in Pod \cup {NoPod},
           RollWrite(i, q),
           q # pods[i] =>
             /\ stage(tapp.spec, i, q) >= 4 => stage(tapp.spec, i, cachedPods[i]) >= 3
             /\ pc = "conditions" /\ stage(tapp.spec, i, pods[i]) <= 3 =>
                  stage(tapp.spec, i, q) <= 3,
           UNCHANGED <<tapp, lost, tappEvents, caches, pc, app, list, plan, budget>>,
           todo' \subseteq todo, UNCHANGED <<todo, retry>> \/ pc \in {"instances", "updates"}
    PROVE  RollInv'
<1> DEFINE s == tapp.spec
<1> USE DEF caches
<1>1. UNCHANGED <<cachedTApp, cachedPods, nodesSynced>>
  OBVIOUS
<1>2. \A j \in Id : pods'[j] = IF j = i THEN q ELSE pods[j]
  BY Appended DEF Inv, RollWrite
<1>3. /\ WithinBudget'
      /\ \A j \in Id : UpTo(s, j, pods[j], pods'[j])
      /\ \A j \in picks : stage(s, j, pods'[j]) <= 3
      /\ Untouched => q = pods[i]
  BY WriteMoves
<1>4. PodsOnTrack' /\ PodsForward'
  <2>1. PodsOnTrack /\ PodsForward /\ UpTo(s, i, cachedPods[i], pods[i])
    BY DEF RollInv, PodsForward
  <2>2. cachedPods' = [cachedPods EXCEPT ![i] = cachedPods[i]]
    BY <1>1 DEF Inv, TypeOK, PodMap
  <2>3. UpTo(s, i, cachedPods[i], q)
    BY <1>2, <1>3, <2>1, Later
  <2>4. q # pods[i] => Precedes(s, i, cachedPods[i], q)
    BY <2>1, Later DEF RollWrite
  <2>5. \A k \in DOMAIN podEvents :
          podEvents[k].id = i => Precedes(s, i, cachedPods[i], podEvents[k].pod)
    BY <2>1 DEF PodsForward
  <2>6. PodCurrent(i) /\ q = pods[i] => cachedPods[i] = q
    BY <2>1 DEF PodsForward
  <2>7. stage(s, i, q) >= 4 => stage(s, i, cachedPods[i]) >= 3
    BY <2>1 DEF PodsForward
  <2>8. q # pods[i] => OnTrack(s, i, q) /\ Precedes(s, i, pods[i], q)
    BY DEF RollWrite
  <2>9. OnTrack(s, i, cachedPods[i])
    BY <2>1 DEF PodsOnTrack
  <2> QED
    BY <2>1, <2>2, <2>3, <2>4, <2>5, <2>6, <2>7, <2>8, <2>9, WriteRolls DEF RollWrite
<1>5. Calm' /\ EditInOrder' /\ NoResults'
  BY DEF RollInv, Calm, EditInOrder, KnownSpec, NoResults
<1>6. informed' \/ Untouched'
  <2>1. informed => informed'
    BY DEF informed
  <2>2. Untouched => Untouched'
    BY <1>1, <1>3, Appended DEF Untouched, RollWrite, WritePod
  <2> QED
    BY <2>1, <2>2 DEF RollInv
<1>7. PlanRolls'
  <2>1. PlanRolls /\ picks' = picks
    BY DEF RollInv, picks
  <2>2. ASSUME NEW j \in picks
        PROVE  /\ stage(s, j, pods'[j]) <= 3
               /\ (pc' = "conditions" /\ j \in todo') \/ stage(s, j, pods'[j]) >= 1
    <3>1. j \in Id
      BY DEF picks, Inv, TypeOK, InstancePlan
    <3>2. stage(s, j, pods[j]) <= stage(s, j, pods'[j])
      BY <1>3, <3>1, Later
    <3> QED
      BY <1>3, <2>1, <3>2, StageRange DEF PlanRolls
  <2> QED
    BY <2>1, <2>2 DEF PlanRolls
<1>8. ConditionsRoll'
  <2>1. ConditionsRoll
    BY DEF RollInv
  <2>2. ASSUME pc = "conditions", NEW j \in todo
        PROVE  ConditionRolls(j)'
    <3>1. ConditionRolls(j) /\ j \in Id /\ todo' = todo /\ retry' = retry
      BY <2>1, <2>2 DEF ConditionsRoll, Inv, TypeOK
    <3>2. gateOf(j)' = gateOf(j)
      BY DEF gateOf
    <3>3. j \in listed' => j \in listed /\ pods'[j] = pods[j]
      BY <1>2, <3>1 DEF RollWrite, WritePod
    <3>4. stage(s, j, pods[j]) <= 3 => stage(s, j, pods'[j]) <= 3
      BY <1>2, <2>2, <3>1
    <3> QED
      BY <1>1, <3>1, <3>2, <3>3, <3>4 DEF ConditionRolls
  <2> QED
    BY <2>1, <2>2 DEF ConditionsRoll
<1> QED
  BY <1>3, <1>4, <1>5, <1>6, <1>7, <1>8 DEF RollInv

\* A plan was made for the current spec
LEMMA Planned ==
    ASSUME RollInv, NEW i \in plan.add \cup picks, pc # "idle"
    PROVE  app.spec = tapp.spec /\ informed /\ tapp.spec \in StoredSpecs
BY DEF RollInv, Untouched, NoPlan, picks, informed, EditInOrder

\* createInstance keeps the invariant: what is planned to be added is new to the cache
LEMMA CreateRolls ==
    ASSUME RollingUpdate, Inv, RollInv, NEW i \in Id, createInstance(i)
    PROVE  RollInv'
<1> DEFINE s == tapp.spec
<1>1. i \in plan.add /\ pc = "instances"
  BY DEF createInstance, InstanceStep
<1>2. app.spec = s /\ s \in StoredSpecs
  BY <1>1, Planned
<1>3. changing(s, i) /\ ~inPlace(s, i) /\ i \notin picks
  BY <1>1 DEF RollInv, PlanRolls, picks
<1>4. budget.faults = 0
  BY DEF RollInv, Calm
<1>5. UNCHANGED budget
  BY <1>4, NoFaultOutcome DEF createInstance
<1>6. /\ UNCHANGED <<tapp, lost, tappEvents, caches, pc, app, list, plan, budget>>
      /\ todo' \subseteq todo
  BY <1>5 DEF createInstance, InstanceStep
<1>7. /\ newPod(i) \in Pod /\ OnTrack(s, i, newPod(i))
      /\ stage(s, i, NoPod) = 3 /\ stage(s, i, newPod(i)) = 4
  BY <1>2, <1>3, CreateEdit DEF newPod, target
<1>8. CASE WritePod(i, pods[i])
  <2>1. pods[i] \in Pod \cup {NoPod}
    BY DEF Inv, TypeOK, PodMap
  <2> QED
    BY <1>1, <1>6, <1>8, <2>1, PodStepRolls DEF RollWrite
<1>9. CASE WritePod(i, newPod(i)) /\ cachedPods[i] = NoPod /\ pods[i] = NoPod
  <2>1. Precedes(s, i, pods[i], newPod(i))
    BY <1>3, <1>7, <1>9 DEF Precedes
  <2>2. RollWrite(i, newPod(i))
    BY <1>3, <1>7, <1>9, <2>1 DEF RollWrite
  <2> QED
    BY <1>1, <1>6, <1>7, <1>9, <2>2, PodStepRolls
<1> QED
  BY <1>8, <1>9 DEF createInstance

\* deleteInstance keeps the invariant: its gate was written before
LEMMA DeleteRolls ==
    ASSUME RollingUpdate, Inv, RollInv, NEW i \in Id, deleteInstance(i)
    PROVE  RollInv'
<1> DEFINE s == tapp.spec
           q == [pods[i] EXCEPT !.dying = TRUE]
<1>1. i \in plan.del /\ i \in picks /\ pc = "instances"
  BY DEF deleteInstance, InstanceStep, picks
<1>2. s \in StoredSpecs
  BY <1>1, Planned
<1>3. changing(s, i) /\ ~inPlace(s, i) /\ stage(s, i, pods[i]) \in 1 .. 3
  BY <1>1, StageRange DEF RollInv, PlanRolls
<1>4. budget.faults = 0
  BY DEF RollInv, Calm
<1>5. UNCHANGED budget
  BY <1>4, NoFaultOutcome DEF deleteInstance
<1>6. /\ UNCHANGED <<tapp, lost, tappEvents, caches, pc, app, list, plan, budget>>
      /\ todo' \subseteq todo
  BY <1>5 DEF deleteInstance, InstanceStep
<1>7. CASE WritePod(i, pods[i])
  <2>1. pods[i] \in Pod \cup {NoPod}
    BY DEF Inv, TypeOK, PodMap
  <2> QED
    BY <1>1, <1>6, <1>7, <2>1, PodStepRolls DEF RollWrite
<1>8. CASE WritePod(i, q) /\ pods[i] # NoPod
  <2>1. OnTrack(s, i, pods[i])
    BY DEF RollInv, PodsOnTrack
  <2>2. Moves(s, i, pods[i], q)
    BY <1>2, <1>3, <1>8, <2>1, DeleteEdit
  <2> HIDE DEF q
  <2>3. RollWrite(i, q) /\ stage(s, i, q) <= 3
    BY <1>3, <1>8, <2>2 DEF RollWrite, Moves
  <2> QED
    BY <1>1, <1>6, <2>2, <2>3, PodStepRolls, StageRange DEF Moves
<1> QED
  BY <1>7, <1>8 DEF deleteInstance

\* updateInstance keeps the invariant, whether the cached version is current or refused
LEMMA UpdateRolls ==
    ASSUME RollingUpdate, Inv, RollInv, NEW i \in Id, updateInstance(i)
    PROVE  RollInv'
<1> DEFINE s == tapp.spec
           q == mergePod(pods[i], i)
<1>1. i \in plan.update /\ i \in picks /\ pc = "updates"
  BY DEF updateInstance, nextUpdate, picks, Inv, PlanBacked
<1>2. app.spec = s /\ s \in StoredSpecs
  BY <1>1, Planned
<1>3. changing(s, i) /\ inPlace(s, i) /\ stage(s, i, pods[i]) \in 1 .. 3
  BY <1>1, StageRange DEF RollInv, PlanRolls
<1>4. budget.faults = 0
  BY DEF RollInv, Calm
<1>5. UNCHANGED budget
  <2>1. CASE cachedPods[i] = NoPod
    BY <2>1 DEF updateInstance
  <2>2. CASE cachedPods[i] # NoPod
    <3>1. PICK r \in Outcome(PodCurrent(i)) : Charge(r)
      BY <2>2 DEF updateInstance
    <3>2. PodCurrent(i) \in BOOLEAN
      BY DEF PodCurrent
    <3> QED
      BY <1>4, <3>1, <3>2, NoFaultOutcome
  <2> QED
    BY <2>1, <2>2
<1>6. /\ UNCHANGED <<tapp, lost, tappEvents, caches, pc, app, list, plan, budget>>
      /\ todo' \subseteq todo
  BY <1>5 DEF updateInstance
<1>7. pods[i] \in Pod \cup {NoPod} /\ OnTrack(s, i, pods[i])
  BY DEF Inv, TypeOK, PodMap, RollInv, PodsOnTrack
<1>8. CASE WritePod(i, pods[i])
  BY <1>1, <1>6, <1>7, <1>8, PodStepRolls DEF RollWrite
<1>9. CASE UNCHANGED <<pods, podEvents, listed>>
  <2>1. WritePod(i, pods[i])
    BY <1>9 DEF WritePod
  <2> QED
    BY <1>8, <2>1
<1>10. CASE WritePod(i, q) /\ q # pods[i]
  <2>1. Moves(s, i, pods[i], q)
    <3>1. q = [pods[i] EXCEPT !.tmpl = target(s, i), !.inPlace = TRUE]
      BY <1>2 DEF mergePod, target
    <3> HIDE DEF q
    <3> QED
      BY <1>2, <1>3, <1>7, <1>10, <3>1, MergeEdit
  <2> HIDE DEF q
  <2>2. RollWrite(i, q) /\ stage(s, i, q) <= 3
    BY <1>3, <1>10, <2>1 DEF RollWrite, Moves
  <2> QED
    BY <1>1, <1>6, <2>1, <2>2, PodStepRolls, StageRange DEF Moves
<1>11. \/ UNCHANGED <<pods, podEvents, listed>>
       \/ WritePod(i, pods[i]) \/ WritePod(i, q)
  BY DEF updateInstance
<1> QED
  BY <1>8, <1>9, <1>10, <1>11

\* The kubelet keeps the invariant
LEMMA KubeletRolls ==
    ASSUME RollingUpdate, Inv, RollInv, NEW i \in Id,
           StartPod(i) \/ RestartContainer(i) \/ ReportReady(i) \/ RemovePod(i)
    PROVE  RollInv'
<1> DEFINE s == tapp.spec
           p == pods[i]
<1>1. s \in StoredSpecs /\ OnTrack(s, i, p)
  BY DEF RollInv, EditInOrder, PodsOnTrack
<1>2. \E q : Moves(s, i, p, q) /\ Report(i, q)
  <2>1. CASE RemovePod(i)
    <3>1. p # NoPod /\ isPodDying(p) /\ Report(i, NoPod)
      BY <2>1 DEF RemovePod
    <3> QED
      BY <1>1, <3>1, RemoveEdit
  <2>2. CASE StartPod(i)
    <3> DEFINE q == [p EXCEPT !.phase = "Running", !.run = p.tmpl.image,
                              !.ready = readyWith(p.gate)]
    <3>1. p # NoPod /\ ~isPodDying(p) /\ p.phase = "Pending" /\ Report(i, q)
      BY <2>2 DEF StartPod, isAlive
    <3> HIDE DEF p
    <3>2. Moves(s, i, p, q)
      BY <1>1, <3>1, KubeletEdit
    <3> QED
      BY <3>1, <3>2
  <2>3. CASE RestartContainer(i)
    <3> DEFINE q == [p EXCEPT !.run = "pulling", !.ready = "False"]
               t == [p EXCEPT !.run = p.tmpl.image, !.ready = readyWith(p.gate)]
    <3>1. /\ p # NoPod /\ ~isPodDying(p) /\ p.phase = "Running" /\ p.run # p.tmpl.image
          /\ (p.run # "pulling" /\ Report(i, q)) \/ Report(i, t)
      BY <2>3 DEF RestartContainer, isAlive
    <3> HIDE DEF p
    <3>2. Moves(s, i, p, t)
      BY <1>1, <3>1, KubeletEdit
    <3>3. p.run # "pulling" => Moves(s, i, p, q)
      BY <1>1, <3>1, KubeletEdit
    <3> QED
      BY <3>1, <3>2, <3>3
  <2>4. CASE ReportReady(i)
    <3> DEFINE q == [p EXCEPT !.ready = readyWith(p.gate)]
    <3>1. /\ p # NoPod /\ ~isPodDying(p) /\ p.phase = "Running" /\ p.run = p.tmpl.image
          /\ p.ready # readyWith(p.gate) /\ Report(i, q)
      BY <2>4 DEF ReportReady, isAlive
    <3> HIDE DEF p
    <3>2. Moves(s, i, p, q)
      BY <1>1, <3>1, KubeletEdit
    <3> QED
      BY <3>1, <3>2
  <2> QED
    BY <2>1, <2>2, <2>3, <2>4
<1>3. UNCHANGED budget
  BY DEF StartPod, RestartContainer, ReportReady, RemovePod
<1>4. PICK q : Moves(s, i, p, q) /\ Report(i, q)
  BY <1>2
<1>5. q \in Pod \cup {NoPod}
  BY <1>4 DEF Moves
<1>6. i \in picks => stage(s, i, p) <= 3
  BY DEF RollInv, PlanRolls
<1>7. RollWrite(i, q)
  BY <1>4, <1>6 DEF RollWrite, Moves, Report
<1>8. stage(s, i, q) >= 4 => stage(s, i, cachedPods[i]) >= 3
  <2>1. stage(s, i, p) <= 3 => stage(s, i, q) <= 3
    BY <1>4 DEF Moves
  <2>2. stage(s, i, p) >= 4 => stage(s, i, cachedPods[i]) >= 3
    BY DEF RollInv, PodsForward
  <2> QED
    BY <2>1, <2>2, StageRange
<1>9. /\ UNCHANGED <<tapp, lost, tappEvents, caches, pc, app, list, plan, budget>>
      /\ UNCHANGED <<todo, retry>>
  BY <1>3, <1>4 DEF Report
<1>10. stage(s, i, p) <= 3 => stage(s, i, q) <= 3
  BY <1>4 DEF Moves
<1> QED
  BY <1>5, <1>7, <1>8, <1>9, <1>10, PodStepRolls

\* The steps the hypotheses rule out
LEMMA CalmSteps ==
    ASSUME RollInv, NEW i \in Id
    PROVE  ~(forceDeleteInstance(i) \/ ExitPod(i) \/ NodeFails(i) \/ EvictPod(i))
BY DEF RollInv, Calm, PlanRolls, forceDeleteInstance, ExitPod, NodeFails, EvictPod

-----------------------------------------------------------------------------
(* The readiness gates *)

\* A goroutine of syncPodConditions is done with pod i, or starts over from the cache
LEMMA ConditionFrame ==
    ASSUME RollingUpdate, Inv, RollInv, NEW i \in Id, pc = "conditions", i \in todo,
           NEW q \in Pod \cup {NoPod}, RollWrite(i, q), PodsOnTrack', PodsForward',
           UNCHANGED <<tapp, lost, tappEvents, cachedTApp, nodesSynced, pc, app, plan, budget>>,
           \A j \in Id : j # i => cachedPods'[j] = cachedPods[j] /\ list'[j] = list[j],
           list'[i] = list[i] \/ (list[i] # NoPod /\ list'[i].phase = list[i].phase),
           informed \/ UNCHANGED cachedPods,
           \/ /\ todo' = todo \ {i} /\ retry' = retry
              /\ i \in picks => stage(tapp.spec, i, pods'[i]) >= 1
           \/ todo' = todo /\ retry' = retry \cup {i} /\ ConditionRolls(i)'
    PROVE  RollInv'
<1> DEFINE s == tapp.spec
<1>1. \A j \in Id : pods'[j] = IF j = i THEN q ELSE pods[j]
  BY Appended DEF Inv, RollWrite
<1>2. /\ WithinBudget'
      /\ \A j \in Id : UpTo(s, j, pods[j], pods'[j])
      /\ \A j \in picks : stage(s, j, pods'[j]) <= 3
      /\ Untouched => q = pods[i]
  BY WriteMoves
<1>3. Calm' /\ EditInOrder' /\ NoResults'
  BY DEF RollInv, Calm, EditInOrder, KnownSpec, NoResults
<1>4. informed' \/ Untouched'
  <2>1. informed => informed'
    BY DEF informed
  <2>2. Untouched /\ UNCHANGED cachedPods => Untouched'
    BY <1>2, Appended DEF Untouched, RollWrite, WritePod
  <2> QED
    BY <2>1, <2>2 DEF RollInv
<1>5. PlanRolls'
  <2>1. PlanRolls /\ picks' = picks
    BY DEF RollInv, picks
  <2>2. ASSUME NEW j \in picks
        PROVE  /\ stage(s, j, pods'[j]) <= 3
               /\ (pc' = "conditions" /\ j \in todo') \/ stage(s, j, pods'[j]) >= 1
    <3>1. j \in Id
      BY DEF picks, Inv, TypeOK, InstancePlan
    <3>2. stage(s, j, pods[j]) <= stage(s, j, pods'[j])
      BY <1>2, <3>1, Later
    <3> QED
      BY <1>2, <2>1, <3>2, StageRange DEF PlanRolls
  <2> QED
    BY <2>1, <2>2 DEF PlanRolls
<1>6. ASSUME NEW j \in todo', j # i
      PROVE  ConditionRolls(j)'
  <2>1. j \in todo /\ j \in Id /\ (j \in retry' <=> j \in retry)
    BY <1>6 DEF Inv, TypeOK
  <2>2. ConditionRolls(j)
    BY <2>1 DEF RollInv, ConditionsRoll
  <2>3. /\ pods'[j] = pods[j] /\ list'[j] = list[j] /\ cachedPods'[j] = cachedPods[j]
        /\ j \in listed' => j \in listed
    BY <1>1, <1>6, <2>1 DEF RollWrite, WritePod
  <2>4. gateOf(j)' = gateOf(j)
    BY <2>3 DEF gateOf
  <2> QED
    BY <2>1, <2>2, <2>3, <2>4 DEF ConditionRolls
<1>7. ConditionsRoll'
  BY <1>6 DEF ConditionsRoll
<1> QED
  BY <1>2, <1>3, <1>4, <1>5, <1>7 DEF RollInv

\* The copy a goroutine looks at
sourceOf(i) == IF i \in retry THEN cachedPods[i] ELSE list[i]

\* What a goroutine of syncPodConditions finds in the copy it looks at
LEMMA ConditionSource ==
    ASSUME RollingUpdate, Inv, RollInv, NEW i \in Id, pc = "conditions", i \in todo
    PROVE  /\ OnTrack(tapp.spec, i, sourceOf(i))
           /\ UpTo(tapp.spec, i, sourceOf(i), cachedPods[i])
           /\ UpTo(tapp.spec, i, cachedPods[i], pods[i])
           /\ gateOf(i) \in {"True", "False"}
           /\ i \in picks => changing(tapp.spec, i) /\ gateOf(i) = "False"
           /\ sourceOf(i) # NoPod /\ sourceOf(i).gate # gateOf(i) =>
                /\ changing(tapp.spec, i)
                /\ i \in picks \/ stage(tapp.spec, i, cachedPods[i]) >= 2
                /\ gateOf(i) = "False" => stage(tapp.spec, i, sourceOf(i)) <= 3
                /\ gateOf(i) = "True" => isThrough(tapp.spec, i, sourceOf(i))
           /\ ~(sourceOf(i) # NoPod /\ sourceOf(i).gate # gateOf(i)) =>
                (i \in picks => stage(tapp.spec, i, pods[i]) >= 1)
<1> DEFINE s == tapp.spec
           p == sourceOf(i)
<1>1. ConditionRolls(i) /\ s \in StoredSpecs
  BY DEF RollInv, ConditionsRoll, EditInOrder
<1>2. OnTrack(s, i, cachedPods[i]) /\ UpTo(s, i, cachedPods[i], pods[i])
  BY DEF RollInv, PodsOnTrack, PodsForward
<1>3. OnTrack(s, i, p) /\ UpTo(s, i, p, cachedPods[i])
  BY <1>1, <1>2, Later DEF ConditionRolls, sourceOf
<1>4. /\ gateOf(i) \in {"True", "False"}
      /\ i \in picks => changing(s, i) /\ gateOf(i) = "False"
  BY DEF gateOf, picks, RollInv, PlanRolls
<1>5. gateOf(i) = "False" => i \in picks \/ stage(s, i, cachedPods[i]) >= 2
  BY <1>1 DEF gateOf, picks, ConditionRolls
<1>6. stage(s, i, p) <= stage(s, i, cachedPods[i])
      /\ stage(s, i, cachedPods[i]) <= stage(s, i, pods[i])
  BY <1>2, <1>3, Later
<1>7. ASSUME p # NoPod, p.gate # gateOf(i)
      PROVE  /\ changing(s, i)
             /\ i \in picks \/ stage(s, i, cachedPods[i]) >= 2
             /\ gateOf(i) = "False" => stage(s, i, p) <= 3
             /\ gateOf(i) = "True" => isThrough(s, i, p)
  <2>1. gateOf(i) = "True" => isThrough(s, i, p)
    BY <1>1, <1>7 DEF ConditionRolls, sourceOf
  <2>2. gateOf(i) = "False" => stage(s, i, p) <= 3
    BY <1>1, <1>6, StageRange DEF ConditionRolls
  <2>3. i \in picks \/ stage(s, i, cachedPods[i]) >= 2
    BY <1>4, <1>5, <1>6, <2>1, StageRange DEF isThrough
  <2>4. changing(s, i)
    BY <1>4, <2>3 DEF stage
  <2> QED
    BY <2>1, <2>2, <2>3, <2>4
<1>8. ASSUME p = NoPod \/ p.gate = gateOf(i), i \in picks
      PROVE  stage(s, i, pods[i]) >= 1
  <2>1. changing(s, i) /\ gateOf(i) = "False"
    BY <1>4, <1>8
  <2>2. Shape(s, i, p)
    BY <1>1, <1>3, ShapeOf
  <2>3. stage(s, i, p) >= 1
    BY <1>8, <2>1, <2>2 DEF Shape, isSettled, stage
  <2> QED
    BY <1>6, <2>3, StageRange
<1> QED
  BY <1>2, <1>3, <1>4, <1>7, <1>8

\* setInPlaceUpdateCondition keeps the invariant: written, refused, retried or given up
LEMMA GateRolls ==
    ASSUME RollingUpdate, Inv, RollInv, NEW i \in Id, setInPlaceUpdateCondition(i)
    PROVE  RollInv'
<1> DEFINE s == tapp.spec
           g == gateOf(i)
           p == sourceOf(i)
           new == withGate(p, g)
           need == p # NoPod /\ p.gate # g
           current == IF i \in retry THEN PodCurrent(i) ELSE i \in listed
           lost2 == pods[i] = NoPod \/ i \in retry
<1>1. pc = "conditions" /\ i \in todo /\ s \in StoredSpecs /\ budget.faults = 0
  BY DEF setInPlaceUpdateCondition, RollInv, EditInOrder, Calm
<1>2. /\ OnTrack(s, i, p) /\ UpTo(s, i, p, cachedPods[i]) /\ UpTo(s, i, cachedPods[i], pods[i])
      /\ g \in {"True", "False"}
      /\ i \in picks => changing(s, i) /\ g = "False"
      /\ need => /\ changing(s, i)
                 /\ i \in picks \/ stage(s, i, cachedPods[i]) >= 2
                 /\ g = "False" => stage(s, i, p) <= 3
                 /\ g = "True" => isThrough(s, i, p)
      /\ ~need => (i \in picks => stage(s, i, pods[i]) >= 1)
  BY <1>1, ConditionSource
<1>3. UNCHANGED <<tapp, lost, tappEvents, cachedTApp, nodesSynced, pc, app, plan>>
  BY DEF setInPlaceUpdateCondition
<1>4. /\ PodsOnTrack /\ PodsForward /\ ConditionRolls(i)
      /\ pods[i] \in Pod \cup {NoPod} /\ cachedPods \in PodMap /\ list \in PodMap
      /\ list[i] \in Pod
  <2>1. PodsOnTrack /\ PodsForward /\ ConditionRolls(i)
    BY <1>1 DEF RollInv, ConditionsRoll
  <2>2. /\ pods[i] \in Pod \cup {NoPod} /\ list[i] \in Pod \cup {NoPod}
        /\ cachedPods \in PodMap /\ list \in PodMap
    BY DEF Inv, TypeOK, PodMap
  <2> QED
    BY <2>1, <2>2 DEF ConditionRolls
<1>5. \/ /\ ~need /\ todo' = todo \ {i} /\ UNCHANGED retry
         /\ UNCHANGED <<pods, podEvents, cachedPods, list, listed, budget>>
      \/ /\ need
         /\ list' = IF i \in retry THEN list ELSE [list EXCEPT ![i] = new]
         /\ cachedPods' = IF i \in retry THEN [cachedPods EXCEPT ![i] = new] ELSE cachedPods
         /\ \E r \in Outcome(current) :
              /\ Charge(r)
              /\ WritePod(i, IF Applied(r)
                             THEN [pods[i] EXCEPT !.gate = new.gate, !.ready = new.ready]
                             ELSE pods[i])
              /\ \/ r = "conflict" /\ ~lost2 /\ retry' = retry \cup {i} /\ UNCHANGED todo
                 \/ ~(r = "conflict" /\ ~lost2) /\ todo' = todo \ {i} /\ UNCHANGED retry
  BY DEF setInPlaceUpdateCondition, sourceOf
<1>6. ASSUME ~need
      PROVE  RollInv'
  <2>1. /\ todo' = todo \ {i} /\ UNCHANGED retry
        /\ UNCHANGED <<pods, podEvents, cachedPods, list, listed, budget>>
    BY <1>5, <1>6
  <2>2. RollWrite(i, pods[i])
    BY <2>1 DEF RollWrite, WritePod
  <2>3. PodsOnTrack' /\ PodsForward'
    BY <1>3, <1>4, <2>1 DEF PodsOnTrack, PodsForward, PodCurrent
  <2>4. i \in picks => stage(s, i, pods'[i]) >= 1
    BY <1>2, <1>6, <2>1
  <2> HIDE DEF need, p, g
  <2> QED
    BY <1>1, <1>3, <1>4, <2>1, <2>2, <2>3, <2>4, ConditionFrame
<1>7. ASSUME need
      PROVE  RollInv'
  <2>1. changing(s, i) /\ p # NoPod /\ p.gate # g /\ p \in Pod
    BY <1>2, <1>4, <1>7 DEF sourceOf, PodMap
  <2>2. /\ new \in Pod /\ OnTrack(s, i, new)
        /\ Precedes(s, i, p, new) /\ Precedes(s, i, new, new)
        /\ \A r : Precedes(s, i, p, r) => Precedes(s, i, new, r)
        /\ g = "False" => stage(s, i, new) <= 3
        /\ stage(s, i, new) >= 4 => stage(s, i, p) >= 3
    <3> HIDE DEF p, g, need, s
    <3> QED
      BY <1>1, <1>2, <1>7, <2>1, GateEdit
  <2>3. informed
    <3>1. ASSUME Untouched
          PROVE  FALSE
      <4>1. picks = {} /\ cachedPods[i] = InitPods[i] /\ i \in Instances
        BY <2>1, <3>1 DEF Untouched, NoPlan, picks, changing
      <4>2. isSettled(InitPods[i], origin(i))
        BY <4>1 DEF RollingUpdate
      <4>3. stage(s, i, cachedPods[i]) = 0
        BY <4>1, <4>2, NullAssumption DEF stage, isSettled
      <4> QED
        BY <1>2, <1>7, <4>1, <4>3
    <3> QED
      BY <3>1 DEF RollInv
  <2>4. PICK r \in Outcome(current) :
          /\ Charge(r)
          /\ WritePod(i, IF Applied(r)
                         THEN [pods[i] EXCEPT !.gate = new.gate, !.ready = new.ready]
                         ELSE pods[i])
          /\ \/ r = "conflict" /\ ~lost2 /\ retry' = retry \cup {i} /\ UNCHANGED todo
             \/ ~(r = "conflict" /\ ~lost2) /\ todo' = todo \ {i} /\ UNCHANGED retry
    BY <1>5, <1>7
  <2>5. /\ list' = IF i \in retry THEN list ELSE [list EXCEPT ![i] = new]
        /\ cachedPods' = IF i \in retry THEN [cachedPods EXCEPT ![i] = new] ELSE cachedPods
    BY <1>5, <1>7
  <2>6. UNCHANGED budget /\ (current => Applied(r)) /\ (~current => r = "conflict")
    <3>1. current \in BOOLEAN
      <4>1. PodCurrent(i) \in BOOLEAN /\ (i \in listed) \in BOOLEAN
        BY DEF PodCurrent
      <4> QED
        BY <4>1
    <3> HIDE DEF current
    <3>2. UNCHANGED budget /\ (current => Applied(r))
      BY <1>1, <2>4, <3>1, NoFaultOutcome
    <3>3. ~current => r = "conflict"
      BY <1>1, <2>4, <3>1 DEF Outcome
    <3> QED
      BY <3>2, <3>3
  <2>7. /\ \A j \in Id : j # i => cachedPods'[j] = cachedPods[j] /\ list'[j] = list[j]
        /\ list'[i] = list[i] \/ (list[i] # NoPod /\ list'[i].phase = list[i].phase)
        /\ informed \/ UNCHANGED cachedPods
    <3>1. i \notin retry => new.phase = list[i].phase /\ list[i] # NoPod
      BY <1>4, NullAssumption DEF sourceOf, withGate, Pod
    <3> HIDE DEF new
    <3> QED
      BY <1>4, <2>3, <2>5, <3>1 DEF PodMap
  <2>8. /\ new.gate = g /\ new.gate # p.gate
        /\ [p EXCEPT !.gate = new.gate, !.ready = new.ready] = new
    BY <2>1 DEF withGate, Pod
  <2>9. CASE current
    <3>1. pods[i] = p
      BY <1>4, <2>9 DEF sourceOf, ConditionRolls, PodsForward
    <3>2. WritePod(i, new) /\ new # pods[i]
      <4> HIDE DEF new, p
      <4> QED
        BY <2>4, <2>6, <2>8, <2>9, <3>1
    <3>3. stage(s, i, pods[i]) >= 1 \/ i \in picks
      BY <1>2, <1>7, Later, StageRange
    <3>4. i \in picks => stage(s, i, new) <= 3
      BY <1>2, <2>2
    <3> HIDE DEF new, p, g, need, current
    <3>5. RollWrite(i, new)
      BY <2>2, <3>1, <3>2, <3>3, <3>4 DEF RollWrite
    <3>6. PodsOnTrack' /\ PodsForward'
      <4> DEFINE c == IF i \in retry THEN new ELSE cachedPods[i]
      <4>1. cachedPods' = [cachedPods EXCEPT ![i] = c]
        BY <1>4, <2>5 DEF PodMap
      <4>2. /\ OnTrack(s, i, c) /\ Precedes(s, i, c, new) /\ UpTo(s, i, c, new)
            /\ stage(s, i, new) >= 4 => stage(s, i, c) >= 3
        <5>1. CASE i \in retry
          BY <2>2, <5>1, StageRange DEF UpTo
        <5>2. CASE i \notin retry
          <6>1. OnTrack(s, i, c) /\ Precedes(s, i, c, new)
            BY <1>2, <1>4, <2>2, <3>1, <5>2, Later DEF PodsOnTrack
          <6>2. stage(s, i, p) <= stage(s, i, c)
            BY <1>2, <5>2, Later
          <6> QED
            BY <2>2, <6>1, <6>2, StageRange DEF UpTo
        <5> QED
          BY <5>1, <5>2
      <4>3. \A k \in DOMAIN podEvents :
              podEvents[k].id = i => Precedes(s, i, c, podEvents[k].pod)
        <5>1. i \in retry => PodCurrent(i)
          BY <2>9 DEF current
        <5> QED
          BY <1>4, <5>1 DEF PodsForward, PodCurrent
      <4>4. OnTrack(s, i, new) /\ Precedes(s, i, pods[i], new) /\ new # pods[i]
        BY <2>2, <3>1, <3>2
      <4> HIDE DEF c
      <4> QED
        BY <1>3, <1>4, <2>2, <3>2, <4>1, <4>2, <4>3, <4>4, WriteRolls
    <3>7. pods'[i] = new
      BY <2>2, <3>2, Appended DEF Inv
    <3>8. todo' = todo \ {i} /\ retry' = retry
      BY <2>4, <2>6, <2>9 DEF Applied
    <3>9. stage(s, i, pods'[i]) >= 1
      BY <2>2, <3>7 DEF Precedes
    <3> QED
      BY <1>1, <1>3, <2>2, <2>6, <2>7, <3>5, <3>6, <3>8, <3>9, ConditionFrame
  <2>10. CASE ~current
    <3>1. r = "conflict" /\ WritePod(i, pods[i])
      BY <2>4, <2>6, <2>10 DEF Applied
    <3>2. UNCHANGED <<pods, podEvents, listed>>
      BY <3>1 DEF WritePod
    <3>3. RollWrite(i, pods[i])
      BY <3>1 DEF RollWrite
    <3>4. CASE i \in retry
      <4>1. ~PodCurrent(i) /\ p = cachedPods[i]
        BY <2>10, <3>4 DEF sourceOf
      <4>2. PICK k \in DOMAIN podEvents : podEvents[k].id = i
        BY <4>1 DEF PodCurrent
      <4> HIDE DEF new, p, g, need, current
      <4>3. \A m \in DOMAIN podEvents :
              podEvents[m].id = i => Precedes(s, i, new, podEvents[m].pod)
        BY <1>4, <2>2, <4>1 DEF PodsForward
      <4>4. Precedes(s, i, new, pods[i])
        <5>1. UpTo(s, i, podEvents[k].pod, pods[i])
          BY <1>4, <4>2 DEF PodsForward
        <5> QED
          BY <4>2, <4>3, <5>1, Later
      <4>5. stage(s, i, pods[i]) >= 4 => stage(s, i, new) >= 3
        <5>1. stage(s, i, pods[i]) >= 4 => stage(s, i, p) >= 3
          BY <1>4, <4>1 DEF PodsForward
        <5>2. stage(s, i, p) <= stage(s, i, new)
          BY <2>2 DEF Precedes
        <5> QED
          BY <5>1, <5>2, StageRange
      <4>6. PodsOnTrack' /\ PodsForward'
        BY <1>3, <1>4, <2>2, <2>5, <3>1, <3>4, <4>1, <4>3, <4>4, <4>5, WriteRolls DEF UpTo
      <4>7. todo' = todo \ {i} /\ retry' = retry /\ stage(s, i, pods'[i]) >= 1
        BY <2>4, <3>1, <3>2, <3>4, <4>4 DEF Precedes
      <4> QED
        BY <1>1, <1>3, <1>4, <2>6, <2>7, <3>3, <4>6, <4>7, ConditionFrame
    <3>5. CASE i \notin retry
      <4>1. UNCHANGED cachedPods /\ list'[i] = new /\ p = list[i]
        BY <1>4, <2>5, <3>5 DEF sourceOf, PodMap
      <4>2. PodsOnTrack' /\ PodsForward'
        BY <1>3, <1>4, <3>2, <4>1 DEF PodsOnTrack, PodsForward, PodCurrent
      <4>3. CASE pods[i] = NoPod
        <5>1. stage(s, i, pods'[i]) >= 1
          BY <2>1, <3>2, <4>3 DEF stage
        <5>2. todo' = todo \ {i} /\ retry' = retry
          BY <2>4, <4>3
        <5> HIDE DEF new, p, g, need, current
        <5> QED
          BY <1>1, <1>3, <1>4, <2>6, <2>7, <3>3, <4>2, <5>1, <5>2, ConditionFrame
      <4>4. CASE pods[i] # NoPod
        <5>1. todo' = todo /\ retry' = retry \cup {i}
          BY <2>4, <3>1, <3>5, <4>4
        <5>2. list'[i] # NoPod /\ (isUpdating(list'[i]) <=> isUpdating(list[i]))
              /\ list'[i].phase = list[i].phase
          <6>1. /\ new.phase = p.phase /\ new.run = p.run /\ new.tmpl = p.tmpl
                /\ new.inPlace = p.inPlace
            BY <2>1 DEF withGate, Pod
          <6> HIDE DEF new, p
          <6> QED
            BY <2>2, <4>1, <6>1, NullAssumption DEF isUpdating
        <5>3. gateOf(i)' = gateOf(i)
          BY <1>3, <5>2 DEF gateOf
        <5>4. g = "True" => isThrough(s, i, cachedPods[i])
          <6>1. stage(s, i, p) <= stage(s, i, cachedPods[i])
            BY <1>2, Later
          <6> QED
            BY <1>2, <1>7, <6>1, StageRange DEF isThrough
        <5>5. ConditionRolls(i)'
          BY <1>3, <1>4, <3>2, <4>1, <5>1, <5>2, <5>3, <5>4 DEF ConditionRolls
        <5> HIDE DEF new, p, g, need, current
        <5> QED
          BY <1>1, <1>3, <1>4, <2>6, <2>7, <3>3, <4>2, <5>1, <5>5, ConditionFrame
      <4> QED
        BY <4>3, <4>4
    <3> QED
      BY <3>4, <3>5
  <2> QED
    BY <2>9, <2>10
<1> QED
  BY <1>6, <1>7

-----------------------------------------------------------------------------
(* Steps that write no pod *)

\* A status computed from pods that run or wait calls no instance finished
LEMMA StatusNoResult ==
    ASSUME NEW t \in TApp, hasNoResult(t), NEW copies \in PodMap,
           \A i \in Id : copies[i] # NoPod => copies[i].phase \in {"Pending", "Running"}
    PROVE  /\ hasNoResult(withStatus(t, copies))
           /\ withStatus(t, copies).spec = t.spec
<1> DEFINE s == getInstanceStatus(t, copies)
<1>1. withStatus(t, copies).status.statuses = s /\ withStatus(t, copies).spec = t.spec
  BY DEF withStatus, TApp, TAppStatus
<1>2. ASSUME NEW i \in Id
      PROVE  s[i] \notin {"Failed", "Succ"}
  <2>1. t.status.statuses[i] \notin {"Failed", "Succ"}
    BY DEF hasNoResult
  <2>2. copies[i] # NoPod => podStatus(t.spec, i, copies[i]) \in {"Pending", "Running"}
    BY DEF podStatus, isPodCompleted
  <2> QED
    BY <2>1, <2>2 DEF getInstanceStatus
<1> QED
  BY <1>1, <1>2 DEF hasNoResult

\* A write of the TApp that keeps its spec
LEMMA TAppWriteRolls ==
    ASSUME Inv, RollInv, NEW t \in TApp, t.spec = tapp.spec, hasNoResult(t), WriteTApp(t),
           UNCHANGED budget,
           cachedTApp'.spec = cachedTApp.spec, hasNoResult(cachedTApp'), hasNoResult(app'),
           KnownSpec(app'.spec),
           pc' # "idle" /\ app'.spec = tapp.spec => cachedTApp.spec = tapp.spec,
           list' \in {list, NoPods}
    PROVE  tapp'.spec = tapp.spec /\ EditInOrder' /\ NoResults'
<1>1. EditInOrder /\ NoResults
  BY DEF RollInv
<1>2. tapp' = t
  BY DEF WriteTApp
<1>3. /\ KnownSpec(tapp.spec)
      /\ KnownSpec(cachedTApp.spec)
      /\ \A x : KnownSpec(x)' <=> KnownSpec(x)
  BY <1>1, <1>2 DEF KnownSpec, EditInOrder
<1>4. \A i \in Id : list'[i] # NoPod => list'[i].phase \in {"Pending", "Running"}
  BY <1>1 DEF NoResults, NoPods
<1>5. CASE tappEvents' = tappEvents
  BY <1>1, <1>2, <1>3, <1>4, <1>5 DEF EditInOrder, NoResults, KnownSpec
<1>6. CASE tappEvents' = Append(tappEvents, t)
  <2> DEFINE n == Len(tappEvents)
  <2>1. /\ tappEvents \in Seq(TApp) /\ n \in Nat /\ DOMAIN tappEvents = 1 .. n
        /\ DOMAIN tappEvents' = 1 .. n + 1 /\ tappEvents'[n + 1] = t
        /\ \A k \in 1 .. n : tappEvents'[k] = tappEvents[k]
    BY <1>6 DEF Inv, TypeOK
  <2>2. ASSUME NEW k \in DOMAIN tappEvents'
        PROVE  /\ KnownSpec(tappEvents'[k].spec) /\ hasNoResult(tappEvents'[k])
               /\ cachedTApp.spec = tapp.spec => tappEvents'[k].spec = tapp.spec
               /\ \A m \in DOMAIN tappEvents' :
                    k < m /\ tappEvents'[k].spec = tapp.spec => tappEvents'[m].spec = tapp.spec
    <3> HIDE DEF n
    <3>1. CASE k = n + 1
      <4>1. \A m \in 1 .. n + 1 : ~(k < m)
        BY <2>1, <3>1
      <4> QED
        BY <1>2, <1>3, <2>1, <3>1, <4>1
    <3>2. CASE k \in 1 .. n
      BY <1>1, <1>3, <2>1, <3>2 DEF EditInOrder, NoResults
    <3> QED
      BY <2>1, <3>1, <3>2
  <2> QED
    BY <1>1, <1>2, <1>3, <1>4, <2>2 DEF EditInOrder, NoResults, KnownSpec
<1> QED
  BY <1>5, <1>6 DEF WriteTApp

\* Sync or an informer goes on and no pod changes
LEMMA QuietRolls ==
    ASSUME RollingUpdate, Inv, RollInv,
           UNCHANGED <<pods, lost, podEvents, cachedPods, nodesSynced, budget>>,
           tapp'.spec = tapp.spec, EditInOrder', NoResults', informed => informed',
           plan' \in {plan, NoPlan},
           \/ UNCHANGED <<pc, list, listed, plan, todo, retry>>
           \/ /\ pc # "conditions" \/ todo = {}
              /\ pc' # "conditions"
              /\ pc' \in {"idle", "preprocess", "preprocessStatus", "list"} => retry' = {}
    PROVE  RollInv'
<1> DEFINE s == tapp.spec
<1>1. Calm' /\ PodsOnTrack' /\ PodsForward'
  BY DEF RollInv, Calm, PodsOnTrack, PodsForward, PodCurrent
<1>2. informed' \/ Untouched'
  BY DEF RollInv, Untouched
<1>3. picks' \subseteq picks
  BY DEF picks, NoPlan
<1>4. PlanRolls'
  BY DEF RollInv, PlanRolls, picks, NoPlan
<1>5. ConditionsRoll'
  <2>1. CASE UNCHANGED <<pc, list, listed, plan, todo, retry>>
    BY <2>1 DEF RollInv, ConditionsRoll, ConditionRolls, gateOf
  <2>2. CASE /\ pc' # "conditions"
             /\ pc' \in {"idle", "preprocess", "preprocessStatus", "list"} => retry' = {}
    BY <2>2 DEF ConditionsRoll
  <2> QED
    BY <2>1, <2>2
<1>6. WithinBudget'
  <2>1. WithinBudget /\ s \in StoredSpecs
    BY DEF RollInv, EditInOrder
  <2> QED
    BY <1>3, <2>1, BudgetKeeps DEF Taken
<1> QED
  BY <1>1, <1>2, <1>4, <1>5, <1>6 DEF RollInv

\* Sync returns and nothing else happens
LEMMA ReturnRolls ==
    ASSUME RollingUpdate, Inv, RollInv, Return, pc # "conditions",
           UNCHANGED <<cluster, watch, caches, budget>>
    PROVE  RollInv'
<1> USE DEF cluster, watch, caches
<1>1. pc' = "idle" /\ app' = InitTApp /\ list' = NoPods /\ plan' = NoPlan /\ retry' = {}
  BY DEF Return
<1>2. EditInOrder' /\ KnownSpec(InitTApp.spec)
  BY <1>1 DEF RollInv, EditInOrder, KnownSpec
<1>3. NoResults'
  BY <1>1 DEF RollInv, NoResults, NoPods, RollingUpdate, hasNoResult
<1>4. informed => informed'
  BY <1>1 DEF informed
<1> QED
  BY <1>1, <1>2, <1>3, <1>4, QuietRolls

\* The first step of Sync keeps the invariant
LEMMA GetTAppRolls ==
    ASSUME RollingUpdate, Inv, RollInv, GetTApp
    PROVE  RollInv'
<1> USE DEF cluster, watch, caches
<1>1. /\ pc = "idle" /\ pc' = "preprocess"
      /\ UNCHANGED <<cluster, watch, caches, list, listed, plan, todo, retry, tries, budget>>
      /\ app' = cachedTApp \/ (TAppCurrent /\ app' = tapp)
  BY DEF GetTApp
<1>2. app'.spec = cachedTApp.spec /\ hasNoResult(app')
  BY <1>1 DEF Inv, TAppWatched, SameSpec, RollInv, NoResults
<1>3. EditInOrder' /\ NoResults'
  BY <1>1, <1>2 DEF RollInv, EditInOrder, KnownSpec, NoResults
<1>4. informed => informed'
  BY <1>1, <1>2 DEF informed
<1>5. retry' = {}
  BY <1>1 DEF RollInv, ConditionsRoll
<1> QED
  BY <1>1, <1>3, <1>4, <1>5, QuietRolls

\* preprocessTApp has nothing to change in a stored spec
LEMMA PreprocessRolls ==
    ASSUME RollingUpdate, Inv, RollInv, preprocessTApp
    PROVE  RollInv'
<1> USE DEF caches
<1>1. /\ pc = "preprocess" /\ budget.faults = 0 /\ retry = {}
      /\ app \in TApp /\ tapp \in TApp /\ fresh \in BOOLEAN
      /\ EditInOrder /\ NoResults
  BY DEF preprocessTApp, RollInv, Calm, ConditionsRoll, Inv, TypeOK
<1>2. preprocessSpec(app.spec) = app.spec
  BY <1>1 DEF EditInOrder, KnownSpec, StoredSpecs, RollingUpdate, isStored
<1>3. preprocessed = [app EXCEPT !.status.scale = TRUE]
  BY <1>2 DEF preprocessed
<1>4. preprocessed \in TApp /\ preprocessed.spec = app.spec /\ hasNoResult(preprocessed)
  BY <1>1, <1>3 DEF TApp, TAppStatus, NoResults, hasNoResult
<1>7. ~statusAnswered
  BY <1>1, <1>3 DEF statusAnswered, TApp
<1> HIDE DEF preprocessed
<1>0. CASE Return /\ UNCHANGED <<tapp, tappEvents, budget>>
  BY <1>0, ReturnRolls DEF preprocessTApp, cluster, watch
<1>5. CASE UNCHANGED <<tapp, tappEvents, locals, budget>> /\ pc' = "list"
  <2>1. EditInOrder' /\ NoResults'
    BY <1>1, <1>5 DEF preprocessTApp, locals, EditInOrder, KnownSpec, NoResults
  <2>2. informed => informed'
    BY <1>1, <1>5 DEF preprocessTApp, locals, informed
  <2> QED
    BY <1>1, <1>5, <2>1, <2>2, QuietRolls DEF preprocessTApp, locals
<1>6. ASSUME NEW r \in Outcome(fresh), Charge(r),
             WriteTApp(IF Applied(r) THEN preprocessed ELSE tapp),
             \/ /\ app' = preprocessed /\ pc' = "list"
                /\ UNCHANGED <<list, listed, plan, todo, retry, tries>>
             \/ Return
      PROVE  RollInv'
  <2> DEFINE t == IF Applied(r) THEN preprocessed ELSE tapp
  <2>1. UNCHANGED budget
    BY <1>1, <1>6, NoFaultOutcome
  <2>2. Applied(r) => fresh
    BY <1>1, <1>6 DEF Outcome, Applied
  <2>3. t \in TApp /\ t.spec = tapp.spec /\ hasNoResult(t)
    BY <1>1, <1>4, <2>2 DEF Inv, TAppWatched, SameSpec, NoResults
  <2>4. UNCHANGED <<pods, lost, podEvents, cachedTApp, cachedPods, nodesSynced>>
    BY DEF preprocessTApp
  <2>5. /\ KnownSpec(app'.spec) /\ hasNoResult(app') /\ list' \in {list, NoPods}
        /\ pc' # "idle" => app'.spec = app.spec
        /\ plan' \in {plan, NoPlan} /\ retry' = {} /\ pc' \in {"idle", "list"}
    BY <1>1, <1>4, <1>6 DEF Return, EditInOrder, KnownSpec, RollingUpdate, hasNoResult
  <2> HIDE DEF t
  <2>6. tapp'.spec = tapp.spec /\ EditInOrder' /\ NoResults'
    <3>1. WriteTApp(t)
      BY <1>6 DEF t
    <3>2. pc' # "idle" /\ app'.spec = tapp.spec => cachedTApp.spec = tapp.spec
      BY <1>1, <2>5 DEF EditInOrder
    <3>3. hasNoResult(cachedTApp')
      BY <1>1, <2>4 DEF NoResults
    <3> QED
      BY <2>1, <2>3, <2>4, <2>5, <3>1, <3>2, <3>3, TAppWriteRolls
  <2>7. informed => informed'
    BY <1>1, <2>4, <2>5, <2>6 DEF informed
  <2> QED
    BY <1>1, <2>1, <2>4, <2>5, <2>6, <2>7, QuietRolls
<1> QED
  BY <1>0, <1>5, <1>6, <1>7 DEF preprocessTApp

\* A Sync that sends back the status it has just been answered changes nothing
LEMMA PreprocessStatusRolls ==
    ASSUME RollingUpdate, Inv, RollInv, preprocessStatus
    PROVE  RollInv'
<1> USE DEF cluster, watch, caches, locals
<1>1. pc = "preprocessStatus" /\ budget.faults = 0 /\ fresh \in BOOLEAN /\ retry = {}
  BY DEF preprocessStatus, RollInv, Calm, ConditionsRoll, Inv, TypeOK
<1>2. UNCHANGED budget
  BY <1>1, NoFaultOutcome DEF preprocessStatus
<1>3. CASE Return
  BY <1>2, <1>3, ReturnRolls DEF preprocessStatus
<1>4. CASE pc' = "list" /\ UNCHANGED locals
  <2>1. UNCHANGED <<cluster, watch, caches>>
    BY DEF preprocessStatus
  <2>2. EditInOrder' /\ NoResults' /\ (informed => informed')
    BY <1>1, <1>2, <1>4, <2>1 DEF RollInv, EditInOrder, KnownSpec, NoResults, informed
  <2> QED
    BY <1>1, <1>2, <1>4, <2>1, <2>2, QuietRolls
<1> QED
  BY <1>3, <1>4 DEF preprocessStatus

\* A round of updateTAppStatus keeps the invariant
LEMMA StatusRolls ==
    ASSUME RollingUpdate, Inv, RollInv, updateTAppStatus
    PROVE  RollInv'
<1> DEFINE src == statusTApp
           new == withStatus(src, list)
           current == IF tries = 0 THEN fresh ELSE TAppCurrent
<1>1. /\ pc = "status" /\ budget.faults = 0 /\ EditInOrder /\ NoResults
      /\ tapp \in TApp /\ src \in TApp /\ hasNoResult(src) /\ list \in PodMap
      /\ UNCHANGED <<pods, lost, podEvents, cachedPods, nodesSynced>>
      /\ cachedTApp' = IF tries = 0 THEN cachedTApp ELSE new
  BY DEF updateTAppStatus, roundTApp, RollInv, Calm, Inv, TypeOK, statusTApp, NoResults
<1>2. PICK r \in Outcome(current) :
        /\ Charge(r)
        /\ WriteTApp(IF Applied(r) THEN [tapp EXCEPT !.status = new.status] ELSE tapp)
        /\ \/ Return
           \/ UNCHANGED <<pc, app, fresh, list, listed, plan, todo, retry>>
  BY Zenon DEF updateTAppStatus, statusOutcome, roundTApp
<1>3. UNCHANGED budget
  <2>1. current \in BOOLEAN
    <3>1. fresh \in BOOLEAN /\ TAppCurrent \in BOOLEAN
      BY DEF Inv, TypeOK, TAppCurrent
    <3> QED
      BY <3>1, Zenon
  <2> HIDE DEF current
  <2> QED
    BY <1>1, <1>2, <2>1, NoFaultOutcome
<1>4. hasNoResult(new) /\ new.spec = src.spec
  BY <1>1, StatusNoResult DEF NoResults
<1>5. cachedTApp'.spec = cachedTApp.spec /\ hasNoResult(cachedTApp')
  BY <1>1, <1>4 DEF statusTApp, NoResults
<1> HIDE DEF new, src, current
<1> DEFINE t == IF Applied(r) THEN [tapp EXCEPT !.status = new.status] ELSE tapp
<1>6. t \in TApp /\ t.spec = tapp.spec /\ hasNoResult(t)
  <2>1. new.status \in TAppStatus
    <3>1. src.spec \in TAppSpec
      BY <1>1 DEF TApp
    <3>2. new \in TApp
      BY <1>1, <3>1, TAppValues DEF new
    <3> QED
      BY <3>2 DEF TApp
  <2> QED
    BY <1>1, <1>4, <2>1 DEF TApp, hasNoResult, NoResults
<1>7. /\ KnownSpec(app'.spec) /\ hasNoResult(app') /\ list' \in {list, NoPods}
      /\ pc' # "idle" => app'.spec = app.spec
      /\ plan' \in {plan, NoPlan} /\ pc' \in {"idle", "status"} /\ (pc' = "idle" => retry' = {})
  BY <1>1, <1>2 DEF Return, EditInOrder, KnownSpec, RollingUpdate, hasNoResult, NoResults
<1>8. tapp'.spec = tapp.spec /\ EditInOrder' /\ NoResults'
  <2>1. WriteTApp(t)
    BY <1>2 DEF t
  <2> HIDE DEF t
  <2>2. pc' # "idle" /\ app'.spec = tapp.spec => cachedTApp.spec = tapp.spec
    BY <1>1, <1>7 DEF EditInOrder
  <2> QED
    BY <1>3, <1>5, <1>6, <1>7, <2>1, <2>2, TAppWriteRolls
<1>9. informed => informed'
  BY <1>1, <1>5, <1>7, <1>8 DEF informed
<1> QED
  BY <1>1, <1>3, <1>7, <1>8, <1>9, QuietRolls

\* Passing a wg.Wait keeps the invariant: whatever is planned has had its gate dealt with
LEMMA WaitsRoll ==
    ASSUME RollingUpdate, Inv, RollInv, WaitConditions \/ WaitInstances \/ FinishInstances
    PROVE  RollInv'
<1> USE DEF cluster, watch, caches, locals
<1>1. CASE FinishInstances /\ Return
  BY <1>1, ReturnRolls DEF FinishInstances
<1>2. CASE \/ WaitConditions \/ WaitInstances
           \/ FinishInstances /\ pc' = "status" /\ UNCHANGED locals
  <2>1. /\ UNCHANGED <<tapp, pods, lost, watch, caches, budget, app, list, plan>>
        /\ pc # "idle" /\ pc' \in {"instances", "updates", "status"}
        /\ pc # "conditions" \/ todo = {}
    BY <1>2 DEF WaitConditions, WaitInstances, FinishInstances
  <2>2. EditInOrder' /\ NoResults' /\ (informed => informed')
    BY <2>1 DEF RollInv, EditInOrder, KnownSpec, NoResults, informed
  <2> QED
    BY <2>1, <2>2, QuietRolls
<1> QED
  BY <1>1, <1>2 DEF FinishInstances

\* An event of the TApp keeps the invariant: the new spec is not followed by the old one
LEMMA DeliverTAppRolls ==
    ASSUME RollingUpdate, Inv, RollInv, DeliverTApp
    PROVE  RollInv'
<1> USE DEF cluster, locals
<1>1. /\ tappEvents \in Seq(TApp) /\ tappEvents # <<>>
      /\ cachedTApp' = Head(tappEvents) /\ tappEvents' = Tail(tappEvents)
      /\ UNCHANGED <<tapp, pods, lost, podEvents, cachedPods, nodesSynced, pc, locals, budget>>
  BY DEF DeliverTApp, Inv, TypeOK
<1>2. EditInOrder /\ NoResults
  BY DEF RollInv
<1>3. PICK n \in Nat :
        /\ DOMAIN tappEvents = 1 .. n + 1 /\ DOMAIN tappEvents' = 1 .. n
        /\ cachedTApp' = tappEvents[1]
        /\ \A k \in 1 .. n : tappEvents'[k] = tappEvents[k + 1]
  <2> DEFINE n == Len(tappEvents) - 1
  <2>1. n \in Nat /\ n + 1 = Len(tappEvents) /\ DOMAIN tappEvents = 1 .. n + 1
    BY <1>1
  <2>2. cachedTApp' = tappEvents[1]
    BY <1>1
  <2>3. DOMAIN tappEvents' = 1 .. n /\ \A k \in 1 .. n : tappEvents'[k] = tappEvents[k + 1]
    BY <1>1, <2>1, HeadTailProperties
  <2> QED
    BY <2>1, <2>2, <2>3
<1>4. KnownSpec(cachedTApp'.spec) /\ hasNoResult(cachedTApp')
  BY <1>2, <1>3 DEF EditInOrder, NoResults
<1>5. cachedTApp.spec = tapp.spec => cachedTApp'.spec = tapp.spec
  BY <1>2, <1>3 DEF EditInOrder
<1>6. ASSUME NEW k \in DOMAIN tappEvents'
      PROVE  /\ KnownSpec(tappEvents'[k].spec) /\ hasNoResult(tappEvents'[k])
             /\ cachedTApp'.spec = tapp.spec => tappEvents'[k].spec = tapp.spec
             /\ \A m \in DOMAIN tappEvents' :
                  k < m /\ tappEvents'[k].spec = tapp.spec => tappEvents'[m].spec = tapp.spec
  <2>1. /\ k + 1 \in DOMAIN tappEvents /\ 1 \in DOMAIN tappEvents /\ 1 < k + 1
        /\ tappEvents'[k] = tappEvents[k + 1]
    BY <1>3
  <2>2. ASSUME NEW m \in DOMAIN tappEvents', k < m
        PROVE  m + 1 \in DOMAIN tappEvents /\ k + 1 < m + 1 /\ tappEvents'[m] = tappEvents[m + 1]
    BY <1>3, <2>2
  <2> QED
    BY <1>2, <1>3, <2>1, <2>2 DEF EditInOrder, NoResults
<1>7. EditInOrder' /\ NoResults'
  BY <1>1, <1>2, <1>4, <1>5, <1>6 DEF EditInOrder, NoResults, KnownSpec
<1>8. informed => informed'
  BY <1>1, <1>5 DEF informed
<1> QED
  BY <1>1, <1>7, <1>8, QuietRolls

\* An event of a pod keeps the invariant
LEMMA DeliverPodRolls ==
    ASSUME RollingUpdate, Inv, RollInv, DeliverPod
    PROVE  RollInv'
<1> DEFINE s == tapp.spec
<1>1. /\ podEvents # <<>> /\ s \in StoredSpecs
      /\ UNCHANGED <<tapp, pods, lost, tappEvents, cachedTApp, nodesSynced, pc, locals, budget>>
  BY DEF DeliverPod, cluster, RollInv, EditInOrder
<1> USE DEF locals
<1>2. /\ PodsOnTrack' /\ PodsForward'
      /\ \A j \in Id : UpTo(s, j, cachedPods[j], cachedPods'[j])
  BY DeliverRolls DEF RollInv
<1>3. Calm' /\ EditInOrder' /\ NoResults' /\ informed' /\ PlanRolls'
  BY <1>1 DEF RollInv, Calm, EditInOrder, KnownSpec, NoResults, informed, Untouched, PlanRolls,
              picks
<1>4. ASSUME NEW i \in todo', pc' = "conditions"
      PROVE  ConditionRolls(i)'
  <2>1. ConditionRolls(i) /\ i \in Id
    BY <1>1, <1>4 DEF RollInv, ConditionsRoll, Inv, TypeOK
  <2>2. UpTo(s, i, cachedPods[i], cachedPods'[i])
    BY <1>2, <2>1
  <2>3. stage(s, i, cachedPods[i]) <= stage(s, i, cachedPods'[i])
    BY <2>2, Later
  <2>4. gateOf(i)' = gateOf(i)
    BY <1>1 DEF gateOf
  <2>5. UpTo(s, i, list[i], cachedPods[i]) => UpTo(s, i, list[i], cachedPods'[i])
    BY <2>2, Later
  <2>6. isThrough(s, i, cachedPods[i]) => isThrough(s, i, cachedPods'[i])
    BY <2>3, StageRange DEF isThrough
  <2>7. stage(s, i, cachedPods[i]) >= 2 => stage(s, i, cachedPods'[i]) >= 2
    BY <2>3, StageRange
  <2> QED
    BY <1>1, <2>1, <2>4, <2>5, <2>6, <2>7 DEF ConditionRolls
<1>5. ConditionsRoll'
  BY <1>1, <1>4 DEF RollInv, ConditionsRoll
<1>6. WithinBudget'
  BY <1>1, BudgetKeeps DEF RollInv, Taken, picks
<1> QED
  BY <1>2, <1>3, <1>5, <1>6 DEF RollInv

\* A crash keeps the invariant: the plan is gone, and the caches are read anew
LEMMA CrashRolls ==
    ASSUME RollingUpdate, Inv, RollInv, Crash
    PROVE  RollInv'
<1> DEFINE s == tapp.spec
<1>1. /\ UNCHANGED <<tapp, pods, lost>> /\ s \in StoredSpecs
      /\ cachedTApp' = tapp /\ cachedPods' = pods /\ nodesSynced' = NodesSyncedAtStart
      /\ tappEvents' = <<>> /\ podEvents' = <<>>
      /\ pc' = "idle" /\ app' = InitTApp /\ list' = NoPods /\ plan' = NoPlan /\ retry' = {}
  BY DEF Crash, cluster, Return, RollInv, EditInOrder
<1>2. /\ budget'.edits = budget.edits /\ budget'.faults = budget.faults
      /\ budget'.exits = budget.exits /\ budget'.losses = budget.losses
  BY DEF Crash, Inv, TypeOK, BudgetType
<1>3. Calm'
  BY <1>1, <1>2 DEF RollInv, Calm, RollingUpdate
<1>4. EditInOrder'
  BY <1>1, <1>2 DEF RollInv, EditInOrder, KnownSpec
<1>5. NoResults'
  BY <1>1 DEF RollInv, NoResults, NoPods, RollingUpdate, hasNoResult
<1>6. informed'
  BY <1>1 DEF informed
<1>7. PodsOnTrack' /\ PodsForward'
  <2>1. DOMAIN podEvents' = {}
    BY <1>1
  <2>2. \A i \in Id : UpTo(s, i, pods[i], pods[i]) /\ OnTrack(s, i, pods[i])
    BY Later DEF RollInv, PodsOnTrack
  <2>3. \A i \in Id : stage(s, i, pods[i]) >= 4 => stage(s, i, pods[i]) >= 3
    BY StageRange
  <2> QED
    BY <1>1, <2>1, <2>2, <2>3 DEF PodsOnTrack, PodsForward
<1>8. PlanRolls' /\ ConditionsRoll'
  BY <1>1 DEF PlanRolls, ConditionsRoll, picks, NoPlan
<1>9. WithinBudget'
  <2>1. picks' = {}
    BY <1>1 DEF picks, NoPlan
  <2> QED
    BY <1>1, <2>1, BudgetKeeps DEF RollInv, Taken
<1> QED
  BY <1>3, <1>4, <1>5, <1>6, <1>7, <1>8, <1>9 DEF RollInv

\* The pods at the start have stage 0, wherever the TApp goes
LEMMA StageZero ==
    ASSUME RollingUpdate, NEW spec \in StoredSpecs, NEW i \in Id
    PROVE  stage(spec, i, InitPods[i]) = 0
<1>1. changing(spec, i) => isSettled(InitPods[i], origin(i))
  BY DEF changing, RollingUpdate
<1> QED
  BY <1>1, NullAssumption DEF stage, isSettled

\* While the spec is the first one, nothing has happened yet
LEMMA BeforeEdit ==
    ASSUME RollingUpdate, Inv, RollInv, tapp.spec = InitTApp.spec
    PROVE  /\ Untouched
           /\ \A i \in Id : ~changing(tapp.spec, i)
           /\ pc = "conditions" => \A i \in todo :
                /\ i \notin retry => list[i] = InitPods[i]
                /\ i \in retry => gateOf(i) # "True"
                /\ list[i] # NoPod /\ ~isUpdating(list[i])
<1> DEFINE s == tapp.spec
<1>1. \A i : ~changing(s, i) /\ \A pod : stage(s, i, pod) = 0
  BY DEF changing, origin, target, stage
<1>2. pods = InitPods /\ cachedPods = InitPods
  <2>1. \A i \in Id : pods[i] = InitPods[i] /\ cachedPods[i] = InitPods[i]
    BY <1>1 DEF RollInv, PodsOnTrack, OnTrack
  <2>2. pods \in PodMap /\ cachedPods \in PodMap /\ InitPods \in PodMap
    BY InitAssumption DEF Inv, TypeOK
  <2> QED
    BY <2>1, <2>2 DEF PodMap
<1>3. podEvents = <<>>
  <2>1. podEvents \in Seq(PodEvent)
    BY DEF Inv, TypeOK
  <2>2. \A k \in DOMAIN podEvents : FALSE
    BY <1>1 DEF RollInv, PodsForward, Precedes
  <2>3. podEvents # <<>> => Len(podEvents) \in Nat /\ Len(podEvents) >= 1
    BY <2>1
  <2>4. DOMAIN podEvents = 1 .. Len(podEvents)
    BY <2>1
  <2> QED
    BY <2>2, <2>3, <2>4
<1>4. plan = NoPlan
  <2>1. plan.add = {} /\ plan.del = {} /\ plan.forceDel = {} /\ plan.update = {}
    BY <1>1 DEF RollInv, PlanRolls
  <2> QED
    BY <2>1 DEF Inv, TypeOK, InstancePlan, NoPlan
<1>5. ASSUME pc = "conditions", NEW i \in todo
      PROVE  /\ i \notin retry => list[i] = InitPods[i]
             /\ i \in retry => gateOf(i) # "True"
             /\ list[i] # NoPod /\ ~isUpdating(list[i])
  <2>1. ConditionRolls(i)
    BY <1>5 DEF RollInv, ConditionsRoll
  <2>2. ~isThrough(s, i, cachedPods[i])
    BY <1>1 DEF isThrough
  <2> QED
    BY <1>1, <2>1, <2>2 DEF ConditionRolls, OnTrack
<1> QED
  BY <1>1, <1>2, <1>3, <1>4, <1>5 DEF Untouched

\* The edit finds everything untouched
LEMMA EditRolls ==
    ASSUME RollingUpdate, Inv, RollInv, UserEdit
    PROVE  RollInv'
<1> USE DEF caches
<1>1. PICK s \in Specs \ {tapp.spec} : WriteTApp([tapp EXCEPT !.gen = @ + 1, !.spec = s])
  BY DEF UserEdit
<1> DEFINE t == [tapp EXCEPT !.gen = @ + 1, !.spec = s]
<1>2. /\ budget.edits > 0 /\ budget' = [budget EXCEPT !.edits = @ - 1]
      /\ UNCHANGED <<pods, lost, podEvents, cachedTApp, cachedPods, nodesSynced, pc,
                     app, list, listed, plan, todo, retry, tries>>
  BY DEF UserEdit
<1>3. EditInOrder /\ NoResults /\ Calm /\ s \in StoredSpecs
  BY DEF RollInv, StoredSpecs
<1>4. /\ budget'.edits = 0 /\ budget'.faults = 0 /\ budget'.exits = 0 /\ budget'.losses = 0
      /\ tapp.spec = InitTApp.spec
  BY <1>2, <1>3 DEF Calm, EditInOrder, Inv, TypeOK, BudgetType
<1>5. t.spec = s /\ t # tapp /\ t.status = tapp.status
  BY DEF Inv, TypeOK, TApp
<1> HIDE DEF t
<1>6. tapp' = t /\ tappEvents' = Append(tappEvents, t)
  BY <1>1, <1>5 DEF WriteTApp, t
<1>7. /\ Untouched
      /\ pc = "conditions" => \A i \in todo :
           /\ i \notin retry => list[i] = InitPods[i]
           /\ i \in retry => gateOf(i) # "True"
           /\ list[i] # NoPod /\ ~isUpdating(list[i])
  BY <1>4, BeforeEdit
<1>8. Calm'
  BY <1>2, <1>3, <1>4 DEF Calm
<1>9. EditInOrder' /\ NoResults'
  <2> DEFINE n == Len(tappEvents)
  <2>1. /\ n \in Nat /\ DOMAIN tappEvents = 1 .. n
        /\ DOMAIN tappEvents' = 1 .. n + 1 /\ tappEvents'[n + 1] = t
        /\ \A k \in 1 .. n : tappEvents'[k] = tappEvents[k]
    <3>1. tappEvents \in Seq(TApp) /\ t \in TApp
      <4>1. /\ s \in TAppSpec /\ tapp \in TApp /\ list \in PodMap
            /\ tappEvents \in Seq(TApp)
        BY <1>3, SpecFacts DEF Inv, TypeOK
      <4>2. t \in TApp
        BY <4>1, TAppValues DEF t
      <4> QED
        BY <4>1, <4>2
    <3> QED
      BY <1>6, <3>1
  <2> HIDE DEF n
  <2>2. /\ cachedTApp.spec = InitTApp.spec /\ app.spec = InitTApp.spec
        /\ \A k \in 1 .. n : tappEvents'[k].spec = InitTApp.spec /\ hasNoResult(tappEvents'[k])
        /\ hasNoResult(t) /\ s # InitTApp.spec
    BY <1>3, <1>4, <1>5, <2>1 DEF EditInOrder, KnownSpec, NoResults, hasNoResult
  <2>3. ASSUME NEW k \in DOMAIN tappEvents'
        PROVE  /\ tappEvents'[k].spec \in {InitTApp.spec, s} /\ hasNoResult(tappEvents'[k])
               /\ \A m \in DOMAIN tappEvents' :
                    k < m /\ tappEvents'[k].spec = s => tappEvents'[m].spec = s
    <3>1. CASE k \in 1 .. n
      BY <2>2, <3>1
    <3>2. CASE k = n + 1
      <4>1. \A m \in 1 .. n + 1 : ~(k < m)
        BY <2>1, <3>2
      <4> QED
        BY <1>5, <2>1, <2>2, <3>2, <4>1
    <3> QED
      BY <2>1, <3>1, <3>2
  <2>4. EditInOrder'
    BY <1>2, <1>3, <1>4, <1>5, <1>6, <2>2, <2>3 DEF EditInOrder, KnownSpec
  <2>5. NoResults'
    BY <1>2, <1>3, <1>6, <2>2, <2>3 DEF NoResults
  <2> QED
    BY <2>4, <2>5
<1>10. Untouched' /\ \A i \in Id : stage(s, i, InitPods[i]) = 0
  BY <1>2, <1>3, <1>7, StageZero DEF Untouched
<1>11. PodsOnTrack' /\ PodsForward'
  <2>1. DOMAIN podEvents' = {} /\ pods' = InitPods /\ cachedPods' = InitPods /\ tapp'.spec = s
    BY <1>5, <1>6, <1>10 DEF Untouched
  <2>2. \A i \in Id : /\ UpTo(s, i, InitPods[i], InitPods[i]) /\ OnTrack(s, i, InitPods[i])
                      /\ ~(stage(s, i, InitPods[i]) >= 4)
    BY <1>10 DEF UpTo, OnTrack
  <2> QED
    BY <2>1, <2>2 DEF PodsOnTrack, PodsForward
<1>12. PlanRolls'
  BY <1>10 DEF Untouched, PlanRolls, picks, NoPlan
<1>13. ASSUME pc' = "conditions", NEW i \in todo'
       PROVE  ConditionRolls(i)'
  <2>1. /\ pc = "conditions" /\ i \in todo /\ i \in Id /\ ConditionRolls(i)
        /\ gateOf(i)' = gateOf(i)
    BY <1>2, <1>13 DEF Inv, TypeOK, RollInv, ConditionsRoll, gateOf
  <2>2. /\ pods'[i] = InitPods[i] /\ cachedPods'[i] = InitPods[i]
        /\ tapp'.spec = s /\ stage(s, i, InitPods[i]) = 0
    BY <1>5, <1>6, <1>10, <2>1 DEF Untouched
  <2>3. list[i] = InitPods[i] => list[i].gate = "True"
    BY <2>1, <1>7 DEF RollingUpdate, isSettled
  <2> QED
    BY <1>2, <1>7, <2>1, <2>2, <2>3, Later DEF ConditionRolls, OnTrack
<1>14. ConditionsRoll'
  BY <1>2, <1>13 DEF RollInv, ConditionsRoll
<1>15. WithinBudget'
  <2>1. Taken' = {}
    BY <1>5, <1>6, <1>10 DEF Taken, Untouched, picks, NoPlan
  <2>2. Kept' = Instances
    BY <2>1 DEF Kept
  <2>3. allowed(s) \in Nat /\ Cardinality(Instances) \in Nat
    BY <1>3, Allowed
  <2> QED
    BY <1>5, <1>6, <2>2, <2>3 DEF WithinBudget
<1> QED
  BY <1>8, <1>9, <1>10, <1>11, <1>12, <1>14, <1>15 DEF RollInv

-----------------------------------------------------------------------------
(* The plan of one Sync *)

\* What the plan sees of a pod tells its stage
LEMMA SeenStage ==
    ASSUME RollingUpdate, NEW spec \in StoredSpecs, NEW i \in Id, NEW pod, pod # NoPod,
           OnTrack(spec, i, pod)
    PROVE  /\ i \in Instances
           /\ isUpdating(pod) => stage(spec, i, pod) >= 2
           /\ stage(spec, i, pod) <= 1 /\ changing(spec, i) =>
                IF stage(spec, i, pod) = 0 THEN isSettled(pod, origin(i))
                                           ELSE isDrained(pod, origin(i))
           /\ pod.ready = "True" /\ ~isPodInActive(pod) /\ changing(spec, i) =>
                stage(spec, i, pod) \in {0, 5}
           /\ pod.gate # "True" /\ ~isThrough(spec, i, pod) =>
                \/ changing(spec, i) /\ stage(spec, i, pod) <= 1 /\ pod.ready # "True"
                \/ pod.phase = "Running" /\ isUpdating(pod)
<1>1. Shape(spec, i, pod)
  BY ShapeOf
<1>2. i \in Instances
  BY <1>1 DEF Shape, changing, RollingUpdate
<1>3. isSettled(InitPods[i], origin(i))
  BY <1>2 DEF RollingUpdate
<1>4. CASE ~changing(spec, i) /\ pod = InitPods[i] /\ stage(spec, i, pod) = 0
  BY <1>2, <1>3, <1>4 DEF isSettled, isUpdating
<1>5. CASE /\ changing(spec, i) /\ isSettled(pod, origin(i))
           /\ stage(spec, i, pod) = 0
  BY <1>2, <1>5 DEF isSettled, isUpdating
<1>6. CASE /\ changing(spec, i) /\ isDrained(pod, origin(i))
           /\ stage(spec, i, pod) = 1
  BY <1>2, <1>6 DEF isDrained, isUpdating
<1>7. CASE ~inPlace(spec, i) /\ dyingPod(i, pod) /\ stage(spec, i, pod) = 2
  BY <1>2, <1>7 DEF dyingPod, isPodInActive, isThrough
<1>8. CASE /\ ~inPlace(spec, i) /\ createdPod(spec, i, pod)
           /\ stage(spec, i, pod) = IF pod.ready = "True" THEN 5 ELSE 4
  BY <1>2, <1>8 DEF isThrough
<1>9. CASE /\ inPlace(spec, i) /\ updatedPod(spec, i, pod)
           /\ stage(spec, i, pod) = IF pod.ready = "True" THEN 5
                                    ELSE IF pod.run = target(spec, i).image THEN 3 ELSE 2
  <2>1. stage(spec, i, pod) # 2 => isThrough(spec, i, pod)
    BY <1>9 DEF isThrough
  <2>2. stage(spec, i, pod) = 2 => pod.phase = "Running" /\ isUpdating(pod)
    BY <1>9 DEF updatedPod, isUpdating
  <2> QED
    BY <1>2, <1>9, <2>1, <2>2
<1> QED
  BY <1>1, <1>4, <1>5, <1>6, <1>7, <1>8, <1>9 DEF Shape

\* The rolling pass looks at the cache, and what it takes beyond what was taken before
\* leaves enough instances that still serve or have finished
LEMMA PickKeepsBudget ==
    ASSUME RollingUpdate, Inv, RollInv, UNCHANGED <<tapp, pods>>, picks = {},
           picks' = RollPick(outdated(tapp.spec, cachedPods),
                             getAvailablePods(cachedPods, Instances),
                             Cardinality(Instances) - allowed(tapp.spec))
    PROVE  WithinBudget'
<1> DEFINE s   == tapp.spec
           R   == outdated(s, cachedPods)
           A   == getAvailablePods(cachedPods, Instances)
           min == Cardinality(Instances) - allowed(s)
<1>1. s \in StoredSpecs
  BY DEF RollInv, EditInOrder
<1>2. /\ Instances \subseteq Id /\ IsFiniteSet(Instances) /\ Cardinality(Instances) \in Nat
      /\ allowed(s) \in Nat /\ A \subseteq Instances /\ R \subseteq Id /\ Id \subseteq Int
  BY <1>1, SpecFacts, Allowed, MaxReplicasAssumption DEF getAvailablePods, outdated, Id
<1>3. \A i \in Id : /\ stage(s, i, cachedPods[i]) <= stage(s, i, pods[i])
                    /\ stage(s, i, pods[i]) \in 0 .. 5 /\ stage(s, i, cachedPods[i]) \in 0 .. 5
                    /\ OnTrack(s, i, cachedPods[i])
  BY Later, StageRange DEF RollInv, PodsForward, PodsOnTrack
<1>4. /\ Taken' = {i \in Id : stage(s, i, pods[i]) >= 1} \cup picks'
      /\ Taken = {i \in Id : stage(s, i, pods[i]) >= 1}
  BY DEF Taken
<1>5. Kept' = {i \in Instances : \/ ~changing(s, i) \/ stage(s, i, pods[i]) = 5
                                 \/ \A j \in Taken' : j < i}
  BY DEF Kept
<1>6. picks' \subseteq R /\ Taken' \subseteq Id /\ Taken \subseteq Id
  BY <1>2, <1>4 DEF RollPick
<1>7. /\ IsFiniteSet(Kept') /\ Cardinality(Kept') \in Nat
      /\ IsFiniteSet(A) /\ Cardinality(Kept) \in Nat
  <2>1. Kept' \subseteq Instances /\ Kept \subseteq Instances
    BY <1>5 DEF Kept
  <2> QED
    BY <1>2, <2>1, FS_Subset, FS_CardinalityType
<1>8. ASSUME Kept \subseteq Kept'
      PROVE  WithinBudget'
  <2>1. Cardinality(Kept) <= Cardinality(Kept')
    BY <1>7, <1>8, FS_Subset
  <2>2. Cardinality(Instances) - Cardinality(Kept) <= allowed(s)
    BY DEF RollInv, WithinBudget
  <2> QED
    BY <1>2, <1>7, <2>1, <2>2 DEF WithinBudget
<1>9. CASE Taken' = {}
  BY <1>5, <1>8, <1>9 DEF Kept
<1>10. ASSUME NEW p \in Taken', \A q \in Taken' : q <= p
       PROVE  WithinBudget'
  <2>1. p \in Id /\ p \in Int
    BY <1>2, <1>6
  <2>2. CASE p \in Taken
    <3>1. \A i \in Id : (\A j \in Taken : j < i) => (\A j \in Taken' : j < i)
      <4> SUFFICES ASSUME NEW i \in Id, \A j \in Taken : j < i, NEW j \in Taken'
                   PROVE  j < i
        OBVIOUS
      <4>1. i \in Int /\ j \in Int /\ j <= p /\ p < i
        BY <1>2, <1>6, <1>10, <2>2
      <4> QED
        BY <2>1, <4>1
    <3>2. Kept \subseteq Kept'
      BY <1>2, <1>5, <3>1 DEF Kept
    <3> QED
      BY <1>8, <3>2
  <2>3. CASE p \notin Taken
    <3> DEFINE B == A \ {q \in R : q < p}
    <3>1. p \in R /\ stage(s, p, pods[p]) = 0 /\ (p \in A => Cardinality(B) > min)
      BY <1>3, <1>4, <1>6, <2>1, <2>3 DEF RollPick
    <3>2. p \in A
      <4>1. changing(s, p) /\ stage(s, p, cachedPods[p]) = 0
        BY <1>3, <2>1, <3>1 DEF outdated
      <4>2. cachedPods[p] # NoPod
        BY <4>1 DEF stage
      <4>3. isSettled(cachedPods[p], origin(p)) /\ p \in Instances
        BY <1>1, <1>3, <2>1, <4>1, <4>2, SeenStage
      <4> QED
        BY <4>2, <4>3 DEF getAvailablePods, isSettled, isPodInActive, isUpdating
    <3>3. B \subseteq Kept' \cup {p}
      <4> SUFFICES ASSUME NEW b \in B, b # p, changing(s, b), stage(s, b, pods[b]) # 5
                   PROVE  \A j \in Taken' : j < b
        BY <1>2, <1>5
      <4>1. /\ b \in Id /\ b \in Int /\ cachedPods[b] # NoPod
            /\ cachedPods[b].ready = "True" /\ ~isPodInActive(cachedPods[b])
        BY <1>2 DEF getAvailablePods
      <4>2. stage(s, b, cachedPods[b]) = 0
        <5>1. stage(s, b, cachedPods[b]) \in {0, 5}
          BY <1>1, <1>3, <4>1, SeenStage
        <5> QED
          BY <1>3, <4>1, <5>1
      <4>3. b \in R
        BY <4>1, <4>2 DEF outdated
      <4>4. p < b
        <5>1. ~(b < p)
          BY <4>3
        <5> QED
          BY <2>1, <4>1, <5>1
      <4> HIDE DEF B
      <4> SUFFICES ASSUME NEW j \in Taken' PROVE j < b
        OBVIOUS
      <4>5. j \in Int /\ j <= p
        BY <1>2, <1>6, <1>10
      <4> QED
        BY <2>1, <4>1, <4>4, <4>5
    <3>4. Cardinality(B) > min
      BY <3>1, <3>2
    <3> HIDE DEF B, A, R
    <3>5. /\ IsFiniteSet(Kept' \cup {p})
          /\ Cardinality(Kept' \cup {p}) \in Nat
          /\ Cardinality(Kept' \cup {p}) <= Cardinality(Kept') + 1
      <4>1. /\ IsFiniteSet(Kept' \cup {p})
            /\ Cardinality(Kept' \cup {p}) =
                 IF p \in Kept' THEN Cardinality(Kept') ELSE Cardinality(Kept') + 1
        BY <1>7, FS_AddElement
      <4> QED
        BY <1>7, <4>1
    <3>6. Cardinality(B) \in Nat /\ Cardinality(B) <= Cardinality(Kept' \cup {p})
      <4>1. IsFiniteSet(B)
        BY <3>3, <3>5, FS_Subset
      <4> QED
        BY <3>3, <3>5, <4>1, FS_Subset, FS_CardinalityType
    <3>7. Cardinality(Instances) - Cardinality(Kept') <= allowed(s)
      BY <1>2, <1>7, <3>4, <3>5, <3>6
    <3> QED
      BY <3>7 DEF WithinBudget
  <2> QED
    BY <2>2, <2>3
<1> QED
  BY <1>6, <1>9, <1>10, LargestId

\* ListPods plans from a cache that may be behind and still keeps the invariant
LEMMA ListPodsRolls ==
    ASSUME RollingUpdate, Inv, RollInv, ListPods
    PROVE  RollInv'
<1> DEFINE s == tapp.spec
           seen == cachedPods
           C == RollPick(outdated(app.spec, seen), getAvailablePods(seen, Instances),
                         Cardinality(Instances) - allowed(app.spec))
<1> USE DEF cluster, watch, caches
<1>1. CASE appFinished /\ Return
  <2>1. pc = "list" /\ UNCHANGED <<cluster, watch, caches, budget>>
    BY DEF ListPods
  <2> QED
    BY <1>1, <2>1, ReturnRolls
<1>2. CASE /\ list' = seen /\ listed' = {i \in Id : PodCurrent(i)}
           /\ plan' \in instanceToSync(app, seen, NoNode)
           /\ todo' = {i \in Id : seen[i] # NoPod}
           /\ pc' = "conditions" /\ UNCHANGED <<app, fresh, retry, tries>>
  <2>1. /\ pc = "list" /\ retry = {} /\ picks = {} /\ NoNode = {}
        /\ UNCHANGED <<tapp, pods, lost, tappEvents, podEvents, cachedTApp, cachedPods,
                       nodesSynced, budget>>
    BY DEF ListPods, RollInv, ConditionsRoll, Calm, NoNode, Inv, PlanBacked, picks, NoPlan
  <2>2. /\ app \in TApp /\ seen \in PodMap /\ plan' \in InstancePlan
        /\ EditInOrder /\ NoResults /\ PodsOnTrack /\ PodsForward
    BY ListPodsKeeps DEF Inv, TypeOK, RollInv
  <2>3. s \in StoredSpecs /\ app.spec \in StoredSpecs /\ hasNoResult(app)
    BY <2>2 DEF EditInOrder, KnownSpec, StoredSpecs, NoResults
  <2>4. /\ Calm' /\ EditInOrder' /\ PodsOnTrack' /\ PodsForward'
        /\ Untouched => pods' = InitPods /\ cachedPods' = InitPods /\ podEvents' = <<>>
        /\ informed => informed'
    BY <1>2, <2>1 DEF RollInv, Calm, EditInOrder, KnownSpec, PodsOnTrack, PodsForward,
                      PodCurrent, Untouched, informed
  <2>5. ~informed => Untouched /\ app.spec = InitTApp.spec
    BY <2>1, <2>2 DEF RollInv, informed, EditInOrder, KnownSpec
  <2>6. /\ \A i \in Id : OnTrack(app.spec, i, seen[i])
        /\ informed => app.spec = s
    <3>1. informed => app.spec = s
      BY <2>1 DEF informed
    <3> QED
      BY <2>2, <2>5, <3>1 DEF PodsOnTrack, Untouched, OnTrack
  <2>7. /\ plan'.forceDel = {}
        /\ \A i \in plan'.add : /\ i \in Id /\ seen[i] = NoPod
                                /\ changing(app.spec, i) /\ ~inPlace(app.spec, i)
        /\ plan'.del = {i \in C : ~inPlace(app.spec, i)}
        /\ plan'.update = {i \in C : inPlace(app.spec, i)}
        /\ picks' = C
    <3>1. /\ plan'.forceDel = {}
          /\ \A i \in plan'.add : /\ i \in Id /\ seen[i] = NoPod
                                  /\ changing(app.spec, i) /\ ~inPlace(app.spec, i)
          /\ plan'.del = {i \in C : ~inPlace(app.spec, i)}
          /\ plan'.update = {i \in C : inPlace(app.spec, i)}
      BY <1>2, <2>1, <2>2, <2>3, <2>6, RollPlan
    <3> HIDE DEF C
    <3>2. picks' = C
      BY <3>1 DEF picks
    <3> QED
      BY <3>1, <3>2
  <2>8. /\ \A i \in C : i \in Id /\ changing(app.spec, i) /\ stage(app.spec, i, seen[i]) <= 1
        /\ \A i \in Id :
             changing(app.spec, i) /\ stage(app.spec, i, seen[i]) <= 1
               /\ seen[i].ready # "True" => i \in C
    <3>1. C \subseteq outdated(app.spec, seen)
      BY DEF RollPick
    <3>2. ASSUME NEW i \in outdated(app.spec, seen), seen[i].ready # "True"
          PROVE  i \in C
      BY <3>2 DEF RollPick, getAvailablePods
    <3> HIDE DEF C
    <3> QED
      BY <3>1, <3>2 DEF outdated
  <2> HIDE DEF C
  <2>9. ~informed => plan' = NoPlan
    <3> SUFFICES ASSUME ~informed PROVE plan' = NoPlan
      OBVIOUS
    <3>1. \A i : ~changing(app.spec, i)
      BY <2>5 DEF changing, target, origin
    <3>2. plan'.add = {} /\ plan'.del = {} /\ plan'.forceDel = {} /\ plan'.update = {}
      BY <2>7, <2>8, <3>1
    <3> QED
      BY <2>2, <3>2 DEF InstancePlan, NoPlan
  <2>10. informed' \/ Untouched'
    BY <2>4, <2>5, <2>9 DEF Untouched
  <2>11. NoResults'
    <3>1. ASSUME NEW i \in Id, seen[i] # NoPod
          PROVE  seen[i].phase \in {"Pending", "Running"}
      <4>1. Shape(s, i, seen[i])
        BY <2>2, <2>3, ShapeOf DEF PodsOnTrack
      <4> QED
        BY <3>1, <4>1 DEF Shape, RollingUpdate, isSettled, isDrained, dyingPod, createdPod,
                          updatedPod
    <3> QED
      BY <1>2, <2>1, <2>2, <3>1 DEF NoResults
  <2>12. PlanRolls'
    <3>1. CASE ~informed
      BY <2>9, <3>1 DEF PlanRolls, picks, NoPlan
    <3>2. CASE informed
      <4>1. app.spec = s
        BY <2>6, <3>2
      <4>2. plan'.add \cap plan'.del = {}
        BY <2>7, <2>8, <4>1 DEF stage
      <4>3. ASSUME NEW i \in picks'
            PROVE  stage(s, i, pods'[i]) <= 3 /\ pc' = "conditions" /\ i \in todo'
        <5>1. i \in Id /\ changing(s, i) /\ stage(s, i, seen[i]) <= 1
          BY <2>7, <2>8, <4>1, <4>3
        <5>2. stage(s, i, pods[i]) >= 4 => stage(s, i, seen[i]) >= 3
          BY <2>2, <5>1 DEF PodsForward
        <5>3. stage(s, i, pods[i]) <= 3
          BY <5>1, <5>2, StageRange
        <5>4. seen[i] # NoPod
          BY <5>1 DEF stage
        <5> QED
          BY <1>2, <2>1, <5>1, <5>3, <5>4
      <4>4. \A i \in C : changing(s, i)
        BY <2>8, <4>1
      <4> QED
        BY <2>1, <2>7, <4>1, <4>2, <4>3, <4>4 DEF PlanRolls
    <3> QED
      BY <3>1, <3>2
  <2>13. ASSUME NEW i \in todo'
         PROVE  ConditionRolls(i)'
    <3>1. /\ i \in Id /\ seen[i] # NoPod /\ OnTrack(s, i, seen[i]) /\ i \notin retry'
          /\ i \in listed' => seen[i] = pods[i]
          /\ stage(s, i, pods[i]) >= 4 => stage(s, i, seen[i]) >= 3
          /\ UpTo(s, i, seen[i], seen[i])
      BY <1>2, <2>1, <2>2, <2>13, Later DEF PodsOnTrack, PodsForward
    <3>2. gateOf(i)' = IF i \in picks' \/ (seen[i].phase = "Running" /\ isUpdating(seen[i]))
                       THEN "False" ELSE "True"
      BY <1>2 DEF gateOf, picks
    <3>3. isUpdating(seen[i]) => stage(s, i, seen[i]) >= 2
      BY <2>3, <3>1, SeenStage
    <3>4. gateOf(i)' = "False" => stage(s, i, pods[i]) <= 3
      <4>1. i \in picks' => stage(s, i, pods[i]) <= 3
        BY <2>1, <2>12 DEF PlanRolls
      <4>2. isUpdating(seen[i]) => stage(s, i, pods[i]) <= 3
        <5>1. isUpdating(seen[i]) => stage(s, i, seen[i]) \in {0, 1, 2}
          <6>1. Shape(s, i, seen[i])
            BY <2>3, <3>1, ShapeOf
          <6> QED
            BY <3>1, <6>1 DEF Shape, createdPod, updatedPod, isUpdating, dyingPod
        <5> QED
          BY <3>1, <5>1, StageRange
      <4> QED
        BY <3>2, <4>1, <4>2
    <3>5. gateOf(i)' = "True" /\ seen[i].gate # "True" => isThrough(s, i, seen[i])
      <4> SUFFICES ASSUME gateOf(i)' = "True", seen[i].gate # "True",
                          ~isThrough(s, i, seen[i])
                   PROVE  FALSE
        OBVIOUS
      <4>1. ~(seen[i].phase = "Running" /\ isUpdating(seen[i])) /\ i \notin picks'
        BY <3>2
      <4>2. changing(s, i) /\ stage(s, i, seen[i]) <= 1 /\ seen[i].ready # "True"
        BY <2>3, <3>1, <4>1, SeenStage
      <4>3. informed
        <5>1. Untouched => seen[i] = InitPods[i]
          BY DEF Untouched
        <5>2. i \in Instances
          BY <4>2 DEF changing
        <5>3. isSettled(InitPods[i], origin(i))
          BY <3>1, <5>2 DEF RollingUpdate
        <5> QED
          BY <2>5, <4>2, <5>1, <5>3 DEF isSettled
      <4> QED
        BY <2>6, <2>7, <2>8, <3>1, <4>1, <4>2, <4>3
    <3> QED
      BY <1>2, <2>1, <3>1, <3>3, <3>4, <3>5 DEF ConditionRolls
  <2>14. ConditionsRoll'
    BY <1>2, <2>13 DEF ConditionsRoll
  <2>15. WithinBudget'
    <3>1. CASE informed
      BY <2>1, <2>6, <2>7, <3>1, PickKeepsBudget DEF C
    <3>2. CASE ~informed
      <4>1. picks' = {} /\ WithinBudget
        BY <2>9, <3>2 DEF picks, NoPlan, RollInv
      <4> QED
        BY <2>1, <2>3, <4>1, BudgetKeeps DEF Taken
    <3> QED
      BY <3>1, <3>2
  <2> QED
    BY <2>4, <2>10, <2>11, <2>12, <2>14, <2>15 DEF RollInv
<1> QED
  BY <1>1, <1>2 DEF ListPods

-----------------------------------------------------------------------------
(* The theorems *)

\* The invariant holds at the start
LEMMA RollInit ==
    ASSUME RollingUpdate, Init
    PROVE  RollInv
<1> DEFINE s == InitTApp.spec
<1>1. s \in StoredSpecs /\ \A i \in Id : stage(s, i, InitPods[i]) = 0
  BY StageZero DEF StoredSpecs
<1>2. Calm
  BY DEF Init, RollingUpdate, Calm
<1>3. EditInOrder /\ informed
  BY <1>1 DEF Init, EditInOrder, KnownSpec, informed
<1>4. NoResults
  BY DEF Init, NoResults, NoPods, hasNoResult, RollingUpdate
<1>5. PodsOnTrack /\ PodsForward
  <2>1. \A i \in Id : /\ UpTo(s, i, InitPods[i], InitPods[i]) /\ OnTrack(s, i, InitPods[i])
                      /\ ~(stage(s, i, InitPods[i]) >= 4)
    BY <1>1 DEF UpTo, OnTrack
  <2>2. DOMAIN podEvents = {}
    BY DEF Init
  <2> QED
    BY <2>1, <2>2 DEF Init, PodsOnTrack, PodsForward
<1>6. PlanRolls /\ ConditionsRoll
  BY DEF Init, PlanRolls, picks, NoPlan, ConditionsRoll
<1>7. WithinBudget
  <2>1. Taken = {}
    BY <1>1 DEF Init, Taken, picks, NoPlan
  <2>2. Kept = Instances
    BY <2>1 DEF Kept
  <2>3. allowed(s) \in Nat /\ Cardinality(Instances) \in Nat
    BY <1>1, Allowed
  <2> QED
    BY <2>2, <2>3 DEF Init, WithinBudget
<1> QED
  BY <1>2, <1>3, <1>4, <1>5, <1>6, <1>7 DEF RollInv

\* Every step keeps it
LEMMA RollNext ==
    ASSUME RollingUpdate, Inv, RollInv, [Next]_vars
    PROVE  RollInv'
<1>1. CASE Sync
  <2>1. CASE \E i \in Id : forceDeleteInstance(i)
    BY <2>1, CalmSteps
  <2>2. CASE \E i \in Id : \/ setInPlaceUpdateCondition(i) \/ createInstance(i)
                           \/ deleteInstance(i) \/ updateInstance(i)
    BY <2>2, GateRolls, CreateRolls, DeleteRolls, UpdateRolls
  <2>3. CASE \/ GetTApp \/ preprocessTApp \/ preprocessStatus \/ ListPods
             \/ WaitConditions \/ WaitInstances \/ FinishInstances \/ updateTAppStatus
    BY <2>3, GetTAppRolls, PreprocessRolls, PreprocessStatusRolls, ListPodsRolls, WaitsRoll,
       StatusRolls
  <2> QED
    BY <1>1, <2>1, <2>2, <2>3 DEF Sync
<1>2. CASE DeliverTApp \/ DeliverPod \/ Crash \/ UserEdit
  BY <1>2, DeliverTAppRolls, DeliverPodRolls, CrashRolls, EditRolls
<1>3. CASE SyncNodes
  BY <1>3 DEF SyncNodes, RollInv, Calm
<1>4. CASE \E i \in Id : StartPod(i) \/ RestartContainer(i) \/ ReportReady(i) \/ RemovePod(i)
  BY <1>4, KubeletRolls
<1>5. CASE \E i \in Id : ExitPod(i) \/ NodeFails(i) \/ EvictPod(i)
  BY <1>5, CalmSteps
<1>6. CASE UNCHANGED vars
  <2> USE <1>6 DEF vars, cluster, watch, caches, locals
  <2>1. EditInOrder' /\ NoResults' /\ (informed => informed')
    BY DEF RollInv, EditInOrder, KnownSpec, NoResults, informed
  <2> QED
    BY <2>1, QuietRolls
<1> QED
  BY <1>1, <1>2, <1>3, <1>4, <1>5, <1>6 DEF Next

\* A rolling update stays on its track: what Sync has planned, the versions of a pod that
\* the stream and the caches show and the gates that syncPodConditions has still to write
\* never contradict each other, whatever is delivered late and whenever Sync dies.
THEOREM RolloutInvariance ==
    ASSUME RollingUpdate
    PROVE  Spec => []RollInv
<1>1. Init => RollInv
  BY RollInit
<1>2. Inv /\ RollInv /\ [Next]_vars => RollInv'
  BY RollNext
<1> QED
  BY <1>1, <1>2, Invariance, PTL DEF Spec

\* Whoever is kept serves
LEMMA KeptServes ==
    ASSUME RollingUpdate, Inv, RollInv
    PROVE  wanted = Instances /\ Kept \subseteq serving
<1> DEFINE s == tapp.spec
<1>1. s \in StoredSpecs
  BY DEF RollInv, EditInOrder
<1>2. wanted = Instances /\ Instances \subseteq Id
  BY <1>1, SpecFacts DEF wanted
<1>3. ASSUME NEW i \in Kept
      PROVE  i \in serving
  <2>1. i \in Instances /\ i \in Id /\ Shape(s, i, pods[i])
    BY <1>1, <1>2, ShapeOf DEF Kept, RollInv, PodsOnTrack
  <2>2. ~changing(s, i) \/ stage(s, i, pods[i]) \in {0, 5}
    <3>1. (\A j \in Taken : j < i) => i \notin Taken
      BY <2>1, MaxReplicasAssumption DEF Id
    <3>2. i \notin Taken => ~(stage(s, i, pods[i]) >= 1)
      BY <2>1 DEF Taken
    <3> QED
      BY <1>3, <3>1, <3>2, StageRange DEF Kept
  <2>3. \/ isSettled(pods[i], origin(i))
        \/ pods[i].ready = "True" /\ createdPod(s, i, pods[i])
        \/ pods[i].ready = "True" /\ updatedPod(s, i, pods[i])
    <3>1. isSettled(InitPods[i], origin(i))
      BY <2>1 DEF RollingUpdate
    <3> QED
      BY <2>1, <2>2, <3>1 DEF Shape
  <2>4. /\ pods[i] \in Pod /\ ~isPodInActive(pods[i]) /\ ~isUpdating(pods[i])
        /\ pods[i].ready = "True"
    BY <2>3 DEF isSettled, createdPod, updatedPod, isPodInActive, isUpdating
  <2> QED
    BY <1>2, <2>1, <2>4, NullAssumption DEF serving, getAvailablePods
<1> QED
  BY <1>2, <1>3

\* While one rolling update runs, at most maxUnavailable instances are out of service at a
\* time, counted on the pods that are stored, although every Sync plans from a cache.
THEOREM RollingBudgetKept ==
    ASSUME RollingUpdate
    PROVE  Spec => []RollingBudget
<1>1. Inv /\ RollInv => RollingBudget
  <2> SUFFICES ASSUME Inv, RollInv PROVE RollingBudget
    OBVIOUS
  <2>1. wanted = Instances /\ Kept \subseteq serving /\ Kept \subseteq Instances
    BY KeptServes DEF Kept
  <2>2. /\ IsFiniteSet(Instances) /\ Cardinality(Instances) \in Nat
        /\ allowed(tapp.spec) \in Nat
    BY Allowed DEF RollInv, EditInOrder
  <2>3. /\ IsFiniteSet(Kept) /\ Cardinality(Kept) \in Nat
        /\ IsFiniteSet(Instances \ Kept)
        /\ Cardinality(Instances \ Kept) = Cardinality(Instances) - Cardinality(Kept)
    <3>1. IsFiniteSet(Kept) /\ IsFiniteSet(Instances \ Kept)
      BY <2>1, <2>2, FS_Subset, FS_Difference
    <3>2. Kept \cap Instances = Kept /\ Instances \cap Kept = Kept
      BY <2>1
    <3>3. Cardinality(Instances \ Kept) = Cardinality(Instances) - Cardinality(Instances \cap Kept)
      BY <2>2, FS_Difference
    <3> QED
      BY <3>1, <3>2, <3>3, FS_CardinalityType
  <2>4. wanted \ serving \subseteq Instances \ Kept
    BY <2>1
  <2>5. /\ Cardinality(wanted \ serving) \in Nat
        /\ Cardinality(wanted \ serving) <= Cardinality(Instances \ Kept)
    <3>1. IsFiniteSet(wanted \ serving)
      BY <2>3, <2>4, FS_Subset
    <3> QED
      BY <2>3, <2>4, <3>1, FS_Subset, FS_CardinalityType
  <2>6. Cardinality(Instances) - Cardinality(Kept) <= allowed(tapp.spec)
    BY DEF RollInv, WithinBudget
  <2>7. Cardinality(wanted \ serving) <= allowed(tapp.spec)
    BY <2>2, <2>3, <2>5, <2>6
  <2> QED
    BY <2>1, <2>7 DEF RollingBudget, allowed
<1> QED
  BY <1>1, Invariance, RolloutInvariance, PTL

\* While one rolling update runs, the image of a pod is replaced only after its readiness
\* gate has taken it out of service, although a goroutine of syncPodConditions may give up
\* after two conflicts.
THEOREM DrainedFirst ==
    ASSUME RollingUpdate
    PROVE  Spec => Drained
<1> DEFINE Quiet == \A i \in Id : updateInstance(i) /\ pods'[i] # pods[i] =>
                                    pods[i].ready # "True"
<1>1. Inv /\ RollInv /\ [Next]_vars => [Quiet]_vars
  <2> SUFFICES ASSUME Inv, RollInv, NEW i \in Id, updateInstance(i)
               PROVE  pods[i].ready # "True"
    OBVIOUS
  <2> DEFINE s == tapp.spec
  <2>1. i \in plan.update /\ i \in picks /\ pc = "updates"
    BY DEF updateInstance, nextUpdate, picks, Inv, PlanBacked
  <2>2. s \in StoredSpecs
    BY <2>1, Planned
  <2>3. changing(s, i) /\ inPlace(s, i) /\ stage(s, i, pods[i]) \in 1 .. 3
    BY <2>1, StageRange DEF RollInv, PlanRolls
  <2>4. Shape(s, i, pods[i])
    BY <2>2, ShapeOf DEF RollInv, PodsOnTrack
  <2> QED
    BY <2>3, <2>4 DEF Shape, isDrained
<1> QED
  BY <1>1, Invariance, RolloutInvariance, PTL DEF Spec, Drained
=============================================================================
