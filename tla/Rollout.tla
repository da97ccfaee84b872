------------------------------ MODULE Rollout ------------------------------
(***************************************************************************)
(* One rolling update of a settled TApp, as RollingBudget and Drained      *)
(* speak of it: the clusters and edits it starts from, the stages a pod    *)
(* goes through, and the inductive invariant of RolloutProofs.             *)
(***************************************************************************)
EXTENDS TAppController

-----------------------------------------------------------------------------
(* Where the two properties are claimed *)

Instances == {i \in Id : i < InitTApp.spec.replicas} \ InitTApp.spec.killed

StoredSpecs == Specs \cup {InitTApp.spec}

origin(i) == getPodTemplate(InitTApp.spec, i)

\* A pod that runs its template and is ready; it may have been updated in place before
isSettled(pod, t) ==
    /\ pod \in Pod /\ pod.tmpl = t /\ pod.run = t.image
    /\ pod.phase = "Running" /\ ~isPodDying(pod)
    /\ pod.gate = "True" /\ pod.ready = "True"

\* A spec as the controller stores it, with budgets that can be evaluated
isStored(spec) ==
    LET strategy == setDefaultValue(spec)
    IN  /\ preprocessSpec(spec) = spec
        /\ strategy.maxUnavailable.kind # "bad" /\ strategy.maxUnavailable.val >= 0
        /\ strategy.forceMaxUnavailable.kind # "bad"

\* The spec keeps the instances, and changes templates only where they roll
isRollingEdit(spec) ==
    /\ spec.replicas = InitTApp.spec.replicas /\ spec.killed = InitTApp.spec.killed
    /\ \A i \in Instances :
         /\ getPodTemplate(spec, i) # NoTemplate
         /\ getPodTemplate(spec, i) # origin(i) => isInRollingUpdate(spec, i)

\* One edit of a TApp whose pods all serve, none of which exits or loses its node, while
\* API calls fail only by conflicts.  The controller may crash and be replaced at any time.
RollingUpdate ==
    /\ \A i \in Id : IF i \in Instances THEN isSettled(InitPods[i], origin(i))
                                        ELSE InitPods[i] = NoPod
    /\ \A i \in Id : InitTApp.status.statuses[i] \notin {"Failed", "Succ"}
    /\ \A spec \in StoredSpecs : isStored(spec) /\ isRollingEdit(spec)
    /\ Budget.edits <= 1
    /\ Budget.faults = 0 /\ Budget.exits = 0 /\ Budget.losses = 0
    /\ NodesSyncedAtStart

-----------------------------------------------------------------------------
(* The stages of a pod when the TApp goes to a spec *)

target(spec, i) == getPodTemplate(spec, i)

changing(spec, i) == i \in Instances /\ target(spec, i) # origin(i)

inPlace(spec, i) == UniqHash(target(spec, i)) = UniqHash(origin(i))

\* 0: it runs the old template and serves   1: taken out of service by its gate
\* 2: replaced, or dying                    3: the new image runs, or the old pod is gone
\* 4: a new pod that is not ready           5: ready with the new template
stage(spec, i, pod) ==
    IF ~changing(spec, i) THEN 0
    ELSE IF pod = NoPod THEN 3
    ELSE IF pod.tmpl = origin(i)
    THEN IF isPodDying(pod) THEN 2 ELSE IF pod.gate = "False" THEN 1 ELSE 0
    ELSE IF pod.ready = "True" THEN 5
    ELSE IF ~inPlace(spec, i) THEN 4
    ELSE IF pod.run = target(spec, i).image THEN 3 ELSE 2

\* The pods of an instance that is deleted and created again
dyingPod(i, pod) ==
    /\ pod \in Pod /\ isPodDying(pod) /\ pod.phase = "Running"
    /\ pod.tmpl = origin(i) /\ pod.run = origin(i).image

createdPod(spec, i, pod) ==
    /\ pod \in Pod /\ ~isPodDying(pod) /\ pod.tmpl = target(spec, i) /\ ~pod.inPlace
    /\ pod.gate # "False" /\ pod.ready # "Gate" /\ (pod.ready = "True" => pod.gate = "True")
    /\ \/ pod.phase = "Pending" /\ pod.run = "none" /\ pod.ready = "None"
       \/ pod.phase = "Running" /\ pod.run = target(spec, i).image

\* The pods of an instance whose image is replaced
updatedPod(spec, i, pod) ==
    /\ pod \in Pod /\ ~isPodDying(pod) /\ pod.tmpl = target(spec, i) /\ pod.inPlace
    /\ pod.phase = "Running" /\ pod.run # "none"
    /\ \/ /\ pod.gate = "False" /\ pod.ready \in {"Gate", "False"}
          /\ pod.run = target(spec, i).image => pod.ready = "Gate"
       \/ pod.gate = "True" /\ pod.ready = "True" /\ pod.run = target(spec, i).image

OnTrack(spec, i, pod) ==
    \/ pod = InitPods[i]
    \/ /\ changing(spec, i)
       /\ \/ pod = withGate(InitPods[i], "False")
          \/ /\ ~inPlace(spec, i)
             /\ pod = NoPod \/ dyingPod(i, pod) \/ createdPod(spec, i, pod)
          \/ inPlace(spec, i) /\ updatedPod(spec, i, pod)

\* q is a later version of pod i than p: only the first version has stage 0, and a new
\* image that runs is next put back into service
Precedes(spec, i, p, q) ==
    /\ stage(spec, i, p) <= stage(spec, i, q) /\ stage(spec, i, q) >= 1
    /\ inPlace(spec, i) /\ stage(spec, i, p) = 3 => stage(spec, i, q) = 5

UpTo(spec, i, p, q) == p = q \/ Precedes(spec, i, p, q)

-----------------------------------------------------------------------------
(* The inductive invariant *)

picks == plan.del \cup plan.update

Calm ==
    /\ budget.edits <= 1
    /\ budget.faults = 0 /\ budget.exits = 0 /\ budget.losses = 0
    /\ lost = {} /\ nodesSynced

KnownSpec(spec) == spec \in {InitTApp.spec, tapp.spec}

\* At most one spec follows the first, and what has seen it does not see the first again
EditInOrder ==
    /\ tapp.spec \in StoredSpecs
    /\ tapp.spec # InitTApp.spec => budget.edits = 0
    /\ KnownSpec(cachedTApp.spec) /\ KnownSpec(app.spec)
    /\ \A k \in DOMAIN tappEvents :
         /\ KnownSpec(tappEvents[k].spec)
         /\ cachedTApp.spec = tapp.spec => tappEvents[k].spec = tapp.spec
         /\ \A m \in DOMAIN tappEvents :
              k < m /\ tappEvents[k].spec = tapp.spec => tappEvents[m].spec = tapp.spec
    /\ pc # "idle" /\ app.spec = tapp.spec => cachedTApp.spec = tapp.spec

\* No status calls an instance finished, so the desired instances never change
hasNoResult(t) == \A i \in Id : t.status.statuses[i] \notin {"Failed", "Succ"}

NoResults ==
    /\ hasNoResult(tapp) /\ hasNoResult(cachedTApp) /\ hasNoResult(app)
    /\ \A k \in DOMAIN tappEvents : hasNoResult(tappEvents[k])
    /\ \A i \in Id : list[i] # NoPod => list[i].phase \in {"Pending", "Running"}

informed == cachedTApp.spec = tapp.spec /\ (pc # "idle" => app.spec = tapp.spec)

\* Until a Sync has read the new spec, nothing happens to the pods
Untouched ==
    /\ pods = InitPods /\ cachedPods = InitPods /\ podEvents = <<>>
    /\ plan = NoPlan

PodsOnTrack ==
    /\ \A i \in Id : OnTrack(tapp.spec, i, pods[i]) /\ OnTrack(tapp.spec, i, cachedPods[i])
    /\ \A k \in DOMAIN podEvents : OnTrack(tapp.spec, podEvents[k].id, podEvents[k].pod)

\* The cache and then the stream show the versions of a pod in order, and the last stages
\* are reached only when the cache has seen what they follow
PodsForward ==
    /\ \A i \in Id :
         /\ UpTo(tapp.spec, i, cachedPods[i], pods[i])
         /\ PodCurrent(i) => cachedPods[i] = pods[i]
         /\ stage(tapp.spec, i, pods[i]) >= 4 => stage(tapp.spec, i, cachedPods[i]) >= 3
    /\ \A k \in DOMAIN podEvents :
         LET i == podEvents[k].id
             p == podEvents[k].pod
         IN  /\ Precedes(tapp.spec, i, cachedPods[i], p)
             /\ UpTo(tapp.spec, i, p, pods[i])
             /\ \A m \in DOMAIN podEvents :
                  m > k /\ podEvents[m].id = i => Precedes(tapp.spec, i, p, podEvents[m].pod)

\* What is planned is for instances that change, and a delete or an update is carried out
\* on a pod that was taken out of service and not yet put back
PlanRolls ==
    /\ plan.forceDel = {}
    /\ \A i \in plan.add \cup plan.del : changing(tapp.spec, i) /\ ~inPlace(tapp.spec, i)
    /\ \A i \in plan.update : changing(tapp.spec, i) /\ inPlace(tapp.spec, i)
    /\ plan.add \cap plan.del = {}
    /\ \A i \in picks :
         /\ stage(tapp.spec, i, pods[i]) <= 3
         /\ (pc = "conditions" /\ i \in todo) \/ stage(tapp.spec, i, pods[i]) >= 1

\* The stages from which a pod may be put back into service
isThrough(spec, i, pod) == stage(spec, i, pod) >= IF inPlace(spec, i) THEN 3 ELSE 2

\* A goroutine of syncPodConditions that has still to run takes out of service only what is
\* on its way out, and puts back only what has run its course
ConditionRolls(i) ==
    /\ gateOf(i) = "False" => stage(tapp.spec, i, pods[i]) <= 3
    /\ list[i] # NoPod
    /\ isUpdating(list[i]) => stage(tapp.spec, i, cachedPods[i]) >= 2
    /\ i \notin retry =>
         /\ OnTrack(tapp.spec, i, list[i])
         /\ UpTo(tapp.spec, i, list[i], cachedPods[i])
         /\ i \in listed => list[i] = pods[i]
         /\ gateOf(i) = "True" /\ list[i].gate # "True" => isThrough(tapp.spec, i, list[i])
    /\ i \in retry /\ gateOf(i) = "True" => isThrough(tapp.spec, i, cachedPods[i])

ConditionsRoll ==
    /\ pc \in {"idle", "preprocess", "preprocessStatus", "list"} => retry = {}
    /\ pc = "conditions" => \A i \in todo : ConditionRolls(i)

\* Whom the rolling update has taken.  It takes instances in ascending order: everyone
\* after the last of them still serves, and so does whoever has finished.
Taken == {i \in Id : stage(tapp.spec, i, pods[i]) >= 1} \cup picks

Kept ==
    {i \in Instances : \/ ~changing(tapp.spec, i) \/ stage(tapp.spec, i, pods[i]) = 5
                       \/ \A j \in Taken : j < i}

allowed(spec) == scaledValue(setDefaultValue(spec).maxUnavailable, Cardinality(Instances))

WithinBudget == Cardinality(Instances) - Cardinality(Kept) <= allowed(tapp.spec)

RollInv ==
    /\ Calm /\ EditInOrder /\ NoResults
    /\ informed \/ Untouched
    /\ PodsOnTrack /\ PodsForward /\ PlanRolls /\ ConditionsRoll /\ WithinBudget
=============================================================================
