------------------------------ MODULE TAppPlan ------------------------------
(***************************************************************************)
(* The decision part of the TApp controller (pkg/tapp/controller.go,       *)
(* tapp_utils.go): everything Sync computes from one TApp and one list of  *)
(* pods before it calls the API server.  No variables: TAppController uses *)
(* these operators in its actions, MCTAppPlan checks them on their own.    *)
(*                                                                         *)
(* Data abstraction.  An instance id is a number below MaxReplicas.  A pod *)
(* template is what its two hashes tell apart: the container image, which  *)
(* an in-place update may change, the restart policy, and a "shape" that   *)
(* stands for every other field.  A pod is the template it was built from  *)
(* (its hash labels) with the status fields the controller reads.          *)
(***************************************************************************)
EXTENDS Integers, FiniteSets

CONSTANTS
    MaxReplicas,              \* bound on replicas
    PoolNames,                \* keys that spec.templatePool may have
    Shapes, Images,           \* values of the fields of a template
    NoTemplate, NoPod,        \* "no such key", "no such object"
    DeletePodAfterAppFinish   \* the flag deletePodAfterAppFinish

ASSUME MaxReplicasAssumption == MaxReplicas \in Nat \ {0}

ASSUME FlagAssumption == DeletePodAfterAppFinish \in BOOLEAN

Id == 0 .. MaxReplicas - 1

DefaultTemplateName == "default"

Unset == ""

ASSUME NamesAssumption ==
    /\ DefaultTemplateName \notin PoolNames
    /\ Unset \notin PoolNames

TemplateName == PoolNames \cup {DefaultTemplateName, Unset}

Template == [shape : Shapes, restart : {"Always", "OnFailure", "Never"}, image : Images]

\* intstr.IntOrString: "bad" is a string that is not a percentage, "nil" an unset pointer
IntOrString == [kind : {"int", "percent", "bad", "nil"}, val : Int]

\* spec.selector: "unset" can be made from the labels of the template; "invalid" does not
\* parse, or is not set and the template has no labels
Selector == {"set", "unset", "invalid"}

TAppSpec ==
    [replicas : 0 .. MaxReplicas, selector : Selector, template : Template,
     templatePool : [PoolNames -> Template \cup {NoTemplate}],
     templates : [Id -> TemplateName \cup {NoTemplate}],
     killed : SUBSET Id,                \* ids that spec.statuses sets to Killed
     defaultTemplateName : TemplateName, rolling : TemplateName,
     maxUnavailable : IntOrString, forceMaxUnavailable : IntOrString,
     forceDeletePod : BOOLEAN, autoDelete : BOOLEAN, neverMigrate : BOOLEAN]

InstanceStatus == {"NotCreated", "Pending", "Running", "PodFailed", "PodSucc",
                   "Killing", "Killed", "Failed", "Succ", "Unknown"}

\* "None": the id is not a key of status.statuses
Statuses == [Id -> InstanceStatus \cup {"None"}]

\* appStatus, replicas and readyReplicas are written together with statuses and
\* computed from it, so they are not stored again; scale is "scaleLabelSelector is set"
TAppStatus == [observed : Nat, statuses : Statuses, scale : BOOLEAN]

TApp == [gen : Nat, spec : TAppSpec, status : TAppStatus]

\* gate: the InPlaceUpdateReady condition.  ready: the Ready condition; "Gate" is
\* False with reason ReadinessGatesNotReady and the controller's message.
\* run: the image in containerStatuses; "none" is no containerStatuses, "pulling"
\* an empty imageID.  inPlace: the in-place-update annotation.
Pod == [tmpl : Template, phase : {"Pending", "Running", "Succeeded", "Failed", "Unknown"},
        dying : BOOLEAN, gate : {"None", "True", "False"},
        ready : {"None", "True", "False", "Gate"},
        run : Images \cup {"none", "pulling"}, inPlace : BOOLEAN]

ASSUME ImagesAssumption == {"none", "pulling"} \cap Images = {}

ASSUME NullAssumption == NoPod \notin Pod /\ NoTemplate \notin Template

PodMap == [Id -> Pod \cup {NoPod}]

InstancePlan == [add : SUBSET Id, del : SUBSET Id, forceDel : SUBSET Id, update : SUBSET Id]

-----------------------------------------------------------------------------
(* tapp_utils.go *)

isPodDying(pod) == pod.dying

isPodInActive(pod) == isPodDying(pod) \/ pod.phase # "Running"

isPodCompleted(pod) == pod.phase \in {"Failed", "Succeeded"}

isPodFailed(pod) == pod.phase = "Failed"

getPodTemplateName(spec, i) ==
    IF spec.templates[i] = NoTemplate THEN spec.defaultTemplateName ELSE spec.templates[i]

\* NoTemplate is the error "template not found in templatePool"
getPodTemplate(spec, i) ==
    LET name == getPodTemplateName(spec, i)
    IN  IF name = DefaultTemplateName THEN spec.template
        ELSE IF name \in PoolNames THEN spec.templatePool[name]
        ELSE NoTemplate

getRollingTemplateKey(spec) ==
    IF spec.rolling # Unset THEN spec.rolling ELSE spec.defaultTemplateName

isInstanceAlive(s) ==
    s \in {"NotCreated", "Pending", "Running", "Killing", "Unknown", "PodFailed", "PodSucc"}

isInstanceFinished(s) == s \in {"Killed", "Failed", "Succ"}

-----------------------------------------------------------------------------
(* pkg/hash: which fields of a template the two hashes depend on *)

TemplateHash(t) == t

UniqHash(t) == <<t.shape, t.restart>>

isTemplateHashChanged(spec, i, pod) ==
    LET t == getPodTemplate(spec, i)
    IN  t = NoTemplate \/ TemplateHash(t) # TemplateHash(pod.tmpl)

isUniqHashChanged(spec, i, pod) ==
    LET t == getPodTemplate(spec, i)
    IN  t = NoTemplate \/ UniqHash(t) # UniqHash(pod.tmpl)

-----------------------------------------------------------------------------
(* The status half of Sync *)

isPodReady(pod) == pod.ready \in {"None", "True"}

\* Faulty variant: an in-place update that never ends.
isAlwaysUpdating(pod) == pod.inPlace /\ pod.run # "none"

isUpdating(pod) == pod.inPlace /\ pod.run # "none" /\ pod.run # pod.tmpl.image

\* The template lookup can fail; both callers look at that error on their own
shouldPodMigrate(spec, i, pod) ==
    /\ ~spec.neverMigrate
    /\ \/ pod.run = "none"
       \/ getPodTemplate(spec, i).restart = "Always"
       \/ getPodTemplate(spec, i).restart = "OnFailure" /\ isPodFailed(pod)

podStatus(spec, i, pod) ==
    LET failed == isPodFailed(pod)
    IN  CASE pod.phase = "Pending" -> "Pending"
          [] pod.phase = "Running" -> IF isPodReady(pod) THEN "Running" ELSE "Pending"
          [] pod.phase = "Unknown" -> "Unknown"
          [] isPodCompleted(pod) ->
               IF getPodTemplate(spec, i) = NoTemplate \/ shouldPodMigrate(spec, i, pod)
               THEN IF failed THEN "PodFailed" ELSE "PodSucc"
               ELSE IF failed THEN "Failed" ELSE "Succ"

getInstanceStatus(app, pods) ==
    LET old == app.status.statuses
    IN  [i \in Id |->
           IF pods[i] # NoPod
           THEN IF isPodDying(pods[i]) /\ ~isInstanceFinished(old[i])
                THEN "Killing"
                ELSE podStatus(app.spec, i, pods[i])
           ELSE IF i >= app.spec.replicas THEN "None"
           ELSE IF i \in app.spec.killed THEN "Killed"
           ELSE IF isInstanceFinished(old[i]) THEN old[i]
           ELSE "NotCreated"]

genAppStatus(statuses) ==
    LET present == {statuses[i] : i \in Id} \ {"None"}
    IN  IF present = {} THEN "Pending"
        ELSE IF \E s \in present : isInstanceAlive(s) THEN "Running"
        ELSE IF "Failed" \in present THEN "Failed"
        ELSE IF "Succ" \in present THEN "Succ"
        ELSE "Killed"

isTAppFinished(app) == genAppStatus(app.status.statuses) \in {"Failed", "Succ", "Killed"}

getTotalReplicas(statuses) ==
    Cardinality({i \in Id : statuses[i] \notin {"None", "NotCreated"}})

shouldUpdateTAppStatus(app, pods) ==
    \/ app.gen # app.status.observed
    \/ app.status.statuses # getInstanceStatus(app, pods)
    \/ \A i \in Id : app.status.statuses[i] = "None"  \* a nil map is not DeepEqual to an empty one

\* Faulty variant: observedGeneration is counted instead of copied.
countedStatus(app, pods) ==
    [app EXCEPT !.status.statuses = getInstanceStatus(app, pods),
                !.status.observed = @ + 1]

\* What updateTAppStatus assigns before each UpdateStatus call
withStatus(app, pods) ==
    [app EXCEPT !.status.statuses = getInstanceStatus(app, pods),
                !.status.observed = app.gen]

-----------------------------------------------------------------------------
(* preprocessTApp: the spec the controller writes back *)

setDefaultValue(spec) ==
    LET default == IF spec.defaultTemplateName = Unset
                   THEN DefaultTemplateName ELSE spec.defaultTemplateName
    IN  [spec EXCEPT
           !.defaultTemplateName = default,
           !.rolling = IF @ = Unset THEN default ELSE @,
           !.maxUnavailable = IF @.kind = "nil" THEN [kind |-> "int", val |-> 1] ELSE @,
           !.forceMaxUnavailable =
                IF @.kind = "nil" THEN [kind |-> "percent", val |-> 100] ELSE @]

removeUnusedTemplate(spec) ==
    LET used == {spec.defaultTemplateName, getRollingTemplateKey(spec)}
                  \cup {spec.templates[i] : i \in Id}
    IN  IF spec.autoDelete
        THEN [spec EXCEPT !.templatePool =
                [n \in PoolNames |-> IF n \in used THEN @[n] ELSE NoTemplate]]
        ELSE spec

\* Made of the labels of the template.  A selector that does not parse stays as it is, and so
\* does one that is missing where the template has no labels: both are errors.
setLabelSelector(spec) == [spec EXCEPT !.selector = IF @ = "unset" THEN "set" ELSE @]

preprocessSpec(spec) == setLabelSelector(removeUnusedTemplate(setDefaultValue(spec)))

-----------------------------------------------------------------------------
(* The action half of Sync: instanceToSync *)

\* Faulty variant: an instance once killed stays completed.
completedForEver(app) == app.spec.killed \cup {i \in Id : app.status.statuses[i] = "Killed"}

desiredCompleted(app) ==
    app.spec.killed \cup
      IF ~DeletePodAfterAppFinish \/ isTAppFinished(app)
      THEN {i \in Id : app.status.statuses[i] \in {"Failed", "Succ"}}
      ELSE {}

desiredRunning(app) == {i \in Id : i < app.spec.replicas} \ desiredCompleted(app)

getAvailablePods(pods, running) ==
    {i \in running : /\ pods[i] # NoPod
                     /\ ~isPodInActive(pods[i])
                     /\ ~isUpdating(pods[i])
                     /\ pods[i].ready = "True"}

\* Faulty variant: a pod that cannot be updated in place is left alone.
syncWithoutRecreate(spec, i, pod) ==
    IF pod = NoPod THEN "CREATE"
    ELSE IF isPodDying(pod) THEN "DELETE"
    ELSE IF isPodCompleted(pod) \/ ~isTemplateHashChanged(spec, i, pod) THEN "NONE"
    ELSE IF isUniqHashChanged(spec, i, pod) THEN "NONE" ELSE "UPDATE"

\* What syncRunningPods decides for a desired running instance
syncRunningPod(spec, i, pod) ==
    IF pod = NoPod THEN "CREATE"
    ELSE IF isPodDying(pod) THEN "DELETE"
    ELSE IF isPodCompleted(pod)
    THEN IF getPodTemplate(spec, i) # NoTemplate /\ shouldPodMigrate(spec, i, pod)
         THEN "DELETE" ELSE "NONE"
    ELSE IF ~isTemplateHashChanged(spec, i, pod) THEN "NONE"
    ELSE IF isUniqHashChanged(spec, i, pod) THEN "RECREATE" ELSE "UPDATE"

\* syncUnwantedPods overrides syncCompletedPods, which overrides syncRunningPods
getNextActionsForPods(app, pods) ==
    [i \in Id |->
        IF pods[i] # NoPod /\ (i >= app.spec.replicas \/ i \in desiredCompleted(app))
        THEN "DELETE"
        ELSE IF i \in desiredRunning(app) THEN syncRunningPod(app.spec, i, pods[i])
        ELSE "NONE"]

isInRollingUpdate(spec, i) == getPodTemplateName(spec, i) = getRollingTemplateKey(spec)

\* Faulty variant: the node is not looked at.
forceDeleteDying(spec, i, pod, noNode) == isPodDying(pod) /\ spec.forceDeletePod

\* noNode: the ids whose node the node store reports as not found or not ready
needForceDelete(spec, i, pod, noNode) == isPodDying(pod) /\ spec.forceDeletePod /\ i \in noNode

\* Faulty variant: an integer quotient and one more, past the whole ones as well.
scaledPastWhole(v, total) == IF v.kind = "int" THEN v.val ELSE (v.val * total) \div 100 + 1

\* intstr.GetValueFromIntOrPercent(v, total, true) for a well-formed v
scaledValue(v, total) == IF v.kind = "int" THEN v.val ELSE (v.val * total + 99) \div 100

\* Faulty variant: < for <= in the check of the force pass.
ForcePickOneMore(F, A, min) ==
    {C \in SUBSET F : /\ C = {} \/ \E last \in C : Cardinality(A \ (C \ {last})) >= min
                      /\ C = F \/ Cardinality(A \ C) < min}

\* The force pass walks a Go map, in any order, and skips a pod once no more than
\* min pods are available: the sets of pods it can pick from F when A are available.
ForcePick(F, A, min) ==
    {C \in SUBSET F : /\ C = {} \/ \E last \in C : Cardinality(A \ (C \ {last})) > min
                      /\ C = F \/ Cardinality(A \ C) <= min}

\* Faulty variant: < for <= in the check of the rolling pass.
RollPickOneMore(R, A, min) == {p \in R : p \in A => Cardinality(A \ {q \in R : q < p}) >= min}

\* The rolling pass walks the ids in ascending order and skips an available pod once
\* no more than min pods are available.
RollPick(R, A, min) ==
    {p \in R : p \in A => Cardinality(A \ {q \in R : q < p}) > min}

\* The sets of outdated instances the two update passes may take: the budgets count
\* what the first pass left available, and a malformed budget ends the function early.
pickedUpdates(spec, actions, pods, running) ==
    LET strategy == setDefaultValue(spec)   \* an unset maxUnavailable means its default
        force    == strategy.forceMaxUnavailable
        roll     == strategy.maxUnavailable
        total    == Cardinality(running)
        min(v)   == total - scaledValue(v, total)
        changed  == {i \in Id : actions[i] \in {"UPDATE", "RECREATE"}}
        rolling  == {i \in changed : isInRollingUpdate(spec, i)}
        available == getAvailablePods(pods, running) \ {i \in Id : actions[i] = "DELETE"}
    IN  IF force.kind = "bad" THEN {{}}
        ELSE {F \cup IF roll.kind = "bad" THEN {}
                     ELSE RollPick(rolling, available \ F, min(roll))
                : F \in ForcePick(changed \ rolling, available, min(force))}

\* Faulty variant: the error of newInstance is ignored.
createAnyway(spec, actions) == {i \in Id : actions[i] = "CREATE"}

\* The first loop: the instances to create, and those whose pod is deleted forcefully
toCreate(spec, actions) ==
    {i \in Id : actions[i] = "CREATE" /\ getPodTemplate(spec, i) # NoTemplate}

\* Faulty variant: a dying pod is skipped before needForceDelete is asked.
forceDeleteAlive(spec, actions, pods, noNode) ==
    {i \in Id : /\ actions[i] = "DELETE" /\ ~isPodDying(pods[i])
                /\ needForceDelete(spec, i, pods[i], noNode)}

toForceDelete(spec, actions, pods, noNode) ==
    {i \in Id : actions[i] = "DELETE" /\ needForceDelete(spec, i, pods[i], noNode)}

\* add, del, forceDel and update when the update passes take picked
planWith(spec, actions, pods, noNode, picked) ==
    LET forced == toForceDelete(spec, actions, pods, noNode)
    IN  [add      |-> toCreate(spec, actions),
         del      |-> {i \in Id \ forced : actions[i] = "DELETE" /\ ~isPodDying(pods[i])}
                        \cup {i \in picked : actions[i] = "RECREATE"},
         forceDel |-> forced,
         update   |-> {i \in picked : actions[i] = "UPDATE"}]

transformPodActions(app, actions, pods, running, noNode) ==
    {planWith(app.spec, actions, pods, noNode, picked)
       : picked \in pickedUpdates(app.spec, actions, pods, running)}

instanceToSync(app, pods, noNode) ==
    transformPodActions(app, getNextActionsForPods(app, pods), pods, desiredRunning(app), noNode)

=============================================================================
