-------------------------- MODULE MCTAppController --------------------------
(* Small instances of TAppController: the specs a user moves between and the *)
(* clusters the runs start from.                                             *)
EXTENDS TAppController

T(shape, restart, image) == [shape |-> shape, restart |-> restart, image |-> image]

percent(n) == [kind |-> "percent", val |-> n]
unset == [kind |-> "nil", val |-> 0]

\* What a user posts: the fields the controller fills in are empty
Posted(replicas, template) ==
    [replicas |-> replicas, selector |-> "unset", template |-> template,
     templatePool |-> [n \in PoolNames |-> NoTemplate],
     templates |-> [i \in Id |-> NoTemplate],
     killed |-> {}, defaultTemplateName |-> Unset, rolling |-> Unset,
     maxUnavailable |-> unset, forceMaxUnavailable |-> unset,
     forceDeletePod |-> FALSE, autoDelete |-> FALSE, neverMigrate |-> FALSE]

\* What the API server holds after the first Sync
Stored(replicas, template) == preprocessSpec(Posted(replicas, template))

Posting(spec) ==
    [gen |-> 1, spec |-> spec,
     status |-> [observed |-> 0, statuses |-> [i \in Id |-> "None"], scale |-> FALSE]]

\* A TApp that has reached its spec, and its pods
Healthy(spec) ==
    [gen |-> 2, spec |-> spec,
     status |-> [observed |-> 2, scale |-> TRUE,
                 statuses |-> [i \in Id |-> IF i >= spec.replicas THEN "None"
                                            ELSE IF i \in spec.killed THEN "Killed"
                                            ELSE "Running"]]]

HealthyPods(spec) ==
    [i \in Id |->
       IF i >= spec.replicas \/ i \in spec.killed THEN NoPod
       ELSE [tmpl |-> getPodTemplate(spec, i), phase |-> "Running", dying |-> FALSE,
             gate |-> "True", ready |-> "True", run |-> getPodTemplate(spec, i).image,
             inPlace |-> FALSE]]

Env(edits, faults, crashes, exits, losses) ==
    [edits |-> edits, faults |-> faults, crashes |-> crashes, exits |-> exits,
     losses |-> losses]

old == T("s", "Always", "a")
newImage == T("s", "Always", "b")
newShape == T("r", "Always", "a")
job == T("s", "Never", "a")

EmptyPods == NoPods
OneEdit == Env(1, 0, 0, 0, 0)
TwoEdits == Env(2, 0, 0, 0, 0)

(* rolling: a healthy TApp gets a new image, or a new shape *)
OldSpec == Stored(MaxReplicas, old)
OldTApp == Healthy(OldSpec)
OldPods == HealthyPods(OldSpec)
RollingSpecs == {Stored(MaxReplicas, newImage), Stored(MaxReplicas, newShape)}
ShapeSpecs == {Stored(MaxReplicas, newShape)}

(* restart: an instance is stopped through spec.statuses and started again, also with *)
(* another image                                                                      *)
KillSpec(k) == [OldSpec EXCEPT !.killed = k]
RestartSpecs == {KillSpec({0}), Stored(MaxReplicas, newImage)}

(* pool: every instance is assigned the template t1 of the pool, which does not roll *)
PoolSpec(template, max) ==
    [OldSpec EXCEPT !.templatePool = [n \in PoolNames |-> template],
                    !.templates = [i \in Id |-> "t1"], !.forceMaxUnavailable = max]

(* repair: a template whose image cannot be pulled is replaced by one that can *)
Stuck(spec) ==
    [i \in Id |-> [HealthyPods(spec)[i] EXCEPT !.phase = "Pending", !.ready = "None",
                                               !.run = "none"]]
StuckTApp(spec) ==
    [Healthy(spec) EXCEPT !.status.statuses = [i \in Id |-> "Pending"]]
PoolStuckTApp == StuckTApp(PoolSpec(newImage, percent(100)))
PoolStuckPods == Stuck(PoolSpec(newImage, percent(100)))
PoolRepairSpecs == {PoolSpec(old, percent(100))}

(* nodes: pods of lost nodes are deleted forcefully, other pods are evicted *)
NodeSpec == [OldSpec EXCEPT !.forceDeletePod = TRUE]
NodeTApp == Healthy(NodeSpec)
NodePods == HealthyPods(NodeSpec)
NodeSpecs == {[NodeSpec EXCEPT !.killed = {0}], [NodeSpec EXCEPT !.template = newShape]}
NodeBudget == Env(1, 0, 0, 1, 1)

(* rerun: a job finishes *)
JobTApp == Posting(Posted(MaxReplicas, job))
JobBudget == Env(0, 0, 0, 1, 0)

(* faults: two edits, which may kill the instance or scale it away and back, while calls *)
(* fail, the controller dies and a node is lost                                          *)
FaultBudget == Env(2, 1, 1, 0, 1)
FaultSpecs ==
    {[Posted(MaxReplicas, newImage) EXCEPT !.forceDeletePod = TRUE],
     [NodeSpec EXCEPT !.killed = {0}],
     Stored(0, old),
     [OldSpec EXCEPT !.templates = [i \in Id |-> "t1"]],  \* t1 is missing from the pool
     [Posted(MaxReplicas, old) EXCEPT !.selector = "invalid"]}
=============================================================================
