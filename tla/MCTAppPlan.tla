----------------------------- MODULE MCTAppPlan -----------------------------
(* Planner for a range of TApps and pod lists, and the plans it makes against *)
(* the loops of transformPodActions written out step by step.                 *)
EXTENDS PlanLoops, SequencesExt

Bound == [kind : {"int"}, val : -1 .. 2] \cup [kind : {"percent"}, val : {0, 50, 100}]
           \cup [kind : {"bad", "nil"}, val : {0}]

a == [shape |-> "s", restart |-> "OnFailure", image |-> "a"]
b == [a EXCEPT !.image = "b"]
c == [a EXCEPT !.shape = "r"]

\* The pods a controller meets: healthy on an old or the new template, in the middle of an
\* in-place update, not ready, being deleted, failed, finished, rejected by its node
Healthy(t) == [tmpl |-> t, phase |-> "Running", dying |-> FALSE, gate |-> "True",
               ready |-> "True", run |-> t.image, inPlace |-> FALSE]
PodKinds ==
    {NoPod, Healthy(a), Healthy(b), Healthy(c),
     [Healthy(b) EXCEPT !.run = "pulling", !.inPlace = TRUE],
     [Healthy(a) EXCEPT !.ready = "Gate", !.gate = "False"],
     [Healthy(a) EXCEPT !.dying = TRUE],
     [Healthy(b) EXCEPT !.phase = "Failed"],
     [Healthy(b) EXCEPT !.phase = "Succeeded"],
     [Healthy(b) EXCEPT !.phase = "Failed", !.run = "none"]}

\* Template b for everybody; an instance rolls when it uses the default template, and is
\* forced when it is assigned t1.  "t0" is missing from the pool.
InputSpec(replicas, assigned, killed, roll, force) ==
    [replicas |-> replicas, selector |-> "set", template |-> b,
     templatePool |-> [n \in PoolNames |-> IF n = "t1" THEN b ELSE NoTemplate],
     templates |-> assigned, killed |-> killed,
     defaultTemplateName |-> DefaultTemplateName, rolling |-> DefaultTemplateName,
     maxUnavailable |-> roll, forceMaxUnavailable |-> force,
     forceDeletePod |-> TRUE, autoDelete |-> FALSE, neverMigrate |-> FALSE]

Assignments ==
    {[i \in Id |-> n] : n \in {NoTemplate, "t1"}}
      \cup {[i \in Id |-> IF i = 0 THEN n ELSE NoTemplate] : n \in {"t0", "t1"}}

InputStatuses ==
    {[i \in Id |-> "Succ"], [i \in Id |-> IF i = 0 THEN "Failed" ELSE "Running"]}

MCInit ==
    /\ plan = {}
    /\ \E replicas \in {MaxReplicas - 1, MaxReplicas}, assigned \in Assignments,
          killed \in {{}, {0}}, roll \in Bound, force \in Bound, statuses \in InputStatuses,
          pods \in [Id -> PodKinds] :
         /\ \/ roll = [kind |-> "int", val |-> 1] \/ force = [kind |-> "percent", val |-> 100]
         /\ \A i, j \in Id \ {0} : i < j => pods[i] \in {NoPod, Healthy(a), Healthy(c)}
         /\ input = [app |-> [gen |-> 1, spec |-> InputSpec(replicas, assigned, killed, roll, force),
                              status |-> [observed |-> 1, statuses |-> statuses, scale |-> TRUE]],
                     pods |-> pods, noNode |-> {0}]
    /\ LoopInit

MCSpec == MCInit /\ [][LoopNext]_loopVars

-----------------------------------------------------------------------------
(* All results of the loops *)

sorted(ids) == SetToSortSeq(ids, <)

loopPlans ==
    LET after1        == FoldLeft(deleteOrCreate, nothing, sorted(deletedOrCreated))
        after2(order) == FoldLeft(forceUpdate, after1, order)
        after3(order) == FoldLeft(rollUpdate, after2(order), sorted(rollingUpdateIds))
    IN  IF strategy.forceMaxUnavailable.kind = "bad" THEN {after1.plan}
        ELSE {IF strategy.maxUnavailable.kind = "bad" THEN after2(order).plan
              ELSE after3(order).plan : order \in SetToSeqs(forcedIds)}

-----------------------------------------------------------------------------
(* Properties *)

\* The sets ForcePick and RollPick describe are exactly what the loops of
\* transformPodActions leave behind: every one of them in some order of the Go map.
PlansAreLoopResults ==
    loop = "first" /\ todo = deletedOrCreated =>
      instanceToSync(input.app, input.pods, input.noNode) = loopPlans
=============================================================================
