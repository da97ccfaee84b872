----------------------------- MODULE PlanLoops ------------------------------
(***************************************************************************)
(* transformPodActions as the code writes it: three loops over a result    *)
(* that grows, of which the first two walk a Go map in any order.  Shown   *)
(* to implement Planner, where the plan is described and not computed.     *)
(***************************************************************************)
EXTENDS Planner

VARIABLES
    loop,   \* the loop that runs, or "done"
    todo,   \* the ids it has still to visit
    got     \* availablePods, and the four slices of instances

loopVars == <<input, plan, loop, todo, got>>

podActions == getNextActionsForPods(input.app, input.pods)

\* The ids for which the first loop, the second and the third do something
deletedOrCreated == {i \in Id : podActions[i] \in {"DELETE", "CREATE"}}

forcedIds ==
    {i \in Id : /\ podActions[i] \in {"UPDATE", "RECREATE"}
                /\ ~isInRollingUpdate(input.app.spec, i)}

rollingUpdateIds ==
    {i \in Id : /\ podActions[i] \in {"UPDATE", "RECREATE"}
                /\ isInRollingUpdate(input.app.spec, i)}

nothing == [available |-> available,
            plan |-> [add |-> {}, del |-> {}, forceDel |-> {}, update |-> {}]]

-----------------------------------------------------------------------------
(* The bodies of the loops: r is what was there before instance i *)

deleteOrCreate(r, i) ==
    IF podActions[i] = "DELETE"
    THEN [available |-> r.available \ {i},
          plan |-> IF needForceDelete(input.app.spec, i, input.pods[i], input.noNode)
                   THEN [r.plan EXCEPT !.forceDel = @ \cup {i}]
                   ELSE IF isPodDying(input.pods[i]) THEN r.plan
                   ELSE [r.plan EXCEPT !.del = @ \cup {i}]]
    ELSE IF getPodTemplate(input.app.spec, i) # NoTemplate
    THEN [r EXCEPT !.plan.add = @ \cup {i}]
    ELSE r

takeDown(r, i) ==
    [available |-> r.available \ {i},
     plan |-> IF podActions[i] = "UPDATE" THEN [r.plan EXCEPT !.update = @ \cup {i}]
              ELSE [r.plan EXCEPT !.del = @ \cup {i}]]

forceUpdate(r, i) ==
    IF Cardinality(r.available) > minAvailable(strategy.forceMaxUnavailable)
    THEN takeDown(r, i) ELSE r

rollUpdate(r, i) ==
    IF i \in r.available => Cardinality(r.available) > minAvailable(strategy.maxUnavailable)
    THEN takeDown(r, i) ELSE r

-----------------------------------------------------------------------------
(* The loops *)

LoopInit ==
    loop = "first" /\ todo = deletedOrCreated /\ got = nothing

Visit(i, body(_, _)) ==
    /\ got' = body(got, i) /\ todo' = todo \ {i}
    /\ UNCHANGED <<input, plan, loop>>

FirstLoop == loop = "first" /\ \E i \in todo : Visit(i, deleteOrCreate)

ForceLoop == loop = "force" /\ \E i \in todo : Visit(i, forceUpdate)

\* Faulty variant: rollingUpdateIds is not sorted.
RollLoopUnsorted == loop = "roll" /\ \E i \in todo : Visit(i, rollUpdate)

\* rollingUpdateIds is sorted
RollLoop ==
    /\ loop = "roll"
    /\ \E i \in todo : (\A j \in todo : i <= j) /\ Visit(i, rollUpdate)

Return == loop' = "done" /\ todo' = {} /\ plan' = {got.plan} /\ UNCHANGED <<input, got>>

Continue(next, ids) == loop' = next /\ todo' = ids /\ UNCHANGED <<input, plan, got>>

\* A malformed budget ends the function with what there is
EndFirst ==
    /\ loop = "first" /\ todo = {}
    /\ IF strategy.forceMaxUnavailable.kind = "bad" THEN Return ELSE Continue("force", forcedIds)

EndForce ==
    /\ loop = "force" /\ todo = {}
    /\ IF strategy.maxUnavailable.kind = "bad" THEN Return
       ELSE Continue("roll", rollingUpdateIds)

EndRoll == loop = "roll" /\ todo = {} /\ Return

LoopNext == FirstLoop \/ ForceLoop \/ RollLoop \/ EndFirst \/ EndForce \/ EndRoll

LoopSpec == Init /\ LoopInit /\ [][LoopNext]_loopVars

-----------------------------------------------------------------------------
(* Property *)

\* In whatever order Go walks its map, the loops of transformPodActions return one of the
\* plans that instanceToSync describes with ForcePick and RollPick.
LoopsDecide == Spec
=============================================================================
