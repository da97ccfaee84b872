------------------------------ MODULE Planner -------------------------------
(***************************************************************************)
(* The planner on its own: instanceToSync decides for any TApp the webhook *)
(* may or may not have seen, any list of pods and any nodes.  ListPods of  *)
(* TAppController makes the same choice in the middle of a Sync.           *)
(***************************************************************************)
EXTENDS Admission

VARIABLES
    input,   \* the TApp, the pod list and the ids without a node
    plan     \* what was decided for it

Init == input \in [app : TApp, pods : PodMap, noNode : SUBSET Id] /\ plan = {}

Decide ==
    /\ plan = {}
    /\ plan' \in {{p} : p \in instanceToSync(input.app, input.pods, input.noNode)}
    /\ UNCHANGED input

Spec == Init /\ [][Decide]_<<input, plan>>

-----------------------------------------------------------------------------
(* Properties *)

available == getAvailablePods(input.pods, desiredRunning(input.app))

strategy == setDefaultValue(input.app.spec)

minAvailable(v) ==
    LET total == Cardinality(desiredRunning(input.app)) IN total - scaledValue(v, total)

outdated == {i \in desiredRunning(input.app) :
                syncRunningPod(input.app.spec, i, input.pods[i]) \in {"UPDATE", "RECREATE"}}

rolling == {i \in outdated : isInRollingUpdate(input.app.spec, i)}

unwanted == {i \in Id : /\ input.pods[i] # NoPod
                        /\ i >= input.app.spec.replicas \/ i \in desiredCompleted(input.app)}

malformed == "bad" \in {strategy.maxUnavailable.kind, strategy.forceMaxUnavailable.kind}

\* v lets so many of the instances be down.  A percentage of them is rounded up to the next
\* whole instance (controller.go:831 and 876 ask for it): 50% lets 2 of 3 be down together,
\* although doc/tutorial.md:343 says of this case that two pods are not updated at once.
mayBeDown(down, v) ==
    \/ v.kind = "int" /\ down <= v.val
    \/ v.kind = "percent" /\ 100 * down < v.val * Cardinality(desiredRunning(input.app)) + 100

\* An update that takes an available pod never leaves more instances down than its budget,
\* rounded up, lets be down: the rolling budget when only rolling pods are outdated, the
\* forced one when only others are, and the higher of the two otherwise.
PlanKeepsBudget ==
    \A p \in plan :
       LET kept == available \ (p.del \cup p.update)
           down == Cardinality(desiredRunning(input.app)) - Cardinality(kept)
       IN  \/ kept = available
           \/ outdated \ rolling # {} /\ mayBeDown(down, strategy.forceMaxUnavailable)
           \/ rolling # {} /\ mayBeDown(down, strategy.maxUnavailable)

\* Some request, whole or garbled, makes the API server store the TApp
admitted == \E garbled \in Garbled : Serve(input.app, garbled) = "allowed"

\* An update of a TApp the webhook let through cannot wedge itself: outdated pods of the
\* rolling template that are out of service are always replaced, and some outdated pod is
\* once all the others are in service.
AdmittedNeverWedged ==
    \A p \in plan :
       admitted =>
         /\ rolling \ available \subseteq p.del \cup p.update
         /\ available = desiredRunning(input.app) /\ outdated # {} => p.del \cup p.update # {}

\* A plan that does nothing means there is nothing to do, or something to wait for: a dying
\* pod, a template the user has not supplied, or a budget that is used up.  A completed pod is
\* left alone only if the status of its instance says so: final, not waiting for a migration.
QuietMeansDone ==
    \A p \in plan :
       p.add \cup p.del \cup p.forceDel \cup p.update = {} =>
         /\ \A i \in unwanted : isPodDying(input.pods[i])
         /\ \A i \in desiredRunning(input.app) :
              \/ getPodTemplate(input.app.spec, i) = NoTemplate
              \/ /\ input.pods[i] # NoPod
                 /\ \/ isPodDying(input.pods[i])
                    \/ podStatus(input.app.spec, i, input.pods[i]) \in {"Failed", "Succ"}
                    \/ /\ ~isPodCompleted(input.pods[i])
                       /\ \/ ~isTemplateHashChanged(input.app.spec, i, input.pods[i])
                          \/ malformed
                          \/ Cardinality(available) <= minAvailable(
                                IF i \in rolling THEN strategy.maxUnavailable
                                ELSE strategy.forceMaxUnavailable)
=============================================================================
