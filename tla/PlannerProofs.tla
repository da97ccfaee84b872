--------------------------- MODULE PlannerProofs ----------------------------
(***************************************************************************)
(* What the webhook guarantees the planner about the budgets of an update, *)
(* what every plan keeps and does, for any TApp, pods and budgets, and     *)
(* that the loops of the code make such plans.                             *)
(***************************************************************************)
EXTENDS PlanLoops, TAppPlanProofs

\* A value validateIntOrPercent accepts is a number or a percentage that lets at least one
\* pod go down, whatever the number of replicas; a percentage never lets more go down than
\* there are.
THEOREM AdmittedValue ==
    ASSUME NEW v \in IntOrString, validateIntOrPercent(v), NEW total \in Nat \ {0}
    PROVE  /\ v.kind \in {"int", "percent"}
           /\ scaledValue(v, total) >= 1
           /\ v.kind = "percent" => scaledValue(v, total) <= total
<1>1. v.val \in Int /\ v.kind \in {"int", "percent", "bad", "nil"}
  BY DEF IntOrString
<1>2. CASE v.kind = "int"
  <2>1. v.val >= 0 /\ v.val # 0
    BY <1>2 DEF validateIntOrPercent, validatePositiveIntOrPercent, isNotZero, isPercent
  <2> QED
    BY <1>1, <1>2, <2>1 DEF scaledValue
<1>3. CASE v.kind # "int"
  <2>1. isPercent(v)
    BY <1>3 DEF validateIntOrPercent, validatePositiveIntOrPercent
  <2>2. v.val >= 1 /\ v.val <= 100
    BY <1>1, <2>1 DEF validateIntOrPercent, isNotMoreThan100Percent, isNotZero, getPercentValue,
                      isPercent
  <2> DEFINE scaled == v.val * total
  <2>3. scaled \in Int /\ scaled >= 1 /\ scaled <= 100 * total
    <3>1. (v.val - 1) * total >= 0 /\ (100 - v.val) * total >= 0
      <4>1. \A x, y \in Nat : x * y >= 0
        OBVIOUS
      <4> QED
        BY <1>1, <2>2, <4>1
    <3> QED
      BY <1>1, <3>1
  <2>4. (scaled + 99) \div 100 >= 1 /\ (scaled + 99) \div 100 <= total
    <3> HIDE DEF scaled
    <3> QED
      BY <2>3
  <2> QED
    BY <1>3, <2>1, <2>4 DEF scaledValue, isPercent
<1> QED
  BY <1>2, <1>3

\* The strategy of a TApp the webhook lets through, with the defaults preprocessTApp fills in,
\* has two well-formed budgets of at least one pod.
THEOREM AdmittedStrategy ==
    ASSUME NEW app \in TApp, \E garbled \in Garbled : Serve(app, garbled) = "allowed",
           NEW total \in Nat \ {0}
    PROVE  LET filled == setDefaultValue(app.spec)
           IN  /\ filled.maxUnavailable.kind # "bad"
               /\ filled.forceMaxUnavailable.kind # "bad"
               /\ scaledValue(filled.maxUnavailable, total) >= 1
               /\ scaledValue(filled.forceMaxUnavailable, total) >= 1
<1> DEFINE max == app.spec.maxUnavailable
           force == app.spec.forceMaxUnavailable
           filled == setDefaultValue(app.spec)
<1>1. validateTAppUpdateStrategy(app.spec)
  BY DEF Serve, validateHandler, validate, validateTAppSpec
<1>2. app.spec \in TAppSpec /\ max \in IntOrString /\ force \in IntOrString
  BY DEF TApp, TAppSpec
<1>3. /\ max.kind # "nil" => validateIntOrPercent(max)
      /\ force.kind # "nil" => validateIntOrPercent(force)
  BY <1>1 DEF validateTAppUpdateStrategy
<1>4. /\ filled.maxUnavailable = IF max.kind = "nil" THEN [kind |-> "int", val |-> 1] ELSE max
      /\ filled.forceMaxUnavailable =
           IF force.kind = "nil" THEN [kind |-> "percent", val |-> 100] ELSE force
  BY <1>2 DEF setDefaultValue, TAppSpec
<1>5. \A v \in IntOrString : validateIntOrPercent(v) =>
         v.kind # "bad" /\ scaledValue(v, total) >= 1
  BY AdmittedValue
<1>6. /\ [kind |-> "int", val |-> 1] \in IntOrString
      /\ validateIntOrPercent([kind |-> "int", val |-> 1])
      /\ [kind |-> "percent", val |-> 100] \in IntOrString
      /\ validateIntOrPercent([kind |-> "percent", val |-> 100])
  BY DEF IntOrString, validateIntOrPercent, validatePositiveIntOrPercent, isPercent,
         isNotMoreThan100Percent, isNotZero, getPercentValue
<1> HIDE DEF max, force, filled
<1>7. /\ filled.maxUnavailable.kind # "bad" /\ scaledValue(filled.maxUnavailable, total) >= 1
  BY <1>2, <1>3, <1>4, <1>5, <1>6
<1>8. /\ filled.forceMaxUnavailable.kind # "bad"
      /\ scaledValue(filled.forceMaxUnavailable, total) >= 1
  BY <1>2, <1>3, <1>4, <1>5, <1>6
<1> QED
  BY <1>7, <1>8 DEF filled

-----------------------------------------------------------------------------
(* Plans *)

Input == input \in [app : TApp, pods : PodMap, noNode : SUBSET Id]

Plans == instanceToSync(input.app, input.pods, input.noNode)

actionOf(i) == getNextActionsForPods(input.app, input.pods)[i]

\* What the two update passes take
Taken(C) ==
    LET force == strategy.forceMaxUnavailable
        roll  == strategy.maxUnavailable
    IN  IF force.kind = "bad" THEN C = {}
        ELSE \E F \in ForcePick(outdated \ rolling, available, minAvailable(force)) :
               C = F \cup IF roll.kind = "bad" THEN {}
                          ELSE RollPick(rolling, available \ F, minAvailable(roll))

\* The action of a desired running instance is that of syncRunningPods.
LEMMA ActionOfRunning ==
    ASSUME Input, NEW i \in Id
    PROVE  /\ i \in desiredRunning(input.app) =>
                actionOf(i) = syncRunningPod(input.app.spec, i, input.pods[i])
           /\ i \notin desiredRunning(input.app) => actionOf(i) \in {"DELETE", "NONE"}
           /\ i \in unwanted => actionOf(i) = "DELETE"
<1>1. input.app.spec.replicas \in Int /\ i \in Int
  BY MaxReplicasAssumption DEF Input, TApp, TAppSpec, Id
<1> QED
  BY <1>1 DEF actionOf, getNextActionsForPods, desiredRunning, unwanted

\* No pod that counts as available is deleted by the first loop.
LEMMA AvailableNotDeleted ==
    ASSUME Input, NEW i \in available
    PROVE  actionOf(i) # "DELETE"
<1>1. /\ i \in Id /\ i \in desiredRunning(input.app) /\ input.pods[i] # NoPod
      /\ ~isPodInActive(input.pods[i])
  BY DEF available, getAvailablePods, desiredRunning
<1>2. ~isPodDying(input.pods[i]) /\ ~isPodCompleted(input.pods[i])
  BY <1>1 DEF isPodInActive, isPodCompleted
<1>3. actionOf(i) = syncRunningPod(input.app.spec, i, input.pods[i])
  BY <1>1, ActionOfRunning
<1> QED
  BY <1>1, <1>2, <1>3 DEF syncRunningPod

\* The outdated instances are those that are updated or recreated.
LEMMA OutdatedActions ==
    ASSUME Input
    PROVE  outdated = {i \in Id : actionOf(i) \in {"UPDATE", "RECREATE"}}
<1>1. desiredRunning(input.app) \subseteq Id
  BY DEF desiredRunning
<1> QED
  BY <1>1, ActionOfRunning DEF outdated

\* A plan is the first loop's and a set the update passes can take: of the available pods it
\* touches those in that set only.
LEMMA PlanShape ==
    ASSUME Input, NEW p \in Plans
    PROVE  /\ p.add = {i \in Id : /\ actionOf(i) = "CREATE"
                                  /\ getPodTemplate(input.app.spec, i) # NoTemplate}
           /\ \A i \in Id : actionOf(i) = "DELETE" /\ ~isPodDying(input.pods[i]) =>
                               i \in p.del \cup p.forceDel
           /\ \E C \in SUBSET outdated :
                /\ Taken(C) /\ C \subseteq p.del \cup p.update
                /\ available \ (p.del \cup p.update) = available \ C
<1> DEFINE actions == getNextActionsForPods(input.app, input.pods)
           changed == {i \in Id : actions[i] \in {"UPDATE", "RECREATE"}}
           forced == toForceDelete(input.app.spec, actions, input.pods, input.noNode)
<1>1. PICK C \in pickedUpdates(input.app.spec, actions, input.pods, desiredRunning(input.app)) :
         p = planWith(input.app.spec, actions, input.pods, input.noNode, C)
  BY DEF Plans, instanceToSync, transformPodActions
<1>2. \A i \in Id : actions[i] = actionOf(i)
  BY DEF actionOf
<1>3. changed = outdated
  BY <1>2, OutdatedActions
<1>4. /\ p.add = toCreate(input.app.spec, actions)
      /\ p.del = {i \in Id \ forced : actions[i] = "DELETE" /\ ~isPodDying(input.pods[i])}
                   \cup {i \in C : actions[i] = "RECREATE"}
      /\ p.forceDel = forced
      /\ p.update = {i \in C : actions[i] = "UPDATE"}
  BY <1>1 DEF planWith
<1>5. Taken(C)
  <2>1. available = getAvailablePods(input.pods, desiredRunning(input.app))
                      \ {i \in Id : actions[i] = "DELETE"}
    <3>1. \A i \in available : actions[i] # "DELETE"
      BY AvailableNotDeleted DEF actionOf
    <3> QED
      BY <3>1 DEF available
  <2>2. rolling = {i \in changed : isInRollingUpdate(input.app.spec, i)}
    BY <1>3 DEF rolling
  <2> HIDE DEF actions
  <2> QED
    BY <1>1, <1>3, <2>1, <2>2, Zenon DEF pickedUpdates, Taken, strategy, minAvailable
<1>6. C \subseteq outdated
  <2>1. \A F, A, min : ForcePick(F, A, min) \subseteq SUBSET F
    BY DEF ForcePick
  <2>2. \A R, A, min : RollPick(R, A, min) \subseteq R
    BY DEF RollPick
  <2>3. rolling \subseteq outdated
    BY DEF rolling
  <2>4. \A F, A, n : F \in ForcePick(outdated \ rolling, A, n) => F \subseteq outdated
    BY <2>1
  <2>5. \A A, n : RollPick(rolling, A, n) \subseteq outdated
    BY <2>2, <2>3
  <2>6. \/ C = {}
        \/ \E F, A, n, B, m : /\ F \in ForcePick(outdated \ rolling, A, n)
                              /\ C = F \cup {} \/ C = F \cup RollPick(rolling, B, m)
    BY <1>5, Zenon DEF Taken
  <2> QED
    BY <2>4, <2>5, <2>6
<1>7. C \subseteq p.del \cup p.update
  BY <1>3, <1>4, <1>6
<1>8. available \ (p.del \cup p.update) = available \ C
  <2>1. \A i \in available : i \in Id /\ actions[i] # "DELETE"
    BY AvailableNotDeleted DEF actionOf, available, getAvailablePods, desiredRunning
  <2> HIDE DEF actions
  <2> QED
    BY <1>4, <1>7, <2>1
<1>9. p.add = {i \in Id : actionOf(i) = "CREATE" /\ getPodTemplate(input.app.spec, i) # NoTemplate}
  BY <1>2, <1>4 DEF toCreate
<1>10. \A i \in Id : actionOf(i) = "DELETE" /\ ~isPodDying(input.pods[i]) =>
                        i \in p.del \cup p.forceDel
  BY <1>2, <1>4
<1> QED
  BY <1>5, <1>6, <1>7, <1>8, <1>9, <1>10

\* The sets the passes work on are finite sets of ids, and a minimum is a number.
LEMMA Finite ==
    ASSUME Input
    PROVE  /\ outdated \subseteq Id /\ rolling \subseteq outdated /\ available \subseteq Id
           /\ available \subseteq desiredRunning(input.app)
           /\ \A S \in SUBSET Id : IsFiniteSet(S) /\ Cardinality(S) \in Nat
           /\ Cardinality(desiredRunning(input.app)) \in Nat
           /\ minAvailable(strategy.maxUnavailable) \in Int
           /\ minAvailable(strategy.forceMaxUnavailable) \in Int
<1>1. desiredRunning(input.app) \subseteq Id
  BY DEF desiredRunning
<1>2. IsFiniteSet(Id)
  BY FS_Interval, MaxReplicasAssumption DEF Id
<1>3. \A S \in SUBSET Id : IsFiniteSet(S) /\ Cardinality(S) \in Nat
  BY <1>2, FS_Subset, FS_CardinalityType
<1>4. \A v \in IntOrString, n \in Nat : n - scaledValue(v, n) \in Int
  BY DEF IntOrString, scaledValue
<1>5. strategy.maxUnavailable \in IntOrString /\ strategy.forceMaxUnavailable \in IntOrString
  BY DEF strategy, setDefaultValue, Input, TApp, TAppSpec, IntOrString
<1> QED
  BY <1>1, <1>3, <1>4, <1>5
     DEF outdated, rolling, available, getAvailablePods, minAvailable

\* A nonempty set of ids has a smallest one.
LEMMA SmallestId ==
    ASSUME NEW T \in SUBSET Id, T # {}
    PROVE  \E p \in T : \A q \in T : p <= q
<1>1. T \subseteq Nat
  BY MaxReplicasAssumption DEF Id
<1>2. \E x \in T : \A y \in T : ~(<<y, x>> \in OpToRel(<, Nat))
  BY <1>1, WFMin, NatLessThanWellFounded
<1>3. PICK x \in T : \A y \in T : ~(y < x)
  BY <1>1, <1>2 DEF OpToRel
<1> QED
  BY <1>1, <1>3

\* The rolling pass takes every pod that is out of service, and stops before the first pod
\* only when no more than min are available.
LEMMA RollPickTakes ==
    ASSUME NEW R \in SUBSET Id, NEW A \in SUBSET Id, NEW min \in Int, Cardinality(A) \in Nat
    PROVE  /\ R \ A \subseteq RollPick(R, A, min)
           /\ R # {} /\ RollPick(R, A, min) = {} => Cardinality(A) <= min
<1>1. R \ A \subseteq RollPick(R, A, min)
  BY DEF RollPick
<1>2. ASSUME R # {}, RollPick(R, A, min) = {}
      PROVE  Cardinality(A) <= min
  <2>1. PICK p \in R : \A q \in R : p <= q
    BY <1>2, SmallestId
  <2>2. R \subseteq Int
    BY MaxReplicasAssumption DEF Id
  <2>3. {q \in R : q < p} = {}
    <3>1. \A q \in R : ~(q < p)
      BY <2>1, <2>2
    <3> QED
      BY <3>1, Zenon
  <2>4. ~(p \in A => Cardinality(A \ {q \in R : q < p}) > min)
    BY <1>2 DEF RollPick
  <2>5. A \ {q \in R : q < p} = A
    BY <2>3
  <2> QED
    BY <2>4, <2>5
<1> QED
  BY <1>1, <1>2

-----------------------------------------------------------------------------
(* The three properties of one plan *)

\* Keeping the minimum that GetValueFromIntOrPercent computes is keeping the budget: the
\* division rounds up and no further.
LEMMA MinimumIsBudget ==
    ASSUME Input, NEW v \in IntOrString, v.kind \in {"int", "percent"},
           NEW kept \in Int, kept >= minAvailable(v)
    PROVE  mayBeDown(Cardinality(desiredRunning(input.app)) - kept, v)
<1> DEFINE total == Cardinality(desiredRunning(input.app))
           scaled == v.val * total
<1>1. total \in Nat /\ v.val \in Int /\ scaled \in Int
  BY Finite DEF IntOrString
<1>2. total - kept <= scaledValue(v, total)
  <2>1. kept >= total - scaledValue(v, total)
    BY DEF minAvailable
  <2>2. scaledValue(v, total) \in Int
    BY <1>1 DEF scaledValue
  <2> QED
    BY <1>1, <2>1, <2>2
<1>3. CASE v.kind = "int"
  BY <1>2, <1>3 DEF scaledValue, mayBeDown
<1>4. CASE v.kind = "percent"
  <2>1. total - kept <= (scaled + 99) \div 100
    BY <1>2, <1>4 DEF scaledValue
  <2>2. 100 * (total - kept) < scaled + 100
    <3> HIDE DEF total, scaled
    <3> QED
      BY <1>1, <2>1
  <2> QED
    BY <1>4, <2>2 DEF mayBeDown
<1> QED
  BY <1>3, <1>4

LEMMA OnePlanKeepsMinimum ==
    ASSUME Input, NEW p \in Plans
    PROVE  LET kept == available \ (p.del \cup p.update)
               force == strategy.forceMaxUnavailable
               roll == strategy.maxUnavailable
           IN  \/ kept = available
               \/ /\ outdated \ rolling # {} /\ force.kind # "bad"
                  /\ Cardinality(kept) >= minAvailable(force)
               \/ /\ rolling # {} /\ roll.kind # "bad"
                  /\ Cardinality(kept) >= minAvailable(roll)
<1> DEFINE force == strategy.forceMaxUnavailable
           roll == strategy.maxUnavailable
<1>1. PICK C \in SUBSET outdated :
         Taken(C) /\ available \ (p.del \cup p.update) = available \ C
  BY PlanShape
<1>2. CASE C = {}
  BY <1>1, <1>2
<1>3. CASE C # {}
  <2>1. PICK F \in ForcePick(outdated \ rolling, available, minAvailable(force)) :
           C = F \cup IF roll.kind = "bad" THEN {}
                      ELSE RollPick(rolling, available \ F, minAvailable(roll))
    BY <1>1, <1>3 DEF Taken
  <2>8. force.kind # "bad"
    BY <1>1, <1>3 DEF Taken
  <2> DEFINE A == available \ F
             R == RollPick(rolling, A, minAvailable(roll))
  <2>2. A \in SUBSET Id /\ IsFiniteSet(A) /\ rolling \in SUBSET Id /\ IsFiniteSet(available)
        /\ minAvailable(roll) \in Int /\ minAvailable(force) \in Int
    BY Finite
  <2>3. F \subseteq outdated \ rolling /\ R \subseteq rolling
    BY <2>1 DEF ForcePick, RollPick
  <2>4. Cardinality(available \ F) >= minAvailable(force) \/ available \cap F = {}
    BY <2>1, <2>2, ForcePickBudget
  <2>5. Cardinality(A \ R) >= minAvailable(roll) \/ A \cap R = {}
    BY <2>2, RollPickBudget
  <2>6. CASE C = F \/ A \cap R = {}
    <3>1. available \ C = available \ F
      BY <2>1, <2>6
    <3>2. CASE available \cap F = {}
      BY <1>1, <3>1, <3>2
    <3>3. CASE available \cap F # {}
      BY <1>1, <2>3, <2>4, <2>8, <3>1, <3>3
    <3> QED
      BY <3>2, <3>3
  <2>7. CASE C = F \cup R /\ A \cap R # {} /\ roll.kind # "bad"
    <3>1. available \ C = A \ R
      BY <2>7
    <3> QED
      BY <1>1, <2>3, <2>5, <2>7, <3>1
  <2> QED
    BY <2>1, <2>6, <2>7
<1> QED
  BY <1>2, <1>3

LEMMA OnePlanKeepsBudget ==
    ASSUME Input, NEW p \in Plans
    PROVE  LET kept == available \ (p.del \cup p.update)
               down == Cardinality(desiredRunning(input.app)) - Cardinality(kept)
           IN  \/ kept = available
               \/ outdated \ rolling # {} /\ mayBeDown(down, strategy.forceMaxUnavailable)
               \/ rolling # {} /\ mayBeDown(down, strategy.maxUnavailable)
<1> DEFINE kept == available \ (p.del \cup p.update)
<1>1. Cardinality(kept) \in Int
  <2>1. IsFiniteSet(available)
    BY Finite
  <2> QED
    BY <2>1, FS_Subset, FS_CardinalityType
<1>2. /\ strategy.forceMaxUnavailable \in IntOrString
      /\ strategy.maxUnavailable \in IntOrString
      /\ "nil" \notin {strategy.forceMaxUnavailable.kind, strategy.maxUnavailable.kind}
  <2>1. /\ input.app.spec.maxUnavailable \in IntOrString
        /\ input.app.spec.forceMaxUnavailable \in IntOrString
        /\ input.app.spec \in TAppSpec
    BY DEF Input, TApp, TAppSpec
  <2> QED
    BY <2>1 DEF strategy, setDefaultValue, IntOrString, TAppSpec
<1>3. \A v \in IntOrString :
         v.kind \notin {"bad", "nil"} /\ Cardinality(kept) >= minAvailable(v) =>
            mayBeDown(Cardinality(desiredRunning(input.app)) - Cardinality(kept), v)
  <2> HIDE DEF kept
  <2> QED
    BY <1>1, MinimumIsBudget DEF IntOrString
<1> QED
  BY <1>2, <1>3, OnePlanKeepsMinimum

LEMMA OnePlanNotWedged ==
    ASSUME Input, NEW p \in Plans, admitted
    PROVE  /\ rolling \ available \subseteq p.del \cup p.update
           /\ available = desiredRunning(input.app) /\ outdated # {} => p.del \cup p.update # {}
<1> DEFINE force == strategy.forceMaxUnavailable
           roll == strategy.maxUnavailable
           total == Cardinality(desiredRunning(input.app))
<1>1. PICK C \in SUBSET outdated : Taken(C) /\ C \subseteq p.del \cup p.update
  BY PlanShape
<1>2. CASE outdated = {}
  BY <1>2, Finite
<1>3. CASE outdated # {}
  <2>1. total \in Nat \ {0}
    <3>1. desiredRunning(input.app) # {} /\ desiredRunning(input.app) \in SUBSET Id
      BY <1>3 DEF outdated, desiredRunning
    <3>2. total # 0
      BY <3>1, Finite, FS_EmptySet
    <3> QED
      BY <3>2, Finite
  <2>2. /\ force.kind # "bad" /\ roll.kind # "bad"
        /\ scaledValue(force, total) >= 1 /\ scaledValue(roll, total) >= 1
    BY <2>1, AdmittedStrategy DEF Input, admitted, strategy
  <2>3. minAvailable(force) < total /\ minAvailable(roll) < total
    <3>1. /\ minAvailable(force) = total - scaledValue(force, total)
          /\ minAvailable(roll) = total - scaledValue(roll, total)
      BY DEF minAvailable
    <3>2. scaledValue(force, total) \in Int /\ scaledValue(roll, total) \in Int
      <4>1. force \in IntOrString /\ roll \in IntOrString
        BY DEF strategy, setDefaultValue, Input, TApp, TAppSpec, IntOrString
      <4> HIDE DEF force, roll, total
      <4> QED
        BY <2>1, <4>1 DEF IntOrString, scaledValue
    <3> HIDE DEF force, roll, total
    <3> QED
      BY <2>1, <2>2, <3>1, <3>2
  <2>4. PICK F \in ForcePick(outdated \ rolling, available, minAvailable(force)) :
           C = F \cup RollPick(rolling, available \ F, minAvailable(roll))
    BY <1>1, <2>2 DEF Taken
  <2>5. /\ rolling \in SUBSET Id /\ available \ F \in SUBSET Id /\ available \in SUBSET Id
        /\ Cardinality(available \ F) \in Nat /\ Cardinality(available) \in Nat
        /\ minAvailable(roll) \in Int /\ minAvailable(force) \in Int
    BY Finite
  <2>6. rolling \ (available \ F) \subseteq C
    BY <2>4, <2>5, RollPickTakes
  <2>7. ASSUME available = desiredRunning(input.app), C = {}
        PROVE  FALSE
    <3>1. F = {} /\ available \ F = available
      BY <2>4, <2>7
    <3>2. Cardinality(available) = total
      BY <2>7
    <3>3. outdated \ rolling = {}
      BY <2>1, <2>3, <2>4, <2>5, <3>1, <3>2 DEF ForcePick
    <3>4. rolling # {}
      BY <1>3, <3>3
    <3>5. RollPick(rolling, available, minAvailable(roll)) = {}
      BY <2>4, <2>7, <3>1
    <3>6. Cardinality(available) <= minAvailable(roll)
      BY <2>5, <3>4, <3>5, RollPickTakes
    <3> QED
      BY <2>1, <2>3, <2>5, <3>2, <3>6
  <2> QED
    BY <1>1, <2>6, <2>7
<1> QED
  BY <1>2, <1>3

LEMMA OnePlanQuiet ==
    ASSUME Input, NEW p \in Plans, p.add \cup p.del \cup p.forceDel \cup p.update = {}
    PROVE  /\ \A i \in unwanted : isPodDying(input.pods[i])
           /\ \A i \in desiredRunning(input.app) :
                \/ getPodTemplate(input.app.spec, i) = NoTemplate
                \/ /\ input.pods[i] # NoPod
                   /\ \/ isPodDying(input.pods[i])
                      \/ podStatus(input.app.spec, i, input.pods[i]) \in {"Failed", "Succ"}
                      \/ /\ ~isPodCompleted(input.pods[i])
                         /\ \/ ~isTemplateHashChanged(input.app.spec, i, input.pods[i])
                            \/ malformed
                            \/ Cardinality(available) <= minAvailable(
                                  IF i \in rolling THEN strategy.maxUnavailable
                                  ELSE strategy.forceMaxUnavailable)
<1> DEFINE force == strategy.forceMaxUnavailable
           roll == strategy.maxUnavailable
<1>1. PICK C \in SUBSET outdated : Taken(C) /\ C \subseteq p.del \cup p.update
  BY PlanShape
<1>2. C = {}
  BY <1>1
<1>3. \A i \in unwanted : isPodDying(input.pods[i])
  <2>1. \A i \in unwanted : i \in Id /\ actionOf(i) = "DELETE"
    BY ActionOfRunning DEF unwanted
  <2> QED
    BY <2>1, PlanShape
<1>4. ASSUME NEW i \in desiredRunning(input.app),
             getPodTemplate(input.app.spec, i) # NoTemplate
      PROVE  /\ input.pods[i] # NoPod
             /\ \/ isPodDying(input.pods[i])
                \/ podStatus(input.app.spec, i, input.pods[i]) \in {"Failed", "Succ"}
                \/ /\ ~isPodCompleted(input.pods[i])
                   /\ \/ ~isTemplateHashChanged(input.app.spec, i, input.pods[i])
                      \/ malformed
                      \/ Cardinality(available)
                            <= minAvailable(IF i \in rolling THEN roll ELSE force)
  <2>1. i \in Id /\ actionOf(i) = syncRunningPod(input.app.spec, i, input.pods[i])
    BY <1>4, ActionOfRunning DEF desiredRunning
  <2>2. actionOf(i) # "CREATE"
    BY <1>4, <2>1, PlanShape
  <2>3. input.pods[i] # NoPod
    BY <2>1, <2>2 DEF syncRunningPod
  <2>5. CASE isPodCompleted(input.pods[i]) /\ ~isPodDying(input.pods[i])
    <3>1. actionOf(i) # "DELETE"
      BY <2>1, <2>5, PlanShape
    <3>2. ~shouldPodMigrate(input.app.spec, i, input.pods[i])
      BY <1>4, <2>1, <2>3, <2>5, <3>1 DEF syncRunningPod
    <3>3. podStatus(input.app.spec, i, input.pods[i]) \in {"Failed", "Succ"}
      <4>1. CASE input.pods[i].phase = "Failed"
        BY <1>4, <3>2, <4>1 DEF podStatus, isPodCompleted, isPodFailed, shouldPodMigrate
      <4>2. CASE input.pods[i].phase = "Succeeded"
        BY <1>4, <3>2, <4>2 DEF podStatus, isPodCompleted, isPodFailed, shouldPodMigrate
      <4> QED
        BY <2>5, <4>1, <4>2 DEF isPodCompleted
    <3> QED
      BY <2>3, <3>3
  <2>4. ASSUME ~isPodDying(input.pods[i]), ~isPodCompleted(input.pods[i]),
               isTemplateHashChanged(input.app.spec, i, input.pods[i]), ~malformed
        PROVE  Cardinality(available) <= minAvailable(IF i \in rolling THEN roll ELSE force)
    <3>1. i \in outdated
      BY <2>3, <2>4 DEF outdated, syncRunningPod
    <3>2. force.kind # "bad" /\ roll.kind # "bad"
      BY <2>4 DEF malformed
    <3>3. PICK F \in ForcePick(outdated \ rolling, available, minAvailable(force)) :
             {} = F \cup RollPick(rolling, available \ F, minAvailable(roll))
      BY <1>1, <1>2, <3>2 DEF Taken
    <3>4. F = {} /\ available \ F = available
      BY <3>3
    <3>5. RollPick(rolling, available, minAvailable(roll)) = {}
      BY <3>3, <3>4
    <3>6. CASE i \in rolling
      <4>1. /\ rolling \in SUBSET Id /\ available \in SUBSET Id
            /\ Cardinality(available) \in Nat /\ minAvailable(roll) \in Int
        BY Finite
      <4> QED
        BY <3>5, <3>6, <4>1, RollPickTakes
    <3>7. CASE i \notin rolling
      BY <3>1, <3>3, <3>4, <3>7 DEF ForcePick
    <3> QED
      BY <3>6, <3>7
  <2> QED
    BY <2>3, <2>4, <2>5
<1> QED
  BY <1>3, <1>4

-----------------------------------------------------------------------------
(* The theorems *)

\* Decide leaves one plan of instanceToSync.
PlanInv == Input /\ \A p \in plan : p \in Plans

LEMMA PlanInvariant == Spec => []PlanInv
<1>1. Init => PlanInv
  BY DEF Init, PlanInv, Input
<1>2. PlanInv /\ [Decide]_<<input, plan>> => PlanInv'
  <2> SUFFICES ASSUME PlanInv, [Decide]_<<input, plan>>
               PROVE  PlanInv'
    OBVIOUS
  <2>1. CASE Decide
    <3>1. input' = input /\ \A p \in plan' : p \in Plans
      BY <2>1 DEF Decide, Plans
    <3> QED
      BY <3>1 DEF PlanInv, Input, Plans
  <2>2. CASE UNCHANGED <<input, plan>>
    BY <2>2 DEF PlanInv, Input, Plans
  <2> QED
    BY <2>1, <2>2
<1> QED
  BY <1>1, <1>2, PTL DEF Spec

\* For any number of replicas and any budgets: transformPodActions never takes available pods
\* beyond what the budgets of its two passes, percentages rounded up, let be down.
THEOREM PlansKeepBudget == Spec => []PlanKeepsBudget
<1>1. PlanInv => PlanKeepsBudget
  BY OnePlanKeepsBudget DEF PlanInv, PlanKeepsBudget
<1> QED
  BY <1>1, PlanInvariant, PTL

\* For any TApp the webhook lets through: an update makes progress whenever every instance is
\* in service, and its rolling pass never waits for a pod that is out of service.
THEOREM AdmittedUpdatesMove == Spec => []AdmittedNeverWedged
<1>1. PlanInv => AdmittedNeverWedged
  BY OnePlanNotWedged DEF PlanInv, AdmittedNeverWedged
<1> QED
  BY <1>1, PlanInvariant, PTL

\* For any TApp and pods: instanceToSync plans nothing only when nothing is to be done or
\* everything left has to wait.
THEOREM QuietPlansAreDone == Spec => []QuietMeansDone
<1>1. PlanInv => QuietMeansDone
  BY OnePlanQuiet DEF PlanInv, QuietMeansDone
<1> QED
  BY <1>1, PlanInvariant, PTL

-----------------------------------------------------------------------------
(* The loops of transformPodActions *)

deleted == {i \in Id : podActions[i] = "DELETE"}

\* What the update passes start from, and the plan when they take T
served == available \ deleted

planOf(T) == planWith(input.app.spec, podActions, input.pods, input.noNode, T)

minForced == minAvailable(strategy.forceMaxUnavailable)
minRolling == minAvailable(strategy.maxUnavailable)

FirstLoopInv ==
    /\ todo \subseteq deletedOrCreated
    /\ got = [available |-> available \ (deleted \ todo),
              plan |-> [add |-> planOf({}).add \ todo, del |-> planOf({}).del \ todo,
                        forceDel |-> planOf({}).forceDel \ todo, update |-> {}]]

\* T was taken: all there was so far, unless the minimum is reached
ForceLoopInv(T) ==
    /\ todo \subseteq forcedIds /\ T \subseteq forcedIds \ todo
    /\ got = [available |-> served \ T, plan |-> planOf(T)]
    /\ T = {} \/ \E last \in T : Cardinality(served \ (T \ {last})) > minForced
    /\ T = forcedIds \ todo \/ Cardinality(served \ T) <= minForced

\* The force pass took F, and the rolling pass what RollPick says of the ids it has visited:
\* all of them that were available, unless the minimum is reached
RollLoopInv(F) ==
    LET A == served \ F
        U == RollPick(rollingUpdateIds, A, minRolling) \ todo
    IN  /\ F \in ForcePick(forcedIds, served, minForced)
        /\ todo \subseteq rollingUpdateIds
        /\ \A i \in todo, j \in rollingUpdateIds \ todo : j < i
        /\ got = [available |-> A \ U, plan |-> planOf(F \cup U)]
        /\ A \cap U = A \cap (rollingUpdateIds \ todo) \/ Cardinality(A \ U) <= minRolling

LoopInv ==
    /\ Input
    /\ loop \in {"first", "force", "roll", "done"}
    /\ loop = "done" \/ plan = {}
    /\ loop = "first" => FirstLoopInv
    /\ loop \in {"force", "roll"} => strategy.forceMaxUnavailable.kind # "bad"
    /\ loop = "force" => \E T \in SUBSET Id : ForceLoopInv(T)
    /\ loop = "roll" => /\ strategy.maxUnavailable.kind # "bad"
                        /\ \E F \in SUBSET Id : RollLoopInv(F)

\* planWith, slice by slice
LEMMA PlanOf ==
    ASSUME NEW T
    PROVE  LET forced == toForceDelete(input.app.spec, podActions, input.pods, input.noNode)
           IN  planOf(T) =
                 [add |-> toCreate(input.app.spec, podActions),
                  del |-> {i \in Id \ forced : /\ podActions[i] = "DELETE"
                                               /\ ~isPodDying(input.pods[i])}
                            \cup {i \in T : podActions[i] = "RECREATE"},
                  forceDel |-> forced,
                  update |-> {i \in T : podActions[i] = "UPDATE"}]
BY Zenon DEF planOf, planWith

\* The body of the first loop does for one id what planWith says of it
LEMMA DeleteOrCreate ==
    ASSUME FirstLoopInv, NEW i \in todo
    PROVE  deleteOrCreate(got, i) =
             [available |-> available \ (deleted \ (todo \ {i})),
              plan |-> [add |-> planOf({}).add \ (todo \ {i}),
                        del |-> planOf({}).del \ (todo \ {i}),
                        forceDel |-> planOf({}).forceDel \ (todo \ {i}), update |-> {}]]
<1> DEFINE forced == toForceDelete(input.app.spec, podActions, input.pods, input.noNode)
           created == toCreate(input.app.spec, podActions)
           ended == {j \in Id \ forced : podActions[j] = "DELETE" /\ ~isPodDying(input.pods[j])}
<1>1. planOf({}).add = created /\ planOf({}).del = ended /\ planOf({}).forceDel = forced
  <2>1. ended \cup {j \in {} : podActions[j] = "RECREATE"} = ended
    OBVIOUS
  <2>2. planOf({}) = [add |-> created, del |-> ended \cup {j \in {} : podActions[j] = "RECREATE"},
                      forceDel |-> forced, update |-> {j \in {} : podActions[j] = "UPDATE"}]
    BY PlanOf
  <2> HIDE DEF forced, created, ended
  <2> QED
    BY <2>1, <2>2
<1>2. /\ i \in Id /\ podActions[i] \in {"DELETE", "CREATE"}
      /\ i \in deleted <=> podActions[i] = "DELETE"
      /\ i \in created <=> /\ podActions[i] = "CREATE"
                           /\ getPodTemplate(input.app.spec, i) # NoTemplate
      /\ i \in forced <=> /\ podActions[i] = "DELETE"
                          /\ needForceDelete(input.app.spec, i, input.pods[i], input.noNode)
      /\ i \in ended <=> i \notin forced /\ podActions[i] = "DELETE" /\ ~isPodDying(input.pods[i])
  BY DEF FirstLoopInv, deletedOrCreated, deleted, toForceDelete, toCreate
<1> HIDE DEF forced, created, ended
<1> DEFINE h == available \ (deleted \ todo)
           p == got.plan
           a == created \ todo
           d == ended \ todo
           f == forced \ todo
<1>3. /\ got = [available |-> h, plan |-> p]
      /\ p = [add |-> a, del |-> d, forceDel |-> f, update |-> {}]
  BY <1>1 DEF FirstLoopInv
<1>4. \A S : /\ i \in S => S \ (todo \ {i}) = (S \ todo) \cup {i}
             /\ i \notin S => S \ (todo \ {i}) = S \ todo
  OBVIOUS
<1>5. /\ i \in deleted => available \ (deleted \ (todo \ {i})) = h \ {i}
      /\ i \notin deleted => available \ (deleted \ (todo \ {i})) = h
      /\ created \ (todo \ {i}) = IF i \in created THEN a \cup {i} ELSE a
      /\ ended \ (todo \ {i}) = IF i \in ended THEN d \cup {i} ELSE d
      /\ forced \ (todo \ {i}) = IF i \in forced THEN f \cup {i} ELSE f
  BY <1>4
<1> HIDE DEF h, p, a, d, f
<1>6. CASE podActions[i] = "CREATE"
  <2>1. i \notin deleted /\ i \notin ended /\ i \notin forced
    BY <1>2, <1>6
  <2>2. CASE getPodTemplate(input.app.spec, i) # NoTemplate
    <3>1. deleteOrCreate(got, i) = [got EXCEPT !.plan.add = got.plan.add \cup {i}]
      BY <1>6, <2>2 DEF deleteOrCreate
    <3>2. [got EXCEPT !.plan.add = got.plan.add \cup {i}] =
             [available |-> h, plan |-> [p EXCEPT !.add = p.add \cup {i}]]
      BY <1>3
    <3>3. [p EXCEPT !.add = p.add \cup {i}] =
            [add |-> a \cup {i}, del |-> d, forceDel |-> f, update |-> {}]
      BY <1>3
    <3> QED
      BY <1>1, <1>2, <1>5, <1>6, <2>1, <2>2, <3>1, <3>2, <3>3
  <2>3. CASE getPodTemplate(input.app.spec, i) = NoTemplate
    <3>1. deleteOrCreate(got, i) = got
      BY <1>6, <2>3 DEF deleteOrCreate
    <3> QED
      BY <1>1, <1>2, <1>3, <1>5, <1>6, <2>1, <2>3, <3>1
  <2> QED
    BY <2>2, <2>3
<1>7. CASE podActions[i] = "DELETE"
  <2>1. i \notin created /\ i \in deleted
    BY <1>2, <1>7
  <2>2. CASE needForceDelete(input.app.spec, i, input.pods[i], input.noNode)
    <3>1. deleteOrCreate(got, i) =
            [available |-> h \ {i}, plan |-> [p EXCEPT !.forceDel = p.forceDel \cup {i}]]
      BY <1>3, <1>7, <2>2 DEF deleteOrCreate
    <3>2. [p EXCEPT !.forceDel = p.forceDel \cup {i}] =
            [add |-> a, del |-> d, forceDel |-> f \cup {i}, update |-> {}]
      BY <1>3
    <3> QED
      BY <1>1, <1>2, <1>5, <1>7, <2>1, <2>2, <3>1, <3>2
  <2>3. CASE /\ ~needForceDelete(input.app.spec, i, input.pods[i], input.noNode)
             /\ isPodDying(input.pods[i])
    <3>1. deleteOrCreate(got, i) = [available |-> h \ {i}, plan |-> p]
      BY <1>3, <1>7, <2>3 DEF deleteOrCreate
    <3> QED
      BY <1>1, <1>2, <1>3, <1>5, <1>7, <2>1, <2>3, <3>1
  <2>4. CASE /\ ~needForceDelete(input.app.spec, i, input.pods[i], input.noNode)
             /\ ~isPodDying(input.pods[i])
    <3>1. deleteOrCreate(got, i) =
            [available |-> h \ {i}, plan |-> [p EXCEPT !.del = p.del \cup {i}]]
      BY <1>3, <1>7, <2>4 DEF deleteOrCreate
    <3>2. [p EXCEPT !.del = p.del \cup {i}] =
            [add |-> a, del |-> d \cup {i}, forceDel |-> f, update |-> {}]
      BY <1>3
    <3> QED
      BY <1>1, <1>2, <1>5, <1>7, <2>1, <2>4, <3>1, <3>2
  <2> QED
    BY <2>2, <2>3, <2>4
<1> QED
  BY <1>2, <1>6, <1>7

\* Taking an outdated pod down adds it to the set planWith is given
LEMMA TakeDown ==
    ASSUME NEW A, NEW T, NEW i, podActions[i] \in {"UPDATE", "RECREATE"}
    PROVE  takeDown([available |-> A, plan |-> planOf(T)], i) =
             [available |-> A \ {i}, plan |-> planOf(T \cup {i})]
<1> DEFINE forced == toForceDelete(input.app.spec, podActions, input.pods, input.noNode)
           created == toCreate(input.app.spec, podActions)
           ended == {j \in Id \ forced : podActions[j] = "DELETE" /\ ~isPodDying(input.pods[j])}
           re(S) == {j \in S : podActions[j] = "RECREATE"}
           up(S) == {j \in S : podActions[j] = "UPDATE"}
<1>1. \A S : planOf(S) = [add |-> created, del |-> ended \cup re(S), forceDel |-> forced,
                          update |-> up(S)]
  BY PlanOf
<1>2. /\ podActions[i] = "UPDATE" =>
           re(T \cup {i}) = re(T) /\ up(T \cup {i}) = up(T) \cup {i}
      /\ podActions[i] = "RECREATE" =>
           re(T \cup {i}) = re(T) \cup {i} /\ up(T \cup {i}) = up(T)
  OBVIOUS
<1> HIDE DEF forced, created, ended, re, up
<1>3. CASE podActions[i] = "UPDATE"
  <2>1. takeDown([available |-> A, plan |-> planOf(T)], i) =
          [available |-> A \ {i},
           plan |-> [add |-> created, del |-> ended \cup re(T), forceDel |-> forced,
                     update |-> up(T) \cup {i}]]
    BY <1>1, <1>3 DEF takeDown
  <2> QED
    BY <1>1, <1>2, <1>3, <2>1
<1>4. CASE podActions[i] = "RECREATE"
  <2>1. takeDown([available |-> A, plan |-> planOf(T)], i) =
          [available |-> A \ {i},
           plan |-> [add |-> created, del |-> (ended \cup re(T)) \cup {i}, forceDel |-> forced,
                     update |-> up(T)]]
    BY <1>1, <1>4 DEF takeDown
  <2>2. (ended \cup re(T)) \cup {i} = ended \cup re(T \cup {i})
    BY <1>2, <1>4
  <2> QED
    BY <1>1, <1>2, <1>4, <2>1, <2>2
<1> QED
  BY <1>3, <1>4

\* The body of the force pass takes an id while more than the minimum are available
LEMMA ForceUpdate ==
    ASSUME Input, NEW T \in SUBSET Id, ForceLoopInv(T), NEW i \in todo
    PROVE  \E S \in SUBSET Id :
             /\ S \subseteq forcedIds \ (todo \ {i})
             /\ forceUpdate(got, i) = [available |-> served \ S, plan |-> planOf(S)]
             /\ S = {} \/ \E last \in S : Cardinality(served \ (S \ {last})) > minForced
             /\ S = forcedIds \ (todo \ {i}) \/ Cardinality(served \ S) <= minForced
<1>1. i \in Id /\ i \in forcedIds /\ i \notin T /\ podActions[i] \in {"UPDATE", "RECREATE"}
  BY DEF ForceLoopInv, forcedIds
<1>2. got.available = served \ T /\ got = [available |-> served \ T, plan |-> planOf(T)]
  BY DEF ForceLoopInv
<1>3. Cardinality(served \ T) \in Nat /\ minForced \in Int
  <2>1. served \ T \in SUBSET Id
    BY Finite DEF served
  <2> QED
    BY <2>1, Finite DEF minForced
<1>4. CASE Cardinality(served \ T) <= minForced
  <2>1. ~(Cardinality(served \ T) > minForced)
    BY <1>3, <1>4
  <2>2. forceUpdate(got, i) = got
    BY <1>2, <2>1 DEF forceUpdate, minForced
  <2> QED
    BY <1>2, <1>4, <2>2 DEF ForceLoopInv
<1>5. CASE Cardinality(served \ T) > minForced
  <2> DEFINE S == T \cup {i}
  <2>1. T = forcedIds \ todo
    BY <1>3, <1>5 DEF ForceLoopInv
  <2>2. S \in SUBSET Id /\ S = forcedIds \ (todo \ {i}) /\ S \ {i} = T
    BY <1>1, <2>1
  <2>3. forceUpdate(got, i) = takeDown(got, i)
    BY <1>2, <1>5 DEF forceUpdate, minForced
  <2>4. takeDown(got, i) = [available |-> (served \ T) \ {i}, plan |-> planOf(S)]
    <3>1. takeDown([available |-> served \ T, plan |-> planOf(T)], i) =
            [available |-> (served \ T) \ {i}, plan |-> planOf(T \cup {i})]
      BY <1>1, TakeDown
    <3> QED
      BY <1>2, <3>1
  <2>5. (served \ T) \ {i} = served \ S
    OBVIOUS
  <2>6. \E last \in S : Cardinality(served \ (S \ {last})) > minForced
    BY <1>5, <2>2
  <2> HIDE DEF S
  <2> QED
    BY <2>2, <2>3, <2>4, <2>5, <2>6
<1>6. Cardinality(served \ T) <= minForced \/ Cardinality(served \ T) > minForced
  BY <1>3
<1> QED
  BY <1>4, <1>5, <1>6, Zenon

\* The body of the rolling pass takes exactly the ids of RollPick
LEMMA RollUpdate ==
    ASSUME Input, NEW F \in SUBSET Id, RollLoopInv(F), NEW i \in todo, \A j \in todo : i <= j
    PROVE  LET A == served \ F
               U == RollPick(rollingUpdateIds, A, minRolling) \ (todo \ {i})
           IN  /\ rollUpdate(got, i) = [available |-> A \ U, plan |-> planOf(F \cup U)]
               /\ \/ A \cap U = A \cap (rollingUpdateIds \ (todo \ {i}))
                  \/ Cardinality(A \ U) <= minRolling
               /\ \A k \in todo \ {i}, j \in rollingUpdateIds \ (todo \ {i}) : j < k
<1> DEFINE R == rollingUpdateIds
           A == served \ F
           P == RollPick(R, A, minRolling)
           U == P \ todo
           V == P \ (todo \ {i})
           before == {q \in R : q < i}
<1>1. /\ todo \subseteq R /\ i \in R /\ R \subseteq Id
      /\ \A k \in todo, j \in R \ todo : j < k
      /\ got = [available |-> A \ U, plan |-> planOf(F \cup U)]
      /\ A \cap U = A \cap (R \ todo) \/ Cardinality(A \ U) <= minRolling
  BY DEF RollLoopInv, rollingUpdateIds
<1>2. Id \subseteq Int /\ podActions[i] \in {"UPDATE", "RECREATE"}
  BY <1>1, MaxReplicasAssumption DEF Id, rollingUpdateIds
<1>3. P \subseteq R /\ (i \in P <=> (i \in A => Cardinality(A \ before) > minRolling))
  BY <1>1 DEF RollPick
<1> HIDE DEF P
<1>4. before = R \ todo
  <2>1. \A q \in R : q < i <=> q \notin todo
    <3>1. SUFFICES ASSUME NEW q \in R PROVE q < i <=> q \notin todo
      OBVIOUS
    <3>2. q \in Int /\ i \in Int
      BY <1>1, <1>2
    <3> QED
      BY <1>1, <3>2
  <2> QED
    BY <2>1
<1>5. /\ A \in SUBSET Id /\ IsFiniteSet(A \ U) /\ A \ before \subseteq A \ U
      /\ Cardinality(A \ U) \in Nat /\ Cardinality(A \ before) \in Nat
      /\ minRolling \in Int
  <2>1. A \in SUBSET Id
    BY Finite DEF served
  <2>2. U \subseteq before
    BY <1>3, <1>4
  <2>3. A \ U \in SUBSET Id /\ A \ before \in SUBSET Id
    BY <2>1
  <2> QED
    BY <2>1, <2>2, <2>3, Finite DEF minRolling
<1>6. Cardinality(A \ before) <= Cardinality(A \ U)
  BY <1>5, FS_Subset
<1>7. Cardinality(A \ before) > minRolling <=> Cardinality(A \ U) > minRolling
  <2>1. CASE A \cap U = A \cap (R \ todo)
    <3>1. A \ U = A \ before
      BY <1>4, <2>1
    <3> QED
      BY <3>1
  <2>2. CASE Cardinality(A \ U) <= minRolling
    BY <1>5, <1>6, <2>2
  <2> QED
    BY <1>1, <2>1, <2>2
<1>8. got.available = A \ U /\ (i \in A \ U <=> i \in A)
  BY <1>1
<1>9. i \in P <=> (i \in got.available => Cardinality(got.available) > minRolling)
  BY <1>3, <1>7, <1>8
<1>10. \A k \in todo \ {i}, j \in R \ (todo \ {i}) : j < k
  <2>1. SUFFICES ASSUME NEW k \in todo \ {i}, NEW j \in R \ (todo \ {i}) PROVE j < k
    OBVIOUS
  <2>2. i <= k /\ i # k /\ i \in Int /\ k \in Int
    BY <1>1, <1>2
  <2> QED
    BY <1>1, <2>2
<1>11. CASE i \in P
  <2>1. V = U \cup {i} /\ A \ V = (A \ U) \ {i} /\ F \cup V = (F \cup U) \cup {i}
    BY <1>11
  <2>2. rollUpdate(got, i) = takeDown(got, i)
    BY <1>9, <1>11 DEF rollUpdate, minRolling
  <2>3. takeDown(got, i) = [available |-> (A \ U) \ {i}, plan |-> planOf((F \cup U) \cup {i})]
    <3>1. takeDown([available |-> A \ U, plan |-> planOf(F \cup U)], i) =
            [available |-> (A \ U) \ {i}, plan |-> planOf((F \cup U) \cup {i})]
      BY <1>2, TakeDown
    <3> QED
      BY <1>1, <3>1
  <2>4. A \cap V = A \cap (R \ (todo \ {i})) \/ Cardinality(A \ V) <= minRolling
    <3>1. CASE A \cap U = A \cap (R \ todo)
      BY <1>1, <2>1, <3>1
    <3>2. CASE Cardinality(A \ U) <= minRolling
      <4>1. i \notin A
        BY <1>5, <1>8, <1>9, <1>11, <3>2
      <4>2. A \ V = A \ U
        BY <2>1, <4>1
      <4> QED
        BY <3>2, <4>2
    <3> QED
      BY <1>1, <3>1, <3>2
  <2>5. rollUpdate(got, i) = [available |-> A \ V, plan |-> planOf(F \cup V)]
    <3> HIDE DEF A, U, V
    <3> QED
      BY <2>1, <2>2, <2>3
  <2> QED
    BY <1>10, <2>4, <2>5 DEF P
<1>12. CASE i \notin P
  <2>1. V = U
    BY <1>12
  <2>2. rollUpdate(got, i) = got
    BY <1>9, <1>12 DEF rollUpdate, minRolling
  <2>3. Cardinality(A \ U) <= minRolling
    BY <1>5, <1>8, <1>9, <1>12
  <2> QED
    BY <1>1, <1>10, <2>1, <2>2, <2>3 DEF P
<1> QED
  BY <1>11, <1>12

\* The first loop starts with nothing
LEMMA LoopStart ==
    ASSUME Init, LoopInit
    PROVE  LoopInv
<1> DEFINE made == planOf({})
<1>1. /\ made.add \subseteq deletedOrCreated /\ made.del \subseteq deletedOrCreated
      /\ made.forceDel \subseteq deletedOrCreated
  <2> DEFINE forced == toForceDelete(input.app.spec, podActions, input.pods, input.noNode)
             created == toCreate(input.app.spec, podActions)
             ended == {i \in Id \ forced : podActions[i] = "DELETE" /\ ~isPodDying(input.pods[i])}
             more == {i \in {} : podActions[i] = "RECREATE"}
             updated == {i \in {} : podActions[i] = "UPDATE"}
  <2>1. made = [add |-> created, del |-> ended \cup more, forceDel |-> forced, update |-> updated]
    BY PlanOf
  <2>2. /\ created \subseteq deletedOrCreated /\ ended \subseteq deletedOrCreated
        /\ forced \subseteq deletedOrCreated /\ more = {}
    BY DEF toForceDelete, toCreate, deletedOrCreated
  <2> HIDE DEF forced, created, ended, more, updated, made
  <2> QED
    BY <2>1, <2>2
<1> HIDE DEF made
<1>2. loop = "first" /\ todo = deletedOrCreated /\ got = nothing /\ plan = {} /\ Input
  BY DEF Init, LoopInit, Input
<1>3. /\ deleted \ todo = {} /\ made.add \ todo = {}
      /\ made.del \ todo = {} /\ made.forceDel \ todo = {}
  <2>1. deleted \subseteq deletedOrCreated
    BY DEF deleted, deletedOrCreated
  <2> QED
    BY <1>1, <1>2, <2>1
<1>4. available \ {} = available
  OBVIOUS
<1>5. FirstLoopInv
  BY <1>2, <1>3, <1>4 DEF FirstLoopInv, nothing, made
<1> QED
  BY <1>2, <1>5 DEF LoopInv

\* What the loops work on does not change
LEMMA Frozen ==
    ASSUME input' = input
    PROVE  /\ Input' = Input
           /\ available' = available /\ strategy' = strategy
           /\ podActions' = podActions /\ deletedOrCreated' = deletedOrCreated
           /\ forcedIds' = forcedIds /\ rollingUpdateIds' = rollingUpdateIds
           /\ deleted' = deleted /\ served' = served
           /\ minForced' = minForced /\ minRolling' = minRolling
           /\ \A T : planOf(T)' = planOf(T)
<1>1. podActions' = podActions /\ available' = available /\ strategy' = strategy
  BY DEF podActions, available, strategy
<1>2. /\ deletedOrCreated' = deletedOrCreated /\ deleted' = deleted
      /\ forcedIds' = forcedIds /\ rollingUpdateIds' = rollingUpdateIds
  BY <1>1 DEF deletedOrCreated, deleted, forcedIds, rollingUpdateIds
<1>3. minForced' = minForced /\ minRolling' = minRolling
  BY <1>1 DEF minForced, minRolling, minAvailable
<1>4. served' = served /\ Input' = Input
  BY <1>1, <1>2 DEF served, Input
<1>5. \A T : planOf(T)' = planOf(T)
  BY <1>1 DEF planOf
<1> QED
  BY <1>1, <1>2, <1>3, <1>4, <1>5

\* Whatever the passes took in the end, it is a plan of instanceToSync
LEMMA DescribedPlan ==
    ASSUME NEW C \in pickedUpdates(input.app.spec, podActions, input.pods,
                                   desiredRunning(input.app))
    PROVE  planOf(C) \in Plans
BY DEF planOf, Plans, instanceToSync, transformPodActions, podActions

\* The sets the two passes may take, in the words of the loops
LEMMA PickedUpdates ==
    LET picked == pickedUpdates(input.app.spec, podActions, input.pods, desiredRunning(input.app))
    IN  /\ strategy.forceMaxUnavailable.kind = "bad" => {} \in picked
        /\ \A F \in ForcePick(forcedIds, served, minForced) :
             strategy.forceMaxUnavailable.kind # "bad" =>
               /\ strategy.maxUnavailable.kind = "bad" => F \in picked
               /\ strategy.maxUnavailable.kind # "bad" =>
                    F \cup RollPick(rollingUpdateIds, served \ F, minRolling) \in picked
<1> DEFINE picked == pickedUpdates(input.app.spec, podActions, input.pods,
                                   desiredRunning(input.app))
           changed == {i \in Id : podActions[i] \in {"UPDATE", "RECREATE"}}
           rolled == {i \in changed : isInRollingUpdate(input.app.spec, i)}
<1>1. rolled = rollingUpdateIds /\ changed \ rolled = forcedIds
  BY DEF rollingUpdateIds, forcedIds
<1>2. served = getAvailablePods(input.pods, desiredRunning(input.app))
                 \ {i \in Id : podActions[i] = "DELETE"}
  BY DEF served, available, deleted
<1>3. picked = IF strategy.forceMaxUnavailable.kind = "bad" THEN {{}}
               ELSE {F \cup IF strategy.maxUnavailable.kind = "bad" THEN {}
                            ELSE RollPick(rolled, served \ F, minRolling)
                       : F \in ForcePick(changed \ rolled, served, minForced)}
  BY <1>2, Zenon DEF pickedUpdates, strategy, minForced, minRolling, minAvailable
<1> HIDE DEF picked, changed, rolled
<1>4. picked = IF strategy.forceMaxUnavailable.kind = "bad" THEN {{}}
               ELSE {F \cup IF strategy.maxUnavailable.kind = "bad" THEN {}
                            ELSE RollPick(rollingUpdateIds, served \ F, minRolling)
                       : F \in ForcePick(forcedIds, served, minForced)}
  BY <1>1, <1>3, Zenon
<1>5. strategy.forceMaxUnavailable.kind = "bad" => {} \in picked
  BY <1>4
<1>6. ASSUME NEW F \in ForcePick(forcedIds, served, minForced),
             strategy.forceMaxUnavailable.kind # "bad"
      PROVE  /\ strategy.maxUnavailable.kind = "bad" => F \in picked
             /\ strategy.maxUnavailable.kind # "bad" =>
                  F \cup RollPick(rollingUpdateIds, served \ F, minRolling) \in picked
  <2>1. F \cup (IF strategy.maxUnavailable.kind = "bad" THEN {}
                ELSE RollPick(rollingUpdateIds, served \ F, minRolling)) \in picked
    BY <1>4, <1>6, Zenon
  <2>2. F \cup {} = F
    OBVIOUS
  <2> QED
    BY <2>1, <2>2, Zenon
<1> QED
  BY <1>5, <1>6, Zenon DEF picked

\* Every pass of the loops keeps the invariant
LEMMA VisitKeeps ==
    ASSUME LoopInv, FirstLoop \/ ForceLoop \/ RollLoop
    PROVE  LoopInv' /\ UNCHANGED <<input, plan>>
<1>1. UNCHANGED <<input, plan, loop>>
  BY DEF FirstLoop, ForceLoop, RollLoop, Visit
<1>2. /\ Input' = Input /\ available' = available /\ strategy' = strategy
      /\ deletedOrCreated' = deletedOrCreated /\ forcedIds' = forcedIds
      /\ rollingUpdateIds' = rollingUpdateIds /\ deleted' = deleted /\ served' = served
      /\ minForced' = minForced /\ minRolling' = minRolling
      /\ \A T : planOf(T)' = planOf(T)
  BY <1>1, Frozen
<1>3. CASE FirstLoop
  <2>1. PICK i \in todo : Visit(i, deleteOrCreate)
    BY <1>3 DEF FirstLoop
  <2>2. loop = "first" /\ FirstLoopInv
    BY <1>3 DEF FirstLoop, LoopInv
  <2>3. got' = deleteOrCreate(got, i) /\ todo' = todo \ {i}
    BY <2>1 DEF Visit
  <2>4. FirstLoopInv'
    BY <1>2, <2>2, <2>3, DeleteOrCreate DEF FirstLoopInv
  <2> QED
    BY <1>1, <1>2, <2>2, <2>4 DEF LoopInv
<1>4. CASE ForceLoop
  <2>1. PICK i \in todo : Visit(i, forceUpdate)
    BY <1>4 DEF ForceLoop
  <2>2. loop = "force" /\ Input /\ \E T \in SUBSET Id : ForceLoopInv(T)
    BY <1>4 DEF ForceLoop, LoopInv
  <2>3. PICK T \in SUBSET Id : ForceLoopInv(T)
    BY <2>2
  <2>4. got' = forceUpdate(got, i) /\ todo' = todo \ {i}
    BY <2>1 DEF Visit
  <2>5. PICK S \in SUBSET Id :
           /\ S \subseteq forcedIds \ (todo \ {i})
           /\ forceUpdate(got, i) = [available |-> served \ S, plan |-> planOf(S)]
           /\ S = {} \/ \E last \in S : Cardinality(served \ (S \ {last})) > minForced
           /\ S = forcedIds \ (todo \ {i}) \/ Cardinality(served \ S) <= minForced
    BY <2>2, <2>3, ForceUpdate
  <2>6. todo' \subseteq forcedIds
    BY <2>3, <2>4 DEF ForceLoopInv
  <2>7. ForceLoopInv(S)'
    BY <1>2, <2>4, <2>5, <2>6, Zenon DEF ForceLoopInv
  <2> QED
    BY <1>1, <1>2, <2>2, <2>7 DEF LoopInv
<1>5. CASE RollLoop
  <2>1. PICK i \in todo : (\A j \in todo : i <= j) /\ Visit(i, rollUpdate)
    BY <1>5 DEF RollLoop
  <2>2. loop = "roll" /\ Input /\ \E F \in SUBSET Id : RollLoopInv(F)
    BY <1>5 DEF RollLoop, LoopInv
  <2>3. PICK F \in SUBSET Id : RollLoopInv(F)
    BY <2>2
  <2>4. got' = rollUpdate(got, i) /\ todo' = todo \ {i}
    BY <2>1 DEF Visit
  <2> DEFINE A == served \ F
             V == RollPick(rollingUpdateIds, A, minRolling) \ (todo \ {i})
  <2>5. /\ rollUpdate(got, i) = [available |-> A \ V, plan |-> planOf(F \cup V)]
        /\ \/ A \cap V = A \cap (rollingUpdateIds \ (todo \ {i}))
           \/ Cardinality(A \ V) <= minRolling
        /\ \A k \in todo \ {i}, j \in rollingUpdateIds \ (todo \ {i}) : j < k
    BY <2>1, <2>2, <2>3, RollUpdate, Zenon
  <2>6. F \in ForcePick(forcedIds, served, minForced) /\ todo' \subseteq rollingUpdateIds
    BY <2>3, <2>4 DEF RollLoopInv
  <2>7. RollLoopInv(F)'
    BY <1>2, <2>4, <2>5, <2>6 DEF RollLoopInv
  <2> QED
    BY <1>1, <1>2, <2>2, <2>7 DEF LoopInv
<1> QED
  BY <1>1, <1>3, <1>4, <1>5

\* After the first loop the update passes start with what planWith makes of nothing taken
LEMMA FirstLoopDone ==
    ASSUME FirstLoopInv, todo = {}
    PROVE  got = [available |-> served, plan |-> planOf({})]
<1> DEFINE forced == toForceDelete(input.app.spec, podActions, input.pods, input.noNode)
           created == toCreate(input.app.spec, podActions)
           ended == {i \in Id \ forced : podActions[i] = "DELETE" /\ ~isPodDying(input.pods[i])}
                      \cup {i \in {} : podActions[i] = "RECREATE"}
           updated == {i \in {} : podActions[i] = "UPDATE"}
<1>1. planOf({}) = [add |-> created, del |-> ended, forceDel |-> forced, update |-> updated]
  BY PlanOf
<1>2. updated = {}
  OBVIOUS
<1> HIDE DEF forced, created, ended, updated
<1>3. got = [available |-> available \ deleted,
             plan |-> [add |-> created, del |-> ended, forceDel |-> forced, update |-> {}]]
  <2>1. planOf({}).add = created /\ planOf({}).del = ended /\ planOf({}).forceDel = forced
    BY <1>1
  <2>2. \A S : S \ todo = S
    OBVIOUS
  <2> QED
    BY <2>1, <2>2 DEF FirstLoopInv
<1> QED
  BY <1>1, <1>2, <1>3 DEF served

\* The step out of a loop keeps the invariant and returns a plan of instanceToSync, or none
LEMMA EndKeeps ==
    ASSUME LoopInv, EndFirst \/ EndForce \/ EndRoll
    PROVE  LoopInv' /\ [Decide]_<<input, plan>>
<1>1. input' = input /\ todo = {} /\ plan = {} /\ Input
  BY DEF EndFirst, EndForce, EndRoll, Return, Continue, LoopInv
<1>2. /\ Input' = Input /\ available' = available /\ strategy' = strategy
      /\ forcedIds' = forcedIds /\ rollingUpdateIds' = rollingUpdateIds
      /\ deleted' = deleted /\ served' = served
      /\ minForced' = minForced /\ minRolling' = minRolling
      /\ \A T : planOf(T)' = planOf(T)
  BY <1>1, Frozen
<1>3. ASSUME Return, got.plan \in Plans
      PROVE  LoopInv' /\ [Decide]_<<input, plan>>
  <2>1. Decide
    BY <1>1, <1>3 DEF Return, Decide, Plans
  <2> QED
    BY <1>1, <1>2, <1>3, <2>1 DEF Return, LoopInv
<1>4. CASE EndFirst
  <2>1. loop = "first" /\ got = [available |-> served, plan |-> planOf({})]
    BY <1>1, <1>4, FirstLoopDone DEF EndFirst, LoopInv
  <2>2. CASE strategy.forceMaxUnavailable.kind = "bad"
    <3>1. Return /\ got.plan = planOf({}) /\ planOf({}) \in Plans
      BY <1>4, <2>1, <2>2, DescribedPlan, PickedUpdates DEF EndFirst
    <3> QED
      BY <1>3, <3>1
  <2>3. CASE strategy.forceMaxUnavailable.kind # "bad"
    <3>1. loop' = "force" /\ todo' = forcedIds /\ got' = got /\ plan' = plan
      BY <1>4, <2>3 DEF EndFirst, Continue
    <3>2. served \ {} = served /\ forcedIds \ forcedIds = {}
      OBVIOUS
    <3>3. ForceLoopInv({})'
      BY <1>2, <2>1, <3>1, <3>2, Zenon DEF ForceLoopInv
    <3> QED
      BY <1>1, <1>2, <2>3, <3>1, <3>3 DEF LoopInv
  <2> QED
    BY <2>2, <2>3
<1>5. ASSUME EndForce
      PROVE  \E F \in SUBSET Id : /\ F \in ForcePick(forcedIds, served, minForced)
                                  /\ got = [available |-> served \ F, plan |-> planOf(F)]
  <2>1. PICK T \in SUBSET Id : ForceLoopInv(T)
    BY <1>5 DEF EndForce, LoopInv
  <2>2. T \subseteq forcedIds /\ forcedIds \ todo = forcedIds
    BY <1>1, <2>1 DEF ForceLoopInv
  <2> QED
    BY <2>1, <2>2 DEF ForceLoopInv, ForcePick
<1>6. CASE EndForce
  <2>1. PICK F \in SUBSET Id : /\ F \in ForcePick(forcedIds, served, minForced)
                               /\ got = [available |-> served \ F, plan |-> planOf(F)]
    BY <1>5, <1>6
  <2>2. loop = "force" /\ strategy.forceMaxUnavailable.kind # "bad"
    BY <1>6 DEF EndForce, LoopInv
  <2>3. CASE strategy.maxUnavailable.kind = "bad"
    <3>1. Return /\ got.plan = planOf(F) /\ planOf(F) \in Plans
      BY <1>6, <2>1, <2>2, <2>3, DescribedPlan, PickedUpdates DEF EndForce
    <3> QED
      BY <1>3, <3>1
  <2>4. CASE strategy.maxUnavailable.kind # "bad"
    <3>1. loop' = "roll" /\ todo' = rollingUpdateIds /\ got' = got /\ plan' = plan
      BY <1>6, <2>4 DEF EndForce, Continue
    <3> DEFINE A == served \ F
               U == RollPick(rollingUpdateIds, A, minRolling) \ rollingUpdateIds
    <3>2. /\ U = {} /\ A \ U = A /\ F \cup U = F /\ rollingUpdateIds \ rollingUpdateIds = {}
          /\ A \cap U = A \cap (rollingUpdateIds \ rollingUpdateIds)
      BY DEF RollPick
    <3>3. RollLoopInv(F)'
      <4>1. got' = [available |-> A \ U, plan |-> planOf(F \cup U)]
        BY <2>1, <3>1, <3>2
      <4> HIDE DEF U
      <4> QED
        BY <1>2, <2>1, <3>1, <3>2, <4>1 DEF RollLoopInv, U
    <3> QED
      BY <1>1, <1>2, <2>2, <2>4, <3>1, <3>3 DEF LoopInv
  <2> QED
    BY <2>3, <2>4
<1>7. CASE EndRoll
  <2>1. PICK F \in SUBSET Id : RollLoopInv(F)
    BY <1>7 DEF EndRoll, LoopInv
  <2> DEFINE P == RollPick(rollingUpdateIds, served \ F, minRolling)
  <2>2. P \ todo = P
    BY <1>1
  <2>3. F \in ForcePick(forcedIds, served, minForced) /\ got.plan = planOf(F \cup P)
    BY <2>1, <2>2 DEF RollLoopInv
  <2>4. Return /\ planOf(F \cup P) \in Plans
    BY <1>7, <2>3, DescribedPlan, PickedUpdates DEF EndRoll, LoopInv
  <2> QED
    BY <1>3, <2>3, <2>4
<1> QED
  BY <1>4, <1>6, <1>7

\* The loops of transformPodActions implement what Planner describes, for any number of
\* instances, any budgets and any order in which Go walks its map.
THEOREM LoopsImplementPlanner == LoopSpec => LoopsDecide
<1>1. Init /\ LoopInit => LoopInv
  BY LoopStart
<1>2. LoopInv /\ [LoopNext]_loopVars => LoopInv' /\ [Decide]_<<input, plan>>
  <2> SUFFICES ASSUME LoopInv, [LoopNext]_loopVars
               PROVE  LoopInv' /\ [Decide]_<<input, plan>>
    OBVIOUS
  <2>1. CASE FirstLoop \/ ForceLoop \/ RollLoop
    BY <2>1, VisitKeeps
  <2>2. CASE EndFirst \/ EndForce \/ EndRoll
    BY <2>2, EndKeeps
  <2>3. CASE UNCHANGED loopVars
    <3>1. UNCHANGED <<input, plan, loop, todo, got>>
      BY <2>3 DEF loopVars
    <3>2. /\ Input' = Input /\ available' = available /\ strategy' = strategy
          /\ deletedOrCreated' = deletedOrCreated /\ forcedIds' = forcedIds
          /\ rollingUpdateIds' = rollingUpdateIds /\ deleted' = deleted /\ served' = served
          /\ minForced' = minForced /\ minRolling' = minRolling
          /\ \A T : planOf(T)' = planOf(T)
      BY <3>1, Frozen
    <3>3. FirstLoopInv' = FirstLoopInv
      BY <3>1, <3>2, Zenon DEF FirstLoopInv
    <3>4. \A T : ForceLoopInv(T)' = ForceLoopInv(T) /\ RollLoopInv(T)' = RollLoopInv(T)
      BY <3>1, <3>2 DEF ForceLoopInv, RollLoopInv
    <3> QED
      BY <3>1, <3>2, <3>3, <3>4 DEF LoopInv
  <2> QED
    BY <2>1, <2>2, <2>3 DEF LoopNext
<1> QED
  BY <1>1, <1>2, PTL DEF LoopSpec, LoopsDecide, Spec
=============================================================================
