--------------------------- MODULE TAppPlanProofs ---------------------------
(* What the planner's operators return, for every value of the constants.    *)
EXTENDS TAppPlan, FiniteSetTheorems, WellFoundedInduction, TLAPS

\* getPodTemplate returns a template of the spec, or the error for a missing one.
LEMMA PodTemplateType ==
    ASSUME NEW spec \in TAppSpec, NEW i \in Id
    PROVE  getPodTemplate(spec, i) \in Template \cup {NoTemplate}
BY DEF getPodTemplate, getPodTemplateName, TAppSpec

\* preprocessTApp turns a well-formed spec into a well-formed spec.
LEMMA PreprocessType ==
    ASSUME NEW spec \in TAppSpec
    PROVE  preprocessSpec(spec) \in TAppSpec
<1> DEFINE s1 == setDefaultValue(spec)
           s2 == removeUnusedTemplate(s1)
<1>1. s1 \in TAppSpec
  <2> DEFINE default == IF spec.defaultTemplateName = Unset
                        THEN DefaultTemplateName ELSE spec.defaultTemplateName
             rolling == IF spec.rolling = Unset THEN default ELSE spec.rolling
             max == IF spec.maxUnavailable.kind = "nil"
                    THEN [kind |-> "int", val |-> 1] ELSE spec.maxUnavailable
             force == IF spec.forceMaxUnavailable.kind = "nil"
                      THEN [kind |-> "percent", val |-> 100] ELSE spec.forceMaxUnavailable
  <2>1. default \in TemplateName /\ rolling \in TemplateName
    BY DEF TAppSpec, TemplateName
  <2>2. max \in IntOrString /\ force \in IntOrString
    BY DEF TAppSpec, IntOrString
  <2>3. s1 = [spec EXCEPT !.defaultTemplateName = default, !.rolling = rolling,
                          !.maxUnavailable = max, !.forceMaxUnavailable = force]
    BY DEF setDefaultValue
  <2> HIDE DEF default, rolling, max, force, s1
  <2> QED
    BY <2>1, <2>2, <2>3 DEF TAppSpec
<1>2. s2 \in TAppSpec
  <2>1. [n \in PoolNames |->
           IF n \in {s1.defaultTemplateName, getRollingTemplateKey(s1)}
                      \cup {s1.templates[i] : i \in Id}
           THEN s1.templatePool[n] ELSE NoTemplate]
          \in [PoolNames -> Template \cup {NoTemplate}]
    BY <1>1 DEF TAppSpec
  <2> QED
    BY <1>1, <2>1 DEF removeUnusedTemplate, TAppSpec
<1>3. setLabelSelector(s2) \in TAppSpec
  BY <1>2 DEF setLabelSelector, TAppSpec, Selector
<1> QED
  BY <1>3 DEF preprocessSpec

\* getInstanceStatus returns a map of instance statuses.
LEMMA InstanceStatusType ==
    ASSUME NEW app \in TApp, NEW pods \in PodMap
    PROVE  getInstanceStatus(app, pods) \in Statuses
<1>1. \A i \in Id : pods[i] # NoPod =>
         podStatus(app.spec, i, pods[i]) \in InstanceStatus
  BY DEF podStatus, InstanceStatus, PodMap, Pod, isPodCompleted
<1>2. \A i \in Id : app.status.statuses[i] \in InstanceStatus \cup {"None"}
  BY DEF TApp, TAppStatus, Statuses
<1> QED
  BY <1>1, <1>2 DEF getInstanceStatus, Statuses, InstanceStatus

\* getInstanceStatus has an entry for every replica, and none calls a killed replica
\* "not created".
LEMMA InstanceStatusCovers ==
    ASSUME NEW app \in TApp, NEW pods \in PodMap, NEW i \in Id, i < app.spec.replicas
    PROVE  /\ getInstanceStatus(app, pods)[i] # "None"
           /\ i \in app.spec.killed => getInstanceStatus(app, pods)[i] # "NotCreated"
<1>1. pods[i] # NoPod => /\ podStatus(app.spec, i, pods[i]) # "None"
                         /\ podStatus(app.spec, i, pods[i]) # "NotCreated"
  BY DEF podStatus, PodMap, Pod, isPodCompleted
<1>2. app.spec.replicas \in Int /\ i \in Int
  BY MaxReplicasAssumption DEF TApp, TAppSpec, Id
<1> QED
  BY <1>1, <1>2 DEF getInstanceStatus, isInstanceFinished

\* Every plan is a plan over ids, and it creates and updates only instances whose
\* template exists: newInstance cannot fail on them later.
LEMMA PlanType ==
    ASSUME NEW app \in TApp, NEW pods \in PodMap, NEW noNode,
           NEW p \in instanceToSync(app, pods, noNode)
    PROVE  /\ p \in InstancePlan
           /\ \A i \in p.add \cup p.update : getPodTemplate(app.spec, i) # NoTemplate
<1> DEFINE actions == getNextActionsForPods(app, pods)
<1>1. \A i \in Id : actions[i] = "UPDATE" => getPodTemplate(app.spec, i) # NoTemplate
  BY DEF getNextActionsForPods, syncRunningPod, isUniqHashChanged
<1>2. PICK picked \in pickedUpdates(app.spec, actions, pods, desiredRunning(app)) :
         p = planWith(app.spec, actions, pods, noNode, picked)
  BY DEF instanceToSync, transformPodActions
<1>3. picked \subseteq Id
  <2>1. \A F, A, min : ForcePick(F, A, min) \subseteq SUBSET F
    BY DEF ForcePick
  <2>2. \A R, A, min : RollPick(R, A, min) \subseteq R
    BY DEF RollPick
  <2> DEFINE changed == {i \in Id : actions[i] \in {"UPDATE", "RECREATE"}}
             rolling == {i \in changed : isInRollingUpdate(app.spec, i)}
  <2> HIDE DEF actions
  <2>3. \/ picked = {}
        \/ \E F, A, n, v, m : /\ F \in ForcePick(changed \ rolling, A, n)
                              /\ \/ picked = F \cup {}
                                 \/ picked = F \cup RollPick(rolling, v, m)
    BY Zenon DEF pickedUpdates
  <2>4. \A F, A, n : F \in ForcePick(changed \ rolling, A, n) => F \subseteq Id
    BY <2>1
  <2>5. \A A, n : RollPick(rolling, A, n) \subseteq Id
    BY <2>2
  <2> HIDE DEF changed, rolling
  <2> QED
    BY <2>3, <2>4, <2>5
<1>4. p \in InstancePlan
  BY <1>2, <1>3 DEF planWith, toCreate, toForceDelete, InstancePlan
<1>5. /\ p.add = {i \in Id : actions[i] = "CREATE" /\ getPodTemplate(app.spec, i) # NoTemplate}
      /\ p.update = {i \in picked : actions[i] = "UPDATE"}
  BY <1>2 DEF planWith, toCreate, toForceDelete
<1> QED
  BY <1>1, <1>3, <1>4, <1>5

-----------------------------------------------------------------------------
(* The budgets of transformPodActions *)

\* The force pass stops in time: of the available pods at least min stay available, or
\* all of them when there were fewer to begin with.
THEOREM ForcePickBudget ==
    ASSUME NEW F, NEW A, IsFiniteSet(A), NEW min \in Int, NEW C \in ForcePick(F, A, min)
    PROVE  Cardinality(A \ C) >= min \/ A \cap C = {}
<1>1. CASE C = {}
  BY <1>1
<1>2. CASE \E last \in C : Cardinality(A \ (C \ {last})) > min
  <2>1. PICK last \in C : Cardinality(A \ (C \ {last})) > min
    BY <1>2
  <2> DEFINE B == A \ (C \ {last})
  <2>2. IsFiniteSet(B)
    BY FS_Difference
  <2>3. A \ C = B \ {last}
    OBVIOUS
  <2>4. Cardinality(B) \in Nat /\ Cardinality(B \ {last}) \in Nat
    BY <2>2, FS_CardinalityType, FS_RemoveElement
  <2>5. Cardinality(B \ {last}) >= Cardinality(B) - 1
    BY <2>2, <2>4, FS_RemoveElement
  <2> QED
    BY <2>1, <2>3, <2>4, <2>5
<1> QED
  BY <1>1, <1>2 DEF ForcePick

\* A nonempty set of ids has a largest one.
LEMMA LargestId ==
    ASSUME NEW T \in SUBSET Id, T # {}
    PROVE  \E p \in T : \A q \in T : q <= p
<1> DEFINE U == {MaxReplicas - p : p \in T}
<1>1. U \subseteq Nat /\ U # {}
  BY MaxReplicasAssumption DEF Id
<1>2. \E x \in U : \A y \in U : ~(<<y, x>> \in OpToRel(<, Nat))
  BY <1>1, WFMin, NatLessThanWellFounded
<1>3. PICK x \in U : \A y \in U : ~(y < x)
  BY <1>1, <1>2 DEF OpToRel
<1>4. PICK p \in T : x = MaxReplicas - p
  OBVIOUS
<1>5. \A q \in T : q <= p
  BY <1>3, <1>4, MaxReplicasAssumption DEF Id
<1> QED
  BY <1>5

\* The rolling pass stops in time as well.
THEOREM RollPickBudget ==
    ASSUME NEW R \in SUBSET Id, NEW A \in SUBSET Id, IsFiniteSet(A), NEW min \in Int
    PROVE  LET C == RollPick(R, A, min)
           IN  Cardinality(A \ C) >= min \/ A \cap C = {}
<1> DEFINE C == RollPick(R, A, min)
<1>1. SUFFICES ASSUME A \cap C # {}
               PROVE  Cardinality(A \ C) >= min
  OBVIOUS
<1>2. PICK p \in A \cap C : \A q \in A \cap C : q <= p
  BY <1>1, LargestId
<1> DEFINE B == A \ {q \in R : q < p}
<1>3. Cardinality(B) > min
  BY <1>2 DEF RollPick
<1>4. B \ {p} \subseteq A \ C
  <2>1. C \subseteq R /\ R \subseteq Int /\ A \subseteq Int
    BY MaxReplicasAssumption DEF RollPick, Id
  <2>2. SUFFICES ASSUME NEW x \in B \ {p}, x \in C
                 PROVE  FALSE
    OBVIOUS
  <2> HIDE DEF C
  <2>3. x <= p /\ x # p /\ x \in R
    BY <1>2, <2>1, <2>2
  <2>4. x < p
    BY <1>2, <2>1, <2>3
  <2> QED
    BY <2>2, <2>3, <2>4
<1>5. IsFiniteSet(B) /\ IsFiniteSet(A \ C)
  BY FS_Difference
<1>6. /\ Cardinality(B) \in Nat /\ Cardinality(B \ {p}) \in Nat
      /\ Cardinality(B \ {p}) >= Cardinality(B) - 1
  <2> HIDE DEF B
  <2>1. Cardinality(B) \in Nat
    BY <1>5, FS_CardinalityType
  <2>2. Cardinality(B \ {p}) = IF p \in B THEN Cardinality(B) - 1 ELSE Cardinality(B)
    BY <1>5, FS_RemoveElement
  <2>3. IsFiniteSet(B \ {p})
    BY <1>5, FS_RemoveElement
  <2>4. Cardinality(B \ {p}) \in Nat
    BY <2>3, FS_CardinalityType
  <2> QED
    BY <2>1, <2>2, <2>4
<1>7. Cardinality(B \ {p}) <= Cardinality(A \ C) /\ Cardinality(A \ C) \in Nat
  BY <1>4, <1>5, FS_Subset, FS_CardinalityType
<1> QED
  BY <1>3, <1>6, <1>7
=============================================================================
