------------------------------ MODULE Instance ------------------------------
(***************************************************************************)
(* What one instance is made of: the pod that is built from its template,  *)
(* the hash labels that tell later whether the template has changed, the   *)
(* volume claims that are created before the pod and outlive it, and the   *)
(* merge of an in-place update.  Sync is reduced to this one instance (the *)
(* budgets, the readiness gate and the status are in TAppController) and   *)
(* split at every API call.                                                *)
(*                                                                         *)
(* A template is its metadata (labels, the special annotation) and its     *)
(* spec: the images of a container and of an init container, and the local *)
(* volumes, which stand for everything else that only a new pod can have.  *)
(***************************************************************************)
EXTENDS Naturals, Sequences

CONSTANTS
    Specs,       \* what the user may write: [template, claims]
    LabelKeys,   \* keys of labels, the two hash labels apart
    LabelValues, Images, Volumes,
    Selector,    \* spec.selector.matchLabels: LabelKeys -> value or None
    Ports,       \* values of the annotation tkestack.io/portmapping
    None, NoPod,
    MaxEvents,   \* bound on edits, failing calls, crashes and outside changes
    MaxLag       \* bound on undelivered events of the pod

Labels == [LabelKeys -> LabelValues \cup {None}]

Template ==
    [image : Images, init : Images, volumes : SUBSET Volumes, labels : Labels,
     port : Ports \cup {None}, pool : BOOLEAN]

TemplateHash ==
    [labels : Labels, port : Ports \cup {None}, volumes : SUBSET Volumes,
     image : Images, init : Images]

UniqHash == [volumes : SUBSET Volumes]

\* thash, uhash: the two hash labels, None where there is no such label
Pod ==
    [labels : Labels, port : Ports \cup {None}, image : Images, init : Images,
     storage : [local : SUBSET Volumes, claims : SUBSET Volumes],
     thash : TemplateHash \cup {None}, uhash : UniqHash \cup {None}, dying : BOOLEAN]

ASSUME SpecsAssumption == Specs \subseteq [template : Template, claims : SUBSET Volumes]

ASSUME BoundsAssumption == MaxEvents \in Nat /\ MaxLag \in Nat

\* A missing label is no label, and a missing pod no pod
ASSUME NullsAssumption == None \notin TemplateHash /\ None \notin UniqHash /\ NoPod \notin Pod

VARIABLES
    spec,                        \* the TApp, as far as this instance is concerned
    pod, podEvents, cachedPod,   \* in the API server, undelivered versions, in the pod lister
    claims, cachedClaims,        \* names of the claims in the API server and in their lister
    swept,                       \* claims somebody else has deleted
    pc,                          \* where Sync is
    ins,                         \* the pod Sync wants (Instance.pod)
    todo, failed,                \* claims still to look at; one could not be created
    tries,                       \* attempts of Update so far
    events

server == <<spec, pod, podEvents, claims, swept>>
caches == <<cachedPod, cachedClaims>>
locals == <<pc, ins, todo, failed, tries>>
vars == <<server, caches, locals, events>>

updateRetries == 3

-----------------------------------------------------------------------------
(* pkg/hash.  The hash of a value is the value. *)

generateTemplateHash(t) ==
    [labels |-> t.labels, port |-> t.port, volumes |-> t.volumes,
     image |-> t.image, init |-> t.init]

\* The spec without any image; no metadata
generateUniqHash(t) == [volumes |-> t.volumes]

hasLabels(t) == \E k \in LabelKeys : t.labels[k] # None

\* updateTemplateHash sets the hash labels in Sync's copy of the TApp, and no write of the spec
\* follows.  For a template of the pool the loop variable is a copy: the labels arrive only when
\* the label map, which the copy shares, exists.
Hashed(t, hash) == IF t.pool /\ ~hasLabels(t) THEN None ELSE hash

-----------------------------------------------------------------------------
(* newInstance: the pod of a template, and its volumes *)

\* A claim replaces a local volume of the same name
updateStorage(volumes, claimNames) ==
    [local |-> volumes \ claimNames, claims |-> claimNames]

GetPodFromTemplate(t) ==
    [labels |-> t.labels, port |-> t.port, image |-> t.image, init |-> t.init,
     storage |-> [local |-> t.volumes, claims |-> {}],
     thash |-> Hashed(t, generateTemplateHash(t)), uhash |-> Hashed(t, generateUniqHash(t)),
     dying |-> FALSE]

newInstance(s) ==
    [GetPodFromTemplate(s.template) EXCEPT !.storage = updateStorage(@.local, s.claims)]

Matches(p) == \A k \in LabelKeys : Selector[k] # None => p.labels[k] = Selector[k]

isStanding(p) == p # NoPod /\ ~p.dying

\* A label or annotation of the update wins; one the update does not have stays
over(new, old) == IF new = None THEN old ELSE new

\* Faulty variant: the container is left alone.
mergeMetadata(current, expected) ==
    [current EXCEPT !.labels = [k \in LabelKeys |-> over(expected.labels[k], @[k])],
                    !.thash = over(expected.thash, @), !.uhash = over(expected.uhash, @),
                    !.port = over(expected.port, @)]

\* expected has been told the special annotation of current by then
mergePod(current, expected) ==
    [current EXCEPT !.image = expected.image,
                    !.labels = [k \in LabelKeys |-> over(expected.labels[k], @[k])],
                    !.thash = over(expected.thash, @), !.uhash = over(expected.uhash, @),
                    !.port = over(expected.port, @)]

-----------------------------------------------------------------------------
Init ==
    /\ spec \in Specs /\ Matches(newInstance(spec))
    /\ pod = NoPod /\ podEvents = <<>> /\ cachedPod = NoPod
    /\ claims \in SUBSET spec.claims /\ cachedClaims \in {{}, claims}
    /\ swept = {}
    /\ pc = "idle" /\ ins = NoPod /\ todo = {} /\ failed = FALSE /\ tries = 0
    /\ events = 0

\* The cached pod is the current version when no event is undelivered
Current == podEvents = <<>>

WritePod(p) ==
    \/ p = pod /\ UNCHANGED <<pod, podEvents>>
    \/ /\ p # pod /\ Len(podEvents) < MaxLag
       /\ pod' = p /\ podEvents' = Append(podEvents, p)

Event == events < MaxEvents /\ events' = events + 1

\* An API call succeeds, fails with nothing done, or is done and still reported as failed
Call(done) ==
    \/ done = "ok" /\ UNCHANGED events
    \/ done \in {"error", "timeout"} /\ Event

Answers == {"ok", "error", "timeout"}

Return == pc' = "idle" /\ ins' = NoPod /\ todo' = {} /\ failed' = FALSE /\ tries' = 0

-----------------------------------------------------------------------------
(* Sync, for this instance *)

\* getPodsForTApp sees only pods that match the selector; syncRunningPods compares hash labels
decision ==
    LET new == newInstance(spec)
    IN  IF cachedPod = NoPod \/ ~Matches(cachedPod) THEN "create"
        ELSE IF cachedPod.dying \/ cachedPod.thash = new.thash THEN "none"
        ELSE IF cachedPod.uhash = new.uhash THEN "update" ELSE "delete"

StartSync ==
    /\ pc = "idle" /\ decision # "none"
    /\ pc' = decision /\ ins' = newInstance(spec)
    /\ UNCHANGED <<server, caches, todo, failed, tries, events>>

\* A pod of that name in the lister, of whatever labels, ends createInstance
createInstance ==
    /\ pc = "create"
    /\ \/ cachedPod # NoPod /\ Return
       \/ /\ cachedPod = NoPod
          /\ pc' = "claims" /\ todo' = ins.storage.claims
          /\ UNCHANGED <<ins, failed, tries>>
    /\ UNCHANGED <<server, caches, events>>

\* Faulty variant: the lister is not asked.
createAlways(c) ==
    /\ pc = "claims" /\ c \in todo
    /\ todo' = todo \ {c}
    /\ failed' = (failed \/ c \in claims)
    /\ claims' = claims \cup {c} /\ swept' = swept \ {c}
    /\ UNCHANGED <<spec, pod, podEvents, caches, pc, ins, tries, events>>

\* One round of createPersistentVolumeClaims.  AlreadyExists is an error like any other.
createPersistentVolumeClaim(c) ==
    /\ pc = "claims" /\ c \in todo
    /\ todo' = todo \ {c}
    /\ \/ c \in cachedClaims /\ UNCHANGED <<claims, swept, failed, events>>
       \/ /\ c \notin cachedClaims
          /\ \E r \in Answers :
               /\ Call(r)
               /\ IF r = "error" THEN UNCHANGED <<claims, swept>>
                  ELSE claims' = claims \cup {c} /\ swept' = swept \ {c}
               /\ failed' = (failed \/ r # "ok" \/ c \in claims)
    /\ UNCHANGED <<spec, pod, podEvents, caches, pc, ins, tries>>

\* Faulty variant: the pod is created although a claim could not be.
createPodAnyway ==
    /\ pc = "claims" /\ todo = {}
    /\ WritePod(IF pod = NoPod THEN ins ELSE pod)
    /\ Return
    /\ UNCHANGED <<spec, claims, swept, caches, events>>

createPod ==
    /\ pc = "claims" /\ todo = {}
    /\ \/ failed /\ UNCHANGED <<pod, podEvents, events>>
       \/ /\ ~failed
          /\ \E r \in Answers :
               Call(r) /\ WritePod(IF r # "error" /\ pod = NoPod THEN ins ELSE pod)
    /\ Return
    /\ UNCHANGED <<spec, claims, swept, caches>>

deleteInstance ==
    /\ pc = "delete"
    /\ \/ ~isStanding(cachedPod) /\ UNCHANGED <<pod, podEvents, events>>
       \/ /\ isStanding(cachedPod)
          /\ \E r \in Answers :
               /\ Call(r)
               /\ WritePod(IF r # "error" /\ pod # NoPod
                           THEN [pod EXCEPT !.dying = TRUE] ELSE pod)
    /\ Return
    /\ UNCHANGED <<spec, claims, swept, caches>>

\* Faulty variant: the annotation of the first copy is kept for the retries.
toldOnce(expected, current) ==
    IF tries > 0 \/ current.port = None THEN expected
    ELSE [expected EXCEPT !.port = current.port]

\* mergePod writes the special annotation of the current pod into the expected one
told(expected, current) ==
    IF current.port = None THEN expected ELSE [expected EXCEPT !.port = current.port]

\* One attempt of updateInstance: the pod from the lister, merged, sent with its version
updateInstance ==
    LET expected == told(ins, cachedPod)
    IN  /\ pc = "update"
        /\ UNCHANGED <<spec, claims, swept, caches>>
        /\ \/ cachedPod = NoPod /\ Return /\ UNCHANGED <<pod, podEvents, events>>
           \/ /\ cachedPod # NoPod
              /\ \E r \in IF Current THEN Answers ELSE {"conflict"} :
                   /\ IF r = "conflict" THEN UNCHANGED events ELSE Call(r)
                   /\ WritePod(IF r \in {"ok", "timeout"} THEN mergePod(pod, expected) ELSE pod)
                   /\ \/ (r = "ok" \/ tries = updateRetries) /\ Return
                      \/ /\ r # "ok" /\ tries < updateRetries
                         /\ tries' = tries + 1 /\ ins' = expected
                         /\ UNCHANGED <<pc, todo, failed>>

Sync ==
    \/ StartSync \/ createInstance
    \/ \E c \in todo : createPersistentVolumeClaim(c)
    \/ createPod \/ deleteInstance \/ updateInstance

-----------------------------------------------------------------------------
(* Informers, restart, and everybody else *)

DeliverPod ==
    /\ podEvents # <<>>
    /\ cachedPod' = Head(podEvents) /\ podEvents' = Tail(podEvents)
    /\ UNCHANGED <<spec, pod, claims, swept, cachedClaims, locals, events>>

DeliverClaims ==
    /\ cachedClaims # claims /\ cachedClaims' = claims
    /\ UNCHANGED <<server, cachedPod, locals, events>>

\* The new process waits for the pod informer but not for that of the claims
Crash ==
    /\ Event
    /\ cachedPod' = pod /\ podEvents' = <<>> /\ cachedClaims' = {}
    /\ Return
    /\ UNCHANGED <<spec, pod, claims, swept>>

UserEdit ==
    /\ Event
    /\ spec' \in Specs \ {spec}
    /\ UNCHANGED <<pod, podEvents, claims, swept, caches, locals>>

RemovePod ==
    /\ pod # NoPod /\ pod.dying
    /\ WritePod(NoPod)
    /\ UNCHANGED <<spec, claims, swept, caches, locals, events>>

\* A user deletes the pod, or a plugin assigns, moves or takes back its port
OutsidePod ==
    /\ Event /\ pod # NoPod
    /\ \/ WritePod([pod EXCEPT !.dying = TRUE])
       \/ \E p \in Ports \cup {None} : WritePod([pod EXCEPT !.port = p])
    /\ UNCHANGED <<spec, claims, swept, caches, locals>>

\* A claim a pod uses is protected from deletion
SweepClaim(c) ==
    /\ Event
    /\ c \in claims /\ (pod # NoPod => c \notin pod.storage.claims)
    /\ claims' = claims \ {c} /\ swept' = swept \cup {c}
    /\ UNCHANGED <<spec, pod, podEvents, caches, locals>>

Next ==
    \/ Sync \/ DeliverPod \/ DeliverClaims \/ Crash \/ UserEdit \/ RemovePod \/ OutsidePod
    \/ \E c \in claims : SweepClaim(c)

Spec == Init /\ [][Next]_vars

\* A TApp is handed to Sync again and again (Attended of Dispatch), watches deliver, and
\* kubelets remove what is being deleted
Fairness == WF_vars(Sync) /\ WF_vars(DeliverPod) /\ WF_vars(DeliverClaims) /\ WF_vars(RemovePod)

FairSpec == Spec /\ Fairness

-----------------------------------------------------------------------------
(* The inductive invariant of InstanceProofs *)

TypeOK ==
    /\ spec \in Specs
    /\ pod \in Pod \cup {NoPod} /\ cachedPod \in Pod \cup {NoPod}
    /\ podEvents \in Seq(Pod \cup {NoPod})
    /\ claims \subseteq Volumes /\ cachedClaims \subseteq Volumes /\ swept \subseteq Volumes
    /\ pc \in {"idle", "create", "claims", "delete", "update"}
    /\ ins \in Pod \cup {NoPod} /\ (pc # "idle" => ins # NoPod)
    /\ todo \subseteq Volumes /\ failed \in BOOLEAN /\ tries \in 0 .. updateRetries
    /\ events \in 0 .. MaxEvents

\* The newest event is the stored pod
Watched ==
    /\ Current => cachedPod = pod
    /\ ~Current => podEvents[Len(podEvents)] = pod

\* A claim the lister shows, and one that a Sync has dealt with, exists or was deleted since
ClaimsSeen ==
    /\ cachedClaims \subseteq claims \cup swept
    /\ pc = "claims" /\ ~failed => ins.storage.claims \ todo \subseteq claims \cup swept

\* The hash labels come together; the template hash is that of the image and the labels
Marked(p) ==
    p # NoPod =>
      /\ p.thash = None <=> p.uhash = None
      /\ p.thash # None =>
           /\ p.image = p.thash.image
           /\ \A k \in LabelKeys : p.thash.labels[k] # None => p.labels[k] = p.thash.labels[k]

\* Every version of the pod is marked.  An in-place update brings hash labels of its own: of
\* two pods without them the first comparison says that nothing has changed.
AllMarked ==
    /\ Marked(pod) /\ Marked(cachedPod) /\ Marked(ins)
    /\ \A k \in DOMAIN podEvents : Marked(podEvents[k])
    /\ pc = "update" => ins.thash # None

-----------------------------------------------------------------------------
(* Properties *)

\* A pod is not created before its claims: however the claim lister lags and calls fail, a
\* claim of a pod exists, unless somebody else deleted it
ClaimsBeforePod == pod # NoPod => pod.storage.claims \subseteq claims \cup swept

\* What the template hash label of a pod stands for is what the pod runs and is found by: the
\* image of its container and the labels.  An in-place update that was retried, reported as
\* failed, decided on a copy of a pod that was replaced since, or made from a template that
\* has no hash never leaves a pod that is marked as up to date and is not.
HashTellsTruth ==
    pod # NoPod /\ pod.thash # None =>
       /\ pod.image = pod.thash.image
       /\ \A k \in LabelKeys :
            pod.thash.labels[k] # None => pod.labels[k] = pod.thash.labels[k]

\* The same of the image of the init container
HashTellsInit == pod # NoPod /\ pod.thash # None => pod.init = pod.thash.init

\* An in-place update never changes the port mapping a pod has, even if the port is moved
\* between the attempts of Update
PortKept ==
    [][pod # NoPod /\ pod' # NoPod /\ updateInstance /\ pod.port # None =>
          pod'.port = pod.port]_vars

Inv == TypeOK /\ Watched /\ ClaimsSeen /\ ClaimsBeforePod /\ AllMarked

\* A pod the selector does not match: the TApp does not see it, and cannot create another
Orphaned == pod # NoPod /\ ~Matches(pod)

UpToDate == isStanding(pod) /\ pod.thash = newInstance(spec).thash

\* Once edits and faults end, the pod exists and is up to date, whatever claims were there
\* before and were not yet in the lister.  The exception: its labels left the selector.
SettlesUnlessOrphaned == <>[](Orphaned \/ UpToDate)
=============================================================================
