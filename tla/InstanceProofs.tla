--------------------------- MODULE InstanceProofs ---------------------------
(* An instance and its template, for any templates, labels, claims and ports *)
(* and any lag of the watch.                                                 *)
EXTENDS Instance, TLAPS

PodOrNone == Pod \cup {NoPod}

\* The pod newInstance builds has the claims of the spec, and its labels tell the truth.
LEMMA NewInstance ==
    ASSUME NEW s \in Specs
    PROVE  /\ newInstance(s) \in Pod /\ newInstance(s) # NoPod
           /\ newInstance(s).storage.claims = s.claims
           /\ Marked(newInstance(s))
<1> DEFINE t == s.template
           p == newInstance(s)
<1>1. t \in Template /\ s.claims \in SUBSET Volumes
  BY SpecsAssumption
<1>2. generateTemplateHash(t) \in TemplateHash /\ generateUniqHash(t) \in UniqHash
  BY <1>1 DEF Template, TemplateHash, UniqHash, generateTemplateHash, generateUniqHash
<1>3. p = [labels |-> t.labels, port |-> t.port, image |-> t.image, init |-> t.init,
           storage |-> [local |-> t.volumes \ s.claims, claims |-> s.claims],
           thash |-> Hashed(t, generateTemplateHash(t)),
           uhash |-> Hashed(t, generateUniqHash(t)), dying |-> FALSE]
  <2>1. GetPodFromTemplate(t).storage.local = t.volumes
    BY DEF GetPodFromTemplate
  <2>2. p = [GetPodFromTemplate(t) EXCEPT
                !.storage = [local |-> t.volumes \ s.claims, claims |-> s.claims]]
    BY <2>1 DEF newInstance, updateStorage
  <2> QED
    BY <2>2 DEF GetPodFromTemplate
<1>4. Hashed(t, generateTemplateHash(t)) \in TemplateHash \cup {None}
  BY <1>2 DEF Hashed
<1>5. Hashed(t, generateUniqHash(t)) \in UniqHash \cup {None}
  BY <1>2 DEF Hashed
<1>6. p \in Pod
  BY <1>1, <1>3, <1>4, <1>5 DEF Pod, Template
<1>7. p.thash = None <=> p.uhash = None
  BY <1>2, <1>3, NullsAssumption DEF Hashed
<1>8. p.thash # None => p.thash = generateTemplateHash(t)
  BY <1>3 DEF Hashed
<1>9. generateTemplateHash(t).image = t.image /\ generateTemplateHash(t).labels = t.labels
  BY DEF generateTemplateHash
<1>10. p.image = t.image /\ p.labels = t.labels /\ p.storage.claims = s.claims
  BY <1>3
<1> HIDE DEF p
<1>11. Marked(p)
  BY <1>7, <1>8, <1>9, <1>10 DEF Marked
<1> QED
  BY <1>6, <1>10, <1>11, NullsAssumption DEF p

\* The merge of an in-place update that brings hash labels: the pod is the same but for its
\* image and metadata, and these are what the new labels say.
LEMMA MergePod ==
    ASSUME NEW current \in Pod, NEW expected \in Pod, Marked(expected), expected.thash # None
    PROVE  /\ mergePod(current, expected) \in Pod
           /\ mergePod(current, expected).storage = current.storage
           /\ mergePod(current, expected).port = over(expected.port, current.port)
           /\ Marked(mergePod(current, expected))
<1> DEFINE m == mergePod(current, expected)
<1>1. expected # NoPod
  BY NullsAssumption
<1>2. expected.uhash # None
  BY <1>1 DEF Marked
<1>3. /\ m.image = expected.image /\ m.thash = expected.thash /\ m.uhash = expected.uhash
      /\ m.labels = [k \in LabelKeys |-> over(expected.labels[k], current.labels[k])]
      /\ m.port = over(expected.port, current.port) /\ m.storage = current.storage
      /\ m.init = current.init /\ m.dying = current.dying
  BY <1>2 DEF mergePod, over, Pod
<1>4. m.labels \in Labels
  BY <1>3 DEF over, Pod, Labels
<1>5. m.port \in Ports \cup {None}
  BY <1>3 DEF over, Pod
<1>6. m \in Pod
  <2>1. m = [current EXCEPT !.image = expected.image, !.labels = m.labels,
                            !.thash = expected.thash, !.uhash = expected.uhash, !.port = m.port]
    BY <1>2, <1>3 DEF mergePod, over, Pod
  <2> HIDE DEF m
  <2> QED
    BY <2>1, <1>4, <1>5 DEF Pod
<1> HIDE DEF m
<1>7. \A k \in LabelKeys : m.thash.labels[k] # None => m.labels[k] = m.thash.labels[k]
  BY <1>1, <1>3 DEF Marked, over
<1>8. Marked(m)
  BY <1>1, <1>2, <1>3, <1>7 DEF Marked
<1> QED
  BY <1>3, <1>6, <1>8 DEF m

\* What the watch stream of the pod says, the copies Sync holds apart
Stream ==
    /\ pod \in PodOrNone /\ podEvents \in Seq(PodOrNone) /\ Watched
    /\ Marked(pod) /\ \A k \in DOMAIN podEvents : Marked(podEvents[k])

LEMMA StreamOfInv == Inv => Stream
BY DEF Inv, TypeOK, AllMarked, Stream, PodOrNone

\* A write of a marked pod keeps the stream.
LEMMA WriteKeeps ==
    ASSUME Stream, NEW p \in PodOrNone, Marked(p), WritePod(p), cachedPod' = cachedPod
    PROVE  Stream' /\ pod' = p
<1>1. CASE p = pod /\ UNCHANGED <<pod, podEvents>>
  BY <1>1 DEF Stream, Watched, Current, Marked
<1>2. CASE pod' = p /\ podEvents' = Append(podEvents, p)
  <2>1. /\ podEvents' \in Seq(PodOrNone) /\ Len(podEvents') = Len(podEvents) + 1
        /\ podEvents' # <<>> /\ podEvents'[Len(podEvents')] = p
    BY <1>2 DEF Stream
  <2>2. \A k \in DOMAIN podEvents' :
           podEvents'[k] = p \/ (k \in DOMAIN podEvents /\ podEvents'[k] = podEvents[k])
    BY <1>2 DEF Stream
  <2>3. Watched'
    BY <1>2, <2>1 DEF Watched, Current
  <2>4. Marked(p)' = Marked(p)
    BY DEF Marked
  <2>5. ASSUME NEW k \in DOMAIN podEvents'
        PROVE  Marked(podEvents'[k])
    BY <2>2, <2>5 DEF Stream
  <2> QED
    BY <1>2, <2>1, <2>3, <2>5 DEF Stream, Marked
<1> QED
  BY <1>1, <1>2 DEF WritePod

LEMMA Idle ==
    ASSUME Return
    PROVE  /\ pc' = "idle" /\ ins' = NoPod /\ todo' = {}
           /\ failed' \in BOOLEAN /\ tries' \in 0 .. updateRetries
<1>1. failed' \in BOOLEAN
  BY Zenon DEF Return
<1>2. tries' \in 0 .. updateRetries
  BY DEF Return, updateRetries
<1> QED
  BY <1>1, <1>2, Zenon DEF Return

\* When Sync returns, only the stored pod and its stream are left to check.
LEMMA Returned ==
    ASSUME Inv, Return, Stream', UNCHANGED <<spec, claims, swept, caches>>,
           events' \in 0 .. MaxEvents,
           pod' # NoPod => pod'.storage.claims \subseteq claims \cup swept
    PROVE  Inv'
<1>1. Marked(ins)' /\ Marked(cachedPod)'
  BY DEF Inv, AllMarked, Marked, Return, caches
<1>2. TypeOK'
  BY Idle DEF Inv, TypeOK, Stream, PodOrNone, caches
<1>3. AllMarked'
  BY <1>1 DEF Return, Stream, AllMarked
<1> QED
  BY <1>2, <1>3 DEF Inv, Return, Stream, ClaimsSeen, ClaimsBeforePod, caches

LEMMA CallEvents ==
    ASSUME NEW r, Call(r), events \in 0 .. MaxEvents
    PROVE  events' \in 0 .. MaxEvents
BY BoundsAssumption DEF Call, Event

\* The write with which deleteInstance, createPod or an update ends.
LEMMA WroteAndReturned ==
    ASSUME Inv, NEW p \in PodOrNone, Marked(p), WritePod(p), Return,
           p # NoPod => p.storage.claims \subseteq claims \cup swept,
           events' \in 0 .. MaxEvents,
           UNCHANGED <<spec, claims, swept, caches>>
    PROVE  Inv'
<1>1. Stream' /\ pod' = p
  BY StreamOfInv, WriteKeeps DEF caches
<1> QED
  BY <1>1, Returned

LEMMA StartSyncKeeps ==
    ASSUME Inv, StartSync
    PROVE  Inv'
<1> DEFINE new == newInstance(spec)
<1>1. new \in Pod /\ new # NoPod /\ Marked(new)
  BY NewInstance DEF Inv, TypeOK
<1>2. /\ pc' = decision /\ decision # "none" /\ ins' = new
      /\ UNCHANGED <<spec, pod, podEvents, claims, swept, cachedPod, cachedClaims, todo, failed,
                     tries, events>>
  BY DEF StartSync, server, caches
<1>3. decision \in {"create", "update", "delete", "none"}
  BY DEF decision
<1>4. decision = "update" => new.thash # None
  <2>1. SUFFICES ASSUME decision = "update"
                 PROVE  new.thash # None
    OBVIOUS
  <2>2. cachedPod # NoPod /\ cachedPod.thash # new.thash /\ cachedPod.uhash = new.uhash
    BY <2>1 DEF decision
  <2>3. Marked(cachedPod)
    BY DEF Inv, AllMarked
  <2> QED
    BY <1>1, <2>2, <2>3 DEF Marked
<1> HIDE DEF new
<1>5. TypeOK'
  BY <1>1, <1>2, <1>3 DEF Inv, TypeOK
<1>6. Watched'
  BY <1>2 DEF Inv, Watched, Current
<1>7. ClaimsSeen' /\ ClaimsBeforePod'
  BY <1>2, <1>3 DEF Inv, ClaimsSeen, ClaimsBeforePod
<1>8. AllMarked'
  BY <1>1, <1>2, <1>4 DEF Inv, AllMarked, Marked
<1> QED
  BY <1>5, <1>6, <1>7, <1>8 DEF Inv

LEMMA CreateKeeps ==
    ASSUME Inv, createInstance
    PROVE  Inv'
<1>1. UNCHANGED <<spec, pod, podEvents, claims, swept, cachedPod, cachedClaims, events>>
  BY DEF createInstance, server, caches
<1>2. CASE Return
  BY <1>1, <1>2, StreamOfInv, Returned
     DEF Stream, Watched, Current, Marked, caches, Inv, TypeOK, ClaimsBeforePod
<1>3. CASE /\ pc = "create" /\ pc' = "claims" /\ todo' = ins.storage.claims
           /\ UNCHANGED <<ins, failed, tries>>
  <2>1. ins \in Pod /\ ins.storage.claims \subseteq Volumes
    BY <1>3 DEF Inv, TypeOK, Pod
  <2>2. TypeOK'
    BY <1>1, <1>3, <2>1 DEF Inv, TypeOK
  <2>3. ClaimsSeen' /\ ClaimsBeforePod'
    BY <1>1, <1>3 DEF Inv, ClaimsSeen, ClaimsBeforePod
  <2>4. Watched' /\ AllMarked'
    BY <1>1, <1>3 DEF Inv, Watched, Current, AllMarked, Marked
  <2> QED
    BY <2>2, <2>3, <2>4 DEF Inv
<1> QED
  BY <1>2, <1>3 DEF createInstance

\* A claim is dealt with when the lister shows it or the call has succeeded; any other answer
\* is remembered in failed.
LEMMA ClaimKeeps ==
    ASSUME Inv, NEW c \in todo, createPersistentVolumeClaim(c)
    PROVE  Inv'
<1>1. /\ pc = "claims" /\ todo' = todo \ {c}
      /\ UNCHANGED <<spec, pod, podEvents, cachedPod, cachedClaims, pc, ins, tries>>
  BY DEF createPersistentVolumeClaim, caches
<1>2. c \in Volumes /\ ins \in Pod
  BY <1>1 DEF Inv, TypeOK
<1>3. /\ claims \cup swept \subseteq claims' \cup swept'
      /\ claims' \subseteq Volumes /\ swept' \subseteq Volumes
      /\ failed' \in BOOLEAN /\ (failed => failed') /\ events' \in 0 .. MaxEvents
      /\ ~failed' => c \in claims' \cup swept'
  <2>1. CASE c \in cachedClaims /\ UNCHANGED <<claims, swept, failed, events>>
    BY <2>1 DEF Inv, TypeOK, ClaimsSeen
  <2>2. ASSUME NEW r \in Answers, Call(r),
               IF r = "error" THEN UNCHANGED <<claims, swept>>
               ELSE claims' = claims \cup {c} /\ swept' = swept \ {c},
               failed' = (failed \/ r # "ok" \/ c \in claims)
        PROVE  /\ claims \cup swept \subseteq claims' \cup swept'
               /\ claims' \subseteq Volumes /\ swept' \subseteq Volumes
               /\ failed' \in BOOLEAN /\ (failed => failed') /\ events' \in 0 .. MaxEvents
               /\ ~failed' => c \in claims' \cup swept'
    BY <1>2, <2>2, CallEvents DEF Inv, TypeOK
  <2> QED
    BY <2>1, <2>2 DEF createPersistentVolumeClaim
<1>4. TypeOK'
  BY <1>1, <1>3 DEF Inv, TypeOK
<1>5. ClaimsSeen' /\ ClaimsBeforePod'
  BY <1>1, <1>3 DEF Inv, ClaimsSeen, ClaimsBeforePod
<1>6. Watched' /\ AllMarked'
  BY <1>1 DEF Inv, Watched, Current, AllMarked, Marked
<1> QED
  BY <1>4, <1>5, <1>6 DEF Inv

LEMMA CreatePodKeeps ==
    ASSUME Inv, createPod
    PROVE  Inv'
<1>1. /\ pc = "claims" /\ todo = {} /\ Return /\ UNCHANGED <<spec, claims, swept, caches>>
      /\ pod \in PodOrNone /\ Marked(pod) /\ ins \in Pod /\ Marked(ins)
      /\ events \in 0 .. MaxEvents
  BY DEF createPod, Inv, TypeOK, AllMarked, PodOrNone
<1>2. CASE UNCHANGED <<pod, podEvents, events>>
  <2>1. WritePod(pod)
    BY <1>2 DEF WritePod
  <2> QED
    BY <1>1, <1>2, <2>1, WroteAndReturned DEF Inv, ClaimsBeforePod
<1>3. ASSUME ~failed, NEW r \in Answers, Call(r),
             WritePod(IF r # "error" /\ pod = NoPod THEN ins ELSE pod)
      PROVE  Inv'
  <2> DEFINE p == IF r # "error" /\ pod = NoPod THEN ins ELSE pod
  <2>1. p \in PodOrNone /\ Marked(p)
    BY <1>1 DEF PodOrNone
  <2>2. p # NoPod => p.storage.claims \subseteq claims \cup swept
    BY <1>1, <1>3 DEF Inv, ClaimsSeen, ClaimsBeforePod
  <2>3. events' \in 0 .. MaxEvents
    BY <1>1, <1>3, CallEvents
  <2> HIDE DEF p
  <2>4. WritePod(p)
    BY <1>3 DEF p
  <2> QED
    BY <1>1, <2>1, <2>2, <2>3, <2>4, WroteAndReturned
<1> QED
  BY <1>2, <1>3 DEF createPod

\* A deletion or a new port changes nothing a label speaks about.
LEMMA SameButDying ==
    ASSUME NEW p \in Pod, Marked(p), NEW d \in BOOLEAN
    PROVE  /\ [p EXCEPT !.dying = d] \in Pod /\ Marked([p EXCEPT !.dying = d])
           /\ [p EXCEPT !.dying = d].storage = p.storage
<1> DEFINE q == [p EXCEPT !.dying = d]
<1>1. q \in Pod
  BY DEF Pod
<1>2. /\ q.storage = p.storage /\ q.thash = p.thash /\ q.uhash = p.uhash
      /\ q.image = p.image /\ q.labels = p.labels
  BY DEF Pod
<1> HIDE DEF q
<1>3. Marked(q)
  BY <1>2, NullsAssumption DEF Marked
<1> QED
  BY <1>1, <1>2, <1>3 DEF q

LEMMA SameButPort ==
    ASSUME NEW p \in Pod, Marked(p), NEW port \in Ports \cup {None}
    PROVE  /\ [p EXCEPT !.port = port] \in Pod /\ Marked([p EXCEPT !.port = port])
           /\ [p EXCEPT !.port = port].storage = p.storage
           /\ [p EXCEPT !.port = port].thash = p.thash
           /\ [p EXCEPT !.port = port].port = port
<1> DEFINE q == [p EXCEPT !.port = port]
<1>1. q \in Pod
  BY DEF Pod
<1>2. /\ q.storage = p.storage /\ q.thash = p.thash /\ q.uhash = p.uhash
      /\ q.image = p.image /\ q.labels = p.labels /\ q.port = port
  BY DEF Pod
<1> HIDE DEF q
<1>3. Marked(q)
  BY <1>2, NullsAssumption DEF Marked
<1> QED
  BY <1>1, <1>2, <1>3 DEF q

LEMMA DeleteKeeps ==
    ASSUME Inv, deleteInstance
    PROVE  Inv'
<1>1. /\ Return /\ UNCHANGED <<spec, claims, swept, caches>>
      /\ pod \in PodOrNone /\ Marked(pod) /\ events \in 0 .. MaxEvents
      /\ pod # NoPod => pod.storage.claims \subseteq claims \cup swept
  BY DEF deleteInstance, Inv, TypeOK, AllMarked, PodOrNone, ClaimsBeforePod
<1>2. CASE UNCHANGED <<pod, podEvents, events>>
  <2>1. WritePod(pod)
    BY <1>2 DEF WritePod
  <2> QED
    BY <1>1, <1>2, <2>1, WroteAndReturned
<1>3. ASSUME NEW r \in Answers, Call(r),
             WritePod(IF r # "error" /\ pod # NoPod THEN [pod EXCEPT !.dying = TRUE] ELSE pod)
      PROVE  Inv'
  <2> DEFINE p == IF r # "error" /\ pod # NoPod THEN [pod EXCEPT !.dying = TRUE] ELSE pod
  <2>1. p \in PodOrNone /\ Marked(p) /\ (p # NoPod => p.storage.claims \subseteq claims \cup swept)
    BY <1>1, SameButDying, NullsAssumption DEF PodOrNone
  <2>2. events' \in 0 .. MaxEvents
    BY <1>1, <1>3, CallEvents
  <2> HIDE DEF p
  <2>3. WritePod(p)
    BY <1>3 DEF p
  <2> QED
    BY <1>1, <2>1, <2>2, <2>3, WroteAndReturned
<1> QED
  BY <1>2, <1>3 DEF deleteInstance

\* The pod updateInstance sends knows the port of the copy it was merged into.
LEMMA Told ==
    ASSUME NEW expected \in Pod, Marked(expected), expected.thash # None, NEW current \in Pod
    PROVE  /\ told(expected, current) \in Pod /\ Marked(told(expected, current))
           /\ told(expected, current).thash # None
           /\ current.port # None => told(expected, current).port = current.port
<1>1. current.port \in Ports \cup {None}
  BY DEF Pod
<1> QED
  BY <1>1, SameButPort DEF told

LEMMA UpdateKeeps ==
    ASSUME Inv, updateInstance
    PROVE  Inv'
<1> DEFINE expected == told(ins, cachedPod)
<1>1. /\ pc = "update" /\ UNCHANGED <<spec, claims, swept, caches>>
      /\ pod \in PodOrNone /\ Marked(pod) /\ events \in 0 .. MaxEvents
      /\ pod # NoPod => pod.storage.claims \subseteq claims \cup swept
      /\ ins \in Pod /\ Marked(ins) /\ ins.thash # None
      /\ cachedPod \in PodOrNone /\ tries \in 0 .. updateRetries
  BY DEF updateInstance, Inv, TypeOK, AllMarked, PodOrNone, ClaimsBeforePod
<1>2. CASE Return /\ UNCHANGED <<pod, podEvents, events>>
  <2>1. WritePod(pod)
    BY <1>2 DEF WritePod
  <2> QED
    BY <1>1, <1>2, <2>1, WroteAndReturned
<1>3. ASSUME cachedPod # NoPod,
             NEW r \in IF Current THEN Answers ELSE {"conflict"},
             IF r = "conflict" THEN UNCHANGED events ELSE Call(r),
             WritePod(IF r \in {"ok", "timeout"} THEN mergePod(pod, expected) ELSE pod),
             \/ (r = "ok" \/ tries = updateRetries) /\ Return
             \/ /\ r # "ok" /\ tries < updateRetries
                /\ tries' = tries + 1 /\ ins' = expected
                /\ UNCHANGED <<pc, todo, failed>>
      PROVE  Inv'
  <2> DEFINE p == IF r \in {"ok", "timeout"} THEN mergePod(pod, expected) ELSE pod
  <2>1. cachedPod \in Pod
    BY <1>1, <1>3 DEF PodOrNone
  <2>2. expected \in Pod /\ Marked(expected) /\ expected.thash # None
    BY <1>1, <2>1, Told
  <2>3. r \in {"ok", "timeout"} => pod \in Pod
    BY <1>3, <2>1 DEF Inv, Watched, Answers
  <2> HIDE DEF expected
  <2>4. p \in PodOrNone /\ Marked(p) /\ (p # NoPod => p.storage.claims \subseteq claims \cup swept)
    BY <1>1, <2>2, <2>3, MergePod, NullsAssumption DEF PodOrNone
  <2>5. events' \in 0 .. MaxEvents
    BY <1>1, <1>3, CallEvents
  <2> HIDE DEF p
  <2>6. WritePod(p)
    BY <1>3 DEF p
  <2>7. CASE Return
    BY <1>1, <2>4, <2>5, <2>6, <2>7, WroteAndReturned
  <2>8. CASE /\ tries < updateRetries /\ tries' = tries + 1 /\ ins' = expected
             /\ UNCHANGED <<pc, todo, failed>>
    <3>1. Stream' /\ pod' = p
      BY <1>1, <2>4, <2>6, StreamOfInv, WriteKeeps DEF caches
    <3>2. tries' \in 0 .. updateRetries
      BY <1>1, <2>8 DEF updateRetries
    <3>3. TypeOK'
      BY <1>1, <2>2, <2>5, <2>8, <3>1, <3>2, NullsAssumption
         DEF Inv, TypeOK, Stream, PodOrNone, caches
    <3>4. ClaimsSeen' /\ ClaimsBeforePod'
      BY <1>1, <2>4, <2>8, <3>1 DEF Inv, ClaimsSeen, ClaimsBeforePod, caches
    <3>5. Marked(cachedPod)' /\ Marked(expected)
      BY <1>1, <2>2 DEF Inv, AllMarked, Marked, caches
    <3>6. AllMarked'
      BY <1>1, <2>2, <2>8, <3>1, <3>5 DEF Stream, AllMarked, Marked
    <3> QED
      BY <3>1, <3>3, <3>4, <3>6 DEF Inv, Stream
  <2> QED
    BY <1>3, <2>7, <2>8
<1> QED
  BY <1>2, <1>3 DEF updateInstance

LEMMA DeliverPodKeeps ==
    ASSUME Inv, DeliverPod
    PROVE  Inv'
<1>1. /\ podEvents # <<>> /\ cachedPod' = Head(podEvents) /\ podEvents' = Tail(podEvents)
      /\ UNCHANGED <<spec, pod, claims, swept, cachedClaims, pc, ins, todo, failed, tries, events>>
  BY DEF DeliverPod, locals
<1>2. /\ podEvents \in Seq(PodOrNone) /\ Len(podEvents) \in Nat /\ Len(podEvents) > 0
      /\ podEvents[Len(podEvents)] = pod
  BY <1>1 DEF Inv, TypeOK, PodOrNone, Watched, Current
<1>3. /\ Tail(podEvents) \in Seq(PodOrNone) /\ Len(Tail(podEvents)) = Len(podEvents) - 1
      /\ \A k \in 1 .. Len(podEvents) - 1 : Tail(podEvents)[k] = podEvents[k + 1]
      /\ Head(podEvents) = podEvents[1] /\ podEvents[1] \in PodOrNone
  BY <1>1, <1>2
<1>4. TypeOK'
  BY <1>1, <1>3 DEF Inv, TypeOK, PodOrNone
<1>5. Watched'
  <2>1. CASE Len(podEvents) = 1
    <3>1. podEvents' = <<>>
      BY <1>1, <1>3, <2>1
    <3>2. cachedPod' = pod'
      BY <1>1, <1>2, <1>3, <2>1
    <3> QED
      BY <3>1, <3>2 DEF Watched, Current
  <2>2. CASE Len(podEvents) # 1
    <3> DEFINE n == Len(podEvents) - 1
    <3>1. n \in 1 .. n /\ Len(podEvents') = n /\ podEvents'[n] = podEvents[n + 1]
      BY <1>1, <1>2, <1>3, <2>2
    <3>2. n + 1 = Len(podEvents)
      BY <1>2
    <3>3. podEvents' # <<>>
      BY <3>1
    <3>4. podEvents'[Len(podEvents')] = pod'
      BY <1>1, <1>2, <3>1, <3>2
    <3> QED
      BY <3>3, <3>4 DEF Watched, Current
  <2> QED
    BY <2>1, <2>2
<1>6. \A k \in DOMAIN podEvents' : k + 1 \in DOMAIN podEvents /\ podEvents'[k] = podEvents[k + 1]
  BY <1>1, <1>2, <1>3
<1>7. 1 \in DOMAIN podEvents
  BY <1>2
<1>8. AllMarked'
  BY <1>1, <1>3, <1>6, <1>7 DEF Inv, AllMarked, Marked
<1>9. ClaimsSeen' /\ ClaimsBeforePod'
  BY <1>1 DEF Inv, ClaimsSeen, ClaimsBeforePod
<1> QED
  BY <1>4, <1>5, <1>8, <1>9 DEF Inv

LEMMA CrashKeeps ==
    ASSUME Inv, Crash
    PROVE  Inv'
<1>1. /\ Event /\ Return /\ cachedPod' = pod /\ podEvents' = <<>> /\ cachedClaims' = {}
      /\ UNCHANGED <<spec, pod, claims, swept>>
  BY DEF Crash
<1>2. events' \in 0 .. MaxEvents
  BY <1>1, BoundsAssumption DEF Inv, TypeOK, Event
<1>3. TypeOK'
  BY <1>1, <1>2, Idle DEF Inv, TypeOK
<1>4. Watched' /\ ClaimsSeen' /\ ClaimsBeforePod'
  BY <1>1 DEF Inv, Watched, Current, ClaimsSeen, ClaimsBeforePod, Return
<1>5. AllMarked'
  <2>1. Marked(ins)' /\ Marked(pod)' /\ Marked(cachedPod)'
    BY <1>1 DEF Inv, AllMarked, Marked, Return
  <2>2. DOMAIN podEvents' = {}
    BY <1>1
  <2> QED
    BY <1>1, <2>1, <2>2 DEF AllMarked, Return
<1> QED
  BY <1>3, <1>4, <1>5 DEF Inv

\* The environment's writes of the pod, and its other steps
LEMMA OutsideKeeps ==
    ASSUME Inv, RemovePod \/ OutsidePod
    PROVE  Inv'
<1>1. /\ UNCHANGED <<spec, claims, swept, cachedPod, cachedClaims, pc, ins, todo, failed, tries>>
      /\ pod \in Pod /\ Marked(pod) /\ pod.storage.claims \subseteq claims \cup swept
  BY DEF RemovePod, OutsidePod, caches, locals, Inv, TypeOK, AllMarked, ClaimsBeforePod
<1>2. events' \in 0 .. MaxEvents
  BY BoundsAssumption DEF RemovePod, OutsidePod, Event, Inv, TypeOK
<1>3. PICK p \in PodOrNone :
         /\ Marked(p) /\ WritePod(p)
         /\ p # NoPod => p.storage.claims \subseteq claims \cup swept
  <2>1. CASE RemovePod
    BY <2>1 DEF RemovePod, PodOrNone, Marked
  <2>2. CASE OutsidePod /\ WritePod([pod EXCEPT !.dying = TRUE])
    BY <1>1, <2>2, SameButDying DEF PodOrNone
  <2>3. ASSUME NEW port \in Ports \cup {None}, WritePod([pod EXCEPT !.port = port])
        PROVE  \E p \in PodOrNone :
                  /\ Marked(p) /\ WritePod(p)
                  /\ p # NoPod => p.storage.claims \subseteq claims \cup swept
    <3> DEFINE q == [pod EXCEPT !.port = port]
    <3>1. q \in Pod /\ Marked(q) /\ q.storage = pod.storage
      BY <1>1, SameButPort
    <3>2. WritePod(q)
      BY <2>3
    <3> HIDE DEF q
    <3>3. q \in PodOrNone /\ q.storage.claims \subseteq claims \cup swept
      BY <1>1, <3>1 DEF PodOrNone
    <3> QED
      BY <3>1, <3>2, <3>3
  <2> QED
    BY <2>1, <2>2, <2>3 DEF OutsidePod
<1>4. Stream' /\ pod' = p
  BY <1>1, <1>3, StreamOfInv, WriteKeeps
<1>5. TypeOK'
  BY <1>1, <1>2, <1>4 DEF Inv, TypeOK, Stream, PodOrNone
<1>6. ClaimsSeen' /\ ClaimsBeforePod'
  BY <1>1, <1>3, <1>4 DEF Inv, ClaimsSeen, ClaimsBeforePod
<1>7. Marked(ins)' /\ Marked(cachedPod)' /\ (pc' = "update" => ins'.thash # None)
  BY <1>1 DEF Inv, AllMarked, Marked
<1>8. AllMarked'
  BY <1>4, <1>7 DEF Stream, AllMarked
<1> QED
  BY <1>4, <1>5, <1>6, <1>8 DEF Inv, Stream

LEMMA OtherKeeps ==
    ASSUME Inv, DeliverClaims \/ UserEdit \/ (\E c \in claims : SweepClaim(c)) \/ UNCHANGED vars
    PROVE  Inv'
<1>1. /\ UNCHANGED <<pod, podEvents, cachedPod, pc, ins, todo, failed, tries>>
      /\ spec' \in Specs /\ events' \in 0 .. MaxEvents
      /\ claims' \cup swept' = claims \cup swept
      /\ claims' \subseteq Volumes /\ swept' \subseteq Volumes
      /\ cachedClaims' \subseteq claims \cup swept
  BY BoundsAssumption
     DEF DeliverClaims, UserEdit, SweepClaim, vars, server, caches, locals, Event,
         Inv, TypeOK, ClaimsSeen
<1>2. TypeOK'
  BY <1>1 DEF Inv, TypeOK
<1>3. ClaimsSeen' /\ ClaimsBeforePod'
  BY <1>1 DEF Inv, ClaimsSeen, ClaimsBeforePod
<1>4. Watched' /\ AllMarked'
  BY <1>1 DEF Inv, Watched, Current, AllMarked, Marked
<1> QED
  BY <1>2, <1>3, <1>4 DEF Inv

LEMMA InvInit == Init => Inv
<1> SUFFICES ASSUME Init PROVE Inv
  OBVIOUS
<1>1. spec.claims \in SUBSET Volumes
  BY SpecsAssumption DEF Init
<1>2. TypeOK
  <2>1. failed \in BOOLEAN
    BY Zenon DEF Init
  <2>2. tries \in 0 .. updateRetries /\ events \in 0 .. MaxEvents
    BY BoundsAssumption DEF Init, updateRetries
  <2> QED
    BY <1>1, <2>1, <2>2 DEF Init, TypeOK
<1> QED
  BY <1>2 DEF Init, Inv, Watched, Current, ClaimsSeen, ClaimsBeforePod, AllMarked, Marked

LEMMA InvStep == Inv /\ [Next]_vars => Inv'
<1> SUFFICES ASSUME Inv, [Next]_vars
             PROVE  Inv'
  OBVIOUS
<1>1. CASE Sync
  BY <1>1, StartSyncKeeps, CreateKeeps, ClaimKeeps, CreatePodKeeps, DeleteKeeps, UpdateKeeps
     DEF Sync
<1>2. CASE DeliverPod \/ Crash
  BY <1>2, DeliverPodKeeps, CrashKeeps
<1>3. CASE RemovePod \/ OutsidePod
  BY <1>3, OutsideKeeps
<1>4. CASE DeliverClaims \/ UserEdit \/ (\E c \in claims : SweepClaim(c)) \/ UNCHANGED vars
  BY <1>4, OtherKeeps
<1> QED
  BY <1>1, <1>2, <1>3, <1>4 DEF Next

\* The inductive invariant of Instance: types, the watch stream, the claims dealt with and the
\* hash labels of every copy of the pod.
THEOREM InstanceInv == Spec => []Inv
BY InvInit, InvStep, PTL DEF Spec

\* However many claims there are, and however their lister lags or a call fails: createPod
\* never creates a pod before createPersistentVolumeClaims has seen or created its claims.
THEOREM PodsHaveClaims == Spec => []ClaimsBeforePod
<1>1. Inv => ClaimsBeforePod
  BY DEF Inv
<1> QED
  BY <1>1, InstanceInv, PTL

\* For any templates and any lag: a pod whose template hash label says so runs that image and
\* has those labels, because syncRunningPods never asks for an update without hash labels.
THEOREM HashesTellTruth == Spec => []HashTellsTruth
<1>1. Inv => HashTellsTruth
  BY DEF Inv, AllMarked, Marked, HashTellsTruth
<1> QED
  BY <1>1, InstanceInv, PTL

\* For any ports: an attempt of updateInstance that the server accepts was merged into the
\* stored version of the pod, and carries its port.
THEOREM PortsKept == Spec => PortKept
<1> DEFINE Kept == pod # NoPod /\ pod' # NoPod /\ updateInstance /\ pod.port # None
                     => pod'.port = pod.port
<1>1. Inv /\ [Next]_vars => [Kept]_vars
  <2> SUFFICES ASSUME Inv, pod # NoPod, updateInstance, pod.port # None
               PROVE  pod'.port = pod.port
    OBVIOUS
  <2> DEFINE expected == told(ins, cachedPod)
  <2>1. pod \in Pod /\ ins \in Pod /\ Marked(ins) /\ ins.thash # None
    BY DEF updateInstance, Inv, TypeOK, AllMarked
  <2>2. CASE UNCHANGED pod
    BY <2>2
  <2>3. ASSUME Current, WritePod(mergePod(pod, expected))
        PROVE  pod'.port = pod.port
    <3>1. cachedPod = pod
      BY <2>3 DEF Inv, Watched
    <3>2. expected \in Pod /\ Marked(expected) /\ expected.thash # None /\ expected.port = pod.port
      BY <2>1, <3>1, Told
    <3> HIDE DEF expected
    <3>3. mergePod(pod, expected).port = over(expected.port, pod.port)
      BY <2>1, <3>2, MergePod
    <3>4. pod' = mergePod(pod, expected)
      BY <2>3 DEF WritePod
    <3> QED
      BY <3>2, <3>3, <3>4 DEF over
  <2>4. UNCHANGED pod \/ (Current /\ WritePod(mergePod(pod, expected)))
    BY DEF updateInstance, WritePod
  <2> QED
    BY <2>2, <2>3, <2>4
<1> QED
  BY <1>1, InstanceInv, PTL DEF Spec, PortKept
=============================================================================
