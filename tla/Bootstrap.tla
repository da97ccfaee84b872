------------------------------ MODULE Bootstrap -----------------------------
(***************************************************************************)
(* From main to running workers: leader election, the CRD and the webhook  *)
(* configuration that are created or brought up to date under a polling    *)
(* retry, the admission server, the informers.  Several processes share    *)
(* the objects in the API server; calls fail, answers are lost, processes  *)
(* die, and others edit or delete the objects.                             *)
(*                                                                         *)
(* Resource versions are not stored: held says whether the version a       *)
(* process has put into its copy of an object is the current one.          *)
(***************************************************************************)
EXTENDS Naturals

CONSTANTS
    Procs, NoProc,
    Flags,          \* combinations of flags: [createCRD, registerAdmission, leaderElect]
    LeaseDuration,  \* ticks without renewal after which others may take the lease
    RenewDeadline,  \* ticks for which the holder tries one renewal before it gives up
    RetryPeriod,    \* ticks between an answered renewal and the next attempt
    AnswerDelay,    \* the most ticks from a write of the lease to the answer that counts
    ExitDelay,      \* the most ticks from the end of the deadline to the end of the process
    MaxEvents       \* bound on failing calls, crashes, late renewals and outside changes

ASSUME FlagsAssumption ==
    Flags \subseteq [createCRD : BOOLEAN, registerAdmission : BOOLEAN, leaderElect : BOOLEAN]

\* How long a holder goes on without an answered renewal: it waits, then tries
Patience == RetryPeriod + RenewDeadline

\* The defaults of main are 15, 10 and 2 seconds, which leaves less than 3 for the delays.
\* client-go accepts flags that leave nothing: it asks for RenewDeadline < LeaseDuration.
ASSUME LeaseAssumption ==
    /\ {LeaseDuration, RenewDeadline, RetryPeriod, AnswerDelay, ExitDelay} \subseteq Nat
    /\ AnswerDelay + Patience + ExitDelay < LeaseDuration

ASSUME EventsAssumption == MaxEvents \in Nat /\ NoProc \notin Procs

VARIABLES
    flags,
    object,       \* the CRD and the webhook configuration in the API server
    holder, age,  \* of the lease: its holder, ticks since it was written
    renewing,     \* processes in which RunOrDie has got the lease and keeps renewing it
    timer,        \* ticks since such a process had an answer, the clock it goes by
    pc,           \* where each process is
    held,         \* the resource version in each process's copy of an object
    listed,       \* informers of each process that have listed
    server,       \* the admission server of each process
    events        \* events so far

lease == <<holder, age, renewing, timer>>
vars == <<flags, object, lease, pc, held, listed, server, events>>

Objects == {"crd", "hook"}
Informers == {"tapps", "pods"}  \* nodes and claims are not waited for
Places == {"down", "elect", "crd", "crdUpdate", "crdCreate", "hook", "hookUpdate", "hookCreate",
           "start", "wait", "running"}

TypeOK ==
    /\ flags \in Flags
    /\ object \in [Objects -> {"absent", "other", "want"}]
    /\ holder \in Procs \cup {NoProc} /\ age \in 0 .. LeaseDuration
    /\ renewing \subseteq Procs /\ timer \in [Procs -> 0 .. Patience + ExitDelay]
    /\ pc \in [Procs -> Places]
    /\ held \in [Procs -> [Objects -> {"none", "current", "old"}]]
    /\ listed \in [Procs -> SUBSET Informers]
    /\ server \in [Procs -> {"off", "starting", "listening"}]
    /\ events \in 0 .. MaxEvents

NothingHeld == [o \in Objects |-> "none"]

Init ==
    /\ flags \in Flags
    /\ object \in [Objects -> {"absent", "other"}]
    /\ holder = NoProc /\ age = 0
    /\ renewing = {} /\ timer = [p \in Procs |-> 0]
    /\ pc = [p \in Procs |-> "down"]
    /\ held = [p \in Procs |-> NothingHeld]
    /\ listed = [p \in Procs |-> {}]
    /\ server = [p \in Procs |-> "off"]
    /\ events = 0

Event == events < MaxEvents /\ events' = events + 1

Go(p, where) == pc' = [pc EXCEPT ![p] = where]

\* Every copy of the version that is replaced is old from now on
Replace(o, content) ==
    /\ object' = [object EXCEPT ![o] = content]
    /\ held' = [p \in Procs |-> [held[p] EXCEPT ![o] = IF @ = "current" THEN "old" ELSE @]]

-----------------------------------------------------------------------------
(* Start, leader election and exit *)

Alive(p) == pc[p] # "down"
Leads(p) == pc[p] \notin {"down", "elect"}

\* The kubelet starts the container again.  Without leader election main calls run at once.
main(p) ==
    /\ pc[p] = "down"
    /\ Go(p, IF flags.leaderElect THEN "elect" ELSE "crd")
    /\ UNCHANGED <<flags, object, lease, held, listed, server, events>>

\* A process that was restarted is known by its host name and has its own lease back
AcquireLease(p) ==
    /\ pc[p] = "elect"
    /\ holder \in {NoProc, p} \/ age >= LeaseDuration
    /\ holder' = p /\ age' = 0
    /\ UNCHANGED <<flags, object, renewing, timer, pc, held, listed, server, events>>

\* The answer that the lease is written starts run, and with it the clock of the holder
OnStartedLeading(p) ==
    /\ pc[p] = "elect" /\ holder = p /\ age <= AnswerDelay
    /\ renewing' = renewing \cup {p} /\ timer' = [timer EXCEPT ![p] = 0]
    /\ Go(p, "crd")
    /\ UNCHANGED <<flags, object, holder, age, held, listed, server, events>>

\* A renewal is written when the holder has waited and before it gives up
RenewLease(p) ==
    /\ p \in renewing /\ holder = p /\ RetryPeriod <= timer[p] /\ timer[p] < Patience
    /\ age' = 0
    /\ UNCHANGED <<flags, object, holder, renewing, timer, pc, held, listed, server, events>>

\* Only the answer to a write of this round puts the clock of the holder back
RenewalAnswered(p) ==
    /\ p \in renewing /\ holder = p /\ age <= AnswerDelay
    /\ RetryPeriod + age <= timer[p] /\ timer[p] < Patience
    /\ timer' = [timer EXCEPT ![p] = 0]
    /\ UNCHANGED <<flags, object, holder, age, renewing, pc, held, listed, server, events>>

\* Time passes for everybody, whoever works.  All that is taken on trust is that the timer
\* of client-go calls OnStoppedLeading when it is due, or ExitDelay later.
Tick ==
    /\ holder # NoProc
    /\ \A p \in renewing : timer[p] < Patience + ExitDelay
    /\ age' = IF age < LeaseDuration THEN age + 1 ELSE age
    /\ timer' = [p \in Procs |-> IF p \in renewing THEN timer[p] + 1 ELSE timer[p]]
    /\ UNCHANGED <<flags, object, holder, renewing, pc, held, listed, server>>

TimePasses == Tick /\ (\A p \in renewing : timer[p] < RetryPeriod) /\ UNCHANGED events

\* Time passes while a renewal is due: its calls or their answers are lost or late
RenewalFails == Tick /\ (\E p \in renewing : timer[p] >= RetryPeriod) /\ Event

\* The package variable CRD, the informer stores, the server and the election die with the
\* process
Exit(p) ==
    /\ Go(p, "down")
    /\ held' = [held EXCEPT ![p] = NothingHeld]
    /\ listed' = [listed EXCEPT ![p] = {}]
    /\ server' = [server EXCEPT ![p] = "off"]
    /\ renewing' = renewing \ {p} /\ timer' = [timer EXCEPT ![p] = 0]
    /\ UNCHANGED <<flags, object, holder, age>>

GivesUp(p) == p \in renewing /\ timer[p] >= Patience

\* Faulty variant: the callback logs and the election is run again; run is only told to stop,
\* and its workers, which never look, go on.
OnStoppedLeadingReturns(p) ==
    /\ GivesUp(p)
    /\ renewing' = renewing \ {p}
    /\ UNCHANGED <<flags, object, holder, age, timer, pc, held, listed, server, events>>

\* client-go gives up and calls back: klog.Fatalf ends the process and everything it runs
OnStoppedLeading(p) ==
    /\ GivesUp(p)
    /\ Exit(p) /\ UNCHANGED events

Crash(p) == Alive(p) /\ Event /\ Exit(p)

-----------------------------------------------------------------------------
(* EnsureCRDCreated, polled until it returns true *)

AfterCRD == IF flags.registerAdmission THEN "hook" ELSE "start"

\* Only the spec is compared.  Any error of Get counts as "does not exist".  The version goes
\* into the package variable CRD, where it stays for later attempts.
GetCRD(p) ==
    /\ pc[p] = "crd" /\ flags.createCRD
    /\ \/ /\ object["crd"] = "want"
          /\ Go(p, AfterCRD) /\ UNCHANGED <<held, events>>
       \/ /\ object["crd"] = "other"
          /\ held' = [held EXCEPT ![p]["crd"] = "current"]
          /\ Go(p, "crdUpdate") /\ UNCHANGED events
       \/ /\ object["crd"] = "absent"
          /\ Go(p, "crdCreate") /\ UNCHANGED <<held, events>>
       \/ Event /\ Go(p, "crdCreate") /\ UNCHANGED held
    /\ UNCHANGED <<flags, object, lease, listed, server>>

\* What becomes of a write that the API server can accept or must refuse: done and answered,
\* done and the answer lost, or not done
Write(p, o, acceptable, next, again) ==
    \/ acceptable /\ Replace(o, "want") /\ Go(p, next) /\ UNCHANGED events
    \/ acceptable /\ Replace(o, "want") /\ Event /\ Go(p, again)
    \/ ~acceptable /\ Go(p, again) /\ UNCHANGED <<object, held, events>>
    \/ acceptable /\ Event /\ Go(p, again) /\ UNCHANGED <<object, held>>

UpdateCRD(p) ==
    /\ pc[p] = "crdUpdate"
    /\ Write(p, "crd", object["crd"] # "absent" /\ held[p]["crd"] = "current", AfterCRD, "crd")
    /\ UNCHANGED <<flags, lease, listed, server>>

\* An object to be created must not carry a resource version
CreateCRD(p) ==
    /\ pc[p] = "crdCreate"
    /\ Write(p, "crd", object["crd"] = "absent" /\ held[p]["crd"] = "none", AfterCRD, "crd")
    /\ UNCHANGED <<flags, lease, listed, server>>

SkipCRD(p) ==
    /\ pc[p] = "crd" /\ ~flags.createCRD
    /\ Go(p, AfterCRD)
    /\ UNCHANGED <<flags, object, lease, held, listed, server, events>>

EnsureCRDCreated(p) == GetCRD(p) \/ UpdateCRD(p) \/ CreateCRD(p) \/ SkipCRD(p)

-----------------------------------------------------------------------------
(* admission.Register, polled until it returns true *)

\* Faulty variant: like the CRD, the configuration is one object for all attempts
GetHookShared(p) ==
    /\ pc[p] = "hook"
    /\ \/ object["hook"] = "want" /\ Go(p, "start") /\ UNCHANGED held
       \/ /\ object["hook"] = "other"
          /\ held' = [held EXCEPT ![p]["hook"] = "current"]
          /\ Go(p, "hookUpdate")
       \/ object["hook"] = "absent" /\ Go(p, "hookCreate") /\ UNCHANGED held
    /\ UNCHANGED <<flags, object, lease, listed, server, events>>

\* Each attempt builds a new object, once the CA file can be read
GetHook(p) ==
    /\ pc[p] = "hook"
    /\ \/ Event /\ UNCHANGED <<pc, held>>  \* the CA file cannot be read
       \/ /\ object["hook"] = "want"
          /\ Go(p, "start") /\ UNCHANGED <<held, events>>
       \/ /\ object["hook"] = "other"
          /\ held' = [held EXCEPT ![p]["hook"] = "current"]
          /\ Go(p, "hookUpdate") /\ UNCHANGED events
       \/ /\ object["hook"] = "absent"
          /\ held' = [held EXCEPT ![p]["hook"] = "none"]
          /\ Go(p, "hookCreate") /\ UNCHANGED events
       \/ /\ Event
          /\ held' = [held EXCEPT ![p]["hook"] = "none"]
          /\ Go(p, "hookCreate")
    /\ UNCHANGED <<flags, object, lease, listed, server>>

UpdateHook(p) ==
    /\ pc[p] = "hookUpdate"
    /\ Write(p, "hook", object["hook"] # "absent" /\ held[p]["hook"] = "current", "start", "hook")
    /\ UNCHANGED <<flags, lease, listed, server>>

CreateHook(p) ==
    /\ pc[p] = "hookCreate"
    /\ Write(p, "hook", object["hook"] = "absent" /\ held[p]["hook"] = "none", "start", "hook")
    /\ UNCHANGED <<flags, lease, listed, server>>

Register(p) == GetHook(p) \/ UpdateHook(p) \/ CreateHook(p)

-----------------------------------------------------------------------------
(* The admission server, the informers and the workers *)

\* run starts the server, both informer factories and Controller.Run
StartAll(p) ==
    /\ pc[p] = "start"
    /\ Go(p, "wait")
    /\ server' = [server EXCEPT ![p] = IF flags.registerAdmission THEN "starting" ELSE @]
    /\ UNCHANGED <<flags, object, lease, held, listed, events>>

\* The goroutine of Server.Run: it listens, or the process ends with klog.Fatal
ServerRun(p) ==
    /\ server[p] = "starting"
    /\ server' = [server EXCEPT ![p] = "listening"]
    /\ UNCHANGED <<flags, object, lease, pc, held, listed, events>>

\* Faulty variant: the error is logged and the process goes on
ServerErrorLogged(p) ==
    /\ server[p] # "off" /\ Event
    /\ server' = [server EXCEPT ![p] = "off"]
    /\ UNCHANGED <<flags, object, lease, pc, held, listed>>

ServerFails(p) ==
    /\ server[p] # "off" /\ Event
    /\ Exit(p)

\* TApps can be listed once there is a CRD
List(p, i) ==
    /\ pc[p] \in {"wait", "running"} /\ i \notin listed[p]
    /\ i = "tapps" => object["crd"] # "absent"
    /\ listed' = [listed EXCEPT ![p] = @ \cup {i}]
    /\ UNCHANGED <<flags, object, lease, pc, held, server, events>>

\* WaitForCacheSync is over and the workers start
Run(p) ==
    /\ pc[p] = "wait" /\ listed[p] = Informers
    /\ Go(p, "running")
    /\ UNCHANGED <<flags, object, lease, held, listed, server, events>>

-----------------------------------------------------------------------------
\* Somebody else edits, creates or deletes one of the objects
OutsideChange(o) ==
    /\ Event
    /\ \E content \in {"absent", "other"} : content # object[o] /\ Replace(o, content)
    /\ UNCHANGED <<flags, lease, pc, listed, server>>

Work(p) ==
    \/ main(p) \/ AcquireLease(p) \/ OnStartedLeading(p) \/ EnsureCRDCreated(p) \/ Register(p)
    \/ StartAll(p) \/ ServerRun(p) \/ Run(p) \/ OnStoppedLeading(p)
    \/ \E i \in Informers : List(p, i)

Next ==
    \/ \E p \in Procs : Work(p) \/ ServerFails(p) \/ Crash(p)
    \/ \E p \in Procs : RenewLease(p) \/ RenewalAnswered(p)
    \/ \E o \in Objects : OutsideChange(o)
    \/ TimePasses \/ RenewalFails

Spec == Init /\ [][Next]_vars

\* Polling never gives up, the kubelet restarts what exits, time passes, and calls are
\* answered in time again and again
Fairness ==
    /\ WF_vars(TimePasses)
    /\ \A p \in Procs :
         /\ WF_vars(main(p)) /\ SF_vars(AcquireLease(p)) /\ SF_vars(OnStartedLeading(p))
         /\ WF_vars(RenewLease(p)) /\ WF_vars(RenewalAnswered(p)) /\ WF_vars(OnStoppedLeading(p))
         /\ WF_vars(EnsureCRDCreated(p) \/ Register(p) \/ StartAll(p))
         /\ WF_vars(ServerRun(p)) /\ WF_vars(Run(p))
         /\ \A i \in Informers : WF_vars(List(p, i))

FairSpec == Spec /\ Fairness

-----------------------------------------------------------------------------
(* Properties *)

\* With leader election, two processes never work at the same time, however late renewals
\* and their answers are: time does not wait for a holder that cannot renew, so its
\* OnStoppedLeading must have ended it before its lease can be taken.
OneLeader ==
    flags.leaderElect => \A p, q \in Procs : Leads(p) /\ Leads(q) => p = q

\* The inductive invariant of BootstrapProofs: who works holds the lease and renews it, the
\* lease is not much older than the holder's clock says, and that clock has not run out
LeaseInv ==
    /\ flags \in Flags /\ pc \in [Procs -> Places]
    /\ holder \in Procs \cup {NoProc} /\ age \in Nat
    /\ renewing \subseteq Procs /\ timer \in [Procs -> Nat]
    /\ flags.leaderElect =>
         \A p \in Procs : Leads(p) =>
            /\ holder = p /\ p \in renewing
            /\ age <= AnswerDelay + timer[p] /\ timer[p] <= Patience + ExitDelay

\* The CRD is gone, and the process carries a version of it that forbids to create it
Stranded(p) == flags.createCRD /\ object["crd"] = "absent" /\ held[p]["crd"] # "none"

\* Failing calls, lost answers, crashes, outside edits and competing processes never keep a
\* leader's workers from starting.  The exceptions: the CRD is deleted between two attempts of
\* EnsureCRDCreated, or there is none although it had been ensured, or was never asked for.
StartsUnlessStranded ==
    <>[](/\ \E p \in Procs : Leads(p)
         /\ \A p \in Procs : Leads(p) =>
              \/ pc[p] = "running"
              \/ Stranded(p)
              \/ pc[p] = "wait" /\ object["crd"] = "absent")

\* The webhook has the failure policy Fail: as long as it is registered and nobody listens,
\* every write of a TApp is refused.  In the end the server of a leader listens.
WritesServed ==
    <>[](flags.registerAdmission /\ object["crd"] # "absent" =>
           \E p \in Procs : server[p] = "listening")
=============================================================================
