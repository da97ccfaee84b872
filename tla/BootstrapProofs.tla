-------------------------- MODULE BootstrapProofs ---------------------------
(* At most one process works, for any number of processes and events, and   *)
(* for any lease that outlasts a holder which gets no answer.               *)
EXTENDS Bootstrap, TLAPS

\* A step inside run by a process that works, or before it holds the lease: it changes neither
\* the lease nor who else works.
LEMMA WorkerStep ==
    ASSUME LeaseInv, NEW p \in Procs, NEW where \in Places,
           Leads(p) \/ where \in {"down", "elect"} \/ ~flags.leaderElect,
           Go(p, where), UNCHANGED <<flags, lease>>
    PROVE  LeaseInv'
<1>1. pc' = [pc EXCEPT ![p] = where] /\ pc \in [Procs -> Places]
  BY DEF Go, LeaseInv
<1>2. \A q \in Procs : flags.leaderElect /\ Leads(q)' => Leads(q)
  BY <1>1 DEF Leads
<1> QED
  BY <1>1, <1>2 DEF LeaseInv, lease

LEMMA SameLease ==
    ASSUME LeaseInv, UNCHANGED <<flags, lease, pc>>
    PROVE  LeaseInv'
BY DEF LeaseInv, Leads, lease

\* The lease is taken from nobody, from oneself or from a holder that has exited: the lease of
\* a holder at work is younger than the lease duration.
LEMMA Acquired ==
    ASSUME LeaseInv, NEW p \in Procs, AcquireLease(p)
    PROVE  LeaseInv'
<1>1. /\ pc[p] = "elect" /\ (holder \in {NoProc, p} \/ age >= LeaseDuration)
      /\ holder' = p /\ age' = 0 /\ UNCHANGED <<flags, renewing, timer, pc>>
  BY DEF AcquireLease
<1>2. ASSUME NEW q \in Procs, flags.leaderElect, Leads(q)
      PROVE  FALSE
  <2>1. /\ holder = q /\ q # NoProc /\ q # p
        /\ age <= AnswerDelay + timer[q] /\ timer[q] <= Patience + ExitDelay
        /\ age \in Nat /\ timer[q] \in Nat
    BY <1>1, <1>2, EventsAssumption DEF LeaseInv, Leads
  <2> QED
    BY <1>1, <2>1, LeaseAssumption DEF Patience
<1> QED
  BY <1>1, <1>2 DEF LeaseInv, Leads

\* Whoever starts to work holds the lease, so nobody else works.
LEMMA Started ==
    ASSUME LeaseInv, NEW p \in Procs, OnStartedLeading(p)
    PROVE  LeaseInv'
<1>1. /\ holder = p /\ age <= AnswerDelay /\ UNCHANGED <<flags, holder, age>>
      /\ renewing' = renewing \cup {p} /\ timer' = [timer EXCEPT ![p] = 0]
      /\ pc' = [pc EXCEPT ![p] = "crd"]
  BY DEF OnStartedLeading, Go
<1>2. /\ pc' \in [Procs -> Places] /\ renewing' \subseteq Procs /\ timer' \in [Procs -> Nat]
      /\ timer'[p] = 0
  BY <1>1 DEF LeaseInv, Places
<1>3. \A q \in Procs : flags.leaderElect /\ Leads(q)' => q = p
  BY <1>1 DEF Leads, LeaseInv
<1> QED
  BY <1>1, <1>2, <1>3, LeaseAssumption DEF LeaseInv, Patience

\* A process that exits works no more, whatever it leaves behind.
LEMMA Exited ==
    ASSUME LeaseInv, NEW p \in Procs, Exit(p)
    PROVE  LeaseInv'
<1>1. /\ pc' = [pc EXCEPT ![p] = "down"] /\ UNCHANGED <<flags, holder, age>>
      /\ renewing' = renewing \ {p} /\ timer' = [timer EXCEPT ![p] = 0]
  BY DEF Exit, Go
<1>2. pc' \in [Procs -> Places] /\ renewing' \subseteq Procs /\ timer' \in [Procs -> Nat]
  BY <1>1 DEF LeaseInv, Places
<1>3. \A q \in Procs : Leads(q)' => /\ q # p /\ Leads(q) /\ timer'[q] = timer[q]
                                     /\ (q \in renewing => q \in renewing')
  BY <1>1 DEF Leads, LeaseInv
<1> QED
  BY <1>1, <1>2, <1>3 DEF LeaseInv

\* An answer counts only for a lease that is as young as the clock it puts back will say.
LEMMA Renewed ==
    ASSUME LeaseInv, NEW p \in Procs, RenewLease(p) \/ RenewalAnswered(p)
    PROVE  LeaseInv'
<1>1. CASE RenewLease(p)
  BY <1>1, LeaseAssumption DEF RenewLease, LeaseInv, Leads
<1>2. CASE RenewalAnswered(p)
  <2>1. /\ holder = p /\ age <= AnswerDelay /\ UNCHANGED <<flags, holder, age, renewing, pc>>
        /\ timer' = [timer EXCEPT ![p] = 0]
    BY <1>2 DEF RenewalAnswered
  <2>2. timer' \in [Procs -> Nat] /\ timer'[p] = 0
    BY <2>1 DEF LeaseInv
  <2>3. \A q \in Procs : flags.leaderElect /\ Leads(q)' => q = p
    BY <2>1 DEF Leads, LeaseInv
  <2> QED
    BY <2>1, <2>2, <2>3, LeaseAssumption DEF LeaseInv, Leads, Patience
<1> QED
  BY <1>1, <1>2

\* Time moves the clock of a holder at work as much as the age of its lease, and not beyond
\* the moment its process must be gone.
LEMMA Ticked ==
    ASSUME LeaseInv, Tick
    PROVE  LeaseInv'
<1>1. /\ \A p \in renewing : timer[p] < Patience + ExitDelay
      /\ age' = IF age < LeaseDuration THEN age + 1 ELSE age
      /\ timer' = [p \in Procs |-> IF p \in renewing THEN timer[p] + 1 ELSE timer[p]]
      /\ UNCHANGED <<flags, holder, renewing, pc>>
  BY DEF Tick
<1>2. age' \in Nat /\ age' <= age + 1 /\ timer' \in [Procs -> Nat]
  BY <1>1, LeaseAssumption DEF LeaseInv
<1>3. ASSUME NEW p \in Procs, flags.leaderElect, Leads(p)
      PROVE  /\ holder = p /\ p \in renewing
             /\ age' <= AnswerDelay + timer'[p] /\ timer'[p] <= Patience + ExitDelay
  <2>1. /\ holder = p /\ p \in renewing /\ age <= AnswerDelay + timer[p]
        /\ timer[p] \in Nat /\ age \in Nat
    BY <1>3 DEF LeaseInv
  <2>2. timer'[p] = timer[p] + 1 /\ timer[p] < Patience + ExitDelay
    BY <1>1, <2>1
  <2> QED
    BY <1>2, <2>1, <2>2, LeaseAssumption DEF Patience
<1> QED
  BY <1>1, <1>2, <1>3 DEF LeaseInv, Leads

LEMMA LeaseStep == LeaseInv /\ [Next]_vars => LeaseInv'
<1> SUFFICES ASSUME LeaseInv, [Next]_vars
             PROVE  LeaseInv'
  OBVIOUS
<1>1. ASSUME NEW p \in Procs, main(p)
      PROVE  LeaseInv'
  <2>1. CASE flags.leaderElect
    BY <1>1, <2>1, WorkerStep DEF main, Places
  <2>2. CASE ~flags.leaderElect
    BY <1>1, <2>2, WorkerStep DEF main, Places
  <2> QED
    BY <2>1, <2>2
<1>2. ASSUME NEW p \in Procs, AcquireLease(p)
      PROVE  LeaseInv'
  BY <1>2, Acquired
<1>3. ASSUME NEW p \in Procs, EnsureCRDCreated(p)
      PROVE  LeaseInv'
  <2>1. Leads(p) /\ UNCHANGED <<flags, lease>>
    BY <1>3 DEF EnsureCRDCreated, GetCRD, UpdateCRD, CreateCRD, SkipCRD, Leads
  <2>2. AfterCRD \in Places /\ {"crd", "crdUpdate", "crdCreate"} \subseteq Places
    BY DEF AfterCRD, Places
  <2>3. \E where \in Places : Go(p, where)
    BY <1>3, <2>2 DEF EnsureCRDCreated, GetCRD, UpdateCRD, CreateCRD, SkipCRD, Write
  <2> QED
    BY <2>1, <2>3, WorkerStep
<1>4. ASSUME NEW p \in Procs, Register(p)
      PROVE  LeaseInv'
  <2>1. Leads(p) /\ UNCHANGED <<flags, lease>>
    BY <1>4 DEF Register, GetHook, UpdateHook, CreateHook, Leads
  <2>2. {"hook", "hookUpdate", "hookCreate", "start"} \subseteq Places
    BY DEF Places
  <2>3. UNCHANGED pc \/ \E where \in Places : Go(p, where)
    BY <1>4, <2>2 DEF Register, GetHook, UpdateHook, CreateHook, Write
  <2> QED
    BY <2>1, <2>3, WorkerStep, SameLease
<1>5. ASSUME NEW p \in Procs, StartAll(p) \/ Run(p)
      PROVE  LeaseInv'
  <2>1. Leads(p) /\ UNCHANGED <<flags, lease>>
    BY <1>5 DEF StartAll, Run, Leads
  <2>2. \E where \in Places : Go(p, where)
    BY <1>5 DEF StartAll, Run, Places
  <2> QED
    BY <2>1, <2>2, WorkerStep
<1>6. ASSUME NEW p \in Procs,
             ServerRun(p) \/ \E i \in Informers : List(p, i)
      PROVE  LeaseInv'
  BY <1>6, SameLease DEF ServerRun, List
<1>7. ASSUME NEW p \in Procs, OnStartedLeading(p)
      PROVE  LeaseInv'
  BY <1>7, Started
<1>8. ASSUME NEW p \in Procs, OnStoppedLeading(p) \/ ServerFails(p) \/ Crash(p)
      PROVE  LeaseInv'
  BY <1>8, Exited DEF OnStoppedLeading, ServerFails, Crash
<1>9. ASSUME NEW p \in Procs, RenewLease(p) \/ RenewalAnswered(p)
      PROVE  LeaseInv'
  BY <1>9, Renewed
<1>10. ASSUME NEW o \in Objects, OutsideChange(o)
       PROVE  LeaseInv'
  BY <1>10, SameLease DEF OutsideChange
<1>11. CASE TimePasses \/ RenewalFails
  BY <1>11, Ticked DEF TimePasses, RenewalFails
<1>12. CASE UNCHANGED vars
  BY <1>12, SameLease DEF vars
<1> QED
  BY <1>1, <1>2, <1>3, <1>4, <1>5, <1>6, <1>7, <1>8, <1>9, <1>10, <1>11, <1>12 DEF Next, Work

\* With leader election two processes never work at the same time, because OnStoppedLeading
\* ends the one that gets no answer before its lease can be taken: for all durations of which
\* the lease is longer than the holder's patience and the delays of an answer and of the exit.
THEOREM Leadership == Spec => []OneLeader
<1>1. Init => LeaseInv
  BY LeaseAssumption DEF Init, LeaseInv, Leads, Places
<1>2. LeaseInv => OneLeader
  BY DEF LeaseInv, OneLeader
<1> QED
  BY <1>1, <1>2, LeaseStep, PTL DEF Spec
=============================================================================
