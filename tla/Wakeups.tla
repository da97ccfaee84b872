------------------------------ MODULE Wakeups -------------------------------
(***************************************************************************)
(* What the controller expects of its work queue and its workers: a key    *)
(* that is woken is handled afterwards, by one worker at a time, and a     *)
(* wake-up that arrives while its key is being handled is not taken for    *)
(* the one being handled.  Order, delays and threads are left out.         *)
(***************************************************************************)
CONSTANT Keys

VARIABLES due,   \* keys with a wake-up nobody has acted on
          busy   \* keys being handled

vars == <<due, busy>>

Init == due = {} /\ busy = {}

Wake(k) == due' = due \cup {k} /\ UNCHANGED busy

\* A second wake-up, for instance a retry that is waiting, may stay behind
Begin(k) ==
    /\ k \in due \ busy
    /\ busy' = busy \cup {k}
    /\ due' \in {due, due \ {k}}

End(k) == k \in busy /\ busy' = busy \ {k} /\ UNCHANGED due

\* The process dies; what has to be done is found again from the API server
Crash == due' = {} /\ busy' = {}

Next == Crash \/ \E k \in Keys : Wake(k) \/ Begin(k) \/ End(k)

Safe == Init /\ [][Next]_vars

Live == \A k \in Keys : WF_vars(Begin(k)) /\ WF_vars(End(k))

Spec == Safe /\ Live
=============================================================================
