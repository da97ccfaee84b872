----------------------------- MODULE MCDispatch -----------------------------
(* Two TApps of the same age, and a pod of the one whose name comes second *)
EXTENDS Dispatch

TheCreated == [k \in Keys |-> 1]
TheName == [a |-> 1, b |-> 2]
TheOwner == [p \in PodNames |-> "b"]
TheLabels == {{"x"}, {"y"}}

Start(a, b, stage, pod) ==
    [selector |-> [a |-> a, b |-> b], tapp |-> [a |-> "set", b |-> stage], pods |-> [p |-> pod]]

Running == [labels |-> {"y"}, version |-> 0]

\* Selectors that never match the same pod, also while that of b is not stored yet; one of a
\* that matches the pods of b as well; one of a that does not parse; an empty one of b
TheStarts ==
    {Start({"x"}, {"y"}, "set", Running), Start({"x"}, {"y"}, "new", NoPod),
     Start({"y"}, {"y"}, "set", Running), Start(Invalid, {"y"}, "set", Running),
     Start({"x"}, {}, "set", Running)}
=============================================================================
