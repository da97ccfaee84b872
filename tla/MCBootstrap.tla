----------------------------- MODULE MCBootstrap ----------------------------
(* The combinations of flags that differ in control *)
EXTENDS Bootstrap

F(crd, admission, elect) ==
    [createCRD |-> crd, registerAdmission |-> admission, leaderElect |-> elect]

TheFlags == {F(TRUE, TRUE, TRUE), F(TRUE, TRUE, FALSE), F(TRUE, FALSE, TRUE), F(FALSE, TRUE, TRUE)}
=============================================================================
