----------------------------- MODULE MCRollout ------------------------------
(* The clusters and edits of the run rolling are ones RolloutProofs is about. *)
EXTENDS MCTAppController, Rollout

ASSUME RollingUpdateAssumption == RollingUpdate

OneEditOneCrash == Env(1, 0, 1, 0, 0)
=============================================================================
