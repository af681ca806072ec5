------------------------------ MODULE MCRollout ------------------------------
(* Rollout for TLC. *)
EXTENDS Rollout

=============================================================================
