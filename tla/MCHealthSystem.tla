--------------------------- MODULE MCHealthSystem ---------------------------
(* The nodes of the runs of HealthSystem.                                  *)
EXTENDS HealthSystem, TLC

CONSTANT n1

OneNode == {n1}

=============================================================================
