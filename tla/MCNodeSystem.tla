---------------------------- MODULE MCNodeSystem ----------------------------
(* Nodes of the runs of NodeSystem; the address of n1 is a part of n2's.   *)
EXTENDS NodeSystem

CONSTANTS n1, n2

TwoNodes == {n1, n2}
OneInTwo == {<<n1, n2>>}

=============================================================================
