---------------------------- MODULE MCBootstrap ----------------------------
(* Two processes, and specs that name all, some or none of a resource.     *)
EXTENDS Bootstrap

CONSTANTS p1, p2

TwoProcesses == {p1, p2}

Nothing == [f \in ResourceFields |-> Absent]

PingerLimits ==
    [Nothing EXCEPT !["kubeOvnPinger"] =
       {[requests |-> Absent, limits |-> {CPUMem(400, 0, 0)}]}]

Zeroes == [f \in ResourceFields |-> {[p \in Parts |-> {Zero}]}]

Written == {Nothing, PingerLimits, Zeroes}

=============================================================================
