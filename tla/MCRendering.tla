----------------------------- MODULE MCRendering -----------------------------
(* Rendering for TLC: four nodes, and the selectors that authors write.    *)
EXTENDS Rendering

role   == <<"role", "master">>
noRole == <<"role", "">>
zone   == <<"zone", "a">>

MCNodes  == {{}, {role}, {noRole}, {role, zone}}
MCLabels == {{}, {role}, {noRole}, {role, zone}}

=============================================================================
