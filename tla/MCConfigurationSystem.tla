----------------------- MODULE MCConfigurationSystem -----------------------
(* Symmetry for the runs that check safety only: nodes with an address are *)
(* interchangeable, and so are the custom resources of one scope.          *)
EXTENDS ConfigurationSystem, TLC

Symmetry ==
    Permutations(Nodes \ Addressless) \cup Permutations(CRs \ NamespacedCRs)

=============================================================================
