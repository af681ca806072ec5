CONSTANTS
    Nodes = {n1}
    Addressless = {}
    ObjectTypes = {crd, deploy}
    ClusterScoped = {crd}
    CRDType = crd
    ControllerType = deploy
    CRs = {vpc, gateway}
    NamespacedCRs = {gateway}
    Propagation = {"Background", "Foreground"}
    LeaderSets = {{}, {"nb"}, {"sb"}, {"nb", "sb"}}
    MaxUID = 2
    MaxDisturbances = 1

SPECIFICATION Spec
CHECK_DEADLOCK FALSE
SYMMETRY Symmetry
INVARIANT TypeOK
INVARIANT NamespaceGuarded
INVARIANT DeployedIsEarned
PROPERTY CleanupBeforeNamespace
PROPERTY LiveStackKept
PROPERTY ImplementsStackLifecycle
