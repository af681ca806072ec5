CONSTANTS
    Nodes = {n1, bare}
    Addressless = {bare}
    ObjectTypes = {crd, deploy}
    ClusterScoped = {crd}
    CRDType = crd
    ControllerType = deploy
    CRs = {}
    NamespacedCRs = {}
    Propagation = {"Background"}
    LeaderSets = {{}, {"nb", "sb"}}
    MaxUID = 2
    MaxDisturbances = 1

SPECIFICATION FairSpec
CHECK_DEADLOCK FALSE
PROPERTY Convergence
