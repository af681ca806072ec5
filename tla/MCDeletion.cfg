CONSTANTS
    Nodes = {n1}
    Addressless = {}
    ObjectTypes = {crd, deploy}
    ClusterScoped = {crd}
    CRDType = crd
    ControllerType = deploy
    CRs = {vpc, gateway}
    NamespacedCRs = {gateway}
    Propagation = {"Background", "Foreground"}
    LeaderSets = {}
    MaxUID = 1
    MaxDisturbances = 2

SPECIFICATION FairSpec
CHECK_DEADLOCK FALSE
PROPERTY DeletionCompletes
PROPERTY NothingLeftBehind
