CONSTANTS
    Nodes = {n1}
    Addressless = {}
    ObjectTypes = {crd, deploy}
    ClusterScoped = {crd}
    CRDType = crd
    ControllerType = deploy
    CRs = {}
    NamespacedCRs = {}
    Propagation = {"Background"}
    LeaderSets = {{}, {"nb", "sb"}}
    MaxUID = 1
    MaxDisturbances = 0

SPECIFICATION FairSpec
CHECK_DEADLOCK FALSE
PROPERTY NodesReleasedInTheEnd
