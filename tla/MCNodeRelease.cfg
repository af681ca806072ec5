CONSTANTS
    n1 = n1
    n2 = n2
    Nodes = {n1}
    Addressless = {}
    Masters = {n1}
    Lookalikes = {}
    NamedByAddress = {}
    Deployed = TRUE
    Departing = {n1}
    MaxMachines = 2
    MaxDisturbances = 1

SPECIFICATION FairSpec
CHECK_DEADLOCK FALSE
PROPERTY NodeLeaves
PROPERTY NodesProtected
