CONSTANTS
    n1 = n1
    n2 = n2
    Nodes <- TwoNodes
    Addressless = {}
    Masters = {n1, n2}
    Lookalikes <- OneInTwo
    NamedByAddress = {}
    Deployed = TRUE
    Departing = {n1}
    MaxMachines = 2
    MaxDisturbances = 2

SPECIFICATION Spec
CHECK_DEADLOCK FALSE
INVARIANT TypeOK
PROPERTY MembersLeave
PROPERTY OnlyTheDeparted
PROPERTY ImplementsNodeMembership
