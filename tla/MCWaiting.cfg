CONSTANTS
    n1 = n1
    Nodes <- OneNode
    Addressless = {}
    Interval = 2
    MaxDisturbances = 2

SPECIFICATION FairSpec
PROPERTY WaitingEnds
