CONSTANTS
    p1 = p1
    p2 = p2
    Processes <- TwoProcesses
    WebhookDelay = 30
    BootstrapSpec <- PingerLimits
    UserSpecs <- Written
    MaxDisturbances = 2

SPECIFICATION FairSpec
CHECK_DEADLOCK FALSE
INVARIANT TypeOK
INVARIANT StoredIsDefaulted
INVARIANT RetriesSuffice
PROPERTY Bootstrapped
PROPERTY NeverReplaced
