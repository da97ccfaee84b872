SPECIFICATION FairSpec
CONSTANTS
    MaxReplicas = 2
    PoolNames = {"t1"}
    Shapes = {"s", "r"}
    Images = {"a", "b"}
    NoTemplate = NoTemplate
    NoPod = NoPod
    DeletePodAfterAppFinish = TRUE
    Specs <- PoolRepairSpecs
    InitTApp <- PoolStuckTApp
    InitPods <- PoolStuckPods
    BadImages = {"b"}
    NodesSyncedAtStart = TRUE
    Budget <- OneEdit
    MaxLag = 2
PROPERTY EveryWantedServes
