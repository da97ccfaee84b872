SPECIFICATION FairSpec
CONSTANTS
    MaxReplicas = 1
    PoolNames = {"t1"}
    Shapes = {"s", "r"}
    Images = {"a", "b"}
    NoTemplate = NoTemplate
    NoPod = NoPod
    DeletePodAfterAppFinish = TRUE
    Specs <- NodeSpecs
    InitTApp <- NodeTApp
    InitPods <- NodePods
    BadImages = {}
    NodesSyncedAtStart = TRUE
    Budget <- NodeBudget
    MaxLag = 2
PROPERTY ForceDeleteSafe
PROPERTY Converges
