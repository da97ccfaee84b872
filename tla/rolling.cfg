SPECIFICATION FairSpec
CONSTANTS
    MaxReplicas = 3
    PoolNames = {"t1"}
    Shapes = {"s", "r"}
    Images = {"a", "b"}
    NoTemplate = NoTemplate
    NoPod = NoPod
    DeletePodAfterAppFinish = TRUE
    Specs <- RollingSpecs
    InitTApp <- OldTApp
    InitPods <- OldPods
    BadImages = {}
    NodesSyncedAtStart = TRUE
    Budget <- OneEditOneCrash
    MaxLag = 2
INVARIANT RollingBudget
PROPERTY Drained
PROPERTY Converges
