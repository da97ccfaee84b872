SPECIFICATION FairSpec
CONSTANTS
    MaxReplicas = 2
    PoolNames = {"t1"}
    Shapes = {"s", "r"}
    Images = {"a", "b"}
    NoTemplate = NoTemplate
    NoPod = NoPod
    DeletePodAfterAppFinish = TRUE
    Specs <- RestartSpecs
    InitTApp <- OldTApp
    InitPods <- OldPods
    BadImages = {}
    NodesSyncedAtStart = FALSE
    Budget <- TwoEdits
    MaxLag = 1
INVARIANT CacheCoherent
PROPERTY Converges
