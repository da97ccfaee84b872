SPECIFICATION Spec
CONSTANTS
    MaxReplicas = 1
    PoolNames = {"t1"}
    Shapes = {"s", "r"}
    Images = {"a", "b"}
    NoTemplate = NoTemplate
    NoPod = NoPod
    DeletePodAfterAppFinish = TRUE
    Specs <- FaultSpecs
    InitTApp <- OldTApp
    InitPods <- OldPods
    BadImages = {}
    NodesSyncedAtStart = TRUE
    Budget <- FaultBudget
    MaxLag = 2
INVARIANT TypeOK
INVARIANT ObservedTruth
PROPERTY ObservedForward
PROPERTY ForceDeleteSafe
