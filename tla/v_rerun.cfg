SPECIFICATION Spec
CONSTANTS
    MaxReplicas = 1
    PoolNames = {"t1"}
    Shapes = {"s", "r"}
    Images = {"a", "b"}
    NoTemplate = NoTemplate
    NoPod = NoPod
    DeletePodAfterAppFinish = TRUE
    Specs <- ShapeSpecs
    InitTApp <- JobTApp
    InitPods <- EmptyPods
    BadImages = {}
    NodesSyncedAtStart = TRUE
    Budget <- JobBudget
    MaxLag = 2
PROPERTY RecordedBeforeRemoved
