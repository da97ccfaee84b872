SPECIFICATION MCSpec
CONSTANTS
    MaxReplicas = 3
    PoolNames = {"t0", "t1"}
    Shapes = {"s", "r"}
    Images = {"a", "b"}
    NoTemplate = NoTemplate
    NoPod = NoPod
    DeletePodAfterAppFinish = TRUE
CHECK_DEADLOCK FALSE
INVARIANT PlansAreLoopResults
INVARIANT PlanKeepsBudget
INVARIANT AdmittedNeverWedged
INVARIANT QuietMeansDone
PROPERTY LoopsDecide
