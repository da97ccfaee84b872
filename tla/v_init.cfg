SPECIFICATION Spec
CONSTANTS
    Specs <- TheSpecs
    LabelKeys = {"app", "tier"}
    LabelValues = {"a", "b", "x"}
    Images = {"i1", "i2", "n1", "n2"}
    Volumes = {"data", "log"}
    Selector <- TheSelector
    Ports = {"p0", "p1", "p2"}
    None = None
    NoPod = NoPod
    MaxEvents = 2
    MaxLag = 2
CHECK_DEADLOCK FALSE
INVARIANT HashTellsInit
