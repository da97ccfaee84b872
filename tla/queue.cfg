SPECIFICATION FairSpec
CONSTANTS
    Keys = {"a", "b"}
    Created <- TheCreated
    Name <- TheName
    Starts <- TheStarts
    NoKey = NoKey
    Invalid = Invalid
    PodNames = {"p"}
    Owner <- TheOwner
    PodLabels <- TheLabels
    NoPod = NoPod
    Workers = {1, 2}
    MaxEvents = 2
INVARIANT OneWorkerPerKey
INVARIANT NoLostWakeup
PROPERTY Promise
PROPERTY Attended
CHECK_DEADLOCK FALSE
