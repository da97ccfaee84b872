SPECIFICATION FairSpec
CONSTANTS
    Procs = {"p", "q"}
    NoProc = NoProc
    Flags <- TheFlags
    LeaseDuration = 6
    RenewDeadline = 2
    RetryPeriod = 1
    AnswerDelay = 1
    ExitDelay = 1
    MaxEvents = 3
INVARIANT OneLeader
PROPERTY StartsUnlessStranded
PROPERTY WritesServed
CHECK_DEADLOCK FALSE
