SPECIFICATION Spec
CONSTANTS
    t1 = t1
    t2 = t2
    Trials <- TwoTrials
    Name <- OwnNames
    Phases = {"deploy", "reset"}
    NConcurrent = 1
    MaxRetries = 1
    MaxRedeploys = 1
    Faults = {"run", "rm", "stop", "write", "rmtree"}
INVARIANTS
    OverlapOnlyAfterTimeout
    RecordIsLastAttempts
    QuietWhenDone
PROPERTIES
    JobEventuallyEnds
\* The job is over: nothing is left to do.
CHECK_DEADLOCK FALSE
