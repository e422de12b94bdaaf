SPECIFICATION Spec
CONSTANTS
    t1 = t1
    t2 = t2
    Trials <- TwoTrials
    Name <- OneName
    Phases = {"reset"}
    NConcurrent = 2
    MaxRetries = 0
    MaxRedeploys = 1
    Faults = {}
PROPERTIES
    ContainerStaysUnderScript
CHECK_DEADLOCK FALSE
