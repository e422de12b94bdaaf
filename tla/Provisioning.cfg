SPECIFICATION Spec
CONSTANTS
    Pairs <- TwoPairs
    Accounts = {1, 2, 3}
    WithQuotas <- OneQuota
    NConcurrent = 1
    MaxEmails = 2
    Waits = {TRUE, FALSE}
    Filters <- SomeFilters
    Untagged = Untagged
    NoAccount = NoAccount
    MaxInits = 2
    MaxTerminates = 1
    MaxFaults = 1
INVARIANTS
    OneAccountPerPair
    SuccessMeansReady
PROPERTIES
    OnlyConfirmedLeave
    InitEnds
\* The commands the bounds allow are over.
CHECK_DEADLOCK FALSE
