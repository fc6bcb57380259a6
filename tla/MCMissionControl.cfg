SPECIFICATION FairSpec
CONSTANTS
    w1 = w1
    agent = agent
    house = house
    print = print
    NoRow = NoRow
    Nothing = Nothing
    Failed = Failed
    WorkOrderId = {w1}
    ProfileId = {agent}
    Project = {house}
    Fingerprint = {print}
    Watched = w1
    Histories <- MCHistories
    BatchLimit = 1
    MaxVersion = 10
    MaxRequests = 1
    MaxFaults = 1
INVARIANTS QuietMeansCurrent OnlyApprovalIsRefused
PROPERTIES ActsAtomically OwnerDecidesOnWhatWasShown CatchesUp
CHECK_DEADLOCK FALSE
