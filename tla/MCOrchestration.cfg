CONSTANTS
    d1 = d1  d2 = d2
    w1 = w1
    agent = agent  auditor = auditor  house = house  p1 = p1  p2 = p2
    NoRow = NoRow
    Driver = {d1, d2}
    WorkOrderId = {w1}
    ProfileId = {agent, auditor}
    Project = {house}
    Fingerprint = {p1, p2}
    Histories <- MCHistories
    KnownProfiles <- Known
    KnownEnvelopes <- KnownHouse
    Offered <- MCOffered
    Proposed <- MCProposed
    NotIndependent <- Auditors
    Endings = {"completed", "failed", "incomplete"}
    MaxAttempts = 2
    MaxVersion <- Last
    MaxTasks = 2
    MaxHead = 1
SPECIFICATION Spec
INVARIANTS LogIsTheHistory ProfilesAreTraceable DispatchedAsApproved SafeMeansStopped PromotedIsAccepted
SYMMETRY Symmetry
CHECK_DEADLOCK FALSE
