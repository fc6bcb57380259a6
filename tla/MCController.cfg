CONSTANTS
    r1 = r1  r2 = r2
    Nothing = Nothing
    Run = {r1, r2}
    Alias <- MCAlias
    Request <- MCRequest
    Search <- MCSearch
    Detail <- MCDetail
    Labels = {"t1", "t3", "escalate"}
    Endings <- MCEndings
    DiscoveryLimit = 2
    CandidateLimit = 2
    Unmetered = {r1}
    EarlierEntries <- MCEarlier
SPECIFICATION Spec
INVARIANTS PassedIsProven EconomicsAreItsCalls EvidenceNamesTheCandidates
CHECK_DEADLOCK FALSE
