SPECIFICATION Spec
CONSTANTS
    coder = coder
    fallback = fallback
    auditor = auditor
    NoValue = NoValue
    Plan <- MCPlan
    Profile <- MCProfile
    Family <- MCFamily
    Envelope <- MCEnvelope
    Budget = {1}
    Sessions = {TRUE}
    Raised = {}
    Severities = {"blocking"}
    GivenIds = {}
    MaxPlans = 2
    MaxGrants = 1
    MaxDeviations = 0
    MaxAccepted = 1
CHECK_DEADLOCK FALSE
INVARIANTS OnlyKnownRefusals FinalAuditIndependentOfAllWriters AttemptsWithinBudget
PROPERTIES DriftIsNeverAbsorbed
