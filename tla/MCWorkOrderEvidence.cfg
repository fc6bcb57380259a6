SPECIFICATION Spec
CONSTANTS
    coder = coder
    fallback = fallback
    auditor = auditor
    NoValue = NoValue
    Plan <- MCLargeOnly
    Profile <- MCProfile
    Family <- MCFamily
    Envelope <- MCTwo
    Budget = {1}
    Sessions = {FALSE}
    Raised = {"INDEPENDENCE_UNAVAILABLE"}
    Severities = {"blocking", "warning"}
    GivenIds = {2}
    MaxPlans = 1
    MaxGrants = 0
    MaxDeviations = 1
    MaxAccepted = 0
CHECK_DEADLOCK FALSE
INVARIANTS OnlyKnownRefusals
PROPERTIES ResumeNeedsResolution
