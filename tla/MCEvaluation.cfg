CONSTANTS
    p = p  q = q  c1 = c1  c2 = c2
    A = A  B = B  C = C  k1 = k1  k2 = k2
    Case <- CaseDef
    Partition <- PartitionDef
    Severity <- SeverityDef
    Thresholds <- ThresholdsDef
    Runner = {p, q}
    Worlds <- WorldsDef
    Suite <- SuiteDef
    Repetitions = 1
    Observed <- ObservedDef
    Failures = {"error", "unsupported", "interrupted"}
    Codes <- CodesDef
    Reserve = 1  RunCap = 2  WeekCap = 4
    MaxCrashes = 1  MaxChanges = 1
    Releaser = {p, q}
    Digests = {"v1", "v2"}
    Initial = A
    MaxReleases = 3  MaxReverts = 1
SPECIFICATION Spec
INVARIANTS ReportsStand GatePassIsEarned LedgerIsComplete CurrentIsEarned
CHECK_DEADLOCK FALSE
