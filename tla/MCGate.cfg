SPECIFICATION GateSpec
CONSTANTS
    a = a
    c1 = c1
    c2 = c2
    p = p
    q = q
    r1 = r1
    x = x
    y = y
    NoCommit = NoCommit
    NoContent = NoContent
    NoCandidate = NoCandidate
    Commit = {r1, c1, c2}
    Root = {r1}
    Content = {x, y}
    Candidate = {a}
    Caller = {p, q}
    Operations = {"reject"}
    ExecutorMoves = {"edit"}
    MayFail = FALSE
SYMMETRY Symmetry
CHECK_DEADLOCK FALSE
INVARIANTS PromotedResultIsTrue
PROPERTIES OnlyAuditedStateIsAccepted RefusedOnlyForACause
