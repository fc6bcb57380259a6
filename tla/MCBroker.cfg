SPECIFICATION Spec
CONSTANTS
    a = a
    c1 = c1
    p = p
    q = q
    r1 = r1
    r2 = r2
    x = x
    y = y
    NoCommit = NoCommit
    NoContent = NoContent
    NoCandidate = NoCandidate
    Commit = {r1, r2, c1}
    Root = {r1, r2}
    Content = {x, y}
    Candidate = {a}
    Caller = {p, q}
    Operations = {"initialize", "create", "checkpoint", "promote", "reject", "cleanup"}
    ExecutorMoves = {"edit", "commit", "checkout"}
    MayFail = TRUE
SYMMETRY Symmetry
CHECK_DEADLOCK FALSE
INVARIANTS TypeOK DecidedOnce PromotedWasRecorded StaleIsFinal
PROPERTIES EvidenceIsKept AcceptedOnlyFastForwards ImplementsPromise
