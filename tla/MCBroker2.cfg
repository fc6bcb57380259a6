SPECIFICATION Spec
CONSTANTS
    a1 = a1
    a2 = a2
    c1 = c1
    c2 = c2
    p = p
    q = q
    r1 = r1
    x = x
    y = y
    NoCommit = NoCommit
    NoContent = NoContent
    NoCandidate = NoCandidate
    Commit = {r1, c1, c2}
    Root = {r1}
    Content = {x, y}
    Candidate = {a1, a2}
    Caller = {p, q}
    Operations = {"initialize", "create", "checkpoint", "promote"}
    ExecutorMoves = {"edit"}
    MayFail = FALSE
SYMMETRY Symmetry
CHECK_DEADLOCK FALSE
INVARIANTS PromotedStaysInHistory
