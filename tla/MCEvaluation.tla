---------------------------- MODULE MCEvaluation ----------------------------
EXTENDS Release, TLC

CONSTANTS p, q, c1, c2, A, B, C, k1, k2

CaseDef == {c1, c2}
PartitionDef == (c1 :> "regression") @@ (c2 :> "capability")
SeverityDef == (c1 :> "critical") @@ (c2 :> "major")
ThresholdsDef == [v1 |-> [minCases |-> 1, minRepetitions |-> 1, minCoverage |-> 80, margin |-> 10,
                          maxCritical |-> 0]]
SuiteDef == [gate |-> <<c1, c2>>, compare |-> <<c1>>]

\* Evidence that proves the case, a wrong outcome, a forbidden path and no evidence.
Good == [digest |-> "match", events |-> TRUE, required |-> TRUE, state |-> {"expected"},
         forbidden |-> {"avoided"}, actions |-> {"approved"}]
ObservedDef ==
    {[evidence |-> Good, reported |-> 2], [evidence |-> Good, reported |-> NoCost],
     [evidence |-> [Good EXCEPT !.state = {"other", "expected"}], reported |-> 0],
     [evidence |-> [Good EXCEPT !.forbidden = {"shown"}], reported |-> 0],
     [evidence |-> [Good EXCEPT !.digest = "none"], reported |-> NoCost]}

Tree(commit, dirty) == [commit |-> commit, dirty |-> dirty]
CodesDef == {Tree(k1, FALSE), Tree(k2, FALSE), Tree(k1, TRUE)}
Gate(holdouts) == [kind |-> "gate", holdout |-> holdouts]
Compare(base, cand, t) == [kind |-> "compare", baseline |-> base, candidate |-> cand,
                           thresholds |-> t]
Compared(n, base, cand, verdict, t, c) ==
    [run |-> -n, baseline |-> base, candidate |-> cand, verdict |-> verdict, thresholds |-> t,
     code |-> c]
GateReport(n, verdict, c, holdout) ==
    [run |-> -n, verdict |-> verdict, code |-> c, holdout |-> holdout]

Shared == [jobs |-> {Gate({"none"}), Compare(A, B, "v1")}, code |-> Tree(k1, FALSE), spent |-> 0,
           reports |-> {}, comparisons |-> {}, changes |-> MaxChanges, releases |-> MaxReleases]
\* One comparison after another and a gate: the ledger refuses, dirty code refuses, and
\* without thresholds nothing is judged.
Refusing == {[Shared EXCEPT !.jobs = {Compare(A, B, t)}, !.code = c, !.spent = week, !.changes = 0] :
                t \in {"v1", "none"}, c \in {Tree(k1, FALSE), Tree(k1, TRUE)}, week \in {0, 3}}
\* A candidate compared elsewhere, whose gate is still to run.
Gated == [Shared EXCEPT !.jobs = {Gate({"none", "clean", "critical", "unknown"})}, !.changes = 0,
             !.releases = 0, !.comparisons = {Compared(1, A, B, "pass", "v1", Tree(k1, FALSE))}]
\* Several candidates compared elsewhere, on code whose gate passed.
Rivals == [Shared EXCEPT !.jobs = {}, !.releases = 0, !.comparisons =
    {Compared(1, A, B, "pass", "v1", Tree(k1, FALSE)), Compared(2, A, C, "pass", "v1", Tree(k1, FALSE)),
     Compared(3, B, C, "pass", "v1", Tree(k1, FALSE)), Compared(4, A, C, "pass", "v1", Tree(k2, FALSE)),
     Compared(5, A, B, "fail", "v1", Tree(k1, FALSE)),
     Compared(6, A, C, "observational", "none", Tree(k1, TRUE))},
    !.reports = {GateReport(1, "pass", Tree(k1, FALSE), "clean"),
                 GateReport(2, "pass", Tree(k1, TRUE), "none"),
                 GateReport(3, "blocked", Tree(k2, FALSE), "critical")}]
WorldsDef == {Shared, Gated, Rivals} \cup Refusing
=============================================================================
