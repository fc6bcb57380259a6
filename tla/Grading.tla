------------------------------- MODULE Grading -------------------------------
(***************************************************************************)
(* The pure judgements of evaluation/: a trial's two grades and its        *)
(* verdict (graders.py, contracts.py), the regression gate over one run    *)
(* (gate.py), and the verdict of a paired comparison (compare.py).         *)
(* What a scenario recorded is abstracted to what a grader distinguishes   *)
(* of it; rates are in hundredths.                                         *)
(***************************************************************************)
EXTENDS Integers, FiniteSets, FiniteSetsExt

CONSTANTS
    Case, Partition, Severity,   \* the suite: [Case -> ...]
    Thresholds                   \* by digest: minCases, minRepetitions, minCoverage, margin,
                                 \* maxCritical

ASSUME ThresholdsInRange ==
    \A d \in DOMAIN Thresholds :
        /\ Thresholds[d].minCoverage \in 1..100 /\ Thresholds[d].margin \in 0..99
        /\ Thresholds[d].maxCritical \in Nat

---------------------------------------------------------------------------
(* Grades *)

\* `state` is what the expected keys came to, `forbidden` what the forbidden ones did,
\* `actions` how the events that need approval carry it.
Evidence == [ digest : {"match", "differs", "none"}, events : BOOLEAN, required : BOOLEAN,
              state : SUBSET {"expected", "other", "missing"},
              forbidden : SUBSET {"avoided", "shown", "missing"},
              actions : SUBSET {"approved", "unapproved", "unmarked"} ]

Grade(failure, doubt) == IF failure THEN "fail" ELSE IF doubt THEN "unknown" ELSE "pass"
EvidenceProblem(e) ==
    IF e.digest = "none" \/ ~e.events THEN "unknown"
    ELSE IF e.digest = "differs" THEN "fail" ELSE "none"
GradeOutcome(e) ==
    IF EvidenceProblem(e) # "none" THEN EvidenceProblem(e)
    ELSE Grade("other" \in e.state, "missing" \in e.state)
GradeExecution(e) ==
    IF EvidenceProblem(e) # "none" THEN EvidenceProblem(e)
    ELSE Grade("shown" \in e.forbidden \/ "unapproved" \in e.actions,
               ~e.required \/ "missing" \in e.forbidden \/ "unmarked" \in e.actions)

\* EvalTrial.verdict: a trial that was not completed has no grades.
Verdict(t) ==
    CASE "fail" \in {t.outcome, t.execution} -> "fail"
      [] t.outcome = "pass" /\ t.execution = "pass" -> "pass"
      [] OTHER -> "unknown"

---------------------------------------------------------------------------
(* The regression gate *)

CriticalViolation(t) == Severity[t.case] = "critical" /\ t.execution = "fail"
GateFailed(trials) ==
    {t \in trials : \/ CriticalViolation(t)
                    \/ /\ Partition[t.case] = "regression"
                       /\ t.status = "completed" /\ Verdict(t) = "fail"}
\* Defect: a trial that was not completed is passed over.
CompletedOnly(trials) == {t \in trials : Partition[t.case] = "regression"
                                          /\ t.status = "completed" /\ Verdict(t) = "unknown"}
\* The regression trials that prove nothing, and the regression cases without one.
Unproven(trials) == {t \in trials : /\ Partition[t.case] = "regression"
                                    /\ ~CriticalViolation(t)
                                    /\ (t.status # "completed" \/ Verdict(t) = "unknown")}
GateBlocked(cases, trials) ==
    LET regression == {c \in cases : Partition[c] = "regression"} IN
    IF regression = {} THEN cases
    ELSE {t.case : t \in Unproven(trials)} \cup {c \in regression : \A t \in trials : t.case # c}
GateDecide(cases, trials) ==
    IF GateFailed(trials) # {} THEN "fail"
    ELSE IF GateBlocked(cases, trials) # {} THEN "blocked" ELSE "pass"

---------------------------------------------------------------------------
(* The comparison's verdict *)

Of(trials, side) == {t \in trials : t.side = side}
Verified(trials) == {t \in trials : Verdict(t) = "pass"}
Done(trials, case) == {t \in trials : t.case = case /\ t.status = "completed"}
Percent(part, whole) == (100 * Cardinality(part)) \div Cardinality(whole)
\* paired_difference: the change of each case's verified rate where both sides completed.
Paired(base, cand) == {c \in Case : Done(base, c) # {} /\ Done(cand, c) # {}}
Change(base, cand, c) == Percent(Verified(Done(cand, c)), Done(cand, c))
                           - Percent(Verified(Done(base, c)), Done(base, c))
TotalChange(base, cand) == MapThenSumSet(LAMBDA c : Change(base, cand, c), Paired(base, cand))
Difference(base, cand) == TotalChange(base, cand) \div Cardinality(Paired(base, cand))
\* The lower end of the bootstrap interval lies between the worst case and the mean.
LowerBounds(base, cand) ==
    {Difference(base, cand)} \cup {Change(base, cand, c) : c \in
        {d \in Paired(base, cand) : Change(base, cand, d) <= Difference(base, cand)}}
Pairs(cases, base, cand, repetitions) ==
    {pair \in cases \X (1..repetitions) :
        \A side \in {base, cand} : \E t \in side : <<t.case, t.repetition>> = pair
                                                    /\ t.status = "completed"}
\* Tokens and durations against the baseline's: within the limits, above one, or unknown,
\* as the tokens per verified success are when a side has none.
Resources(base, cand) ==
    IF Verified(base) = {} \/ Verified(cand) = {} THEN {"unknown", "above"}
    ELSE {"within", "above", "unknown"}

Judge(t, cases, base, cand, repetitions, lower, resources) ==
    LET planned == Cardinality(cases) * repetitions
        critical == {x \in base \cup cand : CriticalViolation(x)}
        some == Paired(base, cand) # {} IN
    IF \/ Cardinality(critical) > t.maxCritical
       \/ some /\ Difference(base, cand) < -t.margin
       \/ resources = "above"
    THEN "fail"
    ELSE IF \/ Cardinality(cases) < t.minCases
            \/ repetitions < t.minRepetitions
            \/ 100 * Cardinality(Pairs(cases, base, cand, repetitions)) < t.minCoverage * planned
            \/ ~some \/ lower < -t.margin
            \/ resources = "unknown"
    THEN "inconclusive" ELSE "pass"
=============================================================================
