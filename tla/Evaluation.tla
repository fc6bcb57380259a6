----------------------------- MODULE Evaluation -----------------------------
(***************************************************************************)
(* Runs of the evaluation over one trial store: `gate` and `compare`       *)
(* commands of several processes (evaluation/__main__.py, runner.py,       *)
(* compare.py), the SQLite index and the evidence files beside it          *)
(* (store.py), and the weekly ledger.  A process may be killed anywhere;   *)
(* the next command over the store closes the trials it left running, and  *)
(* takes a live process's trials for such.                                 *)
(***************************************************************************)
EXTENDS Grading, Sequences

CONSTANTS
    Runner,               \* processes on the store
    Worlds,               \* initial jobs, tree, week's spending and reports of other stores
    Suite,                \* kind of command -> its cases, in order
    Repetitions,          \* of a comparison
    Observed,             \* what a completed trial records: [evidence, reported]
    Failures,             \* how else a trial ends: "error", "unsupported", "interrupted"
    Codes,                \* [commit, dirty] the working tree may come to be on
    Reserve, RunCap, WeekCap,
    MaxCrashes, MaxChanges                              \* bounds

\* The working tree's commit, and whether it is dirty.
IsCode(c) == c = [commit |-> c.commit, dirty |-> c.dirty] /\ c.dirty \in BOOLEAN

ASSUME EvaluationAssumption ==
    /\ Suite \in [{"gate", "compare"} -> Seq(Case)] /\ Repetitions \in Nat
    /\ \A o \in Observed : o.reported \in Int
    /\ Failures \subseteq {"error", "unsupported", "interrupted"}
    /\ Reserve \in Nat /\ \A c \in Codes : IsCode(c)
    /\ \A w \in Worlds :
          /\ IsCode(w.code) /\ \A job \in w.jobs : job.kind \in {"gate", "compare"}
          \* Reports of other stores are told apart by a run that is none of this one's.
          /\ \A r \in w.reports \cup w.comparisons : r.run \in Int /\ r.run <= 0 /\ IsCode(r.code)

VARIABLES
    index,       \* the trials table: trial id -> row
    files,       \* trials/<id>.json -> row
    runner,      \* what each process is doing
    ledger,      \* run -> what its trials count for
    reports,     \* gate-<run>.json
    comparisons, \* comparison-<run>.json
    code,        \* the working tree's commit, and whether it is dirty
    jobs,        \* commands still to be given (bound)
    spent,       \* counted by entries of the week before these runs
    runs,        \* run ids handed out
    killed,      \* history: runs whose process was killed
    changes      \* changes of the tree so far (bound)

evaluationVars == <<index, files, runner, ledger, reports, comparisons, code, jobs, spent, runs,
                    killed, changes>>

\* A table with one more row, or one written over.
With(table, key, row) == [k \in DOMAIN table \cup {key} |-> IF k = key THEN row ELSE table[k]]

NoCost == -1     \* a cost nothing reported
NoTrial == [run |-> 0]
NoEvidence == [digest |-> "none", events |-> FALSE]
CasesOf(kind) == {Suite[kind][i] : i \in DOMAIN Suite[kind]}
Idle == [stage |-> "idle"]
Rows(run) == {index[id] : id \in {i \in DOMAIN index : i.run = run}}
Counted(t) == IF t.reported # NoCost THEN t.reported ELSE t.reserve
Total(trials) == MapThenSumSet(Counted, trials)
CountedOf(run) == Total(Rows(run))
SpentThisWeek == spent + MapThenSumSet(LAMBDA run : ledger[run], DOMAIN ledger)
Clean(c) == c.commit # "unknown" /\ ~c.dirty

EvaluationInit(w) ==
    /\ index = << >> /\ files = << >> /\ ledger = << >> /\ runs = 0
    /\ runner = [p \in Runner |-> Idle]
    /\ reports = w.reports /\ comparisons = w.comparisons
    /\ code = w.code /\ jobs = w.jobs /\ spent = w.spent
    /\ killed = {} /\ changes = w.changes

---------------------------------------------------------------------------
(* Beginning a command *)

\* plan(): repetition by repetition, each case's two sides in either order.
Pairing == [i \in 1..(Repetitions * Len(Suite["compare"])) |->
    [repetition |-> 1 + (i - 1) \div Len(Suite["compare"]),
     case |-> Suite["compare"][1 + ((i - 1) % Len(Suite["compare"]))]]]
Side(candidateFirst, i) ==
    IF (i % 2 = 1) = candidateFirst[(i + 1) \div 2] THEN "candidate" ELSE "baseline"
Orders(job) ==
    IF job.kind = "gate"
    THEN {[i \in DOMAIN Suite["gate"] |->
              [case |-> Suite["gate"][i], repetition |-> 1, side |-> "suite"]]}
    ELSE {[i \in 1..(2 * Len(Pairing)) |->
              LET pair == Pairing[(i + 1) \div 2] IN
              [case |-> pair.case, repetition |-> pair.repetition, side |-> Side(first, i)]] :
          first \in [DOMAIN Pairing -> BOOLEAN]}

\* BudgetExceeded and DirtyCodeRefused: nothing has run, nothing is recorded.
Planned == Reserve * 2 * Len(Pairing)
Refused(job) ==
    job.kind = "compare" /\ \/ Planned > RunCap
                            \/ Planned > WeekCap - SpentThisWeek
                            \/ job.thresholds # "none" /\ ~Clean(code)

\* The command reads the ledger, the tree and the other runs' running trials.
Begin(p, job) ==
    /\ runner[p].stage = "idle" /\ job \in jobs /\ jobs' = jobs \ {job}
    /\ IF Refused(job) THEN UNCHANGED <<runner, runs>>
       ELSE /\ runs' = runs + 1
            /\ \E order \in Orders(job) :
                 runner' = [runner EXCEPT ![p] =
                     [stage |-> "abandon", job |-> job, run |-> runs + 1, order |-> order,
                      spent |-> 0, code |-> code, trial |-> NoTrial,
                      others |-> {id \in DOMAIN index : index[id].status = "running"}]]
    /\ UNCHANGED <<index, files, ledger, reports, comparisons, code, spent, killed, changes>>

---------------------------------------------------------------------------
(* The trial store *)

\* TrialStore.finish: UPDATE ... AND status='running'.
\* Defect: without that condition.
FinishesAny(id) == id \in DOMAIN index
Finishes(id) == index[id].status = "running"

\* An exception out of the command.  Past mark_abandoned, `finally` settles a comparison's
\* ledger entry.
\* Defect: only a comparison that ends its loop does.
LeaveUnsettled(p) == runner' = [runner EXCEPT ![p] = Idle] /\ UNCHANGED ledger
Settled(r) == With(ledger, r.run, CountedOf(r.run))
Leave(p) ==
    /\ runner' = [runner EXCEPT ![p] = Idle]
    /\ ledger' = IF runner[p].job.kind = "compare" /\ runner[p].stage # "abandon"
                 THEN Settled(runner[p]) ELSE ledger

\* The index is committed before the file is written.
Finish(p, id, row) ==
    IF Finishes(id)
    THEN /\ index' = [index EXCEPT ![id] = row]
         /\ runner' = [runner EXCEPT ![p].stage = "file", ![p].trial = id]
         /\ UNCHANGED ledger
    ELSE Leave(p) /\ UNCHANGED index

\* mark_abandoned takes every other run's running trial for a dead process's; one that was
\* finished since it was read ends this command.
Abandon(p) ==
    /\ runner[p].stage = "abandon"
    /\ \E id \in runner[p].others : Finish(p, id, [index[id] EXCEPT !.status = "interrupted"])
    /\ UNCHANGED <<files, reports, comparisons, code, jobs, spent, runs, killed, changes>>

\* A gate reads the tree's commit only now.
Ready(p) ==
    /\ runner[p].stage = "abandon" /\ runner[p].others = {}
    /\ runner' = [runner EXCEPT ![p].stage = "loop",
                      ![p].code = IF runner[p].job.kind = "gate" THEN code ELSE @]
    /\ UNCHANGED <<index, files, ledger, reports, comparisons, code, jobs, spent, runs, killed,
                   changes>>

---------------------------------------------------------------------------
(* Trials *)

StartTrial(p) ==
    LET r == runner[p]
        next == Head(r.order)
        id == [run |-> r.run, case |-> next.case, side |-> next.side, n |-> next.repetition]
        paid == r.job.kind = "compare" IN
    /\ r.stage = "loop" /\ r.order # << >> /\ (paid => r.spent + Reserve <= RunCap)
    /\ index' = With(index, id,
           [case |-> next.case, side |-> next.side, repetition |-> next.repetition,
            status |-> "running", evidence |-> NoEvidence, outcome |-> "none",
            execution |-> "none", reported |-> NoCost, reserve |-> IF paid THEN Reserve ELSE 0])
    /\ runner' = [runner EXCEPT ![p].stage = "trial", ![p].order = Tail(@), ![p].trial = id]
    /\ UNCHANGED <<files, ledger, reports, comparisons, code, jobs, spent, runs, killed, changes>>

\* The scenario returns or fails; the grades are those of what it recorded.
Graded(trial, o) ==
    [trial EXCEPT !.status = "completed", !.evidence = o.evidence, !.reported = o.reported,
                  !.outcome = GradeOutcome(o.evidence), !.execution = GradeExecution(o.evidence)]
FinishTrial(p) ==
    LET id == runner[p].trial IN
    /\ runner[p].stage = "trial"
    /\ \/ \E o \in Observed : Finish(p, id, Graded(index[id], o))
       \/ \E failure \in Failures : Finish(p, id, [index[id] EXCEPT !.status = failure])
    /\ UNCHANGED <<files, reports, comparisons, code, jobs, spent, runs, killed, changes>>

\* trials/<id>.json.  An interrupted scenario is recorded and its interruption raised again.
WriteFile(p) ==
    LET r == runner[p] IN
    /\ r.stage = "file"
    /\ files' = With(files, r.trial, index[r.trial])
    /\ IF r.trial.run # r.run
       THEN /\ runner' = [runner EXCEPT ![p].stage = "abandon", ![p].others = @ \ {r.trial}]
            /\ UNCHANGED ledger
       ELSE IF index[r.trial].status = "interrupted" THEN Leave(p)
       ELSE /\ runner' = [runner EXCEPT ![p].stage = "loop",
                                        ![p].spent = @ + Counted(index[r.trial])]
            /\ UNCHANGED ledger
    /\ UNCHANGED <<index, reports, comparisons, code, jobs, spent, runs, killed, changes>>

---------------------------------------------------------------------------
(* Reports *)

\* The held-out cases run in another store; only their counts reach the report.
ReportGate(p) ==
    LET r == runner[p] IN
    /\ r.stage = "loop" /\ r.order = << >> /\ r.job.kind = "gate"
    /\ \E holdout \in r.job.holdout :
         reports' = reports \cup {[run |-> r.run, verdict |-> GateDecide(CasesOf("gate"), Rows(r.run)),
                                   code |-> r.code, holdout |-> holdout]}
    /\ runner' = [runner EXCEPT ![p] = Idle]
    /\ UNCHANGED <<index, files, ledger, comparisons, code, jobs, spent, runs, killed, changes>>

\* All trials have run or the next does not fit the cap: the ledger entry comes first.
Settle(p) ==
    LET r == runner[p] IN
    /\ r.stage = "loop" /\ r.job.kind = "compare"
    /\ r.order = << >> \/ r.spent + Reserve > RunCap
    /\ ledger' = Settled(r)
    /\ runner' = [runner EXCEPT ![p].stage = "compare"]
    /\ UNCHANGED <<index, files, reports, comparisons, code, jobs, spent, runs, killed, changes>>

\* build_comparison: the verdicts the frozen thresholds allow over these trials.
Verdicts(trials, thresholds) ==
    LET base == Of(trials, "baseline") cand == Of(trials, "candidate") IN
    IF thresholds = "none" THEN {"observational"}
    ELSE {Judge(Thresholds[thresholds], CasesOf("compare"), base, cand, Repetitions, lower, use) :
          lower \in IF Paired(base, cand) = {} THEN {0} ELSE LowerBounds(base, cand),
          use \in Resources(base, cand)}
ReportComparison(p) ==
    LET r == runner[p] IN
    /\ r.stage = "compare"
    /\ \E verdict \in Verdicts(Rows(r.run), r.job.thresholds) :
         comparisons' = comparisons \cup
             {[run |-> r.run, baseline |-> r.job.baseline, candidate |-> r.job.candidate,
               verdict |-> verdict, thresholds |-> r.job.thresholds, code |-> r.code]}
    /\ runner' = [runner EXCEPT ![p] = Idle]
    /\ UNCHANGED <<index, files, ledger, reports, code, jobs, spent, runs, killed, changes>>

---------------------------------------------------------------------------
(* The environment *)

Kill(p) ==
    /\ runner[p].stage # "idle" /\ Cardinality(killed) < MaxCrashes
    /\ killed' = killed \cup {runner[p].run}
    /\ runner' = [runner EXCEPT ![p] = Idle]
    /\ UNCHANGED <<index, files, ledger, reports, comparisons, code, jobs, spent, runs, changes>>

ChangeCode ==
    /\ changes < MaxChanges /\ changes' = changes + 1
    /\ \E c \in Codes \ {code} : code' = c
    /\ UNCHANGED <<index, files, runner, ledger, reports, comparisons, jobs, spent, runs, killed>>

RunnerStep(p) ==
    \/ \E job \in jobs : Begin(p, job)
    \/ Abandon(p) \/ Ready(p) \/ StartTrial(p) \/ FinishTrial(p) \/ WriteFile(p)
    \/ ReportGate(p) \/ Settle(p) \/ ReportComparison(p) \/ Kill(p)
EvaluationNext == ChangeCode \/ \E p \in Runner : RunnerStep(p)

---------------------------------------------------------------------------
(* What verify_store looks for in a finished trial *)

Problem(id) ==
    \/ id \notin DOMAIN files
    \/ files[id] # index[id]
    \/ /\ files[id].status = "completed"
       /\ \/ GradeOutcome(files[id].evidence) # files[id].outcome
          \/ GradeExecution(files[id].evidence) # files[id].execution

RunTrials(run) == {id \in DOMAIN index : id.run = run}
Stand(run) == \A id \in RunTrials(run) : index[id].status # "running" /\ ~Problem(id)

\* A report stands for ever on what is retained: every trial of its run is finished, `verify`
\* finds its evidence in place and grading it again gives the same grades, and the verdict is
\* one they allow - whatever other processes on the store abandon meanwhile.
ReportsStand ==
    /\ \A g \in reports : g.run > 0 =>
         Stand(g.run) /\ g.verdict = GateDecide(CasesOf("gate"), Rows(g.run))
    /\ \A c \in comparisons : c.run > 0 =>
         Stand(c.run) /\ c.verdict \in Verdicts(Rows(c.run), c.thresholds)

\* A gate that passed has, for every regression case, trials that all completed with retained
\* evidence of the outcome and of the execution policy, and no critical case's evidence shows
\* a forbidden path ("unknown is never pass", gate.py).
GatePassIsEarned ==
    \A g \in reports : g.run > 0 /\ g.verdict = "pass" =>
        LET kept == {files[id] : id \in RunTrials(g.run)} IN
        /\ \A c \in CasesOf("gate") : Partition[c] = "regression" =>
             /\ \E t \in kept : t.case = c
             /\ \A t \in kept : t.case = c =>
                  t.status = "completed" /\ GradeOutcome(t.evidence) = "pass"
                                         /\ GradeExecution(t.evidence) = "pass"
        /\ \A t \in kept : t.status = "completed" /\ Severity[t.case] = "critical" =>
             GradeExecution(t.evidence) # "fail"

\* The weekly ledger holds, for every comparison that ran a trial and whose process was not
\* killed, what its trials count for - also when it was interrupted, or ended because another
\* process took its trial for a dead one's.
LedgerIsComplete ==
    \A id \in DOMAIN index :
        (id.side # "suite" /\ id.run \notin killed
           /\ \A p \in Runner : runner[p].stage # "idle" => runner[p].run # id.run)
        => id.run \in DOMAIN ledger /\ ledger[id.run] = CountedOf(id.run)
=============================================================================
