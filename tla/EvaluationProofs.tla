--------------------------- MODULE EvaluationProofs ---------------------------
(***************************************************************************)
(* Proofs about the evaluation and its releases: for any suite, any number *)
(* of processes on one store, any of them killed anywhere, and any         *)
(* releases that race, die or are reverted,                                *)
(*                                                                         *)
(*   - every report stands for ever on what is retained;                   *)
(*   - a gate that passed was earned, case by case;                        *)
(*   - the ledger holds all that was spent;                                *)
(*   - every baseline in force was earned.                                 *)
(*                                                                         *)
(* The argument: a run has one process, and once that process has finished *)
(* a trial and written its file, nobody touches either again.              *)
(***************************************************************************)
EXTENDS Release, TLAPS

USE EvaluationAssumption

Jobs == UNION {w.jobs : w \in Worlds}
Trees == Codes \cup {w.code : w \in Worlds}
Sides == {"suite", "baseline", "candidate"}
Entry == [case : Case, repetition : Int, side : Sides]
Trial == [run : Nat, case : Case, side : Sides, n : Int]
Grades == {"none", "pass", "fail", "unknown"}
Row == [case : Case, side : Sides, repetition : Int,
        status : {"running", "completed", "error", "unsupported", "interrupted"},
        evidence : {NoEvidence} \cup {o.evidence : o \in Observed},
        outcome : Grades, execution : Grades, reported : Int, reserve : Nat]
Working == [stage : {"abandon", "loop", "trial", "file", "compare"}, job : Jobs, run : Nat,
            order : Seq(Entry), spent : Int, code : Trees, trial : Trial \cup {NoTrial},
            others : SUBSET Trial]

Active(p) == runner[p].stage # "idle"

Types ==
    /\ index \in [DOMAIN index -> Row] /\ DOMAIN index \subseteq Trial
    /\ runner \in [Runner -> {Idle} \cup Working]
    /\ runs \in Nat /\ jobs \subseteq Jobs /\ code \in Trees

\* Run ids are handed out once.
RunIds ==
    /\ \A p \in Runner : Active(p) => runner[p].run \in 1..runs
    /\ \A p, q \in Runner : Active(p) /\ Active(q) /\ runner[p].run = runner[q].run => p = q
    /\ \A id \in DOMAIN index : id.run \in 1..runs
    /\ \A g \in reports \cup comparisons :
          /\ g.run \in Int /\ g.run <= runs /\ IsCode(g.code)
          /\ \A p \in Runner : Active(p) => runner[p].run # g.run

\* What is recorded of a trial is graded by what it shows.
RowsGraded ==
    \A id \in DOMAIN index : index[id].status = "completed" =>
       /\ index[id].outcome = GradeOutcome(index[id].evidence)
       /\ index[id].execution = GradeExecution(index[id].evidence)

\* All of a run's trials but one are finished and filed.
StandBut(run, id) == \A j \in RunTrials(run) \ {id} : index[j].status # "running" /\ ~Problem(j)

\* A command that still ends what it takes for dead processes' trials.
Fresh(p) ==
    runner[p].stage = "abandon" \/ (runner[p].stage = "file" /\ runner[p].trial.run # runner[p].run)
\* How far the command's own run is, by what it is doing.
Far(p) ==
    /\ Fresh(p) => /\ RunTrials(runner[p].run) = {} /\ runner[p].others \subseteq DOMAIN index
                   /\ \A id \in runner[p].others : id.run # runner[p].run
    /\ runner[p].stage \in {"loop", "compare"} => Stand(runner[p].run)
    /\ runner[p].stage \in {"trial", "file"} => runner[p].trial \in DOMAIN index
    /\ runner[p].stage = "trial" => runner[p].trial.run = runner[p].run
    /\ runner[p].stage \in {"trial", "file"} /\ ~Fresh(p) => StandBut(runner[p].run, runner[p].trial)
    /\ runner[p].stage = "file" /\ ~Fresh(p) => index[runner[p].trial].status # "running"
Progress == \A p \in Runner : Active(p) => Far(p)

\* A running trial has its process, or that one was killed.
RunningIsOwned ==
    \A id \in DOMAIN index : index[id].status = "running" =>
       id.run \in killed \/ \E p \in Runner : runner[p].stage = "trial" /\ runner[p].trial = id

\* A gate's trials spend nothing.
GateIsFree ==
    \A p \in Runner : Active(p) /\ runner[p].job.kind = "gate" =>
       /\ runner[p].stage # "compare"
       /\ \A i \in DOMAIN runner[p].order : runner[p].order[i].side = "suite"
       /\ \A id \in RunTrials(runner[p].run) : id.side = "suite"
ComparisonIsSettled ==
    \A p \in Runner : runner[p].stage = "compare" =>
       runner[p].run \in DOMAIN ledger /\ ledger[runner[p].run] = CountedOf(runner[p].run)

StoreInv ==
    /\ Types /\ RunIds /\ RowsGraded /\ Progress /\ RunningIsOwned
    /\ GateIsFree /\ ComparisonIsSettled /\ ReportsStand /\ LedgerIsComplete

-----------------------------------------------------------------------------
(*                       What the model's operators do                     *)

LEMMA WithRow ==
    ASSUME NEW table, NEW key, NEW row
    PROVE  /\ DOMAIN With(table, key, row) = DOMAIN table \cup {key}
           /\ With(table, key, row)[key] = row
           /\ \A k \in DOMAIN table : k # key => With(table, key, row)[k] = table[k]
           /\ With(table, key, row) = [k \in DOMAIN With(table, key, row) |-> With(table, key, row)[k]]
BY DEF With

LEMMA GradesAreGrades ==
    ASSUME NEW e
    PROVE  GradeOutcome(e) \in Grades /\ GradeExecution(e) \in Grades
BY DEF GradeOutcome, GradeExecution, EvidenceProblem, Grade, Grades

LEMMA GradedRow ==
    ASSUME NEW t \in Row, NEW o \in Observed
    PROVE  /\ Graded(t, o) \in Row /\ Graded(t, o).status = "completed"
           /\ Graded(t, o).outcome = GradeOutcome(Graded(t, o).evidence)
           /\ Graded(t, o).execution = GradeExecution(Graded(t, o).evidence)
BY GradesAreGrades DEF Graded, Row

LEMMA EndedRow ==
    ASSUME NEW t \in Row, NEW s \in {"error", "unsupported", "interrupted"}
    PROVE  [t EXCEPT !.status = s] \in Row /\ [t EXCEPT !.status = s].status = s
BY DEF Row

\* Every order of a command is a sequence of the suite's cases; a gate's has one side.
LEMMA OrdersOfSuite ==
    ASSUME NEW job \in Jobs, NEW order \in Orders(job)
    PROVE  /\ order \in Seq(Entry)
           /\ job.kind = "gate" => \A i \in DOMAIN order : order[i].side = "suite"
<1>1. Suite["gate"] \in Seq(Case) /\ Suite["compare"] \in Seq(Case)
    OBVIOUS
<1>2. CASE job.kind = "gate"
  <2>1. order = [i \in DOMAIN Suite["gate"] |->
                    [case |-> Suite["gate"][i], repetition |-> 1, side |-> "suite"]]
      BY <1>2 DEF Orders
  <2>2. DOMAIN Suite["gate"] = 1..Len(Suite["gate"]) /\ Len(Suite["gate"]) \in Nat
      BY <1>1
  <2>3. \A i \in DOMAIN Suite["gate"] : Suite["gate"][i] \in Case
      BY <1>1
  <2> QED BY <2>1, <2>2, <2>3 DEF Entry, Sides
<1>3. CASE job.kind # "gate"
  <2> DEFINE L == Len(Suite["compare"])
             N == Repetitions * L
  <2>1. L \in Nat /\ N \in Nat /\ \A j \in 1..L : Suite["compare"][j] \in Case
      BY <1>1
  <2>2. DOMAIN Pairing = 1..N /\ Len(Pairing) = N
        /\ \A i \in 1..N : Pairing[i].case \in Case /\ Pairing[i].repetition \in Int
    <3>1. Pairing = [i \in 1..N |-> [repetition |-> 1 + (i - 1) \div L,
                                     case |-> Suite["compare"][1 + ((i - 1) % L)]]]
        BY DEF Pairing
    <3>2. ASSUME NEW i \in 1..N
          PROVE  1 + ((i - 1) % L) \in 1..L /\ 1 + (i - 1) \div L \in Int
      <4>1. L > 0
          BY <2>1, <3>2
      <4> HIDE DEF L, N
      <4> QED BY <2>1, <4>1, <3>2
    <3> HIDE DEF L, N
    <3> QED BY <2>1, <3>1, <3>2
  <2>3. PICK first \in [DOMAIN Pairing -> BOOLEAN] :
           order = [i \in 1..(2 * Len(Pairing)) |->
                       LET pair == Pairing[(i + 1) \div 2] IN
                       [case |-> pair.case, repetition |-> pair.repetition, side |-> Side(first, i)]]
      BY <1>3 DEF Orders
  <2>4. \A i \in 1..(2 * N) : order[i] \in Entry
    <3> HIDE DEF N
    <3> TAKE i \in 1..(2 * N)
    <3>1. (i + 1) \div 2 \in 1..N
        BY <2>1
    <3> QED BY <2>2, <2>3, <3>1 DEF Entry, Sides, Side
  <2>5. DOMAIN order = 1..(2 * N) /\ 2 * N \in Nat
    <3> HIDE DEF N
    <3> QED BY <2>1, <2>2, <2>3
  <2> DEFINE M == 2 * N
  <2>6. order \in [1..M -> Entry]
    <3> HIDE DEF N
    <3> QED BY <2>1, <2>2, <2>3, <2>4
  <2>7. M \in Nat
      BY <2>5
  <2> HIDE DEF M, N
  <2> QED BY <1>3, <2>6, <2>7
<1> QED BY <1>2, <1>3

\* A trial that is written does not concern any other run.
LEMMA OtherRuns ==
    ASSUME NEW id, NEW run, id.run # run, DOMAIN index' = DOMAIN index \cup {id},
           \A j \in DOMAIN index : j # id => index'[j] = index[j]
    PROVE  /\ RunTrials(run)' = RunTrials(run) /\ Rows(run)' = Rows(run)
           /\ CountedOf(run)' = CountedOf(run)
<1>1. RunTrials(run)' = RunTrials(run) /\ \A j \in RunTrials(run) : index'[j] = index[j]
    BY DEF RunTrials
<1>2. Rows(run)' = Rows(run)
    BY <1>1 DEF RunTrials, Rows
<1> QED BY <1>1, <1>2 DEF CountedOf

-----------------------------------------------------------------------------
(*                        One step of one process                          *)

LEMMA InitStore == Init => StoreInv
<1> SUFFICES ASSUME Init PROVE StoreInv
    OBVIOUS
<1> PICK w \in Worlds : EvaluationInit(w)
    BY DEF Init
<1> USE DEF EvaluationInit
<1>1. DOMAIN index = {}
    OBVIOUS
<1>2. \A p \in Runner : runner[p] = Idle /\ runner[p].stage = "idle"
    BY DEF Idle
<1>3. Types
  <2>1. index \in [DOMAIN index -> Row]
      BY <1>1
  <2>2. w.jobs \subseteq Jobs /\ w.code \in Trees
      BY DEF Jobs, Trees
  <2> QED BY <1>1, <2>1, <2>2 DEF Types
<1>4. RunIds
    BY <1>1, <1>2 DEF RunIds, Active
<1>5. RowsGraded /\ RunningIsOwned /\ LedgerIsComplete
    BY <1>1 DEF RowsGraded, RunningIsOwned, LedgerIsComplete
<1>6. Progress /\ GateIsFree /\ ComparisonIsSettled
    BY <1>2 DEF Progress, GateIsFree, ComparisonIsSettled, Active
<1>7. ReportsStand
    BY DEF ReportsStand
<1> QED BY <1>3, <1>4, <1>5, <1>6, <1>7 DEF StoreInv

\* A file that is written says what the index says.
LEMMA FileWritten ==
    ASSUME RowsGraded, index' = index,
           \/ files' = files
           \/ \E t \in DOMAIN index : files' = With(files, t, index[t])
    PROVE  \A id \in DOMAIN index : ~Problem(id) => ~Problem(id)'
<1>1. CASE files' = files
    BY <1>1 DEF Problem
<1>2. CASE \E t \in DOMAIN index : files' = With(files, t, index[t])
  <2> PICK t \in DOMAIN index : files' = With(files, t, index[t])
      BY <1>2
  <2> QED BY DEF With, Problem, RowsGraded
<1> QED BY <1>1, <1>2

\* What concerns the trials of a run alone, while the index stays as it is.
LEMMA SameIndex ==
    ASSUME index' = index, NEW run
    PROVE  /\ RunTrials(run)' = RunTrials(run) /\ Rows(run)' = Rows(run)
           /\ CountedOf(run)' = CountedOf(run)
<1>1. Rows(run)' = Rows(run)
    BY DEF Rows
<1> QED BY <1>1 DEF RunTrials, CountedOf

LEMMA ReportsKept ==
    ASSUME ReportsStand, RowsGraded, index' = index, reports' = reports, comparisons' = comparisons,
           \/ files' = files
           \/ \E t \in DOMAIN index : files' = With(files, t, index[t])
    PROVE  ReportsStand'
<1>1. \A run : Rows(run)' = Rows(run) /\ RunTrials(run)' = RunTrials(run)
    BY SameIndex
<1>2. \A run : RunTrials(run) \subseteq DOMAIN index
    BY DEF RunTrials
<1>3. \A run : Stand(run) => Stand(run)'
    BY <1>1, <1>2, FileWritten DEF Stand
<1> QED BY <1>1, <1>3 DEF ReportsStand

\* A process that leaves its command has settled what it spent.
LEMMA LeaveStep ==
    ASSUME StoreInv, NEW p \in Runner, Leave(p),
           runner[p].stage \in {"abandon", "trial", "file"},
           runner[p].stage = "trial" => index[runner[p].trial].status # "running",
           runner[p].stage = "file" => runner[p].trial.run = runner[p].run,
           \/ files' = files
           \/ \E t \in DOMAIN index : files' = With(files, t, index[t]),
           UNCHANGED <<index, reports, comparisons, code, jobs, runs, killed>>
    PROVE  StoreInv'
<1> USE DEF StoreInv, Leave
<1>1. /\ runner'[p] = Idle /\ ~Active(p)' /\ runner'[p].stage = "idle"
      /\ \A q \in Runner : q # p => runner'[q] = runner[q]
      /\ Active(p)
    BY DEF Types, Active, Idle
<1>2. \A run : /\ Rows(run)' = Rows(run) /\ RunTrials(run)' = RunTrials(run)
               /\ CountedOf(run)' = CountedOf(run) /\ RunTrials(run) \subseteq DOMAIN index
    BY SameIndex DEF RunTrials
<1>3. \A id \in DOMAIN index : ~Problem(id) => ~Problem(id)'
    BY FileWritten
<1>4. Types'
    BY DEF Types
<1>5. RunIds'
    BY <1>1 DEF RunIds, Active
<1>6. RowsGraded'
    BY DEF RowsGraded
<1>7. Progress'
  <2> SUFFICES ASSUME NEW q \in Runner, q # p, Active(q) PROVE Far(q)'
      BY <1>1 DEF Progress, Active
  <2>1. runner'[q] = runner[q] /\ Far(q)
      BY <1>1 DEF Progress
  <2> QED BY <1>2, <1>3, <2>1 DEF Far, Fresh, Stand, StandBut
<1>8. RunningIsOwned'
    BY <1>1 DEF RunningIsOwned
<1>9. GateIsFree'
    BY <1>1, <1>2 DEF GateIsFree, Active
<1>10. \A run : run # runner[p].run => (run \in DOMAIN ledger =>
                   run \in DOMAIN ledger' /\ ledger'[run] = ledger[run])
    BY DEF With, Settled
<1>11. ComparisonIsSettled'
  <2> SUFFICES ASSUME NEW q \in Runner, q # p, runner[q].stage = "compare"
               PROVE  /\ runner[q].run \in DOMAIN ledger'
                      /\ ledger'[runner[q].run] = CountedOf(runner[q].run)
      BY <1>1, <1>2 DEF ComparisonIsSettled
  <2>1. runner[q].run # runner[p].run
      BY <1>1 DEF RunIds, Active
  <2> QED BY <1>10, <2>1 DEF ComparisonIsSettled
<1>12. ReportsStand'
    BY ReportsKept
<1>13. LedgerIsComplete'
  <2> SUFFICES ASSUME NEW id \in DOMAIN index, id.side # "suite", id.run \notin killed,
                      \A q \in Runner : runner'[q].stage # "idle" => runner'[q].run # id.run
               PROVE  id.run \in DOMAIN ledger' /\ ledger'[id.run] = CountedOf(id.run)
      BY <1>2 DEF LedgerIsComplete
  <2>1. CASE id.run = runner[p].run
    <3>1. id \in RunTrials(runner[p].run)
        BY <2>1 DEF RunTrials
    <3>2. runner[p].stage # "abandon"
        BY <1>1, <3>1 DEF Progress, Far, Fresh
    <3>3. runner[p].job.kind = "compare"
      <4>1. runner[p].job \in Jobs
          BY <1>1 DEF Types, Working, Active, Idle
      <4>2. runner[p].job.kind \in {"gate", "compare"}
          BY <4>1 DEF Jobs
      <4> QED BY <1>1, <3>1, <4>2 DEF GateIsFree
    <3>4. ledger' = Settled(runner[p])
        BY <3>2, <3>3
    <3> QED BY <2>1, <3>4 DEF With, Settled
  <2>2. CASE id.run # runner[p].run
    <3>1. \A q \in Runner : runner[q].stage # "idle" => runner[q].run # id.run
        BY <1>1, <2>2
    <3> QED BY <1>10, <2>2, <3>1 DEF LedgerIsComplete
  <2> QED BY <2>1, <2>2
<1> QED BY <1>4, <1>5, <1>6, <1>7, <1>8, <1>9, <1>11, <1>12, <1>13

\* The fields of a process that is in a command.
LEMMA Fields ==
    ASSUME Types, NEW p \in Runner, Active(p)
    PROVE  runner[p] \in Working
BY DEF Types, Active, Idle

\* A trial is finished once, by its own process or by one that takes that for dead.
LEMMA FinishStep ==
    ASSUME StoreInv, NEW p \in Runner, NEW id \in DOMAIN index, NEW row \in Row,
           row.status # "running",
           row.status = "completed" => /\ row.outcome = GradeOutcome(row.evidence)
                                       /\ row.execution = GradeExecution(row.evidence),
           Finish(p, id, row),
           \/ runner[p].stage = "trial" /\ runner[p].trial = id
           \/ runner[p].stage = "abandon" /\ id \in runner[p].others,
           UNCHANGED <<files, reports, comparisons, code, jobs, runs, killed>>
    PROVE  StoreInv'
<1> USE DEF Finish, Finishes
<1>1. CASE index[id].status # "running"
    BY <1>1, LeaveStep
<1>2. CASE index[id].status = "running"
  <2> USE DEF StoreInv
  <2>1. Active(p) /\ runner[p] \in Working
      BY Fields DEF Active
  <2>2. /\ index' = [index EXCEPT ![id] = row]
        /\ runner' = [runner EXCEPT ![p].stage = "file", ![p].trial = id]
        /\ UNCHANGED ledger
      BY <1>2
  <2>3. /\ DOMAIN index' = DOMAIN index /\ index'[id] = row
        /\ \A j \in DOMAIN index : j # id => index'[j] = index[j]
      BY <2>2 DEF Types
  <2>4. /\ runner'[p] \in Working /\ runner'[p].stage = "file" /\ runner'[p].trial = id
        /\ runner'[p].run = runner[p].run /\ runner'[p].job = runner[p].job
        /\ runner'[p].order = runner[p].order /\ runner'[p].others = runner[p].others
        /\ \A q \in Runner : q # p => runner'[q] = runner[q]
        /\ \A q \in Runner : runner'[q].run = runner[q].run /\ (Active(q)' <=> Active(q))
        /\ \A q \in Runner : runner'[q].stage = "idle" <=> runner[q].stage = "idle"
      BY <2>1, <2>2 DEF Types, Working, Active
  <2>5. ASSUME NEW run, run # id.run
        PROVE  /\ RunTrials(run)' = RunTrials(run) /\ Rows(run)' = Rows(run)
               /\ CountedOf(run)' = CountedOf(run)
    <3>1. DOMAIN index' = DOMAIN index \cup {id}
        BY <2>3
    <3> QED BY <2>3, <2>5, <3>1, OtherRuns
  <2>6. \A run : RunTrials(run)' = RunTrials(run) /\ RunTrials(run) \subseteq DOMAIN index
      BY <2>3 DEF RunTrials
  <2>7. \A j \in DOMAIN index : j # id => (Problem(j)' <=> Problem(j))
      BY <2>3 DEF Problem
  <2>8. \A run : Stand(run) => id.run # run
      BY <1>2 DEF Stand, RunTrials
  <2>9. \A run : Stand(run) => Stand(run)' /\ Rows(run)' = Rows(run)
      BY <2>3, <2>5, <2>6, <2>7, <2>8 DEF Stand, RunTrials
  <2>10. Types'
    <3>1. index' \in [DOMAIN index' -> Row]
        BY <2>2, <2>3 DEF Types
    <3> QED BY <2>2, <2>3, <2>4, <3>1 DEF Types
  <2>11. RunIds'
      BY <2>3, <2>4 DEF RunIds
  <2>12. RowsGraded'
      BY <2>3 DEF RowsGraded
  <2>13. Progress'
    <3>1. ASSUME NEW q \in Runner, q # p, Active(q) PROVE Far(q)'
      <4>1. Far(q) /\ runner'[q] = runner[q]
          BY <2>4, <3>1 DEF Progress
      <4>2. runner[q].stage \in {"trial", "file"} /\ ~Fresh(q) =>
               (id \in RunTrials(runner[q].run) => runner[q].trial = id)
          BY <1>2, <4>1 DEF Far, StandBut
      <4>3. runner[q].stage \in {"trial", "file"} /\ ~Fresh(q) => StandBut(runner[q].run, runner[q].trial)'
          BY <2>3, <2>6, <2>7, <4>1, <4>2 DEF Far, StandBut
      <4>4. runner[q].stage = "file" /\ ~Fresh(q) => index'[runner[q].trial].status # "running"
          BY <2>3, <4>1 DEF Far
      <4> QED BY <2>3, <2>6, <2>9, <4>1, <4>3, <4>4 DEF Far, Fresh
    <3>2. Far(p)'
      <4>1. Far(p)
          BY <2>1 DEF Progress
      <4>2. CASE runner[p].stage = "trial" /\ runner[p].trial = id
        <5>1. ~Fresh(p) /\ ~Fresh(p)' /\ id.run = runner[p].run
            BY <2>4, <4>1, <4>2 DEF Fresh, Far
        <5>2. StandBut(runner[p].run, id)'
            BY <2>3, <2>4, <2>6, <2>7, <4>1, <4>2, <5>1 DEF Far, StandBut
        <5> QED BY <2>3, <2>4, <5>1, <5>2 DEF Far
      <4>3. CASE runner[p].stage = "abandon" /\ id \in runner[p].others
        <5>1. Fresh(p) /\ Fresh(p)' /\ id.run # runner[p].run
            BY <2>4, <4>1, <4>3 DEF Fresh, Far
        <5> QED BY <2>3, <2>4, <2>6, <4>1, <5>1 DEF Far
      <4> QED BY <4>2, <4>3
    <3> QED BY <2>4, <3>1, <3>2 DEF Progress
  <2>14. RunningIsOwned'
      BY <2>3, <2>4 DEF RunningIsOwned
  <2>15. GateIsFree'
    <3>1. \A q \in Runner : runner'[q].job = runner[q].job /\ runner'[q].order = runner[q].order
        BY <2>4
    <3>2. runner'[p].stage # "compare" /\ DOMAIN index' = DOMAIN index
        BY <2>3, <2>4
    <3> QED BY <2>4, <3>1, <3>2 DEF GateIsFree, RunTrials, Active
  <2>16. ComparisonIsSettled'
    <3> SUFFICES ASSUME NEW q \in Runner, q # p, runner[q].stage = "compare"
                 PROVE  /\ runner[q].run \in DOMAIN ledger
                        /\ ledger[runner[q].run] = CountedOf(runner[q].run)'
        BY <2>2, <2>4 DEF ComparisonIsSettled
    <3>1. Stand(runner[q].run)
        BY DEF Progress, Far, Active
    <3> QED BY <2>4, <2>5, <2>8, <3>1 DEF ComparisonIsSettled
  <2>17. ReportsStand'
      BY <2>9 DEF ReportsStand
  <2>18. LedgerIsComplete'
    <3> SUFFICES ASSUME NEW j \in (DOMAIN index)', j.side # "suite", (j.run \notin killed)',
                        (\A q \in Runner : runner[q].stage # "idle" => runner[q].run # j.run)'
                 PROVE  (j.run \in DOMAIN ledger /\ ledger[j.run] = CountedOf(j.run))'
        BY DEF LedgerIsComplete
    <3>0. /\ ledger' = ledger /\ killed' = killed /\ j \in DOMAIN index /\ j.run \notin killed
          /\ \A q \in Runner : runner[q].stage # "idle" => runner[q].run # j.run
      <4>1. ledger' = ledger /\ killed' = killed /\ j \in DOMAIN index /\ j.run \notin killed
          BY <2>2, <2>3
      <4>2. ASSUME NEW q \in Runner, runner[q].stage # "idle" PROVE runner[q].run # j.run
        <5>1. runner'[q].stage # "idle" /\ runner'[q].run = runner[q].run
            BY <2>4, <4>2
        <5> QED BY <5>1
      <4> QED BY <4>1, <4>2
    <3>1. j.run # id.run
      <4> SUFFICES ASSUME j.run = id.run PROVE FALSE
          OBVIOUS
      <4>1. PICK q \in Runner : runner[q].stage = "trial" /\ runner[q].trial = id
          BY <1>2, <3>0 DEF RunningIsOwned
      <4>2. runner[q].run = id.run
          BY <4>1 DEF Progress, Active, Far
      <4> QED BY <3>0, <4>1, <4>2
    <3> QED BY <2>5, <3>0, <3>1 DEF LedgerIsComplete
  <2> QED BY <2>10, <2>11, <2>12, <2>13, <2>14, <2>15, <2>16, <2>17, <2>18
<1> QED BY <1>1, <1>2

LEMMA AbandonStep ==
    ASSUME StoreInv, NEW p \in Runner, Abandon(p)
    PROVE  StoreInv'
<1> PICK id \in runner[p].others : Finish(p, id, [index[id] EXCEPT !.status = "interrupted"])
    BY DEF Abandon
<1>1. id \in DOMAIN index /\ index[id] \in Row
    BY DEF Abandon, StoreInv, Progress, Active, Far, Fresh, Types
<1> DEFINE row == [index[id] EXCEPT !.status = "interrupted"]
<1>2. row \in Row /\ row.status = "interrupted"
    BY <1>1, EndedRow
<1> HIDE DEF row
<1>3. Finish(p, id, row)
    BY DEF row
<1> QED BY <1>1, <1>2, <1>3, FinishStep DEF Abandon

LEMMA FinishTrialStep ==
    ASSUME StoreInv, NEW p \in Runner, FinishTrial(p)
    PROVE  StoreInv'
<1> DEFINE id == runner[p].trial
<1>1. /\ runner[p].stage = "trial" /\ id \in DOMAIN index /\ index[id] \in Row
      /\ UNCHANGED <<files, reports, comparisons, code, jobs, runs, killed>>
    BY DEF FinishTrial, StoreInv, Progress, Active, Far, Types
<1>2. ASSUME NEW o \in Observed, Finish(p, id, Graded(index[id], o))
      PROVE  StoreInv'
  <2> DEFINE row == Graded(index[id], o)
  <2>1. /\ row \in Row /\ row.status = "completed"
        /\ row.outcome = GradeOutcome(row.evidence) /\ row.execution = GradeExecution(row.evidence)
      BY <1>1, GradedRow
  <2>2. Finish(p, id, row)
      BY <1>2
  <2> HIDE DEF row
  <2> QED BY <1>1, <2>1, <2>2, FinishStep
<1>3. ASSUME NEW failure \in Failures, Finish(p, id, [index[id] EXCEPT !.status = failure])
      PROVE  StoreInv'
  <2> DEFINE row == [index[id] EXCEPT !.status = failure]
  <2>1. row \in Row /\ row.status \notin {"running", "completed"}
      BY <1>1, EndedRow
  <2>2. Finish(p, id, row)
      BY <1>3
  <2> HIDE DEF row
  <2> QED BY <1>1, <2>1, <2>2, FinishStep
<1> QED BY <1>2, <1>3 DEF FinishTrial

\* A step in which a process goes on, and no trial begins or ends.
LEMMA GoOn ==
    ASSUME StoreInv, NEW p \in Runner, Active(p), runner[p].stage # "trial",
           NEW r \in Working, runner' = [runner EXCEPT ![p] = r],
           r.run = runner[p].run, r.job = runner[p].job,
           index' = index,
           \/ files' = files
           \/ \E t \in DOMAIN index : files' = With(files, t, index[t]),
           UNCHANGED <<jobs, killed, runs, code, reports, comparisons>>,
           Far(p)',
           r.job.kind = "gate" => /\ r.stage # "compare"
                                  /\ \A i \in DOMAIN r.order : r.order[i].side = "suite",
           \/ ledger' = ledger /\ r.stage # "compare"
           \/ ledger' = Settled(runner[p])
    PROVE  StoreInv'
<1> USE DEF StoreInv
<1>1. /\ runner'[p] = r /\ \A q \in Runner : q # p => runner'[q] = runner[q]
      /\ r.stage # "idle"
    BY DEF Types, Working
<1>2. \A run : /\ Rows(run)' = Rows(run) /\ RunTrials(run)' = RunTrials(run)
               /\ CountedOf(run)' = CountedOf(run) /\ RunTrials(run) \subseteq DOMAIN index
    BY SameIndex DEF RunTrials
<1>3. \A id \in DOMAIN index : ~Problem(id) => ~Problem(id)'
    BY FileWritten
<1>4. Types'
    BY DEF Types
<1>5. RunIds'
    BY <1>1 DEF RunIds, Active
<1>6. RowsGraded'
    BY DEF RowsGraded
<1>7. Progress'
  <2> SUFFICES ASSUME NEW q \in Runner, q # p, Active(q) PROVE Far(q)'
      BY <1>1 DEF Progress, Active
  <2>1. runner'[q] = runner[q] /\ Far(q)
      BY <1>1 DEF Progress
  <2> QED BY <1>2, <1>3, <2>1 DEF Far, Fresh, Stand, StandBut
<1>8. RunningIsOwned'
    BY <1>1 DEF RunningIsOwned
<1>9. GateIsFree'
    BY <1>1, <1>2 DEF GateIsFree, Active
<1>10. \A run : run # runner[p].run => (run \in DOMAIN ledger =>
                   run \in DOMAIN ledger' /\ ledger'[run] = ledger[run])
    BY DEF With, Settled
<1>11. r.stage = "compare" => r.run \in DOMAIN ledger' /\ ledger'[r.run] = CountedOf(r.run)
    BY DEF With, Settled
<1>12. ComparisonIsSettled'
  <2> SUFFICES ASSUME NEW q \in Runner, q # p, runner[q].stage = "compare"
               PROVE  /\ runner[q].run \in DOMAIN ledger'
                      /\ ledger'[runner[q].run] = CountedOf(runner[q].run)
      BY <1>1, <1>2, <1>11 DEF ComparisonIsSettled
  <2>1. runner[q].run # runner[p].run
      BY DEF RunIds, Active
  <2> QED BY <1>10, <2>1 DEF ComparisonIsSettled
<1>13. ReportsStand'
    BY ReportsKept
<1>14. LedgerIsComplete'
  <2> SUFFICES ASSUME NEW id \in DOMAIN index, id.side # "suite", id.run \notin killed,
                      \A q \in Runner : runner'[q].stage # "idle" => runner'[q].run # id.run
               PROVE  id.run \in DOMAIN ledger' /\ ledger'[id.run] = CountedOf(id.run)
      BY <1>2 DEF LedgerIsComplete
  <2>1. id.run # runner[p].run
      BY <1>1
  <2>2. \A q \in Runner : runner[q].stage # "idle" => runner[q].run # id.run
      BY <1>1, <2>1
  <2> QED BY <1>10, <2>1, <2>2 DEF LedgerIsComplete
<1> QED BY <1>4, <1>5, <1>6, <1>7, <1>8, <1>9, <1>12, <1>13, <1>14

\* A step in which a process stops: it has reported, or it is killed.
LEMMA StopStep ==
    ASSUME StoreInv, NEW p \in Runner, Active(p), runner' = [runner EXCEPT ![p] = Idle],
           UNCHANGED <<index, files, ledger, code, jobs, runs>>,
           \/ killed' = killed \cup {runner[p].run}
           \/ killed' = killed /\ \/ runner[p].stage = "compare"
                                  \/ runner[p].stage = "loop" /\ runner[p].job.kind = "gate",
           \A g \in reports' \cup comparisons' :
              g \in reports \cup comparisons \/ (g.run = runner[p].run /\ IsCode(g.code)),
           ReportsStand'
    PROVE  StoreInv'
<1> USE DEF StoreInv
<1>1. /\ runner'[p] = Idle /\ runner'[p].stage = "idle"
      /\ \A q \in Runner : q # p => runner'[q] = runner[q]
      /\ killed \subseteq killed'
    BY DEF Types, Idle
<1>2. \A run : /\ Rows(run)' = Rows(run) /\ RunTrials(run)' = RunTrials(run)
               /\ CountedOf(run)' = CountedOf(run) /\ RunTrials(run) \subseteq DOMAIN index
    BY SameIndex DEF RunTrials
<1>3. \A id \in DOMAIN index : ~Problem(id) => ~Problem(id)'
    BY FileWritten
<1>4. Types'
    BY DEF Types
<1>5. RunIds'
    BY <1>1 DEF RunIds, Active
<1>6. RowsGraded'
    BY DEF RowsGraded
<1>7. Progress'
  <2> SUFFICES ASSUME NEW q \in Runner, q # p, Active(q) PROVE Far(q)'
      BY <1>1 DEF Progress, Active
  <2>1. runner'[q] = runner[q] /\ Far(q)
      BY <1>1 DEF Progress
  <2> QED BY <1>2, <1>3, <2>1 DEF Far, Fresh, Stand, StandBut
<1>8. RunningIsOwned'
  <2> SUFFICES ASSUME NEW id \in DOMAIN index, index[id].status = "running", id.run \notin killed'
               PROVE  \E q \in Runner : runner'[q].stage = "trial" /\ runner'[q].trial = id
      BY DEF RunningIsOwned
  <2>1. PICK q \in Runner : runner[q].stage = "trial" /\ runner[q].trial = id
      BY <1>1 DEF RunningIsOwned
  <2>2. id.run = runner[q].run
      BY <2>1 DEF Progress, Far, Active
  <2> QED BY <1>1, <2>1, <2>2
<1>9. GateIsFree'
    BY <1>1, <1>2 DEF GateIsFree, Active
<1>10. ComparisonIsSettled'
    BY <1>1, <1>2 DEF ComparisonIsSettled
<1>11. LedgerIsComplete'
  <2> SUFFICES ASSUME NEW id \in DOMAIN index, id.side # "suite", id.run \notin killed',
                      \A q \in Runner : runner'[q].stage # "idle" => runner'[q].run # id.run
               PROVE  id.run \in DOMAIN ledger /\ ledger[id.run] = CountedOf(id.run)
      BY <1>2 DEF LedgerIsComplete
  <2>1. CASE id.run = runner[p].run
    <3>1. runner[p].job.kind # "gate"
        BY <2>1 DEF GateIsFree, RunTrials
    <3>2. runner[p].stage = "compare"
        BY <2>1, <3>1
    <3> QED BY <2>1, <3>2 DEF ComparisonIsSettled
  <2>2. CASE id.run # runner[p].run
    <3>1. \A q \in Runner : runner[q].stage # "idle" => runner[q].run # id.run
        BY <1>1, <2>2
    <3> QED BY <1>1, <3>1 DEF LedgerIsComplete
  <2> QED BY <2>1, <2>2
<1> QED BY <1>4, <1>5, <1>6, <1>7, <1>8, <1>9, <1>10, <1>11

LEMMA BeginStep ==
    ASSUME StoreInv, NEW p \in Runner, NEW job \in jobs, Begin(p, job)
    PROVE  StoreInv'
<1> USE DEF StoreInv, Begin
<1>1. \A run : /\ Rows(run)' = Rows(run) /\ RunTrials(run)' = RunTrials(run)
               /\ CountedOf(run)' = CountedOf(run)
    BY SameIndex
<1>2. \A id \in DOMAIN index : Problem(id)' <=> Problem(id)
    BY DEF Problem
<1>3. RowsGraded'
    BY DEF RowsGraded
<1>4. ReportsStand'
    BY ReportsKept
<1>5. CASE Refused(job)
  <2>1. Types' /\ RunIds' /\ RunningIsOwned'
      BY <1>5 DEF Types, RunIds, RunningIsOwned, Active
  <2>2. Progress'
      BY <1>1, <1>2, <1>5 DEF Progress, Far, Fresh, Active, Stand, StandBut, RunTrials
  <2>3. GateIsFree' /\ ComparisonIsSettled' /\ LedgerIsComplete'
      BY <1>1, <1>5 DEF GateIsFree, ComparisonIsSettled, LedgerIsComplete, Active
  <2> QED BY <1>3, <1>4, <2>1, <2>2, <2>3
<1>6. CASE ~Refused(job)
  <2> PICK order \in Orders(job) :
         runner' = [runner EXCEPT ![p] =
             [stage |-> "abandon", job |-> job, run |-> runs + 1, order |-> order,
              spent |-> 0, code |-> code, trial |-> NoTrial,
              others |-> {id \in DOMAIN index : index[id].status = "running"}]]
      BY <1>6
  <2> DEFINE r == [stage |-> "abandon", job |-> job, run |-> runs + 1, order |-> order,
                   spent |-> 0, code |-> code, trial |-> NoTrial,
                   others |-> {id \in DOMAIN index : index[id].status = "running"}]
  <2>1. job \in Jobs
      BY DEF Types
  <2>2. order \in Seq(Entry) /\ (job.kind = "gate" => \A i \in DOMAIN order : order[i].side = "suite")
      BY <2>1, OrdersOfSuite
  <2>3. runs' = runs + 1 /\ runs \in Nat
      BY <1>6 DEF Types
  <2>4. r \in Working
    <3>1. r.others \subseteq Trial
        BY DEF Types
    <3> QED BY <2>1, <2>2, <2>3, <3>1 DEF Working, Types
  <2>5. /\ r.stage = "abandon" /\ r.job = job /\ r.run = runs + 1 /\ r.order = order
        /\ r.others \subseteq DOMAIN index
      OBVIOUS
  <2> HIDE DEF r
  <2>6. /\ runner'[p] = r /\ \A q \in Runner : q # p => runner'[q] = runner[q]
        /\ runner' \in [Runner -> {Idle} \cup Working]
    <3>1. runner' = [runner EXCEPT ![p] = r]
        BY DEF r
    <3> QED BY <2>4, <3>1 DEF Types
  <2>7. \A id \in DOMAIN index : id.run \in 1..runs
      BY DEF RunIds
  <2>8. ~Active(p)
      BY DEF Active
  <2>9. Types'
      BY <2>3, <2>6 DEF Types
  <2>10. RunIds'
    <3>1. \A q \in Runner : Active(q)' =>
             runner'[q].run \in 1..runs' /\ (q # p => Active(q) /\ runner'[q].run \in 1..runs)
        BY <2>3, <2>5, <2>6 DEF RunIds, Active
    <3>2. \A q1, q2 \in Runner :
             Active(q1)' /\ Active(q2)' /\ runner'[q1].run = runner'[q2].run => q1 = q2
        BY <2>3, <2>5, <2>6, <3>1 DEF RunIds
    <3>3. \A g \in reports \cup comparisons :
             /\ g.run \in Int /\ g.run <= runs' /\ IsCode(g.code)
             /\ \A q \in Runner : Active(q)' => runner'[q].run # g.run
        BY <2>3, <2>5, <2>6, <3>1 DEF RunIds
    <3> QED BY <2>3, <2>7, <3>1, <3>2, <3>3 DEF RunIds
  <2>11. Progress'
    <3> SUFFICES ASSUME NEW q \in Runner, Active(q)' PROVE Far(q)'
        BY DEF Progress
    <3>1. CASE q = p
        BY <2>3, <2>5, <2>6, <2>7, <3>1 DEF Far, Fresh, RunTrials
    <3>2. CASE q # p
      <4>1. runner'[q] = runner[q] /\ Far(q)
          BY <2>6, <3>2 DEF Progress, Active
      <4> QED BY <1>1, <1>2, <4>1 DEF Far, Fresh, Stand, StandBut, RunTrials
    <3> QED BY <3>1, <3>2
  <2>12. RunningIsOwned'
      BY <2>6, <2>8 DEF RunningIsOwned, Active
  <2>13. GateIsFree'
    <3> SUFFICES ASSUME NEW q \in Runner, Active(q)', (runner[q].job.kind = "gate")'
                 PROVE  /\ runner'[q].stage # "compare"
                        /\ \A i \in DOMAIN runner'[q].order : runner'[q].order[i].side = "suite"
                        /\ \A id \in DOMAIN index : id.run = runner'[q].run => id.side = "suite"
        BY DEF GateIsFree, RunTrials
    <3>1. CASE q = p
        BY <2>2, <2>3, <2>5, <2>6, <2>7, <3>1
    <3>2. CASE q # p
        BY <2>6, <3>2 DEF GateIsFree, RunTrials, Active
    <3> QED BY <3>1, <3>2
  <2>14. ComparisonIsSettled'
      BY <1>1, <2>5, <2>6 DEF ComparisonIsSettled
  <2>15. LedgerIsComplete'
    <3> SUFFICES ASSUME NEW id \in DOMAIN index, id.side # "suite", id.run \notin killed,
                        \A q \in Runner : runner'[q].stage # "idle" => runner'[q].run # id.run
                 PROVE  id.run \in DOMAIN ledger /\ ledger[id.run] = CountedOf(id.run)
        BY <1>1 DEF LedgerIsComplete
    <3>1. \A q \in Runner : runner[q].stage # "idle" => runner[q].run # id.run
        BY <2>6, <2>8 DEF Active
    <3> QED BY <3>1 DEF LedgerIsComplete
  <2> QED BY <1>3, <1>4, <2>9, <2>10, <2>11, <2>12, <2>13, <2>14, <2>15
<1> QED BY <1>5, <1>6

LEMMA ReadyStep ==
    ASSUME StoreInv, NEW p \in Runner, Ready(p)
    PROVE  StoreInv'
<1> DEFINE r == [runner[p] EXCEPT !.stage = "loop",
                                  !.code = IF runner[p].job.kind = "gate" THEN code ELSE @]
<1>1. Active(p) /\ runner[p] \in Working
    BY Fields DEF Active, Ready, StoreInv
<1>2. /\ r \in Working /\ r.stage = "loop" /\ r.run = runner[p].run /\ r.job = runner[p].job
      /\ r.order = runner[p].order
    BY <1>1 DEF Working, StoreInv, Types
<1>3. runner' = [runner EXCEPT ![p] = r]
    BY <1>1 DEF Ready, StoreInv, Types
<1> HIDE DEF r
<1>4. Stand(runner[p].run)
    BY <1>1 DEF Ready, StoreInv, Progress, Far, Fresh, Stand
<1>5. Far(p)'
  <2>1. runner'[p] = r
      BY <1>3 DEF StoreInv, Types
  <2> QED BY <1>2, <1>4, <2>1 DEF Ready, Far, Fresh, Stand, RunTrials, Problem
<1>6. r.job.kind = "gate" => /\ r.stage # "compare"
                             /\ \A i \in DOMAIN r.order : r.order[i].side = "suite"
    BY <1>1, <1>2 DEF StoreInv, GateIsFree
<1> QED BY <1>1, <1>2, <1>3, <1>5, <1>6, GoOn DEF Ready

\* The index is written only by the process whose run it is, and only for this trial.
LEMMA StartTrialStep ==
    ASSUME StoreInv, NEW p \in Runner, StartTrial(p)
    PROVE  StoreInv'
<1> DEFINE next == Head(runner[p].order)
           id == [run |-> runner[p].run, case |-> next.case, side |-> next.side,
                  n |-> next.repetition]
           row == [case |-> next.case, side |-> next.side, repetition |-> next.repetition,
                   status |-> "running", evidence |-> NoEvidence, outcome |-> "none",
                   execution |-> "none", reported |-> NoCost,
                   reserve |-> IF runner[p].job.kind = "compare" THEN Reserve ELSE 0]
           r == [runner[p] EXCEPT !.stage = "trial", !.order = Tail(@), !.trial = id]
<1> USE DEF StoreInv
<1>1. Active(p) /\ runner[p] \in Working /\ runner[p].stage = "loop" /\ runner[p].order # << >>
    BY Fields DEF Active, StartTrial
<1>2. runner[p].order \in Seq(Entry) /\ next \in Entry /\ Tail(runner[p].order) \in Seq(Entry)
  <2>1. runner[p].order \in Seq(Entry)
      BY <1>1 DEF Working
  <2> QED BY <1>1, <2>1
<1>3. id \in Trial /\ id.run = runner[p].run /\ id.side = next.side /\ row \in Row /\ row.status = "running"
    BY <1>1, <1>2 DEF Trial, Working, Entry, Row, Grades, NoCost
<1>4. /\ index' = With(index, id, row) /\ runner' = [runner EXCEPT ![p] = r]
      /\ UNCHANGED <<files, ledger, reports, comparisons, code, jobs, spent, runs, killed, changes>>
    BY DEF StartTrial, Types
<1>5. /\ r \in Working /\ r.stage = "trial" /\ r.trial = id /\ r.run = runner[p].run
      /\ r.job = runner[p].job /\ r.order = Tail(runner[p].order)
    BY <1>1, <1>2, <1>3 DEF Working
<1>6. next = runner[p].order[1] /\ 1 \in DOMAIN runner[p].order
      /\ \A i \in DOMAIN Tail(runner[p].order) :
            i + 1 \in DOMAIN runner[p].order /\ Tail(runner[p].order)[i] = runner[p].order[i + 1]
    BY <1>1, <1>2
<1> HIDE DEF row, id, r, next
<1>7. /\ DOMAIN index' = DOMAIN index \cup {id} /\ index'[id] = row
      /\ \A j \in DOMAIN index : j # id => index'[j] = index[j]
      /\ index' \in [DOMAIN index' -> Row]
    BY <1>3, <1>4 DEF With, Types
<1>8. /\ runner'[p] = r /\ \A q \in Runner : q # p => runner'[q] = runner[q]
      /\ \A q \in Runner : runner'[q].run = runner[q].run /\ (Active(q)' <=> Active(q))
    BY <1>1, <1>4, <1>5 DEF Types, Active
<1>9. ASSUME NEW run, run # id.run
      PROVE  /\ RunTrials(run)' = RunTrials(run) /\ Rows(run)' = Rows(run)
             /\ CountedOf(run)' = CountedOf(run)
    BY <1>7, <1>9, OtherRuns
<1>10. \A j \in DOMAIN index : j # id => (Problem(j)' <=> Problem(j))
    BY <1>4, <1>7 DEF Problem
<1>11. Types'
    BY <1>3, <1>4, <1>5, <1>7 DEF Types
<1>12. RunIds'
    BY <1>1, <1>3, <1>4, <1>7, <1>8 DEF RunIds
<1>13. RowsGraded'
    BY <1>3, <1>7 DEF RowsGraded
<1>14. Progress'
  <2>1. ASSUME NEW q \in Runner, q # p, Active(q) PROVE Far(q)'
    <3>1. runner'[q] = runner[q] /\ Far(q) /\ runner[q].run # id.run
        BY <1>1, <1>3, <1>8, <2>1 DEF Progress, RunIds
    <3>2. RunTrials(runner[q].run)' = RunTrials(runner[q].run) /\ RunTrials(runner[q].run) \subseteq DOMAIN index
      <4>1. \A run : run # id.run => RunTrials(run)' = RunTrials(run)
          BY <1>9
      <4> QED BY <1>7, <3>1, <4>1 DEF RunTrials
    <3>3. \A j \in RunTrials(runner[q].run) : j # id
        BY <3>1 DEF RunTrials
    <3> QED BY <1>7, <1>10, <3>1, <3>2, <3>3 DEF Far, Fresh, Stand, StandBut, RunTrials
  <2>2. Far(p)'
    <3>1. Stand(runner[p].run)
        BY <1>1 DEF Progress, Far
    <3> QED BY <1>3, <1>5, <1>7, <1>8, <1>10, <3>1 DEF Far, Fresh, Stand, StandBut, RunTrials
  <2> QED BY <1>8, <2>1, <2>2 DEF Progress
<1>15. RunningIsOwned'
    BY <1>1, <1>4, <1>5, <1>7, <1>8 DEF RunningIsOwned
<1>16. GateIsFree'
  <2> SUFFICES ASSUME NEW q \in Runner, Active(q), (runner[q].job.kind = "gate")'
               PROVE  /\ runner'[q].stage # "compare"
                      /\ \A i \in DOMAIN runner'[q].order : runner'[q].order[i].side = "suite"
                      /\ \A j \in DOMAIN index' : j.run = runner[q].run => j.side = "suite"
      BY <1>8 DEF GateIsFree, RunTrials
  <2>1. CASE q = p
    <3>1. /\ \A i \in DOMAIN runner[p].order : runner[p].order[i].side = "suite"
          /\ \A j \in DOMAIN index : j.run = runner[p].run => j.side = "suite"
        BY <1>5, <1>8, <2>1 DEF GateIsFree, RunTrials
    <3>2. id.side = "suite"
        BY <1>3, <1>6, <3>1
    <3>3. \A i \in DOMAIN r.order : r.order[i].side = "suite"
        BY <1>5, <1>6, <3>1
    <3>4. runner'[q] = r /\ r.stage # "compare"
        BY <1>5, <1>8, <2>1
    <3>5. \A j \in DOMAIN index' : j.run = runner[q].run => j.side = "suite"
        BY <1>7, <2>1, <3>1, <3>2
    <3> QED BY <3>3, <3>4, <3>5
  <2>2. CASE q # p
      BY <1>1, <1>3, <1>7, <1>8, <2>2 DEF GateIsFree, RunTrials, RunIds
  <2> QED BY <2>1, <2>2
<1>17. ComparisonIsSettled'
  <2> SUFFICES ASSUME NEW q \in Runner, (runner[q].stage = "compare")'
               PROVE  (runner[q].run \in DOMAIN ledger /\ ledger[runner[q].run] = CountedOf(runner[q].run))'
      BY DEF ComparisonIsSettled
  <2>1. q # p /\ runner'[q] = runner[q] /\ runner[q].run # id.run
      BY <1>1, <1>3, <1>5, <1>8 DEF RunIds, Active
  <2>2. CountedOf(runner[q].run)' = CountedOf(runner[q].run)
    <3>1. \A run : run # id.run => CountedOf(run)' = CountedOf(run)
        BY <1>9
    <3> QED BY <2>1, <3>1
  <2> QED BY <1>4, <2>1, <2>2 DEF ComparisonIsSettled
<1>18. ReportsStand'
  <2>1. ASSUME NEW run, Stand(run), run # id.run PROVE Stand(run)' /\ Rows(run)' = Rows(run)
    <3>1. RunTrials(run)' = RunTrials(run) /\ \A j \in RunTrials(run) : j # id /\ j \in DOMAIN index
        BY <1>9, <2>1 DEF RunTrials
    <3> QED BY <1>7, <1>9, <1>10, <2>1, <3>1 DEF Stand
  <2>2. \A g \in reports \cup comparisons : g.run # id.run
      BY <1>1, <1>3 DEF RunIds
  <2> QED BY <1>4, <2>1, <2>2 DEF ReportsStand
<1>19. LedgerIsComplete'
  <2> SUFFICES ASSUME NEW j \in (DOMAIN index)', j.side # "suite", (j.run \notin killed)',
                      (\A q \in Runner : runner[q].stage # "idle" => runner[q].run # j.run)'
               PROVE  (j.run \in DOMAIN ledger /\ ledger[j.run] = CountedOf(j.run))'
      BY DEF LedgerIsComplete
  <2>1. j.run # id.run
      BY <1>3, <1>5, <1>8
  <2>2. \A q \in Runner : runner[q].stage # "idle" => runner[q].run # j.run
      BY <1>3, <1>8, <2>1
  <2>3. j \in DOMAIN index /\ j.run \notin killed /\ ledger' = ledger
      BY <1>4, <1>7, <2>1
  <2> QED BY <1>9, <2>1, <2>2, <2>3 DEF LedgerIsComplete
<1> QED BY <1>11, <1>12, <1>13, <1>14, <1>15, <1>16, <1>17, <1>18, <1>19

LEMMA WriteFileStep ==
    ASSUME StoreInv, NEW p \in Runner, WriteFile(p)
    PROVE  StoreInv'
<1>0. runner[p].trial \in DOMAIN index
    BY DEF Active, WriteFile, StoreInv, Progress, Far
<1> PICK t \in DOMAIN index : t = runner[p].trial
    BY <1>0
<1>1. /\ Active(p) /\ runner[p] \in Working /\ runner[p].stage = "file" /\ Far(p)
      /\ files' = With(files, t, index[t]) /\ index[t] \in Row
      /\ UNCHANGED <<index, reports, comparisons, code, jobs, spent, runs, killed>>
  <2>1. Active(p) /\ runner[p] \in Working
      BY Fields DEF Active, WriteFile, StoreInv
  <2>2. runner[p].stage = "file" /\ Far(p)
      BY <2>1 DEF WriteFile, StoreInv, Progress
  <2> QED BY <2>1, <2>2 DEF WriteFile, Far, StoreInv, Types
<1>2. /\ \A run : RunTrials(run)' = RunTrials(run) /\ RunTrials(run) \subseteq DOMAIN index
      /\ \A id \in DOMAIN index : ~Problem(id) => ~Problem(id)'
  <2>1. \A id \in DOMAIN index : ~Problem(id) => ~Problem(id)'
      BY <1>1, FileWritten DEF StoreInv
  <2> QED BY <1>1, <2>1 DEF RunTrials
<1>3. CASE t.run # runner[p].run
  <2> DEFINE r == [runner[p] EXCEPT !.stage = "abandon", !.others = @ \ {t}]
  <2>1. /\ r \in Working /\ r.stage = "abandon" /\ r.run = runner[p].run /\ r.job = runner[p].job
        /\ r.order = runner[p].order /\ r.others \subseteq runner[p].others
      BY <1>1 DEF Working
  <2>2. runner' = [runner EXCEPT ![p] = r] /\ ledger' = ledger
      BY <1>1, <1>3 DEF WriteFile, StoreInv, Types
  <2> HIDE DEF r
  <2>3. Far(p)'
    <3>1. runner'[p] = r
        BY <2>2 DEF StoreInv, Types
    <3> QED BY <1>1, <1>2, <1>3, <2>1, <3>1 DEF Far, Fresh
  <2>4. r.job.kind = "gate" => \A i \in DOMAIN r.order : r.order[i].side = "suite"
      BY <1>1, <2>1 DEF StoreInv, GateIsFree
  <2> QED BY <1>1, <2>1, <2>2, <2>3, <2>4, GoOn
<1>4. CASE t.run = runner[p].run /\ index[t].status = "interrupted"
  <2>1. Leave(p)
      BY <1>4 DEF WriteFile
  <2> QED BY <1>1, <1>4, <2>1, LeaveStep
<1>5. CASE t.run = runner[p].run /\ index[t].status # "interrupted"
  <2> DEFINE s == runner[p].spent + Counted(index[t])
             r == [runner[p] EXCEPT !.stage = "loop", !.spent = s]
  <2>1. s \in Int
      BY <1>1 DEF Counted, Row, Working
  <2>2. runner' = [runner EXCEPT ![p] = r] /\ ledger' = ledger
      BY <1>1, <1>5 DEF WriteFile, StoreInv, Types
  <2> HIDE DEF s
  <2>3. /\ r \in Working /\ r.stage = "loop" /\ r.run = runner[p].run /\ r.job = runner[p].job
        /\ r.order = runner[p].order
      BY <1>1, <2>1 DEF Working
  <2> HIDE DEF r
  <2>4. Stand(runner[p].run)'
    <3>1. ~Fresh(p)
        BY <1>1, <1>5 DEF Fresh
    <3>2. StandBut(runner[p].run, t) /\ index[t].status # "running"
        BY <1>1, <3>1 DEF Far
    <3>3. ~Problem(t)'
        BY <1>1 DEF Problem, With, StoreInv, RowsGraded
    <3>4. \A j \in RunTrials(runner[p].run) : index[j].status # "running" /\ ~Problem(j)'
        BY <1>2, <3>2, <3>3 DEF StandBut
    <3>5. runner'[p].run = runner[p].run
        BY <2>2, <2>3 DEF StoreInv, Types
    <3> QED BY <1>1, <1>2, <3>4, <3>5 DEF Stand
  <2>5. Far(p)'
    <3>1. runner'[p] = r
        BY <2>2 DEF StoreInv, Types
    <3> QED BY <2>3, <2>4, <3>1 DEF Far, Fresh
  <2>6. r.job.kind = "gate" => \A i \in DOMAIN r.order : r.order[i].side = "suite"
      BY <1>1, <2>3 DEF StoreInv, GateIsFree
  <2> QED BY <1>1, <2>2, <2>3, <2>5, <2>6, GoOn
<1> QED BY <1>3, <1>4, <1>5

LEMMA SettleStep ==
    ASSUME StoreInv, NEW p \in Runner, Settle(p)
    PROVE  StoreInv'
<1> DEFINE r == [runner[p] EXCEPT !.stage = "compare"]
<1>1. /\ Active(p) /\ runner[p] \in Working /\ runner[p].stage = "loop" /\ Stand(runner[p].run)
      /\ runner[p].job.kind = "compare"
  <2>1. Active(p) /\ runner[p] \in Working /\ runner[p].stage = "loop"
      BY Fields DEF Active, Settle, StoreInv
  <2> QED BY <2>1 DEF Settle, StoreInv, Progress, Far
<1>2. /\ r \in Working /\ r.stage = "compare" /\ r.run = runner[p].run /\ r.job = runner[p].job
    BY <1>1 DEF Working
<1>3. /\ runner' = [runner EXCEPT ![p] = r] /\ ledger' = Settled(runner[p])
      /\ UNCHANGED <<index, files, reports, comparisons, code, jobs, spent, runs, killed, changes>>
    BY <1>1 DEF Settle, StoreInv, Types
<1> HIDE DEF r
<1>4. Far(p)'
  <2>1. runner'[p] = r
      BY <1>3 DEF StoreInv, Types
  <2> QED BY <1>1, <1>2, <1>3, <2>1 DEF Far, Fresh, Stand, RunTrials, Problem
<1>5. r.job.kind # "gate"
    BY <1>1, <1>2
<1> QED BY <1>1, <1>2, <1>3, <1>4, <1>5, GoOn

\* A report is written of a run all of whose trials stand, and says what they allow.
LEMMA ReportGateStep ==
    ASSUME StoreInv, NEW p \in Runner, ReportGate(p)
    PROVE  StoreInv'
<1>1. /\ Active(p) /\ runner[p] \in Working /\ runner[p].stage = "loop" /\ Stand(runner[p].run)
      /\ runner[p].job.kind = "gate"
  <2>1. Active(p) /\ runner[p] \in Working /\ runner[p].stage = "loop"
      BY Fields DEF Active, ReportGate, StoreInv
  <2> QED BY <2>1 DEF ReportGate, StoreInv, Progress, Far
<1> PICK h : reports' = reports \cup
                {[run |-> runner[p].run, verdict |-> GateDecide(CasesOf("gate"), Rows(runner[p].run)),
                  code |-> runner[p].code, holdout |-> h]}
    BY DEF ReportGate
<1> DEFINE g == [run |-> runner[p].run, verdict |-> GateDecide(CasesOf("gate"), Rows(runner[p].run)),
                 code |-> runner[p].code, holdout |-> h]
<1>2. /\ g.run = runner[p].run /\ g.code = runner[p].code
      /\ g.verdict = GateDecide(CasesOf("gate"), Rows(g.run))
    OBVIOUS
<1>3. /\ reports' = reports \cup {g} /\ runner' = [runner EXCEPT ![p] = Idle]
      /\ UNCHANGED <<index, files, ledger, comparisons, code, jobs, spent, runs, killed, changes>>
    BY DEF ReportGate
<1> HIDE DEF g
<1>4. IsCode(g.code)
    BY <1>1, <1>2 DEF Working, Trees
<1>5. ReportsStand'
  <2>1. \A run : Stand(run) => Stand(run)' /\ Rows(run)' = Rows(run)
      BY <1>3 DEF Stand, RunTrials, Problem, Rows
  <2>2. \A c \in comparisons' : c.run > 0 =>
          Stand(c.run)' /\ c.verdict \in Verdicts(Rows(c.run)', c.thresholds)
      BY <1>3, <2>1 DEF StoreInv, ReportsStand
  <2>3. \A x \in reports' : x.run > 0 =>
          Stand(x.run)' /\ x.verdict = GateDecide(CasesOf("gate"), Rows(x.run)')
      BY <1>1, <1>2, <1>3, <2>1 DEF StoreInv, ReportsStand
  <2> QED BY <2>2, <2>3 DEF ReportsStand
<1> QED BY <1>1, <1>2, <1>3, <1>4, <1>5, StopStep

LEMMA ReportComparisonStep ==
    ASSUME StoreInv, NEW p \in Runner, ReportComparison(p)
    PROVE  StoreInv'
<1>1. Active(p) /\ runner[p] \in Working /\ runner[p].stage = "compare" /\ Stand(runner[p].run)
  <2>1. Active(p) /\ runner[p] \in Working /\ runner[p].stage = "compare"
      BY Fields DEF Active, ReportComparison, StoreInv
  <2> QED BY <2>1 DEF StoreInv, Progress, Far
<1> PICK verdict \in Verdicts(Rows(runner[p].run), runner[p].job.thresholds) :
       comparisons' = comparisons \cup
          {[run |-> runner[p].run, baseline |-> runner[p].job.baseline,
            candidate |-> runner[p].job.candidate, verdict |-> verdict,
            thresholds |-> runner[p].job.thresholds, code |-> runner[p].code]}
    BY DEF ReportComparison
<1> DEFINE c == [run |-> runner[p].run, baseline |-> runner[p].job.baseline,
                 candidate |-> runner[p].job.candidate, verdict |-> verdict,
                 thresholds |-> runner[p].job.thresholds, code |-> runner[p].code]
<1>2. /\ c.run = runner[p].run /\ c.code = runner[p].code
      /\ c.verdict \in Verdicts(Rows(c.run), c.thresholds)
    OBVIOUS
<1>3. /\ comparisons' = comparisons \cup {c} /\ runner' = [runner EXCEPT ![p] = Idle]
      /\ UNCHANGED <<index, files, ledger, reports, code, jobs, spent, runs, killed, changes>>
    BY DEF ReportComparison
<1> HIDE DEF c
<1>4. IsCode(c.code)
    BY <1>1, <1>2 DEF Working, Trees
<1>5. ReportsStand'
  <2>1. \A run : Stand(run) => Stand(run)' /\ Rows(run)' = Rows(run)
      BY <1>3 DEF Stand, RunTrials, Problem, Rows
  <2>2. \A x \in comparisons' : x.run > 0 =>
          Stand(x.run)' /\ x.verdict \in Verdicts(Rows(x.run)', x.thresholds)
      BY <1>1, <1>2, <1>3, <2>1 DEF StoreInv, ReportsStand
  <2>3. \A x \in reports' : x.run > 0 =>
          Stand(x.run)' /\ x.verdict = GateDecide(CasesOf("gate"), Rows(x.run)')
      BY <1>3, <2>1 DEF StoreInv, ReportsStand
  <2> QED BY <2>2, <2>3 DEF ReportsStand
<1> QED BY <1>1, <1>2, <1>3, <1>4, <1>5, StopStep

LEMMA KillStep ==
    ASSUME StoreInv, NEW p \in Runner, Kill(p)
    PROVE  StoreInv'
<1>1. ReportsStand'
    BY ReportsKept DEF Kill, StoreInv
<1> QED BY <1>1, StopStep DEF Kill, Active

\* What a step leaves alone when it does not concern the store.
LEMMA StoreUntouched ==
    ASSUME StoreInv, code' \in Trees, UNCHANGED <<index, files, runner, ledger, reports, comparisons,
                                                  jobs, runs, killed>>
    PROVE  StoreInv'
<1> USE DEF StoreInv
<1>1. /\ \A run : /\ Rows(run)' = Rows(run) /\ RunTrials(run)' = RunTrials(run)
                  /\ CountedOf(run)' = CountedOf(run)
      /\ \A id : Problem(id)' <=> Problem(id)
  <2>1. \A run : /\ Rows(run)' = Rows(run) /\ RunTrials(run)' = RunTrials(run)
                 /\ CountedOf(run)' = CountedOf(run)
      BY SameIndex
  <2> QED BY <2>1 DEF Problem
<1>2. Types' /\ RunIds' /\ RowsGraded' /\ RunningIsOwned'
    BY DEF Types, RunIds, RowsGraded, RunningIsOwned, Active
<1>3. Progress'
    BY <1>1 DEF Progress, Far, Fresh, Active, Stand, StandBut
<1>4. GateIsFree' /\ ComparisonIsSettled' /\ LedgerIsComplete'
    BY <1>1 DEF GateIsFree, ComparisonIsSettled, LedgerIsComplete, Active
<1>5. ReportsStand'
    BY ReportsKept
<1> QED BY <1>2, <1>3, <1>4, <1>5

LEMMA StoreStep == StoreInv /\ [Next]_vars => StoreInv'
<1> SUFFICES ASSUME StoreInv, [Next]_vars PROVE StoreInv'
    OBVIOUS
<1>1. CASE UNCHANGED evaluationVars
    BY <1>1, StoreUntouched DEF evaluationVars, StoreInv, Types
<1>2. CASE ChangeCode
  <2>1. code' \in Trees
      BY <1>2 DEF ChangeCode, Trees
  <2> QED BY <1>2, <2>1, StoreUntouched DEF ChangeCode
<1>3. ASSUME NEW p \in Runner, RunnerStep(p) PROVE StoreInv'
  <2>1. CASE \E job \in jobs : Begin(p, job)
      BY <2>1, BeginStep
  <2>2. CASE Abandon(p) \/ Ready(p) \/ StartTrial(p) \/ FinishTrial(p) \/ WriteFile(p)
      BY <2>2, AbandonStep, ReadyStep, StartTrialStep, FinishTrialStep, WriteFileStep
  <2>3. CASE ReportGate(p) \/ Settle(p) \/ ReportComparison(p) \/ Kill(p)
      BY <2>3, ReportGateStep, SettleStep, ReportComparisonStep, KillStep
  <2> QED BY <1>3, <2>1, <2>2, <2>3 DEF RunnerStep
<1>4. CASE EvaluationNext
    BY <1>2, <1>3, <1>4 DEF EvaluationNext
<1>5. CASE Revert \/ \E q \in Releaser : ReleaseStep(q)
    BY <1>1, <1>5 DEF Revert, ReleaseStep, Decide, WriteRecord, MovePointer, KillRelease
<1> QED BY <1>1, <1>4, <1>5 DEF Next, vars

\* The invariant of the store, of every process on it and of its reports.
THEOREM StoreSafe == Spec => []StoreInv
<1> QED BY InitStore, StoreStep, PTL DEF Spec

\* Every report of a gate or a comparison stands for ever on trials that are finished, filed and
\* graded by what they retain (runner.py, store.py).
THEOREM ReportsStandForEver == Spec => []ReportsStand
<1>1. StoreInv => ReportsStand
    BY DEF StoreInv
<1> QED BY <1>1, StoreSafe, PTL

\* What a comparison spent is in the ledger unless its process was killed (runner.py).
THEOREM LedgerHoldsWhatWasSpent == Spec => []LedgerIsComplete
<1>1. StoreInv => LedgerIsComplete
    BY DEF StoreInv
<1> QED BY <1>1, StoreSafe, PTL

\* What the gate's verdict says of the trials it is given.
LEMMA GatePasses ==
    ASSUME NEW cases, NEW trials, GateDecide(cases, trials) = "pass"
    PROVE  /\ \A t \in trials : ~CriticalViolation(t)
           /\ \A c \in cases : Partition[c] = "regression" =>
                /\ \E t \in trials : t.case = c
                /\ \A t \in trials : t.case = c =>
                     t.status = "completed" /\ t.outcome = "pass" /\ t.execution = "pass"
<1>1. GateFailed(trials) = {} /\ GateBlocked(cases, trials) = {}
    BY DEF GateDecide
<1>2. \A t \in trials : ~CriticalViolation(t)
    BY <1>1 DEF GateFailed
<1>3. ASSUME NEW c \in cases, Partition[c] = "regression"
      PROVE  /\ \E t \in trials : t.case = c
             /\ \A t \in trials : t.case = c =>
                  t.status = "completed" /\ t.outcome = "pass" /\ t.execution = "pass"
  <2>1. {x \in cases : Partition[x] = "regression"} # {}
      BY <1>3
  <2>2. Unproven(trials) = {} /\ \E t \in trials : t.case = c
    <3>1. /\ {t.case : t \in Unproven(trials)} = {}
          /\ {x \in {y \in cases : Partition[y] = "regression"} : \A t \in trials : t.case # x} = {}
        BY <1>1, <2>1 DEF GateBlocked
    <3>2. \A t \in Unproven(trials) : t.case \in {u.case : u \in Unproven(trials)}
        OBVIOUS
    <3>3. c \in {y \in cases : Partition[y] = "regression"}
        BY <1>3
    <3>4. Unproven(trials) = {}
        BY <3>1, <3>2
    <3>5. ~(\A t \in trials : t.case # c)
        BY <3>1, <3>3, Zenon
    <3> QED BY <3>4, <3>5
  <2>3. ASSUME NEW t \in trials, t.case = c
        PROVE  t.status = "completed" /\ t.outcome = "pass" /\ t.execution = "pass"
    <3>1. t.status = "completed" /\ Verdict(t) # "unknown"
        BY <1>2, <1>3, <2>2, <2>3 DEF Unproven
    <3>2. Verdict(t) # "fail"
        BY <1>1, <1>3, <2>3, <3>1 DEF GateFailed
    <3> QED BY <3>1, <3>2 DEF Verdict
  <2> QED BY <2>2, <2>3
<1> QED BY <1>2, <1>3

\* A gate that passed has trials of every regression case, all completed, whose retained evidence
\* proves the outcome and the policy, and shows no critical case a forbidden path (gate.py).
THEOREM GatePassEarned == Spec => []GatePassIsEarned
<1>1. StoreInv => GatePassIsEarned
  <2> SUFFICES ASSUME StoreInv, NEW g \in reports, g.run > 0, g.verdict = "pass"
               PROVE  LET kept == {files[id] : id \in RunTrials(g.run)} IN
                      /\ \A c \in CasesOf("gate") : Partition[c] = "regression" =>
                           /\ \E t \in kept : t.case = c
                           /\ \A t \in kept : t.case = c =>
                                t.status = "completed" /\ GradeOutcome(t.evidence) = "pass"
                                                       /\ GradeExecution(t.evidence) = "pass"
                      /\ \A t \in kept : t.status = "completed" /\ Severity[t.case] = "critical" =>
                           GradeExecution(t.evidence) # "fail"
      BY DEF GatePassIsEarned
  <2>1. Stand(g.run) /\ GateDecide(CasesOf("gate"), Rows(g.run)) = "pass"
      BY DEF StoreInv, ReportsStand
  <2>2. \A id \in RunTrials(g.run) : /\ id \in DOMAIN index /\ files[id] = index[id]
                                     /\ files[id] \in Rows(g.run)
      BY <2>1 DEF Stand, Problem, RunTrials, Rows
  <2>3. {files[id] : id \in RunTrials(g.run)} = Rows(g.run)
      BY <2>2 DEF RunTrials, Rows
  <2>4. \A t \in Rows(g.run) : t.status = "completed" =>
           t.outcome = GradeOutcome(t.evidence) /\ t.execution = GradeExecution(t.evidence)
      BY DEF Rows, StoreInv, RowsGraded
  <2>5. \A t \in Rows(g.run) : ~CriticalViolation(t)
      BY <2>1, GatePasses
  <2>6. \A c \in CasesOf("gate") : Partition[c] = "regression" =>
           /\ \E t \in Rows(g.run) : t.case = c
           /\ \A t \in Rows(g.run) : t.case = c =>
                t.status = "completed" /\ t.outcome = "pass" /\ t.execution = "pass"
      BY <2>1, GatePasses
  <2> DEFINE kept == {files[id] : id \in RunTrials(g.run)}
  <2> HIDE DEF kept
  <2>7. \A c \in CasesOf("gate") : Partition[c] = "regression" =>
           /\ \E t \in kept : t.case = c
           /\ \A t \in kept : t.case = c =>
                t.status = "completed" /\ GradeOutcome(t.evidence) = "pass"
                                       /\ GradeExecution(t.evidence) = "pass"
      BY <2>3, <2>4, <2>6 DEF kept
  <2>8. \A t \in kept : t.status = "completed" /\ Severity[t.case] = "critical" =>
           GradeExecution(t.evidence) # "fail"
      BY <2>3, <2>4, <2>5 DEF kept, CriticalViolation
  <2> QED BY <2>7, <2>8 DEF kept
<1> QED BY <1>1, StoreSafe, PTL

-----------------------------------------------------------------------------
(*                               The releases                                *)

\* A record's configuration was compared with `config` and passed, on code whose gate passed.
Earned(compared, gates, r, config) ==
    \E c \in compared, g \in gates :
        /\ c.run = r.comparison /\ c.verdict = "pass" /\ c.thresholds = r.thresholds
        /\ c.candidate = r.config /\ c.baseline = config
        /\ Clean(c.code) /\ c.code.commit = r.commit
        /\ g.verdict = "pass" /\ g.code = c.code

\* Records are numbered without a gap, each earned against the one before it.
RecordsEarned ==
    /\ \E last \in Nat : DOMAIN records = 1..last
    /\ \A n \in DOMAIN records : n >= 2 =>
          /\ records[n].previous = n - 1
          /\ Earned(comparisons, reports, records[n], records[n - 1].config)

\* What a release command has decided is earned; what it has written is there until it moves the
\* pointer, since the owner reverts between commands only.
ReleaserKnows ==
    /\ releaser = [q \in Releaser |-> releaser[q]]
    /\ \A q \in Releaser : releaser[q].stage # "idle" =>
          /\ releaser[q].stage \in {"record", "pointer"}
          /\ releaser[q] = [stage |-> releaser[q].stage, record |-> releaser[q].record]
          /\ releaser[q].record.previous \in DOMAIN records
          /\ releaser[q].stage = "record" =>
               Earned(comparisons, reports, releaser[q].record,
                      records[releaser[q].record.previous].config)
          /\ releaser[q].stage = "pointer" =>
               Number(q) \in DOMAIN records /\ records[Number(q)] = releaser[q].record

ReleaseInv == RecordsEarned /\ ReleaserKnows /\ CurrentStands

LEMMA InitRelease == Init => ReleaseInv
<1> SUFFICES ASSUME Init PROVE ReleaseInv
    OBVIOUS
<1>1. /\ DOMAIN records = {1} /\ records[1] = FirstRecord /\ pointer = To(1, FirstRecord)
      /\ releaser = [q \in Releaser |-> Idle]
    BY DEF Init
<1>2. {1} = 1..1
    OBVIOUS
<1> QED BY <1>1, <1>2 DEF ReleaseInv, RecordsEarned, ReleaserKnows, CurrentStands, To, Idle

\* What was reported stays reported.
LEMMA ReportsGrow ==
    ASSUME EvaluationNext \/ UNCHANGED evaluationVars
    PROVE  comparisons \subseteq comparisons' /\ reports \subseteq reports'
BY DEF EvaluationNext, RunnerStep, ChangeCode, Begin, Abandon, Ready, StartTrial, FinishTrial,
       WriteFile, ReportGate, Settle, ReportComparison, Kill, evaluationVars

LEMMA EarnedStays ==
    ASSUME comparisons \subseteq comparisons', reports \subseteq reports'
    PROVE  \A r, config : Earned(comparisons, reports, r, config) => Earned(comparisons', reports', r, config)
BY DEF Earned

\* A decision to release names a comparison and a gate that passed on the same clean code.
LEMMA DecidedIsEarned ==
    ASSUME StoreInv, NEW c \in comparisons, NEW gate \in reports, NEW digest, NEW holdout, NEW file,
           NEW baseline, NEW number, ~Failed(c, gate, holdout),
           ~Blocked(c, digest, gate, holdout, file, baseline)
    PROVE  /\ Earned(comparisons, reports, NextRecord(c, digest, gate, holdout, number),
                     baseline.config)
           /\ NextRecord(c, digest, gate, holdout, number).previous = number
<1>1. IsCode(c.code) /\ IsCode(gate.code)
    BY DEF StoreInv, RunIds
<1>2. /\ c.thresholds = digest /\ c.verdict = "pass" /\ c.baseline = baseline.config /\ Clean(c.code)
      /\ gate.verdict = "pass" /\ gate.code.commit = c.code.commit /\ ~gate.code.dirty
    BY DEF Blocked, Stale
<1>3. gate.code = c.code
    BY <1>1, <1>2 DEF IsCode, Clean
<1> QED BY <1>2, <1>3 DEF Earned, NextRecord

LEMMA ReleaseStepKeeps == StoreInv /\ ReleaseInv /\ [Next]_vars => ReleaseInv'
<1> SUFFICES ASSUME StoreInv, ReleaseInv, [Next]_vars PROVE ReleaseInv'
    OBVIOUS
<1> USE DEF ReleaseInv
<1>1. comparisons \subseteq comparisons' /\ reports \subseteq reports'
    BY ReportsGrow DEF Next, ReleaseStep, Decide, WriteRecord, MovePointer, KillRelease, Revert, vars
<1>2. \A r, config : Earned(comparisons, reports, r, config) => Earned(comparisons', reports', r, config)
    BY <1>1, EarnedStays
<1>3. CASE UNCHANGED releaseVars
  <2>1. RecordsEarned' /\ CurrentStands'
      BY <1>2, <1>3 DEF releaseVars, RecordsEarned, CurrentStands
  <2>2. ReleaserKnows'
      BY <1>2, <1>3 DEF releaseVars, ReleaserKnows, Number
  <2> QED BY <2>1, <2>2
<1>4. ASSUME NEW q \in Releaser, Decide(q) PROVE ReleaseInv'
  <2>1. UNCHANGED <<evaluationVars, records, pointer, reverts>>
      BY <1>4 DEF Decide
  <2>2. RecordsEarned' /\ CurrentStands'
      BY <1>2, <2>1 DEF RecordsEarned, CurrentStands
  <2>3. CASE UNCHANGED releaser
      BY <1>2, <2>1, <2>2, <2>3 DEF ReleaserKnows, Number
  <2>4. CASE ~(UNCHANGED releaser)
    <3>1. PICK c \in comparisons, digest \in Digests, gate \in reports,
               holdout \in reports \cup {NoHoldout}, file \in {d.candidate : d \in comparisons} :
             /\ ~Failed(c, gate, holdout)
             /\ ~Blocked(c, digest, gate, holdout, file, records[pointer.baseline])
             /\ releaser' = [releaser EXCEPT ![q] =
                  [stage |-> "record",
                   record |-> NextRecord(c, digest, gate, holdout, pointer.baseline)]]
        BY <1>4, <2>4 DEF Decide
    <3> DEFINE new == NextRecord(c, digest, gate, holdout, pointer.baseline)
    <3>2. /\ Earned(comparisons, reports, new, records[pointer.baseline].config)
          /\ new.previous = pointer.baseline
        BY <3>1, DecidedIsEarned
    <3> HIDE DEF new
    <3>3. /\ releaser' = [x \in Releaser |-> releaser'[x]]
          /\ releaser'[q] = [stage |-> "record", record |-> new]
          /\ \A x \in Releaser : x # q => releaser'[x] = releaser[x]
        BY <3>1 DEF new, ReleaserKnows
    <3>4. pointer.baseline \in DOMAIN records
        BY DEF CurrentStands
    <3>5. ReleaserKnows'
        BY <1>2, <2>1, <3>2, <3>3, <3>4 DEF ReleaserKnows, Number
    <3> QED BY <2>2, <3>5
  <2> QED BY <2>3, <2>4
<1>5. ASSUME NEW q \in Releaser, WriteRecord(q) PROVE ReleaseInv'
  <2> DEFINE record == releaser[q].record
             n == Number(q)
  <2>1. UNCHANGED <<evaluationVars, pointer, releases, reverts>>
      BY <1>5 DEF WriteRecord
  <2>2. PICK last \in Nat : DOMAIN records = 1..last
      BY DEF RecordsEarned
  <2>3. /\ releaser[q] = [stage |-> "record", record |-> record]
        /\ record.previous \in 1..last /\ n = record.previous + 1
        /\ Earned(comparisons, reports, record, records[record.previous].config)
      BY <1>5, <2>2 DEF WriteRecord, ReleaserKnows, Number
  <2>4. CASE n \in DOMAIN records
    <3>1. releaser' = [releaser EXCEPT ![q] = Idle] /\ UNCHANGED records
        BY <1>5, <2>4 DEF WriteRecord
    <3>2. RecordsEarned' /\ CurrentStands'
        BY <1>2, <2>1, <3>1 DEF RecordsEarned, CurrentStands
    <3>3. ReleaserKnows'
        BY <1>2, <2>1, <3>1 DEF ReleaserKnows, Number, Idle
    <3> QED BY <3>2, <3>3
  <2>5. CASE n \notin DOMAIN records
    <3>1. n = last + 1 /\ record.previous = last
        BY <2>2, <2>3, <2>5
    <3>2. /\ records' = With(records, n, record)
          /\ releaser' = [releaser EXCEPT ![q].stage = "pointer"]
        BY <1>5, <2>5 DEF WriteRecord
    <3>3. /\ releaser'[q] = [stage |-> "pointer", record |-> record]
          /\ releaser' = [x \in Releaser |-> releaser'[x]]
          /\ \A x \in Releaser : x # q => releaser'[x] = releaser[x]
        BY <2>3, <3>2 DEF ReleaserKnows
    <3> HIDE DEF n, record
    <3>4. /\ DOMAIN records' = 1..(last + 1) /\ records'[n] = record
          /\ \A i \in 1..last : i \in DOMAIN records' /\ records'[i] = records[i]
        BY <2>2, <3>1, <3>2 DEF With
    <3>5. RecordsEarned'
      <4>1. \A i \in 1..last : i >= 2 =>
               records[i].previous = i - 1 /\ Earned(comparisons', reports', records[i], records[i - 1].config)
          BY <1>2, <2>2 DEF RecordsEarned
      <4>2. Earned(comparisons', reports', record, records[last].config)
          BY <1>2, <2>3, <3>1
      <4> QED BY <2>2, <2>3, <3>1, <3>4, <4>1, <4>2 DEF RecordsEarned
    <3>6. CurrentStands'
        BY <2>1, <2>2, <3>4 DEF CurrentStands
    <3>7. ReleaserKnows'
      <4> SUFFICES ASSUME NEW x \in Releaser, releaser'[x].stage # "idle"
                   PROVE  /\ releaser'[x].stage \in {"record", "pointer"}
                          /\ releaser'[x] = [stage |-> releaser'[x].stage, record |-> releaser'[x].record]
                          /\ releaser'[x].record.previous \in DOMAIN records'
                          /\ releaser'[x].stage = "record" =>
                               Earned(comparisons', reports', releaser'[x].record,
                                      records'[releaser'[x].record.previous].config)
                          /\ releaser'[x].stage = "pointer" =>
                               /\ releaser'[x].record.previous + 1 \in DOMAIN records'
                               /\ records'[releaser'[x].record.previous + 1] = releaser'[x].record
          BY <3>3 DEF ReleaserKnows, Number
      <4>1. CASE x = q
          BY <2>3, <3>1, <3>3, <3>4, <4>1
      <4>2. CASE x # q
          BY <1>2, <2>2, <3>3, <3>4, <4>2 DEF ReleaserKnows, Number
      <4> QED BY <4>1, <4>2
    <3> QED BY <3>5, <3>6, <3>7
  <2> QED BY <2>4, <2>5
<1>6. ASSUME NEW q \in Releaser, MovePointer(q) \/ KillRelease(q) PROVE ReleaseInv'
  <2>1. releaser' = [releaser EXCEPT ![q] = Idle] /\ UNCHANGED <<evaluationVars, records>>
      BY <1>6 DEF MovePointer, KillRelease
  <2>2. RecordsEarned' /\ ReleaserKnows'
      BY <1>2, <2>1 DEF RecordsEarned, ReleaserKnows, Number, Idle
  <2>3. CurrentStands'
      BY <1>6, <2>1 DEF MovePointer, KillRelease, ReleaserKnows, CurrentStands, To
  <2> QED BY <2>2, <2>3
<1>7. CASE Revert
  <2>1. /\ UNCHANGED <<evaluationVars, releaser>> /\ \A q \in Releaser : releaser[q].stage = "idle"
      BY <1>7 DEF Revert
  <2>2. PICK n \in 1..pointer.baseline, last \in DOMAIN records :
           /\ n <= last /\ records' = [i \in 1..last |-> records[i]]
           /\ pointer' = To(n, records[n])
      BY <1>7 DEF Revert
  <2>3. last \in Nat /\ 1..last \subseteq DOMAIN records
      BY DEF RecordsEarned
  <2>4. RecordsEarned'
      BY <1>2, <2>2, <2>3 DEF RecordsEarned
  <2>5. CurrentStands'
      BY <2>2, <2>3 DEF CurrentStands, To
  <2> QED BY <2>1, <2>4, <2>5 DEF ReleaserKnows
<1> QED BY <1>3, <1>4, <1>5, <1>6, <1>7 DEF Next, ReleaseStep, vars

\* Every baseline in force was earned: by a comparison that passed, against the baseline before
\* it, on clean code that a gate passed - whatever races, dies or is reverted (release.py).
THEOREM CurrentBaselineEarned == Spec => []CurrentIsEarned
<1>1. ReleaseInv => CurrentIsEarned
  <2> SUFFICES ASSUME ReleaseInv PROVE CurrentIsEarned
      OBVIOUS
  <2>1. PICK last \in Nat : DOMAIN records = 1..last
      BY DEF ReleaseInv, RecordsEarned
  <2>2. pointer.baseline \in 1..last
      BY <2>1 DEF ReleaseInv, CurrentStands
  <2>3. \A n \in 2..pointer.baseline : n \in DOMAIN records
      BY <2>1, <2>2
  <2> QED BY <2>3 DEF ReleaseInv, RecordsEarned, CurrentIsEarned, Earned
<1> QED BY <1>1, StoreSafe, InitRelease, ReleaseStepKeeps, InitStore, StoreStep, PTL DEF Spec
=============================================================================
