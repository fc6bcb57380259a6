# Cloudeo: a TLA+ verification project

Cloudeo routes engineering work to AI agents and keeps the owner's repository
safe from them: agents work in *candidates* (Git worktrees), an independent
auditor inspects the exact state, and a gate alone may move the *accepted* state.
This directory holds TLA+ models of its core, their TLC instances and TLAPS
proofs. Paths below are relative to `src/src/cloudeo/` unless they begin with
`docs/`, which is `src/docs/`, or with `mission-control/`, which is
`src/mission-control/`.

## 1. The system

| Component | State | Operations | Model |
|---|---|---|---|
| workspace broker `workspace/git.py` | Git refs `accepted`, per candidate `base`, `checkpoints/*`, `promoted`, `rejected`; worktrees | initialize, create_candidate, checkpoint, promote, reject, cleanup | `GitWorkspaceBroker`, `AcceptedState` |
| promotion gate `longhorizon/promotion_gate.py` | none of its own: candidate, verification, content of the worktree | evaluate, checkpoint_and_promote_verified | `PromotionGate` |
| WorkOrder state machine `control/machine.py`, `control/model.py` | one immutable record: status, blocks, plans, attention, audits, budgets | 24 operations, each returning a new record | `WorkOrder`, `Lifecycle` |
| control store `control/store.py` | SQLite rows with a version, the event log, the registry and the profiles of projects | register, publish, create, update (compare-and-swap and `check_evolution`), replay | `ControlStore`, `AtomicRecord` |
| orchestration `orchestration/` | none: drives machine, store, runtime and gate | observe the baseline, authorize and dispatch an attempt, assess its failure, record the gate's outcome | `Orchestration`, `Runtime` |
| Mission Control `mission_control/` and the page's data layer `mission-control/src/data/` | event cursor, what the page shows, the dialog of an owner's command | queries, event stream, owner commands | `MissionControl` |
| UHP bridge `bridge/` | frozen snapshot, remote session, journal of an apply | snapshot, run remotely, fetch and validate a delta, drift check, apply with rollback | `WorkspaceTransport`, `WorkspaceBridge` |
| workspace audit `bridge/audit.py`, `longhorizon/workspace_auditor.py`, `longhorizon/audit_result.py` | frozen snapshot, report, verdict | audit over the bridge, recheck, normalization, format repair | `WorkspaceAudit` |
| execution backends and UHP client `execution/`, `uhp/` | none | map a runtime's answer to an outcome | `Runtime` |
| controller `core/`, with `adapters/treg.py` | a run in progress; the last economics and evidence on the shared client | discover, route, bounded attempts with ledger readings, verify, record | `Controller`, `TregDiscovery`, `ToolValidation` |
| evaluation `evaluation/` | trial index, evidence files, ledger of the week, baseline records and pointer | gate and compare commands, abandon, grade, decide a release | `Grading`, `Evaluation`, `Release` |
| managed run, views, scenarios, rest of the web client | — | — | not modelled (6) |

How they interact: an executor's episode runs in a candidate's worktree, or in a
remote session whose delta the bridge applies to it; the auditor works on a frozen
copy, and its normalized verdict with the evidence of what it saw makes a
*verification*; the gate takes the verification to the broker (checkpoint, then
promote). Above this kernel the WorkOrder records intake, an approved plan, each
block's attempts, tests and audits, the user's decisions, and finally what the gate
answered; each operation reads a stored version, computes the next record, and the
store accepts it only if the version is still current. Drivers of the orchestration
and the owner, through Mission Control, are the writers. The controller (one-off
tool calls over Treg and Jev) and the evaluation stand beside this.

What is hard:

* The broker takes no lock. Every public operation is a sequence of Git
  subprocesses, several processes may call it at once, an executor keeps
  writing in the same worktree, and a process may die between two commands.
  Everything rests on the conditions inside `git update-ref --stdin`
  transactions.
* The gate looks at content and HEAD first and promotes later; executors and
  other gate calls act in between.
* Every WorkOrder record passes three layers of rules written at different
  times: the operation's guards, the record's validators, and the store's
  comparison with the predecessor. They must agree on every legal sequence of
  calls: replans, waivers, deferrals, changes of agents and budgets.
* Nothing serializes drivers: an attempt is begun in memory and sent to a runtime
  before it is stored, its task outlives the driver, and Git and SQLite
  describe one promotion with a crash possible between them.
* A page shows what it read some time ago, its stream drops and resumes at a cursor,
  and the owner decides on what is on the screen.
* The bridge compares a candidate that nobody locks, then changes it file by file,
  and takes the files back when one fails.
* All requests of the API share one Treg client whose attributes carry what belongs
  to one call; commands of the evaluation abandon each other's trials.

What makes each component correct:

* broker: one accepted commit that only fast-forwards, at most one decision for
  each candidate, no lost update between candidates, evidence that is never
  deleted, causes that are named truthfully;
* gate: nothing is accepted that the audit did not see; an answer that says
  promoted is true; a refusal has a cause;
* WorkOrder: a legal sequence of calls never produces a record the store
  refuses; audits independent of all producers; budgets respected; a moved
  baseline noticed; attention left by `resume` only when each reason was answered after it
  was last raised (with the two excuses of 4);
* store: no lost update, a log that is the history, references that never dangle;
  orchestration: what a runtime is asked to do was granted by a stored version; a
  record says promoted only if the broker promoted; a failure called safe is one
  whose task has stopped;
* Mission Control: a quiet screen is current, a screen that is behind catches up,
  decisions are recorded on the version that was shown;
* bridge: an apply is the whole result or nothing, and never overwrites a newer
  local change; once the runtime has answered, a call ends; audit: a VERIFIED verdict is
  about the state that was inspected;
* controller: what is answered as passed is proven; money that is reported is that call's
  where nobody else used the endpoint meanwhile, and never an unrelated call's if the
  ledger could be read before;
* evaluation: a report stands on retained evidence, unknown is never success, the
  ledger forgets nothing, and the baseline in force was earned.

`PROJECT.json` lists the components with their status and, under `hazards`, each
place in the code where something can go wrong that a test would hardly reach.

## 2. Modules

    AcceptedState                what the broker promises, atomically
        ^ refinement (ImplementsPromise)
    GitWorkspaceBroker  <----  GitWorkspaceBrokerProofs
        ^ EXTENDS                  ^ EXTENDS
    PromotionGate       <----  PromotionGateProofs

    Lifecycle                    statuses and their transitions
        ^ EXTENDS
    WorkOrder     ControlStore   (both)
        ^             ^ EXTENDS
        |     MissionControl    Orchestration  <----  OrchestrationProofs
        |     ^    | refinement       ^ EXTENDS
        |     |    v (ActsAtomically) |
        |     |  AtomicRecord       Runtime
        |     |                       ^ EXTENDS
        |     |           WorkspaceTransport <- WorkspaceBridge <- WorkspaceAudit
        |     |                                              WorkspaceProofs -^
        |   MissionControlProofs
    WorkOrderProofs

    TregDiscovery, ToolValidation  <-  Controller  <-  ControllerProofs
    Grading  <-  Evaluation  <-  Release  <-  EvaluationProofs

    MCBroker, MCGate, MCWorkOrder, MCMissionControl, MCOrchestration,
    MCWorkspace, MCController, MCEvaluation      TLC instances

### GitWorkspaceBroker

*State.* The object database is `commits` with `tree`, `parent` and `anc` (all
ancestors, itself included). The refs are one variable each; a ref that does not
exist is `NoCommit`. A worktree is `head`, `index` and `files`. Contents are
model values: two trees are equal or not, which is all the broker asks.
`call[p]` is what process `p` is in the middle of, its arguments and what it has
read so far, or the outcome of its last call.

*Actions.* An operation is a `Begin...` action and one action for each later read
or write that another process's step can fall before; consecutive reads that
nobody's step can tell apart are one action. A compare-and-swap transaction
(`InitCas`, `CreateBase`, `CheckpointRecord`, `PromoteRefs`, `RejectRefs`) is one
action because Git makes it so, and it may fail for a reason of Git's own when
`MayFail`. Where the code explains a failed transaction by reading again
(`_promote` after `_update_refs`), the re-read is a separate action
(`PromoteRefused`, `PromoteReread`), so that the explanation may be outdated.
`MakeCommit` lets a commit name an object that already exists with the same
parent and tree, which Git does when author and second agree.

*Crash.* `Drop(p)` forgets the call at any step and leaves what it has written.
There is nothing else to recover: all state is Git's.

*Executor.* `ExecutorEdits`, `ExecutorCommits` and `ExecutorChecksOut` happen
between any two Git commands, also inside a checkpoint.

*Abstract specification.* `AcceptedState` has the four facts a caller relies on
and changes them atomically. The refinement reads `history` back from the refs
(`History`), `origin` is `base`, and `decision` is derived from the two markers.

### PromotionGate

Extends the broker: a gate call is a broker caller whose calls come from
`checkpoint_and_promote_verified`. `gate[p]` holds its stage, the verification,
and what it read; the stages follow the code's order (outcome and identity,
accepted state, open candidate, content and HEAD, checkpoint, comparison of the
checkpoint, promotion). `BeginGate` enumerates verifications that name a real
candidate, base and HEAD. `undisturbed[p]` is history: it stays true while nobody
else touches what the call depends on, and lets `RefusedOnlyForACause` say that
the gate is not refusing at random. `OnlyTheGatePromotes` is the system's
rule ("Direct `promote()` is permanently forbidden outside the authorized
promotion gate", `docs/02_DECISIONS.md`), which the callers follow: only an
evaluation scenario calls `promote` itself, on a repository of its own.

### WorkOrder

*State.* `wo` is the stored record; an operation computes a new one by
`EXCEPT`. `Write(op, new)` is the end of each operation: the record is stored if no
rule is `Broken`, else nothing is stored and `refusal` names the operation
and the rules. `Broken` gathers the validators of `control/model.py` and
`check_evolution`, which `store.update` runs in the transaction that
replaces the row. An input that an operation's own guard refuses
(`TransitionRejected`) changes nothing and is no step.

*Environment.* `accepted` counts the moves of the broker's accepted commit,
`observed` is the coordinator's last reading of it (`orchestration/baseline.py`);
the operations that compare baselines compare with `observed`.

*Profiles.* `Envelope` is the sequence of published versions of the project's profile: the
agents of each role and the independence policy. `change_agent` takes another version, and with
it its policy; the audits on record are judged again under it (`Required`, `Independent`).

*Attention.* A request has its id, the reasons raised as blocking and those raised as
warnings, and what was resolved or waived of them. A reason raised again goes into the open
request (`RaiseAs`): one that was resolved is open again, one that was waived stays waived, and one
first raised as a warning stays a warning. The machine numbers requests; a caller
may choose an id (`GivenIds`), which may be a closed one.

*History.* `past` is not in the code: who ever wrote, whether somebody wrote after the final
audit, how many attempts were granted in all, which reasons were raised as blocking and
not answered since (`unanswered`), and which a raise need not open again (`excused`). It
is kept from what callers did (a raise, a waiver, an amendment), never read off the request; the
properties need it because the record itself forgets these things.

*Abstracted.* Texts, times, evidence references, billing, and the inputs that only lead to
`TransitionRejected`. Of the independence requirements fresh sessions and a comparison of
model families are kept; a different inference provider is compared in the same way, and a
read-only workspace like a session's freshness, so these and with them the risk class
`high` add nothing to the way gaps arise, are waived and are checked. There is one
writer: what two writers do to one version is `ControlStore`'s matter.

### ControlStore and AtomicRecord

*State.* `registry`, `envelopes` (the published profiles of projects), `row` and
`log` are the four tables. *Actions.* Each write is one `BEGIN IMMEDIATE`
transaction, so one action: `RegisterProfile`, `SaveProfile`, `Create`, `Update`.
`CanUpdate` is compare-and-swap, `check_evolution` (`Evolves`), the check of the
snapshot and of the used profiles, in that order; a refused write changes nothing.
A writer reads in a transaction of its own before, and the time in between belongs to
the modules that extend this one. A fingerprint stands for the content it hashes.

*Abstract specification.* `AtomicRecord`: a WorkOrder changes as if every operation
read, decided and wrote in one step, alone. `MissionControl` implements it
(`ActsAtomically`) with drivers and owner commands whose reads and writes
interleave.

### MissionControl

One page watches one WorkOrder; one driver and the owner's commands write it. The
stream (`stream.py`) reads the head of the log, polls from its cursor in batches,
and may end, drop or meet an unreadable store; `v2-provider.tsx` reconnects, polls
while the stream is down, and re-reads when a change is announced during a read. A
command is a dialog opened on a version (`OpenDialog`), the handler's check against
what is stored (`CommandChecks`), its write (`CommandWrites`) and an answer that may be
lost. `MaxFaults` counts what goes wrong on the way. Of a record the module keeps what decides
whether an offered command is accepted; `approve_plan` is refused where there is no new version,
where the plan has an independence gap, and where it does not fit what is done (`done`,
`unfit`): it changes or drops a finished block, or disqualifies the final audit on record.

### Orchestration and Runtime

`driver[d]` is what a driver's process holds: the WorkOrder it loaded, the version a
write will expect, a grant and the task it waits for. Of the machine's operations this
module has those around an attempt and a promotion, on one block; `WorkOrder` has them
all. `DispatchAttempt` is `dispatch_attempt` (begin in memory, send, then store);
`Authorize` and `RunAuthorized` are the managed run's way. A task moves on its own
after its driver is gone. `Answer` is `execution_failure.py` on what `Runtime`'s
`OutcomeOf` makes of an answer; `CallGate` is the promise of `PromotionGate` in one
step (it promotes only from an undrifted base, once, and may refuse any) and what
`record_kernel_outcome` makes of the result.

### WorkspaceTransport, WorkspaceBridge, WorkspaceAudit

The candidate is `files`, a content for each path; `own` is what it would be had the
bridge never written, so that a property can tell whose change is where; `edited` and
`moved` remember how far the call was when somebody else changed a path, the HEAD or
the accepted commit. Transport is what a sync and an audit share: freeze, two uploads,
one task, an executor that unpacks, works and packs in any order or never, one answer,
fetch and validation. The bridge then compares, plans, and applies file by file with a
journal (`journal`), rolls back when a step fails, and may be interrupted or fail in
the rollback too. The audit applies nothing: it looks at the candidate and the accepted
commit again, and `verdict` is what the normalizer makes of the report, with at most one
format repair. Left out: symbolic links, encoding, size limits other than
`OutputLimitExceeded`.

### Controller, TregDiscovery, ToolValidation

`run[r]` is a request between two awaits; `client` is the adapter that all requests
share, with its `last_...` attributes. Discovery's queries, the near-miss retry, the
choice of endpoints and the binding of inputs are functions in `TregDiscovery`, on sets
of words without their leading verb; Jev may rank any of the tools and name others. The
deterministic check of an output is a function in `ToolValidation`, on the
signals it tells apart. `treg` is what Treg keeps: the ledger, and the charges it has not
settled yet. The ledger is read before and after a call, and either reading may fail; a
call's settlement is entered at once, at any later time (`SettleLate`), or never.

### Grading, Evaluation, Release

`Grading` has the grades, the regression gate and the paired verdict as functions of
trials. `Evaluation` has the commands over one store: each trial is begun, observed,
finished in the index and then written as a file; any process may be killed between
these, or interrupted, and another command's start abandons what is still running.
`Release` adds the release decision with its immutable records and the pointer that
names one of them.

## 3. Runs

| Run | Instance | Shows |
|---|---|---|
| `broker_one` | 1 candidate, 2 callers, all six operations, executor edits, commits and checks out, `MayFail`; 2 initial commits, 1 new; 116 thousand states | `TypeOK`, `DecidedOnce`, `PromotedWasRecorded`, `StaleIsFinal`, `EvidenceIsKept`, `AcceptedOnlyFastForwards`, `ImplementsPromise` |
| `broker_rivals` | 2 candidates, 2 callers, 1 initial commit, 2 new; 550 thousand states | `PromotedStaysInHistory` |
| `gate` | 2 callers that run the gate or reject, executor edits, 1 candidate, 2 new commits; 420 thousand states | `OnlyAuditedStateIsAccepted`, `PromotedResultIsTrue`, `RefusedOnlyForACause` |
| `workorder_replan` | two plans of one and of two blocks, three versions of the project's profile (the second exchanges producers and verifiers, the third has a stricter policy), one regrant of attempts, one move of the accepted commit; 407 thousand states | `OnlyKnownRefusals`, `FinalAuditIndependentOfAllWriters`, `AttemptsWithinBudget`, `DriftIsNeverAbsorbed` |
| `workorder_evidence` | one plan with memory curation, one deviation, audits without fresh sessions, a reason raised as blocking or as a warning at any time, a request's id chosen by the caller, a second version of the profile with a fallback and a dependent verifier; 119 thousand states | `OnlyKnownRefusals`, `ResumeNeedsResolution` |
| `mission_control` | one page, one driver, one owner command, two writes, one fault, from attention in intake or after a replan behind a finished block; 386 thousand states | `ActsAtomically`, `OwnerDecidesOnWhatWasShown`, `OnlyApprovalIsRefused`, `QuietMeansCurrent`, `CatchesUp` |
| `orchestration` | 2 drivers, one WorkOrder from five points of its life, two tasks, two attempts, a second version of a profile in two contents; 345 thousand states | `LogIsTheHistory`, `ProfilesAreTraceable`, `DispatchedAsApproved`, `SafeMeansStopped`, `PromotedIsAccepted` |
| `workspace` | one sync or audit, six paths, one edit by somebody else, two of the executor's, one failure, two foreign archives; 1.05 million states | `RefusedMeansUntouched`, `SyncedMeansWholeResult`, `NewerLocalChangesSurvive`, `OnlyProjectFilesChange`, `VerifiedMeansAudited`, `CallEnds` |
| `controller` | two requests: tools given or a dry run beside one that discovers; four endings of a call, settled at once, late or never, one earlier call in the ledger; 2.12 million states | `PassedIsProven`, `EconomicsAreItsCalls`, `EvidenceNamesTheCandidates` |
| `evaluation` | two runners and two releasers in eleven worlds: a gate beside a comparison, refusals by budget and code, rival releases; one kill, one change of code, three releases, one revert; 1.40 million states | `ReportsStand`, `GatePassIsEarned`, `LedgerIsComplete`, `CurrentIsEarned` |
| `workorder_deferred`, `workorder_stale_audit` | one plan or two | violations, see 4 |

Deadlock is not reported because these systems may stop: a decided
candidate whose worktree is gone, a WorkOrder that is promoted or aborted, a call
that has returned, requests and commands that are all answered.

*Fairness.* Two runs make a liveness claim, and both use weak fairness only.
`MissionControl!FairSpec`: the browser's event loop and timers and the server's
handlers go on (`ReadRecord`, `Show`, `PollTick`, `Connect`, `Reopen`, `ReadHead`,
`PollEvents`, `StreamEnds`, `Deliver`): each of these is a step that the code has
scheduled itself by an interval, a retry timer, an awaited response or a loop. Nothing
is assumed of writers, the owner, or faults, which are finite. `WorkspaceAudit!FairSpec`:
the steps of a call between two awaits of the runtime go on, up to its upload and from its
answer. Nothing is assumed of the runtime's answer: `uhp/client.py:239-249` sets no read
timeout for a task without `timeout_seconds`, which is the default
(`bridge/models.py:102`), and with one it bounds the silence between two chunks and
not the task. So `CallEnds` says that a call ends or is waiting for the runtime, and ends once
that has answered, whatever the answer is. The executor, other editors and failures are
free. The other components have
no fairness and no liveness claim: every step of the broker, the gate and the WorkOrder
is made at the will of a caller, nothing in that code retries or schedules, and a
process may die for good at any point.

Why these bounds. The proofs (5) remove them for every safety property of the passing
runs; what follows says why the instances show the interesting cases, and it is all there is
for the two liveness properties.

* *Broker and gate.* Every race is between two calls, or a call and an executor: each
  condition is re-established inside one transaction, so a third process adds no new
  order of two conflicting transactions. One candidate shows everything about decisions
  and crashes; two are needed for a lost update. Two new commits are needed to tell an
  audited commit from another on the same parent.
* *WorkOrder.* Two plans are needed for a replan, two blocks for the order of
  blocks and for memory impact, a second version of the profile for a change of agents (the first
  run exchanges their families, the second adds a fallback and a verifier of the producer's
  family) and a third for a stricter policy, budget 1 reaches exhaustion at once and one regrant shows a
  restart of the counters. `MaxPlans`, `MaxGrants`, `MaxDeviations` and `MaxAccepted` bound the
  counters of the model. `Sessions` divides the two runs: audits show
  fresh sessions in the first and never do in the second; both at once is left
  out for size. The second run has what concerns attention: `Raised`, a code that the
  coordinator raises by itself and that may be waived; both `Severities`; and in `GivenIds` the
  one id that a caller may choose, before the machine reaches that number and after.
* *Mission Control.* `MCHistories` are two lives of eight versions, up to the two commands that
  decide something: an answer to attention, and the approval of a plan when a block is finished. A
  version is either what the screen shows or a later one; two writes from there
  (`MaxVersion` 10) give a change during the read that another change caused, and
  with `BatchLimit` 1 a stream that is more than one batch behind. One fault can fall
  anywhere; after it everything works again, which is when the page has to catch up.
* *Orchestration.* Two drivers that hold one version are all a compare-and-swap can
  meet. `MCHistories` starts at the points where an attempt, a decision or the gate is
  next, and `MaxVersion` leaves one or two writes from there; a later version number is
  reachable because a plan may be proposed again any number of times.
* *Workspace.* The six paths are one of each kind the code treats apart: ordinary,
  ignore rules, a directory's file and the file in its place, a root instruction file,
  an excluded one. One edit by another at any step and one failure at any step, the
  rollback's included, meet every step of an apply of up to three files.
* *Controller.* Two requests are needed to mix the shared attributes and the ledger, two
  attempts of one to meet the late settlement of the first. `Labels` is a
  given tool, a tool that is no candidate and the refusal to choose. `Endings` is an
  error that is settled late, silence that is settled, proof that is settled and whose charge the
  command names, and a contradiction that is never settled.
  `Unmetered` names the request whose balance commands may fail.
* *Evaluation.* `WorldsDef` separates what would only multiply: one world for the races
  of two commands, one for the gate's grading of all evidence, one for releases over
  comparisons made elsewhere, and the refusals. One trial costs up to 2 with `RunCap` 2
  and `WeekCap` 4, so that every cap is reached.

Commits made during a run, contents, candidates, callers and drivers are symmetric where
no order of theirs is used; the runs with liveness use no symmetry.

`OnlyKnownRefusals` lists the ways a write passes an operation's own guards and is
then refused by a validator. They were found by starting from the empty list; each
is reached in one of the two runs, but for an approval that has both a gap and a disqualified final
audit, which takes a fourth version whose writers and auditors are of one family (TLC reaches it
then; the instance is 836 thousand states). Six operations are affected: `approve_plan`
(without a plan, from a state that cannot raise attention, and where an older final
audit disqualifies the plan), `begin_attempt` and `begin_memory_curation`
(an older final audit by the same family), `change_agent` (the new version has a stricter policy,
which an audit on record does not meet), `record_deviation` and
`finish_memory_curation` (a deviation id that is taken). Beside these, whatever opens an attention
request (`Raising`) is refused when its id is a closed request's, which takes a caller
that chose an id, now or earlier. The second refusal of `approve_plan` means
that it answers an independence gap with a record in
`USER_ATTENTION_REQUIRED`, a step that `WORK_ORDER_TRANSITIONS` lacks from the stored
`PLAN_PROPOSED`: the gap is never raised. `OnlyApprovalIsRefused` shows what the owner
sees of it.

Every property of a passing run has a mutant in `PROJECT.json`: an operator marked
"defect" in the module that replaces a definition and under which TLC finds the
property violated.

## 4. Findings

* `workorder_deferred`: `defer` closes the attention request, and
  `resume_deferred` returns to work without asking for the reasons that
  `resume` would have required to be resolved or waived.
* `workorder_stale_audit`: a promotion that the gate refused may be replanned;
  the earlier final audit stays on record and suffices to record `PROMOTED` for the
  new plan's work. (The gate itself still compares content with its own
  verification; it is the record's claim that fails.)

What the models show the code not to promise, so that no property may claim it:

* A gate call that nobody disturbs may be refused without a cause if an executor takes HEAD
  back to the audited commit during the checkpoint: Git then makes, within the same second,
  the very commit that an earlier call had recorded, and the transaction that creates its
  ref fails. `RefusalHasACause` (5) therefore excludes this one move of the executor.
* A second gate call on one verification can return as `refused_after_checkpoint` the
  very commit the first has just had accepted, though `promotion_gate.py` calls that
  checkpoint "candidate history, never accepted state".
* Two drivers may both send the same attempt, and an authorization outlives an abort.
  What holds is `DispatchedAsApproved`.
* A promotion may stay unrecorded: the driver dies after the gate, and a repeated gate
  call is refused and recorded as `PROMOTION_REFUSED`. Only the direction
  `PromotedIsAccepted` holds.
* A local write between the plan's comparison of a file and its replacement is
  overwritten by an apply; `NewerLocalChangesSurvive` ends where the plan does.
* Work may resume past a reason that nobody answered after it was raised. A waiver covers
  later raises of its code in the same request, over whatever evidence (`model.py:768-776`), and a
  reason first raised as a warning stays one when it is raised as blocking
  (`machine.py:298-306`). `ResumeNeedsResolution` excuses these two and nothing else; the text
  that `workorder_deferred` is held against has no such excuse.
* A runtime that never answers leaves a sync or an audit waiting for ever, by default.
* A failed call keeps the economics of the call before it on the shared client. An
  amount read from the ledger is the first new entry of the endpoint, whoever's call that was
  (`adapters/treg.py:941`): a concurrent request's, a late settlement of an earlier call,
  or, without a reading before the call, any older one's. `EconomicsAreItsCalls` says within which
  entries the amounts lie, and when they are the call's own: when `stderr` named the charge, and
  when both readings succeeded and no other call's entry of the endpoint lies between them.
* A choice that Jev does not rank first is tried first and once more in its old place
  (`core/controller.py:202`): one tool can use two of the bounded attempts.
* The weekly cap holds neither for two comparisons that start together nor after a kill,
  a killed trial keeps no evidence file, and a record left behind by a killed release
  makes later ones fail.

## 5. Proofs

### Broker and gate

`GitWorkspaceBrokerProofs` proves, for any sets of commits, contents, candidates
and callers and whichever operations and executor moves are used:
`TypeCorrectness`, `OneDecision`, `OnlyRecordedIsPromoted`, `NoLostUpdate`,
`StaleForever`, `FastForwardsOnly`, `EvidenceForever`, and `Implementation`
(the refinement of `AcceptedState`).

The safety properties are not inductive. The invariant `IInv` adds to them:

* `ObjectsOK`: ancestry is a partial order on the commits that exist. Without
  acyclicity an accepted commit could come back, and `StaleIsFinal` and the
  freshness of a promoted commit (`k \notin history` in `AcceptedState`) fail.
* `NamesOK`, `Registered`: refs name objects, and whatever hangs on a candidate
  hangs on its base ref.
* `BaseWasAccepted`: a base was accepted and is an ancestor of what is. It turns
  the transaction's comparison `accepted = base` into a fast-forward.
* `CallOK`: what a call in flight may rely on of what it read some steps ago; for
  instance a call in a promotion step holds a recorded checkpoint of its
  candidate (checkpoints are never removed), and one that answered stale has a
  base strictly below the accepted commit.
* `CreationIsPrivate`: until `create_candidate` returns no other call has the
  candidate. The rollback needs it: it deletes a base ref, which would otherwise
  take away what a checkpoint or a decision hangs on.

One lemma per action shows that it keeps `IInv`; `OnlyCallMoves` does it once for the
many steps that only read. The action properties and the step simulation follow
from `IInv` by the same split.

`PromotionGateProofs` extends `IInv` to the composition (`GateInv`: the
verification of a call past its checks is of an existing HEAD, and a call that is
promoting has compared the very commit it promotes) and proves
`OnlyTheAuditedIsAccepted`. Two more invariants build on it:

* `HoldInv`: a call that answered `promoted` holds a commit that is some candidate's
  promoted ref, hence in the accepted history. Refs of decisions are never moved, so it
  stays true whatever comes after (`PromotedResultStaysTrue`).
* `CourseInv` says of every call that nobody disturbed what it may rely on at its stage
  (`OnCourse`): the candidate is open and its base still accepted, the worktree still holds
  the audited content on the audited HEAD, and the checkpoint made from it has the
  parent and the tree that the comparison will ask for. It needs `ParentOK` (a commit
  comes after its parent) and `HeadHolds` (what is recorded of a candidate, or about to be, is in
  the history of its HEAD, so that a commit made on HEAD is not an object already
  recorded). `RefusalHasACause` follows. Its hypothesis, that no executor checks out
  another commit, is needed: TLC shows the refusal without it, see 4.

Assumptions: `RootAssumption` (some commits exist first), `NoValueAssumption`
(the absent values are not values), `MayFailAssumption`, and for the gate
`OnlyTheGatePromotes`.

### Store and orchestration

`OrchestrationProofs` proves, for any drivers, WorkOrders, profiles and projects and any
number of versions, tasks, attempts and promotions, all five properties of the run:
`LogHistory`, `ProfileTraceability`, `DispatchIsApproved`, `SafeFailureIsStopped` and
`PromotionIsAccepted`, and `OrchestrationTypes`, the type invariant. The invariant
`OrchestrationInv` adds to them:

* `LogOK`: a record in the log carries its entry's version, its attempts are among its
  used profiles, and `from`, where `resume` returns to, is never `PROMOTED`. Without
  the last a resumed WorkOrder could be promoted by nobody.
* `TasksOK`: a task's grant was made of a stored version (`GrantedBy`).
* `HoldersOK`, of each driver: what is loaded is a stored version under the version a
  write will expect, so that a grant made of it is one of a stored version; a grant in
  hand stays good because the log only grows; what is marked safe belongs to a stopped
  task, and the driver holds no grant with which it could send another.

`HolderOK` takes the log, the tasks and the accepted WorkOrders as arguments, so that
`HolderStays` says once for all actions that it survives their growth. `WriteInv` is the
one transaction that appends to the log; `UpdateInv` and `CreateWorkOrderInv` use it,
`QuietInv` and `OperateInv` serve the steps of one driver in memory.

Assumptions: `NoRowAssumption`, `InputAssumption` (the sets that inputs come from are of
their types) and `StartAssumption`: the store at the start is one that its own
transactions can have written (an empty one is), with nothing promoted yet.

### WorkOrder

`WorkOrderProofs` proves all five properties of the two WorkOrder runs, for any plans, agents,
budgets and numbers of replans, grants, deviations and moves of the baseline:
`RefusalsAreKnown`, `FinalAuditIsIndependent`, `AttemptsAreGranted`, `DriftIsNoticed`,
`ResumeIsSettled`. None is inductive; `IInv` is, with these parts:

* `Sound`: the record is one that the validators of `control/model.py` accept, in the
  state it is in and in the one it goes back to (`Stage`: `resume` and `resume_deferred` return
  to a remembered status, so the record must fit that one all along). Each block's
  audits are free of gaps that nobody waived, under the policy of the version in force
  (`BlockAuditsHold`): a change of that version keeps this because the write is refused otherwise.
* `FinalAuditHolds`: the same for the final audit. It is a part of its own because a replan,
  a later writer or a stricter policy can break it; that the write is then refused is where most
  of the known refusals come from.
* `DeviationIdsDiffer`: an id that is taken is refused, which is the remaining refusal.
* `Counted`: how a block's count of failed attempts, the budget in force and all attempts ever
  granted hang together. A regrant restarts the count, so without the sum over
  earlier budgets `AttemptsWithinBudget` does not survive it.
* `Remembered`: nobody who ever wrote is missing from the record's `Writers`. A replan replaces
  the blocks, and the record must carry over who worked on the old ones.

`ResumeIsSettled` has an invariant of its own, `AskInv`: what the history holds unanswered is
open in the request (`Answers`), through every operation that raises, merges, resolves, waives,
closes or defers. The guard of `resume`, which asks the request, then speaks for the history. Without it
the property is lost as soon as one merge forgets to open a reason again, which is its mutant.

For `RefusalsAreKnown` a write is compared with what the store will look at (`Follows`): each
operation's lemma says which rules its record can break, and that these are listed. The lemmas go
operation by operation, and those about one block's record serve all operations that
replace one block.

Assumptions: `PlanAssumption` (plans have blocks with distinct ids in their order),
`ProfileAssumption` (an envelope assigns profiles to roles, there is a first one),
`BoundAssumption` (budgets are positive, the model's bounds are of their types) and
`NoValueAssumption`.

### Mission Control

`MissionControlProofs` proves the run's four safety properties, for any records, histories,
numbers of commands, faults and versions: `ImplementsAtomicRecord` (the refinement of
`AtomicRecord`), `OfferedIsAccepted`, `DecidesOnTheDialog`, `QuietIsCurrent`.

`OfferedIsAccepted` knows three causes for which an approval that the page offers is refused; the
last, a plan that does not fit what is done, exists only after a replan behind a finished block.

* `OwnerInv`: the log numbers the versions without a gap and the row is its last entry, and
  everything anybody holds (the driver's record, a command's base, the dialog, the screen) is a
  version of that log. A write that passes the comparison of versions is then made of the
  current record, which is the step of `AtomicRecord` and the owner's decision on what was shown.
* `StreamInv`: `Wired` (what the handler has read up to is on the wire or was delivered last,
  and it lies in the log) and `Fresh` (what was delivered is on the screen, or will be by the
  request in flight, or that one is marked stale). `Fresh` is what the re-read after a change
  during a read is for; without the mark `QuietMeansCurrent` is lost in the second step.

Assumption: `PageAssumption` (the watched WorkOrder exists, its history at the start is one
that its own writes can have made, and no version is mistaken for an absent one).

### Workspace

`WorkspaceProofs` proves the run's five safety properties, for any paths, contents, trees,
archives and numbers of edits and failures: `RefusedLeavesNothing`, `SyncedHoldsWholeResult`,
`NewerIsKept`, `ProjectOnly`, `VerifiedIsAudited`. `BridgeInv` has, beside the properties:

* before the plan: `Untouched` (the bridge has written nothing) and `Checked` (what was not
  edited since the drift check is as it was sent);
* during the apply: `Remaining` (what is left to do is the candidate's own still), `Done` (what
  is done holds the archive's content, nothing else was written), `Backups` (an entry of the
  journal is what the path's editors left) and `Restorable` (whatever the bridge has
  written has an entry). The rollback takes entries from the journal's end one at a time and may be
  interrupted, so the four relate `files`, `own`, `todo` and `journal` at each step;
* `FromHelper`: an archive is somebody else's or says truly how its body differs from the
  snapshot. `ProjectOnly` needs it for the runtime's own file in the root.

`VerifiedIsAudited` adds `Findings`: what the audit has found out, and that a change after
it is remembered in `moved` and `edited`.

Assumptions: `TransportAssumption` (paths of each kind are paths, contents are told from the
bootstrap and from no file, no file lies inside another at the start, and a foreign
archive is an archive) and `AuditAssumption`.

### Controller and evaluation

`ControllerProofs` proves `EveryResultIsVerified`, `EconomicsBelongToTheCall` and
`EvidenceIsOfThisDiscovery`, for any number of requests and any earlier ledger, entered by anybody.
`ControllerInv` has two parts. `Requests` is `Good` of each request in progress: its fields in the
stage it has reached, its attempts, and what it has copied from the shared client. `Accounts`
relates what a request holds to the ledger (`ItsCalls`): the reservation of a call that is running
was entered after its first reading (`IsReserved`), and what its finished attempts report lies within
the entries between their two readings (`TriesAreOwn`). Other requests and late settlements only append,
so that this outlives them (`CallsStayIts`). The amounts are this call's, and not those of the call
whose attributes it finds, because it copies them in the step that computes them
(`ReadAfter`), before the next `await`; of the shared attributes between steps nothing is said.

`EvaluationProofs` proves `ReportsStandForEver`, `LedgerHoldsWhatWasSpent`,
`GatePassEarned` and `CurrentBaselineEarned`, for any suites, runners, worlds, kills and changes of
code.

* `StoreInv`: run ids are handed out once, and no report bears the run of a command that is
  still going on (`RunIds`); a completed row is graded by its own evidence (`RowsGraded`); what
  a command has finished stands in index and files, but for the one trial it is at
  (`Progress`); a running trial has its process or that one was killed (`RunningIsOwned`),
  so that abandoning does not touch what a report will stand on; `GateIsFree` and
  `ComparisonIsSettled` give the ledger.
* `ReleaseInv`: records are numbered without a gap, each earned against the one before
  (`RecordsEarned`); what a release command has decided is earned and, once written, there
  until the pointer is moved (`ReleaserKnows`); the pointer names a record (`CurrentStands`).

Assumptions: `ControllerAssumption`, `EvaluationAssumption` (constants are of their types,
reports from elsewhere bear no run of this store) and `ThresholdsInRange`.

### What the proofs corrected

`OnlyProjectFilesChange` first said that the runtime's own file is in the root only
where the candidate's own content is that file. The attempt to prove it failed at the rollback:
a path that held such a file when it was sent, and that somebody edited after its backup was
made, gets the backup. The property now says so (`Bootstrap \in {own[p], sent[p]}`).
The hypothesis of `RefusalHasACause` was found in the same way.

### Only model-checked

* `CatchesUp` and `CallEnds`: liveness under fairness, out of the prover's reach, as is
  `ENABLED`.
* What the folds and recursive functions of `Grading` and `TregDiscovery` compute for every
  input: it needs induction over data. The theorems about the evaluation and the controller
  use of such an operator its definition, or that it is one function of its arguments.
* The two expected violations of 4.

## 6. Not modelled, and why

* The managed run's loop (`longhorizon/manager_integration.py`, `longhorizon/adapter.py`): it hands
  Cloudeo's executor and auditor to an external manager, and the order of episodes,
  retries and stops is decided there. What its adapters do within an episode is in
  `WorkspaceBridge`, `WorkspaceAudit` and `Orchestration`.
* The view models of Mission Control: projections of stored records, without state.
* The evaluation's scenarios and fakes: fixtures; what they observe is an input of
  `Evaluation`.
* HTTP, subprocesses and the parsing of their text in the adapters and the UHP client;
  SQL of the run database (one insert, the last step of `Controller`); rendering in the
  web client, of which the data provider and the command dialog are modelled.
* In the broker: the listing operations, which only read; path checks of worktrees,
  replaced by "the directory exists". In the bridge: symbolic links, archive encoding
  and sizes. In the controller: texts, replaced by what the code tells apart; a leading verb of
  a query is a word of its own, and the ledger's list is taken as oldest first, on which no
  property depends.
* In Mission Control: a store that is replaced behind a page, so that its cursor lies past the end of
  the log, and a connection that stays open and delivers nothing.
* Copies of earlier releases under `.cloudeo-backups/` are not the program.

Hazards that no property covers carry a note in `PROJECT.json`.

## 7. Plan

Done: all components of the table in 1, their runs, and a theorem for each safety property
and each refinement of the passing runs.

Worth adding to the proofs:

1. An abstract specification of the apply (the candidate changes to the whole result or
   not at all, others' edits at any time) that `WorkspaceBridge` implements, and one of the
   baseline in force for `Release`.
2. What `Grading` decides for one case, as lemmas about its operators that need no
   induction: a worse grade of either half never improves a paired verdict.
3. That `Orchestration`'s `CallGate`, the promise of the gate in one step, is what
   `PromotionGate` keeps.
