------------------------------ MODULE WorkOrder ------------------------------
(***************************************************************************)
(* control/machine.py and the rules of control/model.py: one WorkOrder, as *)
(* a record that every operation replaces by a new one.  An operation has  *)
(* guards of its own (it raises TransitionRejected and nothing happens);   *)
(* what passes them is still checked twice, by the record's validators and *)
(* by the store's check_evolution, and a record that fails there is        *)
(* refused with an error no operation announces (variable refusal).        *)
(*                                                                         *)
(* Evidence, texts and times are left out, and so are the inputs that only *)
(* lead to TransitionRejected.  An audit, a test or a change record that   *)
(* the guards would not accept is such an input.  What the store checks of *)
(* a write beyond check_evolution (that the profile is a published one) is *)
(* in ControlStore: Envelope holds published versions only.                *)
(***************************************************************************)
EXTENDS Lifecycle, Naturals, Sequences, FiniteSets

CONSTANTS
    Plan,          \* what can be proposed: [blocks, risk, budget], a block is [id, order, memory]
    Profile,       \* agents: exact versions of execution profiles
    Family,        \* the model family of each profile
    Envelope,      \* versions of the project's profile: sequence of [primary, fallbacks, policy]
    Budget,        \* values of max_attempts_per_block
    Sessions,      \* whether the evidence of an audit shows a fresh session
    Raised,        \* codes the coordinator raises on its own observation,
    Severities,    \* with these severities,
    GivenIds,      \* and these ids of its own for a request; the machine counts otherwise
    MaxPlans, MaxGrants, MaxDeviations, MaxAccepted,  \* bounds of the instance
    NoValue

Risk == {"low", "medium"}
Requirement == {"fresh_session", "different_model_family"}
Auditor == {"code_auditor", "memory_auditor", "final_verifier"}
Role == Auditor \cup {"primary_code_executor", "memory_curator"}
BlockSpec == UNION { {pl.blocks[i] : i \in DOMAIN pl.blocks} : pl \in Plan }

Code == { "BUDGET_EXHAUSTED", "ATTEMPTS_EXHAUSTED", "MATERIAL_DEVIATION", "AGENT_UNAVAILABLE",
          "INDEPENDENCE_UNAVAILABLE", "AUDITOR_ERROR", "AUDIT_NOT_VERIFIED", "MEMORY_CONFLICT",
          "BLOCK_CHECKPOINT_MISMATCH", "BASELINE_DRIFT", "PROMOTION_REFUSED",
          "RISK_REQUIRES_HUMAN", "PLAN_AMBIGUITY" }
Gap == Auditor \X Requirement
Request == [ id : Nat, from : AttentionSources, reasons : SUBSET Code, warnings : SUBSET Code,
             gaps : SUBSET Gap, resolved : SUBSET Code, waived : SUBSET Code ]
Audit == [by : Profile, fresh : BOOLEAN]
FinalAudit == [by : Profile, fresh : BOOLEAN, original : BOOLEAN]

ASSUME PlanAssumption ==
    \A pl \in Plan :
       /\ pl.risk \in Risk /\ pl.budget \in Budget
       /\ pl.blocks \in Seq(BlockSpec) /\ Len(pl.blocks) >= 1
       /\ \A i, j \in DOMAIN pl.blocks : pl.blocks[i].id = pl.blocks[j].id => i = j
       /\ \A i \in DOMAIN pl.blocks : pl.blocks[i].order = i
       /\ \A s \in BlockSpec : s.memory \in BOOLEAN
\* The policy of a version may ask for more than the contract, never for less.
Contract(risk) == IF risk = "low" THEN {"fresh_session"} ELSE Requirement
ASSUME ProfileAssumption ==
    /\ \A i \in DOMAIN Envelope :
          /\ Envelope[i].primary \in [Role -> Profile]
          /\ Envelope[i].fallbacks \in [Role -> SUBSET Profile]
          /\ Envelope[i].policy \in [Risk -> SUBSET Requirement]
          /\ \A risk \in Risk : Contract(risk) \subseteq Envelope[i].policy[risk]
    /\ DOMAIN Family = Profile
    /\ 1 \in DOMAIN Envelope
ASSUME BoundAssumption ==
    /\ Budget \subseteq Nat \ {0} /\ MaxAccepted \in Nat
    /\ Sessions \subseteq BOOLEAN /\ Raised \subseteq Code
    /\ Severities \subseteq {"blocking", "warning"} /\ GivenIds \subseteq Nat \ {0}
\* None is none of the values it may stand in for.
ASSUME NoValueAssumption ==
    NoValue \notin Nat \cup Status \cup Risk \cup Request \cup Audit \cup FinalAudit

VARIABLES
    wo,        \* the WorkOrder as stored
    accepted,  \* the broker's accepted commit, counted
    observed,  \* the accepted commit as the coordinator last read it
    refusal,   \* the last write that passed its operation's guards and was refused
    past       \* history, see NoPast

vars == <<wo, accepted, observed, refusal, past>>

BlockStatus ==
    { "PENDING", "RUNNING", "TESTING", "BLOCK_RESULT", "CODE_APPROVED",
      "MEMORY_CURATION", "MEMORY_AUDIT", "BLOCK_CHECKPOINT", "BLOCK_DONE" }

NewBlock(s) ==
    [ spec |-> s, status |-> "PENDING", failed |-> 0, curations |-> 0, coded |-> 0,
      curated |-> 0, tests |-> "none", coders |-> {}, curators |-> {},
      codeAudit |-> NoValue, memoryAudit |-> NoValue, memoryChange |-> "none",
      risk |-> NoValue ]

Draft ==
    [ status |-> "DRAFT", baseline |-> NoValue, candidate |-> FALSE, plans |-> <<>>,
      approved |-> 0, envelope |-> 1, budget |-> NoValue, grants |-> 0, blocks |-> <<>>,
      superseded |-> {}, attention |-> 0, closed |-> {}, request |-> NoValue, waivedGaps |-> {}, deferredFrom |-> NoValue,
      deviations |-> <<>>, finalAudit |-> NoValue, outcome |-> "none" ]

\* The number of requests, counted as far as a given id can meet it.
Counting(n) == IF \E id \in GivenIds : n < id THEN n + 1 ELSE n

-----------------------------------------------------------------------------
(* Independence of an auditor from the producers of what it audits.        *)

\* The policy comes with the version of the project's profile, so change_agent changes it.
\* The family stands for the inference provider, which is compared in the same way.
Required(envelope, risk) == Envelope[envelope].policy[risk]

\* independence_gaps(): every profile declares fresh sessions; the family differs or not.
FamilyGaps(role, auditor, producers, required) ==
    IF /\ "different_model_family" \in required
       /\ \E p \in producers : Family[p] = Family[auditor]
    THEN {<<role, "different_model_family">>} ELSE {}

\* audit_independence_gaps(): a recorded audit also shows that its session was fresh.
AuditGaps(role, audit, producers, required) ==
    FamilyGaps(role, audit.by, producers, required)
      \cup IF audit.fresh \/ "fresh_session" \notin required THEN {}
           ELSE {<<role, "fresh_session">>}

\* waived_independence: all gaps of a request in which the reason was ever waived.
Waived(w) ==
    w.waivedGaps \cup
      IF w.request # NoValue /\ "INDEPENDENCE_UNAVAILABLE" \in w.request.waived
      THEN w.request.gaps ELSE {}

Bound(w, role) == Envelope[w.envelope].primary[role]
ApprovedPlan(w) == w.plans[w.approved]
\* What the plan's risk class requires under the policy in force.
PlanRequires(w) == Required(w.envelope, ApprovedPlan(w).risk)
Latest(w) == w.plans[Len(w.plans)]
BlocksOf(w) == {w.blocks[i] : i \in DOMAIN w.blocks}
Writers(w) == w.superseded \cup UNION {b.coders \cup b.curators : b \in BlocksOf(w)}

\* AUDITED_PRODUCERS, by the auditing role.
Producers(b, role) ==
    CASE role = "code_auditor" -> b.coders
      [] role = "memory_auditor" -> b.curators

\* Gaps that a write-capable step by this profile would open (_producer_gaps).
ProducerGaps(w, role, producer) ==
    LET auditors == IF role = "primary_code_executor"
                    THEN {"code_auditor", "final_verifier"}
                    ELSE {"memory_auditor", "final_verifier"} IN
    UNION { FamilyGaps(a, Bound(w, a), {producer}, PlanRequires(w)) : a \in auditors }
      \ Waived(w)

\* The gaps of the bound primaries for a plan (approve_plan).
PlanGaps(w) ==
    LET memory == \E b \in BlocksOf(w) : b.spec.memory
        coding == {Bound(w, "primary_code_executor")}
        curating == {Bound(w, "memory_curator")}
        gaps(role, producers) ==
            FamilyGaps(role, Bound(w, role), producers, PlanRequires(w)) IN
    (gaps("code_auditor", coding)
       \cup (IF memory THEN gaps("memory_auditor", curating) ELSE {})
       \cup gaps("final_verifier", IF memory THEN coding \cup curating ELSE coding))
      \ Waived(w)

\* A profile is used for a role as its primary or, under a condition, as a fallback.
MayRun(w, role, p) ==
    p \in {Bound(w, role)} \cup Envelope[w.envelope].fallbacks[role]

-----------------------------------------------------------------------------
(* What the validators and check_evolution refuse, by rule.                *)

AuditOf(a) == IF a[1] = "code_auditor" THEN a[2].codeAudit ELSE a[2].memoryAudit
Audits(w) ==
    { a \in {"code_auditor", "memory_auditor"} \X BlocksOf(w) : AuditOf(a) # NoValue }

\* Every audit on record meets the policy in force, whichever it was given under: that of
\* a block for the risk it was judged by, the final one for the risk of the plan.
Independent(w) ==
    /\ \A a \in Audits(w) :
          AuditGaps(a[1], AuditOf(a), Producers(a[2], a[1]), Required(w.envelope, a[2].risk))
            \subseteq Waived(w)
    /\ w.finalAudit # NoValue =>
          AuditGaps("final_verifier", w.finalAudit, Writers(w), PlanRequires(w))
            \subseteq Waived(w)

CodeApproved(b) ==
    b.status \in {"CODE_APPROVED", "MEMORY_CURATION", "MEMORY_AUDIT", "BLOCK_CHECKPOINT",
                  "BLOCK_DONE"} =>
       b.codeAudit # NoValue /\ b.tests = "passed"
MemoryApproved(b) ==
    b.status \in {"BLOCK_CHECKPOINT", "BLOCK_DONE"} =>
       IF b.spec.memory THEN b.memoryAudit # NoValue /\ b.memoryChange \in {"inside", "approved"}
       ELSE b.memoryAudit = NoValue /\ b.memoryChange = "none"

Consistent(w) ==
    /\ (w.candidate \/ w.blocks # <<>>) => w.approved # 0
    /\ w.blocks # <<>> => [i \in DOMAIN w.blocks |-> w.blocks[i].spec] = ApprovedPlan(w).blocks
    /\ w.status \in {"EXECUTING", "FINAL_VERIFICATION"} => w.candidate /\ w.blocks # <<>>
    /\ w.status \in {"FINAL_VERIFICATION", "PROMOTED"} =>
          \A b \in BlocksOf(w) : b.status = "BLOCK_DONE"
    /\ (w.status = "PROMOTED") = (w.outcome = "promoted")
    /\ (w.status = Attention) = (w.request # NoValue)
    /\ (w.status = "DEFERRED") = (w.deferredFrom # NoValue)
    /\ \A b \in BlocksOf(w) : CodeApproved(b) /\ MemoryApproved(b)

DeviationIdsDiffer(w) ==
    \A i, j \in DOMAIN w.deviations : w.deviations[i].id = w.deviations[j].id => i = j

DoneIsKept(old, new) ==
    \A b \in BlocksOf(old) : b.status = "BLOCK_DONE" => b \in BlocksOf(new)

Extends(new, old) == Len(new) >= Len(old) /\ SubSeq(new, 1, Len(old)) = old

\* The open request is not one that was closed before: those are immutable.
IdIsNew(old, new) == new.request # NoValue => new.request.id \notin old.closed

Broken(old, new) ==
    { rule \in {"transition", "consistent", "independence", "deviation_ids", "done", "attention",
                "history"} :
        ~ CASE rule = "transition" -> new.status = old.status \/ <<old.status, new.status>> \in Transition
            [] rule = "consistent" -> Consistent(new)
            [] rule = "independence" -> Independent(new)
            [] rule = "deviation_ids" -> DeviationIdsDiffer(new)
            [] rule = "done" -> DoneIsKept(old, new)
            [] rule = "attention" -> IdIsNew(old, new)
            [] rule = "history" ->
                  /\ old.status \notin Terminal
                  /\ old.baseline # NoValue => new.baseline = old.baseline
                  /\ old.candidate => new.candidate
                  /\ new.approved >= old.approved
                  /\ Extends(new.plans, old.plans)
                  /\ Len(new.deviations) >= Len(old.deviations)
                  /\ old.superseded \subseteq new.superseded }

\* What the record itself forgets or replaces: every profile that ever wrote; whether one
\* wrote after the recorded final audit; the attempts granted in all; and of the last
\* request the codes raised as blocking and not answered since, by an amendment or a
\* waiver, and those a later raise need not answer again: waived before, or first
\* raised as a warning.
NoPast == [ writers |-> {}, afterAudit |-> FALSE, quota |-> 0, unanswered |-> {}, excused |-> {} ]

NoRefusal == [op |-> "none", rules |-> {}]

OpenBlocking(w) ==
    w.request.reasons \ (w.request.warnings \cup w.request.resolved \cup w.request.waived)

\* A request that is opened has its blocking reasons unanswered; one that is closed
\* excuses nothing any more.
Asked(new, remember) ==
    IF new.request = NoValue THEN [remember EXCEPT !.excused = {}]
    ELSE IF wo.request = NoValue
    THEN [remember EXCEPT !.unanswered = OpenBlocking(new),
                          !.excused = new.request.warnings \cup new.request.waived]
    ELSE remember

\* The end of every operation: validated and stored, or refused whole.
Store(op, new, remember) ==
    LET broken == Broken(wo, new) IN
    IF broken = {}
    THEN wo' = new /\ past' = Asked(new, remember) /\ refusal' = NoRefusal
    ELSE refusal' = [op |-> op, rules |-> broken] /\ UNCHANGED <<wo, past>>
Write(op, new) == Store(op, new, past) /\ UNCHANGED <<accepted, observed>>
WriteAnd(op, new, remember) == Store(op, new, remember) /\ UNCHANGED <<accepted, observed>>

-----------------------------------------------------------------------------
(* Attention.                                                              *)

CanRaise(w) == w.request # NoValue \/ w.status \in AttentionSources

\* Defect: a reason that comes back stays resolved.
RaiseKeepsResolved(w, id, codes, warnings, gaps) ==
    IF w.request = NoValue
    THEN [w EXCEPT !.status = Attention, !.attention = Counting(@),
                   !.request = [id |-> id, from |-> w.status, reasons |-> codes,
                                warnings |-> warnings, gaps |-> gaps,
                                resolved |-> {}, waived |-> {}]]
    ELSE [w EXCEPT !.request.reasons = @ \cup codes,
                   !.request.warnings = @ \cup (warnings \ w.request.reasons),
                   !.request.gaps = @ \cup gaps]

\* raise_attention(): a new request, or more reasons in the open one.  A reason that
\* comes back keeps the severity it had and is unresolved again; a waiver of it stays.
RaiseAs(w, id, codes, warnings, gaps) ==
    IF w.request = NoValue
    THEN [w EXCEPT !.status = Attention, !.attention = Counting(@),
                   !.request = [id |-> id, from |-> w.status, reasons |-> codes,
                                warnings |-> warnings, gaps |-> gaps,
                                resolved |-> {}, waived |-> {}]]
    ELSE [w EXCEPT !.request.reasons = @ \cup codes,
                   !.request.warnings = @ \cup (warnings \ w.request.reasons),
                   !.request.gaps = @ \cup gaps,
                   !.request.resolved = @ \ codes]

\* The machine's own reasons are blocking, and its requests are numbered.
Raise(w, codes, gaps) == RaiseAs(w, w.attention + 1, codes, {}, gaps)

\* History: the codes come again while the request of w is open (see Asked for a new one).
Again(w, p, codes, warnings) ==
    IF w.request = NoValue THEN p
    ELSE [p EXCEPT !.unanswered = @ \cup ((codes \ warnings) \ p.excused),
                   !.excused = @ \cup (warnings \ w.request.reasons)]

\* History: the decision's waivers answer.
Heard(w) == [past EXCEPT !.unanswered = @ \ w.request.waived, !.excused = @ \cup w.request.waived]

Close(w, target) ==
    [w EXCEPT !.status = target, !.request = NoValue, !.waivedGaps = Waived(w),
              !.closed = @ \cup ({w.request.id} \cap GivenIds)]

\* Operations that recheck the baseline write `after`, or raise the drift on `before`.
WriteUnlessDrift(op, before, after, remember) ==
    IF observed = wo.baseline THEN WriteAnd(op, after, remember)
    ELSE WriteAnd(op, Raise(before, {"BASELINE_DRIFT"}, {}),
                  Again(before, remember, {"BASELINE_DRIFT"}, {}))

\* Operations that need independence write `new`, or raise the gaps.
WriteUnlessGaps(op, gaps, new, remember) ==
    IF gaps = {} THEN WriteAnd(op, new, remember)
    ELSE Write(op, Raise(wo, {"INDEPENDENCE_UNAVAILABLE"}, gaps))

-----------------------------------------------------------------------------
(* The WorkOrder's own states.                                             *)

Init ==
    /\ wo = Draft
    /\ accepted = 0 /\ observed = 0
    /\ refusal = NoRefusal
    /\ past = NoPast

StartIntake ==
    /\ wo.status = "DRAFT"
    /\ Write("start_intake", [wo EXCEPT !.status = "CONTEXT_INTAKE", !.baseline = observed])

ProposePlan ==
    /\ wo.status \in {"CONTEXT_INTAKE", "PLAN_PROPOSED"}
    /\ Len(wo.plans) < MaxPlans
    /\ \E pl \in Plan :
          Write("propose_plan",
                [wo EXCEPT !.status = "PLAN_PROPOSED", !.plans = Append(@, pl)])

\* Defect: replaced blocks leave no trace of who wrote for them.
ApprovedForgetsReplaced(w) ==
    LET plan == Latest(w)
        done(s) == {b \in BlocksOf(w) : b.status = "BLOCK_DONE" /\ b.spec = s} IN
    [w EXCEPT !.status = "PLAN_APPROVED", !.approved = Len(w.plans),
              !.budget = IF @ = NoValue THEN plan.budget ELSE @,
              !.blocks = [i \in DOMAIN plan.blocks |->
                            IF done(plan.blocks[i]) = {} THEN NewBlock(plan.blocks[i])
                            ELSE CHOOSE b \in done(plan.blocks[i]) : TRUE]]

\* The WorkOrder under its latest plan: finished blocks are kept, others start over and
\* those that were worked on stay as superseded evidence.
Approved(w) ==
    LET plan == Latest(w)
        done(s) == {b \in BlocksOf(w) : b.status = "BLOCK_DONE" /\ b.spec = s}
        replaced == {b \in BlocksOf(w) : b.status # "BLOCK_DONE"} IN
    [w EXCEPT !.status = "PLAN_APPROVED", !.approved = Len(w.plans),
              !.budget = IF @ = NoValue THEN plan.budget ELSE @,
              !.blocks = [i \in DOMAIN plan.blocks |->
                            IF done(plan.blocks[i]) = {} THEN NewBlock(plan.blocks[i])
                            ELSE CHOOSE b \in done(plan.blocks[i]) : TRUE],
              !.superseded = @ \cup UNION {b.coders \cup b.curators : b \in replaced}]

ApprovePlan ==
    /\ wo.status = "PLAN_PROPOSED"
    /\ wo.approved = 0 \/ Len(wo.plans) > wo.approved
    /\ wo.plans # <<>>
    /\ \A b \in BlocksOf(wo) :
          b.status = "BLOCK_DONE" => \E i \in DOMAIN Latest(wo).blocks : Latest(wo).blocks[i] = b.spec
    /\ LET new == Approved(wo)
           gaps == PlanGaps(new) IN
       WriteAnd("approve_plan",
                IF gaps = {} THEN new ELSE Raise(new, {"INDEPENDENCE_UNAVAILABLE"}, gaps),
                [past EXCEPT !.quota = IF wo.budget = NoValue THEN @ + new.budget ELSE @])

\* A replan decided during intake leaves no plan to approve: the code indexes plan -1.
ApproveNoPlan ==
    /\ wo.status = "PLAN_PROPOSED" /\ wo.plans = <<>>
    /\ refusal' = [op |-> "approve_plan", rules |-> {"no_plan"}]
    /\ UNCHANGED <<wo, accepted, observed, past>>

RejectPlan ==
    /\ wo.status = "PLAN_PROPOSED"
    /\ Write("reject_plan", [wo EXCEPT !.status = "ABORTED"])

AttachCandidate ==
    /\ wo.status = "PLAN_APPROVED" /\ ~wo.candidate
    /\ WriteUnlessDrift("attach_candidate", wo, [wo EXCEPT !.candidate = TRUE], past)

StartExecution ==
    /\ wo.status = "PLAN_APPROVED" /\ wo.candidate
    /\ WriteUnlessDrift("start_execution", wo, [wo EXCEPT !.status = "EXECUTING"], past)

EnterFinalVerification ==
    /\ wo.status = "EXECUTING"
    /\ \A b \in BlocksOf(wo) : b.status = "BLOCK_DONE"
    /\ WriteUnlessDrift("enter_final_verification", wo,
                        [wo EXCEPT !.status = "FINAL_VERIFICATION"], past)

\* A repaired report is recorded too, and replaces an earlier audit, but is no authority.
RecordFinalAudit(fresh, original) ==
    LET audit == [by |-> Bound(wo, "final_verifier"), fresh |-> fresh,
                  original |-> original] IN
    /\ wo.status = "FINAL_VERIFICATION"
    /\ WriteUnlessGaps("record_final_audit",
           AuditGaps("final_verifier", audit, Writers(wo), PlanRequires(wo)) \ Waived(wo),
           [wo EXCEPT !.finalAudit = audit], [past EXCEPT !.afterAudit = FALSE])

\* A promotion is recorded whenever an original audit is on record; the gate's refusal
\* escalates.
RecordKernelOutcome(promoted) ==
    /\ wo.status = "FINAL_VERIFICATION"
    /\ promoted => wo.finalAudit # NoValue /\ wo.finalAudit.original
    /\ Write("record_kernel_outcome",
             IF promoted THEN [wo EXCEPT !.status = "PROMOTED", !.outcome = "promoted"]
             ELSE [Raise(wo, {"PROMOTION_REFUSED"}, {}) EXCEPT !.outcome = "refused"])

-----------------------------------------------------------------------------
(* Attention, decisions, deviations.                                       *)

\* The only operation whose caller may choose the severity and the request's id.
RaiseAttention ==
    /\ CanRaise(wo)
    /\ \E code \in Raised, severity \in Severities, id \in {wo.attention + 1} \cup GivenIds :
          LET warnings == IF severity = "warning" THEN {code} ELSE {} IN
          WriteAnd("raise_attention", RaiseAs(wo, id, {code}, warnings, {}),
                   Again(wo, past, {code}, warnings))

Deviations == {wo.deviations[i] : i \in DOMAIN wo.deviations}
DeviationIds == {d.id : d \in Deviations}
\* The bound on deviations; a write under an id that is taken adds none.
Room(id) == Len(wo.deviations) < MaxDeviations \/ id \in DeviationIds

\* The deviations with those approved that the user approves.
Approving(ids) ==
    [i \in DOMAIN wo.deviations |->
        [wo.deviations[i] EXCEPT !.approved = @ \/ wo.deviations[i].id \in ids]]

\* The request with the decision's waivers, and the deviations it approves.
Decided(waived, ids) ==
    [wo EXCEPT !.request.waived = @ \cup waived, !.deviations = Approving(ids)]

Resume(w) ==
    /\ OpenBlocking(w) = {}
    /\ IF w.request.from \in NeedsBaseline
       THEN WriteUnlessDrift("resume", w, Close(w, w.request.from), Heard(w))
       ELSE WriteAnd("resume", Close(w, w.request.from), Heard(w))

Replan(w) == WriteAnd("replan", Close(w, "PLAN_PROPOSED"), [past EXCEPT !.unanswered = {}])

Defer(w) ==
    WriteAnd("defer", [Close(w, "DEFERRED") EXCEPT !.deferredFrom = w.request.from], Heard(w))

Abort(w) == Write("abort", Close(w, "ABORTED"))

\* What an amendment resolves, in the request and in its history.
Resolving(w, codes) == [w EXCEPT !.request.resolved = @ \cup (w.request.reasons \cap codes)]
Resolved(w, codes) == [Heard(w) EXCEPT !.unanswered = @ \ codes]

\* The new profile binds other agents and may require more of the audits on record.
ChangeAgent(w) ==
    LET codes == {"AGENT_UNAVAILABLE", "INDEPENDENCE_UNAVAILABLE"} IN
    \E e \in DOMAIN Envelope :
       /\ e > w.envelope
       /\ WriteAnd("change_agent", [Resolving(w, codes) EXCEPT !.envelope = e], Resolved(w, codes))

\* A new budget restarts the counters of every block that is not done.
Restarted(b) ==
    IF b.status = "BLOCK_DONE" THEN b ELSE [b EXCEPT !.failed = 0, !.curations = 0]

ChangeBudget(w) ==
    LET codes == {"BUDGET_EXHAUSTED", "ATTEMPTS_EXHAUSTED"} IN
    /\ w.grants < MaxGrants
    /\ \E n \in Budget :
          WriteAnd("change_budget",
                   [Resolving(w, codes) EXCEPT !.budget = n, !.grants = @ + 1,
                                               !.blocks = [i \in DOMAIN @ |-> Restarted(@[i])]],
                   [Resolved(w, codes) EXCEPT !.quota = @ + n])

\* To waive or approve again changes nothing.
Decide ==
    /\ wo.status = Attention
    /\ \E waived \in SUBSET (wo.request.reasons \ wo.request.waived) :
       \E ids \in SUBSET {d.id : d \in {e \in Deviations : ~e.approved}} :
          LET w == Decided(waived, ids) IN
          \/ Resume(w) \/ Replan(w) \/ Defer(w) \/ Abort(w)
          \/ ChangeAgent(w) \/ ChangeBudget(w)

\* Defect: what was deferred resumes without a look at the baseline.
ResumeDeferredUnchecked ==
    /\ wo.status = "DEFERRED"
    /\ Write("resume_deferred",
             [wo EXCEPT !.status = wo.deferredFrom, !.deferredFrom = NoValue])

\* Defect: deferred_from survives the return.
ResumeDeferredKeepsFrom ==
    /\ wo.status = "DEFERRED"
    /\ WriteUnlessDrift("resume_deferred", [wo EXCEPT !.status = wo.deferredFrom],
                        [wo EXCEPT !.status = wo.deferredFrom], past)

ResumeDeferred ==
    LET resumed == [wo EXCEPT !.status = wo.deferredFrom, !.deferredFrom = NoValue] IN
    /\ wo.status = "DEFERRED"
    /\ IF wo.deferredFrom \in NeedsBaseline
       THEN WriteUnlessDrift("resume_deferred", resumed, resumed, past)
       ELSE Write("resume_deferred", resumed)

\* record_deviation() on w; a material one escalates.
Deviating(w, id, block, material) ==
    LET recorded == [w EXCEPT !.deviations =
                        Append(@, [id |-> id, block |-> block, approved |-> FALSE])] IN
    IF material THEN Raise(recorded, {"MATERIAL_DEVIATION"}, {}) ELSE recorded

RecordDeviation ==
    /\ wo.status \notin Terminal
    /\ \E id \in 1..(MaxDeviations + 1), material \in BOOLEAN :
          /\ Room(id)
          /\ material => CanRaise(wo)
          /\ WriteAnd("record_deviation", Deviating(wo, id, NoValue, material),
                      IF material THEN Again(wo, past, {"MATERIAL_DEVIATION"}, {}) ELSE past)

-----------------------------------------------------------------------------
(* Blocks: operations on block i of the approved plan.                     *)

In(i, statuses) == wo.status = "EXECUTING" /\ wo.blocks[i].status \in statuses
Put(i, b) == [wo EXCEPT !.blocks[i] = b]
\* Defect: one more than the budget.
AttemptsLeftInclusive(used) == wo.budget # NoValue /\ used <= wo.budget
AttemptsLeft(used) == wo.budget # NoValue /\ used < wo.budget
Exhausted(w) == Raise(w, {"ATTEMPTS_EXHAUSTED"}, {})
Wrote(p) == [past EXCEPT !.writers = @ \cup {p}, !.afterAudit = wo.finalAudit # NoValue]

BeginAttempt(i, p) ==
    LET b == wo.blocks[i] IN
    /\ In(i, {"PENDING"})
    /\ \A j \in 1..(i - 1) : wo.blocks[j].status = "BLOCK_DONE"
    /\ IF ~AttemptsLeft(b.failed) THEN Write("begin_attempt", Exhausted(wo))
       ELSE /\ MayRun(wo, "primary_code_executor", p)
            /\ WriteUnlessGaps("begin_attempt", ProducerGaps(wo, "primary_code_executor", p),
                   Put(i, [b EXCEPT !.status = "RUNNING", !.coded = @ + 1,
                                    !.coders = @ \cup {p}, !.tests = "none",
                                    !.codeAudit = NoValue]),
                   Wrote(p))

FinishRun(i) ==
    /\ In(i, {"RUNNING"})
    /\ Write("finish_run", Put(i, [wo.blocks[i] EXCEPT !.status = "TESTING"]))

RecordTests(i, result) ==
    /\ In(i, {"TESTING"})
    /\ Write("record_tests",
             Put(i, [wo.blocks[i] EXCEPT !.status = "BLOCK_RESULT", !.tests = result]))

\* Tests and audit of the same, current state; the audit is by the bound primary.
ApproveCode(i, fresh) ==
    LET b == wo.blocks[i]
        audit == [by |-> Bound(wo, "code_auditor"), fresh |-> fresh] IN
    /\ In(i, {"BLOCK_RESULT"})
    /\ b.tests = "passed"
    /\ WriteUnlessGaps("approve_code",
           AuditGaps("code_auditor", audit, b.coders, PlanRequires(wo)) \ Waived(wo),
           Put(i, [b EXCEPT !.status = "CODE_APPROVED", !.codeAudit = audit,
                            !.risk = ApprovedPlan(wo).risk]),
           past)

FailAttempt(i) ==
    LET b == wo.blocks[i]
        failed == Put(i, [b EXCEPT !.status = "PENDING", !.failed = @ + 1, !.tests = "none",
                                   !.codeAudit = NoValue]) IN
    /\ In(i, {"RUNNING", "TESTING", "BLOCK_RESULT"})
    /\ Write("fail_attempt", IF AttemptsLeft(b.failed + 1) THEN failed ELSE Exhausted(failed))

\* Only a repetition counts as a curation attempt.
BeginMemoryCuration(i, p) ==
    LET b == wo.blocks[i] IN
    /\ In(i, {"CODE_APPROVED", "MEMORY_AUDIT"})
    /\ b.spec.memory
    /\ IF ~AttemptsLeft(b.curations) THEN Write("begin_memory_curation", Exhausted(wo))
       ELSE /\ MayRun(wo, "memory_curator", p)
            /\ WriteUnlessGaps("begin_memory_curation", ProducerGaps(wo, "memory_curator", p),
                   Put(i, [b EXCEPT !.status = "MEMORY_CURATION", !.curated = @ + 1,
                                    !.curators = @ \cup {p}, !.memoryAudit = NoValue,
                                    !.memoryChange = "none",
                                    !.curations = IF b.status = "MEMORY_AUDIT" THEN @ + 1 ELSE @]),
                   Wrote(p))

\* Changes inside memory_paths, outside of them under an approved deviation, or outside.
FinishMemoryCuration(i, change) ==
    LET b == wo.blocks[i]
        curated == Put(i, [b EXCEPT !.status = "MEMORY_AUDIT", !.memoryChange = change]) IN
    /\ In(i, {"MEMORY_CURATION"})
    /\ change = "approved" =>
          \E j \in DOMAIN wo.deviations :
             wo.deviations[j].block = b.spec.id /\ wo.deviations[j].approved
    /\ IF change = "outside"
       THEN /\ Room(Len(wo.deviations) + 1)
            /\ Write("finish_memory_curation",
                     Deviating(curated, Len(wo.deviations) + 1, b.spec.id, TRUE))
       ELSE Write("finish_memory_curation", curated)

\* Defect: the change record is not looked at.
ApproveMemoryUnchecked(i, fresh) ==
    LET b == wo.blocks[i]
        audit == [by |-> Bound(wo, "memory_auditor"), fresh |-> fresh] IN
    /\ In(i, {"MEMORY_AUDIT"})
    /\ Write("approve_memory", Put(i, [b EXCEPT !.status = "BLOCK_CHECKPOINT",
                                                !.memoryAudit = audit]))

ApproveMemory(i, fresh) ==
    LET b == wo.blocks[i]
        audit == [by |-> Bound(wo, "memory_auditor"), fresh |-> fresh] IN
    /\ In(i, {"MEMORY_AUDIT"})
    /\ b.memoryChange # "outside"
    /\ WriteUnlessGaps("approve_memory",
           AuditGaps("memory_auditor", audit, b.curators, Required(wo.envelope, b.risk)) \ Waived(wo),
           Put(i, [b EXCEPT !.status = "BLOCK_CHECKPOINT", !.memoryAudit = audit]), past)

EnterBlockCheckpoint(i) ==
    /\ In(i, {"CODE_APPROVED"})
    /\ ~wo.blocks[i].spec.memory
    /\ Write("enter_block_checkpoint",
             Put(i, [wo.blocks[i] EXCEPT !.status = "BLOCK_CHECKPOINT"]))

ProveBlockCheckpoint(i, proves) ==
    /\ In(i, {"BLOCK_CHECKPOINT"})
    /\ Write("prove_block_checkpoint",
             IF proves THEN Put(i, [wo.blocks[i] EXCEPT !.status = "BLOCK_DONE"])
             ELSE Raise(wo, {"BLOCK_CHECKPOINT_MISMATCH"}, {}))

BlockStep(i) ==
    \/ \E p \in Profile : BeginAttempt(i, p) \/ BeginMemoryCuration(i, p)
    \/ FinishRun(i) \/ FailAttempt(i) \/ EnterBlockCheckpoint(i)
    \/ \E result \in {"failed", "passed"} : RecordTests(i, result)
    \/ \E fresh \in Sessions : ApproveCode(i, fresh) \/ ApproveMemory(i, fresh)
    \/ \E change \in {"inside", "approved", "outside"} : FinishMemoryCuration(i, change)
    \/ \E proves \in BOOLEAN : ProveBlockCheckpoint(i, proves)

-----------------------------------------------------------------------------
(* The environment: another WorkOrder is promoted, the coordinator reads   *)
(* what the broker accepted.                                               *)

AcceptedMoves ==
    /\ accepted < MaxAccepted
    /\ accepted' = accepted + 1
    /\ UNCHANGED <<wo, observed, refusal, past>>

ObserveAccepted ==
    /\ observed # accepted
    /\ observed' = accepted
    /\ UNCHANGED <<wo, accepted, refusal, past>>

Next ==
    \/ StartIntake \/ ProposePlan \/ ApprovePlan \/ ApproveNoPlan \/ RejectPlan
    \/ AttachCandidate \/ StartExecution \/ EnterFinalVerification
    \/ \E fresh \in Sessions, original \in BOOLEAN : RecordFinalAudit(fresh, original)
    \/ \E promoted \in BOOLEAN : RecordKernelOutcome(promoted)
    \/ RaiseAttention \/ Decide \/ ResumeDeferred \/ RecordDeviation
    \/ \E i \in DOMAIN wo.blocks : BlockStep(i)
    \/ AcceptedMoves \/ ObserveAccepted

Spec == Init /\ [][Next]_vars

-----------------------------------------------------------------------------
(* Properties.                                                             *)

KnownRefusal ==
    { <<"approve_plan", {"no_plan"}>>, <<"approve_plan", {"transition"}>>,
      <<"approve_plan", {"transition", "independence"}>>,
      <<"record_deviation", {"deviation_ids"}>>, <<"finish_memory_curation", {"deviation_ids"}>> }
    \cup { <<op, {"independence"}>> : op \in {"approve_plan", "begin_attempt",
                                             "begin_memory_curation", "change_agent"} }

\* The operations that may open a request.
Raising ==
    { "approve_plan", "attach_candidate", "start_execution", "enter_final_verification",
      "record_final_audit", "record_kernel_outcome", "raise_attention", "resume_deferred",
      "record_deviation", "begin_attempt", "approve_code", "fail_attempt",
      "begin_memory_curation", "finish_memory_curation", "approve_memory",
      "prove_block_checkpoint" }

\* The machine announces its refusals as TransitionRejected: what its own guards let pass
\* is refused by a validator or by the store afterwards in these cases only.  A plan is
\* approved with an independence gap or without a plan.  A final audit of an earlier plan
\* is disqualified by the new plan's risk or by a new writer.  A change of agents brings
\* a stricter policy, which an audit on record does not meet.  A deviation's id is taken.
\* A request is opened under an id that is closed already, which takes a caller that
\* chose an id itself, then or before.
OnlyKnownRefusals ==
    LET others == refusal.rules \ {"attention"} IN
    /\ others # {} => <<refusal.op, others>> \in KnownRefusal
    /\ "attention" \in refusal.rules => refusal.op \in Raising /\ GivenIds # {}

\* Work and final verification are entered only while the planned baseline is what the
\* broker was last seen to accept, whichever operation enters them: a start, a resume, a
\* return from DEFERRED.
DriftIsNeverAbsorbed ==
    [][ /\ wo'.status \in {"EXECUTING", "FINAL_VERIFICATION"}
        /\ wo.status # wo'.status
        => observed = wo'.baseline ]_vars

\* Attention is left for the state it was raised in only when every reason was answered
\* after it was last raised as blocking, by an amendment or by a waiver: a reason that
\* comes back, after an amendment resolved it, must be answered again.  Two are excused,
\* as the code has it: one waived before in the same request, whatever is raised after
\* the waiver, and one first raised as a warning, which stays a warning.
ResumeNeedsResolution ==
    [][ /\ wo.status = Attention
        /\ wo'.status \in AttentionSources
        => past'.unanswered = {} ]_vars

\* The final audit on record is independent of every profile that ever wrote for this
\* WorkOrder, those whose blocks a replan dropped included, but for gaps the user waived.
FinalAuditIndependentOfAllWriters ==
    wo.finalAudit # NoValue =>
       FamilyGaps("final_verifier", wo.finalAudit.by, past.writers, PlanRequires(wo))
          \subseteq Waived(wo)

\* A block is coded at most as often as attempts were granted in all, and curated at most
\* once more: only a repeated curation counts against max_attempts_per_block.
AttemptsWithinBudget ==
    \A b \in BlocksOf(wo) : b.coded <= past.quota /\ b.curated <= past.quota + 1

\* No working state is entered with a blocking reason that was neither resolved nor waived.
WorkIsSettled == wo.status \in AttentionSources => past.unanswered = {}

\* What is promoted was audited as it is: no write-capable role ran after the final audit.
PromotedAsAudited == wo.status = "PROMOTED" => ~past.afterAudit

=============================================================================
