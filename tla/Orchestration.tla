---------------------------- MODULE Orchestration ----------------------------
(***************************************************************************)
(* cloudeo.orchestration over the control store: drivers that load a       *)
(* WorkOrder, apply an operation of control/machine.py in memory, send     *)
(* the executor's task to a runtime, read its outcome, call the promotion  *)
(* gate, and store what came of it under the version they loaded.          *)
(*                                                                         *)
(* Nothing serializes the drivers: each may be a process of its own, and   *)
(* may die anywhere.  The task outlives the driver that sent it.  Of the   *)
(* machine's operations (modelled whole in WorkOrder) this module has the  *)
(* ones around an attempt and a promotion, on a WorkOrder of one block.    *)
(* A harness and its model are those of a profile version: what a task     *)
(* runs is named by the reference of that version.                         *)
(***************************************************************************)
EXTENDS ControlStore, Runtime

CONSTANTS
    Driver,
    Histories,        \* logs the store may hold at the start
    KnownProfiles, KnownEnvelopes,  \* registered and published by then
    Offered, Proposed,              \* what may be registered and published, with those
    NotIndependent,   \* profile versions of the auditors' model family
    Endings,          \* final states of a task
    MaxAttempts,      \* the plan's max_attempts_per_block
    MaxVersion, MaxTasks, MaxHead   \* bounds of the instance

ASSUME InputAssumption ==
    /\ Endings \subseteq Results \ {"in_progress"}
    /\ KnownProfiles \subseteq Offered /\ Offered \subseteq Ref
    /\ KnownEnvelopes \subseteq Proposed /\ Proposed \subseteq Envelope

Code == { "BASELINE_DRIFT", "ATTEMPTS_EXHAUSTED", "AGENT_UNAVAILABLE",
          "INDEPENDENCE_UNAVAILABLE", "PROMOTION_REFUSED" }
BlockStatus ==
    { "PENDING", "RUNNING", "TESTING", "BLOCK_RESULT", "CODE_APPROVED", "MEMORY_CURATION",
      "MEMORY_AUDIT", "BLOCK_CHECKPOINT", "BLOCK_DONE" }
WorkOrderRecord ==
    [ version : Version, status : Status, from : Status, open : SUBSET Code,
      envelope : Envelope, used : Seq(Ref), amendments : Seq(Envelope), baseline : Nat,
      block : BlockStatus, attempts : Seq(Ref), failed : Nat, audited : BOOLEAN ]
EventEntry ==
    [id : WorkOrderId, version : Version, event : {"created", "stored"}, record : WorkOrderRecord]

ASSUME NoRowAssumption == NoRow \notin WorkOrderRecord

\* The store at the start is one that its transactions have written, with no WorkOrder
\* promoted yet.
ASSUME StartAssumption ==
    /\ \A r, s \in KnownProfiles : r.profile = s.profile /\ r.version = s.version => r = s
    /\ \A e, f \in KnownEnvelopes : e.project = f.project /\ e.version = f.version => e = f
    /\ \A e \in KnownEnvelopes : e.profiles \subseteq KnownProfiles
    /\ \A history \in Histories :
          /\ history \in Seq(EventEntry)
          /\ \A i \in DOMAIN history :
                LET w == history[i].record IN
                /\ w.version = history[i].version
                /\ w.version = 1 \/ \E j \in 1..(i - 1) : /\ history[j].id = history[i].id
                                                       /\ history[j].version = w.version - 1
                /\ w.envelope \in KnownEnvelopes /\ Elements(w.used) \subseteq KnownProfiles
                /\ Elements(w.attempts) \subseteq Elements(w.used)
                /\ w.status # "PROMOTED" /\ w.from # "PROMOTED"
          /\ \A i, j \in DOMAIN history :
                i < j /\ history[i].id = history[j].id => history[i].version < history[j].version

VARIABLES
    driver,   \* what each driver holds
    tasks,    \* tasks sent to the runtime, by the order they were sent in
    head,     \* the accepted commit, counted
    promoted  \* WorkOrders whose candidate the broker has promoted

vars == <<store, driver, tasks, head, promoted>>

Idle == [at |-> "idle"]
Held(d) == driver[d].held

NewWorkOrder(envelope) ==
    [ version |-> 1, status |-> "DRAFT", from |-> "DRAFT", open |-> {}, envelope |-> envelope,
      used |-> <<>>, amendments |-> <<>>, baseline |-> 0, block |-> "PENDING",
      attempts |-> <<>>, failed |-> 0, audited |-> FALSE ]

\* Replay gives the current records.
Latest(history, id) ==
    LET of == {i \in DOMAIN history : history[i].id = id} IN
    IF of = {} THEN NoRow ELSE history[CHOOSE i \in of : \A j \in of : j <= i].record

Init ==
    /\ registry = KnownProfiles
    /\ envelopes = KnownEnvelopes
    /\ log \in Histories
    /\ row = [id \in WorkOrderId |-> Latest(log, id)]
    /\ driver = [d \in Driver |-> Idle]
    /\ tasks = <<>>
    /\ head = 0
    /\ promoted = {}

-----------------------------------------------------------------------------
(*                   Profiles are registered and published                 *)

Register(ref) ==
    /\ RegisterProfile(ref)
    /\ UNCHANGED <<driver, tasks, head, promoted>>

Publish(envelope) ==
    /\ SaveProfile(envelope)
    /\ UNCHANGED <<driver, tasks, head, promoted>>

CreateWorkOrder(id, envelope) ==
    /\ Create(id, NewWorkOrder(envelope), "created")
    /\ UNCHANGED <<driver, tasks, head, promoted>>

-----------------------------------------------------------------------------
(*                   Operations on the WorkOrder in memory                 *)

\* `base` is the version a later write will expect.
Load(d, id) ==
    /\ driver[d] = Idle
    /\ row[id] # NoRow
    /\ driver' = [driver EXCEPT ![d] =
          [at |-> "loaded", id |-> id, base |-> row[id].version, held |-> row[id],
           grant |-> NoRow, task |-> 0, safe |-> FALSE]]
    /\ UNCHANGED <<store, tasks, head, promoted>>

Quietly == UNCHANGED <<store, tasks, head, promoted>>
Operate(d, new) ==
    /\ driver' = [driver EXCEPT ![d].held = new, ![d].at = "changed"]
    /\ Quietly
\* One operation for each load, except what dispatch itself does.
Loaded(d, statuses) == driver[d].at = "loaded" /\ Held(d).status \in statuses

Raise(w, code) ==
    IF w.status = Attention THEN [w EXCEPT !.open = @ \cup {code}]
    ELSE [w EXCEPT !.status = Attention, !.from = w.status, !.open = {code}]
CanRaise(w) == w.status \in AttentionSources \cup {Attention}

StartIntake(d) ==
    /\ Loaded(d, {"DRAFT"})
    /\ Operate(d, [Held(d) EXCEPT !.status = "CONTEXT_INTAKE", !.baseline = head])

\* The baseline is observed from the broker when it is asked for.
Drifted(w) == w.baseline # head
StartExecution(d) ==
    /\ Loaded(d, {"PLAN_APPROVED"})
    /\ Operate(d, IF Drifted(Held(d)) THEN Raise(Held(d), "BASELINE_DRIFT")
                  ELSE [Held(d) EXCEPT !.status = "EXECUTING"])

FinishRun(d) ==
    /\ Loaded(d, {"EXECUTING"}) /\ Held(d).block = "RUNNING"
    /\ Operate(d, [Held(d) EXCEPT !.block = "TESTING"])

Failed(w) == [w EXCEPT !.block = "PENDING", !.failed = @ + 1]
FailAttempt(d) ==
    /\ Loaded(d, {"EXECUTING"}) /\ Held(d).block \in {"RUNNING", "TESTING"}
    /\ Operate(d, IF Failed(Held(d)).failed < MaxAttempts THEN Failed(Held(d))
                  ELSE Raise(Failed(Held(d)), "ATTEMPTS_EXHAUSTED"))

Closed(w, target) == [w EXCEPT !.status = target, !.open = {}]
\* resume, every open reason resolved or waived; the baseline is rechecked.
Resume(d) ==
    /\ Loaded(d, {Attention})
    /\ LET w == Held(d) IN
       Operate(d, IF w.from \in NeedsBaseline /\ Drifted(w) THEN Raise(w, "BASELINE_DRIFT")
                  ELSE Closed(w, w.from))

\* change_agent: a newer version of the project's profile, whoever published it.
ChangeAgent(d, envelope) ==
    /\ Loaded(d, {Attention})
    /\ envelope.project = Held(d).envelope.project
    /\ envelope.version > Held(d).envelope.version
    /\ Operate(d, [Held(d) EXCEPT !.envelope = envelope, !.amendments = Append(@, envelope),
                                  !.open = @ \ {"AGENT_UNAVAILABLE", "INDEPENDENCE_UNAVAILABLE"}])

Abort(d) == Loaded(d, {Attention}) /\ Operate(d, Closed(Held(d), "ABORTED"))

\* An update of what the driver holds; a grant it was given stays in its hands.
\* A write that is refused raises, and the driver gives up.
Store(d) ==
    LET me == driver[d] IN
    /\ me.at = "changed"
    /\ me.base < MaxVersion
    /\ Update(me.id, me.held, me.base, "stored")
    /\ driver' = [driver EXCEPT ![d] =
          IF CanUpdate(me.id, me.held, me.base) /\ me.grant # NoRow
          THEN [me EXCEPT !.held = row'[me.id], !.base = row'[me.id].version, !.at = "loaded"]
          ELSE Idle]
    /\ UNCHANGED <<tasks, head, promoted>>

\* The driver's process dies, or it drops what it held.
Crash(d) ==
    /\ driver[d] # Idle
    /\ driver' = [driver EXCEPT ![d] = Idle]
    /\ Quietly

-----------------------------------------------------------------------------
(*                        Dispatch of an attempt                           *)

\* begin_attempt() records the attempt: the next block of an executing WorkOrder, an
\* attempt left, and a profile of the envelope (the bound primary, or a fallback under
\* its condition) that leaves the auditors independent.
MayBegin(w, ref) ==
    /\ w.status = "EXECUTING" /\ w.block = "PENDING" /\ w.failed < MaxAttempts
    /\ ref \in w.envelope.profiles /\ ref \notin NotIndependent

Begun(w, ref) ==
    [w EXCEPT !.block = "RUNNING", !.attempts = Append(@, ref),
              !.used = IF ref \in Elements(@) THEN @ ELSE Append(@, ref)]

Grant(d, ref) ==
    [id |-> driver[d].id, base |-> driver[d].base, attempt |-> Len(Held(d).attempts) + 1,
     profile |-> ref]

\* begin_attempt() raises attention instead, and nothing is authorized.
BeginRefused(d, ref) ==
    LET w == Held(d) IN
    /\ Loaded(d, {"EXECUTING"}) /\ w.block = "PENDING" /\ ref \in w.envelope.profiles
    /\ ~MayBegin(w, ref)
    /\ Operate(d, Raise(w, IF w.failed >= MaxAttempts THEN "ATTEMPTS_EXHAUSTED"
                           ELSE "INDEPENDENCE_UNAVAILABLE"))

\* authorize_executor_attempt(), for a managed run.
Authorize(d, ref) ==
    /\ driver[d].at = "loaded" /\ driver[d].grant = NoRow
    /\ MayBegin(Held(d), ref)
    /\ driver' = [driver EXCEPT ![d].held = Begun(@, ref), ![d].at = "changed",
                                ![d].grant = Grant(d, ref)]
    /\ Quietly

\* The task names the approved harness and model, or none; the approved ones are sent.
Requests == {NoRow} \cup Offered
AsRequested(ref, request) == IF request = NoRow THEN ref ELSE request
TaskOf(ref, request) == IF request \in {NoRow, ref} THEN ref ELSE NoRow

Send(d, grant, runs) ==
    /\ runs # NoRow
    /\ Len(tasks) < MaxTasks
    /\ tasks' = Append(tasks, [grant |-> grant, runs |-> runs, state |-> "sent"])
    /\ UNCHANGED <<store, head, promoted>>

\* dispatch_attempt(): begun in memory and sent, before anything is stored.
DispatchAttempt(d, ref, request) ==
    /\ driver[d].at = "loaded" /\ driver[d].grant = NoRow
    /\ MayBegin(Held(d), ref)
    /\ Send(d, Grant(d, ref), TaskOf(ref, request))
    /\ driver' = [driver EXCEPT ![d].held = Begun(@, ref), ![d].at = "waiting",
                                ![d].task = Len(tasks')]

\* A managed run under its authorization, which nothing ever takes back: before or
\* after the attempt is stored.
RunAuthorized(d) ==
    LET me == driver[d] IN
    /\ me.at \in {"loaded", "changed"} /\ me.grant # NoRow
    /\ Send(d, me.grant, TaskOf(me.grant.profile, NoRow))
    /\ driver' = [driver EXCEPT ![d].at = "waiting", ![d].task = Len(tasks'), ![d].grant = NoRow]

\* The runtime refuses a task or takes it, perhaps after its client has given up.
TaskMoves(i) ==
    /\ \E step \in {<<"sent", "refused">>, <<"sent", "running">>} \cup {"running"} \X Endings :
          /\ tasks[i].state = step[1]
          /\ tasks' = [tasks EXCEPT ![i].state = step[2]]
    /\ UNCHANGED <<store, driver, head, promoted>>

\* An answer fits what the task is, but a failure of the request says nothing of it.
Fits(answer, state) ==
    CASE answer \in Results -> state = IF answer = "in_progress" THEN "running" ELSE answer
      [] answer = "http_4xx" -> state = "refused"
      [] OTHER -> TRUE

-----------------------------------------------------------------------------
(*                 The outcome of the attempt, and of the gate             *)

FailureStatuses == {"failed", "cancelled", "incomplete", "unknown"}
TerminalObserved == {"failed", "cancelled"}

\* assess_execution_failure() and route_execution_failure(): attention, never a
\* fallback.  What is no failure is not mapped.
Answer(d, answer) ==
    LET me == driver[d]  outcome == OutcomeOf(answer) IN
    /\ me.at = "waiting"
    /\ Fits(answer, tasks[me.task].state)
    /\ driver' = [driver EXCEPT
          ![d].at = "changed",
          ![d].held = IF outcome \in FailureStatuses /\ CanRaise(@)
                      THEN Raise(@, "AGENT_UNAVAILABLE") ELSE @,
          ![d].safe = outcome \in TerminalObserved]
    /\ Quietly

\* Defect: a checkpoint is taken for a promotion.
CheckpointPromotes(stage) == stage # "refused_before_checkpoint"
\* KernelOutcome.promoted
IsPromoted(stage) == stage = "promoted"

\* record_kernel_outcome() on a result that kernel_outcome_from_gate() accepts.
Recorded(w, stage) ==
    IF IsPromoted(stage) THEN [w EXCEPT !.status = "PROMOTED"] ELSE Raise(w, "PROMOTION_REFUSED")

\* checkpoint_and_promote_verified() on the final audit: it promotes only a candidate
\* that begins from the accepted commit and was not promoted before, and may refuse
\* any.  Then the outcome is recorded in memory.
CallGate(d, stage) ==
    LET me == driver[d] IN
    /\ Loaded(d, {"FINAL_VERIFICATION"}) /\ me.held.audited
    /\ IF stage = "promoted"
       THEN /\ ~Drifted(me.held) /\ me.id \notin promoted
            /\ promoted' = promoted \cup {me.id} /\ head' = head + 1
       ELSE UNCHANGED <<promoted, head>>
    /\ driver' = [driver EXCEPT ![d].held = Recorded(@, stage), ![d].at = "changed"]
    /\ UNCHANGED <<store, tasks>>

\* Another WorkOrder's candidate is promoted.
OtherPromotion ==
    /\ head < MaxHead
    /\ head' = head + 1
    /\ UNCHANGED <<store, driver, tasks, promoted>>

Next ==
    \/ \E ref \in Offered : Register(ref)
    \/ \E e \in Proposed : Publish(e) \/ \E id \in WorkOrderId : CreateWorkOrder(id, e)
    \/ \E d \in Driver :
          \/ \E id \in WorkOrderId : Load(d, id)
          \/ StartIntake(d) \/ StartExecution(d) \/ FinishRun(d) \/ FailAttempt(d)
          \/ Resume(d) \/ Abort(d) \/ \E e \in Proposed : ChangeAgent(d, e)
          \/ Store(d) \/ Crash(d)
          \/ \E ref \in Offered : BeginRefused(d, ref) \/ Authorize(d, ref)
          \/ \E ref \in Offered, request \in Requests : DispatchAttempt(d, ref, request)
          \/ RunAuthorized(d)
          \/ \E answer \in Answers : Answer(d, answer)
          \/ \E stage \in {"refused_before_checkpoint", "refused_after_checkpoint", "promoted"} :
                CallGate(d, stage)
    \/ \E i \in DOMAIN tasks : TaskMoves(i)
    \/ OtherPromotion

Spec == Init /\ [][Next]_vars

-----------------------------------------------------------------------------
(*                               Properties                                *)

\* Type invariant.
GrantRecord == [id : WorkOrderId, base : Version, attempt : Nat, profile : Ref]
DriverRecord ==
    [ at : {"loaded", "changed", "waiting"}, id : WorkOrderId, base : Version,
      held : WorkOrderRecord, grant : GrantRecord \cup {NoRow}, task : Nat, safe : BOOLEAN ]
TaskRecord ==
    [grant : GrantRecord, runs : Ref, state : {"sent", "refused", "running"} \cup Endings]
OrchestrationTypeOK ==
    /\ registry \subseteq Ref /\ envelopes \subseteq Envelope
    /\ log \in Seq(EventEntry)
    /\ row \in [WorkOrderId -> WorkOrderRecord \cup {NoRow}]
    /\ driver \in [Driver -> DriverRecord \cup {Idle}]
    /\ tasks \in Seq(TaskRecord)
    /\ head \in Nat /\ promoted \subseteq WorkOrderId

\* V2C-18, whatever drivers and owners do at once: a profile version has one content,
\* no stored WorkOrder and no published profile refers to one that is not registered,
\* and every attempt on record is of a profile that is on record as used.
ProfilesAreTraceable ==
    /\ VersionsAreUnique
    /\ ReferencesHold
    /\ \A i \in DOMAIN log : Elements(log[i].record.attempts) \subseteq Elements(log[i].record.used)

\* V2C-02: what a runtime was ever asked to do was granted for a version of the
\* WorkOrder that really was stored, was executing and had that very attempt to give,
\* and runs exactly a profile version of its envelope then; however long ago that was,
\* and whatever the task itself asked for.
DispatchedAsApproved ==
    \A i \in DOMAIN tasks :
       LET g == tasks[i].grant IN
       \E j \in DOMAIN log :
          LET w == log[j].record IN
          /\ log[j].id = g.id /\ log[j].version = g.base
          /\ w.status = "EXECUTING" /\ w.block = "PENDING"
          /\ Len(w.attempts) = g.attempt - 1 /\ w.failed < MaxAttempts
          /\ tasks[i].runs = g.profile /\ g.profile \in w.envelope.profiles

\* "A failure whose final runtime state was not observed is never marked safe for a
\* second execution": when an outcome says safe, the runtime neither works on that task
\* nor will begin to.
SafeMeansStopped ==
    \A d \in Driver : driver[d] # Idle /\ driver[d].safe =>
       tasks[driver[d].task].state \notin {"sent", "running"}

\* V2C-04: a WorkOrder is stored as promoted only if the broker has promoted its
\* candidate, whichever driver asked, died in between or lost its write to another.
PromotedIsAccepted ==
    \A i \in DOMAIN log : log[i].record.status = "PROMOTED" => log[i].id \in promoted
=============================================================================
