------------------------- MODULE PromotionGateProofs -------------------------
(* Proofs about PromotionGate: the broker's inductive invariant survives the *)
(* gate's composition with it, and only audited states are accepted.         *)
EXTENDS PromotionGate, GitWorkspaceBrokerProofs

USE NoValueAssumption, RootAssumption, OnlyTheGatePromotes

-----------------------------------------------------------------------------
(*                        The inductive invariant                          *)

\* The steps of a gate call after the audited HEAD was found to be the current.
PastHead == GateStep \ {"accepted"}

\* What a gate call may rely on. The audited HEAD and the checkpoint exist once
\* they are compared, so that what Matches said of them stays said.
GateCallOK(p) ==
    LET g == gate[p] IN
    /\ Running(p) =>
          /\ g \in [at : GateStep \cup {"inspect"}, v : Verification,
                    head : Opt(Commit), commit : Opt(Commit)]
          /\ g.v.verified
          /\ g.head \in Opt(commits) /\ g.commit \in Opt(commits)
    /\ g.at \in PastHead => g.v.head \in commits
    /\ g.at = "compare" => g.commit \in commits
    /\ g.at \in {"promote", "promoting"} => g.commit \in commits /\ Matches(g.commit, g.v)
    /\ call[p].at \in PromoteSteps =>
          /\ g.at = "promoting"
          /\ call[p].cand = g.v.cand /\ call[p].base = g.v.base /\ call[p].commit = g.commit

GateInv ==
    /\ IInv
    /\ accepted # NoCommit
    /\ DOMAIN gate = Caller
    /\ \A p \in Caller : GateCallOK(p)

-----------------------------------------------------------------------------
(*                  The broker under the gate                              *)

LEMMA GateInitInv == GateInit => GateInv
<1> SUFFICES ASSUME GateInit PROVE GateInv
  OBVIOUS
<1> USE DEF GateInit
<1>1. TypeOK
  BY DEF TypeOK, Opt, Call, NoCall, Outcome
<1>2. ObjectsOK /\ NamesOK /\ Registered
  BY DEF ObjectsOK, NamesOK, Registered, Opt
<1>3. BaseWasAccepted
  BY DEF BaseWasAccepted, History
<1>4. DecidedOnce /\ PromotedWasRecorded /\ PromotedStaysInHistory
  BY DEF DecidedOnce, PromotedWasRecorded, PromotedStaysInHistory
<1>5. CreationIsPrivate /\ \A p \in Caller : CallOK(p)
  BY DEF CreationIsPrivate, CallOK, NoCall, Opt, CreateSteps, LiveSteps, PromoteSteps
<1>6. \A p \in Caller : GateCallOK(p)
  BY DEF GateCallOK, NoGate, NoCall, Running, GateStep, PastHead, PromoteSteps
<1> QED
  BY <1>1, <1>2, <1>3, <1>4, <1>5, <1>6 DEF GateInv, IInv

\* Every step of the composition is a step of the broker's own operations.
LEMMA GateKeepsBroker ==
    ASSUME GateInv, [GateNext]_allVars
    PROVE  IInv'
<1>0. IInv
  BY DEF GateInv
<1>1. CASE UNCHANGED allVars
  BY <1>0, <1>1, StutterInv DEF allVars
<1>2. CASE ExecutorStep
  BY <1>0, <1>2, ExecutorEditsInv, ExecutorCommitsInv, ExecutorChecksOutInv DEF ExecutorStep
<1>3. ASSUME NEW p \in Caller, BeginOperation(p) \/ ContinueOperation(p) \/ Drop(p)
      PROVE  IInv'
  BY <1>0, <1>3, BeginOperationInv, ContinueOperationInv, DropInv
<1>4. ASSUME NEW p \in Caller, GateStepOf(p)
      PROVE  IInv'
  <2>1. CASE GateInspect(p)
    BY <1>0, <2>1, DropInv, StutterInv DEF GateInspect, GateReturn
  <2>2. CASE GateAccepted(p)
    BY <1>0, <2>2, DropInv DEF GateAccepted, GateReturn, GateGoOn
  <2>3. CASE GateContent(p)
    BY <1>0, <2>3, DropInv DEF GateContent, GateReturn, GateGoOn
  <2>4. CASE GateCheckpoint(p)
    <3>1. gate[p].v.cand \in Candidate /\ gate[p].v.base \in Commit
      BY <2>4 DEF GateCheckpoint, GateInv, GateCallOK, InGate, Running, GateStep, Verification
    <3> QED
      BY <1>0, <2>4, <3>1, BeginCheckpointInv DEF GateCheckpoint
  <2>5. CASE GateCheckpointed(p)
    BY <1>0, <2>5, DropInv DEF GateCheckpointed, GateReturn
  <2>6. CASE GateCompare(p)
    BY <1>0, <2>6, DropInv DEF GateCompare, GateReturn, GateGoOn
  <2>7. CASE GatePromote(p)
    <3>1. /\ gate[p].v.cand \in Candidate /\ gate[p].v.base \in Commit
          /\ gate[p].commit \in Commit
      BY <1>0, <2>7
      DEF GatePromote, GateInv, GateCallOK, InGate, Running, GateStep, Verification, IInv, TypeOK
    <3> QED
      BY <1>0, <2>7, <3>1, BeginPromoteInv DEF GatePromote
  <2>8. CASE GatePromoted(p)
    BY <1>0, <2>8, DropInv DEF GatePromoted, GateReturn
  <2> QED
    BY <1>4, <2>1, <2>2, <2>3, <2>4, <2>5, <2>6, <2>7, <2>8 DEF GateStepOf
<1>5. ASSUME NEW p \in Caller, NEW c \in Candidate, NEW v \in Verification, BeginGate(p, c, v)
      PROVE  IInv'
  BY <1>0, <1>5, DropInv DEF BeginGate
<1> QED
  BY <1>1, <1>2, <1>3, <1>4, <1>5 DEF GateNext, BrokerStepOf, GateCrash

-----------------------------------------------------------------------------
(*               What a step leaves alone                                  *)

\* A commit's tree and parent never change.
ObjectsStay ==
    /\ commits \subseteq commits'
    /\ \A k \in commits : tree'[k] = tree[k] /\ parent'[k] = parent[k]

LEMMA MakeCommitKeepsObjects ==
    ASSUME IInv, NEW c \in Candidate, NEW content, NEW n \in Commit, MakeCommit(c, content, n)
    PROVE  ObjectsStay
BY DEF IInv, TypeOK, MakeCommit, ObjectsStay, objectVars

LEMMA StepsKeepObjects ==
    ASSUME IInv, ExecutorStep \/ \E p \in Caller : ContinueOperation(p)
    PROVE  ObjectsStay
<1>1. CASE UNCHANGED objectVars
  BY <1>1 DEF ObjectsStay, objectVars
<1>2. ASSUME NEW p \in Caller, CheckpointCommit(p) PROVE ObjectsStay
  <2>1. call[p].cand \in Candidate
    BY <1>2 DEF CheckpointCommit, At, IInv, CallOK, LiveSteps
  <2> QED
    BY <1>1, <1>2, <2>1, MakeCommitKeepsObjects DEF CheckpointCommit
<1>3. ASSUME NEW c \in Candidate, ExecutorCommits(c) PROVE ObjectsStay
  BY <1>3, MakeCommitKeepsObjects DEF ExecutorCommits
<1>4. ASSUME NEW p \in Caller, ContinueOperation(p)
      PROVE  UNCHANGED objectVars \/ CheckpointCommit(p)
  BY <1>4 DEF ContinueOperation, InitCas, InitReread, CreateBase, CreateWorktree,
     CreateRollback, CheckpointStatus, CheckpointAdd, CheckpointHead, CheckpointRecorded,
     CheckpointRecord, PromoteAccepted, PromoteRefs, PromoteRefused, PromoteReread,
     RejectRefs, RejectRefused, CleanupStatus, CleanupRemove, WorktreeGone
<1>5. CASE ExecutorStep
  BY <1>1, <1>3, <1>5 DEF ExecutorStep, ExecutorEdits, ExecutorChecksOut
<1> QED
  BY <1>1, <1>2, <1>4, <1>5

\* An operation that is under way comes to a promotion step only from one.
SamePromotion(p) ==
    call'[p].at \in PromoteSteps =>
       /\ call[p].at \in PromoteSteps
       /\ call'[p].cand = call[p].cand
       /\ call'[p].base = call[p].base
       /\ call'[p].commit = call[p].commit

LEMMA ReturnEndsPromotion ==
    ASSUME IInv, NEW p \in Caller, NEW outcome \in Outcome, Return(p, outcome)
    PROVE  call'[p].at \notin PromoteSteps /\ \A q \in Caller \ {p} : call'[q] = call[q]
BY ReturnFrame DEF IInv, TypeOK, Outcome, PromoteSteps

LEMMA ContinueKeepsPromotion ==
    ASSUME IInv, NEW p \in Caller, ContinueOperation(p)
    PROVE  SamePromotion(p) /\ \A q \in Caller \ {p} : call'[q] = call[q]
<1> DEFINE Claim == SamePromotion(p) /\ \A q \in Caller \ {p} : call'[q] = call[q]
<1>1. ASSUME NEW outcome \in Outcome, Return(p, outcome) PROVE Claim
  BY <1>1, ReturnEndsPromotion DEF SamePromotion
<1>2. ASSUME NEW step \in Step, Goto(p, step), step \in PromoteSteps => call[p].at \in PromoteSteps
      PROVE  Claim
  BY <1>2, GotoFrame DEF SamePromotion, IInv, TypeOK
<1>3. CASE InitCas(p) \/ InitReread(p)
  BY <1>1, <1>2, <1>3 DEF InitCas, InitReread, Outcome, Step, PromoteSteps
<1>4. ASSUME NEW c \in Candidate, CreateBase(p, c) PROVE Claim
  <2>1. CASE Return(p, "refused")
    BY <1>1, <2>1 DEF Outcome
  <2>2. CASE Begin(p, "create_worktree", c, call[p].base, NoCommit)
    <3>1. call \in [Caller -> Call]
      BY DEF IInv, TypeOK
    <3>2. /\ \A q \in Caller \ {p} : call'[q] = call[q]
          /\ call'[p] = [at |-> "create_worktree", cand |-> c, base |-> call[p].base,
                         commit |-> NoCommit, dirty |-> FALSE]
      BY <2>2, <3>1, BeginFrame
    <3> QED
      BY <3>2 DEF SamePromotion, PromoteSteps
  <2> QED
    BY <1>4, <2>1, <2>2 DEF CreateBase
<1>5. CASE CreateWorktree(p) \/ CreateRollback(p)
  BY <1>1, <1>2, <1>5 DEF CreateWorktree, CreateRollback, Outcome, Step, PromoteSteps
<1>6. CASE CheckpointStatus(p)
  BY <1>6 DEF CheckpointStatus, SamePromotion, PromoteSteps, IInv, TypeOK, Call
<1>7. CASE CheckpointHead(p)
  BY <1>7 DEF CheckpointHead, SamePromotion, PromoteSteps, IInv, TypeOK, Call
<1>8. CASE CheckpointAdd(p) \/ CheckpointCommit(p)
  BY <1>1, <1>2, <1>8 DEF CheckpointAdd, CheckpointCommit, Outcome, Step, PromoteSteps
<1>9. CASE CheckpointRecorded(p) \/ CheckpointRecord(p)
  BY <1>1, <1>2, <1>9 DEF CheckpointRecorded, CheckpointRecord, Outcome, Step, PromoteSteps
<1>10. CASE PromoteAccepted(p) \/ PromoteRefs(p)
  BY <1>1, <1>2, <1>10 DEF PromoteAccepted, PromoteRefs, At, Outcome, Step, PromoteSteps
<1>11. CASE PromoteRefused(p) \/ PromoteReread(p)
  BY <1>1, <1>2, <1>11 DEF PromoteRefused, PromoteReread, At, Outcome, Step, PromoteSteps
<1>12. CASE RejectRefs(p) \/ RejectRefused(p)
  BY <1>1, <1>2, <1>12 DEF RejectRefs, RejectRefused, Outcome, Step, PromoteSteps
<1>13. CASE CleanupStatus(p) \/ CleanupRemove(p) \/ WorktreeGone(p, WorktreeSteps)
  BY <1>1, <1>2, <1>13 DEF CleanupStatus, CleanupRemove, WorktreeGone, Outcome, Step, PromoteSteps
<1> QED
  BY <1>3, <1>4, <1>5, <1>6, <1>7, <1>8, <1>9, <1>10, <1>11, <1>12, <1>13
  DEF ContinueOperation

\* Without promote(), an operation begun outside the gate is no promotion.
LEMMA BeginIsNoPromotion ==
    ASSUME IInv, NEW p \in Caller, BeginOperation(p)
    PROVE  /\ call'[p].at \notin PromoteSteps
           /\ \A q \in Caller \ {p} : call'[q] = call[q]
           /\ UNCHANGED <<objectVars, accepted>>
<1> DEFINE Claim == /\ call'[p].at \notin PromoteSteps
                    /\ \A q \in Caller \ {p} : call'[q] = call[q]
<1>1. ASSUME NEW outcome \in Outcome, Return(p, outcome) PROVE Claim
  BY <1>1, ReturnEndsPromotion
<1>2. ASSUME NEW step, NEW c, NEW b, NEW k, Begin(p, step, c, b, k), step \notin PromoteSteps
      PROVE  Claim
  <2>1. call \in [Caller -> Call]
    BY DEF IInv, TypeOK
  <2>2. /\ \A q \in Caller \ {p} : call'[q] = call[q]
        /\ call'[p] = [at |-> step, cand |-> c, base |-> b, commit |-> k, dirty |-> FALSE]
    BY <1>2, <2>1, BeginFrame
  <2> QED
    BY <1>2, <2>2
<1>3. ASSUME NEW k \in Commit, BeginInitialize(p, k) PROVE Claim
  BY <1>1, <1>2, <1>3 DEF BeginInitialize, Outcome, PromoteSteps
<1>4. ASSUME NEW k \in Commit, BeginCreate(p, k) PROVE Claim
  BY <1>1, <1>2, <1>4 DEF BeginCreate, Outcome, PromoteSteps
<1>5. ASSUME NEW c \in Candidate, NEW b \in Commit, BeginCheckpoint(p, c, b) PROVE Claim
  BY <1>1, <1>2, <1>5 DEF BeginCheckpoint, Outcome, PromoteSteps
<1>6. ASSUME NEW c \in Candidate, NEW b \in Commit, NEW k \in Opt(Commit), BeginReject(p, c, b, k)
      PROVE  Claim
  BY <1>1, <1>2, <1>6 DEF BeginReject, Outcome, PromoteSteps
<1>7. ASSUME NEW c \in Candidate, NEW b \in Commit, NEW discard \in BOOLEAN,
             BeginCleanup(p, c, b, discard)
      PROVE  Claim
  BY <1>1, <1>2, <1>7 DEF BeginCleanup, Outcome, PromoteSteps
<1>8. UNCHANGED <<objectVars, accepted>>
  BY DEF BeginOperation, BeginInitialize, BeginCreate, BeginCheckpoint, BeginPromote,
     BeginReject, BeginCleanup
<1> QED
  BY <1>3, <1>4, <1>5, <1>6, <1>7, <1>8 DEF BeginOperation

-----------------------------------------------------------------------------
(*                     The gate keeps its invariant                        *)

LEMMA GateCallStays ==
    ASSUME GateInv, NEW p \in Caller, gate'[p] = gate[p], ObjectsStay, SamePromotion(p)
    PROVE  GateCallOK(p)'
<1> DEFINE g == gate[p]
<1>1. GateCallOK(p)
  BY DEF GateInv
<1>2. \A k \in commits : tree'[k] = tree[k] /\ parent'[k] = parent[k] /\ k \in commits'
  BY DEF ObjectsStay
<1>3. g.at \in {"promote", "promoting"} => (g.commit \in commits /\ Matches(g.commit, g.v))'
  BY <1>1, <1>2 DEF GateCallOK, Matches
<1> QED
  BY <1>1, <1>2, <1>3 DEF GateCallOK, SamePromotion, Running, Opt

\* A gate call that is over, or was never begun, relies on nothing.
LEMMA GateCallOver ==
    ASSUME NEW p \in Caller, gate'[p].at \notin GateStep \cup {"inspect"},
           call'[p].at \notin PromoteSteps
    PROVE  GateCallOK(p)'
BY DEF GateCallOK, Running, GateStep, PastHead

\* What the gate's own steps have in common.
LEMMA OwnStep ==
    ASSUME GateInv, NEW p \in Caller, UNCHANGED <<objectVars, accepted>>,
           \A q \in Caller \ {p} : gate'[q] = gate[q] /\ call'[q] = call[q],
           DOMAIN gate' = Caller, IInv', GateCallOK(p)'
    PROVE  GateInv'
<1>1. ASSUME NEW q \in Caller PROVE GateCallOK(q)'
  <2>1. CASE q = p
    BY <2>1
  <2>2. CASE q # p
    BY <2>2, GateCallStays DEF ObjectsStay, SamePromotion, objectVars
  <2> QED
    BY <2>1, <2>2
<1> QED
  BY <1>1 DEF GateInv

LEMMA DropFrame ==
    ASSUME GateInv, NEW p \in Caller, Drop(p)
    PROVE  /\ call'[p].at \notin PromoteSteps
           /\ \A q \in Caller \ {p} : call'[q] = call[q]
           /\ UNCHANGED <<objectVars, accepted>>
BY ReturnEndsPromotion DEF Drop, Outcome, GateInv

LEMMA GateReturnInv ==
    ASSUME GateInv, IInv', NEW p \in Caller, NEW stage \in GateStage, NEW status,
           GateReturn(p, stage, status)
    PROVE  GateInv'
<1>1. /\ gate'[p].at = stage /\ DOMAIN gate' = Caller
      /\ \A q \in Caller \ {p} : gate'[q] = gate[q]
  BY DEF GateReturn, GateInv
<1>2. GateCallOK(p)'
  BY <1>1, DropFrame, GateCallOver DEF GateReturn, GateStage, GateStep
<1> QED
  BY <1>1, <1>2, DropFrame, OwnStep DEF GateReturn

LEMMA GateGoOnInv ==
    ASSUME GateInv, IInv', NEW p \in Caller, Running(p), NEW step \in GateStep,
           gate' = [gate EXCEPT ![p].at = step], Drop(p),
           step \in PastHead => gate[p].v.head \in commits,
           step # "compare" /\ step # "promoting",
           step = "promote" => gate[p].commit \in commits /\ Matches(gate[p].commit, gate[p].v)
    PROVE  GateInv'
<1>1. GateCallOK(p)
  BY DEF GateInv
<1>2. /\ gate'[p] = [gate[p] EXCEPT !.at = step] /\ DOMAIN gate' = Caller
      /\ \A q \in Caller \ {p} : gate'[q] = gate[q]
  BY DEF GateInv
<1>3. /\ gate'[p] \in [at : GateStep \cup {"inspect"}, v : Verification,
                       head : Opt(Commit), commit : Opt(Commit)]
      /\ gate'[p].at = step /\ gate'[p].v = gate[p].v
      /\ gate'[p].head = gate[p].head /\ gate'[p].commit = gate[p].commit
  BY <1>1, <1>2 DEF GateCallOK
<1>4. GateCallOK(p)'
  BY <1>1, <1>3, DropFrame DEF GateCallOK, Running, Matches, objectVars
<1> QED
  BY <1>2, <1>4, DropFrame, OwnStep

LEMMA BeginGateInv ==
    ASSUME GateInv, IInv', NEW p \in Caller, NEW c \in Candidate, NEW v \in Verification,
           BeginGate(p, c, v)
    PROVE  GateInv'
<1>1. DOMAIN gate' = Caller /\ \A q \in Caller \ {p} : gate'[q] = gate[q]
  BY DEF BeginGate, GateInv
<1>2. CASE gate'[p].at = "refused_before_checkpoint"
  <2>1. GateCallOK(p)'
    BY <1>2, DropFrame, GateCallOver DEF BeginGate, GateStep
  <2> QED
    BY <1>1, <2>1, DropFrame, OwnStep DEF BeginGate
<1>3. CASE /\ v.verified
           /\ gate'[p] = [at |-> "inspect", v |-> v, head |-> NoCommit, commit |-> NoCommit]
  <2>1. GateCallOK(p)'
    BY <1>3, DropFrame DEF BeginGate, GateCallOK, Running, GateStep, PastHead, Opt
  <2> QED
    BY <1>1, <2>1, DropFrame, OwnStep DEF BeginGate
<1> QED
  BY <1>2, <1>3 DEF BeginGate, GateInv

LEMMA GateInspectInv ==
    ASSUME GateInv, IInv', NEW p \in Caller, GateInspect(p)
    PROVE  GateInv'
<1> DEFINE c == gate[p].v.cand
<1>1. Running(p) /\ gate[p].at = "inspect" /\ GateCallOK(p)
  BY DEF GateInspect, InGate, Running, GateInv
<1>2. CASE GateReturn(p, "refused_before_checkpoint", "BLOCKED")
  BY <1>2, GateReturnInv DEF GateStage
<1>3. CASE /\ HasWorktree(c)
           /\ gate' = [gate EXCEPT ![p].head = head[c], ![p].at = "accepted"]
           /\ UNCHANGED vars
  <2>0. c \in Candidate
    BY <1>1 DEF GateCallOK, Verification
  <2>1. PICK k \in commits : k = head[c] /\ k \in Opt(Commit)
    BY <1>3, <2>0 DEF GateInv, IInv, NamesOK, TypeOK, HasWorktree, Opt
  <2>2. /\ gate'[p] = [gate[p] EXCEPT !.head = k, !.at = "accepted"]
        /\ DOMAIN gate' = Caller /\ \A q \in Caller \ {p} : gate'[q] = gate[q]
    BY <1>3, <2>1 DEF GateInv
  <2>3. /\ gate'[p] \in [at : GateStep \cup {"inspect"}, v : Verification,
                         head : Opt(Commit), commit : Opt(Commit)]
        /\ gate'[p].at = "accepted" /\ gate'[p].v = gate[p].v
        /\ gate'[p].head = k /\ gate'[p].commit = gate[p].commit
    <3>1. gate[p] \in [at : GateStep \cup {"inspect"}, v : Verification,
                       head : Opt(Commit), commit : Opt(Commit)]
      BY <1>1 DEF GateCallOK
    <3>2. "accepted" \in GateStep
      BY DEF GateStep
    <3> QED
      BY <2>1, <2>2, <3>1, <3>2
  <2>4. UNCHANGED <<objectVars, accepted, call>>
    BY <1>3 DEF vars
  <2>5. call[p].at \notin PromoteSteps
    BY <1>1 DEF GateCallOK
  <2>6. GateCallOK(p)'
    BY <1>1, <2>1, <2>3, <2>4, <2>5 DEF GateCallOK, Running, GateStep, PastHead, Opt, objectVars
  <2> QED
    BY <2>2, <2>4, <2>6, OwnStep
<1> QED
  BY <1>2, <1>3 DEF GateInspect

LEMMA GateAcceptedInv ==
    ASSUME GateInv, IInv', NEW p \in Caller, GateAccepted(p)
    PROVE  GateInv'
<1>1. Running(p) /\ GateCallOK(p)
  BY DEF GateAccepted, InGate, Running, GateStep, GateInv
<1>2. CASE \E status \in GateStatus : GateReturn(p, "refused_before_checkpoint", status)
  BY <1>2, GateReturnInv DEF GateStage
<1>3. CASE gate[p].head = gate[p].v.head /\ GateGoOn(p, "content")
  <2>1. gate[p].v.head \in commits
    BY <1>1, <1>3 DEF GateCallOK, Verification, Opt
  <2> QED
    BY <1>1, <1>3, <2>1, GateGoOnInv DEF GateGoOn, GateGoto, GateStep
<1> QED
  BY <1>2, <1>3 DEF GateAccepted, GateStatus

LEMMA GateContentInv ==
    ASSUME GateInv, IInv', NEW p \in Caller, GateContent(p)
    PROVE  GateInv'
<1>1. Running(p) /\ GateCallOK(p) /\ gate[p].at = "content"
  BY DEF GateContent, InGate, Running, GateStep, GateInv
<1>2. CASE GateReturn(p, "refused_before_checkpoint", "WORKSPACE_CHANGED")
  BY <1>2, GateReturnInv DEF GateStage
<1>3. CASE GateGoOn(p, "checkpoint")
  BY <1>1, <1>3, GateGoOnInv DEF GateGoOn, GateGoto, GateCallOK, GateStep, PastHead
<1> QED
  BY <1>2, <1>3 DEF GateContent

\* Handing over to the broker.
LEMMA HandOver ==
    ASSUME GateInv, IInv', NEW p \in Caller, Running(p), GateGoto(p, "checkpointing"),
           gate[p].v.head \in commits, call'[p].at \notin PromoteSteps,
           UNCHANGED <<objectVars, accepted>>, \A q \in Caller \ {p} : call'[q] = call[q]
    PROVE  GateInv'
<1>1. GateCallOK(p)
  BY DEF GateInv
<1>2. /\ gate'[p] = [gate[p] EXCEPT !.at = "checkpointing"] /\ DOMAIN gate' = Caller
      /\ \A q \in Caller \ {p} : gate'[q] = gate[q]
  BY DEF GateInv, GateGoto
<1>3. /\ gate'[p] \in [at : GateStep \cup {"inspect"}, v : Verification,
                       head : Opt(Commit), commit : Opt(Commit)]
      /\ gate'[p].at = "checkpointing" /\ gate'[p].v = gate[p].v
      /\ gate'[p].head = gate[p].head /\ gate'[p].commit = gate[p].commit
  BY <1>1, <1>2 DEF GateCallOK, GateStep
<1>4. GateCallOK(p)'
  BY <1>1, <1>3 DEF GateCallOK, Running, objectVars
<1> QED
  BY <1>2, <1>4, OwnStep

LEMMA GateCheckpointInv ==
    ASSUME GateInv, IInv', NEW p \in Caller, GateCheckpoint(p)
    PROVE  GateInv'
<1> DEFINE c == gate[p].v.cand  b == gate[p].v.base
<1>1. Running(p) /\ GateCallOK(p) /\ gate[p].at = "checkpoint"
  BY DEF GateCheckpoint, InGate, Running, GateStep, GateInv
<1>2. gate[p].v.head \in commits
  BY <1>1 DEF GateCallOK, GateStep, PastHead
<1>3. call \in [Caller -> Call]
  BY DEF GateInv, IInv, TypeOK
<1>4. call'[p].at \notin PromoteSteps /\ \A q \in Caller \ {p} : call'[q] = call[q]
  <2>1. CASE Return(p, "refused")
    BY <2>1, ReturnEndsPromotion DEF Outcome, GateInv
  <2>2. CASE Begin(p, "checkpoint_status", c, b, NoCommit)
    <3>1. /\ \A q \in Caller \ {p} : call'[q] = call[q]
          /\ call'[p] = [at |-> "checkpoint_status", cand |-> c, base |-> b,
                         commit |-> NoCommit, dirty |-> FALSE]
      BY <1>3, <2>2, BeginFrame
    <3> QED
      BY <3>1 DEF PromoteSteps
  <2> QED
    BY <2>1, <2>2 DEF GateCheckpoint, BeginCheckpoint
<1>5. GateGoto(p, "checkpointing") /\ UNCHANGED <<objectVars, accepted>>
  BY DEF GateCheckpoint, BeginCheckpoint
<1> QED
  BY <1>1, <1>2, <1>4, <1>5, HandOver

LEMMA GateCheckpointedInv ==
    ASSUME GateInv, IInv', NEW p \in Caller, GateCheckpointed(p)
    PROVE  GateInv'
<1> DEFINE v == gate[p].v
           Compared(k) == /\ gate' = [gate EXCEPT ![p].commit = k, ![p].at = "compare"]
                          /\ Drop(p)
<1>1. Running(p) /\ GateCallOK(p) /\ v.head \in commits
  BY DEF GateCheckpointed, InGate, Running, GateStep, PastHead, GateInv, GateCallOK
<1>2. CASE \E status \in GateStatus : GateReturn(p, "refused_before_checkpoint", status)
  BY <1>2, GateReturnInv DEF GateStage
<1>3. ASSUME NEW k \in commits, Compared(k) PROVE GateInv'
  <2>0. k \in Opt(Commit)
    BY DEF GateInv, IInv, TypeOK, Opt
  <2>1. /\ gate'[p] = [gate[p] EXCEPT !.commit = k, !.at = "compare"] /\ DOMAIN gate' = Caller
        /\ \A q \in Caller \ {p} : gate'[q] = gate[q]
    BY <1>3 DEF GateInv
  <2>2. /\ gate'[p] \in [at : GateStep \cup {"inspect"}, v : Verification,
                         head : Opt(Commit), commit : Opt(Commit)]
        /\ gate'[p].at = "compare" /\ gate'[p].v = v
        /\ gate'[p].head = gate[p].head /\ gate'[p].commit = k
    <3>1. gate[p] \in [at : GateStep \cup {"inspect"}, v : Verification,
                       head : Opt(Commit), commit : Opt(Commit)]
      BY <1>1 DEF GateCallOK
    <3>2. "compare" \in GateStep
      BY DEF GateStep
    <3> QED
      BY <2>0, <2>1, <3>1, <3>2
  <2>3. GateCallOK(p)'
    BY <1>1, <1>3, <2>2, DropFrame DEF GateCallOK, Running, Opt, objectVars
  <2> QED
    BY <1>3, <2>1, <2>3, DropFrame, OwnStep
<1>4. At(p, "checkpointed") => call[p].commit \in commits
  BY DEF GateInv, IInv, CallOK, At, Opt
<1> QED
  BY <1>1, <1>2, <1>3, <1>4 DEF GateCheckpointed, GateStatus

LEMMA GateCompareInv ==
    ASSUME GateInv, IInv', NEW p \in Caller, GateCompare(p)
    PROVE  GateInv'
<1>1. Running(p) /\ GateCallOK(p) /\ gate[p].at = "compare"
  BY DEF GateCompare, InGate, Running, GateStep, GateInv
<1>2. CASE GateReturn(p, "refused_after_checkpoint", "WORKSPACE_CHANGED")
  BY <1>2, GateReturnInv DEF GateStage
<1>3. CASE Matches(gate[p].commit, gate[p].v) /\ GateGoOn(p, "promote")
  BY <1>1, <1>3, GateGoOnInv DEF GateGoOn, GateGoto, GateCallOK, GateStep, PastHead
<1> QED
  BY <1>2, <1>3 DEF GateCompare

LEMMA GatePromoteInv ==
    ASSUME GateInv, IInv', NEW p \in Caller, GatePromote(p)
    PROVE  GateInv'
<1> DEFINE v == gate[p].v  k == gate[p].commit
<1>1. Running(p) /\ GateCallOK(p) /\ gate[p].at = "promote"
  BY DEF GatePromote, InGate, Running, GateStep, GateInv
<1>2. /\ gate'[p] = [gate[p] EXCEPT !.at = "promoting"] /\ DOMAIN gate' = Caller
      /\ \A q \in Caller \ {p} : gate'[q] = gate[q]
  BY DEF GatePromote, GateGoto, GateInv
<1>3. /\ gate'[p] \in [at : GateStep \cup {"inspect"}, v : Verification,
                       head : Opt(Commit), commit : Opt(Commit)]
      /\ gate'[p].at = "promoting" /\ gate'[p].v = v
      /\ gate'[p].head = gate[p].head /\ gate'[p].commit = k
  BY <1>1, <1>2 DEF GateCallOK, GateStep
<1>4. UNCHANGED <<objectVars, accepted>>
  BY DEF GatePromote, BeginPromote
<1>5. call \in [Caller -> Call]
  BY DEF GateInv, IInv, TypeOK
<1>6. /\ \A q \in Caller \ {p} : call'[q] = call[q]
      /\ \/ call'[p].at \notin PromoteSteps
         \/ /\ call'[p].at = "promote_accepted"
            /\ call'[p].cand = v.cand /\ call'[p].base = v.base /\ call'[p].commit = k
  <2>1. CASE Return(p, "refused")
    BY <2>1, ReturnEndsPromotion DEF Outcome, GateInv
  <2>2. CASE Begin(p, "promote_accepted", v.cand, v.base, k)
    <3>1. /\ \A q \in Caller \ {p} : call'[q] = call[q]
          /\ call'[p] = [at |-> "promote_accepted", cand |-> v.cand, base |-> v.base,
                         commit |-> k, dirty |-> FALSE]
      BY <1>5, <2>2, BeginFrame
    <3> QED
      BY <3>1
  <2> QED
    BY <2>1, <2>2 DEF GatePromote, BeginPromote
<1>7. GateCallOK(p)'
  BY <1>1, <1>3, <1>4, <1>6 DEF GateCallOK, Running, GateStep, PastHead, Matches, objectVars
<1> QED
  BY <1>2, <1>4, <1>6, <1>7, OwnStep

LEMMA GatePromotedInv ==
    ASSUME GateInv, IInv', NEW p \in Caller, GatePromoted(p)
    PROVE  GateInv'
<1>1. \/ GateReturn(p, "promoted", "VERIFIED_AND_CURRENT")
      \/ GateReturn(p, "refused_after_checkpoint", "VERIFICATION_STALE")
      \/ GateReturn(p, "refused_after_checkpoint", "BLOCKED")
  BY DEF GatePromoted
<1> QED
  BY <1>1, GateReturnInv DEF GateStage

\* The steps of others, and of the broker on a gate's behalf.
LEMMA BrokerMovesInv ==
    ASSUME GateInv, IInv', UNCHANGED gate, accepted' # NoCommit, ObjectsStay,
           \A q \in Caller : SamePromotion(q)
    PROVE  GateInv'
BY GateCallStays DEF GateInv

LEMMA AcceptedStaysSet ==
    ASSUME GateInv, NEW p \in Caller, ContinueOperation(p)
    PROVE  accepted' # NoCommit
<1>1. CASE UNCHANGED accepted
  BY <1>1 DEF GateInv
<1>2. CASE accepted' # accepted
  <2>1. InitCas(p) \/ PromoteRefs(p)
    BY <1>2 DEF ContinueOperation, InitReread, CreateBase, CreateWorktree,
       CreateRollback, CheckpointStatus, CheckpointAdd, CheckpointCommit, CheckpointHead,
       CheckpointRecorded, CheckpointRecord, PromoteAccepted, PromoteRefused, PromoteReread,
       RejectRefs, RejectRefused, CleanupStatus, CleanupRemove, WorktreeGone
  <2>2. PromoteRefs(p)
    BY <1>2, <2>1 DEF InitCas, GateInv
  <2> QED
    BY <1>2, <2>2, PromotionFacts DEF GateInv, IInv, TypeOK
<1> QED
  BY <1>1, <1>2

LEMMA GateStepInv ==
    ASSUME GateInv, [GateNext]_allVars
    PROVE  GateInv'
<1>0. IInv /\ IInv' /\ accepted # NoCommit
  BY GateKeepsBroker DEF GateInv
<1>1. CASE UNCHANGED allVars
  BY <1>0, <1>1, BrokerMovesInv DEF allVars, gateVars, vars, ObjectsStay, SamePromotion, objectVars
<1>2. CASE ExecutorStep /\ UNCHANGED gate
  <2>1. UNCHANGED <<accepted, call>>
    BY <1>2 DEF ExecutorStep, ExecutorEdits, ExecutorCommits, ExecutorChecksOut
  <2> QED
    BY <1>0, <1>2, <2>1, StepsKeepObjects, BrokerMovesInv DEF SamePromotion
<1>3. ASSUME NEW p \in Caller, ContinueOperation(p), UNCHANGED gate PROVE GateInv'
  <2>1. \A q \in Caller : SamePromotion(q)
    BY <1>0, <1>3, ContinueKeepsPromotion DEF SamePromotion
  <2> QED
    BY <1>0, <1>3, <2>1, StepsKeepObjects, AcceptedStaysSet, BrokerMovesInv
<1>4. ASSUME NEW p \in Caller, BeginOperation(p) \/ Drop(p), UNCHANGED gate PROVE GateInv'
  <2>1. /\ call'[p].at \notin PromoteSteps
        /\ \A q \in Caller \ {p} : call'[q] = call[q]
        /\ UNCHANGED <<objectVars, accepted>>
    BY <1>0, <1>4, BeginIsNoPromotion, DropFrame
  <2>2. ObjectsStay /\ \A q \in Caller : SamePromotion(q)
    BY <2>1 DEF ObjectsStay, SamePromotion, objectVars
  <2> QED
    BY <1>0, <1>4, <2>1, <2>2, BrokerMovesInv
<1>5. ASSUME NEW p \in Caller, GateCrash(p) PROVE GateInv'
  <2>1. /\ gate'[p] = NoGate /\ DOMAIN gate' = Caller /\ Drop(p)
        /\ \A q \in Caller \ {p} : gate'[q] = gate[q]
    BY <1>5 DEF GateCrash, GateInv
  <2>2. GateCallOK(p)'
    BY <2>1, DropFrame, GateCallOver DEF NoGate, GateStep
  <2> QED
    BY <1>0, <2>1, <2>2, DropFrame, OwnStep
<1>6. ASSUME NEW p \in Caller, GateStepOf(p) PROVE GateInv'
  BY <1>0, <1>6, GateInspectInv, GateAcceptedInv, GateContentInv, GateCheckpointInv,
     GateCheckpointedInv, GateCompareInv, GatePromoteInv, GatePromotedInv DEF GateStepOf
<1>7. ASSUME NEW p \in Caller, NEW c \in Candidate, NEW v \in Verification, BeginGate(p, c, v)
      PROVE  GateInv'
  BY <1>0, <1>7, BeginGateInv
<1> QED
  BY <1>1, <1>2, <1>3, <1>4, <1>5, <1>6, <1>7 DEF GateNext, BrokerStepOf, gateVars

-----------------------------------------------------------------------------
(*                              Theorems                                   *)

\* Under the gate, executors and other callers, the invariant of the broker and
\* of every gate call holds.
THEOREM GateInvariance == GateSpec => []GateInv
BY GateInitInv, GateStepInv, PTL DEF GateSpec

\* What the broker promises of decisions and history, it promises of the gate.
THEOREM GateKeepsPromises ==
    GateSpec => [](TypeOK /\ DecidedOnce /\ PromotedWasRecorded /\ PromotedStaysInHistory)
<1>1. GateInv => TypeOK /\ DecidedOnce /\ PromotedWasRecorded /\ PromotedStaysInHistory
  BY DEF GateInv, IInv
<1> QED
  BY <1>1, GateInvariance, PTL

\* The accepted commit only ever moves to a state that a VERIFIED audit of the
\* promoted candidate saw.
THEOREM OnlyTheAuditedIsAccepted == GateSpec => OnlyAuditedStateIsAccepted
<1> DEFINE Audited ==
        accepted' # accepted =>
           \E p \in Caller :
              /\ InGate(p, "promoting")
              /\ gate[p].v.verified
              /\ gate[p].v.base = accepted
              /\ promoted'[gate[p].v.cand] = accepted'
              /\ Matches(accepted', gate[p].v)
<1>1. ASSUME GateInv, [GateNext]_allVars PROVE [Audited]_allVars
  <2> SUFFICES ASSUME accepted' # accepted
               PROVE  \E p \in Caller :
                         /\ InGate(p, "promoting")
                         /\ gate[p].v.verified
                         /\ gate[p].v.base = accepted
                         /\ promoted'[gate[p].v.cand] = accepted'
                         /\ Matches(accepted', gate[p].v)
    OBVIOUS
  <2>1. PICK p \in Caller : ContinueOperation(p)
    <3>1. ASSUME NEW p \in Caller, BeginOperation(p) \/ Drop(p) PROVE FALSE
      BY <1>1, <3>1, BeginIsNoPromotion, DropFrame DEF GateInv
    <3>2. ASSUME NEW p \in Caller, GateStepOf(p) PROVE FALSE
      BY <1>1, <3>2, DropFrame DEF GateStepOf, GateInspect, GateAccepted, GateContent,
         GateCheckpoint, GateCheckpointed, GateCompare, GatePromote, GatePromoted, GateReturn,
         GateGoOn, BeginCheckpoint, BeginPromote, vars
    <3>3. ASSUME NEW p \in Caller, GateCrash(p) PROVE FALSE
      BY <1>1, <3>3, DropFrame DEF GateCrash
    <3>4. ASSUME NEW p \in Caller, NEW c \in Candidate, NEW v \in Verification, BeginGate(p, c, v)
          PROVE  FALSE
      BY <1>1, <3>4, DropFrame DEF BeginGate
    <3>5. ~ExecutorStep
      BY DEF ExecutorStep, ExecutorEdits, ExecutorCommits, ExecutorChecksOut
    <3>6. ~UNCHANGED allVars
      BY DEF allVars, vars
    <3> QED
      BY <1>1, <3>1, <3>2, <3>3, <3>4, <3>5, <3>6 DEF GateNext, BrokerStepOf
  <2>2. PromoteRefs(p)
    BY <1>1, <2>1 DEF ContinueOperation, InitCas, InitReread, CreateBase, CreateWorktree,
       CreateRollback, CheckpointStatus, CheckpointAdd, CheckpointCommit, CheckpointHead,
       CheckpointRecorded, CheckpointRecord, PromoteAccepted, PromoteRefused, PromoteReread,
       RejectRefs, RejectRefused, CleanupStatus, CleanupRemove, WorktreeGone, GateInv
  <2> DEFINE c == call[p].cand  b == call[p].base  k == call[p].commit
  <2>3. /\ c \in Candidate /\ accepted = b /\ accepted' = k
        /\ promoted' = [promoted EXCEPT ![c] = k]
    BY <1>1, <2>2, PromotionFacts DEF GateInv
  <2>4. promoted'[c] = k
    BY <1>1, <2>3 DEF GateInv, IInv, TypeOK
  <2>5. /\ gate[p].at = "promoting" /\ gate[p].v.verified
        /\ c = gate[p].v.cand /\ b = gate[p].v.base /\ k = gate[p].commit
        /\ Matches(gate[p].commit, gate[p].v)
    BY <1>1, <2>2
    DEF PromoteRefs, At, GateInv, GateCallOK, Running, GateStep, PromoteSteps
  <2>6. Matches(k, gate[p].v)
    BY <2>5
  <2>7. Matches(accepted', gate[p].v)
    BY <2>3, <2>6 DEF Matches
  <2> QED
    BY <2>3, <2>4, <2>5, <2>7 DEF InGate
<1> QED
  BY <1>1, GateInvariance, PTL DEF GateSpec, OnlyAuditedStateIsAccepted

-----------------------------------------------------------------------------
(*                  What a caller holds after a promotion                  *)

\* A gate call whose promote() came back positive, or that returned "promoted", holds
\* the commit that some candidate's promoted ref names.
Holds(p) ==
    /\ gate[p].at = "promoting" /\ call[p].at = "promoted" =>
          promoted[gate[p].v.cand] = gate[p].commit
    /\ gate[p].at = "promoted" =>
          /\ gate[p].commit # NoCommit
          /\ \E c \in Candidate : promoted[c] = gate[p].commit

HoldInv == GateInv /\ \A p \in Caller : Holds(p)

LEMMA OnlyRefsPromote ==
    ASSUME NEW p \in Caller, ContinueOperation(p)
    PROVE  UNCHANGED promoted \/ PromoteRefs(p)
BY DEF ContinueOperation, InitCas, InitReread, CreateBase, CreateWorktree, CreateRollback,
   CheckpointStatus, CheckpointAdd, CheckpointCommit, CheckpointHead, CheckpointRecorded,
   CheckpointRecord, PromoteAccepted, PromoteRefused, PromoteReread, RejectRefs,
   RejectRefused, CleanupStatus, CleanupRemove, WorktreeGone, candidateRefs

\* A promoted ref is never moved or deleted.
LEMMA PromotedIsKept ==
    ASSUME GateInv, [GateNext]_allVars, NEW c \in Candidate, promoted[c] # NoCommit
    PROVE  promoted'[c] = promoted[c]
<1>1. ASSUME NEW p \in Caller, PromoteRefs(p) PROVE promoted'[c] = promoted[c]
  BY <1>1 DEF PromoteRefs, PromotePreconditions, GateInv, IInv, TypeOK
<1>2. ASSUME NEW p \in Caller, ContinueOperation(p) PROVE promoted'[c] = promoted[c]
  BY <1>1, <1>2, OnlyRefsPromote
<1>3. ASSUME NEW p \in Caller, BeginOperation(p) \/ Drop(p) PROVE UNCHANGED promoted
  BY <1>3 DEF BeginOperation, BeginInitialize, BeginCreate, BeginCheckpoint, BeginPromote,
     BeginReject, BeginCleanup, Drop, candidateRefs
<1>4. ASSUME NEW p \in Caller, GateStepOf(p) \/ GateCrash(p) PROVE UNCHANGED promoted
  BY <1>3, <1>4 DEF GateStepOf, GateInspect, GateAccepted, GateContent, GateCheckpoint,
     GateCheckpointed, GateCompare, GatePromote, GatePromoted, GateReturn, GateGoOn, GateCrash,
     BeginCheckpoint, BeginPromote, candidateRefs, vars
<1>5. ASSUME NEW p \in Caller, NEW k \in Candidate, NEW v \in Verification, BeginGate(p, k, v)
      PROVE  UNCHANGED promoted
  BY <1>3, <1>5 DEF BeginGate
<1>6. ASSUME ExecutorStep PROVE UNCHANGED promoted
  BY <1>6 DEF ExecutorStep, ExecutorEdits, ExecutorCommits, ExecutorChecksOut, candidateRefs
<1>7. CASE UNCHANGED allVars
  BY <1>7 DEF allVars, vars, candidateRefs
<1> QED
  BY <1>2, <1>3, <1>4, <1>5, <1>6, <1>7 DEF GateNext, BrokerStepOf

\* promote() comes back positive only from its own transaction.
LEMMA PromotedByItsRefs ==
    ASSUME GateInv, NEW p \in Caller, ContinueOperation(p), call'[p].at = "promoted"
    PROVE  PromoteRefs(p)
<1> DEFINE Other == Outcome \ {"promoted"}
<1>0. call \in [Caller -> Call]
  BY DEF GateInv, IInv, TypeOK
<1>1. ASSUME NEW outcome \in Other, Return(p, outcome) PROVE FALSE
  BY <1>0, <1>1, ReturnFrame
<1>2. ASSUME NEW step, Goto(p, step), step # "promoted" PROVE FALSE
  BY <1>0, <1>2, GotoFrame
<1>3. ASSUME NEW step, NEW c, NEW b, NEW k, Begin(p, step, c, b, k), step # "promoted" PROVE FALSE
  <2>1. call'[p] = [at |-> step, cand |-> c, base |-> b, commit |-> k, dirty |-> FALSE]
    BY <1>0, <1>3, BeginFrame
  <2> QED
    BY <1>3, <2>1
<1>4. ~CheckpointStatus(p) /\ ~CheckpointHead(p)
  <2>1. ~CheckpointStatus(p)
    BY <1>0, <1>1 DEF CheckpointStatus, Call, Outcome
  <2>2. ~CheckpointHead(p)
    BY <1>0, <1>1 DEF CheckpointHead, Call, Outcome
  <2> QED
    BY <2>1, <2>2
<1>5. ~InitCas(p) /\ ~InitReread(p)
  BY <1>1, <1>2 DEF InitCas, InitReread, Outcome
<1>6. ~(\E c \in Candidate : CreateBase(p, c)) /\ ~CreateWorktree(p) /\ ~CreateRollback(p)
  BY <1>1, <1>2, <1>3 DEF CreateBase, CreateWorktree, CreateRollback, Outcome
<1>7. ~CheckpointAdd(p) /\ ~CheckpointCommit(p) /\ ~CheckpointRecorded(p) /\ ~CheckpointRecord(p)
  BY <1>1, <1>2 DEF CheckpointAdd, CheckpointCommit, CheckpointRecorded, CheckpointRecord, Outcome
<1>8. ~PromoteAccepted(p) /\ ~PromoteRefused(p) /\ ~PromoteReread(p)
  BY <1>1, <1>2 DEF PromoteAccepted, PromoteRefused, PromoteReread, Outcome
<1>9. ~RejectRefs(p) /\ ~RejectRefused(p)
  BY <1>1, <1>2 DEF RejectRefs, RejectRefused, Outcome
<1>10. ~CleanupStatus(p) /\ ~CleanupRemove(p) /\ ~WorktreeGone(p, WorktreeSteps)
  BY <1>1, <1>2 DEF CleanupStatus, CleanupRemove, WorktreeGone, Outcome
<1> QED
  BY <1>4, <1>5, <1>6, <1>7, <1>8, <1>9, <1>10 DEF ContinueOperation

\* What p holds survives a step that leaves its gate call where it is.
LEMMA HoldsStays ==
    ASSUME HoldInv, [GateNext]_allVars, NEW p \in Caller, gate'[p] = gate[p],
           call'[p] = call[p] \/ call'[p].at # "promoted"
    PROVE  Holds(p)'
<1>1. Holds(p) /\ GateCallOK(p) /\ GateInv
  BY DEF HoldInv, GateInv
<1>2. CASE gate[p].at = "promoting" /\ call[p].at = "promoted" /\ call'[p].at = "promoted"
  <2>1. gate[p].v.cand \in Candidate /\ gate[p].commit \in commits
    BY <1>1, <1>2 DEF GateCallOK, Running, GateStep, Verification
  <2>2. promoted[gate[p].v.cand] # NoCommit
    BY <1>1, <1>2, <2>1 DEF Holds, GateInv, IInv, TypeOK, Opt
  <2>3. promoted'[gate[p].v.cand] = gate[p].commit
    BY <1>1, <1>2, <2>1, <2>2, PromotedIsKept DEF Holds
  <2> QED
    BY <1>2, <2>3 DEF Holds
<1>3. CASE gate[p].at = "promoted"
  <2>1. PICK c \in Candidate : promoted[c] = gate[p].commit /\ promoted[c] # NoCommit
    BY <1>1, <1>3 DEF Holds
  <2>2. promoted'[c] = gate[p].commit
    BY <1>1, <2>1, PromotedIsKept
  <2> QED
    BY <1>3, <2>1, <2>2 DEF Holds
<1> QED
  BY <1>2, <1>3 DEF Holds

\* The one step that makes p's promote() come back positive.
LEMMA HoldsAfterPromotion ==
    ASSUME HoldInv, [GateNext]_allVars, NEW p \in Caller, gate'[p] = gate[p],
           ContinueOperation(p), call'[p].at = "promoted"
    PROVE  Holds(p)'
<1>1. GateCallOK(p) /\ GateInv /\ PromoteRefs(p)
  BY PromotedByItsRefs DEF HoldInv, GateInv
<1>2. gate[p].at = "promoting" /\ call[p].cand = gate[p].v.cand /\ call[p].commit = gate[p].commit
  BY <1>1 DEF GateCallOK, PromoteRefs, At, PromoteSteps
<1>3. call[p].cand \in Candidate
  BY <1>1 DEF GateInv, IInv, CallOK, PromoteRefs, At, LiveSteps
<1>4. promoted' = [promoted EXCEPT ![call[p].cand] = call[p].commit]
  <2>1. call \in [Caller -> Call]
    BY <1>1 DEF GateInv, IInv, TypeOK
  <2>2. ~Goto(p, "promote_refused")
    BY <2>1, GotoFrame
  <2> QED
    BY <1>1, <2>2 DEF PromoteRefs
<1>5. promoted'[gate[p].v.cand] = gate[p].commit
  BY <1>1, <1>2, <1>3, <1>4 DEF GateInv, IInv, TypeOK
<1> QED
  BY <1>2, <1>5 DEF Holds

LEMMA GateReturnHolds ==
    ASSUME GateInv, NEW p \in Caller, NEW stage \in GateStage \ {"promoted"}, NEW status,
           GateReturn(p, stage, status)
    PROVE  Holds(p)'
BY DEF GateReturn, GateInv, GateStage, Holds

\* The gate's own steps.
LEMMA GateStepHolds ==
    ASSUME HoldInv, NEW p \in Caller, GateStepOf(p), [GateNext]_allVars
    PROVE  Holds(p)'
<1>0. GateInv /\ Holds(p) /\ GateCallOK(p)
  BY DEF HoldInv, GateInv
<1>1. CASE \E stage \in GateStage \ {"promoted"} : \E status : GateReturn(p, stage, status)
  BY <1>0, <1>1, GateReturnHolds
<1>2. ASSUME NEW step \in GateStep \ {"promoting"}, GateGoto(p, step) PROVE Holds(p)'
  BY <1>0, <1>2 DEF GateGoto, GateInv, GateStep, Holds
<1>3. CASE GateInspect(p)
  <2>1. CASE gate' = [gate EXCEPT ![p].head = head[gate[p].v.cand], ![p].at = "accepted"]
    BY <1>0, <2>1 DEF GateInv, Holds
  <2> QED
    BY <1>1, <1>3, <2>1 DEF GateInspect, GateStage
<1>4. CASE GateAccepted(p) \/ GateContent(p) \/ GateCheckpoint(p) \/ GateCompare(p)
  <2>1. \/ \E stage \in GateStage \ {"promoted"} : \E status : GateReturn(p, stage, status)
        \/ \E step \in GateStep \ {"promoting"} : GateGoto(p, step)
    BY <1>4 DEF GateAccepted, GateContent, GateCheckpoint, GateCompare, GateGoOn, GateStage,
       GateStep
  <2> QED
    BY <1>1, <1>2, <2>1
<1>5. CASE GateCheckpointed(p)
  <2>1. CASE \E k : gate' = [gate EXCEPT ![p].commit = k, ![p].at = "compare"]
    BY <1>0, <2>1 DEF GateInv, Holds
  <2>2. \/ \E stage \in GateStage \ {"promoted"} : \E status : GateReturn(p, stage, status)
        \/ \E k : gate' = [gate EXCEPT ![p].commit = k, ![p].at = "compare"]
    BY <1>5 DEF GateCheckpointed, GateStage
  <2> QED
    BY <1>1, <2>1, <2>2
<1>6. CASE GatePromote(p)
  <2>1. gate'[p].at = "promoting"
    BY <1>0, <1>6 DEF GatePromote, GateGoto, GateInv
  <2>2. call \in [Caller -> Call]
    BY <1>0 DEF GateInv, IInv, TypeOK
  <2>3. ASSUME Return(p, "refused") PROVE call'[p].at # "promoted"
    BY <2>2, <2>3, ReturnFrame DEF Outcome
  <2>4. ASSUME NEW c, NEW b, NEW k, Begin(p, "promote_accepted", c, b, k)
        PROVE  call'[p].at # "promoted"
    <3>1. call'[p] = [at |-> "promote_accepted", cand |-> c, base |-> b, commit |-> k,
                      dirty |-> FALSE]
      BY <2>2, <2>4, BeginFrame
    <3> QED
      BY <3>1
  <2>5. call'[p].at # "promoted"
    BY <1>6, <2>3, <2>4 DEF GatePromote, BeginPromote
  <2> QED
    BY <2>1, <2>5 DEF Holds
<1>7. CASE GatePromoted(p)
  <2>1. CASE At(p, "promoted") /\ GateReturn(p, "promoted", "VERIFIED_AND_CURRENT")
    <3>1. gate[p].at = "promoting" /\ call[p].at = "promoted"
      BY <1>7, <2>1 DEF GatePromoted, InGate, At
    <3>2. gate[p].v.cand \in Candidate /\ gate[p].commit \in commits
      BY <1>0, <3>1 DEF GateCallOK, Running, GateStep, Verification
    <3>3. gate[p].commit # NoCommit
      BY <1>0, <3>2 DEF GateInv, IInv, TypeOK, Opt
    <3>4. promoted'[gate[p].v.cand] = gate[p].commit
      BY <1>0, <3>1, <3>2, <3>3, PromotedIsKept DEF Holds
    <3>5. gate'[p] = [at |-> "promoted", status |-> "VERIFIED_AND_CURRENT",
                      commit |-> gate[p].commit]
      BY <1>0, <2>1 DEF GateReturn, GateInv
    <3> QED
      BY <3>2, <3>3, <3>4, <3>5 DEF Holds
  <2> QED
    BY <1>0, <1>1, <1>7, <2>1 DEF GatePromoted, GateStage
<1> QED
  BY <1>3, <1>4, <1>5, <1>6, <1>7 DEF GateStepOf

\* A caller that no step is about keeps its gate call and its broker call.
LEMMA OthersKeepTheirCalls ==
    ASSUME GateInv, NEW p \in Caller, NEW q \in Caller \ {p},
           \/ GateStepOf(p) \/ GateCrash(p)
           \/ \E c \in Candidate, v \in Verification : BeginGate(p, c, v)
    PROVE  gate'[q] = gate[q] /\ call'[q] = call[q]
<1>0. call \in [Caller -> Call] /\ IInv /\ GateCallOK(p)
  BY DEF GateInv, IInv, TypeOK
<1>1. gate'[q] = gate[q]
  BY DEF GateStepOf, GateInspect, GateAccepted, GateContent, GateCheckpoint, GateCheckpointed,
     GateCompare, GatePromote, GatePromoted, GateReturn, GateGoOn, GateGoto, GateCrash, BeginGate,
     GateInv
<1>2. CASE Drop(p)
  BY <1>0, <1>1, <1>2, DropFrame DEF GateInv
<1>3. CASE UNCHANGED vars
  BY <1>1, <1>3 DEF vars
<1>4. ASSUME NEW c, NEW b, BeginCheckpoint(p, c, b) PROVE call'[q] = call[q]
  BY <1>0, <1>4, BeginFrame, ReturnFrame DEF BeginCheckpoint, Outcome
<1>5. ASSUME NEW c, NEW b, NEW k, BeginPromote(p, c, b, k) PROVE call'[q] = call[q]
  BY <1>0, <1>5, BeginFrame, ReturnFrame DEF BeginPromote, Outcome
<1> QED
  BY <1>1, <1>2, <1>3, <1>4, <1>5 DEF GateStepOf, GateInspect, GateAccepted, GateContent,
     GateCheckpoint, GateCheckpointed, GateCompare, GatePromote, GatePromoted, GateReturn,
     GateGoOn, GateCrash, BeginGate

LEMMA HoldStep ==
    ASSUME HoldInv, [GateNext]_allVars
    PROVE  HoldInv'
<1>0. GateInv /\ IInv /\ GateInv'
  BY GateStepInv DEF HoldInv, GateInv
<1> SUFFICES ASSUME NEW q \in Caller PROVE Holds(q)'
  BY <1>0 DEF HoldInv
<1>1. CASE UNCHANGED allVars
  BY <1>1, HoldsStays DEF allVars, gateVars, vars
<1>2. CASE ExecutorStep /\ UNCHANGED gate
  BY <1>2, HoldsStays DEF ExecutorStep, ExecutorEdits, ExecutorCommits, ExecutorChecksOut
<1>3. ASSUME NEW p \in Caller, ContinueOperation(p), UNCHANGED gate PROVE Holds(q)'
  <2>1. \A r \in Caller \ {p} : call'[r] = call[r]
    BY <1>0, <1>3, ContinueKeepsPromotion
  <2> QED
    BY <1>3, <2>1, HoldsStays, HoldsAfterPromotion
<1>4. ASSUME NEW p \in Caller, ~Running(p), BeginOperation(p) \/ Drop(p), UNCHANGED gate
      PROVE  Holds(q)'
  <2>1. \A r \in Caller \ {p} : call'[r] = call[r]
    BY <1>0, <1>4, BeginIsNoPromotion, DropFrame
  <2>2. CASE q # p
    BY <1>4, <2>1, <2>2, HoldsStays
  <2>3. CASE q = p
    <3>1. gate[p].at # "promoting"
      BY <1>4 DEF Running, GateStep
    <3>2. CASE gate[p].at # "promoted"
      BY <1>4, <2>3, <3>1, <3>2 DEF Holds
    <3>3. CASE gate[p].at = "promoted"
      <4>1. PICK c \in Candidate : promoted[c] = gate[p].commit /\ promoted[c] # NoCommit
        BY <3>3 DEF HoldInv, Holds
      <4> QED
        BY <1>0, <1>4, <2>3, <3>3, <4>1, PromotedIsKept DEF Holds
    <3> QED
      BY <3>2, <3>3
  <2> QED
    BY <2>2, <2>3
<1>5. ASSUME NEW p \in Caller, GateCrash(p) PROVE Holds(q)'
  BY <1>0, <1>5, OthersKeepTheirCalls, HoldsStays DEF GateCrash, GateInv, NoGate, Holds
<1>6. ASSUME NEW p \in Caller, GateStepOf(p) PROVE Holds(q)'
  BY <1>0, <1>6, OthersKeepTheirCalls, HoldsStays, GateStepHolds
<1>7. ASSUME NEW p \in Caller, NEW c \in Candidate, NEW v \in Verification, BeginGate(p, c, v)
      PROVE  Holds(q)'
  <2>1. CASE q # p
    BY <1>0, <1>7, <2>1, OthersKeepTheirCalls, HoldsStays
  <2>2. CASE q = p
    <3>1. gate'[p].at \in {"refused_before_checkpoint", "inspect"}
      BY <1>0, <1>7 DEF BeginGate, GateInv
    <3> QED
      BY <2>2, <3>1 DEF Holds
  <2> QED
    BY <2>1, <2>2
<1> QED
  BY <1>1, <1>2, <1>3, <1>4, <1>5, <1>6, <1>7 DEF GateNext, BrokerStepOf, gateVars

\* A caller that was told "promoted" holds a commit that a promoted ref names and that
\* the accepted commit descends from, for as long as it keeps the result.
THEOREM PromotedResultStaysTrue == GateSpec => []PromotedResultIsTrue
<1>1. GateInit => HoldInv
  <2> SUFFICES ASSUME GateInit PROVE HoldInv
    OBVIOUS
  <2> QED
    BY GateInitInv DEF HoldInv, Holds, GateInit, NoGate
<1>2. HoldInv => PromotedResultIsTrue
  BY DEF HoldInv, Holds, PromotedResultIsTrue, GateInv, IInv, PromotedStaysInHistory
<1> QED
  BY <1>1, <1>2, HoldStep, PTL DEF GateSpec

-----------------------------------------------------------------------------
(*                 A gate call that nobody disturbs                        *)

\* A commit's parent exists, is another commit, and passes its ancestors on.
ParentOK ==
    \A k \in commits : parent[k] # NoCommit =>
       parent[k] \in commits /\ parent[k] # k /\ anc[parent[k]] \subseteq anc[k]

RecordSteps == {"checkpoint_recorded", "checkpoint_record"}

\* HEAD descends from whatever its worktree has checkpointed, or is about to record.
HeadHolds ==
    /\ \A c \in Candidate : HasWorktree(c) => checkpoints[c] \subseteq anc[head[c]]
    /\ \A q \in Caller : call[q].at \in RecordSteps /\ HasWorktree(call[q].cand) =>
          call[q].commit \in anc[head[call[q].cand]]

\* The worktree is as the audit saw it; of a change at most the staging is new.
AsAudited(v) ==
    LET c == v.cand IN
    head[c] = v.head /\ files[c] = v.content /\ index[c] \in {v.content, tree[v.head]}

\* A commit with the audited state: new to the candidate, or one it has recorded.
Carries(k, v) == k \in commits /\ Matches(k, v) /\ IsAncestor(v.base, k)
Fresh(k, v) == Carries(k, v) /\ k # v.base /\ k \notin checkpoints[v.cand]
Promotable(k, v) == Carries(k, v) /\ k # v.base /\ k \in checkpoints[v.cand]
Proposed(k, dirty, v) == IF dirty THEN Fresh(k, v) ELSE k = v.head /\ Carries(k, v)

\* Where the broker's checkpoint of an audited worktree can be.
Checkpointing(m, v) ==
    LET c == v.cand IN
    /\ m.at \in {"checkpoint_status", "checkpoint_add", "checkpoint_commit", "checkpoint_head",
                 "checkpoint_recorded", "checkpoint_record", "checkpointed",
                 "nothing_to_checkpoint"}
    /\ m.at \notin {"checkpointed", "nothing_to_checkpoint"} => m.cand = c /\ m.base = v.base
    /\ m.at \in {"checkpoint_status", "checkpoint_add", "checkpoint_commit"} => AsAudited(v)
    /\ m.at \in {"checkpoint_add", "checkpoint_commit"} => m.dirty /\ v.content # tree[v.head]
    /\ m.at = "checkpoint_commit" => index[c] = v.content
    /\ m.at = "checkpoint_head" => Proposed(head[c], m.dirty, v)
    /\ m.at = "checkpoint_recorded" => Proposed(m.commit, m.dirty, v)
    /\ m.at = "checkpoint_record" => Fresh(m.commit, v)
    /\ m.at = "checkpointed" => Promotable(m.commit, v)
    /\ m.at = "nothing_to_checkpoint" => v.head = v.base \/ Promotable(v.head, v)

\* A gate call on its way to the promotion.
OnCourse(p) ==
    LET g == gate[p]  v == g.v  c == v.cand  m == call[p] IN
    /\ v.head \in commits /\ IsAncestor(v.base, v.head)
    /\ base[c] = v.base /\ HasWorktree(c)
    /\ ~(g.at = "promoting" /\ m.at = "promoted") => accepted = v.base /\ ~Decided(c)
    /\ g.at \notin {"checkpointing", "promoting"} => m.at \in Outcome
    /\ g.at \in {"inspect", "accepted", "content", "checkpoint"} => AsAudited(v)
    /\ g.at = "accepted" => g.head = v.head
    /\ g.at = "checkpointing" => Checkpointing(m, v)
    /\ g.at \in {"compare", "promote", "promoting"} => Promotable(g.commit, v)
    /\ g.at = "promoting" => m.at \in {"promote_accepted", "promote_refs", "promoted"}

CourseInv ==
    /\ GateInv /\ ParentOK /\ HeadHolds
    /\ undisturbed \in [Caller -> BOOLEAN]
    /\ \A p \in Caller : undisturbed[p] /\ Running(p) => OnCourse(p)

\* What exists keeps its tree, its parent and its ancestors.
HistoryStays ==
    /\ commits \subseteq commits'
    /\ \A k \in commits : tree'[k] = tree[k] /\ parent'[k] = parent[k] /\ anc'[k] = anc[k]

LEMMA MakeCommitKeepsHistory ==
    ASSUME IInv, ParentOK, NEW c \in Candidate, NEW content, NEW n \in Commit,
           MakeCommit(c, content, n), HasWorktree(c)
    PROVE  /\ HistoryStays /\ ParentOK'
           /\ head' = [head EXCEPT ![c] = n]
           /\ n \in commits' /\ parent'[n] = head[c] /\ tree'[n] = content
           /\ anc[head[c]] \subseteq anc'[n]
           /\ \A k \in anc[head[c]] : k # n
<1>1. head[c] \in commits /\ anc[head[c]] \subseteq commits /\ head[c] # NoCommit
  BY DEF IInv, NamesOK, ObjectsOK, HasWorktree, Opt
<1>2. CASE n \in Commit \ commits
  <2>1. /\ commits' = commits \cup {n} /\ head' = [head EXCEPT ![c] = n]
        /\ tree' = [tree EXCEPT ![n] = content]
        /\ parent' = [parent EXCEPT ![n] = head[c]]
        /\ anc' = [anc EXCEPT ![n] = anc[head[c]] \cup {n}]
    BY <1>2 DEF MakeCommit
  <2>2. /\ tree'[n] = content /\ parent'[n] = head[c] /\ anc'[n] = anc[head[c]] \cup {n}
        /\ \A k \in commits : tree'[k] = tree[k] /\ parent'[k] = parent[k] /\ anc'[k] = anc[k]
    BY <1>2, <2>1 DEF IInv, TypeOK
  <2>3. ParentOK'
    BY <1>1, <1>2, <2>1, <2>2 DEF ParentOK
  <2> QED
    BY <1>1, <1>2, <2>1, <2>2, <2>3 DEF HistoryStays
<1>3. CASE n \in commits
  <2>1. /\ parent[n] = head[c] /\ tree[n] = content /\ head' = [head EXCEPT ![c] = n]
        /\ UNCHANGED objectVars
    BY <1>3 DEF MakeCommit
  <2>2. parent[n] # n /\ anc[head[c]] \subseteq anc[n]
    BY <1>1, <1>3, <2>1 DEF ParentOK
  <2>3. ASSUME NEW k \in anc[head[c]] PROVE k # n
    <3>1. SUFFICES ASSUME k = n PROVE FALSE
      OBVIOUS
    <3>2. head[c] \in anc[n]
      BY <1>1, <2>2 DEF IInv, ObjectsOK
    <3>3. head[c] = n
      BY <1>1, <1>3, <3>1, <3>2 DEF IInv, ObjectsOK
    <3> QED
      BY <2>1, <2>2, <3>3
  <2> QED
    BY <1>3, <2>1, <2>2, <2>3 DEF HistoryStays, ParentOK, objectVars
<1> QED
  BY <1>2, <1>3

LEMMA StepsKeepHistory ==
    ASSUME IInv, ParentOK, ExecutorStep \/ \E p \in Caller : ContinueOperation(p)
    PROVE  HistoryStays /\ ParentOK'
<1>1. CASE UNCHANGED objectVars
  BY <1>1 DEF HistoryStays, ParentOK, objectVars
<1>2. ASSUME NEW p \in Caller, CheckpointCommit(p) PROVE HistoryStays /\ ParentOK'
  <2>1. call[p].cand \in Candidate
    BY <1>2 DEF CheckpointCommit, At, IInv, CallOK, LiveSteps
  <2> QED
    BY <1>1, <1>2, <2>1, MakeCommitKeepsHistory DEF CheckpointCommit
<1>3. ASSUME NEW c \in Candidate, ExecutorCommits(c) PROVE HistoryStays /\ ParentOK'
  BY <1>3, MakeCommitKeepsHistory DEF ExecutorCommits
<1>4. ASSUME NEW p \in Caller, ContinueOperation(p)
      PROVE  UNCHANGED objectVars \/ CheckpointCommit(p)
  BY <1>4 DEF ContinueOperation, InitCas, InitReread, CreateBase, CreateWorktree,
     CreateRollback, CheckpointStatus, CheckpointAdd, CheckpointHead, CheckpointRecorded,
     CheckpointRecord, PromoteAccepted, PromoteRefs, PromoteRefused, PromoteReread,
     RejectRefs, RejectRefused, CleanupStatus, CleanupRemove, WorktreeGone
<1>5. CASE ExecutorStep
  BY <1>1, <1>3, <1>5 DEF ExecutorStep, ExecutorEdits, ExecutorChecksOut
<1> QED
  BY <1>1, <1>2, <1>4, <1>5

\* A call comes to the recording of a checkpoint only with the commit it had read.
SameRecord(q) ==
    call'[q].at \in RecordSteps =>
       /\ call[q].at \in RecordSteps
       /\ call'[q].cand = call[q].cand /\ call'[q].commit = call[q].commit

LEMMA HeadsAdvance ==
    ASSUME IInv, HeadHolds, HistoryStays, UNCHANGED checkpoints,
           \A c \in Candidate : \/ head'[c] \in {NoCommit, head[c]}
                                \/ HasWorktree(c) /\ anc[head[c]] \subseteq anc'[head'[c]],
           \A q \in Caller : SameRecord(q)
    PROVE  HeadHolds'
<1>1. ASSUME NEW c \in Candidate, head'[c] # NoCommit
      PROVE  HasWorktree(c) /\ anc[head[c]] \subseteq anc'[head'[c]]
  <2>1. head[c] \in commits \/ head[c] = NoCommit
    BY DEF IInv, NamesOK, Opt
  <2> QED
    BY <1>1, <2>1 DEF HistoryStays, HasWorktree
<1>2. ASSUME NEW c \in Candidate, HasWorktree(c)' PROVE checkpoints'[c] \subseteq anc'[head'[c]]
  BY <1>1, <1>2 DEF HeadHolds, HasWorktree
<1>3. ASSUME NEW q \in Caller, call'[q].at \in RecordSteps, HasWorktree(call[q].cand)'
      PROVE  call'[q].commit \in anc'[head'[call'[q].cand]]
  <2>1. /\ call[q].at \in RecordSteps
        /\ call'[q].cand = call[q].cand /\ call'[q].commit = call[q].commit
    BY <1>3 DEF SameRecord
  <2>2. call[q].cand \in Candidate
    BY <2>1 DEF IInv, CallOK, RecordSteps, LiveSteps
  <2> QED
    BY <1>1, <1>3, <2>1, <2>2 DEF HeadHolds, HasWorktree
<1> QED
  BY <1>2, <1>3 DEF HeadHolds, SameRecord, HasWorktree

LEMMA ContinueKeepsRecord ==
    ASSUME IInv, NEW p \in Caller, ContinueOperation(p), ~CheckpointHead(p)
    PROVE  SameRecord(p)
<1>1. ASSUME NEW outcome \in Outcome, Return(p, outcome) PROVE SameRecord(p)
  BY <1>1, ReturnFrame DEF IInv, TypeOK, Outcome, SameRecord, RecordSteps
<1>2. ASSUME NEW step, Goto(p, step), step \in RecordSteps => call[p].at \in RecordSteps
      PROVE  SameRecord(p)
  BY <1>2, GotoFrame DEF SameRecord, IInv, TypeOK
<1>3. CASE InitCas(p) \/ InitReread(p)
  BY <1>1, <1>2, <1>3 DEF InitCas, InitReread, Outcome, RecordSteps
<1>4. ASSUME NEW c \in Candidate, CreateBase(p, c) PROVE SameRecord(p)
  <2>1. CASE Return(p, "refused")
    BY <1>1, <2>1 DEF Outcome
  <2>2. CASE Begin(p, "create_worktree", c, call[p].base, NoCommit)
    <3>1. call \in [Caller -> Call]
      BY DEF IInv, TypeOK
    <3>2. call'[p] = [at |-> "create_worktree", cand |-> c, base |-> call[p].base,
                      commit |-> NoCommit, dirty |-> FALSE]
      BY <2>2, <3>1, BeginFrame
    <3> QED
      BY <3>2 DEF SameRecord, RecordSteps
  <2> QED
    BY <1>4, <2>1, <2>2 DEF CreateBase
<1>5. CASE CreateWorktree(p) \/ CreateRollback(p)
  BY <1>1, <1>2, <1>5 DEF CreateWorktree, CreateRollback, Outcome, RecordSteps
<1>6. CASE CheckpointStatus(p)
  BY <1>6 DEF CheckpointStatus, SameRecord, RecordSteps, IInv, TypeOK, Call
<1>7. CASE CheckpointAdd(p) \/ CheckpointCommit(p)
  BY <1>1, <1>2, <1>7 DEF CheckpointAdd, CheckpointCommit, Outcome, RecordSteps
<1>8. CASE CheckpointRecorded(p) \/ CheckpointRecord(p)
  BY <1>1, <1>2, <1>8 DEF CheckpointRecorded, CheckpointRecord, At, Outcome, RecordSteps
<1>9. CASE PromoteAccepted(p) \/ PromoteRefs(p) \/ PromoteRefused(p) \/ PromoteReread(p)
  BY <1>1, <1>2, <1>9
  DEF PromoteAccepted, PromoteRefs, PromoteRefused, PromoteReread, Outcome, RecordSteps
<1>10. CASE RejectRefs(p) \/ RejectRefused(p)
  BY <1>1, <1>2, <1>10 DEF RejectRefs, RejectRefused, Outcome, RecordSteps
<1>11. CASE CleanupStatus(p) \/ CleanupRemove(p) \/ WorktreeGone(p, WorktreeSteps)
  BY <1>1, <1>2, <1>11 DEF CleanupStatus, CleanupRemove, WorktreeGone, Outcome, RecordSteps
<1> QED
  BY <1>3, <1>4, <1>5, <1>6, <1>7, <1>8, <1>9, <1>10, <1>11 DEF ContinueOperation

\* HEAD holds the checkpoints through every step of the broker.
LEMMA ContinueKeepsHeads ==
    ASSUME IInv, ParentOK, HeadHolds, NEW p \in Caller, ContinueOperation(p)
    PROVE  HeadHolds'
<1>0. /\ HistoryStays
      /\ \A q \in Caller \ {p} : SameRecord(q)
      /\ ~CheckpointHead(p) => SameRecord(p)
  BY StepsKeepHistory, ContinueKeepsPromotion, ContinueKeepsRecord DEF SameRecord
<1>1. CASE CheckpointHead(p)
  <2> DEFINE c == call[p].cand
  <2>1. /\ c \in Candidate /\ HasWorktree(c) /\ UNCHANGED <<head, checkpoints, anc>>
        /\ call'[p].cand = c /\ call'[p].commit = head[c]
    BY <1>1 DEF CheckpointHead, At, IInv, TypeOK, CallOK, LiveSteps, Call, candidateRefs,
       worktreeVars, objectVars
  <2>2. head[c] \in anc[head[c]]
    BY <2>1 DEF IInv, NamesOK, ObjectsOK, Opt, HasWorktree
  <2>3. ASSUME NEW q \in Caller, call'[q].at \in RecordSteps, head'[call'[q].cand] # NoCommit
        PROVE  call'[q].commit \in anc[head[call'[q].cand]]
    BY <1>0, <2>1, <2>2, <2>3 DEF HeadHolds, SameRecord, HasWorktree
  <2> QED
    BY <2>1, <2>3 DEF HeadHolds, HasWorktree
<1>2. CASE CreateWorktree(p)
  <2> DEFINE c == call[p].cand
  <2>1. /\ c \in Candidate /\ checkpoints[c] = {} /\ call[p].at \in CreateSteps
        /\ \A d \in Candidate \ {c} : head'[d] = head[d]
        /\ UNCHANGED <<checkpoints, anc>>
    BY <1>2 DEF CreateWorktree, At, IInv, TypeOK, CallOK, CreateSteps, candidateRefs,
       worktreeVars, objectVars
  <2>2. ASSUME NEW q \in Caller, call'[q].at \in RecordSteps
        PROVE  call'[q].cand # c /\ call'[q].cand \in Candidate /\ call[q].at \in RecordSteps
    <3>1. call[q].at \in RecordSteps /\ call'[q].cand = call[q].cand
      BY <1>0, <1>2, <2>2 DEF SameRecord, CreateWorktree, CheckpointHead, At
    <3>2. q # p /\ call[q].at \in LiveSteps
      BY <2>1, <3>1 DEF RecordSteps, LiveSteps, CreateSteps
    <3> QED
      BY <2>1, <3>1, <3>2 DEF IInv, CreationIsPrivate, CallOK
  <2>3. ASSUME NEW q \in Caller, call'[q].at \in RecordSteps, head'[call'[q].cand] # NoCommit
        PROVE  call'[q].commit \in anc'[head'[call'[q].cand]]
    BY <1>0, <1>2, <2>1, <2>2, <2>3 DEF HeadHolds, SameRecord, HasWorktree, CreateWorktree,
       CheckpointHead, At
  <2>4. ASSUME NEW d \in Candidate, HasWorktree(d)' PROVE checkpoints'[d] \subseteq anc'[head'[d]]
    BY <2>1, <2>4 DEF HeadHolds, HasWorktree
  <2> QED
    BY <2>3, <2>4 DEF HeadHolds, HasWorktree
<1>3. CASE CheckpointCommit(p)
  <2> DEFINE c == call[p].cand
  <2>1. c \in Candidate /\ HasWorktree(c) /\ UNCHANGED checkpoints /\ ~CheckpointHead(p)
    BY <1>3 DEF CheckpointCommit, CheckpointHead, At, IInv, CallOK, LiveSteps, candidateRefs
  <2>2. CASE UNCHANGED head
    BY <1>0, <2>1, <2>2, HeadsAdvance
  <2>3. ASSUME NEW n \in Commit, MakeCommit(c, index[c], n) PROVE HeadHolds'
    <3>1. head' = [head EXCEPT ![c] = n] /\ anc[head[c]] \subseteq anc'[n]
      BY <2>1, <2>3, MakeCommitKeepsHistory
    <3>2. \A d \in Candidate : \/ head'[d] \in {NoCommit, head[d]}
                               \/ HasWorktree(d) /\ anc[head[d]] \subseteq anc'[head'[d]]
      BY <2>1, <3>1 DEF IInv, TypeOK
    <3> QED
      BY <1>0, <2>1, <3>2, HeadsAdvance
  <2> QED
    BY <1>3, <2>2, <2>3 DEF CheckpointCommit
<1>4. CASE CheckpointRecord(p)
  <2> DEFINE c == call[p].cand  k == call[p].commit
  <2>1. /\ c \in Candidate /\ call[p].at \in RecordSteps /\ UNCHANGED <<head, anc>>
        /\ ~CheckpointHead(p)
    BY <1>4 DEF CheckpointRecord, CheckpointHead, At, IInv, CallOK, LiveSteps, RecordSteps,
       worktreeVars, objectVars
  <2>2. HasWorktree(c) => k \in anc[head[c]]
    BY <2>1 DEF HeadHolds
  <2>3. checkpoints' = [checkpoints EXCEPT ![c] = @ \cup {k}] \/ UNCHANGED checkpoints
    BY <1>4 DEF CheckpointRecord
  <2>4. ASSUME NEW d \in Candidate, HasWorktree(d)' PROVE checkpoints'[d] \subseteq anc'[head'[d]]
    BY <2>1, <2>2, <2>3, <2>4 DEF HeadHolds, HasWorktree, IInv, TypeOK
  <2>5. ASSUME NEW q \in Caller, call'[q].at \in RecordSteps, head'[call'[q].cand] # NoCommit
        PROVE  call'[q].commit \in anc'[head'[call'[q].cand]]
    BY <1>0, <2>1, <2>5 DEF HeadHolds, SameRecord, HasWorktree
  <2> QED
    BY <2>4, <2>5 DEF HeadHolds, HasWorktree
<1>5. CASE CleanupRemove(p)
  <2>1. /\ UNCHANGED checkpoints /\ head' = [head EXCEPT ![call[p].cand] = NoCommit]
        /\ ~CheckpointHead(p)
    BY <1>5 DEF CleanupRemove, CheckpointHead, At, candidateRefs
  <2>2. \A d \in Candidate : head'[d] \in {NoCommit, head[d]}
    BY <2>1 DEF IInv, TypeOK
  <2> QED
    BY <1>0, <2>1, <2>2, HeadsAdvance
<1>6. CASE UNCHANGED <<head, checkpoints>> /\ ~CheckpointHead(p)
  BY <1>0, <1>6, HeadsAdvance
<1>7. \/ CheckpointHead(p) \/ CreateWorktree(p) \/ CheckpointCommit(p) \/ CheckpointRecord(p)
      \/ CleanupRemove(p) \/ UNCHANGED <<head, checkpoints>>
  BY DEF ContinueOperation, InitCas, InitReread, CreateBase, CreateRollback, CheckpointStatus,
     CheckpointAdd, CheckpointRecorded, PromoteAccepted, PromoteRefs, PromoteRefused,
     PromoteReread, RejectRefs, RejectRefused, CleanupStatus, WorktreeGone, candidateRefs,
     worktreeVars
<1> QED
  BY <1>1, <1>2, <1>3, <1>4, <1>5, <1>6, <1>7

\* An executor that does not check out other commits only moves HEAD forward.
LEMMA ExecutorKeepsHeads ==
    ASSUME IInv, ParentOK, HeadHolds, ExecutorStep, "checkout" \notin ExecutorMoves
    PROVE  HeadHolds'
<1>0. HistoryStays /\ UNCHANGED checkpoints /\ \A q \in Caller : SameRecord(q)
  BY StepsKeepHistory
  DEF ExecutorStep, ExecutorEdits, ExecutorCommits, ExecutorChecksOut, candidateRefs, SameRecord
<1>1. PICK c \in Candidate : (\E content : ExecutorEdits(c, content)) \/ ExecutorCommits(c)
  BY DEF ExecutorStep
<1>2. CASE UNCHANGED head
  BY <1>0, <1>2, HeadsAdvance
<1>3. ASSUME NEW n \in Commit, MakeCommit(c, files[c], n), HasWorktree(c) PROVE HeadHolds'
  <2>1. head' = [head EXCEPT ![c] = n] /\ anc[head[c]] \subseteq anc'[n]
    BY <1>3, MakeCommitKeepsHistory
  <2>2. \A d \in Candidate : \/ head'[d] \in {NoCommit, head[d]}
                             \/ HasWorktree(d) /\ anc[head[d]] \subseteq anc'[head'[d]]
    BY <1>3, <2>1 DEF IInv, TypeOK
  <2> QED
    BY <1>0, <2>2, HeadsAdvance
<1> QED
  BY <1>1, <1>2, <1>3 DEF ExecutorEdits, ExecutorCommits

\* What every gate call under way has.
LEMMA RunningFacts ==
    ASSUME GateInv, NEW p \in Caller, Running(p)
    PROVE  /\ gate[p].v \in Verification
           /\ gate[p].v.cand \in Candidate /\ gate[p].v.base \in Commit
           /\ gate[p].v.content \in Content
BY DEF GateInv, GateCallOK, Verification

LEMMA CarriesStays ==
    ASSUME HistoryStays, NEW k, NEW v, Carries(k, v)
    PROVE  Carries(k, v)'
BY DEF HistoryStays, Carries, Matches, IsAncestor

\* The refs and the worktree of a candidate, and what is accepted.
SameFor(c) ==
    /\ accepted' = accepted /\ base'[c] = base[c] /\ checkpoints'[c] = checkpoints[c]
    /\ promoted'[c] = promoted[c] /\ rejected'[c] = rejected[c]
    /\ head'[c] = head[c] /\ index'[c] = index[c] /\ files'[c] = files[c]

\* Nobody else's step throws a gate call off course but by touching its candidate.
LEMMA OnCourseStays ==
    ASSUME GateInv, HistoryStays, NEW p \in Caller, Running(p), OnCourse(p),
           gate'[p] = gate[p], call'[p] = call[p], SameFor(gate[p].v.cand)
    PROVE  OnCourse(p)'
<1> DEFINE g == gate[p]  v == g.v  c == v.cand  m == call[p]
<1>1. /\ v.head \in commits /\ tree'[v.head] = tree[v.head] /\ anc'[v.head] = anc[v.head]
      /\ v.head \in commits'
  BY DEF OnCourse, HistoryStays
<1>2. AsAudited(v) => AsAudited(v)'
  BY <1>1 DEF AsAudited, SameFor
<1>3. ASSUME NEW k PROVE /\ Fresh(k, v) => Fresh(k, v)'
                         /\ Promotable(k, v) => Promotable(k, v)'
                         /\ k = v.head /\ Carries(k, v) => Carries(k, v)'
  BY CarriesStays DEF Fresh, Promotable, SameFor
<1>4. ASSUME NEW k, NEW dirty PROVE Proposed(k, dirty, v) => Proposed(k, dirty, v)'
  BY <1>3 DEF Proposed
<1>5. Checkpointing(m, v) => Checkpointing(m, v)'
  <2>1. SUFFICES ASSUME Checkpointing(m, v) PROVE Checkpointing(m, v)'
    OBVIOUS
  <2>2. m.at = "checkpoint_head" => Proposed(head[c], m.dirty, v)'
    <3>1. m.at = "checkpoint_head" => Proposed(head[c], m.dirty, v)
      BY <2>1 DEF Checkpointing
    <3>2. head'[c] = head[c]
      BY DEF SameFor
    <3>3. PICK k : k = head[c]
      OBVIOUS
    <3> QED
      BY <3>1, <3>2, <3>3, <1>4 DEF Proposed, Fresh, Carries, Matches, IsAncestor
  <2> QED
    BY <1>1, <1>2, <1>3, <1>4, <2>1, <2>2
    DEF Checkpointing, SameFor
<1> QED
  BY <1>1, <1>2, <1>3, <1>5 DEF OnCourse, IsAncestor, Decided, HasWorktree, SameFor

LEMMA QuietKeeps ==
    ASSUME UNCHANGED <<objectVars, accepted, candidateRefs, worktreeVars>>, NEW v, NEW k
    PROVE  /\ AsAudited(v) => AsAudited(v)'
           /\ Carries(k, v) => Carries(k, v)'
           /\ Fresh(k, v) => Fresh(k, v)'
           /\ Promotable(k, v) => Promotable(k, v)'
BY DEF AsAudited, Carries, Fresh, Promotable, Matches, IsAncestor, objectVars, candidateRefs,
   worktreeVars

\* Where p's gate call is after its own step, if it goes on.
LEMMA QuietCourse ==
    ASSUME GateInv, NEW p \in Caller, Running(p), OnCourse(p), NEW step \in GateStep,
           gate[p].at # "promoting",
           UNCHANGED <<objectVars, accepted, candidateRefs, worktreeVars>>,
           gate'[p].v = gate[p].v, gate'[p].at = step,
           step \notin {"checkpointing", "promoting"} => call'[p].at \in Outcome,
           step \in {"accepted", "content", "checkpoint"} => AsAudited(gate[p].v),
           step = "accepted" => gate'[p].head = gate[p].v.head,
           step = "checkpointing" => Checkpointing(call[p], gate[p].v)',
           step \in {"compare", "promote", "promoting"} => Promotable(gate'[p].commit, gate[p].v),
           step = "promoting" => call'[p].at = "promote_accepted"
    PROVE  OnCourse(p)'
<1> DEFINE v == gate[p].v  c == v.cand
<1>1. /\ v.head \in commits' /\ v.base \in anc'[v.head]
      /\ base'[c] = v.base /\ head'[c] # NoCommit
      /\ accepted' = v.base /\ promoted'[c] = NoCommit /\ rejected'[c] = NoCommit
  BY DEF OnCourse, IsAncestor, HasWorktree, Decided, objectVars, candidateRefs, worktreeVars
<1>2. step \in {"inspect", "accepted", "content", "checkpoint"} => AsAudited(v)'
  BY QuietKeeps DEF GateStep
<1>3. step \in {"compare", "promote", "promoting"} => Promotable(gate[p].commit, gate[p].v)'
  BY QuietKeeps
<1> QED
  BY <1>1, <1>2, <1>3 DEF OnCourse, IsAncestor, HasWorktree, Decided

\* The result of a step for p's own gate call.
StaysOnCourse(p) == undisturbed'[p] /\ Running(p)' => OnCourse(p)'
Answered(p) ==
    gate'[p].at \in GateStage =>
       \/ gate'[p].at = "promoted"
       \/ gate'[p].status = "NOTHING_TO_PROMOTE" /\ gate[p].v.head = gate[p].v.base

LEMMA ReturnsDisturbed ==
    ASSUME CourseInv, NEW p \in Caller, NEW stage \in GateStage, NEW status,
           GateReturn(p, stage, status)
    PROVE  /\ gate'[p].at = stage /\ gate'[p].status = status
           /\ undisturbed'[p] = FALSE /\ StaysOnCourse(p)
BY DEF GateReturn, CourseInv, GateInv, StaysOnCourse

LEMMA GoesOn ==
    ASSUME GateInv, NEW p \in Caller, Running(p), NEW step, GateGoOn(p, step)
    PROVE  /\ gate'[p].at = step /\ gate'[p].v = gate[p].v
           /\ gate'[p].head = gate[p].head /\ gate'[p].commit = gate[p].commit
           /\ call'[p].at \in Outcome
           /\ UNCHANGED <<objectVars, accepted, candidateRefs, worktreeVars>>
<1>1. gate[p] \in [at : GateStep \cup {"inspect"}, v : Verification,
                   head : Opt(Commit), commit : Opt(Commit)]
  BY DEF GateInv, GateCallOK
<1>2. gate'[p] = [gate[p] EXCEPT !.at = step]
  BY DEF GateGoOn, GateGoto, GateInv
<1>3. call \in [Caller -> Call]
  BY DEF GateInv, IInv, TypeOK
<1> QED
  BY <1>1, <1>2, <1>3, ReturnFrame DEF GateGoOn, Drop, Outcome

\* Each step of a gate call that is on course keeps it there, or answers with a promotion
\* or for the one good reason.
LEMMA BeginGateCourse ==
    ASSUME CourseInv, NEW p \in Caller, NEW c \in Candidate, NEW v \in Verification,
           BeginGate(p, c, v)
    PROVE  StaysOnCourse(p)
<1>1. SUFFICES ASSUME undisturbed'[p], Running(p)' PROVE OnCourse(p)'
  BY DEF StaysOnCourse
<1>2. /\ v.verified /\ v.cand = c /\ v.base = base[c]
      /\ accepted = base[c] /\ ~Decided(c) /\ IsAncestor(base[c], v.head)
      /\ head[c] = v.head /\ files[c] = v.content /\ index[c] \in {files[c], tree[v.head]}
  BY <1>1 DEF BeginGate, CourseInv
<1>3. gate'[p] = [at |-> "inspect", v |-> v, head |-> NoCommit, commit |-> NoCommit]
  BY <1>2 DEF BeginGate, CourseInv, GateInv
<1>4. call'[p].at \in Outcome
  BY ReturnFrame DEF BeginGate, Drop, Outcome, CourseInv, GateInv, IInv, TypeOK
<1>5. UNCHANGED <<objectVars, accepted, candidateRefs, worktreeVars>> /\ v.head \in commits
  BY DEF BeginGate, Drop
<1>6. head[c] # NoCommit
  BY <1>2, <1>5 DEF CourseInv, GateInv, IInv, TypeOK
<1> QED
  BY <1>2, <1>3, <1>4, <1>5, <1>6 DEF OnCourse, AsAudited, IsAncestor, HasWorktree, Decided,
     objectVars, candidateRefs, worktreeVars

LEMMA GateInspectCourse ==
    ASSUME CourseInv, NEW p \in Caller, Running(p), OnCourse(p), GateInspect(p)
    PROVE  StaysOnCourse(p) /\ Answered(p)
<1> DEFINE c == gate[p].v.cand
<1>0. GateInv /\ gate[p].at = "inspect"
  BY DEF CourseInv, GateInspect, InGate
<1>1. AsAudited(gate[p].v) /\ base[c] = gate[p].v.base /\ HasWorktree(c) /\ call[p].at \in Outcome
  BY <1>0 DEF OnCourse
<1>2. gate' = [gate EXCEPT ![p].head = head[c], ![p].at = "accepted"] /\ UNCHANGED vars
  BY <1>1 DEF GateInspect
<1>3. PICK k : k = head[c]
  OBVIOUS
<1>4. gate[p] \in [at : GateStep \cup {"inspect"}, v : Verification,
                   head : Opt(Commit), commit : Opt(Commit)]
  BY <1>0 DEF GateInv, GateCallOK
<1>5. gate'[p] = [gate[p] EXCEPT !.head = k, !.at = "accepted"]
  BY <1>0, <1>2, <1>3 DEF GateInv
<1>6. /\ gate'[p].v = gate[p].v /\ gate'[p].at = "accepted" /\ gate'[p].head = gate[p].v.head
      /\ gate'[p].commit = gate[p].commit
  BY <1>1, <1>3, <1>4, <1>5 DEF AsAudited
<1>7. OnCourse(p)'
  BY <1>0, <1>1, <1>2, <1>6, QuietCourse DEF GateStep, vars
<1> QED
  BY <1>6, <1>7 DEF StaysOnCourse, Answered, GateStage

LEMMA GateAcceptedCourse ==
    ASSUME CourseInv, NEW p \in Caller, Running(p), OnCourse(p), GateAccepted(p)
    PROVE  StaysOnCourse(p) /\ Answered(p)
<1>0. GateInv /\ gate[p].at = "accepted"
  BY DEF CourseInv, GateAccepted, InGate
<1>1. AsAudited(gate[p].v) /\ gate[p].head = gate[p].v.head /\ accepted = gate[p].v.base
  BY <1>0 DEF OnCourse
<1>2. GateGoOn(p, "content")
  BY <1>1 DEF GateAccepted
<1>3. OnCourse(p)' /\ gate'[p].at = "content"
  BY <1>0, <1>1, <1>2, GoesOn, QuietCourse DEF GateStep
<1> QED
  BY <1>3 DEF StaysOnCourse, Answered, GateStage

LEMMA GateContentCourse ==
    ASSUME CourseInv, NEW p \in Caller, Running(p), OnCourse(p), GateContent(p)
    PROVE  StaysOnCourse(p) /\ Answered(p)
<1>0. GateInv /\ gate[p].at = "content"
  BY DEF CourseInv, GateContent, InGate
<1>1. AsAudited(gate[p].v) /\ HasWorktree(gate[p].v.cand)
  BY <1>0 DEF OnCourse
<1>2. GateGoOn(p, "checkpoint")
  BY <1>1 DEF GateContent, AsAudited
<1>3. OnCourse(p)' /\ gate'[p].at = "checkpoint"
  BY <1>0, <1>1, <1>2, GoesOn, QuietCourse DEF GateStep
<1> QED
  BY <1>3 DEF StaysOnCourse, Answered, GateStage

LEMMA GateCheckpointCourse ==
    ASSUME CourseInv, NEW p \in Caller, Running(p), OnCourse(p), GateCheckpoint(p)
    PROVE  StaysOnCourse(p) /\ Answered(p)
<1> DEFINE v == gate[p].v  c == v.cand
<1>0. GateInv /\ gate[p].at = "checkpoint" /\ call \in [Caller -> Call]
  BY DEF CourseInv, GateCheckpoint, InGate, GateInv, IInv, TypeOK
<1>1. /\ AsAudited(v) /\ HasWorktree(c) /\ base[c] = v.base /\ ~Decided(c)
      /\ UNCHANGED <<objectVars, accepted, candidateRefs, worktreeVars>>
  BY <1>0 DEF OnCourse, GateCheckpoint, BeginCheckpoint
<1>2. Begin(p, "checkpoint_status", c, v.base, NoCommit)
  BY <1>1 DEF GateCheckpoint, BeginCheckpoint
<1>3. call'[p] = [at |-> "checkpoint_status", cand |-> c, base |-> v.base,
                  commit |-> NoCommit, dirty |-> FALSE]
  BY <1>0, <1>2, BeginFrame
<1>4. gate[p] \in [at : GateStep \cup {"inspect"}, v : Verification,
                   head : Opt(Commit), commit : Opt(Commit)]
  BY <1>0 DEF GateInv, GateCallOK
<1>5. gate'[p] = [gate[p] EXCEPT !.at = "checkpointing"]
  BY <1>0 DEF GateCheckpoint, GateGoto, GateInv
<1>6. gate'[p].v = v /\ gate'[p].at = "checkpointing" /\ gate'[p].commit = gate[p].commit
  BY <1>4, <1>5
<1>7. Checkpointing(call[p], v)'
  BY <1>1, <1>3, <1>6, QuietKeeps DEF Checkpointing
<1>8. OnCourse(p)'
  BY <1>0, <1>1, <1>6, <1>7, QuietCourse DEF GateStep
<1> QED
  BY <1>6, <1>8 DEF StaysOnCourse, Answered, GateStage

LEMMA GateCheckpointedCourse ==
    ASSUME CourseInv, NEW p \in Caller, Running(p), OnCourse(p), GateCheckpointed(p)
    PROVE  StaysOnCourse(p) /\ Answered(p)
<1> DEFINE v == gate[p].v
           Compared(k) == gate' = [gate EXCEPT ![p].commit = k, ![p].at = "compare"] /\ Drop(p)
<1>0. GateInv /\ gate[p].at = "checkpointing" /\ Checkpointing(call[p], v)
  BY DEF CourseInv, GateCheckpointed, InGate, OnCourse
<1>1. ASSUME NEW k \in commits, Promotable(k, v), Compared(k) PROVE StaysOnCourse(p) /\ Answered(p)
  <2>1. gate[p] \in [at : GateStep \cup {"inspect"}, v : Verification,
                     head : Opt(Commit), commit : Opt(Commit)]
    BY <1>0 DEF GateInv, GateCallOK
  <2>2. gate'[p] = [gate[p] EXCEPT !.commit = k, !.at = "compare"]
    BY <1>0, <1>1 DEF GateInv
  <2>3. gate'[p].v = v /\ gate'[p].at = "compare" /\ gate'[p].commit = k
    BY <2>1, <2>2
  <2>4. call'[p].at \in Outcome /\ UNCHANGED <<objectVars, accepted, candidateRefs, worktreeVars>>
    BY <1>0, <1>1, ReturnFrame DEF Drop, Outcome, GateInv, IInv, TypeOK
  <2>5. OnCourse(p)'
    BY <1>0, <1>1, <2>3, <2>4, QuietCourse DEF GateStep
  <2> QED
    BY <2>3, <2>5 DEF StaysOnCourse, Answered, GateStage
<1>2. CASE At(p, "checkpointed")
  BY <1>0, <1>1, <1>2 DEF GateCheckpointed, Checkpointing, At, Promotable, Carries
<1>3. CASE At(p, "nothing_to_checkpoint") /\ v.head = v.base
  <2>1. GateReturn(p, "refused_before_checkpoint", "NOTHING_TO_PROMOTE")
    BY <1>3 DEF GateCheckpointed, At
  <2> QED
    BY <1>3, <2>1, ReturnsDisturbed DEF GateStage, Answered
<1>4. CASE At(p, "nothing_to_checkpoint") /\ v.head # v.base
  <2>1. Promotable(v.head, v) /\ v.head \in commits
    BY <1>0, <1>4 DEF Checkpointing, At, Promotable, Carries
  <2> QED
    BY <1>1, <1>4, <2>1 DEF GateCheckpointed, At
<1>5. call[p].at \in {"checkpointed", "nothing_to_checkpoint"}
  BY <1>0 DEF Checkpointing, GateCheckpointed, Ready, Outcome
<1> QED
  BY <1>2, <1>3, <1>4, <1>5 DEF At

LEMMA GateCompareCourse ==
    ASSUME CourseInv, NEW p \in Caller, Running(p), OnCourse(p), GateCompare(p)
    PROVE  StaysOnCourse(p) /\ Answered(p)
<1>0. GateInv /\ gate[p].at = "compare"
  BY DEF CourseInv, GateCompare, InGate
<1>1. HasWorktree(gate[p].v.cand) /\ Promotable(gate[p].commit, gate[p].v)
  BY <1>0 DEF OnCourse
<1>2. GateGoOn(p, "promote")
  BY <1>1 DEF GateCompare, Promotable, Carries
<1>3. OnCourse(p)' /\ gate'[p].at = "promote"
  BY <1>0, <1>1, <1>2, GoesOn, QuietCourse DEF GateStep
<1> QED
  BY <1>3 DEF StaysOnCourse, Answered, GateStage

LEMMA GatePromoteCourse ==
    ASSUME CourseInv, NEW p \in Caller, Running(p), OnCourse(p), GatePromote(p)
    PROVE  StaysOnCourse(p) /\ Answered(p)
<1> DEFINE v == gate[p].v  c == v.cand  k == gate[p].commit
<1>0. GateInv /\ gate[p].at = "promote" /\ call \in [Caller -> Call]
  BY DEF CourseInv, GatePromote, InGate, GateInv, IInv, TypeOK
<1>1. /\ Promotable(k, v) /\ base[c] = v.base /\ ~Decided(c)
      /\ UNCHANGED <<objectVars, accepted, candidateRefs, worktreeVars>>
  BY <1>0 DEF OnCourse, GatePromote, BeginPromote
<1>2. Begin(p, "promote_accepted", c, v.base, k)
  BY <1>1 DEF GatePromote, BeginPromote, RecordedCheckpoint, Promotable
<1>3. call'[p] = [at |-> "promote_accepted", cand |-> c, base |-> v.base, commit |-> k,
                  dirty |-> FALSE]
  BY <1>0, <1>2, BeginFrame
<1>4. gate[p] \in [at : GateStep \cup {"inspect"}, v : Verification,
                   head : Opt(Commit), commit : Opt(Commit)]
  BY <1>0 DEF GateInv, GateCallOK
<1>5. gate'[p] = [gate[p] EXCEPT !.at = "promoting"]
  BY <1>0 DEF GatePromote, GateGoto, GateInv
<1>6. gate'[p].v = v /\ gate'[p].at = "promoting" /\ gate'[p].commit = k
  BY <1>4, <1>5
<1>7. OnCourse(p)'
  BY <1>0, <1>1, <1>3, <1>6, QuietCourse DEF GateStep
<1> QED
  BY <1>6, <1>7 DEF StaysOnCourse, Answered, GateStage

LEMMA GatePromotedCourse ==
    ASSUME CourseInv, NEW p \in Caller, Running(p), OnCourse(p), GatePromoted(p)
    PROVE  StaysOnCourse(p) /\ Answered(p)
<1>1. gate[p].at = "promoting" /\ call[p].at \in {"promote_accepted", "promote_refs", "promoted"}
  BY DEF OnCourse, GatePromoted, InGate
<1>2. GateReturn(p, "promoted", "VERIFIED_AND_CURRENT")
  BY <1>1 DEF GatePromoted, Ready, At, Outcome
<1> QED
  BY <1>2, ReturnsDisturbed DEF GateStage, Answered

\* The broker's checkpoint on behalf of a gate call that is on course.
LEMMA CheckpointingCourse ==
    ASSUME GateInv, HistoryStays, NEW p \in Caller, Running(p), OnCourse(p),
           gate[p].at = "checkpointing", gate'[p] = gate[p],
           UNCHANGED <<accepted, base, promoted, rejected>>,
           HasWorktree(gate[p].v.cand)', Checkpointing(call[p], gate[p].v)'
    PROVE  OnCourse(p)'
BY DEF OnCourse, HistoryStays, IsAncestor, HasWorktree, Decided

LEMMA CheckpointStatusCourse ==
    ASSUME CourseInv, HistoryStays, NEW p \in Caller, Running(p), OnCourse(p),
           gate[p].at = "checkpointing", gate'[p] = gate[p], CheckpointStatus(p)
    PROVE  OnCourse(p)'
<1> DEFINE v == gate[p].v  c == v.cand  m == call[p]
<1>0. /\ GateInv /\ m \in Call /\ call \in [Caller -> Call]
      /\ m.at = "checkpoint_status" /\ Checkpointing(m, v)
  BY DEF CourseInv, GateInv, IInv, TypeOK, OnCourse, CheckpointStatus, At
<1>1. /\ m.cand = c /\ m.base = v.base /\ AsAudited(v) /\ HasWorktree(c)
      /\ UNCHANGED <<objectVars, accepted, candidateRefs, worktreeVars>>
  BY <1>0 DEF Checkpointing, CheckpointStatus, OnCourse
<1>2. Dirty(c) <=> v.content # tree[v.head]
  BY <1>1 DEF Dirty, AsAudited
<1>3. /\ call'[p].cand = c /\ call'[p].base = v.base
      /\ Dirty(c) => call'[p].at = "checkpoint_add" /\ call'[p].dirty
      /\ ~Dirty(c) => call'[p].at = "checkpoint_head" /\ ~call'[p].dirty
  <2>1. Dirty(c) \in BOOLEAN
    BY DEF Dirty
  <2>2. PICK d : d = Dirty(c)
    OBVIOUS
  <2>3. call' = [call EXCEPT ![p].dirty = d,
                             ![p].at = IF d THEN "checkpoint_add" ELSE "checkpoint_head"]
    BY <1>1, <2>2 DEF CheckpointStatus
  <2>4. d \in BOOLEAN
    BY <2>1, <2>2
  <2>5. /\ call'[p].cand = c /\ call'[p].base = v.base /\ call'[p].dirty = d
        /\ call'[p].at = IF d THEN "checkpoint_add" ELSE "checkpoint_head"
    BY <1>0, <1>1, <2>3, <2>4 DEF Call
  <2> HIDE DEF v, c
  <2> QED
    BY <2>1, <2>2, <2>4, <2>5
<1>4. Carries(v.head, v) <=> v.content = tree[v.head]
  BY DEF Carries, Matches, OnCourse
<1>5. Checkpointing(call[p], v)'
  <2>1. AsAudited(v)'
    BY <1>1, QuietKeeps
  <2>2. CASE Dirty(c)
    <3>1. v.content # tree'[v.head]
      BY <1>1, <1>2, <2>2 DEF objectVars
    <3> QED
      BY <1>3, <2>1, <2>2, <3>1 DEF Checkpointing
  <2>3. CASE ~Dirty(c)
    <3>1. Carries(v.head, v)' /\ head'[c] = v.head
      BY <1>1, <1>2, <1>4, <2>3, QuietKeeps DEF AsAudited, worktreeVars
    <3>2. Proposed(head[c], call[p].dirty, v)'
      BY <1>3, <2>3, <3>1 DEF Proposed
    <3> QED
      BY <1>3, <2>3, <3>2 DEF Checkpointing
  <2> QED
    BY <2>2, <2>3
<1> QED
  BY <1>0, <1>1, <1>5, CheckpointingCourse DEF HasWorktree, candidateRefs, worktreeVars

LEMMA CheckpointAddCourse ==
    ASSUME CourseInv, HistoryStays, NEW p \in Caller, Running(p), OnCourse(p),
           gate[p].at = "checkpointing", gate'[p] = gate[p], CheckpointAdd(p)
    PROVE  OnCourse(p)'
<1> DEFINE v == gate[p].v  c == v.cand  m == call[p]
<1>0. /\ GateInv /\ m \in Call /\ call \in [Caller -> Call] /\ index \in [Candidate -> Content \cup {NoContent}]
      /\ m.at = "checkpoint_add" /\ Checkpointing(m, v)
  BY DEF CourseInv, GateInv, IInv, TypeOK, OnCourse, CheckpointAdd, At
<1>1. /\ m.cand = c /\ m.base = v.base /\ AsAudited(v) /\ HasWorktree(c)
      /\ m.dirty /\ v.content # tree[v.head] /\ c \in Candidate
      /\ UNCHANGED <<objectVars, accepted, candidateRefs, head, files>>
      /\ index' = [index EXCEPT ![c] = files[c]]
  BY <1>0, RunningFacts DEF Checkpointing, CheckpointAdd, OnCourse
<1>2. call'[p].at = "checkpoint_commit" /\ call'[p].cand = c /\ call'[p].base = v.base /\ call'[p].dirty
  BY <1>0, <1>1 DEF CheckpointAdd, Goto, Call
<1>3. index'[c] = v.content /\ AsAudited(v)'
  BY <1>0, <1>1 DEF AsAudited
<1>4. Checkpointing(call[p], v)'
  BY <1>1, <1>2, <1>3 DEF Checkpointing, objectVars
<1> QED
  BY <1>0, <1>1, <1>4, CheckpointingCourse DEF HasWorktree, candidateRefs

LEMMA CheckpointCommitCourse ==
    ASSUME CourseInv, HistoryStays, NEW p \in Caller, Running(p), OnCourse(p),
           gate[p].at = "checkpointing", gate'[p] = gate[p], CheckpointCommit(p)
    PROVE  OnCourse(p)'
<1> DEFINE v == gate[p].v  c == v.cand  m == call[p]
<1>0. /\ GateInv /\ IInv /\ ParentOK /\ m \in Call /\ call \in [Caller -> Call]
      /\ m.at = "checkpoint_commit" /\ Checkpointing(m, v)
  BY DEF CourseInv, GateInv, IInv, TypeOK, OnCourse, CheckpointCommit, At
<1>1. /\ m.cand = c /\ m.base = v.base /\ m.dirty /\ index[c] = v.content
      /\ head[c] = v.head /\ v.content # tree[v.head] /\ HasWorktree(c) /\ c \in Candidate
      /\ v.base \in anc[v.head]
      /\ UNCHANGED <<accepted, candidateRefs, index, files>>
  BY <1>0, RunningFacts DEF Checkpointing, AsAudited, CheckpointCommit, OnCourse, IsAncestor
<1>2. PICK n \in Commit : MakeCommit(c, v.content, n) /\ Goto(p, "checkpoint_head")
  BY <1>1 DEF CheckpointCommit
<1>3. /\ head'[c] = n /\ n \in commits' /\ parent'[n] = v.head /\ tree'[n] = v.content
      /\ anc[v.head] \subseteq anc'[n] /\ \A k \in anc[v.head] : k # n
  BY <1>0, <1>1, <1>2, MakeCommitKeepsHistory DEF IInv, TypeOK
<1>4. checkpoints'[c] \subseteq anc[v.head]
  BY <1>1 DEF CourseInv, HeadHolds, candidateRefs
<1>5. Fresh(n, v)'
  BY <1>1, <1>3, <1>4 DEF Fresh, Carries, Matches, IsAncestor
<1>6. call'[p].at = "checkpoint_head" /\ call'[p].cand = c /\ call'[p].base = v.base /\ call'[p].dirty
  BY <1>0, <1>1, <1>2 DEF Goto, Call
<1>7. Checkpointing(call[p], v)'
  BY <1>3, <1>5, <1>6 DEF Checkpointing, Proposed
<1>8. head'[c] # NoCommit
  BY <1>3, <1>2
<1> QED
  BY <1>0, <1>1, <1>7, <1>8, CheckpointingCourse DEF HasWorktree, candidateRefs

LEMMA CheckpointHeadCourse ==
    ASSUME CourseInv, HistoryStays, NEW p \in Caller, Running(p), OnCourse(p),
           gate[p].at = "checkpointing", gate'[p] = gate[p], CheckpointHead(p)
    PROVE  OnCourse(p)'
<1> DEFINE v == gate[p].v  c == v.cand  m == call[p]
<1>0. /\ GateInv /\ IInv /\ m \in Call /\ call \in [Caller -> Call]
      /\ m.at = "checkpoint_head" /\ Checkpointing(m, v)
  BY DEF CourseInv, GateInv, IInv, TypeOK, OnCourse, CheckpointHead, At
<1>1. /\ m.cand = c /\ m.base = v.base /\ HasWorktree(c) /\ Proposed(head[c], m.dirty, v)
      /\ UNCHANGED <<objectVars, accepted, candidateRefs, worktreeVars>>
  BY <1>0 DEF Checkpointing, CheckpointHead, OnCourse
<1>2. PICK k : k = head[c]
  OBVIOUS
<1>3. /\ call'[p].at = "checkpoint_recorded" /\ call'[p].cand = c /\ call'[p].base = v.base
      /\ call'[p].dirty = m.dirty /\ call'[p].commit = k
  BY <1>0, <1>1, <1>2 DEF CheckpointHead, Call
<1>4. Proposed(k, m.dirty, v)
  BY <1>1, <1>2
<1>5. Proposed(call[p].commit, call[p].dirty, v)'
  BY <1>1, <1>3, <1>4, QuietKeeps DEF Proposed
<1>6. Checkpointing(call[p], v)'
  BY <1>3, <1>5 DEF Checkpointing
<1> QED
  BY <1>0, <1>1, <1>6, CheckpointingCourse DEF HasWorktree, candidateRefs, worktreeVars

LEMMA CheckpointRecordedCourse ==
    ASSUME CourseInv, HistoryStays, NEW p \in Caller, Running(p), OnCourse(p),
           gate[p].at = "checkpointing", gate'[p] = gate[p], CheckpointRecorded(p)
    PROVE  OnCourse(p)'
<1> DEFINE v == gate[p].v  c == v.cand  m == call[p]  k == m.commit
           nothing == k = m.base \/ (~m.dirty /\ k \in checkpoints[c])
<1>0. /\ GateInv /\ IInv /\ m \in Call /\ call \in [Caller -> Call]
      /\ m.at = "checkpoint_recorded" /\ Checkpointing(m, v)
  BY DEF CourseInv, GateInv, IInv, TypeOK, OnCourse, CheckpointRecorded, At
<1>1. /\ m.cand = c /\ m.base = v.base /\ HasWorktree(c) /\ Proposed(k, m.dirty, v)
      /\ Carries(k, v)
      /\ UNCHANGED <<objectVars, accepted, candidateRefs, worktreeVars>>
  BY <1>0 DEF Checkpointing, CheckpointRecorded, OnCourse, Proposed, Fresh
<1>2. CASE nothing
  <2>1. Return(p, "nothing_to_checkpoint")
    BY <1>1, <1>2 DEF CheckpointRecorded, Carries
  <2>2. call'[p].at = "nothing_to_checkpoint"
    BY <1>0, <2>1, ReturnFrame DEF Outcome
  <2>3. k = v.head /\ (v.head = v.base \/ Promotable(v.head, v))
    BY <1>1, <1>2 DEF Proposed, Fresh, Promotable
  <2>4. (v.head = v.base \/ Promotable(v.head, v))'
    BY <1>1, <2>3, QuietKeeps
  <2>5. Checkpointing(call[p], v)'
    BY <2>2, <2>4 DEF Checkpointing
  <2> QED
    BY <1>0, <1>1, <2>5, CheckpointingCourse DEF HasWorktree, candidateRefs, worktreeVars
<1>3. CASE ~nothing
  <2>1. Goto(p, "checkpoint_record")
    BY <1>1, <1>3 DEF CheckpointRecorded, Carries
  <2>2. /\ call'[p].at = "checkpoint_record" /\ call'[p].cand = c /\ call'[p].base = v.base
        /\ call'[p].commit = k
    BY <1>0, <1>1, <2>1, GotoFrame
  <2>3. Fresh(k, v)
    BY <1>1, <1>3 DEF Proposed, Fresh
  <2>4. Fresh(call[p].commit, v)'
    BY <1>1, <2>2, <2>3, QuietKeeps
  <2>5. Checkpointing(call[p], v)'
    BY <2>2, <2>4 DEF Checkpointing
  <2> QED
    BY <1>0, <1>1, <2>5, CheckpointingCourse DEF HasWorktree, candidateRefs, worktreeVars
<1> QED
  BY <1>2, <1>3

LEMMA CheckpointRecordCourse ==
    ASSUME CourseInv, HistoryStays, ~MayFail, NEW p \in Caller, Running(p), OnCourse(p),
           gate[p].at = "checkpointing", gate'[p] = gate[p], CheckpointRecord(p)
    PROVE  OnCourse(p)'
<1> DEFINE v == gate[p].v  c == v.cand  m == call[p]  k == m.commit
<1>0. /\ GateInv /\ IInv /\ m \in Call /\ call \in [Caller -> Call]
      /\ m.at = "checkpoint_record" /\ Checkpointing(m, v)
  BY DEF CourseInv, GateInv, IInv, TypeOK, OnCourse, CheckpointRecord, At
<1>1. /\ m.cand = c /\ HasWorktree(c) /\ Fresh(k, v) /\ c \in Candidate
      /\ UNCHANGED <<objectVars, accepted, base, promoted, rejected, worktreeVars>>
  BY <1>0, RunningFacts DEF Checkpointing, CheckpointRecord, OnCourse
<1>2. checkpoints' = [checkpoints EXCEPT ![c] = @ \cup {k}] /\ Return(p, "checkpointed")
  BY <1>1 DEF CheckpointRecord, Fresh
<1>3. call'[p].at = "checkpointed" /\ call'[p].commit = k
  BY <1>0, <1>2, ReturnFrame DEF Outcome
<1>4. k \in checkpoints'[c]
  BY <1>0, <1>1, <1>2 DEF IInv, TypeOK
<1>5. Promotable(call[p].commit, v)'
  BY <1>1, <1>3, <1>4, CarriesStays DEF Fresh, Promotable
<1>6. Checkpointing(call[p], v)'
  BY <1>3, <1>5 DEF Checkpointing
<1> QED
  BY <1>0, <1>1, <1>6, CheckpointingCourse DEF HasWorktree, worktreeVars

\* The broker's promotion on behalf of a gate call that is on course.
LEMMA PromotingCourse ==
    ASSUME CourseInv, ~MayFail, NEW p \in Caller, Running(p), OnCourse(p),
           gate[p].at = "promoting", gate'[p] = gate[p], PromoteAccepted(p) \/ PromoteRefs(p)
    PROVE  OnCourse(p)'
<1> DEFINE v == gate[p].v  c == v.cand  m == call[p]  k == gate[p].commit
<1>0. /\ GateInv /\ call \in [Caller -> Call] /\ m.at \in {"promote_accepted", "promote_refs"}
      /\ m.cand = c /\ m.base = v.base /\ m.commit = k
  BY DEF CourseInv, GateInv, GateCallOK, IInv, TypeOK, PromoteAccepted, PromoteRefs, At, PromoteSteps
<1>1. /\ Promotable(k, v) /\ base[c] = v.base /\ HasWorktree(c) /\ v.head \in commits
      /\ IsAncestor(v.base, v.head) /\ accepted = v.base /\ ~Decided(c)
  BY <1>0 DEF OnCourse
<1>2. CASE PromoteAccepted(p)
  <2>1. Goto(p, "promote_refs") /\ UNCHANGED <<objectVars, accepted, candidateRefs, worktreeVars>>
    BY <1>0, <1>1, <1>2 DEF PromoteAccepted, Promotable, Carries
  <2>2. call'[p].at = "promote_refs"
    BY <1>0, <2>1, GotoFrame
  <2>3. Promotable(k, v)'
    BY <1>1, <2>1, QuietKeeps
  <2> QED
    BY <1>0, <1>1, <2>1, <2>2, <2>3 DEF OnCourse, IsAncestor, HasWorktree, Decided, objectVars,
       candidateRefs, worktreeVars
<1>3. CASE PromoteRefs(p)
  <2>1. /\ Return(p, "promoted")
        /\ UNCHANGED <<objectVars, base, checkpoints, rejected, worktreeVars>>
    BY <1>0, <1>1, <1>3 DEF PromoteRefs, PromotePreconditions, Decided
  <2>2. call'[p].at = "promoted"
    BY <1>0, <2>1, ReturnFrame DEF Outcome
  <2>3. Promotable(k, v)'
    BY <1>1, <2>1 DEF Promotable, Carries, Matches, IsAncestor, objectVars
  <2> QED
    BY <1>0, <1>1, <2>1, <2>2, <2>3 DEF OnCourse, IsAncestor, HasWorktree, objectVars,
       worktreeVars
<1> QED
  BY <1>2, <1>3

LEMMA ContinueCourse ==
    ASSUME CourseInv, ~MayFail, NEW p \in Caller, Running(p), OnCourse(p),
           UNCHANGED gate, ContinueOperation(p)
    PROVE  OnCourse(p)'
<1>0. IInv /\ ParentOK /\ HistoryStays /\ HasWorktree(gate[p].v.cand)
  BY StepsKeepHistory DEF CourseInv, GateInv, OnCourse
<1>1. CASE gate[p].at \notin {"checkpointing", "promoting"}
  <2>1. call[p].at \in Outcome
    BY <1>1 DEF OnCourse
  <2> QED
    BY <2>1 DEF ContinueOperation, InitCas, InitReread, CreateBase, CreateWorktree,
       CreateRollback, CheckpointStatus, CheckpointAdd, CheckpointCommit, CheckpointHead,
       CheckpointRecorded, CheckpointRecord, PromoteAccepted, PromoteRefs, PromoteRefused,
       PromoteReread, RejectRefs, RejectRefused, CleanupStatus, CleanupRemove, WorktreeGone,
       WorktreeSteps, At, Outcome
<1>2. CASE gate[p].at = "checkpointing"
  <2>1. /\ call[p].at \in {"checkpoint_status", "checkpoint_add", "checkpoint_commit",
                           "checkpoint_head", "checkpoint_recorded", "checkpoint_record",
                           "checkpointed", "nothing_to_checkpoint"}
        /\ call[p].at \notin {"checkpointed", "nothing_to_checkpoint"} =>
              call[p].cand = gate[p].v.cand
    BY <1>2 DEF OnCourse, Checkpointing
  <2>2. ~WorktreeGone(p, WorktreeSteps)
    BY <1>0, <2>1 DEF WorktreeGone, WorktreeSteps
  <2>3. \/ CheckpointStatus(p) \/ CheckpointAdd(p) \/ CheckpointCommit(p)
        \/ CheckpointHead(p) \/ CheckpointRecorded(p) \/ CheckpointRecord(p)
    BY <2>1, <2>2 DEF ContinueOperation, InitCas, InitReread, CreateBase, CreateWorktree,
       CreateRollback, PromoteAccepted, PromoteRefs, PromoteRefused, PromoteReread, RejectRefs,
       RejectRefused, CleanupStatus, CleanupRemove, At
  <2> QED
    BY <1>0, <1>2, <2>3, CheckpointStatusCourse, CheckpointAddCourse, CheckpointCommitCourse,
       CheckpointHeadCourse, CheckpointRecordedCourse, CheckpointRecordCourse
<1>3. CASE gate[p].at = "promoting"
  <2>1. call[p].at \in {"promote_accepted", "promote_refs", "promoted"}
    BY <1>3 DEF OnCourse
  <2>2. PromoteAccepted(p) \/ PromoteRefs(p)
    BY <2>1 DEF ContinueOperation, InitCas, InitReread, CreateBase, CreateWorktree,
       CreateRollback, CheckpointStatus, CheckpointAdd, CheckpointCommit, CheckpointHead,
       CheckpointRecorded, CheckpointRecord, PromoteRefused, PromoteReread, RejectRefs,
       RejectRefused, CleanupStatus, CleanupRemove, WorktreeGone, WorktreeSteps, At
  <2> QED
    BY <1>3, <2>2, PromotingCourse
<1> QED
  BY <1>1, <1>2, <1>3

\* Somebody outside the gate call leaves it undisturbed only by leaving its candidate alone.
LEMMA UndisturbedIsUntouched ==
    ASSUME CourseInv, NEW own, Disturb(own), NEW p \in Caller, p \notin own, Running(p),
           undisturbed'[p]
    PROVE  undisturbed[p] /\ SameFor(gate[p].v.cand)
<1>1. gate[p].v.cand \in Candidate
  BY RunningFacts DEF CourseInv
<1>2. undisturbed[p] /\ gate[p].v.cand \notin Touched
  BY DEF Disturb, CourseInv
<1> QED
  BY <1>1, <1>2 DEF Touched, SameFor

\* A step that leaves the repository alone touches no candidate.
LEMMA QuietIsUntouched ==
    ASSUME UNCHANGED <<objectVars, accepted, candidateRefs, worktreeVars>>, ParentOK, HeadHolds,
           \A q \in Caller : SameRecord(q), IInv
    PROVE  HistoryStays /\ ParentOK' /\ HeadHolds' /\ \A c : SameFor(c)
<1>1. HistoryStays /\ ParentOK' /\ \A c : SameFor(c)
  BY DEF HistoryStays, ParentOK, SameFor, objectVars, candidateRefs, worktreeVars
<1>2. UNCHANGED <<head, checkpoints>>
  BY DEF candidateRefs, worktreeVars
<1> QED
  BY <1>1, <1>2, HeadsAdvance

\* The gate's own steps and new operations of the broker only read.
LEMMA OwnStepsAreQuiet ==
    ASSUME CourseInv, NEW p \in Caller,
           \/ GateStepOf(p) \/ GateCrash(p) \/ BeginOperation(p) \/ Drop(p)
           \/ \E c \in Candidate, v \in Verification : BeginGate(p, c, v)
    PROVE  /\ UNCHANGED <<objectVars, accepted, candidateRefs, worktreeVars>>
           /\ \A q \in Caller : SameRecord(q)
<1>0. GateInv /\ IInv /\ call \in [Caller -> Call] /\ GateCallOK(p)
  BY DEF CourseInv, GateInv, IInv, TypeOK
<1>1. ASSUME NEW outcome \in Outcome, Return(p, outcome) PROVE \A q \in Caller : SameRecord(q)
  BY <1>0, <1>1, ReturnFrame DEF Outcome, SameRecord, RecordSteps
<1>2. ASSUME NEW step, NEW c, NEW b, NEW k, Begin(p, step, c, b, k), step \notin RecordSteps
      PROVE  \A q \in Caller : SameRecord(q)
  <2>1. /\ \A q \in Caller \ {p} : call'[q] = call[q]
        /\ call'[p] = [at |-> step, cand |-> c, base |-> b, commit |-> k, dirty |-> FALSE]
    BY <1>0, <1>2, BeginFrame
  <2> QED
    BY <1>2, <2>1 DEF SameRecord
<1> DEFINE Quiet == /\ UNCHANGED <<objectVars, accepted, candidateRefs, worktreeVars>>
                    /\ \A q \in Caller : SameRecord(q)
<1>3. CASE Drop(p)
  BY <1>1, <1>3 DEF Drop, Outcome
<1>4. CASE UNCHANGED vars
  BY <1>4 DEF vars, SameRecord
<1>5. ASSUME NEW c, NEW b, BeginCheckpoint(p, c, b) PROVE Quiet
  BY <1>1, <1>2, <1>5 DEF BeginCheckpoint, Outcome, RecordSteps
<1>6. ASSUME NEW c, NEW b, NEW k, BeginPromote(p, c, b, k) PROVE Quiet
  BY <1>1, <1>2, <1>6 DEF BeginPromote, Outcome, RecordSteps
<1>7. ASSUME NEW k, BeginInitialize(p, k) \/ BeginCreate(p, k) PROVE Quiet
  BY <1>1, <1>2, <1>7 DEF BeginInitialize, BeginCreate, Outcome, RecordSteps
<1>8. ASSUME NEW c, NEW b, NEW k, BeginReject(p, c, b, k) PROVE Quiet
  BY <1>1, <1>2, <1>8 DEF BeginReject, Outcome, RecordSteps
<1>9. ASSUME NEW c, NEW b, NEW discard, BeginCleanup(p, c, b, discard) PROVE Quiet
  BY <1>1, <1>2, <1>9 DEF BeginCleanup, Outcome, RecordSteps
<1>10. CASE BeginOperation(p)
  BY <1>5, <1>6, <1>7, <1>8, <1>9, <1>10 DEF BeginOperation
<1>11. CASE GateStepOf(p)
  BY <1>3, <1>4, <1>5, <1>6, <1>11 DEF GateStepOf, GateInspect, GateAccepted, GateContent,
     GateCheckpoint, GateCheckpointed, GateCompare, GatePromote, GatePromoted, GateReturn, GateGoOn
<1> QED
  BY <1>3, <1>10, <1>11 DEF GateCrash, BeginGate

\* A gate call that a step is not about.
LEMMA OthersStayOnCourse ==
    ASSUME CourseInv, HistoryStays, NEW q \in Caller, gate'[q] = gate[q], call'[q] = call[q],
           Running(q) /\ undisturbed'[q] => undisturbed[q] /\ SameFor(gate[q].v.cand)
    PROVE  StaysOnCourse(q) /\ (Running(q) => Answered(q))
<1>1. ASSUME undisturbed'[q], Running(q)' PROVE OnCourse(q)'
  <2>1. Running(q)
    BY <1>1 DEF Running
  <2> QED
    BY <1>1, <2>1, OnCourseStays DEF CourseInv
<1>2. ASSUME Running(q) PROVE gate'[q].at \notin GateStage
  BY <1>2 DEF Running, GateStep, GateStage
<1> QED
  BY <1>1, <1>2 DEF StaysOnCourse, Answered

LEMMA OwnStepStaysOnCourse ==
    ASSUME CourseInv, NEW p \in Caller, GateStepOf(p)
    PROVE  /\ StaysOnCourse(p) /\ (undisturbed[p] => Answered(p))
           /\ undisturbed' \in [Caller -> BOOLEAN]
           /\ \A q \in Caller \ {p} : undisturbed'[q] = undisturbed[q]
<1>1. Running(p) /\ undisturbed \in [Caller -> BOOLEAN]
  BY DEF GateStepOf, GateInspect, GateAccepted, GateContent, GateCheckpoint, GateCheckpointed,
     GateCompare, GatePromote, GatePromoted, InGate, Running, GateStep, CourseInv
<1>2. UNCHANGED undisturbed \/ undisturbed' = [undisturbed EXCEPT ![p] = FALSE]
  BY DEF GateStepOf, GateInspect, GateAccepted, GateContent, GateCheckpoint, GateCheckpointed,
     GateCompare, GatePromote, GatePromoted, GateReturn, GateGoOn
<1>3. CASE undisturbed[p]
  <2>1. OnCourse(p)
    BY <1>1, <1>3 DEF CourseInv
  <2> QED
    BY <1>1, <1>2, <2>1, GateInspectCourse, GateAcceptedCourse, GateContentCourse,
       GateCheckpointCourse, GateCheckpointedCourse, GateCompareCourse, GatePromoteCourse,
       GatePromotedCourse DEF GateStepOf
<1>4. CASE ~undisturbed[p]
  BY <1>1, <1>2, <1>4 DEF StaysOnCourse
<1> QED
  BY <1>3, <1>4

\* The course invariant is inductive where Git does not fail of its own and executors
\* check out no other commits, and each of its gate calls is answered as promised.
LEMMA CourseStep ==
    ASSUME CourseInv, [GateNext]_allVars, ~MayFail, "checkout" \notin ExecutorMoves
    PROVE  /\ CourseInv'
           /\ \A q \in Caller : undisturbed[q] /\ Running(q) => Answered(q)
<1> DEFINE Kept == HistoryStays /\ ParentOK' /\ HeadHolds' /\ undisturbed' \in [Caller -> BOOLEAN]
           Fine(q) == StaysOnCourse(q) /\ (undisturbed[q] /\ Running(q) => Answered(q))
<1>0. /\ GateInv /\ GateInv' /\ IInv /\ ParentOK /\ HeadHolds
      /\ undisturbed \in [Caller -> BOOLEAN]
  BY GateStepInv DEF CourseInv, GateInv
<1>1. ASSUME UNCHANGED allVars PROVE Kept /\ \A q \in Caller : Fine(q)
  <2>1. UNCHANGED <<objectVars, accepted, candidateRefs, worktreeVars, gate, call, undisturbed>>
    BY <1>1 DEF allVars, gateVars, vars
  <2>2. Kept /\ \A c : SameFor(c)
    BY <1>0, <2>1, QuietIsUntouched DEF SameRecord
  <2>3. \A q \in Caller : Fine(q)
    BY <2>1, <2>2, OthersStayOnCourse
  <2> QED
    BY <2>2, <2>3
<1>2. ASSUME ExecutorStep, Disturb({}), UNCHANGED gate PROVE Kept /\ \A q \in Caller : Fine(q)
  <2>1. UNCHANGED call
    BY <1>2 DEF ExecutorStep, ExecutorEdits, ExecutorCommits, ExecutorChecksOut
  <2>2. Kept
    BY <1>0, <1>2, StepsKeepHistory, ExecutorKeepsHeads DEF Disturb
  <2>3. \A q \in Caller : Fine(q)
    BY <1>2, <2>1, <2>2, UndisturbedIsUntouched, OthersStayOnCourse
  <2> QED
    BY <2>2, <2>3
<1>3. ASSUME NEW p \in Caller, ContinueOperation(p), Disturb({p}), UNCHANGED gate
      PROVE  Kept /\ \A q \in Caller : Fine(q)
  <2>1. Kept
    BY <1>0, <1>3, StepsKeepHistory, ContinueKeepsHeads DEF Disturb
  <2>2. ASSUME NEW q \in Caller \ {p} PROVE Fine(q)
    <3>1. call'[q] = call[q]
      BY <1>0, <1>3, ContinueKeepsPromotion
    <3> QED
      BY <1>3, <2>1, <3>1, UndisturbedIsUntouched, OthersStayOnCourse
  <2>3. Fine(p)
    <3>1. undisturbed'[p] => undisturbed[p]
      BY <1>0, <1>3 DEF Disturb
    <3>2. undisturbed[p] /\ Running(p) => OnCourse(p)'
      BY <1>3, ContinueCourse DEF CourseInv
    <3>3. Running(p)' = Running(p) /\ (Running(p) => Answered(p))
      BY <1>3 DEF Running, Answered, GateStep, GateStage
    <3> QED
      BY <3>1, <3>2, <3>3 DEF StaysOnCourse
  <2> QED
    BY <2>1, <2>2, <2>3
<1>4. ASSUME NEW p \in Caller, ~Running(p), BeginOperation(p) \/ Drop(p), UNCHANGED gateVars
      PROVE  Kept /\ \A q \in Caller : Fine(q)
  <2>1. Kept /\ \A c : SameFor(c)
    BY <1>0, <1>4, OwnStepsAreQuiet, QuietIsUntouched DEF gateVars
  <2>2. ASSUME NEW q \in Caller \ {p} PROVE Fine(q)
    <3>1. call'[q] = call[q] /\ gate'[q] = gate[q] /\ undisturbed'[q] = undisturbed[q]
      BY <1>0, <1>4, BeginIsNoPromotion, DropFrame DEF gateVars
    <3> QED
      BY <2>1, <3>1, OthersStayOnCourse
  <2>3. Fine(p)
    BY <1>4 DEF StaysOnCourse, Running, gateVars
  <2> QED
    BY <2>1, <2>2, <2>3
<1>5. ASSUME NEW p \in Caller, GateCrash(p) PROVE Kept /\ \A q \in Caller : Fine(q)
  <2>1. undisturbed' = [undisturbed EXCEPT ![p] = FALSE]
    BY <1>5 DEF GateCrash
  <2>2. Kept /\ \A c : SameFor(c)
    BY <1>0, <1>5, <2>1, OwnStepsAreQuiet, QuietIsUntouched
  <2>3. ASSUME NEW q \in Caller \ {p} PROVE Fine(q)
    <3>1. call'[q] = call[q] /\ gate'[q] = gate[q] /\ undisturbed'[q] = undisturbed[q]
      BY <1>0, <1>5, <2>1, OthersKeepTheirCalls
    <3> QED
      BY <2>2, <3>1, OthersStayOnCourse
  <2>4. Fine(p)
    <3>1. gate'[p].at = "none" /\ ~undisturbed'[p]
      BY <1>0, <1>5, <2>1 DEF GateCrash, GateInv, NoGate
    <3> QED
      BY <3>1 DEF StaysOnCourse, Answered, GateStage
  <2> QED
    BY <2>2, <2>3, <2>4
<1>6. ASSUME NEW p \in Caller, GateStepOf(p) PROVE Kept /\ \A q \in Caller : Fine(q)
  <2>1. Kept /\ \A c : SameFor(c)
    BY <1>0, <1>6, OwnStepStaysOnCourse, OwnStepsAreQuiet, QuietIsUntouched
  <2>2. ASSUME NEW q \in Caller \ {p} PROVE Fine(q)
    <3>1. call'[q] = call[q] /\ gate'[q] = gate[q] /\ undisturbed'[q] = undisturbed[q]
      BY <1>0, <1>6, OthersKeepTheirCalls, OwnStepStaysOnCourse
    <3> QED
      BY <2>1, <3>1, OthersStayOnCourse
  <2> QED
    BY <1>6, <2>1, <2>2, OwnStepStaysOnCourse
<1>7. ASSUME NEW p \in Caller, NEW c \in Candidate, NEW v \in Verification, BeginGate(p, c, v)
      PROVE  Kept /\ \A q \in Caller : Fine(q)
  <2>1. /\ undisturbed' \in [Caller -> BOOLEAN] /\ ~Running(p)
        /\ \A q \in Caller \ {p} : undisturbed'[q] = undisturbed[q]
    BY <1>0, <1>7 DEF BeginGate, Decided, IsAncestor, Verification
  <2>2. Kept /\ \A d : SameFor(d)
    BY <1>0, <1>7, <2>1, OwnStepsAreQuiet, QuietIsUntouched
  <2>3. ASSUME NEW q \in Caller \ {p} PROVE Fine(q)
    <3>1. call'[q] = call[q] /\ gate'[q] = gate[q] /\ undisturbed'[q] = undisturbed[q]
      BY <1>0, <1>7, <2>1, OthersKeepTheirCalls
    <3> QED
      BY <2>2, <3>1, OthersStayOnCourse
  <2> QED
    BY <1>7, <2>1, <2>2, <2>3, BeginGateCourse
<1>8. Kept /\ \A q \in Caller : Fine(q)
  BY <1>1, <1>2, <1>3, <1>4, <1>5, <1>6, <1>7 DEF GateNext, BrokerStepOf
<1> QED
  BY <1>0, <1>8 DEF CourseInv, StaysOnCourse

\* Where Git does not fail for a reason of its own, and no executor takes HEAD back to
\* another commit, the gate refuses an undisturbed call on a verification that matched its
\* candidate only when the audited state is the base itself. With checkouts it may also
\* refuse when the commit it makes is, in the same second, one recorded before.
THEOREM RefusalHasACause ==
    ASSUME "checkout" \notin ExecutorMoves
    PROVE  GateSpec => RefusedOnlyForACause
<1> DEFINE Caused ==
        ~MayFail => \A p \in Caller :
           undisturbed[p] /\ Running(p) /\ gate'[p].at \in GateStage =>
              \/ gate'[p].at = "promoted"
              \/ gate'[p].status = "NOTHING_TO_PROMOTE" /\ gate[p].v.head = gate[p].v.base
<1>1. GateInit => CourseInv
  <2> SUFFICES ASSUME GateInit PROVE CourseInv
    OBVIOUS
  <2>1. ParentOK /\ HeadHolds
    BY DEF GateInit, ParentOK, HeadHolds, NoCall, RecordSteps
  <2> QED
    BY <2>1, GateInitInv DEF CourseInv, GateInit
<1>2. CASE MayFail
  <2>1. Caused
    BY <1>2
  <2> QED
    BY <2>1, PTL DEF RefusedOnlyForACause
<1>3. CASE ~MayFail
  <2>1. ASSUME CourseInv, [GateNext]_allVars PROVE CourseInv' /\ [Caused]_allVars
    BY <1>3, <2>1, CourseStep DEF Answered
  <2> QED
    BY <1>1, <2>1, PTL DEF GateSpec, RefusedOnlyForACause
<1> QED
  BY <1>2, <1>3
=============================================================================
