---------------------------- MODULE PromotionGate ----------------------------
(***************************************************************************)
(* longhorizon/promotion_gate.py on top of the broker: the only caller of  *)
(* promote().  A gate call compares the audited state with the candidate,  *)
(* has the broker checkpoint whatever the worktree holds by then, proves   *)
(* that commit against the audit, and promotes it.  Executors, other gate  *)
(* calls and other broker calls run in between.                            *)
(*                                                                         *)
(* A verification is taken as input: its verdict, and a state of existing  *)
(* commits that it names. How an audit reaches it is not modelled here.    *)
(***************************************************************************)
EXTENDS GitWorkspaceBroker

\* promote() has no other caller (an evaluation scenario uses one on a repository
\* of its own).
ASSUME OnlyTheGatePromotes == "promote" \notin Operations

VARIABLES gate,        \* the gate call each caller is in
          undisturbed  \* nobody else has touched the call's candidate or accepted

gateVars == <<gate, undisturbed>>
allVars == <<vars, gateVars>>

Verification ==
    [ verified : BOOLEAN, cand : Candidate, base : Commit, head : Commit, content : Content ]

GateStatus ==
    { "NOT_VERIFIED", "VERIFIED_AND_CURRENT", "BLOCKED", "VERIFICATION_STALE",
      "HEAD_CHANGED", "WORKSPACE_CHANGED", "NOTHING_TO_PROMOTE" }
GateStage == { "refused_before_checkpoint", "refused_after_checkpoint", "promoted" }
GateStep == { "accepted", "content", "checkpoint", "checkpointing", "compare",
              "promote", "promoting" }

NoGate == [at |-> "none"]
Running(p) == gate[p].at \in GateStep \cup {"inspect"}
InGate(p, step) == gate[p].at = step

GateGoto(p, step) == gate' = [gate EXCEPT ![p].at = step]
\* GatedPromotionResult; the checkpoint is set only when it was involved.
GateReturn(p, stage, status) ==
    /\ gate' = [gate EXCEPT ![p] = [at |-> stage, status |-> status, commit |-> gate[p].commit]]
    /\ undisturbed' = [undisturbed EXCEPT ![p] = FALSE]
    /\ Drop(p)
\* The next step of the gate itself, which leaves the repository alone.
GateGoOn(p, step) == GateGoto(p, step) /\ Drop(p) /\ UNCHANGED undisturbed

\* The candidates a step changes, all of them when it moves accepted.
Touched ==
    { c \in Candidate : ~UNCHANGED <<accepted, head[c], index[c], files[c], base[c],
                                     checkpoints[c], promoted[c], rejected[c]>> }

\* A step of somebody outside `own` disturbs every gate call it touches.
Disturb(own) ==
    undisturbed' = [p \in Caller |->
        undisturbed[p] /\ (Running(p) /\ p \notin own => gate[p].v.cand \notin Touched)]

-----------------------------------------------------------------------------
\* Every candidate has been created from the accepted commit.
GateInit ==
    /\ commits = Root
    /\ tree \in { t \in [Commit -> Content \cup {NoContent}] :
                    \A k \in Commit : t[k] = NoContent <=> k \notin Root }
    /\ parent = [k \in Commit |-> NoCommit]
    /\ anc = [k \in Commit |-> IF k \in Root THEN {k} ELSE {}]
    /\ accepted \in Root
    /\ base = [c \in Candidate |-> accepted]
    /\ checkpoints = [c \in Candidate |-> {}]
    /\ promoted = [c \in Candidate |-> NoCommit]
    /\ rejected = [c \in Candidate |-> NoCommit]
    /\ head = base
    /\ index = [c \in Candidate |-> tree[accepted]]
    /\ files = index
    /\ call = [p \in Caller |-> NoCall]
    /\ gate = [p \in Caller |-> NoGate]
    /\ undisturbed = [p \in Caller |-> FALSE]

\* The verification's own contract, then its identity against the candidate's.
BeginGate(p, c, v) ==
    LET b == base[c] IN
    /\ Ready(p) /\ ~Running(p)
    /\ {v.base, v.head} \subseteq commits
    /\ LET refuse(status) == gate' = [gate EXCEPT ![p] =
             [at |-> "refused_before_checkpoint", status |-> status, commit |-> NoCommit]] IN
       \/ ~v.verified /\ refuse("NOT_VERIFIED")
       \/ v.verified /\ (v.cand # c \/ v.base # b) /\ refuse("VERIFICATION_STALE")
       \/ /\ v.verified /\ v.cand = c /\ v.base = b
          /\ gate' = [gate EXCEPT ![p] =
                [at |-> "inspect", v |-> v, head |-> NoCommit, commit |-> NoCommit]]
    /\ undisturbed' = [undisturbed EXCEPT ![p] =
          /\ v.verified /\ v.cand = c /\ v.base = b
          /\ accepted = b /\ ~Decided(c) /\ IsAncestor(b, v.head)
          /\ head[c] = v.head /\ files[c] = v.content /\ index[c] \in {files[c], tree[v.head]}]
    /\ Drop(p)

\* inspect_candidate(): identity, worktree, HEAD.
GateInspect(p) ==
    LET v == gate[p].v IN
    /\ InGate(p, "inspect")
    /\ IF base[v.cand] = v.base /\ HasWorktree(v.cand)
       THEN /\ gate' = [gate EXCEPT ![p].head = head[v.cand], ![p].at = "accepted"]
            /\ UNCHANGED <<vars, undisturbed>>
       ELSE GateReturn(p, "refused_before_checkpoint", "BLOCKED")

GateAccepted(p) ==
    LET v == gate[p].v IN
    /\ InGate(p, "accepted")
    /\ \/ /\ accepted # v.base
          /\ GateReturn(p, "refused_before_checkpoint", "VERIFICATION_STALE")
       \/ /\ accepted = v.base /\ gate[p].head # v.head
          /\ GateReturn(p, "refused_before_checkpoint", "HEAD_CHANGED")
       \/ accepted = v.base /\ gate[p].head = v.head /\ GateGoOn(p, "content")

GateContent(p) ==
    LET v == gate[p].v IN
    /\ InGate(p, "content")
    /\ IF HasWorktree(v.cand) /\ files[v.cand] = v.content
       THEN GateGoOn(p, "checkpoint")
       ELSE GateReturn(p, "refused_before_checkpoint", "WORKSPACE_CHANGED")

GateCheckpoint(p) ==
    /\ InGate(p, "checkpoint")
    /\ BeginCheckpoint(p, gate[p].v.cand, gate[p].v.base)
    /\ GateGoto(p, "checkpointing")
    /\ UNCHANGED undisturbed

\* Defect: nothing to checkpoint is taken for nothing to promote.
GateCheckpointedOnce(p) ==
    /\ InGate(p, "checkpointing")
    /\ Ready(p)
    /\ \/ /\ At(p, "checkpointed")
          /\ gate' = [gate EXCEPT ![p].commit = call[p].commit, ![p].at = "compare"]
          /\ Drop(p)
          /\ UNCHANGED undisturbed
       \/ /\ At(p, "nothing_to_checkpoint")
          /\ GateReturn(p, "refused_before_checkpoint", "NOTHING_TO_PROMOTE")
       \/ /\ call[p].at \notin {"checkpointed", "nothing_to_checkpoint"}
          /\ GateReturn(p, "refused_before_checkpoint", "BLOCKED")

\* checkpoint_candidate() came back.
GateCheckpointed(p) ==
    LET v == gate[p].v
        compare(k) == /\ gate' = [gate EXCEPT ![p].commit = k, ![p].at = "compare"]
                      /\ Drop(p)
                      /\ UNCHANGED undisturbed IN
    /\ InGate(p, "checkpointing")
    /\ Ready(p)
    /\ \/ At(p, "checkpointed") /\ compare(call[p].commit)
       \/ /\ At(p, "nothing_to_checkpoint")
          /\ IF v.head = v.base
             THEN GateReturn(p, "refused_before_checkpoint", "NOTHING_TO_PROMOTE")
             ELSE compare(v.head)
       \/ /\ call[p].at \notin {"checkpointed", "nothing_to_checkpoint"}
          /\ GateReturn(p, "refused_before_checkpoint", "BLOCKED")

\* The commit is the audited HEAD or sits on it, with the audited content; the
\* objects are read through the worktree's directory.
Matches(k, v) == (k = v.head \/ parent[k] = v.head) /\ tree[k] = v.content

\* Defect: the checkpoint is not proved against the audit.
GateTrustsCheckpoint(p) == InGate(p, "compare") /\ GateGoOn(p, "promote")

GateCompare(p) ==
    LET v == gate[p].v IN
    /\ InGate(p, "compare")
    /\ IF HasWorktree(v.cand) /\ Matches(gate[p].commit, v)
       THEN GateGoOn(p, "promote")
       ELSE GateReturn(p, "refused_after_checkpoint", "WORKSPACE_CHANGED")

GatePromote(p) ==
    /\ InGate(p, "promote")
    /\ BeginPromote(p, gate[p].v.cand, gate[p].v.base, gate[p].commit)
    /\ GateGoto(p, "promoting")
    /\ UNCHANGED undisturbed

\* Defect: any answer but a stale one is taken for a promotion.
GatePromotedUnlessStale(p) ==
    /\ InGate(p, "promoting")
    /\ Ready(p)
    /\ IF At(p, "stale_candidate")
       THEN GateReturn(p, "refused_after_checkpoint", "VERIFICATION_STALE")
       ELSE GateReturn(p, "promoted", "VERIFIED_AND_CURRENT")

GatePromoted(p) ==
    /\ InGate(p, "promoting")
    /\ Ready(p)
    /\ \/ At(p, "promoted") /\ GateReturn(p, "promoted", "VERIFIED_AND_CURRENT")
       \/ /\ At(p, "stale_candidate")
          /\ GateReturn(p, "refused_after_checkpoint", "VERIFICATION_STALE")
       \/ /\ call[p].at \notin {"promoted", "stale_candidate"}
          /\ GateReturn(p, "refused_after_checkpoint", "BLOCKED")

\* The gate's process dies, inside a broker call or between two.
GateCrash(p) ==
    /\ Running(p)
    /\ gate' = [gate EXCEPT ![p] = NoGate]
    /\ Drop(p)
    /\ undisturbed' = [undisturbed EXCEPT ![p] = FALSE]

GateStepOf(p) ==
    \/ GateInspect(p) \/ GateAccepted(p) \/ GateContent(p) \/ GateCheckpoint(p)
    \/ GateCheckpointed(p) \/ GateCompare(p) \/ GatePromote(p) \/ GatePromoted(p)

BrokerStepOf(p) == ContinueOperation(p) /\ Disturb({p}) /\ UNCHANGED gate

GateNext ==
    \/ \E p \in Caller :
          \/ \E c \in Candidate, v \in Verification : BeginGate(p, c, v)
          \/ GateStepOf(p)
          \/ BrokerStepOf(p)
          \/ ~Running(p) /\ (BeginOperation(p) \/ Drop(p)) /\ UNCHANGED gateVars
          \/ GateCrash(p)
    \/ ExecutorStep /\ Disturb({}) /\ UNCHANGED gate

GateSpec == GateInit /\ [][GateNext]_allVars

-----------------------------------------------------------------------------
(*                               Properties                                *)

\* The gate's purpose ("audit state A -> the workspace changes to B ->
\* promotion accepts B on A's audit" is closed): the accepted commit only moves
\* to a commit with exactly the content a VERIFIED audit of that candidate saw,
\* which is the audited HEAD or sits directly on it, whatever executors and
\* other callers did to the worktree between the checks.
OnlyAuditedStateIsAccepted ==
    [][accepted' # accepted =>
          \E p \in Caller :
             /\ InGate(p, "promoting")
             /\ gate[p].v.verified
             /\ gate[p].v.base = accepted
             /\ promoted'[gate[p].v.cand] = accepted'
             /\ Matches(accepted', gate[p].v)]_allVars

\* The gate fails closed but not at random: a call on a verification that
\* matched its open candidate, with nobody else touching that candidate or the
\* accepted commit, is refused only when the audited state is the base itself.
RefusedOnlyForACause ==
    [][~MayFail => \A p \in Caller :
          undisturbed[p] /\ Running(p) /\ gate'[p].at \in GateStage =>
             \/ gate'[p].at = "promoted"
             \/ gate'[p].status = "NOTHING_TO_PROMOTE" /\ gate[p].v.head = gate[p].v.base]_allVars

\* A verification decides at most one candidate to one commit: the promoted
\* result that a caller holds names what the refs say, for good.
PromotedResultIsTrue ==
    \A p \in Caller : gate[p].at = "promoted" =>
       /\ IsAncestor(gate[p].commit, accepted)
       /\ \E c \in Candidate : promoted[c] = gate[p].commit

=============================================================================
