-------------------------- MODULE GitWorkspaceBroker --------------------------
(***************************************************************************)
(* workspace/git.py: the broker whose whole state is Git refs, called by   *)
(* several processes at once.  Every public operation is a sequence of Git *)
(* subprocesses with nothing held between them; here each operation is a   *)
(* call that takes one step per read or write that another process can     *)
(* fall between.  Reads that no step of anybody else can tell apart (a ref *)
(* that is created once and never moved, then a marker that is created     *)
(* once) are one step.                                                     *)
(*                                                                         *)
(* A commit is an identifier with a tree, its ancestors and its first      *)
(* parent; a worktree is its HEAD, its index and its files.  An executor   *)
(* works in the same worktrees at any time.                                *)
(***************************************************************************)
EXTENDS FiniteSets

CONSTANTS
    Commit,        \* commit identifiers
    Root,          \* the commits that exist before the broker runs
    Content,       \* what a tree, an index or a worktree can hold
    Candidate,     \* candidate identifiers (uuid4 in the code)
    Caller,        \* processes that call the broker
    NoCommit, NoContent, NoCandidate,
    Operations,    \* which broker operations this instance's callers use
    ExecutorMoves, \* which of "edit", "commit", "checkout" executors make
    MayFail        \* may Git refuse a command for a reason of its own?

ASSUME RootAssumption == Root \subseteq Commit /\ Root # {}
ASSUME NoValueAssumption ==
    NoCommit \notin Commit /\ NoContent \notin Content /\ NoCandidate \notin Candidate
ASSUME MayFailAssumption == MayFail \in BOOLEAN

VARIABLES
    commits,       \* commits in the object database
    tree,          \* the content of a commit
    parent,        \* its first parent
    anc,           \* its ancestors, itself included
    accepted,      \* refs/cloudeo/workspaces/<id>/accepted
    base,          \* candidates/<cid>/base
    checkpoints,   \* candidates/<cid>/checkpoints/<sha>
    promoted,      \* candidates/<cid>/promoted
    rejected,      \* candidates/<cid>/rejected
    head,          \* HEAD of the candidate's worktree; NoCommit: no directory
    index,         \* the worktree's index
    files,         \* the worktree's files
    call           \* what each caller is in the middle of, or its last outcome

objectVars == <<commits, tree, parent, anc>>
candidateRefs == <<base, checkpoints, promoted, rejected>>
worktreeVars == <<head, index, files>>
vars == <<objectVars, accepted, candidateRefs, worktreeVars, call>>

Opt(S) == S \cup {NoCommit}

\* How a call ended. "refused" is any WorkspaceBrokerError but the two that
\* callers tell apart; "idle" is also success with nothing to hand back.
Outcome ==
    { "idle", "initialized", "checkpointed", "nothing_to_checkpoint", "promoted",
      "stale_candidate", "promote_failed", "refused" }

Step ==
    { "init_cas", "init_reread", "create_base", "create_worktree",
      "create_rollback", "checkpoint_status", "checkpoint_add",
      "checkpoint_commit", "checkpoint_head", "checkpoint_recorded",
      "checkpoint_record", "promote_accepted", "promote_refs",
      "promote_refused", "promote_reread", "reject_refs", "reject_refused",
      "cleanup_status", "cleanup_remove", "cleanup_discard" }

Call ==
    [ at : Step \cup Outcome, cand : Candidate \cup {NoCandidate},
      base : Opt(Commit), commit : Opt(Commit), dirty : BOOLEAN ]

NoCall == [ at |-> "idle", cand |-> NoCandidate, base |-> NoCommit,
            commit |-> NoCommit, dirty |-> FALSE ]

IsAncestor(a, b) == a \in anc[b]
DecidedByPromotionOnly(c) == promoted[c] # NoCommit   \* defect: a rejection is forgotten
Decided(c) == promoted[c] # NoCommit \/ rejected[c] # NoCommit
HasWorktree(c) == head[c] # NoCommit
\* git status: staged or unstaged differences from HEAD, untracked files.
Dirty(c) == files[c] # tree[head[c]] \/ index[c] # tree[head[c]]
BelongsToCandidate(c, b, k) == base[c] = b            \* defect: any commit is promotable
RecordedCheckpoint(c, b, k) == base[c] = b /\ k \in checkpoints[c]

\* Between the base ref and the return of create_candidate nobody else has
\* the candidate's identity.
BeingCreated(c) ==
    \E q \in Caller :
       call[q].cand = c /\ call[q].at \in {"create_worktree", "create_rollback"}

-----------------------------------------------------------------------------
Init ==
    /\ commits = Root
    /\ tree \in { t \in [Commit -> Content \cup {NoContent}] :
                    \A k \in Commit : t[k] = NoContent <=> k \notin Root }
    /\ parent = [k \in Commit |-> NoCommit]
    /\ anc = [k \in Commit |-> IF k \in Root THEN {k} ELSE {}]
    /\ accepted = NoCommit
    /\ base = [c \in Candidate |-> NoCommit]
    /\ checkpoints = [c \in Candidate |-> {}]
    /\ promoted = [c \in Candidate |-> NoCommit]
    /\ rejected = [c \in Candidate |-> NoCommit]
    /\ head = [c \in Candidate |-> NoCommit]
    /\ index = [c \in Candidate |-> NoContent]
    /\ files = [c \in Candidate |-> NoContent]
    /\ call = [p \in Caller |-> NoCall]

Ready(p) == call[p].at \in Outcome
At(p, step) == call[p].at = step

\* Defect: two arguments in the wrong order.
BeginSwapped(p, step, c, b, k) ==
    call' = [call EXCEPT ![p] =
               [at |-> step, cand |-> b, base |-> c, commit |-> k, dirty |-> FALSE]]
Begin(p, step, c, b, k) ==
    call' = [call EXCEPT ![p] =
               [at |-> step, cand |-> c, base |-> b, commit |-> k, dirty |-> FALSE]]
Goto(p, step) == call' = [call EXCEPT ![p].at = step]
\* What the caller keeps of a call that ended.
Return(p, outcome) ==
    call' = [call EXCEPT ![p] =
               IF outcome \in {"checkpointed", "stale_candidate"}
               THEN [@ EXCEPT !.at = outcome, !.dirty = FALSE]
               ELSE [NoCall EXCEPT !.at = outcome]]

\* A new commit on top of HEAD. Two commits with one parent, tree, author and
\* second are one object, so an existing commit may be named again.
MakeCommit(c, content, n) ==
    \/ /\ n \in Commit \ commits
       /\ commits' = commits \cup {n}
       /\ tree' = [tree EXCEPT ![n] = content]
       /\ parent' = [parent EXCEPT ![n] = head[c]]
       /\ anc' = [anc EXCEPT ![n] = anc[head[c]] \cup {n}]
       /\ head' = [head EXCEPT ![c] = n]
    \/ /\ n \in commits
       /\ parent[n] = head[c]
       /\ tree[n] = content
       /\ head' = [head EXCEPT ![c] = n]
       /\ UNCHANGED objectVars

-----------------------------------------------------------------------------
(* initialize(): read the accepted ref, create it if it is absent.         *)
BeginInitialize(p, k) ==
    /\ Ready(p)
    /\ k \in commits
    /\ \/ accepted = NoCommit /\ Begin(p, "init_cas", NoCandidate, NoCommit, k)
       \/ accepted = k /\ Return(p, "initialized")
       \/ accepted \notin {NoCommit, k} /\ Return(p, "refused")
    /\ UNCHANGED <<objectVars, accepted, candidateRefs, worktreeVars>>

\* Defect: the ref is set without the zero it must replace.
InitOverwrites(p) ==
    /\ At(p, "init_cas")
    /\ accepted' = call[p].commit
    /\ Return(p, "initialized")
    /\ UNCHANGED <<objectVars, candidateRefs, worktreeVars>>

InitCas(p) ==
    /\ At(p, "init_cas")
    /\ \/ /\ accepted = NoCommit
          /\ accepted' = call[p].commit
          /\ Return(p, "initialized")
       \/ /\ accepted # NoCommit \/ MayFail
          /\ Goto(p, "init_reread")
          /\ UNCHANGED accepted
    /\ UNCHANGED <<objectVars, candidateRefs, worktreeVars>>

InitReread(p) ==
    /\ At(p, "init_reread")
    /\ Return(p, IF accepted \in {NoCommit, call[p].commit} THEN "initialized" ELSE "refused")
    /\ UNCHANGED <<objectVars, accepted, candidateRefs, worktreeVars>>

-----------------------------------------------------------------------------
(* create_candidate(state)                                                 *)
BeginCreate(p, s) ==
    /\ Ready(p)
    /\ s \in commits
    /\ \/ accepted = NoCommit /\ Return(p, "refused")
       \/ accepted \notin {NoCommit, s} /\ Return(p, "refused")
       \/ accepted = s /\ Begin(p, "create_base", NoCandidate, s, NoCommit)
    /\ UNCHANGED <<objectVars, accepted, candidateRefs, worktreeVars>>

\* A fresh identity; the ref is created from zero.
CreateBase(p, c) ==
    /\ At(p, "create_base")
    /\ base[c] = NoCommit
    /\ ~HasWorktree(c)
    /\ \/ /\ base' = [base EXCEPT ![c] = call[p].base]
          /\ Begin(p, "create_worktree", c, call[p].base, NoCommit)
       \/ MayFail /\ Return(p, "refused") /\ UNCHANGED base
    /\ UNCHANGED <<objectVars, accepted, checkpoints, promoted, rejected, worktreeVars>>

CreateWorktree(p) ==
    LET c == call[p].cand  b == call[p].base IN
    /\ At(p, "create_worktree")
    /\ \/ /\ head' = [head EXCEPT ![c] = b]
          /\ index' = [index EXCEPT ![c] = tree[b]]
          /\ files' = [files EXCEPT ![c] = tree[b]]
          /\ Return(p, "idle")
       \/ MayFail /\ Goto(p, "create_rollback") /\ UNCHANGED worktreeVars
    /\ UNCHANGED <<objectVars, accepted, candidateRefs>>

CreateRollback(p) ==
    LET c == call[p].cand IN
    /\ At(p, "create_rollback")
    /\ \/ base' = [base EXCEPT ![c] = NoCommit]
       \/ MayFail /\ UNCHANGED base
    /\ Return(p, "refused")
    /\ UNCHANGED <<objectVars, accepted, checkpoints, promoted, rejected, worktreeVars>>

-----------------------------------------------------------------------------
(* checkpoint_candidate(candidate, message)                                *)
BeginCheckpoint(p, c, b) ==
    /\ Ready(p)
    /\ ~BeingCreated(c)
    /\ \/ base[c] # b /\ Return(p, "refused")
       \/ base[c] = b /\ Decided(c) /\ Return(p, "refused")
       \/ base[c] = b /\ ~Decided(c) /\ ~HasWorktree(c) /\ Return(p, "refused")
       \/ base[c] = b /\ ~Decided(c) /\ HasWorktree(c)
          /\ Begin(p, "checkpoint_status", c, b, NoCommit)
    /\ UNCHANGED <<objectVars, accepted, candidateRefs, worktreeVars>>

\* Any of these commands fails when the worktree has been removed meanwhile.
WorktreeGone(p, steps) ==
    /\ call[p].at \in steps
    /\ ~HasWorktree(call[p].cand) \/ MayFail
    /\ Return(p, "refused")
    /\ UNCHANGED <<objectVars, accepted, candidateRefs, worktreeVars>>

CheckpointStatus(p) ==
    LET c == call[p].cand IN
    /\ At(p, "checkpoint_status")
    /\ HasWorktree(c)
    /\ call' = [call EXCEPT ![p].dirty = Dirty(c),
                            ![p].at = IF Dirty(c) THEN "checkpoint_add" ELSE "checkpoint_head"]
    /\ UNCHANGED <<objectVars, accepted, candidateRefs, worktreeVars>>

CheckpointAdd(p) ==
    LET c == call[p].cand IN
    /\ At(p, "checkpoint_add")
    /\ HasWorktree(c)
    /\ index' = [index EXCEPT ![c] = files[c]]
    /\ Goto(p, "checkpoint_commit")
    /\ UNCHANGED <<objectVars, accepted, candidateRefs, head, files>>

\* git commit refuses when nothing is staged (the edit was undone meanwhile).
CheckpointCommit(p) ==
    LET c == call[p].cand IN
    /\ At(p, "checkpoint_commit")
    /\ HasWorktree(c)
    /\ IF index[c] = tree[head[c]]
       THEN Return(p, "refused") /\ UNCHANGED <<objectVars, head>>
       ELSE (\E n \in Commit : MakeCommit(c, index[c], n)) /\ Goto(p, "checkpoint_head")
    /\ UNCHANGED <<accepted, candidateRefs, index, files>>

CheckpointHead(p) ==
    LET c == call[p].cand IN
    /\ At(p, "checkpoint_head")
    /\ HasWorktree(c)
    /\ call' = [call EXCEPT ![p].commit = head[c], ![p].at = "checkpoint_recorded"]
    /\ UNCHANGED <<objectVars, accepted, candidateRefs, worktreeVars>>

CheckpointRecorded(p) ==
    LET c == call[p].cand  k == call[p].commit
        nothing == \/ k = call[p].base
                   \/ ~call[p].dirty /\ k \in checkpoints[c] IN
    /\ At(p, "checkpoint_recorded")
    /\ \/ nothing /\ Return(p, "nothing_to_checkpoint")
       \/ ~nothing /\ ~IsAncestor(call[p].base, k) /\ Return(p, "refused")
       \/ ~nothing /\ IsAncestor(call[p].base, k) /\ Goto(p, "checkpoint_record")
    /\ UNCHANGED <<objectVars, accepted, candidateRefs, worktreeVars>>

CheckpointRecord(p) ==
    LET c == call[p].cand  k == call[p].commit IN
    /\ At(p, "checkpoint_record")
    /\ \/ /\ k \notin checkpoints[c]
          /\ checkpoints' = [checkpoints EXCEPT ![c] = @ \cup {k}]
          /\ Return(p, "checkpointed")
       \/ /\ k \in checkpoints[c] \/ MayFail
          /\ Return(p, "refused")
          /\ UNCHANGED checkpoints
    /\ UNCHANGED <<objectVars, accepted, base, promoted, rejected, worktreeVars>>

-----------------------------------------------------------------------------
(* promote(checkpoint)                                                     *)
BeginPromote(p, c, b, k) ==
    /\ Ready(p)
    /\ ~BeingCreated(c)
    /\ \/ ~RecordedCheckpoint(c, b, k) /\ Return(p, "refused")
       \/ RecordedCheckpoint(c, b, k) /\ Decided(c) /\ Return(p, "refused")
       \/ RecordedCheckpoint(c, b, k) /\ ~Decided(c) /\ Begin(p, "promote_accepted", c, b, k)
    /\ UNCHANGED <<objectVars, accepted, candidateRefs, worktreeVars>>

PromoteAccepted(p) ==
    LET b == call[p].base  k == call[p].commit IN
    /\ At(p, "promote_accepted")
    /\ \/ accepted # b /\ Return(p, "stale_candidate")
       \/ accepted = b /\ (k = b \/ ~IsAncestor(b, k)) /\ Return(p, "refused")
       \/ accepted = b /\ k # b /\ IsAncestor(b, k) /\ Goto(p, "promote_refs")
    /\ UNCHANGED <<objectVars, accepted, candidateRefs, worktreeVars>>

\* Defects: one line of the transaction is missing.
PromoteIgnoresRejection(c, b) == accepted = b /\ promoted[c] = NoCommit
PromoteIgnoresAccepted(c, b) == rejected[c] = NoCommit /\ promoted[c] = NoCommit
PromotePreconditions(c, b) ==
    rejected[c] = NoCommit /\ accepted = b /\ promoted[c] = NoCommit

\* One ref transaction: all three refs or none.
PromoteRefs(p) ==
    LET c == call[p].cand  k == call[p].commit IN
    /\ At(p, "promote_refs")
    /\ \/ /\ PromotePreconditions(c, call[p].base)
          /\ accepted' = k
          /\ promoted' = [promoted EXCEPT ![c] = k]
          /\ Return(p, "promoted")
       \/ /\ ~PromotePreconditions(c, call[p].base) \/ MayFail
          /\ Goto(p, "promote_refused")
          /\ UNCHANGED <<accepted, promoted>>
    /\ UNCHANGED <<objectVars, base, checkpoints, rejected, worktreeVars>>

\* Defects: the cause is guessed, or looked for in the accepted ref alone.
PromoteRefusedAsStale(p) ==
    /\ At(p, "promote_refused")
    /\ Return(p, "stale_candidate")
    /\ UNCHANGED <<objectVars, accepted, candidateRefs, worktreeVars>>

\* The transaction failed: say why, from the refs as they are now.
PromoteRefused(p) ==
    /\ At(p, "promote_refused")
    /\ IF Decided(call[p].cand) THEN Return(p, "refused") ELSE Goto(p, "promote_reread")
    /\ UNCHANGED <<objectVars, accepted, candidateRefs, worktreeVars>>

PromoteReread(p) ==
    /\ At(p, "promote_reread")
    /\ Return(p, IF accepted # call[p].base THEN "stale_candidate" ELSE "promote_failed")
    /\ UNCHANGED <<objectVars, accepted, candidateRefs, worktreeVars>>

-----------------------------------------------------------------------------
(* reject(candidate, reason, checkpoint): k is NoCommit without one.       *)
BeginReject(p, c, b, k) ==
    /\ Ready(p)
    /\ ~BeingCreated(c)
    /\ LET foreign == k # NoCommit /\ ~RecordedCheckpoint(c, b, k) IN
       \/ base[c] # b /\ Return(p, "refused")
       \/ base[c] = b /\ Decided(c) /\ Return(p, "refused")
       \/ base[c] = b /\ ~Decided(c) /\ foreign /\ Return(p, "refused")
       \/ base[c] = b /\ ~Decided(c) /\ ~foreign /\ Begin(p, "reject_refs", c, b, k)
    /\ UNCHANGED <<objectVars, accepted, candidateRefs, worktreeVars>>

RejectRefs(p) ==
    LET c == call[p].cand
        evidence == IF call[p].commit # NoCommit THEN call[p].commit ELSE call[p].base IN
    /\ At(p, "reject_refs")
    /\ \/ /\ ~Decided(c)
          /\ rejected' = [rejected EXCEPT ![c] = evidence]
          /\ Return(p, "idle")
       \/ /\ Decided(c) \/ MayFail
          /\ Goto(p, "reject_refused")
          /\ UNCHANGED rejected
    /\ UNCHANGED <<objectVars, accepted, base, checkpoints, promoted, worktreeVars>>

RejectRefused(p) ==
    /\ At(p, "reject_refused")
    /\ Return(p, "refused")
    /\ UNCHANGED <<objectVars, accepted, candidateRefs, worktreeVars>>

-----------------------------------------------------------------------------
(* cleanup(candidate, discard): the worktree goes, every ref stays.        *)
BeginCleanup(p, c, b, discard) ==
    /\ Ready(p)
    /\ ~BeingCreated(c)
    /\ \/ base[c] # b /\ Return(p, "refused")
       \/ base[c] = b /\ ~HasWorktree(c) /\ Return(p, "idle")
       \/ base[c] = b /\ HasWorktree(c)
          /\ Begin(p, IF discard THEN "cleanup_discard" ELSE "cleanup_status", c, b, NoCommit)
    /\ UNCHANGED <<objectVars, accepted, candidateRefs, worktreeVars>>

CleanupStatus(p) ==
    LET c == call[p].cand IN
    /\ At(p, "cleanup_status")
    /\ HasWorktree(c)
    /\ IF Dirty(c) THEN Return(p, "refused") ELSE Goto(p, "cleanup_remove")
    /\ UNCHANGED <<objectVars, accepted, candidateRefs, worktreeVars>>

CleanupRemove(p) ==
    LET c == call[p].cand IN
    /\ At(p, "cleanup_remove") \/ At(p, "cleanup_discard")
    /\ HasWorktree(c)
    /\ head' = [head EXCEPT ![c] = NoCommit]
    /\ index' = [index EXCEPT ![c] = NoContent]
    /\ files' = [files EXCEPT ![c] = NoContent]
    /\ Return(p, "idle")
    /\ UNCHANGED <<objectVars, accepted, candidateRefs>>

WorktreeSteps ==
    { "checkpoint_status", "checkpoint_add", "checkpoint_commit", "checkpoint_head",
      "cleanup_status", "cleanup_remove", "cleanup_discard" }

-----------------------------------------------------------------------------
\* The caller has no use for its call any more: it dies in the middle of it, or
\* has taken the outcome. What the call did to the repository stays.
Drop(p) ==
    /\ Return(p, "idle")
    /\ UNCHANGED <<objectVars, accepted, candidateRefs, worktreeVars>>

\* What an executor does in its worktree, without the broker.
ExecutorEdits(c, content) ==
    /\ HasWorktree(c)
    /\ files' = [files EXCEPT ![c] = content]
    /\ UNCHANGED <<objectVars, accepted, candidateRefs, head, index, call>>

ExecutorCommits(c) ==
    /\ HasWorktree(c)
    /\ files[c] # tree[head[c]]
    /\ \E n \in Commit : MakeCommit(c, files[c], n)
    /\ index' = [index EXCEPT ![c] = files[c]]
    /\ UNCHANGED <<accepted, candidateRefs, files, call>>

ExecutorChecksOut(c, k) ==
    /\ HasWorktree(c)
    /\ k \in commits
    /\ head' = [head EXCEPT ![c] = k]
    /\ index' = [index EXCEPT ![c] = tree[k]]
    /\ files' = [files EXCEPT ![c] = tree[k]]
    /\ UNCHANGED <<objectVars, accepted, candidateRefs, call>>

BeginOperation(p) ==
    \/ "initialize" \in Operations /\ \E k \in Commit : BeginInitialize(p, k)
    \/ "create" \in Operations /\ \E k \in Commit : BeginCreate(p, k)
    \/ \E c \in Candidate, b \in Commit :
          \/ "checkpoint" \in Operations /\ BeginCheckpoint(p, c, b)
          \/ "promote" \in Operations /\ \E k \in Commit : BeginPromote(p, c, b, k)
          \/ "reject" \in Operations /\ \E k \in Opt(Commit) : BeginReject(p, c, b, k)
          \/ "cleanup" \in Operations /\ \E discard \in BOOLEAN : BeginCleanup(p, c, b, discard)

ContinueOperation(p) ==
    \/ InitCas(p) \/ InitReread(p)
    \/ (\E c \in Candidate : CreateBase(p, c)) \/ CreateWorktree(p) \/ CreateRollback(p)
    \/ CheckpointStatus(p) \/ CheckpointAdd(p) \/ CheckpointCommit(p)
    \/ CheckpointHead(p) \/ CheckpointRecorded(p) \/ CheckpointRecord(p)
    \/ PromoteAccepted(p) \/ PromoteRefs(p) \/ PromoteRefused(p) \/ PromoteReread(p)
    \/ RejectRefs(p) \/ RejectRefused(p)
    \/ CleanupStatus(p) \/ CleanupRemove(p)
    \/ WorktreeGone(p, WorktreeSteps)

ExecutorStep ==
    \E c \in Candidate :
       \/ "edit" \in ExecutorMoves /\ \E content \in Content : ExecutorEdits(c, content)
       \/ "commit" \in ExecutorMoves /\ ExecutorCommits(c)
       \/ "checkout" \in ExecutorMoves /\ \E k \in Commit : ExecutorChecksOut(c, k)

Next ==
    \/ \E p \in Caller : BeginOperation(p) \/ ContinueOperation(p) \/ Drop(p)
    \/ ExecutorStep

Spec == Init /\ [][Next]_vars

-----------------------------------------------------------------------------
(*                               Properties                                *)

TypeOK ==
    /\ commits \in SUBSET Commit
    /\ tree \in [Commit -> Content \cup {NoContent}]
    /\ parent \in [Commit -> Opt(Commit)]
    /\ anc \in [Commit -> SUBSET Commit]
    /\ accepted \in Opt(Commit)
    /\ base \in [Candidate -> Opt(Commit)]
    /\ checkpoints \in [Candidate -> SUBSET Commit]
    /\ promoted \in [Candidate -> Opt(Commit)]
    /\ rejected \in [Candidate -> Opt(Commit)]
    /\ head \in [Candidate -> Opt(Commit)]
    /\ index \in [Candidate -> Content \cup {NoContent}]
    /\ files \in [Candidate -> Content \cup {NoContent}]
    /\ call \in [Caller -> Call]

\* A promote and a reject racing for one candidate never both decide it
\* (docs/02_DECISIONS.md: "can never both succeed").
DecidedOnce ==
    \A c \in Candidate : promoted[c] = NoCommit \/ rejected[c] = NoCommit

\* Only a commit the broker recorded as a checkpoint of the candidate is ever
\* promoted, and every recorded checkpoint is a proper descendant of its base,
\* whatever the executor did to the worktree's history in the meantime.
PromotedWasRecorded ==
    \A c \in Candidate :
       /\ promoted[c] # NoCommit => promoted[c] \in checkpoints[c]
       /\ \A k \in checkpoints[c] : k # base[c] /\ IsAncestor(base[c], k)

\* No update is lost: whatever was promoted stays in the history of the
\* accepted commit, and two promoted candidates never began from one base.
PromotedStaysInHistory ==
    \A c \in Candidate : promoted[c] # NoCommit =>
       /\ accepted # NoCommit
       /\ IsAncestor(promoted[c], accepted)
       /\ \A d \in Candidate \ {c} : promoted[d] # NoCommit => base[d] # base[c]

\* StaleCandidateError is final: the accepted commit never comes back to the
\* base of a candidate that was once refused as stale, so a retry is useless.
StaleIsFinal ==
    \A p \in Caller : At(p, "stale_candidate") => accepted # call[p].base

\* Every accepted move is a fast-forward made by deciding exactly one open
\* candidate that began from the accepted commit, to its recorded checkpoint.
AcceptedStep ==
    accepted' # accepted /\ accepted # NoCommit =>
       /\ accepted' # NoCommit
       /\ IsAncestor(accepted, accepted')
       /\ \E c \in Candidate :
             /\ base[c] = accepted /\ ~Decided(c)
             /\ promoted' = [promoted EXCEPT ![c] = accepted']
             /\ accepted' \in checkpoints[c]
             /\ UNCHANGED rejected
AcceptedOnlyFastForwards == [][AcceptedStep]_vars

\* Evidence is kept: no checkpoint, promoted or rejected ref is ever deleted or
\* moved, and a base ref goes only in the rollback of its own creation.
EvidenceStep ==
    \A c \in Candidate :
       /\ checkpoints[c] \subseteq checkpoints'[c]
       /\ promoted[c] # NoCommit => promoted'[c] = promoted[c]
       /\ rejected[c] # NoCommit => rejected'[c] = rejected[c]
       /\ base[c] # NoCommit /\ base'[c] # base[c] =>
             base'[c] = NoCommit /\ checkpoints[c] = {} /\ ~Decided(c) /\ ~HasWorktree(c)
EvidenceIsKept == [][EvidenceStep]_vars

\* The commits that were accepted, read back from the refs that remain.
History ==
    { k \in Commit : \/ k = accepted
                     \/ \E c \in Candidate : promoted[c] # NoCommit /\ k \in {base[c], promoted[c]} }

Promise == INSTANCE AcceptedState WITH
    history <- History,
    origin <- base,
    decision <- [c \in Candidate |-> IF promoted[c] # NoCommit THEN "promoted"
                                     ELSE IF rejected[c] # NoCommit THEN "rejected"
                                     ELSE "open"]

\* The broker's unlocked sequences of Git commands implement the atomic promise.
ImplementsPromise == Promise!Spec
=============================================================================
