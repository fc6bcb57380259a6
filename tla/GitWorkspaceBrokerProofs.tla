----------------------- MODULE GitWorkspaceBrokerProofs -----------------------
(* Proofs about GitWorkspaceBroker for every set of commits, candidates and  *)
(* callers.                                                                  *)
EXTENDS GitWorkspaceBroker, TLAPS

USE NoValueAssumption, RootAssumption

-----------------------------------------------------------------------------
(*                        The inductive invariant                          *)

\* The object database is an acyclic history: ancestry is a partial order on
\* the commits that exist, and nothing else has ancestors.
ObjectsOK ==
    /\ \A k \in commits : k \in anc[k] /\ anc[k] \subseteq commits
    /\ \A k \in commits : \A j \in anc[k] : anc[j] \subseteq anc[k]
    /\ \A k \in commits : \A j \in anc[k] : k \in anc[j] => j = k

\* Refs and worktrees name commits that exist.
NamesOK ==
    /\ accepted \in Opt(commits)
    /\ \A c \in Candidate :
          /\ base[c] \in Opt(commits) /\ head[c] \in Opt(commits)
          /\ promoted[c] \in Opt(commits)
          /\ checkpoints[c] \subseteq commits

\* Whatever hangs on a candidate hangs on its base ref.
Registered ==
    \A c \in Candidate : base[c] = NoCommit =>
       checkpoints[c] = {} /\ ~Decided(c) /\ ~HasWorktree(c)

\* Every base was accepted, and what was accepted stays an ancestor of what is.
BaseWasAccepted ==
    \A c \in Candidate : base[c] # NoCommit =>
       accepted # NoCommit /\ base[c] \in anc[accepted] /\ base[c] \in History

CreateSteps == {"create_worktree", "create_rollback"}
LiveSteps ==
    { "checkpoint_status", "checkpoint_add", "checkpoint_commit", "checkpoint_head",
      "checkpoint_recorded", "checkpoint_record", "promote_accepted", "promote_refs",
      "promote_refused", "promote_reread", "reject_refs", "reject_refused",
      "cleanup_status", "cleanup_remove", "cleanup_discard" }
PromoteSteps == {"promote_accepted", "promote_refs", "promote_refused", "promote_reread"}

\* What a caller in the middle of an operation may rely on.
CallOK(p) ==
    LET c == call[p].cand  b == call[p].base  k == call[p].commit IN
    /\ b \in Opt(commits) /\ k \in Opt(commits)
    /\ call[p].at = "init_cas" => k # NoCommit
    /\ call[p].at = "create_base" =>
          accepted # NoCommit /\ b \in anc[accepted] /\ b \in History /\ b # NoCommit
    /\ call[p].at \in CreateSteps =>
          /\ c \in Candidate /\ b # NoCommit /\ base[c] = b
          /\ checkpoints[c] = {} /\ ~Decided(c) /\ ~HasWorktree(c)
    /\ call[p].at \in LiveSteps => c \in Candidate /\ b # NoCommit /\ base[c] = b
    /\ call[p].at \in {"checkpoint_recorded", "checkpoint_record", "checkpointed"} =>
          k # NoCommit
    /\ call[p].at = "checkpoint_record" => k # b /\ b \in anc[k]
    /\ call[p].at \in PromoteSteps => k \in checkpoints[c]
    /\ call[p].at = "stale_candidate" =>
          accepted # NoCommit /\ b \in anc[accepted] /\ b # accepted

\* A candidate in creation is nobody else's.
CreationIsPrivate ==
    \A p, q \in Caller :
       p # q /\ call[p].at \in CreateSteps /\ call[q].at \in CreateSteps \cup LiveSteps =>
          call[p].cand # call[q].cand

PrivateTo(p) ==
    \A q \in Caller \ {p} :
       /\ call[p].at \in CreateSteps /\ call[q].at \in CreateSteps \cup LiveSteps =>
             call[p].cand # call[q].cand
       /\ call[q].at \in CreateSteps /\ call[p].at \in CreateSteps \cup LiveSteps =>
             call[p].cand # call[q].cand

IInv ==
    /\ TypeOK
    /\ ObjectsOK
    /\ NamesOK
    /\ Registered
    /\ BaseWasAccepted
    /\ DecidedOnce
    /\ PromotedWasRecorded
    /\ PromotedStaysInHistory
    /\ CreationIsPrivate
    /\ \A p \in Caller : CallOK(p)

-----------------------------------------------------------------------------

LEMMA GotoTyped ==
    ASSUME call \in [Caller -> Call], NEW p \in Caller, NEW step \in Step \cup Outcome,
           Goto(p, step)
    PROVE  call' \in [Caller -> Call]
<1>1. call[p] \in Call
  OBVIOUS
<1>2. [call[p] EXCEPT !.at = step] \in Call
  BY <1>1 DEF Call
<1> QED
  BY <1>2 DEF Goto

LEMMA BeginTyped ==
    ASSUME call \in [Caller -> Call], NEW p \in Caller, NEW step \in Step \cup Outcome,
           NEW c \in Candidate \cup {NoCandidate}, NEW b \in Opt(Commit),
           NEW k \in Opt(Commit), Begin(p, step, c, b, k)
    PROVE  call' \in [Caller -> Call]
BY DEF Begin, Call

LEMMA ReturnTyped ==
    ASSUME call \in [Caller -> Call], NEW p \in Caller, NEW outcome \in Outcome,
           Return(p, outcome)
    PROVE  call' \in [Caller -> Call]
<1> DEFINE kept == [call[p] EXCEPT !.at = outcome, !.dirty = FALSE]
           gone == [NoCall EXCEPT !.at = outcome]
<1>1. call[p] \in Call
  OBVIOUS
<1>2. kept \in Call
  BY <1>1 DEF Call
<1>3. gone \in Call
  BY DEF Call, NoCall, Opt
<1>4. call' = [call EXCEPT ![p] = kept] \/ call' = [call EXCEPT ![p] = gone]
  BY DEF Return
<1> QED
  BY <1>2, <1>3, <1>4

LEMMA MakeCommitTyped ==
    ASSUME TypeOK, NEW c \in Candidate, NEW n \in Commit,
           NEW content \in Content \cup {NoContent}, head[c] \in Commit, MakeCommit(c, content, n)
    PROVE  /\ commits' \in SUBSET Commit
           /\ tree' \in [Commit -> Content \cup {NoContent}]
           /\ parent' \in [Commit -> Opt(Commit)]
           /\ anc' \in [Commit -> SUBSET Commit]
           /\ head' \in [Candidate -> Opt(Commit)]
BY DEF TypeOK, MakeCommit, objectVars, Opt

-----------------------------------------------------------------------------
(*                              Frame lemmas                               *)

\* A step that changes only what caller p remembers keeps the invariant when
\* what p now remembers is in order.
LEMMA OnlyCallMoves ==
    ASSUME IInv, NEW p \in Caller,
           call' \in [Caller -> Call],
           \A q \in Caller \ {p} : call'[q] = call[q],
           UNCHANGED <<objectVars, accepted, candidateRefs, worktreeVars>>,
           CallOK(p)', PrivateTo(p)'
    PROVE  IInv'
<1> USE DEF objectVars, candidateRefs, worktreeVars
<1>1. TypeOK'
  BY DEF IInv, TypeOK
<1>2. ObjectsOK' /\ NamesOK' /\ Registered'
  BY DEF IInv, ObjectsOK, NamesOK, Registered, Decided, HasWorktree
<1>3. BaseWasAccepted'
  BY DEF IInv, BaseWasAccepted, History
<1>4. DecidedOnce' /\ PromotedWasRecorded' /\ PromotedStaysInHistory'
  BY DEF IInv, DecidedOnce, PromotedWasRecorded, PromotedStaysInHistory, IsAncestor
<1>5. CreationIsPrivate'
  BY DEF IInv, CreationIsPrivate, PrivateTo
<1>6. ASSUME NEW q \in Caller PROVE CallOK(q)'
  <2>1. CASE q = p
    BY <2>1
  <2>2. CASE q # p
    BY <2>2 DEF IInv, CallOK, Decided, HasWorktree, History
  <2> QED
    BY <2>1, <2>2
<1> QED
  BY <1>1, <1>2, <1>3, <1>4, <1>5, <1>6 DEF IInv

\* What Return leaves in the caller's own record.
LEMMA ReturnFrame ==
    ASSUME call \in [Caller -> Call], NEW p \in Caller, NEW outcome \in Outcome,
           Return(p, outcome)
    PROVE  /\ \A q \in Caller \ {p} : call'[q] = call[q]
           /\ call'[p].at = outcome
           /\ call'[p].base \in {call[p].base, NoCommit}
           /\ call'[p].commit \in {call[p].commit, NoCommit}
           /\ outcome = "stale_candidate" => call'[p].base = call[p].base
           /\ outcome = "checkpointed" => call'[p].commit = call[p].commit
BY DEF Return, NoCall, Call

LEMMA ReturnIsQuiet ==
    ASSUME IInv, NEW p \in Caller, NEW outcome \in Outcome \ {"stale_candidate", "checkpointed"},
           Return(p, outcome),
           UNCHANGED <<objectVars, accepted, candidateRefs, worktreeVars>>
    PROVE  IInv'
<1>1. call' \in [Caller -> Call]
  BY ReturnTyped DEF IInv, TypeOK
<1>2. /\ \A q \in Caller \ {p} : call'[q] = call[q]
      /\ call'[p].at = outcome
      /\ call'[p].base \in {call[p].base, NoCommit}
      /\ call'[p].commit \in {call[p].commit, NoCommit}
  BY ReturnFrame DEF IInv, TypeOK
<1>3. CallOK(p)'
  BY <1>2 DEF IInv, CallOK, Opt, Outcome, CreateSteps, LiveSteps, PromoteSteps, objectVars
<1>4. PrivateTo(p)'
  BY <1>2 DEF PrivateTo, Outcome, CreateSteps, LiveSteps
<1> QED
  BY <1>1, <1>2, <1>3, <1>4, OnlyCallMoves

LEMMA GotoFrame ==
    ASSUME call \in [Caller -> Call], NEW p \in Caller, NEW step, Goto(p, step)
    PROVE  /\ \A q \in Caller \ {p} : call'[q] = call[q]
           /\ call'[p].at = step
           /\ call'[p].cand = call[p].cand
           /\ call'[p].base = call[p].base
           /\ call'[p].commit = call[p].commit
BY DEF Goto, Call

LEMMA BeginFrame ==
    ASSUME call \in [Caller -> Call], NEW p \in Caller, NEW step, NEW c, NEW b, NEW k,
           Begin(p, step, c, b, k)
    PROVE  /\ \A q \in Caller \ {p} : call'[q] = call[q]
           /\ call'[p] = [at |-> step, cand |-> c, base |-> b, commit |-> k, dirty |-> FALSE]
BY DEF Begin, Call

\* The common case of OnlyCallMoves: the next step of the same operation.
LEMMA GotoIsQuiet ==
    ASSUME IInv, NEW p \in Caller, NEW step \in Step \ CreateSteps, Goto(p, step),
           UNCHANGED <<objectVars, accepted, candidateRefs, worktreeVars>>,
           CallOK(p)',
           step \in LiveSteps => call[p].at \in LiveSteps
    PROVE  IInv'
<1>1. call' \in [Caller -> Call]
  BY GotoTyped DEF IInv, TypeOK
<1>2. /\ \A q \in Caller \ {p} : call'[q] = call[q]
      /\ call'[p].at = step
      /\ call'[p].cand = call[p].cand
  BY GotoFrame DEF IInv, TypeOK
<1>3. PrivateTo(p)'
  BY <1>2 DEF PrivateTo, IInv, CreationIsPrivate
<1> QED
  BY <1>1, <1>2, <1>3, OnlyCallMoves

\* A new operation on a candidate that nobody is creating.
LEMMA BeginIsQuiet ==
    ASSUME IInv, NEW p \in Caller, NEW step \in LiveSteps, NEW c \in Candidate,
           NEW b \in commits, NEW k \in Opt(commits), Begin(p, step, c, b, k),
           UNCHANGED <<objectVars, accepted, candidateRefs, worktreeVars>>,
           ~BeingCreated(c), base[c] = b,
           step \notin {"checkpoint_recorded", "checkpoint_record"},
           step \in PromoteSteps => k \in checkpoints[c]
    PROVE  IInv'
<1>1. call' \in [Caller -> Call]
  BY BeginTyped DEF IInv, TypeOK, Opt, LiveSteps, Step
<1>2. /\ \A q \in Caller \ {p} : call'[q] = call[q]
      /\ call'[p] = [at |-> step, cand |-> c, base |-> b, commit |-> k, dirty |-> FALSE]
  BY BeginFrame DEF IInv, TypeOK
<1>3. b # NoCommit
  BY DEF IInv, TypeOK
<1>4. CallOK(p)'
  BY <1>2, <1>3 DEF CallOK, Opt, CreateSteps, LiveSteps, PromoteSteps, objectVars, candidateRefs
<1>5. PrivateTo(p)'
  BY <1>2 DEF PrivateTo, BeingCreated, CreateSteps, LiveSteps
<1> QED
  BY <1>1, <1>2, <1>4, <1>5, OnlyCallMoves

-----------------------------------------------------------------------------
(*                 One lemma per action: the quiet ones                    *)

LEMMA BeginInitializeInv ==
    ASSUME IInv, NEW p \in Caller, NEW k \in Commit, BeginInitialize(p, k)
    PROVE  IInv'
<1>1. UNCHANGED <<objectVars, accepted, candidateRefs, worktreeVars>> /\ k \in commits
  BY DEF BeginInitialize
<1>2. CASE Return(p, "initialized")
  BY <1>1, <1>2, ReturnIsQuiet DEF Outcome
<1>3. CASE Return(p, "refused")
  BY <1>1, <1>3, ReturnIsQuiet DEF Outcome
<1>4. CASE Begin(p, "init_cas", NoCandidate, NoCommit, k)
  <2>1. call' \in [Caller -> Call]
    BY <1>4, BeginTyped DEF IInv, TypeOK, Opt, Step
  <2>2. /\ \A q \in Caller \ {p} : call'[q] = call[q]
        /\ call'[p] = [at |-> "init_cas", cand |-> NoCandidate, base |-> NoCommit,
                       commit |-> k, dirty |-> FALSE]
    BY <1>4, BeginFrame DEF IInv, TypeOK
  <2>3. k # NoCommit
    OBVIOUS
  <2>4. CallOK(p)'
    BY <1>1, <2>2, <2>3 DEF CallOK, Opt, CreateSteps, LiveSteps, PromoteSteps, objectVars
  <2>5. PrivateTo(p)'
    BY <2>2 DEF PrivateTo, CreateSteps, LiveSteps
  <2> QED
    BY <1>1, <2>1, <2>2, <2>4, <2>5, OnlyCallMoves
<1> QED
  BY <1>2, <1>3, <1>4 DEF BeginInitialize

LEMMA InitRereadInv ==
    ASSUME IInv, NEW p \in Caller, InitReread(p)
    PROVE  IInv'
BY ReturnIsQuiet DEF InitReread, Outcome

LEMMA BeginCreateInv ==
    ASSUME IInv, NEW p \in Caller, NEW s \in Commit, BeginCreate(p, s)
    PROVE  IInv'
<1>1. UNCHANGED <<objectVars, accepted, candidateRefs, worktreeVars>> /\ s \in commits
  BY DEF BeginCreate
<1>2. CASE Return(p, "refused")
  BY <1>1, <1>2, ReturnIsQuiet DEF Outcome
<1>3. CASE accepted = s /\ Begin(p, "create_base", NoCandidate, s, NoCommit)
  <2>1. call' \in [Caller -> Call]
    BY <1>3, BeginTyped DEF IInv, TypeOK, Opt, Step
  <2>2. /\ \A q \in Caller \ {p} : call'[q] = call[q]
        /\ call'[p] = [at |-> "create_base", cand |-> NoCandidate, base |-> s,
                       commit |-> NoCommit, dirty |-> FALSE]
    BY <1>3, BeginFrame DEF IInv, TypeOK
  <2>3. s # NoCommit /\ accepted' = s /\ s \in History' /\ s \in anc[accepted]
    BY <1>1, <1>3 DEF History, IInv, ObjectsOK
  <2>4. CallOK(p)'
    BY <1>1, <2>2, <2>3 DEF CallOK, Opt, CreateSteps, LiveSteps, PromoteSteps, objectVars
  <2>5. PrivateTo(p)'
    BY <2>2 DEF PrivateTo, CreateSteps, LiveSteps
  <2> QED
    BY <1>1, <2>1, <2>2, <2>4, <2>5, OnlyCallMoves
<1> QED
  BY <1>2, <1>3 DEF BeginCreate

LEMMA BeginCheckpointInv ==
    ASSUME IInv, NEW p \in Caller, NEW c \in Candidate, NEW b \in Commit,
           BeginCheckpoint(p, c, b)
    PROVE  IInv'
<1>1. UNCHANGED <<objectVars, accepted, candidateRefs, worktreeVars>> /\ ~BeingCreated(c)
  BY DEF BeginCheckpoint
<1>2. CASE Return(p, "refused")
  BY <1>1, <1>2, ReturnIsQuiet DEF Outcome
<1>3. CASE base[c] = b /\ Begin(p, "checkpoint_status", c, b, NoCommit)
  <2>1. b \in commits
    BY <1>3 DEF IInv, NamesOK, Opt
  <2> QED
    BY <1>1, <1>3, <2>1, BeginIsQuiet DEF Opt, LiveSteps, PromoteSteps
<1> QED
  BY <1>2, <1>3 DEF BeginCheckpoint

LEMMA BeginPromoteInv ==
    ASSUME IInv, NEW p \in Caller, NEW c \in Candidate, NEW b \in Commit, NEW k \in Commit,
           BeginPromote(p, c, b, k)
    PROVE  IInv'
<1>1. UNCHANGED <<objectVars, accepted, candidateRefs, worktreeVars>> /\ ~BeingCreated(c)
  BY DEF BeginPromote
<1>2. CASE Return(p, "refused")
  BY <1>1, <1>2, ReturnIsQuiet DEF Outcome
<1>3. CASE RecordedCheckpoint(c, b, k) /\ Begin(p, "promote_accepted", c, b, k)
  <2>1. b \in commits /\ k \in commits /\ base[c] = b /\ k \in checkpoints[c]
    BY <1>3 DEF IInv, NamesOK, Opt, RecordedCheckpoint
  <2> QED
    BY <1>1, <1>3, <2>1, BeginIsQuiet DEF Opt, LiveSteps
<1> QED
  BY <1>2, <1>3 DEF BeginPromote

LEMMA BeginRejectInv ==
    ASSUME IInv, NEW p \in Caller, NEW c \in Candidate, NEW b \in Commit,
           NEW k \in Opt(Commit), BeginReject(p, c, b, k)
    PROVE  IInv'
<1>1. UNCHANGED <<objectVars, accepted, candidateRefs, worktreeVars>> /\ ~BeingCreated(c)
  BY DEF BeginReject
<1>2. CASE Return(p, "refused")
  BY <1>1, <1>2, ReturnIsQuiet DEF Outcome
<1>3. CASE /\ base[c] = b
           /\ k = NoCommit \/ RecordedCheckpoint(c, b, k)
           /\ Begin(p, "reject_refs", c, b, k)
  <2>1. b \in commits /\ k \in Opt(commits)
    BY <1>3 DEF IInv, NamesOK, Opt, RecordedCheckpoint
  <2> QED
    BY <1>1, <1>3, <2>1, BeginIsQuiet DEF LiveSteps, PromoteSteps
<1> QED
  BY <1>2, <1>3 DEF BeginReject

LEMMA BeginCleanupInv ==
    ASSUME IInv, NEW p \in Caller, NEW c \in Candidate, NEW b \in Commit,
           NEW discard \in BOOLEAN, BeginCleanup(p, c, b, discard)
    PROVE  IInv'
<1>1. UNCHANGED <<objectVars, accepted, candidateRefs, worktreeVars>> /\ ~BeingCreated(c)
  BY DEF BeginCleanup
<1>2. CASE Return(p, "refused") \/ Return(p, "idle")
  BY <1>1, <1>2, ReturnIsQuiet DEF Outcome
<1>3. CASE \E step \in {"cleanup_discard", "cleanup_status"} :
              base[c] = b /\ Begin(p, step, c, b, NoCommit)
  <2>1. b \in commits
    BY <1>3 DEF IInv, NamesOK, Opt
  <2> QED
    BY <1>1, <1>3, <2>1, BeginIsQuiet DEF Opt, LiveSteps, PromoteSteps
<1> QED
  BY <1>2, <1>3 DEF BeginCleanup

LEMMA WorktreeGoneInv ==
    ASSUME IInv, NEW p \in Caller, WorktreeGone(p, WorktreeSteps)
    PROVE  IInv'
BY ReturnIsQuiet DEF WorktreeGone, Outcome

LEMMA DropInv ==
    ASSUME IInv, NEW p \in Caller, Drop(p)
    PROVE  IInv'
BY ReturnIsQuiet DEF Drop, Outcome

\* A step inside an operation that keeps what the caller remembers, but for
\* the step it is at and facts stated by its own CallOK.
LEMMA CheckpointStatusInv ==
    ASSUME IInv, NEW p \in Caller, CheckpointStatus(p)
    PROVE  IInv'
<1> DEFINE c == call[p].cand
           step == IF Dirty(c) THEN "checkpoint_add" ELSE "checkpoint_head"
           next == [call[p] EXCEPT !.dirty = Dirty(c), !.at = step]
<1>1. /\ UNCHANGED <<objectVars, accepted, candidateRefs, worktreeVars>>
      /\ call[p].at = "checkpoint_status"
      /\ call' = [call EXCEPT ![p] = next]
  BY DEF CheckpointStatus, At, IInv, TypeOK
<1>2. next \in Call
  <2>1. call[p] \in Call
    BY DEF IInv, TypeOK
  <2>2. Dirty(c) \in BOOLEAN
    BY DEF Dirty
  <2> QED
    BY <2>1, <2>2 DEF Call, Step
<1>3. /\ \A q \in Caller \ {p} : call'[q] = call[q]
      /\ call'[p].at = step /\ call'[p].cand = c
      /\ call'[p].base = call[p].base /\ call'[p].commit = call[p].commit
  BY <1>1 DEF IInv, TypeOK, Call
<1>4. call' \in [Caller -> Call]
  BY <1>1, <1>2 DEF IInv, TypeOK
<1>5. CallOK(p)'
  BY <1>1, <1>3 DEF IInv, CallOK, CreateSteps, LiveSteps, PromoteSteps, objectVars, candidateRefs
<1>6. PrivateTo(p)'
  BY <1>1, <1>3 DEF IInv, CreationIsPrivate, PrivateTo, CreateSteps, LiveSteps
<1> QED
  BY <1>1, <1>3, <1>4, <1>5, <1>6, OnlyCallMoves

LEMMA CheckpointHeadInv ==
    ASSUME IInv, NEW p \in Caller, CheckpointHead(p)
    PROVE  IInv'
<1> DEFINE c == call[p].cand
           next == [call[p] EXCEPT !.commit = head[c], !.at = "checkpoint_recorded"]
<1>1. /\ UNCHANGED <<objectVars, accepted, candidateRefs, worktreeVars>>
      /\ call[p].at = "checkpoint_head" /\ HasWorktree(c)
      /\ call' = [call EXCEPT ![p] = next]
  BY DEF CheckpointHead, At, IInv, TypeOK
<1>2. c \in Candidate /\ head[c] \in commits /\ head[c] # NoCommit
  BY <1>1 DEF IInv, CallOK, NamesOK, HasWorktree, Opt, LiveSteps
<1>3. next \in Call
  <2>1. call[p] \in Call /\ head[c] \in Opt(Commit)
    BY <1>2 DEF IInv, TypeOK
  <2> QED
    BY <2>1 DEF Call, Step
<1>4. /\ \A q \in Caller \ {p} : call'[q] = call[q]
      /\ call'[p].at = "checkpoint_recorded" /\ call'[p].cand = c
      /\ call'[p].base = call[p].base /\ call'[p].commit = head[c]
  BY <1>1 DEF IInv, TypeOK, Call
<1>5. call' \in [Caller -> Call]
  BY <1>1, <1>3 DEF IInv, TypeOK
<1>6. CallOK(p)'
  BY <1>1, <1>2, <1>4
  DEF IInv, CallOK, Opt, CreateSteps, LiveSteps, PromoteSteps, objectVars, candidateRefs
<1>7. PrivateTo(p)'
  BY <1>1, <1>4 DEF IInv, CreationIsPrivate, PrivateTo, CreateSteps, LiveSteps
<1> QED
  BY <1>1, <1>4, <1>5, <1>6, <1>7, OnlyCallMoves

LEMMA CheckpointRecordedInv ==
    ASSUME IInv, NEW p \in Caller, CheckpointRecorded(p)
    PROVE  IInv'
<1>1. /\ UNCHANGED <<objectVars, accepted, candidateRefs, worktreeVars>>
      /\ call[p].at = "checkpoint_recorded"
  BY DEF CheckpointRecorded, At
<1>2. CASE Return(p, "nothing_to_checkpoint") \/ Return(p, "refused")
  BY <1>1, <1>2, ReturnIsQuiet DEF Outcome
<1>3. CASE /\ call[p].commit # call[p].base
           /\ IsAncestor(call[p].base, call[p].commit)
           /\ Goto(p, "checkpoint_record")
  <2>1. /\ call'[p].at = "checkpoint_record" /\ call'[p].cand = call[p].cand
        /\ call'[p].base = call[p].base /\ call'[p].commit = call[p].commit
    BY <1>3, GotoFrame DEF IInv, TypeOK
  <2>2. CallOK(p)'
    BY <1>1, <1>3, <2>1 DEF IInv, CallOK, IsAncestor, CreateSteps, LiveSteps, PromoteSteps,
       objectVars, candidateRefs
  <2> QED
    BY <1>1, <1>3, <2>2, GotoIsQuiet DEF Step, CreateSteps, LiveSteps
<1> QED
  BY <1>2, <1>3 DEF CheckpointRecorded

\* A caller told "stale" remembers a base that is a proper ancestor of what is
\* accepted.
LEMMA StaleIsQuiet ==
    ASSUME IInv, NEW p \in Caller, call[p].at \in LiveSteps, accepted # call[p].base,
           Return(p, "stale_candidate"),
           UNCHANGED <<objectVars, accepted, candidateRefs, worktreeVars>>
    PROVE  IInv'
<1>1. call' \in [Caller -> Call]
  BY ReturnTyped DEF IInv, TypeOK, Outcome
<1>2. /\ \A q \in Caller \ {p} : call'[q] = call[q]
      /\ call'[p].at = "stale_candidate" /\ call'[p].base = call[p].base
      /\ call'[p].commit \in {call[p].commit, NoCommit}
  BY ReturnFrame DEF IInv, TypeOK, Outcome
<1>3. /\ call[p].cand \in Candidate /\ base[call[p].cand] = call[p].base
      /\ call[p].base # NoCommit
  BY DEF IInv, CallOK
<1>4. accepted # NoCommit /\ call[p].base \in anc[accepted]
  BY <1>3 DEF IInv, BaseWasAccepted
<1>5. CallOK(p)'
  BY <1>2, <1>4 DEF IInv, CallOK, Opt, CreateSteps, LiveSteps, PromoteSteps, objectVars
<1>6. PrivateTo(p)'
  BY <1>2 DEF PrivateTo, CreateSteps, LiveSteps
<1> QED
  BY <1>1, <1>2, <1>5, <1>6, OnlyCallMoves

\* Going on to a step that relies on nothing the caller did not rely on before.
LEMMA GoOnIsQuiet ==
    ASSUME IInv, NEW p \in Caller, call[p].at \in LiveSteps,
           NEW step \in LiveSteps \ {"checkpoint_recorded", "checkpoint_record"},
           step \in PromoteSteps => call[p].at \in PromoteSteps, Goto(p, step),
           UNCHANGED <<objectVars, accepted, candidateRefs, worktreeVars>>
    PROVE  IInv'
<1>1. /\ call'[p].at = step /\ call'[p].cand = call[p].cand
      /\ call'[p].base = call[p].base /\ call'[p].commit = call[p].commit
  BY GotoFrame DEF IInv, TypeOK
<1>2. CallOK(p)'
  BY <1>1 DEF IInv, CallOK, CreateSteps, LiveSteps, PromoteSteps, objectVars, candidateRefs
<1> QED
  BY <1>2, GotoIsQuiet DEF Step, CreateSteps, LiveSteps

LEMMA PromoteAcceptedInv ==
    ASSUME IInv, NEW p \in Caller, PromoteAccepted(p)
    PROVE  IInv'
<1>1. /\ UNCHANGED <<objectVars, accepted, candidateRefs, worktreeVars>>
      /\ call[p].at = "promote_accepted"
  BY DEF PromoteAccepted, At
<1>2. CASE Return(p, "refused")
  BY <1>1, <1>2, ReturnIsQuiet DEF Outcome
<1>3. CASE accepted # call[p].base /\ Return(p, "stale_candidate")
  BY <1>1, <1>3, StaleIsQuiet DEF LiveSteps
<1>4. CASE Goto(p, "promote_refs")
  BY <1>1, <1>4, GoOnIsQuiet DEF LiveSteps, PromoteSteps
<1> QED
  BY <1>2, <1>3, <1>4 DEF PromoteAccepted

LEMMA PromoteRefusedInv ==
    ASSUME IInv, NEW p \in Caller, PromoteRefused(p)
    PROVE  IInv'
<1>1. /\ UNCHANGED <<objectVars, accepted, candidateRefs, worktreeVars>>
      /\ call[p].at = "promote_refused"
  BY DEF PromoteRefused, At
<1>2. CASE Return(p, "refused")
  BY <1>1, <1>2, ReturnIsQuiet DEF Outcome
<1>3. CASE Goto(p, "promote_reread")
  BY <1>1, <1>3, GoOnIsQuiet DEF LiveSteps, PromoteSteps
<1> QED
  BY <1>2, <1>3 DEF PromoteRefused

LEMMA PromoteRereadInv ==
    ASSUME IInv, NEW p \in Caller, PromoteReread(p)
    PROVE  IInv'
<1>1. /\ UNCHANGED <<objectVars, accepted, candidateRefs, worktreeVars>>
      /\ call[p].at = "promote_reread"
  BY DEF PromoteReread, At
<1>2. CASE Return(p, "promote_failed")
  BY <1>1, <1>2, ReturnIsQuiet DEF Outcome
<1>3. CASE accepted # call[p].base /\ Return(p, "stale_candidate")
  BY <1>1, <1>3, StaleIsQuiet DEF LiveSteps
<1> QED
  BY <1>2, <1>3 DEF PromoteReread

LEMMA RejectRefusedInv ==
    ASSUME IInv, NEW p \in Caller, RejectRefused(p)
    PROVE  IInv'
BY ReturnIsQuiet DEF RejectRefused, Outcome

LEMMA CleanupStatusInv ==
    ASSUME IInv, NEW p \in Caller, CleanupStatus(p)
    PROVE  IInv'
<1>1. /\ UNCHANGED <<objectVars, accepted, candidateRefs, worktreeVars>>
      /\ call[p].at = "cleanup_status"
  BY DEF CleanupStatus, At
<1>2. CASE Return(p, "refused")
  BY <1>1, <1>2, ReturnIsQuiet DEF Outcome
<1>3. CASE Goto(p, "cleanup_remove")
  BY <1>1, <1>3, GoOnIsQuiet DEF LiveSteps, PromoteSteps
<1> QED
  BY <1>2, <1>3 DEF CleanupStatus

-----------------------------------------------------------------------------
(*          One lemma per action: commits and worktrees                    *)

\* A commit is made on top of HEAD: history stays acyclic, and nothing that
\* existed changes its ancestry.
LEMMA MakeCommitOK ==
    ASSUME IInv, NEW c \in Candidate, HasWorktree(c), NEW n \in Commit,
           NEW content \in Content \cup {NoContent}, MakeCommit(c, content, n)
    PROVE  /\ ObjectsOK'
           /\ commits \subseteq commits' /\ n \in commits'
           /\ \A k \in commits : anc'[k] = anc[k]
           /\ head' = [head EXCEPT ![c] = n]
<1>1. head[c] \in commits
  BY DEF IInv, NamesOK, HasWorktree, Opt
<1>2. CASE /\ n \in Commit \ commits
           /\ commits' = commits \cup {n}
           /\ anc' = [anc EXCEPT ![n] = anc[head[c]] \cup {n}]
  <2>1. \A k \in commits : anc'[k] = anc[k]
    BY <1>2 DEF IInv, TypeOK
  <2>2. anc'[n] = anc[head[c]] \cup {n}
    BY <1>2 DEF IInv, TypeOK
  <2>3. \A k \in commits : anc[k] \subseteq commits /\ n \notin anc[k]
    BY <1>2 DEF IInv, ObjectsOK
  <2>4. \A k \in commits' : k \in anc'[k] /\ anc'[k] \subseteq commits'
    BY <1>1, <1>2, <2>1, <2>2 DEF IInv, ObjectsOK
  <2>5. \A k \in commits' : \A j \in anc'[k] : anc'[j] \subseteq anc'[k]
    BY <1>1, <1>2, <2>1, <2>2, <2>3 DEF IInv, ObjectsOK
  <2>6. \A k \in commits' : \A j \in anc'[k] : k \in anc'[j] => j = k
    BY <1>1, <1>2, <2>1, <2>2, <2>3 DEF IInv, ObjectsOK
  <2> QED
    BY <1>2, <2>1, <2>4, <2>5, <2>6 DEF ObjectsOK, MakeCommit, objectVars
<1>3. CASE n \in commits /\ UNCHANGED objectVars
  BY <1>3 DEF MakeCommit, IInv, ObjectsOK, objectVars
<1> QED
  BY <1>2, <1>3 DEF MakeCommit

\* What a step that leaves every ref alone must keep for the invariant to hold.
LEMMA RefsStay ==
    ASSUME IInv, TypeOK', ObjectsOK',
           UNCHANGED <<accepted, candidateRefs>>,
           commits \subseteq commits', \A k \in commits : anc'[k] = anc[k],
           \A c \in Candidate : head'[c] \in Opt(commits'),
           \A c \in Candidate : HasWorktree(c)' => base[c] # NoCommit,
           CreationIsPrivate',
           \A q \in Caller :
              \/ CallOK(q)'
              \/ /\ call'[q] = call[q]
                 /\ call[q].at \in CreateSteps => head'[call[q].cand] = NoCommit
    PROVE  IInv'
<1> USE DEF candidateRefs
<1>1. NamesOK'
  BY DEF IInv, NamesOK, Opt
<1>2. Registered'
  BY DEF IInv, Registered, Decided
<1>3. BaseWasAccepted'
  BY DEF IInv, BaseWasAccepted, NamesOK, History, Opt
<1>4. DecidedOnce'
  BY DEF IInv, DecidedOnce
<1>5. PromotedWasRecorded'
  BY DEF IInv, PromotedWasRecorded, NamesOK, IsAncestor
<1>6. PromotedStaysInHistory'
  BY DEF IInv, PromotedStaysInHistory, NamesOK, IsAncestor, Opt
<1>7. ASSUME NEW q \in Caller PROVE CallOK(q)'
  <2>1. CASE CallOK(q)'
    BY <2>1
  <2>2. CASE /\ call'[q] = call[q]
             /\ call[q].at \in CreateSteps => head'[call[q].cand] = NoCommit
    <3> DEFINE b == call[q].base  k == call[q].commit
    <3>1. CallOK(q) /\ accepted \in Opt(commits)
      BY DEF IInv, NamesOK
    <3>2. b \in Opt(commits') /\ k \in Opt(commits')
      BY <3>1 DEF CallOK, Opt
    <3>3. accepted # NoCommit => anc'[accepted] = anc[accepted]
      BY <3>1 DEF Opt
    <3>4. call[q].at = "checkpoint_record" => b \in anc'[k]
      BY <3>1 DEF CallOK, Opt
    <3>5. History' = History
      BY DEF History
    <3> QED
      BY <2>2, <3>1, <3>2, <3>3, <3>4, <3>5 DEF CallOK, Decided, HasWorktree
  <2> QED
    BY <2>1, <2>2
<1> QED
  BY <1>1, <1>2, <1>3, <1>4, <1>5, <1>6, <1>7 DEF IInv

\* The caller whose candidate has a worktree is not the one creating it.
LEMMA NotInCreation ==
    ASSUME IInv, NEW c \in Candidate, HasWorktree(c), NEW q \in Caller,
           call[q].at \in CreateSteps
    PROVE  call[q].cand # c /\ call[q].cand \in Candidate /\ head[call[q].cand] = NoCommit
BY DEF IInv, CallOK, HasWorktree

LEMMA ExecutorEditsInv ==
    ASSUME IInv, NEW c \in Candidate, NEW content \in Content, ExecutorEdits(c, content)
    PROVE  IInv'
<1> USE DEF ExecutorEdits, objectVars, candidateRefs
<1>1. TypeOK'
  BY DEF IInv, TypeOK
<1>2. ObjectsOK' /\ CreationIsPrivate'
  BY DEF IInv, ObjectsOK, CreationIsPrivate
<1>3. \A d \in Candidate : head'[d] \in Opt(commits')
  BY DEF IInv, NamesOK
<1>4. \A d \in Candidate : HasWorktree(d)' => base[d] # NoCommit
  BY DEF IInv, Registered, HasWorktree
<1>5. \A q \in Caller : call[q].at \in CreateSteps => head'[call[q].cand] = NoCommit
  BY DEF IInv, CallOK, HasWorktree
<1> QED
  BY <1>1, <1>2, <1>3, <1>4, <1>5, RefsStay

LEMMA ExecutorCommitsInv ==
    ASSUME IInv, NEW c \in Candidate, ExecutorCommits(c)
    PROVE  IInv'
<1>1. PICK n \in Commit : MakeCommit(c, files[c], n)
  BY DEF ExecutorCommits
<1>2. HasWorktree(c) /\ files[c] \in Content \cup {NoContent} /\ head[c] \in Commit
  BY DEF ExecutorCommits, IInv, TypeOK, HasWorktree, Opt
<1>3. /\ ObjectsOK'
      /\ commits \subseteq commits' /\ n \in commits'
      /\ \A k \in commits : anc'[k] = anc[k]
      /\ head' = [head EXCEPT ![c] = n]
  BY <1>1, <1>2, MakeCommitOK
<1>4. TypeOK'
  <2>1. /\ commits' \in SUBSET Commit
        /\ tree' \in [Commit -> Content \cup {NoContent}]
        /\ parent' \in [Commit -> Opt(Commit)]
        /\ anc' \in [Commit -> SUBSET Commit]
        /\ head' \in [Candidate -> Opt(Commit)]
    BY <1>1, <1>2, MakeCommitTyped DEF IInv
  <2> QED
    BY <2>1 DEF ExecutorCommits, IInv, TypeOK, candidateRefs
<1>5. CreationIsPrivate'
  BY DEF ExecutorCommits, IInv, CreationIsPrivate
<1>6. \A d \in Candidate : head'[d] \in Opt(commits')
  BY <1>3 DEF IInv, NamesOK, TypeOK, Opt
<1>7. \A d \in Candidate : HasWorktree(d)' => base[d] # NoCommit
  BY <1>2, <1>3 DEF IInv, Registered, HasWorktree, TypeOK
<1>8. \A q \in Caller : call[q].at \in CreateSteps => head'[call[q].cand] = NoCommit
  BY <1>2, <1>3, NotInCreation DEF IInv, TypeOK
<1> QED
  BY <1>3, <1>4, <1>5, <1>6, <1>7, <1>8, RefsStay DEF ExecutorCommits

LEMMA ExecutorChecksOutInv ==
    ASSUME IInv, NEW c \in Candidate, NEW k \in Commit, ExecutorChecksOut(c, k)
    PROVE  IInv'
<1>1. HasWorktree(c) /\ k \in commits /\ head' = [head EXCEPT ![c] = k]
  BY DEF ExecutorChecksOut
<1>2. TypeOK'
  BY DEF ExecutorChecksOut, IInv, TypeOK, Opt, objectVars, candidateRefs
<1>3. ObjectsOK' /\ CreationIsPrivate'
  BY DEF ExecutorChecksOut, IInv, ObjectsOK, CreationIsPrivate, objectVars
<1>4. \A d \in Candidate : head'[d] \in Opt(commits')
  BY <1>1 DEF ExecutorChecksOut, IInv, NamesOK, TypeOK, Opt, objectVars
<1>5. \A d \in Candidate : HasWorktree(d)' => base[d] # NoCommit
  BY <1>1 DEF IInv, Registered, HasWorktree, TypeOK
<1>6. \A q \in Caller : call[q].at \in CreateSteps => head'[call[q].cand] = NoCommit
  BY <1>1, NotInCreation DEF IInv, TypeOK
<1> QED
  BY <1>2, <1>3, <1>4, <1>5, <1>6, RefsStay DEF ExecutorChecksOut, objectVars

LEMMA CheckpointAddInv ==
    ASSUME IInv, NEW p \in Caller, CheckpointAdd(p)
    PROVE  IInv'
<1> DEFINE c == call[p].cand
<1>1. call[p].at = "checkpoint_add" /\ c \in Candidate /\ Goto(p, "checkpoint_commit")
  BY DEF CheckpointAdd, At, IInv, CallOK, LiveSteps
<1>2. /\ \A q \in Caller \ {p} : call'[q] = call[q]
      /\ call'[p].at = "checkpoint_commit" /\ call'[p].cand = c
      /\ call'[p].base = call[p].base /\ call'[p].commit = call[p].commit
      /\ call' \in [Caller -> Call]
  BY <1>1, GotoFrame, GotoTyped DEF IInv, TypeOK, Step
<1>3. TypeOK'
  BY <1>1, <1>2 DEF CheckpointAdd, IInv, TypeOK, objectVars, candidateRefs
<1>4. ObjectsOK'
  BY DEF CheckpointAdd, IInv, ObjectsOK, objectVars
<1>5. CreationIsPrivate'
  BY <1>1, <1>2 DEF IInv, CreationIsPrivate, CreateSteps, LiveSteps
<1>6. /\ \A d \in Candidate : head'[d] \in Opt(commits')
      /\ \A d \in Candidate : HasWorktree(d)' => base[d] # NoCommit
      /\ \A q \in Caller : call[q].at \in CreateSteps => head'[call[q].cand] = NoCommit
  BY DEF CheckpointAdd, IInv, NamesOK, Registered, CallOK, HasWorktree, objectVars
<1>7. CallOK(p)'
  BY <1>1, <1>2 DEF CheckpointAdd, IInv, CallOK, CreateSteps, LiveSteps, PromoteSteps,
     objectVars, candidateRefs
<1> QED
  BY <1>2, <1>3, <1>4, <1>5, <1>6, <1>7, RefsStay DEF CheckpointAdd, objectVars

LEMMA CheckpointCommitInv ==
    ASSUME IInv, NEW p \in Caller, CheckpointCommit(p)
    PROVE  IInv'
<1> DEFINE c == call[p].cand
<1>1. call[p].at = "checkpoint_commit" /\ c \in Candidate /\ HasWorktree(c)
  BY DEF CheckpointCommit, At, IInv, CallOK, LiveSteps
<1>2. CASE index[c] = tree[head[c]]
  BY <1>2, ReturnIsQuiet DEF CheckpointCommit, Outcome, worktreeVars
<1>3. CASE index[c] # tree[head[c]]
  <2>1. PICK n \in Commit : MakeCommit(c, index[c], n)
    BY <1>3 DEF CheckpointCommit
  <2>2. Goto(p, "checkpoint_head")
    BY <1>3 DEF CheckpointCommit
  <2>3. index[c] \in Content \cup {NoContent} /\ head[c] \in Commit
    BY <1>1 DEF IInv, TypeOK, HasWorktree, Opt
  <2>4. /\ ObjectsOK'
        /\ commits \subseteq commits' /\ n \in commits'
        /\ \A k \in commits : anc'[k] = anc[k]
        /\ head' = [head EXCEPT ![c] = n]
    BY <1>1, <2>1, <2>3, MakeCommitOK
  <2>5. /\ \A q \in Caller \ {p} : call'[q] = call[q]
        /\ call'[p].at = "checkpoint_head" /\ call'[p].cand = c
        /\ call'[p].base = call[p].base /\ call'[p].commit = call[p].commit
        /\ call' \in [Caller -> Call]
    BY <2>2, GotoFrame, GotoTyped DEF IInv, TypeOK, Step
  <2>6. TypeOK'
    <3>1. /\ commits' \in SUBSET Commit
          /\ tree' \in [Commit -> Content \cup {NoContent}]
          /\ parent' \in [Commit -> Opt(Commit)]
          /\ anc' \in [Commit -> SUBSET Commit]
          /\ head' \in [Candidate -> Opt(Commit)]
      BY <1>1, <2>1, <2>3, MakeCommitTyped DEF IInv
    <3> QED
      BY <2>5, <3>1 DEF CheckpointCommit, IInv, TypeOK, candidateRefs
  <2>7. CreationIsPrivate'
    BY <1>1, <2>5 DEF IInv, CreationIsPrivate, CreateSteps, LiveSteps
  <2>8. \A d \in Candidate : head'[d] \in Opt(commits')
    BY <2>4 DEF IInv, NamesOK, TypeOK, Opt
  <2>9. \A d \in Candidate : HasWorktree(d)' => base[d] # NoCommit
    BY <1>1, <2>4 DEF IInv, Registered, HasWorktree, TypeOK
  <2>10. \A q \in Caller : call[q].at \in CreateSteps => head'[call[q].cand] = NoCommit
    BY <1>1, <2>4, NotInCreation DEF IInv, TypeOK
  <2>11. CallOK(p)'
    BY <1>1, <2>4, <2>5 DEF CheckpointCommit, IInv, CallOK, Opt, CreateSteps, LiveSteps,
       PromoteSteps, candidateRefs
  <2> QED
    BY <2>4, <2>5, <2>6, <2>7, <2>8, <2>9, <2>10, <2>11, RefsStay DEF CheckpointCommit
<1> QED
  BY <1>2, <1>3

LEMMA CleanupRemoveInv ==
    ASSUME IInv, NEW p \in Caller, CleanupRemove(p)
    PROVE  IInv'
<1> DEFINE c == call[p].cand
<1>1. /\ call[p].at \in {"cleanup_remove", "cleanup_discard"} /\ c \in Candidate
      /\ Return(p, "idle") /\ head' = [head EXCEPT ![c] = NoCommit]
  BY DEF CleanupRemove, At, IInv, CallOK, LiveSteps
<1>2. /\ \A q \in Caller \ {p} : call'[q] = call[q]
      /\ call'[p].at = "idle"
      /\ call'[p].base \in {call[p].base, NoCommit}
      /\ call'[p].commit \in {call[p].commit, NoCommit}
      /\ call' \in [Caller -> Call]
  BY <1>1, ReturnFrame, ReturnTyped DEF IInv, TypeOK, Outcome
<1>3. TypeOK'
  BY <1>1, <1>2 DEF CleanupRemove, IInv, TypeOK, Opt, objectVars, candidateRefs
<1>4. ObjectsOK'
  BY DEF CleanupRemove, IInv, ObjectsOK, objectVars
<1>5. CreationIsPrivate'
  BY <1>2 DEF IInv, CreationIsPrivate, CreateSteps, LiveSteps
<1>6. /\ \A d \in Candidate : head'[d] \in Opt(commits')
      /\ \A d \in Candidate : HasWorktree(d)' => base[d] # NoCommit
  BY <1>1 DEF CleanupRemove, IInv, NamesOK, Registered, HasWorktree, TypeOK, Opt, objectVars
<1>7. \A q \in Caller : call[q].at \in CreateSteps => head'[call[q].cand] = NoCommit
  BY <1>1 DEF IInv, CallOK, HasWorktree, TypeOK
<1>8. CallOK(p)'
  BY <1>2 DEF CleanupRemove, IInv, CallOK, Opt, CreateSteps, LiveSteps, PromoteSteps, objectVars
<1> QED
  BY <1>2, <1>3, <1>4, <1>5, <1>6, <1>7, <1>8, RefsStay DEF CleanupRemove, objectVars

LEMMA CreateWorktreeInv ==
    ASSUME IInv, NEW p \in Caller, CreateWorktree(p)
    PROVE  IInv'
<1> DEFINE c == call[p].cand  b == call[p].base
<1>1. /\ call[p].at = "create_worktree" /\ c \in Candidate
      /\ b \in commits /\ b # NoCommit /\ base[c] = b
  BY DEF CreateWorktree, At, IInv, CallOK, CreateSteps, Opt
<1>2. CASE Goto(p, "create_rollback") /\ UNCHANGED worktreeVars
  <2>1. /\ \A q \in Caller \ {p} : call'[q] = call[q]
        /\ call'[p].at = "create_rollback" /\ call'[p].cand = c
        /\ call'[p].base = b /\ call'[p].commit = call[p].commit
        /\ call' \in [Caller -> Call]
    BY <1>2, GotoFrame, GotoTyped DEF IInv, TypeOK, Step
  <2>2. CallOK(p)'
    BY <1>1, <1>2, <2>1 DEF CreateWorktree, IInv, CallOK, CreateSteps, LiveSteps, PromoteSteps,
       Decided, HasWorktree, objectVars, candidateRefs, worktreeVars
  <2>3. PrivateTo(p)'
    BY <1>1, <2>1 DEF IInv, CreationIsPrivate, PrivateTo, CreateSteps, LiveSteps
  <2> QED
    BY <1>2, <2>1, <2>2, <2>3, OnlyCallMoves DEF CreateWorktree
<1>3. CASE /\ head' = [head EXCEPT ![c] = b]
           /\ index' = [index EXCEPT ![c] = tree[b]]
           /\ files' = [files EXCEPT ![c] = tree[b]]
           /\ Return(p, "idle")
  <2>1. /\ \A q \in Caller \ {p} : call'[q] = call[q]
        /\ call'[p].at = "idle"
        /\ call'[p].base \in {call[p].base, NoCommit}
        /\ call'[p].commit \in {call[p].commit, NoCommit}
        /\ call' \in [Caller -> Call]
    BY <1>3, ReturnFrame, ReturnTyped DEF IInv, TypeOK, Outcome
  <2>2. TypeOK'
    BY <1>1, <1>3, <2>1 DEF CreateWorktree, IInv, TypeOK, Opt, objectVars, candidateRefs
  <2>3. ObjectsOK'
    BY DEF CreateWorktree, IInv, ObjectsOK, objectVars
  <2>4. CreationIsPrivate'
    BY <2>1 DEF IInv, CreationIsPrivate, CreateSteps, LiveSteps
  <2>5. /\ \A d \in Candidate : head'[d] \in Opt(commits')
        /\ \A d \in Candidate : HasWorktree(d)' => base[d] # NoCommit
    BY <1>1, <1>3 DEF CreateWorktree, IInv, NamesOK, Registered, HasWorktree, TypeOK, Opt, objectVars
  <2>6. \A q \in Caller \ {p} : call[q].at \in CreateSteps => head'[call[q].cand] = NoCommit
    <3>1. \A q \in Caller \ {p} : call[q].at \in CreateSteps => call[q].cand # c
      BY <1>1 DEF IInv, CreationIsPrivate, CreateSteps
    <3> QED
      BY <1>3, <3>1 DEF IInv, CallOK, HasWorktree, TypeOK
  <2>7. CallOK(p)'
    BY <2>1 DEF CreateWorktree, IInv, CallOK, Opt, CreateSteps, LiveSteps, PromoteSteps, objectVars
  <2> QED
    BY <2>1, <2>2, <2>3, <2>4, <2>5, <2>6, <2>7, RefsStay DEF CreateWorktree, objectVars
<1> QED
  BY <1>2, <1>3 DEF CreateWorktree

-----------------------------------------------------------------------------
(*                  One lemma per action: the refs                         *)

\* Before the first accepted commit there is no candidate, so nothing in
\* flight depends on it.
LEMMA InitCasInv ==
    ASSUME IInv, NEW p \in Caller, InitCas(p)
    PROVE  IInv'
<1> DEFINE k == call[p].commit
<1>1. call[p].at = "init_cas" /\ k \in commits /\ k # NoCommit
  BY DEF InitCas, At, IInv, CallOK, Opt
<1>2. CASE Goto(p, "init_reread") /\ UNCHANGED accepted
  <2>1. /\ call'[p].at = "init_reread" /\ call'[p].base = call[p].base
        /\ call'[p].commit = call[p].commit
    BY <1>2, GotoFrame DEF IInv, TypeOK
  <2>2. UNCHANGED <<objectVars, accepted, candidateRefs, worktreeVars>>
    BY <1>2 DEF InitCas
  <2>3. CallOK(p)'
    BY <2>1, <2>2 DEF IInv, CallOK, CreateSteps, LiveSteps, PromoteSteps, objectVars
  <2> QED
    BY <1>2, <2>2, <2>3, GotoIsQuiet DEF Step, CreateSteps, LiveSteps
<1>3. CASE accepted = NoCommit /\ accepted' = k /\ Return(p, "initialized")
  <2> USE DEF objectVars, candidateRefs, worktreeVars
  <2>0. UNCHANGED <<objectVars, candidateRefs, worktreeVars>>
    BY DEF InitCas
  <2>1. /\ \A q \in Caller \ {p} : call'[q] = call[q]
        /\ call'[p].at = "initialized"
        /\ call'[p].base \in {call[p].base, NoCommit}
        /\ call'[p].commit \in {call[p].commit, NoCommit}
        /\ call' \in [Caller -> Call]
    BY <1>3, ReturnFrame, ReturnTyped DEF IInv, TypeOK, Outcome
  <2>2. \A c \in Candidate : base[c] = NoCommit /\ checkpoints[c] = {} /\ ~Decided(c)
    BY <1>3 DEF IInv, BaseWasAccepted, Registered
  <2>3. TypeOK'
    BY <1>1, <1>3, <2>0, <2>1 DEF IInv, TypeOK, Opt
  <2>4. ObjectsOK' /\ NamesOK' /\ Registered'
    BY <1>1, <1>3, <2>0 DEF IInv, ObjectsOK, NamesOK, Registered, Decided, HasWorktree, Opt
  <2>5. BaseWasAccepted' /\ DecidedOnce' /\ PromotedWasRecorded' /\ PromotedStaysInHistory'
    BY <2>0, <2>2 DEF BaseWasAccepted, DecidedOnce, PromotedWasRecorded, PromotedStaysInHistory,
       Decided
  <2>6. CreationIsPrivate'
    BY <2>1 DEF IInv, CreationIsPrivate, CreateSteps, LiveSteps
  <2>7. \A q \in Caller : call[q].at \notin CreateSteps \cup LiveSteps \cup PromoteSteps
                             \cup {"create_base", "stale_candidate"}
    BY <1>3, <2>2 DEF IInv, CallOK, PromoteSteps, LiveSteps
  <2>8. ASSUME NEW q \in Caller PROVE CallOK(q)'
    <3>1. CASE q = p
      BY <2>0, <2>1, <3>1 DEF IInv, CallOK, Opt, CreateSteps, LiveSteps, PromoteSteps
    <3>2. CASE q # p
      BY <2>0, <2>1, <2>7, <3>2 DEF IInv, CallOK, LiveSteps
    <3> QED
      BY <3>1, <3>2
  <2> QED
    BY <2>3, <2>4, <2>5, <2>6, <2>8 DEF IInv
<1> QED
  BY <1>2, <1>3 DEF InitCas

\* A fresh identity: nobody else is at work on the candidate.
LEMMA CreateBaseInv ==
    ASSUME IInv, NEW p \in Caller, NEW c \in Candidate, CreateBase(p, c)
    PROVE  IInv'
<1> DEFINE b == call[p].base
<1>1. /\ call[p].at = "create_base" /\ b \in commits /\ b # NoCommit
      /\ accepted # NoCommit /\ b \in anc[accepted] /\ b \in History
      /\ base[c] = NoCommit /\ ~HasWorktree(c)
  BY DEF CreateBase, At, IInv, CallOK, Opt
<1>2. CASE Return(p, "refused") /\ UNCHANGED base
  BY <1>2, ReturnIsQuiet DEF CreateBase, Outcome, candidateRefs
<1>3. CASE /\ base' = [base EXCEPT ![c] = b]
           /\ Begin(p, "create_worktree", c, b, NoCommit)
  <2> USE DEF objectVars, candidateRefs, worktreeVars
  <2>0. UNCHANGED <<objectVars, accepted, checkpoints, promoted, rejected, worktreeVars>>
    BY DEF CreateBase
  <2>1. /\ \A q \in Caller \ {p} : call'[q] = call[q]
        /\ call'[p] = [at |-> "create_worktree", cand |-> c, base |-> b,
                       commit |-> NoCommit, dirty |-> FALSE]
        /\ call' \in [Caller -> Call]
    <3>1. b \in Opt(Commit)
      BY <1>1 DEF IInv, TypeOK, Opt
    <3> QED
      BY <1>3, <3>1, BeginFrame, BeginTyped DEF IInv, TypeOK, Opt, Step
  <2>2. checkpoints[c] = {} /\ ~Decided(c)
    BY <1>1 DEF IInv, Registered
  <2>3. base'[c] = b /\ \A d \in Candidate \ {c} : base'[d] = base[d]
    BY <1>3 DEF IInv, TypeOK
  <2>4. History \subseteq History'
    BY <2>0, <2>2, <2>3 DEF History, Decided
  <2>5. TypeOK'
    BY <1>1, <1>3, <2>0, <2>1 DEF IInv, TypeOK, Opt
  <2>6. ObjectsOK' /\ NamesOK' /\ Registered'
    BY <1>1, <2>0, <2>3 DEF IInv, ObjectsOK, NamesOK, Registered, Decided, HasWorktree, Opt
  <2>7. BaseWasAccepted'
    BY <1>1, <2>0, <2>3, <2>4 DEF IInv, BaseWasAccepted
  <2>8. DecidedOnce' /\ PromotedWasRecorded'
    BY <2>0, <2>2, <2>3 DEF IInv, DecidedOnce, PromotedWasRecorded, IsAncestor
  <2>9. PromotedStaysInHistory'
    BY <2>0, <2>2, <2>3 DEF IInv, PromotedStaysInHistory, IsAncestor, Decided
  <2>10. \A q \in Caller : call[q].at \in CreateSteps \cup LiveSteps => call[q].cand # c
    BY <1>1 DEF IInv, CallOK
  <2>11. CreationIsPrivate'
    BY <2>1, <2>10 DEF IInv, CreationIsPrivate, CreateSteps, LiveSteps
  <2>12. ASSUME NEW q \in Caller PROVE CallOK(q)'
    <3>1. CASE q = p
      BY <1>1, <2>0, <2>1, <2>2, <2>3, <3>1 DEF CallOK, Decided, HasWorktree, Opt,
         CreateSteps, LiveSteps, PromoteSteps
    <3>2. CASE q # p
      BY <2>0, <2>1, <2>3, <2>4, <2>10, <3>2 DEF IInv, CallOK, Decided, HasWorktree
    <3> QED
      BY <3>1, <3>2
  <2> QED
    BY <2>5, <2>6, <2>7, <2>8, <2>9, <2>11, <2>12 DEF IInv
<1> QED
  BY <1>2, <1>3 DEF CreateBase

LEMMA CreateRollbackInv ==
    ASSUME IInv, NEW p \in Caller, CreateRollback(p)
    PROVE  IInv'
<1> DEFINE c == call[p].cand
<1>1. /\ call[p].at = "create_rollback" /\ c \in Candidate
      /\ checkpoints[c] = {} /\ ~Decided(c) /\ ~HasWorktree(c)
  BY DEF CreateRollback, At, IInv, CallOK, CreateSteps
<1>2. Return(p, "refused")
  BY DEF CreateRollback
<1>3. CASE UNCHANGED base
  BY <1>2, <1>3, ReturnIsQuiet DEF CreateRollback, Outcome, candidateRefs
<1>4. CASE base' = [base EXCEPT ![c] = NoCommit]
  <2> USE DEF objectVars, candidateRefs, worktreeVars
  <2>0. UNCHANGED <<objectVars, accepted, checkpoints, promoted, rejected, worktreeVars>>
    BY DEF CreateRollback
  <2>1. /\ \A q \in Caller \ {p} : call'[q] = call[q]
        /\ call'[p].at = "refused"
        /\ call'[p].base \in {call[p].base, NoCommit}
        /\ call'[p].commit \in {call[p].commit, NoCommit}
        /\ call' \in [Caller -> Call]
    BY <1>2, ReturnFrame, ReturnTyped DEF IInv, TypeOK, Outcome
  <2>2. base'[c] = NoCommit /\ \A d \in Candidate \ {c} : base'[d] = base[d]
    BY <1>1, <1>4 DEF IInv, TypeOK
  <2>3. History' = History
    BY <1>1, <2>0, <2>2 DEF History, Decided
  <2>4. TypeOK'
    BY <1>4, <2>0, <2>1 DEF IInv, TypeOK, Opt
  <2>5. ObjectsOK' /\ NamesOK' /\ Registered'
    BY <1>1, <2>0, <2>2 DEF IInv, ObjectsOK, NamesOK, Registered, Decided, HasWorktree, Opt
  <2>6. BaseWasAccepted' /\ DecidedOnce'
    BY <2>0, <2>2, <2>3 DEF IInv, BaseWasAccepted, DecidedOnce
  <2>7. PromotedWasRecorded' /\ PromotedStaysInHistory'
    BY <1>1, <2>0, <2>2 DEF IInv, PromotedWasRecorded, PromotedStaysInHistory, IsAncestor, Decided
  <2>8. \A q \in Caller \ {p} : call[q].at \in CreateSteps \cup LiveSteps => call[q].cand # c
    BY <1>1 DEF IInv, CreationIsPrivate, CreateSteps
  <2>9. CreationIsPrivate'
    BY <2>1 DEF IInv, CreationIsPrivate, CreateSteps, LiveSteps
  <2>10. ASSUME NEW q \in Caller PROVE CallOK(q)'
    <3>1. CASE q = p
      BY <2>0, <2>1, <3>1 DEF IInv, CallOK, Opt, CreateSteps, LiveSteps, PromoteSteps
    <3>2. CASE q # p
      BY <2>0, <2>1, <2>2, <2>3, <2>8, <3>2 DEF IInv, CallOK, Decided, HasWorktree
    <3> QED
      BY <3>1, <3>2
  <2> QED
    BY <2>4, <2>5, <2>6, <2>7, <2>9, <2>10 DEF IInv
<1> QED
  BY <1>3, <1>4 DEF CreateRollback

LEMMA CheckpointRecordInv ==
    ASSUME IInv, NEW p \in Caller, CheckpointRecord(p)
    PROVE  IInv'
<1> DEFINE c == call[p].cand  k == call[p].commit
<1>1. /\ call[p].at = "checkpoint_record" /\ c \in Candidate
      /\ k \in commits /\ base[c] # NoCommit /\ k # base[c] /\ base[c] \in anc[k]
  BY DEF CheckpointRecord, At, IInv, CallOK, LiveSteps, Opt
<1>2. CASE Return(p, "refused") /\ UNCHANGED checkpoints
  BY <1>2, ReturnIsQuiet DEF CheckpointRecord, Outcome, candidateRefs
<1>3. CASE /\ checkpoints' = [checkpoints EXCEPT ![c] = @ \cup {k}]
           /\ Return(p, "checkpointed")
  <2> USE DEF objectVars, candidateRefs, worktreeVars
  <2>0. UNCHANGED <<objectVars, accepted, base, promoted, rejected, worktreeVars>>
    BY DEF CheckpointRecord
  <2>1. /\ \A q \in Caller \ {p} : call'[q] = call[q]
        /\ call'[p].at = "checkpointed"
        /\ call'[p].base \in {call[p].base, NoCommit}
        /\ call'[p].commit = k
        /\ call' \in [Caller -> Call]
    BY <1>3, ReturnFrame, ReturnTyped DEF IInv, TypeOK, Outcome
  <2>2. /\ checkpoints'[c] = checkpoints[c] \cup {k}
        /\ \A d \in Candidate \ {c} : checkpoints'[d] = checkpoints[d]
    BY <1>1, <1>3 DEF IInv, TypeOK
  <2>3. TypeOK'
    BY <1>1, <1>3, <2>0, <2>1 DEF IInv, TypeOK, Opt
  <2>4. ObjectsOK' /\ NamesOK' /\ Registered'
    BY <1>1, <2>0, <2>2 DEF IInv, ObjectsOK, NamesOK, Registered, Decided, HasWorktree, Opt
  <2>5. BaseWasAccepted' /\ DecidedOnce' /\ PromotedStaysInHistory'
    BY <2>0 DEF IInv, BaseWasAccepted, DecidedOnce, PromotedStaysInHistory, History, IsAncestor
  <2>6. PromotedWasRecorded'
    BY <1>1, <2>0, <2>2 DEF IInv, PromotedWasRecorded, IsAncestor
  <2>7. CreationIsPrivate'
    BY <2>1 DEF IInv, CreationIsPrivate, CreateSteps, LiveSteps
  <2>8. \A q \in Caller : call[q].at \in CreateSteps => call[q].cand # c
    BY <1>1 DEF IInv, CreationIsPrivate, CreateSteps, LiveSteps
  <2>9. ASSUME NEW q \in Caller PROVE CallOK(q)'
    <3>1. CASE q = p
      BY <1>1, <2>0, <2>1, <3>1 DEF IInv, CallOK, Opt, CreateSteps, LiveSteps, PromoteSteps
    <3>2. CASE q # p
      <4>1. CallOK(q) /\ History' = History
        BY <2>0 DEF IInv, History
      <4>2. call[q].at \in PromoteSteps => call[q].cand \in Candidate
        BY <4>1 DEF CallOK, PromoteSteps, LiveSteps
      <4> QED
        BY <2>0, <2>1, <2>2, <2>8, <3>2, <4>1, <4>2 DEF CallOK, Decided, HasWorktree
    <3> QED
      BY <3>1, <3>2
  <2> QED
    BY <2>3, <2>4, <2>5, <2>6, <2>7, <2>9 DEF IInv
<1> QED
  BY <1>2, <1>3 DEF CheckpointRecord

LEMMA RejectRefsInv ==
    ASSUME IInv, NEW p \in Caller, RejectRefs(p)
    PROVE  IInv'
<1> DEFINE c == call[p].cand
           evidence == IF call[p].commit # NoCommit THEN call[p].commit ELSE call[p].base
<1>1. /\ call[p].at = "reject_refs" /\ c \in Candidate /\ base[c] # NoCommit
      /\ evidence \in commits
  BY DEF RejectRefs, At, IInv, CallOK, LiveSteps, Opt
<1>2. CASE Goto(p, "reject_refused") /\ UNCHANGED rejected
  BY <1>1, <1>2, GoOnIsQuiet DEF RejectRefs, LiveSteps, PromoteSteps, candidateRefs
<1>3. CASE /\ ~Decided(c)
           /\ rejected' = [rejected EXCEPT ![c] = evidence]
           /\ Return(p, "idle")
  <2> USE DEF objectVars, candidateRefs, worktreeVars
  <2>0. UNCHANGED <<objectVars, accepted, base, checkpoints, promoted, worktreeVars>>
    BY DEF RejectRefs
  <2>1. /\ \A q \in Caller \ {p} : call'[q] = call[q]
        /\ call'[p].at = "idle"
        /\ call'[p].base \in {call[p].base, NoCommit}
        /\ call'[p].commit \in {call[p].commit, NoCommit}
        /\ call' \in [Caller -> Call]
    BY <1>3, ReturnFrame, ReturnTyped DEF IInv, TypeOK, Outcome
  <2>2. \A d \in Candidate \ {c} : rejected'[d] = rejected[d]
    BY <1>3 DEF IInv, TypeOK
  <2>3. TypeOK'
    BY <1>1, <1>3, <2>0, <2>1 DEF IInv, TypeOK, Opt
  <2>4. ObjectsOK' /\ NamesOK' /\ Registered'
    BY <1>1, <2>0, <2>2 DEF IInv, ObjectsOK, NamesOK, Registered, Decided, HasWorktree
  <2>5. BaseWasAccepted' /\ PromotedWasRecorded' /\ PromotedStaysInHistory'
    BY <2>0 DEF IInv, BaseWasAccepted, PromotedWasRecorded, PromotedStaysInHistory, History,
       IsAncestor
  <2>6. DecidedOnce'
    BY <1>3, <2>0, <2>2 DEF IInv, DecidedOnce, Decided
  <2>7. CreationIsPrivate'
    BY <2>1 DEF IInv, CreationIsPrivate, CreateSteps, LiveSteps
  <2>8. \A q \in Caller : call[q].at \in CreateSteps => call[q].cand # c
    BY <1>1 DEF IInv, CreationIsPrivate, CreateSteps, LiveSteps
  <2>9. ASSUME NEW q \in Caller PROVE CallOK(q)'
    <3>1. CASE q = p
      BY <2>0, <2>1, <3>1 DEF IInv, CallOK, Opt, CreateSteps, LiveSteps, PromoteSteps
    <3>2. CASE q # p
      <4>1. CallOK(q) /\ History' = History
        BY <2>0 DEF IInv, History
      <4> QED
        BY <2>0, <2>1, <2>2, <2>8, <3>2, <4>1 DEF CallOK, Decided, HasWorktree
    <3> QED
      BY <3>1, <3>2
  <2> QED
    BY <2>3, <2>4, <2>5, <2>6, <2>7, <2>9 DEF IInv
<1> QED
  BY <1>2, <1>3 DEF RejectRefs

\* The one step that moves the accepted commit: from the candidate's base to a
\* proper descendant of it.
LEMMA PromoteRefsInv ==
    ASSUME IInv, NEW p \in Caller, PromoteRefs(p)
    PROVE  IInv'
<1> DEFINE c == call[p].cand  b == call[p].base  k == call[p].commit
<1>1. /\ call[p].at = "promote_refs" /\ c \in Candidate
      /\ b # NoCommit /\ base[c] = b /\ k \in checkpoints[c]
  BY DEF PromoteRefs, At, IInv, CallOK, LiveSteps, PromoteSteps
<1>2. CASE Goto(p, "promote_refused") /\ UNCHANGED <<accepted, promoted>>
  BY <1>1, <1>2, GoOnIsQuiet DEF PromoteRefs, LiveSteps, PromoteSteps, candidateRefs
<1>3. CASE /\ PromotePreconditions(c, b)
           /\ accepted' = k
           /\ promoted' = [promoted EXCEPT ![c] = k]
           /\ Return(p, "promoted")
  <2> USE DEF objectVars, candidateRefs, worktreeVars
  <2>0. UNCHANGED <<objectVars, base, checkpoints, rejected, worktreeVars>>
    BY DEF PromoteRefs
  <2>1. /\ \A q \in Caller \ {p} : call'[q] = call[q]
        /\ call'[p].at = "promoted"
        /\ call'[p].base \in {call[p].base, NoCommit}
        /\ call'[p].commit \in {call[p].commit, NoCommit}
        /\ call' \in [Caller -> Call]
    BY <1>3, ReturnFrame, ReturnTyped DEF IInv, TypeOK, Outcome
  <2>2. accepted = b /\ ~Decided(c) /\ rejected[c] = NoCommit
    BY <1>3 DEF PromotePreconditions, Decided
  <2>3. b \in commits /\ k \in commits /\ b # k /\ b \in anc[k] /\ k # NoCommit
    BY <1>1 DEF IInv, NamesOK, PromotedWasRecorded, IsAncestor, Opt, TypeOK
  <2>4. anc[b] \subseteq anc[k] /\ k \notin anc[b] /\ k \in anc[k] /\ b \in anc[b]
    BY <2>3 DEF IInv, ObjectsOK
  <2>5. promoted'[c] = k /\ \A d \in Candidate \ {c} : promoted'[d] = promoted[d]
    BY <1>1, <1>3 DEF IInv, TypeOK
  <2>6. History \subseteq History'
    BY <1>1, <2>0, <2>2, <2>3, <2>5 DEF History, Decided
  <2>7. TypeOK'
    BY <1>3, <2>0, <2>1, <2>3 DEF IInv, TypeOK, Opt
  <2>8. ObjectsOK' /\ NamesOK' /\ Registered'
    BY <1>1, <1>3, <2>0, <2>3, <2>5 DEF IInv, ObjectsOK, NamesOK, Registered, Decided,
       HasWorktree, Opt
  <2>9. BaseWasAccepted'
    BY <1>3, <2>0, <2>2, <2>3, <2>4, <2>6 DEF IInv, BaseWasAccepted
  <2>10. DecidedOnce' /\ PromotedWasRecorded'
    BY <1>1, <2>0, <2>2, <2>5 DEF IInv, DecidedOnce, PromotedWasRecorded, IsAncestor
  <2>11. \A d \in Candidate \ {c} : promoted[d] # NoCommit => base[d] # b
    <3> SUFFICES ASSUME NEW d \in Candidate \ {c}, promoted[d] # NoCommit, base[d] = b
                 PROVE  FALSE
      OBVIOUS
    <3>1. promoted[d] \in checkpoints[d] /\ promoted[d] # b /\ b \in anc[promoted[d]]
      BY DEF IInv, PromotedWasRecorded, IsAncestor
    <3>2. promoted[d] \in anc[b]
      BY <2>2 DEF IInv, PromotedStaysInHistory, IsAncestor
    <3> QED
      BY <2>3, <3>1, <3>2 DEF IInv, ObjectsOK
  <2>12. PromotedStaysInHistory'
    BY <1>1, <1>3, <2>0, <2>2, <2>3, <2>4, <2>5, <2>11
    DEF IInv, PromotedStaysInHistory, IsAncestor
  <2>13. CreationIsPrivate'
    BY <2>1 DEF IInv, CreationIsPrivate, CreateSteps, LiveSteps
  <2>14. \A q \in Caller : call[q].at \in CreateSteps => call[q].cand # c
    BY <1>1 DEF IInv, CreationIsPrivate, CreateSteps, LiveSteps
  <2>15. ASSUME NEW q \in Caller PROVE CallOK(q)'
    <3>1. CASE q = p
      BY <2>0, <2>1, <3>1 DEF IInv, CallOK, Opt, CreateSteps, LiveSteps, PromoteSteps
    <3>2. CASE q # p
      BY <1>3, <2>0, <2>1, <2>2, <2>3, <2>4, <2>5, <2>6, <2>14, <3>2, SMTT(30)
      DEF IInv, CallOK, Decided, HasWorktree
    <3> QED
      BY <3>1, <3>2
  <2> QED
    BY <2>7, <2>8, <2>9, <2>10, <2>12, <2>13, <2>15 DEF IInv
<1> QED
  BY <1>2, <1>3 DEF PromoteRefs

-----------------------------------------------------------------------------
(*                              Theorems                                   *)

LEMMA InitInv == Init => IInv
<1> SUFFICES ASSUME Init PROVE IInv
  OBVIOUS
<1> USE DEF Init
<1>1. TypeOK
  BY DEF TypeOK, Opt, Call, NoCall, Outcome
<1>2. ObjectsOK /\ NamesOK /\ Registered /\ BaseWasAccepted
  BY DEF ObjectsOK, NamesOK, Registered, BaseWasAccepted, Decided, HasWorktree, Opt
<1>3. DecidedOnce /\ PromotedWasRecorded /\ PromotedStaysInHistory
  BY DEF DecidedOnce, PromotedWasRecorded, PromotedStaysInHistory
<1>4. CreationIsPrivate /\ \A p \in Caller : CallOK(p)
  BY DEF CreationIsPrivate, CallOK, NoCall, Opt, CreateSteps, LiveSteps, PromoteSteps
<1> QED
  BY <1>1, <1>2, <1>3, <1>4 DEF IInv

LEMMA BeginOperationInv ==
    ASSUME IInv, NEW p \in Caller, BeginOperation(p)
    PROVE  IInv'
BY BeginInitializeInv, BeginCreateInv, BeginCheckpointInv, BeginPromoteInv,
   BeginRejectInv, BeginCleanupInv DEF BeginOperation

LEMMA ContinueOperationInv ==
    ASSUME IInv, NEW p \in Caller, ContinueOperation(p)
    PROVE  IInv'
BY InitCasInv, InitRereadInv, CreateBaseInv, CreateWorktreeInv, CreateRollbackInv,
   CheckpointStatusInv, CheckpointAddInv, CheckpointCommitInv, CheckpointHeadInv,
   CheckpointRecordedInv, CheckpointRecordInv, PromoteAcceptedInv, PromoteRefsInv,
   PromoteRefusedInv, PromoteRereadInv, RejectRefsInv, RejectRefusedInv,
   CleanupStatusInv, CleanupRemoveInv, WorktreeGoneInv DEF ContinueOperation

LEMMA StutterInv == IInv /\ UNCHANGED vars => IInv'
<1> SUFFICES ASSUME IInv, UNCHANGED vars PROVE IInv'
  OBVIOUS
<1> USE DEF vars, objectVars, candidateRefs, worktreeVars
<1>1. TypeOK' /\ ObjectsOK' /\ NamesOK' /\ Registered' /\ BaseWasAccepted'
  BY DEF IInv, TypeOK, ObjectsOK, NamesOK, Registered, BaseWasAccepted, Decided,
     HasWorktree, History
<1>2. DecidedOnce' /\ PromotedWasRecorded' /\ PromotedStaysInHistory' /\ CreationIsPrivate'
  BY DEF IInv, DecidedOnce, PromotedWasRecorded, PromotedStaysInHistory, IsAncestor,
     CreationIsPrivate
<1>3. \A p \in Caller : CallOK(p)'
  BY DEF IInv, CallOK, Decided, HasWorktree, History
<1> QED
  BY <1>1, <1>2, <1>3 DEF IInv

LEMMA StepInv == IInv /\ [Next]_vars => IInv'
<1> SUFFICES ASSUME IInv, [Next]_vars PROVE IInv'
  OBVIOUS
<1>1. ASSUME NEW p \in Caller, BeginOperation(p) \/ ContinueOperation(p) \/ Drop(p)
      PROVE  IInv'
  BY <1>1, BeginOperationInv, ContinueOperationInv, DropInv
<1>2. CASE ExecutorStep
  BY <1>2, ExecutorEditsInv, ExecutorCommitsInv, ExecutorChecksOutInv DEF ExecutorStep
<1>3. CASE UNCHANGED vars
  BY <1>3, StutterInv
<1> QED
  BY <1>1, <1>2, <1>3 DEF Next

\* However the callers' Git commands interleave, the inductive invariant holds.
THEOREM Invariance == Spec => []IInv
BY InitInv, StepInv, PTL DEF Spec

\* Every variable keeps its type.
THEOREM TypeCorrectness == Spec => []TypeOK
<1>1. IInv => TypeOK
  BY DEF IInv
<1> QED
  BY <1>1, Invariance, PTL

\* A promote and a reject racing for one candidate never both decide it.
THEOREM OneDecision == Spec => []DecidedOnce
<1>1. IInv => DecidedOnce
  BY DEF IInv
<1> QED
  BY <1>1, Invariance, PTL

\* Only a recorded checkpoint, a proper descendant of the base, is promoted.
THEOREM OnlyRecordedIsPromoted == Spec => []PromotedWasRecorded
<1>1. IInv => PromotedWasRecorded
  BY DEF IInv
<1> QED
  BY <1>1, Invariance, PTL

\* No promoted state is lost, and no two promotions began from one base.
THEOREM NoLostUpdate == Spec => []PromotedStaysInHistory
<1>1. IInv => PromotedStaysInHistory
  BY DEF IInv
<1> QED
  BY <1>1, Invariance, PTL

\* Once stale, always stale: StaleCandidateError can be relied on forever.
THEOREM StaleForever == Spec => []StaleIsFinal
<1>1. IInv => StaleIsFinal
  <2> SUFFICES ASSUME IInv, NEW p \in Caller, At(p, "stale_candidate")
               PROVE  accepted # call[p].base
    BY DEF StaleIsFinal
  <2> QED
    BY DEF IInv, CallOK, At
<1> QED
  BY <1>1, Invariance, PTL

-----------------------------------------------------------------------------
(*                 Which steps move a ref, and how                         *)

MovesRefs(p) ==
    \/ InitCas(p)
    \/ \E c \in Candidate : CreateBase(p, c)
    \/ CreateRollback(p)
    \/ CheckpointRecord(p)
    \/ PromoteRefs(p)
    \/ RejectRefs(p)

LEMMA OnlySixStepsMoveRefs ==
    ASSUME [Next]_vars
    PROVE  UNCHANGED <<accepted, candidateRefs>> \/ \E p \in Caller : MovesRefs(p)
<1>1. ASSUME NEW p \in Caller, BeginOperation(p)
      PROVE  UNCHANGED <<accepted, candidateRefs>>
  BY <1>1 DEF BeginOperation, BeginInitialize, BeginCreate, BeginCheckpoint, BeginPromote,
     BeginReject, BeginCleanup
<1>2. ASSUME NEW p \in Caller, ContinueOperation(p)
      PROVE  UNCHANGED <<accepted, candidateRefs>> \/ MovesRefs(p)
  BY <1>2 DEF ContinueOperation, MovesRefs, InitReread, CreateWorktree, CheckpointStatus,
     CheckpointAdd, CheckpointCommit, CheckpointHead, CheckpointRecorded, PromoteAccepted,
     PromoteRefused, PromoteReread, RejectRefused, CleanupStatus, CleanupRemove, WorktreeGone
<1>3. ASSUME NEW p \in Caller, Drop(p)
      PROVE  UNCHANGED <<accepted, candidateRefs>>
  BY <1>3 DEF Drop
<1>4. CASE ExecutorStep
  BY <1>4 DEF ExecutorStep, ExecutorEdits, ExecutorCommits, ExecutorChecksOut
<1> QED
  BY <1>1, <1>2, <1>3, <1>4 DEF Next, vars

\* What holds when the promotion transaction commits.
LEMMA PromotionFacts ==
    ASSUME IInv, NEW p \in Caller, PromoteRefs(p), accepted' # accepted \/ promoted' # promoted
    PROVE  LET c == call[p].cand  b == call[p].base  k == call[p].commit IN
           /\ c \in Candidate /\ base[c] = b /\ accepted = b /\ ~Decided(c)
           /\ b \in commits /\ k \in commits
           /\ k \in checkpoints[c] /\ k # b /\ b \in anc[k] /\ k \notin anc[b]
           /\ accepted' = k /\ promoted' = [promoted EXCEPT ![c] = k]
           /\ UNCHANGED <<base, checkpoints, rejected>>
<1> DEFINE c == call[p].cand  b == call[p].base  k == call[p].commit
<1>1. /\ c \in Candidate /\ b # NoCommit /\ base[c] = b /\ k \in checkpoints[c]
  BY DEF PromoteRefs, At, IInv, CallOK, LiveSteps, PromoteSteps
<1>2. /\ PromotePreconditions(c, b) /\ accepted' = k
      /\ promoted' = [promoted EXCEPT ![c] = k]
      /\ UNCHANGED <<base, checkpoints, rejected>>
  BY DEF PromoteRefs
<1>3. b \in commits /\ k \in commits /\ k # b /\ b \in anc[k]
  BY <1>1 DEF IInv, NamesOK, PromotedWasRecorded, IsAncestor, Opt
<1>4. k \notin anc[b]
  BY <1>3 DEF IInv, ObjectsOK
<1> QED
  BY <1>1, <1>2, <1>3, <1>4 DEF PromotePreconditions, Decided

\* Every accepted move is a fast-forward that decides one open candidate.
THEOREM FastForwardsOnly == Spec => AcceptedOnlyFastForwards
<1>1. ASSUME IInv, [Next]_vars PROVE [AcceptedStep]_vars
  <2> SUFFICES ASSUME accepted' # accepted, accepted # NoCommit PROVE AcceptedStep
    BY DEF AcceptedStep
  <2>1. PICK p \in Caller : MovesRefs(p)
    BY <1>1, OnlySixStepsMoveRefs
  <2>2. PromoteRefs(p)
    BY <2>1 DEF MovesRefs, InitCas, CreateBase, CreateRollback, CheckpointRecord, RejectRefs
  <2> DEFINE c == call[p].cand  k == call[p].commit
  <2>3. /\ c \in Candidate /\ base[c] = accepted /\ ~Decided(c)
        /\ k \in commits /\ k \in checkpoints[c] /\ accepted \in anc[k]
        /\ accepted' = k /\ promoted' = [promoted EXCEPT ![c] = k]
        /\ UNCHANGED <<base, checkpoints, rejected>> /\ UNCHANGED objectVars
    BY <1>1, <2>2, PromotionFacts DEF PromoteRefs
  <2>4. k # NoCommit
    BY <1>1, <2>3 DEF IInv, TypeOK
  <2> QED
    BY <2>3, <2>4 DEF AcceptedStep, IsAncestor, objectVars
<1> QED
  BY <1>1, Invariance, PTL DEF Spec, AcceptedOnlyFastForwards

\* No evidence ref is deleted or moved by any operation.
THEOREM EvidenceForever == Spec => EvidenceIsKept
<1>1. ASSUME IInv, [Next]_vars PROVE [EvidenceStep]_vars
  <2>1. CASE UNCHANGED <<accepted, candidateRefs>>
    BY <2>1 DEF EvidenceStep, candidateRefs
  <2>2. ASSUME NEW p \in Caller, InitCas(p) PROVE EvidenceStep
    BY <2>2 DEF InitCas, EvidenceStep, candidateRefs
  <2>3. ASSUME NEW p \in Caller, NEW c \in Candidate, CreateBase(p, c) PROVE EvidenceStep
    BY <1>1, <2>3 DEF CreateBase, EvidenceStep, IInv, TypeOK
  <2>4. ASSUME NEW p \in Caller, CreateRollback(p) PROVE EvidenceStep
    <3>1. LET c == call[p].cand IN
          c \in Candidate /\ checkpoints[c] = {} /\ ~Decided(c) /\ ~HasWorktree(c)
      BY <1>1, <2>4 DEF CreateRollback, At, IInv, CallOK, CreateSteps
    <3> QED
      BY <1>1, <2>4, <3>1 DEF CreateRollback, EvidenceStep, IInv, TypeOK
  <2>5. ASSUME NEW p \in Caller, CheckpointRecord(p) PROVE EvidenceStep
    BY <1>1, <2>5 DEF CheckpointRecord, EvidenceStep, IInv, TypeOK
  <2>6. ASSUME NEW p \in Caller, PromoteRefs(p) PROVE EvidenceStep
    BY <1>1, <2>6 DEF PromoteRefs, PromotePreconditions, EvidenceStep, IInv, TypeOK
  <2>7. ASSUME NEW p \in Caller, RejectRefs(p) PROVE EvidenceStep
    BY <1>1, <2>7 DEF RejectRefs, Decided, EvidenceStep, IInv, TypeOK
  <2> QED
    BY <1>1, <2>1, <2>2, <2>3, <2>4, <2>5, <2>6, <2>7, OnlySixStepsMoveRefs DEF MovesRefs
<1> QED
  BY <1>1, Invariance, PTL DEF Spec, EvidenceIsKept

-----------------------------------------------------------------------------
(*               The broker implements the atomic promise                  *)

Decision ==
    [c \in Candidate |-> IF promoted[c] # NoCommit THEN "promoted"
                         ELSE IF rejected[c] # NoCommit THEN "rejected"
                         ELSE "open"]

\* Everything that was ever accepted is an ancestor of what is.
LEMMA HistoryIsAncestry ==
    ASSUME IInv, NEW k \in History
    PROVE  accepted # NoCommit /\ k \in anc[accepted]
<1>1. CASE k = accepted
  BY <1>1 DEF IInv, ObjectsOK, NamesOK, History, Opt
<1>2. CASE \E c \in Candidate : promoted[c] # NoCommit /\ k \in {base[c], promoted[c]}
  <2>1. PICK c \in Candidate : promoted[c] # NoCommit /\ k \in {base[c], promoted[c]}
    BY <1>2
  <2>2. base[c] # NoCommit
    BY <2>1 DEF IInv, Registered, Decided
  <2> QED
    BY <2>1, <2>2 DEF IInv, BaseWasAccepted, PromotedStaysInHistory, IsAncestor
<1> QED
  BY <1>1, <1>2 DEF History

LEMMA InitCasImplements ==
    ASSUME IInv, NEW p \in Caller, InitCas(p)
    PROVE  [Promise!Next]_(Promise!abstractVars)
<1> DEFINE k == call[p].commit
<1>1. k \in Commit
  BY DEF InitCas, At, IInv, TypeOK, CallOK, Opt
<1>2. CASE UNCHANGED accepted
  BY <1>2 DEF InitCas, candidateRefs, Promise!abstractVars, History
<1>3. CASE accepted = NoCommit /\ accepted' = k
  <2>1. \A c \in Candidate : promoted[c] = NoCommit
    BY <1>3 DEF IInv, PromotedStaysInHistory
  <2>2. History' = {k}
    BY <1>1, <1>3, <2>1 DEF InitCas, candidateRefs, History
  <2>3. Promise!Initialize(k)
    BY <1>3, <2>2 DEF InitCas, candidateRefs, Promise!Initialize
  <2> QED
    BY <1>1, <2>3 DEF Promise!Next
<1> QED
  BY <1>2, <1>3 DEF InitCas

LEMMA CreateBaseImplements ==
    ASSUME IInv, NEW p \in Caller, NEW c \in Candidate, CreateBase(p, c)
    PROVE  [Promise!Next]_(Promise!abstractVars)
<1> DEFINE b == call[p].base
<1>1. b \in Commit /\ b \in History /\ base[c] = NoCommit
  BY DEF CreateBase, At, IInv, TypeOK, CallOK, Opt
<1>2. CASE UNCHANGED base
  BY <1>2 DEF CreateBase, Promise!abstractVars, History
<1>3. CASE base' = [base EXCEPT ![c] = b]
  <2>1. promoted[c] = NoCommit
    BY <1>1 DEF IInv, Registered, Decided
  <2>2. \A d \in Candidate : promoted[d] # NoCommit => base'[d] = base[d]
    BY <1>3, <2>1 DEF IInv, TypeOK
  <2>3. History' = History
    BY <2>2 DEF CreateBase, History
  <2>4. Promise!Open(c, b)
    BY <1>1, <1>3, <2>3 DEF CreateBase, Promise!Open
  <2> QED
    BY <1>1, <2>4 DEF Promise!Next
<1> QED
  BY <1>2, <1>3 DEF CreateBase

LEMMA CreateRollbackImplements ==
    ASSUME IInv, NEW p \in Caller, CreateRollback(p)
    PROVE  [Promise!Next]_(Promise!abstractVars)
<1> DEFINE c == call[p].cand
<1>1. c \in Candidate /\ promoted[c] = NoCommit /\ rejected[c] = NoCommit
  BY DEF CreateRollback, At, IInv, CallOK, CreateSteps, Decided
<1>2. CASE UNCHANGED base
  BY <1>2 DEF CreateRollback, Promise!abstractVars, History
<1>3. CASE base' = [base EXCEPT ![c] = NoCommit]
  <2>1. \A d \in Candidate : promoted[d] # NoCommit => base'[d] = base[d]
    BY <1>1, <1>3 DEF IInv, TypeOK
  <2>2. History' = History
    BY <2>1 DEF CreateRollback, History
  <2>3. Promise!Withdraw(c)
    BY <1>1, <1>3, <2>2 DEF CreateRollback, Promise!Withdraw
  <2> QED
    BY <1>1, <2>3 DEF Promise!Next
<1> QED
  BY <1>2, <1>3 DEF CreateRollback

LEMMA RejectRefsImplements ==
    ASSUME IInv, NEW p \in Caller, RejectRefs(p)
    PROVE  [Promise!Next]_(Promise!abstractVars)
<1> DEFINE c == call[p].cand
<1>1. c \in Candidate /\ base[c] # NoCommit
  BY DEF RejectRefs, At, IInv, CallOK, LiveSteps
<1>2. CASE UNCHANGED rejected
  BY <1>2 DEF RejectRefs, Promise!abstractVars, History
<1>3. CASE /\ ~Decided(c)
           /\ rejected' = [rejected EXCEPT ![c] = IF call[p].commit # NoCommit
                                                  THEN call[p].commit ELSE call[p].base]
  <2>1. rejected'[c] # NoCommit /\ \A d \in Candidate \ {c} : rejected'[d] = rejected[d]
    BY <1>1, <1>3 DEF RejectRefs, At, IInv, TypeOK, CallOK, LiveSteps
  <2>2. Decision' = [Decision EXCEPT ![c] = "rejected"]
    BY <1>1, <1>3, <2>1 DEF RejectRefs, Decision, Decided
  <2>3. History' = History /\ base[c] \in History
    BY <1>1 DEF RejectRefs, History, IInv, BaseWasAccepted
  <2>4. PICK d \in Candidate : d = c
    BY <1>1
  <2>5. Promise!Reject(d)
    BY <1>1, <1>3, <2>2, <2>3, <2>4 DEF RejectRefs, Promise!Reject, Decision, Decided
  <2> QED
    BY <2>5 DEF Promise!Next
<1> QED
  BY <1>2, <1>3 DEF RejectRefs

LEMMA PromoteRefsImplements ==
    ASSUME IInv, NEW p \in Caller, PromoteRefs(p)
    PROVE  [Promise!Next]_(Promise!abstractVars)
<1> DEFINE c == call[p].cand  b == call[p].base  k == call[p].commit
<1>1. CASE UNCHANGED <<accepted, promoted>>
  BY <1>1 DEF PromoteRefs, Promise!abstractVars, History
<1>2. CASE accepted' # accepted \/ promoted' # promoted
  <2>1. /\ c \in Candidate /\ base[c] = b /\ accepted = b /\ ~Decided(c)
        /\ b \in Commit /\ k \in Commit /\ k \notin anc[b]
        /\ accepted' = k /\ promoted' = [promoted EXCEPT ![c] = k]
        /\ UNCHANGED <<base, rejected>>
    BY <1>2, PromotionFacts DEF IInv, TypeOK
  <2>2. promoted'[c] = k /\ \A d \in Candidate \ {c} : promoted'[d] = promoted[d]
    BY <2>1 DEF IInv, TypeOK
  <2>3. k \notin History
    BY <2>1, HistoryIsAncestry
  <2>4. History' = History \cup {k}
    BY <2>1, <2>2 DEF History, Decided
  <2>5. Decision' = [Decision EXCEPT ![c] = "promoted"]
    BY <2>1, <2>2 DEF Decision
  <2>6. PICK d \in Candidate, j \in Commit : d = c /\ j = k
    BY <2>1
  <2>7. Promise!Promote(d, j)
    BY <2>1, <2>3, <2>4, <2>5, <2>6 DEF Promise!Promote, Decision, Decided
  <2> QED
    BY <2>7 DEF Promise!Next
<1> QED
  BY <1>1, <1>2 DEF PromoteRefs

\* Every behaviour of the broker, seen through the refs that remain, is a
\* behaviour of the atomic promise.
THEOREM Implementation == Spec => ImplementsPromise
<1>1. Init => Promise!Init
  BY DEF Init, Promise!Init, History
<1>2. ASSUME IInv, [Next]_vars PROVE [Promise!Next]_(Promise!abstractVars)
  <2>1. CASE UNCHANGED <<accepted, candidateRefs>>
    BY <2>1 DEF candidateRefs, Promise!abstractVars, History
  <2>2. ASSUME NEW p \in Caller, CheckpointRecord(p)
        PROVE  [Promise!Next]_(Promise!abstractVars)
    BY <2>2 DEF CheckpointRecord, Promise!abstractVars, History
  <2> QED
    BY <1>2, <2>1, <2>2, OnlySixStepsMoveRefs, InitCasImplements, CreateBaseImplements,
       CreateRollbackImplements, RejectRefsImplements, PromoteRefsImplements DEF MovesRefs
<1> QED
  BY <1>1, <1>2, Invariance, PTL DEF Spec, ImplementsPromise, Promise!Spec
=============================================================================
