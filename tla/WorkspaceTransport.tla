------------------------- MODULE WorkspaceTransport -------------------------
(***************************************************************************)
(* What the workspace bridge and the audit share (bridge/bundle.py,        *)
(* bridge/remote_helper.py, bridge/bridge.py, uhp/client.py): a snapshot   *)
(* of a candidate is frozen and uploaded into one fresh session, an        *)
(* executor unpacks it, works and packs a delta, and the delta is fetched  *)
(* and validated as a whole.  The executor is free to do these things in   *)
(* any order, or not at all.  Meanwhile anybody else may edit the          *)
(* candidate, checkpoint it, or move the accepted commit.                  *)
(*                                                                         *)
(* A file's content stands for its bytes and its executable bit. Symbolic  *)
(* links, special files and unreadable names are one failure, `CannotSend`.*)
(***************************************************************************)
EXTENDS Runtime, Naturals, FiniteSets, Sequences

CONSTANTS
    Path, Content, NoFile,
    Bootstrap,      \* content of the instruction file the runtime writes itself
    RootDocs,       \* paths that may hold such a file: AGENTS.md, CLAUDE.md, ...
    Inside,         \* pairs <<p, d>>: path p is below path d
    Tracked,        \* paths in the candidate's Git index
    Excluded,       \* paths the helper never returns: .claude/, __pycache__/, ...
    Rules, Hides,   \* the .gitignore path, and the paths each content of it ignores
    StartTrees,     \* what the candidate may hold at first
    StartRemotes,   \* what a fresh session may hold when the executor starts
    Foreign,        \* archives under the output name that the helper did not write
    Kinds,          \* which calls are made: "sync", "audit"
    MaxEdits, MaxWork, MaxFaults    \* bounds of the instance

Files == [Path -> Content \cup {Bootstrap, NoFile}]
NoTree == [p \in Path |-> NoFile]
\* What the bundle format can say: which paths differ, and what they hold now.
Archive == [kind : {"delta", "error", "none"}, ours : BOOLEAN, body : Files,
            added : SUBSET Path, changed : SUBSET Path, deleted : SUBSET Path]
Present(t) == {p \in Path : t[p] # NoFile}
\* A file cannot lie inside another file.
Nested(ps) == \E p, d \in ps : <<p, d>> \in Inside
\* A path whose parent is a file; a path that is a directory; both cannot be written.
UnderFile(p, t) == \E q \in Present(t) : <<p, q>> \in Inside
IsDirectory(p, t) == \E q \in Present(t) : <<q, p>> \in Inside
Blocked(p, t) == UnderFile(p, t) \/ IsDirectory(p, t)

ASSUME TransportAssumption ==
    /\ RootDocs \cup Tracked \cup Excluded \cup {Rules} \subseteq Path
    /\ Inside \subseteq Path \X Path
    /\ Hides \in [Content -> SUBSET Path]
    /\ Bootstrap \notin Content /\ NoFile \notin Content \cup {Bootstrap}
    /\ StartTrees \cup StartRemotes \subseteq Files
    /\ \A t \in StartTrees \cup StartRemotes : ~Nested(Present(t))
    /\ Foreign \subseteq Archive
    /\ Kinds \subseteq {"sync", "audit"}

VARIABLES
    files,          \* the candidate's working tree
    own,            \* what it would be had the bridge never written to it
    edited,         \* the latest stage of the call at which each path was edited
    moved,          \* the same for the candidate's HEAD and the accepted commit
    kind, at,       \* the call, and the step it has reached
    sent,           \* the frozen snapshot
    remote,         \* the session's workspace
    unpacked,       \* whether the executor has unpacked the snapshot
    artifact,       \* the output archive in the session
    proper,         \* whether the helper wrote it, in a workspace it had unpacked
    status,         \* the runtime status the call was answered with
    result,         \* what the call returned
    work, edits, faults

candidate == <<files, own, edited, moved>>
session == <<remote, unpacked, artifact, proper, work>>
transportVars == <<candidate, kind, at, sent, session, status, result, edits, faults>>

Fault == faults < MaxFaults /\ faults' = faults + 1

Stage == IF at \in {"checked", "rechecked"} THEN "checked"
         ELSE IF at \in {"applying", "rolling_back", "reported"} THEN "planned"
         ELSE "early"

-----------------------------------------------------------------------------
(*                     Selection and the remote helper                     *)

\* git check-ignore: the rules as they are in the worktree; never a tracked path.
Ignored(t) == (IF t[Rules] \in Content THEN Hides[t[Rules]] ELSE {}) \ Tracked
\* select_files(): tracked and untracked files that are there, but no ignored one.
Select(t) == [p \in Path |-> IF p \in Ignored(t) THEN NoFile ELSE t[p]]

IsBootstrap(p, t) == p \in RootDocs /\ t[p] = Bootstrap
\* reconcile_bootstrap_docs() and the check of every file already there: what the
\* runtime wrote gives way, everything else must be the snapshot's own.
CanUnpack(t, s) ==
    /\ \A p \in Present(t) \ {q \in Path : IsBootstrap(q, t)} :
          /\ p \in RootDocs => t[p] = s[p]
          /\ s[p] # NoFile => t[p] = s[p]
    /\ ~Nested(Present(s) \cup {p \in Present(t) : ~IsBootstrap(p, t)})
\* Defect: the runtime's own file is left where the snapshot has none.
UnpackedBeside(t, s) == [p \in Path |-> IF s[p] # NoFile THEN s[p] ELSE t[p]]
Unpacked(t, s) ==
    [p \in Path |-> IF s[p] # NoFile THEN s[p] ELSE IF IsBootstrap(p, t) THEN NoFile ELSE t[p]]

\* scan(): what the helper sees of the workspace.
Scan(t) == Present(t) \ Excluded
\* Defect: a file that is gone is not a difference.
DeltaOfPresent(s, t) ==
    LET now == Scan(t) IN
    [ kind |-> "delta", ours |-> TRUE, body |-> t,
      added |-> now \ Present(s),
      changed |-> {p \in now \cap Present(s) : t[p] # s[p]},
      deleted |-> {} ]
\* _pack(): added, changed and deleted paths since the snapshot was sent.
Delta(s, t) ==
    LET now == Scan(t) IN
    [ kind |-> "delta", ours |-> TRUE, body |-> t,
      added |-> now \ Present(s),
      changed |-> {p \in now \cap Present(s) : t[p] # s[p]},
      deleted |-> Present(s) \ (now \cup Excluded) ]
\* OutputLimitExceeded: one small report instead of a delta.
LimitReport == [kind |-> "error", ours |-> TRUE, body |-> NoTree,
                added |-> {}, changed |-> {}, deleted |-> {}]
NoArtifact == [LimitReport EXCEPT !.kind = "none"]

\* The archive is well formed, and made for this run from this very snapshot.
Genuine(a) == a.kind \in {"delta", "error"} /\ a.ours
\* _check_paths(): each path once, none excluded, additions that were not sent and
\* other changes that were, and no file inside another file.
Valid(a, s) ==
    /\ Genuine(a) /\ a.kind = "delta"
    /\ (a.added \cup a.changed \cup a.deleted) \cap Excluded = {}
    /\ \A p \in Path : Cardinality({g \in {"added", "changed", "deleted"} : p \in a[g]}) <= 1
    /\ a.added \cap Present(s) = {}
    /\ a.changed \cup a.deleted \subseteq Present(s)
    /\ ~Nested((Present(s) \ a.deleted) \cup a.added \cup a.changed)

-----------------------------------------------------------------------------
(*                         The call and its session                        *)

TransportInit ==
    /\ files \in StartTrees
    /\ own = files
    /\ edited = [p \in Path |-> "never"]
    /\ moved = [head |-> "never", accepted |-> "never"]
    /\ kind \in Kinds
    /\ at = "new"
    /\ sent = NoTree
    /\ remote = NoTree /\ unpacked = FALSE /\ artifact = NoArtifact
    /\ proper = FALSE /\ work = 0
    /\ status = "none"
    /\ result = "none"
    /\ edits = 0 /\ faults = 0

Return(code) == at' = "done" /\ result' = code
\* An exception leaves the call: nothing is returned.
Raise(code) == at' = "raised" /\ result' = code

\* The candidate is inspected and must still begin from the accepted commit (asked
\* by the executor's adapter before a sync, by the audit itself); then it is frozen.
Freeze ==
    /\ at = "new"
    /\ IF moved.accepted = "never"
       THEN sent' = Select(files) /\ at' = "frozen" /\ UNCHANGED result
       ELSE Raise("candidate_stale") /\ UNCHANGED sent
    /\ UNCHANGED <<candidate, kind, session, status, edits, faults>>

\* A candidate that cannot be sent as it is, or a task that control's authorization
\* does not cover; before anything is uploaded.
CannotSend ==
    /\ at = "new"
    /\ Fault
    /\ Raise("not_sent")
    /\ UNCHANGED <<candidate, kind, sent, session, status, edits>>

\* Two uploads, then the one task. Either upload may fail.
Upload ==
    /\ at = "frozen"
    /\ at' = "running"
    /\ remote' \in StartRemotes
    /\ UNCHANGED <<candidate, kind, sent, unpacked, artifact, proper, work, status, result, edits, faults>>
UploadFails ==
    /\ at = "frozen"
    /\ Fault
    /\ Raise("workspace_upload_failed")
    /\ UNCHANGED <<candidate, kind, sent, session, status, edits>>

\* Steps of the executor in its session.
InSession == at = "running" /\ UNCHANGED <<candidate, kind, at, sent, status, result, edits, faults>>

Unpack ==
    /\ InSession
    /\ CanUnpack(remote, sent)
    /\ remote' = Unpacked(remote, sent)
    /\ unpacked' = TRUE
    /\ UNCHANGED <<artifact, proper, work>>

Work(p, v) ==
    /\ InSession
    /\ work < MaxWork /\ work' = work + 1
    /\ remote[p] # v /\ remote' = [remote EXCEPT ![p] = v]
    /\ ~Nested(Present(remote'))
    /\ UNCHANGED <<unpacked, artifact, proper>>

\* pack-delta, with or without unpack before it; or somebody writes that file.
Pack ==
    /\ InSession
    /\ \/ artifact' = Delta(sent, remote) /\ proper' = unpacked
       \/ artifact' \in {LimitReport} \cup Foreign /\ proper' = FALSE
    /\ artifact' # artifact
    /\ UNCHANGED <<remote, unpacked, work>>

Unobserved == {"unknown", "in_progress"}
NotCompleted == {"failed", "cancelled"}

\* One answer to the one request; afterwards the session is only listed and read.
Answer(answer) ==
    /\ at = "running"
    /\ status' = OutcomeOf(answer)
    /\ at' = "answered"
    /\ remote' = NoTree
    /\ UNCHANGED <<candidate, kind, sent, unpacked, artifact, proper, work, result, edits, faults>>

\* Defect: a task still in progress is waited for.
FetchWhenFinished ==
    CASE status = "in_progress" -> {}
      [] status \in {"unknown"} \cup NotCompleted -> {"runtime_not_completed"}
      [] OTHER -> {IF Valid(artifact, sent) THEN "valid" ELSE "invalid_bundle"}
\* The artifact is read only after a finished task: otherwise, or if it cannot be
\* had or is not valid, why.  A response may lack the session id; the listing or the
\* download may fail, or find several files of that name.
FetchOutcomes ==
    CASE status \in Unobserved -> {"runtime_state_unobserved"}
      [] status \in NotCompleted -> {"runtime_not_completed"}
      [] artifact.kind = "none" -> {"missing_session_id", "output_artifact_missing"}
      [] artifact.kind = "error" /\ Genuine(artifact) -> {"missing_session_id", "output_limit"}
      [] OTHER -> {"missing_session_id", "artifact_unavailable",
                   IF Valid(artifact, sent) THEN "valid" ELSE "invalid_bundle"}
Skipped == {"runtime_state_unobserved", "runtime_not_completed"}

-----------------------------------------------------------------------------
(*                         Everybody else, meanwhile                       *)

Edit(p, v) ==
    /\ at \notin {"new", "done", "raised"}
    /\ edits < MaxEdits /\ edits' = edits + 1
    /\ files[p] # v /\ files' = [files EXCEPT ![p] = v]
    /\ ~Nested(Present(files'))
    /\ own' = [own EXCEPT ![p] = v]
    /\ edited' = [edited EXCEPT ![p] = Stage]
    /\ UNCHANGED <<moved, kind, at, sent, session, status, result, faults>>

\* A checkpoint of this candidate, or a promotion of another one; once it is
\* frozen only an audit looks at these again.
RepositoryMoves(ref) ==
    /\ at \notin {"done", "raised"}
    /\ IF at = "new" THEN ref = "accepted" ELSE kind = "audit"
    /\ moved[ref] = "never"
    /\ edits < MaxEdits /\ edits' = edits + 1
    /\ moved' = [moved EXCEPT ![ref] = Stage]
    /\ UNCHANGED <<files, own, edited, kind, at, sent, session, status, result, faults>>

Others ==
    \/ \E p \in Path, v \in Content \cup {NoFile} : Edit(p, v)
    \/ \E ref \in {"head", "accepted"} : RepositoryMoves(ref)

TransportStep == Freeze \/ Upload \/ \E answer \in Answers : Answer(answer)
SessionStep == Unpack \/ Pack \/ \E p \in Path, v \in Content \cup {NoFile} : Work(p, v)
=============================================================================
