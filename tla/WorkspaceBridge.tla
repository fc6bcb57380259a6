--------------------------- MODULE WorkspaceBridge ---------------------------
(***************************************************************************)
(* UHPWorkspaceBridge.run() (bridge/bridge.py, apply_delta() of            *)
(* bridge/bundle.py): the validated delta is applied to the candidate it   *)
(* came from, if the candidate still is what was sent.  Everything is      *)
(* planned first; then files are written and deleted one by one, under a   *)
(* journal that takes them back when one fails.  Nothing locks the         *)
(* candidate: others edit it between any two of these steps.               *)
(***************************************************************************)
EXTENDS WorkspaceTransport

VARIABLES
    todo,           \* what is left to apply: [changed, added, deleted]
    journal         \* backups, oldest first: [path, before]

syncVars == <<transportVars, todo, journal>>

NothingToDo == [changed |-> {}, added |-> {}, deleted |-> {}]

BridgeInit == TransportInit /\ todo = NothingToDo /\ journal = <<>>

SyncAt(step) == kind = "sync" /\ at = step
Calm == UNCHANGED <<sent, session, kind, status, own, edited, moved, edits>>

\* The outcome is settled before the candidate is looked at again.
FetchDelta ==
    /\ SyncAt("answered")
    /\ \E code \in FetchOutcomes :
          IF code = "valid" THEN at' = "validated" /\ UNCHANGED result ELSE Return(code)
    /\ Calm /\ UNCHANGED <<files, todo, journal, faults>>

\* check_candidate_unchanged()
CheckUnchanged ==
    /\ SyncAt("validated")
    /\ IF Select(files) = sent
       THEN at' = "checked" /\ UNCHANGED result
       ELSE Return("candidate_changed_during_execution")
    /\ Calm /\ UNCHANGED <<files, todo, journal, faults>>

\* Defect: the per-file check is left to the one before.
FitsUnchecked(a, added) == \A p \in added : files[p] = NoFile /\ ~Blocked(p, files)
\* Every path is safe to write, still as it was sent, and no addition is in the way.
Fits(a, added) ==
    /\ \A p \in a.changed \cup a.added \cup a.deleted : ~UnderFile(p, files)
    /\ \A p \in a.changed \cup a.deleted : files[p] = sent[p]
    /\ \A p \in added : files[p] = NoFile /\ ~Blocked(p, files)

\* Additions that the candidate's own rules ignore are left out, by the rules as
\* they are before the delta.
Plan ==
    LET added == artifact.added \ Ignored(files) IN
    /\ SyncAt("checked")
    /\ IF Fits(artifact, added)
       THEN /\ at' = "applying"
            /\ todo' = [changed |-> artifact.changed, added |-> added,
                        deleted |-> artifact.deleted]
            /\ UNCHANGED result
       ELSE Return("workspace_conflict") /\ UNCHANGED todo
    /\ Calm /\ UNCHANGED <<files, journal, faults>>

\* Changed files first, then added ones, deleted ones last.
Group == IF todo.changed # {} THEN "changed" ELSE IF todo.added # {} THEN "added" ELSE "deleted"
NewContent(p) == IF p \in artifact.deleted THEN NoFile ELSE artifact.body[p]

\* Defect: only what replaces a file is journalled.
LogReplaced(p) ==
    journal' = IF files[p] = NoFile THEN journal
               ELSE Append(journal, [path |-> p, before |-> files[p]])
LogBefore(p) == journal' = Append(journal, [path |-> p, before |-> files[p]])

\* _Journal.write() and delete(): whatever is there is backed up and replaced.
Apply(p) ==
    /\ SyncAt("applying")
    /\ p \in todo[Group]
    /\ p \in artifact.deleted => files[p] # NoFile
    /\ ~Blocked(p, files)
    /\ LogBefore(p)
    /\ files' = [files EXCEPT ![p] = NewContent(p)]
    /\ todo' = [todo EXCEPT ![Group] = @ \ {p}]
    /\ Calm /\ UNCHANGED <<at, result, faults>>

\* A write fails, or there is nothing to delete or no place to write to any more;
\* the step may be in the journal already, and a file deleted whose directory then
\* could not be.
ApplyFails(p) ==
    /\ SyncAt("applying")
    /\ p \in todo[Group]
    /\ IF Blocked(p, files) \/ (p \in artifact.deleted /\ files[p] = NoFile)
       THEN UNCHANGED faults ELSE Fault
    /\ \/ UNCHANGED <<journal, files>>
       \/ /\ p \in artifact.deleted => files[p] # NoFile
          /\ LogBefore(p)
          /\ files' \in {files} \cup
                {[files EXCEPT ![q] = NoFile] : q \in {p} \cap artifact.deleted}
    /\ at' = "rolling_back"
    /\ Calm /\ UNCHANGED <<todo, result>>

CanRestore(b) ==
    ~IsDirectory(b.path, files) /\ (UnderFile(b.path, files) => b.before = NoFile)
\* Backups return to their place, newest first; a file without one is removed.
RollBack ==
    LET last == journal[Len(journal)] IN
    /\ SyncAt("rolling_back") /\ journal # <<>>
    /\ CanRestore(last)
    /\ files' = [files EXCEPT ![last.path] = last.before]
    /\ journal' = SubSeq(journal, 1, Len(journal) - 1)
    /\ Calm /\ UNCHANGED <<at, result, todo, faults>>

RolledBack ==
    /\ SyncAt("rolling_back") /\ journal = <<>>
    /\ Return("apply_failed")
    /\ Calm /\ UNCHANGED <<files, todo, journal, faults>>

\* The rollback fails too: the first exception is raised with a note.
RollBackFails ==
    /\ SyncAt("rolling_back") /\ journal # <<>>
    /\ IF CanRestore(journal[Len(journal)]) THEN Fault ELSE UNCHANGED faults
    /\ Raise("inconsistent")
    /\ Calm /\ UNCHANGED <<files, todo, journal>>

\* The process is interrupted, or dies: nothing is taken back.
Interrupted ==
    /\ at \in {"applying", "rolling_back"}
    /\ Fault
    /\ Raise("interrupted")
    /\ Calm /\ UNCHANGED <<files, todo, journal>>

Applied ==
    /\ SyncAt("applying") /\ todo = NothingToDo
    /\ Return("synced")
    /\ Calm /\ UNCHANGED <<files, todo, journal, faults>>

ApplySteps ==
    \/ \E p \in Path : Apply(p) \/ ApplyFails(p)
    \/ RollBack \/ RolledBack \/ RollBackFails \/ Applied
SyncStep == FetchDelta \/ CheckUnchanged \/ Plan \/ ApplySteps

-----------------------------------------------------------------------------
(*                               Properties                                *)

\* ADR-017, failure atomicity: "in every case other than synced, the candidate is
\* unchanged": whatever step failed and however far the files had been written,
\* a call that returns without having synced has changed nothing.  Two cases are
\* apart: what somebody else touched after the plan, and a call that was
\* interrupted or whose rollback failed, which does not return.
RefusedMeansUntouched ==
    kind = "sync" /\ at = "done" /\ result # "synced" =>
       \A p \in Path : edited[p] # "planned" => files[p] = own[p]

\* A synced candidate holds the executor's whole result: every path that travels
\* is as it was in the session when the helper packed it, and what never travels
\* (ignored files, excluded directories) is the candidate's own, although the
\* delta only says what differed from a snapshot taken much earlier.
SyncedMeansWholeResult ==
    (result = "synced" /\ artifact \notin Foreign /\ edited[Rules] \in {"never", "early"}) =>
       \A p \in Path : edited[p] \notin {"checked", "planned"} =>
          files[p] = IF p \in Excluded \cup Ignored(own) THEN own[p] ELSE artifact.body[p]

\* ADR-017, candidate drift: a remote change never overwrites a newer local one, a
\* remote delete never removes it.  It holds for every change made before the
\* plan's own comparison, whether the drift check had already run or not, and in
\* every later state of the call, the half-applied and the rolled back ones included.
NewerLocalChangesSurvive ==
    kind = "sync" =>
       \A p \in Path :
          edited[p] \in {"early", "checked"} /\ own[p] # sent[p] => files[p] = own[p]

\* The bridge keeps off what is not the project: no archive, whoever wrote it,
\* changes an excluded path or one the candidate ignores, and the runtime's own
\* instruction file never becomes project content when the protocol was followed:
\* only where the project had such a file already, one that was edited since and is
\* put back by a rollback included.
OnlyProjectFilesChange ==
    kind = "sync" =>
       /\ \A p \in Excluded : files[p] = own[p]
       /\ edited[Rules] \in {"never", "early"} => \A p \in Ignored(own) : files[p] = own[p]
       /\ \A p \in RootDocs : proper /\ files[p] = Bootstrap => Bootstrap \in {own[p], sent[p]}

=============================================================================
