--------------------------- MODULE WorkspaceAudit ---------------------------
(***************************************************************************)
(* A read-only audit of a candidate (bridge/audit.py), how its auditor's   *)
(* adapter reports it (longhorizon/workspace_auditor.py), and the one      *)
(* verification Cloudeo makes of it (longhorizon/audit_result.py), which   *)
(* the promotion gate takes as its input.  The transport is the bridge's;  *)
(* nothing is ever applied: the delta only says whether the auditor wrote. *)
(* The auditor's text, and what LongHorizon's parser says of it, are       *)
(* inputs.                                                                 *)
(***************************************************************************)
EXTENDS WorkspaceBridge

CONSTANTS
    Reports,        \* what the auditor's visible text may be
    Repairs         \* what a format repair may have returned

ASSUME AuditAssumption ==
    /\ Reports \subseteq {"positive", "negative", "malformed", "missing", "ambiguous"}
    /\ Repairs \subseteq {"none", "unusable", "positive", "negative"}

VARIABLES
    evidence,       \* what the delta says: "unchanged", "mutated", "failed", "skipped"
    sameCandidate,  \* whether the candidate was found as it was frozen
    sameAccepted,   \* whether the accepted commit was found unmoved
    verdict         \* the normalized verification: [status, reason]

auditVars == <<evidence, sameCandidate, sameAccepted, verdict>>
vars == <<syncVars, auditVars>>

NoVerdict == [status |-> "none", reason |-> "none"]
Verdict == [status : {"VERIFIED", "NOT_VERIFIED", "BLOCKED", "AUDITOR_ERROR"}, reason : STRING]

Init ==
    /\ BridgeInit
    /\ evidence = "none" /\ sameCandidate = FALSE /\ sameAccepted = FALSE
    /\ verdict = NoVerdict

AuditAt(step) == kind = "audit" /\ at = step
Observed == UNCHANGED <<candidate, kind, sent, session, status, edits, faults, todo, journal>>

EvidenceIn(a) == IF a.added \cup a.changed \cup a.deleted = {} THEN "unchanged" ELSE "mutated"

\* Evidence only: the validated delta is looked at and discarded.
FetchEvidence ==
    /\ AuditAt("answered")
    /\ \E code \in FetchOutcomes :
          evidence' = IF code = "valid" THEN EvidenceIn(artifact)
                      ELSE IF code \in Skipped THEN "skipped" ELSE "failed"
    /\ at' = "observed"
    /\ Observed /\ UNCHANGED <<result, sameCandidate, sameAccepted, verdict>>

\* Defect: only HEAD is compared, which an edit leaves alone.
RecheckHead ==
    /\ AuditAt("observed")
    /\ sameCandidate' = (moved["head"] = "never")
    /\ at' = "rechecked"
    /\ Observed /\ UNCHANGED <<evidence, sameAccepted, verdict, result>>
\* The report is only valid for the state it inspected: the candidate's HEAD and
\* content first, then the accepted commit.
RecheckCandidate ==
    /\ AuditAt("observed")
    /\ sameCandidate' = (moved["head"] = "never" /\ Select(files) = sent)
    /\ at' = "rechecked"
    /\ Observed /\ UNCHANGED <<evidence, sameAccepted, verdict, result>>

RecheckAccepted ==
    /\ AuditAt("rechecked")
    /\ sameAccepted' = (moved["accepted"] = "never")
    /\ at' = "reported"
    /\ Observed /\ UNCHANGED <<evidence, sameCandidate, verdict, result>>

\* Every reason why the report cannot be attributed to a read-only audit.
Problems ==
    (IF sameAccepted THEN {} ELSE {"candidate_stale_during_audit"})
    \cup (IF sameCandidate THEN {} ELSE {"candidate_changed_during_audit"})
    \cup (IF evidence = "mutated" THEN {"auditor_workspace_mutation_detected"} ELSE {})
    \cup (IF evidence = "failed" THEN {"audit_evidence_invalid"} ELSE {})

\* A format repair recovers the report's syntax, never its authority.
OfReport(report, repair) ==
    CASE report = "missing" -> [status |-> "BLOCKED", reason |-> "report_missing"]
      [] report = "ambiguous" -> [status |-> "BLOCKED", reason |-> "report_source_ambiguous"]
      [] report = "malformed" /\ repair \in {"none", "unusable"} ->
            [status |-> "BLOCKED", reason |-> "report_malformed"]
      [] report = "malformed" /\ repair = "positive" ->
            [status |-> "NOT_VERIFIED", reason |-> "report_repaired_not_verification_authority"]
      [] report = "positive" -> [status |-> "VERIFIED", reason |-> "report_complete"]
      [] OTHER -> [status |-> "NOT_VERIFIED", reason |-> "report_not_complete"]

\* normalize_auditor_result(): what is known of the audit decides before its text.
Normalized(report, repair) ==
    CASE evidence = "mutated" ->
            [status |-> "BLOCKED", reason |-> "workspace_mutation_detected"]
      [] evidence # "mutated" /\ Problems # {} ->
            [status |-> "BLOCKED", reason |-> "audit_boundary_invalid"]
      [] Problems = {} /\ status # "completed" ->
            [status |-> "AUDITOR_ERROR", reason |-> "auditor_runtime_failure"]
      [] Problems = {} /\ status = "completed" /\ evidence # "unchanged" ->
            [status |-> "BLOCKED", reason |-> "read_only_evidence_missing"]
      [] OTHER -> OfReport(report, repair)

\* A completed audit with a problem hides its text from LongHorizon; the verdict
\* is reached from the episode's metadata either way.
Conclude ==
    /\ AuditAt("reported")
    /\ \E report \in Reports, repair \in Repairs : verdict' = Normalized(report, repair)
    /\ Return("audited")
    /\ Observed /\ UNCHANGED <<evidence, sameCandidate, sameAccepted>>

\* An audit that never started is an error of the auditor, or blocked.
NotStarted ==
    /\ AuditAt("raised") /\ verdict = NoVerdict
    /\ verdict' = IF result = "workspace_upload_failed"
                  THEN [status |-> "AUDITOR_ERROR", reason |-> "auditor_transport_failure"]
                  ELSE [status |-> "BLOCKED", reason |-> "audit_boundary_invalid"]
    /\ Observed /\ UNCHANGED <<at, result, evidence, sameCandidate, sameAccepted>>

Audit == FetchEvidence \/ RecheckCandidate \/ RecheckAccepted \/ Conclude \/ NotStarted

BridgePart ==
    \/ TransportStep \/ SessionStep \/ Others
    \/ CannotSend \/ UploadFails
Next ==
    \/ BridgePart /\ UNCHANGED <<todo, journal, auditVars>>
    \/ (SyncStep \/ Interrupted) /\ UNCHANGED auditVars
    \/ Audit

Spec == Init /\ [][Next]_vars

\* A call that waits for nobody goes on.  Nothing is assumed of the runtime: the
\* client sets no read timeout for a task without timeout_seconds, the default, so
\* that Answer may never come.  Nor of the executor, other editors, or failures.
CallProgress ==
    \/ (Freeze \/ Upload) /\ UNCHANGED <<todo, journal, auditVars>>
    \/ SyncStep /\ UNCHANGED auditVars
    \/ Audit
FairSpec == Spec /\ WF_vars(CallProgress)

-----------------------------------------------------------------------------
(*                               Properties                                *)

\* What the promotion gate relies on: a VERIFIED verdict comes from a finished
\* audit of a faithful copy.  The auditor's workspace held the frozen snapshot and
\* nothing else when it was packed; and the candidate and the accepted commit had
\* not been changed by the time each of them was looked at again.  Whatever came
\* later is the gate's to find.
VerifiedMeansAudited ==
    verdict.status = "VERIFIED" =>
       /\ status = "completed"
       /\ artifact \notin Foreign =>
             \A p \in Path \ Excluded : artifact.body[p] = sent[p]
       /\ moved["head"] # "early"
       /\ moved["accepted"] \in {"never", "planned"}
       /\ (\A p \in Path : edited[p] \in {"never", "early"}) => Select(files) = sent

\* A call ends, or waits for the runtime's one answer and ends after that: neither
\* the status it is answered with (a task that still runs included), nor what the
\* executor left out, nor another editor keeps it from returning or raising, rollback
\* included.  How long a runtime may take to answer is not bounded by the code.
CallEnds == at # "running" ~> at \in {"running", "done", "raised"}
=============================================================================
