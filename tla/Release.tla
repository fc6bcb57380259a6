------------------------------- MODULE Release -------------------------------
(***************************************************************************)
(* The release gate over what the evaluation reported (release.py and      *)
(* `release-gate` of evaluation/__main__.py): whether a compared candidate *)
(* replaces the current baseline, the immutable baseline records and the   *)
(* pointer that names one of them.                                         *)
(***************************************************************************)
EXTENDS Evaluation

CONSTANTS
    Releaser,             \* processes giving `release-gate --apply`
    Digests,              \* thresholds files it may be given
    Initial,              \* configuration of the first record
    MaxReleases, MaxReverts                             \* bounds

VARIABLES
    records,     \* baselines/bNNNN.json: number -> record
    pointer,     \* baselines/current.json
    releaser,    \* what each release command is doing
    releases, reverts     \* so far (bounds)

releaseVars == <<records, pointer, releaser, releases, reverts>>
vars == <<evaluationVars, releaseVars>>

FirstRecord == [config |-> Initial, basis |-> "initial", previous |-> 0]
To(n, record) == [baseline |-> n, digest |-> record]

Init == \E w \in Worlds :
    /\ EvaluationInit(w)
    /\ records = [n \in {1} |-> FirstRecord] /\ pointer = To(1, FirstRecord)
    /\ releaser = [q \in Releaser |-> Idle] /\ releases = w.releases /\ reverts = 0

---------------------------------------------------------------------------
(* The decision *)

\* current(): raises when the pointer and the record it names disagree.
CurrentStands == pointer.baseline \in DOMAIN records
                 /\ pointer.digest = records[pointer.baseline]

\* `holdout` is a gate report of a run with the holdout storage, or the owner's reason.
NoHoldout == [reason |-> "owner"]
HoldoutFailed(holdout) == holdout # NoHoldout /\ holdout.holdout = "critical"
HoldoutBlocked(holdout, commit) ==
    holdout # NoHoldout /\ \/ holdout.code.commit # commit \/ holdout.code.dirty
                           \/ holdout.holdout \in {"none", "unknown"}

Failed(c, gate, holdout) == c.verdict = "fail" \/ gate.verdict = "fail" \/ HoldoutFailed(holdout)
\* Defect: what the comparison was made against does not matter.
NeverStale(c, baseline) == FALSE
\* The comparison was not made against the current baseline.
Stale(c, baseline) == c.baseline # baseline.config
Blocked(c, digest, gate, holdout, file, baseline) ==
    \/ c.thresholds # digest
    \/ c.verdict # "pass"
    \/ Stale(c, baseline)
    \/ ~Clean(c.code)
    \/ gate.verdict # "pass"
    \/ gate.code.commit # c.code.commit \/ gate.code.dirty
    \/ HoldoutBlocked(holdout, c.code.commit)
    \/ file # c.candidate

NextRecord(c, digest, gate, holdout, baseline) ==
    [config |-> c.candidate, basis |-> "release_gate", previous |-> baseline,
     comparison |-> c.run, thresholds |-> digest, commit |-> c.code.commit, holdout |-> holdout]

\* One command reads its inputs and the current baseline, and decides.
Decide(q) ==
    /\ releaser[q].stage = "idle" /\ releases < MaxReleases /\ releases' = releases + 1
    /\ \E c \in comparisons, digest \in Digests, gate \in reports,
          holdout \in reports \cup {NoHoldout}, file \in {d.candidate : d \in comparisons} :
         LET current == records[pointer.baseline] IN
         IF /\ CurrentStands
            /\ ~Failed(c, gate, holdout) /\ ~Blocked(c, digest, gate, holdout, file, current)
         THEN releaser' = [releaser EXCEPT ![q] =
                  [stage |-> "record",
                   record |-> NextRecord(c, digest, gate, holdout, pointer.baseline)]]
         ELSE UNCHANGED releaser
    /\ UNCHANGED <<evaluationVars, records, pointer, reverts>>

---------------------------------------------------------------------------
(* apply() *)

Number(q) == releaser[q].record.previous + 1

\* Opened exclusively: a record that is there is never overwritten, and ends the command.
WriteRecord(q) ==
    /\ releaser[q].stage = "record"
    /\ IF Number(q) \in DOMAIN records
       THEN releaser' = [releaser EXCEPT ![q] = Idle] /\ UNCHANGED records
       ELSE /\ records' = With(records, Number(q), releaser[q].record)
            /\ releaser' = [releaser EXCEPT ![q].stage = "pointer"]
    /\ UNCHANGED <<evaluationVars, pointer, releases, reverts>>

MovePointer(q) ==
    /\ releaser[q].stage = "pointer"
    /\ pointer' = To(Number(q), releaser[q].record)
    /\ releaser' = [releaser EXCEPT ![q] = Idle]
    /\ UNCHANGED <<evaluationVars, records, releases, reverts>>

---------------------------------------------------------------------------
(* The environment *)

\* A killed release leaves a record that no pointer names, or a decision without a record.
KillRelease(q) ==
    /\ releaser[q].stage # "idle"
    /\ releaser' = [releaser EXCEPT ![q] = Idle]
    /\ UNCHANGED <<evaluationVars, records, pointer, releases, reverts>>

\* Between commands the owner makes an earlier record current again, by a revert that takes
\* later records away or by moving the pointer alone; or only clears such a record away.
Revert ==
    /\ reverts < MaxReverts /\ reverts' = reverts + 1
    /\ \A q \in Releaser : releaser[q].stage = "idle"
    /\ \E n \in 1..pointer.baseline, last \in DOMAIN records :
         /\ n <= last /\ records' = [i \in 1..last |-> records[i]]
         /\ pointer' = To(n, records[n])
    /\ UNCHANGED <<evaluationVars, releaser, releases>>

ReleaseStep(q) == Decide(q) \/ WriteRecord(q) \/ MovePointer(q) \/ KillRelease(q)
Next == \/ EvaluationNext /\ UNCHANGED releaseVars
        \/ \E q \in Releaser : ReleaseStep(q)
        \/ Revert
Spec == Init /\ [][Next]_vars

---------------------------------------------------------------------------

\* Every baseline in force since the first was earned: its record is there as the pointer
\* knows it, and a comparison that passed under its thresholds set its configuration against
\* the record before it, on clean code on which a regression gate passed too - across
\* releases that race, die half way or are reverted.
CurrentIsEarned ==
    /\ CurrentStands
    /\ \A n \in 2..pointer.baseline :
         LET r == records[n] IN
         /\ r.previous = n - 1
         /\ \E c \in comparisons, g \in reports :
              /\ c.run = r.comparison /\ c.verdict = "pass" /\ c.thresholds = r.thresholds
              /\ c.candidate = r.config /\ c.baseline = records[n - 1].config
              /\ Clean(c.code) /\ c.code.commit = r.commit
              /\ g.verdict = "pass" /\ g.code = c.code
=============================================================================
