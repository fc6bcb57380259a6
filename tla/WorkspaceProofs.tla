--------------------------- MODULE WorkspaceProofs ---------------------------
(***************************************************************************)
(* Proofs about the workspace bridge and the audit: for any paths, any     *)
(* executor, any editing by others and any failures,                       *)
(*                                                                         *)
(*   - a sync that returns without having synced has changed nothing;      *)
(*   - a synced candidate holds the executor's whole result;               *)
(*   - a newer local change is never written over;                         *)
(*   - what is not the project is left alone;                              *)
(*   - a VERIFIED verdict comes from a finished audit of a faithful copy.  *)
(*                                                                         *)
(* The argument: up to the plan the bridge has written nothing, so the     *)
(* candidate is its editors' own.  From the plan on, every path that is    *)
(* left to do is still as it was sent or was edited since, what is done is *)
(* in the journal with what was there before, and the journal and the      *)
(* candidate's own content agree on every path nobody touched.             *)
(***************************************************************************)
EXTENDS WorkspaceAudit, FiniteSetTheorems, TLAPS

Stages == {"never", "early", "checked", "planned"}
Before == {"new", "frozen", "running", "answered", "validated", "checked",
           "observed", "rechecked", "reported"}
Applying == {"applying", "rolling_back"}
Ended == {"done", "raised"}

\* An edit so early that the drift check saw it; one that the plan saw.
Early(p) == edited[p] \in {"never", "early"}
Unplanned(p) == edited[p] # "planned"
\* The rules the plan goes by are the ones the drift check went by.
Quiet == Early(Rules)

\* No instruction file of the runtime's where the snapshot has none.
Clean(t, s) == \A p \in RootDocs : t[p] = Bootstrap => s[p] = Bootstrap
Paths(a) == a.added \cup a.changed \cup a.deleted
TodoPaths == todo.added \cup todo.changed \cup todo.deleted
Touched == artifact.changed \cup artifact.deleted \cup (artifact.added \ Ignored(own))

Types ==
    /\ files \in Files /\ own \in Files /\ sent \in Files /\ remote \in Files
    /\ edited \in [Path -> Stages]
    /\ moved \in [{"head", "accepted"} -> Stages]
    /\ kind \in {"sync", "audit"}
    /\ at \in Before \cup Applying \cup Ended
    /\ unpacked \in BOOLEAN /\ proper \in BOOLEAN
    /\ artifact \in Archive
    /\ todo \in [{"added", "changed", "deleted"} -> SUBSET Path]
    /\ journal \in Seq([path : Path, before : Content \cup {Bootstrap, NoFile}])

\* Where a call of each kind can be, and what it has by then.
Places ==
    /\ at \in {"validated", "checked"} \cup Applying => kind = "sync"
    /\ at \in {"observed", "rechecked", "reported"} => kind = "audit"
    /\ result = "synced" => at = "done" /\ kind = "sync"
    /\ at \in {"new", "frozen"} => artifact = NoArtifact /\ ~unpacked /\ ~proper

\* An archive is somebody else's, or says how its body differs from the snapshot.
FromHelper ==
    /\ artifact \in Foreign \cup {LimitReport, NoArtifact} \/ artifact = Delta(sent, artifact.body)
    /\ proper => Clean(artifact.body, sent)
    /\ at = "running" /\ unpacked => Clean(remote, sent)
    /\ at \in {"validated", "checked"} \cup Applying => Valid(artifact, sent)

\* Before the plan, and in an audit always, the bridge has written nothing.
Untouched == at \in Before \/ kind = "audit" => files = own /\ journal = <<>>

\* The drift check: what was not edited since is as it was sent.
Checked ==
    at \in {"checked"} \cup Applying /\ Quiet =>
       \A p \in Path :
          IF p \in Ignored(own) THEN sent[p] = NoFile ELSE Early(p) => own[p] = sent[p]

\* What is left to do is the candidate's own, and as it was sent or edited since.
Remaining ==
    at = "applying" =>
       /\ todo.changed \subseteq artifact.changed /\ todo.deleted \subseteq artifact.deleted
       /\ todo.added \subseteq artifact.added
       /\ Quiet => todo.added \cap Ignored(own) = {}
       /\ \A p \in TodoPaths : files[p] = own[p] /\ (Unplanned(p) => own[p] = sent[p])

\* What is done holds the archive's content, and nothing else was written.
Done ==
    at = "applying" /\ Quiet =>
       \A p \in Path : Early(p) =>
          /\ p \in Touched \ TodoPaths => files[p] = NewContent(p)
          /\ p \notin Touched => files[p] = own[p]

\* A backup is what the path's editors left, if none came after it.
Backups ==
    \A i \in DOMAIN journal :
       LET b == journal[i] IN
       /\ b.path \notin Excluded
       /\ Quiet /\ at \in Applying => b.path \notin Ignored(own)
       /\ b.before = Bootstrap => sent[b.path] = Bootstrap
       /\ Unplanned(b.path) => b.before = own[b.path]
\* Whatever the bridge has written can be taken back.
Restorable ==
    at \in Applying =>
       \A p \in Path : Unplanned(p) /\ files[p] # own[p] =>
          \E i \in DOMAIN journal : journal[i].path = p

\* Nobody writes the runtime's own file but the runtime.
OwnContent == \A p \in Path : own[p] = Bootstrap => edited[p] = "never"
\* Where the bridge has written, the path's own content was what was sent.
NewerKept == \A p \in Path : Unplanned(p) /\ files[p] # own[p] => own[p] = sent[p]
NotProject ==
    /\ \A p \in Excluded : files[p] = own[p]
    /\ Quiet => \A p \in Ignored(own) : files[p] = own[p]
    /\ \A p \in RootDocs : proper /\ files[p] = Bootstrap => Bootstrap \in {own[p], sent[p]}

BridgeInv ==
    /\ Types /\ Places /\ FromHelper /\ Untouched /\ Checked /\ Remaining /\ Done
    /\ Backups /\ Restorable /\ OwnContent /\ NewerKept /\ NotProject
    /\ RefusedMeansUntouched /\ SyncedMeansWholeResult

\* What the audit has found out, and has not lost since.
Findings ==
    /\ evidence # "none" => kind = "audit" /\ at \in {"observed", "rechecked", "reported", "done"}
    /\ evidence = "unchanged" => Valid(artifact, sent) /\ Paths(artifact) = {}
    /\ sameCandidate =>
          /\ kind = "audit" /\ at \in {"rechecked", "reported", "done"}
          /\ moved["head"] # "early"
          /\ (\A p \in Path : Early(p)) => Select(files) = sent
    /\ sameAccepted =>
          /\ kind = "audit" /\ at \in {"reported", "done"}
          /\ moved["accepted"] \in {"never", "planned"}
    /\ verdict.status = "VERIFIED" =>
          /\ kind = "audit" /\ at = "done" /\ status = "completed"
          /\ evidence = "unchanged" /\ sameCandidate /\ sameAccepted

-----------------------------------------------------------------------------
(*                      What the model's operators return                   *)

LEMMA Archives == NoArtifact \in Archive /\ LimitReport \in Archive
BY TransportAssumption DEF NoArtifact, LimitReport, Archive, NoTree, Files

LEMMA DeltaIsArchive ==
    ASSUME NEW s \in Files, NEW t \in Files
    PROVE  Delta(s, t) \in Archive
BY DEF Delta, Archive, Scan, Present

LEMMA IgnoredPaths ==
    ASSUME NEW t \in Files
    PROVE  Ignored(t) \subseteq Path
BY TransportAssumption DEF Ignored, Files

LEMMA IgnoredByRules ==
    ASSUME NEW s, NEW t, s[Rules] = t[Rules]
    PROVE  Ignored(s) = Ignored(t)
BY DEF Ignored

LEMMA SelectIsTree ==
    ASSUME NEW t \in Files
    PROVE  Select(t) \in Files
BY DEF Select, Files

\* No path is listed twice: _check_paths() counts.
LEMMA TwoListings ==
    ASSUME NEW S, S \subseteq {"added", "changed", "deleted"}, Cardinality(S) <= 1
    PROVE  ~("changed" \in S /\ "deleted" \in S)
<1> SUFFICES ASSUME "changed" \in S, "deleted" \in S PROVE FALSE
    OBVIOUS
<1>1. IsFiniteSet(S)
  <2>1. IsFiniteSet((({} \cup {"added"}) \cup {"changed"}) \cup {"deleted"})
    <3>1. IsFiniteSet({} \cup {"added"})
        BY FS_EmptySet, FS_AddElement
    <3>2. IsFiniteSet(({} \cup {"added"}) \cup {"changed"})
        BY <3>1, FS_AddElement
    <3> QED BY <3>2, FS_AddElement
  <2>2. S \subseteq (({} \cup {"added"}) \cup {"changed"}) \cup {"deleted"}
      OBVIOUS
  <2> QED BY <2>1, <2>2, FS_Subset
<1>2. IsFiniteSet(S \ {"deleted"}) /\ Cardinality(S \ {"deleted"}) = Cardinality(S) - 1
    BY <1>1, FS_RemoveElement
<1>3. Cardinality(S \ {"deleted"}) = 0
    BY <1>1, <1>2, FS_CardinalityType
<1>4. S \ {"deleted"} = {}
    BY <1>2, <1>3, FS_EmptySet
<1> QED BY <1>4

LEMMA ValidGroups ==
    ASSUME NEW a \in Archive, NEW s \in Files, Valid(a, s)
    PROVE  /\ a.kind = "delta"
           /\ Paths(a) \subseteq Path /\ Paths(a) \cap Excluded = {}
           /\ a.changed \cap a.deleted = {}
           /\ \A p \in a.added : s[p] = NoFile
           /\ \A p \in a.changed \cup a.deleted : s[p] # NoFile
<1>1. \A p \in Path : ~(p \in a.changed /\ p \in a.deleted)
  <2> TAKE p \in Path
  <2> DEFINE S == {g \in {"added", "changed", "deleted"} : p \in a[g]}
  <2>1. Cardinality(S) <= 1
      BY DEF Valid
  <2>2. ~("changed" \in S /\ "deleted" \in S)
    <3>1. S \subseteq {"added", "changed", "deleted"}
        OBVIOUS
    <3> HIDE DEF S
    <3> QED BY <2>1, <3>1, TwoListings
  <2>3. a.changed = a["changed"] /\ a.deleted = a["deleted"]
      OBVIOUS
  <2> QED BY <2>2
<1>2. a.changed \subseteq Path /\ a.deleted \subseteq Path /\ a.added \subseteq Path
    BY DEF Archive
<1> QED BY <1>1, <1>2 DEF Valid, Present, Paths

LEMMA EntryOf ==
    ASSUME NEW S, NEW s \in Seq(S), NEW i \in DOMAIN s
    PROVE  s[i] \in S
OBVIOUS

LEMMA LastRemoved ==
    ASSUME NEW S, NEW s \in Seq(S), s # <<>>
    PROVE  LET t == SubSeq(s, 1, Len(s) - 1) IN
           /\ Len(s) \in DOMAIN s
           /\ t \in Seq(S)
           /\ DOMAIN t = DOMAIN s \ {Len(s)}
           /\ \A i \in DOMAIN t : t[i] = s[i]
OBVIOUS

LEMMA LastAdded ==
    ASSUME NEW S, NEW s \in Seq(S), NEW e \in S
    PROVE  LET t == Append(s, e) IN
           /\ t \in Seq(S)
           /\ DOMAIN t = DOMAIN s \cup {Len(s) + 1}
           /\ t[Len(s) + 1] = e
           /\ \A i \in DOMAIN s : t[i] = s[i]
OBVIOUS

LEMMA UnpackedIsClean ==
    ASSUME NEW s \in Files, NEW t \in Files
    PROVE  Unpacked(t, s) \in Files /\ Clean(Unpacked(t, s), s)
BY TransportAssumption DEF Unpacked, Files, Clean, IsBootstrap

-----------------------------------------------------------------------------
(*                 The invariant, one step of the call at a time            *)

LEMMA InitBridge == Init => BridgeInv
<1> SUFFICES ASSUME Init PROVE BridgeInv
    OBVIOUS
<1> USE DEF Init, BridgeInit, TransportInit
<1>1. Types
  <2>1. NoTree \in Files
      BY DEF NoTree, Files
  <2>2. moved \in [{"head", "accepted"} -> Stages]
      BY DEF Stages
  <2>3. todo \in [{"added", "changed", "deleted"} -> SUBSET Path]
      BY DEF NothingToDo
  <2>4. files \in Files /\ kind \in {"sync", "audit"}
      BY TransportAssumption
  <2>5. edited \in [Path -> Stages]
      BY DEF Stages
  <2>6. journal \in Seq([path : Path, before : Content \cup {Bootstrap, NoFile}])
      OBVIOUS
  <2> QED BY <2>1, <2>2, <2>3, <2>4, <2>5, <2>6, Archives DEF Types, Before
<1>2. Places /\ FromHelper /\ Untouched /\ Checked /\ Remaining /\ Done /\ Restorable
    BY DEF Places, FromHelper, Untouched, Checked, Remaining, Done, Restorable, Before, Applying
<1>3. Backups /\ OwnContent /\ NewerKept
    BY DEF Backups, OwnContent, NewerKept
<1>4. NotProject
    BY <1>1, IgnoredPaths, TransportAssumption DEF NotProject, Types
<1>5. RefusedMeansUntouched /\ SyncedMeansWholeResult
    BY DEF RefusedMeansUntouched, SyncedMeansWholeResult
<1> QED BY <1>1, <1>2, <1>3, <1>4, <1>5 DEF BridgeInv

LEMMA FreezeStep ==
    ASSUME BridgeInv, Freeze, UNCHANGED <<todo, journal, auditVars>>
    PROVE  BridgeInv'
<1> USE DEF BridgeInv, Freeze, candidate, session, Raise
<1>1. Types'
  <2>1. sent' \in Files
      BY SelectIsTree DEF Types
  <2> QED BY <2>1 DEF Types, Before, Ended
<1>2. Places' /\ Untouched' /\ Checked' /\ Remaining' /\ Done' /\ Restorable'
    BY DEF Places, Untouched, Checked, Remaining, Done, Restorable, Before, Applying
<1>3. FromHelper'
    BY DEF FromHelper, Places, Applying
<1>4. Backups' /\ OwnContent' /\ NewerKept'
    BY DEF Backups, OwnContent, NewerKept, Untouched, Before
<1>5. NotProject'
    BY <1>1, IgnoredPaths, TransportAssumption DEF NotProject, Types, Untouched, Before
<1>6. RefusedMeansUntouched' /\ SyncedMeansWholeResult'
    BY DEF RefusedMeansUntouched, SyncedMeansWholeResult, Places
<1> QED BY <1>1, <1>2, <1>3, <1>4, <1>5, <1>6

\* The bridge's part of the invariant is about these variables.
bridgeVars == <<candidate, kind, at, sent, session, result, todo, journal>>

\* A call that leaves before it has come to the plan.
LEMMA LeaveStep ==
    ASSUME BridgeInv, at \in {"new", "frozen", "answered", "validated", "checked"},
           at' \in Ended, result' # "synced",
           UNCHANGED <<candidate, kind, sent, session, todo, journal>>
    PROVE  BridgeInv'
<1> USE DEF BridgeInv, candidate, session
<1>1. Types'
    BY DEF Types, Ended
<1>2. Places' /\ Untouched' /\ Checked' /\ Remaining' /\ Done' /\ Restorable'
    BY DEF Places, Untouched, Checked, Remaining, Done, Restorable, Before, Applying, Ended
<1>3. FromHelper'
    BY DEF FromHelper, Places, Applying, Ended
<1>4. Backups' /\ OwnContent' /\ NewerKept' /\ NotProject'
    BY DEF Backups, OwnContent, NewerKept, NotProject, Untouched, Before, Quiet, Early, Unplanned
<1>5. RefusedMeansUntouched' /\ SyncedMeansWholeResult'
    BY DEF RefusedMeansUntouched, SyncedMeansWholeResult, Untouched, Before
<1> QED BY <1>1, <1>2, <1>3, <1>4, <1>5

LEMMA UploadStep ==
    ASSUME BridgeInv, Upload, UNCHANGED <<todo, journal>>
    PROVE  BridgeInv'
<1> USE DEF BridgeInv, Upload, candidate
<1>1. Types'
    BY TransportAssumption DEF Types, Before
<1>2. Places' /\ Untouched' /\ Checked' /\ Remaining' /\ Done' /\ Restorable'
    BY DEF Places, Untouched, Checked, Remaining, Done, Restorable, Before, Applying
<1>3. FromHelper'
    BY DEF FromHelper, Places, Applying
<1>4. Backups' /\ OwnContent' /\ NewerKept' /\ NotProject'
    BY DEF Backups, OwnContent, NewerKept, NotProject, Untouched, Before, Quiet, Early, Unplanned
<1>5. RefusedMeansUntouched' /\ SyncedMeansWholeResult'
    BY DEF RefusedMeansUntouched, SyncedMeansWholeResult, Places
<1> QED BY <1>1, <1>2, <1>3, <1>4, <1>5

\* What the executor does concerns its session only.
LEMMA SessionOnly ==
    ASSUME BridgeInv, InSession, UNCHANGED <<todo, journal>>,
           remote' \in Files, artifact' \in Archive, unpacked' \in BOOLEAN, proper' \in BOOLEAN,
           FromHelper'
    PROVE  BridgeInv'
<1> USE DEF BridgeInv, InSession, candidate
<1>1. Types'
    BY DEF Types
<1>2. Places' /\ Untouched' /\ Checked' /\ Remaining' /\ Done' /\ Restorable'
    BY DEF Places, Untouched, Checked, Remaining, Done, Restorable, Before, Applying
<1>4. Backups' /\ OwnContent' /\ NewerKept'
    BY DEF Backups, OwnContent, NewerKept, Untouched, Before
<1>5. NotProject'
    BY <1>1, TransportAssumption, IgnoredPaths DEF NotProject, Untouched, Before, Types
<1>6. RefusedMeansUntouched' /\ SyncedMeansWholeResult'
    BY DEF RefusedMeansUntouched, SyncedMeansWholeResult, Places
<1> QED BY <1>1, <1>2, <1>4, <1>5, <1>6

LEMMA SessionSteps ==
    ASSUME BridgeInv, SessionStep, UNCHANGED <<todo, journal>>
    PROVE  BridgeInv'
<1> USE DEF BridgeInv, InSession, Types
<1>1. CASE Unpack
  <2>1. remote' \in Files /\ Clean(remote', sent)
      BY <1>1, UnpackedIsClean DEF Unpack
  <2>2. FromHelper'
      BY <1>1, <2>1 DEF Unpack, FromHelper, Applying
  <2> QED BY <1>1, <2>1, <2>2, SessionOnly DEF Unpack
<1>2. CASE \E p \in Path, v \in Content \cup {NoFile} : Work(p, v)
  <2> PICK p \in Path, v \in Content \cup {NoFile} : Work(p, v)
      BY <1>2
  <2>1. remote' \in Files /\ (Clean(remote, sent) => Clean(remote', sent))
      BY TransportAssumption DEF Work, Files, Clean
  <2>2. FromHelper'
      BY <2>1 DEF Work, FromHelper, Applying
  <2> QED BY <2>1, <2>2, SessionOnly DEF Work
<1>3. CASE Pack
  <2>1. CASE artifact' = Delta(sent, remote) /\ proper' = unpacked
    <3>1. artifact' \in Archive /\ artifact'.body = remote
        BY <2>1, DeltaIsArchive DEF Delta
    <3>2. FromHelper'
        BY <1>3, <2>1, <3>1 DEF Pack, FromHelper, Applying
    <3> QED BY <1>3, <2>1, <3>1, <3>2, SessionOnly DEF Pack
  <2>2. CASE artifact' \in {LimitReport} \cup Foreign /\ proper' = FALSE
    <3>1. artifact' \in Archive
        BY <2>2, Archives, TransportAssumption
    <3>2. FromHelper'
        BY <1>3, <2>2 DEF Pack, FromHelper, Applying
    <3> QED BY <1>3, <2>2, <3>1, <3>2, SessionOnly DEF Pack
  <2> QED BY <1>3, <2>1, <2>2 DEF Pack
<1> QED BY <1>1, <1>2, <1>3 DEF SessionStep

LEMMA AnswerStep ==
    ASSUME BridgeInv, NEW answer \in Answers, Answer(answer), UNCHANGED <<todo, journal>>
    PROVE  BridgeInv'
<1> USE DEF BridgeInv, Answer, candidate
<1>1. Types'
    BY DEF Types, Before, NoTree, Files
<1>2. Places' /\ Untouched' /\ Checked' /\ Remaining' /\ Done' /\ Restorable'
    BY DEF Places, Untouched, Checked, Remaining, Done, Restorable, Before, Applying
<1>3. FromHelper'
    BY DEF FromHelper, Applying
<1>4. Backups' /\ OwnContent' /\ NewerKept' /\ NotProject'
    BY DEF Backups, OwnContent, NewerKept, NotProject, Untouched, Before, Quiet, Early, Unplanned
<1>5. RefusedMeansUntouched' /\ SyncedMeansWholeResult'
    BY DEF RefusedMeansUntouched, SyncedMeansWholeResult, Places
<1> QED BY <1>1, <1>2, <1>3, <1>4, <1>5

\* An edit is its editor's own and is dated by the step the call has reached.
LEMMA EditStep ==
    ASSUME BridgeInv, NEW p \in Path, NEW v \in Content \cup {NoFile}, Edit(p, v),
           UNCHANGED <<todo, journal>>
    PROVE  BridgeInv'
<1> USE DEF BridgeInv, Edit, session
<1>0. /\ Stage \in {"early", "checked", "planned"}
      /\ at = "checked" => Stage = "checked"
      /\ at \in Applying => Stage = "planned"
    BY DEF Stage, Applying
<1>1. Types'
    BY <1>0 DEF Types, Files, Stages
<1>2. /\ files'[p] = v /\ own'[p] = v /\ edited'[p] = Stage
      /\ \A q \in Path : q # p => files'[q] = files[q] /\ own'[q] = own[q] /\ edited'[q] = edited[q]
    BY DEF Types, Files
<1>3. at \in {"checked"} \cup Applying /\ Quiet' => Quiet /\ Ignored(own') = Ignored(own) /\ Rules # p
  <2>1. at \in {"checked"} \cup Applying /\ Quiet' => Rules # p
      BY <1>0, <1>2 DEF Quiet, Early
  <2>2. Rules \in Path
      BY TransportAssumption
  <2> QED BY <1>2, <2>1, <2>2, IgnoredByRules DEF Quiet, Early
<1>4. Places'
    BY DEF Places
<1>5. FromHelper'
    BY DEF FromHelper
<1>6. Untouched'
    BY DEF Untouched
<1>7. Checked'
    BY <1>0, <1>2, <1>3 DEF Checked, Early
<1>8. Remaining'
  <2> SUFFICES ASSUME at = "applying" PROVE Remaining'
      BY DEF Remaining
  <2>1. TodoPaths \subseteq Path
      BY DEF TodoPaths, Types
  <2> QED BY <1>0, <1>2, <1>3, <2>1 DEF Remaining, TodoPaths, Unplanned, Applying
<1>9. Done'
    BY <1>0, <1>2, <1>3 DEF Done, Touched, TodoPaths, NewContent, Early, Applying
<1>10. Backups'
  <2> SUFFICES ASSUME NEW i \in DOMAIN journal
               PROVE  LET b == journal[i] IN
                      /\ b.path \notin Excluded
                      /\ Quiet' /\ at \in Applying => b.path \notin Ignored(own')
                      /\ b.before = Bootstrap => sent[b.path] = Bootstrap
                      /\ Unplanned(b.path)' => b.before = own'[b.path]
      BY DEF Backups
  <2>1. journal[i] \in [path : Path, before : Content \cup {Bootstrap, NoFile}]
    <3>1. journal \in Seq([path : Path, before : Content \cup {Bootstrap, NoFile}])
        BY DEF Types
    <3> QED BY <3>1, EntryOf
  <2>2. at \in Applying \cup Ended
      BY DEF Untouched, Types
  <2>3. at \in Applying
      BY <2>2 DEF Ended
  <2> QED BY <1>0, <1>2, <1>3, <2>1, <2>3 DEF Backups, Unplanned
<1>11. Restorable' /\ OwnContent' /\ NewerKept'
    BY <1>0, <1>2, TransportAssumption DEF Restorable, OwnContent, NewerKept, Unplanned
<1>12. NotProject'
  <2>1. Quiet' => \A q \in Ignored(own') : files'[q] = own'[q]
    <3> SUFFICES ASSUME Quiet', NEW q \in Ignored(own'), q # p PROVE files'[q] = own'[q]
        BY <1>2
    <3>1. q \in Path
        BY <1>1, IgnoredPaths DEF Types
    <3>2. CASE at \in {"checked"} \cup Applying
        BY <1>2, <1>3, <3>1, <3>2 DEF NotProject
    <3>3. CASE at \in Before
        BY <1>2, <3>1, <3>3 DEF Untouched
    <3> QED BY <3>2, <3>3 DEF Types, Ended
  <2> QED BY <1>2, <2>1, TransportAssumption DEF NotProject
<1>13. RefusedMeansUntouched' /\ SyncedMeansWholeResult'
    BY DEF RefusedMeansUntouched, SyncedMeansWholeResult, Places
<1> QED BY <1>1, <1>4, <1>5, <1>6, <1>7, <1>8, <1>9, <1>10, <1>11, <1>12, <1>13

LEMMA RepositoryStep ==
    ASSUME BridgeInv, NEW ref \in {"head", "accepted"}, RepositoryMoves(ref),
           UNCHANGED <<todo, journal>>
    PROVE  BridgeInv'
<1> USE DEF BridgeInv, RepositoryMoves, session
<1>1. Types'
    BY DEF Types, Stage, Stages
<1>2. Places' /\ FromHelper' /\ Untouched' /\ Checked' /\ Remaining' /\ Done'
    BY DEF Places, FromHelper, Untouched, Checked, Remaining, Done, Quiet, Early, Unplanned,
           TodoPaths, Touched, NewContent
<1>3. Backups' /\ Restorable' /\ OwnContent' /\ NewerKept' /\ NotProject'
    BY DEF Backups, Restorable, OwnContent, NewerKept, NotProject, Quiet, Early, Unplanned
<1>4. RefusedMeansUntouched' /\ SyncedMeansWholeResult'
    BY DEF RefusedMeansUntouched, SyncedMeansWholeResult
<1> QED BY <1>1, <1>2, <1>3, <1>4

LEMMA FetchStep ==
    ASSUME BridgeInv, FetchDelta
    PROVE  BridgeInv'
<1> USE DEF FetchDelta, SyncAt, Calm
<1> PICK code \in FetchOutcomes :
       IF code = "valid" THEN at' = "validated" /\ UNCHANGED result ELSE Return(code)
    OBVIOUS
<1>1. CASE code # "valid"
  <2>1. at' = "done" /\ result' # "synced"
      BY <1>1 DEF FetchOutcomes, Return
  <2> QED BY <2>1, LeaveStep DEF candidate, Ended
<1>2. CASE code = "valid"
  <2> USE DEF BridgeInv, session
  <2>1. Valid(artifact, sent)
      BY <1>2 DEF FetchOutcomes
  <2>2. Types' /\ Places' /\ Untouched' /\ Checked' /\ Remaining' /\ Done' /\ Restorable'
      BY <1>2 DEF Types, Places, Untouched, Checked, Remaining, Done, Restorable, Before, Applying
  <2>3. FromHelper'
      BY <1>2, <2>1 DEF FromHelper, Applying
  <2>4. Backups' /\ OwnContent' /\ NewerKept' /\ NotProject'
      BY <1>2 DEF Backups, OwnContent, NewerKept, NotProject, Untouched, Before, Quiet, Early, Unplanned
  <2>5. RefusedMeansUntouched' /\ SyncedMeansWholeResult'
      BY <1>2 DEF RefusedMeansUntouched, SyncedMeansWholeResult, Places
  <2> QED BY <2>2, <2>3, <2>4, <2>5
<1> QED BY <1>1, <1>2

\* check_candidate_unchanged() is what makes every early edit one that was sent.
LEMMA CheckStep ==
    ASSUME BridgeInv, CheckUnchanged
    PROVE  BridgeInv'
<1> USE DEF CheckUnchanged, SyncAt, Calm
<1>1. CASE Select(files) # sent
    BY <1>1, LeaveStep DEF candidate, Return, Ended
<1>2. CASE Select(files) = sent
  <2> USE DEF BridgeInv, session
  <2>1. Types' /\ Places' /\ Untouched' /\ Remaining' /\ Done' /\ Restorable'
      BY <1>2 DEF Types, Places, Untouched, Remaining, Done, Restorable, Before, Applying
  <2>2. Checked'
      BY <1>2 DEF Checked, Select, Untouched, Before, Early, Quiet
  <2>3. FromHelper'
      BY <1>2 DEF FromHelper, Applying
  <2>4. Backups' /\ OwnContent' /\ NewerKept' /\ NotProject'
      BY <1>2 DEF Backups, OwnContent, NewerKept, NotProject, Untouched, Before, Quiet, Early, Unplanned
  <2>5. RefusedMeansUntouched' /\ SyncedMeansWholeResult'
      BY <1>2 DEF RefusedMeansUntouched, SyncedMeansWholeResult, Places
  <2> QED BY <2>1, <2>2, <2>3, <2>4, <2>5
<1> QED BY <1>1, <1>2

\* The plan compares every path it will write once more.
LEMMA PlanStep ==
    ASSUME BridgeInv, Plan
    PROVE  BridgeInv'
<1> DEFINE added == artifact.added \ Ignored(files)
<1> USE DEF Plan, SyncAt, Calm
<1>1. CASE ~Fits(artifact, added)
    BY <1>1, LeaveStep DEF candidate, Return, Ended
<1>2. CASE Fits(artifact, added)
  <2> USE DEF BridgeInv, session
  <2>1. files = own /\ journal = <<>>
      BY DEF Untouched, Before
  <2>2. Valid(artifact, sent)
      BY DEF FromHelper
  <2>3. /\ Paths(artifact) \subseteq Path
        /\ \A p \in artifact.added : sent[p] = NoFile
      BY <2>2, ValidGroups DEF Types
  <2>4. /\ at' = "applying"
        /\ todo' = [changed |-> artifact.changed, added |-> added, deleted |-> artifact.deleted]
        /\ UNCHANGED result
      BY <1>2
  <2>5. Types'
    <3>1. todo' \in [{"added", "changed", "deleted"} -> SUBSET Path]
        BY <2>3, <2>4 DEF Paths
    <3> QED BY <2>4, <3>1 DEF Types, Applying
  <2>6. Places' /\ Untouched' /\ FromHelper' /\ Checked' /\ Restorable'
      BY <2>1, <2>4 DEF Places, Untouched, FromHelper, Checked, Restorable, Before, Applying, Early, Quiet
  <2>7. Remaining'
    <3>1. \A p \in artifact.changed \cup artifact.deleted : own[p] = sent[p]
        BY <1>2, <2>1 DEF Fits
    <3>2. \A p \in added : own[p] = sent[p]
        BY <1>2, <2>1, <2>3 DEF Fits
    <3> QED BY <2>1, <2>4, <3>1, <3>2 DEF Remaining, TodoPaths
  <2>8. Done'
      BY <2>1, <2>4 DEF Done, Touched, TodoPaths
  <2>9. Backups' /\ OwnContent' /\ NewerKept' /\ NotProject'
      BY <2>1 DEF Backups, OwnContent, NewerKept, NotProject, Quiet, Early, Unplanned
  <2>10. RefusedMeansUntouched' /\ SyncedMeansWholeResult'
      BY <2>4 DEF RefusedMeansUntouched, SyncedMeansWholeResult, Places
  <2> QED BY <2>5, <2>6, <2>7, <2>8, <2>9, <2>10
<1> QED BY <1>1, <1>2

\* What the invariant says of a path that is about to be written.
LEMMA NextPath ==
    ASSUME BridgeInv, SyncAt("applying"), NEW p \in Path, p \in todo[Group]
    PROVE  /\ Group \in {"added", "changed", "deleted"}
           /\ p \in TodoPaths /\ p \in Paths(artifact) /\ p \notin Excluded
           /\ files[p] = own[p]
           /\ Unplanned(p) => own[p] = sent[p]
           /\ own[p] = Bootstrap => sent[p] = Bootstrap
           /\ Quiet => p \notin Ignored(own) /\ p \in Touched
           /\ NewContent(p) \in Content \cup {Bootstrap, NoFile}
           /\ proper /\ p \in RootDocs /\ NewContent(p) = Bootstrap => sent[p] = Bootstrap
           /\ \A g \in {"added", "changed", "deleted"} : g # Group => p \notin todo[g]
<1> USE DEF BridgeInv, SyncAt
<1>1. Group \in {"added", "changed", "deleted"}
    BY DEF Group
<1>2. p \in TodoPaths
    BY <1>1 DEF TodoPaths
<1>3. Valid(artifact, sent)
    BY DEF FromHelper, Applying
<1>4. /\ Paths(artifact) \cap Excluded = {}
      /\ artifact.changed \cap artifact.deleted = {}
      /\ \A q \in artifact.added : sent[q] = NoFile
      /\ \A q \in artifact.changed \cup artifact.deleted : sent[q] # NoFile
    BY <1>3, ValidGroups DEF Types
<1>5. /\ todo.changed \subseteq artifact.changed /\ todo.deleted \subseteq artifact.deleted
      /\ todo.added \subseteq artifact.added
      /\ Quiet => todo.added \cap Ignored(own) = {}
      /\ files[p] = own[p] /\ (Unplanned(p) => own[p] = sent[p])
    BY <1>2 DEF Remaining
<1>6. p \in Paths(artifact)
    BY <1>2, <1>5 DEF TodoPaths, Paths
<1>7. own[p] = Bootstrap => sent[p] = Bootstrap
    BY <1>5 DEF OwnContent, Unplanned
<1>8. Quiet => p \notin Ignored(own) /\ p \in Touched
  <2>1. Quiet => \A q \in Path : q \in Ignored(own) => sent[q] = NoFile
      BY DEF Checked, Applying
  <2> QED BY <1>2, <1>4, <1>5, <2>1 DEF TodoPaths, Touched
<1>9. /\ NewContent(p) \in Content \cup {Bootstrap, NoFile}
      /\ proper /\ p \in RootDocs /\ NewContent(p) = Bootstrap => sent[p] = Bootstrap
  <2>1. artifact.body \in Files
      BY DEF Types, Archive
  <2> QED BY <2>1, TransportAssumption DEF NewContent, Files, FromHelper, Clean
<1>10. \A g \in {"added", "changed", "deleted"} : g # Group => p \notin todo[g]
    BY <1>1, <1>4, <1>5
<1> QED BY <1>1, <1>2, <1>4, <1>5, <1>6, <1>7, <1>8, <1>9, <1>10

\* Its backup is one the rollback can rely on.
LEMMA Logged ==
    ASSUME BridgeInv, SyncAt("applying"), NEW p \in Path, p \in todo[Group], LogBefore(p),
           at' \in Applying, UNCHANGED <<sent, own, edited>>
    PROVE  /\ journal' \in Seq([path : Path, before : Content \cup {Bootstrap, NoFile}])
           /\ Backups'
           /\ \E i \in DOMAIN journal' : journal'[i].path = p
           /\ \A i \in DOMAIN journal : i \in DOMAIN journal' /\ journal'[i] = journal[i]
<1> DEFINE Entry == [path : Path, before : Content \cup {Bootstrap, NoFile}]
<1> DEFINE e == [path |-> p, before |-> files[p]]
<1>1. e \in Entry /\ journal \in Seq(Entry)
    BY DEF BridgeInv, Types, Files
<1>2. journal' = Append(journal, e)
    BY DEF LogBefore
<1>3. /\ journal' \in Seq(Entry)
      /\ DOMAIN journal' = DOMAIN journal \cup {Len(journal) + 1}
      /\ journal'[Len(journal) + 1] = e
      /\ \A i \in DOMAIN journal : journal'[i] = journal[i]
  <2> HIDE DEF Entry, e
  <2> QED BY <1>1, <1>2, LastAdded
<1>4. Backups'
  <2>1. at \in Applying
      BY DEF SyncAt, Applying
  <2> QED BY <1>3, <2>1, NextPath DEF BridgeInv, Backups, Quiet, Early, Unplanned
<1> QED BY <1>3, <1>4

LEMMA ApplyStep ==
    ASSUME BridgeInv, NEW p \in Path, Apply(p)
    PROVE  BridgeInv'
<1> USE DEF BridgeInv, Apply, Calm, session
<1>1. /\ SyncAt("applying") /\ p \in todo[Group] /\ kind = "sync" /\ at = "applying"
    BY DEF SyncAt
<1>2. /\ journal' \in Seq([path : Path, before : Content \cup {Bootstrap, NoFile}])
      /\ Backups'
      /\ \E i \in DOMAIN journal' : journal'[i].path = p
      /\ \A i \in DOMAIN journal : i \in DOMAIN journal' /\ journal'[i] = journal[i]
    BY <1>1, Logged DEF Applying
<1>3. files'[p] = NewContent(p) /\ \A q \in Path : q # p => files'[q] = files[q]
    BY DEF Types, Files
<1>4. /\ todo' \in [{"added", "changed", "deleted"} -> SUBSET Path]
      /\ \A g \in {"added", "changed", "deleted"} : todo'[g] = todo[g] \ {p}
    BY <1>1, NextPath DEF Types
<1>5. TodoPaths' = TodoPaths \ {p} /\ TodoPaths \subseteq Path
    BY <1>4 DEF TodoPaths, Types
<1>6. Types'
  <2>1. files' \in Files
      BY <1>1, NextPath DEF Types, Files
  <2> QED BY <1>2, <1>4, <2>1 DEF Types
<1>7. Places' /\ Untouched'
    BY <1>1 DEF Places, Untouched, Before
<1>8. FromHelper'
    BY DEF FromHelper
<1>9. Checked'
    BY DEF Checked, Quiet, Early
<1>10. Remaining'
    BY <1>1, <1>3, <1>4, <1>5 DEF Remaining, Quiet, Early, Unplanned
<1>11. Done'
    BY <1>1, <1>3, <1>5, NextPath DEF Done, Quiet, Early, Touched, NewContent
<1>12. Restorable'
    BY <1>1, <1>2, <1>3 DEF Restorable, Unplanned, Applying
<1>13. OwnContent'
    BY DEF OwnContent
<1>14. NewerKept'
    BY <1>1, <1>3, NextPath DEF NewerKept, Unplanned
<1>15. NotProject'
  <2>1. Ignored(own) \subseteq Path
      BY IgnoredPaths DEF Types
  <2> QED BY <1>1, <1>3, <2>1, NextPath, TransportAssumption DEF NotProject, Quiet, Early
<1>16. RefusedMeansUntouched' /\ SyncedMeansWholeResult'
    BY <1>1 DEF RefusedMeansUntouched, SyncedMeansWholeResult, Places
<1> QED BY <1>2, <1>6, <1>7, <1>8, <1>9, <1>10, <1>11, <1>12, <1>13, <1>14, <1>15, <1>16

LEMMA ApplyFailsStep ==
    ASSUME BridgeInv, NEW p \in Path, ApplyFails(p)
    PROVE  BridgeInv'
<1> USE DEF BridgeInv, ApplyFails, Calm, session
<1>1. /\ SyncAt("applying") /\ p \in todo[Group] /\ kind = "sync" /\ at = "applying"
      /\ at' = "rolling_back" /\ UNCHANGED <<todo, result>>
    BY DEF SyncAt
<1>2. /\ journal' \in Seq([path : Path, before : Content \cup {Bootstrap, NoFile}])
      /\ Backups'
      /\ \A i \in DOMAIN journal : i \in DOMAIN journal' /\ journal'[i] = journal[i]
      /\ \/ files' = files
         \/ /\ files' = [files EXCEPT ![p] = NoFile]
            /\ \E i \in DOMAIN journal' : journal'[i].path = p
  <2>1. CASE UNCHANGED <<journal, files>>
      BY <1>1, <2>1 DEF Types, Backups, Applying, Quiet, Early, Unplanned
  <2>2. CASE /\ LogBefore(p)
             /\ files' \in {files} \cup
                   {[files EXCEPT ![q] = NoFile] : q \in {p} \cap artifact.deleted}
    <3>1. files' = files \/ files' = [files EXCEPT ![p] = NoFile]
        BY <2>2
    <3>2. /\ journal' \in Seq([path : Path, before : Content \cup {Bootstrap, NoFile}])
          /\ Backups'
          /\ \E i \in DOMAIN journal' : journal'[i].path = p
          /\ \A i \in DOMAIN journal : i \in DOMAIN journal' /\ journal'[i] = journal[i]
        BY <1>1, <2>2, Logged DEF Applying
    <3> QED BY <3>1, <3>2
  <2> QED BY <2>1, <2>2
<1>3. /\ files' \in Files
      /\ \A q \in Path : q # p => files'[q] = files[q]
      /\ files'[p] \in {files[p], NoFile}
      /\ files'[p] # files[p] => \E i \in DOMAIN journal' : journal'[i].path = p
    BY <1>2 DEF Types, Files
<1>4. Types'
    BY <1>1, <1>2, <1>3 DEF Types, Applying
<1>5. Places' /\ Untouched' /\ Checked' /\ Remaining' /\ Done'
    BY <1>1 DEF Places, Untouched, Before, Checked, Remaining, Done, Applying, Quiet, Early
<1>6. FromHelper'
    BY <1>1 DEF FromHelper, Applying
<1>7. Restorable'
    BY <1>1, <1>2, <1>3 DEF Restorable, Unplanned, Applying
<1>8. OwnContent'
    BY DEF OwnContent
<1>9. NewerKept'
    BY <1>1, <1>3, NextPath DEF NewerKept, Unplanned
<1>10. NotProject'
  <2>1. Ignored(own) \subseteq Path
      BY IgnoredPaths DEF Types
  <2> QED BY <1>1, <1>3, <2>1, NextPath, TransportAssumption DEF NotProject, Quiet, Early
<1>11. RefusedMeansUntouched' /\ SyncedMeansWholeResult'
    BY <1>1 DEF RefusedMeansUntouched, SyncedMeansWholeResult, Places
<1> QED BY <1>2, <1>4, <1>5, <1>6, <1>7, <1>8, <1>9, <1>10, <1>11

\* A rollback puts back what was there, which is what its editors left.
LEMMA RollBackStep ==
    ASSUME BridgeInv, RollBack
    PROVE  BridgeInv'
<1> USE DEF BridgeInv, RollBack, Calm, session, SyncAt
<1> DEFINE Entry == [path : Path, before : Content \cup {Bootstrap, NoFile}]
<1> DEFINE last == journal[Len(journal)]
<1>1. kind = "sync" /\ at = "rolling_back" /\ UNCHANGED <<at, result, todo, faults>>
    OBVIOUS
<1>2. /\ Len(journal) \in DOMAIN journal
      /\ journal' \in Seq(Entry)
      /\ DOMAIN journal' = DOMAIN journal \ {Len(journal)}
      /\ \A i \in DOMAIN journal' : journal'[i] = journal[i]
  <2>1. journal \in Seq(Entry) /\ journal # <<>>
      BY DEF Types
  <2>2. journal' = SubSeq(journal, 1, Len(journal) - 1)
      OBVIOUS
  <2> HIDE DEF Entry
  <2> QED BY <2>1, <2>2, LastRemoved
<1>3. last \in Entry
  <2>1. journal \in Seq(Entry)
      BY DEF Types
  <2> HIDE DEF Entry
  <2> QED BY <1>2, <2>1, EntryOf
<1>4. /\ last.path \in Path /\ last.before \in Content \cup {Bootstrap, NoFile}
      /\ last.path \notin Excluded
      /\ Quiet => last.path \notin Ignored(own)
      /\ last.before = Bootstrap => sent[last.path] = Bootstrap
      /\ Unplanned(last.path) => last.before = own[last.path]
    BY <1>1, <1>2, <1>3 DEF Backups, Applying
<1>5. /\ files' \in Files
      /\ files'[last.path] = last.before
      /\ \A p \in Path : p # last.path => files'[p] = files[p]
    BY <1>4 DEF Types, Files
<1>6. Types'
    BY <1>1, <1>2, <1>5 DEF Types
<1>7. Places' /\ Untouched' /\ Checked' /\ Remaining' /\ Done'
    BY <1>1 DEF Places, Untouched, Before, Checked, Remaining, Done, Quiet, Early
<1>8. FromHelper'
    BY <1>1 DEF FromHelper
<1>9. Backups'
    BY <1>1, <1>2 DEF Backups, Quiet, Early, Unplanned
<1>10. Restorable'
  <2> SUFFICES ASSUME NEW p \in Path, Unplanned(p), files'[p] # own[p]
               PROVE  \E i \in DOMAIN journal' : journal'[i].path = p
      BY DEF Restorable, Unplanned
  <2>1. p # last.path /\ files'[p] = files[p]
      BY <1>4, <1>5
  <2>2. PICK i \in DOMAIN journal : journal[i].path = p
      BY <1>1, <2>1 DEF Restorable, Applying
  <2> QED BY <1>2, <2>1, <2>2
<1>11. OwnContent'
    BY DEF OwnContent
<1>12. NewerKept'
    BY <1>4, <1>5 DEF NewerKept, Unplanned
<1>13. NotProject'
  <2>1. Ignored(own) \subseteq Path
      BY IgnoredPaths DEF Types
  <2> QED BY <1>4, <1>5, <2>1, TransportAssumption DEF NotProject, Quiet, Early
<1>14. RefusedMeansUntouched' /\ SyncedMeansWholeResult'
    BY <1>1 DEF RefusedMeansUntouched, SyncedMeansWholeResult, Places
<1> QED BY <1>6, <1>7, <1>8, <1>9, <1>10, <1>11, <1>12, <1>13, <1>14

\* A call that ends after the plan: what it leaves behind is what it says.
LEMMA EndStep ==
    ASSUME BridgeInv, at \in Applying, at' \in Ended,
           UNCHANGED <<candidate, kind, sent, session, todo, journal>>,
           result' = "synced" => at' = "done",
           RefusedMeansUntouched', SyncedMeansWholeResult'
    PROVE  BridgeInv'
<1> USE DEF BridgeInv, candidate, session
<1>1. Types'
    BY DEF Types
<1>2. Places' /\ Untouched' /\ Checked' /\ Remaining' /\ Done' /\ Restorable'
    BY DEF Places, Untouched, Checked, Remaining, Done, Restorable, Before, Applying, Ended
<1>3. FromHelper'
    BY DEF FromHelper, Applying, Ended
<1>4. Backups' /\ OwnContent' /\ NewerKept' /\ NotProject'
    BY DEF Backups, OwnContent, NewerKept, NotProject, Quiet, Early, Unplanned
<1> QED BY <1>1, <1>2, <1>3, <1>4

LEMMA RolledBackStep ==
    ASSUME BridgeInv, RolledBack
    PROVE  BridgeInv'
<1> USE DEF RolledBack, SyncAt, Calm, Return
<1>1. RefusedMeansUntouched'
    BY DEF BridgeInv, Restorable, RefusedMeansUntouched, Unplanned, Applying
<1>2. SyncedMeansWholeResult'
    BY DEF SyncedMeansWholeResult
<1> QED BY <1>1, <1>2, EndStep DEF candidate, Applying, Ended

LEMMA RaiseStep ==
    ASSUME BridgeInv, RollBackFails \/ Interrupted
    PROVE  BridgeInv'
<1>1. /\ at \in Applying /\ at' = "raised" /\ result' # "synced"
      /\ UNCHANGED <<candidate, kind, sent, session, todo, journal>>
    BY DEF RollBackFails, Interrupted, SyncAt, Calm, Raise, Applying, candidate
<1>2. RefusedMeansUntouched' /\ SyncedMeansWholeResult'
    BY <1>1 DEF RefusedMeansUntouched, SyncedMeansWholeResult
<1> QED BY <1>1, <1>2, EndStep DEF Ended

\* Nothing is left to do: the groups of the delta and the drift check say together
\* what every path holds.
LEMMA AppliedStep ==
    ASSUME BridgeInv, Applied
    PROVE  BridgeInv'
<1> USE DEF Applied, SyncAt, Calm, Return
<1>1. RefusedMeansUntouched'
    BY DEF RefusedMeansUntouched
<1>2. SyncedMeansWholeResult'
  <2> SUFFICES ASSUME artifact \notin Foreign, Quiet, NEW p \in Path, Early(p)
               PROVE  files[p] = IF p \in Excluded \cup Ignored(own) THEN own[p]
                                 ELSE artifact.body[p]
    <3>1. \A q \in Path : edited[q] \notin {"checked", "planned"} => Early(q)
        BY DEF BridgeInv, Types, Stages, Early
    <3>2. UNCHANGED <<artifact, edited, own, files>>
        BY DEF session
    <3> QED BY <3>1, <3>2 DEF SyncedMeansWholeResult, Quiet, Early
  <2>1. Valid(artifact, sent) /\ artifact \in Archive /\ sent \in Files
      BY DEF BridgeInv, FromHelper, Types, Applying
  <2>2. artifact = Delta(sent, artifact.body)
      BY <2>1, ValidGroups DEF BridgeInv, FromHelper, LimitReport, NoArtifact
  <2>3. p \in Ignored(own) => sent[p] = NoFile
      BY DEF BridgeInv, Checked, Applying
  <2>4. p \notin Ignored(own) => own[p] = sent[p]
      BY DEF BridgeInv, Checked, Applying
  <2>5. /\ p \in Touched => files[p] = NewContent(p)
        /\ p \notin Touched => files[p] = own[p]
      BY DEF BridgeInv, Done, TodoPaths, NothingToDo
  <2>6. CASE p \in Excluded
      BY <2>6 DEF BridgeInv, NotProject
  <2>7. CASE p \in Ignored(own)
      BY <2>7 DEF BridgeInv, NotProject
  <2>8. CASE p \notin Excluded \cup Ignored(own)
    <3>1. /\ p \in artifact.added <=> artifact.body[p] # NoFile /\ sent[p] = NoFile
          /\ p \in artifact.changed <=> /\ artifact.body[p] # NoFile /\ sent[p] # NoFile
                                        /\ artifact.body[p] # sent[p]
          /\ p \in artifact.deleted <=> artifact.body[p] = NoFile /\ sent[p] # NoFile
      <4> DEFINE b == artifact.body
      <4>1. /\ artifact.added = Scan(b) \ Present(sent)
            /\ artifact.changed = {q \in Scan(b) \cap Present(sent) : b[q] # sent[q]}
            /\ artifact.deleted = Present(sent) \ (Scan(b) \cup Excluded)
        <5> HIDE DEF b
        <5>1. artifact = Delta(sent, b)
            BY <2>2 DEF b
        <5> QED BY <5>1 DEF Delta
      <4> QED BY <2>8, <4>1 DEF Scan, Present
    <3> QED BY <2>4, <2>5, <2>8, <3>1 DEF Touched, NewContent
  <2> QED BY <2>6, <2>7, <2>8
<1> QED BY <1>1, <1>2, EndStep DEF candidate, Applying, Ended

\* An audit only looks.
LEMMA AuditStep ==
    ASSUME BridgeInv, Audit
    PROVE  BridgeInv'
<1> USE DEF BridgeInv, Observed, candidate, session
<1>1. /\ kind = "audit" /\ UNCHANGED <<candidate, kind, sent, session, todo, journal>>
      /\ at \in {"answered", "observed", "rechecked", "reported", "raised"}
      /\ at' \in {"observed", "rechecked", "reported", "done", "raised"}
      /\ result' # "synced"
    BY DEF Audit, FetchEvidence, RecheckCandidate, RecheckAccepted, Conclude, NotStarted,
           AuditAt, Return, Places
<1>2. Types'
    BY <1>1 DEF Types, Before, Ended
<1>3. Places' /\ Untouched' /\ Checked' /\ Remaining' /\ Done' /\ Restorable'
    BY <1>1 DEF Places, Untouched, Checked, Remaining, Done, Restorable, Before, Applying, Ended
<1>4. FromHelper'
    BY <1>1 DEF FromHelper, Applying
<1>5. Backups' /\ OwnContent' /\ NewerKept' /\ NotProject'
    BY <1>1 DEF Backups, OwnContent, NewerKept, NotProject, Untouched, Quiet, Early, Unplanned
<1>6. RefusedMeansUntouched' /\ SyncedMeansWholeResult'
    BY <1>1 DEF RefusedMeansUntouched, SyncedMeansWholeResult
<1> QED BY <1>2, <1>3, <1>4, <1>5, <1>6

LEMMA BridgeStep == BridgeInv /\ [Next]_vars => BridgeInv'
<1> SUFFICES ASSUME BridgeInv, [Next]_vars PROVE BridgeInv'
    OBVIOUS
<1>1. CASE BridgePart /\ UNCHANGED <<todo, journal, auditVars>>
  <2>1. CASE TransportStep
      BY <1>1, <2>1, FreezeStep, UploadStep, AnswerStep DEF TransportStep
  <2>2. CASE SessionStep
      BY <1>1, <2>2, SessionSteps
  <2>3. CASE Others
      BY <1>1, <2>3, EditStep, RepositoryStep DEF Others
  <2>4. CASE CannotSend
      BY <1>1, <2>4, LeaveStep DEF CannotSend, Raise, Ended
  <2>5. CASE UploadFails
      BY <1>1, <2>5, LeaveStep DEF UploadFails, Raise, Ended
  <2> QED BY <1>1, <2>1, <2>2, <2>3, <2>4, <2>5 DEF BridgePart
<1>2. CASE SyncStep \/ Interrupted
  <2>1. CASE ApplySteps
      BY <2>1, ApplyStep, ApplyFailsStep, RollBackStep, RolledBackStep, RaiseStep, AppliedStep
      DEF ApplySteps
  <2> QED BY <1>2, <2>1, FetchStep, CheckStep, PlanStep, RaiseStep DEF SyncStep
<1>3. CASE Audit
    BY <1>3, AuditStep
<1>4. CASE UNCHANGED vars
  <2> USE <1>4 DEF vars, syncVars, transportVars, candidate, session, BridgeInv
  <2>1. Types' /\ Places' /\ FromHelper' /\ Untouched' /\ Checked' /\ Remaining' /\ Done'
      BY DEF Types, Places, FromHelper, Untouched, Checked, Remaining, Done, Quiet, Early,
             Unplanned, TodoPaths, Touched, NewContent
  <2>2. Backups' /\ Restorable' /\ OwnContent' /\ NewerKept' /\ NotProject'
      BY DEF Backups, Restorable, OwnContent, NewerKept, NotProject, Quiet, Early, Unplanned
  <2>3. RefusedMeansUntouched' /\ SyncedMeansWholeResult'
      BY DEF RefusedMeansUntouched, SyncedMeansWholeResult
  <2> QED BY <2>1, <2>2, <2>3
<1> QED BY <1>1, <1>2, <1>3, <1>4 DEF Next

-----------------------------------------------------------------------------
(*                          What an audit has found                        *)

LEMMA VerdictOfProblems ==
    ASSUME NEW report, NEW repair, Normalized(report, repair).status = "VERIFIED"
    PROVE  /\ sameAccepted /\ sameCandidate
           /\ evidence = "unchanged" /\ status = "completed"
<1>1. Problems = {} /\ status = "completed" /\ evidence = "unchanged"
    BY DEF Normalized
<1> QED BY <1>1 DEF Problems

LEMMA FindingsStep == BridgeInv /\ Findings /\ [Next]_vars => Findings'
<1> SUFFICES ASSUME BridgeInv, Findings, [Next]_vars PROVE Findings'
    OBVIOUS
<1> USE DEF Findings
<1>1. CASE BridgePart /\ UNCHANGED <<todo, journal, auditVars>>
  <2> USE <1>1 DEF auditVars, candidate, session
  <2>1. CASE TransportStep \/ CannotSend \/ UploadFails
      BY <2>1 DEF TransportStep, Freeze, Upload, Answer, CannotSend, UploadFails, Raise
  <2>2. CASE SessionStep
      BY <2>2 DEF SessionStep, Unpack, Pack, Work, InSession
  <2>3. CASE \E p \in Path, v \in Content \cup {NoFile} : Edit(p, v)
    <3> PICK p \in Path, v \in Content \cup {NoFile} : Edit(p, v)
        BY <2>3
    <3>1. sameCandidate => ~\A q \in Path : Early(q)'
      <4> SUFFICES ASSUME sameCandidate PROVE edited'[p] \notin {"never", "early"}
          BY DEF Early
      <4> QED BY DEF Edit, Stage, BridgeInv, Types
    <3> QED BY <3>1 DEF Edit
  <2>4. CASE \E ref \in {"head", "accepted"} : RepositoryMoves(ref)
    <3> PICK ref \in {"head", "accepted"} : RepositoryMoves(ref)
        BY <2>4
    <3>1. /\ sameCandidate => moved'["head"] # "early"
          /\ sameAccepted => moved'["accepted"] \in {"never", "planned"}
        BY DEF RepositoryMoves, Stage, BridgeInv, Types
    <3> QED BY <3>1 DEF RepositoryMoves, Early
  <2> QED BY <2>1, <2>2, <2>3, <2>4 DEF BridgePart, Others
<1>2. CASE (SyncStep \/ Interrupted) /\ UNCHANGED auditVars
  <2>1. kind = "sync"
      BY <1>2 DEF SyncStep, FetchDelta, CheckUnchanged, Plan, ApplySteps, Apply, ApplyFails,
                  RollBack, RolledBack, RollBackFails, Applied, Interrupted, SyncAt,
                  BridgeInv, Places, Applying
  <2>2. kind' = "sync"
      BY <1>2, <2>1 DEF SyncStep, FetchDelta, CheckUnchanged, Plan, ApplySteps, Apply,
                  ApplyFails, RollBack, RolledBack, RollBackFails, Applied, Interrupted, Calm
  <2> QED BY <1>2, <2>1, <2>2 DEF auditVars
<1> USE DEF Observed, AuditAt, candidate, session
<1>3. CASE FetchEvidence
  <2> PICK code \in FetchOutcomes :
         evidence' = IF code = "valid" THEN EvidenceIn(artifact)
                     ELSE IF code \in Skipped THEN "skipped" ELSE "failed"
      BY <1>3 DEF FetchEvidence
  <2>1. evidence' = "unchanged" => Valid(artifact, sent) /\ Paths(artifact) = {}
      BY DEF EvidenceIn, FetchOutcomes, Paths
  <2> QED BY <1>3, <2>1 DEF FetchEvidence, Paths
<1>4. CASE RecheckCandidate
    BY <1>4 DEF RecheckCandidate, Paths
<1>5. CASE RecheckAccepted
    BY <1>5 DEF RecheckAccepted, Paths, Early
<1>6. CASE Conclude
  <2>1. verdict'.status = "VERIFIED" =>
           sameAccepted /\ sameCandidate /\ evidence = "unchanged" /\ status = "completed"
      BY <1>6, VerdictOfProblems DEF Conclude
  <2> QED BY <1>6, <2>1 DEF Conclude, Return, Paths, Early
<1>7. CASE NotStarted
    BY <1>7 DEF NotStarted, Paths, Early
<1>8. CASE UNCHANGED vars
    BY <1>8 DEF vars, syncVars, transportVars, auditVars, Early, Paths
<1> QED BY <1>1, <1>2, <1>3, <1>4, <1>5, <1>6, <1>7, <1>8 DEF Next, Audit

-----------------------------------------------------------------------------
(*                                Theorems                                 *)

\* The invariant of the bridge: what is proved below rests on it.
THEOREM BridgeSafe == Spec => []BridgeInv
BY InitBridge, BridgeStep, PTL DEF Spec

\* ADR-017, failure atomicity: a sync that returns anything but "synced" leaves every
\* path as its editors left it, whatever failed and however far the writing had come.
THEOREM RefusedLeavesNothing == Spec => []RefusedMeansUntouched
<1>1. BridgeInv => RefusedMeansUntouched
    BY DEF BridgeInv
<1> QED BY <1>1, BridgeSafe, PTL

\* A synced candidate holds the executor's result, path by path, and its own content
\* where nothing travels.
THEOREM SyncedHoldsWholeResult == Spec => []SyncedMeansWholeResult
<1>1. BridgeInv => SyncedMeansWholeResult
    BY DEF BridgeInv
<1> QED BY <1>1, BridgeSafe, PTL

\* ADR-017, candidate drift: what somebody changed before the plan is in the
\* candidate at every later step, the half-applied ones and after a crash too.
THEOREM NewerIsKept == Spec => []NewerLocalChangesSurvive
<1>1. BridgeInv => NewerLocalChangesSurvive
    BY DEF BridgeInv, NewerKept, NewerLocalChangesSurvive, Unplanned
<1> QED BY <1>1, BridgeSafe, PTL

\* No archive, whoever wrote it, reaches what is not the project.
THEOREM ProjectOnly == Spec => []OnlyProjectFilesChange
<1>1. BridgeInv => OnlyProjectFilesChange
    BY DEF BridgeInv, NotProject, OnlyProjectFilesChange, Quiet, Early
<1> QED BY <1>1, BridgeSafe, PTL

\* What the promotion gate relies on: a VERIFIED verdict is about the frozen snapshot,
\* and about a candidate and an accepted commit found unmoved.
THEOREM VerifiedIsAudited == Spec => []VerifiedMeansAudited
<1>1. Init => Findings
    BY DEF Init, NoVerdict, Findings
<1>2. BridgeInv /\ Findings => VerifiedMeansAudited
  <2> SUFFICES ASSUME BridgeInv, Findings, verdict.status = "VERIFIED"
               PROVE  /\ status = "completed"
                      /\ artifact \notin Foreign =>
                            \A p \in Path \ Excluded : artifact.body[p] = sent[p]
                      /\ moved["head"] # "early"
                      /\ moved["accepted"] \in {"never", "planned"}
                      /\ (\A p \in Path : edited[p] \in {"never", "early"}) => Select(files) = sent
      BY DEF VerifiedMeansAudited
  <2>1. Valid(artifact, sent) /\ Paths(artifact) = {}
      BY DEF Findings
  <2>2. ASSUME artifact \notin Foreign, NEW p \in Path \ Excluded
        PROVE  artifact.body[p] = sent[p]
    <3> DEFINE b == artifact.body
    <3>1. artifact = Delta(sent, b)
        BY <2>1, <2>2, ValidGroups DEF BridgeInv, Types, FromHelper, LimitReport, NoArtifact
    <3>2. /\ artifact.added = Scan(b) \ Present(sent)
          /\ artifact.changed = {q \in Scan(b) \cap Present(sent) : b[q] # sent[q]}
          /\ artifact.deleted = Present(sent) \ (Scan(b) \cup Excluded)
      <4> HIDE DEF b
      <4> QED BY <3>1 DEF Delta
    <3> QED BY <2>1, <2>2, <3>2 DEF Paths, Scan, Present
  <2> QED BY <2>2 DEF Findings, Early
<1> QED BY <1>1, <1>2, InitBridge, BridgeSafe, FindingsStep, PTL DEF Spec
=============================================================================
