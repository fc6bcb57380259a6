---------------------------- MODULE ControlStore ----------------------------
(***************************************************************************)
(* control/store.py: the tables of the control store and its transactions. *)
(* Every write is one BEGIN IMMEDIATE transaction, so one action; a writer *)
(* reads in a transaction of its own, before, and the time between the two *)
(* belongs to the modules that extend this one.                            *)
(*                                                                         *)
(* A fingerprint stands for the content it is the hash of.  A row holds    *)
(* the record that was written; of its content this module looks at the    *)
(* version, the status, the profile snapshot, the amendments and the used  *)
(* profiles, and the modules that extend it add fields of their own.       *)
(***************************************************************************)
EXTENDS Lifecycle, Integers, Sequences, FiniteSets

CONSTANTS
    WorkOrderId, ProfileId, Project,
    Fingerprint,          \* fingerprints of profiles
    NoRow

VARIABLES
    registry,       \* profile_registry: references of registered profiles
    envelopes,      \* execution_profiles: published profiles of projects
    row,            \* work_orders: the current record of each WorkOrder
    log             \* work_order_events, by rowid

store == <<registry, envelopes, row, log>>

Version == Nat \ {0}
Ref == [profile : ProfileId, version : Version, print : Fingerprint]
Envelope == [project : Project, version : Version, profiles : SUBSET Ref]

----------------------------------------------------------------------------
(* The registry and the profiles of projects: versions follow one another  *)
(* and a version that exists is never written again.  A repetition of what *)
(* is stored changes nothing and everything else is refused.               *)

\* Defect: a version that is there already is written again.
IsKnownOrNext(version, versions) == version = 1 \/ version - 1 \in versions

IsNext(version, versions) ==
    /\ \A other \in versions : other < version
    /\ version = 1 \/ version - 1 \in versions

RegisteredVersions(profile) == { r.version : r \in {q \in registry : q.profile = profile} }
PublishedVersions(project) == { e.version : e \in {f \in envelopes : f.project = project} }

RegisterProfile(ref) ==
    /\ IsNext(ref.version, RegisteredVersions(ref.profile))
    /\ registry' = registry \cup {ref}
    /\ UNCHANGED <<envelopes, row, log>>

SaveProfile(envelope) ==
    /\ envelope.profiles \subseteq registry
    /\ IsNext(envelope.version, PublishedVersions(envelope.project))
    /\ envelopes' = envelopes \cup {envelope}
    /\ UNCHANGED <<registry, row, log>>

----------------------------------------------------------------------------
(* WorkOrders.                                                             *)

Elements(s) == {s[i] : i \in DOMAIN s}
IsExtension(new, old) == Len(new) >= Len(old) /\ \A i \in DOMAIN old : new[i] = old[i]
AddedTo(new, old) == {new[i] : i \in {j \in DOMAIN new : j > Len(old)}}

\* check_evolution, for the fields of this module.
Evolves(old, new) ==
    /\ old.status \in Terminal => new = [old EXCEPT !.version = new.version]
    /\ new.status = old.status \/ <<old.status, new.status>> \in Transition
    /\ IsExtension(new.used, old.used)
    /\ IsExtension(new.amendments, old.amendments)
    /\ new.envelope # old.envelope => new.envelope \in AddedTo(new.amendments, old.amendments)

Entry(id, record, event) ==
    [id |-> id, version |-> record.version, event |-> event, record |-> record]

Write(id, record, event) ==
    /\ row' = [row EXCEPT ![id] = record]
    /\ log' = Append(log, Entry(id, record, event))
    /\ UNCHANGED <<registry, envelopes>>

Create(id, record, event) ==
    /\ row[id] = NoRow
    /\ record.envelope \in envelopes
    /\ Elements(record.used) \subseteq registry
    /\ Write(id, [record EXCEPT !.version = 1], event)

\* Defect: an update does not ask which version is stored.
AnyVersion(id, expected) == row[id] # NoRow

IsCurrent(id, expected) == row[id] # NoRow /\ row[id].version = expected

ProfilesAreKnown(old, new) == AddedTo(new.used, old.used) \subseteq registry

\* The transaction commits; a stale write, and one that is no legal successor
\* of the stored record, is rolled back.
CanUpdate(id, new, expected) ==
    /\ IsCurrent(id, expected)
    /\ LET stored == [new EXCEPT !.version = expected + 1] IN
       /\ Evolves(row[id], stored)
       /\ stored.envelope # row[id].envelope => stored.envelope \in envelopes
       /\ ProfilesAreKnown(row[id], stored)

Update(id, new, expected, event) ==
    IF CanUpdate(id, new, expected)
    THEN Write(id, [new EXCEPT !.version = expected + 1], event)
    ELSE UNCHANGED store

----------------------------------------------------------------------------
(* Properties.                                                             *)

\* One fingerprint per registered version and one content per published one.
VersionsAreUnique ==
    /\ \A r, s \in registry : r.profile = s.profile /\ r.version = s.version => r = s
    /\ \A e, f \in envelopes : e.project = f.project /\ e.version = f.version => e = f

\* Every profile a project binds and every profile any stored version of a
\* WorkOrder used is the registered version, and every snapshot of a project's
\* profile is a published one (V2C-18): the references are never dangling, in
\* whatever order profiles are registered, published, amended and used.
ReferencesHold ==
    /\ \A e \in envelopes : e.profiles \subseteq registry
    /\ \A i \in DOMAIN log : /\ log[i].record.envelope \in envelopes
                             /\ Elements(log[i].record.used) \subseteq registry

\* The event log holds every version of a WorkOrder exactly once, in order,
\* and the row is the last of them, so that replay gives what get returns.
LogIsTheHistory ==
    /\ \A id \in WorkOrderId :
          IF row[id] = NoRow
          THEN \A i \in DOMAIN log : log[i].id # id
          ELSE \E i \in DOMAIN log :
                  /\ log[i].id = id /\ log[i].record = row[id]
                  /\ \A j \in DOMAIN log : log[j].id = id => j <= i
    /\ \A i \in DOMAIN log :
          log[i].version = 1 \/ \E j \in 1..(i - 1) : log[j].id = log[i].id /\ log[j].version = log[i].version - 1
    /\ \A i, j \in DOMAIN log :
          i < j /\ log[i].id = log[j].id => log[i].version < log[j].version
=============================================================================
