------------------------- MODULE OrchestrationProofs -------------------------
(* Proofs about Orchestration, for any number of drivers, WorkOrders,        *)
(* profiles, tasks and versions: the store's log is the history of its rows, *)
(* its references hold, and what was dispatched or stored as promoted was     *)
(* granted by a stored version or accepted by the broker.                    *)
EXTENDS Orchestration, FiniteSetTheorems, TLAPS

USE NoRowAssumption, InputAssumption

-----------------------------------------------------------------------------
(*                        The inductive invariant                          *)

\* A version of the WorkOrder in the log `l` that has the attempt of `g` to give.
GrantedBy(g, l) ==
    \E j \in DOMAIN l :
       /\ l[j].id = g.id /\ l[j].version = g.base
       /\ l[j].record.status = "EXECUTING" /\ l[j].record.block = "PENDING"
       /\ Len(l[j].record.attempts) = g.attempt - 1 /\ l[j].record.failed < MaxAttempts
       /\ g.profile \in l[j].record.envelope.profiles

\* What is so of a WorkOrder in memory and in the store alike.
RecordOK(w, id, accepted) ==
    /\ Elements(w.attempts) \subseteq Elements(w.used)
    /\ w.from # "PROMOTED"
    /\ w.status = "PROMOTED" => id \in accepted

Live == {"sent", "running"}

\* What a driver may rely on, given the log, the tasks and the accepted WorkOrders.
HolderOK(m, l, t, accepted) ==
    m # Idle =>
       /\ RecordOK(m.held, m.id, accepted)
       /\ m.at = "loaded" => /\ ~m.safe
                             /\ \E j \in DOMAIN l : /\ l[j].id = m.id /\ l[j].version = m.base
                                                    /\ l[j].record = m.held
       /\ m.at = "waiting" => ~m.safe /\ m.grant = NoRow /\ m.task \in DOMAIN t
       /\ m.grant # NoRow => GrantedBy(m.grant, l)
       /\ m.safe => m.grant = NoRow /\ m.task \in DOMAIN t /\ t[m.task].state \notin Live

EntryOK(entry, accepted) ==
    /\ entry.record.version = entry.version
    /\ RecordOK(entry.record, entry.id, accepted)

TaskOK(task, l) == GrantedBy(task.grant, l) /\ task.runs = task.grant.profile

LogOK == \A i \in DOMAIN log : EntryOK(log[i], promoted)
TasksOK == \A i \in DOMAIN tasks : TaskOK(tasks[i], log)
HoldersOK == \A d \in Driver : HolderOK(driver[d], log, tasks, promoted)

OrchestrationInv ==
    /\ OrchestrationTypeOK
    /\ LogIsTheHistory /\ VersionsAreUnique /\ ReferencesHold
    /\ LogOK /\ TasksOK /\ HoldersOK

-----------------------------------------------------------------------------
(*                           What only ever grows                          *)

Grows(l, m) == \A i \in DOMAIN l : i \in DOMAIN m /\ m[i] = l[i]

\* Tasks keep their grants, and what has stopped stays stopped.
Advances(t, u) ==
    \A i \in DOMAIN t : /\ i \in DOMAIN u
                        /\ u[i].grant = t[i].grant /\ u[i].runs = t[i].runs
                        /\ t[i].state \notin Live => u[i].state = t[i].state

LEMMA GrantStays ==
    ASSUME NEW g, NEW l, NEW m, Grows(l, m), GrantedBy(g, l)
    PROVE  GrantedBy(g, m)
<1>1. PICK j \in DOMAIN l :
         /\ l[j].id = g.id /\ l[j].version = g.base
         /\ l[j].record.status = "EXECUTING" /\ l[j].record.block = "PENDING"
         /\ Len(l[j].record.attempts) = g.attempt - 1 /\ l[j].record.failed < MaxAttempts
         /\ g.profile \in l[j].record.envelope.profiles
  BY DEF GrantedBy
<1>2. j \in DOMAIN m /\ m[j] = l[j]
  BY DEF Grows
<1> QED
  BY <1>1, <1>2 DEF GrantedBy

LEMMA HolderStays ==
    \A h, l, m, t, u, p, q :
       Grows(l, m) /\ Advances(t, u) /\ p \subseteq q /\ HolderOK(h, l, t, p)
          => HolderOK(h, m, u, q)
<1> SUFFICES ASSUME NEW h, NEW l, NEW m, NEW t, NEW u, NEW p, NEW q,
                    Grows(l, m), Advances(t, u), p \subseteq q, HolderOK(h, l, t, p)
             PROVE  HolderOK(h, m, u, q)
  OBVIOUS
<1>1. CASE h = Idle
  BY <1>1 DEF HolderOK
<1>2. CASE h # Idle
  <2>1. RecordOK(h.held, h.id, q)
    BY <1>2 DEF HolderOK, RecordOK
  <2>2. h.at = "loaded" => /\ ~h.safe
                           /\ \E j \in DOMAIN m : /\ m[j].id = h.id /\ m[j].version = h.base
                                                  /\ m[j].record = h.held
    BY <1>2 DEF HolderOK, Grows
  <2>3. h.at = "waiting" => ~h.safe /\ h.grant = NoRow /\ h.task \in DOMAIN u
    BY <1>2 DEF HolderOK, Advances
  <2>4. h.grant # NoRow => GrantedBy(h.grant, m)
    BY <1>2, GrantStays DEF HolderOK
  <2>5. h.safe => h.grant = NoRow /\ h.task \in DOMAIN u /\ u[h.task].state \notin Live
    BY <1>2 DEF HolderOK, Advances
  <2> QED
    BY <2>1, <2>2, <2>3, <2>4, <2>5 DEF HolderOK
<1> QED
  BY <1>1, <1>2

LEMMA TaskStays ==
    \A task, l, m : Grows(l, m) /\ TaskOK(task, l) => TaskOK(task, m)
  BY GrantStays DEF TaskOK

\* The same tasks, and the same log, are an advance and a growth.
LEMMA Unmoved == \A s : Grows(s, s) /\ Advances(s, s)
  BY DEF Grows, Advances

-----------------------------------------------------------------------------
(*                           The initial states                            *)

\* A nonempty set of positions of a sequence has a last one.
LEMMA LastPosition ==
    ASSUME NEW n \in Nat, NEW T, T \subseteq 1..n, T # {}
    PROVE  \E i \in T : \A j \in T : j <= i
<1> DEFINE F == FiniteSubsetsOf(1..n)
           Up == { i..n : i \in T }
<1>1. IsFiniteSet(1..n)
  BY FS_Interval
<1>2. IsWellFoundedOn(StrictSubsetOrdering(1..n), F)
  BY <1>1, FS_StrictSubsetOrderingWellFounded
<1>3. Up \subseteq F /\ Up # {}
  <2>1. \A i \in T : i..n \in SUBSET (1..n)
    OBVIOUS
  <2>2. \A i \in T : IsFiniteSet(i..n)
    BY <1>1, <2>1, FS_Subset
  <2> QED
    BY <2>1, <2>2 DEF FiniteSubsetsOf
<1>4. PICK X \in Up : \A Y \in Up : <<Y, X>> \notin StrictSubsetOrdering(1..n)
  BY <1>2, <1>3, WFMin
<1>5. PICK i \in T : X = i..n
  OBVIOUS
<1>6. ASSUME NEW j \in T, j > i
      PROVE  FALSE
  <2>1. i \in i..n /\ i \notin j..n /\ j..n \subseteq i..n
    BY <1>6
  <2>2. j..n \in SUBSET (1..n) /\ i..n \in SUBSET (1..n) /\ j..n # i..n
    BY <2>1
  <2>3. <<j..n, i..n>> \in StrictSubsetOrdering(1..n)
    BY <2>1, <2>2 DEF StrictSubsetOrdering
  <2> QED
    BY <1>4, <1>5, <2>3
<1> QED
  BY <1>6

LEMMA InitialInv == Init => OrchestrationInv
<1> SUFFICES ASSUME Init PROVE OrchestrationInv
  OBVIOUS
<1> USE DEF Init
<1>1. /\ log \in Seq(EventEntry)
      /\ \A i \in DOMAIN log :
            /\ log[i].record.version = log[i].version
            /\ log[i].version = 1 \/ \E j \in 1..(i - 1) : /\ log[j].id = log[i].id
                                                         /\ log[j].version = log[i].version - 1
            /\ log[i].record.envelope \in envelopes /\ Elements(log[i].record.used) \subseteq registry
            /\ Elements(log[i].record.attempts) \subseteq Elements(log[i].record.used)
            /\ log[i].record.status # "PROMOTED" /\ log[i].record.from # "PROMOTED"
      /\ \A i, j \in DOMAIN log :
            i < j /\ log[i].id = log[j].id => log[i].version < log[j].version
  <2>1. /\ log \in Histories /\ registry = KnownProfiles /\ envelopes = KnownEnvelopes
    OBVIOUS
  <2> HIDE DEF Init
  <2>2. /\ log \in Seq(EventEntry)
        /\ \A i, j \in DOMAIN log :
              i < j /\ log[i].id = log[j].id => log[i].version < log[j].version
    BY <2>1, StartAssumption
  <2>3. ASSUME NEW i \in DOMAIN log
        PROVE  LET w == log[i].record IN
               /\ w.version = log[i].version
               /\ w.version = 1 \/ \E j \in 1..(i - 1) : /\ log[j].id = log[i].id
                                                       /\ log[j].version = w.version - 1
               /\ w.envelope \in KnownEnvelopes /\ Elements(w.used) \subseteq KnownProfiles
               /\ Elements(w.attempts) \subseteq Elements(w.used)
               /\ w.status # "PROMOTED" /\ w.from # "PROMOTED"
    BY <2>1, StartAssumption
  <2> QED
    BY <2>1, <2>2, <2>3
<1>2. DOMAIN log = 1..Len(log) /\ Len(log) \in Nat /\ \A i \in DOMAIN log : log[i] \in EventEntry
  BY <1>1
<1>3. ASSUME NEW id \in WorkOrderId
      PROVE  IF row[id] = NoRow
             THEN \A i \in DOMAIN log : log[i].id # id
             ELSE \E i \in DOMAIN log :
                     /\ log[i].id = id /\ log[i].record = row[id]
                     /\ \A j \in DOMAIN log : log[j].id = id => j <= i
  <2> DEFINE of == {i \in DOMAIN log : log[i].id = id}
  <2>1. row[id] = IF of = {} THEN NoRow
                  ELSE log[CHOOSE i \in of : \A j \in of : j <= i].record
    BY DEF Latest
  <2>2. CASE of = {}
    BY <2>1, <2>2
  <2>3. CASE of # {}
    <3>1. PICK i \in of : \A j \in of : j <= i
      BY <1>2, <2>3, LastPosition
    <3> DEFINE k == CHOOSE l \in of : \A j \in of : j <= l
    <3>2. k \in of /\ \A j \in of : j <= k
      BY <3>1
    <3>3. row[id] = log[k].record /\ log[k].record \in WorkOrderRecord
      BY <1>2, <2>1, <2>3, <3>2 DEF EventEntry
    <3> QED
      BY <3>2, <3>3
  <2> QED
    BY <2>2, <2>3
<1>4. LogIsTheHistory
  BY <1>1, <1>3 DEF LogIsTheHistory
<1>5. OrchestrationTypeOK
  <2>1. row \in [WorkOrderId -> WorkOrderRecord \cup {NoRow}]
    <3>1. \A id \in WorkOrderId : row[id] \in WorkOrderRecord \cup {NoRow}
      BY <1>2, <1>3 DEF EventEntry
    <3> QED
      BY <3>1
  <2> QED
    BY <1>1, <2>1 DEF OrchestrationTypeOK
<1>6. VersionsAreUnique /\ ReferencesHold
  BY <1>1, StartAssumption DEF VersionsAreUnique, ReferencesHold
<1>7. LogOK
  BY <1>1 DEF LogOK, EntryOK, RecordOK
<1>8. TasksOK /\ HoldersOK
  BY DEF TasksOK, HoldersOK, HolderOK
<1> QED
  BY <1>4, <1>5, <1>6, <1>7, <1>8 DEF OrchestrationInv

-----------------------------------------------------------------------------
(*                        Transactions of the store                        *)

\* What the invariant says of the store alone.
StoreInv ==
    /\ registry \subseteq Ref /\ envelopes \subseteq Envelope
    /\ log \in Seq(EventEntry)
    /\ row \in [WorkOrderId -> WorkOrderRecord \cup {NoRow}]
    /\ LogIsTheHistory /\ VersionsAreUnique /\ ReferencesHold
    /\ LogOK

LEMMA WriteInv ==
    ASSUME StoreInv, NEW id \in WorkOrderId, NEW w \in WorkOrderRecord, NEW event \in {"created", "stored"},
           Write(id, w, event), UNCHANGED promoted,
           RecordOK(w, id, promoted),
           w.envelope \in envelopes, Elements(w.used) \subseteq registry,
           w.version = IF row[id] = NoRow THEN 1 ELSE row[id].version + 1
    PROVE  /\ StoreInv'
           /\ Grows(log, log')
           /\ \E j \in DOMAIN log' : log'[j] = Entry(id, w, event)
<1> DEFINE n == Len(log) + 1
           e == Entry(id, w, event)
<1>1. /\ row' = [row EXCEPT ![id] = w] /\ log' = Append(log, e)
      /\ UNCHANGED <<registry, envelopes>>
  BY DEF Write
<1>2. /\ Len(log) \in Nat /\ DOMAIN log = 1..Len(log)
      /\ \A i \in DOMAIN log : log[i] \in EventEntry
  BY DEF StoreInv
<1>3. e \in EventEntry /\ e.id = id /\ e.version = w.version /\ e.record = w
  BY DEF Entry, EventEntry, WorkOrderRecord
<1>4. /\ log' \in Seq(EventEntry) /\ DOMAIN log' = 1..n /\ log'[n] = e
      /\ \A i \in DOMAIN log : log'[i] = log[i]
  BY <1>1, <1>3 DEF StoreInv
<1> HIDE DEF e
<1>5. Grows(log, log')
  BY <1>2, <1>4 DEF Grows
<1>6. row' \in [WorkOrderId -> WorkOrderRecord \cup {NoRow}]
  BY <1>1 DEF StoreInv
<1>7. w # NoRow /\ row'[id] = w /\ \A other \in WorkOrderId \ {id} : row'[other] = row[other]
  BY <1>1 DEF StoreInv
<1>8. \A i \in DOMAIN log : log[i].id = id => /\ row[id] # NoRow /\ log[i].version \in Nat
                                              /\ log[i].version <= w.version - 1
  <2> SUFFICES ASSUME NEW i \in DOMAIN log, log[i].id = id
               PROVE  /\ row[id] # NoRow /\ log[i].version \in Nat
                      /\ log[i].version <= w.version - 1
    OBVIOUS
  <2>1. row[id] # NoRow
    BY DEF StoreInv, LogIsTheHistory
  <2>2. PICK k \in DOMAIN log : /\ log[k].id = id /\ log[k].record = row[id]
                                /\ \A j \in DOMAIN log : log[j].id = id => j <= k
    BY <2>1 DEF StoreInv, LogIsTheHistory
  <2>3. i <= k /\ i \in Nat /\ k \in Nat
    BY <1>2, <2>2
  <2>4. log[i].version \in Nat /\ log[k].version \in Nat
    BY <1>2 DEF EventEntry, Version
  <2>5. log[k].version = row[id].version
    BY <2>2 DEF StoreInv, LogOK, EntryOK
  <2>6. log[i].version <= log[k].version
    BY <2>2, <2>3, <2>4 DEF StoreInv, LogIsTheHistory
  <2> QED
    BY <2>1, <2>4, <2>5, <2>6
<1>9. w.version = 1 \/ \E j \in 1..(n - 1) : log[j].id = id /\ log[j].version = w.version - 1
  <2>1. CASE row[id] = NoRow
    BY <2>1
  <2>2. CASE row[id] # NoRow
    <3>1. PICK k \in DOMAIN log : log[k].id = id /\ log[k].record = row[id]
      BY <2>2 DEF StoreInv, LogIsTheHistory
    <3>2. log[k].version = row[id].version /\ log[k].version \in Nat
      BY <1>2, <3>1 DEF StoreInv, LogOK, EntryOK, EventEntry, Version
    <3> QED
      BY <1>2, <2>2, <3>1, <3>2
  <2> QED
    BY <2>1, <2>2
<1>10. LogIsTheHistory'
  <2>1. ASSUME NEW other \in WorkOrderId
        PROVE  IF row'[other] = NoRow
               THEN \A i \in DOMAIN log' : log'[i].id # other
               ELSE \E i \in DOMAIN log' :
                       /\ log'[i].id = other /\ log'[i].record = row'[other]
                       /\ \A j \in DOMAIN log' : log'[j].id = other => j <= i
    <3>1. CASE other = id
      <4>1. \A j \in DOMAIN log' : j <= n
        BY <1>2, <1>4
      <4> QED
        BY <1>2, <1>3, <1>4, <1>7, <3>1, <4>1
    <3>2. CASE other # id
      <4>1. row'[other] = row[other] /\ log'[n].id # other
        BY <1>3, <1>4, <1>7, <3>2
      <4>2. \A j \in DOMAIN log' : j = n \/ (j \in DOMAIN log /\ log'[j] = log[j])
        BY <1>2, <1>4
      <4>3. CASE row[other] = NoRow
        BY <4>1, <4>2, <4>3 DEF StoreInv, LogIsTheHistory
      <4>4. CASE row[other] # NoRow
        <5>1. PICK i \in DOMAIN log :
                 /\ log[i].id = other /\ log[i].record = row[other]
                 /\ \A j \in DOMAIN log : log[j].id = other => j <= i
          BY <4>4 DEF StoreInv, LogIsTheHistory
        <5>2. i \in DOMAIN log' /\ log'[i] = log[i]
          BY <1>2, <1>4
        <5>3. \A j \in DOMAIN log' : log'[j].id = other => j <= i
          BY <4>1, <4>2, <5>1
        <5> QED
          BY <4>1, <4>4, <5>1, <5>2, <5>3
      <4> QED
        BY <4>3, <4>4
    <3> QED
      BY <3>1, <3>2
  <2>2. ASSUME NEW i \in DOMAIN log'
        PROVE  log'[i].version = 1 \/ \E j \in 1..(i - 1) :
                  log'[j].id = log'[i].id /\ log'[j].version = log'[i].version - 1
    <3>1. CASE i = n
      BY <1>2, <1>3, <1>4, <1>9, <3>1
    <3>2. CASE i \in DOMAIN log
      <4>1. log[i].version = 1 \/ \E j \in 1..(i - 1) :
               log[j].id = log[i].id /\ log[j].version = log[i].version - 1
        BY <3>2 DEF StoreInv, LogIsTheHistory
      <4>2. 1..(i - 1) \subseteq DOMAIN log
        BY <1>2, <3>2
      <4> QED
        BY <1>4, <3>2, <4>1, <4>2
    <3> QED
      BY <1>2, <1>4, <3>1, <3>2
  <2>3. ASSUME NEW i \in DOMAIN log', NEW j \in DOMAIN log', i < j, log'[i].id = log'[j].id
        PROVE  log'[i].version < log'[j].version
    <3>1. i \in DOMAIN log /\ log'[i] = log[i]
      BY <1>2, <1>4, <2>3
    <3>2. CASE j = n
      <4>1. log[i].id = id /\ log'[j].version = w.version
        BY <1>3, <1>4, <2>3, <3>1, <3>2
      <4>2. w.version \in Nat
        BY DEF WorkOrderRecord, Version
      <4> QED
        BY <1>8, <3>1, <4>1, <4>2
    <3>3. CASE j \in DOMAIN log
      BY <1>4, <2>3, <3>1, <3>3 DEF StoreInv, LogIsTheHistory
    <3> QED
      BY <1>2, <1>4, <3>2, <3>3
  <2> QED
    BY <2>1, <2>2, <2>3 DEF LogIsTheHistory
<1>11. VersionsAreUnique'
  BY <1>1 DEF StoreInv, VersionsAreUnique
<1>12. ReferencesHold'
  <2>1. \A i \in DOMAIN log' : /\ log'[i].record.envelope \in envelopes
                               /\ Elements(log'[i].record.used) \subseteq registry
    BY <1>2, <1>3, <1>4 DEF StoreInv, ReferencesHold
  <2> QED
    BY <1>1, <2>1 DEF StoreInv, ReferencesHold
<1>13. LogOK'
  <2>1. \A i \in DOMAIN log' : EntryOK(log'[i], promoted)
    <3>1. EntryOK(e, promoted)
      BY <1>3 DEF EntryOK
    <3> QED
      BY <1>2, <1>4, <3>1 DEF StoreInv, LogOK
  <2> QED
    BY <2>1 DEF LogOK
<1> QED
  BY <1>1, <1>4, <1>5, <1>6, <1>10, <1>11, <1>12, <1>13 DEF StoreInv, e

-----------------------------------------------------------------------------
(*                              The drivers                                *)

\* What the invariant says beside the store.
RestInv ==
    /\ driver \in [Driver -> DriverRecord \cup {Idle}]
    /\ tasks \in Seq(TaskRecord)
    /\ head \in Nat /\ promoted \subseteq WorkOrderId
    /\ TasksOK /\ HoldersOK

LEMMA TwoParts == OrchestrationInv <=> StoreInv /\ RestInv
  BY DEF OrchestrationInv, StoreInv, RestInv, OrchestrationTypeOK

\* The store stays what it is while more WorkOrders are accepted.
LEMMA StoreStays ==
    ASSUME StoreInv, UNCHANGED store, promoted \subseteq promoted'
    PROVE  StoreInv'
<1>1. /\ VersionsAreUnique' /\ ReferencesHold' /\ LogIsTheHistory'
  BY DEF StoreInv, store, VersionsAreUnique, ReferencesHold, LogIsTheHistory
<1>2. LogOK'
  BY DEF StoreInv, store, LogOK, EntryOK, RecordOK
<1> QED
  BY <1>1, <1>2 DEF StoreInv, store

\* One driver, or none, has a new state; the others keep theirs.
LEMMA HolderInv ==
    ASSUME RestInv, NEW d \in Driver, NEW m \in DriverRecord \cup {Idle},
           driver' = [driver EXCEPT ![d] = m],
           Grows(log, log'), Advances(tasks, tasks'), promoted \subseteq promoted',
           HolderOK(m, log', tasks', promoted')
    PROVE  driver' \in [Driver -> DriverRecord \cup {Idle}] /\ HoldersOK'
<1>1. driver' \in [Driver -> DriverRecord \cup {Idle}]
  BY DEF RestInv
<1>2. ASSUME NEW c \in Driver
      PROVE  HolderOK(driver'[c], log', tasks', promoted')
  <2>1. CASE c = d
    <3>1. driver'[c] = m
      BY <2>1 DEF RestInv
    <3> QED
      BY <3>1
  <2>2. CASE c # d
    <3>1. driver'[c] = driver[c]
      BY <2>2 DEF RestInv
    <3>2. HolderOK(driver[c], log, tasks, promoted)
      BY DEF RestInv, HoldersOK
    <3> QED
      BY <3>1, <3>2, HolderStays
  <2> QED
    BY <2>1, <2>2
<1> QED
  BY <1>1, <1>2 DEF HoldersOK

LEMMA OthersStay ==
    ASSUME RestInv, UNCHANGED driver,
           Grows(log, log'), Advances(tasks, tasks'), promoted \subseteq promoted'
    PROVE  HoldersOK'
<1>1. ASSUME NEW c \in Driver
      PROVE  HolderOK(driver'[c], log', tasks', promoted')
  <2>1. HolderOK(driver[c], log, tasks, promoted)
    BY DEF RestInv, HoldersOK
  <2> QED
    BY <2>1, HolderStays
<1> QED
  BY <1>1 DEF HoldersOK

LEMMA TasksStay ==
    ASSUME RestInv, UNCHANGED tasks, Grows(log, log')
    PROVE  TasksOK'
<1>1. \A i \in DOMAIN tasks : TaskOK(tasks[i], log')
  BY TaskStays DEF RestInv, TasksOK
<1> QED
  BY <1>1 DEF TasksOK

\* A step that changes the state of one driver and nothing else.
LEMMA QuietInv ==
    ASSUME OrchestrationInv, NEW d \in Driver, NEW m \in DriverRecord \cup {Idle},
           driver' = [driver EXCEPT ![d] = m], Quietly,
           HolderOK(m, log, tasks, promoted)
    PROVE  OrchestrationInv'
<1>1. StoreInv /\ RestInv
  BY TwoParts
<1>2. Grows(log, log') /\ Advances(tasks, tasks')
  BY Unmoved DEF Quietly, store
<1>3. StoreInv'
  BY <1>1, StoreStays DEF Quietly
<1>4. HolderOK(m, log', tasks', promoted')
  BY DEF Quietly, store
<1>5. driver' \in [Driver -> DriverRecord \cup {Idle}] /\ HoldersOK'
  BY <1>1, <1>2, <1>4, HolderInv DEF Quietly
<1>6. TasksOK'
  BY <1>1, <1>2, TasksStay DEF Quietly
<1>7. RestInv'
  BY <1>1, <1>5, <1>6 DEF RestInv, Quietly
<1>8. (StoreInv /\ RestInv)' => OrchestrationInv'
  BY TwoParts, PTL
<1> QED
  BY <1>3, <1>7, <1>8

\* An operation on the WorkOrder that a driver has loaded.
LEMMA OperateInv ==
    ASSUME OrchestrationInv, NEW d \in Driver, driver[d].at = "loaded",
           NEW new \in WorkOrderRecord, RecordOK(new, driver[d].id, promoted),
           Operate(d, new)
    PROVE  OrchestrationInv'
<1> DEFINE m == [driver[d] EXCEPT !.held = new, !.at = "changed"]
<1>1. driver[d] \in DriverRecord /\ driver[d] # Idle
  BY DEF OrchestrationInv, OrchestrationTypeOK, Idle
<1>2. m \in DriverRecord /\ m # Idle
  BY <1>1 DEF DriverRecord, Idle
<1>3. driver' = [driver EXCEPT ![d] = m] /\ Quietly
  BY DEF Operate
<1>4. HolderOK(driver[d], log, tasks, promoted)
  BY DEF OrchestrationInv, HoldersOK
<1>5. HolderOK(m, log, tasks, promoted)
  <2>1. /\ m.held = new /\ m.id = driver[d].id /\ m.at = "changed"
        /\ m.grant = driver[d].grant /\ m.safe = driver[d].safe
    BY <1>1 DEF DriverRecord
  <2> HIDE DEF m
  <2>2. ~driver[d].safe /\ (driver[d].grant # NoRow => GrantedBy(driver[d].grant, log))
    BY <1>1, <1>4 DEF HolderOK
  <2> QED
    BY <2>1, <2>2 DEF HolderOK
<1> QED
  BY <1>2, <1>3, <1>5, QuietInv

\* A driver that has loaded a WorkOrder holds a stored version of it.
LEMMA LoadedIsStored ==
    ASSUME OrchestrationInv, NEW d \in Driver, driver[d].at = "loaded"
    PROVE  /\ driver[d] \in DriverRecord /\ driver[d] # Idle
           /\ Held(d) \in WorkOrderRecord /\ RecordOK(Held(d), driver[d].id, promoted)
           /\ ~driver[d].safe
           /\ \E j \in DOMAIN log : /\ log[j].id = driver[d].id /\ log[j].version = driver[d].base
                                    /\ log[j].record = Held(d)
<1>1. driver[d] \in DriverRecord /\ driver[d] # Idle
  BY DEF OrchestrationInv, OrchestrationTypeOK, Idle
<1>2. Held(d) \in WorkOrderRecord
  BY <1>1 DEF DriverRecord, Held
<1>3. HolderOK(driver[d], log, tasks, promoted)
  BY DEF OrchestrationInv, HoldersOK
<1> QED
  BY <1>1, <1>2, <1>3 DEF HolderOK, Held

LEMMA RaiseOK ==
    ASSUME NEW w \in WorkOrderRecord, NEW code \in Code, NEW id, NEW accepted,
           w.status # "PROMOTED", RecordOK(w, id, accepted)
    PROVE  Raise(w, code) \in WorkOrderRecord /\ RecordOK(Raise(w, code), id, accepted)
<1>1. Attention \in Status /\ Attention # "PROMOTED"
  BY DEF Attention, Status
<1>2. CASE w.status = Attention
  BY <1>2 DEF Raise, WorkOrderRecord, RecordOK
<1>3. CASE w.status # Attention
  BY <1>1, <1>3 DEF Raise, WorkOrderRecord, RecordOK
<1> QED
  BY <1>2, <1>3

-----------------------------------------------------------------------------
(*                      The operations of a driver                         *)

LEMMA LoadInv ==
    ASSUME OrchestrationInv, NEW d \in Driver, NEW id \in WorkOrderId, Load(d, id)
    PROVE  OrchestrationInv'
<1> DEFINE m == [at |-> "loaded", id |-> id, base |-> row[id].version, held |-> row[id],
                 grant |-> NoRow, task |-> 0, safe |-> FALSE]
<1>1. row[id] # NoRow /\ row[id] \in WorkOrderRecord
  BY DEF Load, OrchestrationInv, OrchestrationTypeOK
<1>2. PICK j \in DOMAIN log : log[j].id = id /\ log[j].record = row[id]
  BY <1>1 DEF OrchestrationInv, LogIsTheHistory
<1>3. log[j].version = row[id].version /\ RecordOK(row[id], id, promoted)
  BY <1>2 DEF OrchestrationInv, LogOK, EntryOK
<1>4. m \in DriverRecord
  BY <1>1 DEF DriverRecord, WorkOrderRecord
<1>5. HolderOK(m, log, tasks, promoted)
  BY <1>2, <1>3 DEF HolderOK
<1>6. driver' = [driver EXCEPT ![d] = m] /\ Quietly
  BY DEF Load, Quietly
<1> QED
  BY <1>4, <1>5, <1>6, QuietInv

LEMMA StartIntakeInv ==
    ASSUME OrchestrationInv, NEW d \in Driver, StartIntake(d)
    PROVE  OrchestrationInv'
<1> DEFINE new == [Held(d) EXCEPT !.status = "CONTEXT_INTAKE", !.baseline = head]
<1>1. driver[d].at = "loaded" /\ Operate(d, new)
  BY DEF StartIntake, Loaded
<1>2. head \in Nat
  BY DEF OrchestrationInv, OrchestrationTypeOK
<1>3. Held(d) \in WorkOrderRecord /\ RecordOK(Held(d), driver[d].id, promoted)
  BY <1>1, LoadedIsStored
<1>4. new \in WorkOrderRecord /\ RecordOK(new, driver[d].id, promoted)
  BY <1>2, <1>3 DEF WorkOrderRecord, RecordOK, Status
<1> QED
  BY <1>1, <1>4, OperateInv

LEMMA StartExecutionInv ==
    ASSUME OrchestrationInv, NEW d \in Driver, StartExecution(d)
    PROVE  OrchestrationInv'
<1> DEFINE new == IF Drifted(Held(d)) THEN Raise(Held(d), "BASELINE_DRIFT")
                  ELSE [Held(d) EXCEPT !.status = "EXECUTING"]
<1>1. driver[d].at = "loaded" /\ Operate(d, new) /\ Held(d).status = "PLAN_APPROVED"
  BY DEF StartExecution, Loaded
<1>2. Held(d) \in WorkOrderRecord /\ RecordOK(Held(d), driver[d].id, promoted)
  BY <1>1, LoadedIsStored
<1>3. new \in WorkOrderRecord /\ RecordOK(new, driver[d].id, promoted)
  <2>1. CASE Drifted(Held(d))
    BY <1>1, <1>2, <2>1, RaiseOK DEF Code
  <2>2. CASE ~Drifted(Held(d))
    BY <1>1, <1>2, <2>2 DEF WorkOrderRecord, RecordOK, Status
  <2> QED
    BY <2>1, <2>2
<1> QED
  BY <1>1, <1>3, OperateInv

LEMMA FinishRunInv ==
    ASSUME OrchestrationInv, NEW d \in Driver, FinishRun(d)
    PROVE  OrchestrationInv'
<1> DEFINE new == [Held(d) EXCEPT !.block = "TESTING"]
<1>1. driver[d].at = "loaded" /\ Operate(d, new)
  BY DEF FinishRun, Loaded
<1>2. Held(d) \in WorkOrderRecord /\ RecordOK(Held(d), driver[d].id, promoted)
  BY <1>1, LoadedIsStored
<1>3. new \in WorkOrderRecord /\ RecordOK(new, driver[d].id, promoted)
  BY <1>2 DEF WorkOrderRecord, RecordOK, BlockStatus
<1> QED
  BY <1>1, <1>3, OperateInv

LEMMA FailAttemptInv ==
    ASSUME OrchestrationInv, NEW d \in Driver, FailAttempt(d)
    PROVE  OrchestrationInv'
<1> DEFINE new == IF Failed(Held(d)).failed < MaxAttempts THEN Failed(Held(d))
                  ELSE Raise(Failed(Held(d)), "ATTEMPTS_EXHAUSTED")
<1>1. driver[d].at = "loaded" /\ Operate(d, new) /\ Held(d).status = "EXECUTING"
  BY DEF FailAttempt, Loaded
<1>2. /\ Failed(Held(d)) \in WorkOrderRecord /\ RecordOK(Failed(Held(d)), driver[d].id, promoted)
      /\ Failed(Held(d)).status = "EXECUTING"
  <2>1. Held(d) \in WorkOrderRecord /\ RecordOK(Held(d), driver[d].id, promoted)
    BY <1>1, LoadedIsStored
  <2>2. Held(d).failed + 1 \in Nat
    BY <2>1 DEF WorkOrderRecord
  <2>3. Failed(Held(d)) = [Held(d) EXCEPT !.block = "PENDING", !.failed = Held(d).failed + 1]
    BY <2>1 DEF Failed, WorkOrderRecord
  <2> QED
    BY <1>1, <2>1, <2>2, <2>3 DEF WorkOrderRecord, RecordOK, BlockStatus
<1>3. new \in WorkOrderRecord /\ RecordOK(new, driver[d].id, promoted)
  BY <1>2, RaiseOK DEF Code
<1> QED
  BY <1>1, <1>3, OperateInv

LEMMA ClosedOK ==
    ASSUME NEW w \in WorkOrderRecord, NEW target \in Status, NEW id, NEW accepted,
           target # "PROMOTED", RecordOK(w, id, accepted)
    PROVE  Closed(w, target) \in WorkOrderRecord /\ RecordOK(Closed(w, target), id, accepted)
  BY DEF Closed, WorkOrderRecord, RecordOK

LEMMA ResumeInv ==
    ASSUME OrchestrationInv, NEW d \in Driver, Resume(d)
    PROVE  OrchestrationInv'
<1> DEFINE w == Held(d)
           new == IF w.from \in NeedsBaseline /\ Drifted(w) THEN Raise(w, "BASELINE_DRIFT")
                  ELSE Closed(w, w.from)
<1>1. driver[d].at = "loaded" /\ Operate(d, new) /\ w.status = Attention
  BY DEF Resume, Loaded
<1>2. w \in WorkOrderRecord /\ RecordOK(w, driver[d].id, promoted)
  BY <1>1, LoadedIsStored
<1>3. w.status # "PROMOTED" /\ w.from \in Status /\ w.from # "PROMOTED"
  BY <1>1, <1>2 DEF Attention, WorkOrderRecord, RecordOK
<1>4. new \in WorkOrderRecord /\ RecordOK(new, driver[d].id, promoted)
  BY <1>2, <1>3, RaiseOK, ClosedOK DEF Code
<1> QED
  BY <1>1, <1>4, OperateInv

LEMMA AbortInv ==
    ASSUME OrchestrationInv, NEW d \in Driver, Abort(d)
    PROVE  OrchestrationInv'
<1>1. driver[d].at = "loaded" /\ Operate(d, Closed(Held(d), "ABORTED"))
  BY DEF Abort, Loaded
<1>2. /\ Closed(Held(d), "ABORTED") \in WorkOrderRecord
      /\ RecordOK(Closed(Held(d), "ABORTED"), driver[d].id, promoted)
  BY <1>1, LoadedIsStored, ClosedOK DEF Status
<1> QED
  BY <1>1, <1>2, OperateInv

LEMMA ChangeAgentInv ==
    ASSUME OrchestrationInv, NEW d \in Driver, NEW envelope \in Envelope, ChangeAgent(d, envelope)
    PROVE  OrchestrationInv'
<1> DEFINE new == [Held(d) EXCEPT !.envelope = envelope, !.amendments = Append(@, envelope),
                                  !.open = @ \ {"AGENT_UNAVAILABLE", "INDEPENDENCE_UNAVAILABLE"}]
<1>1. driver[d].at = "loaded" /\ Operate(d, new)
  BY DEF ChangeAgent, Loaded
<1>2. Held(d) \in WorkOrderRecord /\ RecordOK(Held(d), driver[d].id, promoted)
  BY <1>1, LoadedIsStored
<1>3. /\ Append(Held(d).amendments, envelope) \in Seq(Envelope)
      /\ Held(d).open \ {"AGENT_UNAVAILABLE", "INDEPENDENCE_UNAVAILABLE"} \in SUBSET Code
  BY <1>2 DEF WorkOrderRecord
<1>4. new \in WorkOrderRecord /\ RecordOK(new, driver[d].id, promoted)
  BY <1>2, <1>3 DEF WorkOrderRecord, RecordOK
<1> QED
  BY <1>1, <1>4, OperateInv

LEMMA BeginRefusedInv ==
    ASSUME OrchestrationInv, NEW d \in Driver, NEW ref \in Ref, BeginRefused(d, ref)
    PROVE  OrchestrationInv'
<1> DEFINE code == IF Held(d).failed >= MaxAttempts THEN "ATTEMPTS_EXHAUSTED"
                   ELSE "INDEPENDENCE_UNAVAILABLE"
<1>1. driver[d].at = "loaded" /\ Operate(d, Raise(Held(d), code)) /\ Held(d).status = "EXECUTING"
  BY DEF BeginRefused, Loaded
<1>2. code \in Code
  BY DEF Code
<1>3. /\ Raise(Held(d), code) \in WorkOrderRecord
      /\ RecordOK(Raise(Held(d), code), driver[d].id, promoted)
  BY <1>1, <1>2, LoadedIsStored, RaiseOK
<1> QED
  BY <1>1, <1>3, OperateInv

LEMMA CrashInv ==
    ASSUME OrchestrationInv, NEW d \in Driver, Crash(d)
    PROVE  OrchestrationInv'
<1>1. driver' = [driver EXCEPT ![d] = Idle] /\ Quietly
  BY DEF Crash
<1>2. HolderOK(Idle, log, tasks, promoted)
  BY DEF HolderOK
<1> QED
  BY <1>1, <1>2, QuietInv

\* An attempt that is begun is of a profile on record as used.
LEMMA BegunOK ==
    ASSUME NEW w \in WorkOrderRecord, NEW ref \in Ref, NEW id, NEW accepted, RecordOK(w, id, accepted)
    PROVE  Begun(w, ref) \in WorkOrderRecord /\ RecordOK(Begun(w, ref), id, accepted)
<1> DEFINE used == IF ref \in Elements(w.used) THEN w.used ELSE Append(w.used, ref)
<1>1. w.attempts \in Seq(Ref) /\ w.used \in Seq(Ref)
  BY DEF WorkOrderRecord
<1>2. Append(w.attempts, ref) \in Seq(Ref) /\ used \in Seq(Ref)
  BY <1>1
<1>3. Elements(Append(w.attempts, ref)) \subseteq Elements(w.attempts) \cup {ref}
  BY <1>1 DEF Elements
<1>4. Elements(w.used) \cup {ref} \subseteq Elements(used)
  <2>1. CASE ref \in Elements(w.used)
    BY <2>1
  <2>2. CASE ref \notin Elements(w.used)
    <3>1. /\ Append(w.used, ref)[Len(w.used) + 1] = ref
          /\ Len(w.used) + 1 \in DOMAIN Append(w.used, ref)
          /\ \A i \in DOMAIN w.used : /\ i \in DOMAIN Append(w.used, ref)
                                      /\ Append(w.used, ref)[i] = w.used[i]
      BY <1>1
    <3> QED
      BY <2>2, <3>1 DEF Elements
  <2> QED
    BY <2>1, <2>2
<1>5. Begun(w, ref) = [w EXCEPT !.block = "RUNNING", !.attempts = Append(w.attempts, ref),
                                !.used = used]
  BY DEF Begun, WorkOrderRecord
<1> HIDE DEF used
<1>6. Begun(w, ref) \in WorkOrderRecord
  BY <1>2, <1>5 DEF WorkOrderRecord, BlockStatus
<1>7. /\ Begun(w, ref).attempts = Append(w.attempts, ref) /\ Begun(w, ref).used = used
      /\ Begun(w, ref).from = w.from /\ Begun(w, ref).status = w.status
  BY <1>5 DEF WorkOrderRecord
<1>8. Elements(Begun(w, ref).attempts) \subseteq Elements(Begun(w, ref).used)
  BY <1>3, <1>4, <1>7 DEF RecordOK
<1> QED
  BY <1>6, <1>7, <1>8 DEF RecordOK

\* A grant made of what is loaded is a grant of a stored version.
LEMMA GrantOK ==
    ASSUME OrchestrationInv, NEW d \in Driver, NEW ref \in Ref,
           driver[d].at = "loaded", MayBegin(Held(d), ref)
    PROVE  Grant(d, ref) \in GrantRecord /\ GrantedBy(Grant(d, ref), log)
<1>1. PICK j \in DOMAIN log : /\ log[j].id = driver[d].id /\ log[j].version = driver[d].base
                              /\ log[j].record = Held(d)
  BY LoadedIsStored
<1>2. driver[d] \in DriverRecord /\ Held(d) \in WorkOrderRecord
  BY LoadedIsStored
<1>3. Len(Held(d).attempts) \in Nat
  BY <1>2 DEF WorkOrderRecord
<1>4. Grant(d, ref) \in GrantRecord
  BY <1>2, <1>3 DEF Grant, GrantRecord, DriverRecord
<1>5. Grant(d, ref).attempt - 1 = Len(Held(d).attempts)
  BY <1>3 DEF Grant
<1> QED
  BY <1>1, <1>4, <1>5 DEF GrantedBy, Grant, MayBegin

LEMMA AuthorizeInv ==
    ASSUME OrchestrationInv, NEW d \in Driver, NEW ref \in Ref, Authorize(d, ref)
    PROVE  OrchestrationInv'
<1> DEFINE me == driver[d]
           m == [me EXCEPT !.held = Begun(Held(d), ref), !.at = "changed", !.grant = Grant(d, ref)]
<1>1. /\ me.at = "loaded" /\ MayBegin(Held(d), ref) /\ Quietly
      /\ driver' = [driver EXCEPT ![d].held = Begun(@, ref), ![d].at = "changed",
                                  ![d].grant = Grant(d, ref)]
  BY DEF Authorize
<1>2. /\ me \in DriverRecord /\ Held(d) \in WorkOrderRecord /\ ~me.safe
      /\ RecordOK(Held(d), me.id, promoted)
  BY <1>1, LoadedIsStored
<1>3. /\ Begun(Held(d), ref) \in WorkOrderRecord /\ RecordOK(Begun(Held(d), ref), me.id, promoted)
  BY <1>2, BegunOK
<1>4. Grant(d, ref) \in GrantRecord /\ GrantedBy(Grant(d, ref), log)
  BY <1>1, GrantOK
<1>5. driver' = [driver EXCEPT ![d] = m]
  BY <1>1, <1>2 DEF OrchestrationInv, OrchestrationTypeOK, DriverRecord, Held
<1>6. m \in DriverRecord /\ /\ m.held = Begun(Held(d), ref) /\ m.id = me.id /\ m.at = "changed"
                            /\ m.grant = Grant(d, ref) /\ ~m.safe
  BY <1>2, <1>3, <1>4 DEF DriverRecord
<1> HIDE DEF m
<1>7. HolderOK(m, log, tasks, promoted)
  BY <1>3, <1>4, <1>6 DEF HolderOK
<1> QED
  BY <1>1, <1>5, <1>6, <1>7, QuietInv

-----------------------------------------------------------------------------
(*                 Tasks, answers, the gate and the store                  *)

\* The invariant after a step is its two parts after it.
LEMMA PartsAfter == StoreInv' /\ RestInv' => OrchestrationInv'
<1>1. (StoreInv /\ RestInv)' => OrchestrationInv'
  BY TwoParts, PTL
<1> QED
  BY <1>1

\* A task that is sent under a grant runs what was granted.
LEMMA SendInv ==
    ASSUME OrchestrationInv, NEW d \in Driver, NEW grant \in GrantRecord, NEW runs,
           NEW m \in DriverRecord, Send(d, grant, runs),
           runs # NoRow => runs = grant.profile,
           GrantedBy(grant, log),
           driver' = [driver EXCEPT ![d] = m],
           m.at = "waiting", ~m.safe, m.grant = NoRow, m.task = Len(tasks'),
           RecordOK(m.held, m.id, promoted)
    PROVE  OrchestrationInv'
<1> DEFINE e == [grant |-> grant, runs |-> runs, state |-> "sent"]
<1>1. /\ runs # NoRow /\ tasks' = Append(tasks, e) /\ UNCHANGED <<store, head, promoted>>
  BY DEF Send
<1>2. StoreInv /\ RestInv
  BY TwoParts
<1>3. e \in TaskRecord
  BY <1>1 DEF TaskRecord, GrantRecord
<1>4. /\ Len(tasks) \in Nat /\ DOMAIN tasks = 1..Len(tasks)
      /\ tasks' \in Seq(TaskRecord) /\ Len(tasks') = Len(tasks) + 1
      /\ DOMAIN tasks' = 1..(Len(tasks) + 1)
      /\ tasks'[Len(tasks) + 1] = e /\ \A i \in DOMAIN tasks : tasks'[i] = tasks[i]
  BY <1>1, <1>2, <1>3 DEF RestInv
<1>5. TaskOK(e, log)
  BY <1>1 DEF TaskOK
<1> HIDE DEF e
<1>6. Advances(tasks, tasks')
  BY <1>4 DEF Advances
<1>7. Grows(log, log') /\ log' = log /\ promoted' = promoted
  BY <1>1, Unmoved DEF store
<1>8. HolderOK(m, log', tasks', promoted')
  BY <1>4, <1>7 DEF HolderOK
<1>9. driver' \in [Driver -> DriverRecord \cup {Idle}] /\ HoldersOK'
  BY <1>2, <1>6, <1>7, <1>8, HolderInv
<1>10. TasksOK'
  <2>1. \A i \in DOMAIN tasks' : TaskOK(tasks'[i], log)
    BY <1>2, <1>4, <1>5 DEF RestInv, TasksOK
  <2> QED
    BY <1>7, <2>1 DEF TasksOK
<1>11. RestInv'
  BY <1>1, <1>2, <1>4, <1>9, <1>10 DEF RestInv
<1> QED
  BY <1>1, <1>2, <1>7, <1>11, StoreStays, PartsAfter

LEMMA DispatchAttemptInv ==
    ASSUME OrchestrationInv, NEW d \in Driver, NEW ref \in Ref, NEW request,
           DispatchAttempt(d, ref, request)
    PROVE  OrchestrationInv'
<1> DEFINE me == driver[d]
           n == Len(tasks')
           m == [me EXCEPT !.held = Begun(Held(d), ref), !.at = "waiting", !.task = n]
<1>1. /\ me.at = "loaded" /\ me.grant = NoRow /\ MayBegin(Held(d), ref)
      /\ Send(d, Grant(d, ref), TaskOf(ref, request))
      /\ driver' = [driver EXCEPT ![d].held = Begun(@, ref), ![d].at = "waiting", ![d].task = n]
  BY DEF DispatchAttempt
<1>2. /\ me \in DriverRecord /\ Held(d) \in WorkOrderRecord /\ ~me.safe
      /\ RecordOK(Held(d), me.id, promoted)
  BY <1>1, LoadedIsStored
<1>3. /\ Begun(Held(d), ref) \in WorkOrderRecord /\ RecordOK(Begun(Held(d), ref), me.id, promoted)
  BY <1>2, BegunOK
<1>4. Grant(d, ref) \in GrantRecord /\ GrantedBy(Grant(d, ref), log)
  BY <1>1, GrantOK
<1>5. n \in Nat
  BY <1>1 DEF Send, OrchestrationInv, OrchestrationTypeOK
<1>6. driver' = [driver EXCEPT ![d] = m]
  BY <1>1, <1>2 DEF OrchestrationInv, OrchestrationTypeOK, DriverRecord, Held
<1> HIDE DEF n
<1>7. /\ m \in DriverRecord /\ m.held = Begun(Held(d), ref) /\ m.id = me.id /\ m.at = "waiting"
      /\ m.grant = NoRow /\ ~m.safe /\ m.task = n
  BY <1>1, <1>2, <1>3, <1>5 DEF DriverRecord
<1>8. TaskOf(ref, request) # NoRow => TaskOf(ref, request) = Grant(d, ref).profile
  BY DEF TaskOf, Grant
<1> HIDE DEF m
<1> QED
  BY <1>1, <1>3, <1>4, <1>6, <1>7, <1>8, SendInv DEF n

LEMMA RunAuthorizedInv ==
    ASSUME OrchestrationInv, NEW d \in Driver, RunAuthorized(d)
    PROVE  OrchestrationInv'
<1> DEFINE me == driver[d]
           n == Len(tasks')
           m == [me EXCEPT !.at = "waiting", !.task = n, !.grant = NoRow]
<1>1. /\ me.at \in {"loaded", "changed"} /\ me.grant # NoRow
      /\ Send(d, me.grant, TaskOf(me.grant.profile, NoRow))
      /\ driver' = [driver EXCEPT ![d].at = "waiting", ![d].task = n, ![d].grant = NoRow]
  BY DEF RunAuthorized
<1>2. me \in DriverRecord /\ me # Idle /\ HolderOK(me, log, tasks, promoted)
  BY <1>1 DEF OrchestrationInv, OrchestrationTypeOK, HoldersOK, Idle
<1>3. /\ me.grant \in GrantRecord /\ GrantedBy(me.grant, log) /\ ~me.safe
      /\ RecordOK(me.held, me.id, promoted)
  BY <1>1, <1>2 DEF HolderOK, DriverRecord
<1>4. n \in Nat
  BY <1>1 DEF Send, OrchestrationInv, OrchestrationTypeOK
<1>5. driver' = [driver EXCEPT ![d] = m]
  BY <1>1, <1>2 DEF OrchestrationInv, OrchestrationTypeOK, DriverRecord
<1> HIDE DEF n
<1>6. /\ m \in DriverRecord /\ m.held = me.held /\ m.id = me.id /\ m.at = "waiting"
      /\ m.grant = NoRow /\ ~m.safe /\ m.task = n
  BY <1>2, <1>3, <1>4 DEF DriverRecord
<1>7. TaskOf(me.grant.profile, NoRow) # NoRow
         => TaskOf(me.grant.profile, NoRow) = me.grant.profile
  BY DEF TaskOf
<1> HIDE DEF m
<1> QED
  BY <1>1, <1>3, <1>5, <1>6, <1>7, SendInv DEF n

LEMMA TaskMovesInv ==
    ASSUME OrchestrationInv, NEW i \in DOMAIN tasks, TaskMoves(i)
    PROVE  OrchestrationInv'
<1>1. PICK step \in {<<"sent", "refused">>, <<"sent", "running">>} \cup {"running"} \X Endings :
         tasks[i].state = step[1] /\ tasks' = [tasks EXCEPT ![i].state = step[2]]
  BY DEF TaskMoves
<1>2. step[1] \in Live /\ step[2] \in {"refused", "running"} \cup Endings
  BY DEF Live
<1>3. StoreInv /\ RestInv
  BY TwoParts
<1>4. DOMAIN tasks' = DOMAIN tasks /\ DOMAIN tasks = 1..Len(tasks) /\ tasks[i] \in TaskRecord
  BY <1>1, <1>3 DEF RestInv
<1>5. /\ tasks'[i] = [tasks[i] EXCEPT !.state = step[2]]
      /\ \A j \in DOMAIN tasks \ {i} : tasks'[j] = tasks[j]
  BY <1>1, <1>3 DEF RestInv
<1>6. /\ tasks'[i] \in TaskRecord /\ tasks'[i].grant = tasks[i].grant
      /\ tasks'[i].runs = tasks[i].runs
  BY <1>2, <1>4, <1>5 DEF TaskRecord
<1>7. tasks' \in Seq(TaskRecord)
  BY <1>1, <1>3, <1>4, <1>5, <1>6 DEF RestInv
<1>8. Advances(tasks, tasks')
  BY <1>1, <1>2, <1>4, <1>5, <1>6 DEF Advances
<1>9. UNCHANGED <<store, driver, head, promoted>> /\ Grows(log, log') /\ log' = log
  BY Unmoved DEF TaskMoves, store
<1>10. HoldersOK'
  BY <1>3, <1>8, <1>9, OthersStay
<1>11. TasksOK'
  <2>1. \A j \in DOMAIN tasks' : TaskOK(tasks'[j], log)
    BY <1>3, <1>4, <1>5, <1>6 DEF RestInv, TasksOK, TaskOK
  <2> QED
    BY <1>9, <2>1 DEF TasksOK
<1>12. RestInv'
  BY <1>3, <1>7, <1>9, <1>10, <1>11 DEF RestInv
<1> QED
  BY <1>3, <1>9, <1>12, StoreStays, PartsAfter

\* A failure that was observed is that of a task the runtime has stopped or refused.
LEMMA SafeIsStopped ==
    ASSUME NEW answer \in Answers, NEW state, Fits(answer, state),
           OutcomeOf(answer) \in TerminalObserved
    PROVE  state \notin Live
  BY DEF Answers, Results, Fits, OutcomeOf, TerminalObserved, Live

LEMMA AnswerInv ==
    ASSUME OrchestrationInv, NEW d \in Driver, NEW answer \in Answers, Answer(d, answer)
    PROVE  OrchestrationInv'
<1> DEFINE me == driver[d]
           new == IF OutcomeOf(answer) \in FailureStatuses /\ CanRaise(me.held)
                  THEN Raise(me.held, "AGENT_UNAVAILABLE") ELSE me.held
           safe == OutcomeOf(answer) \in TerminalObserved
           m == [me EXCEPT !.at = "changed", !.held = new, !.safe = safe]
<1>1. /\ me.at = "waiting" /\ Fits(answer, tasks[me.task].state) /\ Quietly
      /\ driver' = [driver EXCEPT
             ![d].at = "changed",
             ![d].held = IF OutcomeOf(answer) \in FailureStatuses /\ CanRaise(@)
                         THEN Raise(@, "AGENT_UNAVAILABLE") ELSE @,
             ![d].safe = safe]
  BY DEF Answer
<1>2. me \in DriverRecord /\ me # Idle /\ HolderOK(me, log, tasks, promoted)
  BY <1>1 DEF OrchestrationInv, OrchestrationTypeOK, HoldersOK, Idle
<1>3. /\ me.held \in WorkOrderRecord /\ RecordOK(me.held, me.id, promoted)
      /\ me.grant = NoRow /\ me.task \in DOMAIN tasks
  BY <1>1, <1>2 DEF HolderOK, DriverRecord
<1>4. new \in WorkOrderRecord /\ RecordOK(new, me.id, promoted)
  <2>1. CanRaise(me.held) => me.held.status # "PROMOTED"
    BY DEF CanRaise, AttentionSources, Attention
  <2> QED
    BY <1>3, <2>1, RaiseOK DEF Code
<1>5. safe => tasks[me.task].state \notin Live
  BY <1>1, SafeIsStopped
<1>6. safe \in BOOLEAN
  OBVIOUS
<1>7. driver' = [driver EXCEPT ![d] = m]
  BY <1>1, <1>2 DEF OrchestrationInv, OrchestrationTypeOK, DriverRecord
<1> HIDE DEF new, safe
<1>8. /\ m \in DriverRecord /\ m.held = new /\ m.id = me.id /\ m.at = "changed"
      /\ m.grant = NoRow /\ m.safe = safe /\ m.task = me.task
  BY <1>2, <1>3, <1>4, <1>6 DEF DriverRecord
<1> HIDE DEF m
<1>9. HolderOK(m, log, tasks, promoted)
  BY <1>3, <1>4, <1>5, <1>8 DEF HolderOK
<1> QED
  BY <1>1, <1>7, <1>8, <1>9, QuietInv

LEMMA CallGateInv ==
    ASSUME OrchestrationInv, NEW d \in Driver, NEW stage, CallGate(d, stage)
    PROVE  OrchestrationInv'
<1> DEFINE me == driver[d]
           new == Recorded(Held(d), stage)
           m == [me EXCEPT !.held = new, !.at = "changed"]
<1>1. /\ me.at = "loaded" /\ Held(d).status = "FINAL_VERIFICATION"
      /\ driver' = [driver EXCEPT ![d].held = Recorded(@, stage), ![d].at = "changed"]
      /\ UNCHANGED <<store, tasks>>
  BY DEF CallGate, Loaded
<1>2. /\ me \in DriverRecord /\ me # Idle /\ Held(d) \in WorkOrderRecord /\ ~me.safe
      /\ RecordOK(Held(d), me.id, promoted)
  BY <1>1, LoadedIsStored
<1>3. /\ promoted \subseteq promoted' /\ promoted' \subseteq WorkOrderId /\ head' \in Nat
      /\ stage = "promoted" => me.id \in promoted'
  <2>1. me.id \in WorkOrderId
    BY <1>2 DEF DriverRecord
  <2> QED
    BY <2>1 DEF CallGate, OrchestrationInv, OrchestrationTypeOK
<1>4. new \in WorkOrderRecord /\ RecordOK(new, me.id, promoted')
  <2>1. RecordOK(Held(d), me.id, promoted')
    BY <1>2, <1>3 DEF RecordOK
  <2>2. CASE stage = "promoted"
    BY <1>2, <1>3, <2>1, <2>2 DEF Recorded, IsPromoted, WorkOrderRecord, RecordOK, Status
  <2>3. CASE stage # "promoted"
    <3>1. new = Raise(Held(d), "PROMOTION_REFUSED")
      BY <2>3 DEF Recorded, IsPromoted
    <3> QED
      BY <1>1, <1>2, <2>1, <3>1, RaiseOK DEF Code
  <2> QED
    BY <2>2, <2>3
<1>5. driver' = [driver EXCEPT ![d] = m]
  BY <1>1, <1>2 DEF OrchestrationInv, OrchestrationTypeOK, DriverRecord, Held
<1>6. HolderOK(me, log, tasks, promoted)
  BY DEF OrchestrationInv, HoldersOK
<1> HIDE DEF new
<1>7. /\ m \in DriverRecord /\ m.held = new /\ m.id = me.id /\ m.at = "changed"
      /\ m.grant = me.grant /\ ~m.safe
  BY <1>2, <1>4 DEF DriverRecord
<1> HIDE DEF m
<1>8. Grows(log, log') /\ log' = log /\ Advances(tasks, tasks')
  BY <1>1, Unmoved DEF store
<1>9. HolderOK(m, log', tasks', promoted')
  BY <1>2, <1>4, <1>6, <1>7, <1>8 DEF HolderOK
<1>10. StoreInv /\ RestInv
  BY TwoParts
<1>11. driver' \in [Driver -> DriverRecord \cup {Idle}] /\ HoldersOK'
  BY <1>3, <1>5, <1>7, <1>8, <1>9, <1>10, HolderInv
<1>12. TasksOK'
  BY <1>1, <1>8, <1>10, TasksStay
<1>13. RestInv'
  BY <1>1, <1>3, <1>10, <1>11, <1>12 DEF RestInv
<1> QED
  BY <1>1, <1>3, <1>10, <1>13, StoreStays, PartsAfter

\* Steps that leave the drivers and their tasks alone, whatever they do to the store.
LEMMA ElsewhereInv ==
    ASSUME OrchestrationInv, StoreInv', UNCHANGED <<driver, tasks, promoted>>,
           head' \in Nat, Grows(log, log')
    PROVE  OrchestrationInv'
<1>1. StoreInv /\ RestInv
  BY TwoParts
<1>2. Advances(tasks, tasks')
  BY Unmoved
<1>3. HoldersOK' /\ TasksOK'
  BY <1>1, <1>2, OthersStay, TasksStay
<1>4. RestInv'
  BY <1>1, <1>3 DEF RestInv
<1> QED
  BY <1>4, PartsAfter

LEMMA OtherPromotionInv ==
    ASSUME OrchestrationInv, OtherPromotion
    PROVE  OrchestrationInv'
<1>1. StoreInv' /\ Grows(log, log')
  BY TwoParts, StoreStays, Unmoved DEF OtherPromotion, store
<1>2. head' \in Nat
  BY DEF OtherPromotion, OrchestrationInv, OrchestrationTypeOK
<1> QED
  BY <1>1, <1>2, ElsewhereInv DEF OtherPromotion

LEMMA RegisterInv ==
    ASSUME OrchestrationInv, NEW ref \in Ref, Register(ref)
    PROVE  OrchestrationInv'
<1>1. /\ IsNext(ref.version, RegisteredVersions(ref.profile))
      /\ registry' = registry \cup {ref} /\ UNCHANGED <<envelopes, row, log, promoted>>
  BY DEF Register, RegisterProfile
<1>2. StoreInv
  BY TwoParts
<1>3. VersionsAreUnique'
  <2>1. \A r \in registry : r.profile = ref.profile => r.version # ref.version
    <3> SUFFICES ASSUME NEW r \in registry, r.profile = ref.profile, r.version = ref.version
                 PROVE  FALSE
      OBVIOUS
    <3>1. ref.version \in RegisteredVersions(ref.profile)
      BY DEF RegisteredVersions
    <3>2. ref.version < ref.version /\ ref.version \in Nat
      BY <1>1, <3>1 DEF IsNext, Ref, Version
    <3> QED
      BY <3>2
  <2> QED
    BY <1>1, <1>2, <2>1 DEF StoreInv, VersionsAreUnique
<1>4. ReferencesHold' /\ LogIsTheHistory' /\ LogOK'
  BY <1>1, <1>2 DEF StoreInv, ReferencesHold, LogIsTheHistory, LogOK
<1>5. StoreInv'
  BY <1>1, <1>2, <1>3, <1>4 DEF StoreInv
<1>6. Grows(log, log') /\ head' \in Nat
  BY <1>1, Unmoved DEF Register, OrchestrationInv, OrchestrationTypeOK
<1> QED
  BY <1>5, <1>6, ElsewhereInv DEF Register

LEMMA PublishInv ==
    ASSUME OrchestrationInv, NEW envelope \in Envelope, Publish(envelope)
    PROVE  OrchestrationInv'
<1>1. /\ envelope.profiles \subseteq registry
      /\ IsNext(envelope.version, PublishedVersions(envelope.project))
      /\ envelopes' = envelopes \cup {envelope} /\ UNCHANGED <<registry, row, log, promoted>>
  BY DEF Publish, SaveProfile
<1>2. StoreInv
  BY TwoParts
<1>3. VersionsAreUnique'
  <2>1. \A e \in envelopes : e.project = envelope.project => e.version # envelope.version
    <3> SUFFICES ASSUME NEW e \in envelopes, e.project = envelope.project,
                        e.version = envelope.version
                 PROVE  FALSE
      OBVIOUS
    <3>1. envelope.version \in PublishedVersions(envelope.project)
      BY DEF PublishedVersions
    <3>2. envelope.version < envelope.version /\ envelope.version \in Nat
      BY <1>1, <3>1 DEF IsNext, Envelope, Version
    <3> QED
      BY <3>2
  <2> QED
    BY <1>1, <1>2, <2>1 DEF StoreInv, VersionsAreUnique
<1>4. ReferencesHold' /\ LogIsTheHistory' /\ LogOK'
  BY <1>1, <1>2 DEF StoreInv, ReferencesHold, LogIsTheHistory, LogOK
<1>5. StoreInv'
  BY <1>1, <1>2, <1>3, <1>4 DEF StoreInv
<1>6. Grows(log, log') /\ head' \in Nat
  BY <1>1, Unmoved DEF Publish, OrchestrationInv, OrchestrationTypeOK
<1> QED
  BY <1>5, <1>6, ElsewhereInv DEF Publish

LEMMA CreateWorkOrderInv ==
    ASSUME OrchestrationInv, NEW id \in WorkOrderId, NEW envelope \in Envelope,
           CreateWorkOrder(id, envelope)
    PROVE  OrchestrationInv'
<1> DEFINE w == [NewWorkOrder(envelope) EXCEPT !.version = 1]
<1>1. /\ row[id] = NoRow /\ NewWorkOrder(envelope).envelope \in envelopes
      /\ Write(id, w, "created") /\ UNCHANGED <<driver, tasks, head, promoted>>
  BY DEF CreateWorkOrder, Create
<1>2. /\ w \in WorkOrderRecord /\ w.version = 1 /\ w.envelope = envelope
      /\ w.used = <<>> /\ w.attempts = <<>> /\ w.from = "DRAFT" /\ w.status = "DRAFT"
  <2> DEFINE new == NewWorkOrder(envelope)
  <2>1. <<>> \in Seq(Ref) /\ <<>> \in Seq(Envelope) /\ {} \in SUBSET Code /\ 1 \in Version
    BY DEF Version
  <2>2. "DRAFT" \in Status /\ "PENDING" \in BlockStatus
    BY DEF Status, BlockStatus
  <2>3. /\ new \in WorkOrderRecord /\ new.envelope = envelope /\ new.used = <<>>
        /\ new.attempts = <<>> /\ new.from = "DRAFT" /\ new.status = "DRAFT"
    BY <2>1, <2>2 DEF NewWorkOrder, WorkOrderRecord
  <2>4. w = [new EXCEPT !.version = 1]
    OBVIOUS
  <2> HIDE DEF new, w
  <2> QED
    BY <2>1, <2>3, <2>4 DEF WorkOrderRecord
<1>3. Elements(w.used) \subseteq registry /\ Elements(w.attempts) \subseteq Elements(w.used)
  BY <1>2 DEF Elements
<1>4. w.envelope \in envelopes
  BY <1>1, <1>2 DEF NewWorkOrder
<1> HIDE DEF w
<1>5. RecordOK(w, id, promoted)
  BY <1>2, <1>3 DEF RecordOK
<1>6. StoreInv
  BY TwoParts
<1>7. StoreInv' /\ Grows(log, log')
  BY <1>1, <1>2, <1>3, <1>4, <1>5, <1>6, WriteInv
<1>8. head' \in Nat
  BY <1>1 DEF OrchestrationInv, OrchestrationTypeOK
<1> QED
  BY <1>1, <1>7, <1>8, ElsewhereInv

\* The profiles that a legal successor uses are registered.
LEMMA UsedAreKnown ==
    ASSUME NEW new \in Seq(Ref), NEW old \in Seq(Ref), NEW known,
           IsExtension(new, old), Elements(old) \subseteq known, AddedTo(new, old) \subseteq known
    PROVE  Elements(new) \subseteq known
<1>1. ASSUME NEW i \in DOMAIN new
      PROVE  new[i] \in known
  <2>1. CASE i > Len(old)
    BY <2>1 DEF AddedTo
  <2>2. CASE ~(i > Len(old))
    <3>1. i \in DOMAIN old
      BY <2>2
    <3> QED
      BY <3>1 DEF IsExtension, Elements
  <2> QED
    BY <2>1, <2>2
<1> QED
  BY <1>1 DEF Elements

\* The stored record of a WorkOrder that has one.
LEMMA StoredRow ==
    ASSUME StoreInv, NEW id \in WorkOrderId, row[id] # NoRow
    PROVE  /\ row[id] \in WorkOrderRecord /\ row[id].envelope \in envelopes
           /\ Elements(row[id].used) \subseteq registry
<1>1. PICK i \in DOMAIN log : log[i].id = id /\ log[i].record = row[id]
  BY DEF StoreInv, LogIsTheHistory
<1> QED
  BY <1>1 DEF StoreInv, ReferencesHold

\* A write that commits is the next version of the WorkOrder.
LEMMA UpdateInv ==
    ASSUME StoreInv, NEW id \in WorkOrderId, NEW w \in WorkOrderRecord, NEW base \in Version,
           RecordOK(w, id, promoted), UNCHANGED promoted,
           CanUpdate(id, w, base), Update(id, w, base, "stored")
    PROVE  /\ StoreInv' /\ Grows(log, log')
           /\ row'[id] \in WorkOrderRecord /\ RecordOK(row'[id], id, promoted)
           /\ \E j \in DOMAIN log' : /\ log'[j].id = id /\ log'[j].version = row'[id].version
                                     /\ log'[j].record = row'[id]
<1> DEFINE v == [w EXCEPT !.version = base + 1]
<1>1. row[id] # NoRow /\ row[id].version = base /\ Write(id, v, "stored")
  BY DEF CanUpdate, IsCurrent, Update
<1>2. /\ Evolves(row[id], v) /\ (v.envelope # row[id].envelope => v.envelope \in envelopes)
      /\ ProfilesAreKnown(row[id], v)
  BY DEF CanUpdate
<1>3. /\ v \in WorkOrderRecord /\ v.version = base + 1
      /\ v.envelope = w.envelope /\ v.used = w.used /\ v.attempts = w.attempts
      /\ v.from = w.from /\ v.status = w.status
  BY DEF WorkOrderRecord, Version
<1> HIDE DEF v
<1>4. /\ row[id] \in WorkOrderRecord /\ row[id].envelope \in envelopes
      /\ Elements(row[id].used) \subseteq registry
  BY <1>1, StoredRow
<1>5. v.envelope \in envelopes
  BY <1>2, <1>4
<1>6. Elements(v.used) \subseteq registry
  <2>1. v.used \in Seq(Ref) /\ row[id].used \in Seq(Ref)
    BY <1>3, <1>4 DEF WorkOrderRecord
  <2> QED
    BY <1>2, <1>4, <2>1, UsedAreKnown DEF Evolves, ProfilesAreKnown
<1>7. RecordOK(v, id, promoted)
  BY <1>3 DEF RecordOK
<1>8. /\ StoreInv' /\ Grows(log, log')
      /\ \E j \in DOMAIN log' : log'[j] = Entry(id, v, "stored")
  BY <1>1, <1>3, <1>5, <1>6, <1>7, WriteInv
<1>9. row'[id] = v
  BY <1>1 DEF Write, StoreInv
<1> QED
  BY <1>3, <1>7, <1>8, <1>9 DEF Entry

LEMMA StoreActionInv ==
    ASSUME OrchestrationInv, NEW d \in Driver, Store(d)
    PROVE  OrchestrationInv'
<1> DEFINE me == driver[d]
           commits == CanUpdate(me.id, me.held, me.base)
           next == [me EXCEPT !.held = row'[me.id], !.base = row'[me.id].version, !.at = "loaded"]
           m == IF commits /\ me.grant # NoRow THEN next ELSE Idle
<1>1. /\ me.at = "changed" /\ Update(me.id, me.held, me.base, "stored")
      /\ driver' = [driver EXCEPT ![d] = m] /\ UNCHANGED <<tasks, head, promoted>>
  BY DEF Store
<1>2. StoreInv /\ RestInv
  BY TwoParts
<1>3. me \in DriverRecord /\ me # Idle /\ HolderOK(me, log, tasks, promoted)
  BY <1>1, <1>2 DEF RestInv, HoldersOK, Idle
<1>4. /\ me.id \in WorkOrderId /\ me.held \in WorkOrderRecord /\ me.base \in Version
      /\ RecordOK(me.held, me.id, promoted)
      /\ me.grant # NoRow => GrantedBy(me.grant, log) /\ ~me.safe
  BY <1>3 DEF HolderOK, DriverRecord
<1>5. Advances(tasks, tasks') /\ promoted' = promoted
  BY <1>1, Unmoved
<1>6. CASE commits
  <2>1. /\ StoreInv' /\ Grows(log, log')
        /\ row'[me.id] \in WorkOrderRecord /\ RecordOK(row'[me.id], me.id, promoted)
        /\ \E j \in DOMAIN log' : /\ log'[j].id = me.id /\ log'[j].version = row'[me.id].version
                                  /\ log'[j].record = row'[me.id]
    BY <1>1, <1>2, <1>4, <1>6, UpdateInv
  <2>2. CASE me.grant # NoRow
    <3>1. m = next
      BY <1>6, <2>2
    <3>2. row'[me.id].version \in Version
      BY <2>1 DEF WorkOrderRecord
    <3>3. /\ next \in DriverRecord /\ next.at = "loaded" /\ next.id = me.id
          /\ next.held = row'[me.id] /\ next.base = row'[me.id].version
          /\ next.grant = me.grant /\ next.safe = me.safe
      BY <1>3, <2>1, <3>2 DEF DriverRecord
    <3> HIDE DEF next, m
    <3>4. GrantedBy(me.grant, log')
      BY <1>4, <2>1, <2>2, GrantStays
    <3>5. HolderOK(next, log', tasks', promoted')
      BY <1>4, <1>5, <2>1, <2>2, <3>3, <3>4 DEF HolderOK
    <3>6. driver' \in [Driver -> DriverRecord \cup {Idle}] /\ HoldersOK'
      BY <1>1, <1>2, <1>5, <2>1, <3>1, <3>3, <3>5, HolderInv
    <3> QED
      BY <1>1, <1>2, <2>1, <3>6, TasksStay, PartsAfter DEF RestInv
  <2>3. CASE me.grant = NoRow
    <3>1. m = Idle
      BY <2>3
    <3>2. HolderOK(Idle, log', tasks', promoted')
      BY DEF HolderOK
    <3> HIDE DEF m
    <3>3. driver' \in [Driver -> DriverRecord \cup {Idle}] /\ HoldersOK'
      BY <1>1, <1>2, <1>5, <2>1, <3>1, <3>2, HolderInv
    <3> QED
      BY <1>1, <1>2, <2>1, <3>3, TasksStay, PartsAfter DEF RestInv
  <2> QED
    BY <2>2, <2>3
<1>7. CASE ~commits
  <2>1. m = Idle /\ UNCHANGED store
    BY <1>1, <1>7 DEF Update
  <2>2. HolderOK(Idle, log, tasks, promoted)
    BY DEF HolderOK
  <2> HIDE DEF m
  <2> QED
    BY <1>1, <2>1, <2>2, QuietInv DEF Quietly
<1> QED
  BY <1>6, <1>7

-----------------------------------------------------------------------------
(*                              The theorems                               *)

LEMMA NextInv ==
    ASSUME OrchestrationInv, [Next]_vars
    PROVE  OrchestrationInv'
<1>1. Offered \subseteq Ref /\ Proposed \subseteq Envelope
  OBVIOUS
<1>2. CASE UNCHANGED vars
  BY <1>2, ElsewhereInv, TwoParts, StoreStays, Unmoved
     DEF vars, store, OrchestrationInv, OrchestrationTypeOK
<1>3. ASSUME NEW ref \in Offered, Register(ref)
      PROVE  OrchestrationInv'
  BY <1>1, <1>3, RegisterInv
<1>4. ASSUME NEW e \in Proposed,
             Publish(e) \/ \E id \in WorkOrderId : CreateWorkOrder(id, e)
      PROVE  OrchestrationInv'
  BY <1>1, <1>4, PublishInv, CreateWorkOrderInv
<1>5. ASSUME NEW d \in Driver,
             \/ \E id \in WorkOrderId : Load(d, id)
             \/ StartIntake(d) \/ StartExecution(d) \/ FinishRun(d) \/ FailAttempt(d)
             \/ Resume(d) \/ Abort(d) \/ \E e \in Proposed : ChangeAgent(d, e)
             \/ Store(d) \/ Crash(d)
      PROVE  OrchestrationInv'
  BY <1>1, <1>5, LoadInv, StartIntakeInv, StartExecutionInv, FinishRunInv, FailAttemptInv,
     ResumeInv, AbortInv, ChangeAgentInv, StoreActionInv, CrashInv
<1>6. ASSUME NEW d \in Driver,
             \/ \E ref \in Offered : BeginRefused(d, ref) \/ Authorize(d, ref)
             \/ \E ref \in Offered, request \in Requests : DispatchAttempt(d, ref, request)
             \/ RunAuthorized(d)
             \/ \E answer \in Answers : Answer(d, answer)
             \/ \E stage \in {"refused_before_checkpoint", "refused_after_checkpoint", "promoted"} :
                   CallGate(d, stage)
      PROVE  OrchestrationInv'
  BY <1>1, <1>6, BeginRefusedInv, AuthorizeInv, DispatchAttemptInv, RunAuthorizedInv,
     AnswerInv, CallGateInv
<1>7. ASSUME NEW i \in DOMAIN tasks, TaskMoves(i)
      PROVE  OrchestrationInv'
  BY <1>7, TaskMovesInv
<1>8. CASE OtherPromotion
  BY <1>8, OtherPromotionInv
<1> QED
  BY <1>2, <1>3, <1>4, <1>5, <1>6, <1>7, <1>8 DEF Next

\* The invariant holds of every driver, store and task.
THEOREM OrchestrationInvariant == Spec => []OrchestrationInv
<1>1. OrchestrationInv /\ [Next]_vars => OrchestrationInv'
  BY NextInv
<1> QED
  BY InitialInv, <1>1, PTL DEF Spec

\* The tables, the drivers and the tasks are of their types (control/store.py and
\* orchestration/ as a whole).
THEOREM OrchestrationTypes == Spec => []OrchestrationTypeOK
<1>1. OrchestrationInv => OrchestrationTypeOK
  BY DEF OrchestrationInv
<1> QED
  BY OrchestrationInvariant, <1>1, PTL

\* The event log of control/store.py holds every version of a WorkOrder once and in
\* order and its row is the last of them, whatever drivers write at once.
THEOREM LogHistory == Spec => []LogIsTheHistory
<1>1. OrchestrationInv => LogIsTheHistory
  BY DEF OrchestrationInv
<1> QED
  BY OrchestrationInvariant, <1>1, PTL

\* A profile version of the registry has one content, no reference dangles, and every
\* attempt is of a profile on record as used (control/store.py, begin_attempt).
THEOREM ProfileTraceability == Spec => []ProfilesAreTraceable
<1>1. OrchestrationInv => ProfilesAreTraceable
  BY DEF OrchestrationInv, ProfilesAreTraceable, LogOK, EntryOK, RecordOK
<1> QED
  BY OrchestrationInvariant, <1>1, PTL

\* What orchestration/dispatch.py ever sent to a runtime was granted by a stored,
\* executing version of the WorkOrder, and runs a profile of its envelope.
THEOREM DispatchIsApproved == Spec => []DispatchedAsApproved
<1>1. OrchestrationInv => DispatchedAsApproved
  <2> SUFFICES ASSUME OrchestrationInv, NEW i \in DOMAIN tasks
               PROVE  LET g == tasks[i].grant IN
                      \E j \in DOMAIN log :
                         LET w == log[j].record IN
                         /\ log[j].id = g.id /\ log[j].version = g.base
                         /\ w.status = "EXECUTING" /\ w.block = "PENDING"
                         /\ Len(w.attempts) = g.attempt - 1 /\ w.failed < MaxAttempts
                         /\ tasks[i].runs = g.profile /\ g.profile \in w.envelope.profiles
    BY DEF DispatchedAsApproved
  <2>1. TaskOK(tasks[i], log)
    BY DEF OrchestrationInv, TasksOK
  <2> QED
    BY <2>1 DEF TaskOK, GrantedBy
<1> QED
  BY OrchestrationInvariant, <1>1, PTL

\* When orchestration/execution_failure.py calls a failure safe to follow with another
\* execution, the runtime no longer works on the task and never will.
THEOREM SafeFailureIsStopped == Spec => []SafeMeansStopped
<1>1. OrchestrationInv => SafeMeansStopped
  BY DEF OrchestrationInv, HoldersOK, HolderOK, SafeMeansStopped, Live
<1> QED
  BY OrchestrationInvariant, <1>1, PTL

\* A WorkOrder is stored as promoted only after the broker promoted its candidate
\* (orchestration/kernel_outcome.py), whoever lost a write or died in between.
THEOREM PromotionIsAccepted == Spec => []PromotedIsAccepted
<1>1. OrchestrationInv => PromotedIsAccepted
  BY DEF OrchestrationInv, LogOK, EntryOK, RecordOK, PromotedIsAccepted
<1> QED
  BY OrchestrationInvariant, <1>1, PTL
=============================================================================
