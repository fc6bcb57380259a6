------------------------- MODULE MissionControlProofs -------------------------
(***************************************************************************)
(* Proofs about Mission Control: for any history of the WorkOrder on the   *)
(* screen, any number of commands, faults and later versions,              *)
(*                                                                         *)
(*   - every stored version is a whole operation on the one before it;     *)
(*   - the owner's decision is recorded on the version the dialog named;   *)
(*   - only an approval is refused, of all the page offers;                *)
(*   - a quiet page is a current one.                                      *)
(*                                                                         *)
(* The log is the memory of all of them: what a writer holds, what a       *)
(* dialog names, what a fetch read and what a frame announces is one of    *)
(* the versions it lists.                                                  *)
(***************************************************************************)
EXTENDS MissionControl, TLAPS

RequestFields == {"command", "seen", "decided", "phase", "base", "answer", "waiting"}

IsSeq(s) == s \in Seq(Elements(s))

\* The log lists the versions of the WorkOrder, and the row is the last.
Numbered ==
    /\ IsSeq(log) /\ Len(log) >= 1
    /\ \A i \in DOMAIN log : /\ log[i].id = Watched /\ log[i].version = i
                             /\ IsRecord(log[i].record) /\ log[i].record.version = i
    /\ row = [id \in WorkOrderId |-> row[id]]
    /\ current = log[Len(log)].record

\* What the driver works on was the record of its version.
HeldIsListed == held # NoRow => held.version \in DOMAIN log /\ held = log[held.version].record

GoodRequest(history, q) ==
    /\ q = [f \in RequestFields |-> q[f]]
    /\ q.seen \in DOMAIN history /\ q.decided = q.seen
    /\ q.command \in Offered(history[q.seen].record)
    /\ q.phase = "checked" => q.base = history[q.seen].record /\ Accepts(q.base, q.command)
    /\ q.answer = "refused" =>
         LET seen == history[q.seen].record IN
         q.command = "approve_plan" /\ (seen.gap \/ seen.unfit \/ seen.plan <= seen.approved)
RequestsAreGood ==
    IsSeq(requests) /\ \A i \in DOMAIN requests : GoodRequest(log, requests[i])

\* The dialog, the screen and a fetch name versions of the log.
DialogIsListed ==
    dialog # Nothing => /\ dialog.seen \in DOMAIN log
                        /\ dialog.command \in Offered(log[dialog.seen].record)
PageIsListed ==
    /\ shown \notin {Nothing, Failed} => shown \in DOMAIN log
    /\ fetch.phase \in {"idle", "get", "answered"}
    /\ fetch.phase = "answered" => fetch.version \in DOMAIN log

OwnerInv == Numbered /\ HeldIsListed /\ RequestsAreGood /\ DialogIsListed /\ PageIsListed

\* A frame about the WorkOrder, or one that says to read everything.
GoodFrame(history, frame) ==
    \/ frame.id \in DOMAIN history /\ (frame.event = "ready" \/ frame.about = Watched)
    \/ frame.id = Nothing
\* What the handler has read up to is on the wire, or was delivered last.
Wired ==
    /\ IsSeq(wire) /\ \A k \in DOMAIN wire : GoodFrame(log, wire[k])
    /\ source = [state |-> source.state, last |-> source.last]
    /\ stream = [phase |-> stream.phase, cursor |-> stream.cursor]
    /\ source.last # Nothing => source.last \in DOMAIN log
    /\ source.state # "open" => stream.phase = "none"
    /\ stream.phase \in {"none", "start"} => wire = <<>>
    /\ stream.phase = "start" => stream.cursor = source.last
    /\ stream.phase = "run" =>
         /\ stream.cursor \in DOMAIN log
         /\ stream.cursor = IF wire = <<>> THEN source.last ELSE wire[Len(wire)].id

\* What was delivered is shown, or will be by the request in flight.
Fresh ==
    watching /\ source.last # Nothing =>
      IF fetch.phase = "idle" THEN shown = Failed \/ (shown \in DOMAIN log /\ shown >= source.last)
      ELSE stale \/ fetch.phase = "get" \/ fetch.version >= source.last

StreamInv == Wired /\ Fresh

-----------------------------------------------------------------------------
(*                     Sequences, versions and records                     *)

LEMMA SeqOfElements ==
    ASSUME NEW S, NEW s \in Seq(S)
    PROVE  /\ IsSeq(s) /\ DOMAIN s = 1..Len(s) /\ Len(s) \in Nat
<1>1. /\ DOMAIN s = 1..Len(s) /\ Len(s) \in Nat /\ s = [i \in 1..Len(s) |-> s[i]]
    OBVIOUS
<1>2. \A i \in 1..Len(s) : s[i] \in Elements(s)
    BY <1>1 DEF Elements
<1>3. s \in [1..Len(s) -> Elements(s)]
    BY <1>1, <1>2
<1> QED BY <1>1, <1>3 DEF IsSeq

LEMMA SeqOfFunction ==
    ASSUME NEW S, NEW n \in Nat, NEW s \in [1..n -> S]
    PROVE  s \in Seq(S) /\ Len(s) = n
OBVIOUS

LEMMA AppendTo ==
    ASSUME NEW s, NEW e, IsSeq(s)
    PROVE  /\ IsSeq(Append(s, e)) /\ Len(Append(s, e)) = Len(s) + 1 /\ Append(s, e)[Len(s) + 1] = e
           /\ DOMAIN Append(s, e) = 1..(Len(s) + 1) /\ DOMAIN s = 1..Len(s) /\ Len(s) \in Nat
           /\ \A i \in 1..Len(s) : Append(s, e)[i] = s[i]
<1> DEFINE S == Elements(s) \cup {e}
<1>1. s \in Seq(S) /\ e \in S
    BY DEF IsSeq
<1> HIDE DEF S
<1>2. /\ Append(s, e) \in Seq(S) /\ Len(Append(s, e)) = Len(s) + 1 /\ Append(s, e)[Len(s) + 1] = e
      /\ DOMAIN s = 1..Len(s) /\ Len(s) \in Nat
      /\ \A i \in 1..Len(s) : Append(s, e)[i] = s[i]
    BY <1>1
<1> QED BY <1>2, SeqOfElements

LEMMA ReplaceIn ==
    ASSUME NEW s, IsSeq(s), NEW i \in DOMAIN s, NEW e
    PROVE  /\ IsSeq([s EXCEPT ![i] = e]) /\ DOMAIN [s EXCEPT ![i] = e] = DOMAIN s
           /\ [s EXCEPT ![i] = e][i] = e /\ \A j \in DOMAIN s : j # i => [s EXCEPT ![i] = e][j] = s[j]
<1> DEFINE S == Elements(s) \cup {e}
           t == [s EXCEPT ![i] = e]
<1>1. s \in Seq(S) /\ e \in S
    BY DEF IsSeq
<1> HIDE DEF S
<1>2. t \in Seq(S) /\ DOMAIN t = DOMAIN s /\ t[i] = e /\ \A j \in DOMAIN s : j # i => t[j] = s[j]
    BY <1>1
<1> QED BY <1>2, SeqOfElements

\* What was listed stays listed.
Grows(old, new) == DOMAIN old \subseteq DOMAIN new /\ \A i \in DOMAIN old : new[i] = old[i]

LEMMA RequestStays ==
    ASSUME NEW old, NEW new, Grows(old, new), NEW q, GoodRequest(old, q)
    PROVE  GoodRequest(new, q)
BY DEF Grows, GoodRequest

LEMMA FrameStays ==
    ASSUME NEW old, NEW new, Grows(old, new), NEW frame, GoodFrame(old, frame)
    PROVE  GoodFrame(new, frame)
BY DEF Grows, GoodFrame

\* A version is looked up by its number.
LEMMA RecordIsListed ==
    ASSUME Numbered, NEW version \in DOMAIN log
    PROVE  RecordAt(version) = log[version].record
<1> DEFINE j == CHOOSE k \in DOMAIN log : log[k].id = Watched /\ log[k].version = version
<1>1. \A k \in DOMAIN log : log[k].id = Watched /\ log[k].version = k
    BY DEF Numbered
<1>2. j \in DOMAIN log /\ log[j].version = version
    BY <1>1
<1>3. j = version
    BY <1>1, <1>2
<1> QED BY <1>3 DEF RecordAt

\* What is offered is accepted, but for a plan that has no new version or does not fit.
LEMMA OnlyApprovalIsNotAccepted ==
    ASSUME NEW r, IsRecord(r), NEW command \in Offered(r), ~Accepts(r, command)
    PROVE  command = "approve_plan" /\ (r.unfit \/ r.plan <= r.approved)
<1>1. command # "resume" \/ (~r.blocking /\ r.from \notin NeedsBaseline)
    BY DEF Offered
<1>2. command = "approve_plan" /\ (r.unfit \/ ~(r.plan > r.approved))
    BY <1>1 DEF Accepts
<1>3. r.plan \in Nat /\ r.approved \in Nat
    BY DEF IsRecord
<1> QED BY <1>2, <1>3

\* What the operations make of a record is one, with the version it is stored as.
LEMMA ControlKeepsShape ==
    ASSUME NEW r, IsRecord(r), NEW new \in ControlOutcome(r), NEW n \in Version
    PROVE  /\ IsRecord([new EXCEPT !.version = n]) /\ [new EXCEPT !.version = n].version = n
<1> DEFINE t == [new EXCEPT !.version = n]
<1>1. /\ new = [f \in RecordFields |-> new[f]]
      /\ new.amendments = r.amendments /\ new.used = r.used /\ new.plan \in Nat /\ new.approved \in Nat
      /\ {new.blocking, new.gap, new.done, new.unfit} \subseteq BOOLEAN
      /\ new.status = Attention => new.from \in AttentionSources
  <2> USE DEF IsRecord, RecordFields
  <2>1. CASE new \in Proposed(r)
    <3>1. PICK p \in BOOLEAN \X BOOLEAN :
            new = [r EXCEPT !.status = "PLAN_PROPOSED", !.plan = @ + 1, !.gap = p[1], !.unfit = p[2]]
        BY <2>1 DEF Proposed
    <3>2. /\ r = [f \in RecordFields |-> r[f]] /\ r.plan \in Nat /\ r.approved \in Nat
          /\ {r.blocking, r.done, p[1], p[2]} \subseteq BOOLEAN
        OBVIOUS
    <3> HIDE DEF IsRecord
    <3>3. /\ new = [f \in RecordFields |-> new[f]] /\ new.status = "PLAN_PROPOSED" /\ new.plan = r.plan + 1
          /\ new.gap = p[1] /\ new.unfit = p[2] /\ new.amendments = r.amendments /\ new.used = r.used
          /\ new.approved = r.approved /\ new.blocking = r.blocking /\ new.done = r.done
        BY <3>1, <3>2
    <3> QED BY <3>2, <3>3 DEF Attention
  <2>2. CASE new \in Raised(r)
      BY <2>2 DEF Raised
  <2>3. CASE new \in Resolved(r)
      BY <2>3 DEF Resolved
  <2>4. CASE new \in Advanced(r)
      BY <2>4 DEF Advanced, Forward, Attention
  <2>5. CASE new \in Finished(r)
      BY <2>5 DEF Finished, Attention
  <2> QED BY <2>1, <2>2, <2>3, <2>4, <2>5 DEF ControlOutcome
<1>2. /\ t = [f \in RecordFields |-> t[f]] /\ t.version = n
      /\ \A f \in RecordFields \ {"version"} : t[f] = new[f]
    BY <1>1 DEF RecordFields
<1> HIDE DEF t
<1>3. /\ t.amendments = r.amendments /\ t.used = r.used /\ t.plan = new.plan
      /\ t.approved = new.approved /\ t.blocking = new.blocking /\ t.gap = new.gap
      /\ t.done = new.done /\ t.unfit = new.unfit
      /\ t.status = new.status /\ t.from = new.from
    BY <1>1, <1>2 DEF RecordFields
<1> QED BY <1>1, <1>2, <1>3 DEF IsRecord, t

\* The owner's decision: what it is stored as, and that only a gap makes it no successor.
LEMMA DecisionIsLegal ==
    ASSUME NEW r, IsRecord(r), NEW command \in Offered(r), Accepts(r, command), NEW n \in Version
    PROVE  LET stored == [Decided(r, command) EXCEPT !.version = n] IN
           /\ stored.version = n
           /\ ~(command = "approve_plan" /\ r.gap) => IsRecord(stored) /\ Evolves(r, stored)
           /\ stored.envelope = r.envelope /\ AddedTo(stored.used, r.used) = {}
           /\ command = "approve_plan" /\ r.gap => ~Evolves(r, stored)
<1> DEFINE new == Decided(r, command)
           stored == [new EXCEPT !.version = n]
<1>1. /\ command \in Commands
      /\ command \in {"approve_plan", "reject_plan"} => r.status = "PLAN_PROPOSED"
      /\ command \in {"resume", "replan", "defer", "abort"} => r.status = Attention
      /\ command = "resume" => r.from \in AttentionSources \ NeedsBaseline
    BY DEF Offered, Commands, IsRecord, Attention
<1>2. /\ stored = [f \in RecordFields |-> stored[f]] /\ stored.version = n
      /\ stored.amendments = r.amendments /\ stored.used = r.used /\ stored.envelope = r.envelope
      /\ stored.plan = r.plan /\ stored.approved \in Nat /\ stored.blocking = r.blocking
      /\ stored.gap = r.gap /\ stored.from = r.from /\ stored.done = r.done /\ stored.unfit = r.unfit
      /\ stored.status =
           CASE command = "approve_plan" -> IF r.gap THEN Attention ELSE "PLAN_APPROVED"
             [] command = "reject_plan" -> "ABORTED"
             [] command = "resume" -> r.from
             [] command = "replan" -> "PLAN_PROPOSED"
             [] command = "defer" -> "DEFERRED"
             [] command = "abort" -> "ABORTED"
    BY <1>1 DEF Decided, IsRecord, RecordFields, Commands
<1> HIDE DEF stored, new
<1>3. r.used \in Seq(Elements(r.used)) /\ r.amendments \in Seq(Elements(r.amendments))
    BY DEF IsRecord
<1>4. AddedTo(stored.used, r.used) = {}
    BY <1>2, <1>3 DEF AddedTo
<1>5. IsExtension(stored.used, r.used) /\ IsExtension(stored.amendments, r.amendments)
  <2>1. Len(r.used) \in Nat /\ Len(r.amendments) \in Nat
      BY <1>3
  <2> QED BY <1>2, <2>1 DEF IsExtension
<1>6. ASSUME ~(command = "approve_plan" /\ r.gap)
      PROVE  IsRecord(stored) /\ Evolves(r, stored)
  <2>1. <<r.status, stored.status>> \in Transition /\ r.status \notin Terminal
      BY <1>1, <1>2, <1>6 DEF Commands, Transition, AttentionSources, NeedsBaseline, Attention, Terminal
  <2>2. stored.status # Attention
      BY <1>1, <1>2, <1>6 DEF Commands, AttentionSources, NeedsBaseline, Attention
  <2>3. Evolves(r, stored)
      BY <1>2, <1>5, <2>1 DEF Evolves
  <2> QED BY <1>2, <2>2, <2>3 DEF IsRecord
<1>7. ASSUME command = "approve_plan", r.gap
      PROVE  ~Evolves(r, stored)
  <2>1. r.status = "PLAN_PROPOSED" /\ stored.status = "USER_ATTENTION_REQUIRED"
      BY <1>1, <1>2, <1>7 DEF Attention
  <2>2. <<"PLAN_PROPOSED", "USER_ATTENTION_REQUIRED">> \notin Transition
      BY DEF Transition, AttentionSources, Attention
  <2> QED BY <2>1, <2>2 DEF Evolves
<1> QED BY <1>2, <1>4, <1>6, <1>7 DEF stored, new

-----------------------------------------------------------------------------
(*                             The owner's invariant                       *)

LEMMA InitOwner == Init => OwnerInv
<1> SUFFICES ASSUME Init PROVE OwnerInv
    OBVIOUS
<1> PICK first \in Histories : InitWith(first)
    BY DEF Init
<1>1. /\ first \in Seq(Elements(first)) /\ first # <<>>
      /\ \A i \in DOMAIN first : IsRecord(first[i]) /\ first[i].version = i
    BY PageAssumption
<1>2. /\ row = [id \in WorkOrderId |-> IF id = Watched THEN first[Len(first)] ELSE NoRow]
      /\ log = [i \in DOMAIN first |-> Entry(Watched, first[i], "control")]
    BY DEF InitWith
<1>3. Len(first) \in Nat \ {0} /\ DOMAIN first = 1..Len(first)
    BY <1>1
<1>4. log \in Seq({Entry(Watched, first[i], "control") : i \in DOMAIN first}) /\ Len(log) = Len(first)
    BY <1>2, <1>3
<1>5. IsSeq(log)
    BY <1>4, SeqOfElements
<1>6. \A i \in DOMAIN log : /\ log[i].id = Watched /\ log[i].version = i
                            /\ log[i].record = first[i] /\ i \in DOMAIN first
    BY <1>1, <1>2 DEF Entry
<1>7. Numbered
  <2>1. current = log[Len(log)].record
      BY <1>2, <1>3, <1>4, <1>6, PageAssumption DEF current
  <2>2. row = [id \in WorkOrderId |-> row[id]]
      BY <1>2
  <2> QED BY <1>1, <1>3, <1>4, <1>5, <1>6, <2>1, <2>2 DEF Numbered
<1>8. RequestsAreGood
    BY DEF Init, RequestsAreGood, IsSeq
<1> QED BY <1>7, <1>8 DEF Init, OwnerInv, HeldIsListed, DialogIsListed, PageIsListed, Idle

\* A stored version is listed after the others.
LEMMA WriteNumbers ==
    ASSUME Numbered, NEW record, IsRecord(record), record.version = Len(log) + 1, NEW event,
           Write(Watched, record, event)
    PROVE  /\ Numbered' /\ Grows(log, log') /\ Len(log') = Len(log) + 1
           /\ log'[Len(log')].event = event /\ row'[Watched] = record
<1> DEFINE e == Entry(Watched, record, event)
<1>1. row' = [row EXCEPT ![Watched] = record] /\ log' = Append(log, e)
    BY DEF Write
<1>2. e.id = Watched /\ e.version = Len(log) + 1 /\ e.record = record /\ e.event = event
    BY DEF Entry
<1> HIDE DEF e
<1>3. /\ IsSeq(log') /\ Len(log') = Len(log) + 1 /\ log'[Len(log) + 1] = e
      /\ DOMAIN log' = 1..(Len(log) + 1) /\ DOMAIN log = 1..Len(log) /\ Len(log) \in Nat
      /\ \A i \in 1..Len(log) : log'[i] = log[i]
    BY <1>1, AppendTo DEF Numbered
<1>4. Grows(log, log')
    BY <1>3 DEF Grows
<1>5. row' = [id \in WorkOrderId |-> row'[id]] /\ row'[Watched] = record
    BY <1>1, PageAssumption DEF Numbered
<1>6. \A i \in DOMAIN log' : /\ log'[i].id = Watched /\ log'[i].version = i
                             /\ IsRecord(log'[i].record) /\ log'[i].record.version = i
  <2> TAKE i \in DOMAIN log'
  <2>1. CASE i = Len(log) + 1
      BY <1>2, <1>3, <2>1
  <2>2. CASE i # Len(log) + 1
    <3>1. i \in DOMAIN log /\ log'[i] = log[i]
        BY <1>3, <2>2
    <3> QED BY <3>1 DEF Numbered
  <2> QED BY <2>1, <2>2
<1>7. Len(log') >= 1 /\ log'[Len(log')].record = row'[Watched]
    BY <1>2, <1>3, <1>5
<1>8. Numbered'
    BY <1>3, <1>5, <1>6, <1>7 DEF Numbered, current
<1> QED BY <1>2, <1>3, <1>4, <1>5, <1>8

\* An update from a listed version changes something only if that version is the row.
LEMMA UpdateIsCurrent ==
    ASSUME Numbered, NEW seen \in DOMAIN log, NEW new, CanUpdate(Watched, new, seen)
    PROVE  seen = Len(log) /\ current = log[seen].record /\ current.version = seen
<1>1. current.version = seen
    BY DEF CanUpdate, IsCurrent, current
<1>2. Len(log) \in DOMAIN log
    BY SeqOfElements DEF Numbered, IsSeq
<1>3. current.version = Len(log)
    BY <1>2 DEF Numbered
<1> QED BY <1>1, <1>3 DEF Numbered

LEMMA RequestsStay ==
    ASSUME RequestsAreGood, Grows(log, log'), UNCHANGED requests
    PROVE  RequestsAreGood'
BY RequestStays DEF RequestsAreGood

\* What is listed stays listed for the driver, the dialog and the page.
LEMMA OthersStayListed ==
    ASSUME Grows(log, log')
    PROVE  /\ HeldIsListed /\ held' \in {held, NoRow} => HeldIsListed'
           /\ DialogIsListed /\ dialog' \in {dialog, Nothing} => DialogIsListed'
           /\ PageIsListed /\ UNCHANGED <<shown, fetch>> => PageIsListed'
BY DEF Grows, HeldIsListed, DialogIsListed, PageIsListed

LEMMA LogStays ==
    ASSUME Numbered, UNCHANGED store
    PROVE  Numbered' /\ Grows(log, log')
BY DEF Numbered, store, Grows, current

\* A request that changes and stays good.
LEMMA PutRequest ==
    ASSUME RequestsAreGood, Grows(log, log'), NEW i \in DOMAIN requests, NEW q, GoodRequest(log', q),
           requests' = [requests EXCEPT ![i] = q]
    PROVE  RequestsAreGood'
<1>1. /\ IsSeq(requests') /\ DOMAIN requests' = DOMAIN requests /\ requests'[i] = q
      /\ \A j \in DOMAIN requests : j # i => requests'[j] = requests[j]
    BY ReplaceIn DEF RequestsAreGood
<1> QED BY <1>1, RequestStays DEF RequestsAreGood

\* A load starts a request, or notes that the one in flight is stale.
LEMMA LoadIsFresh ==
    ASSUME Load
    PROVE  /\ fetch.phase = "idle" => fetch' = Requested
           /\ fetch.phase # "idle" => fetch' = fetch /\ stale' = TRUE
           /\ fetch'.phase # "idle" /\ (stale' \/ fetch'.phase = "get")
           /\ PageIsListed /\ UNCHANGED <<log, shown>> => PageIsListed'
<1>1. Requested.phase = "get"
    BY DEF Requested
<1> HIDE DEF Requested
<1>2. /\ fetch.phase = "idle" => fetch' = Requested
      /\ fetch.phase # "idle" => fetch' = fetch /\ stale' = TRUE
    BY DEF Load
<1> QED BY <1>1, <1>2 DEF PageIsListed

-----------------------------------------------------------------------------
(*                              Steps of the writers                       *)

LEMMA OwnerStays ==
    ASSUME OwnerInv, UNCHANGED <<store, held, requests, dialog, shown, fetch>>
    PROVE  OwnerInv'
<1>1. Numbered' /\ Grows(log, log')
    BY LogStays DEF OwnerInv
<1> QED BY <1>1, RequestsStay, OthersStayListed DEF OwnerInv

\* What the driver stores, if anything, is a whole operation on the row.
LEMMA DriverStores ==
    ASSUME OwnerInv, DriverWrites
    PROVE  \/ UNCHANGED store
           \/ \E new \in ControlOutcome(current) :
                 LET stored == [new EXCEPT !.version = current.version + 1] IN
                 /\ IsRecord(stored) /\ stored.version = Len(log) + 1 /\ current # NoRow
                 /\ Write(Watched, stored, "control")
<1> PICK new \in ControlOutcome(held) : Update(Watched, new, held.version, "control")
    BY DEF DriverWrites
<1>1. CASE ~CanUpdate(Watched, new, held.version)
    BY <1>1 DEF Update
<1>2. CASE CanUpdate(Watched, new, held.version)
  <2> DEFINE stored == [new EXCEPT !.version = held.version + 1]
  <2>1. held.version \in DOMAIN log /\ held = log[held.version].record
      BY DEF DriverWrites, OwnerInv, HeldIsListed
  <2>2. held.version = Len(log) /\ current = held
      BY <1>2, <2>1, UpdateIsCurrent DEF OwnerInv
  <2>3. IsRecord(held) /\ held.version + 1 \in Version
    <3>1. IsRecord(held)
        BY <2>1 DEF OwnerInv, Numbered
    <3>2. held.version \in Nat \ {0}
        BY <3>1 DEF IsRecord, Version
    <3> QED BY <3>1, <3>2 DEF Version
  <2>4. IsRecord(stored) /\ stored.version = held.version + 1
      BY <2>3, ControlKeepsShape
  <2>5. Write(Watched, stored, "control")
      BY <1>2 DEF Update
  <2> HIDE DEF stored
  <2>6. held # NoRow
      BY DEF DriverWrites
  <2> QED BY <2>2, <2>4, <2>5, <2>6 DEF stored
<1> QED BY <1>1, <1>2

LEMMA DriverStep ==
    ASSUME OwnerInv, DriverReads \/ DriverWrites \/ DriverDrops
    PROVE  OwnerInv'
<1>1. CASE DriverReads
  <2>1. Numbered' /\ Grows(log, log')
      BY <1>1, LogStays DEF DriverReads, OwnerInv
  <2>2. current.version = Len(log) /\ Len(log) \in DOMAIN log
      BY SeqOfElements DEF OwnerInv, Numbered, IsSeq
  <2>3. current = log[Len(log)].record /\ held' = current /\ log' = log
      BY <1>1 DEF OwnerInv, Numbered, DriverReads, store
  <2>4. HeldIsListed'
      BY <2>2, <2>3 DEF HeldIsListed
  <2>5. UNCHANGED <<requests, dialog, shown, fetch>>
      BY <1>1 DEF DriverReads, page
  <2> QED BY <2>1, <2>4, <2>5, RequestsStay, OthersStayListed DEF OwnerInv
<1>2. CASE DriverWrites
  <2>1. UNCHANGED <<requests, dialog, shown, fetch>> /\ held' = NoRow
      BY <1>2 DEF DriverWrites, page
  <2>2. Numbered' /\ Grows(log, log')
    <3>1. CASE UNCHANGED store
        BY <3>1, LogStays DEF OwnerInv
    <3>2. CASE ~UNCHANGED store
      <4>1. PICK stored : /\ IsRecord(stored) /\ stored.version = Len(log) + 1
                          /\ Write(Watched, stored, "control")
          BY <1>2, <3>2, DriverStores
      <4> QED BY <4>1, WriteNumbers DEF OwnerInv
    <3> QED BY <3>1, <3>2
  <2> QED BY <2>1, <2>2, RequestsStay, OthersStayListed DEF OwnerInv
<1>3. CASE DriverDrops
  <2>1. UNCHANGED <<store, requests, dialog, shown, fetch>> /\ held' = NoRow
      BY <1>3 DEF DriverDrops, page
  <2>2. Numbered' /\ Grows(log, log')
      BY <2>1, LogStays DEF OwnerInv
  <2> QED BY <2>1, <2>2, RequestsStay, OthersStayListed DEF OwnerInv
<1> QED BY <1>1, <1>2, <1>3

LEMMA RequestIsGood ==
    ASSUME OwnerInv, NEW i \in DOMAIN requests
    PROVE  GoodRequest(log, requests[i])
BY DEF OwnerInv, RequestsAreGood

\* The first half of a command: what it answers at once, or decides in memory.
LEMMA CheckStep ==
    ASSUME OwnerInv, NEW i \in DOMAIN requests, CommandChecks(i)
    PROVE  OwnerInv'
<1> DEFINE q == requests[i]
<1>1. GoodRequest(log, q)
    BY RequestIsGood
<1>2. UNCHANGED <<store, held, dialog, shown, fetch>>
    BY DEF CommandChecks, page
<1>3. Numbered' /\ Grows(log, log')
    BY <1>2, LogStays DEF OwnerInv
<1>4. \E r : GoodRequest(log, r) /\ requests' = [requests EXCEPT ![i] = r]
  <2>1. CASE current.version # q.seen
    <3> DEFINE r == [q EXCEPT !.phase = "answered", !.answer = "stale_version", !.base = NoRow]
    <3>1. requests' = [requests EXCEPT ![i] = r]
        BY <2>1 DEF CommandChecks, Answered
    <3>2. GoodRequest(log, r)
        BY <1>1 DEF GoodRequest, RequestFields
    <3> QED BY <3>1, <3>2
  <2>2. CASE current.version = q.seen
    <3>1. current = log[q.seen].record /\ IsRecord(current)
      <4>1. current.version = Len(log) /\ Len(log) \in DOMAIN log
          BY SeqOfElements DEF OwnerInv, Numbered, IsSeq
      <4> QED BY <2>2, <4>1 DEF OwnerInv, Numbered
    <3>2. q.command \in Offered(current)
        BY <1>1, <3>1 DEF GoodRequest
    <3>3. CASE ~Accepts(current, q.command)
      <4> DEFINE r == [q EXCEPT !.phase = "answered", !.answer = "refused", !.base = NoRow]
      <4>1. requests' = [requests EXCEPT ![i] = r]
          BY <2>2, <3>3 DEF CommandChecks, Answered
      <4>2. q.command = "approve_plan" /\ (current.unfit \/ current.plan <= current.approved)
          BY <3>1, <3>2, <3>3, OnlyApprovalIsNotAccepted
      <4>3. /\ r = [f \in RequestFields |-> r[f]] /\ r.phase = "answered"
            /\ r.seen = q.seen /\ r.decided = q.decided /\ r.command = q.command
          BY <1>1 DEF GoodRequest, RequestFields
      <4> HIDE DEF r
      <4>4. GoodRequest(log, r)
          BY <1>1, <3>1, <4>2, <4>3 DEF GoodRequest
      <4> QED BY <4>1, <4>4
    <3>4. CASE Accepts(current, q.command)
      <4> DEFINE r == [q EXCEPT !.phase = "checked", !.base = current]
      <4>1. requests' = [requests EXCEPT ![i] = r]
          BY <2>2, <3>2, <3>4 DEF CommandChecks
      <4>2. /\ r = [f \in RequestFields |-> r[f]] /\ r.base = current /\ r.answer = q.answer
            /\ r.seen = q.seen /\ r.decided = q.decided /\ r.command = q.command
          BY <1>1 DEF GoodRequest, RequestFields
      <4> HIDE DEF r
      <4>3. GoodRequest(log, r)
          BY <1>1, <3>1, <3>4, <4>2 DEF GoodRequest
      <4> QED BY <4>1, <4>3
    <3> QED BY <3>3, <3>4
  <2> QED BY <2>1, <2>2
<1>5. RequestsAreGood'
  <2>1. log' = log
      BY <1>2 DEF store
  <2> QED BY <1>3, <1>4, <2>1, PutRequest DEF OwnerInv
<1> QED BY <1>2, <1>3, <1>5, OthersStayListed DEF OwnerInv

\* The second half of a command, when the version it was decided on is the row.
LEMMA OwnerStores ==
    ASSUME OwnerInv, NEW i \in DOMAIN requests, CommandWrites(i),
           IsCurrent(Watched, requests[i].seen)
    PROVE  LET command == requests[i].command
               new == Decided(current, command)
               stored == [new EXCEPT !.version = current.version + 1] IN
           /\ command \in Offered(current) /\ Accepts(current, command)
           /\ requests[i].seen = Len(log) /\ current.version = Len(log) /\ current # NoRow
           /\ requests[i].base = current
           /\ stored.version = Len(log) + 1
           /\ IF command = "approve_plan" /\ current.gap
              THEN ~CanUpdate(Watched, new, requests[i].seen)
              ELSE CanUpdate(Watched, new, requests[i].seen) /\ IsRecord(stored)
<1> DEFINE q == requests[i]
           command == q.command
           new == Decided(current, command)
           stored == [new EXCEPT !.version = current.version + 1]
<1>1. /\ GoodRequest(log, q) /\ q.phase = "checked"
    BY RequestIsGood DEF CommandWrites
<1>2. q.seen = Len(log) /\ current = log[q.seen].record /\ current.version = q.seen /\ current # NoRow
  <2>1. current.version = q.seen /\ current # NoRow
      BY DEF IsCurrent, current
  <2>2. Len(log) \in DOMAIN log
      BY SeqOfElements DEF OwnerInv, Numbered, IsSeq
  <2>3. current.version = Len(log) /\ current = log[Len(log)].record
      BY <2>2 DEF OwnerInv, Numbered
  <2> QED BY <2>1, <2>3
<1>3. /\ command \in Offered(current) /\ Accepts(current, command) /\ q.base = current
      /\ IsRecord(current)
    BY <1>1, <1>2 DEF GoodRequest, OwnerInv, Numbered
<1>4. current.version + 1 \in Version
    BY <1>3 DEF IsRecord, Version
<1> HIDE DEF q
<1>5. /\ stored.version = current.version + 1
      /\ ~(command = "approve_plan" /\ current.gap) => IsRecord(stored) /\ Evolves(current, stored)
      /\ stored.envelope = current.envelope /\ AddedTo(stored.used, current.used) = {}
      /\ command = "approve_plan" /\ current.gap => ~Evolves(current, stored)
    BY <1>3, <1>4, DecisionIsLegal
<1>6. /\ CanUpdate(Watched, new, q.seen) => Evolves(current, stored)
      /\ Evolves(current, stored) => CanUpdate(Watched, new, q.seen)
  <2>1. stored = [new EXCEPT !.version = q.seen + 1] /\ IsCurrent(Watched, q.seen)
      BY <1>2 DEF q
  <2> HIDE DEF stored, new, command
  <2> QED BY <1>5, <2>1 DEF CanUpdate, ProfilesAreKnown, current
<1> HIDE DEF stored, new
<1> QED BY <1>2, <1>3, <1>5, <1>6 DEF stored, new, q

\* The answer of a command that wrote, or could not.
LEMMA WriteStep ==
    ASSUME OwnerInv, NEW i \in DOMAIN requests, CommandWrites(i)
    PROVE  OwnerInv'
<1> DEFINE q == requests[i]
           new == Decided(q.base, q.command)
           answer == IF CanUpdate(Watched, new, q.seen) THEN "recorded"
                     ELSE IF IsCurrent(Watched, q.seen) THEN "refused" ELSE "stale_version"
           r == [q EXCEPT !.phase = "answered", !.answer = answer, !.base = NoRow]
<1>1. GoodRequest(log, q)
    BY RequestIsGood
<1>2. /\ requests' = [requests EXCEPT ![i] = r] /\ Update(Watched, new, q.seen, "owner")
      /\ UNCHANGED <<held, dialog, shown, fetch>>
    BY DEF CommandWrites, Answered, page
<1>3. Numbered' /\ Grows(log, log')
  <2>1. CASE ~CanUpdate(Watched, new, q.seen)
      BY <1>2, <2>1, LogStays DEF Update, OwnerInv
  <2>2. CASE CanUpdate(Watched, new, q.seen)
    <3>1. IsCurrent(Watched, q.seen)
        BY <2>2 DEF CanUpdate
    <3> PICK stored : stored = [Decided(current, q.command) EXCEPT !.version = current.version + 1]
        OBVIOUS
    <3>2. /\ q.base = current /\ q.seen = current.version /\ stored.version = Len(log) + 1
          /\ IsRecord(stored)
        BY <2>2, <3>1, OwnerStores
    <3>3. Write(Watched, stored, "owner")
        BY <1>2, <2>2, <3>2 DEF Update
    <3> QED BY <3>2, <3>3, WriteNumbers DEF OwnerInv
  <2> QED BY <2>1, <2>2
<1>4. answer = "refused" => q.command = "approve_plan" /\ log[q.seen].record.gap
  <2> SUFFICES ASSUME IsCurrent(Watched, q.seen), ~CanUpdate(Watched, new, q.seen)
               PROVE  q.command = "approve_plan" /\ log[q.seen].record.gap
      OBVIOUS
  <2>1. q.command = "approve_plan" /\ current.gap /\ q.seen = Len(log)
      BY OwnerStores
  <2> QED BY <2>1 DEF OwnerInv, Numbered
<1> HIDE DEF answer
<1>5. GoodRequest(log, r)
  <2>1. /\ r = [f \in RequestFields |-> r[f]] /\ r.phase = "answered" /\ r.answer = answer
        /\ r.seen = q.seen /\ r.decided = q.decided /\ r.command = q.command
      BY <1>1 DEF GoodRequest, RequestFields
  <2> HIDE DEF r, q
  <2> QED BY <1>1, <1>4, <2>1 DEF GoodRequest
<1>6. GoodRequest(log', r)
    BY <1>3, <1>5, RequestStays
<1> HIDE DEF r
<1>7. RequestsAreGood'
    BY <1>2, <1>3, <1>6, PutRequest DEF OwnerInv
<1> QED BY <1>2, <1>3, <1>7, OthersStayListed DEF OwnerInv

-----------------------------------------------------------------------------
(*                         Steps of the page and its owner                 *)

LEMMA AnswerStep ==
    ASSUME OwnerInv, NEW i \in DOMAIN requests, AnswerArrives(i) \/ AnswerLost(i)
    PROVE  OwnerInv'
<1> DEFINE q == requests[i]
<1>1. GoodRequest(log, q)
    BY RequestIsGood
<1>2. UNCHANGED <<store, held, dialog, shown>>
    BY DEF AnswerArrives, AnswerLost, page
<1>3. Numbered' /\ Grows(log, log')
    BY <1>2, LogStays DEF OwnerInv
<1>4. \E r : GoodRequest(log, r) /\ requests' = [requests EXCEPT ![i] = r]
  <2> DEFINE r == [q EXCEPT !.waiting = FALSE]
             u == [q EXCEPT !.waiting = FALSE, !.phase = "answered"]
  <2>1. GoodRequest(log, r) /\ GoodRequest(log, u)
      BY <1>1 DEF GoodRequest, RequestFields
  <2>2. requests' = [requests EXCEPT ![i] = r] \/ requests' = [requests EXCEPT ![i] = u]
      BY DEF AnswerArrives, AnswerLost
  <2> QED BY <2>1, <2>2
<1>5. RequestsAreGood' /\ UNCHANGED log
  <2>1. log' = log
      BY <1>2 DEF store
  <2> QED BY <1>3, <1>4, <2>1, PutRequest DEF OwnerInv
<1>6. PageIsListed'
  <2>1. Load \/ UNCHANGED fetch
      BY DEF AnswerArrives, AnswerLost, page
  <2> QED BY <1>2, <1>3, <1>5, <2>1, LoadIsFresh, OthersStayListed DEF OwnerInv
<1> QED BY <1>2, <1>3, <1>5, <1>6, OthersStayListed DEF OwnerInv

LEMMA DialogStep ==
    ASSUME OwnerInv, Cancel \/ Confirm \/ \E command \in Commands : OpenDialog(command)
    PROVE  OwnerInv'
<1>1. UNCHANGED <<store, held, shown, fetch>>
    BY DEF Cancel, Confirm, OpenDialog, server, page
<1>2. Numbered' /\ Grows(log, log') /\ log' = log
    BY <1>1, LogStays DEF OwnerInv, store
<1>3. CASE Cancel
    BY <1>1, <1>2, <1>3, RequestsStay, OthersStayListed DEF OwnerInv, Cancel, server
<1>4. CASE Confirm
  <2> DEFINE q == [command |-> dialog.command, seen |-> dialog.seen, decided |-> dialog.seen,
                   phase |-> "sent", base |-> NoRow, answer |-> Nothing, waiting |-> TRUE]
  <2>1. requests' = Append(requests, q) /\ dialog # Nothing /\ dialog' = Nothing
      BY <1>4 DEF Confirm
  <2>2. /\ q = [f \in RequestFields |-> q[f]] /\ q.phase = "sent" /\ q.answer = Nothing
        /\ q.seen = dialog.seen /\ q.decided = q.seen /\ q.command = dialog.command
      BY DEF RequestFields
  <2> HIDE DEF q
  <2>3. GoodRequest(log', q)
      BY <1>2, <2>1, <2>2, PageAssumption DEF GoodRequest, OwnerInv, DialogIsListed
  <2>4. /\ IsSeq(requests') /\ DOMAIN requests' = 1..(Len(requests) + 1)
        /\ DOMAIN requests = 1..Len(requests) /\ Len(requests) \in Nat
        /\ requests'[Len(requests) + 1] = q /\ \A j \in 1..Len(requests) : requests'[j] = requests[j]
      BY <2>1, AppendTo DEF OwnerInv, RequestsAreGood
  <2>5. \A j \in DOMAIN requests' : GoodRequest(log', requests'[j])
    <3> TAKE j \in DOMAIN requests'
    <3>1. CASE j = Len(requests) + 1
        BY <2>3, <2>4, <3>1
    <3>2. CASE j # Len(requests) + 1
      <4>1. j \in DOMAIN requests /\ requests'[j] = requests[j]
          BY <2>4, <3>2
      <4> QED BY <1>2, <4>1, RequestIsGood
    <3> QED BY <3>1, <3>2
  <2>6. RequestsAreGood'
      BY <2>4, <2>5 DEF RequestsAreGood
  <2> QED BY <1>1, <1>2, <2>1, <2>6, OthersStayListed DEF OwnerInv
<1>5. CASE \E command \in Commands : OpenDialog(command)
  <2> PICK command \in Commands : OpenDialog(command)
      BY <1>5
  <2>1. /\ shown \in DOMAIN log /\ dialog'.command = command /\ dialog'.seen = shown
        /\ command \in Offered(RecordAt(shown)) /\ UNCHANGED requests
      BY DEF OpenDialog, ShowsRecord, OwnerInv, PageIsListed, server
  <2>2. RecordAt(shown) = log[shown].record
      BY <2>1, RecordIsListed DEF OwnerInv
  <2>3. DialogIsListed'
      BY <1>2, <2>1, <2>2 DEF DialogIsListed
  <2> QED BY <1>1, <1>2, <2>1, <2>3, RequestsStay, OthersStayListed DEF OwnerInv
<1> QED BY <1>3, <1>4, <1>5

LEMMA FetchStep ==
    ASSUME OwnerInv, Subscribe \/ PollTick \/ Deliver \/ ReadRecord \/ Show \/ FetchFails
    PROVE  OwnerInv'
<1>1. UNCHANGED <<store, held, requests, dialog>>
    BY DEF Subscribe, PollTick, Deliver, ReadRecord, Show, FetchFails, Settle, server
<1>2. Numbered' /\ Grows(log, log') /\ log' = log
    BY <1>1, LogStays DEF OwnerInv, store
<1>3. PageIsListed'
  <2>1. CASE Subscribe \/ PollTick \/ Deliver
    <3>1. (Load \/ UNCHANGED fetch) /\ UNCHANGED shown
        BY <2>1 DEF Subscribe, PollTick, Deliver
    <3> QED BY <1>2, <3>1, LoadIsFresh, OthersStayListed DEF OwnerInv
  <2>2. CASE ReadRecord
    <3>1. current.version = Len(log) /\ Len(log) \in DOMAIN log
        BY SeqOfElements DEF OwnerInv, Numbered, IsSeq
    <3> QED BY <1>2, <2>2, <3>1 DEF ReadRecord, OwnerInv, PageIsListed
  <2>3. CASE Show
      BY <1>2, <2>3 DEF Show, Settle, OwnerInv, PageIsListed, Requested, Idle
  <2>4. CASE FetchFails
      BY <1>2, <2>4 DEF FetchFails, Settle, OwnerInv, PageIsListed, Requested, Idle
  <2> QED BY <2>1, <2>2, <2>3, <2>4
<1> QED BY <1>1, <1>2, <1>3, RequestsStay, OthersStayListed DEF OwnerInv

\* Connections and the stream's handler do not concern the owner.
StreamOnly ==
    Unsubscribe \/ Connect \/ ConnectRefused \/ Reopen \/ ReadHead \/ PollEvents \/ StoreUnreadable
      \/ StreamEnds \/ Drop

LEMMA OwnerStep == OwnerInv /\ [Next]_vars => OwnerInv'
<1> SUFFICES ASSUME OwnerInv, [Next]_vars PROVE OwnerInv'
    OBVIOUS
<1>1. CASE UNCHANGED vars
    BY <1>1, OwnerStays DEF vars, server, page
<1>2. CASE StreamOnly
  <2>1. UNCHANGED <<store, held, requests, dialog, shown, fetch>>
      BY <1>2 DEF StreamOnly, Unsubscribe, Connect, ConnectRefused, Reopen, ReadHead, PollEvents,
                  StoreUnreadable, StreamEnds, Drop, Reconnecting, server, page
  <2> QED BY <2>1, OwnerStays
<1> QED BY <1>1, <1>2, DriverStep, CheckStep, WriteStep, AnswerStep, DialogStep, FetchStep
        DEF Next, StreamOnly

LEMMA OwnerSafe == Spec => []OwnerInv
BY InitOwner, OwnerStep, PTL DEF Spec

\* Only the driver and the handler of a command write.
LEMMA OnlyWritersStore ==
    ASSUME [Next]_vars, ~UNCHANGED store
    PROVE  DriverWrites \/ \E i \in DOMAIN requests : CommandWrites(i)
<1>1. CASE UNCHANGED vars
    BY <1>1 DEF vars
<1>2. ASSUME StreamOnly PROVE UNCHANGED store
    BY <1>2 DEF StreamOnly, Unsubscribe, Connect, ConnectRefused, Reopen, ReadHead, PollEvents,
                StoreUnreadable, StreamEnds, Drop, Reconnecting
<1>3. ASSUME Subscribe \/ PollTick \/ Deliver \/ ReadRecord \/ Show \/ FetchFails
      PROVE  UNCHANGED store
    BY <1>3 DEF Subscribe, PollTick, Deliver, ReadRecord, Show, FetchFails, Settle
<1>4. ASSUME DriverReads \/ DriverDrops \/ Cancel \/ Confirm \/ \E command \in Commands : OpenDialog(command)
      PROVE  UNCHANGED store
    BY <1>4 DEF DriverReads, DriverDrops, Cancel, Confirm, OpenDialog
<1>5. ASSUME NEW i \in DOMAIN requests, CommandChecks(i) \/ AnswerArrives(i) \/ AnswerLost(i)
      PROVE  UNCHANGED store
    BY <1>5 DEF CommandChecks, AnswerArrives, AnswerLost
<1> QED BY <1>1, <1>2, <1>3, <1>4, <1>5 DEF Next, StreamOnly

\* What a command stores is the decision on the row, which is the version it names.
LEMMA OwnerWrites ==
    ASSUME OwnerInv, NEW i \in DOMAIN requests, CommandWrites(i), ~UNCHANGED store
    PROVE  LET command == requests[i].command
               stored == [Decided(current, command) EXCEPT !.version = current.version + 1] IN
           /\ command \in Offered(current) /\ Accepts(current, command) /\ current # NoRow
           /\ requests[i].seen = current.version
           /\ IsRecord(stored) /\ stored.version = Len(log) + 1 /\ Write(Watched, stored, "owner")
           /\ requests'[i].answer = "recorded"
<1> DEFINE q == requests[i]
           new == Decided(q.base, q.command)
<1>1. CanUpdate(Watched, new, q.seen) /\ Write(Watched, [new EXCEPT !.version = q.seen + 1], "owner")
    BY DEF CommandWrites, Update
<1>2. IsCurrent(Watched, q.seen)
    BY <1>1 DEF CanUpdate
<1>3. requests'[i].answer = "recorded"
  <2>1. GoodRequest(log, q)
      BY RequestIsGood
  <2>2. Answered(i, "recorded")
      BY <1>1 DEF CommandWrites
  <2>3. q = [f \in RequestFields |-> q[f]]
      BY <2>1 DEF GoodRequest
  <2> DEFINE r == [q EXCEPT !.phase = "answered", !.answer = "recorded", !.base = NoRow]
  <2>4. requests' = [requests EXCEPT ![i] = r]
      BY <2>2 DEF Answered
  <2>5. r.answer = "recorded"
      BY <2>3 DEF RequestFields
  <2> HIDE DEF r
  <2>6. requests'[i] = r
      BY <2>4, ReplaceIn DEF OwnerInv, RequestsAreGood
  <2> QED BY <2>5, <2>6
<1>4. q.base = current /\ q.seen = current.version
    BY <1>2, OwnerStores
<1> PICK stored : stored = [Decided(current, q.command) EXCEPT !.version = current.version + 1]
    OBVIOUS
<1>5. /\ q.command \in Offered(current) /\ Accepts(current, q.command) /\ current # NoRow
      /\ IsRecord(stored) /\ stored.version = Len(log) + 1
    BY <1>1, <1>2, <1>4, OwnerStores
<1>6. Write(Watched, stored, "owner")
    BY <1>1, <1>4
<1> QED BY <1>3, <1>4, <1>5, <1>6

-----------------------------------------------------------------------------
(*                                 Theorems                                *)

\* No command the page offers is refused, but an approval of a plan that has
\* no new version, breaks independence or does not fit what is done: the guards
\* of commands.py and the machine agree with what the view offered, whatever
\* drivers and other commands did in between.
THEOREM OfferedIsAccepted == Spec => []OnlyApprovalIsRefused
<1>1. OwnerInv => OnlyApprovalIsRefused
  <2> SUFFICES ASSUME OwnerInv, NEW i \in DOMAIN requests, requests[i].answer = "refused"
               PROVE  LET seen == RecordAt(requests[i].decided) IN
                      /\ requests[i].command = "approve_plan"
                      /\ seen.gap \/ seen.unfit \/ seen.plan <= seen.approved
      BY DEF OnlyApprovalIsRefused
  <2>1. GoodRequest(log, requests[i])
      BY RequestIsGood
  <2>2. RecordAt(requests[i].decided) = log[requests[i].decided].record
      BY <2>1, RecordIsListed DEF GoodRequest, OwnerInv
  <2> QED BY <2>1, <2>2 DEF GoodRequest
<1> QED BY <1>1, OwnerSafe, PTL

\* A decision of the owner is stored on the version the dialog named, for any
\* interleaving of loads, drivers, lost answers and repeated commands.
THEOREM DecidesOnTheDialog == Spec => OwnerDecidesOnWhatWasShown
<1>1. ASSUME OwnerInv, [Next]_vars, log' # log, log'[Len(log')].event = "owner"
      PROVE  \E i \in DOMAIN requests :
                /\ requests[i].phase = "checked" /\ requests'[i].answer = "recorded"
                /\ requests[i].decided = current.version
  <2>1. ~UNCHANGED store
      BY <1>1 DEF store
  <2>2. CASE DriverWrites
    <3>1. PICK stored : /\ IsRecord(stored) /\ stored.version = Len(log) + 1
                        /\ Write(Watched, stored, "control")
        BY <1>1, <2>1, <2>2, DriverStores
    <3>2. log'[Len(log')].event = "control"
        BY <1>1, <3>1, WriteNumbers DEF OwnerInv
    <3> QED BY <1>1, <3>2
  <2>3. ASSUME NEW i \in DOMAIN requests, CommandWrites(i)
        PROVE  /\ requests[i].phase = "checked" /\ requests'[i].answer = "recorded"
               /\ requests[i].decided = current.version
    <3>1. requests[i].seen = current.version /\ requests'[i].answer = "recorded"
        BY <1>1, <2>1, <2>3, OwnerWrites
    <3>2. requests[i].decided = requests[i].seen
        BY <1>1, RequestIsGood DEF GoodRequest
    <3> QED BY <2>3, <3>1, <3>2 DEF CommandWrites
  <2> QED BY <1>1, <2>1, <2>2, <2>3, OnlyWritersStore
<1>2. OwnerInv /\ [Next]_vars =>
        [ log' # log /\ log'[Len(log')].event = "owner" =>
            \E i \in DOMAIN requests :
               /\ requests[i].phase = "checked" /\ requests'[i].answer = "recorded"
               /\ requests[i].decided = current.version ]_vars
    BY <1>1
<1> QED BY <1>2, OwnerSafe, PTL DEF Spec, OwnerDecidesOnWhatWasShown

\* Mission Control and the other writers implement the atomic record: every
\* step of the store is a whole operation on the version before it, or none.
THEOREM ImplementsAtomicRecord == Spec => ActsAtomically
<1>1. Init => row \in [WorkOrderId -> {h[Len(h)] : h \in Histories} \cup {NoRow}]
    BY DEF Init, InitWith
<1>2. ASSUME OwnerInv, [Next]_vars PROVE [Atomic!Next]_row
  <2> SUFFICES ASSUME ~UNCHANGED store
               PROVE  Atomic!Operate(Watched)
      BY PageAssumption DEF Atomic!Next, store
  <2>1. ASSUME NEW new \in Outcomes(current), NEW event, current # NoRow,
               Write(Watched, [new EXCEPT !.version = current.version + 1], event)
        PROVE  Atomic!Operate(Watched)
      BY <2>1 DEF Atomic!Operate, current, Write
  <2>2. CASE DriverWrites
    <3>1. PICK new \in ControlOutcome(current) :
             current # NoRow /\ Write(Watched, [new EXCEPT !.version = current.version + 1], "control")
        BY <1>2, <2>2, DriverStores
    <3> QED BY <2>1, <3>1 DEF Outcomes
  <2>3. ASSUME NEW i \in DOMAIN requests, CommandWrites(i)
        PROVE  Atomic!Operate(Watched)
    <3> DEFINE new == Decided(current, requests[i].command)
    <3>1. /\ requests[i].command \in Offered(current) /\ Accepts(current, requests[i].command)
          /\ current # NoRow
          /\ Write(Watched, [new EXCEPT !.version = current.version + 1], "owner")
        BY <1>2, <2>3, OwnerWrites
    <3>2. new \in Outcomes(current)
        BY <3>1 DEF Outcomes, OwnerOutcome
    <3> QED BY <2>1, <3>1, <3>2
  <2> QED BY <1>2, <2>2, <2>3, OnlyWritersStore
<1> QED BY <1>1, <1>2, OwnerSafe, PTL DEF Spec, ActsAtomically, Atomic!Spec

-----------------------------------------------------------------------------
(*                            The stream's invariant                       *)

LEMMA LogGrows ==
    ASSUME OwnerInv, [Next]_vars
    PROVE  Grows(log, log')
<1>1. CASE UNCHANGED store
    BY <1>1, LogStays DEF OwnerInv
<1>2. CASE ~UNCHANGED store
  <2>1. CASE DriverWrites
      BY <1>2, <2>1, DriverStores, WriteNumbers DEF OwnerInv
  <2>2. ASSUME NEW i \in DOMAIN requests, CommandWrites(i) PROVE Grows(log, log')
    <3> PICK stored : stored = [Decided(current, requests[i].command) EXCEPT !.version = current.version + 1]
        OBVIOUS
    <3>1. IsRecord(stored) /\ stored.version = Len(log) + 1 /\ Write(Watched, stored, "owner")
        BY <1>2, <2>2, OwnerWrites
    <3> QED BY <3>1, WriteNumbers DEF OwnerInv
  <2> QED BY <1>2, <2>1, <2>2, OnlyWritersStore
<1> QED BY <1>1, <1>2

LEMMA InitStream == Init => StreamInv
<1> SUFFICES ASSUME Init PROVE StreamInv
    OBVIOUS
<1>1. /\ source = [state |-> "connecting", last |-> Nothing]
      /\ stream = [phase |-> "none", cursor |-> 0] /\ wire = <<>> /\ watching = FALSE
    BY DEF Init, Disconnected
<1> QED BY <1>1 DEF StreamInv, Wired, Fresh, IsSeq

LEMMA WiredStays ==
    ASSUME Wired, Grows(log, log'), UNCHANGED connection
    PROVE  Wired'
<1>1. UNCHANGED <<source, stream, wire>>
    BY DEF connection
<1>2. \A k \in DOMAIN wire : GoodFrame(log', wire[k])
    BY FrameStays DEF Wired
<1>3. DOMAIN log \subseteq DOMAIN log'
    BY DEF Grows
<1> QED BY <1>1, <1>2, <1>3 DEF Wired

LEMMA FreshStays ==
    ASSUME Fresh, Grows(log, log'), UNCHANGED page, source'.last = source.last
    PROVE  Fresh'
BY DEF Fresh, Grows, page

\* The head of the log is the version of the row.
LEMMA HeadIsCurrent ==
    ASSUME Numbered
    PROVE  /\ DOMAIN log = 1..Len(log) /\ Len(log) \in DOMAIN log /\ Len(log) \in Nat
           /\ current.version = Len(log)
<1>1. DOMAIN log = 1..Len(log) /\ Len(log) \in DOMAIN log /\ Len(log) \in Nat
    BY SeqOfElements DEF Numbered, IsSeq
<1> QED BY <1>1 DEF Numbered

\* The screen: what it shows next was read after what was delivered.
LEMMA ScreenStep ==
    ASSUME OwnerInv, StreamInv, Grows(log, log'),
           \/ Subscribe \/ Unsubscribe \/ PollTick \/ ReadRecord \/ Show \/ FetchFails
           \/ \E i \in DOMAIN requests : AnswerArrives(i)
    PROVE  StreamInv'
<1>1. UNCHANGED connection
    BY DEF Subscribe, Unsubscribe, PollTick, ReadRecord, Show, FetchFails, Settle, AnswerArrives
<1>2. UNCHANGED source /\ (source.last # Nothing => source.last \in DOMAIN log)
    BY <1>1 DEF connection, StreamInv, Wired
<1>3. Wired'
    BY <1>1, WiredStays DEF StreamInv
<1>4. Fresh'
  <2>1. CASE Load
      BY <2>1, LoadIsFresh DEF Fresh
  <2>2. CASE Unsubscribe
      BY <2>2 DEF Unsubscribe, Fresh
  <2>3. CASE UNCHANGED <<fetch, stale>> /\ UNCHANGED <<watching, shown>>
      BY <1>2, <2>3 DEF Fresh, StreamInv, Grows
  <2>4. CASE ReadRecord
    <3>1. fetch' = [phase |-> "answered", version |-> Len(log)]
        BY <2>4, HeadIsCurrent DEF ReadRecord, OwnerInv
    <3>2. source.last # Nothing => Len(log) >= source.last
        BY <1>2, HeadIsCurrent DEF OwnerInv
    <3> QED BY <1>2, <3>1, <3>2 DEF Fresh
  <2>5. CASE Show
    <3>1. CASE stale
        BY <2>5, <3>1 DEF Show, Settle, Requested, Fresh
    <3>2. CASE ~stale
      <4>1. fetch'.phase = "idle" /\ shown' = fetch.version /\ UNCHANGED watching
          BY <2>5, <3>2 DEF Show, Settle, Idle
      <4>2. fetch.version \in DOMAIN log'
          BY <2>5 DEF Show, OwnerInv, PageIsListed, Grows
      <4>3. watching /\ source.last # Nothing => fetch.version >= source.last
          BY <2>5, <3>2 DEF Show, StreamInv, Fresh
      <4> QED BY <1>2, <4>1, <4>2, <4>3 DEF Fresh
    <3> QED BY <3>1, <3>2
  <2>6. CASE FetchFails
      BY <2>6 DEF FetchFails, Settle, Requested, Idle, Fresh
  <2>7. ASSUME NEW i \in DOMAIN requests, AnswerArrives(i)
        PROVE  Load \/ (UNCHANGED <<fetch, stale>> /\ UNCHANGED <<watching, shown>>)
      BY <2>7 DEF AnswerArrives
  <2>8. Subscribe \/ PollTick => Load
      BY DEF Subscribe, PollTick
  <2> QED BY <2>1, <2>2, <2>3, <2>4, <2>5, <2>6, <2>7, <2>8
<1> QED BY <1>3, <1>4 DEF StreamInv

\* Connections: a new one starts where the last delivered frame left.
LEMMA ConnectionStep ==
    ASSUME OwnerInv, StreamInv, Grows(log, log'),
           Connect \/ ConnectRefused \/ Reopen \/ StoreUnreadable \/ StreamEnds \/ Drop
    PROVE  StreamInv'
<1>1. /\ UNCHANGED <<log, watching, fetch, stale, shown>>
      /\ \A k \in DOMAIN wire : GoodFrame(log', wire[k])
  <2>1. UNCHANGED <<store, watching, fetch, stale, shown>>
      BY DEF Connect, ConnectRefused, Reopen, StoreUnreadable, StreamEnds, Drop, Reconnecting, page
  <2> QED BY <2>1, FrameStays DEF store, StreamInv, Wired
<1>2. /\ source = [state |-> source.state, last |-> source.last]
      /\ stream = [phase |-> stream.phase, cursor |-> stream.cursor]
    BY DEF StreamInv, Wired
<1>3. CASE Connect
  <2>1. /\ source' = [state |-> "open", last |-> source.last]
        /\ stream' = [phase |-> "start", cursor |-> source.last] /\ wire' = <<>>
      BY <1>2, <1>3 DEF Connect
  <2> QED BY <1>1, <2>1 DEF StreamInv, Wired, Fresh, IsSeq
<1>4. CASE ConnectRefused
  <2>1. /\ source' = [state |-> "closed", last |-> source.last] /\ UNCHANGED <<stream, wire>>
        /\ source.state = "connecting"
      BY <1>2, <1>4 DEF ConnectRefused
  <2> QED BY <1>1, <2>1 DEF StreamInv, Wired, Fresh
<1>5. CASE Reopen
  <2>1. /\ source' = [state |-> "connecting", last |-> Nothing] /\ UNCHANGED <<stream, wire>>
        /\ source.state = "closed"
      BY <1>5 DEF Reopen
  <2> QED BY <1>1, <2>1 DEF StreamInv, Wired, Fresh
<1>6. CASE StoreUnreadable
  <2> DEFINE frame == [event |-> "unavailable", id |-> Nothing, about |-> Nothing]
  <2>1. /\ stream' = [phase |-> "ended", cursor |-> stream.cursor] /\ wire' = Append(wire, frame)
        /\ UNCHANGED source /\ stream.phase # "none"
      BY <1>2, <1>6 DEF StoreUnreadable
  <2>2. GoodFrame(log', frame)
      BY DEF GoodFrame
  <2> HIDE DEF frame
  <2>3. IsSeq(wire') /\ \A k \in DOMAIN wire' : GoodFrame(log', wire'[k])
    <3>1. /\ IsSeq(wire') /\ wire'[Len(wire) + 1] = frame
          /\ DOMAIN wire' = 1..(Len(wire) + 1) /\ DOMAIN wire = 1..Len(wire) /\ Len(wire) \in Nat
          /\ \A k \in 1..Len(wire) : wire'[k] = wire[k]
        BY <2>1, AppendTo DEF StreamInv, Wired
    <3> QED BY <1>1, <2>2, <3>1
  <2> QED BY <1>1, <2>1, <2>3 DEF StreamInv, Wired, Fresh
<1>7. CASE StreamEnds \/ Drop
  <2>1. /\ source' = [state |-> "connecting", last |-> source.last] /\ wire' = <<>>
        /\ stream' = [phase |-> "none", cursor |-> 0]
      BY <1>2, <1>7 DEF StreamEnds, Drop, Reconnecting, Disconnected
  <2> QED BY <1>1, <2>1 DEF StreamInv, Wired, Fresh, IsSeq
<1> QED BY <1>3, <1>4, <1>5, <1>6, <1>7

\* One query of the stream: the events after the cursor, up to the limit.
LEMMA FramesFollow ==
    ASSUME Numbered, NEW cursor \in DOMAIN log, cursor < Len(log)
    PROVE  LET frames == Frames(cursor) IN
           /\ IsSeq(frames) /\ Len(frames) >= 1 /\ cursor + Len(frames) \in DOMAIN log
           /\ frames[Len(frames)].id = cursor + Len(frames)
           /\ \A k \in DOMAIN frames : GoodFrame(log, frames[k])
<1> DEFINE frames == Frames(cursor)
<1>1. DOMAIN log = 1..Len(log) /\ Len(log) \in Nat /\ BatchLimit \in Nat \ {0}
    BY HeadIsCurrent, PageAssumption
<1> PICK count : count = IF Len(log) - cursor < BatchLimit THEN Len(log) - cursor ELSE BatchLimit
    OBVIOUS
<1>2. count \in Nat /\ count >= 1 /\ cursor + count <= Len(log)
    BY <1>1
<1>3. frames = [k \in 1..count |->
                  [event |-> "work-order", id |-> cursor + k, about |-> log[cursor + k].id]]
    BY DEF Frames
<1> HIDE DEF frames
<1>4. frames \in Seq(Elements(frames)) /\ Len(frames) = count /\ DOMAIN frames = 1..count
  <2>1. DOMAIN frames = 1..count /\ frames = [k \in 1..count |-> frames[k]]
      BY <1>3
  <2>2. \A k \in 1..count : frames[k] \in Elements(frames)
      BY <2>1 DEF Elements
  <2>3. frames \in [1..count -> Elements(frames)]
      BY <2>1, <2>2
  <2>4. frames \in Seq(Elements(frames)) /\ Len(frames) = count
      BY <1>2, <2>3, SeqOfFunction
  <2> QED BY <2>1, <2>4
<1>5. IsSeq(frames)
    BY <1>4, SeqOfElements
<1>6. \A k \in 1..count : /\ frames[k].id = cursor + k /\ cursor + k \in DOMAIN log
                          /\ frames[k].about = Watched
    BY <1>1, <1>2, <1>3 DEF Numbered
<1>7. \A k \in DOMAIN frames : GoodFrame(log, frames[k])
    BY <1>4, <1>6 DEF GoodFrame
<1>8. count \in 1..count /\ Len(frames) = count /\ Len(frames) >= 1
    BY <1>2, <1>4
<1>9. frames[count].id = cursor + count /\ cursor + count \in DOMAIN log
    BY <1>6, <1>8, Zenon
<1> QED BY <1>5, <1>7, <1>8, <1>9 DEF frames

LEMMA JoinSeqs ==
    ASSUME NEW s, NEW t, IsSeq(s), IsSeq(t), Len(t) >= 1
    PROVE  /\ IsSeq(s \o t) /\ s \o t # <<>> /\ (s \o t)[Len(s \o t)] = t[Len(t)]
           /\ \A k \in DOMAIN (s \o t) :
                 \/ k \in DOMAIN s /\ (s \o t)[k] = s[k]
                 \/ \E j \in DOMAIN t : (s \o t)[k] = t[j]
<1> DEFINE S == Elements(s) \cup Elements(t)
<1>1. s \in Seq(S) /\ t \in Seq(S)
    BY DEF IsSeq
<1> HIDE DEF S
<1>2. /\ s \o t \in Seq(S) /\ Len(s \o t) = Len(s) + Len(t) /\ Len(s) \in Nat /\ Len(t) \in Nat
      /\ DOMAIN s = 1..Len(s) /\ DOMAIN t = 1..Len(t) /\ DOMAIN (s \o t) = 1..(Len(s) + Len(t))
      /\ \A k \in 1..(Len(s) + Len(t)) : (s \o t)[k] = IF k <= Len(s) THEN s[k] ELSE t[k - Len(s)]
    BY <1>1
<1>3. IsSeq(s \o t) /\ s \o t # <<>>
  <2>1. Len(s \o t) # 0 /\ Len(<<>>) = 0
      BY <1>2
  <2>2. IsSeq(s \o t)
      BY <1>2, SeqOfElements
  <2> QED BY <2>1, <2>2
<1>4. (s \o t)[Len(s \o t)] = t[Len(t)]
    BY <1>2
<1>5. ASSUME NEW k \in DOMAIN (s \o t)
      PROVE  \/ k \in DOMAIN s /\ (s \o t)[k] = s[k]
             \/ \E j \in DOMAIN t : (s \o t)[k] = t[j]
  <2>1. CASE k <= Len(s)
      BY <1>2, <2>1
  <2>2. CASE ~(k <= Len(s))
    <3>1. k - Len(s) \in DOMAIN t /\ (s \o t)[k] = t[k - Len(s)]
        BY <1>2, <2>2
    <3> QED BY <3>1
  <2> QED BY <2>1, <2>2
<1> QED BY <1>3, <1>4, <1>5

LEMMA TailOf ==
    ASSUME NEW s, IsSeq(s), s # <<>>
    PROVE  /\ IsSeq(Tail(s)) /\ 1 \in DOMAIN s /\ Head(s) = s[1]
           /\ Tail(s) = <<>> => Len(s) = 1
           /\ Tail(s) # <<>> => Tail(s)[Len(Tail(s))] = s[Len(s)]
           /\ \A k \in DOMAIN Tail(s) : k + 1 \in DOMAIN s /\ Tail(s)[k] = s[k + 1]
<1> DEFINE S == Elements(s)
<1>1. s \in Seq(S)
    BY DEF IsSeq
<1> HIDE DEF S
<1>2. /\ Tail(s) \in Seq(S) /\ Len(s) \in Nat /\ Len(s) >= 1 /\ Len(Tail(s)) = Len(s) - 1
      /\ DOMAIN s = 1..Len(s) /\ DOMAIN Tail(s) = 1..(Len(s) - 1) /\ Head(s) = s[1]
      /\ \A k \in 1..(Len(s) - 1) : Tail(s)[k] = s[k + 1]
    BY <1>1
<1>3. IsSeq(Tail(s))
    BY <1>2, SeqOfElements
<1>4. Tail(s) = <<>> => Len(s) = 1
  <2> SUFFICES ASSUME Tail(s) = <<>> PROVE Len(s) = 1
      OBVIOUS
  <2>1. Len(<<>>) = 0
      OBVIOUS
  <2>0. PICK n : n = Len(Tail(s))
      OBVIOUS
  <2>2. n = 0
      BY <2>0, <2>1
  <2>3. n = Len(s) - 1 /\ Len(s) \in Nat
      BY <1>2, <2>0
  <2> QED BY <2>2, <2>3
<1>5. Tail(s) # <<>> => Tail(s)[Len(Tail(s))] = s[Len(s)]
    BY <1>2
<1> QED BY <1>2, <1>3, <1>4, <1>5

\* The handler: a cursor it goes on from is one it has announced.
LEMMA HandlerStep ==
    ASSUME OwnerInv, StreamInv, ReadHead \/ PollEvents
    PROVE  StreamInv'
<1>1. UNCHANGED <<store, page, source, log, watching, fetch, stale, shown>>
    BY DEF ReadHead, PollEvents, store, page
<1>2. /\ stream = [phase |-> stream.phase, cursor |-> stream.cursor]
      /\ DOMAIN log = 1..Len(log) /\ Len(log) \in DOMAIN log
    BY HeadIsCurrent DEF StreamInv, Wired, OwnerInv
<1>3. Fresh'
    BY <1>1 DEF StreamInv, Fresh
<1>4. CASE ReadHead
  <2>1. wire = <<>> /\ stream.cursor = source.last /\ source.state = "open"
      BY <1>4 DEF ReadHead, StreamInv, Wired
  <2>2. CASE stream.cursor = Nothing
    <3> DEFINE frame == [event |-> "ready", id |-> Len(log), about |-> Nothing]
    <3>1. /\ stream' = [phase |-> "run", cursor |-> Len(log)] /\ wire' = <<frame>>
        BY <1>4, <2>1, <2>2 DEF ReadHead
    <3>2. GoodFrame(log, frame) /\ frame.id = Len(log)
        BY <1>2 DEF GoodFrame
    <3> HIDE DEF frame
    <3>3. IsSeq(wire') /\ DOMAIN wire' = {1} /\ wire'[1] = frame /\ Len(wire') = 1 /\ wire' # <<>>
      <4>1. <<frame>> \in Seq({frame})
          OBVIOUS
      <4>2. DOMAIN <<frame>> = {1} /\ Len(<<frame>>) = 1 /\ <<frame>>[1] = frame /\ <<frame>> # <<>>
          OBVIOUS
      <4> QED BY <3>1, <4>1, <4>2, SeqOfElements
    <3>4. Wired'
        BY <1>1, <1>2, <2>1, <3>1, <3>2, <3>3 DEF StreamInv, Wired
    <3> QED BY <1>3, <3>4 DEF StreamInv
  <2>3. CASE stream.cursor # Nothing
    <3>1. stream.cursor \in DOMAIN log
        BY <2>1, <2>3 DEF StreamInv, Wired
    <3>2. stream' = [phase |-> "run", cursor |-> stream.cursor] /\ wire' = wire
        BY <1>2, <1>4, <2>3, <3>1 DEF ReadHead
    <3>3. Wired'
        BY <1>1, <2>1, <3>1, <3>2 DEF StreamInv, Wired
    <3> QED BY <1>3, <3>3 DEF StreamInv
  <2> QED BY <2>2, <2>3
<1>5. CASE PollEvents
  <2>1. stream.cursor \in DOMAIN log /\ stream.cursor < Len(log) /\ stream.phase = "run"
      BY <1>5 DEF PollEvents, StreamInv, Wired
  <2> PICK frames : frames = Frames(stream.cursor)
      OBVIOUS
  <2>2. /\ IsSeq(frames) /\ Len(frames) >= 1 /\ stream.cursor + Len(frames) \in DOMAIN log
        /\ frames[Len(frames)].id = stream.cursor + Len(frames)
        /\ \A k \in DOMAIN frames : GoodFrame(log, frames[k])
      BY <2>1, FramesFollow DEF OwnerInv
  <2>3. wire' = wire \o frames /\ stream' = [phase |-> "run", cursor |-> stream.cursor + Len(frames)]
      BY <1>2, <1>5, <2>1 DEF PollEvents
  <2>4. /\ IsSeq(wire') /\ wire' # <<>> /\ wire'[Len(wire')].id = stream.cursor + Len(frames)
        /\ \A k \in DOMAIN wire' : GoodFrame(log, wire'[k])
      BY <2>2, <2>3, JoinSeqs DEF StreamInv, Wired
  <2>5. Wired'
      BY <1>1, <2>1, <2>2, <2>3, <2>4 DEF StreamInv, Wired
  <2> QED BY <1>3, <2>5 DEF StreamInv
<1> QED BY <1>4, <1>5

\* A frame that moves the Last-Event-ID makes a page that watches load.
LEMMA DeliverStep ==
    ASSUME OwnerInv, StreamInv, Deliver
    PROVE  StreamInv'
<1> DEFINE frame == Head(wire)
<1>1. /\ UNCHANGED <<log, stream, watching, shown>> /\ wire # <<>> /\ wire' = Tail(wire)
    BY DEF Deliver, store
<1>2. /\ IsSeq(Tail(wire)) /\ 1 \in DOMAIN wire /\ frame = wire[1]
      /\ Tail(wire) = <<>> => Len(wire) = 1
      /\ Tail(wire) # <<>> => Tail(wire)[Len(Tail(wire))] = wire[Len(wire)]
      /\ \A k \in DOMAIN Tail(wire) : k + 1 \in DOMAIN wire /\ Tail(wire)[k] = wire[k + 1]
    BY <1>1, TailOf DEF StreamInv, Wired
<1>3. GoodFrame(log, frame)
    BY <1>2 DEF StreamInv, Wired
<1>4. /\ source'.state = source.state /\ source' = [state |-> source'.state, last |-> source'.last]
      /\ source'.last = IF frame.id = Nothing THEN source.last ELSE frame.id
    BY DEF Deliver, StreamInv, Wired
<1>5. /\ watching /\ (frame.event = "ready" \/ frame.about = Watched) => Load
      /\ Load \/ UNCHANGED <<fetch, stale>>
    BY DEF Deliver
<1> HIDE DEF frame
<1>6. Fresh'
  <2>1. CASE frame.id = Nothing
    <3>1. source'.last = source.last
        BY <1>4, <2>1
    <3>2. CASE Load
        BY <3>2, LoadIsFresh DEF Fresh
    <3>3. CASE UNCHANGED <<fetch, stale>>
        BY <1>1, <3>1, <3>3 DEF StreamInv, Fresh
    <3> QED BY <1>5, <3>2, <3>3
  <2>2. CASE frame.id # Nothing
    <3>1. watching => Load
        BY <1>3, <1>5, <2>2 DEF GoodFrame
    <3> QED BY <1>1, <3>1, LoadIsFresh DEF Fresh
  <2> QED BY <2>1, <2>2
<1>7. Wired'
  <2>1. \A k \in DOMAIN wire' : GoodFrame(log', wire'[k])
      BY <1>1, <1>2 DEF StreamInv, Wired
  <2>2. source'.last # Nothing => source'.last \in DOMAIN log
      BY <1>3, <1>4 DEF GoodFrame, StreamInv, Wired
  <2>3. stream.phase \notin {"none", "start"} /\ source.state = "open"
      BY <1>1 DEF StreamInv, Wired
  <2>4. ASSUME stream.phase = "run"
        PROVE  stream.cursor = IF wire' = <<>> THEN source'.last ELSE wire'[Len(wire')].id
    <3>1. stream.cursor \in DOMAIN log /\ stream.cursor = wire[Len(wire)].id
        BY <1>1, <2>4 DEF StreamInv, Wired
    <3>2. CASE Tail(wire) = <<>>
      <4>1. frame.id = stream.cursor
          BY <1>2, <3>1, <3>2
      <4>2. stream.cursor \in Nat
          BY <3>1, HeadIsCurrent DEF OwnerInv
      <4> QED BY <1>1, <1>4, <3>2, <4>1, <4>2, PageAssumption
    <3>3. CASE Tail(wire) # <<>>
        BY <1>1, <1>2, <3>1, <3>3
    <3> QED BY <3>2, <3>3
  <2> QED BY <1>1, <1>2, <1>4, <2>1, <2>2, <2>3, <2>4 DEF StreamInv, Wired
<1> QED BY <1>6, <1>7 DEF StreamInv

LEMMA StreamStep == OwnerInv /\ StreamInv /\ [Next]_vars => StreamInv'
<1> SUFFICES ASSUME OwnerInv, StreamInv, [Next]_vars PROVE StreamInv'
    OBVIOUS
<1>1. Grows(log, log')
    BY LogGrows
<1>2. ASSUME UNCHANGED <<page, connection>> PROVE StreamInv'
  <2>1. source' = source
      BY <1>2 DEF connection
  <2> QED BY <1>1, <1>2, <2>1, WiredStays, FreshStays DEF StreamInv
<1>3. CASE UNCHANGED vars
    BY <1>2, <1>3 DEF vars
<1>4. CASE DriverReads \/ DriverWrites \/ DriverDrops \/ Cancel \/ Confirm
           \/ \E command \in Commands : OpenDialog(command)
    BY <1>2, <1>4 DEF DriverReads, DriverWrites, DriverDrops, Cancel, Confirm, OpenDialog
<1>5. ASSUME NEW i \in DOMAIN requests, CommandChecks(i) \/ CommandWrites(i) \/ AnswerLost(i)
      PROVE  StreamInv'
    BY <1>2, <1>5 DEF CommandChecks, CommandWrites, AnswerLost
<1> QED BY <1>1, <1>3, <1>4, <1>5, ScreenStep, ConnectionStep, HandlerStep, DeliverStep DEF Next

LEMMA StreamSafe == Spec => [](OwnerInv /\ StreamInv)
BY InitOwner, OwnerStep, InitStream, StreamStep, PTL DEF Spec

\* A page that says live, with nothing under way, shows the stored version or
\* that it could not be read, after any number of drops, refused connections,
\* reconnects with and without a cursor, and changes during a request.
THEOREM QuietIsCurrent == Spec => []QuietMeansCurrent
<1>1. ASSUME OwnerInv, StreamInv PROVE QuietMeansCurrent
  <2> SUFFICES ASSUME watching, fetch.phase = "idle", wire = <<>>, stream.phase = "run",
                      stream.cursor = Len(log)
               PROVE  shown = Failed \/ (shown # Nothing /\ shown = current.version)
      BY DEF QuietMeansCurrent
  <2>1. /\ DOMAIN log = 1..Len(log) /\ Len(log) \in Nat /\ current.version = Len(log)
      BY <1>1, HeadIsCurrent DEF OwnerInv
  <2>2. source.last = Len(log)
      BY <1>1 DEF StreamInv, Wired
  <2>3. source.last # Nothing
      BY <2>1, <2>2, PageAssumption
  <2>4. shown = Failed \/ (shown \in DOMAIN log /\ shown >= Len(log))
      BY <1>1, <2>2, <2>3 DEF StreamInv, Fresh
  <2>5. shown \in DOMAIN log => shown # Nothing
      BY <2>1, PageAssumption
  <2> QED BY <2>1, <2>4, <2>5
<1> QED BY <1>1, StreamSafe, PTL
=============================================================================
