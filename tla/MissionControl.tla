--------------------------- MODULE MissionControl ---------------------------
(***************************************************************************)
(* Mission Control on the control store: the owner's commands              *)
(* (mission_control/commands.py and api.py), the read views (query.py),    *)
(* the event stream (stream.py), and the page that uses them               *)
(* (mission-control/src/data/v2-provider.tsx, owner-commands.tsx).         *)
(*                                                                         *)
(* One page watches one WorkOrder.  Other writers of the store, here one   *)
(* driver, read a record, work on it and write it back later; so does the  *)
(* handler of an owner's command.  Connections drop, requests fail and     *)
(* answers are lost, MaxFaults times.                                      *)
(***************************************************************************)
EXTENDS ControlStore

CONSTANTS
    Watched,        \* the WorkOrder on the screen
    Histories,      \* what the store may start with: versions of Watched, oldest first
    BatchLimit,     \* events one query of the stream returns at most
    MaxVersion, MaxRequests, MaxFaults,  \* bounds of the instance
    Nothing,        \* no record shown, no cursor, no answer
    Failed          \* what a failed read shows

RecordFields == {"version", "status", "envelope", "amendments", "used", "from", "blocking",
                 "plan", "approved", "gap", "done", "unfit"}
\* A record as the machine writes it; attention is raised in a state it can be left for.
IsRecord(r) ==
    /\ r = [f \in RecordFields |-> r[f]]
    /\ r.version \in Version /\ r.plan \in Nat /\ r.approved \in Nat
    /\ {r.blocking, r.gap, r.done, r.unfit} \subseteq BOOLEAN
    /\ r.amendments \in Seq(Elements(r.amendments)) /\ r.used \in Seq(Elements(r.used))
    /\ r.status = Attention => r.from \in AttentionSources

ASSUME PageAssumption ==
    /\ Watched \in WorkOrderId
    /\ \A h \in Histories :
          /\ h # <<>> /\ h \in Seq(Elements(h))
          /\ \A i \in DOMAIN h : IsRecord(h[i]) /\ h[i].version = i
    /\ BatchLimit \in Nat \ {0}
    \* No version and no answer is mistaken for none, or for a failure.
    /\ Nothing \notin Nat \cup {"refused"} /\ Failed \notin Nat

VARIABLES
    held,           \* the record the driver read and works on
    requests,       \* owner commands sent, in order
    dialog,         \* the open confirmation dialog: [command, seen]
    link,           \* what the page says of the stream: connecting, live, polling
    source,         \* the EventSource: [state, last], last the Last-Event-ID
    stream,         \* the handler of the connection: [phase, cursor]
    wire,           \* frames sent and not yet delivered
    watching,       \* whether a screen subscribes to Watched
    fetch,          \* the request in flight: [phase, version], version as read
    stale,          \* whether a change landed during that request
    shown,          \* the last result: Nothing, Failed or the version on the screen
    faults

server == <<held, requests>>
page == <<link, watching, fetch, stale, shown>>
connection == <<source, stream, wire>>
vars == <<store, server, page, connection, dialog, faults>>

Commands == {"approve_plan", "reject_plan", "resume", "replan", "defer", "abort"}
Idle == [phase |-> "idle", version |-> 0]
Disconnected == [phase |-> "none", cursor |-> 0]

current == row[Watched]
RecordAt(version) ==
    LET i == CHOOSE j \in DOMAIN log : log[j].id = Watched /\ log[j].version = version
    IN  log[i].record

Fault == faults < MaxFaults /\ faults' = faults + 1
Room == current.version < MaxVersion

InitWith(first) ==
    /\ envelopes = {first[i].envelope : i \in DOMAIN first}
    /\ registry = UNION {e.profiles : e \in envelopes}
    /\ row = [id \in WorkOrderId |-> IF id = Watched THEN first[Len(first)] ELSE NoRow]
    /\ log = [i \in DOMAIN first |-> Entry(Watched, first[i], "control")]

Init ==
    /\ \E first \in Histories : InitWith(first)
    /\ held = NoRow /\ requests = <<>> /\ dialog = Nothing
    /\ link = "connecting"
    /\ source = [state |-> "connecting", last |-> Nothing]
    /\ stream = Disconnected /\ wire = <<>>
    /\ watching = FALSE /\ fetch = Idle /\ stale = FALSE /\ shown = Nothing
    /\ faults = 0

----------------------------------------------------------------------------
(* Other writers: what the operations of control/machine.py make of a      *)
(* record, as far as an owner's command depends on it.                     *)

\* A plan breaks independence, or not (gap).  Once a block is done it may not
\* fit what is done (unfit): it changes or drops the block, or it asks more of
\* the final audit on record than that audit shows.  Approval looks at this
\* first, so a plan that has both faults counts as unfit.
Proposed(r) ==
    { [r EXCEPT !.status = "PLAN_PROPOSED", !.plan = @ + 1, !.gap = p[1], !.unfit = p[2]] :
        p \in {p \in BOOLEAN \X BOOLEAN :
                /\ r.status \in {"CONTEXT_INTAKE", "PLAN_PROPOSED"}
                /\ p[2] => r.done /\ ~p[1]} }
Finished(r) == IF r.status = "EXECUTING" /\ ~r.done THEN {[r EXCEPT !.done = TRUE]} ELSE {}
Raised(r) ==
    { [r EXCEPT !.status = Attention, !.from = r.status, !.blocking = b] :
        b \in {b \in BOOLEAN : r.status \in AttentionSources} }
Resolved(r) ==
    IF r.status = Attention /\ r.blocking THEN {[r EXCEPT !.blocking = FALSE]} ELSE {}
Forward == { <<"PLAN_APPROVED", "EXECUTING">>, <<"EXECUTING", "FINAL_VERIFICATION">>,
             <<"FINAL_VERIFICATION", "PROMOTED">> }
Advanced(r) ==
    { [r EXCEPT !.status = step[2]] :
        step \in {f \in Forward : f[1] = r.status /\ (f[2] = "FINAL_VERIFICATION" => r.done)} }

ControlOutcome(r) ==
    Proposed(r) \cup Finished(r) \cup Raised(r) \cup Resolved(r) \cup Advanced(r)

DriverReads ==
    /\ held = NoRow /\ Room
    /\ held' = current
    /\ UNCHANGED <<store, requests, page, connection, dialog, faults>>

\* Defect: after a stale write the driver writes what it has over the new version.
DriverInsists ==
    /\ held # NoRow
    /\ \E new \in ControlOutcome(held) : Update(Watched, new, current.version, "control")
    /\ held' = NoRow
    /\ UNCHANGED <<requests, page, connection, dialog, faults>>

DriverWrites ==
    /\ held # NoRow
    /\ \E new \in ControlOutcome(held) : Update(Watched, new, held.version, "control")
    /\ held' = NoRow
    /\ UNCHANGED <<requests, page, connection, dialog, faults>>

\* The driver gives up, or finds nothing to do.
DriverDrops ==
    /\ held # NoRow
    /\ held' = NoRow
    /\ UNCHANGED <<store, requests, page, connection, dialog, faults>>

----------------------------------------------------------------------------
(* Owner commands, on the server.                                          *)

\* Defect: resume is offered whatever is still open.
OfferedAnyhow(r) ==
    IF r.status = "PLAN_PROPOSED" THEN {"approve_plan", "reject_plan"}
    ELSE IF r.status = Attention THEN {"resume", "replan", "defer", "abort"} ELSE {}

Offered(r) ==
    IF r.status = "PLAN_PROPOSED" THEN {"approve_plan", "reject_plan"}
    ELSE IF r.status = Attention
    THEN {"replan", "defer", "abort"}
           \cup {c \in {"resume"} : r.from \notin NeedsBaseline /\ ~r.blocking}
    ELSE {}

\* The machine's own guards and, for the final audit, the record's validator.
Accepts(r, command) ==
    /\ command = "approve_plan" => r.plan > r.approved /\ ~r.unfit
    /\ command = "resume" => ~r.blocking /\ r.from \notin NeedsBaseline

Decided(r, command) ==
    CASE command = "approve_plan" ->
            [r EXCEPT !.status = IF r.gap THEN Attention ELSE "PLAN_APPROVED", !.approved = r.plan]
      [] command = "reject_plan" -> [r EXCEPT !.status = "ABORTED"]
      [] command = "resume" -> [r EXCEPT !.status = r.from]
      [] command = "replan" -> [r EXCEPT !.status = "PLAN_PROPOSED"]
      [] command = "defer" -> [r EXCEPT !.status = "DEFERRED"]
      [] command = "abort" -> [r EXCEPT !.status = "ABORTED"]

OwnerOutcome(r) == {Decided(r, c) : c \in {d \in Offered(r) : Accepts(r, d)}}

Answered(i, answer) ==
    requests' = [requests EXCEPT ![i].phase = "answered", ![i].answer = answer, ![i].base = NoRow]

\* CommandService.run, up to the decision in memory.
CommandChecks(i) ==
    /\ requests[i].phase = "sent"
    /\ LET command == requests[i].command IN
       IF current.version # requests[i].seen THEN Answered(i, "stale_version")
       ELSE IF command \notin Offered(current) \/ ~Accepts(current, command)
       THEN Answered(i, "refused")
       ELSE requests' = [requests EXCEPT ![i].phase = "checked", ![i].base = current]
    /\ UNCHANGED <<store, held, page, connection, dialog, faults>>

\* The write.  A record the store refuses as no legal successor is an error
\* nobody catches, and an answer like any other refusal.
CommandWrites(i) ==
    /\ requests[i].phase = "checked" /\ Room
    /\ LET new == Decided(requests[i].base, requests[i].command) IN
       /\ Update(Watched, new, requests[i].seen, "owner")
       /\ Answered(i, IF CanUpdate(Watched, new, requests[i].seen) THEN "recorded"
                      ELSE IF IsCurrent(Watched, requests[i].seen) THEN "refused"
                      ELSE "stale_version")
    /\ UNCHANGED <<held, page, connection, dialog, faults>>

----------------------------------------------------------------------------
(* Reading a WorkOrder: load() of the page and get_work_order.  The view   *)
(* also lists the events, read in a second transaction; nothing depends on *)
(* them.                                                                   *)

Requested == [phase |-> "get", version |-> 0]

\* Defect: a change that lands during a request is forgotten.
LoadUnlessBusy ==
    /\ fetch' = IF fetch.phase = "idle" THEN Requested ELSE fetch
    /\ stale' = stale

Load ==
    IF fetch.phase = "idle"
    THEN fetch' = Requested /\ stale' = FALSE
    ELSE fetch' = fetch /\ stale' = TRUE

Subscribe ==
    /\ ~watching
    /\ watching' = TRUE /\ Load
    /\ UNCHANGED <<store, server, connection, dialog, faults, link, shown>>

Unsubscribe ==
    /\ watching /\ dialog = Nothing /\ Fault
    /\ watching' = FALSE
    /\ UNCHANGED <<store, server, connection, dialog, link, fetch, stale, shown>>

ReadRecord ==
    /\ fetch.phase = "get"
    /\ fetch' = [phase |-> "answered", version |-> current.version]
    /\ UNCHANGED <<store, server, connection, dialog, faults, link, watching, stale, shown>>

Settle(result) ==
    /\ shown' = result
    /\ IF stale THEN fetch' = Requested ELSE fetch' = Idle
    /\ stale' = FALSE
    /\ UNCHANGED <<store, server, connection, dialog, link, watching>>

Show ==
    /\ fetch.phase = "answered"
    /\ Settle(fetch.version)
    /\ UNCHANGED faults

FetchFails ==
    /\ fetch.phase # "idle" /\ Fault
    /\ Settle(Failed)

\* Fallback while the stream is down.
PollTick ==
    /\ link # "live" /\ watching
    /\ Load
    /\ UNCHANGED <<store, server, connection, dialog, faults, link, watching, shown>>

----------------------------------------------------------------------------
(* The event stream.                                                       *)

\* events_after, as frames.
Frames(cursor) ==
    LET count == IF Len(log) - cursor < BatchLimit THEN Len(log) - cursor ELSE BatchLimit IN
    [ k \in 1..count |->
        [event |-> "work-order", id |-> cursor + k, about |-> log[cursor + k].id] ]

\* The request is accepted; the browser fires onopen with the headers.
Connect ==
    /\ source.state = "connecting"
    /\ source' = [source EXCEPT !.state = "open"]
    /\ stream' = [phase |-> "start", cursor |-> source.last]
    /\ wire' = <<>>
    /\ link' = "live"
    /\ UNCHANGED <<store, server, dialog, faults, watching, fetch, stale, shown>>

\* An HTTP error: EventSource gives up and the page starts its own timer.
ConnectRefused ==
    /\ source.state = "connecting" /\ Fault
    /\ source' = [source EXCEPT !.state = "closed"]
    /\ link' = "polling"
    /\ UNCHANGED <<store, server, dialog, stream, wire, watching, fetch, stale, shown>>

\* The page's timer: a new EventSource, which has no Last-Event-ID.
Reopen ==
    /\ source.state = "closed"
    /\ source' = [state |-> "connecting", last |-> Nothing]
    /\ UNCHANGED <<store, server, page, dialog, faults, stream, wire>>

\* Defect: a client that lost its cursor is not told to read everything again.
StartsQuietly ==
    /\ stream.phase = "start"
    /\ stream' = [phase |-> "run", cursor |-> IF stream.cursor = Nothing THEN Len(log) ELSE stream.cursor]
    /\ UNCHANGED <<store, server, page, dialog, faults, source, wire>>

ReadHead ==
    /\ stream.phase = "start"
    /\ IF stream.cursor = Nothing \/ stream.cursor > Len(log)
       THEN /\ stream' = [phase |-> "run", cursor |-> Len(log)]
            /\ wire' = Append(wire, [event |-> "ready", id |-> Len(log), about |-> Nothing])
       ELSE /\ stream' = [stream EXCEPT !.phase = "run"]
            /\ wire' = wire
    /\ UNCHANGED <<store, server, page, dialog, faults, source>>

PollEvents ==
    /\ stream.phase = "run" /\ stream.cursor < Len(log)
    /\ wire' = wire \o Frames(stream.cursor)
    /\ stream' = [stream EXCEPT !.cursor = @ + Len(Frames(stream.cursor))]
    /\ UNCHANGED <<store, server, page, dialog, faults, source>>

StoreUnreadable ==
    /\ stream.phase \in {"start", "run"} /\ Fault
    /\ wire' = Append(wire, [event |-> "unavailable", id |-> Nothing, about |-> Nothing])
    /\ stream' = [stream EXCEPT !.phase = "ended"]
    /\ UNCHANGED <<store, server, page, dialog, source>>

Reconnecting ==
    /\ stream' = Disconnected /\ wire' = <<>>
    /\ source' = [source EXCEPT !.state = "connecting"]
    /\ link' = "polling"
    /\ UNCHANGED <<store, server, dialog, watching, fetch, stale, shown>>

\* The end of the response; EventSource reconnects with its Last-Event-ID.
StreamEnds == stream.phase = "ended" /\ wire = <<>> /\ Reconnecting /\ UNCHANGED faults

\* The connection breaks and what is on the wire is lost.
Drop == source.state = "open" /\ Reconnecting /\ Fault

Deliver ==
    /\ wire # <<>>
    /\ LET frame == Head(wire) IN
       /\ source' = [source EXCEPT !.last = IF frame.id = Nothing THEN @ ELSE frame.id]
       /\ link' = CASE frame.event = "ready" -> "live"
                    [] frame.event = "unavailable" -> "polling"
                    [] frame.event = "work-order" -> link
       /\ IF watching /\ (frame.event = "ready" \/ frame.about = Watched)
          THEN Load ELSE UNCHANGED <<fetch, stale>>
    /\ wire' = Tail(wire)
    /\ UNCHANGED <<store, server, dialog, faults, stream, watching, shown>>

----------------------------------------------------------------------------
(* The owner at the page.                                                  *)

ShowsRecord == watching /\ shown \notin {Nothing, Failed}

\* Defect: the dialog sends the version on the screen when the owner confirms.
ConfirmWhatIsShown ==
    /\ dialog # Nothing /\ ShowsRecord
    /\ requests' = Append(requests, [command |-> dialog.command, seen |-> shown,
                                     decided |-> dialog.seen, phase |-> "sent", base |-> NoRow,
                                     answer |-> Nothing, waiting |-> TRUE])
    /\ dialog' = Nothing
    /\ UNCHANGED <<store, held, page, connection, faults>>

\* The button of a command stays disabled while its answer is awaited.
OpenDialog(command) ==
    /\ dialog = Nothing /\ ShowsRecord /\ Len(requests) < MaxRequests
    /\ command \in Offered(RecordAt(shown))
    /\ \A i \in DOMAIN requests : requests[i].command = command => ~requests[i].waiting
    /\ dialog' = [command |-> command, seen |-> shown]
    /\ UNCHANGED <<store, server, page, connection, faults>>

Cancel ==
    /\ dialog # Nothing
    /\ dialog' = Nothing
    /\ UNCHANGED <<store, server, page, connection, faults>>

Confirm ==
    /\ dialog # Nothing
    /\ requests' = Append(requests, [command |-> dialog.command, seen |-> dialog.seen,
                                     decided |-> dialog.seen, phase |-> "sent", base |-> NoRow,
                                     answer |-> Nothing, waiting |-> TRUE])
    /\ dialog' = Nothing
    /\ UNCHANGED <<store, held, page, connection, faults>>

AnswerArrives(i) ==
    /\ requests[i].phase = "answered" /\ requests[i].waiting
    /\ requests' = [requests EXCEPT ![i].waiting = FALSE]
    /\ IF requests[i].answer \in {"recorded", "stale_version"} THEN Load ELSE UNCHANGED <<fetch, stale>>
    /\ UNCHANGED <<store, held, connection, dialog, faults, link, watching, shown>>

\* The page gives up on an answer ("unreachable"); the handler may still run,
\* and a request that never arrived never will.
AnswerLost(i) ==
    /\ requests[i].waiting /\ Fault
    /\ \/ requests' = [requests EXCEPT ![i].waiting = FALSE]
       \/ /\ requests[i].phase = "sent"
          /\ requests' = [requests EXCEPT ![i].waiting = FALSE, ![i].phase = "answered"]
    /\ UNCHANGED <<store, held, page, connection, dialog>>

----------------------------------------------------------------------------
Next ==
    \/ DriverReads \/ DriverWrites \/ DriverDrops
    \/ Subscribe \/ Unsubscribe
    \/ ReadRecord \/ Show \/ FetchFails \/ PollTick
    \/ Connect \/ ConnectRefused \/ Reopen
    \/ ReadHead \/ PollEvents \/ StoreUnreadable \/ StreamEnds \/ Drop \/ Deliver
    \/ \E command \in Commands : OpenDialog(command)
    \/ Cancel \/ Confirm
    \/ \E i \in DOMAIN requests :
          CommandChecks(i) \/ CommandWrites(i) \/ AnswerArrives(i) \/ AnswerLost(i)

Spec == Init /\ [][Next]_vars

\* The event loop of the browser, the handlers of the server and the timers
\* of both go on; writers, owner and faults need not.
Fairness ==
    /\ WF_vars(ReadRecord) /\ WF_vars(Show) /\ WF_vars(PollTick)
    /\ WF_vars(Connect) /\ WF_vars(Reopen) /\ WF_vars(ReadHead) /\ WF_vars(PollEvents)
    /\ WF_vars(StreamEnds) /\ WF_vars(Deliver)

FairSpec == Spec /\ Fairness

----------------------------------------------------------------------------
(* Properties.                                                             *)

Outcomes(r) == ControlOutcome(r) \cup OwnerOutcome(r)
Atomic == INSTANCE AtomicRecord WITH
    Id <- WorkOrderId, NoRecord <- NoRow, Initial <- {h[Len(h)] : h \in Histories}, Outcome <- Outcomes,
    record <- row

\* However the reads and writes of drivers and commands interleave, every
\* stored version is what one whole operation makes of the version before it:
\* no update is lost and no decision is taken on a record that is gone.
ActsAtomically == Atomic!Spec

\* The owner's decision is recorded on the version that the confirmation
\* dialog named when it opened, whatever the page has loaded since.
OwnerDecidesOnWhatWasShown ==
    [][ log' # log /\ log'[Len(log')].event = "owner" =>
          \E i \in DOMAIN requests :
             /\ requests[i].phase = "checked" /\ requests'[i].answer = "recorded"
             /\ requests[i].decided = current.version ]_vars

\* A command the page offers is refused only because the record changed, or
\* because it approves a plan that has no new version, breaks independence, or
\* does not fit what is done: a finished block, the final audit on record.
OnlyApprovalIsRefused ==
    \A i \in DOMAIN requests : requests[i].answer = "refused" =>
       LET seen == RecordAt(requests[i].decided) IN
       /\ requests[i].command = "approve_plan"
       /\ seen.gap \/ seen.unfit \/ seen.plan <= seen.approved

\* When the page says live, and the stream has read to the end of the log,
\* nothing is on the wire and no request is in flight, then the screen shows
\* the stored version or says that it could not be read: no drop, reconnect,
\* resumed cursor or change during a request loses an event.
QuietMeansCurrent ==
    /\ watching /\ link = "live" /\ fetch.phase = "idle"
    /\ source.state = "open" /\ wire = <<>>
    /\ stream.phase = "run" /\ stream.cursor = Len(log)
    => shown = Failed \/ (shown # Nothing /\ shown = current.version)

Behind ==
    watching /\ shown # Failed /\ (shown = Nothing \/ shown < current.version)

\* A screen that is behind the store catches up, is left, or says that it could
\* not read: by the stream, or by polling while the stream is down.
CatchesUp == Behind ~> ~Behind
=============================================================================
