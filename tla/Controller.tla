------------------------------ MODULE Controller ------------------------------
(***************************************************************************)
(* The tool controller (core/controller.py) with its Treg client           *)
(* (adapters/treg.py) and Jev: a request finds candidate tools, lets Jev   *)
(* choose, calls at most max_attempts of them, verifies each output and    *)
(* records the response. All requests of the API share one client, whose   *)
(* last_... attributes carry what discovery and execution found past the   *)
(* return value. An action is what happens between two awaits.             *)
(***************************************************************************)
EXTENDS TregDiscovery, ToolValidation, FiniteSets

CONSTANTS
    Run,              \* requests being served
    Request,          \* [Run -> what it may ask for]
    Search,           \* query -> what the catalog finds: rows, and near misses if none
    Detail,           \* endpoint -> its entry in the catalog
    Labels,          \* what Jev may choose: any label, a candidate's or not
    Endings,          \* what a call may come to: its output, whether Treg settles it now,
                      \* later or never, and whether its stderr names the charge
    DiscoveryLimit, CandidateLimit,
    Unmetered,        \* bound: requests whose balance commands may fail
    EarlierEntries,   \* ledger of calls made before
    Nothing           \* None

ASSUME ControllerAssumption ==
    /\ DiscoveryLimit \in Nat \ {0} /\ CandidateLimit \in Nat \ {0}
    /\ \A r \in Run : \A request \in Request[r] :
          /\ request.attempts \in Nat \ {0} /\ request.task \in Task
          /\ request.tools \in Seq(ToSet(request.tools))
    /\ \A end \in Endings : end.output \in Output
    /\ EarlierEntries \in Seq(ToSet(EarlierEntries))

VARIABLES
    run,              \* [Run -> the coroutine of a request]
    lastQuery, lastEvidence, lastEconomics,   \* attributes of the shared client
    ledger,           \* Treg's own ledger: entries in the order they were made
    unsettled         \* entries it may still make for calls that are over

treg == <<ledger, unsettled>>
vars == <<run, lastQuery, lastEvidence, lastEconomics, treg>>
client == <<lastQuery, lastEvidence, lastEconomics>>

Init ==
    /\ run = [r \in Run |-> [stage |-> "idle"]]
    /\ lastQuery = Nothing
    /\ lastEvidence = Nothing
    /\ lastEconomics = Nothing
    /\ ledger = EarlierEntries
    /\ unsettled = {}

Goes(r, new) == run' = [run EXCEPT ![r] = new]
At(r, stage) == run[r].stage = stage

---------------------------------------------------------------------------
(* Responses *)

\* A request that is over: its coroutine has returned or raised.
Over(stage) == [stage |-> stage]

\* Every way out but an exception records the response it returns.
Responds(state, status, selected) ==
    [state EXCEPT !.stage = "recording", !.status = status, !.selected = selected]
Record(r) ==
    /\ At(r, "recording")
    /\ Goes(r, Over("done"))
    /\ UNCHANGED <<client, treg>>

\* An error of Jev or Treg ends the request with HTTP 502, unrecorded.
Raises(r) == Goes(r, Over("raised"))
Fail(r) ==
    /\ run[r].stage \in {"searching", "retrying", "inspecting", "routing", "asking"}
    /\ Raises(r)
    /\ UNCHANGED <<client, treg>>

---------------------------------------------------------------------------
(* Discovery *)

\* What follows discovery: no candidate is an escalation.
Found(state) ==
    IF state.tools = <<>> THEN Responds(state, "escalate", Nothing)
    ELSE [state EXCEPT !.stage = "routing"]

Accept(r, request) ==
    /\ At(r, "idle")
    /\ Goes(r, [ stage |-> IF request.tools = <<>> THEN "searching" ELSE "routing",
                 request |-> request, tools |-> request.tools,
                 queries |-> DiscoveryQueries(request), endpoints |-> <<>>, found |-> <<>>,
                 query |-> Nothing, evidence |-> Nothing,
                 choice |-> Nothing, left |-> <<>>, before |-> Nothing, after |-> Nothing, output |-> Nothing,
                 charged |-> FALSE, economics |-> Nothing, attempts |-> <<>>, status |-> Nothing, selected |-> Nothing ])
    /\ lastQuery' = IF request.tools = <<>> THEN Nothing ELSE lastQuery
    /\ UNCHANGED <<lastEvidence, lastEconomics, treg>>

\* The evidence: what became of each endpoint looked at.
Looked(id, accepted) == [endpoint |-> id, accepted |-> accepted]

\* Defect: the evidence of one discovery is added to what the attribute holds.
SharedEvidence(found) == IF lastEvidence = Nothing THEN found ELSE lastEvidence
Evidence(found) == found

\* discover returns and the controller reads the attributes, with no await in between.
Discovered(r, found, tools, query) ==
    /\ lastEvidence' = Evidence(found)
    /\ Goes(r, Found([run[r] EXCEPT !.tools = tools, !.found = found,
                                    !.evidence = lastEvidence',
                                    !.query = IF query = Nothing THEN run[r].request.objective
                                              ELSE query]))

\* One catalog search, by the query or by its retry after a near miss.
Searched(r, query, retry) ==
    LET rows == Search[query].rows
        ids == CandidateEndpointIds(rows, DiscoveryLimit)
        narrower == RetryQuery(query, Search[query].near)
        rest == Tail(run[r].queries) IN
    /\ lastQuery' = IF rows # <<>> THEN query ELSE lastQuery
    /\ IF rows # <<>> /\ ids # <<>>
       THEN /\ Goes(r, [run[r] EXCEPT !.stage = "inspecting", !.endpoints = ids])
            /\ UNCHANGED lastEvidence
       ELSE IF rows = <<>> /\ ~retry /\ narrower \notin {{}, query}
       THEN /\ Goes(r, [run[r] EXCEPT !.stage = "retrying"])
            /\ UNCHANGED lastEvidence
       ELSE IF rows = <<>> /\ rest # <<>>
       THEN /\ Goes(r, [run[r] EXCEPT !.stage = "searching", !.queries = rest])
            /\ UNCHANGED lastEvidence
       ELSE Discovered(r, <<>>, <<>>, lastQuery')
    /\ UNCHANGED <<lastEconomics, treg>>
SearchCatalog(r) == At(r, "searching") /\ Searched(r, Head(run[r].queries), FALSE)
RetrySearch(r) ==
    LET query == Head(run[r].queries) IN
    At(r, "retrying") /\ Searched(r, RetryQuery(query, Search[query].near), TRUE)

InspectEndpoint(r) ==
    LET id == Head(run[r].endpoints)
        accepted == Accepts(Detail[id], run[r].request.facts)
        found == Append(run[r].found, Looked(id, accepted))
        tools == IF accepted THEN Append(run[r].tools, id) ELSE run[r].tools
        rest == Tail(run[r].endpoints) IN
    /\ At(r, "inspecting")
    /\ IF rest = <<>> \/ (accepted /\ Len(tools) >= CandidateLimit)
       THEN Discovered(r, found, tools, lastQuery)
       ELSE /\ Goes(r, [run[r] EXCEPT !.endpoints = rest, !.found = found, !.tools = tools])
            /\ UNCHANGED lastEvidence
    /\ UNCHANGED <<lastQuery, lastEconomics, treg>>

---------------------------------------------------------------------------
(* Routing *)

\* By Jev's probabilities: it may give one of some of the candidates, of all, or of none.
Rankings(tools) == UNION {{s \in [1..n -> ToSet(tools)] : IsInjective(s)} : n \in 0..Len(tools)}
\* The candidates by falling probability, the choice in front of them if it is not
\* the first; it keeps its own place too.
Ranked(choice, ranking, tools) ==
    IF choice \in ToSet(tools) /\ (ranking = <<>> \/ ranking[1] # choice)
    THEN <<choice>> \o ranking ELSE ranking

DryEconomics == [call |-> Nothing, reserved |-> Nothing, settled |-> Nothing]
\* `before` and `after` are history: how long the ledger was when the call read it, if it
\* read it again at its end.
Attempt(tool, output, status, source, passed, economics, before, after) ==
    [tool |-> tool, output |-> output, status |-> status, source |-> source,
     passed |-> passed, economics |-> economics, before |-> before, after |-> after]
NoOutput == [kind |-> "dry"]

\* The loop over the ranked tools, or its end.
Continues(state) ==
    IF state.left # <<>> THEN [state EXCEPT !.stage = "balance"]
    ELSE Responds(state, "escalate",
                  IF state.choice \in ToSet(state.tools) THEN state.choice ELSE Nothing)

\* Jev's answer: a choice, which may name no candidate, how sure it is, and the
\* probabilities of some of the candidates.
Route(r, choice, sure, ranking) ==
    LET state == [run[r] EXCEPT !.choice = choice]
        order == Ranked(choice, ranking, state.tools)
        known == choice \in ToSet(state.tools) IN
    /\ At(r, "routing")
    /\ IF choice = "escalate" \/ ~sure
       THEN Goes(r, Responds(state, "escalate", Nothing)) /\ UNCHANGED lastEconomics
       ELSE IF state.request.dry
       THEN IF known
            THEN /\ lastEconomics' = DryEconomics
                 /\ Goes(r, Responds([state EXCEPT !.attempts =
                        <<Attempt(choice, NoOutput, "inconclusive", "dry_run", FALSE, DryEconomics,
                                  Nothing, Nothing)>>],
                        "dry_run", choice))
            ELSE Raises(r) /\ UNCHANGED lastEconomics
       ELSE /\ Goes(r, Continues([state EXCEPT !.left = FirstOf(order, state.request.attempts)]))
            /\ UNCHANGED lastEconomics
    /\ UNCHANGED <<lastQuery, lastEvidence, treg>>

---------------------------------------------------------------------------
(* One call of a tool: the balance, the call, the balance again *)

\* The ledger as `balance` prints it, or nothing: a failed balance is ignored.
Balances(r) == {Len(ledger)} \cup (IF r \in Unmetered THEN {Nothing} ELSE {})
ReadBefore(r, balance) ==
    /\ At(r, "balance")
    /\ balance \in Balances(r)
    /\ Goes(r, [run[r] EXCEPT !.stage = "calling", !.before = balance])
    /\ UNCHANGED <<client, treg>>

CallId(r) == <<r, Len(run[r].attempts) + 1>>
Entry(r, kind) == [call |-> CallId(r), endpoint |-> Head(run[r].left), kind |-> kind]

\* Treg reserves the price, calls the provider, and settles if it is charged.
StartCall(r) ==
    /\ At(r, "calling")
    /\ ledger' = Append(ledger, Entry(r, "reserve"))
    /\ Goes(r, [run[r] EXCEPT !.stage = "running"])
    /\ UNCHANGED <<client, unsettled>>

\* The last attempt's result is judged as soon as it is there; an inconclusive one is
\* put to Jev.
TaskOf(r) == run[r].request.task
Tried(state, status, source, passed) ==
    LET attempt == Attempt(Head(state.left), state.output, status, source, passed, state.economics,
                           IF state.after = Nothing THEN Nothing ELSE state.before, state.after)
        next == [state EXCEPT !.attempts = Append(@, attempt), !.left = Tail(@), !.before = Nothing,
                              !.after = Nothing, !.output = Nothing, !.economics = Nothing,
                              !.charged = FALSE] IN
    IF passed THEN Responds([next EXCEPT !.left = <<>>], "passed", attempt.tool)
    ELSE Continues(next)
Judged(r, output, economics, after) ==
    LET state == [run[r] EXCEPT !.output = output, !.economics = economics, !.after = after]
        status == ValidateToolOutput(TaskOf(r), output) IN
    IF status = "inconclusive" THEN [state EXCEPT !.stage = "asking"]
    ELSE Tried(state, status, "deterministic", status = "pass")

\* The process ends: with an output, whose stderr may name the charge, or with a failure
\* or a timeout, which Treg may charge all the same, also when the process is long killed.
\* After a failure the attempt keeps whatever economics the shared client has.
EndCall(r, end) ==
    /\ At(r, "running")
    /\ ledger' = IF end.settles = "now" THEN Append(ledger, Entry(r, "settle")) ELSE ledger
    /\ unsettled' = IF end.settles = "late" THEN unsettled \cup {Entry(r, "settle")} ELSE unsettled
    /\ IF end.output.kind = "error"
       THEN Goes(r, Judged(r, end.output, lastEconomics, Nothing))
       ELSE Goes(r, [run[r] EXCEPT !.stage = "settling", !.output = end.output, !.charged = end.charged])
    /\ UNCHANGED client
SettleLate(entry) ==
    /\ ledger' = Append(ledger, entry)
    /\ unsettled' = unsettled \ {entry}
    /\ UNCHANGED <<run, client>>

\* Defect: every entry counts, an earlier call's too.
AllEntries(before, after) == SubSeq(ledger, 1, after)
\* _new_ledger_entries: without a balance before the call every entry is new.
NewEntries(before, after) ==
    SubSeq(ledger, IF before = Nothing THEN 1 ELSE before + 1, after)

\* _find_new_ledger_amount: the first new entry of the endpoint, whoever's call it was.
AmountOf(entries, endpoint, kind) ==
    LET same == {i \in DOMAIN entries : entries[i].endpoint = endpoint /\ entries[i].kind = kind} IN
    IF same = {} THEN Nothing ELSE entries[CHOOSE i \in same : \A j \in same : i <= j].call
\* _parse_treg_stderr: the charge and the id that stderr names are the call's own, a
\* replay's charge of nothing too.
Economics(r, balance) ==
    LET entries == IF balance = Nothing THEN <<>> ELSE NewEntries(run[r].before, balance)
        endpoint == Head(run[r].left) IN
    [ call |-> IF run[r].charged THEN CallId(r) ELSE Nothing,
      reserved |-> AmountOf(entries, endpoint, "reserve"),
      settled |-> IF run[r].charged THEN CallId(r) ELSE AmountOf(entries, endpoint, "settle") ]

\* execute sets the attribute last, and the backend reads it before the next await.
ReadAfter(r, balance) ==
    /\ At(r, "settling")
    /\ balance \in Balances(r)
    /\ lastEconomics' = Economics(r, balance)
    /\ Goes(r, Judged(r, run[r].output, lastEconomics', balance))
    /\ UNCHANGED <<lastQuery, lastEvidence, treg>>

\* Jev's probability reaches the threshold or does not.
Verify(r, sufficient) ==
    /\ At(r, "asking")
    /\ Goes(r, Tried(run[r], "inconclusive", "jev", sufficient))
    /\ UNCHANGED <<client, treg>>

---------------------------------------------------------------------------
Step(r) ==
    \/ \E request \in Request[r] : Accept(r, request)
    \/ SearchCatalog(r)
    \/ RetrySearch(r)
    \/ InspectEndpoint(r)
    \/ \E choice \in Labels, sure \in BOOLEAN :
          \E ranking \in (IF At(r, "routing") THEN Rankings(run[r].tools) ELSE {}) :
             Route(r, choice, sure, ranking)
    \/ \E balance \in Balances(r) : ReadBefore(r, balance) \/ ReadAfter(r, balance)
    \/ StartCall(r)
    \/ \E end \in Endings : EndCall(r, end)
    \/ \E sufficient \in BOOLEAN : Verify(r, sufficient)
    \/ Fail(r)
    \/ Record(r)
Next == (\E r \in Run : Step(r)) \/ (\E entry \in unsettled : SettleLate(entry))

Spec == Init /\ [][Next]_vars

---------------------------------------------------------------------------
(* Properties *)

InProgress(r) == run[r].stage \notin {"idle", "done", "raised"}
Answered(r) == At(r, "recording")

\* Nothing the provider said of the address speaks against it.
NothingAgainst(task, output) ==
    /\ output.address # "none"
    /\ task.domain => output.address = "expected"
    /\ \A signal \in {"identity", "smtp", "validity", "verification"} : output[signal] # "against"
    /\ task.person => output.person # "against"

\* "Verify every result": a request that was answered "passed" ends in a call of one of its
\* own candidates that did not fail, an output of an email lookup with no sign against
\* it, and either provider evidence for it or Jev's verification; nothing was tried after
\* a success, and never more often than allowed.
PassedIsProven ==
    \A r \in Run : Answered(r) /\ run[r].status = "passed" =>
        LET tries == run[r].attempts
            last == tries[Len(tries)] IN
        /\ Len(tries) \in 1..run[r].request.attempts
        /\ \A i \in DOMAIN tries : tries[i].passed <=> i = Len(tries)
        /\ run[r].selected = last.tool /\ last.tool \in ToSet(run[r].tools)
        /\ last.output.kind # "error"
        /\ TaskOf(r).email /\ last.output.kind = "object" => NothingAgainst(TaskOf(r), last.output)
        /\ \/ last.source = "jev"
           \/ /\ last.output.kind = "object"
              /\ "for" \in {last.output.smtp, last.output.validity, last.output.verification}
              /\ TaskOf(r).person => "for" \in {last.output.identity, last.output.person}

\* What a ledger got for an endpoint between the two readings of a call; everything
\* before the second one if the first failed.
Meanwhile(entries, endpoint, before, after) ==
    IF after = Nothing THEN {}
    ELSE {entries[k] : k \in {k \in (IF before = Nothing THEN 1 ELSE before + 1)..after :
                                entries[k].endpoint = endpoint}}
CallsOf(entries) == {entry.call : entry \in entries}

\* Whose money a call that printed an output reports. What stderr names is its own. What the
\* ledger names is its own or that of a call which used the same endpoint in between, another
\* request's or an earlier one that Treg settles late: the code takes the first entry,
\* whoever's it is. So a call that read the ledger twice, with no other call's entries for
\* the endpoint in between, reports its own reservation, and its own settlement if there is
\* one by then ("without confusing it with an older call").
OwnEconomics(entries, own, endpoint, economics, before, after) ==
    LET between == Meanwhile(entries, endpoint, before, after) IN
    /\ economics.call # Nothing => economics.call = own /\ economics.settled = own
    /\ {economics.reserved, economics.settled} \subseteq {Nothing, own} \cup CallsOf(between)
    /\ before # Nothing /\ after # Nothing /\ CallsOf(between) \subseteq {own} =>
          /\ economics.reserved = own
          /\ (\E entry \in between : entry.kind = "settle") => economics.settled = own
EconomicsAreItsCalls ==
    \A r \in Run : InProgress(r) => \A i \in DOMAIN run[r].attempts :
        LET attempt == run[r].attempts[i] IN
        attempt.output.kind \notin {"error", "dry"} =>
            OwnEconomics(ledger, <<r, i>>, attempt.tool, attempt.economics,
                         attempt.before, attempt.after)

\* The candidates are the accepted endpoints, all of them and in order.
Explains(found, tools) ==
    \E at \in [DOMAIN tools -> DOMAIN found] :
        /\ \A i, j \in DOMAIN tools : i < j => at[i] < at[j]
        /\ \A i \in DOMAIN tools : found[at[i]] = Looked(tools[i], TRUE)
        /\ \A k \in DOMAIN found : found[k].accepted => \E i \in DOMAIN tools : at[i] = k

\* The evidence of a discovery explains its own candidates, though the attribute that
\* carries it is every request's, and a tool that is called was one of them with all
\* required inputs known.
EvidenceNamesTheCandidates ==
    \A r \in Run : InProgress(r) /\ run[r].evidence # Nothing =>
        /\ Explains(run[r].evidence, run[r].tools)
        /\ \A id \in ToSet(run[r].tools) :
              /\ ~Detail[id].routed
              /\ \A n \in Detail[id].required : Resolvable(n, Detail[id], run[r].request.facts)
=============================================================================
