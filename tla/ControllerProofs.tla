--------------------------- MODULE ControllerProofs ---------------------------
(***************************************************************************)
(* Proofs about the tool controller: for any requests, catalog, answers of *)
(* Jev and outcomes of the calls,                                          *)
(*                                                                         *)
(*   - a request answered "passed" ends in a call that proves it;          *)
(*   - the economics of a call are that call's own, or of one that used    *)
(*     the same endpoint between its two readings of the ledger;           *)
(*   - the evidence of a discovery explains its own candidates;            *)
(*                                                                         *)
(* although all requests share one client and its attributes.  What a      *)
(* coroutine needs to know of itself is in its own state: Good says what.  *)
(* What it knows of the ledger, ItsCalls, stays true as the ledger grows.  *)
(***************************************************************************)
EXTENDS Controller, WellFoundedInduction, TLAPS

Fields == {"stage", "request", "tools", "queries", "endpoints", "found", "query", "evidence",
           "choice", "left", "before", "after", "output", "charged", "economics", "attempts", "status",
           "selected"}
Discovering == {"searching", "retrying", "inspecting"}
Calling == {"balance", "calling", "running", "settling", "asking"}
IsSeq(s) == s \in Seq(ToSet(s))

Shape(r, s) ==
    /\ s = [f \in Fields |-> s[f]]
    /\ s.stage \in Discovering \cup {"routing"} \cup Calling \cup {"recording"}
    /\ s.request \in Request[r]
    /\ IsSeq(s.tools) /\ IsSeq(s.found) /\ IsSeq(s.attempts)
    /\ s.left \in Seq(ToSet(s.tools))

\* The candidates are explained by what was found, then by the evidence.
Explained(s) ==
    /\ s.stage \in Discovering => s.evidence = Nothing /\ Explains(s.found, s.tools)
    /\ s.evidence # Nothing => Explains(s.evidence, s.tools)
    /\ s.stage \in Discovering \/ s.evidence # Nothing =>
         \A id \in ToSet(s.tools) : Accepts(Detail[id], s.request.facts)

\* What `passed` of PassedIsProven says of one request.
Proven(s) ==
    LET tries == s.attempts
        last == tries[Len(tries)] IN
    /\ Len(tries) \in 1..s.request.attempts
    /\ \A i \in DOMAIN tries : tries[i].passed <=> i = Len(tries)
    /\ s.selected = last.tool /\ last.tool \in ToSet(s.tools)
    /\ last.output.kind # "error"
    /\ s.request.task.email /\ last.output.kind = "object" => NothingAgainst(s.request.task, last.output)
    /\ \/ last.source = "jev"
       \/ /\ last.output.kind = "object"
          /\ "for" \in {last.output.smtp, last.output.validity, last.output.verification}
          /\ s.request.task.person => "for" \in {last.output.identity, last.output.person}

\* Tries so far and tries left are within the limit; only the last one may have passed.
Attempted(s) ==
    /\ s.stage \in Discovering \cup {"routing"} => s.attempts = <<>> /\ s.left = <<>>
    /\ s.stage \in Calling => /\ s.left # <<>>
                              /\ Len(s.attempts) + Len(s.left) <= s.request.attempts
                              /\ \A i \in DOMAIN s.attempts : ~s.attempts[i].passed
    /\ s.stage = "recording" /\ s.status = "passed" => Proven(s)

\* An output that waits for Jev has nothing against it.
Judging(s) ==
    /\ s.stage \in {"settling", "asking"} => s.output \in Output /\ s.output.kind # "error"
    /\ s.stage = "asking" => ValidateToolOutput(s.request.task, s.output) = "inconclusive"

Good(r, s) == Shape(r, s) /\ Explained(s) /\ Attempted(s) /\ Judging(s)

Requests ==
    /\ run = [r \in Run |-> run[r]]
    /\ \A r \in Run : InProgress(r) => Good(r, run[r])

\* What a call took from a ledger is its own, and what it read of it is still there.
OwnCall(entries, r, i, endpoint, economics, before, after) ==
    /\ before # Nothing => before \in 0..Len(entries)
    /\ after # Nothing => after \in 0..Len(entries)
    /\ OwnEconomics(entries, <<r, i>>, endpoint, economics, before, after)
TriesAreOwn(entries, r, s) ==
    \A i \in DOMAIN s.attempts : s.attempts[i].output.kind \notin {"error", "dry"} =>
       OwnCall(entries, r, i, s.attempts[i].tool, s.attempts[i].economics,
               s.attempts[i].before, s.attempts[i].after)
\* The call's reservation came after its first reading.
IsReserved(entries, r, s) ==
    \E k \in (s.before + 1)..Len(entries) :
       entries[k] = [call |-> <<r, Len(s.attempts) + 1>>, endpoint |-> Head(s.left), kind |-> "reserve"]
ItsCalls(entries, r, s) ==
    /\ s.stage \in {"calling", "running", "settling", "asking"} /\ s.before # Nothing =>
         s.before \in 0..Len(entries)
    /\ s.stage \in {"running", "settling"} /\ s.before # Nothing => IsReserved(entries, r, s)
    /\ s.stage = "asking" =>
         OwnCall(entries, r, Len(s.attempts) + 1, Head(s.left), s.economics, s.before, s.after)
    /\ TriesAreOwn(entries, r, s)
Accounts ==
    /\ IsSeq(ledger)
    /\ \A r \in Run : InProgress(r) => ItsCalls(ledger, r, run[r])

ControllerInv == Requests /\ Accounts

-----------------------------------------------------------------------------
(*                       What the model's operators do                     *)

LEMMA AppendIsSeq ==
    ASSUME NEW s, NEW e, IsSeq(s)
    PROVE  /\ IsSeq(Append(s, e)) /\ ToSet(Append(s, e)) = ToSet(s) \cup {e}
           /\ Len(Append(s, e)) = Len(s) + 1 /\ Append(s, e)[Len(s) + 1] = e
           /\ DOMAIN Append(s, e) = 1..(Len(s) + 1) /\ DOMAIN s = 1..Len(s) /\ Len(s) \in Nat
           /\ \A i \in 1..Len(s) : Append(s, e)[i] = s[i]
<1> DEFINE S == ToSet(s) \cup {e}
           t == Append(s, e)
<1>1. s \in Seq(S) /\ e \in S
    BY DEF IsSeq
<1> HIDE DEF S
<1>2. /\ t \in Seq(S) /\ Len(t) = Len(s) + 1 /\ t[Len(s) + 1] = e
      /\ DOMAIN t = 1..(Len(s) + 1) /\ DOMAIN s = 1..Len(s) /\ Len(s) \in Nat
      /\ \A i \in 1..Len(s) : t[i] = s[i]
    BY <1>1
<1> HIDE DEF t
<1>3. ToSet(t) = ToSet(s) \cup {e}
  <2>1. \A x \in ToSet(t) : x \in ToSet(s) \cup {e}
      BY <1>2 DEF ToSet
  <2>2. \A i \in 1..Len(s) : i \in 1..(Len(s) + 1)
      BY <1>2
  <2>3. \A x \in ToSet(s) : x \in ToSet(t)
      BY <1>2, <2>2 DEF ToSet
  <2>4. e \in ToSet(t)
      BY <1>2 DEF ToSet
  <2> QED BY <2>1, <2>3, <2>4
<1>4. t \in Seq(ToSet(t))
    BY <1>1, <1>2, <1>3 DEF S
<1> QED BY <1>2, <1>3, <1>4 DEF IsSeq, t

LEMMA EmptyIsSeq == IsSeq(<<>>) /\ ToSet(<<>>) = {}
BY DEF IsSeq, ToSet

LEMMA FirstOfSeq ==
    ASSUME NEW S, NEW s \in Seq(S), NEW limit \in Nat
    PROVE  FirstOf(s, limit) \in Seq(S) /\ Len(FirstOf(s, limit)) <= limit
BY DEF FirstOf

LEMMA RankedSeq ==
    ASSUME NEW tools, IsSeq(tools), NEW ranking \in Rankings(tools), NEW choice
    PROVE  Ranked(choice, ranking, tools) \in Seq(ToSet(tools))
<1> DEFINE T == ToSet(tools)
<1>1. ranking \in Seq(T)
  <2>1. DOMAIN tools = 1..Len(tools) /\ Len(tools) \in Nat
      BY DEF IsSeq
  <2> HIDE DEF T
  <2>2. PICK n \in 0..Len(tools) : ranking \in [1..n -> T]
      BY DEF T, Rankings
  <2> QED BY <2>1, <2>2
<1> HIDE DEF T
<1>2. choice \in T => <<choice>> \o ranking \in Seq(T)
    BY <1>1
<1> QED BY <1>1, <1>2 DEF Ranked, T

\* An endpoint that is looked at, and becomes a candidate if it is accepted.
LEMMA ExplainsNothing == Explains(<<>>, <<>>)
<1>1. DOMAIN <<>> = {}
    OBVIOUS
<1> DEFINE at == [i \in {} |-> i]
<1>2. at \in [DOMAIN <<>> -> DOMAIN <<>>]
    BY <1>1
<1> QED BY <1>1, <1>2 DEF Explains

LEMMA ExplainsMore ==
    ASSUME NEW found, NEW tools, IsSeq(found), IsSeq(tools), Explains(found, tools),
           NEW id, NEW accepted \in BOOLEAN
    PROVE  Explains(Append(found, Looked(id, accepted)),
                    IF accepted THEN Append(tools, id) ELSE tools)
<1> DEFINE more == Append(found, Looked(id, accepted))
           n == Len(tools)
           m == Len(found)
<1>1. PICK at \in [DOMAIN tools -> DOMAIN found] :
        /\ \A i, j \in DOMAIN tools : i < j => at[i] < at[j]
        /\ \A i \in DOMAIN tools : found[at[i]] = Looked(tools[i], TRUE)
        /\ \A k \in DOMAIN found : found[k].accepted => \E i \in DOMAIN tools : at[i] = k
    BY DEF Explains
<1>2. /\ DOMAIN more = 1..(m + 1) /\ DOMAIN found = 1..m /\ m \in Nat
      /\ more[m + 1] = Looked(id, accepted) /\ \A i \in 1..m : more[i] = found[i]
    BY AppendIsSeq
<1>3. CASE ~accepted
  <2>1. ~Looked(id, accepted).accepted
      BY <1>3 DEF Looked
  <2> HIDE DEF more, n, m
  <2>2. \A i \in DOMAIN tools : at[i] \in 1..m /\ at[i] \in DOMAIN more
      BY <1>1, <1>2
  <2>3. at \in [DOMAIN tools -> DOMAIN more]
      BY <1>1, <2>2
  <2>4. \A i \in DOMAIN tools : more[at[i]] = Looked(tools[i], TRUE)
      BY <1>1, <1>2, <2>2
  <2>5. \A k \in DOMAIN more : more[k].accepted => \E i \in DOMAIN tools : at[i] = k
    <3> TAKE k \in DOMAIN more
    <3>1. CASE k = m + 1
        BY <1>2, <2>1, <3>1
    <3>2. CASE k # m + 1
      <4>1. k \in DOMAIN found /\ more[k] = found[k]
          BY <1>2, <3>2
      <4> QED BY <1>1, <4>1
    <3> QED BY <3>1, <3>2
  <2> QED BY <1>1, <1>3, <2>3, <2>4, <2>5 DEF Explains, more
<1>4. CASE accepted
  <2> DEFINE longer == Append(tools, id)
             to == [i \in 1..(n + 1) |-> IF i <= n THEN at[i] ELSE m + 1]
  <2>1. /\ DOMAIN longer = 1..(n + 1) /\ DOMAIN tools = 1..n /\ n \in Nat
        /\ longer[n + 1] = id /\ \A i \in 1..n : longer[i] = tools[i]
      BY AppendIsSeq
  <2>2. more[m + 1] = Looked(id, TRUE)
      BY <1>2, <1>4
  <2> HIDE DEF more, longer, n, m
  <2>3. to \in [DOMAIN longer -> DOMAIN more]
      BY <1>1, <1>2, <2>1
  <2>4. to[n + 1] = m + 1 /\ \A i \in 1..n : to[i] = at[i] /\ to[i] \in 1..m
      BY <1>1, <1>2, <2>1
  <2> HIDE DEF to
  <2>5. ASSUME NEW i \in DOMAIN longer, NEW j \in DOMAIN longer, i < j
        PROVE  to[i] < to[j]
    <3>1. i \in 1..n /\ to[i] = at[i] /\ to[i] \in 1..m
        BY <2>1, <2>4, <2>5
    <3>2. CASE j = n + 1
        BY <1>2, <2>4, <3>1, <3>2
    <3>3. CASE j # n + 1
      <4>1. j \in 1..n /\ to[j] = at[j]
          BY <2>1, <2>4, <3>3
      <4> QED BY <1>1, <2>1, <2>5, <3>1, <4>1
    <3> QED BY <3>2, <3>3
  <2>6. ASSUME NEW i \in DOMAIN longer PROVE more[to[i]] = Looked(longer[i], TRUE)
    <3>1. CASE i = n + 1
        BY <2>1, <2>2, <2>4, <3>1
    <3>2. CASE i # n + 1
      <4>1. i \in 1..n
          BY <2>1, <3>2
      <4>2. to[i] = at[i] /\ more[at[i]] = found[at[i]] /\ longer[i] = tools[i]
          BY <1>2, <2>1, <2>4, <4>1
      <4> QED BY <1>1, <2>1, <4>1, <4>2
    <3> QED BY <3>1, <3>2
  <2>7. ASSUME NEW k \in DOMAIN more, more[k].accepted PROVE \E i \in DOMAIN longer : to[i] = k
    <3>1. CASE k = m + 1
        BY <2>1, <2>4, <3>1
    <3>2. CASE k # m + 1
      <4>1. k \in DOMAIN found /\ more[k] = found[k]
          BY <1>2, <3>2
      <4>2. PICK i \in DOMAIN tools : at[i] = k
          BY <1>1, <2>7, <4>1
      <4> QED BY <2>1, <2>4, <4>2
    <3> QED BY <3>1, <3>2
  <2> QED BY <1>4, <2>3, <2>5, <2>6, <2>7 DEF Explains, more, longer
<1> QED BY <1>3, <1>4

\* What the deterministic check says of an output, by its verdict.
LEMMA VerdictMeans ==
    ASSUME NEW task \in Task, NEW output \in Output
    PROVE  /\ ValidateToolOutput(task, output) = "pass" =>
                /\ output.kind = "object" /\ task.email /\ NothingAgainst(task, output)
                /\ "for" \in {output.smtp, output.validity, output.verification}
                /\ task.person => "for" \in {output.identity, output.person}
           /\ ValidateToolOutput(task, output) = "inconclusive" =>
                /\ output.kind # "error"
                /\ task.email /\ output.kind = "object" => NothingAgainst(task, output)
<1> USE DEF Task, Output, Signal, ValidateToolOutput, PersonSignal
<1>1. ASSUME ValidateToolOutput(task, output) = "pass"
      PROVE  /\ output.kind = "object" /\ task.email
             /\ "for" \in {output.smtp, output.validity, output.verification}
             /\ task.person => "for" \in {output.identity, output.person}
    BY <1>1 DEF IdentitySupported, VerificationSupported
<1>2. ASSUME ValidateToolOutput(task, output) # "fail", task.email, output.kind = "object"
      PROVE  NothingAgainst(task, output)
    BY <1>2 DEF NothingAgainst
<1> QED BY <1>1, <1>2

\* A set of natural numbers has a least one.
LEMMA LeastIsThere ==
    ASSUME NEW S \in SUBSET Nat, S # {}
    PROVE  (CHOOSE i \in S : \A j \in S : i <= j) \in S
<1> DEFINE R == OpToRel(<, Nat)
<1>1. \E i \in S : \A j \in S : ~(<<j, i>> \in R)
    BY NatLessThanWellFounded, WFMin
<1>2. \A i, j \in Nat : j < i => <<j, i>> \in R
    BY DEF OpToRel
<1> HIDE DEF R
<1>3. PICK i \in S : \A j \in S : ~(<<j, i>> \in R)
    BY <1>1, Zenon
<1>4. \A j \in S : j \in Nat /\ i \in Nat
    OBVIOUS
<1>5. ASSUME NEW j \in S PROVE i <= j
  <2>1. ~(j < i)
      BY <1>2, <1>3, <1>4, Zenon
  <2> QED BY <1>4, <2>1
<1> QED BY <1>5

-----------------------------------------------------------------------------
(*                          What a coroutine becomes                       *)

\* A coroutine that is over knows nothing more.
LEMMA StageIsOpen ==
    ASSUME NEW r \in Run, NEW s, Shape(r, s)
    PROVE  /\ s.stage \notin {"idle", "done", "raised"}
           /\ s.request.attempts \in Nat \ {0} /\ s.request.task \in Task /\ IsSeq(s.request.tools)
BY ControllerAssumption DEF Shape, Discovering, Calling, IsSeq

\* A response keeps what was found and tried.
LEMMA RespondsGood ==
    ASSUME NEW r \in Run, NEW s, Shape(r, s), Explained(s), NEW status, NEW selected,
           status = "passed" => Proven([s EXCEPT !.stage = "recording", !.status = status,
                                                 !.selected = selected])
    PROVE  Good(r, Responds(s, status, selected))
<1> DEFINE t == Responds(s, status, selected)
<1>1. s = [f \in Fields |-> s[f]] /\ {"stage", "status", "selected"} \subseteq Fields
    BY DEF Shape, Fields
<1>2. /\ t = [f \in Fields |-> t[f]] /\ t.stage = "recording" /\ t.status = status
      /\ \A f \in Fields \ {"stage", "status", "selected"} : t[f] = s[f]
    BY <1>1 DEF Responds
<1>3. Proven(t) \/ t.status # "passed"
    BY <1>2 DEF Responds
<1> HIDE DEF t
<1>4. /\ t.request = s.request /\ t.tools = s.tools /\ t.found = s.found /\ t.attempts = s.attempts
      /\ t.left = s.left /\ t.evidence = s.evidence
    BY <1>2 DEF Fields
<1>5. Shape(r, t)
    BY <1>2, <1>4 DEF Shape
<1>6. Explained(t) /\ Attempted(t) /\ Judging(t)
    BY <1>2, <1>3, <1>4 DEF Explained, Attempted, Judging, Discovering, Calling
<1> QED BY <1>5, <1>6 DEF Good, t

\* The next try, or none left: then the request is escalated.
LEMMA ContinuesGood ==
    ASSUME NEW r \in Run, NEW s, Shape(r, s), Explained(s), s.stage \notin Discovering,
           Len(s.attempts) + Len(s.left) <= s.request.attempts,
           \A i \in DOMAIN s.attempts : ~s.attempts[i].passed
    PROVE  Good(r, Continues(s))
<1>1. s = [f \in Fields |-> s[f]] /\ {"stage", "status", "selected"} \subseteq Fields
    BY DEF Shape, Fields
<1>2. CASE s.left # <<>>
  <2> DEFINE t == [s EXCEPT !.stage = "balance"]
  <2>1. /\ t = [f \in Fields |-> t[f]] /\ t.stage = "balance"
        /\ \A f \in Fields \ {"stage"} : t[f] = s[f]
      BY <1>1
  <2>2. Continues(s) = t
      BY <1>2 DEF Continues
  <2> HIDE DEF t
  <2>3. /\ t.request = s.request /\ t.tools = s.tools /\ t.found = s.found /\ t.left = s.left
        /\ t.attempts = s.attempts /\ t.evidence = s.evidence
      BY <2>1 DEF Fields
  <2>4. Shape(r, t)
      BY <2>1, <2>3 DEF Shape, Calling
  <2>5. Explained(t) /\ Attempted(t) /\ Judging(t)
      BY <1>2, <2>1, <2>3 DEF Explained, Attempted, Judging, Discovering, Calling
  <2> QED BY <2>2, <2>4, <2>5 DEF Good
<1>3. CASE s.left = <<>>
  <2> PICK selected : Continues(s) = Responds(s, "escalate", selected)
      BY <1>3 DEF Continues
  <2> QED BY RespondsGood
<1> QED BY <1>2, <1>3

\* A call that was judged: it is one of the tries, and the last one if it passed.
LEMMA TriedGood ==
    ASSUME NEW r \in Run, NEW s, Shape(r, s), Explained(s),
           s.stage \in Calling, s.left # <<>>,
           Len(s.attempts) + Len(s.left) <= s.request.attempts,
           \A i \in DOMAIN s.attempts : ~s.attempts[i].passed,
           NEW status, NEW source, NEW passed \in BOOLEAN,
           passed => /\ s.output.kind # "error"
                     /\ s.request.task.email /\ s.output.kind = "object" =>
                          NothingAgainst(s.request.task, s.output)
                     /\ \/ source = "jev"
                        \/ /\ s.output.kind = "object"
                           /\ "for" \in {s.output.smtp, s.output.validity, s.output.verification}
                           /\ s.request.task.person => "for" \in {s.output.identity, s.output.person}
    PROVE  Good(r, Tried(s, status, source, passed))
<1> DEFINE attempt == Attempt(Head(s.left), s.output, status, source, passed, s.economics,
                              IF s.after = Nothing THEN Nothing ELSE s.before, s.after)
           t == [s EXCEPT !.attempts = Append(@, attempt), !.left = Tail(@), !.before = Nothing,
                          !.after = Nothing, !.output = Nothing, !.economics = Nothing,
                          !.charged = FALSE]
           n == Len(s.attempts)
<1>1. /\ attempt.tool = Head(s.left) /\ attempt.output = s.output /\ attempt.source = source
      /\ attempt.passed = passed
    BY DEF Attempt
<1> HIDE DEF attempt
<1>2. s = [f \in Fields |-> s[f]]
    BY DEF Shape
<1>3. /\ t = [f \in Fields |-> t[f]] /\ t.stage = s.stage /\ t.request = s.request /\ t.tools = s.tools
      /\ t.found = s.found /\ t.evidence = s.evidence
      /\ t.attempts = Append(s.attempts, attempt) /\ t.left = Tail(s.left)
    BY <1>2 DEF Fields
<1>4. /\ Head(s.left) \in ToSet(s.tools) /\ Tail(s.left) \in Seq(ToSet(s.tools))
      /\ Len(Tail(s.left)) = Len(s.left) - 1 /\ Len(s.left) \in Nat \ {0}
  <2> DEFINE T == ToSet(s.tools)
  <2>1. s.left \in Seq(T)
      BY DEF Shape
  <2> HIDE DEF T
  <2>2. /\ Head(s.left) \in T /\ Tail(s.left) \in Seq(T)
        /\ Len(Tail(s.left)) = Len(s.left) - 1 /\ Len(s.left) \in Nat \ {0}
      BY <2>1
  <2> QED BY <2>2 DEF T
<1>5. /\ IsSeq(t.attempts) /\ Len(t.attempts) = n + 1 /\ n \in Nat
      /\ DOMAIN t.attempts = 1..(n + 1) /\ DOMAIN s.attempts = 1..n
      /\ t.attempts[n + 1] = attempt /\ \A i \in 1..n : t.attempts[i] = s.attempts[i]
  <2>1. IsSeq(s.attempts) /\ t.attempts = Append(s.attempts, attempt)
      BY <1>3 DEF Shape
  <2> HIDE DEF t
  <2> QED BY <2>1, AppendIsSeq
<1> HIDE DEF t
<1>6. n + Len(s.left) <= s.request.attempts /\ s.request.attempts \in Nat
    BY StageIsOpen
<1> HIDE DEF n
<1>7. Shape(r, t)
    BY <1>3, <1>4, <1>5 DEF Shape
<1>8. Explained(t)
    BY <1>3 DEF Explained
<1>10. \A i \in 1..n : ~t.attempts[i].passed
    BY <1>5
<1>11. CASE ~passed
  <2>1. \A i \in DOMAIN t.attempts : ~t.attempts[i].passed
      BY <1>1, <1>5, <1>10, <1>11
  <2>2. Len(t.attempts) + Len(t.left) <= t.request.attempts
    <3> DEFINE l == Len(s.left)
               most == s.request.attempts
    <3>1. n + l <= most /\ most \in Nat /\ l \in Nat /\ n \in Nat
        BY <1>4, <1>5, <1>6
    <3>2. Len(t.left) = l - 1 /\ t.request.attempts = most /\ Len(t.attempts) = n + 1
        BY <1>3, <1>4, <1>5
    <3> HIDE DEF l, most
    <3>3. (n + 1) + (l - 1) <= most
        BY <3>1
    <3> QED BY <3>2, <3>3
  <2>3. t.stage \notin Discovering
      BY <1>3 DEF Calling, Discovering
  <2>4. Good(r, Continues(t))
      BY <1>3, <1>7, <1>8, <2>1, <2>2, <2>3, ContinuesGood
  <2> QED BY <1>11, <2>4 DEF Tried, t, attempt
<1>12. CASE passed
  <2> DEFINE u == [t EXCEPT !.left = <<>>]
             v == [u EXCEPT !.stage = "recording", !.status = "passed", !.selected = attempt.tool]
  <2>1. /\ u = [f \in Fields |-> u[f]] /\ u.left = <<>> /\ \A f \in Fields \ {"left"} : u[f] = t[f]
      BY <1>3 DEF Fields
  <2>2. /\ v.selected = attempt.tool /\ v.attempts = t.attempts /\ v.request = t.request
        /\ v.tools = t.tools
      BY <2>1 DEF Fields
  <2> HIDE DEF v
  <2>3. Proven(v)
    <3>1. v.attempts[Len(v.attempts)] = attempt /\ Len(v.attempts) = n + 1
        BY <1>5, <2>2
    <3>2. Len(v.attempts) \in 1..v.request.attempts
        BY <1>3, <1>4, <1>5, <1>6, <2>2
    <3>3. ASSUME NEW i \in DOMAIN v.attempts
          PROVE  v.attempts[i].passed <=> i = Len(v.attempts)
      <4>1. CASE i = n + 1
          BY <1>1, <1>5, <1>12, <2>2, <4>1
      <4>2. CASE i # n + 1
        <5>1. i \in 1..n /\ v.attempts[i] = t.attempts[i]
            BY <1>5, <2>2, <4>2
        <5> QED BY <1>10, <3>1, <4>2, <5>1
      <4> QED BY <4>1, <4>2
    <3> QED BY <1>1, <1>3, <1>4, <1>12, <2>2, <3>1, <3>2, <3>3 DEF Proven
  <2>4. Shape(r, u)
    <3>1. <<>> \in Seq(ToSet(t.tools))
        OBVIOUS
    <3>2. /\ u.stage = t.stage /\ u.request = t.request /\ u.tools = t.tools /\ u.found = t.found
          /\ u.attempts = t.attempts
        BY <2>1 DEF Fields
    <3> QED BY <1>7, <2>1, <3>1, <3>2 DEF Shape
  <2>5. Explained(u)
    <3>1. /\ u.stage = t.stage /\ u.request = t.request /\ u.tools = t.tools /\ u.found = t.found
          /\ u.evidence = t.evidence /\ u.attempts = t.attempts
        BY <2>1 DEF Fields
    <3> QED BY <1>8, <3>1 DEF Explained
  <2> HIDE DEF u
  <2>6. Good(r, Responds(u, "passed", attempt.tool))
      BY <2>3, <2>4, <2>5, RespondsGood DEF v
  <2> QED BY <1>12, <2>6 DEF Tried, t, u, attempt
<1> QED BY <1>11, <1>12

-----------------------------------------------------------------------------
(*                         One step of one coroutine                       *)

LEMMA InitController == Init => ControllerInv
BY ControllerAssumption DEF Init, ControllerInv, Requests, Accounts, IsSeq, InProgress

\* A request that goes on is as good as what it becomes; the others are not concerned.
LEMMA GoesOn ==
    ASSUME Requests, NEW r \in Run, NEW new, Goes(r, new),
           new.stage \in {"done", "raised"} \/ Good(r, new)
    PROVE  Requests'
<1>1. /\ run' = [q \in Run |-> run'[q]] /\ run'[r] = new
      /\ \A q \in Run : q # r => run'[q] = run[q]
    BY DEF Requests, Goes
<1> QED BY <1>1 DEF Requests, InProgress

\* A coroutine that waits somewhere is in progress.
LEMMA AtIsGood ==
    ASSUME Requests, NEW r \in Run, run[r].stage \notin {"idle", "done", "raised"}
    PROVE  Good(r, run[r])
BY DEF Requests, InProgress

LEMMA AcceptStep ==
    ASSUME ControllerInv, NEW r \in Run, NEW request \in Request[r], Accept(r, request)
    PROVE  Requests'
<1> PICK queries : Goes(r,
       [ stage |-> IF request.tools = <<>> THEN "searching" ELSE "routing",
         request |-> request, tools |-> request.tools,
         queries |-> queries, endpoints |-> <<>>, found |-> <<>>,
         query |-> Nothing, evidence |-> Nothing,
         choice |-> Nothing, left |-> <<>>, before |-> Nothing, after |-> Nothing, output |-> Nothing,
         charged |-> FALSE, economics |-> Nothing, attempts |-> <<>>, status |-> Nothing,
         selected |-> Nothing ])
    BY DEF Accept
<1> DEFINE new == [ stage |-> IF request.tools = <<>> THEN "searching" ELSE "routing",
         request |-> request, tools |-> request.tools,
         queries |-> queries, endpoints |-> <<>>, found |-> <<>>,
         query |-> Nothing, evidence |-> Nothing,
         choice |-> Nothing, left |-> <<>>, before |-> Nothing, after |-> Nothing, output |-> Nothing,
         charged |-> FALSE, economics |-> Nothing, attempts |-> <<>>, status |-> Nothing,
         selected |-> Nothing ]
<1>1. /\ new = [f \in Fields |-> new[f]] /\ new.request = request /\ new.tools = request.tools
      /\ new.found = <<>> /\ new.attempts = <<>> /\ new.left = <<>> /\ new.evidence = Nothing
      /\ new.stage = IF request.tools = <<>> THEN "searching" ELSE "routing"
    BY DEF Fields
<1>2. Goes(r, new)
    OBVIOUS
<1> HIDE DEF new
<1>3. Shape(r, new)
  <2>1. new.stage \in Discovering \cup {"routing"}
      BY <1>1 DEF Discovering
  <2>2. IsSeq(request.tools) /\ <<>> \in Seq(ToSet(request.tools))
      BY ControllerAssumption DEF IsSeq
  <2> QED BY <1>1, <2>1, <2>2, EmptyIsSeq DEF Shape
<1>4. Explained(new)
    BY <1>1, EmptyIsSeq, ExplainsNothing DEF Explained, Discovering
<1>5. Attempted(new) /\ Judging(new)
  <2>1. new.stage \in {"searching", "routing"} /\ DOMAIN new.attempts = {}
      BY <1>1
  <2> QED BY <1>1, <2>1 DEF Attempted, Judging, Discovering, Calling
<1> QED BY <1>2, <1>3, <1>4, <1>5, GoesOn DEF Good, ControllerInv

\* Discovery returns: what it found explains its candidates.
LEMMA DiscoveredStep ==
    ASSUME ControllerInv, NEW r \in Run, run[r].stage \in Discovering,
           NEW found, NEW tools, NEW query, Discovered(r, found, tools, query),
           IsSeq(found), IsSeq(tools), Explains(found, tools),
           \A id \in ToSet(tools) : Accepts(Detail[id], run[r].request.facts)
    PROVE  Requests'
<1> DEFINE s == run[r]
<1>1. Good(r, s)
    BY AtIsGood DEF ControllerInv, Discovering
<1> PICK text : Goes(r, Found([s EXCEPT !.tools = tools, !.found = found, !.evidence = found,
                                        !.query = text]))
    BY DEF Discovered, Evidence
<1> DEFINE t == [s EXCEPT !.tools = tools, !.found = found, !.evidence = found, !.query = text]
<1>2. s = [f \in Fields |-> s[f]]
    BY <1>1 DEF Good, Shape
<1>3. s.attempts = <<>> /\ s.left = <<>>
    BY <1>1 DEF Good, Attempted
<1>4. /\ t = [f \in Fields |-> t[f]] /\ t.stage = s.stage /\ t.request = s.request
      /\ t.tools = tools /\ t.found = found /\ t.evidence = found
      /\ t.attempts = <<>> /\ t.left = <<>>
    BY <1>2, <1>3 DEF Fields
<1>5. Goes(r, Found(t))
    OBVIOUS
<1> HIDE DEF t
<1>6. Shape(r, t)
  <2>1. <<>> \in Seq(ToSet(tools))
      OBVIOUS
  <2> QED BY <1>1, <1>4, <2>1, EmptyIsSeq DEF Good, Shape
<1>8. CASE tools = <<>>
  <2> DEFINE u == Responds(t, "escalate", Nothing)
  <2>1. /\ u = [f \in Fields |-> u[f]] /\ u.stage = "recording" /\ u.status = "escalate"
        /\ \A f \in Fields \ {"stage", "status", "selected"} : u[f] = t[f]
      BY <1>4 DEF Responds, Fields
  <2> HIDE DEF u
  <2>2. /\ u.request = t.request /\ u.tools = t.tools /\ u.found = t.found /\ u.left = t.left
        /\ u.attempts = t.attempts /\ u.evidence = t.evidence
      BY <2>1 DEF Fields
  <2>3. Shape(r, u)
      BY <1>6, <2>1, <2>2 DEF Shape
  <2>4. Explained(u)
      BY <1>4, <2>1, <2>2 DEF Explained, Discovering
  <2>6. Attempted(u) /\ Judging(u)
      BY <1>4, <2>1, <2>2 DEF Attempted, Judging, Discovering, Calling
  <2>5. Goes(r, u)
      BY <1>4, <1>5, <1>8 DEF Found, u
  <2> QED BY <2>3, <2>4, <2>5, <2>6, GoesOn DEF Good, ControllerInv
<1>9. CASE tools # <<>>
  <2> DEFINE u == [t EXCEPT !.stage = "routing"]
  <2>1. /\ u = [f \in Fields |-> u[f]] /\ u.stage = "routing"
        /\ \A f \in Fields \ {"stage"} : u[f] = t[f]
      BY <1>4 DEF Fields
  <2> HIDE DEF u
  <2>2. /\ u.request = t.request /\ u.tools = t.tools /\ u.found = t.found /\ u.left = t.left
        /\ u.attempts = t.attempts /\ u.evidence = t.evidence
      BY <2>1 DEF Fields
  <2>3. Shape(r, u)
      BY <1>6, <2>1, <2>2 DEF Shape
  <2>4. Explained(u)
      BY <1>4, <2>1, <2>2 DEF Explained, Discovering
  <2>6. Attempted(u) /\ Judging(u)
      BY <1>4, <2>1, <2>2 DEF Attempted, Judging, Discovering, Calling
  <2>5. Goes(r, u)
      BY <1>4, <1>5, <1>9 DEF Found, u
  <2> QED BY <2>3, <2>4, <2>5, <2>6, GoesOn DEF Good, ControllerInv
<1> QED BY <1>8, <1>9

\* Looking on for endpoints changes nothing of what was found.
LEMMA LooksOn ==
    ASSUME NEW r \in Run, NEW s, Good(r, s), s.stage \in Discovering,
           NEW t, t = [f \in Fields |-> t[f]], t.stage \in Discovering,
           \A f \in Fields \ {"stage", "endpoints", "queries"} : t[f] = s[f]
    PROVE  Good(r, t)
<1>1. /\ t.request = s.request /\ t.tools = s.tools /\ t.found = s.found /\ t.left = s.left
      /\ t.attempts = s.attempts /\ t.evidence = s.evidence
    BY DEF Fields
<1>2. Shape(r, t)
    BY <1>1 DEF Good, Shape
<1>3. Explained(t)
    BY <1>1 DEF Good, Explained
<1>4. Attempted(t) /\ Judging(t)
    BY <1>1 DEF Good, Attempted, Judging, Discovering, Calling
<1> QED BY <1>2, <1>3, <1>4 DEF Good

LEMMA SearchStep ==
    ASSUME ControllerInv, NEW r \in Run, SearchCatalog(r) \/ RetrySearch(r)
    PROVE  Requests'
<1> DEFINE s == run[r]
<1>1. s.stage \in Discovering
    BY DEF SearchCatalog, RetrySearch, Searched, At, Discovering
<1>2. Good(r, s) /\ Requests
    BY <1>1, AtIsGood DEF ControllerInv, Discovering
<1>3. s = [f \in Fields |-> s[f]]
    BY <1>2 DEF Good, Shape
<1>4. \/ \E ids : Goes(r, [s EXCEPT !.stage = "inspecting", !.endpoints = ids])
      \/ Goes(r, [s EXCEPT !.stage = "retrying"])
      \/ \E rest : Goes(r, [s EXCEPT !.stage = "searching", !.queries = rest])
      \/ \E query : Discovered(r, <<>>, <<>>, query)
    BY DEF SearchCatalog, RetrySearch, Searched
<1>5. CASE \E ids : Goes(r, [s EXCEPT !.stage = "inspecting", !.endpoints = ids])
  <2> PICK ids : Goes(r, [s EXCEPT !.stage = "inspecting", !.endpoints = ids])
      BY <1>5
  <2> DEFINE t == [s EXCEPT !.stage = "inspecting", !.endpoints = ids]
  <2>1. /\ t = [f \in Fields |-> t[f]] /\ t.stage \in Discovering
        /\ \A f \in Fields \ {"stage", "endpoints", "queries"} : t[f] = s[f]
      BY <1>3 DEF Fields, Discovering
  <2>2. Goes(r, t)
      OBVIOUS
  <2> HIDE DEF t, s
  <2>3. Good(r, t)
      BY <1>1, <1>2, <2>1, LooksOn
  <2> QED BY <1>2, <2>2, <2>3, GoesOn
<1>6. CASE Goes(r, [s EXCEPT !.stage = "retrying"])
  <2> DEFINE t == [s EXCEPT !.stage = "retrying"]
  <2>1. /\ t = [f \in Fields |-> t[f]] /\ t.stage \in Discovering
        /\ \A f \in Fields \ {"stage", "endpoints", "queries"} : t[f] = s[f]
      BY <1>3 DEF Fields, Discovering
  <2>2. Goes(r, t)
      BY <1>6
  <2> HIDE DEF t, s
  <2>3. Good(r, t)
      BY <1>1, <1>2, <2>1, LooksOn
  <2> QED BY <1>2, <2>2, <2>3, GoesOn
<1>7. CASE \E rest : Goes(r, [s EXCEPT !.stage = "searching", !.queries = rest])
  <2> PICK rest : Goes(r, [s EXCEPT !.stage = "searching", !.queries = rest])
      BY <1>7
  <2> DEFINE t == [s EXCEPT !.stage = "searching", !.queries = rest]
  <2>1. /\ t = [f \in Fields |-> t[f]] /\ t.stage \in Discovering
        /\ \A f \in Fields \ {"stage", "endpoints", "queries"} : t[f] = s[f]
      BY <1>3 DEF Fields, Discovering
  <2>2. Goes(r, t)
      OBVIOUS
  <2> HIDE DEF t, s
  <2>3. Good(r, t)
      BY <1>1, <1>2, <2>1, LooksOn
  <2> QED BY <1>2, <2>2, <2>3, GoesOn
<1>8. CASE \E query : Discovered(r, <<>>, <<>>, query)
  <2> PICK query : Discovered(r, <<>>, <<>>, query)
      BY <1>8
  <2>1. \A id \in ToSet(<<>>) : Accepts(Detail[id], s.request.facts)
      BY EmptyIsSeq
  <2> QED BY <1>1, <2>1, EmptyIsSeq, ExplainsNothing, DiscoveredStep
<1> QED BY <1>4, <1>5, <1>6, <1>7, <1>8

\* An endpoint that is looked at, and becomes a candidate if it is accepted.
LEMMA InspectStep ==
    ASSUME ControllerInv, NEW r \in Run, InspectEndpoint(r)
    PROVE  Requests'
<1> DEFINE s == run[r]
           id == Head(s.endpoints)
           accepted == Accepts(Detail[id], s.request.facts)
           found == Append(s.found, Looked(id, accepted))
           tools == IF accepted THEN Append(s.tools, id) ELSE s.tools
<1>1. s.stage \in Discovering /\ s.stage = "inspecting"
    BY DEF InspectEndpoint, At, Discovering
<1>2. Good(r, s) /\ Requests
    BY <1>1, AtIsGood DEF ControllerInv
<1>3. /\ s = [f \in Fields |-> s[f]] /\ IsSeq(s.found) /\ IsSeq(s.tools)
      /\ s.evidence = Nothing /\ Explains(s.found, s.tools) /\ s.attempts = <<>> /\ s.left = <<>>
      /\ \A x \in ToSet(s.tools) : Accepts(Detail[x], s.request.facts)
    BY <1>1, <1>2 DEF Good, Shape, Explained, Attempted
<1>4. accepted \in BOOLEAN
    BY Zenon DEF Accepts
<1>6. \/ Discovered(r, found, tools, lastQuery)
      \/ Goes(r, [s EXCEPT !.endpoints = Tail(s.endpoints), !.found = found, !.tools = tools])
    BY DEF InspectEndpoint
<1>5. /\ IsSeq(found) /\ IsSeq(tools) /\ Explains(found, tools)
      /\ \A x \in ToSet(tools) : Accepts(Detail[x], s.request.facts)
  <2>1. IsSeq(found)
      BY <1>3, AppendIsSeq
  <2>2. IsSeq(tools) /\ ToSet(tools) \subseteq ToSet(s.tools) \cup (IF accepted THEN {id} ELSE {})
    <3>1. IsSeq(Append(s.tools, id)) /\ ToSet(Append(s.tools, id)) = ToSet(s.tools) \cup {id}
        BY <1>3, AppendIsSeq
    <3> QED BY <1>3, <3>1
  <2>3. Explains(found, tools)
    <3> HIDE DEF accepted, s, id
    <3> QED BY <1>3, <1>4, ExplainsMore
  <2> QED BY <1>3, <2>1, <2>2, <2>3
<1> HIDE DEF found, tools, accepted, id
<1>7. CASE Discovered(r, found, tools, lastQuery)
    BY <1>1, <1>5, <1>7, DiscoveredStep
<1>8. CASE Goes(r, [s EXCEPT !.endpoints = Tail(s.endpoints), !.found = found, !.tools = tools])
  <2> DEFINE t == [s EXCEPT !.endpoints = Tail(s.endpoints), !.found = found, !.tools = tools]
  <2>1. /\ t = [f \in Fields |-> t[f]] /\ t.stage = "inspecting" /\ t.request = s.request
        /\ t.tools = tools /\ t.found = found /\ t.attempts = <<>> /\ t.left = <<>>
        /\ t.evidence = Nothing
      BY <1>1, <1>3 DEF Fields
  <2>5. Goes(r, t)
      BY <1>8
  <2> HIDE DEF t
  <2>2. Shape(r, t)
    <3>1. <<>> \in Seq(ToSet(tools))
        OBVIOUS
    <3> QED BY <1>2, <1>5, <2>1, <3>1, EmptyIsSeq DEF Good, Shape, Discovering
  <2>3. Explained(t)
      BY <1>5, <2>1 DEF Explained
  <2>4. Attempted(t) /\ Judging(t)
    <3>1. t.attempts = <<>> /\ t.left = <<>> /\ t.stage = "inspecting" /\ DOMAIN t.attempts = {}
        BY <2>1
    <3> QED BY <3>1 DEF Attempted, Judging, Discovering, Calling
  <2>6. Good(r, t)
      BY <2>2, <2>3, <2>4 DEF Good
  <2> HIDE DEF s
  <2> QED BY <1>2, <2>5, <2>6, GoesOn
<1> QED BY <1>6, <1>7, <1>8

-----------------------------------------------------------------------------
(*                              Routing and calling                        *)

\* Jev's answer: the candidates it ranks are called up to the limit.
LEMMA RouteStep ==
    ASSUME ControllerInv, NEW r \in Run, NEW choice, NEW sure \in BOOLEAN,
           NEW ranking \in Rankings(run[r].tools), Route(r, choice, sure, ranking)
    PROVE  Requests'
<1> DEFINE s == run[r]
           t == [s EXCEPT !.choice = choice]
           dry == Attempt(choice, NoOutput, "inconclusive", "dry_run", FALSE, DryEconomics,
                          Nothing, Nothing)
           u == [t EXCEPT !.attempts = <<dry>>]
           order == Ranked(choice, ranking, s.tools)
           v == [t EXCEPT !.left = FirstOf(order, s.request.attempts)]
<1>1. s.stage = "routing"
    BY DEF Route, At
<1>2. Good(r, s) /\ Requests
    BY <1>1, AtIsGood DEF ControllerInv
<1>3. /\ s = [f \in Fields |-> s[f]] /\ s.attempts = <<>> /\ s.left = <<>> /\ IsSeq(s.tools)
      /\ s.request.attempts \in Nat
    BY <1>1, <1>2, StageIsOpen DEF Good, Shape, Attempted
<1>4. /\ t = [f \in Fields |-> t[f]] /\ t.stage = s.stage /\ t.request = s.request /\ t.tools = s.tools
      /\ t.found = s.found /\ t.left = <<>> /\ t.attempts = <<>> /\ t.evidence = s.evidence
      /\ \A f \in Fields \ {"choice"} : t[f] = s[f]
    BY <1>3 DEF Fields
<1>5. \/ Goes(r, Responds(t, "escalate", Nothing))
      \/ Goes(r, Over("raised"))
      \/ Goes(r, Responds(u, "dry_run", choice))
      \/ Goes(r, Continues(v))
    BY <1>4 DEF Route, Raises
<1>6. Shape(r, t) /\ Explained(t)
    BY <1>2, <1>4 DEF Good, Shape, Explained
<1>7. Good(r, Responds(t, "escalate", Nothing))
    BY <1>6, RespondsGood
<1>8. Good(r, Responds(u, "dry_run", choice))
  <2>1. dry.output.kind = "dry"
      BY DEF Attempt, NoOutput
  <2> HIDE DEF dry
  <2>2. /\ u = [f \in Fields |-> u[f]] /\ u.attempts = <<dry>>
        /\ \A f \in Fields \ {"attempts"} : u[f] = t[f]
      BY <1>4 DEF Fields
  <2> HIDE DEF u
  <2>3. /\ u.stage = t.stage /\ u.request = t.request /\ u.tools = t.tools /\ u.found = t.found
        /\ u.left = t.left /\ u.evidence = t.evidence
      BY <2>2 DEF Fields
  <2>4. IsSeq(u.attempts) /\ DOMAIN u.attempts = {1} /\ u.attempts[1] = dry
    <3>1. IsSeq(<<dry>>)
        BY DEF IsSeq, ToSet
    <3> QED BY <2>2, <3>1
  <2>5. Shape(r, u) /\ Explained(u)
      BY <1>6, <2>1, <2>2, <2>3, <2>4 DEF Shape, Explained
  <2> HIDE DEF t
  <2> QED BY <2>5, RespondsGood
<1>9. Good(r, Continues(v))
  <2>1. order \in Seq(ToSet(s.tools))
      BY <1>3, RankedSeq
  <2> DEFINE first == FirstOf(order, s.request.attempts)
             T == ToSet(s.tools)
  <2>2. first \in Seq(T) /\ Len(first) <= s.request.attempts
    <3> HIDE DEF order, T
    <3> QED BY <1>3, <2>1, FirstOfSeq DEF T
  <2> HIDE DEF first
  <2>3. /\ v = [f \in Fields |-> v[f]] /\ v.left = first
        /\ \A f \in Fields \ {"left"} : v[f] = t[f]
      BY <1>4 DEF Fields, first
  <2> HIDE DEF v, t
  <2>4. /\ v.stage = t.stage /\ v.request = t.request /\ v.tools = t.tools /\ v.found = t.found
        /\ v.attempts = t.attempts /\ v.evidence = t.evidence
      BY <2>3 DEF Fields
  <2>5. Shape(r, v) /\ Explained(v)
      BY <1>4, <1>6, <2>2, <2>3, <2>4 DEF Shape, Explained
  <2>6. Len(v.attempts) = 0 /\ DOMAIN v.attempts = {} /\ v.stage \notin Discovering
      BY <1>1, <1>4, <2>4 DEF Discovering
  <2>7. Len(v.attempts) + Len(v.left) <= v.request.attempts
    <3>1. Len(first) \in Nat
        BY <2>2
    <3>2. v.left = first /\ v.request.attempts = s.request.attempts
        BY <1>4, <2>3, <2>4
    <3> DEFINE l == Len(first)
               most == s.request.attempts
    <3>3. l \in Nat /\ l <= most /\ Len(v.attempts) = 0
        BY <2>2, <2>6, <3>1
    <3> HIDE DEF l, most
    <3>4. 0 + l <= most
        BY <3>3
    <3> QED BY <3>2, <3>3, <3>4 DEF l, most
  <2> QED BY <2>5, <2>6, <2>7, ContinuesGood
<1>10. Over("raised").stage = "raised"
    BY DEF Over
<1> HIDE DEF s, t, u, v
<1> QED BY <1>2, <1>5, <1>7, <1>8, <1>9, <1>10, GoesOn

\* While a call goes on, only what it has come to changes.
LEMMA StaysCalling ==
    ASSUME NEW r \in Run, NEW s, Good(r, s), s.stage \in Calling,
           NEW t, t = [f \in Fields |-> t[f]], t.stage \in {"calling", "running", "settling"},
           \A f \in Fields \ {"stage", "before", "output", "charged"} : t[f] = s[f],
           t.stage = "settling" => t.output \in Output /\ t.output.kind # "error"
    PROVE  Good(r, t)
<1>1. /\ t.request = s.request /\ t.tools = s.tools /\ t.found = s.found /\ t.left = s.left
      /\ t.attempts = s.attempts /\ t.evidence = s.evidence
    BY DEF Fields
<1>2. Shape(r, t)
    BY <1>1 DEF Good, Shape, Calling
<1>3. Explained(t)
    BY <1>1 DEF Good, Explained, Calling, Discovering
<1>4. Attempted(t) /\ Judging(t)
    BY <1>1 DEF Good, Attempted, Judging, Discovering, Calling
<1> QED BY <1>2, <1>3, <1>4 DEF Good

\* A result that is judged is proof, no proof, or Jev's to judge.
LEMMA JudgedGood ==
    ASSUME NEW r \in Run, Good(r, run[r]), run[r].stage \in {"running", "settling"},
           NEW output \in Output, NEW economics, NEW after
    PROVE  Good(r, Judged(r, output, economics, after))
<1> DEFINE s == run[r]
           t == [s EXCEPT !.output = output, !.economics = economics, !.after = after]
           status == ValidateToolOutput(s.request.task, output)
<1>1. /\ s = [f \in Fields |-> s[f]] /\ s.stage \in Calling /\ s.request.task \in Task
      /\ s.left # <<>> /\ Len(s.attempts) + Len(s.left) <= s.request.attempts
      /\ \A i \in DOMAIN s.attempts : ~s.attempts[i].passed
  <2>1. s.stage \in Calling
      BY DEF Calling
  <2> QED BY <2>1, StageIsOpen DEF Good, Shape, Attempted
<1>2. /\ t = [f \in Fields |-> t[f]] /\ t.output = output
      /\ \A f \in Fields \ {"output", "economics", "after"} : t[f] = s[f]
    BY <1>1 DEF Fields
<1>3. Judged(r, output, economics, after) =
        IF status = "inconclusive" THEN [t EXCEPT !.stage = "asking"]
        ELSE Tried(t, status, "deterministic", status = "pass")
    BY DEF Judged, TaskOf
<1> HIDE DEF t
<1>4. /\ t.request = s.request /\ t.tools = s.tools /\ t.found = s.found /\ t.left = s.left
      /\ t.attempts = s.attempts /\ t.evidence = s.evidence /\ t.stage = s.stage
    BY <1>2 DEF Fields
<1>5. Shape(r, t) /\ Explained(t)
    BY <1>2, <1>4 DEF Good, Shape, Explained
<1>6. CASE status = "inconclusive"
  <2> DEFINE u == [t EXCEPT !.stage = "asking"]
  <2>1. /\ u = [f \in Fields |-> u[f]] /\ u.stage = "asking"
        /\ \A f \in Fields \ {"stage"} : u[f] = t[f]
      BY <1>2 DEF Fields
  <2>2. Judged(r, output, economics, after) = u
      BY <1>3, <1>6
  <2> HIDE DEF u
  <2>3. /\ u.request = s.request /\ u.tools = s.tools /\ u.found = s.found /\ u.left = s.left
        /\ u.attempts = s.attempts /\ u.evidence = s.evidence /\ u.output = output
      BY <1>2, <1>4, <2>1 DEF Fields
  <2>4. output.kind # "error"
      BY <1>1, <1>6, VerdictMeans
  <2> HIDE DEF s
  <2>5. Shape(r, u)
      BY <1>4, <1>5, <2>1, <2>3 DEF Shape, Calling
  <2>6. Explained(u)
      BY <1>4, <1>5, <2>1, <2>3 DEF Explained, Discovering
  <2>7. Attempted(u)
      BY <1>1, <2>1, <2>3 DEF Attempted, Discovering, Calling
  <2>8. Judging(u)
      BY <1>6, <2>1, <2>3, <2>4 DEF Judging
  <2> QED BY <2>2, <2>5, <2>6, <2>7, <2>8 DEF Good
<1>7. CASE status # "inconclusive"
  <2>1. Judged(r, output, economics, after) = Tried(t, status, "deterministic", status = "pass")
      BY <1>3, <1>7
  <2>2. status = "pass" =>
          /\ output.kind = "object" /\ s.request.task.email /\ NothingAgainst(s.request.task, output)
          /\ "for" \in {output.smtp, output.validity, output.verification}
          /\ s.request.task.person => "for" \in {output.identity, output.person}
      BY <1>1, VerdictMeans
  <2> DEFINE passed == status = "pass"
  <2>3. passed \in BOOLEAN
      OBVIOUS
  <2>5. passed => /\ t.output.kind # "error"
                  /\ t.request.task.email /\ t.output.kind = "object" =>
                       NothingAgainst(t.request.task, t.output)
                  /\ t.output.kind = "object"
                  /\ "for" \in {t.output.smtp, t.output.validity, t.output.verification}
                  /\ t.request.task.person => "for" \in {t.output.identity, t.output.person}
      BY <1>2, <1>4, <2>2
  <2>6. /\ t.stage \in Calling /\ t.left # <<>> /\ Len(t.attempts) + Len(t.left) <= t.request.attempts
        /\ \A i \in DOMAIN t.attempts : ~t.attempts[i].passed
      BY <1>1, <1>4
  <2> HIDE DEF passed, status, s
  <2>7. Good(r, Tried(t, status, "deterministic", passed))
      BY <1>5, <2>3, <2>5, <2>6, TriedGood
  <2> QED BY <2>1, <2>7 DEF passed
<1> QED BY <1>6, <1>7

LEMMA ReadBeforeStep ==
    ASSUME ControllerInv, NEW r \in Run, NEW balance, ReadBefore(r, balance)
    PROVE  Requests'
<1> DEFINE s == run[r]
           t == [s EXCEPT !.stage = "calling", !.before = balance]
<1>1. s.stage \in Calling /\ Goes(r, t)
    BY DEF ReadBefore, At, Calling
<1>2. Good(r, s) /\ Requests
    BY <1>1, AtIsGood DEF ControllerInv, Calling
<1>3. /\ t = [f \in Fields |-> t[f]] /\ t.stage = "calling"
      /\ \A f \in Fields \ {"stage", "before", "output", "charged"} : t[f] = s[f]
    BY <1>2 DEF Fields, Good, Shape
<1> HIDE DEF s, t
<1>4. Good(r, t)
    BY <1>1, <1>2, <1>3, StaysCalling
<1> QED BY <1>1, <1>2, <1>4, GoesOn

LEMMA StartCallStep ==
    ASSUME ControllerInv, NEW r \in Run, StartCall(r)
    PROVE  Requests'
<1> DEFINE s == run[r]
           t == [s EXCEPT !.stage = "running"]
<1>1. s.stage \in Calling /\ Goes(r, t)
    BY DEF StartCall, At, Calling
<1>2. Good(r, s) /\ Requests
    BY <1>1, AtIsGood DEF ControllerInv, Calling
<1>3. /\ t = [f \in Fields |-> t[f]] /\ t.stage = "running"
      /\ \A f \in Fields \ {"stage", "before", "output", "charged"} : t[f] = s[f]
    BY <1>2 DEF Fields, Good, Shape
<1> HIDE DEF s, t
<1>4. Good(r, t)
    BY <1>1, <1>2, <1>3, StaysCalling
<1> QED BY <1>1, <1>2, <1>4, GoesOn

\* A failed call keeps whatever economics there are; an output waits for its balance.
LEMMA EndCallStep ==
    ASSUME ControllerInv, NEW r \in Run, NEW end \in Endings, EndCall(r, end)
    PROVE  Requests'
<1> DEFINE s == run[r]
           t == [s EXCEPT !.stage = "settling", !.output = end.output, !.charged = end.charged]
<1>1. /\ s.stage = "running"
      /\ IF end.output.kind = "error" THEN Goes(r, Judged(r, end.output, lastEconomics, Nothing))
         ELSE Goes(r, t)
    BY DEF EndCall, At
<1>2. Good(r, s) /\ Requests /\ end.output \in Output
    BY <1>1, AtIsGood, ControllerAssumption DEF ControllerInv
<1>3. CASE end.output.kind = "error"
  <2>1. Good(r, Judged(r, end.output, lastEconomics, Nothing))
      BY <1>1, <1>2, <1>3, JudgedGood
  <2> QED BY <1>1, <1>2, <1>3, <2>1, GoesOn
<1>4. CASE end.output.kind # "error"
  <2>1. /\ t = [f \in Fields |-> t[f]] /\ t.stage = "settling" /\ t.output = end.output
        /\ \A f \in Fields \ {"stage", "before", "output", "charged"} : t[f] = s[f]
      BY <1>2 DEF Fields, Good, Shape
  <2>2. s.stage \in Calling
      BY <1>1 DEF Calling
  <2>3. Goes(r, t)
      BY <1>1, <1>4
  <2> HIDE DEF s, t
  <2>4. Good(r, t)
      BY <1>2, <1>4, <2>1, <2>2, StaysCalling
  <2> QED BY <1>2, <2>3, <2>4, GoesOn
<1> QED BY <1>3, <1>4

LEMMA ReadAfterStep ==
    ASSUME ControllerInv, NEW r \in Run, NEW balance, ReadAfter(r, balance)
    PROVE  Requests'
<1> PICK economics : Goes(r, Judged(r, run[r].output, economics, balance))
    BY DEF ReadAfter
<1>1. run[r].stage = "settling"
    BY DEF ReadAfter, At
<1>2. Good(r, run[r]) /\ Requests
    BY <1>1, AtIsGood DEF ControllerInv
<1>3. run[r].output \in Output
    BY <1>1, <1>2 DEF Good, Judging
<1>4. Good(r, Judged(r, run[r].output, economics, balance))
    BY <1>1, <1>2, <1>3, JudgedGood
<1> QED BY <1>2, <1>4, GoesOn

LEMMA VerifyStep ==
    ASSUME ControllerInv, NEW r \in Run, NEW sufficient \in BOOLEAN, Verify(r, sufficient)
    PROVE  Requests'
<1> DEFINE s == run[r]
<1>1. s.stage = "asking" /\ Goes(r, Tried(s, "inconclusive", "jev", sufficient))
    BY DEF Verify, At
<1>2. Good(r, s) /\ Requests
    BY <1>1, AtIsGood DEF ControllerInv
<1>3. /\ s.stage \in Calling /\ s.left # <<>>
      /\ Len(s.attempts) + Len(s.left) <= s.request.attempts
      /\ \A i \in DOMAIN s.attempts : ~s.attempts[i].passed
      /\ s.output \in Output /\ s.output.kind # "error"
      /\ ValidateToolOutput(s.request.task, s.output) = "inconclusive"
      /\ Shape(r, s) /\ Explained(s)
    BY <1>1, <1>2 DEF Good, Attempted, Judging, Calling
<1>4. s.request.task.email /\ s.output.kind = "object" => NothingAgainst(s.request.task, s.output)
    BY <1>3, StageIsOpen, VerdictMeans
<1> HIDE DEF s
<1>5. Good(r, Tried(s, "inconclusive", "jev", sufficient))
    BY <1>3, <1>4, TriedGood
<1> QED BY <1>1, <1>2, <1>5, GoesOn

LEMMA EndStep ==
    ASSUME ControllerInv, NEW r \in Run, Fail(r) \/ Record(r)
    PROVE  Requests'
<1> PICK over \in {"done", "raised"} : Goes(r, Over(over))
    BY DEF Fail, Record, Raises
<1>1. Over(over).stage = over
    BY DEF Over
<1> QED BY <1>1, GoesOn DEF ControllerInv

-----------------------------------------------------------------------------
(*                             What the ledger says                        *)

Grows(entries, more) == more = entries \/ \E e : more = Append(entries, e)

LEMMA WhatGrowsStays ==
    ASSUME NEW entries, NEW more, IsSeq(entries), Grows(entries, more)
    PROVE  /\ IsSeq(more) /\ Len(entries) \in Nat /\ Len(more) \in Nat /\ Len(entries) <= Len(more)
           /\ \A i \in 1..Len(entries) : more[i] = entries[i]
<1>1. CASE more = entries
    BY <1>1 DEF IsSeq
<1>2. CASE \E e : more = Append(entries, e)
  <2> PICK e : more = Append(entries, e)
      BY <1>2
  <2> QED BY AppendIsSeq
<1> QED BY <1>1, <1>2 DEF Grows

\* What is entered later does not change what a call has read.
LEMMA CallStaysOwn ==
    ASSUME NEW entries, NEW more, IsSeq(entries), Grows(entries, more), NEW r, NEW i, NEW endpoint,
           NEW economics, NEW before, NEW after,
           OwnCall(entries, r, i, endpoint, economics, before, after)
    PROVE  OwnCall(more, r, i, endpoint, economics, before, after)
<1>1. /\ Len(entries) \in Nat /\ Len(more) \in Nat /\ Len(entries) <= Len(more)
      /\ \A k \in 1..Len(entries) : more[k] = entries[k]
    BY WhatGrowsStays
<1>2. /\ before # Nothing => before \in 0..Len(entries) /\ before \in 0..Len(more)
      /\ after # Nothing => after \in 0..Len(entries) /\ after \in 0..Len(more)
    BY <1>1 DEF OwnCall
<1>3. Meanwhile(more, endpoint, before, after) = Meanwhile(entries, endpoint, before, after)
  <2>1. CASE after = Nothing
      BY <2>1 DEF Meanwhile
  <2>2. CASE after # Nothing
    <3> DEFINE K == (IF before = Nothing THEN 1 ELSE before + 1)..after
    <3>1. \A k \in K : k \in 1..Len(entries)
        BY <1>1, <1>2, <2>2
    <3>2. \A k \in K : more[k] = entries[k]
        BY <1>1, <3>1
    <3> QED BY <2>2, <3>2 DEF Meanwhile
  <2> QED BY <2>1, <2>2
<1> QED BY <1>2, <1>3 DEF OwnCall, OwnEconomics

LEMMA TriesStayOwn ==
    ASSUME NEW entries, NEW more, IsSeq(entries), Grows(entries, more), NEW r, NEW s,
           TriesAreOwn(entries, r, s)
    PROVE  TriesAreOwn(more, r, s)
BY CallStaysOwn DEF TriesAreOwn

LEMMA ReservationStays ==
    ASSUME NEW entries, NEW more, IsSeq(entries), Grows(entries, more), NEW r, NEW s,
           s.before \in 0..Len(entries), IsReserved(entries, r, s)
    PROVE  IsReserved(more, r, s)
<1>1. /\ Len(entries) \in Nat /\ Len(more) \in Nat /\ Len(entries) <= Len(more)
      /\ \A i \in 1..Len(entries) : more[i] = entries[i]
    BY WhatGrowsStays
<1>2. PICK k \in (s.before + 1)..Len(entries) :
        entries[k] = [call |-> <<r, Len(s.attempts) + 1>>, endpoint |-> Head(s.left),
                      kind |-> "reserve"]
    BY DEF IsReserved
<1>3. k \in (s.before + 1)..Len(more) /\ more[k] = entries[k]
    BY <1>1, <1>2
<1> QED BY <1>2, <1>3 DEF IsReserved

LEMMA CallsStayIts ==
    ASSUME NEW entries, NEW more, IsSeq(entries), Grows(entries, more), NEW r, NEW s,
           ItsCalls(entries, r, s)
    PROVE  ItsCalls(more, r, s)
<1>1. Len(entries) \in Nat /\ Len(more) \in Nat /\ Len(entries) <= Len(more)
    BY WhatGrowsStays
<1>2. TriesAreOwn(more, r, s)
    BY TriesStayOwn DEF ItsCalls
<1>3. s.stage = "asking" =>
         OwnCall(more, r, Len(s.attempts) + 1, Head(s.left), s.economics, s.before, s.after)
    BY CallStaysOwn DEF ItsCalls
<1>4. s.stage \in {"calling", "running", "settling", "asking"} /\ s.before # Nothing =>
         s.before \in 0..Len(entries) /\ s.before \in 0..Len(more)
    BY <1>1 DEF ItsCalls
<1>5. s.stage \in {"running", "settling"} /\ s.before # Nothing => IsReserved(more, r, s)
    BY <1>4, ReservationStays DEF ItsCalls
<1> QED BY <1>2, <1>3, <1>4, <1>5 DEF ItsCalls

\* The ledger grows for whatever reason, and one request goes on.
LEMMA AccountsGoOn ==
    ASSUME ControllerInv, NEW r \in Run, NEW new, Goes(r, new), Grows(ledger, ledger'),
           new.stage \in {"done", "raised"} \/ ItsCalls(ledger', r, new)
    PROVE  Accounts'
<1>1. /\ run'[r] = new /\ \A q \in Run : q # r => run'[q] = run[q]
    BY DEF ControllerInv, Requests, Goes
<1>2. IsSeq(ledger) /\ IsSeq(ledger')
    BY WhatGrowsStays DEF ControllerInv, Accounts
<1>3. ASSUME NEW q \in Run, InProgress(q)' PROVE ItsCalls(ledger', q, run'[q])
  <2>1. CASE q = r
      BY <1>1, <1>3, <2>1 DEF InProgress
  <2>2. CASE q # r
    <3>1. ItsCalls(ledger, q, run[q])
        BY <1>1, <1>3, <2>2 DEF InProgress, ControllerInv, Accounts
    <3> QED BY <1>1, <1>2, <2>2, <3>1, CallsStayIts
  <2> QED BY <2>1, <2>2
<1> QED BY <1>2, <1>3 DEF Accounts

\* Between two calls there is nothing to know of the ledger but what was tried.
LEMMA NoCall ==
    ASSUME NEW entries, NEW r, NEW t, t.stage \notin {"calling", "running", "settling", "asking"},
           TriesAreOwn(entries, r, t)
    PROVE  ItsCalls(entries, r, t)
BY DEF ItsCalls

LEMMA NothingTried ==
    ASSUME NEW entries, NEW r, NEW t, t.stage \notin {"calling", "running", "settling", "asking"},
           t.attempts = <<>>
    PROVE  ItsCalls(entries, r, t)
BY DEF ItsCalls, TriesAreOwn

\* Until it is routed a request has tried nothing.
LEMMA DiscoveryAccounts ==
    ASSUME ControllerInv, NEW r \in Run,
           \/ \E request \in Request[r] : Accept(r, request)
           \/ SearchCatalog(r) \/ RetrySearch(r) \/ InspectEndpoint(r)
    PROVE  Accounts'
<1> DEFINE s == run[r]
           Early(t) == t.stage \notin {"calling", "running", "settling", "asking"} /\ t.attempts = <<>>
<1>1. Grows(ledger, ledger')
    BY DEF Accept, SearchCatalog, RetrySearch, Searched, InspectEndpoint, Grows, treg
<1>2. ASSUME s.stage \in Discovering PROVE s = [f \in Fields |-> s[f]] /\ s.attempts = <<>>
    BY <1>2, AtIsGood DEF ControllerInv, Good, Shape, Attempted, Discovering
<1>3. ASSUME s.stage \in Discovering, NEW found, NEW tools, NEW query, Discovered(r, found, tools, query)
      PROVE  \E t : Goes(r, t) /\ Early(t)
  <2> PICK text : Goes(r, Found([s EXCEPT !.tools = tools, !.found = found, !.evidence = found,
                                          !.query = text]))
      BY <1>3 DEF Discovered, Evidence
  <2> DEFINE t == [s EXCEPT !.tools = tools, !.found = found, !.evidence = found, !.query = text]
             u == Responds(t, "escalate", Nothing)
             v == [t EXCEPT !.stage = "routing"]
  <2>1. t = [f \in Fields |-> t[f]] /\ t.attempts = <<>>
      BY <1>2, <1>3 DEF Fields
  <2>2. Goes(r, Found(t))
      OBVIOUS
  <2> HIDE DEF t
  <2>3. Early(u) /\ Early(v)
      BY <2>1 DEF Responds, Fields
  <2>4. Goes(r, u) \/ Goes(r, v)
      BY <2>2 DEF Found
  <2> HIDE DEF u, v, Early
  <2> QED BY <2>3, <2>4
<1>4. ASSUME NEW request \in Request[r], Accept(r, request) PROVE \E t : Goes(r, t) /\ Early(t)
  <2> DEFINE t == [ stage |-> IF request.tools = <<>> THEN "searching" ELSE "routing",
                    request |-> request, tools |-> request.tools,
                    queries |-> DiscoveryQueries(request), endpoints |-> <<>>, found |-> <<>>,
                    query |-> Nothing, evidence |-> Nothing,
                    choice |-> Nothing, left |-> <<>>, before |-> Nothing, after |-> Nothing,
                    output |-> Nothing, charged |-> FALSE, economics |-> Nothing,
                    attempts |-> <<>>, status |-> Nothing, selected |-> Nothing ]
  <2>1. Early(t)
      OBVIOUS
  <2>2. Goes(r, t)
      BY <1>4 DEF Accept
  <2> HIDE DEF t, Early
  <2> QED BY <2>1, <2>2
<1>5. ASSUME SearchCatalog(r) \/ RetrySearch(r) PROVE \E t : Goes(r, t) /\ Early(t)
  <2>1. s.stage \in Discovering
      BY <1>5 DEF SearchCatalog, RetrySearch, At, Discovering
  <2>2. \/ \E ids : Goes(r, [s EXCEPT !.stage = "inspecting", !.endpoints = ids])
        \/ Goes(r, [s EXCEPT !.stage = "retrying"])
        \/ \E rest : Goes(r, [s EXCEPT !.stage = "searching", !.queries = rest])
        \/ \E query : Discovered(r, <<>>, <<>>, query)
      BY <1>5 DEF SearchCatalog, RetrySearch, Searched
  <2>3. ASSUME NEW ids PROVE Early([s EXCEPT !.stage = "inspecting", !.endpoints = ids])
      BY <1>2, <2>1 DEF Fields
  <2>4. Early([s EXCEPT !.stage = "retrying"])
      BY <1>2, <2>1 DEF Fields
  <2>5. ASSUME NEW rest PROVE Early([s EXCEPT !.stage = "searching", !.queries = rest])
      BY <1>2, <2>1 DEF Fields
  <2> HIDE DEF Early, s
  <2> QED BY <1>3, <2>1, <2>2, <2>3, <2>4, <2>5
<1>6. ASSUME InspectEndpoint(r) PROVE \E t : Goes(r, t) /\ Early(t)
  <2>1. s.stage \in Discovering /\ s.stage = "inspecting"
      BY <1>6 DEF InspectEndpoint, At, Discovering
  <2>2. PICK found, tools, rest :
          \/ Discovered(r, found, tools, lastQuery)
          \/ Goes(r, [s EXCEPT !.endpoints = rest, !.found = found, !.tools = tools])
      BY <1>6 DEF InspectEndpoint
  <2>3. Early([s EXCEPT !.endpoints = rest, !.found = found, !.tools = tools])
      BY <1>2, <2>1 DEF Fields
  <2> HIDE DEF Early, s
  <2> QED BY <1>3, <2>1, <2>2, <2>3
<1>7. PICK t : Goes(r, t) /\ Early(t)
    BY <1>4, <1>5, <1>6
<1> QED BY <1>1, <1>7, NothingTried, AccountsGoOn

\* A route is refused, is a dry run, or leads to the first call.
LEMMA RouteAccounts ==
    ASSUME ControllerInv, NEW r \in Run, NEW choice, NEW sure, NEW ranking,
           Route(r, choice, sure, ranking)
    PROVE  Accounts'
<1> DEFINE s == run[r]
           t == [s EXCEPT !.choice = choice]
           dry == Attempt(choice, NoOutput, "inconclusive", "dry_run", FALSE, DryEconomics,
                          Nothing, Nothing)
           u == [t EXCEPT !.attempts = <<dry>>]
           v == [t EXCEPT !.left = FirstOf(Ranked(choice, ranking, s.tools), s.request.attempts)]
           Known(x) == x.stage \in {"done", "raised"} \/ ItsCalls(ledger', r, x)
<1>1. s.stage = "routing" /\ Grows(ledger, ledger')
    BY DEF Route, At, Grows, treg
<1>2. s = [f \in Fields |-> s[f]] /\ s.attempts = <<>>
    BY <1>1, AtIsGood DEF ControllerInv, Good, Shape, Attempted
<1>3. t = [f \in Fields |-> t[f]] /\ t.attempts = <<>> /\ t.request = s.request /\ t.tools = s.tools
    BY <1>2 DEF Fields
<1>4. \/ Goes(r, Responds(t, "escalate", Nothing))
      \/ Goes(r, Over("raised"))
      \/ Goes(r, Responds(u, "dry_run", choice))
      \/ Goes(r, Continues(v))
    BY <1>3 DEF Route, Raises
<1>5. Known(Over("raised"))
    BY DEF Over
<1>6. Known(Responds(t, "escalate", Nothing))
  <2> DEFINE x == Responds(t, "escalate", Nothing)
  <2>1. x.stage = "recording" /\ x.attempts = <<>>
      BY <1>3 DEF Responds, Fields
  <2> HIDE DEF x
  <2> QED BY <2>1, NothingTried DEF x
<1>7. Known(Responds(u, "dry_run", choice))
  <2> DEFINE x == Responds(u, "dry_run", choice)
  <2>1. dry.output.kind = "dry"
      BY DEF Attempt, NoOutput
  <2> HIDE DEF dry
  <2>2. x.stage = "recording" /\ x.attempts = <<dry>>
      BY <1>3 DEF Responds, Fields
  <2> HIDE DEF x
  <2>3. TriesAreOwn(ledger', r, x)
    <3>1. \A i \in DOMAIN x.attempts : x.attempts[i] = dry
        BY <2>2
    <3> QED BY <2>1, <3>1 DEF TriesAreOwn
  <2> QED BY <2>2, <2>3, NoCall DEF x
<1>8. Known(Continues(v))
  <2> DEFINE x == Continues(v)
  <2>1. v = [f \in Fields |-> v[f]] /\ v.attempts = <<>>
      BY <1>3 DEF Fields
  <2> HIDE DEF v
  <2>2. x.stage \in {"balance", "recording"} /\ x.attempts = <<>>
      BY <2>1 DEF Continues, Responds, Fields
  <2> HIDE DEF x
  <2> QED BY <2>2, NothingTried DEF x
<1>9. PICK x : Goes(r, x) /\ Known(x)
  <2> HIDE DEF t, u, v, Known
  <2> QED BY <1>4, <1>5, <1>6, <1>7, <1>8
<1> QED BY <1>1, <1>9, AccountsGoOn

LEMMA ReadBeforeAccounts ==
    ASSUME ControllerInv, NEW r \in Run, NEW balance, ReadBefore(r, balance)
    PROVE  Accounts'
<1> DEFINE s == run[r]
           t == [s EXCEPT !.stage = "calling", !.before = balance]
<1>1. /\ s.stage = "balance" /\ Goes(r, t) /\ ledger' = ledger /\ Grows(ledger, ledger')
      /\ balance # Nothing => balance = Len(ledger)
    BY DEF ReadBefore, At, Grows, treg, Balances
<1>2. Good(r, s) /\ ItsCalls(ledger, r, s) /\ IsSeq(ledger)
    BY <1>1, AtIsGood DEF ControllerInv, Accounts, InProgress
<1>3. t.stage = "calling" /\ t.before = balance /\ t.attempts = s.attempts
    BY <1>2 DEF Good, Shape, Fields
<1> HIDE DEF s, t
<1>4. TriesAreOwn(ledger, r, t)
    BY <1>2, <1>3 DEF ItsCalls, TriesAreOwn
<1>5. balance # Nothing => balance \in 0..Len(ledger)
    BY <1>1, <1>2 DEF IsSeq
<1>6. ItsCalls(ledger', r, t)
    BY <1>1, <1>3, <1>4, <1>5 DEF ItsCalls
<1> QED BY <1>1, <1>6, AccountsGoOn

LEMMA StartCallAccounts ==
    ASSUME ControllerInv, NEW r \in Run, StartCall(r)
    PROVE  Accounts'
<1> DEFINE s == run[r]
           t == [s EXCEPT !.stage = "running"]
<1> PICK entry : /\ entry = Entry(r, "reserve")
                 /\ ledger' = Append(ledger, entry)
    BY DEF StartCall
<1>1. s.stage = "calling" /\ Goes(r, t) /\ Grows(ledger, ledger')
    BY DEF StartCall, At, Grows
<1>2. Good(r, s) /\ ItsCalls(ledger, r, s) /\ IsSeq(ledger)
    BY <1>1, AtIsGood DEF ControllerInv, Accounts, InProgress
<1>3. t.stage = "running" /\ t.before = s.before /\ t.attempts = s.attempts /\ t.left = s.left
    BY <1>2 DEF Good, Shape, Fields
<1>4. entry = [call |-> <<r, Len(s.attempts) + 1>>, endpoint |-> Head(s.left), kind |-> "reserve"]
    BY DEF Entry, CallId
<1> HIDE DEF s, t
<1>5. /\ Len(ledger') = Len(ledger) + 1 /\ ledger'[Len(ledger) + 1] = entry /\ Len(ledger) \in Nat
    BY <1>2, AppendIsSeq
<1>6. ItsCalls(ledger', r, s)
    BY <1>1, <1>2, CallsStayIts
<1>7. ASSUME s.before # Nothing PROVE s.before \in 0..Len(ledger') /\ IsReserved(ledger', r, t)
  <2>1. s.before \in 0..Len(ledger)
      BY <1>1, <1>2, <1>7 DEF ItsCalls
  <2>2. Len(ledger) + 1 \in (s.before + 1)..Len(ledger')
      BY <1>5, <2>1
  <2> QED BY <1>3, <1>4, <1>5, <2>1, <2>2 DEF IsReserved
<1>8. TriesAreOwn(ledger', r, t)
    BY <1>3, <1>6 DEF ItsCalls, TriesAreOwn
<1>9. ItsCalls(ledger', r, t)
    BY <1>3, <1>7, <1>8 DEF ItsCalls
<1> QED BY <1>1, <1>9, AccountsGoOn

\* A call that is over is one of the tries, and what it reports is its own.
LEMMA TriedIts ==
    ASSUME NEW entries, NEW r \in Run, NEW s, Shape(r, s), TriesAreOwn(entries, r, s),
           s.output.kind \notin {"error", "dry"} =>
              OwnCall(entries, r, Len(s.attempts) + 1, Head(s.left), s.economics, s.before, s.after),
           NEW status, NEW source, NEW passed
    PROVE  ItsCalls(entries, r, Tried(s, status, source, passed))
<1> DEFINE before == IF s.after = Nothing THEN Nothing ELSE s.before
           attempt == Attempt(Head(s.left), s.output, status, source, passed, s.economics,
                              before, s.after)
           t == [s EXCEPT !.attempts = Append(@, attempt), !.left = Tail(@), !.before = Nothing,
                          !.after = Nothing, !.output = Nothing, !.economics = Nothing,
                          !.charged = FALSE]
           u == Tried(s, status, source, passed)
           n == Len(s.attempts)
<1>1. s.output.kind \notin {"error", "dry"} =>
         OwnCall(entries, r, n + 1, attempt.tool, attempt.economics, attempt.before, attempt.after)
    BY DEF Attempt, OwnCall, OwnEconomics, Meanwhile
<1>2. attempt.output = s.output
    BY DEF Attempt
<1>3. t = [f \in Fields |-> t[f]] /\ t.attempts = Append(s.attempts, attempt)
    BY DEF Shape, Fields
<1>4. u = IF passed THEN Responds([t EXCEPT !.left = <<>>], "passed", attempt.tool) ELSE Continues(t)
    BY DEF Tried
<1> HIDE DEF attempt, t, u
<1>5. u.stage \in {"recording", "balance"} /\ u.attempts = Append(s.attempts, attempt)
    BY <1>3, <1>4 DEF Responds, Continues, Fields
<1>6. /\ DOMAIN u.attempts = 1..(n + 1) /\ DOMAIN s.attempts = 1..n /\ n \in Nat
      /\ u.attempts[n + 1] = attempt /\ \A i \in 1..n : u.attempts[i] = s.attempts[i]
    BY <1>5, AppendIsSeq DEF Shape
<1> HIDE DEF n
<1>7. TriesAreOwn(entries, r, u)
  <2> SUFFICES ASSUME NEW i \in DOMAIN u.attempts,
                      u.attempts[i].output.kind \notin {"error", "dry"}
               PROVE  OwnCall(entries, r, i, u.attempts[i].tool, u.attempts[i].economics,
                              u.attempts[i].before, u.attempts[i].after)
      BY DEF TriesAreOwn
  <2>1. CASE i = n + 1
      BY <1>1, <1>2, <1>6, <2>1
  <2>2. CASE i # n + 1
    <3>1. i \in DOMAIN s.attempts /\ u.attempts[i] = s.attempts[i]
        BY <1>6, <2>2
    <3> QED BY <3>1 DEF TriesAreOwn
  <2> QED BY <2>1, <2>2
<1> QED BY <1>5, <1>7, NoCall DEF u

LEMMA JudgedIts ==
    ASSUME NEW entries, NEW r \in Run, Good(r, run[r]), run[r].stage \in {"running", "settling"},
           ItsCalls(entries, r, run[r]), NEW output \in Output, NEW economics, NEW after,
           output.kind # "error" =>
              OwnCall(entries, r, Len(run[r].attempts) + 1, Head(run[r].left), economics,
                      run[r].before, after)
    PROVE  ItsCalls(entries, r, Judged(r, output, economics, after))
<1> DEFINE s == run[r]
           t == [s EXCEPT !.output = output, !.economics = economics, !.after = after]
           status == ValidateToolOutput(s.request.task, output)
<1>1. s = [f \in Fields |-> s[f]] /\ s.request.task \in Task
    BY StageIsOpen DEF Good, Shape
<1>2. /\ t = [f \in Fields |-> t[f]] /\ t.output = output /\ t.economics = economics
      /\ t.after = after /\ t.before = s.before /\ t.left = s.left /\ t.attempts = s.attempts
      /\ t.stage = s.stage /\ t.tools = s.tools /\ t.found = s.found /\ t.request = s.request
    BY <1>1 DEF Fields
<1>3. Judged(r, output, economics, after) =
        IF status = "inconclusive" THEN [t EXCEPT !.stage = "asking"]
        ELSE Tried(t, status, "deterministic", status = "pass")
    BY DEF Judged, TaskOf
<1> HIDE DEF t
<1>4. TriesAreOwn(entries, r, t) /\ Shape(r, t)
    BY <1>2 DEF ItsCalls, TriesAreOwn, Good, Shape
<1>5. CASE status = "inconclusive"
  <2> DEFINE u == [t EXCEPT !.stage = "asking"]
  <2>1. /\ u.stage = "asking" /\ u.economics = economics /\ u.after = after /\ u.before = s.before
        /\ u.left = s.left /\ u.attempts = s.attempts
      BY <1>2 DEF Fields
  <2> HIDE DEF u
  <2>2. output.kind # "error"
      BY <1>1, <1>5, VerdictMeans
  <2>3. OwnCall(entries, r, Len(u.attempts) + 1, Head(u.left), u.economics, u.before, u.after)
      BY <2>1, <2>2
  <2>4. TriesAreOwn(entries, r, u)
      BY <2>1 DEF ItsCalls, TriesAreOwn
  <2>5. u.before # Nothing => u.before \in 0..Len(entries)
      BY <2>3 DEF OwnCall
  <2> QED BY <1>3, <1>5, <2>1, <2>3, <2>4, <2>5 DEF ItsCalls, u
<1>6. CASE status # "inconclusive"
  <2>1. t.output.kind \notin {"error", "dry"} =>
           OwnCall(entries, r, Len(t.attempts) + 1, Head(t.left), t.economics, t.before, t.after)
      BY <1>2
  <2> HIDE DEF s, status
  <2> QED BY <1>3, <1>4, <1>6, <2>1, TriedIts
<1> QED BY <1>5, <1>6

LEMMA EndCallAccounts ==
    ASSUME ControllerInv, NEW r \in Run, NEW end \in Endings, EndCall(r, end)
    PROVE  Accounts'
<1> DEFINE s == run[r]
           t == [s EXCEPT !.stage = "settling", !.output = end.output, !.charged = end.charged]
<1>1. /\ s.stage = "running" /\ Grows(ledger, ledger')
      /\ IF end.output.kind = "error" THEN Goes(r, Judged(r, end.output, lastEconomics, Nothing))
         ELSE Goes(r, t)
    BY DEF EndCall, At, Grows
<1>2. Good(r, s) /\ ItsCalls(ledger, r, s) /\ IsSeq(ledger) /\ end.output \in Output
    BY <1>1, AtIsGood, ControllerAssumption DEF ControllerInv, Accounts, InProgress
<1>3. ItsCalls(ledger', r, s)
    BY <1>1, <1>2, CallsStayIts
<1>4. CASE end.output.kind = "error"
  <2>1. ItsCalls(ledger', r, Judged(r, end.output, lastEconomics, Nothing))
      BY <1>1, <1>2, <1>3, <1>4, JudgedIts
  <2> QED BY <1>1, <1>4, <2>1, AccountsGoOn
<1>5. CASE end.output.kind # "error"
  <2>1. t.stage = "settling" /\ t.before = s.before /\ t.attempts = s.attempts /\ t.left = s.left
      BY <1>2 DEF Good, Shape, Fields
  <2>2. Goes(r, t)
      BY <1>1, <1>5
  <2> HIDE DEF s, t
  <2>3. TriesAreOwn(ledger', r, t)
      BY <1>3, <2>1 DEF ItsCalls, TriesAreOwn
  <2>4. t.before # Nothing => t.before \in 0..Len(ledger') /\ IsReserved(ledger', r, t)
      BY <1>1, <1>3, <2>1 DEF ItsCalls, IsReserved
  <2>5. ItsCalls(ledger', r, t)
      BY <2>1, <2>3, <2>4 DEF ItsCalls
  <2> QED BY <1>1, <2>2, <2>5, AccountsGoOn
<1> QED BY <1>4, <1>5

\* An amount is that of an entry for the endpoint, and there is one if there is such an entry.
LEMMA AmountFromLedger ==
    ASSUME NEW list, IsSeq(list), NEW first \in Nat, first >= 1, first <= Len(list) + 1,
           NEW endpoint, NEW kind,
           NEW between,
           between = {list[k] : k \in {k \in first..Len(list) : list[k].endpoint = endpoint}}
    PROVE  LET amount == AmountOf(SubSeq(list, first, Len(list)), endpoint, kind) IN
           /\ amount \in {Nothing} \cup CallsOf(between)
           /\ (\E entry \in between : entry.kind = kind) => amount \in CallsOf(between)
<1> DEFINE n == Len(list)
           entries == SubSeq(list, first, n)
           S == ToSet(list)
           same == {i \in DOMAIN entries : entries[i].endpoint = endpoint /\ entries[i].kind = kind}
           least == CHOOSE i \in same : \A j \in same : i <= j
           amount == AmountOf(entries, endpoint, kind)
<1>1. list \in Seq(S) /\ n \in Nat
    BY DEF IsSeq
<1>2. /\ DOMAIN entries = 1..(n + 1 - first)
      /\ \A i \in 1..(n + 1 - first) : entries[i] = list[first + i - 1]
  <2> HIDE DEF S
  <2> QED BY <1>1
<1>3. amount = IF same = {} THEN Nothing ELSE entries[least].call
    BY DEF AmountOf
<1> HIDE DEF entries, S, n, amount
<1>4. same \subseteq Nat
    BY <1>1, <1>2
<1>5. same # {} => least \in same
    BY <1>4, LeastIsThere
<1>6. ASSUME same # {} PROVE amount \in CallsOf(between)
  <2>1. least \in 1..(n + 1 - first) /\ entries[least].endpoint = endpoint
      BY <1>2, <1>5, <1>6
  <2>2. PICK k : k = first + least - 1
      OBVIOUS
  <2>3. k \in first..n /\ entries[least] = list[k]
      BY <1>1, <1>2, <2>1, <2>2
  <2>4. list[k] \in between
      BY <2>1, <2>3 DEF n
  <2> HIDE DEF least, same
  <2> QED BY <1>3, <1>6, <2>3, <2>4 DEF CallsOf
<1>7. ASSUME NEW entry \in between, entry.kind = kind PROVE same # {}
  <2>1. PICK k \in first..n : list[k].endpoint = endpoint /\ list[k] = entry
      BY <1>7 DEF n
  <2>2. PICK i : i = k + 1 - first
      OBVIOUS
  <2>3. i \in 1..(n + 1 - first) /\ first + i - 1 = k
      BY <1>1, <2>1, <2>2
  <2>4. i \in DOMAIN entries /\ entries[i] = entry
      BY <1>2, <2>1, <2>3
  <2> QED BY <1>7, <2>1, <2>4
<1> HIDE DEF same, least
<1> QED BY <1>3, <1>6, <1>7 DEF amount, entries, n

\* The economics that execute sets when it has read the ledger again.
LEMMA EconomicsAreOwn ==
    ASSUME ControllerInv, NEW r \in Run, run[r].stage = "settling", NEW balance \in Balances(r)
    PROVE  OwnCall(ledger, r, Len(run[r].attempts) + 1, Head(run[r].left), Economics(r, balance),
                   run[r].before, balance)
<1> DEFINE s == run[r]
           n == Len(ledger)
           own == <<r, Len(s.attempts) + 1>>
           endpoint == Head(s.left)
           first == IF s.before = Nothing THEN 1 ELSE s.before + 1
           entries == IF balance = Nothing THEN <<>> ELSE SubSeq(ledger, first, balance)
           between == Meanwhile(ledger, endpoint, s.before, balance)
           e == Economics(r, balance)
<1>1. /\ e.call = IF s.charged THEN own ELSE Nothing
      /\ e.reserved = AmountOf(entries, endpoint, "reserve")
      /\ e.settled = IF s.charged THEN own ELSE AmountOf(entries, endpoint, "settle")
    BY DEF Economics, CallId, NewEntries
<1>2. ItsCalls(ledger, r, s) /\ IsSeq(ledger) /\ n \in Nat
    BY DEF ControllerInv, Accounts, InProgress, IsSeq
<1>3. (s.before # Nothing => s.before \in 0..n /\ IsReserved(ledger, r, s))
      /\ (balance # Nothing => balance = n)
    BY <1>2 DEF ItsCalls, Balances
<1>4. CASE balance = Nothing
  <2>1. e.reserved = Nothing /\ e.settled \in {Nothing, own}
      BY <1>1, <1>4 DEF AmountOf
  <2> HIDE DEF e, own, s
  <2> QED BY <1>1, <1>3, <1>4, <2>1 DEF OwnCall, OwnEconomics, e, own, s
<1>5. CASE balance # Nothing
  <2>1. first \in Nat /\ first >= 1 /\ first <= n + 1 /\ entries = SubSeq(ledger, first, n)
    <3>1. entries = SubSeq(ledger, first, n)
        BY <1>3, <1>5
    <3>2. first = 1 \/ (s.before \in 0..n /\ first = s.before + 1)
        BY <1>3
    <3> HIDE DEF first, s, entries
    <3>3. first \in Nat /\ first >= 1 /\ first <= n + 1
        BY <1>2, <3>2
    <3> QED BY <3>1, <3>3
  <2>2. between = {ledger[k] : k \in {k \in first..n : ledger[k].endpoint = endpoint}}
      BY <1>3, <1>5 DEF Meanwhile
  <2> HIDE DEF entries, between, first, endpoint, s, own, e
  <2>3. ASSUME NEW kind
        PROVE  /\ AmountOf(entries, endpoint, kind) \in {Nothing} \cup CallsOf(between)
               /\ (\E entry \in between : entry.kind = kind) =>
                     AmountOf(entries, endpoint, kind) \in CallsOf(between)
      BY <1>2, <2>1, <2>2, AmountFromLedger DEF n
  <2>4. s.before # Nothing => \E entry \in between : entry.kind = "reserve"
    <3> SUFFICES ASSUME s.before # Nothing PROVE \E entry \in between : entry.kind = "reserve"
        OBVIOUS
    <3>1. PICK k \in (s.before + 1)..n : ledger[k].endpoint = endpoint /\ ledger[k].kind = "reserve"
        BY <1>3 DEF IsReserved, n, endpoint
    <3>2. k \in first..n
        BY <3>1 DEF first
    <3> QED BY <2>2, <3>1, <3>2
  <2>5. OwnEconomics(ledger, own, endpoint, e, s.before, balance)
    <3>1. e.call # Nothing => e.call = own /\ e.settled = own
        BY <1>1
    <3>2. {e.reserved, e.settled} \subseteq {Nothing, own} \cup CallsOf(between)
        BY <1>1, <2>3
    <3>3. ASSUME s.before # Nothing, CallsOf(between) \subseteq {own} PROVE e.reserved = own
        BY <1>1, <2>3, <2>4, <3>3
    <3>4. ASSUME CallsOf(between) \subseteq {own}, \E entry \in between : entry.kind = "settle"
          PROVE  e.settled = own
        BY <1>1, <2>3, <3>4
    <3> QED BY <3>1, <3>2, <3>3, <3>4 DEF OwnEconomics, between
  <2>6. /\ s.before # Nothing => s.before \in 0..n
        /\ balance \in 0..n
      BY <1>2, <1>3, <1>5
  <2> QED BY <2>5, <2>6 DEF OwnCall, n, own, endpoint, e, s
<1> QED BY <1>4, <1>5

LEMMA ReadAfterAccounts ==
    ASSUME ControllerInv, NEW r \in Run, NEW balance, ReadAfter(r, balance)
    PROVE  Accounts'
<1> PICK economics : /\ economics = Economics(r, balance)
                     /\ Goes(r, Judged(r, run[r].output, economics, balance))
    BY DEF ReadAfter
<1>1. run[r].stage = "settling" /\ ledger' = ledger /\ Grows(ledger, ledger') /\ balance \in Balances(r)
    BY DEF ReadAfter, At, Grows, treg
<1>2. Good(r, run[r]) /\ ItsCalls(ledger, r, run[r])
    BY <1>1, AtIsGood DEF ControllerInv, Accounts, InProgress
<1>3. run[r].output \in Output
    BY <1>1, <1>2 DEF Good, Judging
<1>4. OwnCall(ledger, r, Len(run[r].attempts) + 1, Head(run[r].left), economics, run[r].before, balance)
    BY <1>1, EconomicsAreOwn
<1>5. ItsCalls(ledger, r, Judged(r, run[r].output, economics, balance))
    BY <1>1, <1>2, <1>3, <1>4, JudgedIts
<1> QED BY <1>1, <1>5, AccountsGoOn

LEMMA VerifyAccounts ==
    ASSUME ControllerInv, NEW r \in Run, NEW sufficient, Verify(r, sufficient)
    PROVE  Accounts'
<1> DEFINE s == run[r]
<1>1. /\ s.stage = "asking" /\ ledger' = ledger /\ Grows(ledger, ledger')
      /\ Goes(r, Tried(s, "inconclusive", "jev", sufficient))
    BY DEF Verify, At, Grows, treg
<1>2. Good(r, s) /\ ItsCalls(ledger, r, s)
    BY <1>1, AtIsGood DEF ControllerInv, Accounts, InProgress
<1>3. /\ OwnCall(ledger, r, Len(s.attempts) + 1, Head(s.left), s.economics, s.before, s.after)
      /\ TriesAreOwn(ledger, r, s) /\ Shape(r, s)
    BY <1>1, <1>2 DEF ItsCalls, Good
<1> HIDE DEF s
<1>4. ItsCalls(ledger, r, Tried(s, "inconclusive", "jev", sufficient))
    BY <1>3, TriedIts
<1> QED BY <1>1, <1>4, AccountsGoOn

LEMMA EndAccounts ==
    ASSUME ControllerInv, NEW r \in Run, Fail(r) \/ Record(r)
    PROVE  Accounts'
<1> PICK over \in {"done", "raised"} : Goes(r, Over(over))
    BY DEF Fail, Record, Raises
<1>1. Over(over).stage = over /\ Grows(ledger, ledger')
    BY DEF Over, Fail, Record, Grows, treg
<1> QED BY <1>1, AccountsGoOn

\* Treg settles a call that is over: no request goes on.
LEMMA SettleLateStep ==
    ASSUME ControllerInv, NEW entry, SettleLate(entry)
    PROVE  ControllerInv'
<1>1. run' = run /\ Grows(ledger, ledger')
    BY DEF SettleLate, Grows
<1>2. Requests'
    BY <1>1 DEF ControllerInv, Requests, InProgress
<1>3. IsSeq(ledger) /\ IsSeq(ledger')
    BY <1>1, WhatGrowsStays DEF ControllerInv, Accounts
<1>4. ASSUME NEW r \in Run, InProgress(r)' PROVE ItsCalls(ledger', r, run'[r])
  <2>1. ItsCalls(ledger, r, run[r])
      BY <1>1, <1>4 DEF ControllerInv, Accounts, InProgress
  <2> QED BY <1>1, <1>3, <2>1, CallsStayIts
<1> QED BY <1>2, <1>3, <1>4 DEF ControllerInv, Accounts

LEMMA ControllerStep == ControllerInv /\ [Next]_vars => ControllerInv'
<1> SUFFICES ASSUME ControllerInv, [Next]_vars PROVE ControllerInv'
    OBVIOUS
<1>1. CASE UNCHANGED vars
    BY <1>1 DEF vars, treg, ControllerInv, Requests, Accounts, InProgress
<1>2. ASSUME NEW r \in Run, Step(r) PROVE ControllerInv'
  <2>1. ASSUME NEW choice \in Labels, NEW sure \in BOOLEAN,
               NEW ranking \in (IF At(r, "routing") THEN Rankings(run[r].tools) ELSE {}),
               Route(r, choice, sure, ranking)
        PROVE  ControllerInv'
    <3>1. ranking \in Rankings(run[r].tools)
        BY <2>1
    <3> QED BY <2>1, <3>1, RouteStep, RouteAccounts DEF ControllerInv
  <2>2. ASSUME \/ \E request \in Request[r] : Accept(r, request)
               \/ SearchCatalog(r) \/ RetrySearch(r) \/ InspectEndpoint(r)
        PROVE  ControllerInv'
    <3>1. Requests'
        BY <2>2, AcceptStep, SearchStep, InspectStep
    <3>2. Accounts'
        BY <2>2, DiscoveryAccounts
    <3> QED BY <3>1, <3>2 DEF ControllerInv
  <2>3. ASSUME NEW balance, ReadBefore(r, balance) \/ ReadAfter(r, balance) PROVE ControllerInv'
    <3>1. Requests'
        BY <2>3, ReadBeforeStep, ReadAfterStep
    <3>2. Accounts'
        BY <2>3, ReadBeforeAccounts, ReadAfterAccounts
    <3> QED BY <3>1, <3>2 DEF ControllerInv
  <2>4. ASSUME StartCall(r) PROVE ControllerInv'
      BY <2>4, StartCallStep, StartCallAccounts DEF ControllerInv
  <2>5. ASSUME NEW end \in Endings, EndCall(r, end) PROVE ControllerInv'
      BY <2>5, EndCallStep, EndCallAccounts DEF ControllerInv
  <2>6. ASSUME NEW sufficient \in BOOLEAN, Verify(r, sufficient) PROVE ControllerInv'
      BY <2>6, VerifyStep, VerifyAccounts DEF ControllerInv
  <2>7. ASSUME Fail(r) \/ Record(r) PROVE ControllerInv'
      BY <2>7, EndStep, EndAccounts DEF ControllerInv
  <2> QED BY <1>2, <2>1, <2>2, <2>3, <2>4, <2>5, <2>6, <2>7 DEF Step
<1> QED BY <1>1, <1>2, SettleLateStep DEF Next

LEMMA ControllerSafe == Spec => []ControllerInv
BY InitController, ControllerStep, PTL DEF Spec

-----------------------------------------------------------------------------
(*                                  Theorems                               *)

\* "Verify every result" (core/controller.py): a request answered "passed" ends in a call
\* of its own candidate with proof, nothing was tried after it, and never too often.
THEOREM EveryResultIsVerified == Spec => []PassedIsProven
<1>1. ControllerInv => PassedIsProven
  <2> SUFFICES ASSUME ControllerInv, NEW r \in Run, Answered(r), run[r].status = "passed"
               PROVE  Proven(run[r])
      BY DEF PassedIsProven, Proven, TaskOf
  <2>1. Good(r, run[r]) /\ run[r].stage = "recording"
      BY AtIsGood DEF ControllerInv, Answered, At
  <2> QED BY <2>1 DEF Good, Attempted
<1> QED BY <1>1, ControllerSafe, PTL

\* What a call reports (adapters/treg.py, execute), though the attribute that carries it is
\* every request's: its own id and charge if stderr names them; from the ledger its own amounts,
\* or those of a call that used the endpoint between its two readings; and its own when no
\* other call did.
THEOREM EconomicsBelongToTheCall == Spec => []EconomicsAreItsCalls
<1>1. ControllerInv => EconomicsAreItsCalls
  <2> SUFFICES ASSUME ControllerInv, NEW r \in Run, InProgress(r)
               PROVE  TriesAreOwn(ledger, r, run[r])
      BY DEF EconomicsAreItsCalls, TriesAreOwn, OwnCall
  <2> QED BY DEF ControllerInv, Accounts, ItsCalls
<1> QED BY <1>1, ControllerSafe, PTL

\* The evidence a request records (adapters/treg.py, discover) explains the candidates it
\* was given, though another request may have set the attribute since; and they can be called.
THEOREM EvidenceIsOfThisDiscovery == Spec => []EvidenceNamesTheCandidates
<1>1. ControllerInv => EvidenceNamesTheCandidates
  <2> SUFFICES ASSUME ControllerInv, NEW r \in Run, InProgress(r), run[r].evidence # Nothing
               PROVE  /\ Explains(run[r].evidence, run[r].tools)
                      /\ \A id \in ToSet(run[r].tools) :
                            /\ ~Detail[id].routed
                            /\ \A n \in Detail[id].required :
                                  Resolvable(n, Detail[id], run[r].request.facts)
      BY DEF EvidenceNamesTheCandidates
  <2>1. Explained(run[r])
      BY AtIsGood DEF ControllerInv, Good, InProgress
  <2> QED BY <2>1 DEF Explained, Accepts
<1> QED BY <1>1, ControllerSafe, PTL
=============================================================================
