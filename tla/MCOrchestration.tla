--------------------------- MODULE MCOrchestration ---------------------------
(* One WorkOrder that is ready, executes, waits for its owner or waits for   *)
(* the gate, or none yet.                                                     *)
EXTENDS Orchestration, TLC
CONSTANTS d1, d2, w1, agent, auditor, house, p1, p2

Agent(version, print) == [profile |-> agent, version |-> version, print |-> print]
House(version, profiles) == [project |-> house, version |-> version, profiles |-> profiles]
A1 == Agent(1, p1)
B1 == [Agent(1, p1) EXCEPT !.profile = auditor]
MCOffered == {A1, B1, Agent(2, p1), Agent(2, p2)}
E1 == House(1, {A1, B1})
E2 == House(2, {Agent(2, p1)})
MCProposed == {E1, E2}

Step(w, changes) == [changes @@ w EXCEPT !.version = @ + 1]
Draft == NewWorkOrder(E1)
Intake == Step(Draft, "status" :> "CONTEXT_INTAKE")
Plan == Step(Intake, "status" :> "PLAN_PROPOSED")
Ready == Step(Plan, "status" :> "PLAN_APPROVED")
Working == Step(Ready, "status" :> "EXECUTING")
Waiting == Step(Working, ("status" :> Attention) @@ ("from" :> "EXECUTING")
                           @@ ("open" :> {"AGENT_UNAVAILABLE"})
                           @@ ("attempts" :> <<A1>>) @@ ("used" :> <<A1>>) @@ ("failed" :> 1))
Done == Step(Working, ("block" :> "BLOCK_DONE") @@ ("attempts" :> <<A1>>) @@ ("used" :> <<A1>>))
Final == Step(Done, "status" :> "FINAL_VERIFICATION")
Audited == Step(Final, "audited" :> TRUE)

\* A plan may be proposed any number of times, so a WorkOrder comes to its state under
\* any later version; here under the one that leaves `writes` more.
Last == 10
Aged(records, writes) ==
    LET extra == Last - writes - Len(records) IN
    [ i \in 1..(Last - writes) |->
        [ (IF i <= 3 THEN records[i] ELSE IF i <= 3 + extra THEN records[3] ELSE records[i - extra])
          EXCEPT !.version = i ] ]
Entries(records) == [i \in DOMAIN records |-> Entry(w1, records[i], "stored")]

MCHistories ==
    { <<>>,
      Entries(Aged(<<Draft, Intake, Plan, Ready>>, 1)),
      Entries(Aged(<<Draft, Intake, Plan, Ready, Working>>, 1)),
      Entries(Aged(<<Draft, Intake, Plan, Ready, Working, Waiting>>, 2)),
      Entries(Aged(<<Draft, Intake, Plan, Ready, Working, Done, Final, Audited>>, 2)) }

Known == {A1, B1}
KnownHouse == {E1}
Auditors == {B1}
Symmetry == Permutations({d1, d2})
=============================================================================
