-------------------------- MODULE MCMissionControl --------------------------
(* One WorkOrder that waits for its owner: for a decision on an attention   *)
(* request in intake, or, after a replan of a plan with a finished block,   *)
(* for the approval of the plan that comes next.                            *)
EXTENDS MissionControl
CONSTANTS w1, agent, house, print

Profile1 == [profile |-> agent, version |-> 1, print |-> print]
Envelope1 == [project |-> house, version |-> 1, profiles |-> {Profile1}]
At(version, status) ==
    [version |-> version, status |-> status, envelope |-> Envelope1, amendments |-> <<>>,
     used |-> <<>>, from |-> "DRAFT", blocking |-> FALSE, plan |-> 0, approved |-> 0, gap |-> FALSE,
     done |-> FALSE, unfit |-> FALSE]
Started == << At(1, "DRAFT"), At(2, "CONTEXT_INTAKE") >>

\* Attention in intake: as asked by a producer, resolved or not.
Asked(version, blocking) ==
    [At(version, Attention) EXCEPT !.from = "CONTEXT_INTAKE", !.blocking = blocking]
Resumed(version) == [At(version, "CONTEXT_INTAKE") EXCEPT !.from = "CONTEXT_INTAKE"]
\* Execution of plan 1, with its block finished from version 6 on.
Executed(version, status) ==
    [At(version, status) EXCEPT !.plan = 1, !.approved = 1, !.done = version >= 6]
Halted(version, status) == [Executed(version, status) EXCEPT !.from = "EXECUTING", !.blocking = TRUE]

Executing == Started \o << [At(3, "PLAN_PROPOSED") EXCEPT !.plan = 1], Executed(4, "PLAN_APPROVED"),
                           Executed(5, "EXECUTING") >>
MCHistories ==
    { Started \o << Asked(3, TRUE), Asked(4, FALSE), Resumed(5), Asked(6, FALSE), Resumed(7),
                    Asked(8, TRUE) >>,
      Executing \o << Executed(6, "EXECUTING"), Halted(7, Attention), Halted(8, "PLAN_PROPOSED") >> }
=============================================================================
