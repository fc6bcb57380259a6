----------------------------- MODULE MCWorkOrder -----------------------------
(* One WorkOrder with a plan of one block and one of two blocks whose second  *)
(* block has memory impact, agents of two model families, and three versions  *)
(* of the project's profile: the second exchanges the agents, the third has a *)
(* stricter policy.                                                           *)
EXTENDS WorkOrder
CONSTANTS coder, fallback, auditor

MCProfile == {coder, fallback, auditor}
MCFamily == [p \in MCProfile |-> IF p = coder THEN "g" ELSE "h"]

First == [id |-> "one", order |-> 1, memory |-> FALSE]
Second == [id |-> "two", order |-> 2, memory |-> TRUE]
Small == [blocks |-> <<First>>, risk |-> "low", budget |-> 1]
Large == [blocks |-> <<First, Second>>, risk |-> "medium", budget |-> 1]
MCPlan == {Small, Large}
MCLargeOnly == {Large}

Bind(producer, verifier) ==
    [r \in Role |-> IF r \in {"primary_code_executor", "memory_curator"} THEN producer
                    ELSE verifier]
Version(primary, policy) ==
    [primary |-> primary, policy |-> policy, fallbacks |-> [r \in Role |-> {}]]
Minimum == [risk \in Risk |-> Contract(risk)]
Strict == [risk \in Risk |-> Requirement]
MCEnvelope ==
    << Version(Bind(coder, auditor), Minimum), Version(Bind(fallback, coder), Minimum),
       Version(Bind(coder, auditor), Strict) >>

\* Here the second version has a fallback, and a final verifier that is no independent one.
MCTwo ==
    << MCEnvelope[1],
       [MCEnvelope[1] EXCEPT !.fallbacks["primary_code_executor"] = {fallback},
                             !.primary["final_verifier"] = coder] >>
=============================================================================
