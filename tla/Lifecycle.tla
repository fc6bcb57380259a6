----------------------------- MODULE Lifecycle -----------------------------
(***************************************************************************)
(* The states of a WorkOrder and the table of the steps between them, as   *)
(* control/model.py declares them for every other part.                    *)
(***************************************************************************)

Status ==
    { "DRAFT", "CONTEXT_INTAKE", "PLAN_PROPOSED", "PLAN_APPROVED", "EXECUTING",
      "FINAL_VERIFICATION", "PROMOTED", "USER_ATTENTION_REQUIRED", "DEFERRED", "ABORTED" }
Terminal == {"PROMOTED", "ABORTED"}
AttentionSources == {"CONTEXT_INTAKE", "PLAN_APPROVED", "EXECUTING", "FINAL_VERIFICATION"}
NeedsBaseline == AttentionSources \ {"CONTEXT_INTAKE"}
Attention == "USER_ATTENTION_REQUIRED"

Transition ==
    { <<"DRAFT", "CONTEXT_INTAKE">>, <<"CONTEXT_INTAKE", "PLAN_PROPOSED">>,
      <<"PLAN_PROPOSED", "PLAN_APPROVED">>, <<"PLAN_PROPOSED", "ABORTED">>,
      <<"PLAN_APPROVED", "EXECUTING">>, <<"EXECUTING", "FINAL_VERIFICATION">>,
      <<"FINAL_VERIFICATION", "PROMOTED">>, <<"DEFERRED", Attention>> }
    \cup AttentionSources \X {Attention}
    \cup {Attention, "DEFERRED"} \X AttentionSources
    \cup {Attention} \X {"PLAN_PROPOSED", "DEFERRED", "ABORTED"}
=============================================================================
