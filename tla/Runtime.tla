------------------------------ MODULE Runtime ------------------------------
(***************************************************************************)
(* What one request to a UHP harness runtime may come to, and what Cloudeo *)
(* makes of it (execution/uhp_backend.py, longhorizon/adapter.py): the     *)
(* status of the outcome, which is the runtime's word and never a          *)
(* verification, and the status of the LongHorizon episode it was.         *)
(***************************************************************************)

\* What the HTTP exchange and the response body come to: a task result with one of
\* the runtime's statuses, or a failure of the request.
Results == {"completed", "incomplete", "failed", "cancelled", "in_progress"}
Answers == Results \cup {"http_4xx", "http_408", "http_5xx", "protocol", "transport"}

\* Defect: an error of the server is taken for a refusal of the task.
ServerErrorFails(answer) ==
    CASE answer \in {"http_4xx", "http_408", "http_5xx"} -> "failed"
      [] answer \in {"protocol", "transport"} -> "unknown"
      [] OTHER -> answer
\* outcome_from_uhp, outcome_from_uhp_error: only a 4xx other than 408 says the task
\* did not run.
OutcomeOf(answer) ==
    CASE answer = "http_4xx" -> "failed"
      [] answer \in {"http_408", "http_5xx", "protocol", "transport"} -> "unknown"
      [] OTHER -> answer
Outcomes == {OutcomeOf(a) : a \in Answers}
=============================================================================
