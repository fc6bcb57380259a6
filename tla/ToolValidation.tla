---------------------------- MODULE ToolValidation ----------------------------
(***************************************************************************)
(* The deterministic check of a tool's output (core/validators.py), made   *)
(* before the verifier Jev is asked. Only a lookup of an email address has *)
(* one. An output is abstracted to what the check reads: how it parses,    *)
(* and for an object the address and five signals of the provider, each    *)
(* "for", "against" or "silent" (absent, or a word the check has no rule   *)
(* for). `validity` is the first of the fields "validity" and "status"     *)
(* that holds text: the other one is not read.                             *)
(***************************************************************************)

Signal == {"for", "against", "silent"}
\* "error" is a failed call, "other" is what is not an object or a mock's answer.
Output == [ kind : {"error", "other", "object"},
            address : {"none", "expected", "foreign"},
            identity : Signal, person : Signal,
            smtp : Signal, validity : Signal, verification : Signal ]
\* Whether the task is about an email address, and what request and tool expect of it.
Task == [email : BOOLEAN, domain : BOOLEAN, person : BOOLEAN]

\* A name is compared only when the request or the tool names a person.
PersonSignal(task, output) == IF task.person THEN output.person ELSE "silent"

IdentitySupported(task, output) ==
    output.identity = "for" \/ PersonSignal(task, output) = "for"
VerificationSupported(output) ==
    \E signal \in {"smtp", "validity", "verification"} : output[signal] = "for"

\* Defect: a mailbox that answers is enough, whatever else the provider says.
SmtpIsEnough(task, output) ==
    CASE output.kind = "error" -> "fail"
      [] output.kind # "error" /\ (~task.email \/ output.kind = "other") -> "inconclusive"
      [] output.kind = "object" /\ task.email /\ output.smtp = "for" -> "pass"
      [] OTHER -> "inconclusive"
ValidateToolOutput(task, output) ==
    IF output.kind = "error" THEN "fail"
    ELSE IF ~task.email \/ output.kind = "other" THEN "inconclusive"
    ELSE IF \/ output.address = "none"
            \/ task.domain /\ output.address = "foreign"
            \/ output.identity = "against"
            \/ PersonSignal(task, output) = "against"
            \/ output.smtp = "against"
            \/ output.validity = "against"
            \/ output.verification = "against"
    THEN "fail"
    ELSE IF (task.person => IdentitySupported(task, output)) /\ VerificationSupported(output)
    THEN "pass"
    ELSE "inconclusive"
=============================================================================
