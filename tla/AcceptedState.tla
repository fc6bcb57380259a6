---------------------------- MODULE AcceptedState ----------------------------
(***************************************************************************)
(* What a Workspace Broker promises, with every operation atomic: one      *)
(* accepted commit per workspace, candidates opened from a commit that was *)
(* accepted, and for each candidate at most one final decision.  Promotion *)
(* is a compare-and-swap of the accepted commit from the candidate's       *)
(* origin to a commit that was never accepted before, so the accepted      *)
(* state never returns to an earlier value.                                *)
(***************************************************************************)
CONSTANTS
    Commit,        \* commit identifiers
    Candidate,     \* candidate identifiers
    NoCommit       \* "the ref does not exist"

VARIABLES
    accepted,      \* the accepted commit, NoCommit before initialize()
    history,       \* every commit that is or was accepted
    origin,        \* the accepted commit each candidate began from
    decision       \* "open", "promoted" or "rejected"

abstractVars == <<accepted, history, origin, decision>>

AcceptedTypeOK ==
    /\ accepted \in Commit \cup {NoCommit}
    /\ history \in SUBSET Commit
    /\ origin \in [Candidate -> Commit \cup {NoCommit}]
    /\ decision \in [Candidate -> {"open", "promoted", "rejected"}]

Init ==
    /\ accepted = NoCommit
    /\ history = {}
    /\ origin = [c \in Candidate |-> NoCommit]
    /\ decision = [c \in Candidate |-> "open"]

Initialize(k) ==
    /\ accepted = NoCommit
    /\ accepted' = k
    /\ history' = {k}
    /\ UNCHANGED <<origin, decision>>

Open(c, b) ==
    /\ origin[c] = NoCommit
    /\ b \in history
    /\ origin' = [origin EXCEPT ![c] = b]
    /\ UNCHANGED <<accepted, history, decision>>

\* A creation that failed takes its registration back.
Withdraw(c) ==
    /\ decision[c] = "open"
    /\ origin' = [origin EXCEPT ![c] = NoCommit]
    /\ UNCHANGED <<accepted, history, decision>>

Promote(c, k) ==
    /\ decision[c] = "open"
    /\ accepted \in Commit
    /\ origin[c] = accepted
    /\ k \notin history
    /\ accepted' = k
    /\ history' = history \cup {k}
    /\ decision' = [decision EXCEPT ![c] = "promoted"]
    /\ UNCHANGED origin

Reject(c) ==
    /\ decision[c] = "open"
    /\ origin[c] \in history
    /\ decision' = [decision EXCEPT ![c] = "rejected"]
    /\ UNCHANGED <<accepted, history, origin>>

Next ==
    \/ \E k \in Commit : Initialize(k)
    \/ \E c \in Candidate :
          \/ \E b \in Commit : Open(c, b)
          \/ Withdraw(c)
          \/ \E k \in Commit : Promote(c, k)
          \/ Reject(c)

Spec == Init /\ [][Next]_abstractVars
=============================================================================
