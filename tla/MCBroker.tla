------------------------------ MODULE MCBroker ------------------------------
(* TLC instances of GitWorkspaceBroker. *)
EXTENDS GitWorkspaceBroker, TLC

\* The commits made during a run, the contents, the candidates and the callers
\* are interchangeable; the commits that exist first may differ in their tree.
Symmetry ==
    Permutations(Commit \ Root) \cup Permutations(Content)
      \cup Permutations(Candidate) \cup Permutations(Caller)
=============================================================================
