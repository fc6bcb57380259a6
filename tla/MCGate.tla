------------------------------- MODULE MCGate -------------------------------
(* TLC instances of PromotionGate. *)
EXTENDS PromotionGate, TLC

Symmetry ==
    Permutations(Commit \ Root) \cup Permutations(Content)
      \cup Permutations(Candidate) \cup Permutations(Caller)
=============================================================================
