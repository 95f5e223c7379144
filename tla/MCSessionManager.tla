-------------------------- MODULE MCSessionManager --------------------------
(* Model values for SessionManager: subscribers and workers are alike.     *)
EXTENDS SessionManager, TLC

Symmetry == Permutations(Workers) \cup Permutations(Sessions) \cup Permutations(Supis)
=============================================================================
