-------------------------- MODULE MCTokenSessions --------------------------
(* TokenSessions with a few sessions and requests on a short clock. *)
EXTENDS TokenSessions, TLC

Symmetry == Permutations(Sessions) \cup Permutations(Requests)
=============================================================================
