---------------------------- MODULE MCLoginFlow ----------------------------
(* LoginFlow with few logins, low thresholds and a short clock. *)
EXTENDS LoginFlow, TLC

MCNever == -9

Symmetry == Permutations(Logins) \cup Permutations(Clients)
=============================================================================
