---------------------- MODULE MCRecommendationWorkflow ----------------------
(* RecommendationWorkflow on small sets of requests, readers and users. *)
EXTENDS RecommendationWorkflow, TLC

\* Requests and users are interchangeable; readers are too.
Symmetry == Permutations(Requests) \cup Permutations(Users) \cup Permutations(Readers)
=============================================================================
