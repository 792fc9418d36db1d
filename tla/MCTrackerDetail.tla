--------------------------- MODULE MCTrackerDetail ---------------------------
(* TrackerDetail with admissions that offer the funding, another one or none,  *)
(* with and without a deadline, and plans of up to two milestones.             *)
EXTENDS TrackerDetail, TLC

CONSTANTS u1, dA, f1, f2, c1, c2, aOffers, aOther, aEmpty

MCRequires == (f1 :> {c1, c2}) @@ (f2 :> {c1})
MCDocOwner == (dA :> u1)
MCOffers   == (aOffers :> {f1, f2}) @@ (aOther :> {f2}) @@ (aEmpty :> {})
MCDeadline == (aOffers :> 1) @@ (aOther :> None) @@ (aEmpty :> 0)
MCPlans    == {<<>>, <<0, 2>>, <<2, None>>}
=============================================================================
