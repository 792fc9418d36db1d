--------------------------- MODULE MCDreamTracker ---------------------------
(* DreamTracker with one funding that requires part of the catalog, two PDF    *)
(* documents of one user and a document of another that is no PDF.             *)
EXTENDS DreamTracker, TLC

CONSTANTS u1, u2, dA, dB, dText, f1, c1

MCRequires == (f1 :> {c1})
MCDocOwner == (dA :> u1) @@ (dB :> u1) @@ (dText :> u2)
=============================================================================
