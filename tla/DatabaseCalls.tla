--------------------------- MODULE DatabaseCalls ---------------------------
(***************************************************************************)
(* How a call of database/sql with a request's context ends, as the        *)
(* repositories see it.  A write (one statement, or a transaction at its   *)
(* commit) takes effect and says so, takes effect though the call reports  *)
(* an error (the connection breaks or the context is cancelled after the   *)
(* commit), or has no effect.  A cancelled context is refused before       *)
(* anything is sent.                                                       *)
(***************************************************************************)
Contexts == {"live", "cancelled"}

Outcomes(c) == IF c = "live" THEN {"ok", "lost", "refused"} ELSE {"refused"}

Applied(o) == o # "refused"
=============================================================================
