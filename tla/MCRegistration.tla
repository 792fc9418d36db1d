--------------------------- MODULE MCRegistration ---------------------------
(* Registration with one mailbox in two spellings, one of them its normal form.*)
EXTENDS Registration, TLC

CONSTANTS lower, mixed

MCNormalForm == (lower :> lower) @@ (mixed :> lower)
=============================================================================
