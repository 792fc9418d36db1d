-------------------------- MODULE MCServerLifecycle --------------------------
(* ServerLifecycle with more handlers than connections.                        *)
EXTENDS ServerLifecycle
=============================================================================
