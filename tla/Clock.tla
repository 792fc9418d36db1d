------------------------------- MODULE Clock -------------------------------
(***************************************************************************)
(* Points in time as ticks.  Go's zero time.Time is before every point the *)
(* program reads from the clock, by more than any duration it adds.        *)
(***************************************************************************)
EXTENDS Integers

CONSTANTS Never,    \* the zero time.Time, SQL NULL
          MaxNow    \* bound: the last tick explored

ASSUME ClockBounds == Never \in Int /\ Never < 0 /\ MaxNow \in Nat

Times == Nat \cup {Never}
=============================================================================
