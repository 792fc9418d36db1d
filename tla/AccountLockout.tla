--------------------------- MODULE AccountLockout ---------------------------
(***************************************************************************)
(* The lockout columns of a user's row and what a failed login does to     *)
(* them (trackFailedLogin).                                                *)
(***************************************************************************)
EXTENDS Clock

CONSTANTS MaxFailedAttempts,   \* wrong passwords that lock an account
          LockWindow,          \* LockWindowDuration, in ticks
          LockDuration         \* in ticks

ASSUME LockoutBounds == /\ MaxFailedAttempts \in Nat \ {0}
                        /\ LockWindow \in Nat \ {0} /\ LockDuration \in Nat \ {0}

Lockout == [count : Nat, first : Times, locked : Times]
Clear   == [count |-> 0, first |-> Never, locked |-> Never]

AccountLocked(u, now) == u.locked > now

\* Mutant: the branch that starts a window falls through to the count.
TrackFailedLogin_FallsThrough(u, now) ==
  LET v == IF u.first = Never \/ now - u.first > LockWindow
           THEN [u EXCEPT !.first = now, !.count = 1] ELSE u
  IN IF v.count + 1 >= MaxFailedAttempts
     THEN [count |-> 0, first |-> Never, locked |-> now + LockDuration]
     ELSE [v EXCEPT !.count = @ + 1]

\* Failures older than the window are forgotten; the MaxFailedAttempts-th within
\* it locks the account and starts the count again.
TrackFailedLogin(u, now) ==
  IF u.first = Never \/ now - u.first > LockWindow
  THEN [u EXCEPT !.first = now, !.count = 1]
  ELSE IF u.count + 1 >= MaxFailedAttempts
       THEN [count |-> 0, first |-> Never, locked |-> now + LockDuration]
       ELSE [u EXCEPT !.count = @ + 1]
=============================================================================
