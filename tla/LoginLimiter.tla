---------------------------- MODULE LoginLimiter ----------------------------
(***************************************************************************)
(* The state LoginAttemptLimiter keeps per client address and what its     *)
(* methods do to it.  Each method holds the limiter's mutex throughout, so *)
(* each is one operator from the state of a client to its next state.      *)
(***************************************************************************)
EXTENDS Clock

CONSTANTS MaxFailures,     \* defaultLoginRateLimitMaxFailures
          Window,          \* defaultLoginRateLimitWindow, in ticks
          LockFor          \* defaultLoginRateLimitLockDuration, in ticks

ASSUME LimiterBounds == /\ MaxFailures \in Nat \ {0}
                        /\ Window \in Nat \ {0} /\ LockFor \in Nat \ {0}

Attempts == [failedCount : Nat, firstFailedAt : Times, lockedUntil : Times]

\* A client without an entry behaves as one with the zero entry.
NoAttempts == [failedCount |-> 0, firstFailedAt |-> Never, lockedUntil |-> Never]

LimiterLocked(st, now) == st.lockedUntil > now

WindowOver(st, now) == st.firstFailedAt = Never \/ now - st.firstFailedAt > Window

\* RemainingLock: entries that are neither locked nor counting are deleted.
AfterRemainingLock(st, now) ==
  IF ~LimiterLocked(st, now) /\ WindowOver(st, now) THEN NoAttempts ELSE st

\* Mutant: the first failure is dated to the start of the window.
FirstFailure_Backdated(now) ==
  [failedCount |-> 1, firstFailedAt |-> now - Window, lockedUntil |-> Never]

FirstFailure(now) == [failedCount |-> 1, firstFailedAt |-> now, lockedUntil |-> Never]

\* Mutant: the branch that starts a window falls through to the count.
RecordFailure_FallsThrough(st, now) ==
  LET new == IF WindowOver(st, now) THEN FirstFailure(now) ELSE st
  IN IF LimiterLocked(st, now) THEN st
     ELSE IF new.failedCount + 1 >= MaxFailures
          THEN [failedCount |-> 0, firstFailedAt |-> Never, lockedUntil |-> now + LockFor]
          ELSE [new EXCEPT !.failedCount = @ + 1]

RecordFailure(st, now) ==
  CASE LimiterLocked(st, now) -> st
    [] ~LimiterLocked(st, now) /\ WindowOver(st, now) -> FirstFailure(now)
    [] OTHER -> IF st.failedCount + 1 >= MaxFailures
                THEN [failedCount |-> 0, firstFailedAt |-> Never, lockedUntil |-> now + LockFor]
                ELSE [st EXCEPT !.failedCount = @ + 1]
=============================================================================
