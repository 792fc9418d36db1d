\* Two wrong passwords for one account at once, with a threshold of two.
SPECIFICATION Spec
CONSTANTS
  Logins = {l1, l2}
  Clients = {c1}
  Accounts = {u1}
  MaxFailedAttempts = 2
  LockWindow = 1
  LockDuration = 2
  MaxFailures = 2
  Window = 1
  LockFor = 1
  Never <- MCNever
  MaxNow = 0
SYMMETRY Symmetry
CHECK_DEADLOCK FALSE
INVARIANTS
  FailuresLockAccount
