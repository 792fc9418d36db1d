\* Four logins of one account: enough for the second failure to lock, a login
\* that read the row before, and one after.
SPECIFICATION Spec
CONSTANTS
  Logins = {l1, l2, l3, l4}
  Clients = {c1}
  Accounts = {u1}
  MaxFailedAttempts = 2
  LockWindow = 1
  LockDuration = 2
  MaxFailures = 2
  Window = 1
  LockFor = 1
  Never <- MCNever
  MaxNow = 2
SYMMETRY Symmetry
CHECK_DEADLOCK FALSE
INVARIANTS
  TypeOK
  CountIsEarned
  LimiterIsEarned
PROPERTIES
  LockYieldsOnlyToStaleCopy
  LimiterYieldsOnlyToEarlierSuccess
