\* The logout test's expectation, of all route groups that authenticate.
SPECIFICATION Spec
CONSTANTS
  Sessions = {s1}
  Groups = {"auth", "recommendations"}
  Requests = {r1, r2}
  AccessDuration = 3
  RefreshDuration = 5
  Second = 2
  MaxNow = 6
  None = None
CHECK_DEADLOCK FALSE
INVARIANTS
  LogoutEndsSession
