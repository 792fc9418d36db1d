\* Two sessions, three requests; lifetimes short enough to expire within the run.
SPECIFICATION Spec
CONSTANTS
  Sessions = {s1, s2}
  Groups = {"auth", "recommendations"}
  Requests = {r1, r2, r3}
  AccessDuration = 3
  RefreshDuration = 5
  Second = 2
  MaxNow = 6
  None = None
SYMMETRY Symmetry
CHECK_DEADLOCK FALSE
INVARIANTS
  TypeOK
  LoggedOutIsRefused
  AcceptedInLifetime
PROPERTIES
  RevocationsArePurged
