\* The handler tests' expectation of a failed AI request, against every failure.
SPECIFICATION Spec
CONSTANTS
  Requests = {r1}
  Readers = {}
  Users = {u1}
  Programs = {p1}
  None = None
CHECK_DEADLOCK FALSE
INVARIANTS
  AIFailureIsRecorded
