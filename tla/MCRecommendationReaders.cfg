\* One request, whose handler two readers interleave with, under fairness.
SPECIFICATION FairSpec
CONSTANTS
  Requests = {r1}
  Readers = {d1, d2}
  Users = {u1, u2}
  Programs = {p1, p2}
  None = None
CHECK_DEADLOCK FALSE
INVARIANTS
  DetailIsCoherent
PROPERTIES
  DetailsNeverGoBack
  Answered
  Settles
