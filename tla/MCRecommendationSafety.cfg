\* Two requests of any kind, of one or two users; the readers have their own run.
SPECIFICATION Spec
CONSTANTS
  Requests = {r1, r2}
  Readers = {}
  Users = {u1, u2}
  Programs = {p1}
  None = None
SYMMETRY Symmetry
CHECK_DEADLOCK FALSE
INVARIANTS
  TypeOK
  DocumentsBacked
  LinksOwned
  CompletedIsWhole
  CreatedIsDurable
  StuckHasCause
PROPERTIES
  ImplementsLifecycle
