\* Four requests about one university: its creation and any three others, so
\* that two patches overlap and a third follows, or a patch outlives a delete.
SPECIFICATION Spec
CONSTANTS
  Universities = {u1}
  Requests = {r1, r2, r3, r4}
  Required = {nama}
  Optional = {ranking}
  None = None
SYMMETRY Symmetry
CHECK_DEADLOCK FALSE
INVARIANTS
  TypeOK
  LossHasCause
  DeletedIsGone
