\* Three requests: two registrations and a login, a registration between two
\* logins, or three of a kind, with two passwords that differ.
SPECIFICATION Spec
CONSTANTS
  lower = lower
  mixed = mixed
  Requests = {r1, r2, r3}
  Emails = {lower, mixed}
  NormalForm <- MCNormalForm
  Passwords = {pA, pB}
  Complex = {pA, pB}
  None = None
CHECK_DEADLOCK FALSE
INVARIANTS
  TypeOK
  PasswordDecides
PROPERTY ImplementsRegistry
