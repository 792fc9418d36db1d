\* Two submissions of one requirement, overlapping or not, of any document.
SPECIFICATION FairSpec
CONSTANTS
  u1 = u1
  u2 = u2
  dA = dA
  dB = dB
  dText = dText
  f1 = f1
  c1 = c1
  Trackers = {t1}
  Catalog = {c1, c2}
  Submits = {s1, s2}
  Users = {u1, u2}
  Docs = {dA, dB, dText}
  Fundings = {f1}
  Admissions = {}
  Requires <- MCRequires
  DocOwner <- MCDocOwner
  PdfDocs = {dA, dB}
  None = None
CHECK_DEADLOCK FALSE
INVARIANTS
  TypeOK
  TrackerIsSeeded
  DocumentIsOwners
  VerdictIsOfDocument
  SequentialSubmitsStick
  PendingHasCause
PROPERTIES
  Answered
