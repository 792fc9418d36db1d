\* Two reads, one after the other or at once, and a submission: of one of two requirements,
\* or of the only one.
SPECIFICATION DetailSpec
CONSTANTS
  u1 = u1
  dA = dA
  f1 = f1
  f2 = f2
  c1 = c1
  c2 = c2
  aOffers = aOffers
  aOther = aOther
  aEmpty = aEmpty
  Trackers = {t1}
  Catalog = {c1, c2}
  Submits = {s1}
  Users = {u1}
  Docs = {dA}
  Fundings = {f1, f2}
  Admissions = {aOffers, aOther, aEmpty}
  Requires <- MCRequires
  DocOwner <- MCDocOwner
  PdfDocs = {dA}
  Reads = {d1, d2}
  Offers <- MCOffers
  Deadline <- MCDeadline
  Plans <- MCPlans
  NearSpan = 1
  MaxNow = 2
  None = None
CHECK_DEADLOCK FALSE
INVARIANTS
  DetailTypeOK
  DetailIsRight
  ProgressFallsOnlyByVerdict
