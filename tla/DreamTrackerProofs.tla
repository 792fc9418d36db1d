------------------------- MODULE DreamTrackerProofs -------------------------
(***************************************************************************)
(* Safety of DreamTracker for any trackers, catalog, submissions, users,   *)
(* documents and fundings.                                                 *)
(***************************************************************************)
EXTENDS DreamTracker, TLAPS

-----------------------------------------------------------------------------
(* The inductive invariant. *)

Resolved == {"document", "upload", "review", "verdict", "failure"}
Prepares == {"upload", "review", "verdict", "failure"}

\* What a submission knows of its request: the requirement it has found is there
\* and in a tracker of its user, and the copy it will write is of its own PDF
\* document, as UPLOADED or with a verdict on that document.
SubmitInv ==
  \A s \in Submits :
    LET q == sub[s].req
        d == sub[s].doc
    IN /\ pc[s] # "idle" => q \in Requirements /\ d \in Docs /\ sub[s].user \in Users
       /\ pc[s] \in Resolved => trackers[q[1]].user = sub[s].user /\ rows[q] # NoRow
       /\ pc[s] \in Prepares =>
            /\ local[s].doc = d /\ DocOwner[d] = sub[s].user /\ d \in PdfDocs
            /\ local[s].msg \in {None, s}
            /\ local[s].status = "UPLOADED" \/ <<d, local[s].status>> \in verdicts
       /\ pc[s] = "failure" => local[s].ai = "FAILED"
       /\ reply[s] = "ok" => pc[s] = "done"

\* A message in a row is of a submission that has begun.
MessageInv == \A q \in Requirements : rows[q].msg # None => pc[rows[q].msg] # "idle"

RowsInv == TrackerIsSeeded /\ DocumentIsOwners /\ VerdictIsOfDocument /\ MessageInv

\* The last submission of a requirement, if it overlaps no other, has the row to
\* itself: it finds there what it has recorded.
AloneInv ==
  /\ \A s \in alone : pc[s] # "idle"
  /\ \A q \in Requirements :
       LET s == latest[q]
       IN s # None =>
            /\ pc[s] # "idle" /\ sub[s].req = q
            /\ s \in alone => /\ \A o \in Submits \ {s} : InFlight(o) => sub[o].req # q
                              /\ pc[s] \in {"review", "verdict", "failure"} =>
                                   rows[q].doc = sub[s].doc

LastInv == AloneInv /\ SequentialSubmitsStick /\ PendingHasCause

IndInv == TypeOK /\ SubmitInv /\ RowsInv /\ LastInv
-----------------------------------------------------------------------------
(* Operators of the model. *)

LEMMA EmptyRows == NoRow \in Row /\ Seeded \in Row /\ NoRow # Seeded
<1> QED
  BY DEF NoRow, Seeded, Row, ReqStatuses, AIStatuses

\* A write of a prepared copy changes the row of its requirement alone.
LEMMA RowWritten ==
  ASSUME TypeOK, SubmitInv, NEW s \in Submits, NEW o, pc[s] \in Prepares,
         UpdateDreamRequirementStatus(s, o)
  PROVE  /\ rows' \in [Requirements -> Row]
         /\ \A q \in Requirements \ {sub[s].req} : rows'[q] = rows[q]
         /\ rows'[sub[s].req] = IF Applied(o) THEN local[s] ELSE rows[sub[s].req]
         /\ \A q \in Requirements : rows'[q] = NoRow <=> rows[q] = NoRow
<1>1. sub[s].req \in Requirements /\ rows[sub[s].req] # NoRow /\ local[s].doc # None
  BY CatalogData DEF SubmitInv, Prepares, Resolved
<1>2. local[s] \in Row /\ rows \in [Requirements -> Row]
  BY DEF TypeOK
<1>3. local[s] # NoRow
  BY <1>1 DEF NoRow
<1> QED
  BY <1>1, <1>2, <1>3 DEF UpdateDreamRequirementStatus

\* The reviewer's answer replaces fields of the copy, and nothing in other copies.
LEMMA Reviewed ==
  ASSUME TypeOK, SubmitInv, NEW s \in Submits, AIReviews(s)
  PROVE  /\ local' \in [Submits -> Row]
         /\ \A o \in Submits \ {s} : local'[o] = local[o]
         /\ local'[s].doc = local[s].doc
         /\ local'[s].msg \in {local[s].msg, s}
         /\ \/ local'[s].status = local[s].status
            \/ local'[s].status \in Verdicts /\ <<sub[s].doc, local'[s].status>> \in verdicts'
         /\ verdicts \subseteq verdicts' /\ verdicts' \subseteq Docs \X Verdicts
<1>1. PICK status \in {""} \cup Verdicts : \E ai \in {"", "DONE"} : \E hasMessages \in BOOLEAN :
        /\ local' = [local EXCEPT
             ![s].status = Merged(@, status, status = ""),
             ![s].ai     = Merged(@, ai, ai = ""),
             ![s].msg    = Merged(@, s, ~hasMessages)]
        /\ verdicts' = verdicts \cup (IF status = "" THEN {} ELSE {<<sub[s].doc, status>>})
  BY DEF AIReviews
<1>2. PICK ai \in {"", "DONE"} : \E hasMessages \in BOOLEAN :
        local' = [local EXCEPT
             ![s].status = Merged(@, status, status = ""),
             ![s].ai     = Merged(@, ai, ai = ""),
             ![s].msg    = Merged(@, s, ~hasMessages)]
  BY <1>1
<1>3. PICK hasMessages \in BOOLEAN :
        local' = [local EXCEPT
             ![s].status = Merged(@, status, status = ""),
             ![s].ai     = Merged(@, ai, ai = ""),
             ![s].msg    = Merged(@, s, ~hasMessages)]
  BY <1>2
<1> DEFINE st  == Merged(local[s].status, status, status = "")
           air == Merged(local[s].ai, ai, ai = "")
           msg == Merged(local[s].msg, s, ~hasMessages)
           new == [local[s] EXCEPT !.status = st, !.ai = air, !.msg = msg]
<1>4. local[s] \in Row /\ local \in [Submits -> Row] /\ sub[s].doc \in Docs
  BY DEF AIReviews, TypeOK, SubmitInv
<1>5. /\ st \in ReqStatuses \cup {"absent"} /\ air \in AIStatuses \cup {None}
      /\ msg \in {local[s].msg, s} /\ msg \in Submits \cup {None}
      /\ st = IF status = "" THEN local[s].status ELSE status
  BY <1>1, <1>4 DEF Merged, Row, Verdicts, ReqStatuses, AIStatuses
<1>6. local' = [local EXCEPT ![s] = new]
  BY <1>3, <1>4
<1> HIDE DEF st, air, msg
<1>7. new \in Row /\ new.doc = local[s].doc /\ new.msg = msg /\ new.status = st
  BY <1>4, <1>5 DEF Row
<1>8. verdicts' = verdicts \cup (IF status = "" THEN {} ELSE {<<sub[s].doc, status>>})
  BY <1>1
<1>9. verdicts' \subseteq Docs \X Verdicts
  <2>1. CASE status = ""
    BY <1>8, <2>1 DEF TypeOK
  <2>2. CASE status # ""
    <3>1. <<sub[s].doc, status>> \in Docs \X Verdicts
      BY <1>1, <1>4, <2>2
    <3> QED
      BY <1>8, <2>2, <3>1 DEF TypeOK
  <2> QED
    BY <2>1, <2>2
<1> HIDE DEF new
<1>10. local' \in [Submits -> Row] /\ local'[s] = new
       /\ \A o \in Submits \ {s} : local'[o] = local[o]
  BY <1>4, <1>6, <1>7
<1> QED
  BY <1>1, <1>5, <1>7, <1>8, <1>9, <1>10

LEMMA ReviewFailed ==
  ASSUME TypeOK, NEW s \in Submits, AIFails(s)
  PROVE  /\ local' \in [Submits -> Row]
         /\ \A o \in Submits \ {s} : local'[o] = local[o]
         /\ local'[s].doc = local[s].doc /\ local'[s].status = local[s].status
         /\ local'[s].ai = "FAILED" /\ local'[s].msg = s
<1> DEFINE new == [local[s] EXCEPT !.ai = "FAILED", !.msg = s]
<1>1. local[s] \in Row /\ local \in [Submits -> Row]
  BY DEF TypeOK
<1>2. new \in Row /\ new.doc = local[s].doc /\ new.status = local[s].status
      /\ new.ai = "FAILED" /\ new.msg = s
  BY <1>1 DEF Row, AIStatuses
<1>3. local' = [local EXCEPT ![s] = new]
  BY <1>1 DEF AIFails
<1> HIDE DEF new
<1> QED
  BY <1>1, <1>2, <1>3

LEMMA IndInit == Init => IndInv
<1> SUFFICES ASSUME Init PROVE IndInv
  OBVIOUS
<1>1. TypeOK
  BY EmptyRows DEF Init, TypeOK, NoTracker, NoSubmit, Points, Replies, Contexts
<1>2. SubmitInv
  BY DEF Init, SubmitInv, Resolved, Prepares
<1>3. \A q \in Requirements : rows[q] = NoRow
  BY DEF Init
<1>4. RowsInv
  <2>1. TrackerIsSeeded
    BY <1>3 DEF Init, TrackerIsSeeded, Requirements, Exists, NoTracker
  <2>2. DocumentIsOwners /\ VerdictIsOfDocument /\ MessageInv
    BY <1>3 DEF DocumentIsOwners, VerdictIsOfDocument, MessageInv, NoRow, Verdicts
  <2> QED
    BY <2>1, <2>2 DEF RowsInv
<1>5. LastInv
  BY DEF Init, LastInv, AloneInv, SequentialSubmitsStick, PendingHasCause
<1> QED
  BY <1>1, <1>2, <1>4, <1>5 DEF IndInv
-----------------------------------------------------------------------------
(* Types. *)

LEMMA TypeHandler ==
  ASSUME IndInv, NEW s \in Submits, Receive(s) \/ HandlerStep(s)
  PROVE  TypeOK'
<1> USE DEF IndInv
<1> USE DEF Return, Goto, Note, Points, Replies, tables, history
<1>1. CASE Receive(s)
  BY <1>1 DEF Receive, TypeOK
<1>2. CASE QueryFails(s)
  BY <1>2 DEF QueryFails, TypeOK
<1>3. CASE FindRequirement(s)
  <2>1. rows[sub[s].req] \in Row
    BY <1>3 DEF FindRequirement, SubmitInv, TypeOK
  <2> QED
    BY <1>3, <2>1 DEF FindRequirement, TypeOK
<1>4. CASE FindDocument(s)
  <2>1. Prepared(s) \in Row
    BY DEF Prepared, TypeOK, Row, ReqStatuses, AIStatuses
  <2>2. /\ pc \in [Submits -> Points] /\ local \in [Submits -> Row]
        /\ reply \in [Submits -> Replies]
    BY DEF TypeOK
  <2>3. \/ local' = [local EXCEPT ![s] = Prepared(s)]
        \/ local' = local
    BY <1>4 DEF FindDocument
  <2>4. /\ \/ pc' = [pc EXCEPT ![s] = "upload"] /\ reply' = reply
           \/ pc' = [pc EXCEPT ![s] = "done"] /\ \E a \in {"invalid", "notfound"} :
                                                     reply' = [reply EXCEPT ![s] = a]
        /\ UNCHANGED <<tables, sub, ctx, dbFault, history>>
    BY <1>4 DEF FindDocument
  <2>5. local' \in [Submits -> Row]
    BY <2>1, <2>2, <2>3
  <2>6. pc' \in [Submits -> Points] /\ reply' \in [Submits -> Replies]
    BY <2>2, <2>4
  <2> QED
    BY <2>4, <2>5, <2>6 DEF TypeOK
<1>5. CASE RecordUpload(s)
  <2>1. PICK o \in Outcomes(ctx[s]) : /\ UpdateDreamRequirementStatus(s, o)
                                      /\ reply' \in [Submits -> Replies] /\ pc' \in [Submits -> Points]
                                      /\ dbFault' \subseteq Submits
    BY <1>5 DEF RecordUpload, TypeOK
  <2>2. rows' \in [Requirements -> Row]
    BY <1>5, <2>1, RowWritten DEF RecordUpload, Prepares
  <2> QED
    BY <1>5, <2>1, <2>2 DEF RecordUpload, TypeOK
<1>6. CASE AIReviews(s)
  BY <1>6, Reviewed DEF AIReviews, TypeOK
<1>7. CASE AIFails(s)
  BY <1>7, ReviewFailed DEF AIFails, TypeOK
<1>8. CASE RecordVerdict(s)
  BY <1>8, RowWritten DEF RecordVerdict, TypeOK, Prepares
<1>9. CASE RecordFailure(s)
  BY <1>9, RowWritten DEF RecordFailure, TypeOK, Prepares
<1> QED
  BY <1>1, <1>2, <1>3, <1>4, <1>5, <1>6, <1>7, <1>8, <1>9 DEF HandlerStep

\* A creation fills the rows of a tracker that is not there yet.
LEMMA Created ==
  ASSUME IndInv, NEW t \in Trackers, CreateDreamTracker(t)
  PROVE  /\ trackers' \in [Trackers -> [user : Users \cup {None}, funding : Fundings \cup {None},
                                        admission : Admissions \cup {None}]]
         /\ \A k \in Trackers \ {t} : trackers'[k] = trackers[k]
         /\ trackers'[t].user # None
         /\ rows' \in [Requirements -> Row]
         /\ \A q \in Requirements : q[1] = t => rows[q] = NoRow /\ rows'[q] \in {NoRow, Seeded}
         /\ \A q \in Requirements : q[1] # t => rows'[q] = rows[q]
         /\ \A c \in Catalog :
              rows'[<<t, c>>] # NoRow <=>
                trackers'[t].funding # None /\ c \in Requires[trackers'[t].funding]
<1> USE DEF IndInv
<1>1. PICK u \in Users, f \in Fundings \cup {None} :
        \E a \in Admissions \cup {None} :
          /\ trackers' = [trackers EXCEPT ![t] = [user |-> u, funding |-> f, admission |-> a]]
          /\ rows' = [q \in Requirements |->
                        IF q \in (IF f = None THEN {} ELSE {<<t, c>> : c \in Requires[f]})
                        THEN Seeded ELSE rows[q]]
  BY DEF CreateDreamTracker, Seeding
<1>2. /\ trackers \in [Trackers -> [user : Users \cup {None}, funding : Fundings \cup {None},
                                    admission : Admissions \cup {None}]]
      /\ rows \in [Requirements -> Row]
  BY DEF TypeOK
<1>3. u # None /\ (f # None => f \in Fundings)
  BY <1>1, CatalogData
<1>4. \A q \in Requirements : q[1] = t => rows[q] = NoRow
  BY DEF CreateDreamTracker, RowsInv, TrackerIsSeeded, Requirements
<1>5. /\ trackers'[t].user = u /\ trackers'[t].funding = f
      /\ \A k \in Trackers \ {t} : trackers'[k] = trackers[k]
  BY <1>1, <1>2
<1>6. \A q \in Requirements : q[1] # t => rows'[q] = rows[q]
  BY <1>1
<1>7. \A q \in Requirements : q[1] = t => rows'[q] \in {NoRow, Seeded}
  BY <1>1, <1>4
<1>8. \A c \in Catalog : rows'[<<t, c>>] # NoRow <=> f # None /\ c \in Requires[f]
  BY <1>1, <1>4, EmptyRows DEF Requirements
<1>9. rows' \in [Requirements -> Row]
  BY <1>1, <1>2, EmptyRows
<1>10. trackers' \in [Trackers -> [user : Users \cup {None}, funding : Fundings \cup {None},
                                   admission : Admissions \cup {None}]]
  BY <1>1, <1>2
<1> QED
  BY <1>3, <1>4, <1>5, <1>6, <1>7, <1>8, <1>9, <1>10

LEMMA TypeEnvironment ==
  ASSUME IndInv,
         (\E t \in Trackers : CreateDreamTracker(t)) \/ (\E s \in Submits : Disconnect(s))
           \/ Crash \/ UNCHANGED vars
  PROVE  TypeOK'
<1> USE DEF IndInv
<1>1. CASE \E t \in Trackers : CreateDreamTracker(t)
  <2>1. PICK t \in Trackers : CreateDreamTracker(t)
    BY <1>1
  <2>2. UNCHANGED <<hasAI, handler, history>>
    BY <2>1 DEF CreateDreamTracker
  <2> QED
    BY <2>1, <2>2, Created DEF TypeOK, handler, history
<1>2. CASE \E s \in Submits : Disconnect(s)
  BY <1>2 DEF Disconnect, TypeOK, Contexts, tables, history
<1>3. CASE Crash
  BY <1>3 DEF Crash, TypeOK, Points, Replies, tables, history
<1>4. CASE UNCHANGED vars
  BY <1>4 DEF vars, TypeOK, tables, handler, history
<1> QED
  BY <1>1, <1>2, <1>3, <1>4
-----------------------------------------------------------------------------
(* The steps of submissions. *)

\* What a step of a submission leaves alone.
LEMMA StepFrame ==
  ASSUME IndInv, NEW s \in Submits, Receive(s) \/ HandlerStep(s)
  PROVE  /\ UNCHANGED <<hasAI, trackers, ctx>>
         /\ pc'[s] # "idle"
         /\ pc[s] # "idle" => UNCHANGED <<sub, latest, alone>>
         /\ verdicts \subseteq verdicts'
         /\ \A o \in Submits \ {s} : /\ pc'[o] = pc[o] /\ sub'[o] = sub[o]
                                     /\ local'[o] = local[o] /\ reply'[o] = reply[o]
                                     /\ o \in dbFault => o \in dbFault'
         /\ \A q \in Requirements :
              /\ rows'[q] = NoRow <=> rows[q] = NoRow
              /\ q # sub[s].req \/ pc[s] \notin Prepares => rows'[q] = rows[q]
              /\ rows'[q] \in {rows[q], local[s]}
<1> USE DEF IndInv
<1> USE DEF Return, Goto, Note, tables, history
<1>0. pc \in [Submits -> Points] /\ reply \in [Submits -> Replies] /\ DOMAIN sub = Submits
      /\ DOMAIN local = Submits
  BY DEF TypeOK
<1>1. CASE Receive(s)
  BY <1>0, <1>1 DEF Receive, Prepares
<1>2. CASE QueryFails(s)
  BY <1>0, <1>2 DEF QueryFails, Prepares
<1>3. CASE FindRequirement(s)
  BY <1>0, <1>3 DEF FindRequirement, Prepares
<1>4. CASE FindDocument(s)
  BY <1>0, <1>4 DEF FindDocument, Prepares
<1>5. CASE RecordUpload(s)
  <2>1. PICK o \in Outcomes(ctx[s]) : /\ UpdateDreamRequirementStatus(s, o)
                                      /\ pc'[s] # "idle" /\ Note(s, o)
                                      /\ \A z \in Submits \ {s} : pc'[z] = pc[z] /\ reply'[z] = reply[z]
    BY <1>0, <1>5 DEF RecordUpload
  <2>2. pc[s] \in Prepares /\ UNCHANGED <<hasAI, trackers, ctx, sub, local, latest, alone, verdicts>>
    BY <1>5 DEF RecordUpload, Prepares
  <2> QED
    BY <2>1, <2>2, RowWritten
<1>6. CASE AIReviews(s)
  BY <1>0, <1>6, Reviewed DEF AIReviews
<1>7. CASE AIFails(s)
  BY <1>0, <1>7, ReviewFailed DEF AIFails
<1>8. CASE RecordVerdict(s)
  <2>1. PICK o \in Outcomes(ctx[s]) : UpdateDreamRequirementStatus(s, o) /\ Note(s, o)
    BY <1>8 DEF RecordVerdict
  <2>2. pc[s] \in Prepares /\ UNCHANGED <<hasAI, trackers, ctx, sub, local, latest, alone, verdicts>>
        /\ pc'[s] = "done"
        /\ \A z \in Submits \ {s} : pc'[z] = pc[z] /\ reply'[z] = reply[z]
    BY <1>0, <1>8 DEF RecordVerdict, Prepares
  <2> QED
    BY <2>1, <2>2, RowWritten
<1>9. CASE RecordFailure(s)
  <2>1. PICK o \in Outcomes(ctx[s]) : UpdateDreamRequirementStatus(s, o) /\ Note(s, o)
    BY <1>9 DEF RecordFailure
  <2>2. pc[s] \in Prepares /\ UNCHANGED <<hasAI, trackers, ctx, sub, local, latest, alone, verdicts>>
        /\ pc'[s] = "done"
        /\ \A z \in Submits \ {s} : pc'[z] = pc[z] /\ reply'[z] = reply[z]
    BY <1>0, <1>9 DEF RecordFailure, Prepares
  <2> QED
    BY <2>1, <2>2, RowWritten
<1> QED
  BY <1>1, <1>2, <1>3, <1>4, <1>5, <1>6, <1>7, <1>8, <1>9 DEF HandlerStep

LEMMA RowsHandler ==
  ASSUME IndInv, NEW s \in Submits, Receive(s) \/ HandlerStep(s)
  PROVE  RowsInv'
<1> USE DEF IndInv, RowsInv
<1>1. TrackerIsSeeded'
  <2>1. \A t \in Trackers, c \in Catalog : <<t, c>> \in Requirements
    BY DEF Requirements
  <2> QED
    BY <2>1, StepFrame DEF TrackerIsSeeded, Exists
<1>2. ASSUME NEW q \in Requirements, rows'[q] # rows[q]
      PROVE  rows'[q] = local[s] /\ pc[s] \in Prepares /\ q = sub[s].req
  BY <1>2, StepFrame
<1>5. pc[s] \in Prepares =>
        LET d == sub[s].doc
        IN /\ trackers[sub[s].req[1]].user = sub[s].user
           /\ local[s].doc = d /\ DocOwner[d] = sub[s].user /\ d \in PdfDocs
           /\ local[s].status = "UPLOADED" \/ <<d, local[s].status>> \in verdicts
           /\ local[s].msg \in {None, s} /\ pc[s] # "idle" /\ d # None
  BY CatalogData DEF SubmitInv, Prepares, Resolved
<1>3. DocumentIsOwners'
  <2>1. ASSUME NEW q \in Requirements, rows'[q].doc # None
        PROVE  DocOwner[rows'[q].doc] = trackers'[q[1]].user /\ rows'[q].doc \in PdfDocs
    <3>1. CASE rows'[q] = rows[q]
      BY <2>1, <3>1, StepFrame DEF DocumentIsOwners
    <3>2. CASE rows'[q] # rows[q]
      BY <1>2, <1>5, <2>1, <3>2, StepFrame
    <3> QED
      BY <3>1, <3>2
  <2> QED
    BY <2>1 DEF DocumentIsOwners
<1>4. VerdictIsOfDocument' /\ MessageInv'
  <2>1. ASSUME NEW q \in Requirements
        PROVE  /\ rows'[q].doc = None => rows'[q] \in {NoRow, Seeded}
               /\ rows'[q].doc # None => \/ rows'[q].status = "UPLOADED"
                                         \/ <<rows'[q].doc, rows'[q].status>> \in verdicts'
               /\ rows'[q].msg # None => /\ sub'[rows'[q].msg].doc = rows'[q].doc
                                         /\ pc'[rows'[q].msg] # "idle"
    <3>1. CASE rows'[q] = rows[q]
      <4>1. rows[q].msg \in Submits \cup {None}
        BY DEF TypeOK, Row
      <4> QED
        BY <3>1, <4>1, StepFrame DEF VerdictIsOfDocument, MessageInv
    <3>2. CASE rows'[q] # rows[q]
      <4>1. pc[s] # "idle"
        BY <1>2, <3>2 DEF Prepares
      <4> QED
        BY <1>2, <1>5, <3>2, <4>1, StepFrame
    <3> QED
      BY <3>1, <3>2
  <2> QED
    BY <2>1 DEF VerdictIsOfDocument, MessageInv
<1> QED
  BY <1>1, <1>3, <1>4

LEMMA SubmitHandler ==
  ASSUME IndInv, NEW s \in Submits, Receive(s) \/ HandlerStep(s)
  PROVE  SubmitInv'
<1> USE DEF IndInv
<1> DEFINE Good(z) ==
      LET q == sub[z].req
          d == sub[z].doc
      IN /\ pc[z] # "idle" => q \in Requirements /\ d \in Docs /\ sub[z].user \in Users
         /\ pc[z] \in Resolved => trackers[q[1]].user = sub[z].user /\ rows[q] # NoRow
         /\ pc[z] \in Prepares =>
              /\ local[z].doc = d /\ DocOwner[d] = sub[z].user /\ d \in PdfDocs
              /\ local[z].msg \in {None, z}
              /\ local[z].status = "UPLOADED" \/ <<d, local[z].status>> \in verdicts
         /\ pc[z] = "failure" => local[z].ai = "FAILED"
         /\ reply[z] = "ok" => pc[z] = "done"
<1>0. \A z \in Submits : Good(z)
  BY DEF SubmitInv
<1>1. ASSUME NEW z \in Submits \ {s} PROVE Good(z)'
  <2>1. Good(z) /\ (pc[z] \in Resolved => sub[z].req \in Requirements)
    BY <1>0 DEF Resolved
  <2> QED
    BY <2>1, StepFrame
<1>2. Good(s)'
  <2> USE DEF Return, Goto, tables, history, Resolved, Prepares
  <2>0. /\ Good(s) /\ pc \in [Submits -> Points] /\ reply \in [Submits -> Replies]
        /\ DOMAIN sub = Submits /\ local \in [Submits -> Row]
    BY <1>0 DEF TypeOK
  <2>1. CASE Receive(s)
    BY <2>0, <2>1 DEF Receive
  <2>2. CASE QueryFails(s)
    BY <2>0, <2>2 DEF QueryFails
  <2>3. CASE FindRequirement(s)
    BY <2>0, <2>3 DEF FindRequirement
  <2>4. CASE FindDocument(s)
    <3>1. Prepared(s).doc = sub[s].doc /\ Prepared(s).status = "UPLOADED" /\ Prepared(s).msg = None
      BY DEF Prepared
    <3> HIDE DEF Prepared
    <3> QED
      BY <2>0, <2>4, <3>1, StepFrame DEF FindDocument, MayUse
  <2>5. CASE RecordUpload(s)
    <3>1. /\ pc[s] = "upload" /\ UNCHANGED <<trackers, sub, local, verdicts>>
          /\ \/ pc'[s] = "done"
             \/ pc'[s] = "review" /\ reply' = reply
      BY <2>0, <2>5 DEF RecordUpload
    <3> QED
      BY <2>0, <3>1, StepFrame
  <2>6. CASE AIReviews(s)
    <3>1. pc[s] = "review" /\ pc'[s] = "verdict" /\ UNCHANGED <<trackers, rows, sub, reply>>
      BY <2>0, <2>6 DEF AIReviews
    <3> QED
      BY <2>0, <2>6, <3>1, Reviewed
  <2>7. CASE AIFails(s)
    <3>1. pc[s] = "review" /\ pc'[s] = "failure" /\ UNCHANGED <<trackers, rows, sub, reply, verdicts>>
      BY <2>0, <2>7 DEF AIFails
    <3> QED
      BY <2>0, <2>7, <3>1, ReviewFailed
  <2>8. CASE RecordVerdict(s) \/ RecordFailure(s)
    <3>1. pc[s] # "idle" /\ pc'[s] = "done" /\ UNCHANGED sub
      BY <2>0, <2>8 DEF RecordVerdict, RecordFailure
    <3> QED
      BY <2>0, <3>1
  <2> QED
    BY <2>1, <2>2, <2>3, <2>4, <2>5, <2>6, <2>7, <2>8 DEF HandlerStep
<1> QED
  BY <1>1, <1>2 DEF SubmitInv
-----------------------------------------------------------------------------
(* The last submission of a requirement. *)

\* What LastInv says of the last submission of q.
LastOf(q) ==
  LET s == latest[q]
  IN s # None =>
       /\ pc[s] # "idle" /\ sub[s].req = q
       /\ s \in alone =>
            /\ \A o \in Submits \ {s} : InFlight(o) => sub[o].req # q
            /\ pc[s] \in {"review", "verdict", "failure"} => rows[q].doc = sub[s].doc
            /\ reply[s] = "ok" => rows[q].doc = sub[s].doc
            /\ hasAI /\ pc[s] = "done" /\ rows[q].ai = "PENDING" =>
                 \/ reply[s] \in {"killed", "internal", "invalid", "notfound"}
                 \/ ctx[s] = "cancelled" \/ s \in dbFault
                 \/ local[s].ai = "PENDING"

LastGood == (\A s \in alone : pc[s] # "idle") /\ \A q \in Requirements : LastOf(q)

\* Only a submission that has begun names a requirement.
LEMMA LastIs == TypeOK /\ SubmitInv => (LastInv <=> LastGood)
<1> SUFFICES ASSUME TypeOK, SubmitInv PROVE LastInv <=> LastGood
  OBVIOUS
<1>1. \A s \in Submits : pc[s] = "done" => sub[s].req \in Requirements
  BY DEF SubmitInv
<1>2. \A q \in Requirements : latest[q] \in Submits \cup {None}
  BY DEF TypeOK
<1>3. None \notin Submits
  BY CatalogData
<1>4. ASSUME LastInv, NEW q \in Requirements PROVE LastOf(q)
  <2>1. ASSUME latest[q] # None, hasAI, latest[q] \in alone, pc[latest[q]] = "done",
               rows[q].ai = "PENDING", sub[latest[q]].req = q
        PROVE  \/ reply[latest[q]] \in {"killed", "internal", "invalid", "notfound"}
               \/ ctx[latest[q]] = "cancelled" \/ latest[q] \in dbFault
               \/ local[latest[q]].ai = "PENDING"
    BY <1>2, <1>4, <2>1 DEF LastInv, PendingHasCause
  <2> QED
    BY <1>2, <1>4, <2>1 DEF LastInv, AloneInv, SequentialSubmitsStick, LastOf
<1>5. ASSUME LastGood PROVE LastInv
  <2>1. AloneInv /\ SequentialSubmitsStick
    BY <1>5 DEF LastGood, LastOf, AloneInv, SequentialSubmitsStick
  <2>2. PendingHasCause
    BY <1>1, <1>3, <1>5 DEF LastGood, LastOf, PendingHasCause
  <2> QED
    BY <2>1, <2>2 DEF LastInv
<1>6. LastInv => \A s \in alone : pc[s] # "idle"
  BY DEF LastInv, AloneInv
<1> QED
  BY <1>4, <1>5, <1>6 DEF LastGood

\* A new submission becomes the last one of its requirement.
LEMMA LastReceive ==
  ASSUME IndInv, NEW s \in Submits, Receive(s)
  PROVE  LastInv'
<1> USE DEF IndInv
<1>1. /\ \A z \in alone : pc[z] # "idle"
      /\ \A p \in Requirements : LastOf(p)
      /\ TypeOK' /\ SubmitInv'
  BY LastIs, TypeHandler, SubmitHandler DEF LastGood
<1>0. /\ DOMAIN sub = Submits /\ DOMAIN pc = Submits
      /\ latest \in [Requirements -> Submits \cup {None}]
  BY DEF TypeOK
<1>2. PICK u \in Users, q \in Requirements, d \in Docs :
        /\ sub' = [sub EXCEPT ![s] = [user |-> u, req |-> q, doc |-> d]]
        /\ latest' = [latest EXCEPT ![q] = s]
        /\ alone' = (alone \ Others(s, q)) \cup (IF Others(s, q) = {} THEN {s} ELSE {})
  BY DEF Receive
<1>8. sub'[s].req = q
  BY <1>0, <1>2
<1>3. /\ pc[s] = "idle" /\ pc'[s] = "requirement" /\ s \notin alone /\ reply'[s] # "ok"
      /\ UNCHANGED <<hasAI, rows, ctx, local, reply, dbFault>>
      /\ \A z \in Submits \ {s} : pc'[z] = pc[z] /\ sub'[z] = sub[z]
  <2>1. pc[s] = "idle"
    BY DEF Receive
  <2>2. reply[s] # "ok" /\ s \notin alone
    BY <1>1, <2>1 DEF SubmitInv
  <2>3. pc'[s] = "requirement" /\ UNCHANGED <<hasAI, rows, ctx, local, reply, dbFault>>
    BY <1>0 DEF Receive, Goto, tables
  <2> QED
    BY <2>1, <2>2, <2>3, StepFrame
<1>4. \A z \in alone' : pc'[z] # "idle"
  BY <1>1, <1>2, <1>3 DEF TypeOK
<1>5. LastOf(q)'
  <2>1. latest'[q] = s
    BY <1>2 DEF TypeOK
  <2>2. s \in alone' => \A o \in Submits \ {s} : InFlight(o) => sub[o].req # q
    BY <1>2, <1>3 DEF Others
  <2> QED
    BY <1>8, <1>3, <2>1, <2>2 DEF LastOf, InFlight
<1>6. ASSUME NEW p \in Requirements \ {q} PROVE LastOf(p)'
  <2>1. latest'[p] = latest[p] /\ LastOf(p) /\ latest[p] \in Submits \cup {None}
    BY <1>1, <1>2 DEF TypeOK
  <2>2. latest[p] # None => latest[p] \in Submits \ {s}
    BY <1>3, <2>1 DEF LastOf
  <2>3. ASSUME latest[p] # None, latest[p] \in alone'
        PROVE  latest[p] \in alone
               /\ \A o \in Submits \ {latest[p]} : InFlight(o)' => sub'[o].req # p
    <3>1. latest[p] \in alone
      BY <1>2, <2>2, <2>3
    <3>2. ASSUME NEW o \in Submits \ {latest[p]}, InFlight(o)' PROVE sub'[o].req # p
      BY <1>3, <1>8, <2>1, <2>3, <3>1, <3>2 DEF LastOf, InFlight
    <3> QED
      BY <3>1, <3>2
  <2> QED
    BY <1>3, <2>1, <2>2, <2>3 DEF LastOf
<1>7. LastGood'
  BY <1>4, <1>5, <1>6 DEF LastGood
<1> QED
  BY <1>1, <1>7, LastIs, PTL

\* The other steps of a submission concern the row of its requirement alone, which
\* no other submission shares with the last one if that one is alone.
LEMMA LastHandler ==
  ASSUME IndInv, NEW s \in Submits, HandlerStep(s)
  PROVE  LastInv'
<1> USE DEF IndInv
<1>0. /\ \A z \in alone : pc[z] # "idle"
      /\ \A p \in Requirements : LastOf(p)
      /\ TypeOK' /\ SubmitInv'
  BY LastIs, TypeHandler, SubmitHandler DEF LastGood
<1>1. /\ InFlight(s) /\ UNCHANGED <<sub, latest, alone, hasAI, ctx>> /\ pc'[s] # "idle"
      /\ sub[s].req \in Requirements
      /\ \A z \in Submits \ {s} : /\ pc'[z] = pc[z] /\ local'[z] = local[z] /\ reply'[z] = reply[z]
                                  /\ z \in dbFault => z \in dbFault'
      /\ \A p \in Requirements \ {sub[s].req} : rows'[p] = rows[p]
  <2>1. InFlight(s)
    BY DEF HandlerStep, InFlight, QueryFails, FindRequirement, FindDocument, RecordUpload,
           AIReviews, AIFails, RecordVerdict, RecordFailure
  <2>2. sub[s].req \in Requirements /\ pc[s] # "idle"
    BY <2>1 DEF InFlight, SubmitInv
  <2>3. Receive(s) \/ HandlerStep(s)
    OBVIOUS
  <2> QED
    BY <2>1, <2>2, <2>3, StepFrame
<1>2. \A z \in alone' : pc'[z] # "idle"
  BY <1>0, <1>1 DEF TypeOK
<1>3. ASSUME NEW p \in Requirements, latest[p] # s PROVE LastOf(p)'
  <2>1. LastOf(p) /\ latest[p] \in Submits \cup {None}
    BY <1>0 DEF TypeOK
  <2>2. latest[p] # None /\ latest[p] \in alone => rows'[p] = rows[p]
    BY <1>1, <1>3, <2>1 DEF LastOf
  <2>3. \A o \in Submits : InFlight(o)' => InFlight(o)
    BY <1>1 DEF InFlight
  <2> QED
    BY <1>1, <1>3, <2>1, <2>2, <2>3 DEF LastOf
<1>4. ASSUME NEW p \in Requirements, latest[p] = s PROVE LastOf(p)'
  <2>0. /\ LastOf(p) /\ s # None /\ p = sub[s].req
        /\ pc \in [Submits -> Points] /\ reply \in [Submits -> Replies]
        /\ rows \in [Requirements -> Row] /\ local \in [Submits -> Row]
        /\ reply[s] # "ok"
        /\ pc[s] \in Prepares => local[s].doc = sub[s].doc
        /\ pc[s] = "failure" => local[s].ai = "FAILED"
    <3>1. /\ pc \in [Submits -> Points] /\ reply \in [Submits -> Replies]
          /\ rows \in [Requirements -> Row] /\ local \in [Submits -> Row]
      BY DEF TypeOK
    <3>2. s # None
      BY CatalogData
    <3>3. LastOf(p) /\ p = sub[s].req
      BY <1>0, <1>4, <3>2 DEF LastOf
    <3>4. reply[s] # "ok"
      BY <1>1 DEF SubmitInv, InFlight
    <3>5. /\ pc[s] \in Prepares => local[s].doc = sub[s].doc
          /\ pc[s] = "failure" => local[s].ai = "FAILED"
      BY DEF SubmitInv
    <3> QED
      BY <3>1, <3>2, <3>3, <3>4, <3>5
  <2>1. \A o \in Submits \ {s} : InFlight(o)' <=> InFlight(o)
    BY <1>1 DEF InFlight
  <2>2. /\ pc'[s] \in {"review", "verdict", "failure"} /\ s \in alone => rows'[p].doc = sub[s].doc
        /\ reply'[s] = "ok" /\ s \in alone => rows'[p].doc = sub[s].doc
        /\ hasAI /\ pc'[s] = "done" /\ rows'[p].ai = "PENDING" /\ s \in alone =>
             \/ reply'[s] \in {"killed", "internal", "invalid", "notfound"}
             \/ ctx[s] = "cancelled" \/ s \in dbFault'
             \/ local'[s].ai = "PENDING"
    <3> USE DEF Return, Goto, history, tables
    <3>1. CASE QueryFails(s)
      BY <2>0, <3>1 DEF QueryFails
    <3>2. CASE FindRequirement(s)
      BY <2>0, <3>2 DEF FindRequirement
    <3>3. CASE FindDocument(s)
      BY <2>0, <3>3 DEF FindDocument
    <3>4. CASE RecordUpload(s)
      <4>1. PICK o \in Outcomes(ctx[s]) :
              /\ UpdateDreamRequirementStatus(s, o)
              /\ CASE o # "ok"           -> Return(s, "internal")
                   [] o = "ok" /\ hasAI  -> Goto(s, "review") /\ UNCHANGED reply
                   [] o = "ok" /\ ~hasAI -> Return(s, "ok")
        BY <3>4 DEF RecordUpload
      <4>2. pc[s] \in Prepares
        BY <3>4 DEF RecordUpload, Prepares
      <4>3. o = "ok" => rows'[p].doc = sub[s].doc
        BY <2>0, <4>1, <4>2, RowWritten DEF Applied
      <4>4. CASE o # "ok"
        BY <2>0, <4>1, <4>4
      <4>5. CASE o = "ok" /\ hasAI
        BY <2>0, <4>1, <4>3, <4>5
      <4>6. CASE o = "ok" /\ ~hasAI
        BY <2>0, <4>1, <4>3, <4>6
      <4> QED
        BY <4>4, <4>5, <4>6
    <3>5. CASE AIReviews(s) \/ AIFails(s)
      <4>1. /\ pc[s] = "review" /\ pc'[s] \in {"verdict", "failure"} /\ UNCHANGED <<rows, reply>>
        BY <2>0, <3>5 DEF AIReviews, AIFails
      <4> QED
        BY <1>4, <2>0, <4>1 DEF LastOf
    <3>6. CASE RecordVerdict(s)
      <4>1. PICK o \in Outcomes(ctx[s]) :
              /\ UpdateDreamRequirementStatus(s, o)
              /\ Return(s, IF o = "ok" THEN "ok" ELSE "internal")
        BY <3>6 DEF RecordVerdict
      <4>2. pc[s] \in Prepares /\ local' = local
        BY <3>6 DEF RecordVerdict, Prepares
      <4>3. o = "ok" => rows'[p] = local[s]
        BY <2>0, <4>1, <4>2, RowWritten DEF Applied
      <4> QED
        BY <2>0, <4>1, <4>2, <4>3
    <3>7. CASE RecordFailure(s)
      <4>1. PICK o \in Outcomes(ctx[s]) : UpdateDreamRequirementStatus(s, o) /\ Note(s, o)
        BY <3>7 DEF RecordFailure
      <4>2. pc[s] \in Prepares /\ pc[s] = "failure" /\ local' = local
            /\ pc'[s] = "done"
        BY <2>0, <3>7 DEF RecordFailure, Prepares
      <4>3. rows'[p] = IF Applied(o) THEN local[s] ELSE rows[p]
        BY <2>0, <4>1, <4>2, RowWritten
      <4>4. s \in alone => rows'[p].doc = sub[s].doc
        BY <1>4, <2>0, <4>2, <4>3 DEF LastOf
      <4>5. rows'[p].ai = "PENDING" => ctx[s] = "cancelled" \/ s \in dbFault'
        BY <2>0, <4>1, <4>2, <4>3 DEF Applied, Note
      <4> QED
        BY <4>2, <4>4, <4>5
    <3> QED
      BY <3>1, <3>2, <3>3, <3>4, <3>5, <3>6, <3>7 DEF HandlerStep
  <2> QED
    BY <1>1, <1>4, <2>0, <2>1, <2>2 DEF LastOf
<1>5. LastGood'
  BY <1>2, <1>3, <1>4 DEF LastGood
<1> QED
  BY <1>0, <1>5, LastIs, PTL
-----------------------------------------------------------------------------
(* Creation, disconnection and crash. *)

LEMMA StepCreate ==
  ASSUME IndInv, NEW t \in Trackers, CreateDreamTracker(t)
  PROVE  IndInv'
<1> USE DEF IndInv
<1>1. UNCHANGED <<hasAI, pc, sub, ctx, local, reply, dbFault, verdicts, latest, alone>>
  BY DEF CreateDreamTracker, handler, history
<1>2. TypeOK'
  BY TypeEnvironment
<1>3. \A q \in Requirements : q[1] \in Trackers
  BY DEF Requirements
<1>4. \A q \in Requirements : rows[q] # NoRow => rows'[q] = rows[q] /\ trackers'[q[1]] = trackers[q[1]]
  BY <1>3, Created
<1>5. \A q \in Requirements : /\ rows'[q].doc = rows[q].doc /\ rows'[q].msg = rows[q].msg
                              /\ rows'[q].ai = rows[q].ai
                              /\ rows'[q] = rows[q] \/ rows'[q] \in {NoRow, Seeded}
  BY Created DEF NoRow, Seeded
<1>6. RowsInv'
  <2>1. TrackerIsSeeded'
    <3>1. ASSUME NEW k \in Trackers, NEW c \in Catalog
          PROVE  rows'[<<k, c>>] # NoRow <=>
                   /\ trackers'[k].user # None /\ trackers'[k].funding # None
                   /\ c \in Requires[trackers'[k].funding]
      <4>1. <<k, c>> \in Requirements /\ <<k, c>>[1] = k
        BY DEF Requirements
      <4> QED
        BY <4>1, Created DEF RowsInv, TrackerIsSeeded, Exists
    <3> QED
      BY <3>1 DEF TrackerIsSeeded, Exists
  <2>2. DocumentIsOwners'
    <3>1. ASSUME NEW q \in Requirements, rows[q].doc # None PROVE rows[q] # NoRow
      BY <3>1 DEF NoRow
    <3> QED
      BY <1>4, <1>5, <3>1 DEF RowsInv, DocumentIsOwners
  <2>3. VerdictIsOfDocument' /\ MessageInv'
    <3>1. NoRow.doc = None /\ Seeded.doc = None
      BY DEF NoRow, Seeded
    <3> QED
      BY <1>1, <1>5, <3>1 DEF RowsInv, VerdictIsOfDocument, MessageInv
  <2> QED
    BY <2>1, <2>2, <2>3 DEF RowsInv
<1>7. SubmitInv'
  BY <1>1, <1>4 DEF SubmitInv, Resolved
<1>8. LastInv'
  <2>1. LastGood'
    BY <1>1, <1>5, LastIs DEF LastGood, LastOf, InFlight
  <2> QED
    BY <1>2, <1>7, <2>1, LastIs, PTL
<1> QED
  BY <1>2, <1>6, <1>7, <1>8

\* A disconnection or a crash ends handlers, and nothing else.
LEMMA EnvironmentFrame ==
  ASSUME TypeOK, (\E s \in Submits : Disconnect(s)) \/ Crash \/ UNCHANGED vars
  PROVE  /\ hasAI' = hasAI /\ trackers' = trackers /\ rows' = rows /\ sub' = sub
         /\ local' = local /\ dbFault' = dbFault /\ verdicts' = verdicts
         /\ latest' = latest /\ alone' = alone
         /\ \A s \in Submits : pc[s] \in {"idle", "done"} => pc'[s] = pc[s] /\ reply'[s] = reply[s]
         /\ \A s \in Submits : pc'[s] # pc[s] \/ reply'[s] # reply[s] =>
                              pc'[s] = "done" /\ reply'[s] = "killed"
         /\ \A s \in Submits : ctx[s] = "cancelled" => ctx'[s] = "cancelled"
<1>1. CASE \E s \in Submits : Disconnect(s)
  BY <1>1 DEF Disconnect, TypeOK, tables, history
<1>2. CASE Crash
  BY <1>2 DEF Crash, TypeOK, tables, history, InFlight
<1>3. CASE UNCHANGED vars
  BY <1>3 DEF vars, tables, handler, history
<1> QED
  BY <1>1, <1>2, <1>3

LEMMA StepEnvironment ==
  ASSUME IndInv, (\E s \in Submits : Disconnect(s)) \/ Crash \/ UNCHANGED vars
  PROVE  IndInv'
<1> USE DEF IndInv
<1>1. TypeOK'
  BY TypeEnvironment
<1>2. SubmitInv'
  BY EnvironmentFrame DEF SubmitInv, Resolved, Prepares
<1>3. RowsInv'
  <2>1. \A q \in Requirements : rows[q].msg \in Submits \cup {None}
    BY DEF TypeOK, Row
  <2> QED
    BY EnvironmentFrame, <2>1 DEF RowsInv, TrackerIsSeeded, Exists, DocumentIsOwners, VerdictIsOfDocument, MessageInv
<1>4. LastInv'
  <2>1. LastGood
    BY LastIs
  <2>2. \A q \in Requirements : latest[q] \in Submits \cup {None}
    BY DEF TypeOK
  <2>3. \A o \in Submits : InFlight(o)' => InFlight(o)
    BY EnvironmentFrame DEF InFlight
  <2>4. LastGood'
    <3>1. \A s \in alone' : pc'[s] # "idle"
      BY EnvironmentFrame, <2>1 DEF LastGood, TypeOK
    <3>2. ASSUME NEW q \in Requirements PROVE LastOf(q)'
      BY EnvironmentFrame, <2>1, <2>2, <2>3 DEF LastGood, LastOf
    <3> QED
      BY <3>1, <3>2 DEF LastGood
  <2> QED
    BY <1>1, <1>2, <2>4, LastIs, PTL
<1> QED
  BY <1>1, <1>2, <1>3, <1>4

LEMMA IndInvariant == Spec => []IndInv
<1>1. ASSUME IndInv, NEW s \in Submits, Receive(s) \/ HandlerStep(s) PROVE IndInv'
  BY <1>1, TypeHandler, SubmitHandler, RowsHandler, LastReceive, LastHandler DEF IndInv
<1>2. IndInv /\ [Next]_vars => IndInv'
  BY <1>1, StepCreate, StepEnvironment DEF Next
<1> QED
  BY <1>2, IndInit, PTL DEF Spec
-----------------------------------------------------------------------------
(* Theorems. *)

\* The tables and the handlers' copies keep their types, whatever the reviewer says.
THEOREM TypeCorrect == Spec => []TypeOK
<1>1. IndInv => TypeOK
  BY DEF IndInv
<1> QED
  BY <1>1, IndInvariant, PTL

\* CreateDreamTracker is all or nothing, and no submission adds or removes a row.
THEOREM TrackersAreSeeded == Spec => []TrackerIsSeeded
<1>1. IndInv => TrackerIsSeeded
  BY DEF IndInv, RowsInv
<1> QED
  BY <1>1, IndInvariant, PTL

\* SubmitDreamRequirement records only PDF documents of the tracker's user.
THEOREM DocumentsAreOwners == Spec => []DocumentIsOwners
<1>1. IndInv => DocumentIsOwners
  BY DEF IndInv, RowsInv
<1> QED
  BY <1>1, IndInvariant, PTL

\* However submissions of a requirement overlap, the verdict and the messages in
\* its row are those of the document in its row.
THEOREM VerdictsAreOfDocuments == Spec => []VerdictIsOfDocument
<1>1. IndInv => VerdictIsOfDocument
  BY DEF IndInv, RowsInv
<1> QED
  BY <1>1, IndInvariant, PTL

\* The last submission of a requirement, answered with 200, is not lost unless it
\* overlapped another of that requirement.
THEOREM SubmitsStick == Spec => []SequentialSubmitsStick
<1>1. IndInv => SequentialSubmitsStick
  BY DEF IndInv, LastInv
<1> QED
  BY <1>1, IndInvariant, PTL

\* A review is left PENDING only by silence of the reviewer, or by a handler that
\* lost its client, its database or its life.
THEOREM PendingHasCauses == Spec => []PendingHasCause
<1>1. IndInv => PendingHasCause
  BY DEF IndInv, LastInv
<1> QED
  BY <1>1, IndInvariant, PTL
=============================================================================
