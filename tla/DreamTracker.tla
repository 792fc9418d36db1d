---------------------------- MODULE DreamTracker ----------------------------
(***************************************************************************)
(* The dream tracker: a tracker is created with one requirement row for    *)
(* every requirement of its funding; a user submits a document for a       *)
(* requirement, the handler records it, asks the AI service to review it   *)
(* and records the verdict.  A requirement row is read once at the start   *)
(* of a submission and written back whole, twice; submissions of the same  *)
(* requirement are not serialised.  Every database or AI call is one step. *)
(***************************************************************************)
EXTENDS Naturals, DatabaseCalls

CONSTANTS Trackers,     \* tracker identifiers, fresh for each creation
          Catalog,      \* requirement_catalog
          Submits,      \* executions of SubmitDreamRequirement
          Users,        \* authenticated users
          Docs,         \* document identifiers a client may name
          Fundings,     \* funding_options
          Admissions,   \* admission_paths
          Requires,     \* funding_requirements: the requirements of a funding
          DocOwner,     \* table documents: the owner of each, or None
          PdfDocs,      \* the documents isPDFDocument accepts
          None          \* SQL NULL, nil

ASSUME CatalogData == /\ Requires \in [Fundings -> SUBSET Catalog]
                      /\ DocOwner \in [Docs -> Users \cup {None}]
                      /\ PdfDocs \subseteq Docs
                      /\ None \notin Users \cup Docs \cup Fundings \cup Admissions \cup Submits

Requirements == Trackers \X Catalog

VARIABLES
  hasAI,         \* whether AI_SERVICE_URL configures a reviewer
  trackers,      \* rows of table dream_tracker
  rows,          \* rows of table dream_requirement_status
  pc,            \* the next call of each submission
  sub,           \* what each submission asks for
  ctx,           \* the context of its request
  local,         \* the handler's copy of the requirement row
  reply,         \* what the handler answers
  dbFault,       \* history: submissions with a failed call in a live context
  verdicts,      \* history: what the AI has said of each document
  latest,        \* history: the last submission begun for each requirement
  alone          \* history: submissions that overlapped no other of theirs

tables  == <<hasAI, trackers, rows>>
handler == <<pc, sub, ctx, local, reply, dbFault>>
history == <<verdicts, latest, alone>>
vars    == <<tables, handler, history>>
-----------------------------------------------------------------------------
\* The statuses the program has names for, and any other word.  The reviewer may
\* answer with each of them: nothing checks the word, neither here nor in the table.
ReqStatuses == {"NOT_UPLOADED", "UPLOADED", "VERIFIED", "REJECTED", "OTHER"}
Verdicts    == ReqStatuses
AIStatuses  == {"PENDING", "FAILED", "DONE"}
Points      == {"idle", "requirement", "document", "upload", "review", "verdict",
                "failure", "done"}
Replies     == {"none", "ok", "invalid", "notfound", "internal", "killed"}

NoTracker == [user |-> None, funding |-> None, admission |-> None]
NoRow     == [doc |-> None, status |-> "absent", ai |-> None, msg |-> None]
Seeded    == [doc |-> None, status |-> "NOT_UPLOADED", ai |-> None, msg |-> None]
NoSubmit  == [user |-> None, req |-> None, doc |-> None]

Row == [doc : Docs \cup {None}, status : ReqStatuses \cup {"absent"},
        ai : AIStatuses \cup {None}, msg : Submits \cup {None}]

TypeOK ==
  /\ hasAI \in BOOLEAN
  /\ trackers \in [Trackers -> [user : Users \cup {None}, funding : Fundings \cup {None},
                                admission : Admissions \cup {None}]]
  /\ rows \in [Requirements -> Row]
  /\ pc \in [Submits -> Points]
  /\ sub \in [Submits -> [user : Users \cup {None}, req : Requirements \cup {None},
                          doc : Docs \cup {None}]]
  /\ ctx \in [Submits -> Contexts]
  /\ local \in [Submits -> Row]
  /\ reply \in [Submits -> Replies]
  /\ dbFault \subseteq Submits
  /\ verdicts \subseteq Docs \X Verdicts
  /\ latest \in [Requirements -> Submits \cup {None}]
  /\ alone \subseteq Submits

Init ==
  /\ hasAI \in BOOLEAN
  /\ trackers = [t \in Trackers |-> NoTracker]
  /\ rows = [q \in Requirements |-> NoRow]
  /\ pc = [s \in Submits |-> "idle"]
  /\ sub = [s \in Submits |-> NoSubmit]
  /\ ctx = [s \in Submits |-> "live"]
  /\ local = [s \in Submits |-> NoRow]
  /\ reply = [s \in Submits |-> "none"]
  /\ dbFault = {} /\ verdicts = {} /\ alone = {}
  /\ latest = [q \in Requirements |-> None]

Exists(t)   == trackers[t].user # None
InFlight(s) == pc[s] \notin {"idle", "done"}
Goto(s, p)  == pc' = [pc EXCEPT ![s] = p]
Return(s, a) == Goto(s, "done") /\ reply' = [reply EXCEPT ![s] = a]
Note(s, o)  == dbFault' = IF o = "ok" \/ ctx[s] = "cancelled" THEN dbFault ELSE dbFault \cup {s}
-----------------------------------------------------------------------------
(* Creation: one transaction inserts the tracker and seeds its requirements. *)

\* Mutant: the transaction is left out, and a failure leaves a part.
Seeding_NotAtomic(t, f) == SUBSET (IF f = None THEN {} ELSE {<<t, c>> : c \in Requires[f]})

\* The sets of rows the transaction may leave inserted: all of them.
Seeding(t, f) == {IF f = None THEN {} ELSE {<<t, c>> : c \in Requires[f]}}

\* A transaction that fails leaves nothing, and nobody learns the fresh
\* identifier; whether the client is told of one that commits changes nothing.
CreateDreamTracker(t) ==
  /\ ~Exists(t)
  /\ \E u \in Users, f \in Fundings \cup {None}, a \in Admissions \cup {None} :
     \E seeded \in Seeding(t, f) :
       /\ trackers' = [trackers EXCEPT ![t] = [user |-> u, funding |-> f, admission |-> a]]
       /\ rows' = [q \in Requirements |-> IF q \in seeded THEN Seeded ELSE rows[q]]
  /\ UNCHANGED <<hasAI, handler, history>>
-----------------------------------------------------------------------------
(* SubmitDreamRequirement. *)

Others(s, q) == {o \in Submits \ {s} : InFlight(o) /\ sub[o].req = q}

\* A request with well-formed identifiers arrives.
Receive(s) ==
  /\ pc[s] = "idle"
  /\ \E u \in Users, q \in Requirements, d \in Docs :
       /\ sub' = [sub EXCEPT ![s] = [user |-> u, req |-> q, doc |-> d]]
       /\ latest' = [latest EXCEPT ![q] = s]
       /\ alone' = (alone \ Others(s, q)) \cup (IF Others(s, q) = {} THEN {s} ELSE {})
  /\ Goto(s, "requirement")
  /\ UNCHANGED <<tables, ctx, local, reply, dbFault, verdicts>>

\* A query of the handler fails.
QueryFails(s) ==
  /\ pc[s] \in {"requirement", "document"}
  /\ Return(s, "internal")
  /\ Note(s, "refused")
  /\ UNCHANGED <<tables, sub, ctx, local, history>>

\* FindDreamRequirementStatusByIDAndUser joins the tracker of the user.
FindRequirement(s) ==
  /\ pc[s] = "requirement" /\ ctx[s] = "live"
  /\ LET q == sub[s].req
     IN IF rows[q] # NoRow /\ trackers[q[1]].user = sub[s].user
        THEN local' = [local EXCEPT ![s] = rows[q]] /\ Goto(s, "document") /\ UNCHANGED reply
        ELSE Return(s, "notfound") /\ UNCHANGED local
  /\ UNCHANGED <<tables, sub, ctx, dbFault, history>>

\* Mutant: the document is looked up by its id alone.
MayUse_AnyUser(u, d) == DocOwner[d] # None

\* WHERE document_id = $1 AND user_id = $2
MayUse(u, d) == DocOwner[d] = u

\* Mutant: a document the requirement already has is kept.
Prepared_KeepsDocument(s) ==
  [doc |-> IF local[s].doc = None THEN sub[s].doc ELSE local[s].doc,
   status |-> "UPLOADED", ai |-> "PENDING", msg |-> None]

Prepared(s) == [doc |-> sub[s].doc, status |-> "UPLOADED", ai |-> "PENDING", msg |-> None]

\* FindDocumentByIDAndUser, isPDFDocument, and the row to record: the document,
\* UPLOADED, its review PENDING, without messages.
FindDocument(s) ==
  /\ pc[s] = "document" /\ ctx[s] = "live"
  /\ LET d == sub[s].doc
     IN \/ /\ MayUse(sub[s].user, d) /\ d \in PdfDocs
           /\ local' = [local EXCEPT ![s] = Prepared(s)]
           /\ Goto(s, "upload")
           /\ UNCHANGED reply
        \/ /\ MayUse(sub[s].user, d) /\ d \notin PdfDocs
           /\ Return(s, "invalid")
           /\ UNCHANGED local
        \/ /\ ~MayUse(sub[s].user, d)
           /\ Return(s, "notfound")
           /\ UNCHANGED local
  /\ UNCHANGED <<tables, sub, ctx, dbFault, history>>

\* Mutant: the verdict's update leaves document_id to the row.
UpdateDreamRequirementStatus_KeepsDocument(s, o) ==
  rows' = IF Applied(o)
          THEN [rows EXCEPT ![sub[s].req] =
                 IF pc[s] = "upload" THEN local[s] ELSE [local[s] EXCEPT !.doc = rows[sub[s].req].doc]]
          ELSE rows

\* Every column of the row is set from the handler's copy, whatever it holds.
\* The row is there: nothing in the program deletes one.
UpdateDreamRequirementStatus(s, o) ==
  rows' = IF Applied(o) THEN [rows EXCEPT ![sub[s].req] = local[s]] ELSE rows

\* The document is recorded; without a reviewer the handler answers.
RecordUpload(s) ==
  /\ pc[s] = "upload"
  /\ \E o \in Outcomes(ctx[s]) :
       /\ UpdateDreamRequirementStatus(s, o)
       /\ CASE o # "ok"            -> Return(s, "internal")
            [] o = "ok" /\ hasAI   -> Goto(s, "review") /\ UNCHANGED reply
            [] o = "ok" /\ ~hasAI  -> Return(s, "ok")
       /\ Note(s, o)
  /\ UNCHANGED <<hasAI, trackers, sub, ctx, local, history>>

\* Mutant: blank fields of the answer overwrite the row's.
Merged_BlankOverwrites(old, new, isBlank) == new

\* A field of the answer replaces the row's unless it is blank.
Merged(old, new, isBlank) == IF isBlank THEN old ELSE new

\* The reviewer answers.  Blank fields of its answer change nothing: a blank
\* ai_status leaves PENDING.
AIReviews(s) ==
  /\ pc[s] = "review" /\ ctx[s] = "live"
  /\ \E status \in {""} \cup Verdicts, ai \in {"", "DONE"}, hasMessages \in BOOLEAN :
       /\ local' = [local EXCEPT
            ![s].status = Merged(@, status, status = ""),
            ![s].ai     = Merged(@, ai, ai = ""),
            ![s].msg    = Merged(@, s, ~hasMessages)]
       /\ verdicts' = verdicts \cup (IF status = "" THEN {} ELSE {<<sub[s].doc, status>>})
  /\ Goto(s, "verdict")
  /\ UNCHANGED <<tables, sub, ctx, reply, dbFault, latest, alone>>

\* The review fails, times out or is refused by a cancelled context.
AIFails(s) ==
  /\ pc[s] = "review"
  /\ local' = [local EXCEPT ![s].ai = "FAILED", ![s].msg = s]
  /\ Goto(s, "failure")
  /\ UNCHANGED <<tables, sub, ctx, reply, dbFault, history>>

RecordVerdict(s) ==
  /\ pc[s] = "verdict"
  /\ \E o \in Outcomes(ctx[s]) :
       /\ UpdateDreamRequirementStatus(s, o)
       /\ Return(s, IF o = "ok" THEN "ok" ELSE "internal")
       /\ Note(s, o)
  /\ UNCHANGED <<hasAI, trackers, sub, ctx, local, history>>

\* Mutant: the failure is answered but not recorded.
RecordFailure_NoUpdate(s) ==
  /\ pc[s] = "failure"
  /\ Return(s, "ok")
  /\ UNCHANGED <<tables, sub, ctx, local, dbFault, history>>

\* The outcome of the update is discarded: the answer is 200 with FAILED.
RecordFailure(s) ==
  /\ pc[s] = "failure"
  /\ \E o \in Outcomes(ctx[s]) : UpdateDreamRequirementStatus(s, o) /\ Note(s, o)
  /\ Return(s, "ok")
  /\ UNCHANGED <<hasAI, trackers, sub, ctx, local, history>>
-----------------------------------------------------------------------------
Disconnect(s) ==
  /\ InFlight(s) /\ ctx[s] = "live"
  /\ ctx' = [ctx EXCEPT ![s] = "cancelled"]
  /\ UNCHANGED <<tables, pc, sub, local, reply, dbFault, history>>

\* A crash, or the end of the shutdown deadline.
Crash ==
  /\ \E s \in Submits : InFlight(s)
  /\ pc' = [s \in Submits |-> IF InFlight(s) THEN "done" ELSE pc[s]]
  /\ reply' = [s \in Submits |-> IF InFlight(s) THEN "killed" ELSE reply[s]]
  /\ UNCHANGED <<tables, sub, ctx, local, dbFault, history>>

\* Mutant: the AI client has no timeout and ignores its context.
HandlerStep_NoTimeout(s) ==
  \/ QueryFails(s) \/ FindRequirement(s) \/ FindDocument(s) \/ RecordUpload(s)
  \/ AIReviews(s) \/ RecordVerdict(s) \/ RecordFailure(s)

HandlerStep(s) ==
  \/ QueryFails(s) \/ FindRequirement(s) \/ FindDocument(s) \/ RecordUpload(s)
  \/ AIReviews(s) \/ AIFails(s) \/ RecordVerdict(s) \/ RecordFailure(s)

Next == \/ \E t \in Trackers : CreateDreamTracker(t)
        \/ \E s \in Submits : Receive(s) \/ HandlerStep(s) \/ Disconnect(s)
        \/ Crash

Spec == Init /\ [][Next]_vars

\* Handlers are goroutines and every call they make returns (the reviewer is
\* called with a timeout of 60 seconds); clients promise nothing.
FairSpec == Spec /\ \A s \in Submits : WF_vars(HandlerStep(s))
-----------------------------------------------------------------------------
(* Properties. *)

\* A visible tracker has a row for every requirement of its funding and for no
\* other: CreateDreamTracker is all or nothing.
TrackerIsSeeded ==
  \A t \in Trackers, c \in Catalog :
    rows[<<t, c>>] # NoRow <=>
      Exists(t) /\ trackers[t].funding # None /\ c \in Requires[trackers[t].funding]

\* A requirement names only PDF documents of the user whose tracker it is in,
\* through any interleaving of submissions by any users.
DocumentIsOwners ==
  \A q \in Requirements :
    rows[q].doc # None => /\ DocOwner[rows[q].doc] = trackers[q[1]].user
                          /\ rows[q].doc \in PdfDocs

\* A row without a document is as it was seeded.  Beside a document stands UPLOADED
\* or a verdict of the AI on that very document, and the messages are of a
\* submission of it, although submissions of one requirement overwrite each other:
\* each update writes one whole copy.
VerdictIsOfDocument ==
  \A q \in Requirements :
    /\ rows[q].doc = None => rows[q] \in {NoRow, Seeded}
    /\ rows[q].doc # None => \/ rows[q].status = "UPLOADED"
                             \/ <<rows[q].doc, rows[q].status>> \in verdicts
    /\ rows[q].msg # None => sub[rows[q].msg].doc = rows[q].doc

\* Without overlap nothing is lost: if the last submission of a requirement
\* overlapped no other and was answered with 200, the row is of its document.
SequentialSubmitsStick ==
  \A q \in Requirements :
    LET s == latest[q]
    IN s # None /\ s \in alone /\ reply[s] = "ok" => rows[q].doc = sub[s].doc

\* A review that has been asked for and is no longer under way is left PENDING
\* only if the reviewer said nothing of it (a blank ai_status) or the handler
\* lost its client, its database or its life.
PendingHasCause ==
  \A s \in Submits :
    LET q == sub[s].req
    IN hasAI /\ pc[s] = "done" /\ latest[q] = s /\ s \in alone /\ rows[q].ai = "PENDING"
         => \/ reply[s] \in {"killed", "internal", "invalid", "notfound"}
            \/ ctx[s] = "cancelled" \/ s \in dbFault
            \/ local[s].ai = "PENDING"

\* Every submission the server has received is answered, or its handler is killed.
Answered == \A s \in Submits : InFlight(s) ~> pc[s] = "done"
=============================================================================
