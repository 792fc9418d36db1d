-------------------- MODULE RecommendationWorkflowProofs --------------------
(***************************************************************************)
(* Safety of RecommendationWorkflow for any sets of requests, readers,     *)
(* users and programs: what handlers store, its refinement of              *)
(* SubmissionLifecycle, and what readers see, whose details are assembled  *)
(* from separate queries.                                                  *)
(***************************************************************************)
EXTENDS RecommendationWorkflow, TLAPS

-----------------------------------------------------------------------------
(* The inductive invariant. *)

\* What a handler knows of its request: an upload creates documents of its own
\* names only, and it has one to record when it is about to; only the modes that
\* ask the AI go beyond the insertion of the submission.
RequestInv ==
  \A r \in Requests :
    /\ pc[r] = "idle" => req[r] = NoRequest /\ docs[r] = NoDocs
    /\ pc[r] # "idle" => req[r].kind \in Kinds /\ req[r].user \in Users
    /\ Uploads(r) => \A t \in DocTypes : req[r].want[t] \in {<<r, t>>, None}
    /\ pc[r] = "persist" => Uploads(r) /\ Pending(r) # {}
    /\ pc[r] \in {"ai", "store", "complete", "fail"} => req[r].kind \in Modes

\* An object is complete before its row is inserted, and an upload never turns
\* to a slot again whose document it has recorded.
DocumentInv ==
  /\ DocumentsBacked
  /\ \A id \in documents :
       /\ pc[id[1]] # "idle" /\ Uploads(id[1])
       /\ pc[id[1]] \in {"resolve", "persist"} => docs[id[1]][id[2]] # None
  /\ \A r \in Requests : pc[r] = "persist" => objects[Target(r)] = "stored"

\* The documents a handler has resolved are recorded ones of its user.
LinkInv ==
  /\ LinksOwned
  /\ \A r \in Requests, t \in DocTypes :
       LET id == docs[r][t]
       IN id # None => id \in documents /\ id[2] = t /\ req[id[1]].user = req[r].user

\* Where a handler is tells the status of its submission.
SubmissionInv ==
  /\ \A r \in Requests :
       /\ pc[r] \in {"idle", "resolve", "persist"} => submissions[r] = NoRow
       /\ pc[r] \in {"ai", "store", "complete", "fail"} =>
            submissions[r].status = "processing" /\ submissions[r].owner = req[r].user
       /\ reply[r] = "created" => pc[r] = "done"
  /\ StuckHasCause
  /\ CreatedIsDurable

\* A submission has at most one result set, none before it was stored, and the
\* one of the AI's answer when it is about to be completed.
ResultInv ==
  /\ \A rs \in resultSets :
       pc[rs.submission] \notin {"idle", "resolve", "persist", "ai", "store"}
  /\ \A a, b \in resultSets : a.submission = b.submission => a = b
  /\ \A r \in Requests :
       /\ pc[r] = "store" => answer[r] \in (SUBSET Programs) \ {{}}
       /\ pc[r] = "complete" => answer[r] # None /\ StoredRows(r, answer[r])
  /\ CompletedIsWhole

IndInv == TypeOK /\ RequestInv /\ DocumentInv /\ LinkInv /\ SubmissionInv /\ ResultInv
-----------------------------------------------------------------------------
(* Operators of the model. *)

\* The slot a handler turns to is one that is still to be resolved.
LEMMA SlotPending ==
  ASSUME NEW r \in Requests, TypeOK
  PROVE  /\ Slot(r) \in DocTypes
         /\ Target(r) \in DocRefs
         /\ Pending(r) # {} => /\ Slot(r) \in Pending(r)
                               /\ Target(r) \in DocIds
                               /\ docs[r][Slot(r)] = None
<1>1. req[r].want \in [DocTypes -> DocRefs]
  BY DEF TypeOK, RequestRec
<1>2. Pending(r) # {} => Slot(r) \in Pending(r)
  BY DEF Slot, Pending, DocTypes
<1> QED
  BY <1>1, <1>2 DEF Slot, Pending, Target, DocTypes, DocRefs

\* What an upload turns to is a document of its own.
LEMMA UploadTarget ==
  ASSUME NEW r \in Requests, TypeOK, RequestInv, Uploads(r), Pending(r) # {}
  PROVE  Target(r) = <<r, Slot(r)>>
<1>1. Slot(r) \in Pending(r) /\ Slot(r) \in DocTypes
  BY SlotPending
<1> QED
  BY <1>1 DEF RequestInv, Target, Pending

\* The latest of a submission's result sets is one of them.
LEMMA LatestIsStored ==
  ASSUME TypeOK, ResultInv, NEW s
  PROVE  /\ SetsOf(s) = {} => LatestSet(s) = None
         /\ \A rs \in SetsOf(s) : LatestSet(s) = rs
         /\ LatestSet(s) \in ResultSet \cup {None}
<1>1. ASSUME NEW rs \in SetsOf(s) PROVE LatestSet(s) = rs
  <2>1. SetsOf(s) = {rs}
    BY <1>1 DEF SetsOf, ResultInv
  <2>2. rs.version <= rs.version
    BY <1>1 DEF SetsOf, TypeOK, ResultSet
  <2> QED
    BY <2>1, <2>2 DEF LatestSet
<1>2. SetsOf(s) \subseteq ResultSet
  BY DEF SetsOf, TypeOK
<1> QED
  BY <1>1, <1>2 DEF LatestSet
-----------------------------------------------------------------------------
(* Types. *)

\* The wants of a request that passed the checks made on arrival.
LEMMA FreshWants ==
  ASSUME NEW r \in Requests, NEW ts
  PROVE  /\ Fresh(r, ts) \in [DocTypes -> DocRefs]
         /\ \A t \in DocTypes : Fresh(r, ts)[t] \in {<<r, t>>, None}
<1> QED
  BY DEF Fresh, DocRefs, DocIds

LEMMA TypeInit == Init => TypeOK
<1> SUFFICES ASSUME Init PROVE TypeOK
  OBVIOUS
<1>1. NoDocs \in [DocTypes -> DocRefs]
  BY DEF NoDocs, DocRefs
<1>2. NoRow \in Row /\ NoView \in View /\ NoRequest \in RequestRec
  BY <1>1 DEF NoRow, Row, NoView, View, NoRequest, RequestRec, Statuses, Kinds, Modes
<1> QED
  BY <1>1, <1>2 DEF Init, TypeOK, Contexts, Points, Replies

\* A status update changes the status of the request's submission alone, if any.
LEMMA StatusUpdated ==
  ASSUME TypeOK, NEW r \in Requests, NEW s \in Statuses, NEW o,
         UpdateSubmissionStatus(r, s, o)
  PROVE  /\ submissions' \in [Requests -> Row]
         /\ \A q \in Requests : /\ submissions'[q].owner = submissions[q].owner
                                /\ submissions'[q].docs = submissions[q].docs
         /\ \A q \in Requests \ {r} : submissions'[q] = submissions[q]
         /\ submissions'[r].status =
              IF Applied(o) /\ submissions[r].owner = req[r].user
              THEN s ELSE submissions[r].status
<1>1. submissions[r] \in Row
  BY DEF TypeOK
<1> DEFINE new == [submissions[r] EXCEPT !.status = s]
<1>2. new \in Row /\ new.status = s
      /\ new.owner = submissions[r].owner /\ new.docs = submissions[r].docs
  BY <1>1 DEF Row
<1>3. submissions' = IF Applied(o) /\ submissions[r].owner = req[r].user
                     THEN [submissions EXCEPT ![r] = new] ELSE submissions
  BY DEF UpdateSubmissionStatus, RowMatches
<1> HIDE DEF new
<1> QED
  BY <1>2, <1>3 DEF TypeOK

\* Resolving a slot leaves the other slots and requests alone.
LEMMA SlotResolved ==
  ASSUME TypeOK, NEW r \in Requests, NEW t \in DocTypes, NEW id \in DocRefs,
         docs' = [docs EXCEPT ![r][t] = id]
  PROVE  /\ docs' \in [Requests -> [DocTypes -> DocRefs]]
         /\ docs'[r][t] = id
         /\ \A u \in DocTypes \ {t} : docs'[r][u] = docs[r][u]
         /\ \A q \in Requests \ {r} : docs'[q] = docs[q]
<1> DEFINE new == [docs[r] EXCEPT ![t] = id]
<1>1. new \in [DocTypes -> DocRefs] /\ new[t] = id
      /\ \A u \in DocTypes \ {t} : new[u] = docs[r][u]
  BY DEF TypeOK
<1>2. docs' = [docs EXCEPT ![r] = new]
  OBVIOUS
<1> HIDE DEF new
<1> QED
  BY <1>1, <1>2 DEF TypeOK

\* The steps of the handlers keep the types.
LEMMA TypeHandler ==
  ASSUME IndInv, NEW r \in Requests, Receive(r) \/ HandlerStep(r)
  PROVE  TypeOK'
<1> USE DEF IndInv
<1>1. CASE Receive(r)
  <2>1. PICK k \in Kinds, u \in Users, want \in [DocTypes -> DocRefs] : Arrive(r, k, u, want)
    <3>1. CASE CreateRecommendation(r)
      BY <3>1, FreshWants DEF CreateRecommendation, Kinds
    <3>2. CASE UploadDocument(r)
      BY <3>2, FreshWants DEF UploadDocument, Kinds
    <3>3. CASE CreateSubmission(r)
      BY <3>3 DEF CreateSubmission, Kinds
    <3> QED
      BY <1>1, <3>1, <3>2, <3>3 DEF Receive
  <2>2. [kind |-> k, user |-> u, want |-> want] \in RequestRec
    BY <2>1 DEF RequestRec
  <2> QED
    BY <2>1, <2>2 DEF Arrive, TypeOK, Goto, Points, tables, readers
<1>2. CASE RejectFile(r) \/ RejectPreferences(r)
  BY <1>2 DEF RejectFile, RejectPreferences, TypeOK, Return, Goto, Points, Replies, tables, readers
<1>3. CASE StoreObject(r)
  BY <1>3 DEF StoreObject, TypeOK, Return, Goto, Points, Replies, readers
<1>4. CASE InsertDocument(r)
  <2>1. Slot(r) \in DocTypes /\ Target(r) \in DocIds /\ Target(r) \in DocRefs
    BY <1>4, SlotPending DEF InsertDocument, RequestInv
  <2>2. docs' \in [Requests -> [DocTypes -> DocRefs]]
    <3>1. CASE docs' = docs
      BY <3>1 DEF TypeOK
    <3>2. CASE docs' = [docs EXCEPT ![r][Slot(r)] = Target(r)]
      BY <2>1, <3>2, SlotResolved
    <3> QED
      BY <1>4, <3>1, <3>2 DEF InsertDocument
  <2> QED
    BY <1>4, <2>1, <2>2
    DEF InsertDocument, TypeOK, Return, Goto, Note, Points, Replies, readers
<1>5. CASE LookupDocument(r)
  <2>1. docs' \in [Requests -> [DocTypes -> DocRefs]]
    <3>1. CASE docs' = docs
      BY <3>1 DEF TypeOK
    <3>2. CASE docs' = [docs EXCEPT ![r][Slot(r)] = Target(r)]
      BY <3>2, SlotResolved, SlotPending
    <3> QED
      BY <1>5, <3>1, <3>2 DEF LookupDocument
  <2> QED
    BY <1>5, <2>1
    DEF LookupDocument, TypeOK, Return, Goto, Note, Points, Replies, tables, readers
<1>6. CASE InsertSubmission(r)
  <2>1. docs[r] \in [DocTypes -> DocRefs] /\ req[r].user \in Users \cup {None}
    BY DEF TypeOK, RequestRec
  <2>2. \A st \in Statuses : [status |-> st, owner |-> req[r].user, docs |-> docs[r]] \in Row
    BY <2>1 DEF Row
  <2>3. submissions' \in [Requests -> Row]
    BY <1>6, <2>2 DEF InsertSubmission, TypeOK, Statuses
  <2> QED
    BY <1>6, <2>3
    DEF InsertSubmission, TypeOK, Return, Goto, Note, Points, Replies, readers
<1>7. CASE AIAnswers(r)
  BY <1>7 DEF AIAnswers, TypeOK, Goto, Points, tables, readers
<1>8. CASE AIFails(r)
  BY <1>8 DEF AIFails, TypeOK, Goto, Points, Replies, tables, readers
<1>9. CASE StoreResults(r)
  <2>1. NextVersion(r) \in Nat \ {0}
    BY LatestIsStored, NoneIsFresh DEF NextVersion, SetsOf, TypeOK, ResultSet
  <2>2. Publish(r) \subseteq ResultSet
    BY <1>9, <2>1 DEF Publish, StoreResults, ResultInv, TypeOK, ResultSet
  <2> QED
    BY <1>9, <2>2 DEF StoreResults, TypeOK, Return, Goto, Note, Points, Replies, readers
<1>10. CASE MarkCompleted(r)
  <2>1. submissions' \in [Requests -> Row]
    BY <1>10, StatusUpdated DEF MarkCompleted, Statuses
  <2> QED
    BY <1>10, <2>1 DEF MarkCompleted, TypeOK, Return, Goto, Note, Points, Replies, readers
<1>11. CASE MarkFailed(r)
  <2>1. submissions' \in [Requests -> Row]
    BY <1>11, StatusUpdated DEF MarkFailed, Statuses
  <2> QED
    BY <1>11, <2>1 DEF MarkFailed, TypeOK, Return, Goto, Note, Points, Replies, readers
<1> QED
  BY <1>1, <1>2, <1>3, <1>4, <1>5, <1>6, <1>7, <1>8, <1>9, <1>10, <1>11 DEF HandlerStep

\* The steps of readers, clients and the process keep the types.
LEMMA TypeEnvironment ==
  ASSUME IndInv,
         (\E r \in Requests : Disconnect(r)) \/ (\E d \in Readers : ReaderStep(d))
           \/ Crash \/ UNCHANGED vars
  PROVE  TypeOK'
<1> USE DEF IndInv
<1>1. NoView \in View
  BY DEF NoView, View, NoDocs, DocRefs, Statuses
<1>2. CASE \E r \in Requests : Disconnect(r)
  BY <1>2 DEF Disconnect, TypeOK, Contexts, tables, readers
<1>3. CASE \E d \in Readers : ReaderStep(d)
  <2> SUFFICES ASSUME NEW d \in Readers, ReaderStep(d) PROVE TypeOK'
    BY <1>3
  <2>0. view[d] \in View
    BY DEF TypeOK
  <2>1. CASE ReadSubmission(d)
    <3>1. PICK s \in Requests, u \in Users :
            view' = [view EXCEPT ![d] =
                      [NoView EXCEPT !.pc = "docs", !.user = u, !.sub = s,
                       !.status = submissions[s].status, !.docs = submissions[s].docs]]
      BY <2>1 DEF ReadSubmission
    <3>2. submissions[s].status \in Statuses /\ submissions[s].docs \in [DocTypes -> DocRefs]
      BY DEF TypeOK, Row
    <3>3. [NoView EXCEPT !.pc = "docs", !.user = u, !.sub = s,
           !.status = submissions[s].status, !.docs = submissions[s].docs] \in View
      BY <1>1, <3>2 DEF View
    <3> QED
      BY <2>1, <3>1, <3>3 DEF ReadSubmission, TypeOK, tables, handler
  <2>2. CASE ReadDocuments(d)
    <3>1. [view[d] EXCEPT !.pc = "set"] \in View
      BY <2>0 DEF View
    <3>2. view' = [view EXCEPT ![d] = [view[d] EXCEPT !.pc = "set"]]
      BY <2>2 DEF ReadDocuments
    <3> QED
      BY <2>2, <3>1, <3>2 DEF ReadDocuments, TypeOK, tables, handler
  <2>3. CASE ReadLatestSet(d)
    <3>1. CASE Deliver(d, view[d])
      BY <1>1, <2>0, <2>3, <3>1 DEF ReadLatestSet, Deliver, TypeOK, tables, handler
    <3>2. CASE view' = [view EXCEPT ![d].pc = "rows", ![d].set = LatestSet(view[d].sub)]
               /\ UNCHANGED last
      <4> DEFINE new == [view[d] EXCEPT !.pc = "rows", !.set = LatestSet(view[d].sub)]
      <4>1. new \in View
        BY <2>0, LatestIsStored DEF View
      <4>2. view' = [view EXCEPT ![d] = new]
        BY <3>2, <2>0 DEF TypeOK
      <4> QED
        BY <2>3, <3>2, <4>1, <4>2 DEF ReadLatestSet, TypeOK, tables, handler
    <3> QED
      BY <2>3, <3>1, <3>2 DEF ReadLatestSet
  <2>4. CASE ReadResults(d)
    <3>1. PICK rs \in resultSets : Deliver(d, [view[d] EXCEPT !.rows = rs.rows])
      BY <2>4 DEF ReadResults
    <3>2. [view[d] EXCEPT !.rows = rs.rows] \in View
      BY <2>0 DEF View, TypeOK, ResultSet
    <3> QED
      BY <1>1, <2>4, <3>1, <3>2 DEF ReadResults, Deliver, TypeOK, tables, handler
  <2>5. CASE AbandonRead(d)
    BY <1>1, <2>5 DEF AbandonRead, TypeOK, tables, handler
  <2> QED
    BY <2>1, <2>2, <2>3, <2>4, <2>5 DEF ReaderStep
<1>4. CASE Crash
  <2>1. objects' \in [DocIds -> {"absent", "partial", "stored"}]
    BY <1>4 DEF Crash, TypeOK
  <2> QED
    BY <1>1, <1>4, <2>1 DEF Crash, TypeOK, Points, Replies
<1>5. CASE UNCHANGED vars
  BY <1>5 DEF vars, tables, handler, readers, TypeOK
<1> QED
  BY <1>2, <1>3, <1>4, <1>5
-----------------------------------------------------------------------------
(* Requests and documents. *)

LEMMA RequestHandler ==
  ASSUME IndInv, NEW r \in Requests, Receive(r) \/ HandlerStep(r)
  PROVE  RequestInv'
<1> USE DEF IndInv
<1> SUFFICES ASSUME NEW q \in Requests
             PROVE  /\ pc'[q] = "idle" => req'[q] = NoRequest /\ docs'[q] = NoDocs
                    /\ pc'[q] # "idle" => req'[q].kind \in Kinds /\ req'[q].user \in Users
                    /\ Uploads(q)' => \A t \in DocTypes : req'[q].want[t] \in {<<q, t>>, None}
                    /\ pc'[q] = "persist" => Uploads(q)' /\ Pending(q)' # {}
                    /\ pc'[q] \in {"ai", "store", "complete", "fail"} => req'[q].kind \in Modes
  BY DEF RequestInv
<1>0. pc[r] \in Points /\ pc \in [Requests -> Points] /\ req \in [Requests -> RequestRec]
  BY DEF TypeOK
<1>1. CASE Receive(r)
  <2>1. PICK k \in Kinds, u \in Users, want \in [DocTypes -> DocRefs] :
          /\ Arrive(r, k, u, want)
          /\ k # "draft" => \A t \in DocTypes : want[t] \in {<<r, t>>, None}
    <3>1. CASE CreateRecommendation(r)
      BY <3>1, FreshWants DEF CreateRecommendation, Kinds
    <3>2. CASE UploadDocument(r)
      BY <3>2, FreshWants DEF UploadDocument, Kinds
    <3>3. CASE CreateSubmission(r)
      BY <3>3 DEF CreateSubmission, Kinds
    <3> QED
      BY <1>1, <3>1, <3>2, <3>3 DEF Receive
  <2> QED
    BY <1>0, <2>1 DEF Arrive, Goto, RequestInv, Uploads, Pending
<1>2. CASE RejectFile(r) \/ RejectPreferences(r)
  BY <1>0, <1>2 DEF RejectFile, RejectPreferences, Return, Goto, RequestInv, Uploads, Pending
<1>3. CASE StoreObject(r)
  BY <1>0, <1>3 DEF StoreObject, Return, Goto, RequestInv, Uploads, Pending
<1>4. CASE InsertDocument(r)
  <2>1. q # r => docs'[q] = docs[q]
    <3>1. Slot(r) \in DocTypes /\ Target(r) \in DocRefs
      BY SlotPending
    <3>2. CASE docs' = docs
      BY <3>2
    <3>3. CASE docs' = [docs EXCEPT ![r][Slot(r)] = Target(r)]
      BY <3>1, <3>3, SlotResolved
    <3> QED
      BY <1>4, <3>2, <3>3 DEF InsertDocument
  <2>2. pc[r] = "persist" /\ req' = req
        /\ pc' \in {[pc EXCEPT ![r] = "done"], [pc EXCEPT ![r] = "resolve"]}
    BY <1>4 DEF InsertDocument, Return, Goto
  <2> QED
    BY <1>0, <2>1, <2>2 DEF RequestInv, Uploads, Pending
<1>5. CASE LookupDocument(r)
  <2>1. q # r => docs'[q] = docs[q]
    <3>1. Slot(r) \in DocTypes /\ Target(r) \in DocRefs
      BY SlotPending
    <3>2. CASE docs' = docs
      BY <3>2
    <3>3. CASE docs' = [docs EXCEPT ![r][Slot(r)] = Target(r)]
      BY <3>1, <3>3, SlotResolved
    <3> QED
      BY <1>5, <3>2, <3>3 DEF LookupDocument
  <2> QED
    BY <1>0, <1>5, <2>1 DEF LookupDocument, Return, Goto, RequestInv, Uploads, Pending
<1>6. CASE InsertSubmission(r)
  BY <1>0, <1>6 DEF InsertSubmission, Return, Goto, RequestInv, Uploads, Pending, Kinds
<1>7. CASE AIAnswers(r) \/ AIFails(r) \/ StoreResults(r) \/ MarkCompleted(r) \/ MarkFailed(r)
  BY <1>0, <1>7 DEF AIAnswers, AIFails, StoreResults, MarkCompleted, MarkFailed,
                    Return, Goto, RequestInv, Uploads, Pending, tables
<1> QED
  BY <1>1, <1>2, <1>3, <1>4, <1>5, <1>6, <1>7 DEF HandlerStep

LEMMA DocumentHandler ==
  ASSUME IndInv, NEW r \in Requests, Receive(r) \/ HandlerStep(r)
  PROVE  DocumentInv'
<1> USE DEF IndInv
<1>0. /\ pc \in [Requests -> Points] /\ req \in [Requests -> RequestRec]
      /\ docs \in [Requests -> [DocTypes -> DocRefs]]
      /\ objects \in [DocIds -> {"absent", "partial", "stored"}]
      /\ documents \subseteq DocIds
  BY DEF TypeOK
<1>1. CASE Receive(r)
  <2>1. PICK k, u, want : Arrive(r, k, u, want)
    BY <1>1 DEF Receive, CreateRecommendation, UploadDocument, CreateSubmission
  <2> QED
    BY <1>0, <2>1 DEF Arrive, Goto, DocumentInv, DocumentsBacked, Uploads, Target, Slot, Pending,
                      tables, DocIds
<1>2. CASE RejectFile(r) \/ RejectPreferences(r)
  BY <1>0, <1>2 DEF RejectFile, RejectPreferences, Return, Goto, DocumentInv, DocumentsBacked,
                    Uploads, Target, Slot, Pending, tables, DocIds
<1>3. CASE StoreObject(r)
  <2>1. Target(r) = <<r, Slot(r)>> /\ Target(r) \in DocIds /\ Target(r) \notin documents
    BY <1>3, SlotPending, UploadTarget DEF StoreObject, DocumentInv
  <2>2. \A q \in Requests : Target(q)' = Target(q)
    BY <1>3 DEF StoreObject, Target, Slot, Pending
  <2>3. \A q \in Requests \ {r} : pc[q] = "persist" => Target(q) # Target(r)
    BY <2>1, UploadTarget DEF RequestInv
  <2>4. /\ documents' = documents /\ req' = req /\ docs' = docs /\ pc[r] = "resolve"
        /\ \A id \in DocIds \ {Target(r)} : objects'[id] = objects[id]
        /\ \/ pc' = [pc EXCEPT ![r] = "persist"] /\ objects'[Target(r)] = "stored"
           \/ pc' = [pc EXCEPT ![r] = "done"]
    BY <1>0, <1>3, <2>1 DEF StoreObject, Return, Goto
  <2>5. DocumentsBacked'
    BY <1>0, <2>1, <2>4 DEF DocumentInv, DocumentsBacked
  <2>6. \A id \in documents' :
          /\ pc'[id[1]] # "idle" /\ Uploads(id[1])'
          /\ pc'[id[1]] \in {"resolve", "persist"} => docs'[id[1]][id[2]] # None
    BY <1>0, <2>4 DEF DocumentInv, Uploads, DocIds
  <2>7. ASSUME NEW q \in Requests, pc'[q] = "persist" PROVE objects'[Target(q)'] = "stored"
    <3>1. Target(q) \in DocRefs /\ (q # r => pc[q] = "persist")
      BY <1>0, <2>4, <2>7, SlotPending
    <3>2. q # r => Target(q) \in DocIds
      BY <2>7, <3>1, SlotPending DEF RequestInv
    <3> QED
      BY <1>0, <2>2, <2>3, <2>4, <2>7, <3>1, <3>2 DEF DocumentInv
  <2> QED
    BY <2>5, <2>6, <2>7 DEF DocumentInv
<1>4. CASE InsertDocument(r)
  <2>1. /\ Target(r) = <<r, Slot(r)>> /\ Target(r) \in DocIds
        /\ Slot(r) \in DocTypes /\ objects[Target(r)] = "stored" /\ pc[r] = "persist"
    BY <1>4, SlotPending, UploadTarget DEF InsertDocument, RequestInv, DocumentInv
  <2>2. /\ objects' = objects /\ req' = req
        /\ documents' \in {documents, documents \cup {Target(r)}}
        /\ \/ pc' = [pc EXCEPT ![r] = "done"]
           \/ pc' = [pc EXCEPT ![r] = "resolve"] /\ docs' = [docs EXCEPT ![r][Slot(r)] = Target(r)]
        /\ docs' \in {docs, [docs EXCEPT ![r][Slot(r)] = Target(r)]}
    BY <1>4 DEF InsertDocument, Return, Goto
  <2>3. \A q \in Requests \ {r} : docs'[q] = docs[q]
    BY <2>1, <2>2, SlotResolved, SlotPending
  <2>4. pc'[r] = "resolve" => /\ docs'[r][Slot(r)] # None
                              /\ \A t \in DocTypes : docs[r][t] # None => docs'[r][t] # None
    <3> SUFFICES ASSUME pc'[r] = "resolve"
                 PROVE  /\ docs'[r][Slot(r)] # None
                        /\ \A t \in DocTypes : docs[r][t] # None => docs'[r][t] # None
      OBVIOUS
    <3>1. docs' = [docs EXCEPT ![r][Slot(r)] = Target(r)]
      BY <1>0, <2>2
    <3>2. docs'[r][Slot(r)] = Target(r)
          /\ \A t \in DocTypes \ {Slot(r)} : docs'[r][t] = docs[r][t]
      BY <2>1, <3>1, SlotResolved, SlotPending
    <3>3. Target(r) # None
      BY <2>1, NoneIsFresh
    <3> QED
      BY <3>2, <3>3
  <2>5. DocumentsBacked'
    BY <2>1, <2>2 DEF DocumentInv, DocumentsBacked
  <2>6. ASSUME NEW id \in documents'
        PROVE  /\ pc'[id[1]] # "idle" /\ Uploads(id[1])'
               /\ pc'[id[1]] \in {"resolve", "persist"} => docs'[id[1]][id[2]] # None
    <3>1. CASE id \in documents
      BY <1>0, <2>1, <2>2, <2>3, <2>4, <3>1 DEF DocumentInv, Uploads, DocIds
    <3>2. CASE id = Target(r)
      BY <1>0, <1>4, <2>1, <2>2, <2>4, <3>2 DEF RequestInv, Uploads
    <3> QED
      BY <2>2, <2>6, <3>1, <3>2
  <2>7. ASSUME NEW q \in Requests, pc'[q] = "persist" PROVE objects'[Target(q)'] = "stored"
    <3>1. q # r /\ pc[q] = "persist"
      BY <1>0, <2>2, <2>7
    <3>2. Target(q)' = Target(q)
      BY <2>2, <2>3, <3>1 DEF Target, Slot, Pending
    <3> QED
      BY <2>2, <3>1, <3>2 DEF DocumentInv
  <2> QED
    BY <2>5, <2>6, <2>7 DEF DocumentInv
<1>5. CASE LookupDocument(r)
  <2>1. /\ objects' = objects /\ req' = req /\ documents' = documents /\ pc[r] = "resolve"
        /\ pc' \in {pc, [pc EXCEPT ![r] = "done"]} /\ ~Uploads(r)
        /\ docs' \in {docs, [docs EXCEPT ![r][Slot(r)] = Target(r)]}
    BY <1>5 DEF LookupDocument, Return, Goto, tables
  <2>2. \A q \in Requests \ {r} : docs'[q] = docs[q]
    BY <2>1, SlotResolved, SlotPending
  <2>3. \A id \in documents : id[1] \in Requests \ {r}
    BY <1>0, <2>1 DEF DocumentInv, DocIds
  <2>4. ASSUME NEW q \in Requests, pc'[q] = "persist" PROVE objects'[Target(q)'] = "stored"
    <3>1. q # r /\ pc[q] = "persist"
      BY <1>0, <2>1, <2>4
    <3>2. Target(q)' = Target(q)
      BY <2>1, <2>2, <3>1 DEF Target, Slot, Pending
    <3> QED
      BY <2>1, <3>1, <3>2 DEF DocumentInv
  <2> QED
    BY <1>0, <2>1, <2>2, <2>3, <2>4 DEF DocumentInv, DocumentsBacked, Uploads
<1>6. CASE InsertSubmission(r) \/ AIAnswers(r) \/ AIFails(r) \/ StoreResults(r)
           \/ MarkCompleted(r) \/ MarkFailed(r)
  <2>1. /\ UNCHANGED <<objects, documents, req, docs>> /\ pc[r] # "idle"
        /\ \E p \in {"done", "ai", "store", "complete", "fail"} : pc' = [pc EXCEPT ![r] = p]
    BY <1>6 DEF InsertSubmission, AIAnswers, AIFails, StoreResults, MarkCompleted, MarkFailed,
                Return, Goto, tables
  <2> QED
    BY <1>0, <2>1 DEF DocumentInv, DocumentsBacked, Uploads, Target, Slot, Pending, DocIds
<1> QED
  BY <1>1, <1>2, <1>3, <1>4, <1>5, <1>6 DEF HandlerStep

LEMMA LinkHandler ==
  ASSUME IndInv, NEW r \in Requests, Receive(r) \/ HandlerStep(r)
  PROVE  LinkInv'
<1> USE DEF IndInv
<1>0. /\ pc \in [Requests -> Points] /\ req \in [Requests -> RequestRec]
      /\ docs \in [Requests -> [DocTypes -> DocRefs]]
      /\ submissions \in [Requests -> Row] /\ documents \subseteq DocIds
  BY DEF TypeOK
<1> DEFINE Linked(id, t, u) == id # None => id \in documents /\ id[2] = t /\ req[id[1]].user = u
<1>a. \A q \in Requests, t \in DocTypes :
        /\ Linked(docs[q][t], t, req[q].user)
        /\ Linked(submissions[q].docs[t], t, submissions[q].owner)
  BY DEF LinkInv, LinksOwned
<1>b. SUFFICES \A q \in Requests, t \in DocTypes :
                 /\ Linked(docs[q][t], t, req[q].user)'
                 /\ Linked(submissions[q].docs[t], t, submissions[q].owner)'
  BY DEF LinkInv, LinksOwned
<1>1. CASE Receive(r)
  <2>1. PICK k, u, want : Arrive(r, k, u, want)
    BY <1>1 DEF Receive, CreateRecommendation, UploadDocument, CreateSubmission
  <2>2. \A id \in documents : req'[id[1]] = req[id[1]]
    BY <1>0, <2>1 DEF Arrive, DocumentInv, DocIds
  <2>3. \A t \in DocTypes : docs[r][t] = None
    BY <2>1 DEF Arrive, RequestInv, NoDocs
  <2> QED
    BY <1>0, <1>a, <2>1, <2>2, <2>3 DEF Arrive, tables
<1>2. CASE InsertDocument(r)
  <2>1. /\ Target(r) = <<r, Slot(r)>> /\ Target(r) \in DocRefs /\ Slot(r) \in DocTypes
    BY <1>2, SlotPending, UploadTarget DEF InsertDocument, RequestInv
  <2>2. UNCHANGED <<req, submissions>> /\ documents \subseteq documents'
    BY <1>2 DEF InsertDocument
  <2>3. CASE docs' = docs
    BY <1>a, <2>2, <2>3
  <2>4. CASE /\ docs' = [docs EXCEPT ![r][Slot(r)] = Target(r)]
             /\ Target(r) \in documents'
    <3>1. \A q \in Requests, t \in DocTypes :
            docs'[q][t] = IF q = r /\ t = Slot(r) THEN Target(r) ELSE docs[q][t]
      BY <2>1, <2>4, SlotResolved
    <3> QED
      BY <1>a, <2>1, <2>2, <2>4, <3>1
  <2> QED
    BY <1>2, <2>3, <2>4 DEF InsertDocument, Applied
<1>3. CASE LookupDocument(r)
  <2>1. Target(r) \in DocRefs /\ Slot(r) \in DocTypes
    BY SlotPending
  <2>2. UNCHANGED <<req, submissions, documents>>
    BY <1>3 DEF LookupDocument, tables
  <2>3. CASE docs' = docs
    BY <1>a, <2>2, <2>3
  <2>4. CASE /\ docs' = [docs EXCEPT ![r][Slot(r)] = Target(r)]
             /\ Found(Target(r), req[r].user) /\ Target(r)[2] = Slot(r)
    <3>1. \A q \in Requests, t \in DocTypes :
            docs'[q][t] = IF q = r /\ t = Slot(r) THEN Target(r) ELSE docs[q][t]
      BY <2>1, <2>4, SlotResolved
    <3> QED
      BY <1>a, <2>1, <2>2, <2>4, <3>1 DEF Found
  <2> QED
    BY <1>3, <2>3, <2>4 DEF LookupDocument
<1>4. CASE InsertSubmission(r)
  <2>1. UNCHANGED <<req, docs, documents>>
    BY <1>4 DEF InsertSubmission
  <2>2. \A q \in Requests \ {r} : submissions'[q] = submissions[q]
    BY <1>0, <1>4 DEF InsertSubmission
  <2>3. \/ submissions'[r] = submissions[r]
        \/ submissions'[r].docs = docs[r] /\ submissions'[r].owner = req[r].user
    BY <1>0, <1>4 DEF InsertSubmission
  <2> QED
    BY <1>a, <2>1, <2>2, <2>3
<1>5. CASE MarkCompleted(r) \/ MarkFailed(r)
  <2>1. UNCHANGED <<req, docs, documents>>
    BY <1>5 DEF MarkCompleted, MarkFailed
  <2>2. PICK st \in Statuses, o \in Outcomes(ctx[r]) : UpdateSubmissionStatus(r, st, o)
    BY <1>5 DEF MarkCompleted, MarkFailed, Statuses
  <2>3. \A q \in Requests : /\ submissions'[q].owner = submissions[q].owner
                             /\ submissions'[q].docs = submissions[q].docs
    BY <2>2, StatusUpdated
  <2> QED
    BY <1>a, <2>1, <2>3
<1>6. CASE RejectFile(r) \/ RejectPreferences(r) \/ StoreObject(r) \/ AIAnswers(r) \/ AIFails(r)
           \/ StoreResults(r)
  <2>1. UNCHANGED <<req, docs, documents, submissions>>
    BY <1>6 DEF RejectFile, RejectPreferences, StoreObject, AIAnswers, AIFails, StoreResults, tables
  <2> QED
    BY <1>a, <2>1
<1> QED
  BY <1>1, <1>2, <1>3, <1>4, <1>5, <1>6 DEF HandlerStep
-----------------------------------------------------------------------------
(* Submissions and results. *)

LEMMA SubmissionHandler ==
  ASSUME IndInv, NEW r \in Requests, Receive(r) \/ HandlerStep(r)
  PROVE  SubmissionInv'
<1> USE DEF IndInv
<1>0. /\ pc \in [Requests -> Points] /\ req \in [Requests -> RequestRec]
      /\ reply \in [Requests -> Replies] /\ submissions \in [Requests -> Row]
      /\ ctx \in [Requests -> Contexts]
  BY DEF TypeOK
\* What the invariant says of one request.
<1> DEFINE Good(q) ==
      /\ pc[q] \in {"idle", "resolve", "persist"} => submissions[q] = NoRow
      /\ pc[q] \in {"ai", "store", "complete", "fail"} =>
           submissions[q].status = "processing" /\ submissions[q].owner = req[q].user
      /\ reply[q] = "created" => pc[q] = "done"
      /\ submissions[q].status = "processing" /\ ~InFlight(q) =>
           reply[q] = "killed" \/ ctx[q] = "cancelled" \/ q \in dbFault
      /\ reply[q] = "created" =>
           /\ req[q].kind = "upload" => \E t \in DocTypes : <<q, t>> \in documents
           /\ req[q].kind = "draft"  => submissions[q].status = "draft"
           /\ req[q].kind \in Modes  => submissions[q].status = "completed"
<1>a. \A q \in Requests : Good(q)
  BY DEF SubmissionInv, StuckHasCause, CreatedIsDurable, Modes
<1>b. SUFFICES \A q \in Requests : Good(q)'
  <2>1. \A q \in Requests : pc'[q] # "idle" => req'[q].kind \in Kinds
    BY RequestHandler DEF RequestInv
  <2> QED
    BY <2>1 DEF SubmissionInv, StuckHasCause, CreatedIsDurable, Kinds, Modes
\* A step of r leaves the other requests as they are.
<1>c. ASSUME NEW q \in Requests \ {r} PROVE Good(q)'
  <2>1. /\ pc'[q] = pc[q] /\ req'[q] = req[q] /\ reply'[q] = reply[q]
        /\ ctx' = ctx /\ dbFault \subseteq dbFault' /\ documents \subseteq documents'
    BY <1>0, <1>c DEF Receive, CreateRecommendation, UploadDocument, CreateSubmission, Arrive,
       HandlerStep, RejectFile, StoreObject, InsertDocument, LookupDocument, RejectPreferences,
       InsertSubmission, AIAnswers, AIFails, StoreResults, MarkCompleted, MarkFailed,
       Return, Goto, Note, tables
  <2>2. submissions'[q] = submissions[q]
    BY <1>0, <1>c DEF Receive, CreateRecommendation, UploadDocument, CreateSubmission, Arrive,
       HandlerStep, RejectFile, StoreObject, InsertDocument, LookupDocument, RejectPreferences,
       InsertSubmission, AIAnswers, AIFails, StoreResults, MarkCompleted, MarkFailed,
       UpdateSubmissionStatus, tables
  <2>3. Good(q)
    BY <1>a
  <2> QED
    BY <2>1, <2>2, <2>3 DEF InFlight
<1>d. SUFFICES Good(r)'
  BY <1>c
<1>e. Good(r) /\ pc[r] \in Points
  BY <1>0, <1>a
<1>1. CASE Receive(r)
  <2>1. /\ UNCHANGED <<submissions, reply>> /\ pc[r] = "idle" /\ pc' = [pc EXCEPT ![r] = "resolve"]
    BY <1>1 DEF Receive, CreateRecommendation, UploadDocument, CreateSubmission, Arrive, Goto, tables
  <2> QED
    BY <1>0, <1>e, <2>1 DEF InFlight, NoRow
<1>2. CASE RejectFile(r) \/ RejectPreferences(r) \/ StoreObject(r)
  BY <1>0, <1>2, <1>e DEF RejectFile, RejectPreferences, StoreObject, Return, Goto, InFlight,
                          tables, NoRow
<1>3. CASE InsertDocument(r)
  <2>1. Target(r) = <<r, Slot(r)>> /\ Slot(r) \in DocTypes
    BY <1>3, SlotPending, UploadTarget DEF InsertDocument, RequestInv
  <2>2. /\ UNCHANGED <<submissions, req, ctx>> /\ pc[r] = "persist" /\ submissions[r] = NoRow
        /\ \/ pc'[r] = "done" /\ reply'[r] = "internal"
           \/ pc'[r] = "done" /\ reply'[r] = "created" /\ req[r].kind = "upload"
              /\ Target(r) \in documents'
           \/ pc'[r] = "resolve" /\ reply' = reply
    BY <1>0, <1>3, <1>e DEF InsertDocument, Return, Goto, Applied
  <2> QED
    BY <1>e, <2>1, <2>2 DEF NoRow, Modes
<1>4. CASE LookupDocument(r)
  BY <1>0, <1>4, <1>e DEF LookupDocument, Return, Goto, InFlight, tables, NoRow
<1>5. CASE InsertSubmission(r)
  <2>1. PICK o \in Outcomes(ctx[r]) :
          /\ submissions' =
               IF Applied(o)
               THEN [submissions EXCEPT ![r] =
                      [status |-> IF Uploads(r) THEN "processing" ELSE "draft",
                       owner |-> req[r].user, docs |-> docs[r]]]
               ELSE submissions
          /\ CASE o # "ok"                -> Return(r, "internal")
               [] o = "ok" /\ Uploads(r)  -> Goto(r, "ai") /\ UNCHANGED reply
               [] o = "ok" /\ ~Uploads(r) -> Return(r, "created")
          /\ Note(r, o)
    BY <1>5 DEF InsertSubmission
  <2>2. pc[r] = "resolve" /\ UNCHANGED <<req, ctx, documents>> /\ submissions[r] = NoRow
    BY <1>5, <1>e DEF InsertSubmission
  <2>3. CASE o = "ok"
    BY <1>0, <1>e, <2>1, <2>2, <2>3
    DEF Return, Goto, InFlight, Uploads, Applied, Kinds, Modes
  <2>4. CASE o # "ok"
    BY <1>0, <1>e, <2>1, <2>2, <2>4
    DEF Return, Goto, Note, InFlight, NoRow, Outcomes, Contexts
  <2> QED
    BY <2>3, <2>4
<1>6. CASE AIAnswers(r) \/ AIFails(r) \/ StoreResults(r)
  BY <1>0, <1>6, <1>e DEF AIAnswers, AIFails, StoreResults, Goto, InFlight, tables
<1>7. CASE MarkCompleted(r)
  <2>2. pc[r] = "complete" /\ UNCHANGED <<req, ctx, documents>> /\ req[r].kind \in Modes
    BY <1>7 DEF MarkCompleted, RequestInv
  <2>a. RowMatches(r)
    BY <1>e, <2>2 DEF RowMatches
  <2>1. PICK o \in Outcomes(ctx[r]) :
          /\ UpdateSubmissionStatus(r, "completed", o) /\ Note(r, o)
          /\ Return(r, IF o = "ok" THEN "created" ELSE "internal")
    BY <1>7, <2>a DEF MarkCompleted
  <2>3. submissions'[r].status = IF Applied(o) THEN "completed" ELSE "processing"
    BY <1>e, <2>1, <2>2, StatusUpdated DEF Statuses
  <2> QED
    BY <1>0, <1>e, <2>1, <2>2, <2>3
    DEF Return, Goto, Note, InFlight, Outcomes, Applied, Contexts, Modes
<1>8. CASE MarkFailed(r)
  <2>1. PICK o \in Outcomes(ctx[r]) : UpdateSubmissionStatus(r, "failed", o) /\ Note(r, o)
    BY <1>8 DEF MarkFailed
  <2>2. pc[r] = "fail" /\ UNCHANGED <<req, ctx, documents, reply>>
    BY <1>8 DEF MarkFailed
  <2>3. submissions'[r].status = IF Applied(o) THEN "failed" ELSE "processing"
    BY <1>e, <2>1, <2>2, StatusUpdated DEF Statuses
  <2> QED
    BY <1>0, <1>8, <1>e, <2>1, <2>2, <2>3
    DEF MarkFailed, Goto, Note, InFlight, Outcomes, Applied, Contexts
<1> QED
  BY <1>1, <1>2, <1>3, <1>4, <1>5, <1>6, <1>7, <1>8 DEF HandlerStep

LEMMA ResultHandler ==
  ASSUME IndInv, NEW r \in Requests, Receive(r) \/ HandlerStep(r)
  PROVE  ResultInv'
<1> USE DEF IndInv
<1>0. /\ pc \in [Requests -> Points] /\ submissions \in [Requests -> Row]
      /\ answer \in [Requests -> {None} \cup SUBSET Programs] /\ resultSets \subseteq ResultSet
  BY DEF TypeOK
\* What the invariant says of the result sets of one request.
<1> DEFINE Unstored(q) == pc[q] \in {"idle", "resolve", "persist", "ai", "store"} => SetsOf(q) = {}
           AtMostOne(q) == \A a, b \in SetsOf(q) : a = b
           Whole(q) == answer[q] # None /\ StoredRows(q, answer[q])
           Good(q) == /\ Unstored(q) /\ AtMostOne(q)
                      /\ pc[q] = "store" => answer[q] \in (SUBSET Programs) \ {{}}
                      /\ pc[q] = "complete" => Whole(q)
                      /\ submissions[q].status = "completed" => Whole(q)
<1>a. \A q \in Requests : Good(q)
  BY DEF ResultInv, CompletedIsWhole, SetsOf
<1>b. SUFFICES \A q \in Requests : Good(q)'
  <2>1. resultSets' \subseteq ResultSet
    BY TypeHandler DEF TypeOK
  <2>2. \A rs \in resultSets' : rs.submission \in Requests /\ rs \in SetsOf(rs.submission)'
    BY <2>1 DEF ResultSet, SetsOf
  <2> QED
    BY <2>2 DEF ResultInv, CompletedIsWhole, SetsOf
<1>1. CASE StoreResults(r)
  <2>1. PICK o \in Outcomes(ctx[r]) :
          /\ resultSets' = IF Applied(o) THEN Publish(r) ELSE resultSets
          /\ pc' = [pc EXCEPT ![r] = IF o = "ok" THEN "complete" ELSE "fail"]
    BY <1>1 DEF StoreResults, Goto
  <2>2. /\ UNCHANGED <<answer, submissions>> /\ pc[r] = "store" /\ SetsOf(r) = {}
        /\ answer[r] \in (SUBSET Programs) \ {{}}
    BY <1>1, <1>a DEF StoreResults
  <2> DEFINE new == [submission |-> r, version |-> 1, rows |-> answer[r]]
  <2>3. Publish(r) = resultSets \cup {new}
    BY <2>2 DEF Publish, NextVersion
  <2>4. SetsOf(r)' = IF Applied(o) THEN {new} ELSE {}
    BY <2>1, <2>2, <2>3 DEF SetsOf
  <2>5. ASSUME NEW q \in Requests \ {r} PROVE Good(q)'
    <3>1. SetsOf(q)' = SetsOf(q)
      BY <2>1, <2>3 DEF SetsOf
    <3>2. pc'[q] = pc[q] /\ answer'[q] = answer[q] /\ submissions'[q] = submissions[q]
      BY <1>0, <2>1, <2>2
    <3>3. Good(q)
      BY <1>a
    <3> QED
      BY <3>1, <3>2, <3>3 DEF StoredRows
  <2>6. Good(r)'
    <3>1. pc'[r] \in {"complete", "fail"} /\ (pc'[r] = "complete" => Applied(o))
      BY <1>0, <2>1 DEF Applied
    <3>2. submissions'[r].status # "completed"
      BY <2>2 DEF SubmissionInv
    <3>3. answer[r] # None
      BY <2>2, NoneIsFresh
    <3>4. Unstored(r)' /\ AtMostOne(r)'
      BY <2>4, <3>1
    <3>5. ASSUME pc'[r] = "complete" PROVE Whole(r)'
      <4>1. SetsOf(r)' = {new} /\ answer'[r] = answer[r] /\ answer[r] # {}
        BY <2>2, <2>4, <3>1, <3>5
      <4> QED
        BY <3>3, <4>1 DEF StoredRows
    <3> QED
      BY <3>1, <3>2, <3>4, <3>5
  <2> QED
    BY <2>5, <2>6
<1>2. CASE UNCHANGED resultSets
  <2>1. \A q \in Requests : SetsOf(q)' = SetsOf(q)
    BY <1>2 DEF SetsOf
  <2>2. ASSUME UNCHANGED answer, NEW q \in Requests,
               pc'[q] \in {"idle", "resolve", "persist", "ai", "store"} =>
                 pc[q] \in {"idle", "resolve", "persist", "ai", "store"},
               pc'[q] \in {"store", "complete"} => pc'[q] = pc[q],
               submissions'[q].status = "completed" =>
                 submissions[q].status = "completed" \/ pc[q] = "complete"
        PROVE  Good(q)'
    <3>1. Good(q)
      BY <1>a
    <3> QED
      BY <2>1, <2>2, <3>1 DEF StoredRows
  <2>3. CASE Receive(r)
    BY <1>0, <2>2, <2>3 DEF Receive, CreateRecommendation, UploadDocument, CreateSubmission, Arrive,
                            Goto, tables
  <2>4. CASE RejectFile(r) \/ RejectPreferences(r) \/ StoreObject(r) \/ InsertDocument(r)
             \/ LookupDocument(r) \/ AIFails(r)
    <3>1. UNCHANGED <<answer, submissions>> /\ pc[r] \in {"resolve", "persist", "ai"}
          /\ \E p \in {"resolve", "persist", "done", "fail"} : pc' = [pc EXCEPT ![r] = p] \/ pc' = pc
      BY <2>4 DEF RejectFile, RejectPreferences, StoreObject, InsertDocument, LookupDocument,
                  AIFails, Return, Goto, tables
    <3> QED
      BY <1>0, <2>2, <3>1
  <2>5. CASE InsertSubmission(r)
    <3>1. UNCHANGED answer /\ pc[r] = "resolve"
          /\ \E p \in {"done", "ai"} : pc' = [pc EXCEPT ![r] = p]
      BY <2>5 DEF InsertSubmission, Return, Goto
    <3>2. \A q \in Requests : submissions'[q].status = "completed" =>
                               submissions[q].status = "completed"
      BY <1>0, <2>5 DEF InsertSubmission
    <3> QED
      BY <1>0, <2>2, <3>1, <3>2
  <2>6. CASE AIAnswers(r)
    <3>1. PICK rows \in SUBSET Programs :
            /\ answer' = [answer EXCEPT ![r] = rows]
            /\ pc' = [pc EXCEPT ![r] = IF rows = {} THEN "complete" ELSE "store"]
      BY <2>6 DEF AIAnswers, Goto
    <3>2. pc[r] = "ai" /\ UNCHANGED submissions
      BY <2>6 DEF AIAnswers, tables
    <3>3. SetsOf(r) = {} /\ submissions[r].status # "completed"
      BY <1>a, <3>2 DEF SubmissionInv
    <3>4. answer'[r] = rows /\ rows # None
      BY <1>0, <3>1, NoneIsFresh
    <3>5. Good(r)'
      <4>1. SetsOf(r)' = {} /\ submissions'[r].status # "completed"
        BY <2>1, <3>2, <3>3
      <4>2. pc'[r] = IF rows = {} THEN "complete" ELSE "store"
        BY <1>0, <3>1
      <4>3. StoredRows(r, answer[r])' <=> rows = {} \/ {} = {[submission |-> r, version |-> 1, rows |-> rows]}
        BY <3>4, <4>1 DEF StoredRows
      <4> QED
        BY <3>4, <4>1, <4>2, <4>3
    <3>6. ASSUME NEW q \in Requests \ {r} PROVE Good(q)'
      <4>1. pc'[q] = pc[q] /\ answer'[q] = answer[q]
        BY <1>0, <3>1
      <4>2. Good(q)
        BY <1>a
      <4> QED
        BY <2>1, <3>2, <4>1, <4>2 DEF StoredRows
    <3> QED
      BY <3>5, <3>6
  <2>7. CASE MarkCompleted(r) \/ MarkFailed(r)
    <3>1. UNCHANGED answer /\ pc' = [pc EXCEPT ![r] = "done"]
      BY <2>7 DEF MarkCompleted, MarkFailed, Return, Goto
    <3>2. \A q \in Requests : submissions'[q].status = "completed" =>
                submissions[q].status = "completed" \/ pc[q] = "complete"
      BY <1>0, <2>7, StatusUpdated DEF MarkCompleted, MarkFailed, Statuses
    <3> QED
      BY <1>0, <2>2, <3>1, <3>2
  <2> QED
    BY <1>0, <2>3, <2>4, <2>5, <2>6, <2>7, <1>1 DEF HandlerStep
<1> QED
  BY <1>1, <1>2 DEF Receive, CreateRecommendation, UploadDocument, CreateSubmission, Arrive,
     HandlerStep, RejectFile, StoreObject, InsertDocument, LookupDocument, RejectPreferences,
     InsertSubmission, AIAnswers, AIFails, MarkCompleted, MarkFailed, tables
-----------------------------------------------------------------------------
(* Readers, clients and the process, and the invariant. *)

\* What these steps may change of the tables and handlers.
LEMMA EnvironmentStep ==
  ASSUME IndInv,
         (\E r \in Requests : Disconnect(r)) \/ (\E d \in Readers : ReaderStep(d))
           \/ Crash \/ UNCHANGED vars
  PROVE  /\ UNCHANGED <<documents, submissions, resultSets, req, docs, answer, dbFault>>
         /\ \A r \in Requests :
              /\ \/ pc'[r] = pc[r] /\ reply'[r] = reply[r] /\ (InFlight(r)' = InFlight(r))
                 \/ pc[r] # "idle" /\ pc'[r] = "done" /\ reply'[r] = "killed"
              /\ ctx[r] = "cancelled" => ctx'[r] = "cancelled"
         /\ \A id \in documents : objects'[id] = "stored"
         /\ \A r \in Requests : pc'[r] = "persist" => objects'[Target(r)] = "stored"
<1> USE DEF IndInv
<1>0. /\ pc \in [Requests -> Points] /\ reply \in [Requests -> Replies]
      /\ ctx \in [Requests -> Contexts]
      /\ objects \in [DocIds -> {"absent", "partial", "stored"}] /\ documents \subseteq DocIds
  BY DEF TypeOK
<1>1. CASE \E r \in Requests : Disconnect(r)
  BY <1>0, <1>1 DEF Disconnect, DocumentInv, DocumentsBacked, InFlight, tables
<1>2. CASE (\E d \in Readers : ReaderStep(d)) \/ UNCHANGED vars
  <2>1. UNCHANGED <<tables, handler>>
    BY <1>2 DEF ReaderStep, ReadSubmission, ReadDocuments, ReadLatestSet, ReadResults, AbandonRead,
                vars
  <2> QED
    BY <1>0, <2>1 DEF DocumentInv, DocumentsBacked, InFlight, tables, handler
<1>3. CASE Crash
  <2>1. PICK torn \in SUBSET BeingWritten :
          objects' = [id \in DocIds |-> IF id \in torn THEN "partial" ELSE objects[id]]
    BY <1>3 DEF Crash
  <2>2. torn \cap documents = {}
    <3> SUFFICES ASSUME NEW q \in Requests,
                        pc[q] = "resolve", Uploads(q), Pending(q) # {}, Target(q) \in documents
                 PROVE  FALSE
      BY DEF BeingWritten
    <3> QED
      BY SlotPending, UploadTarget DEF DocumentInv
  <2>3. \A r \in Requests : pc'[r] # "persist"
    BY <1>0, <1>3 DEF Crash, InFlight
  <2>4. \A id \in documents : objects'[id] = "stored"
    BY <1>0, <2>1, <2>2 DEF DocumentInv, DocumentsBacked
  <2> QED
    BY <1>0, <1>3, <2>3, <2>4 DEF Crash, InFlight
<1> QED
  BY <1>1, <1>2, <1>3

LEMMA SafetyEnvironment ==
  ASSUME IndInv,
         (\E r \in Requests : Disconnect(r)) \/ (\E d \in Readers : ReaderStep(d))
           \/ Crash \/ UNCHANGED vars
  PROVE  RequestInv' /\ DocumentInv' /\ LinkInv' /\ SubmissionInv' /\ ResultInv'
<1> USE DEF IndInv
<1>0. pc \in [Requests -> Points] /\ documents \subseteq DocIds /\ resultSets \subseteq ResultSet
  BY DEF TypeOK
<1>1. /\ UNCHANGED <<documents, submissions, resultSets, req, docs, answer, dbFault>>
      /\ \A r \in Requests :
           /\ \/ pc'[r] = pc[r] /\ reply'[r] = reply[r] /\ (InFlight(r)' = InFlight(r))
              \/ pc[r] # "idle" /\ pc'[r] = "done" /\ reply'[r] = "killed"
           /\ ctx[r] = "cancelled" => ctx'[r] = "cancelled"
      /\ \A id \in documents : objects'[id] = "stored"
      /\ \A r \in Requests : pc'[r] = "persist" => objects'[Target(r)] = "stored"
  BY EnvironmentStep
<1>2. RequestInv'
  BY <1>1 DEF RequestInv, Uploads, Pending
<1>3. DocumentInv'
  <2>1. \A r \in Requests : Target(r)' = Target(r)
    BY <1>1 DEF Target, Slot, Pending
  <2> QED
    BY <1>0, <1>1, <2>1 DEF DocumentInv, DocumentsBacked, Uploads, DocIds
<1>4. LinkInv'
  BY <1>1 DEF LinkInv, LinksOwned
<1>5. SubmissionInv'
  <2>1. StuckHasCause'
    BY <1>1 DEF SubmissionInv, StuckHasCause
  <2>2. CreatedIsDurable'
    BY <1>1 DEF SubmissionInv, CreatedIsDurable
  <2> QED
    BY <1>1, <2>1, <2>2 DEF SubmissionInv
<1>6. ResultInv'
  BY <1>0, <1>1 DEF ResultInv, CompletedIsWhole, StoredRows, SetsOf, ResultSet
<1> QED
  BY <1>2, <1>3, <1>4, <1>5, <1>6

LEMMA IndInit == Init => IndInv
<1> SUFFICES ASSUME Init PROVE IndInv
  OBVIOUS
<1>1. \A r \in Requests : /\ pc[r] = "idle" /\ req[r] = NoRequest /\ docs[r] = NoDocs
                           /\ reply[r] = "none" /\ submissions[r] = NoRow
  BY DEF Init
<1>2. RequestInv
  BY <1>1 DEF RequestInv, Uploads, NoRequest, NoDocs
<1>3. DocumentInv
  BY <1>1 DEF Init, DocumentInv, DocumentsBacked
<1>4. LinkInv
  BY <1>1 DEF LinkInv, LinksOwned, NoDocs, NoRow
<1>5. SubmissionInv
  <2>1. \A r \in Requests : reply[r] # "created" /\ submissions[r].status = "absent"
    BY <1>1 DEF NoRow
  <2>2. StuckHasCause /\ CreatedIsDurable
    BY <2>1 DEF StuckHasCause, CreatedIsDurable
  <2> QED
    BY <1>1, <2>1, <2>2 DEF SubmissionInv
<1>6. ResultInv
  BY <1>1 DEF Init, ResultInv, CompletedIsWhole, NoRow
<1> QED
  BY TypeInit, <1>2, <1>3, <1>4, <1>5, <1>6 DEF IndInv

LEMMA IndStep == IndInv /\ [Next]_vars => IndInv'
<1> SUFFICES ASSUME IndInv, [Next]_vars PROVE IndInv'
  OBVIOUS
<1>1. CASE \E r \in Requests : Receive(r) \/ HandlerStep(r)
  BY <1>1, TypeHandler, RequestHandler, DocumentHandler, LinkHandler, SubmissionHandler,
     ResultHandler DEF IndInv
<1>2. CASE (\E r \in Requests : Disconnect(r)) \/ (\E d \in Readers : ReaderStep(d))
             \/ Crash \/ UNCHANGED vars
  BY <1>2, TypeEnvironment, SafetyEnvironment DEF IndInv
<1> QED
  BY <1>1, <1>2 DEF Next

LEMMA IndInvariant == Spec => []IndInv
<1> QED
  BY IndInit, IndStep, PTL DEF Spec
-----------------------------------------------------------------------------
(* Theorems. *)

\* Every variable keeps its type whatever the handlers, readers, clients and
\* crashes do; a result set in particular has a positive version.
THEOREM TypeCorrect == Spec => []TypeOK
<1>1. IndInv => TypeOK
  BY DEF IndInv
<1> QED
  BY <1>1, IndInvariant, PTL

\* UploadDocument and uploadAndPersistDocument never leave a row of documents
\* whose object is missing or incomplete, at any number of requests.
THEOREM RowsAreBacked == Spec => []DocumentsBacked
<1>1. IndInv => DocumentsBacked
  BY DEF IndInv, DocumentInv
<1> QED
  BY <1>1, IndInvariant, PTL

\* CreateSubmission and processRecommendation link a submission only to recorded
\* documents of its owner, each in the slot of its type.
THEOREM LinksAreOwned == Spec => []LinksOwned
<1>1. IndInv => LinksOwned
  BY DEF IndInv, LinkInv
<1> QED
  BY <1>1, IndInvariant, PTL

\* A completed submission has exactly the rows of its AI answer stored.
THEOREM CompletedAreWhole == Spec => []CompletedIsWhole
<1>1. IndInv => CompletedIsWhole
  BY DEF IndInv, ResultInv
<1> QED
  BY <1>1, IndInvariant, PTL

\* What a 201 promised is in its table for good.
THEOREM CreatedAreDurable == Spec => []CreatedIsDurable
<1>1. IndInv => CreatedIsDurable
  BY DEF IndInv, SubmissionInv
<1> QED
  BY <1>1, IndInvariant, PTL

\* A submission abandoned in processing has lost its handler, its client or a
\* call of the database.
THEOREM StuckHaveCause == Spec => []StuckHasCause
<1>1. IndInv => StuckHasCause
  BY DEF IndInv, SubmissionInv
<1> QED
  BY <1>1, IndInvariant, PTL
-----------------------------------------------------------------------------
(* The refinement of SubmissionLifecycle. *)

\* While nothing is stored for anyone, nothing is published.
LEMMA RefinementInit == Init => Lifecycle!LifeInit
<1> SUFFICES ASSUME Init PROVE Lifecycle!LifeInit
  OBVIOUS
<1>1. \A r \in Requests : submissions[r].status = "absent" /\ SetsOf(r) = {}
  BY DEF Init, NoRow, SetsOf
<1> QED
  BY <1>1 DEF Lifecycle!LifeInit

\* A handler's step creates, publishes, settles, or changes nothing seen.
LEMMA RefinementHandler ==
  ASSUME IndInv, NEW r \in Requests, Receive(r) \/ HandlerStep(r)
  PROVE  [Lifecycle!LifeNext]_(Lifecycle!lifeVars)
<1> USE DEF IndInv
<1>0. submissions \in [Requests -> Row] /\ pc \in [Requests -> Points]
  BY DEF TypeOK
<1> DEFINE status == [q \in Requests |-> submissions[q].status]
           Rows(q) == IF SetsOf(q) = {} THEN None ELSE LatestSet(q).rows
           result == [q \in Requests |-> Rows(q)]
<1>1. ASSUME UNCHANGED resultSets PROVE UNCHANGED result
  BY <1>1 DEF SetsOf, LatestSet
<1>2. CASE InsertSubmission(r)
  <2>1. PICK st \in {"draft", "processing"} :
          \/ UNCHANGED submissions
          \/ /\ submissions'[r].status = st
             /\ \A q \in Requests \ {r} : submissions'[q] = submissions[q]
    BY <1>0, <1>2 DEF InsertSubmission
  <2>2. status[r] = "absent"
    BY <1>2 DEF InsertSubmission, SubmissionInv, NoRow
  <2>3. UNCHANGED result
    BY <1>1, <1>2 DEF InsertSubmission
  <2>4. CASE UNCHANGED submissions
    BY <2>3, <2>4 DEF Lifecycle!lifeVars
  <2>5. CASE /\ submissions'[r].status = st
             /\ \A q \in Requests \ {r} : submissions'[q] = submissions[q]
    <3>1. status' = [status EXCEPT ![r] = st]
      BY <2>5
    <3>2. Lifecycle!Create(r, st)
      BY <2>2, <2>3, <3>1 DEF Lifecycle!Create
    <3> QED
      BY <3>2 DEF Lifecycle!LifeNext
  <2> QED
    BY <2>1, <2>4, <2>5
<1>3. CASE StoreResults(r)
  <2>1. UNCHANGED status /\ status[r] = "processing"
        /\ SetsOf(r) = {} /\ answer[r] \in (SUBSET Programs) \ {{}}
    BY <1>3 DEF StoreResults, SubmissionInv, ResultInv, SetsOf
  <2>2. CASE UNCHANGED resultSets
    BY <1>1, <2>1, <2>2 DEF Lifecycle!lifeVars
  <2>3. CASE resultSets' = Publish(r)
    <3> DEFINE new == [submission |-> r, version |-> NextVersion(r), rows |-> answer[r]]
    <3>1. SetsOf(r)' = {new}
      BY <2>1, <2>3 DEF SetsOf, Publish
    <3>2. \A q \in Requests \ {r} : SetsOf(q)' = SetsOf(q)
      BY <2>3 DEF SetsOf, Publish
    <3>3. LatestSet(r)' = new
      <4>1. \A o \in {new} : o.version <= new.version
        BY <2>1 DEF NextVersion
      <4> QED
        BY <3>1, <4>1 DEF LatestSet
    <3>4. result' = [result EXCEPT ![r] = answer[r]]
      <4>1. Rows(r)' = answer[r]
        BY <3>1, <3>3
      <4>2. ASSUME NEW q \in Requests \ {r} PROVE Rows(q)' = Rows(q)
        <5>1. SetsOf(q)' = SetsOf(q)
          BY <3>2
        <5>2. ASSUME NEW rs \in SetsOf(q) PROVE LatestSet(q)' = rs /\ LatestSet(q) = rs
          <6>1. LatestSet(q) = rs /\ rs.version <= rs.version
            BY LatestIsStored DEF SetsOf, TypeOK, ResultSet
          <6>2. SetsOf(q)' = {rs}
            BY <5>1 DEF SetsOf, ResultInv
          <6> QED
            BY <6>1, <6>2 DEF LatestSet
        <5> QED
          BY <5>1, <5>2
      <4> QED
        BY <4>1, <4>2
    <3>5. Lifecycle!Publish(r, answer[r])
      BY <2>1, <3>4 DEF Lifecycle!Publish
    <3> QED
      BY <2>1, <3>5 DEF Lifecycle!LifeNext
  <2> QED
    BY <1>3, <2>2, <2>3 DEF StoreResults
<1>4. CASE MarkCompleted(r) \/ MarkFailed(r)
  <2>1. PICK st \in {"completed", "failed"}, o \in Outcomes(ctx[r]) : UpdateSubmissionStatus(r, st, o)
    BY <1>4 DEF MarkCompleted, MarkFailed
  <2>2. status[r] = "processing" /\ UNCHANGED result
    BY <1>1, <1>4 DEF MarkCompleted, MarkFailed, SubmissionInv
  <2>3. /\ \A q \in Requests \ {r} : submissions'[q] = submissions[q]
        /\ submissions'[r].status \in {st, submissions[r].status}
    BY <2>1, StatusUpdated DEF Statuses
  <2>4. status' = [status EXCEPT ![r] = st] \/ UNCHANGED status
    BY <2>3
  <2>5. Lifecycle!Settle(r, st) \/ UNCHANGED status
    BY <2>2, <2>4 DEF Lifecycle!Settle
  <2> QED
    BY <2>2, <2>5 DEF Lifecycle!LifeNext, Lifecycle!lifeVars
<1>5. CASE UNCHANGED <<submissions, resultSets>>
  BY <1>1, <1>5 DEF Lifecycle!lifeVars
<1> QED
  BY <1>2, <1>3, <1>4, <1>5
  DEF Receive, CreateRecommendation, UploadDocument, CreateSubmission, Arrive,
      HandlerStep, RejectFile, StoreObject, InsertDocument, LookupDocument, RejectPreferences,
      AIAnswers, AIFails, tables

\* The subsystem, whatever fails in it, is a SubmissionLifecycle: a submission is
\* created once, published at most once while in processing and settled at most
\* once, and never changes again.
THEOREM Refinement == Spec => ImplementsLifecycle
<1>1. IndInv /\ [Next]_vars => [Lifecycle!LifeNext]_(Lifecycle!lifeVars)
  <2> SUFFICES ASSUME IndInv, [Next]_vars PROVE [Lifecycle!LifeNext]_(Lifecycle!lifeVars)
    OBVIOUS
  <2>1. CASE \E r \in Requests : Receive(r) \/ HandlerStep(r)
    BY <2>1, RefinementHandler
  <2>2. CASE (\E r \in Requests : Disconnect(r)) \/ (\E d \in Readers : ReaderStep(d))
               \/ Crash \/ UNCHANGED vars
    <3>1. UNCHANGED <<submissions, resultSets>>
      BY <2>2, EnvironmentStep
    <3> QED
      BY <3>1 DEF Lifecycle!lifeVars, SetsOf, LatestSet
  <2> QED
    BY <2>1, <2>2 DEF Next
<1> QED
  BY <1>1, RefinementInit, IndInvariant, PTL DEF Spec, ImplementsLifecycle, Lifecycle!LifeSpec
-----------------------------------------------------------------------------
(* What readers see: the invariant, beyond IndInv. *)

\* Statuses that no step changes.
Final == {"draft", "completed", "failed"}

\* Only submissions that ask the AI have result sets, and these have rows.
SetInv ==
  /\ \A rs \in resultSets : rs.rows # {} /\ req[rs.submission].kind \in Modes
  /\ \A r \in Requests : submissions[r].status = "draft" => req[r].kind = "draft"

\* What a view shows holds of the tables still.
Lasts(v) ==
  /\ v.sub \in Requests
  /\ v.status \in Final => submissions[v.sub].status = v.status
  /\ v.set # None => v.set \in SetsOf(v.sub)

Coherent(v) ==
  /\ v.status = "completed" => v.rows = answer[v.sub]
  /\ v.set # None => v.rows = v.set.rows /\ v.rows # {}
  /\ v.status = "draft" => v.set = None

\* A detail that is being assembled, and one that was given before it.
ViewInv ==
  \A d \in Readers :
    /\ view[d].pc # "idle" => Lasts(view[d]) /\ view[d].rows = {}
    /\ view[d].pc \in {"docs", "set"} => view[d].set = None
    /\ last[d] # NoView => Lasts(last[d]) /\ Coherent(last[d])
    /\ last[d] # NoView /\ view[d].pc # "idle" /\ view[d].sub = last[d].sub
         /\ last[d].status \in Final => view[d].status = last[d].status

ReadInv == IndInv /\ SetInv /\ ViewInv
-----------------------------------------------------------------------------
(* The tables as readers see them. *)

\* No step changes a final status, a result set or an answer that is final.
LEMMA TablesStay ==
  ASSUME IndInv, [Next]_vars
  PROVE  /\ \A s \in Requests : submissions[s].status \in Final =>
                                  submissions'[s].status = submissions[s].status
         /\ \A s \in Requests : submissions[s].status = "completed" => answer'[s] = answer[s]
         /\ resultSets \subseteq resultSets'
<1> USE DEF IndInv
<1>0. /\ submissions \in [Requests -> Row]
      /\ answer \in [Requests -> {None} \cup SUBSET Programs]
  BY DEF TypeOK
<1>1. ASSUME NEW r \in Requests, Receive(r) \/ HandlerStep(r)
      PROVE  /\ \A s \in Requests : submissions[s].status \in Final =>
                                      submissions'[s].status = submissions[s].status
             /\ \A s \in Requests : submissions[s].status = "completed" => answer'[s] = answer[s]
             /\ resultSets \subseteq resultSets'
  <2>1. CASE Receive(r)
    BY <2>1 DEF Receive, CreateRecommendation, UploadDocument, CreateSubmission, Arrive, tables
  <2>2. CASE RejectFile(r) \/ StoreObject(r) \/ InsertDocument(r) \/ LookupDocument(r)
               \/ RejectPreferences(r) \/ AIFails(r)
    BY <2>2 DEF RejectFile, StoreObject, InsertDocument, LookupDocument, RejectPreferences,
                AIFails, tables
  <2>3. CASE InsertSubmission(r)
    <3>1. submissions[r].status = "absent"
      BY <2>3 DEF InsertSubmission, SubmissionInv, NoRow
    <3>2. \A s \in Requests \ {r} : submissions'[s] = submissions[s]
      BY <1>0, <2>3 DEF InsertSubmission
    <3> QED
      BY <2>3, <3>1, <3>2 DEF InsertSubmission, Final
  <2>4. CASE AIAnswers(r)
    <3>1. submissions[r].status = "processing" /\ UNCHANGED tables
      BY <2>4 DEF AIAnswers, SubmissionInv
    <3>2. \A s \in Requests \ {r} : answer'[s] = answer[s]
      BY <1>0, <2>4 DEF AIAnswers
    <3> QED
      BY <3>1, <3>2 DEF tables
  <2>5. CASE StoreResults(r)
    BY <2>5 DEF StoreResults, Publish
  <2>6. CASE MarkCompleted(r) \/ MarkFailed(r)
    <3>1. submissions[r].status = "processing"
      BY <2>6 DEF MarkCompleted, MarkFailed, SubmissionInv
    <3>2. UNCHANGED <<answer, resultSets>>
      BY <2>6 DEF MarkCompleted, MarkFailed
    <3>3. \A s \in Requests \ {r} : submissions'[s] = submissions[s]
      BY <2>6, StatusUpdated DEF MarkCompleted, MarkFailed, Statuses
    <3> QED
      BY <3>1, <3>2, <3>3 DEF Final
  <2> QED
    BY <1>1, <2>1, <2>2, <2>3, <2>4, <2>5, <2>6 DEF HandlerStep
<1>2. CASE \/ (\E r \in Requests : Disconnect(r)) \/ (\E d \in Readers : ReaderStep(d))
           \/ Crash \/ UNCHANGED vars
  BY <1>2, EnvironmentStep
<1> QED
  BY <1>1, <1>2 DEF Next

\* A view that lasts still lasts after a step.
LEMMA LastsStays ==
  ASSUME IndInv, [Next]_vars, NEW v, Lasts(v)
  PROVE  Lasts(v)'
<1> QED
  BY TablesStay DEF Lasts, SetsOf

LEMMA SetStep ==
  ASSUME IndInv, SetInv, [Next]_vars
  PROVE  SetInv'
<1> USE DEF IndInv
<1>0. /\ submissions \in [Requests -> Row] /\ resultSets \subseteq ResultSet
      /\ req \in [Requests -> RequestRec] /\ pc \in [Requests -> Points]
  BY DEF TypeOK
<1>1. \A rs \in resultSets : rs.submission \in Requests /\ pc[rs.submission] # "idle"
  BY <1>0 DEF ResultInv, ResultSet
<1>2. ASSUME NEW r \in Requests, Receive(r) \/ HandlerStep(r)
      PROVE  SetInv'
  <2>1. CASE Receive(r)
    <3>1. UNCHANGED tables /\ pc[r] = "idle" /\ \A s \in Requests \ {r} : req'[s] = req[s]
      BY <1>0, <2>1 DEF Receive, CreateRecommendation, UploadDocument, CreateSubmission, Arrive
    <3>2. submissions[r].status = "absent"
      BY <3>1 DEF SubmissionInv, NoRow
    <3> QED
      BY <1>1, <3>1, <3>2 DEF SetInv, tables
  <2>2. CASE \/ RejectFile(r) \/ StoreObject(r) \/ InsertDocument(r) \/ LookupDocument(r)
             \/ RejectPreferences(r) \/ AIFails(r) \/ AIAnswers(r)
    BY <2>2 DEF RejectFile, StoreObject, InsertDocument, LookupDocument, RejectPreferences,
                AIFails, AIAnswers, tables, SetInv
  <2>3. CASE InsertSubmission(r)
    <3>1. \A s \in Requests \ {r} : submissions'[s] = submissions[s]
      BY <1>0, <2>3 DEF InsertSubmission
    <3>2. submissions'[r].status = "draft" => ~Uploads(r) \/ submissions[r].status = "draft"
      BY <1>0, <2>3 DEF InsertSubmission
    <3> QED
      BY <2>3, <3>1, <3>2 DEF InsertSubmission, SetInv, Uploads
  <2>4. CASE StoreResults(r)
    <3>1. /\ answer[r] # {} /\ req[r].kind \in Modes /\ UNCHANGED <<req, submissions>>
      BY <2>4 DEF StoreResults, ResultInv, RequestInv
    <3>2. \A rs \in resultSets' : rs \in resultSets \/ (rs.submission = r /\ rs.rows = answer[r])
      BY <2>4 DEF StoreResults, Publish
    <3> QED
      BY <3>1, <3>2 DEF SetInv
  <2>5. CASE MarkCompleted(r) \/ MarkFailed(r)
    <3>1. UNCHANGED <<req, resultSets>>
      BY <2>5 DEF MarkCompleted, MarkFailed
    <3>2. PICK st \in {"completed", "failed"} : \E o : UpdateSubmissionStatus(r, st, o)
      BY <2>5 DEF MarkCompleted, MarkFailed
    <3>3. \A s \in Requests : submissions'[s].status = "draft" => submissions[s].status = "draft"
      BY <3>2, StatusUpdated DEF Statuses
    <3> QED
      BY <3>1, <3>3 DEF SetInv
  <2> QED
    BY <1>2, <2>1, <2>2, <2>3, <2>4, <2>5 DEF HandlerStep
<1>3. CASE \/ (\E r \in Requests : Disconnect(r)) \/ (\E d \in Readers : ReaderStep(d))
           \/ Crash \/ UNCHANGED vars
  BY <1>3, EnvironmentStep DEF SetInv
<1> QED
  BY <1>2, <1>3 DEF Next
-----------------------------------------------------------------------------
(* Readers. *)

\* The detail given when all has been read is coherent.
LEMMA Given ==
  ASSUME IndInv, SetInv, NEW v, Lasts(v), v.status \in Statuses,
         IF v.set = None THEN SetsOf(v.sub) = {} /\ v.rows = {} ELSE v.rows = v.set.rows
  PROVE  Coherent(v)
<1>1. v.sub \in Requests /\ (v.set # None => v.set \in SetsOf(v.sub))
  BY DEF Lasts
<1>2. v.set # None => /\ v.set \in resultSets /\ v.set.rows # {}
                      /\ req[v.sub].kind \in Modes
  BY <1>1 DEF SetsOf, SetInv
<1>3. v.status = "draft" => v.set = None
  BY <1>1, <1>2 DEF Lasts, Final, SetInv, Modes
<1>4. ASSUME v.status = "completed" PROVE v.rows = answer[v.sub]
  <2>1. StoredRows(v.sub, answer[v.sub])
    BY <1>1, <1>4 DEF Lasts, Final, IndInv, ResultInv, CompletedIsWhole
  <2>2. CASE v.set = None
    BY <2>1, <2>2 DEF StoredRows
  <2>3. CASE v.set # None
    BY <1>1, <2>1, <2>3 DEF StoredRows
  <2> QED
    BY <2>2, <2>3
<1> QED
  BY <1>2, <1>3, <1>4 DEF Coherent

\* A reader that takes no step sees the tables move on under what it has read.
LEMMA ViewKept ==
  ASSUME ReadInv, [Next]_vars, NEW d \in Readers,
         view'[d] = view[d] \/ view'[d] = NoView, last'[d] = last[d]
  PROVE  /\ view'[d].pc # "idle" => Lasts(view[d])' /\ view'[d].rows = {}
         /\ view'[d].pc \in {"docs", "set"} => view'[d].set = None
         /\ last'[d] # NoView => Lasts(last[d])' /\ Coherent(last[d])'
         /\ last'[d] # NoView /\ view'[d].pc # "idle" /\ view'[d].sub = last'[d].sub
              /\ last'[d].status \in Final => view'[d].status = last'[d].status
<1> USE DEF ReadInv
<1>1. /\ \A s \in Requests : submissions[s].status \in Final =>
                               submissions'[s].status = submissions[s].status
      /\ \A s \in Requests : submissions[s].status = "completed" => answer'[s] = answer[s]
      /\ resultSets \subseteq resultSets'
  BY TablesStay
<1>2. NoView.pc = "idle"
  BY DEF NoView
<1>3. ASSUME last'[d] # NoView PROVE Lasts(last[d])' /\ Coherent(last[d])'
  <2>1. Lasts(last[d]) /\ Coherent(last[d])
    BY <1>3 DEF ViewInv
  <2> QED
    BY <1>1, <2>1 DEF Lasts, Coherent, SetsOf, Final
<1>4. ASSUME view'[d].pc # "idle" PROVE view'[d] = view[d] /\ Lasts(view[d])'
  <2>1. view'[d] = view[d] /\ Lasts(view[d])
    BY <1>2, <1>4 DEF ViewInv
  <2> QED
    BY <1>1, <2>1 DEF Lasts, SetsOf
<1>5. view'[d].pc \in {"docs", "set"} => view'[d].pc # "idle"
  OBVIOUS
<1> QED
  BY <1>3, <1>4, <1>5 DEF ViewInv

\* What a reader delivers.
LEMMA ViewGiven ==
  ASSUME ReadInv, NEW d \in Readers, NEW v, UNCHANGED <<tables, handler>>,
         view'[d] = NoView, last'[d] = v, Lasts(v), Coherent(v)
  PROVE  /\ view'[d].pc = "idle"
         /\ last'[d] # NoView => Lasts(last[d])' /\ Coherent(last[d])'
<1> QED
  BY DEF NoView, Lasts, Coherent, SetsOf, tables, handler

LEMMA ViewStep ==
  ASSUME ReadInv, [Next]_vars
  PROVE  ViewInv'
<1> USE DEF ReadInv
<1>0. /\ view \in [Readers -> View] /\ last \in [Readers -> View]
      /\ submissions \in [Requests -> Row] /\ resultSets \subseteq ResultSet
  BY DEF IndInv, TypeOK
<1> DEFINE P(d) ==
      /\ view[d].pc # "idle" => Lasts(view[d]) /\ view[d].rows = {}
      /\ view[d].pc \in {"docs", "set"} => view[d].set = None
      /\ last[d] # NoView => Lasts(last[d]) /\ Coherent(last[d])
      /\ last[d] # NoView /\ view[d].pc # "idle" /\ view[d].sub = last[d].sub
           /\ last[d].status \in Final => view[d].status = last[d].status
<1>1. \A d \in Readers : P(d)
  BY DEF ViewInv
<1>2. ASSUME NEW d \in Readers, view'[d] = view[d] \/ view'[d] = NoView, last'[d] = last[d]
      PROVE  P(d)'
  BY <1>2, ViewKept
<1>3. CASE UNCHANGED readers
  BY <1>2, <1>3 DEF readers, ViewInv
<1>4. CASE Crash
  BY <1>2, <1>4 DEF Crash, ViewInv
<1>5. ASSUME NEW d \in Readers, ReaderStep(d) PROVE ViewInv'
  <2>1. \A e \in Readers \ {d} : view'[e] = view[e] /\ last'[e] = last[e]
    BY <1>0, <1>5 DEF ReaderStep, ReadSubmission, ReadDocuments, ReadLatestSet, ReadResults,
                      AbandonRead, Deliver
  <2>2. UNCHANGED <<tables, handler>>
    BY <1>5 DEF ReaderStep, ReadSubmission, ReadDocuments, ReadLatestSet, ReadResults, AbandonRead
  <2>3. P(d)'
    <3>1. CASE ReadSubmission(d)
      <4>1. PICK s \in Requests, u \in Users :
              view' = [view EXCEPT ![d] =
                        [NoView EXCEPT !.pc = "docs", !.user = u, !.sub = s,
                         !.status = submissions[s].status, !.docs = submissions[s].docs]]
        BY <3>1 DEF ReadSubmission
      <4>2. /\ view'[d].pc = "docs" /\ view'[d].sub = s /\ view'[d].rows = {}
            /\ view'[d].set = None /\ view'[d].status = submissions[s].status
            /\ last' = last
        BY <1>0, <3>1, <4>1 DEF NoView, ReadSubmission
      <4>3. Lasts(view[d])'
        BY <2>2, <4>2 DEF Lasts, tables
      <4>4. last[d] # NoView => /\ Lasts(last[d])' /\ Coherent(last[d])'
                                /\ last[d].sub = s /\ last[d].status \in Final =>
                                     submissions[s].status = last[d].status
        BY <1>1, <2>2, <4>2 DEF Lasts, Coherent, SetsOf, tables, handler
      <4> QED
        BY <4>2, <4>3, <4>4
    <3>2. CASE ReadDocuments(d)
      <4>1. /\ view'[d] = [view[d] EXCEPT !.pc = "set"] /\ last' = last /\ view[d].pc = "docs"
        BY <1>0, <3>2 DEF ReadDocuments
      <4>2. /\ view'[d].pc = "set" /\ view'[d].sub = view[d].sub /\ view'[d].rows = view[d].rows
            /\ view'[d].set = view[d].set /\ view'[d].status = view[d].status
        BY <1>0, <4>1 DEF View
      <4> QED
        BY <1>1, <2>2, <4>1, <4>2 DEF Lasts, Coherent, SetsOf, tables, handler
    <3>3. CASE ReadLatestSet(d)
      <4>1. /\ view[d].pc = "set" /\ view[d].set = None /\ view[d].rows = {} /\ Lasts(view[d])
            /\ view[d].status \in Statuses
        BY <1>0, <1>1, <3>3 DEF ReadLatestSet, View
      <4>2. CASE LatestSet(view[d].sub) = None
        <5>1. SetsOf(view[d].sub) = {}
          BY <4>2, LatestIsStored, NoneIsFresh, <1>0 DEF IndInv, SetsOf
        <5>2. Coherent(view[d])
          BY <4>1, <5>1, Given
        <5>3. view'[d] = NoView /\ last'[d] = view[d]
          BY <1>0, <3>3, <4>2 DEF ReadLatestSet, Deliver
        <5> QED
          BY <2>2, <4>1, <5>2, <5>3, ViewGiven
      <4>3. CASE LatestSet(view[d].sub) # None
        <5> DEFINE set == LatestSet(view[d].sub)
        <5>1. set \in SetsOf(view[d].sub)
          BY <4>3, LatestIsStored DEF IndInv
        <5>2. view'[d] = [view[d] EXCEPT !.pc = "rows", !.set = set] /\ last' = last
          BY <1>0, <3>3, <4>3 DEF ReadLatestSet
        <5> HIDE DEF set
        <5>3. /\ view'[d].pc = "rows" /\ view'[d].sub = view[d].sub /\ view'[d].rows = view[d].rows
              /\ view'[d].set = set /\ view'[d].status = view[d].status
          BY <1>0, <5>2 DEF View
        <5> QED
          BY <1>1, <2>2, <4>1, <5>1, <5>2, <5>3 DEF Lasts, Coherent, SetsOf, tables, handler
      <4> QED
        BY <4>2, <4>3
    <3>4. CASE ReadResults(d)
      <4>1. PICK rs \in resultSets : rs = view[d].set /\ Deliver(d, [view[d] EXCEPT !.rows = rs.rows])
        BY <3>4 DEF ReadResults
      <4> DEFINE v == [view[d] EXCEPT !.rows = rs.rows]
      <4>2. v.sub = view[d].sub /\ v.set = rs /\ v.status = view[d].status /\ v.rows = rs.rows
            /\ v.status \in Statuses
        BY <1>0, <4>1 DEF View
      <4>3. view'[d] = NoView /\ last'[d] = v
        BY <1>0, <4>1 DEF Deliver
      <4> HIDE DEF v
      <4>4. Lasts(v)
        BY <1>1, <3>4, <4>1, <4>2 DEF Lasts, ReadResults
      <4>5. rs # None
        BY <1>0, <4>1, NoneIsFresh
      <4>6. Coherent(v)
        BY <4>2, <4>4, <4>5, Given
      <4> QED
        BY <2>2, <4>3, <4>4, <4>6, ViewGiven
    <3>5. CASE AbandonRead(d)
      BY <1>0, <1>2, <3>5 DEF AbandonRead
    <3> QED
      BY <1>5, <3>1, <3>2, <3>3, <3>4, <3>5 DEF ReaderStep
  <2>4. \A e \in Readers : P(e)'
    BY <1>2, <2>1, <2>3
  <2> QED
    BY <2>4 DEF ViewInv
<1>6. ASSUME NEW r \in Requests, Receive(r) \/ HandlerStep(r) \/ Disconnect(r)
      PROVE  UNCHANGED readers
  BY <1>6 DEF Receive, HandlerStep, CreateRecommendation, UploadDocument, CreateSubmission,
              Arrive, RejectFile, StoreObject, InsertDocument, LookupDocument, RejectPreferences,
              InsertSubmission, AIAnswers, AIFails, StoreResults, MarkCompleted, MarkFailed,
              Disconnect, readers
<1>7. CASE UNCHANGED vars
  BY <1>3, <1>7 DEF vars
<1> QED
  BY <1>3, <1>4, <1>5, <1>6, <1>7 DEF Next

LEMMA ReadInit == Init => ReadInv
<1> SUFFICES ASSUME Init PROVE ReadInv
  OBVIOUS
<1>1. SetInv
  BY DEF Init, SetInv, NoRow
<1>2. ViewInv
  BY DEF Init, ViewInv, NoView
<1> QED
  BY <1>1, <1>2, IndInit DEF ReadInv

LEMMA ReadInvariant == Spec => []ReadInv
<1>1. ReadInv /\ [Next]_vars => ReadInv'
  BY IndStep, SetStep, ViewStep DEF ReadInv
<1> QED
  BY <1>1, ReadInit, PTL DEF Spec
-----------------------------------------------------------------------------
(* Theorems about what readers see. *)

\* GetSubmissionDetail needs no transaction: its details are coherent though the
\* handler writes between the queries.
THEOREM DetailsAreCoherent == Spec => []DetailIsCoherent
<1>1. ReadInv => DetailIsCoherent
  BY DEF ReadInv, ViewInv, Coherent, DetailIsCoherent
<1> QED
  BY <1>1, ReadInvariant, PTL

\* A detail read again shows no final status or published result set undone.
THEOREM DetailsStay == Spec => DetailsNeverGoBack
<1>1. ASSUME ReadInv, ReadInv', Next, NEW d \in Readers,
             last[d].sub # None, last'[d].sub = last[d].sub
      PROVE  /\ last[d].status \in {"completed", "failed"} => last'[d].status = last[d].status
             /\ last[d].set # None => last'[d].set = last[d].set
  <2>0. /\ view \in [Readers -> View] /\ last \in [Readers -> View]
        /\ resultSets \subseteq ResultSet
    BY <1>1 DEF ReadInv, IndInv, TypeOK
  <2>1. last[d] # NoView /\ last'[d] # NoView
    BY <1>1 DEF NoView
  <2>2. CASE last'[d] = last[d]
    BY <2>2
  <2>3. CASE last'[d] # last[d]
    <3>1. \/ ReadLatestSet(d) /\ LatestSet(view[d].sub) = None
          \/ ReadResults(d)
      BY <1>1, <2>0, <2>3
      DEF Next, Receive, HandlerStep, CreateRecommendation, UploadDocument, CreateSubmission,
          Arrive, RejectFile, StoreObject, InsertDocument, LookupDocument, RejectPreferences,
          InsertSubmission, AIAnswers, AIFails, StoreResults, MarkCompleted, MarkFailed,
          Disconnect, Crash, readers, ReaderStep, ReadSubmission, ReadDocuments, ReadLatestSet,
          ReadResults, AbandonRead, Deliver
    <3>2. /\ view[d].pc # "idle" /\ last'[d].sub = view[d].sub
          /\ last'[d].status = view[d].status /\ last'[d].set = view[d].set
          /\ UNCHANGED tables
      BY <2>0, <3>1 DEF ReadLatestSet, ReadResults, Deliver, View
    <3>3. last[d].status \in {"completed", "failed"} => last'[d].status = last[d].status
      BY <1>1, <2>1, <3>2 DEF ReadInv, ViewInv, Final
    <3>4. ASSUME last[d].set # None PROVE last'[d].set = last[d].set
      <4>1. last[d].set \in SetsOf(last[d].sub) /\ last[d].sub \in Requests
        BY <1>1, <2>1, <3>4 DEF ReadInv, ViewInv, Lasts
      <4>2. LatestSet(view[d].sub) = last[d].set
        BY <1>1, <3>2, <4>1, LatestIsStored DEF ReadInv, IndInv
      <4>3. ReadResults(d)
        BY <3>1, <3>4, <4>2
      <4>4. view[d].set \in SetsOf(view[d].sub)
        <5>1. view[d].set \in resultSets /\ view[d].set # None
          BY <2>0, <4>3, NoneIsFresh DEF ReadResults
        <5> QED
          BY <1>1, <3>2, <5>1 DEF ReadInv, ViewInv, Lasts
      <4> QED
        BY <1>1, <3>2, <4>1, <4>4 DEF ReadInv, IndInv, ResultInv, SetsOf
    <3> QED
      BY <3>3, <3>4
  <2> QED
    BY <2>2, <2>3
<1> DEFINE Stays == \A d \in Readers :
                      last[d].sub # None /\ last'[d].sub = last[d].sub =>
                        /\ last[d].status \in {"completed", "failed"} =>
                             last'[d].status = last[d].status
                        /\ last[d].set # None => last'[d].set = last[d].set
<1>2. ReadInv /\ ReadInv' /\ [Next]_vars => [Stays]_vars
  BY <1>1
<1> QED
  BY <1>2, ReadInvariant, PTL DEF Spec, DetailsNeverGoBack
-----------------------------------------------------------------------------
(* A handler ends: what fairness has to drive is finite.                      *)

Rank == [idle |-> 0, resolve |-> 4, persist |-> 3, ai |-> 3, store |-> 2, complete |-> 1,
         fail |-> 1, done |-> 0]

SlotCalls(r) == (IF "TRANSCRIPT" \in Pending(r) THEN 2 ELSE 0)
                + (IF "CV" \in Pending(r) THEN 2 ELSE 0)

\* The calls a handler has still to make at most: two for each of its documents,
\* and four for the submission, the AI service, the results and the final status.
CallsLeft(r) ==
  Rank[pc[r]] + IF pc[r] \in {"resolve", "persist"} THEN SlotCalls(r) ELSE 0

\* A request makes at most eight calls: each step of its handler leaves one less
\* at least, and nothing else in the system leaves it more.
HandlersAdvance ==
  [][\A r \in Requests : InFlight(r) =>
       /\ CallsLeft(r) \in 1..8
       /\ CallsLeft(r)' <= CallsLeft(r)
       /\ HandlerStep(r) => CallsLeft(r)' < CallsLeft(r)]_vars

\* Documents that are resolved leave their slot pending no more.
LEMMA SlotDone ==
  ASSUME TypeOK, NEW r \in Requests, Pending(r) # {}, UNCHANGED req,
         docs' = [docs EXCEPT ![r][Slot(r)] = Target(r)]
  PROVE  SlotCalls(r)' = SlotCalls(r) - 2
<1>1. /\ Slot(r) \in Pending(r) /\ Slot(r) \in DocTypes
      /\ Target(r) \in DocIds /\ Target(r) \in DocRefs /\ Target(r) # None
  BY SlotPending, NoneIsFresh
<1>2. docs'[r][Slot(r)] = Target(r) /\ \A t \in DocTypes \ {Slot(r)} : docs'[r][t] = docs[r][t]
  BY <1>1, SlotResolved
<1>3. Slot(r) \notin Pending(r)'
  BY <1>1, <1>2 DEF Pending
<1>4. \A t \in DocTypes \ {Slot(r)} : t \in Pending(r)' <=> t \in Pending(r)
  BY <1>2 DEF Pending
<1> QED
  BY <1>1, <1>3, <1>4 DEF SlotCalls, DocTypes

LEMMA CallsBounded ==
  ASSUME TypeOK, NEW r \in Requests
  PROVE  CallsLeft(r) \in 0..8 /\ (InFlight(r) => CallsLeft(r) # 0)
<1>1. pc[r] \in Points
  BY DEF TypeOK
<1> QED
  BY <1>1 DEF CallsLeft, Rank, SlotCalls, InFlight, Points

LEMMA CallMade ==
  ASSUME IndInv, NEW r \in Requests, HandlerStep(r)
  PROVE  CallsLeft(r)' < CallsLeft(r)
<1>0. pc \in [Requests -> Points] /\ TypeOK
  BY DEF IndInv, TypeOK
<1>1. SlotCalls(r) \in 0..4
  BY DEF SlotCalls
<1>2. CASE InFlight(r) /\ pc'[r] = "done"
  <2>1. CallsLeft(r)' = 0
    BY <1>2 DEF CallsLeft, Rank
  <2> QED
    BY <1>0, <1>2, <2>1, CallsBounded
<1>3. CASE pc[r] = "resolve" /\ pc'[r] = "persist" /\ SlotCalls(r)' = SlotCalls(r)
  BY <1>1, <1>3 DEF CallsLeft, Rank
<1>4. CASE pc[r] \in {"resolve", "persist"} /\ pc'[r] = "resolve" /\ SlotCalls(r)' = SlotCalls(r) - 2
  BY <1>1, <1>4 DEF CallsLeft, Rank
<1>5. CASE pc[r] = "resolve" /\ pc'[r] = "ai"
  BY <1>1, <1>5 DEF CallsLeft, Rank
<1>6. CASE \/ pc[r] = "ai" /\ pc'[r] \in {"store", "complete", "fail"}
           \/ pc[r] = "store" /\ pc'[r] \in {"complete", "fail"}
  BY <1>6 DEF CallsLeft, Rank
<1>7. CASE RejectFile(r) \/ RejectPreferences(r) \/ MarkCompleted(r) \/ MarkFailed(r)
  BY <1>0, <1>2, <1>7 DEF RejectFile, RejectPreferences, MarkCompleted, MarkFailed, Return, Goto, InFlight
<1>8. CASE StoreObject(r)
  <2>1. SlotCalls(r)' = SlotCalls(r)
    BY <1>8 DEF StoreObject, SlotCalls, Pending
  <2>2. pc[r] = "resolve" /\ pc'[r] \in {"persist", "done"}
    BY <1>0, <1>8 DEF StoreObject, Return, Goto
  <2> QED
    BY <1>2, <1>3, <2>1, <2>2 DEF InFlight
<1>9. CASE InsertDocument(r) \/ LookupDocument(r)
  <2>1. pc[r] \in {"resolve", "persist"} /\ Pending(r) # {} /\ UNCHANGED req
    BY <1>9 DEF InsertDocument, LookupDocument, IndInv, RequestInv
  <2>2. \/ pc'[r] = "done"
        \/ pc'[r] = "resolve" /\ docs' = [docs EXCEPT ![r][Slot(r)] = Target(r)]
    <3>1. CASE InsertDocument(r)
      BY <1>0, <3>1 DEF InsertDocument, Return, Goto
    <3>2. CASE LookupDocument(r)
      BY <1>0, <3>2 DEF LookupDocument, Return, Goto
    <3> QED
      BY <1>9, <3>1, <3>2
  <2>3. ASSUME docs' = [docs EXCEPT ![r][Slot(r)] = Target(r)] PROVE SlotCalls(r)' = SlotCalls(r) - 2
    BY <1>0, <2>1, <2>3, SlotDone
  <2> QED
    BY <1>2, <1>4, <2>1, <2>2, <2>3 DEF InFlight
<1>10. CASE InsertSubmission(r)
  <2>1. pc[r] = "resolve" /\ pc'[r] \in {"ai", "done"}
    BY <1>0, <1>10 DEF InsertSubmission, Return, Goto
  <2> QED
    BY <1>2, <1>5, <2>1 DEF InFlight
<1>11. CASE AIAnswers(r) \/ AIFails(r) \/ StoreResults(r)
  <2>1. \/ pc[r] = "ai" /\ pc'[r] \in {"store", "complete", "fail"}
        \/ pc[r] = "store" /\ pc'[r] \in {"complete", "fail"}
    BY <1>0, <1>11 DEF AIAnswers, AIFails, StoreResults, Goto
  <2> QED
    BY <1>6, <2>1
<1> QED
  BY <1>7, <1>8, <1>9, <1>10, <1>11 DEF HandlerStep

\* Handlers have their local variables to themselves.
LEMMA CallsOfOthers ==
  ASSUME IndInv, NEW r \in Requests, NEW q \in Requests, q # r, Receive(q) \/ HandlerStep(q)
  PROVE  CallsLeft(r)' = CallsLeft(r)
<1>0. /\ pc \in [Requests -> Points] /\ req \in [Requests -> RequestRec]
      /\ docs \in [Requests -> [DocTypes -> DocRefs]] /\ TypeOK
  BY DEF IndInv, TypeOK
<1>1. pc'[r] = pc[r] /\ req'[r] = req[r]
  BY <1>0 DEF Receive, HandlerStep, CreateRecommendation, UploadDocument, CreateSubmission, Arrive,
              RejectFile, StoreObject, InsertDocument, LookupDocument, RejectPreferences,
              InsertSubmission, AIAnswers, AIFails, StoreResults, MarkCompleted, MarkFailed,
              Return, Goto
<1>2. docs'[r] = docs[r]
  <2>1. docs' = docs \/ docs' = [docs EXCEPT ![q][Slot(q)] = Target(q)]
    BY DEF Receive, HandlerStep, CreateRecommendation, UploadDocument, CreateSubmission, Arrive,
           RejectFile, StoreObject, InsertDocument, LookupDocument, RejectPreferences,
           InsertSubmission, AIAnswers, AIFails, StoreResults, MarkCompleted, MarkFailed
  <2> QED
    BY <1>0, <2>1
<1> QED
  BY <1>1, <1>2 DEF CallsLeft, SlotCalls, Pending

LEMMA CallsOfEnvironment ==
  ASSUME IndInv, NEW r \in Requests,
         (\E q \in Requests : Disconnect(q)) \/ (\E d \in Readers : ReaderStep(d))
           \/ Crash \/ UNCHANGED vars
  PROVE  CallsLeft(r)' <= CallsLeft(r)
<1>1. UNCHANGED <<req, docs>> /\ (pc'[r] = pc[r] \/ pc'[r] = "done")
  BY EnvironmentStep
<1>2. CallsLeft(r) \in Nat
  BY CallsBounded DEF IndInv
<1>3. CASE pc'[r] = pc[r]
  <2>1. CallsLeft(r)' = CallsLeft(r)
    BY <1>1, <1>3 DEF CallsLeft, SlotCalls, Pending
  <2> QED
    BY <1>2, <2>1
<1>4. CASE pc'[r] = "done"
  <2>1. CallsLeft(r)' = 0
    BY <1>4 DEF CallsLeft, Rank
  <2> QED
    BY <1>2, <2>1
<1> QED
  BY <1>1, <1>3, <1>4

\* No handler goes on for ever: that every request is answered is only a matter of
\* each of its calls returning.
THEOREM HandlersEnd == Spec => HandlersAdvance
<1>1. ASSUME IndInv, IndInv', [Next]_vars, NEW r \in Requests, InFlight(r)
      PROVE  /\ CallsLeft(r) \in 1..8
             /\ CallsLeft(r)' <= CallsLeft(r)
             /\ HandlerStep(r) => CallsLeft(r)' < CallsLeft(r)
  <2>1. CallsLeft(r) \in 1..8
    BY <1>1, CallsBounded DEF IndInv
  <2>2. CallsLeft(r)' \in 0..8
    <3>1. pc'[r] \in Points
      BY <1>1 DEF IndInv, TypeOK
    <3> QED
      BY <3>1 DEF CallsLeft, Rank, SlotCalls, Points
  <2>3. HandlerStep(r) => CallsLeft(r)' < CallsLeft(r)
    BY <1>1, CallMade
  <2>4. CallsLeft(r)' <= CallsLeft(r)
    <3>1. ~Receive(r)
      BY <1>1 DEF Receive, CreateRecommendation, UploadDocument, CreateSubmission, Arrive, InFlight
    <3>2. CASE HandlerStep(r)
      BY <2>1, <2>2, <2>3, <3>2
    <3>3. CASE \E q \in Requests \ {r} : Receive(q) \/ HandlerStep(q)
      <4>1. CallsLeft(r)' = CallsLeft(r)
        BY <1>1, <3>3, CallsOfOthers
      <4> QED
        BY <2>1, <4>1
    <3>4. CASE (\E q \in Requests : Disconnect(q)) \/ (\E d \in Readers : ReaderStep(d))
                 \/ Crash \/ UNCHANGED vars
      BY <1>1, <3>4, CallsOfEnvironment
    <3> QED
      BY <1>1, <3>1, <3>2, <3>3, <3>4 DEF Next
  <2> QED
    BY <2>1, <2>3, <2>4
<1>2. IndInv /\ IndInv' /\ [Next]_vars =>
        [\A r \in Requests : InFlight(r) =>
           /\ CallsLeft(r) \in 1..8
           /\ CallsLeft(r)' <= CallsLeft(r)
           /\ HandlerStep(r) => CallsLeft(r)' < CallsLeft(r)]_vars
  BY <1>1
<1> QED
  BY <1>2, IndInvariant, PTL DEF Spec, HandlersAdvance
=============================================================================
