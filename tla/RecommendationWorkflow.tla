----------------------- MODULE RecommendationWorkflow -----------------------
(***************************************************************************)
(* The recommendation subsystem: HTTP handlers that upload documents to an *)
(* object store, record them in PostgreSQL, create a submission, ask the   *)
(* AI service for recommendations, store its answer as a result set and    *)
(* move the submission to a final status, and readers that assemble the    *)
(* detail of a submission from several queries.                            *)
(*                                                                         *)
(* A request names one execution of a handler and, since every identifier  *)
(* the handler draws is a fresh UUID, also the submission and result set   *)
(* it creates; the document it creates in slot t is <<r, t>>.  Every call  *)
(* that leaves the process (object store, database, AI) is one step.       *)
(***************************************************************************)
EXTENDS Naturals, DatabaseCalls

CONSTANTS Requests,   \* executions of the writing handlers
          Readers,    \* clients that read the detail of a submission
          Users,      \* authenticated users
          Programs,   \* the programs an AI answer may recommend
          None        \* SQL NULL, nil

DocTypes == {"TRANSCRIPT", "CV"}
DocIds   == Requests \X DocTypes
DocRefs  == DocIds \cup {None}


VARIABLES
  objects,      \* object store: how much of each object was written
  documents,    \* rows of table documents
  submissions,  \* rows of table recommendation_submissions
  resultSets,   \* rows of recommendation_result_sets with their results
  pc,           \* the next call of each handler
  req,          \* what each request asks for
  ctx,          \* the request's context, cancelled when the client goes away
  docs,         \* the documents the handler has resolved so far
  answer,       \* the rows mapped from the AI's answer
  reply,        \* the answer the handler sends when it returns
  dbFault,      \* history: requests with a failed database call in a live context
  view,         \* the detail each reader is assembling
  last          \* the last detail each reader was given

tables  == <<objects, documents, submissions, resultSets>>
handler == <<pc, req, ctx, docs, answer, reply, dbFault>>
readers == <<view, last>>
vars    == <<tables, handler, readers>>
-----------------------------------------------------------------------------
(* Types and initial state. *)

Modes    == {"profile", "transcript", "cv"}
Kinds    == Modes \cup {"upload", "draft"}
Statuses == {"absent", "draft", "processing", "completed", "failed"}
Points   == {"idle", "resolve", "persist", "ai", "store", "complete", "fail", "done"}
Replies  == {"none", "created", "invalid", "notfound", "internal", "external", "killed"}

NoDocs    == [t \in DocTypes |-> None]
NoRequest == [kind |-> "none", user |-> None, want |-> NoDocs]
NoRow     == [status |-> "absent", owner |-> None, docs |-> NoDocs]
NoView    == [pc |-> "idle", user |-> None, sub |-> None, status |-> "absent",
              docs |-> NoDocs, set |-> None, rows |-> {}]

Row        == [status : Statuses, owner : Users \cup {None}, docs : [DocTypes -> DocRefs]]
ResultSet  == [submission : Requests, version : Nat \ {0}, rows : SUBSET Programs]
RequestRec == [kind : Kinds \cup {"none"}, user : Users \cup {None},
               want : [DocTypes -> DocRefs]]
ASSUME NoneIsFresh == /\ None \notin Requests \cup DocIds \cup Users \cup ResultSet
                      /\ \A rows \in SUBSET Programs : rows # None

View       == [pc : {"idle", "docs", "set", "rows"}, user : Users \cup {None},
               sub : Requests \cup {None}, status : Statuses,
               docs : [DocTypes -> DocRefs], set : ResultSet \cup {None},
               rows : SUBSET Programs]

TypeOK ==
  /\ objects \in [DocIds -> {"absent", "partial", "stored"}]
  /\ documents \subseteq DocIds
  /\ submissions \in [Requests -> Row]
  /\ resultSets \subseteq ResultSet
  /\ pc \in [Requests -> Points]
  /\ req \in [Requests -> RequestRec]
  /\ ctx \in [Requests -> Contexts]
  /\ docs \in [Requests -> [DocTypes -> DocRefs]]
  /\ answer \in [Requests -> {None} \cup SUBSET Programs]
  /\ reply \in [Requests -> Replies]
  /\ dbFault \subseteq Requests
  /\ view \in [Readers -> View]
  /\ last \in [Readers -> View]

Init ==
  /\ objects = [id \in DocIds |-> "absent"]
  /\ documents = {}
  /\ submissions = [r \in Requests |-> NoRow]
  /\ resultSets = {}
  /\ pc = [r \in Requests |-> "idle"]
  /\ req = [r \in Requests |-> NoRequest]
  /\ ctx = [r \in Requests |-> "live"]
  /\ docs = [r \in Requests |-> NoDocs]
  /\ answer = [r \in Requests |-> None]
  /\ reply = [r \in Requests |-> "none"]
  /\ dbFault = {}
  /\ view = [d \in Readers |-> NoView]
  /\ last = [d \in Readers |-> NoView]
-----------------------------------------------------------------------------
(* Helpers of the handlers. *)

InFlight(r) == pc[r] \notin {"idle", "done"}

Goto(r, p) == pc' = [pc EXCEPT ![r] = p]

\* The handler returns: its answer is sent and it calls nothing more.
Return(r, a) == Goto(r, "done") /\ reply' = [reply EXCEPT ![r] = a]

\* History of the calls the database, not the context, made fail.
Note(r, o)  == dbFault' = IF o = "ok" \/ ctx[r] = "cancelled" THEN dbFault ELSE dbFault \cup {r}

\* The document slots a mode uploads a file for.
Files(k) == CASE k = "profile"    -> DocTypes
              [] k = "transcript" -> {"TRANSCRIPT"}
              [] k = "cv"         -> {"CV"}

\* The slots still to resolve; the transcript comes first.
Pending(r) == {t \in DocTypes : req[r].want[t] # None /\ docs[r][t] = None}
Slot(r)    == IF "TRANSCRIPT" \in Pending(r) THEN "TRANSCRIPT" ELSE "CV"
Target(r)  == req[r].want[Slot(r)]
Uploads(r) == req[r].kind # "draft"
-----------------------------------------------------------------------------
(* Arrival of requests that pass the checks made before the first call. *)

Arrive(r, k, u, want) ==
  /\ pc[r] = "idle"
  /\ req' = [req EXCEPT ![r] = [kind |-> k, user |-> u, want |-> want]]
  /\ Goto(r, "resolve")
  /\ UNCHANGED <<tables, ctx, docs, answer, reply, dbFault, readers>>

Fresh(r, ts) == [t \in DocTypes |-> IF t \in ts THEN <<r, t>> ELSE None]

CreateRecommendation(r) ==
  \E k \in Modes, u \in Users : Arrive(r, k, u, Fresh(r, Files(k)))

UploadDocument(r) ==
  \E t \in DocTypes, u \in Users : Arrive(r, "upload", u, Fresh(r, {t}))

CreateSubmission(r) ==
  \E want \in [DocTypes -> DocRefs] \ {NoDocs}, u \in Users : Arrive(r, "draft", u, want)
-----------------------------------------------------------------------------
(* Resolving the documents of a request. *)

\* validateUploadHeader refuses the file: what an earlier slot stored stays.
RejectFile(r) ==
  /\ pc[r] = "resolve" /\ Uploads(r) /\ Pending(r) # {}
  /\ Return(r, "invalid")
  /\ UNCHANGED <<tables, req, ctx, docs, answer, dbFault, readers>>

\* Mutant: the error of storage.Upload is dropped.
StoreObject_ErrorDropped(r) ==
  /\ pc[r] = "resolve" /\ Uploads(r) /\ Pending(r) # {}
  /\ \E written \in {"stored", "partial", "absent"} :
       objects' = [objects EXCEPT ![Target(r)] = written]
  /\ Goto(r, "persist")
  /\ UNCHANGED <<documents, submissions, resultSets, req, ctx, docs, answer, reply, dbFault, readers>>

\* storage.Upload writes the whole object, or fails and may leave a part of it.
\* Its own checks repeat those of validateUploadHeader on the same file.
StoreObject(r) ==
  /\ pc[r] = "resolve" /\ Uploads(r) /\ Pending(r) # {}
  /\ \E written \in {"stored", "partial", "absent"} :
       /\ objects' = [objects EXCEPT ![Target(r)] = written]
       /\ IF written = "stored" THEN Goto(r, "persist") /\ UNCHANGED reply
                                ELSE Return(r, "internal")
  /\ UNCHANGED <<documents, submissions, resultSets, req, ctx, docs, answer, dbFault, readers>>

\* CreateDocument; the standalone upload handler returns after it.
InsertDocument(r) ==
  /\ pc[r] = "persist"
  /\ \E o \in Outcomes(ctx[r]) :
       /\ documents' = IF Applied(o) THEN documents \cup {Target(r)} ELSE documents
       /\ docs' = IF o = "ok" THEN [docs EXCEPT ![r][Slot(r)] = Target(r)] ELSE docs
       /\ CASE o # "ok"                               -> Return(r, "internal")
            [] o = "ok" /\ req[r].kind = "upload"     -> Return(r, "created")
            [] o = "ok" /\ req[r].kind # "upload"     -> Goto(r, "resolve") /\ UNCHANGED reply
       /\ Note(r, o)
  /\ UNCHANGED <<objects, submissions, resultSets, req, ctx, answer, readers>>

\* Mutant: the document is looked up by its id alone.
Found_AnyUser(id, u) == id \in documents

\* WHERE document_id = $1 AND user_id = $2
Found(id, u) == id \in documents /\ req[id[1]].user = u

\* FindDocumentByIDAndUser and the check of the document's type, for a draft.
LookupDocument(r) ==
  /\ pc[r] = "resolve" /\ ~Uploads(r) /\ Pending(r) # {}
  /\ LET id    == Target(r)
         found == Found(id, req[r].user)
     IN \/ /\ ctx[r] = "live" /\ found /\ id[2] = Slot(r)
           /\ docs' = [docs EXCEPT ![r][Slot(r)] = id]
           /\ UNCHANGED <<pc, reply, dbFault>>
        \/ /\ ctx[r] = "live" /\ found /\ id[2] # Slot(r)
           /\ Return(r, "invalid")
           /\ UNCHANGED <<docs, dbFault>>
        \/ /\ ctx[r] = "live" /\ ~found
           /\ Return(r, "notfound")
           /\ UNCHANGED <<docs, dbFault>>
        \/ /\ Return(r, "internal")
           /\ Note(r, "refused")
           /\ UNCHANGED docs
  /\ UNCHANGED <<tables, req, ctx, answer, readers>>

\* buildLegacyPreferences refuses a blank key or value of a draft.
RejectPreferences(r) ==
  /\ pc[r] = "resolve" /\ ~Uploads(r) /\ Pending(r) = {}
  /\ Return(r, "invalid")
  /\ UNCHANGED <<tables, req, ctx, docs, answer, dbFault, readers>>
-----------------------------------------------------------------------------
(* The submission, the AI call and the result set. *)

\* One transaction inserts the submission and its preferences.  A draft ends
\* here; the other modes go on to the AI service.
InsertSubmission(r) ==
  /\ pc[r] = "resolve" /\ Pending(r) = {} /\ req[r].kind # "upload"
  /\ \E o \in Outcomes(ctx[r]) :
       /\ submissions' =
            IF Applied(o)
            THEN [submissions EXCEPT ![r] =
                   [status |-> IF Uploads(r) THEN "processing" ELSE "draft",
                    owner |-> req[r].user, docs |-> docs[r]]]
            ELSE submissions
       /\ CASE o # "ok"                -> Return(r, "internal")
            [] o = "ok" /\ Uploads(r)  -> Goto(r, "ai") /\ UNCHANGED reply
            [] o = "ok" /\ ~Uploads(r) -> Return(r, "created")
       /\ Note(r, o)
  /\ UNCHANGED <<objects, documents, resultSets, req, ctx, docs, answer, readers>>

\* Mutant: the submission is completed without waiting for its results.
AIAnswers_CompletesFirst(r) ==
  /\ pc[r] = "ai" /\ ctx[r] = "live"
  /\ \E rows \in SUBSET Programs : answer' = [answer EXCEPT ![r] = rows]
  /\ Goto(r, "complete")
  /\ UNCHANGED <<tables, req, ctx, docs, reply, dbFault, readers>>

\* The AI client answers with rows; a nonempty answer is stored first.
AIAnswers(r) ==
  /\ pc[r] = "ai" /\ ctx[r] = "live"
  /\ \E rows \in SUBSET Programs :
       /\ answer' = [answer EXCEPT ![r] = rows]
       /\ Goto(r, IF rows = {} THEN "complete" ELSE "store")
  /\ UNCHANGED <<tables, req, ctx, docs, reply, dbFault, readers>>

\* Mutant: the handler returns without marking the submission failed.
AIFails_ReturnsAtOnce(r) ==
  /\ pc[r] = "ai"
  /\ Return(r, "external")
  /\ UNCHANGED <<tables, req, ctx, docs, answer, dbFault, readers>>

\* The call fails, times out, is refused by a cancelled context (external), or
\* its answer cannot be mapped to rows (internal): the handler will report
\* the error after it has tried to mark the submission failed.
AIFails(r) ==
  /\ pc[r] = "ai"
  /\ \E a \in {"external"} \cup (IF ctx[r] = "live" THEN {"internal"} ELSE {}) :
       reply' = [reply EXCEPT ![r] = a]
  /\ Goto(r, "fail")
  /\ UNCHANGED <<tables, req, ctx, docs, answer, dbFault, readers>>

SetsOf(s) == {rs \in resultSets : rs.submission = s}
\* ORDER BY version_no DESC LIMIT 1
LatestSet(s) == IF SetsOf(s) = {} THEN None
                ELSE CHOOSE rs \in SetsOf(s) : \A o \in SetsOf(s) : o.version <= rs.version
\* Mutant: the new version is not one more than the latest.
NextVersion_NotNext(s) == IF SetsOf(s) = {} THEN 0 ELSE LatestSet(s).version
\* COALESCE(MAX(version_no), 0) + 1
NextVersion(s) == IF SetsOf(s) = {} THEN 1 ELSE LatestSet(s).version + 1

\* The rows of r's answer become its next result set.
Publish(r) == resultSets \cup {[submission |-> r, version |-> NextVersion(r), rows |-> answer[r]]}

\* Mutant: the error of CreateResultSet is dropped.
StoreResults_ErrorDropped(r) ==
  /\ pc[r] = "store"
  /\ \E o \in Outcomes(ctx[r]) :
       resultSets' = (IF Applied(o) THEN Publish(r) ELSE resultSets) /\ Note(r, o)
  /\ Goto(r, "complete")
  /\ UNCHANGED <<objects, documents, submissions, req, ctx, docs, answer, reply, readers>>

\* Mutant: the transaction is tried again after an error.
StoreResults_Retried(r) ==
  /\ pc[r] = "store"
  /\ \E o \in Outcomes(ctx[r]) :
       /\ resultSets' = (IF Applied(o) THEN Publish(r) ELSE resultSets)
       /\ Goto(r, IF o = "ok" THEN "complete" ELSE "store")
       /\ Note(r, o)
  /\ UNCHANGED <<objects, documents, submissions, req, ctx, docs, answer, reply, readers>>

\* One transaction inserts the result set and all of its rows.
StoreResults(r) ==
  /\ pc[r] = "store"
  /\ \E o \in Outcomes(ctx[r]) :
       /\ resultSets' = IF Applied(o) THEN Publish(r) ELSE resultSets
       /\ IF o = "ok" THEN Goto(r, "complete") /\ UNCHANGED reply
                      ELSE Goto(r, "fail") /\ reply' = [reply EXCEPT ![r] = "internal"]
       /\ Note(r, o)
  /\ UNCHANGED <<objects, documents, submissions, req, ctx, docs, answer, readers>>

\* WHERE rec_submission_id = $1 AND user_id = $2
RowMatches(r) == submissions[r].owner = req[r].user

UpdateSubmissionStatus(r, s, o) ==
  submissions' = IF Applied(o) /\ RowMatches(r)
                 THEN [submissions EXCEPT ![r].status = s]
                 ELSE submissions

\* Mutant: the error of the update is dropped.
MarkCompleted_ErrorDropped(r) ==
  /\ pc[r] = "complete"
  /\ \E o \in Outcomes(ctx[r]) : UpdateSubmissionStatus(r, "completed", o) /\ Note(r, o)
  /\ Return(r, "created")
  /\ UNCHANGED <<objects, documents, resultSets, req, ctx, docs, answer, readers>>

\* Mutant: after an error of the update the submission is marked failed.
MarkCompleted_ElseFailed(r) ==
  /\ pc[r] = "complete"
  /\ \E o \in Outcomes(ctx[r]) :
       /\ UpdateSubmissionStatus(r, "completed", o)
       /\ reply' = [reply EXCEPT ![r] = IF o = "ok" THEN "created" ELSE "internal"]
       /\ Goto(r, IF o = "ok" THEN "done" ELSE "fail")
       /\ Note(r, o)
  /\ UNCHANGED <<objects, documents, resultSets, req, ctx, docs, answer, readers>>

\* An update that finds no row is reported as an error too.
MarkCompleted(r) ==
  /\ pc[r] = "complete"
  /\ \E o \in Outcomes(ctx[r]) :
       /\ UpdateSubmissionStatus(r, "completed", o)
       /\ Return(r, IF o = "ok" /\ RowMatches(r) THEN "created" ELSE "internal")
       /\ Note(r, o)
  /\ UNCHANGED <<objects, documents, resultSets, req, ctx, docs, answer, readers>>

\* Mutant: the handler reports the error and leaves the submission as it is.
MarkFailed_NoUpdate(r) ==
  /\ pc[r] = "fail"
  /\ Goto(r, "done")
  /\ UNCHANGED <<tables, req, ctx, docs, answer, reply, dbFault, readers>>

\* The outcome of this update is discarded.
MarkFailed(r) ==
  /\ pc[r] = "fail"
  /\ \E o \in Outcomes(ctx[r]) :
       /\ UpdateSubmissionStatus(r, "failed", o)
       /\ Note(r, o)
  /\ Goto(r, "done")
  /\ UNCHANGED <<objects, documents, resultSets, req, ctx, docs, answer, reply, readers>>
-----------------------------------------------------------------------------
(* The environment: clients that go away, and the end of the process. *)

\* net/http cancels the request's context when its client disconnects.
Disconnect(r) ==
  /\ InFlight(r) /\ ctx[r] = "live"
  /\ ctx' = [ctx EXCEPT ![r] = "cancelled"]
  /\ UNCHANGED <<tables, pc, req, docs, answer, reply, dbFault, readers>>

\* The objects some handler is writing.
BeingWritten == {Target(r) : r \in {q \in Requests :
                   pc[q] = "resolve" /\ Uploads(q) /\ Pending(q) # {}}}

\* A crash, or log.Fatalf when the shutdown deadline expires: every handler
\* and reader in progress is gone, tables and objects stay, and an object
\* that was being written may stay incomplete.
Crash ==
  /\ \E r \in Requests : InFlight(r)
  /\ \E torn \in SUBSET BeingWritten :
       objects' = [id \in DocIds |-> IF id \in torn THEN "partial" ELSE objects[id]]
  /\ pc' = [r \in Requests |-> IF InFlight(r) THEN "done" ELSE pc[r]]
  /\ reply' = [r \in Requests |-> IF InFlight(r) THEN "killed" ELSE reply[r]]
  /\ view' = [d \in Readers |-> NoView]
  /\ UNCHANGED <<documents, submissions, resultSets, req, ctx, docs, answer, dbFault, last>>
-----------------------------------------------------------------------------
(* GetSubmissionDetail: separate queries, no transaction. *)

\* findSubmission; a row that is absent or another user's ends the reading.
ReadSubmission(d) ==
  /\ view[d].pc = "idle"
  /\ \E s \in Requests, u \in Users :
       /\ submissions[s].owner = u
       /\ view' = [view EXCEPT ![d] =
                    [NoView EXCEPT !.pc = "docs", !.user = u, !.sub = s,
                     !.status = submissions[s].status, !.docs = submissions[s].docs]]
  /\ UNCHANGED <<tables, handler, last>>

\* attachSubmissionDocuments fails unless every referenced document is found.
ReadDocuments(d) ==
  /\ view[d].pc = "docs"
  /\ \A t \in DocTypes : view[d].docs[t] \in documents \cup {None}
  /\ view' = [view EXCEPT ![d].pc = "set"]
  /\ UNCHANGED <<tables, handler, last>>

Deliver(d, v) == /\ last' = [last EXCEPT ![d] = v]
                 /\ view' = [view EXCEPT ![d] = NoView]

\* findLatestResultSet
ReadLatestSet(d) ==
  /\ view[d].pc = "set"
  /\ LET set == LatestSet(view[d].sub)
     IN IF set = None
        THEN Deliver(d, view[d])
        ELSE view' = [view EXCEPT ![d].pc = "rows", ![d].set = set] /\ UNCHANGED last
  /\ UNCHANGED <<tables, handler>>

\* findResultsByResultSetID
ReadResults(d) ==
  /\ view[d].pc = "rows"
  /\ \E rs \in resultSets : rs = view[d].set /\ Deliver(d, [view[d] EXCEPT !.rows = rs.rows])
  /\ UNCHANGED <<tables, handler>>

\* A query fails or its client goes away: no detail is given.
AbandonRead(d) ==
  /\ view[d].pc # "idle"
  /\ view' = [view EXCEPT ![d] = NoView]
  /\ UNCHANGED <<tables, handler, last>>
-----------------------------------------------------------------------------
Receive(r) == CreateRecommendation(r) \/ UploadDocument(r) \/ CreateSubmission(r)

\* Mutant: the AI client has no timeout and ignores its context.
HandlerStep_NoTimeout(r) ==
  \/ RejectFile(r) \/ StoreObject(r) \/ InsertDocument(r)
  \/ LookupDocument(r) \/ RejectPreferences(r)
  \/ InsertSubmission(r) \/ AIAnswers(r)
  \/ StoreResults(r) \/ MarkCompleted(r) \/ MarkFailed(r)

HandlerStep(r) ==
  \/ RejectFile(r) \/ StoreObject(r) \/ InsertDocument(r)
  \/ LookupDocument(r) \/ RejectPreferences(r)
  \/ InsertSubmission(r) \/ AIAnswers(r) \/ AIFails(r)
  \/ StoreResults(r) \/ MarkCompleted(r) \/ MarkFailed(r)

ReaderStep(d) == \/ ReadSubmission(d) \/ ReadDocuments(d) \/ ReadLatestSet(d)
                 \/ ReadResults(d) \/ AbandonRead(d)

Next == \/ \E r \in Requests : Receive(r) \/ HandlerStep(r) \/ Disconnect(r)
        \/ \E d \in Readers : ReaderStep(d)
        \/ Crash

Spec == Init /\ [][Next]_vars

\* Handlers run in goroutines of their own and every call they make returns:
\* the AI client times out after 60 seconds, and the object store and database
\* drivers return an error when their connection breaks.  Clients and readers
\* promise nothing.
FairSpec == Spec /\ \A r \in Requests : WF_vars(HandlerStep(r))
-----------------------------------------------------------------------------
(* Safety. *)

\* A row of documents always names an object that was written to its end,
\* whatever failed or died in between: the object is complete before the row is
\* inserted (UploadDocument, uploadAndPersistDocument) and never written again.
DocumentsBacked == \A id \in documents : objects[id] = "stored"

\* A submission refers only to recorded documents of its owner, each of the
\* type of its slot, whether its own request uploaded them or a draft named
\* documents of earlier uploads.
LinksOwned ==
  \A r \in Requests, t \in DocTypes :
    LET id == submissions[r].docs[t]
    IN id # None => /\ id \in documents
                    /\ id[2] = t
                    /\ req[id[1]].user = submissions[r].owner

\* A submission is completed only once the AI has answered, and then exactly
\* the rows of that answer are stored for it, as one result set of version 1,
\* or none when the answer was empty: no failure of CreateResultSet is lost.
StoredRows(r, rows) ==
  SetsOf(r) = IF rows = {} THEN {} ELSE {[submission |-> r, version |-> 1, rows |-> rows]}
CompletedIsWhole ==
  \A r \in Requests : submissions[r].status = "completed" =>
                         answer[r] # None /\ StoredRows(r, answer[r])

\* What a 201 promises outlives the handler, later failures and crashes: the
\* uploaded document, the draft, or the completed submission is in its table.
CreatedIsDurable ==
  \A r \in Requests : reply[r] = "created" =>
    CASE req[r].kind = "upload" -> \E t \in DocTypes : <<r, t>> \in documents
      [] req[r].kind = "draft"  -> submissions[r].status = "draft"
      [] req[r].kind \in Modes  -> submissions[r].status = "completed"

\* A submission whose handler is gone is left in processing only if the handler
\* was killed, its client went away, or a database call of it failed: every
\* other path of processRecommendation ends in a final status.
StuckHasCause ==
  \A r \in Requests :
    submissions[r].status = "processing" /\ ~InFlight(r) =>
      reply[r] = "killed" \/ ctx[r] = "cancelled" \/ r \in dbFault

\* A detail assembled from separate queries is coherent although the handler
\* writes between them: a completed submission comes with all its rows, and a
\* result set with exactly the rows it was stored with.
DetailIsCoherent ==
  \A d \in Readers :
    LET v == last[d]
    IN v # NoView =>
         /\ v.status = "completed" => v.rows = answer[v.sub]
         /\ v.set # None => v.rows = v.set.rows /\ v.rows # {}
         /\ v.status = "draft" => v.set = None

\* Read twice, a submission never goes back: a final status stays what it was
\* and published results stay the same result set.
DetailsNeverGoBack ==
  [][\A d \in Readers :
       last[d].sub # None /\ last'[d].sub = last[d].sub =>
         /\ last[d].status \in {"completed", "failed"} => last'[d].status = last[d].status
         /\ last[d].set # None => last'[d].set = last[d].set]_vars

\* TestCreateTranscriptRecommendationServiceMarksFailedWhenAIRequestFails expects
\* that a submission whose AI call failed is marked failed when the handler
\* returns; here of every such handler whose database works.
AIFailureIsRecorded ==
  \A r \in Requests :
    pc[r] = "done" /\ reply[r] = "external" /\ r \notin dbFault =>
      submissions[r].status = "failed"
-----------------------------------------------------------------------------
(* Liveness, under FairSpec. *)

\* Every request the server has received is answered, or its handler is killed.
Answered == \A r \in Requests : InFlight(r) ~> pc[r] = "done"

\* A submission in processing gets a final status unless its handler is killed,
\* its client goes away or one of its database calls fails.
Settles ==
  \A r \in Requests :
    submissions[r].status = "processing"
      ~> \/ submissions[r].status \in {"completed", "failed"}
         \/ reply[r] = "killed" \/ ctx[r] = "cancelled" \/ r \in dbFault
-----------------------------------------------------------------------------
(* Refinement: seen through status and latest results, the subsystem is a     *)
(* SubmissionLifecycle.                                                       *)

Lifecycle ==
  INSTANCE SubmissionLifecycle
  WITH Submissions <- Requests,
       status <- [r \in Requests |-> submissions[r].status],
       result <- [r \in Requests |-> IF SetsOf(r) = {} THEN None ELSE LatestSet(r).rows]

\* Whatever the requests, failures and crashes, each submission is created
\* once, published at most once while in processing, and settled at most once.
ImplementsLifecycle == Lifecycle!LifeSpec
=============================================================================
