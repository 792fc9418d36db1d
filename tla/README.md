# Verification of boundless-be

boundless-be is a Go server (gin, PostgreSQL through `database/sql`) that lets students
upload documents, ask an external AI service for study recommendations, track an
application ("dream tracker") whose required documents are reviewed by the AI service,
and log in. This directory holds TLA+ modules of its components, TLC configurations that
check them on small instances, and TLAPS proofs for every value of the constants.

    tlc -workers 2 -config MCRecommendationSafety.cfg MCRecommendationWorkflow.tla
    tlapm RecommendationWorkflowProofs.tla

## 1. Inventory

Every handler runs in a goroutine of its own and keeps its state in local variables.
What handlers share is the PostgreSQL database, the object store, the memory of the
login limiter and the memory of the token managers. Only the last two are protected by a
mutex, one call at a time. Transactions are used for single writes of several rows and
never around a read and the write that depends on it, except in `CreateResultSet`.

| Component (source) | State | Operations | Interacts with |
|---|---|---|---|
| Recommendation workflow (`service/recommendation_service.go`, `repository/recommendation_repository.go`, `service/recommendation_ai_client.go`) | tables `documents`, `recommendation_submissions`, `recommendation_preferences`, `recommendation_result_sets`, `recommendation_results` | upload a document; create a draft; recommend by profile, transcript or CV; read the detail | object store, database, AI service |
| Document storage (`service/document_storage_*.go`) | objects in a directory or a GCS bucket | `Upload` | workflow |
| Dream tracker (`service/dream_tracker_service.go`, `repository/dream_tracker_repository.go`) | tables `dream_tracker`, `dream_requirement_status` | create a tracker, submit a document for a requirement, read detail and document | database, AI reviewer, tables `documents`, `admission_*`, `dream_key_milestones` |
| Token manager, `RequireAuth` (`service/token_manager.go`, `middleware/auth_middleware.go`) | `revokedTokenID` of each manager | issue, validate, revoke | login, every authenticated route |
| Login (`service/auth_service.go`, `middleware/login_rate_limit_middleware.go`, `repository/user_repository.go`) | lockout columns of `users`; `attempts` of the limiter | login | database, token manager |
| Registration (the same files, `model/user_factory.go`) | address and password in `users` | register; login reads and rewrites the row | database |
| University catalog (`service/univ_service.go`, `repository/univ_repository.go`) | table `universities` | create, list, read, patch, delete | database |
| Server (`main.go`, `database/connection.go`) | listener, connection pool | start, five-second shutdown; connections lent to handlers | all handlers |
| Profiling, security headers, DTOs | none | | |

What is hard, and which properties make each component correct:

* **Recommendation workflow.** One request makes up to eight calls that leave the
  process. Each may fail, be refused because the client went away (`net/http` cancels
  the context every call uses), or take effect although it reports an error; the process
  may end between any two. Correct: rows name whole objects, submissions link their
  owner's documents, `completed` means that all results are there, what a 201 promised
  stays, a submission left in `processing` has a cause, and the status only moves
  forward. The detail is read by separate queries without a transaction while a handler
  writes. Correct: it is coherent and never goes back.
* **Dream tracker.** A requirement's row is read, kept during an AI call of up to a
  minute, and written back whole, twice, with no lock: overlapping submissions overwrite
  each other. Correct: a verdict always stands beside the document it was given for,
  ownership holds, and without overlap nothing is lost. The detail is put together from
  five queries and a clock. Correct: its percentage, deadlines and fundings are right
  for what was read, and progress falls only where the reviewer said so.
* **Tokens.** Revocations are purged once the token has expired, while a validation
  looks at revocations first and at the clock later; expiries are whole seconds; each
  group of routes has a manager of its own. Correct: a token that was logged out stays
  refused, whatever the purge does.
* **Login.** The limiter is asked before the handler and told after it, and the handler
  reads and writes the user's row with nothing held between. Correct: locks are earned,
  and lifted only by the races the code admits.
* **Registration.** Nothing looks for the address before the insert: the UNIQUE
  constraint decides, on the address in a normal form that every path must apply. An
  insert may be committed and report an error. A login writes the whole row back.
  Correct: a mailbox has one account, in every spelling, with the password that was
  confirmed, and that password decides.
* **University catalog.** A patch reads a row, merges into its copy, and writes all
  columns; a delete reads and deletes. Correct: deletions are final, and a value is lost
  only to an overlapping patch.
* **Server.** Twenty connections for any number of handlers, some of which make a query
  while the rows of another are not closed; a shutdown with a deadline that gives up by
  `log.Fatalf`. Correct: nobody waits for ever, the pool outlives its users, and a
  signal ends the process.

PROJECT.json lists each hazard with its line and the properties aimed at it.

## 2. Modules

| Module | Models | Runs |
|---|---|---|
| `SubmissionLifecycle` | abstract: what a submission promises its readers | through `ImplementsLifecycle` |
| `AccountRegistry` | abstract: what the accounts promise to those who register and log in | through `ImplementsRegistry` |
| `DatabaseCalls` | how a write with a request's context ends | used by all models with writes |
| `RecommendationWorkflow` | the five writing handlers, the reader, object store, AI service, disconnection, crash | `recommendation_*` |
| `DreamTracker` | creation and submission, the AI reviewer, disconnection, crash | `dream_tracker` |
| `TrackerDetail` | extends `DreamTracker` with the reader of a tracker's detail and its summary | `tracker_detail` |
| `TokenSessions` | issue, validation, logout, clock, restart | `token_*` |
| `Clock`, `LoginLimiter`, `AccountLockout` | time, and the two pure state machines of login | used by the next |
| `LoginFlow` | the login route: middleware, handler and row, interleaved | `login_*` |
| `Registration` | registrations and the logins that read and rewrite their rows | `registration` |
| `UniversityCatalog` | the five handlers of the catalog | `university_catalog` |
| `ServerLifecycle` | start, shutdown, and the pool handlers share | `server_lifecycle` |
| `MC...` | instances for TLC: data and symmetry | all |
| `RecommendationWorkflowProofs`, `DreamTrackerProofs`, `TrackerDetailProofs`, `TokenSessionsProofs`, `LoginFlowProofs`, `RegistrationProofs`, `UniversityCatalogProofs`, `ServerLifecycleProofs` | theorems | |

The end of the process is one action, `Crash` or `Restart`, in the modules of the
components; why and when it happens is `ServerLifecycle`'s subject.

### RecommendationWorkflow

A request `r` is one execution of a handler. Identifiers are fresh UUIDs, so `r` also
names the submission and result set it creates, and `<<r, t>>` the document it creates
in slot `t`. `pc[r]` is the next call that leaves the process:

| Action | Code |
|---|---|
| `CreateRecommendation`, `UploadDocument`, `CreateSubmission` | arrival, checks that need no call |
| `RejectFile`, `StoreObject`, `InsertDocument` | `uploadAndPersistDocument`: validate, `storage.Upload`, `CreateDocument` |
| `LookupDocument`, `RejectPreferences` | draft: `FindDocumentByIDAndUser`, type check; `buildLegacyPreferences` |
| `InsertSubmission` | transaction of `CreateSubmission` |
| `AIAnswers`, `AIFails` | `callRecommendationAI` and `mapAIResultsToRows` |
| `StoreResults` | transaction of `CreateResultSet` |
| `MarkCompleted`, `MarkFailed` | `UpdateSubmissionStatus`; the outcome of the second is discarded |
| `Disconnect`, `Crash` | context cancelled; process ends, also by `log.Fatalf` when the shutdown deadline expires |
| `ReadSubmission` ... `AbandonRead` | the queries of `FindSubmissionDetail` |

A write ends `ok`, `lost` (applied, but the caller sees an error) or `refused`; with a
cancelled context it is always refused. That is an abstraction in one respect, in all
modules (`DatabaseCalls`): a write takes effect, if at all, before its call returns. A
commit that the server still carries out after the connection broke and the handler
went on is not modelled. Outside the model: sizes and content of files,
preferences other than their validity, JSON payloads. An AI answer is the set of
programs it ranks. `findSubmissionPreferences` reads rows that never change after the
transaction that inserts them, so that query is left out. Local storage ignores the
context; so does `StoreObject`, which may fail either way.

`dbFault` is history: requests one of whose calls the database, not the cancelled
context, made fail.

### DreamTracker

`hasAI` (whether a reviewer is configured) is chosen at the start. `local[s]` is the
handler's copy of the requirement row, which `UpdateDreamRequirementStatus` writes
whole. The reviewer may answer with any word, for neither the program nor the table
checks it: each of the program's own statuses, NOT_UPLOADED and UPLOADED included, blank,
or a word it does not know (`OTHER`). So "verdict" means what the reviewer said, not a
fixed pair of words, and what a row may show is stated against the history of them
(`VerdictIsOfDocument`). Documents and the catalog are
constants: this subsystem only reads them. `GetDocumentDetail` is the query of `MayUse`
and no more. Messages are abstracted to the submission they come from. `verdicts`,
`latest` and `alone` are history: what the AI said of which document, the last
submission begun for a requirement, and submissions that overlapped no other of their
requirement.

### TrackerDetail

| Action | Code |
|---|---|
| `GetDreamTrackerDetail` | the request, for any identifier |
| `FindDreamTracker` | `findDreamTracker` and the admission's deadline it joins |
| `FindDreamRequirementDetails` | the rows of `dream_requirement_status` and `buildRequirementAction` |
| `FindProgram` | program, milestones, fundings, then `time.Now` and `buildDreamTrackerSummary` |
| `FindFails` | any of the queries fails |

All steps of `DreamTracker` interleave with these. `FindProgram` is one step for several
queries, because nothing in the program changes what they read: admissions, milestones
and fundings come from outside, the model chooses them at the start. A tracker never
changes either once it is visible. An instant is an integer. `DetailIsRight` compares
the computations, which follow the loops of the code (`Sooner` is one turn of
`nextUpcomingDeadline`), with definitions by sets. It also states what a reader of the
code may not expect: a tracker can be "near" a milestone and overdue at once; the
selected funding is listed only if the admission offers it or offers none; and the
percentage is rounded down, so that with more than a hundred requirements it is 0 while
less than a hundredth of them is complete. A funding has finitely many requirements
(`AdmissionData`), as it must for them to be counted. `ProgressFallsOnlyByVerdict` compares
two details of one tracker, requirement by requirement: a document once shown is never
missing later, and where the count has fallen, some requirement that was complete shows a
document of which the reviewer has said just the status now beside it, be it REJECTED,
NOT_UPLOADED or a word of its own.

### TokenSessions

Time is a number of ticks, `Second` ticks to a second, so that expiries cut to whole
seconds differ from the instants compared with them. `ValidateAccessToken` is two
actions, `CheckRevoked` and `CheckExpiry`, with clock and other requests between them;
`Revoke` is one, for it holds the mutex. The clock does not step back. `loggedOut` is
history and is cleared, as the managers are, by `Restart`: nothing in the repository
promises that a revocation survives the process.

### LoginFlow

One action per step of the middleware and of the handler: `Receive` (`RemainingLock`),
`Find`, `Decide` (clock, lock, password, the row to write), `Update`, `Record` (`Reset`
or `RecordFailure`). Limiter methods hold the mutex, so each is one operator. The
handler's copies are cleared when the code can no longer use them, which only keeps the
state space small.

Of the limiter's lock, `LimiterYieldsOnlyToEarlierSuccess` says that a running one is
never moved, and lifted only by a restart or by a success whose login was let through
before it. The two are told apart by history: a restart, and nothing else, empties
`recorded` (`Forgotten`), so the entry of a client may be reset without one only by such a
login; a success that was let in during the lock, or a failure counted during it, would
violate it, with one client as with more. A lock of an account that has run out stays
in the row until the next login writes it and is compared with the clock each time;
`CountIsEarned` says nothing of it, and nothing depends on it.

### Registration

`ReceiveRegistration`, `Create` are `AuthService.Register` with `UserRepository.Create`;
`ReceiveLogin`, `FindByEmail`, `CheckPassword`, `Update` are `Login`, whose lockout is
left to `LoginFlow`: `TurnedAway` may happen whenever the code could refuse. What
`LoginFlow` leaves out is here: addresses, passwords, and that `Update` writes every
column of the row, address and hash included. `NormalForm` stands for
`ToLower(TrimSpace(..))` and is assumed only to be idempotent. Passwords differ exactly
if their hashes do not match; `Complex` are those a registration accepts. A failed
insert becomes 400 even if it was committed (`lost`). `dbFault` and `promised` are
history: failed calls in a live context, and logins that came when their account was
there already, either confirmed by a 201 or left by an insert whose commit reported an
error (`Opened`).

`AccountRegistry` says the same without rows, spellings and copies: the accounts are a
password for each mailbox, and every request takes effect at one moment between its
arrival and its answer. The mapping (`PasswordOf`, `CallOf`, `QuestionOf`, `AnswerOf`)
hides the steps of a login and the row it holds: that its write of the whole row is a
stutter of the accounts is the point of it.

### UniversityCatalog

`Receive`, `Find`, `Update` are `UpdateUniversity`: query, merge of the fields named,
update of the whole row. The value of a field is the request that sent it. `Create`,
`Delete`, `FindAll` and a `get` are the other handlers. `ideal` and `stale` are history:
the rows if each patch wrote only the fields it names, and the fields of a row that
changed since a patch read it. The test `univ_service_test.go:230` expects other fields
unchanged, of one patch alone; with overlapping patches `LossHasCause` is what holds.

### ServerLifecycle

`Connect`, `Listen`, `Signal`, `StartShutdown`, `Drained`, `DeadlineExpires`, `Leave`
are the steps of `main` and of `NewConnection`; `ListenFails` and `DeadlineExpires` end
by `log.Fatalf`, which skips the deferred `db.Close`. A handler is the calls it makes:
`Ask` takes a connection or waits, `DatabaseAnswers` ends a statement or leaves rows to
be read, `RowsEnd` gives the connection back, as `Rows.Next` does after the last row,
before the deferred `Close`. That is what lets `findDreamTrackerFundings` make a second
query, and what `Served` depends on. `CallAI` holds no connection. `DatabaseHangs` is
for good. The pool hands a released connection to a waiting handler, and refuses or
serves the others, as `database/sql` does.

## 3. Runs

| Run | Instance | Shows |
|---|---|---|
| `recommendation_safety` | 2 requests, 2 users, 1 program | data integrity, durability, causes of stuck submissions, refinement of `SubmissionLifecycle` |
| `recommendation_readers` | 1 request, 2 readers, 2 programs, fairness | coherent details, never going back; every request answered, every undisturbed submission settled |
| `recommendation_ai_failure` | 1 request | violation, see below |
| `dream_tracker` | 2 submissions, 2 users, 3 documents, fairness | ownership, pairing of verdict and document, sequential submissions stick, answers |
| `tracker_detail` | 2 reads, 1 submission, 2 fundings, 3 admissions, 3 plans of milestones | percentage, deadlines and fundings are right; progress falls only where the reviewer said so |
| `token_sessions` | 2 sessions, 3 requests, 2 groups, 6 ticks | logout against purge and clock; lifetimes; revocations that have expired are purged |
| `token_logout` | 1 session, 2 requests | violation |
| `login_flow` | 4 logins of one account from one address, thresholds 2 | locks are earned, and what may lift them |
| `login_lock` | 2 logins | violation |
| `registration` | 3 requests, 1 mailbox in two spellings, 2 passwords | the password of a mailbox's account decides; refinement of `AccountRegistry`: one account to a mailbox, for good |
| `university_catalog` | 4 requests on 1 university, a required and an optional field | final deletions; the only cause of a lost field |
| `server_lifecycle` | 3 handlers of 2 calls, 1 connection, fairness | pool outlives handlers; nobody waits for ever; a signal ends the process |

**Why the bounds are enough.** Two requests suffice where a property relates a request
to the documents or rows of another (a draft that links another request's upload, two
users); each has both document slots. A reader's four queries interleave with all steps
of one handler, and two readers show that they do not disturb each other. Two
submissions are what can overlap on a row. Three requests are a logout, a second logout
that purges, and a use of the first token; six ticks outlast the access token's
lifetime, which ends in the middle of a second, and the refresh token's. Four logins are
two that lock, one that read before, one after; three ticks outlast both windows and the
limiter's lock. Two reads of a tracker are an earlier and a later one, or two at once;
the admissions offer the tracker's funding, another or none, with a deadline in the
past, to come, or none, and the plans have milestones before, at and after the
moments of a read, one without a date among them. One university and four requests are its creation, two
patches that overlap, and a third or a deletion; universities share nothing. Three
requests of a mailbox are two registrations and a login, or a registration and two
logins, of which one writes a copy it read before. With one connection, each of two
calls of a handler can wait behind two others, and a connection kept would block all.
`MaxNow` and `MaxCalls` are the only bounds in a guard. Symmetry is used only in runs
of invariants and action properties, over requests, logins or sessions the model treats
alike. All runs set
`CHECK_DEADLOCK FALSE`: requests are finite in number and a model ends when all are
answered.

**Fairness.** `FairSpec` has weak fairness of each handler's step, and of nothing else:
goroutines are scheduled, and each call returns, because the AI clients have a timeout
of 60 seconds and drivers return an error when a connection breaks. Nothing makes
clients, readers, disconnections or crashes happen or stop. Nor is any particular
outcome fair: a handler whose database always fails is allowed.

In `ServerLifecycle`, where the database may hang, a call of it returns only while it
has not hung or once its context is cancelled; weak fairness of `HandlerStep` promises
no more. `WF(MainStep)` is the goroutine of `main` and the five-second deadline.
`Served` therefore excepts a hung database, and `Stops` does not need to: the deadline
ends the process.

**Violations, and what they say of the code.**

* `AIFailureIsRecorded`: a test expects a failed AI request to mark the submission
  failed. When the AI call fails because the client went away, the update uses the same
  cancelled context, is refused, and its error is discarded
  (`recommendation_service.go:345`): the submission stays in `processing`.
  `StuckHasCause` and `Settles` state what does hold.
* `LogoutEndsSession`: a test expects logout to revoke a token, and tries it on the auth
  routes only. Other groups ask another manager (`api/recommendation_api.go:15`).
  `LoggedOutIsRefused` states what does hold, within a manager.
* `FailuresLockAccount`: a test expects `MaxFailedAttempts` failures to lock the
  account, one after another. Concurrent ones write the same count
  (`auth_service.go:90`). `CountIsEarned` and `LockYieldsOnlyToStaleCopy` state what
  does hold.

Each property of a passing run has in PROJECT.json a mutant, a plausible bug in a
definition of the model, under which TLC finds it violated; the mutated operators stand
beside their originals, marked `Mutant:`.

## 4. Proofs

Every theorem holds for all values of the constants under the named assumptions of the
modules, which say of the constants what the code does: `None` (SQL NULL) is no
identifier (`NoneIsFresh`, `CatalogData`, `AuthGroup`, and parts of others), thresholds
and durations are positive (`LimiterBounds`, `LockoutBounds`, `Durations`,
`PoolBounds`), the clock starts after `Never` (`ClockBounds`), `Columns` and `Addresses`
as described above. TLC evaluates them on every run.

The properties are seldom inductive. Each proof module defines `IndInv`, proves that it
holds initially and that every action keeps it, one lemma to a part and one case to an
action, and derives the theorems from it.

**RecommendationWorkflowProofs** proves all the safety properties of
`recommendation_safety`. `IndInv` adds to the types:

* `RequestInv`: what the point of a handler says of its request (an idle one has asked
  nothing; one that uploads wants only its own fresh documents; one past the submission
  runs one of the three modes);
* `DocumentInv`: a handler about to insert a document has its whole object, and an
  upload never turns again to a slot whose document is recorded, so no stored object is
  written twice;
* `LinkInv`: the documents a handler has resolved are recorded ones of its user, each of
  the type of its slot;
* `SubmissionInv`: no row before `InsertSubmission`; from the AI call to the final
  update the row is in `processing` and belongs to the request's user;
* `ResultInv`: a submission has at most one result set, none before `StoreResults`, and
  when it is about to be completed exactly the rows of the AI's answer.

`Refinement` proves `ImplementsLifecycle` from the invariant: initial states map to
initial states, and each step to `Create`, `Publish`, `Settle` or a stutter. The
important case is that no step changes a settled status and that a result set is stored
only in `processing`.

`HandlersEnd` counts the calls a handler has left, two for each pending document and four
for the rest, eight at most: each of its steps leaves fewer, and no other step of the
system leaves more.

Of the readers the module proves `DetailIsCoherent` and `DetailsNeverGoBack`. A reader holds what
it read a while ago, so `ViewInv` says what of it still lasts: a final status is the row's
for good, and a set it has seen is the submission's only one. `SetInv` says which
submissions have sets. The lemma `TablesStay` is the core: no step takes anything away
that a view may hold.

**DreamTrackerProofs** proves all the safety properties of `dream_tracker`. `SubmitInv`
says that a handler's copy is of its own document, with UPLOADED or a verdict given for
that document, so whichever copy is written last, verdict and document match.
`AloneInv` says that a submission which overlaps no other has the row to itself from its
first write on.

**TrackerDetailProofs** proves all the properties of `tracker_detail`, on top of the
previous ones, which it inherits because every step of `DetailSpec` is a step of
`DreamTracker` or a stutter of it (`ReadsAreReads`). One half is about data, for plans and
catalogs of any size. `NextIsEarliest` says that the loop over a plan returns its earliest
milestone from now on; it needs induction, which the proof does with sets in place of
predicates: the least element of a set of numbers (`LeastElement`) gives `SetInduction`,
and that a function defined step by step exists (`StepsExist`, `LoopExists`).
`RequirementsCount` adds cardinalities: the requirements that are complete, those that may
be uploaded and those with an unknown status are a partition of the rows.
`PercentageRounds` is the division, `FundingsListed` the funding list. The other half is
about time. `ReadInv` says what of the tables still holds of what a read has seen
(`SeenOf`): its requirements are those of the tracker, one that had a document has one
still, and the status beside a document was UPLOADED or a verdict on it, which
`VerdictIsOfDocument` gives. `OrderInv` says that what a read has seen follows what every
earlier read had (`Follows`): the same requirements, no document lost. So a requirement
that was complete and is no more has a document still, and its status can only be a
verdict on it; `CountFalls` turns this into `ProgressFalls`, a theorem of the counts.

**TokenSessionsProofs** proves the properties of `token_sessions`, the action property
`RevocationsArePurged` among them, and `PurgeIsSafe`, which no run checks: a logged-out
token is listed until it has expired. The invariant adds `LogoutInv` (logged-out tokens
are issued access tokens) and `RequestInv`: a request that came after the logout of its
token presents a token that is listed or has expired when it reaches the revocations,
and one that has expired when it reaches the clock, which is why that later look refuses
it.

**LoginFlowProofs** proves all the properties of `login_flow`, two of them action
properties. `FailureInv` compares counts with the sets of failures that history keeps: a
copy of a row counts at most the failures so far, and what a login is about to write at
most one more, its own, which is not among them yet. `LimiterInv` is the same of the
limiter, and `LockInv` says that a login past a check saw no lock that still runs.
`LockRecorded` adds that a locked client has recorded failures, so that a restart shows.

**RegistrationProofs** proves all the properties of `registration`. `AccountInv` says
that a row is for good what its registration inserted; that a login's update writes
exactly this row back is the lemma `RowRewritten`. `PromiseInv` follows a login whose
account was there when it came, to its answer. `Refinement` proves `ImplementsRegistry` from the
same invariant: `AccountsMapped` finds a mailbox's one row behind `PasswordOf`,
`RequestMapped` says which parts of the mapping a change of one request leaves alone, and
`RefinementStep` maps each step to one of the registry or a stutter. The theorem
`RegistrationsOwnMailboxes` (`CreatedOwnsMailbox`), which no run checks, is what the
registry promises of a 201, said of the rows.

**UniversityCatalogProofs** proves all the properties of `university_catalog`. `CallInv`
says that a patch about to write holds, of each field it does not name, the row's value
unless the field is stale; `CreatedInv` that an identifier is used once.

**ServerLifecycleProofs** proves type correctness, with which no more than `MaxOpen`
connections are ever in use, and `DatabaseOutlivesHandlers`. `HoldInv` says that a
handler holds a connection exactly while it queries or reads, so never while it waits
for one or for the AI service. `MainInv` ties the handlers to what `main` is doing. Two
theorems are the safety half of `Served`. `NoCircularWait` (by `BusyInv`: a connection
given back is passed on, so none is free while a handler waits) says that those who hold
the connections wait for the database alone. `HandlersEnd` gives each handler a number
that every step of its own makes smaller and no step of others makes larger.

**Only model-checked.** Liveness (`Answered`, `Settles`, `Served`, `Stops`) is out of
the prover's reach, and stays with TLC; of the handlers of the workflow and of the
server the proofs show what is not about fairness, that they cannot go on for ever.
Every other property of a passing run is a theorem.

## 5. Not modelled, and what could follow

Not modelled: the profiling server, security headers, DTOs and error values, which keep
no state; object names and URLs, signatures (tokens presented are tokens issued), the
migrations as such, file contents, and clocks that step back. The entries the limiter
keeps of clients that never succeed are not bounded by anything in the code, so there is
no property to state of them; a restart forgets revocations, and no document promises
otherwise.

What the project has grown by, in order: the workflow with its abstraction and proofs;
tracker, tokens, login; then catalog, registration, server and the tracker's detail, and
the proofs of all of them; then the proofs of the tracker's detail, and the abstract
registry of accounts. What could follow: an abstract specification of a requirement's
review that `DreamTracker` implements, and a composition of `ServerLifecycle` with the
workflow, whose `Crash` would be its `DeadlineExpires`.
