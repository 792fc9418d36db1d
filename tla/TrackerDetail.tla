---------------------------- MODULE TrackerDetail ----------------------------
(***************************************************************************)
(* GET of a dream tracker: the handler reads the tracker, its requirements *)
(* and what else belongs to it with one query after the other, without a   *)
(* transaction, while submissions of DreamTracker change the requirements, *)
(* then reads the clock and computes the summary.  Admissions, fundings    *)
(* and milestones come from outside: the program only reads them.  Times   *)
(* are instants, in units as coarse as the deadlines the model tells apart.*)
(***************************************************************************)
EXTENDS DreamTracker, Integers, FiniteSets, Sequences, Functions

CONSTANTS Reads,        \* executions of GetDreamTrackerDetail
          Offers,       \* admission_funding: the fundings of an admission
          Deadline,     \* admission_paths.deadline
          Plans,        \* the deadlines of a tracker's milestones, as queried
          NearSpan,     \* seven days
          MaxNow        \* bound: the last moment explored

Times == Int

ASSUME AdmissionData == /\ Offers \in [Admissions -> SUBSET Fundings]
                        /\ Deadline \in [Admissions -> Times \cup {None}]
                        /\ Plans \subseteq Seq(Times \cup {None})
                        /\ NearSpan \in Nat /\ MaxNow \in Nat
                        /\ None \notin Times
                        /\ IsFiniteSet(Catalog)

VARIABLES
  plan,      \* table dream_key_milestones: the deadlines of each tracker
  now,       \* the clock, as the last read saw it
  at,        \* the next call of each read
  part,      \* what it has read so far
  shown,     \* the detail it answered with, or NoDetail
  answer,    \* its status
  earlier    \* history: the reads answered before it began

detailVars == <<plan, now, at, part, shown, answer, earlier>>
allVars    == <<vars, detailVars>>
-----------------------------------------------------------------------------
(* The parts of the detail. *)

\* Mutant: a verified requirement counts no more.
Completed_OnlyUploaded(status) == status = "UPLOADED"

\* isCompletedRequirement
Completed(status) == status \in {"UPLOADED", "VERIFIED"}

\* buildRequirementAction
CanUpload(status)     == status \in {"REJECTED", "NOT_UPLOADED"}
NeedsReupload(status) == status = "REJECTED"

CompletionPercentage(completed, total) ==
  IF total = 0 THEN 0 ELSE (completed * 100) \div total

\* Mutant: a milestone of this very moment counts as passed.
IsUpcoming_NotNow(m, moment) == m # None /\ m > moment

IsUpcoming(m, moment) == m # None /\ ~(m < moment)

\* One turn of the loop of nextUpcomingDeadline.
Sooner(next, m, moment) ==
  IF IsUpcoming(m, moment) /\ (next = None \/ m < next) THEN m ELSE next

NextUpcomingDeadline(plan_, moment) ==
  LET next[i \in 0..Len(plan_)] ==
        IF i = 0 THEN None ELSE Sooner(next[i - 1], plan_[i], moment)
  IN next[Len(plan_)]

\* buildDreamTrackerSummary, with the clock at moment.
Summary(reqs, plan_, deadline, moment) ==
  LET completed == Cardinality({c \in DOMAIN reqs : Completed(reqs[c])})
      total     == Cardinality(DOMAIN reqs)
      upcoming  == NextUpcomingDeadline(plan_, moment)
      next      == IF upcoming = None THEN deadline ELSE upcoming
      passed    == next # None /\ next < moment
  IN [completed |-> completed, total |-> total,
      percent   |-> CompletionPercentage(completed, total),
      next      |-> next,
      near      |-> next # None /\ ~passed /\ next - moment <= NearSpan,
      overdue   |-> passed \/ (deadline # None /\ deadline < moment)]

\* LEFT JOIN admission_paths
AdmissionDeadline(tracker) ==
  IF tracker.admission = None THEN None ELSE Deadline[tracker.admission]

\* fundingStatusForTracker
FundingStatus(f, selected) == IF f = selected THEN "SELECTED" ELSE "AVAILABLE"

\* findDreamTrackerFundings: the selected funding is added to an empty list only.
FundingList(tracker) ==
  LET offered == IF tracker.admission = None THEN {} ELSE Offers[tracker.admission]
      listed  == IF offered = {} /\ tracker.funding # None THEN {tracker.funding} ELSE offered
  IN {<<f, FundingStatus(f, tracker.funding)>> : f \in listed}
-----------------------------------------------------------------------------
Stages   == {"idle", "tracker", "requirements", "program", "done"}
NoPart   == [tracker |-> None, reqs |-> <<>>, docs |-> <<>>, actions |-> {}]
NoDetail == None

DetailInit ==
  /\ Init
  /\ plan \in [Trackers -> Plans]
  /\ now = 0
  /\ at = [d \in Reads |-> "idle"]
  /\ part = [d \in Reads |-> NoPart]
  /\ shown = [d \in Reads |-> NoDetail]
  /\ answer = [d \in Reads |-> "none"]
  /\ earlier = [d \in Reads |-> {}]

DetailTypeOK ==
  /\ plan \in [Trackers -> Plans]
  /\ now \in 0..MaxNow
  /\ at \in [Reads -> Stages]
  /\ \A d \in Reads : /\ part[d].tracker \in Trackers \cup {None}
                      /\ \A c \in DOMAIN part[d].reqs : part[d].reqs[c] \in ReqStatuses
                      /\ \A c \in DOMAIN part[d].docs : part[d].docs[c] \in Docs \cup {None}
  /\ answer \in [Reads -> {"none", "ok", "notfound", "internal"}]
  /\ earlier \in [Reads -> SUBSET Reads]

To(d, p)     == at' = [at EXCEPT ![d] = p]
Finish(d, a) == To(d, "done") /\ answer' = [answer EXCEPT ![d] = a]

\* Mutant: the catalog is joined with the rows from the outside.
StatusesOf_OuterJoin(t) == [c \in Catalog |-> rows[<<t, c>>].status]

\* The rows of a tracker, as the query of the requirements returns them: their
\* statuses and their documents.
StatusesOf(t)  == [c \in {c \in Catalog : rows[<<t, c>>] # NoRow} |-> rows[<<t, c>>].status]
DocumentsOf(t) == [c \in {c \in Catalog : rows[<<t, c>>] # NoRow} |-> rows[<<t, c>>].doc]
-----------------------------------------------------------------------------
\* A request for a tracker, which may not exist yet.
GetDreamTrackerDetail(d) ==
  /\ at[d] = "idle"
  /\ \E t \in Trackers : part' = [part EXCEPT ![d].tracker = t]
  /\ earlier' = [earlier EXCEPT ![d] = {e \in Reads : at[e] = "done"}]
  /\ To(d, "tracker")
  /\ UNCHANGED <<plan, now, shown, answer>>

\* findDreamTracker: WHERE dream_tracker_id = $1 AND user_id = $2
FindDreamTracker(d) ==
  /\ at[d] = "tracker"
  /\ \E u \in Users :
       IF trackers[part[d].tracker].user = u
       THEN To(d, "requirements") /\ UNCHANGED answer
       ELSE Finish(d, "notfound")
  /\ UNCHANGED <<plan, now, part, shown, earlier>>

\* findDreamRequirementDetails: one statement, one moment.
FindDreamRequirementDetails(d) ==
  /\ at[d] = "requirements"
  /\ LET reqs == StatusesOf(part[d].tracker)
     IN part' = [part EXCEPT
          ![d].reqs    = reqs,
          ![d].docs    = DocumentsOf(part[d].tracker),
          ![d].actions = {<<c, CanUpload(reqs[c]), NeedsReupload(reqs[c])>> : c \in DOMAIN reqs}]
  /\ To(d, "program")
  /\ UNCHANGED <<plan, now, shown, answer, earlier>>

\* A query of the read fails.
FindFails(d) ==
  /\ at[d] \in {"tracker", "requirements", "program"}
  /\ Finish(d, "internal")
  /\ UNCHANGED <<plan, now, part, shown, earlier>>

\* findDreamTrackerProgramInfo, findDreamKeyMilestones, findDreamTrackerFundings,
\* the clock, and the answer.  No step of the program changes what these queries
\* read, so one step stands for them; whatever time has passed, the clock is read
\* after them.
FindProgram(d) ==
  /\ at[d] = "program"
  /\ now' \in now..MaxNow
  /\ LET t        == part[d].tracker
         deadline == AdmissionDeadline(trackers[t])
     IN shown' = [shown EXCEPT ![d] =
          [tracker  |-> t, time |-> now', reqs |-> part[d].reqs, docs |-> part[d].docs,
           actions  |-> part[d].actions, plan |-> plan[t], deadline |-> deadline,
           fundings |-> FundingList(trackers[t]),
           summary  |-> Summary(part[d].reqs, plan[t], deadline, now')]]
  /\ part' = [part EXCEPT ![d] = NoPart]
  /\ Finish(d, "ok")
  /\ UNCHANGED <<plan, earlier>>

ReadStep(d) ==
  \/ GetDreamTrackerDetail(d) \/ FindDreamTracker(d) \/ FindDreamRequirementDetails(d)
  \/ FindProgram(d) \/ FindFails(d)

DetailNext == \/ Next /\ UNCHANGED detailVars
              \/ \E d \in Reads : ReadStep(d) /\ UNCHANGED vars

DetailSpec == DetailInit /\ [][DetailNext]_allVars
-----------------------------------------------------------------------------
(* Properties. *)

\* The percentage is 100 exactly for a tracker with requirements and all of them
\* complete, and 0 exactly if less than a hundredth is: none, unless there are more
\* than a hundred; a requirement is counted or may be uploaded, never both, and
\* neither only under a status the program does not know.
CompletionIsRight(v) ==
  /\ v.summary.percent \in 0..100
  /\ v.summary.percent = 100 <=> v.summary.total > 0 /\ v.summary.completed = v.summary.total
  /\ v.summary.percent = 0 <=> v.summary.completed * 100 < v.summary.total \/ v.summary.total = 0
  /\ LET unknown == {c \in DOMAIN v.reqs : v.reqs[c] = "OTHER"}
         offered == {x \in v.actions : x[2]}
     IN v.summary.completed + Cardinality(offered) + Cardinality(unknown) = v.summary.total

\* The next deadline is the earliest milestone from now on, or else the
\* admission's deadline; the tracker is overdue exactly if the admission's
\* deadline has passed, whatever its milestones are.  So a detail can be near a
\* milestone and overdue at once, and an admission's deadline soon to come goes
\* unmentioned behind a later milestone.
DeadlinesAreRight(v) ==
  LET ahead == {m \in Range(v.plan) \ {None} : m >= v.time}
      next  == v.summary.next
  IN /\ ahead # {} => next \in ahead /\ \A m \in ahead : next <= m
     /\ ahead = {} => next = v.deadline
     /\ v.summary.overdue <=> v.deadline # None /\ v.deadline < v.time
     /\ v.summary.near <=> next # None /\ next \in v.time..(v.time + NearSpan)

\* The tracker's funding is listed as selected, and no other is, unless the
\* admission offers fundings and this is none of them: then it is not listed.
FundingsAreRight(v) ==
  LET tracker  == trackers[v.tracker]
      selected == {x \in v.fundings : x[2] = "SELECTED"}
      hidden   == /\ tracker.admission # None /\ Offers[tracker.admission] # {}
                  /\ tracker.funding \notin Offers[tracker.admission]
  IN selected = IF tracker.funding = None \/ hidden THEN {} ELSE {<<tracker.funding, "SELECTED">>}

\* Every detail that is answered agrees with the definitions above, for the
\* requirements as they were at one moment of the read.
DetailIsRight ==
  \A d \in Reads : shown[d] # NoDetail =>
    CompletionIsRight(shown[d]) /\ DeadlinesAreRight(shown[d]) /\ FundingsAreRight(shown[d])

\* From one detail of a tracker to a later one, whatever submissions and failures
\* come between: no requirement appears or goes, and none loses its document; fewer
\* are complete only if one that was UPLOADED or VERIFIED now shows another status,
\* and the AI has answered just that of the document shown beside it; and a tracker
\* that was overdue stays so.
ProgressFallsOnlyByVerdict ==
  \A e, d \in Reads :
    e \in earlier[d] /\ shown[e] # NoDetail /\ shown[d] # NoDetail
      /\ shown[e].tracker = shown[d].tracker =>
        /\ DOMAIN shown[e].reqs = DOMAIN shown[d].reqs
        /\ \A c \in DOMAIN shown[e].docs : shown[e].docs[c] # None => shown[d].docs[c] # None
        /\ shown[d].summary.completed < shown[e].summary.completed =>
             \E c \in DOMAIN shown[d].reqs :
               /\ shown[e].reqs[c] \in {"UPLOADED", "VERIFIED"}
               /\ shown[d].reqs[c] \notin {"UPLOADED", "VERIFIED"}
               /\ <<shown[d].docs[c], shown[d].reqs[c]>> \in verdicts
        /\ shown[e].summary.overdue => shown[d].summary.overdue
=============================================================================
