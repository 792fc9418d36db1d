------------------------ MODULE SubmissionLifecycle ------------------------
(***************************************************************************)
(* What the recommendation service promises of a submission, whoever reads *)
(* it: it is created once, as a draft or in processing; its results are    *)
(* published at most once, as a whole and only while it is in processing;  *)
(* it leaves processing at most once, and from then on neither its status  *)
(* nor its results change.  Nothing ever moves a draft.                    *)
(***************************************************************************)
CONSTANTS Submissions,  \* submission identifiers
          Programs,     \* the programs an AI answer may recommend
          None          \* no result set

VARIABLES status,       \* status of each submission, "absent" before it exists
          result        \* rows published for each submission, or None

lifeVars == <<status, result>>

Statuses == {"absent", "draft", "processing", "completed", "failed"}

LifeTypeOK == /\ status \in [Submissions -> Statuses]
              /\ result \in [Submissions -> {None} \cup SUBSET Programs]

LifeInit == /\ status = [s \in Submissions |-> "absent"]
            /\ result = [s \in Submissions |-> None]

Create(s, st) == /\ status[s] = "absent"
                 /\ status' = [status EXCEPT ![s] = st]
                 /\ UNCHANGED result

Publish(s, rows) == /\ status[s] = "processing"
                    /\ result[s] = None
                    /\ rows # {}
                    /\ result' = [result EXCEPT ![s] = rows]
                    /\ UNCHANGED status

Settle(s, st) == /\ status[s] = "processing"
                 /\ status' = [status EXCEPT ![s] = st]
                 /\ UNCHANGED result

LifeNext == \E s \in Submissions :
              \/ \E st \in {"draft", "processing"} : Create(s, st)
              \/ \E rows \in SUBSET Programs : Publish(s, rows)
              \/ \E st \in {"completed", "failed"} : Settle(s, st)

LifeSpec == LifeInit /\ [][LifeNext]_lifeVars
=============================================================================
