--------------------------- MODULE LoginFlowProofs ---------------------------
(***************************************************************************)
(* Safety of LoginFlow for any logins, clients and accounts, thresholds,   *)
(* windows and lock durations.                                             *)
(***************************************************************************)
EXTENDS LoginFlow, FiniteSetTheorems, TLAPS

-----------------------------------------------------------------------------
(* The inductive invariant. *)

\* Columns that n wrong passwords, or n failures of a client, account for.
Earned(v, n) == v.count <= n /\ (v.locked # Never => n >= MaxFailedAttempts)

LimiterEarned(st, n) ==
  st.failedCount <= n /\ (st.lockedUntil # Never => n >= MaxFailures)

\* A login's copy of the row counts no more than has been counted since it was
\* read, and what it will write no more than one failure above that: its own,
\* which is not counted yet.
FailureInv ==
  /\ \A u \in Accounts : /\ IsFiniteSet(failures[u])
                         /\ Earned(users[u], Cardinality(failures[u]))
  /\ \A l \in Logins :
       /\ pc[l] = "decide" => Earned(snapshot[l], Cardinality(failures[Account(l)]))
       /\ pc[l] = "update" => IF from[l].right THEN row[l] = Clear
                              ELSE Earned(row[l], Cardinality(failures[Account(l)]) + 1)
       /\ pc[l] \notin {"record", "done"} => \A u \in Accounts : l \notin failures[u]

LimiterInv ==
  \A c \in Clients : /\ IsFiniteSet(recorded[c])
                     /\ LimiterEarned(attempts[c], Cardinality(recorded[c]))
                     /\ \A l \in recorded[c] : pc[l] = "done"

\* A login that is past a check saw no lock there that has not run out.
LockInv ==
  \A l \in Logins :
    /\ pc[l] = "update" => snapshot[l].locked <= now
    /\ pc[l] \in {"find", "decide", "update", "record"} => checked[l].lockedUntil <= now
    /\ pc[l] \in {"update", "record"} => reply[l] \in {200, 401, 429}

IndInv == TypeOK /\ FailureInv /\ LimiterInv /\ LockInv

LoginStep(l) == Receive(l) \/ Find(l) \/ Decide(l) \/ Update(l) \/ Record(l)
-----------------------------------------------------------------------------
(* Operators of the model. *)

LEMMA ClearTyped == /\ Clear \in Lockout /\ NoAttempts \in Attempts
                    /\ Clear.count = 0 /\ Clear.locked = Never
                    /\ NoAttempts.failedCount = 0 /\ NoAttempts.lockedUntil = Never
                    /\ Never \in Int /\ Never < 0
<1> QED
  BY ClockBounds DEF Clear, NoAttempts, Lockout, Attempts, Times

\* One more wrong password counts one more at most, or locks what it has earned.
LEMMA Tracked ==
  ASSUME NEW v \in Lockout, NEW t \in Nat, NEW n \in Nat, Earned(v, n)
  PROVE  TrackFailedLogin(v, t) \in Lockout /\ Earned(TrackFailedLogin(v, t), n + 1)
<1> DEFINE fresh == [v EXCEPT !.first = t, !.count = 1]
           lock  == [count |-> 0, first |-> Never, locked |-> t + LockDuration]
           more  == [v EXCEPT !.count = @ + 1]
<1>1. /\ v.count \in Nat /\ v.first \in Times /\ v.locked \in Times
      /\ MaxFailedAttempts \in Nat /\ LockDuration \in Nat /\ Never \in Times
  BY LockoutBounds DEF Lockout, Times
<1>2. fresh \in Lockout /\ fresh.count = 1 /\ fresh.locked = v.locked
  BY <1>1 DEF Lockout, Times
<1>3. lock \in Lockout /\ lock.count = 0
  BY <1>1 DEF Lockout, Times
<1>4. more \in Lockout /\ more.count = v.count + 1 /\ more.locked = v.locked
  BY <1>1 DEF Lockout
<1>5. Earned(fresh, n + 1) /\ Earned(more, n + 1)
      /\ (v.count + 1 >= MaxFailedAttempts => Earned(lock, n + 1))
  BY <1>1, <1>2, <1>3, <1>4 DEF Earned
<1>6. TrackFailedLogin(v, t) \in {fresh, more}
      \/ (TrackFailedLogin(v, t) = lock /\ v.count + 1 >= MaxFailedAttempts)
  BY DEF TrackFailedLogin
<1> HIDE DEF fresh, lock, more
<1> QED
  BY <1>2, <1>3, <1>4, <1>5, <1>6

\* The same of a client's failure, which a lock that has not run out ignores.
LEMMA Counted ==
  ASSUME NEW st \in Attempts, NEW t \in Nat, NEW n \in Nat, LimiterEarned(st, n)
  PROVE  /\ RecordFailure(st, t) \in Attempts /\ LimiterEarned(RecordFailure(st, t), n + 1)
         /\ LimiterLocked(st, t) => RecordFailure(st, t) = st
<1> DEFINE lock == [failedCount |-> 0, firstFailedAt |-> Never, lockedUntil |-> t + LockFor]
           more == [st EXCEPT !.failedCount = @ + 1]
<1>1. /\ st.failedCount \in Nat /\ st.firstFailedAt \in Times /\ st.lockedUntil \in Times
      /\ MaxFailures \in Nat /\ LockFor \in Nat /\ Never \in Times
  BY LimiterBounds DEF Attempts, Times
<1>2. FirstFailure(t) \in Attempts /\ LimiterEarned(FirstFailure(t), n + 1)
  BY <1>1 DEF FirstFailure, Attempts, LimiterEarned, Times
<1>3. lock \in Attempts /\ lock.failedCount = 0
  BY <1>1 DEF Attempts, Times
<1>4. more \in Attempts /\ more.failedCount = st.failedCount + 1
      /\ more.lockedUntil = st.lockedUntil
  BY <1>1 DEF Attempts
<1>5. LimiterEarned(st, n + 1) /\ LimiterEarned(more, n + 1)
      /\ (st.failedCount + 1 >= MaxFailures => LimiterEarned(lock, n + 1))
  BY <1>1, <1>3, <1>4 DEF LimiterEarned
<1>6. /\ RecordFailure(st, t) \in {st, FirstFailure(t), more}
         \/ (RecordFailure(st, t) = lock /\ st.failedCount + 1 >= MaxFailures)
      /\ LimiterLocked(st, t) => RecordFailure(st, t) = st
  BY DEF RecordFailure
<1> HIDE DEF lock, more
<1> QED
  BY <1>2, <1>3, <1>4, <1>5, <1>6

\* What was earned by n is earned by more.
LEMMA EarnedByMore ==
  ASSUME NEW n \in Nat, NEW m \in Nat, n <= m
  PROVE  /\ \A v \in Lockout : Earned(v, n) => Earned(v, m)
         /\ \A st \in Attempts : LimiterEarned(st, n) => LimiterEarned(st, m)
<1> QED
  BY LockoutBounds, LimiterBounds DEF Earned, LimiterEarned, Lockout, Attempts

LEMMA IndInit == Init => IndInv
<1> SUFFICES ASSUME Init PROVE IndInv
  OBVIOUS
<1>1. TypeOK
  BY ClearTyped DEF Init, TypeOK, Points, Replies
<1>2. FailureInv
  <2>1. Earned(Clear, 0)
    BY ClearTyped DEF Earned
  <2> QED
    BY <2>1, FS_EmptySet DEF Init, FailureInv
<1>3. LimiterInv
  <2>1. LimiterEarned(NoAttempts, 0)
    BY ClearTyped DEF LimiterEarned
  <2> QED
    BY <2>1, FS_EmptySet DEF Init, LimiterInv
<1>4. LockInv
  BY DEF Init, LockInv
<1> QED
  BY <1>1, <1>2, <1>3, <1>4 DEF IndInv
-----------------------------------------------------------------------------
(* Preservation. *)

\* What a login leaves alone.
LEMMA StepFrame ==
  ASSUME IndInv, NEW l \in Logins, LoginStep(l)
  PROVE  /\ now' = now /\ from' = from
         /\ pc[l] # "done" /\ pc' \in [Logins -> Points] /\ reply' \in [Logins -> Replies]
         /\ \A k \in Logins \ {l} : /\ pc'[k] = pc[k] /\ snapshot'[k] = snapshot[k]
                                    /\ row'[k] = row[k] /\ checked'[k] = checked[k]
                                    /\ reply'[k] = reply[k]
         /\ Update(l) \/ UNCHANGED <<users, failures>>
         /\ Receive(l) \/ Record(l) \/ UNCHANGED <<attempts, recorded>>
<1> USE DEF IndInv, Goto, Answer
<1>1. /\ pc \in [Logins -> Points] /\ reply \in [Logins -> Replies]
      /\ DOMAIN snapshot = Logins /\ DOMAIN row = Logins /\ DOMAIN checked = Logins
  BY DEF TypeOK
<1>2. CASE Receive(l)
  BY <1>1, <1>2 DEF Receive, Points, Replies
<1>3. CASE Find(l)
  BY <1>1, <1>3 DEF Find, Points, Replies
<1>4. CASE Decide(l)
  BY <1>1, <1>4 DEF Decide, Points, Replies
<1>5. CASE Update(l)
  BY <1>1, <1>5 DEF Update, Points, Replies
<1>6. CASE Record(l)
  BY <1>1, <1>6 DEF Record, Points, Replies
<1> QED
  BY <1>2, <1>3, <1>4, <1>5, <1>6 DEF LoginStep

\* An update that takes effect writes what the login prepared, and counts its
\* wrong password.
LEMMA Failed ==
  ASSUME IndInv, NEW l \in Logins, Update(l)
  PROVE  /\ users' \in [Accounts -> Lockout] /\ failures' \in [Accounts -> SUBSET Logins]
         /\ \A u \in Accounts :
              /\ IsFiniteSet(failures'[u])
              /\ Cardinality(failures[u]) \in Nat /\ Cardinality(failures'[u]) \in Nat
              /\ Cardinality(failures[u]) <= Cardinality(failures'[u])
              /\ Earned(users'[u], Cardinality(failures'[u]))
              /\ failures'[u] \subseteq failures[u] \cup {l}
              /\ u # Account(l) => users'[u] = users[u]
<1> USE DEF IndInv
<1>1. /\ users \in [Accounts -> Lockout] /\ failures \in [Accounts -> SUBSET Logins]
      /\ row \in [Logins -> Lockout] /\ Account(l) \in Accounts
  BY DEF TypeOK, Account
<1>2. \A u \in Accounts : /\ IsFiniteSet(failures[u]) /\ Cardinality(failures[u]) \in Nat
                          /\ Earned(users[u], Cardinality(failures[u]))
                          /\ l \notin failures[u]
  BY FS_CardinalityType DEF FailureInv, Update
<1>3. PICK o \in Outcomes("live") :
        /\ users' = IF Applied(o) THEN [users EXCEPT ![Account(l)] = row[l]] ELSE users
        /\ failures' = IF Applied(o) /\ ~from[l].right
                       THEN [failures EXCEPT ![Account(l)] = @ \cup {l}] ELSE failures
  BY DEF Update
<1>4. users' \in [Accounts -> Lockout] /\ failures' \in [Accounts -> SUBSET Logins]
  BY <1>1, <1>3
<1>5. ASSUME NEW u \in Accounts, failures'[u] = failures[u] \cup {l}
      PROVE  IsFiniteSet(failures'[u]) /\ Cardinality(failures'[u]) = Cardinality(failures[u]) + 1
  <2>1. IsFiniteSet(failures[u]) /\ l \notin failures[u]
    BY <1>2
  <2>2. /\ IsFiniteSet(failures[u] \cup {l})
        /\ Cardinality(failures[u] \cup {l}) = Cardinality(failures[u]) + 1
    BY <2>1, FS_AddElement
  <2> QED
    BY <1>5, <2>2
<1>6. ASSUME NEW u \in Accounts
      PROVE  /\ failures'[u] = failures[u] \/ failures'[u] = failures[u] \cup {l}
             /\ u # Account(l) => users'[u] = users[u] /\ failures'[u] = failures[u]
             /\ users'[u] # users[u] => Applied(o) /\ users'[u] = row[l]
             /\ Applied(o) /\ ~from[l].right /\ u = Account(l) =>
                  failures'[u] = failures[u] \cup {l}
  BY <1>1, <1>3
<1>7. ASSUME NEW u \in Accounts PROVE Earned(users'[u], Cardinality(failures'[u]))
  <2>1. Cardinality(failures[u]) <= Cardinality(failures'[u]) /\ Cardinality(failures'[u]) \in Nat
    BY <1>2, <1>5, <1>6
  <2>2. CASE users'[u] = users[u]
    BY <1>1, <1>2, <2>1, <2>2, EarnedByMore
  <2>3. CASE users'[u] # users[u] /\ from[l].right
    <3>1. users'[u] = Clear
      BY <1>6, <2>3 DEF FailureInv, Update
    <3> QED
      BY <2>1, <3>1, ClearTyped DEF Earned
  <2>4. CASE users'[u] # users[u] /\ ~from[l].right
    <3>1. /\ u = Account(l) /\ users'[u] = row[l]
          /\ failures'[u] = failures[u] \cup {l}
      BY <1>6, <2>4
    <3>2. Earned(row[l], Cardinality(failures[u]) + 1)
      BY <2>4, <3>1 DEF FailureInv, Update
    <3> QED
      BY <1>5, <3>1, <3>2
  <2> QED
    BY <2>2, <2>3, <2>4
<1> QED
  BY <1>2, <1>4, <1>5, <1>6, <1>7

\* What a login does to its client's entry.
LEMMA Attempted ==
  ASSUME IndInv, NEW l \in Logins, LoginStep(l)
  PROVE  /\ attempts' \in [Clients -> Attempts] /\ recorded' \in [Clients -> SUBSET Logins]
         /\ \A c \in Clients :
              /\ IsFiniteSet(recorded'[c])
              /\ LimiterEarned(attempts'[c], Cardinality(recorded'[c]))
              /\ recorded'[c] # recorded[c] => /\ recorded'[c] = recorded[c] \cup {l}
                                               /\ pc'[l] = "done"
              /\ LimiterLocked(attempts[c], now) /\ attempts'[c] # attempts[c] =>
                   /\ attempts'[c] = NoAttempts
                   /\ pc[l] = "record" /\ pc'[l] = "done" /\ reply[l] = 200 /\ Client(l) = c
<1> USE DEF IndInv
<1>1. /\ attempts \in [Clients -> Attempts] /\ recorded \in [Clients -> SUBSET Logins]
      /\ Client(l) \in Clients /\ pc \in [Logins -> Points] /\ now \in Nat
  BY DEF TypeOK, Client
<1>2. \A c \in Clients : /\ IsFiniteSet(recorded[c]) /\ Cardinality(recorded[c]) \in Nat
                         /\ LimiterEarned(attempts[c], Cardinality(recorded[c]))
                         /\ l \notin recorded[c]
  BY StepFrame, FS_CardinalityType DEF LimiterInv
<1>3. ASSUME NEW n \in Nat PROVE LimiterEarned(NoAttempts, n)
  BY ClearTyped DEF LimiterEarned
<1>4. CASE UNCHANGED <<attempts, recorded>>
  BY <1>1, <1>2, <1>4
<1>5. CASE /\ attempts' = [attempts EXCEPT ![Client(l)] = AfterRemainingLock(attempts[Client(l)], now)]
           /\ recorded' = recorded
  <2>1. AfterRemainingLock(attempts[Client(l)], now) \in {attempts[Client(l)], NoAttempts}
        /\ (LimiterLocked(attempts[Client(l)], now) =>
              AfterRemainingLock(attempts[Client(l)], now) = attempts[Client(l)])
    BY DEF AfterRemainingLock
  <2> QED
    BY <1>1, <1>2, <1>3, <1>5, <2>1, ClearTyped
<1>6. CASE /\ attempts' = [attempts EXCEPT ![Client(l)] = NoAttempts] /\ recorded' = recorded
           /\ pc[l] = "record" /\ pc'[l] = "done" /\ reply[l] = 200
  BY <1>1, <1>2, <1>3, <1>6, ClearTyped
<1>7. CASE /\ attempts' = [attempts EXCEPT ![Client(l)] = RecordFailure(@, now)]
           /\ recorded' = [recorded EXCEPT ![Client(l)] = @ \cup {l}]
           /\ pc'[l] = "done"
  <2> DEFINE c  == Client(l)
             st == attempts[c]
  <2>1. /\ RecordFailure(st, now) \in Attempts
        /\ LimiterEarned(RecordFailure(st, now), Cardinality(recorded[c]) + 1)
        /\ LimiterLocked(st, now) => RecordFailure(st, now) = st
    BY <1>1, <1>2, Counted
  <2>2. attempts'[c] = RecordFailure(st, now) /\ recorded'[c] = recorded[c] \cup {l}
        /\ \A d \in Clients \ {c} : attempts'[d] = attempts[d] /\ recorded'[d] = recorded[d]
    BY <1>1, <1>7
  <2>3. IsFiniteSet(recorded'[c]) /\ Cardinality(recorded'[c]) = Cardinality(recorded[c]) + 1
    BY <1>1, <1>2, <2>2, FS_AddElement
  <2>4. attempts' \in [Clients -> Attempts] /\ recorded' \in [Clients -> SUBSET Logins]
    BY <1>1, <1>7, <2>1
  <2> QED
    BY <1>1, <1>2, <1>7, <2>1, <2>2, <2>3, <2>4
<1>8. CASE Receive(l)
  BY <1>5, <1>8 DEF Receive
<1>9. CASE Record(l)
  <2>1. reply[l] \in {200, 401, 429} /\ pc[l] = "record"
    BY <1>9 DEF LockInv, Record
  <2>2. pc'[l] = "done"
    BY <1>1, <1>9 DEF Record, Goto
  <2>3. CASE reply[l] = 200
    BY <1>6, <1>9, <2>1, <2>2, <2>3 DEF Record
  <2>4. CASE reply[l] = 401
    BY <1>7, <1>9, <2>2, <2>4 DEF Record
  <2>5. CASE reply[l] = 429
    BY <1>4, <1>9, <2>5 DEF Record
  <2> QED
    BY <2>1, <2>3, <2>4, <2>5
<1> QED
  BY <1>4, <1>8, <1>9, StepFrame

LEMMA TypeStep ==
  ASSUME IndInv, NEW l \in Logins, LoginStep(l)
  PROVE  TypeOK'
<1> USE DEF IndInv
<1>1. /\ users \in [Accounts -> Lockout] /\ failures \in [Accounts -> SUBSET Logins]
      /\ snapshot \in [Logins -> Lockout] /\ row \in [Logins -> Lockout]
      /\ attempts \in [Clients -> Attempts] /\ checked \in [Logins -> Attempts]
      /\ now \in Nat /\ Account(l) \in Accounts /\ Client(l) \in Clients
      /\ from \in [Logins -> [client : Clients, account : Accounts, right : BOOLEAN]]
  BY DEF TypeOK, Account, Client
<1>2. users' \in [Accounts -> Lockout] /\ failures' \in [Accounts -> SUBSET Logins]
  BY <1>1, StepFrame, Failed
<1>3. /\ snapshot' \in [Logins -> Lockout] /\ row' \in [Logins -> Lockout]
      /\ checked' \in [Logins -> Attempts]
  <2>1. CASE Receive(l)
    <3>1. AfterRemainingLock(attempts[Client(l)], now) \in Attempts
      BY <1>1, ClearTyped DEF AfterRemainingLock
    <3> QED
      BY <1>1, <2>1, <3>1 DEF Receive
  <2>2. CASE Find(l)
    BY <1>1, <2>2 DEF Find
  <2>3. CASE Decide(l)
    <3>1. Earned(snapshot[l], Cardinality(failures[Account(l)]))
          /\ Cardinality(failures[Account(l)]) \in Nat
      BY <1>1, <2>3, FS_CardinalityType DEF FailureInv, Decide
    <3>2. TrackFailedLogin(snapshot[l], now) \in Lockout
      BY <1>1, <3>1, Tracked
    <3> QED
      BY <1>1, <2>3, <3>2, ClearTyped DEF Decide
  <2>4. CASE Update(l)
    BY <1>1, <2>4, ClearTyped DEF Update
  <2>5. CASE Record(l)
    BY <1>1, <2>5, ClearTyped DEF Record
  <2> QED
    BY <2>1, <2>2, <2>3, <2>4, <2>5 DEF LoginStep
<1> QED
  BY <1>1, <1>2, <1>3, StepFrame, Attempted DEF TypeOK

LEMMA FailureStep ==
  ASSUME IndInv, NEW l \in Logins, LoginStep(l)
  PROVE  FailureInv'
<1> USE DEF IndInv
<1> DEFINE n(u) == Cardinality(failures[u])
<1>1. /\ users \in [Accounts -> Lockout] /\ failures \in [Accounts -> SUBSET Logins]
      /\ snapshot \in [Logins -> Lockout] /\ row \in [Logins -> Lockout]
      /\ pc \in [Logins -> Points] /\ now \in Nat
      /\ \A k \in Logins : Account(k) \in Accounts /\ Account(k)' = Account(k)
  BY StepFrame DEF TypeOK, Account
<1>2. \A u \in Accounts :
        /\ IsFiniteSet(failures'[u]) /\ n(u) \in Nat /\ n(u)' \in Nat /\ n(u) <= n(u)'
        /\ Earned(users'[u], n(u)')
        /\ failures'[u] \subseteq failures[u] \cup {l}
        /\ ~Update(l) => users'[u] = users[u] /\ failures'[u] = failures[u]
  <2>1. CASE Update(l)
    BY <2>1, Failed
  <2>2. CASE UNCHANGED <<users, failures>>
    BY <2>2, FS_CardinalityType DEF FailureInv
  <2> QED
    BY <2>1, <2>2, StepFrame
<1>3. ASSUME NEW k \in Logins \ {l}
      PROVE  /\ pc'[k] = "decide" => Earned(snapshot'[k], n(Account(k))')
             /\ pc'[k] = "update" => IF from'[k].right THEN row'[k] = Clear
                                     ELSE Earned(row'[k], n(Account(k))' + 1)
             /\ pc'[k] \notin {"record", "done"} => \A u \in Accounts : k \notin failures'[u]
  <2>1. pc'[k] = pc[k] /\ snapshot'[k] = snapshot[k] /\ row'[k] = row[k] /\ from' = from
    BY StepFrame
  <2>2. pc[k] = "decide" => Earned(snapshot[k], n(Account(k))')
    BY <1>1, <1>2, EarnedByMore DEF FailureInv
  <2>3. pc[k] = "update" /\ ~from[k].right => Earned(row[k], n(Account(k))' + 1)
    <3>1. ASSUME pc[k] = "update", ~from[k].right PROVE Earned(row[k], n(Account(k)) + 1)
      BY <3>1 DEF FailureInv
    <3>2. n(Account(k)) + 1 \in Nat /\ n(Account(k))' + 1 \in Nat
          /\ n(Account(k)) + 1 <= n(Account(k))' + 1
      BY <1>1, <1>2
    <3> HIDE DEF n
    <3> QED
      BY <1>1, <3>1, <3>2, EarnedByMore
  <2> QED
    BY <1>2, <2>1, <2>2, <2>3 DEF FailureInv
<1>4. /\ pc'[l] = "decide" => Earned(snapshot'[l], n(Account(l))')
      /\ pc'[l] = "update" => IF from'[l].right THEN row'[l] = Clear
                              ELSE Earned(row'[l], n(Account(l))' + 1)
      /\ pc'[l] \notin {"record", "done"} => \A u \in Accounts : l \notin failures'[u]
  <2> USE DEF Goto
  <2>1. CASE Receive(l)
    BY <1>1, <1>2, <2>1 DEF Receive, FailureInv
  <2>2. CASE Find(l)
    BY <1>1, <1>2, <2>2 DEF Find, FailureInv
  <2>3. CASE Decide(l)
    <3>1. /\ pc[l] = "decide" /\ failures' = failures /\ pc'[l] \in {"record", "update"}
          /\ from' = from /\ Account(l)' = Account(l)
      BY <1>1, <2>3 DEF Decide, Account
    <3>2. pc'[l] = "update" => row'[l] = IF from[l].right THEN Clear
                                         ELSE TrackFailedLogin(snapshot[l], now)
      BY <1>1, <2>3 DEF Decide
    <3>3. Earned(snapshot[l], n(Account(l))) /\ n(Account(l)) \in Nat
      BY <1>1, <1>2, <3>1 DEF FailureInv
    <3>4. Earned(TrackFailedLogin(snapshot[l], now), n(Account(l)) + 1)
      BY <1>1, <3>3, Tracked
    <3>5. \A u \in Accounts : l \notin failures[u]
      BY <3>1 DEF FailureInv
    <3> QED
      BY <3>1, <3>2, <3>4, <3>5
  <2>4. CASE Update(l)
    BY <1>1, <2>4 DEF Update
  <2>5. CASE Record(l)
    BY <1>1, <2>5 DEF Record
  <2> QED
    BY <2>1, <2>2, <2>3, <2>4, <2>5 DEF LoginStep
<1> QED
  BY <1>2, <1>3, <1>4 DEF FailureInv

LEMMA LimiterStep ==
  ASSUME IndInv, NEW l \in Logins, LoginStep(l)
  PROVE  LimiterInv'
<1>1. ASSUME NEW c \in Clients, NEW k \in recorded'[c] PROVE pc'[k] = "done"
  <2>1. recorded[c] \subseteq Logins
    BY DEF IndInv, TypeOK
  <2>2. CASE k \in recorded[c]
    BY <2>1, <2>2, StepFrame DEF IndInv, LimiterInv
  <2>3. CASE k \notin recorded[c]
    BY <1>1, <2>3, Attempted
  <2> QED
    BY <2>2, <2>3
<1> QED
  BY <1>1, Attempted DEF LimiterInv

LEMMA LockStep ==
  ASSUME IndInv, NEW l \in Logins, LoginStep(l)
  PROVE  LockInv'
<1> USE DEF IndInv, Goto, Answer
<1>1. /\ snapshot \in [Logins -> Lockout] /\ checked \in [Logins -> Attempts]
      /\ attempts \in [Clients -> Attempts] /\ pc \in [Logins -> Points]
      /\ reply \in [Logins -> Replies] /\ now \in Nat /\ Client(l) \in Clients
  BY DEF TypeOK, Client
<1>2. snapshot[l].locked \in Int /\ attempts[Client(l)].lockedUntil \in Int
      /\ checked[l].lockedUntil \in Int
  BY <1>1, ClockBounds DEF Lockout, Attempts, Times
<1>3. /\ pc'[l] = "update" => snapshot'[l].locked <= now
      /\ pc'[l] \in {"find", "decide", "update", "record"} => checked'[l].lockedUntil <= now
      /\ pc'[l] \in {"update", "record"} => reply'[l] \in {200, 401, 429}
  <2>1. CASE Receive(l)
    <3>1. ASSUME ~LimiterLocked(attempts[Client(l)], now)
          PROVE  AfterRemainingLock(attempts[Client(l)], now).lockedUntil <= now
      BY <1>1, <1>2, <3>1, ClearTyped DEF AfterRemainingLock, LimiterLocked
    <3> QED
      BY <1>1, <2>1, <3>1 DEF Receive
  <2>2. CASE Find(l)
    BY <1>1, <2>2 DEF Find, LockInv
  <2>3. CASE Decide(l)
    <3>1. pc[l] = "decide" /\ checked' = checked /\ reply'[l] \in {200, 401, 429}
      BY <1>1, <2>3 DEF Decide
    <3>2. pc'[l] = "update" => ~AccountLocked(snapshot[l], now) /\ snapshot' = snapshot
      BY <1>1, <2>3 DEF Decide
    <3> QED
      BY <1>1, <1>2, <3>1, <3>2 DEF AccountLocked, LockInv
  <2>4. CASE Update(l)
    <3>1. pc[l] = "update" /\ pc'[l] = "record" /\ checked' = checked
          /\ reply'[l] \in {reply[l], 401}
      BY <1>1, <2>4 DEF Update
    <3> QED
      BY <3>1 DEF LockInv
  <2>5. CASE Record(l)
    BY <1>1, <2>5 DEF Record
  <2> QED
    BY <2>1, <2>2, <2>3, <2>4, <2>5 DEF LoginStep
<1> QED
  BY <1>3, StepFrame DEF LockInv

LEMMA EnvironmentStep ==
  ASSUME IndInv, Tick \/ Restart \/ UNCHANGED vars
  PROVE  IndInv'
<1> USE DEF IndInv
<1>1. /\ checked \in [Logins -> Attempts] /\ snapshot \in [Logins -> Lockout]
      /\ now \in Nat /\ now' \in Nat /\ now <= now' /\ Never \in Int
      /\ pc \in [Logins -> Points]
  BY ClockBounds DEF TypeOK, Tick, Restart, vars
<1>2. /\ users' = users /\ failures' = failures /\ from' = from /\ reply' = reply
      /\ \A l \in Logins :
           \/ pc'[l] \in {"idle", "done"} /\ (pc[l] \in {"idle", "done"} => pc'[l] = pc[l])
           \/ /\ pc'[l] = pc[l] /\ snapshot'[l] = snapshot[l]
              /\ row'[l] = row[l] /\ checked'[l] = checked[l]
      /\ \A l \in Logins : pc[l] = "idle" => pc'[l] = "idle"
      /\ \A l \in Logins : pc'[l] = "idle" => pc[l] = "idle"
      /\ \A l \in Logins : pc[l] = "done" => pc'[l] = "done"
  BY <1>1 DEF Tick, Restart, vars
<1>3. /\ \/ UNCHANGED <<attempts, recorded>>
         \/ /\ attempts' = [c \in Clients |-> NoAttempts] /\ recorded' = [c \in Clients |-> {}]
  BY DEF Tick, Restart, vars
<1>4. TypeOK'
  BY <1>1, ClearTyped DEF TypeOK, Tick, Restart, vars, Points
<1>5. FailureInv'
  BY <1>2 DEF FailureInv, Account
<1>6. LimiterInv'
  <2>1. CASE UNCHANGED <<attempts, recorded>>
    <3>1. \A c \in Clients : recorded[c] \subseteq Logins
      BY DEF TypeOK
    <3> QED
      BY <1>2, <2>1, <3>1 DEF LimiterInv
  <2>2. CASE /\ attempts' = [c \in Clients |-> NoAttempts] /\ recorded' = [c \in Clients |-> {}]
    <3>1. LimiterEarned(NoAttempts, 0)
      BY ClearTyped DEF LimiterEarned
    <3> QED
      BY <2>2, <3>1, FS_EmptySet DEF LimiterInv
  <2> QED
    BY <1>3, <2>1, <2>2
<1>7. LockInv'
  <2>1. \A l \in Logins : snapshot[l].locked \in Int /\ checked[l].lockedUntil \in Int
    BY <1>1 DEF Lockout, Attempts, Times
  <2> QED
    BY <1>1, <1>2, <2>1 DEF LockInv
<1> QED
  BY <1>4, <1>5, <1>6, <1>7

\* A client is locked only if failures of its logins are on record.
LEMMA LockRecorded ==
  ASSUME IndInv, NEW c \in Clients, LimiterLocked(attempts[c], now)
  PROVE  recorded[c] # {}
<1>1. attempts[c].lockedUntil \in Int /\ now \in Nat
  BY ClockBounds DEF IndInv, TypeOK, Attempts, Times
<1>2. attempts[c].lockedUntil # Never
  BY <1>1, ClearTyped DEF LimiterLocked
<1>3. Cardinality(recorded[c]) >= MaxFailures /\ MaxFailures \in Nat \ {0}
  BY <1>2, LimiterBounds DEF IndInv, LimiterInv, LimiterEarned
<1> QED
  BY <1>3, FS_EmptySet

LEMMA IndInvariant == Spec => []IndInv
<1>1. IndInv /\ [Next]_vars => IndInv'
  BY TypeStep, FailureStep, LimiterStep, LockStep, EnvironmentStep DEF Next, LoginStep, IndInv
<1> QED
  BY <1>1, IndInit, PTL DEF Spec
-----------------------------------------------------------------------------
(* Theorems. *)

\* The accounts, the limiter and the logins keep their types.
THEOREM TypeCorrect == Spec => []TypeOK
<1>1. IndInv => TypeOK
  BY DEF IndInv
<1> QED
  BY <1>1, IndInvariant, PTL

\* No wrong password is counted twice, however many logins of the account overlap.
THEOREM CountsAreEarned == Spec => []CountIsEarned
<1>1. IndInv => CountIsEarned
  BY DEF IndInv, FailureInv, Earned, CountIsEarned
<1> QED
  BY <1>1, IndInvariant, PTL

\* The same of the limiter and its clients.
THEOREM LimiterLocksAreEarned == Spec => []LimiterIsEarned
<1>1. IndInv => LimiterIsEarned
  BY DEF IndInv, LimiterInv, LimiterEarned, LimiterIsEarned
<1> QED
  BY <1>1, IndInvariant, PTL

\* Only a login that read the row before a lock undoes the lock while it lasts.
THEOREM LocksYieldToStaleCopies == Spec => LockYieldsOnlyToStaleCopy
<1>1. ASSUME IndInv, Next, NEW u \in Accounts, AccountLocked(users[u], now), users'[u] # users[u]
      PROVE  \E l \in Logins : /\ pc[l] = "update" /\ pc'[l] = "record"
                               /\ Account(l) = u /\ snapshot[l] # users[u]
  <2>1. PICK l \in Logins : LoginStep(l)
    BY <1>1 DEF Next, LoginStep, Tick, Restart
  <2>2. Update(l) /\ Account(l) = u
    BY <1>1, <2>1, StepFrame, Failed
  <2>3. pc[l] = "update" /\ pc'[l] = "record"
    BY <1>1, <2>2 DEF Update, Goto, IndInv, TypeOK
  <2>4. snapshot[l].locked <= now /\ users[u].locked > now
    BY <1>1, <2>3 DEF IndInv, LockInv, AccountLocked
  <2>5. users[u].locked \in Int /\ now \in Nat
    BY <1>1, ClockBounds DEF IndInv, TypeOK, Lockout, Times
  <2>6. snapshot[l] # users[u]
    BY <2>4, <2>5
  <2> QED
    BY <2>2, <2>3, <2>6
<1> DEFINE Stale == \A u \in Accounts :
                      AccountLocked(users[u], now) /\ users'[u] # users[u] =>
                        \E l \in Logins : /\ pc[l] = "update" /\ pc'[l] = "record"
                                          /\ Account(l) = u /\ snapshot[l] # users[u]
<1>2. IndInv /\ [Next]_vars => [Stale]_vars
  BY <1>1
<1> QED
  BY <1>2, IndInvariant, PTL DEF Spec, LockYieldsOnlyToStaleCopy

\* A client's lock never moves, and is lifted early only by a restart or by a success
\* that passed the limiter before it.
THEOREM LimiterYieldsToEarlierSuccesses == Spec => LimiterYieldsOnlyToEarlierSuccess
<1>1. ASSUME IndInv, Next, NEW c \in Clients,
             LimiterLocked(attempts[c], now), attempts'[c] # attempts[c]
      PROVE  /\ attempts'[c] = NoAttempts
             /\ \/ Forgotten(c)
                \/ \E l \in Logins : /\ pc[l] = "record" /\ pc'[l] = "done"
                                     /\ reply[l] = 200 /\ Client(l) = c
                                     /\ ~LimiterLocked(checked[l], now)
  <2>1. CASE Tick \/ Restart
    <3>1. attempts'[c] = NoAttempts /\ recorded'[c] = {}
      BY <1>1, <2>1 DEF Tick, Restart
    <3>2. recorded[c] # {}
      BY <1>1, LockRecorded
    <3> QED
      BY <3>1, <3>2 DEF Forgotten
  <2>2. CASE \E l \in Logins : LoginStep(l)
    <3>1. PICK l \in Logins : LoginStep(l)
      BY <2>2
    <3>2. attempts'[c] = NoAttempts /\ pc[l] = "record" /\ pc'[l] = "done" /\ reply[l] = 200
          /\ Client(l) = c
      BY <1>1, <3>1, Attempted
    <3>3. checked[l].lockedUntil <= now
      BY <1>1, <3>2 DEF IndInv, LockInv
    <3>4. checked[l].lockedUntil \in Int /\ now \in Nat
      BY <1>1, ClockBounds DEF IndInv, TypeOK, Attempts, Times
    <3>5. ~LimiterLocked(checked[l], now)
      BY <3>3, <3>4 DEF LimiterLocked
    <3> QED
      BY <3>2, <3>5
  <2> QED
    BY <1>1, <2>1, <2>2 DEF Next, LoginStep
<1> DEFINE Lifted == \A c \in Clients :
                       LimiterLocked(attempts[c], now) /\ attempts'[c] # attempts[c] =>
                         /\ attempts'[c] = NoAttempts
                         /\ \/ Forgotten(c)
                            \/ \E l \in Logins : /\ pc[l] = "record" /\ pc'[l] = "done"
                                                 /\ reply[l] = 200 /\ Client(l) = c
                                                 /\ ~LimiterLocked(checked[l], now)
<1>2. IndInv /\ [Next]_vars => [Lifted]_vars
  BY <1>1
<1> QED
  BY <1>2, IndInvariant, PTL DEF Spec, LimiterYieldsOnlyToEarlierSuccess
=============================================================================
