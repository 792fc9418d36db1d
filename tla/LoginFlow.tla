----------------------------- MODULE LoginFlow -----------------------------
(***************************************************************************)
(* POST /auth/login from the rate limiter to the answer.  The middleware   *)
(* asks the limiter whether the client is locked, runs the handler and     *)
(* then records the outcome; the handler reads the user's row, decides, and *)
(* writes the whole row back.  Neither the middleware nor the handler      *)
(* holds a lock or a transaction between its steps, so logins of one       *)
(* account or client interleave freely.                                    *)
(***************************************************************************)
EXTENDS AccountLockout, LoginLimiter, FiniteSets, DatabaseCalls

CONSTANTS Logins,    \* executions of the login handler
          Clients,   \* client addresses
          Accounts   \* registered users

VARIABLES
  now,
  users,      \* the lockout columns of table users
  attempts,   \* the limiter's entry of each client
  pc,         \* the next step of each login
  from,       \* its client, its account and whether its password is right
  snapshot,   \* the row FindByEmail returned to it
  row,        \* the row it will write
  checked,    \* history: the limiter's entry when it passed the limiter
  reply,      \* its status code
  failures,   \* history: wrong passwords that wrote each account's row
  recorded    \* history: failures recorded for each client

vars  == <<now, users, attempts, pc, from, snapshot, row, checked, reply, failures, recorded>>

Points  == {"idle", "find", "decide", "update", "record", "done"}
Replies == {0, 200, 401, 429}

TypeOK ==
  /\ now \in Nat
  /\ users \in [Accounts -> Lockout]
  /\ attempts \in [Clients -> Attempts]
  /\ pc \in [Logins -> Points]
  /\ from \in [Logins -> [client : Clients, account : Accounts, right : BOOLEAN]]
  /\ snapshot \in [Logins -> Lockout]
  /\ row \in [Logins -> Lockout]
  /\ checked \in [Logins -> Attempts]
  /\ reply \in [Logins -> Replies]
  /\ failures \in [Accounts -> SUBSET Logins]
  /\ recorded \in [Clients -> SUBSET Logins]

\* What a login will ask is chosen at the start; it matters once it is received.
Init ==
  /\ now = 0
  /\ users = [u \in Accounts |-> Clear]
  /\ attempts = [c \in Clients |-> NoAttempts]
  /\ pc = [l \in Logins |-> "idle"]
  /\ from \in [Logins -> [client : Clients, account : Accounts, right : BOOLEAN]]
  /\ snapshot = [l \in Logins |-> Clear]
  /\ row = [l \in Logins |-> Clear]
  /\ checked = [l \in Logins |-> NoAttempts]
  /\ reply = [l \in Logins |-> 0]
  /\ failures = [u \in Accounts |-> {}]
  /\ recorded = [c \in Clients |-> {}]

Client(l)  == from[l].client
Account(l) == from[l].account
Goto(l, p) == pc' = [pc EXCEPT ![l] = p]
Answer(l, code) == reply' = [reply EXCEPT ![l] = code]
-----------------------------------------------------------------------------
\* Mutant: the limiter is asked, but its answer turns nobody away.
Receive_LockIgnored(l) ==
  /\ pc[l] = "idle"
  /\ LET st == AfterRemainingLock(attempts[Client(l)], now)
     IN /\ attempts' = [attempts EXCEPT ![Client(l)] = st]
        /\ checked' = [checked EXCEPT ![l] = st]
  /\ Goto(l, "find")
  /\ UNCHANGED <<now, users, from, snapshot, row, reply, failures, recorded>>

\* RemainingLock; a locked client is answered at once and nothing is recorded.
Receive(l) ==
  /\ pc[l] = "idle"
  /\ LET st == attempts[Client(l)]
     IN /\ attempts' = [attempts EXCEPT ![Client(l)] = AfterRemainingLock(st, now)]
        /\ IF LimiterLocked(st, now)
           THEN Goto(l, "done") /\ Answer(l, 429) /\ UNCHANGED checked
           ELSE /\ Goto(l, "find") /\ UNCHANGED reply
                /\ checked' = [checked EXCEPT ![l] = AfterRemainingLock(st, now)]
  /\ UNCHANGED <<now, users, from, snapshot, row, failures, recorded>>

\* FindByEmail returns the row, or fails: no such user, or the database.
Find(l) ==
  /\ pc[l] = "find"
  /\ \/ /\ snapshot' = [snapshot EXCEPT ![l] = users[Account(l)]]
        /\ Goto(l, "decide")
        /\ UNCHANGED reply
     \/ /\ Goto(l, "record") /\ Answer(l, 401)
        /\ UNCHANGED snapshot
  /\ UNCHANGED <<now, users, attempts, from, row, checked, failures, recorded>>

\* Mutant: a locked account is not turned away.
Decide_LockIgnored(l) ==
  /\ pc[l] = "decide"
  /\ row' = [row EXCEPT ![l] = IF from[l].right THEN Clear ELSE TrackFailedLogin(snapshot[l], now)]
  /\ Answer(l, IF from[l].right THEN 200 ELSE IF AccountLocked(row'[l], now) THEN 429 ELSE 401)
  /\ Goto(l, "update")
  /\ UNCHANGED <<now, users, attempts, from, snapshot, checked, failures, recorded>>

\* The clock is read, the lock and the password are checked, and the row to
\* write and the answer it will give are prepared.
Decide(l) ==
  /\ pc[l] = "decide"
  /\ LET u == snapshot[l]
     IN \/ /\ AccountLocked(u, now)
           /\ Answer(l, 429) /\ Goto(l, "record")
           /\ snapshot' = [snapshot EXCEPT ![l] = Clear]
           /\ UNCHANGED row
        \/ /\ ~AccountLocked(u, now) /\ from[l].right
           /\ row' = [row EXCEPT ![l] = Clear]
           /\ Answer(l, 200) /\ Goto(l, "update")
           /\ UNCHANGED snapshot
        \/ /\ ~AccountLocked(u, now) /\ ~from[l].right
           /\ row' = [row EXCEPT ![l] = TrackFailedLogin(u, now)]
           /\ Answer(l, IF AccountLocked(TrackFailedLogin(u, now), now) THEN 429 ELSE 401)
           /\ Goto(l, "update")
           /\ UNCHANGED snapshot
  /\ UNCHANGED <<now, users, attempts, from, checked, failures, recorded>>

\* UserRepository.Update writes every column; its error turns any answer into 401.
\* The handler's copies of the row end with it.
Update(l) ==
  /\ pc[l] = "update"
  /\ \E o \in Outcomes("live") :
       /\ users' = IF Applied(o) THEN [users EXCEPT ![Account(l)] = row[l]] ELSE users
       /\ failures' = IF Applied(o) /\ ~from[l].right
                      THEN [failures EXCEPT ![Account(l)] = @ \cup {l}] ELSE failures
       /\ IF o = "ok" THEN UNCHANGED reply ELSE Answer(l, 401)
  /\ Goto(l, "record")
  /\ snapshot' = [snapshot EXCEPT ![l] = Clear]
  /\ row' = [row EXCEPT ![l] = Clear]
  /\ UNCHANGED <<now, attempts, from, checked, recorded>>

\* After the handler: 200 resets the client, 401 counts against it.
Record(l) ==
  /\ pc[l] = "record"
  /\ LET c == Client(l)
     IN CASE reply[l] = 200 -> /\ attempts' = [attempts EXCEPT ![c] = NoAttempts]
                               /\ UNCHANGED recorded
          [] reply[l] = 401 -> /\ attempts' = [attempts EXCEPT ![c] = RecordFailure(@, now)]
                               /\ recorded' = [recorded EXCEPT ![c] = @ \cup {l}]
          [] reply[l] = 429 -> UNCHANGED <<attempts, recorded>>
  /\ Goto(l, "done")
  /\ checked' = [checked EXCEPT ![l] = NoAttempts]
  /\ UNCHANGED <<now, users, from, snapshot, row, reply, failures>>

Tick == /\ now < MaxNow /\ now' = now + 1
        /\ UNCHANGED <<users, attempts, pc, from, snapshot, row, checked, reply, failures, recorded>>

\* The limiter's memory is lost with the process, and so are its handlers.
Restart ==
  /\ attempts' = [c \in Clients |-> NoAttempts]
  /\ recorded' = [c \in Clients |-> {}]
  /\ pc' = [l \in Logins |-> IF pc[l] = "idle" THEN "idle" ELSE "done"]
  /\ snapshot' = [l \in Logins |-> Clear]
  /\ row' = [l \in Logins |-> Clear]
  /\ checked' = [l \in Logins |-> NoAttempts]
  /\ UNCHANGED <<now, users, from, reply, failures>>

Next == \/ \E l \in Logins : Receive(l) \/ Find(l) \/ Decide(l) \/ Update(l) \/ Record(l)
        \/ Tick \/ Restart

Spec == Init /\ [][Next]_vars
-----------------------------------------------------------------------------
(* Properties. *)

\* An account is locked, or counts failures, only for that many wrong passwords:
\* concurrent logins may lose failures but never count one twice.
CountIsEarned ==
  \A u \in Accounts :
    /\ users[u].count <= Cardinality(failures[u])
    /\ users[u].locked # Never => Cardinality(failures[u]) >= MaxFailedAttempts

\* The same of the limiter and its clients.
LimiterIsEarned ==
  \A c \in Clients :
    /\ attempts[c].failedCount <= Cardinality(recorded[c])
    /\ attempts[c].lockedUntil # Never => Cardinality(recorded[c]) >= MaxFailures

\* A lock that has not run out is changed only by a login whose copy of the row
\* is older than the lock: one that sees the lock is turned away.
LockYieldsOnlyToStaleCopy ==
  [][\A u \in Accounts :
       AccountLocked(users[u], now) /\ users'[u] # users[u] =>
         \E l \in Logins : /\ pc[l] = "update" /\ pc'[l] = "record"
                           /\ Account(l) = u /\ snapshot[l] # users[u]]_vars

\* The process that recorded failures of the client is gone.
Forgotten(c) == recorded[c] # {} /\ recorded'[c] = {}

\* A client's lock that has not run out is never moved, and lifted only by a
\* restart or at the end of a successful login that passed the limiter before the
\* lock: neither a success let through in spite of the lock nor a failure that ends
\* during the lock touches it.
LimiterYieldsOnlyToEarlierSuccess ==
  [][\A c \in Clients :
       LimiterLocked(attempts[c], now) /\ attempts'[c] # attempts[c] =>
         /\ attempts'[c] = NoAttempts
         /\ \/ Forgotten(c)
            \/ \E l \in Logins : /\ pc[l] = "record" /\ pc'[l] = "done"
                                 /\ reply[l] = 200 /\ Client(l) = c
                                 /\ ~LimiterLocked(checked[l], now)]_vars

\* TestLoginLocksAccountAfterMaxFailuresService expects that the account is
\* locked when MaxFailedAttempts wrong passwords have been answered; here in
\* whatever order their logins read and write, when all happens within one tick.
FailuresLockAccount ==
  \A u \in Accounts :
    /\ now = 0
    /\ \A l \in Logins : pc[l] \in {"record", "done"} /\ ~from[l].right
    /\ Cardinality({l \in failures[u] : reply[l] \in {401, 429}}) >= MaxFailedAttempts
    => AccountLocked(users[u], now)
=============================================================================
