---------------------------- MODULE Registration ----------------------------
(***************************************************************************)
(* Accounts: POST /auth/register inserts a row of table users, whose email *)
(* is stored in a normal form (trimmed, in lower case) and UNIQUE, and     *)
(* POST /auth/login finds the row by the same normal form and compares the *)
(* password.  Registrations do not look before they insert: the constraint *)
(* alone decides between those of one mailbox.  An account is named by the *)
(* registration that inserted it.  When a login is turned away by the      *)
(* limiter or a lock is the subject of LoginFlow; here it may happen.      *)
(***************************************************************************)
EXTENDS DatabaseCalls

CONSTANTS Requests,    \* executions of the two handlers
          Emails,      \* addresses as clients spell them
          NormalForm,  \* strings.ToLower(strings.TrimSpace(email))
          Passwords,   \* the passwords clients use
          Complex,     \* those IsPasswordComplex and the hash accept
          None

ASSUME Addresses == /\ NormalForm \in [Emails -> Emails]
                    /\ \A e \in Emails : NormalForm[NormalForm[e]] = NormalForm[e]
                    /\ Complex \subseteq Passwords
                    /\ None \notin Requests \cup Emails \cup Passwords

VARIABLES
  users,     \* table users: the row each registration inserted, or NoUser
  pc,        \* the next call of each request
  req,       \* the address and password it came with
  ctx,       \* the context of its request
  local,     \* the copy of a row FindByEmail returned: the account and its columns
  reply,     \* what it answers
  dbFault,   \* history: requests with a failed call in a live context
  promised   \* history: logins received when their account was there

handler == <<pc, req, ctx, local, reply>>
history == <<dbFault, promised>>
vars    == <<users, handler, history>>
-----------------------------------------------------------------------------
Points  == {"idle", "insert", "find", "check", "update", "done"}
Replies == {"none", "created", "tokens", "unauthorized", "locked", "conflict", "invalid", "killed"}
User    == [email : Emails \cup {None}, password : Passwords \cup {None}]
NoUser  == [email |-> None, password |-> None]
NoCopy  == [account |-> None, row |-> NoUser]

\* Stored addresses are in their normal form.
TypeOK ==
  /\ users \in [Requests -> User]
  /\ \A a \in Requests : users[a] # NoUser => users[a].email \in {NormalForm[e] : e \in Emails}
  /\ pc \in [Requests -> Points]
  /\ req \in [Requests -> User]
  /\ ctx \in [Requests -> Contexts]
  /\ local \in [Requests -> [account : Requests \cup {None}, row : User]]
  /\ reply \in [Requests -> Replies]
  /\ dbFault \subseteq Requests
  /\ promised \subseteq Requests

Init ==
  /\ users = [r \in Requests |-> NoUser]
  /\ pc = [r \in Requests |-> "idle"]
  /\ req = [r \in Requests |-> NoUser]
  /\ ctx = [r \in Requests |-> "live"]
  /\ local = [r \in Requests |-> NoCopy]
  /\ reply = [r \in Requests |-> "none"]
  /\ dbFault = {} /\ promised = {}

InFlight(r)  == pc[r] \notin {"idle", "done"}
Goto(r, p)   == pc' = [pc EXCEPT ![r] = p]
Return(r, a) == Goto(r, "done") /\ reply' = [reply EXCEPT ![r] = a]
Note(r, o)   == dbFault' = IF o = "ok" \/ ctx[r] = "cancelled" THEN dbFault ELSE dbFault \cup {r}

Registered(a) == users[a] # NoUser

\* The accounts of the mailbox an address denotes.
Mailbox(e) == {a \in Requests : Registered(a) /\ NormalForm[users[a].email] = NormalForm[e]}
-----------------------------------------------------------------------------
(* Registration. *)

\* The body does not parse or an address is none; or a password is not complex
\* or cannot be hashed; or a login's body does not parse.
Reject(r) ==
  /\ pc[r] = "idle"
  /\ Return(r, "invalid")
  /\ UNCHANGED <<users, req, ctx, local, history>>

\* Register, up to the insert: only complex passwords get there.
ReceiveRegistration(r) ==
  /\ pc[r] = "idle"
  /\ \E e \in Emails, p \in Complex : req' = [req EXCEPT ![r] = [email |-> e, password |-> p]]
  /\ Goto(r, "insert")
  /\ UNCHANGED <<users, ctx, local, reply, history>>

\* Mutant: the address is stored as the client spelled it.
Stored_AsGiven(r) == req[r]

\* The row a registration inserts.
Stored(r) == [req[r] EXCEPT !.email = NormalForm[@]]

\* The UNIQUE constraint on the stored form of the address.
Taken(e) == \E a \in Requests : Registered(a) /\ users[a].email = e

\* Mutant: a registration of an address that is taken replaces the row.
Create_Upserts(r) ==
  /\ pc[r] = "insert"
  /\ \E o \in Outcomes(ctx[r]) :
       /\ users' = IF Applied(o)
                   THEN [a \in Requests |-> IF a = r THEN Stored(r)
                                            ELSE IF users[a].email = Stored(r).email THEN NoUser
                                            ELSE users[a]]
                   ELSE users
       /\ Return(r, IF o = "ok" THEN "created" ELSE "invalid")
       /\ Note(r, o)
  /\ UNCHANGED <<req, ctx, local, promised>>

\* UserRepository.Create.  A violated constraint is a conflict; any other error,
\* a lost answer among them, becomes ErrInvalidInput.
Create(r) ==
  /\ pc[r] = "insert"
  /\ \E o \in Outcomes(ctx[r]) :
       LET taken == Taken(Stored(r).email)
       IN /\ users' = IF Applied(o) /\ ~taken THEN [users EXCEPT ![r] = Stored(r)] ELSE users
          /\ Return(r, IF o # "ok" THEN "invalid" ELSE IF taken THEN "conflict" ELSE "created")
          /\ Note(r, o)
  /\ UNCHANGED <<req, ctx, local, promised>>
-----------------------------------------------------------------------------
(* Login. *)

\* The registrations a login may rely on: those of this mailbox and with this
\* password that were answered with 201, or whose row was committed, whatever
\* the client was told.
Opened(e, p) ==
  \E a \in Requests : /\ reply[a] = "created" \/ Registered(a)
                      /\ NormalForm[req[a].email] = NormalForm[e] /\ req[a].password = p

ReceiveLogin(r) ==
  /\ pc[r] = "idle"
  /\ \E e \in Emails, p \in Passwords :
       /\ req' = [req EXCEPT ![r] = [email |-> e, password |-> p]]
       /\ promised' = IF Opened(e, p) THEN promised \cup {r} ELSE promised
  /\ Goto(r, "find")
  /\ UNCHANGED <<users, ctx, local, reply, dbFault>>

\* The limiter refuses the client, or the account is locked.
TurnedAway(r) ==
  /\ pc[r] \in {"find", "check"}
  /\ Return(r, "locked")
  /\ UNCHANGED <<users, req, ctx, local, history>>

\* Mutant: the address is looked up as the client spelled it.
Sought_AsGiven(e) == {a \in Requests : Registered(a) /\ users[a].email = e}

\* WHERE email = $1, with the address in its normal form.
Sought(e) == {a \in Requests : Registered(a) /\ users[a].email = NormalForm[e]}

FindByEmail(r) ==
  /\ pc[r] = "find" /\ ctx[r] = "live"
  /\ \/ /\ Sought(req[r].email) = {}
        /\ Return(r, "unauthorized")
        /\ UNCHANGED local
     \/ /\ \E a \in Sought(req[r].email) :
             local' = [local EXCEPT ![r] = [account |-> a, row |-> users[a]]]
        /\ Goto(r, "check")
        /\ UNCHANGED reply
  /\ UNCHANGED <<users, req, ctx, history>>

FindFails(r) ==
  /\ pc[r] = "find"
  /\ Return(r, "unauthorized")
  /\ Note(r, "refused")
  /\ UNCHANGED <<users, req, ctx, local, promised>>

\* checkPassword decides the answer, a wrong password possibly locking the
\* account; either way the row is written back.
CheckPassword(r) ==
  /\ pc[r] = "check"
  /\ \E a \in IF local[r].row.password = req[r].password THEN {"tokens"}
              ELSE {"unauthorized", "locked"} :
       reply' = [reply EXCEPT ![r] = a]
  /\ Goto(r, "update")
  /\ UNCHANGED <<users, req, ctx, local, history>>

\* UserRepository.Update sets every column of the row from the copy, the address
\* and the password with them; its error turns the answer into 401.
Update(r) ==
  /\ pc[r] = "update"
  /\ \E o \in Outcomes(ctx[r]) :
       /\ users' = IF Applied(o)
                   THEN [users EXCEPT ![local[r].account] =
                           [local[r].row EXCEPT !.email = NormalForm[@]]]
                   ELSE users
       /\ Return(r, IF o = "ok" THEN reply[r] ELSE "unauthorized")
       /\ Note(r, o)
  /\ UNCHANGED <<req, ctx, local, promised>>
-----------------------------------------------------------------------------
Disconnect(r) ==
  /\ InFlight(r) /\ ctx[r] = "live"
  /\ ctx' = [ctx EXCEPT ![r] = "cancelled"]
  /\ UNCHANGED <<users, pc, req, local, reply, history>>

\* A crash, or the end of the shutdown deadline.
Crash ==
  /\ \E r \in Requests : InFlight(r)
  /\ pc' = [r \in Requests |-> IF InFlight(r) THEN "done" ELSE pc[r]]
  /\ reply' = [r \in Requests |-> IF InFlight(r) THEN "killed" ELSE reply[r]]
  /\ UNCHANGED <<users, req, ctx, local, history>>

Next == \/ \E r \in Requests :
             \/ Reject(r) \/ ReceiveRegistration(r) \/ Create(r)
             \/ ReceiveLogin(r) \/ TurnedAway(r) \/ FindByEmail(r) \/ FindFails(r)
             \/ CheckPassword(r) \/ Update(r) \/ Disconnect(r)
        \/ Crash

Spec == Init /\ [][Next]_vars
-----------------------------------------------------------------------------
(* Properties. *)

\* A registration answered with 201 owns its mailbox for good, in every spelling
\* of the address: no registration before or after it, and no login's write of a
\* row, makes a second account of the mailbox or changes the password.
CreatedOwnsMailbox ==
  \A r \in Requests :
    reply[r] = "created" => /\ Mailbox(req[r].email) = {r}
                            /\ users[r].password = req[r].password

\* A login succeeds only with the password of the account of its mailbox, and
\* with the password of an account that was there when it came it is refused only
\* for a lock, a failed call or a client that went away, in any spelling, and
\* although the registration may have been told that it failed.
PasswordDecides ==
  \A l \in Requests :
    /\ reply[l] = "tokens" =>
         \E a \in Mailbox(req[l].email) : users[a].password = req[l].password
    /\ l \in promised /\ pc[l] = "done" /\ reply[l] = "unauthorized" =>
         ctx[l] = "cancelled" \/ l \in dbFault
-----------------------------------------------------------------------------
(* Refinement: seen through the accounts and the requests, the table of users *)
(* is an AccountRegistry.                                                     *)

Mailboxes == {NormalForm[e] : e \in Emails}

PasswordOf(m) ==
  IF Taken(m) THEN users[CHOOSE a \in Requests : Registered(a) /\ users[a].email = m].password
  ELSE None

CallOf(r) == CASE pc[r] = "insert" -> "register"
               [] pc[r] \in {"find", "check", "update"} -> "login"
               [] OTHER -> "none"

QuestionOf(r) == [mailbox  |-> IF req[r] = NoUser THEN None ELSE NormalForm[req[r].email],
                  password |-> req[r].password]

AnswerOf(r) == IF pc[r] = "done" THEN reply[r] ELSE "none"

Registry == INSTANCE AccountRegistry
            WITH accounts <- [m \in Mailboxes |-> PasswordOf(m)],
                 call     <- [r \in Requests |-> CallOf(r)],
                 asked    <- [r \in Requests |-> QuestionOf(r)],
                 answer   <- [r \in Requests |-> AnswerOf(r)]

\* Registrations and logins, in any overlap, with lost answers, failures and
\* crashes, take effect one at a time, and no write of a login changes an account.
ImplementsRegistry == Registry!RegistrySpec
=============================================================================
