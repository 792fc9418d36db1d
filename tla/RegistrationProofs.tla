------------------------- MODULE RegistrationProofs -------------------------
(***************************************************************************)
(* Safety of Registration for any requests, addresses, spellings and       *)
(* passwords.                                                              *)
(***************************************************************************)
EXTENDS Registration, TLAPS

-----------------------------------------------------------------------------
(* The inductive invariant. *)

\* Account a is the one of r's mailbox.
Owns(a, r) == Registered(a) /\ users[a].email = NormalForm[req[r].email]

\* A row is what its registration inserted, for good, and no two share an address.
AccountInv ==
  /\ \A a \in Requests :
       Registered(a) => /\ pc[a] = "done" /\ users[a] = Stored(a)
                        /\ req[a].email \in Emails /\ req[a].password \in Passwords
  /\ \A a, b \in Requests :
       Registered(a) /\ Registered(b) /\ users[a].email = users[b].email => a = b

\* A login's copy of a row is what the row still is.
CallInv ==
  \A r \in Requests :
    /\ InFlight(r) \/ reply[r] \in {"created", "tokens", "unauthorized"} =>
         req[r].email \in Emails /\ req[r].password \in Passwords
    /\ pc[r] \in {"check", "update"} =>
         /\ local[r].account \in Requests /\ Owns(local[r].account, r)
         /\ local[r].row = users[local[r].account]
    /\ pc[r] = "update" => reply[r] \in {"tokens", "unauthorized", "locked"}
    /\ pc[r] \notin {"update", "done"} => reply[r] = "none"
    /\ reply[r] = "created" => Registered(r)
    /\ reply[r] = "tokens" =>
         \E a \in Requests : Owns(a, r) /\ users[a].password = req[r].password

\* A login whose account was there finds it and is served, or has a cause.
PromiseInv ==
  \A l \in promised :
    /\ pc[l] # "idle" /\ req[l].email \in Emails
    /\ \E a \in Requests : Owns(a, l) /\ users[a].password = req[l].password
    /\ pc[l] = "update" => reply[l] = "tokens"
    /\ reply[l] = "unauthorized" => ctx[l] = "cancelled" \/ l \in dbFault

IndInv == TypeOK /\ AccountInv /\ CallInv /\ PromiseInv

RequestStep(r) ==
  \/ Reject(r) \/ ReceiveRegistration(r) \/ Create(r)
  \/ ReceiveLogin(r) \/ TurnedAway(r) \/ FindByEmail(r) \/ FindFails(r)
  \/ CheckPassword(r) \/ Update(r) \/ Disconnect(r)
-----------------------------------------------------------------------------
(* Addresses and rows. *)

\* What a registration stores: the normal form of its address, and its password.
LEMMA StoredRow ==
  ASSUME TypeOK, NEW r \in Requests, req[r].email \in Emails
  PROVE  /\ Stored(r) \in User /\ Stored(r) # NoUser
         /\ Stored(r).email = NormalForm[req[r].email] /\ Stored(r).password = req[r].password
         /\ Stored(r).email \in Emails /\ NormalForm[Stored(r).email] = Stored(r).email
<1>1. req[r] \in User
  BY DEF TypeOK
<1>2. NormalForm[req[r].email] \in Emails \ {None}
  BY Addresses
<1>3. Stored(r) = [email |-> NormalForm[req[r].email], password |-> req[r].password]
  BY <1>1 DEF Stored, User
<1> QED
  BY <1>1, <1>2, <1>3, Addresses DEF User, NoUser

\* The mailbox of an address is what the query by its normal form finds.
LEMMA MailboxSought ==
  ASSUME TypeOK, AccountInv, NEW e \in Emails
  PROVE  Mailbox(e) = Sought(e)
<1>1. ASSUME NEW a \in Requests, Registered(a) PROVE NormalForm[users[a].email] = users[a].email
  BY <1>1, StoredRow DEF AccountInv
<1> QED
  BY <1>1 DEF Mailbox, Sought

\* A login's update writes the row it found there.
LEMMA RowRewritten ==
  ASSUME IndInv, NEW r \in Requests, Update(r)
  PROVE  users' = users
<1> DEFINE a   == local[r].account
           row == local[r].row
<1>1. a \in Requests /\ Registered(a) /\ row = users[a]
  BY DEF IndInv, CallInv, Update, Owns
<1>2. users \in [Requests -> User] /\ row \in User
  BY <1>1 DEF IndInv, TypeOK
<1>3. NormalForm[row.email] = row.email
  BY <1>1, StoredRow DEF IndInv, AccountInv
<1>4. [row EXCEPT !.email = NormalForm[@]] = row
  BY <1>2, <1>3 DEF User
<1>5. users' = [users EXCEPT ![a] = [row EXCEPT !.email = NormalForm[@]]] \/ users' = users
  BY DEF Update
<1> QED
  BY <1>1, <1>2, <1>4, <1>5

\* No step changes a row: a registration inserts its own, if the address is free.
LEMMA RowsStay ==
  ASSUME IndInv, NEW r \in Requests, RequestStep(r)
  PROVE  \/ users' = users
         \/ /\ Create(r) /\ req[r].email \in Emails /\ ~Registered(r) /\ ~Taken(Stored(r).email)
            /\ users' = [users EXCEPT ![r] = Stored(r)]
<1>1. CASE Update(r)
  BY <1>1, RowRewritten
<1>2. CASE Create(r)
  <2>1. req[r].email \in Emails /\ ~Registered(r)
    BY <1>2 DEF IndInv, CallInv, AccountInv, Create, InFlight
  <2> QED
    BY <1>2, <2>1 DEF Create
<1> QED
  BY <1>1, <1>2
  DEF RequestStep, Reject, ReceiveRegistration, ReceiveLogin, TurnedAway, FindByEmail,
      FindFails, CheckPassword, Disconnect

\* What a request leaves alone.
LEMMA StepFrame ==
  ASSUME IndInv, NEW r \in Requests, RequestStep(r)
  PROVE  /\ pc[r] # "done"
         /\ \A s \in Requests \ {r} :
              /\ pc'[s] = pc[s] /\ req'[s] = req[s] /\ local'[s] = local[s]
              /\ reply'[s] = reply[s] /\ ctx'[s] = ctx[s] /\ users'[s] = users[s]
              /\ s \in dbFault => s \in dbFault'
              /\ s \in promised' <=> s \in promised
         /\ \A a \in Requests : Registered(a) => users'[a] = users[a]
<1> USE DEF IndInv
<1>1. /\ users \in [Requests -> User]
      /\ pc \in [Requests -> Points] /\ reply \in [Requests -> Replies]
      /\ req \in [Requests -> User] /\ ctx \in [Requests -> Contexts]
      /\ DOMAIN local = Requests
  BY DEF TypeOK
<1>2. /\ \A a \in Requests : Registered(a) => users'[a] = users[a]
      /\ \A s \in Requests \ {r} : users'[s] = users[s]
  BY <1>1, RowsStay
<1> USE DEF Goto, Return, Note, history
<1>3. CASE Reject(r) \/ ReceiveRegistration(r) \/ ReceiveLogin(r)
  BY <1>1, <1>2, <1>3 DEF Reject, ReceiveRegistration, ReceiveLogin
<1>4. CASE Create(r) \/ Update(r)
  BY <1>1, <1>2, <1>4 DEF Create, Update
<1>5. CASE TurnedAway(r) \/ FindByEmail(r) \/ FindFails(r)
  BY <1>1, <1>2, <1>5 DEF TurnedAway, FindByEmail, FindFails
<1>6. CASE CheckPassword(r) \/ Disconnect(r)
  BY <1>1, <1>2, <1>6 DEF CheckPassword, Disconnect, InFlight
<1> QED
  BY <1>3, <1>4, <1>5, <1>6 DEF RequestStep
-----------------------------------------------------------------------------
(* Preservation. *)

LEMMA TypeStep ==
  ASSUME IndInv, NEW r \in Requests, RequestStep(r)
  PROVE  TypeOK'
<1> USE DEF IndInv
<1>1. /\ pc \in [Requests -> Points] /\ reply \in [Requests -> Replies]
      /\ req \in [Requests -> User] /\ users \in [Requests -> User]
      /\ ctx \in [Requests -> Contexts] /\ dbFault \subseteq Requests /\ promised \subseteq Requests
      /\ local \in [Requests -> [account : Requests \cup {None}, row : User]]
      /\ \A a \in Requests : users[a] # NoUser => users[a].email \in {NormalForm[e] : e \in Emails}
      /\ Complex \subseteq Passwords
  BY Addresses DEF TypeOK
<1>2. /\ users' \in [Requests -> User]
      /\ \A a \in Requests : users'[a] # NoUser => users'[a].email \in {NormalForm[e] : e \in Emails}
  BY <1>1, RowsStay, StoredRow
<1>3. /\ pc' \in [Requests -> Points] /\ reply' \in [Requests -> Replies]
      /\ ctx' \in [Requests -> Contexts] /\ dbFault' \subseteq Requests
      /\ promised' \subseteq Requests
  <2> USE DEF Goto, Return, Note, history, Points, Replies
  <2>1. CASE Reject(r) \/ ReceiveRegistration(r) \/ ReceiveLogin(r)
    BY <1>1, <2>1 DEF Reject, ReceiveRegistration, ReceiveLogin
  <2>2. CASE Create(r) \/ Update(r)
    BY <1>1, <2>2 DEF Create, Update
  <2>3. CASE TurnedAway(r) \/ FindByEmail(r) \/ FindFails(r)
    BY <1>1, <2>3 DEF TurnedAway, FindByEmail, FindFails
  <2>4. CASE CheckPassword(r) \/ Disconnect(r)
    BY <1>1, <2>4 DEF CheckPassword, Disconnect, Contexts
  <2> QED
    BY <2>1, <2>2, <2>3, <2>4 DEF RequestStep
<1>4. req' \in [Requests -> User]
  <2>1. CASE req' = req
    BY <1>1, <2>1
  <2>2. CASE \E e \in Emails, p \in Passwords :
               req' = [req EXCEPT ![r] = [email |-> e, password |-> p]]
    BY <1>1, <2>2 DEF User
  <2> QED
    BY <1>1, <2>1, <2>2
    DEF RequestStep, Reject, ReceiveRegistration, Create, ReceiveLogin, TurnedAway,
        FindByEmail, FindFails, CheckPassword, Update, Disconnect
<1>5. local' \in [Requests -> [account : Requests \cup {None}, row : User]]
  <2>1. CASE local' = local
    BY <1>1, <2>1
  <2>2. CASE \E a \in Requests :
               local' = [local EXCEPT ![r] = [account |-> a, row |-> users[a]]]
    BY <1>1, <2>2
  <2> QED
    BY <2>1, <2>2
    DEF RequestStep, Reject, ReceiveRegistration, Create, ReceiveLogin, TurnedAway,
        FindByEmail, FindFails, CheckPassword, Update, Disconnect, Sought
<1> QED
  BY <1>2, <1>3, <1>4, <1>5 DEF TypeOK

LEMMA AccountStep ==
  ASSUME IndInv, NEW r \in Requests, RequestStep(r)
  PROVE  AccountInv'
<1> USE DEF IndInv
<1>1. /\ users \in [Requests -> User] /\ pc \in [Requests -> Points]
      /\ req \in [Requests -> User]
  BY DEF TypeOK
<1>2. CASE users' = users
  <2>1. ASSUME NEW a \in Requests, Registered(a)
        PROVE  pc'[a] = "done" /\ req'[a] = req[a] /\ a # r
    BY <2>1, StepFrame DEF AccountInv
  <2> QED
    BY <1>2, <2>1 DEF AccountInv, Registered, Stored
<1>3. CASE /\ Create(r) /\ req[r].email \in Emails /\ ~Registered(r) /\ ~Taken(Stored(r).email)
           /\ users' = [users EXCEPT ![r] = Stored(r)]
  <2>1. users'[r] = Stored(r) /\ req' = req /\ pc'[r] = "done" /\ req[r].password \in Passwords
    BY <1>1, <1>3 DEF Create, Return, Goto, CallInv, InFlight
  <2>2. ASSUME NEW a \in Requests, a # r, Registered(a)'
        PROVE  /\ Registered(a) /\ users'[a] = users[a] /\ pc'[a] = pc[a]
               /\ users[a].email # Stored(r).email
    BY <1>1, <1>3, <2>2, StepFrame DEF Registered, Taken
  <2>3. \A a \in Requests : Stored(a)' = Stored(a)
    BY <2>1 DEF Stored
  <2>4. ASSUME NEW a \in Requests, Registered(a)'
        PROVE  /\ pc'[a] = "done" /\ users'[a] = Stored(a)'
               /\ req'[a].email \in Emails /\ req'[a].password \in Passwords
    BY <1>3, <2>1, <2>2, <2>3, <2>4 DEF AccountInv
  <2>5. ASSUME NEW a \in Requests, NEW b \in Requests, Registered(a)', Registered(b)',
               users'[a].email = users'[b].email
        PROVE  a = b
    BY <2>1, <2>2, <2>5 DEF AccountInv
  <2> QED
    BY <2>4, <2>5 DEF AccountInv
<1> QED
  BY <1>2, <1>3, RowsStay

\* Owners stay owners: rows do not change, nor do requests under way.
LEMMA OwnsStays ==
  ASSUME IndInv, NEW r \in Requests, RequestStep(r), NEW s \in Requests, NEW a \in Requests,
         Owns(a, s), req'[s] = req[s]
  PROVE  Owns(a, s)' /\ users'[a] = users[a]
<1> QED
  BY StepFrame DEF Owns, Registered

LEMMA CallStep ==
  ASSUME IndInv, NEW r \in Requests, RequestStep(r)
  PROVE  CallInv'
<1> USE DEF IndInv
<1> DEFINE P(s) ==
      /\ InFlight(s) \/ reply[s] \in {"created", "tokens", "unauthorized"} =>
           req[s].email \in Emails /\ req[s].password \in Passwords
      /\ pc[s] \in {"check", "update"} =>
           /\ local[s].account \in Requests /\ Owns(local[s].account, s)
           /\ local[s].row = users[local[s].account]
      /\ pc[s] = "update" => reply[s] \in {"tokens", "unauthorized", "locked"}
      /\ pc[s] \notin {"update", "done"} => reply[s] = "none"
      /\ reply[s] = "created" => Registered(s)
      /\ reply[s] = "tokens" =>
           \E a \in Requests : Owns(a, s) /\ users[a].password = req[s].password
<1>1. \A s \in Requests : P(s)
  BY DEF CallInv
<1>2. /\ users \in [Requests -> User] /\ pc \in [Requests -> Points]
      /\ req \in [Requests -> User] /\ reply \in [Requests -> Replies]
      /\ local \in [Requests -> [account : Requests \cup {None}, row : User]]
  BY DEF TypeOK
<1>3. ASSUME NEW s \in Requests, pc'[s] = pc[s], req'[s] = req[s], local'[s] = local[s],
             reply'[s] = reply[s]
      PROVE  P(s)'
  <2>1. /\ pc[s] \in {"check", "update"} =>
             /\ Owns(local[s].account, s)' /\ local[s].row = users'[local[s].account]
        /\ reply[s] = "tokens" =>
             \E a \in Requests : Owns(a, s)' /\ users'[a].password = req'[s].password
        /\ reply[s] = "created" => Registered(s)'
    BY <1>1, <1>3, OwnsStays, StepFrame DEF Registered
  <2> QED
    BY <1>1, <1>3, <2>1 DEF InFlight
<1>4. P(r)'
  <2> USE DEF Goto, Return, history
  <2>1. CASE Reject(r) \/ TurnedAway(r)
    <3>1. pc'[r] = "done" /\ reply'[r] \in {"invalid", "locked"}
      BY <1>2, <2>1 DEF Reject, TurnedAway
    <3> QED
      BY <3>1 DEF InFlight
  <2>2. CASE ReceiveRegistration(r) \/ ReceiveLogin(r)
    <3>1. /\ pc'[r] \in {"insert", "find"} /\ reply'[r] = "none"
          /\ req'[r].email \in Emails /\ req'[r].password \in Passwords
      BY <1>1, <1>2, <2>2, Addresses DEF ReceiveRegistration, ReceiveLogin
    <3> QED
      BY <3>1
  <2>3. CASE Create(r)
    <3>1. pc'[r] = "done" /\ reply'[r] \in {"invalid", "conflict", "created"} /\ req' = req
          /\ InFlight(r)
      BY <1>2, <2>3 DEF Create, InFlight
    <3>2. ASSUME reply'[r] = "created" PROVE Registered(r)'
      <4>1. users' = [users EXCEPT ![r] = Stored(r)] /\ req[r].email \in Emails
        BY <1>1, <1>2, <2>3, <3>1, <3>2 DEF Create, Applied
      <4> QED
        BY <1>2, <4>1, StoredRow DEF Registered
    <3> QED
      BY <1>1, <3>1, <3>2 DEF InFlight
  <2>4. CASE FindByEmail(r)
    <3>1. CASE pc'[r] = "done"
      BY <1>1, <1>2, <2>4, <3>1 DEF FindByEmail, InFlight
    <3>2. CASE pc'[r] = "check"
      <4>1. /\ req' = req /\ users' = users /\ reply' = reply /\ pc[r] = "find"
            /\ \E a \in Sought(req[r].email) :
                 local' = [local EXCEPT ![r] = [account |-> a, row |-> users[a]]]
        BY <1>2, <2>4, <3>2 DEF FindByEmail
      <4>2. PICK a \in Requests : Owns(a, r) /\ local'[r] = [account |-> a, row |-> users[a]]
        BY <1>2, <4>1 DEF Sought, Owns
      <4>3. Owns(a, r)'
        BY <4>1, <4>2 DEF Owns, Registered
      <4> QED
        BY <1>1, <3>2, <4>1, <4>2, <4>3 DEF InFlight
    <3> QED
      BY <1>2, <2>4, <3>1, <3>2 DEF FindByEmail
  <2>5. CASE FindFails(r)
    BY <1>1, <1>2, <2>5 DEF FindFails, InFlight
  <2>6. CASE CheckPassword(r)
    <3>1. /\ pc[r] = "check" /\ pc'[r] = "update" /\ UNCHANGED <<req, users, local>>
          /\ reply'[r] \in {"tokens", "unauthorized", "locked"}
          /\ reply'[r] = "tokens" => local[r].row.password = req[r].password
      BY <1>2, <2>6 DEF CheckPassword
    <3>2. Owns(local[r].account, r)' /\ local[r].account \in Requests
          /\ local[r].row = users[local[r].account]
      BY <1>1, <3>1 DEF Owns, Registered
    <3> QED
      BY <1>1, <3>1, <3>2 DEF InFlight
  <2>7. CASE Update(r)
    <3>1. /\ pc[r] = "update" /\ pc'[r] = "done" /\ req' = req /\ users' = users
          /\ reply'[r] \in {reply[r], "unauthorized"}
      BY <1>2, <2>7, RowRewritten DEF Update
    <3>2. ASSUME reply'[r] = "tokens"
          PROVE  \E a \in Requests : Owns(a, r)' /\ users'[a].password = req'[r].password
      BY <1>1, <3>1, <3>2 DEF Owns, Registered
    <3> QED
      BY <1>1, <3>1, <3>2 DEF InFlight
  <2>8. CASE Disconnect(r)
    BY <1>3, <2>8 DEF Disconnect
  <2> QED
    BY <2>1, <2>2, <2>3, <2>4, <2>5, <2>6, <2>7, <2>8 DEF RequestStep
<1>5. \A s \in Requests \ {r} : P(s)'
  BY <1>3, StepFrame
<1> QED
  BY <1>4, <1>5 DEF CallInv

LEMMA PromiseStep ==
  ASSUME IndInv, NEW r \in Requests, RequestStep(r)
  PROVE  PromiseInv'
<1> USE DEF IndInv
<1> DEFINE P(l) ==
      /\ pc[l] # "idle" /\ req[l].email \in Emails
      /\ \E a \in Requests : Owns(a, l) /\ users[a].password = req[l].password
      /\ pc[l] = "update" => reply[l] = "tokens"
      /\ reply[l] = "unauthorized" => ctx[l] = "cancelled" \/ l \in dbFault
<1>1. \A l \in promised : P(l)
  BY DEF PromiseInv
<1>2. /\ users \in [Requests -> User] /\ pc \in [Requests -> Points]
      /\ req \in [Requests -> User] /\ reply \in [Requests -> Replies]
      /\ ctx \in [Requests -> Contexts]
      /\ promised \subseteq Requests /\ dbFault \subseteq Requests
  BY DEF TypeOK
<1>3. ASSUME NEW l \in promised, req'[l] = req[l]
      PROVE  \E a \in Requests : Owns(a, l)' /\ users'[a].password = req'[l].password
  BY <1>1, <1>2, <1>3, OwnsStays
<1>4. ASSUME NEW l \in promised, l # r PROVE P(l)'
  BY <1>1, <1>2, <1>3, <1>4, StepFrame
<1>5. ASSUME r \in promised' PROVE P(r)'
  <2> USE DEF Goto, Return, Note, history
  <2>1. CASE ReceiveLogin(r)
    <3>1. PICK e \in Emails, p \in Passwords :
            /\ req' = [req EXCEPT ![r] = [email |-> e, password |-> p]]
            /\ promised' = IF Opened(e, p) THEN promised \cup {r} ELSE promised
      BY <2>1 DEF ReceiveLogin
    <3>2. pc[r] = "idle" /\ r \notin promised /\ reply[r] = "none" /\ users' = users
      BY <1>1, <2>1 DEF ReceiveLogin, CallInv
    <3>3. Opened(e, p)
      BY <1>5, <3>1, <3>2
    <3>4. PICK a \in Requests : /\ reply[a] = "created" \/ Registered(a)
                                /\ NormalForm[req[a].email] = NormalForm[e] /\ req[a].password = p
      BY <3>3 DEF Opened
    <3>5. /\ Registered(a) /\ users[a].email = NormalForm[e] /\ users[a].password = p
      BY <3>4, StoredRow DEF CallInv, AccountInv
    <3>6. req'[r] = [email |-> e, password |-> p] /\ pc'[r] = "find" /\ reply' = reply
      BY <1>2, <2>1, <3>1 DEF ReceiveLogin
    <3>7. Owns(a, r)'
      BY <3>2, <3>5, <3>6 DEF Owns, Registered
    <3> QED
      BY <3>2, <3>5, <3>6, <3>7
  <2>2. CASE Reject(r) \/ ReceiveRegistration(r)
    BY <1>1, <1>5, <2>2 DEF Reject, ReceiveRegistration
  <2>3. CASE ~ReceiveLogin(r) /\ ~Reject(r) /\ ~ReceiveRegistration(r)
    <3>1. req' = req /\ r \in promised
      BY <1>5, <2>3 DEF RequestStep, Create, TurnedAway, FindByEmail, FindFails,
                        CheckPassword, Update, Disconnect
    <3>2. PICK b \in Requests : Owns(b, r) /\ users[b].password = req[r].password
      BY <1>1, <3>1
    <3>3. /\ pc'[r] # "idle"
          /\ pc'[r] = "update" => reply'[r] = "tokens"
          /\ reply'[r] = "unauthorized" => ctx'[r] = "cancelled" \/ r \in dbFault'
      <4>1. CASE Create(r)
        BY <1>2, <4>1 DEF Create
      <4>2. CASE TurnedAway(r)
        BY <1>2, <4>2 DEF TurnedAway
      <4>3. CASE FindByEmail(r)
        <5>1. Sought(req[r].email) # {}
          BY <3>2 DEF Sought, Owns
        <5>2. reply[r] = "none"
          BY <4>3 DEF FindByEmail, CallInv
        <5> QED
          BY <1>2, <4>3, <5>1, <5>2 DEF FindByEmail
      <4>4. CASE FindFails(r)
        BY <1>2, <4>4 DEF FindFails, Contexts
      <4>5. CASE CheckPassword(r)
        <5>1. /\ pc[r] = "check" /\ pc'[r] = "update"
              /\ reply'[r] \in IF local[r].row.password = req[r].password THEN {"tokens"}
                               ELSE {"unauthorized", "locked"}
          BY <1>2, <4>5 DEF CheckPassword
        <5>2. /\ local[r].account \in Requests /\ Owns(local[r].account, r)
              /\ local[r].row = users[local[r].account]
          BY <5>1 DEF CallInv
        <5>3. local[r].account = b
          BY <3>2, <5>2 DEF AccountInv, Owns
        <5> QED
          BY <3>2, <5>1, <5>2, <5>3
      <4>6. CASE Update(r)
        BY <1>1, <1>2, <3>1, <4>6 DEF Update, Contexts
      <4>7. CASE Disconnect(r)
        BY <1>1, <1>2, <3>1, <4>7 DEF Disconnect
      <4> QED
        BY <2>3, <4>1, <4>2, <4>3, <4>4, <4>5, <4>6, <4>7 DEF RequestStep
    <3> QED
      BY <1>1, <1>3, <3>1, <3>3
  <2> QED
    BY <2>1, <2>2, <2>3
<1>6. promised' \subseteq promised \cup {r}
  BY DEF RequestStep, Reject, ReceiveRegistration, Create, ReceiveLogin, TurnedAway,
         FindByEmail, FindFails, CheckPassword, Update, Disconnect, history
<1> QED
  BY <1>4, <1>5, <1>6 DEF PromiseInv

LEMMA EnvironmentStep ==
  ASSUME IndInv, Crash \/ UNCHANGED vars
  PROVE  IndInv'
<1> USE DEF IndInv
<1>1. /\ users' = users /\ req' = req /\ local' = local /\ ctx' = ctx
      /\ dbFault' = dbFault /\ promised' = promised
      /\ pc' \in [Requests -> Points] /\ reply' \in [Requests -> Replies]
  BY DEF Crash, vars, handler, history, TypeOK, Points, Replies
<1>2. \A s \in Requests :
        /\ pc'[s] # pc[s] \/ reply'[s] # reply[s] => pc'[s] = "done" /\ reply'[s] = "killed"
        /\ pc[s] \in {"idle", "done"} => pc'[s] = pc[s] /\ reply'[s] = reply[s]
  BY DEF Crash, vars, handler, history, InFlight, TypeOK
<1>3. TypeOK'
  BY <1>1 DEF TypeOK
<1>4. AccountInv'
  BY <1>1, <1>2 DEF AccountInv, Registered, Stored
<1>5. CallInv'
  BY <1>1, <1>2 DEF CallInv, InFlight, Owns, Registered
<1>6. PromiseInv'
  <2>1. promised \subseteq Requests
    BY DEF TypeOK
  <2> QED
    BY <1>1, <1>2, <2>1 DEF PromiseInv, Owns, Registered
<1> QED
  BY <1>3, <1>4, <1>5, <1>6

LEMMA IndInit == Init => IndInv
<1> SUFFICES ASSUME Init PROVE IndInv
  OBVIOUS
<1>1. TypeOK
  BY DEF Init, TypeOK, Points, Replies, User, NoUser, NoCopy, Contexts
<1>2. AccountInv
  BY DEF Init, AccountInv, Registered
<1>3. CallInv /\ PromiseInv
  BY DEF Init, CallInv, PromiseInv, InFlight
<1> QED
  BY <1>1, <1>2, <1>3 DEF IndInv

LEMMA IndInvariant == Spec => []IndInv
<1>1. IndInv /\ [Next]_vars => IndInv'
  BY TypeStep, AccountStep, CallStep, PromiseStep, EnvironmentStep DEF Next, RequestStep, IndInv
<1> QED
  BY <1>1, IndInit, PTL DEF Spec
-----------------------------------------------------------------------------
(* The refinement of AccountRegistry. *)

accountsBar == [m \in Mailboxes |-> PasswordOf(m)]
callBar     == [r \in Requests |-> CallOf(r)]
askedBar    == [r \in Requests |-> QuestionOf(r)]
answerBar   == [r \in Requests |-> AnswerOf(r)]

\* The password of a mailbox is that of its only account.
PasswordsFound ==
  \A a \in Requests : Registered(a) => /\ PasswordOf(users[a].email) = users[a].password
                                       /\ users[a].password # None

LEMMA PasswordsAreFound == IndInv => PasswordsFound
<1> SUFFICES ASSUME IndInv, NEW a \in Requests, Registered(a)
             PROVE  PasswordOf(users[a].email) = users[a].password /\ users[a].password # None
  BY DEF PasswordsFound
<1>1. users[a].password # None
  BY StoredRow, Addresses DEF IndInv, AccountInv
<1>2. Taken(users[a].email)
  BY DEF Taken
<1>3. (CHOOSE b \in Requests : Registered(b) /\ users[b].email = users[a].email) = a
  BY DEF IndInv, AccountInv
<1> QED
  BY <1>1, <1>2, <1>3 DEF PasswordOf

\* An insert opens its mailbox, and no other step changes an account.
LEMMA AccountsMapped ==
  ASSUME IndInv, IndInv', NEW r \in Requests, RequestStep(r)
  PROVE  \/ users' = users /\ accountsBar' = accountsBar
         \/ /\ Create(r) /\ req[r].email \in Emails /\ ~Taken(Stored(r).email)
            /\ accountsBar[NormalForm[req[r].email]] = None
            /\ accountsBar' = [accountsBar EXCEPT ![NormalForm[req[r].email]] = req[r].password]
<1>1. PasswordsFound /\ PasswordsFound'
  BY PasswordsAreFound, PTL
<1>2. CASE users' = users
  <2>1. \A m \in Mailboxes : PasswordOf(m)' = PasswordOf(m)
    BY <1>2 DEF PasswordOf, Taken, Registered
  <2> QED
    BY <1>2, <2>1 DEF accountsBar
<1>3. CASE /\ Create(r) /\ req[r].email \in Emails /\ ~Registered(r) /\ ~Taken(Stored(r).email)
           /\ users' = [users EXCEPT ![r] = Stored(r)]
  <2>0. PICK k \in Mailboxes : k = NormalForm[req[r].email]
    BY <1>3 DEF Mailboxes
  <2>1. /\ Stored(r).email = k /\ Stored(r).password = req[r].password /\ Stored(r) # NoUser
        /\ users \in [Requests -> User]
    BY <1>3, <2>0, StoredRow DEF IndInv, TypeOK
  <2>2. Registered(r)' /\ users'[r].email = k /\ users'[r].password = req[r].password
    BY <1>3, <2>1 DEF Registered
  <2>3. PasswordOf(k) = None /\ PasswordOf(k)' = req[r].password
    BY <1>1, <1>3, <2>1, <2>2 DEF PasswordOf, PasswordsFound, Taken
  <2>4. ASSUME NEW m \in Mailboxes, m # k PROVE PasswordOf(m)' = PasswordOf(m)
    <3>1. CASE Taken(m)
      <4>1. PICK a \in Requests : Registered(a) /\ users[a].email = m
        BY <3>1 DEF Taken
      <4>2. Registered(a)' /\ users'[a] = users[a]
        BY <1>3, <2>1, <4>1 DEF Registered
      <4> QED
        BY <1>1, <4>1, <4>2 DEF PasswordsFound
    <3>2. CASE ~Taken(m)
      <4>1. ~Taken(m)'
        BY <1>3, <2>1, <2>4, <3>2 DEF Taken, Registered
      <4> QED
        BY <3>2, <4>1 DEF PasswordOf
    <3> QED
      BY <3>1, <3>2
  <2>5. accountsBar' = [accountsBar EXCEPT ![k] = req[r].password]
    BY <2>3, <2>4 DEF accountsBar
  <2> QED
    BY <1>3, <2>0, <2>3, <2>5 DEF accountsBar
<1> QED
  BY <1>2, <1>3, RowsStay

\* A step of a request changes what it asks and is answered, and nothing of others.
LEMMA RequestMapped ==
  ASSUME IndInv, NEW r \in Requests, RequestStep(r)
  PROVE  /\ callBar'   = [callBar EXCEPT ![r] = CallOf(r)']
         /\ askedBar'  = [askedBar EXCEPT ![r] = QuestionOf(r)']
         /\ answerBar' = [answerBar EXCEPT ![r] = AnswerOf(r)']
<1>1. ASSUME NEW s \in Requests \ {r}
      PROVE  /\ CallOf(s)' = CallOf(s) /\ QuestionOf(s)' = QuestionOf(s)
             /\ AnswerOf(s)' = AnswerOf(s)
  BY StepFrame DEF CallOf, QuestionOf, AnswerOf
<1> QED
  BY <1>1 DEF callBar, askedBar, answerBar

LEMMA RefinementInit == Init => Registry!RegistryInit
<1> SUFFICES ASSUME Init PROVE Registry!RegistryInit
  OBVIOUS
<1>1. \A m \in Mailboxes : PasswordOf(m) = None
  BY DEF Init, PasswordOf, Taken, Registered
<1>2. \A r \in Requests : /\ CallOf(r) = "none" /\ AnswerOf(r) = "none"
                          /\ QuestionOf(r) = [mailbox |-> None, password |-> None]
  BY DEF Init, CallOf, AnswerOf, QuestionOf, NoUser
<1> QED
  BY <1>1, <1>2 DEF Registry!RegistryInit, Registry!NoQuestion
LEMMA RefinementStep ==
  ASSUME IndInv, IndInv', NEW r \in Requests, RequestStep(r)
  PROVE  [Registry!RegistryNext]_(Registry!registryVars)
<1> USE DEF IndInv
<1> DEFINE m == NormalForm[req[r].email]
           p == req[r].password
<1>0. /\ pc \in [Requests -> Points] /\ reply \in [Requests -> Replies]
      /\ req \in [Requests -> User]
  BY DEF TypeOK
<1>1. /\ callBar[r] = CallOf(r) /\ askedBar[r] = QuestionOf(r) /\ answerBar[r] = AnswerOf(r)
      /\ \A s \in Requests : callBar[s] = CallOf(s) /\ answerBar[s] = AnswerOf(s)
  BY DEF callBar, askedBar, answerBar
<1>2. pc[r] \in {"insert", "find", "check", "update"} =>
        /\ m \in Mailboxes /\ p \in Passwords /\ askedBar[r].mailbox = m /\ askedBar[r].password = p
        /\ callBar[r] = IF pc[r] = "insert" THEN "register" ELSE "login"
  BY <1>1, Addresses DEF CallInv, Mailboxes, QuestionOf, NoUser, InFlight, CallOf
<1>3. /\ accountsBar' = accountsBar \/ Create(r)
      /\ accountsBar' # accountsBar =>
           accountsBar[m] = None /\ accountsBar' = [accountsBar EXCEPT ![m] = p]
  BY AccountsMapped
<1>4. ASSUME pc'[r] = "done", req' = req
      PROVE  /\ callBar' = [callBar EXCEPT ![r] = "none"] /\ askedBar' = askedBar
             /\ answerBar' = [answerBar EXCEPT ![r] = reply'[r]]
  <2>1. CallOf(r)' = "none" /\ QuestionOf(r)' = QuestionOf(r) /\ AnswerOf(r)' = reply'[r]
    BY <1>4 DEF CallOf, QuestionOf, AnswerOf
  <2> QED
    BY <1>1, <2>1, RequestMapped DEF askedBar
<1>5. ASSUME req' = req, accountsBar' = accountsBar, CallOf(r)' = CallOf(r), AnswerOf(r)' = AnswerOf(r)
      PROVE  UNCHANGED Registry!registryVars
  <2>1. QuestionOf(r)' = QuestionOf(r)
    BY <1>5 DEF QuestionOf
  <2>2. callBar' = callBar /\ askedBar' = askedBar /\ answerBar' = answerBar
    BY <1>1, <1>5, <2>1, RequestMapped DEF callBar, askedBar, answerBar
  <2> QED
    BY <1>5, <2>2 DEF Registry!registryVars, accountsBar, callBar, askedBar, answerBar
<1> USE DEF Goto, Return, Note, history
<1>6. CASE Reject(r)
  <2>1. pc[r] = "idle" /\ pc'[r] = "done" /\ reply'[r] = "invalid" /\ req' = req
        /\ accountsBar' = accountsBar
    BY <1>0, <1>3, <1>6 DEF Reject, Create
  <2>2. callBar[r] = "none" /\ answerBar[r] = "none"
    BY <1>1, <2>1 DEF CallOf, AnswerOf
  <2>3. callBar' = callBar /\ askedBar' = askedBar /\ answerBar' = [answerBar EXCEPT ![r] = "invalid"]
    BY <1>4, <2>1, <2>2 DEF callBar
  <2>4. Registry!Refuse(r)
    BY <2>1, <2>2, <2>3 DEF Registry!Refuse, accountsBar, callBar, askedBar, answerBar
  <2> QED
    BY <2>4 DEF Registry!RegistryNext
<1>7. CASE ReceiveRegistration(r) \/ ReceiveLogin(r)
  <2>1. PICK e \in Emails, w \in Passwords : req' = [req EXCEPT ![r] = [email |-> e, password |-> w]]
    BY <1>7, Addresses DEF ReceiveRegistration, ReceiveLogin
  <2>2. PICK kind \in {"register", "login"} : CallOf(r)' = kind
    BY <1>0, <1>7 DEF ReceiveRegistration, ReceiveLogin, CallOf
  <2>3. /\ pc[r] = "idle" /\ pc'[r] \in {"insert", "find"} /\ accountsBar' = accountsBar
    BY <1>0, <1>3, <1>7 DEF ReceiveRegistration, ReceiveLogin, Create
  <2>4. callBar[r] = "none" /\ answerBar[r] = "none" /\ AnswerOf(r)' = "none"
    BY <1>1, <2>3 DEF CallOf, AnswerOf
  <2>5. NormalForm[e] \in Mailboxes /\ QuestionOf(r)' = [mailbox |-> NormalForm[e], password |-> w]
    BY <1>0, <2>1, Addresses DEF Mailboxes, QuestionOf, NoUser
  <2>6. /\ callBar' = [callBar EXCEPT ![r] = kind] /\ answerBar' = answerBar
        /\ askedBar' = [askedBar EXCEPT ![r] = [mailbox |-> NormalForm[e], password |-> w]]
    BY <2>2, <2>4, <2>5, RequestMapped DEF answerBar
  <2>7. Registry!Arrive(r, kind, NormalForm[e], w)
    BY <2>3, <2>4, <2>6 DEF Registry!Arrive, accountsBar, callBar, askedBar, answerBar
  <2> QED
    BY <2>5, <2>7 DEF Registry!RegistryNext
<1>8. CASE Create(r)
  <2>1. /\ pc[r] = "insert" /\ pc'[r] = "done" /\ req' = req
        /\ reply'[r] \in {"invalid", "conflict", "created"}
    BY <1>0, <1>8 DEF Create
  <2>2. CASE accountsBar' # accountsBar
    <3>1. ~Taken(Stored(r).email)
      BY <2>2, <1>3, AccountsMapped
    <3>2. reply'[r] \in {"created", "invalid"}
      BY <1>0, <1>8, <3>1 DEF Create
    <3>3. Registry!Reply(r, reply'[r])
      BY <1>4, <2>1 DEF Registry!Reply, callBar, askedBar, answerBar
    <3>4. Registry!Open(r)
      BY <1>2, <1>3, <2>1, <2>2, <3>2, <3>3 DEF Registry!Open, accountsBar, callBar, askedBar
    <3> QED
      BY <3>4 DEF Registry!RegistryNext
  <2>3. CASE accountsBar' = accountsBar
    <3>1. Registry!Reply(r, reply'[r])
      BY <1>4, <2>1 DEF Registry!Reply, callBar, askedBar, answerBar
    <3>2. CASE reply'[r] = "invalid"
      <4>1. Registry!Fail(r)
        BY <1>2, <2>1, <2>3, <3>1, <3>2 DEF Registry!Fail, accountsBar, callBar
      <4> QED
        BY <4>1 DEF Registry!RegistryNext
    <3>3. CASE reply'[r] # "invalid"
      <4>1. Taken(Stored(r).email)
        <5>1. users' = users
          <6>1. DOMAIN accountsBar = Mailboxes
            BY DEF accountsBar
          <6>2. p # None /\ m \in Mailboxes
            BY <1>2, <2>1, Addresses
          <6> QED
            BY <2>3, <6>1, <6>2, AccountsMapped
        <5>2. ~Registered(r) /\ Stored(r) # NoUser
          BY <1>8, <2>1, StoredRow DEF AccountInv, CallInv, InFlight
        <5>3. ~Taken(Stored(r).email) => users' = [users EXCEPT ![r] = Stored(r)]
          BY <1>0, <1>8, <3>3 DEF Create, Applied
        <5> QED
          BY <5>1, <5>2, <5>3 DEF Registered, TypeOK
      <4>2. accountsBar[m] # None
        <5>1. PICK a \in Requests : Registered(a) /\ users[a].email = m
          BY <1>8, <2>1, <4>1, StoredRow DEF Taken, CallInv, InFlight
        <5>2. PasswordOf(m) # None
          BY <5>1, PasswordsAreFound DEF PasswordsFound
        <5> QED
          BY <1>2, <2>1, <5>2 DEF accountsBar
      <4>3. reply'[r] = "conflict"
        BY <1>0, <1>8, <3>3, <4>1 DEF Create
      <4>4. Registry!Conflict(r)
        BY <1>2, <2>1, <2>3, <3>1, <4>2, <4>3 DEF Registry!Conflict, accountsBar, callBar, askedBar
      <4> QED
        BY <4>4 DEF Registry!RegistryNext
    <3> QED
      BY <3>2, <3>3
  <2> QED
    BY <2>2, <2>3
<1>9. CASE TurnedAway(r) \/ FindFails(r) \/ (FindByEmail(r) /\ pc'[r] = "done")
  <2>1. /\ pc[r] \in {"find", "check"} /\ pc'[r] = "done" /\ req' = req /\ accountsBar' = accountsBar
        /\ reply'[r] \in {"unauthorized", "locked"}
    BY <1>0, <1>3, <1>9 DEF TurnedAway, FindFails, FindByEmail, Create
  <2>2. Registry!Reply(r, reply'[r])
    BY <1>4, <2>1 DEF Registry!Reply, callBar, askedBar, answerBar
  <2>3. Registry!TurnAway(r)
    BY <1>2, <2>1, <2>2 DEF Registry!TurnAway, accountsBar, callBar
  <2> QED
    BY <2>3 DEF Registry!RegistryNext
<1>10. CASE (FindByEmail(r) /\ pc'[r] # "done") \/ CheckPassword(r) \/ Disconnect(r)
  <2>1. /\ req' = req /\ accountsBar' = accountsBar
    <3>1. ~Create(r)
      BY <1>0, <1>10 DEF FindByEmail, CheckPassword, Disconnect, Create
    <3> QED
      BY <1>3, <1>10, <3>1 DEF FindByEmail, CheckPassword, Disconnect
  <2>2. \/ pc[r] \in {"find", "check"} /\ pc'[r] \in {"check", "update"}
        \/ pc' = pc /\ reply' = reply
    BY <1>0, <1>10 DEF FindByEmail, CheckPassword, Disconnect
  <2>3. CallOf(r)' = CallOf(r) /\ AnswerOf(r)' = AnswerOf(r)
    BY <2>2 DEF CallOf, AnswerOf
  <2> QED
    BY <1>5, <2>1, <2>3
<1>11. CASE Update(r)
  <2>1. /\ pc[r] = "update" /\ pc'[r] = "done" /\ req' = req /\ accountsBar' = accountsBar
        /\ reply'[r] \in {reply[r], "unauthorized"} /\ reply[r] \in {"tokens", "unauthorized", "locked"}
    BY <1>0, <1>3, <1>11 DEF Update, Create, CallInv
  <2>2. Registry!Reply(r, reply'[r])
    BY <1>4, <2>1 DEF Registry!Reply, callBar, askedBar, answerBar
  <2>3. CASE reply'[r] = "tokens"
    <3>1. PICK a \in Requests : Owns(a, r) /\ users[a].password = p
      BY <2>1, <2>3 DEF CallInv
    <3>2. PasswordOf(m) = p
      BY <3>1, PasswordsAreFound DEF PasswordsFound, Owns
    <3>3. accountsBar[m] = p
      BY <1>2, <2>1, <3>2 DEF accountsBar
    <3>4. Registry!GiveTokens(r)
      BY <1>2, <2>1, <2>2, <2>3, <3>3 DEF Registry!GiveTokens, accountsBar, callBar, askedBar
    <3> QED
      BY <3>4 DEF Registry!RegistryNext
  <2>4. CASE reply'[r] # "tokens"
    <3>1. Registry!TurnAway(r)
      BY <1>2, <2>1, <2>2, <2>4 DEF Registry!TurnAway, accountsBar, callBar
    <3> QED
      BY <3>1 DEF Registry!RegistryNext
  <2> QED
    BY <2>3, <2>4
<1> QED
  BY <1>6, <1>7, <1>8, <1>9, <1>10, <1>11 DEF RequestStep

-----------------------------------------------------------------------------
(* Theorems. *)

\* The table keeps its types, and every stored address is in its normal form.
THEOREM TypeCorrect == Spec => []TypeOK
<1>1. IndInv => TypeOK
  BY DEF IndInv
<1> QED
  BY <1>1, IndInvariant, PTL

\* A confirmed registration owns its mailbox, with its password, for good.
THEOREM RegistrationsOwnMailboxes == Spec => []CreatedOwnsMailbox
<1>1. ASSUME IndInv, NEW r \in Requests, reply[r] = "created"
      PROVE  Mailbox(req[r].email) = {r} /\ users[r].password = req[r].password
  <2>1. Registered(r) /\ req[r].email \in Emails /\ users[r] = Stored(r)
    BY <1>1 DEF IndInv, CallInv, AccountInv
  <2>2. users[r].email = NormalForm[req[r].email] /\ users[r].password = req[r].password
    BY <1>1, <2>1, StoredRow DEF IndInv
  <2>3. Sought(req[r].email) = {r}
    BY <1>1, <2>1, <2>2 DEF IndInv, AccountInv, Sought
  <2> QED
    BY <1>1, <2>1, <2>2, <2>3, MailboxSought DEF IndInv
<1>2. IndInv => CreatedOwnsMailbox
  BY <1>1 DEF CreatedOwnsMailbox
<1> QED
  BY <1>2, IndInvariant, PTL

\* The password of the mailbox's account, and it alone, decides a login.
THEOREM PasswordsDecide == Spec => []PasswordDecides
<1>1. ASSUME IndInv, NEW l \in Requests, reply[l] = "tokens"
      PROVE  \E a \in Mailbox(req[l].email) : users[a].password = req[l].password
  <2>1. req[l].email \in Emails
    BY <1>1 DEF IndInv, CallInv
  <2>2. \E a \in Sought(req[l].email) : users[a].password = req[l].password
    BY <1>1 DEF IndInv, CallInv, Owns, Sought
  <2> QED
    BY <1>1, <2>1, <2>2, MailboxSought DEF IndInv
<1>2. IndInv => PasswordDecides
  BY <1>1 DEF PasswordDecides, IndInv, PromiseInv
<1> QED
  BY <1>2, IndInvariant, PTL

\* Whatever the overlap, lost answers, disconnections and crashes, registrations
\* and logins are those of an AccountRegistry: they take effect one at a time, a
\* mailbox is opened once, and its password decides.
THEOREM Refinement == Spec => ImplementsRegistry
<1>1. ASSUME IndInv, IndInv', [Next]_vars PROVE [Registry!RegistryNext]_(Registry!registryVars)
  <2>1. ASSUME Crash PROVE Registry!Die
    <3>1. users' = users /\ req' = req /\ pc \in [Requests -> Points]
      BY <1>1, <2>1 DEF Crash, IndInv, TypeOK
    <3>2. accountsBar' = accountsBar /\ askedBar' = askedBar
      BY <3>1 DEF accountsBar, askedBar, PasswordOf, Taken, Registered, QuestionOf
    <3>3. ASSUME NEW r \in Requests
          PROVE  /\ CallOf(r) = "none" <=> ~InFlight(r)
                 /\ CallOf(r)' = "none"
                 /\ AnswerOf(r)' = IF InFlight(r) THEN "killed" ELSE AnswerOf(r)
      BY <2>1, <3>1 DEF Crash, CallOf, AnswerOf, InFlight, Points
    <3>4. /\ callBar' = [r \in Requests |-> "none"]
          /\ answerBar' = [r \in Requests |-> IF callBar[r] = "none" THEN answerBar[r] ELSE "killed"]
      BY <3>3 DEF callBar, answerBar
    <3> QED
      BY <3>2, <3>4 DEF Registry!Die, accountsBar, callBar, askedBar, answerBar
  <2>2. ASSUME UNCHANGED vars PROVE UNCHANGED Registry!registryVars
    BY <2>2 DEF vars, handler, history, Registry!registryVars, PasswordOf, Taken, Registered,
                CallOf, QuestionOf, AnswerOf
  <2> QED
    BY <1>1, <2>1, <2>2, RefinementStep DEF Next, RequestStep, Registry!RegistryNext
<1>2. IndInv /\ IndInv' /\ [Next]_vars => [Registry!RegistryNext]_(Registry!registryVars)
  BY <1>1
<1> QED
  BY <1>2, RefinementInit, IndInvariant, PTL DEF Spec, ImplementsRegistry, Registry!RegistrySpec
=============================================================================
