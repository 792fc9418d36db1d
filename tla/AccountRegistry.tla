--------------------------- MODULE AccountRegistry ---------------------------
(***************************************************************************)
(* What the accounts promise to those who register and log in: however     *)
(* their requests overlap, each takes effect at one moment between its     *)
(* arrival and its answer.  A mailbox is opened once, with the password of *)
(* the registration that opens it, and keeps both for good; a login opens  *)
(* and changes nothing, and is given tokens only for the password its      *)
(* mailbox has then.                                                       *)
(***************************************************************************)
CONSTANTS Requests,    \* registrations and logins
          Mailboxes,   \* addresses, whatever their spelling
          Passwords,
          None         \* no account

VARIABLES accounts,    \* the password of each mailbox that has been opened
          call,        \* what each request that is under way is
          asked,       \* the mailbox and the password it came with
          answer       \* what it was answered

registryVars == <<accounts, call, asked, answer>>

NoQuestion == [mailbox |-> None, password |-> None]

RegistryInit ==
  /\ accounts = [m \in Mailboxes |-> None]
  /\ call = [r \in Requests |-> "none"]
  /\ asked = [r \in Requests |-> NoQuestion]
  /\ answer = [r \in Requests |-> "none"]

Arrive(r, kind, m, p) ==
  /\ call[r] = "none" /\ answer[r] = "none"
  /\ call' = [call EXCEPT ![r] = kind]
  /\ asked' = [asked EXCEPT ![r] = [mailbox |-> m, password |-> p]]
  /\ UNCHANGED <<accounts, answer>>

\* A request that cannot be understood.
Refuse(r) ==
  /\ call[r] = "none" /\ answer[r] = "none"
  /\ answer' = [answer EXCEPT ![r] = "invalid"]
  /\ UNCHANGED <<accounts, call, asked>>

Reply(r, a) ==
  /\ call' = [call EXCEPT ![r] = "none"]
  /\ answer' = [answer EXCEPT ![r] = a]
  /\ UNCHANGED asked

\* The mailbox is opened, though the client may learn of a failure.
Open(r) ==
  /\ call[r] = "register"
  /\ accounts[asked[r].mailbox] = None
  /\ accounts' = [accounts EXCEPT ![asked[r].mailbox] = asked[r].password]
  /\ \E a \in {"created", "invalid"} : Reply(r, a)

Conflict(r) ==
  /\ call[r] = "register"
  /\ accounts[asked[r].mailbox] # None
  /\ Reply(r, "conflict")
  /\ UNCHANGED accounts

Fail(r) ==
  /\ call[r] = "register"
  /\ Reply(r, "invalid")
  /\ UNCHANGED accounts

GiveTokens(r) ==
  /\ call[r] = "login"
  /\ accounts[asked[r].mailbox] = asked[r].password
  /\ Reply(r, "tokens")
  /\ UNCHANGED accounts

TurnAway(r) ==
  /\ call[r] = "login"
  /\ \E a \in {"unauthorized", "locked"} : Reply(r, a)
  /\ UNCHANGED accounts

\* The requests under way end without an answer, and without an effect.
Die ==
  /\ call' = [r \in Requests |-> "none"]
  /\ answer' = [r \in Requests |-> IF call[r] = "none" THEN answer[r] ELSE "killed"]
  /\ UNCHANGED <<accounts, asked>>

RegistryNext ==
  \/ \E r \in Requests :
       \/ \E kind \in {"register", "login"}, m \in Mailboxes, p \in Passwords : Arrive(r, kind, m, p)
       \/ Refuse(r) \/ Open(r) \/ Conflict(r) \/ Fail(r) \/ GiveTokens(r) \/ TurnAway(r)
  \/ Die

RegistrySpec == RegistryInit /\ [][RegistryNext]_registryVars
=============================================================================
