--------------------------- MODULE TokenSessions ---------------------------
(***************************************************************************)
(* Access tokens from login to logout.  Tokens are signed and carry their  *)
(* expiry; a revoked token is remembered in the memory of a token manager  *)
(* until it has expired.  Every group of routes that authenticates builds  *)
(* an AuthService, hence a manager, of its own; all share AUTH_SECRET, so  *)
(* each accepts the tokens that /auth/login issues.  RequireAuth looks at  *)
(* the revocations and then, separately, at the clock.                     *)
(***************************************************************************)
EXTENDS Integers, FiniteSets

CONSTANTS Sessions,         \* logins
          Groups,           \* route groups with a manager, "auth" among them
          Requests,         \* authenticated requests
          AccessDuration,   \* lifetime of an access token, in ticks
          RefreshDuration,  \* lifetime of a refresh token, in ticks
          Second,           \* ticks in a second: expiries are whole seconds
          MaxNow,           \* bound: the last tick explored
          None

ASSUME Durations == /\ Second \in Nat \ {0} /\ MaxNow \in Nat
                    /\ AccessDuration \in Nat /\ AccessDuration >= Second
                    /\ RefreshDuration \in Nat /\ RefreshDuration >= Second

Types  == {"access", "refresh"}
Tokens == Sessions \X Types

ASSUME AuthGroup == "auth" \in Groups /\ None \notin [group : Groups, token : Tokens]

VARIABLES
  now,        \* the wall clock
  expires,    \* the expiry a token carries; 0 before it is issued
  revoked,    \* revokedTokenID of the manager of each group
  pc,         \* the next step of each request
  wants,      \* the group it is sent to and the token it presents
  reply,
  loggedOut,  \* history: tokens whose logout was answered since the last start
  late,       \* history: whether a request came after its token's logout, and where
  acceptedAt  \* history: when a token was last accepted, per request

vars == <<now, expires, revoked, pc, wants, reply, loggedOut, late, acceptedAt>>
requests == <<pc, wants, reply, late, acceptedAt>>

Points  == {"idle", "revocations", "expiry", "logout", "done"}
Replies == {"none", "served", "unauthorized", "killed"}

TypeOK ==
  /\ now \in Nat
  /\ expires \in [Tokens -> Nat]
  /\ revoked \in [Groups -> SUBSET Tokens]
  /\ pc \in [Requests -> Points]
  /\ wants \in [Requests -> [group : Groups, token : Tokens] \cup {None}]
  /\ \A r \in Requests : pc[r] # "idle" => wants[r] # None
  /\ reply \in [Requests -> Replies]
  /\ loggedOut \in [Groups -> SUBSET Tokens]
  /\ late \in [Requests -> {"no", "elsewhere", "here"}]
  /\ acceptedAt \in [Requests -> Nat]

Init ==
  /\ now = 1
  /\ expires = [t \in Tokens |-> 0]
  /\ revoked = [g \in Groups |-> {}]
  /\ pc = [r \in Requests |-> "idle"]
  /\ wants = [r \in Requests |-> None]
  /\ reply = [r \in Requests |-> "none"]
  /\ loggedOut = [g \in Groups |-> {}]
  /\ late = [r \in Requests |-> "no"]
  /\ acceptedAt = [r \in Requests |-> 0]

Issued(t) == expires[t] # 0
Goto(r, p) == pc' = [pc EXCEPT ![r] = p]
Return(r, a) == Goto(r, "done") /\ reply' = [reply EXCEPT ![r] = a]
-----------------------------------------------------------------------------
(* The token manager. *)

\* exp.Before(now)
Expired(t) == expires[t] < now

\* Mutant: the expiry is rounded up to the next second.
Expiry_RoundedUp(d) == ((now + d) \div Second + 1) * Second

\* Mutant: the lifetime is subtracted.
Expiry_Subtracted(d) == ((now - d) \div Second) * Second

\* time.Now().Add(d).Unix()
Expiry(d) == ((now + d) \div Second) * Second

\* IssueTokens, at a successful login.
IssueTokens(s) ==
  /\ ~Issued(<<s, "access">>)
  /\ expires' = [expires EXCEPT ![<<s, "access">>] = Expiry(AccessDuration),
                                ![<<s, "refresh">>] = Expiry(RefreshDuration)]
  /\ UNCHANGED <<now, revoked, requests, loggedOut>>

\* Mutant: a token is dropped in the tick in which it expires.
Purged_TooEarly(g) == {t \in revoked[g] : ~(expires[t] <= now)}

\* Mutant: nothing is dropped.
Purged_Never(g) == revoked[g]

\* What Revoke keeps of a manager's revocations.
Purged(g) == {t \in revoked[g] : ~Expired(t)}
-----------------------------------------------------------------------------
(* RequireAuth in front of every handler of a group. *)

Receive(r) ==
  /\ pc[r] = "idle"
  /\ \E g \in Groups, t \in Tokens :
       /\ Issued(t)
       /\ wants' = [wants EXCEPT ![r] = [group |-> g, token |-> t]]
       /\ late' = [late EXCEPT ![r] = IF t \in loggedOut[g] THEN "here"
                                      ELSE IF \E h \in Groups : t \in loggedOut[h]
                                      THEN "elsewhere" ELSE "no"]
  /\ Goto(r, "revocations")
  /\ UNCHANGED <<now, expires, revoked, reply, loggedOut, acceptedAt>>

\* ValidateAccessToken: the type of the token, then isRevoked.
CheckRevoked(r) ==
  /\ pc[r] = "revocations"
  /\ LET w == wants[r]
     IN IF w.token[2] = "access" /\ w.token \notin revoked[w.group]
        THEN Goto(r, "expiry") /\ UNCHANGED reply
        ELSE Return(r, "unauthorized")
  /\ UNCHANGED <<now, expires, revoked, wants, loggedOut, late, acceptedAt>>

\* Then its expiry, by a later look at the clock.
CheckExpiry(r) ==
  /\ pc[r] = "expiry"
  /\ LET w == wants[r]
     IN \/ /\ Expired(w.token)
           /\ Return(r, "unauthorized")
           /\ UNCHANGED acceptedAt
        \/ /\ ~Expired(w.token)
           /\ acceptedAt' = [acceptedAt EXCEPT ![r] = now]
           /\ IF w.group = "auth" THEN Goto(r, "logout") /\ UNCHANGED reply
                                  ELSE Return(r, "served")
  /\ UNCHANGED <<now, expires, revoked, wants, loggedOut, late>>

\* POST /auth/logout: Revoke purges and inserts under the manager's lock.
Logout(r) ==
  /\ pc[r] = "logout"
  /\ LET t == wants[r].token
     IN /\ revoked' = [revoked EXCEPT !["auth"] = Purged("auth") \cup {t}]
        /\ loggedOut' = [loggedOut EXCEPT !["auth"] = @ \cup {t}]
  /\ Return(r, "served")
  /\ UNCHANGED <<now, expires, wants, late, acceptedAt>>
-----------------------------------------------------------------------------
Tick == now < MaxNow /\ now' = now + 1
        /\ UNCHANGED <<expires, revoked, requests, loggedOut>>

\* Managers keep nothing across a restart; tokens stay valid, for the secret
\* does.  Requests in progress are gone.
Restart ==
  /\ revoked' = [g \in Groups |-> {}]
  /\ loggedOut' = [g \in Groups |-> {}]
  /\ pc' = [r \in Requests |-> IF pc[r] = "idle" THEN "idle" ELSE "done"]
  /\ reply' = [r \in Requests |->
                 IF pc[r] \in {"idle", "done"} THEN reply[r] ELSE "killed"]
  /\ UNCHANGED <<now, expires, wants, late, acceptedAt>>

Next == \/ \E s \in Sessions : IssueTokens(s)
        \/ \E r \in Requests : Receive(r) \/ CheckRevoked(r) \/ CheckExpiry(r) \/ Logout(r)
        \/ Tick \/ Restart

Spec == Init /\ [][Next]_vars
-----------------------------------------------------------------------------
(* Properties. *)

\* Once the logout of a token was answered, no request that presents it to the
\* same manager is accepted while the server runs, although the manager forgets
\* the token when it has expired: a token it forgot, it refuses as expired.
LoggedOutIsRefused == \A r \in Requests : late[r] = "here" => reply[r] # "served"

\* The same of the managers' memory: a logged-out token is still listed or has
\* expired for good.
LoggedOutIsListed ==
  \A g \in Groups : \A t \in loggedOut[g] : t \in revoked[g] \/ Expired(t)

\* Only access tokens are accepted, and none after the lifetime its login gave
\* it: whole seconds shorten a lifetime and never extend it.  A token issued by
\* now cannot expire later than a full lifetime from now.
AcceptedInLifetime ==
  /\ \A r \in Requests : acceptedAt[r] # 0 =>
       wants[r].token[2] = "access" /\ acceptedAt[r] <= expires[wants[r].token]
  /\ \A s \in Sessions : expires[<<s, "access">>] <= now + AccessDuration

\* Revocations do not pile up: when a manager has handled a logout, it lists at
\* most the token just revoked besides tokens that have not expired.
RevocationsArePurged ==
  [][\A g \in Groups : revoked'[g] # revoked[g] =>
       Cardinality({t \in revoked'[g] : Expired(t)}) <= 1]_vars

\* TestLogoutRevokesTokenApi expects that a token is refused after its logout;
\* here of every route that authenticates.
LogoutEndsSession == \A r \in Requests : late[r] # "no" => reply[r] # "served"
=============================================================================
