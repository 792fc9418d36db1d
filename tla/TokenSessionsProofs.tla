------------------------ MODULE TokenSessionsProofs ------------------------
(***************************************************************************)
(* Safety of TokenSessions for any sessions, route groups, requests and    *)
(* lifetimes, and a clock of any length.                                   *)
(***************************************************************************)
EXTENDS TokenSessions, FiniteSetTheorems, TLAPS

\* What a manager has answered a logout for is an access token, issued for good.
LogoutInv ==
  \A g \in Groups : \A t \in loggedOut[g] : t[2] = "access" /\ Issued(t)

\* A request that goes past the revocations presents an access token; one that
\* came after the token's logout gets there only when the token has expired.
RequestInv ==
  \A r \in Requests :
    LET t == wants[r].token
    IN /\ pc[r] = "idle" => reply[r] = "none" /\ acceptedAt[r] = 0
       /\ pc[r] # "idle" => Issued(t)
       /\ pc[r] \in {"expiry", "logout"} => t[2] = "access"
       /\ late[r] = "here" =>
            /\ pc[r] = "revocations" =>
                 t[2] = "access" /\ (t \in revoked[wants[r].group] \/ Expired(t))
            /\ pc[r] = "expiry" => Expired(t)
            /\ pc[r] # "logout"

IndInv == /\ TypeOK /\ LogoutInv /\ RequestInv
          /\ LoggedOutIsRefused /\ LoggedOutIsListed /\ AcceptedInLifetime
-----------------------------------------------------------------------------
\* Rounding down to whole seconds keeps an expiry positive and within d.
LEMMA ExpiryBounds ==
  ASSUME now \in Nat, NEW d \in Nat, d >= Second
  PROVE  Expiry(d) \in Nat /\ Expiry(d) <= now + d /\ Expiry(d) # 0
<1> DEFINE a == now + d
           q == a \div Second
<1>1. a \in Nat /\ a >= Second /\ Second \in Nat /\ Second > 0
  BY Durations
<1>2. q \in Nat /\ q > 0 /\ q * Second <= a
  BY <1>1
<1>3. q * Second \in Nat /\ q * Second # 0
  BY <1>1, <1>2
<1> QED
  BY <1>2, <1>3 DEF Expiry

LEMMA IndInit == Init => IndInv
<1> SUFFICES ASSUME Init PROVE IndInv
  OBVIOUS
<1>1. TypeOK
  BY DEF Init, TypeOK, Points, Replies
<1>2. LogoutInv /\ RequestInv /\ LoggedOutIsRefused /\ LoggedOutIsListed
  BY DEF Init, LogoutInv, RequestInv, LoggedOutIsRefused, LoggedOutIsListed
<1>3. AcceptedInLifetime
  BY Durations DEF Init, AcceptedInLifetime, Tokens, Types
<1> QED
  BY <1>1, <1>2, <1>3 DEF IndInv
-----------------------------------------------------------------------------
(* The steps. *)

\* A login changes the expiry of no access token issued before.
LEMMA StepIssue ==
  ASSUME IndInv, NEW s \in Sessions, IssueTokens(s)
  PROVE  IndInv'
<1> USE DEF IndInv
<1>0. now \in Nat /\ expires \in [Tokens -> Nat]
  BY DEF TypeOK
<1>1. /\ Expiry(AccessDuration) \in Nat /\ Expiry(AccessDuration) # 0
      /\ Expiry(AccessDuration) <= now + AccessDuration
      /\ Expiry(RefreshDuration) \in Nat /\ Expiry(RefreshDuration) # 0
  BY <1>0, ExpiryBounds, Durations
<1>2. /\ <<s, "access">> \in Tokens /\ <<s, "refresh">> \in Tokens
      /\ <<s, "access">> # <<s, "refresh">>
  BY DEF Tokens, Types
<1>3. /\ expires' \in [Tokens -> Nat]
      /\ \A t \in Tokens : expires'[t] = IF t = <<s, "access">> THEN Expiry(AccessDuration)
                                          ELSE IF t = <<s, "refresh">> THEN Expiry(RefreshDuration)
                                          ELSE expires[t]
  BY <1>0, <1>1, <1>2 DEF IssueTokens
<1>4. UNCHANGED <<now, revoked, pc, wants, reply, late, acceptedAt, loggedOut>>
      /\ expires[<<s, "access">>] = 0
  BY DEF IssueTokens, requests, Issued
<1>5. TypeOK'
  BY <1>3, <1>4 DEF TypeOK
<1>6. \A t \in Tokens : /\ Issued(t) => Issued(t)'
                        /\ t[2] = "access" /\ Issued(t) => expires'[t] = expires[t]
  BY <1>1, <1>2, <1>3, <1>4 DEF Issued
<1>7. LogoutInv' /\ LoggedOutIsListed'
  BY <1>4, <1>6 DEF TypeOK, LogoutInv, LoggedOutIsListed, Expired
<1>8. \A r \in Requests : pc[r] # "idle" => wants[r].token \in Tokens /\ wants[r].group \in Groups
  BY DEF TypeOK
<1>9. RequestInv' /\ LoggedOutIsRefused'
  BY <1>4, <1>6, <1>8 DEF RequestInv, LoggedOutIsRefused, Expired
<1>10. AcceptedInLifetime'
  <2>1. ASSUME NEW r \in Requests, acceptedAt'[r] # 0
        PROVE  wants'[r].token[2] = "access" /\ acceptedAt'[r] <= expires'[wants'[r].token]
    BY <1>4, <1>6, <1>8, <2>1 DEF RequestInv, AcceptedInLifetime
  <2>2. ASSUME NEW z \in Sessions PROVE expires'[<<z, "access">>] <= now' + AccessDuration
    <3>1. <<z, "access">> \in Tokens
      BY DEF Tokens, Types
    <3>2. expires[<<z, "access">>] <= now + AccessDuration
      BY DEF AcceptedInLifetime
    <3> QED
      BY <1>1, <1>2, <1>3, <1>4, <3>1, <3>2
  <2> QED
    BY <2>1, <2>2 DEF AcceptedInLifetime
<1> QED
  BY <1>5, <1>7, <1>9, <1>10

\* A request is received, checked, and refused or accepted.
LEMMA StepRequest ==
  ASSUME IndInv, NEW r \in Requests, Receive(r) \/ CheckRevoked(r) \/ CheckExpiry(r)
  PROVE  IndInv'
<1> USE DEF IndInv
<1>0. /\ now \in Nat /\ expires \in [Tokens -> Nat] /\ pc \in [Requests -> Points]
      /\ wants \in [Requests -> [group : Groups, token : Tokens] \cup {None}]
      /\ \A q \in Requests : pc[q] # "idle" => wants[q] # None
      /\ reply \in [Requests -> Replies] /\ late \in [Requests -> {"no", "elsewhere", "here"}]
      /\ acceptedAt \in [Requests -> Nat]
  BY DEF TypeOK
<1>1. UNCHANGED <<now, expires, revoked, loggedOut>>
  BY DEF Receive, CheckRevoked, CheckExpiry
<1>2. LogoutInv' /\ LoggedOutIsListed'
  BY <1>1 DEF LogoutInv, LoggedOutIsListed, Issued, Expired
\* What the invariant says of one request.
<1> DEFINE Good(q) ==
      LET t == wants[q].token
      IN /\ pc[q] = "idle" => reply[q] = "none" /\ acceptedAt[q] = 0
         /\ pc[q] # "idle" => Issued(t)
         /\ pc[q] \in {"expiry", "logout"} => t[2] = "access"
         /\ late[q] = "here" =>
              /\ pc[q] = "revocations" =>
                   t[2] = "access" /\ (t \in revoked[wants[q].group] \/ Expired(t))
              /\ pc[q] = "expiry" => Expired(t)
              /\ pc[q] # "logout"
         /\ late[q] = "here" => reply[q] # "served"
         /\ acceptedAt[q] # 0 => t[2] = "access" /\ acceptedAt[q] <= expires[t]
<1>3. \A q \in Requests : Good(q)
  BY DEF RequestInv, LoggedOutIsRefused, AcceptedInLifetime
<1>4. ASSUME TypeOK', \A q \in Requests : Good(q)' PROVE IndInv'
  <2>1. \A s \in Sessions : expires'[<<s, "access">>] <= now' + AccessDuration
    BY <1>1 DEF AcceptedInLifetime
  <2> QED
    BY <1>2, <1>4, <2>1 DEF RequestInv, LoggedOutIsRefused, AcceptedInLifetime
<1>5. CASE Receive(r)
  <2>1. PICK g \in Groups, t \in Tokens :
          /\ Issued(t)
          /\ wants' = [wants EXCEPT ![r] = [group |-> g, token |-> t]]
          /\ late' = [late EXCEPT ![r] = IF t \in loggedOut[g] THEN "here"
                                         ELSE IF \E h \in Groups : t \in loggedOut[h]
                                         THEN "elsewhere" ELSE "no"]
    BY <1>5 DEF Receive
  <2>2. /\ pc[r] = "idle" /\ pc' = [pc EXCEPT ![r] = "revocations"]
        /\ UNCHANGED <<reply, acceptedAt>>
    BY <1>5 DEF Receive, Goto
  <2>3. late'[r] = "here" => t[2] = "access" /\ (t \in revoked[g] \/ Expired(t))
    BY <1>0, <2>1 DEF LogoutInv, LoggedOutIsListed
  <2>4. TypeOK'
    BY <1>0, <1>1, <2>1, <2>2, AuthGroup DEF TypeOK, Points
  <2>5. Good(r)'
    BY <1>0, <1>1, <1>3, <2>1, <2>2, <2>3 DEF Issued, Expired
  <2>6. \A q \in Requests \ {r} : Good(q)'
    BY <1>0, <1>1, <1>3, <2>1, <2>2 DEF Issued, Expired
  <2> QED
    BY <1>4, <2>4, <2>5, <2>6
<1>6. CASE CheckRevoked(r)
  <2>1. /\ pc[r] = "revocations" /\ UNCHANGED <<wants, late, acceptedAt>>
        /\ \/ /\ pc' = [pc EXCEPT ![r] = "expiry"] /\ reply' = reply
              /\ wants[r].token[2] = "access" /\ wants[r].token \notin revoked[wants[r].group]
           \/ pc' = [pc EXCEPT ![r] = "done"] /\ reply' = [reply EXCEPT ![r] = "unauthorized"]
    BY <1>6 DEF CheckRevoked, Goto, Return
  <2>2. TypeOK'
    BY <1>0, <1>1, <2>1 DEF TypeOK, Points, Replies
  <2>3. Good(r)'
    BY <1>0, <1>1, <1>3, <2>1 DEF Issued, Expired
  <2>4. \A q \in Requests \ {r} : Good(q)'
    BY <1>0, <1>1, <1>3, <2>1 DEF Issued, Expired
  <2> QED
    BY <1>4, <2>2, <2>3, <2>4
<1>7. CASE CheckExpiry(r)
  <2>1. /\ pc[r] = "expiry" /\ UNCHANGED <<wants, late>>
        /\ \/ /\ Expired(wants[r].token) /\ acceptedAt' = acceptedAt
              /\ pc' = [pc EXCEPT ![r] = "done"] /\ reply' = [reply EXCEPT ![r] = "unauthorized"]
           \/ /\ ~Expired(wants[r].token) /\ acceptedAt' = [acceptedAt EXCEPT ![r] = now]
              /\ \/ pc' = [pc EXCEPT ![r] = "logout"] /\ reply' = reply
                 \/ pc' = [pc EXCEPT ![r] = "done"] /\ reply' = [reply EXCEPT ![r] = "served"]
    BY <1>7 DEF CheckExpiry, Goto, Return
  <2>2. TypeOK'
    BY <1>0, <1>1, <2>1 DEF TypeOK, Points, Replies
  <2>3. wants[r].token \in Tokens
    BY <1>0, <2>1
  <2>4. Good(r)'
    BY <1>0, <1>1, <1>3, <2>1, <2>3 DEF Issued, Expired
  <2>5. \A q \in Requests \ {r} : Good(q)'
    BY <1>0, <1>1, <1>3, <2>1 DEF Issued, Expired
  <2> QED
    BY <1>4, <2>2, <2>4, <2>5
<1> QED
  BY <1>5, <1>6, <1>7

\* A logout forgets only tokens that have expired.
LEMMA StepLogout ==
  ASSUME IndInv, NEW r \in Requests, Logout(r)
  PROVE  IndInv'
<1> USE DEF IndInv
<1> DEFINE t == wants[r].token
<1>0. /\ pc \in [Requests -> Points] /\ reply \in [Requests -> Replies]
      /\ revoked \in [Groups -> SUBSET Tokens] /\ loggedOut \in [Groups -> SUBSET Tokens]
      /\ "auth" \in Groups
  BY AuthGroup DEF TypeOK
<1>1. /\ pc[r] = "logout" /\ pc' = [pc EXCEPT ![r] = "done"]
      /\ reply' = [reply EXCEPT ![r] = "served"]
      /\ revoked' = [revoked EXCEPT !["auth"] = Purged("auth") \cup {t}]
      /\ loggedOut' = [loggedOut EXCEPT !["auth"] = @ \cup {t}]
      /\ UNCHANGED <<now, expires, wants, late, acceptedAt>>
  BY DEF Logout, Return, Goto
<1>2. t \in Tokens /\ t[2] = "access" /\ Issued(t) /\ late[r] # "here"
  BY <1>1 DEF TypeOK, RequestInv
<1>3. Purged("auth") \subseteq revoked["auth"]
      /\ \A u \in revoked["auth"] : u \in Purged("auth") \/ Expired(u)
  BY DEF Purged
<1>4. \A g \in Groups : \A u \in revoked[g] : u \in revoked'[g] \/ Expired(u)
  BY <1>0, <1>1, <1>3
<1>5. TypeOK'
  BY <1>0, <1>1, <1>2, <1>3 DEF TypeOK, Points, Replies
<1>6. LogoutInv'
  BY <1>0, <1>1, <1>2 DEF LogoutInv, Issued
<1>7. LoggedOutIsListed'
  BY <1>0, <1>1, <1>4 DEF LoggedOutIsListed, Expired
<1>8. RequestInv'
  <2> DEFINE Good(q) ==
        LET u == wants[q].token
        IN /\ pc[q] = "idle" => reply[q] = "none" /\ acceptedAt[q] = 0
           /\ pc[q] # "idle" => Issued(u)
           /\ pc[q] \in {"expiry", "logout"} => u[2] = "access"
           /\ late[q] = "here" =>
                /\ pc[q] = "revocations" =>
                     u[2] = "access" /\ (u \in revoked[wants[q].group] \/ Expired(u))
                /\ pc[q] = "expiry" => Expired(u)
                /\ pc[q] # "logout"
  <2>1. ASSUME NEW q \in Requests PROVE Good(q)'
    <3>1. Good(q)
      BY DEF RequestInv
    <3>2. pc[q] = "revocations" => wants[q].group \in Groups
      BY DEF TypeOK
    <3>3. IF q = r THEN pc'[q] = "done" ELSE pc'[q] = pc[q] /\ reply'[q] = reply[q]
      BY <1>0, <1>1
    <3> QED
      BY <1>1, <1>2, <1>4, <3>1, <3>2, <3>3 DEF Issued, Expired
  <2> QED
    BY <2>1 DEF RequestInv
<1>9. LoggedOutIsRefused'
  BY <1>0, <1>1, <1>2 DEF LoggedOutIsRefused
<1>10. AcceptedInLifetime'
  BY <1>1 DEF AcceptedInLifetime
<1> QED
  BY <1>5, <1>6, <1>7, <1>8, <1>9, <1>10

\* Time passes: what has expired stays expired.
LEMMA StepTick == IndInv /\ Tick => IndInv'
<1> SUFFICES ASSUME IndInv, Tick PROVE IndInv'
  OBVIOUS
<1> USE DEF IndInv
<1>1. /\ now \in Nat /\ now' = now + 1 /\ expires \in [Tokens -> Nat]
      /\ UNCHANGED <<expires, revoked, pc, wants, reply, late, acceptedAt, loggedOut>>
  BY DEF Tick, requests, TypeOK
<1>2. \A t \in Tokens : Expired(t) => Expired(t)'
  BY <1>1 DEF Expired
<1>3. TypeOK'
  BY <1>1 DEF TypeOK
<1>4. LogoutInv' /\ LoggedOutIsListed'
  BY <1>1, <1>2 DEF TypeOK, LogoutInv, LoggedOutIsListed, Issued
<1>5. \A r \in Requests : pc[r] # "idle" => wants[r].token \in Tokens
  BY DEF TypeOK
<1>6. RequestInv' /\ LoggedOutIsRefused'
  BY <1>1, <1>2, <1>5 DEF RequestInv, LoggedOutIsRefused, Issued
<1>7. AcceptedInLifetime'
  <2>1. ASSUME NEW s \in Sessions PROVE expires[<<s, "access">>] <= now + 1 + AccessDuration
    <3>1. expires[<<s, "access">>] \in Nat /\ expires[<<s, "access">>] <= now + AccessDuration
      BY <1>1 DEF AcceptedInLifetime, Tokens, Types
    <3> QED
      BY <1>1, <3>1, Durations
  <2> QED
    BY <1>1, <2>1 DEF AcceptedInLifetime
<1> QED
  BY <1>3, <1>4, <1>6, <1>7

\* A restart loses the revocations, the requests that passed them, and with
\* them what was promised.
LEMMA StepRestart == IndInv /\ Restart => IndInv'
<1> SUFFICES ASSUME IndInv, Restart PROVE IndInv'
  OBVIOUS
<1> USE DEF IndInv
<1>1. /\ UNCHANGED <<now, expires, wants, late, acceptedAt>>
      /\ revoked' = [g \in Groups |-> {}] /\ loggedOut' = [g \in Groups |-> {}]
      /\ \A r \in Requests : pc'[r] = IF pc[r] = "idle" THEN "idle" ELSE "done"
      /\ \A r \in Requests : reply'[r] \in {reply[r], "killed"}
      /\ \A r \in Requests : pc[r] = "idle" => reply'[r] = reply[r]
  BY DEF Restart
<1>2. TypeOK'
  BY DEF Restart, TypeOK, Points, Replies
<1>3. LogoutInv' /\ LoggedOutIsListed'
  BY <1>1 DEF LogoutInv, LoggedOutIsListed
<1>4. RequestInv' /\ LoggedOutIsRefused'
  BY <1>1 DEF RequestInv, LoggedOutIsRefused, Issued
<1>5. AcceptedInLifetime'
  BY <1>1 DEF AcceptedInLifetime
<1> QED
  BY <1>2, <1>3, <1>4, <1>5

LEMMA StepStutter == IndInv /\ UNCHANGED vars => IndInv'
<1> QED
  BY DEF vars, IndInv, TypeOK, LogoutInv, RequestInv, LoggedOutIsRefused, LoggedOutIsListed,
         AcceptedInLifetime, Issued, Expired

LEMMA IndInvariant == Spec => []IndInv
<1>1. IndInv /\ [Next]_vars => IndInv'
  BY StepIssue, StepRequest, StepLogout, StepTick, StepRestart, StepStutter DEF Next
<1> QED
  BY <1>1, IndInit, PTL DEF Spec
-----------------------------------------------------------------------------
(* Theorems. *)

\* The clock, the tokens and the managers keep their types; every expiry that
\* rounding to seconds produces is a natural number.
THEOREM TypeCorrect == Spec => []TypeOK
<1>1. IndInv => TypeOK
  BY DEF IndInv
<1> QED
  BY <1>1, IndInvariant, PTL

\* However its checks interleave with logouts, purges and the clock, RequireAuth
\* serves no request that presents to a manager a token it has logged out.
THEOREM LogoutHolds == Spec => []LoggedOutIsRefused
<1>1. IndInv => LoggedOutIsRefused
  BY DEF IndInv
<1> QED
  BY <1>1, IndInvariant, PTL

\* Revoke purges only tokens that are refused as expired from then on.
THEOREM PurgeIsSafe == Spec => []LoggedOutIsListed
<1>1. IndInv => LoggedOutIsListed
  BY DEF IndInv
<1> QED
  BY <1>1, IndInvariant, PTL

\* An access token is accepted within the lifetime its login gave it, and a
\* refresh token never.
THEOREM LifetimesHold == Spec => []AcceptedInLifetime
<1>1. IndInv => AcceptedInLifetime
  BY DEF IndInv
<1> QED
  BY <1>1, IndInvariant, PTL

\* A logout leaves none of the manager's expired tokens listed but its own.
LEMMA LogoutPurges ==
  ASSUME TypeOK, NEW r \in Requests, Logout(r),
         NEW g \in Groups, revoked'[g] # revoked[g]
  PROVE  Cardinality({t \in revoked'[g] : Expired(t)}) <= 1
<1> DEFINE own == wants[r].token
           left == {t \in revoked'[g] : Expired(t)}
<1>1. revoked'[g] = Purged("auth") \cup {own}
  BY AuthGroup DEF Logout, TypeOK
<1>2. left \subseteq {own}
  BY <1>1 DEF Purged
<1>3. left = {} \/ left = {own}
  BY <1>2
<1>4. Cardinality(left) \in {0, 1}
  BY <1>3, FS_EmptySet, FS_Singleton
<1> QED
  BY <1>4

\* Revoke keeps the list short: after a logout at most its own token is expired.
THEOREM PurgeHappens == Spec => RevocationsArePurged
<1>1. ASSUME TypeOK, [Next]_vars, NEW g \in Groups, revoked'[g] # revoked[g]
      PROVE  Cardinality({t \in revoked'[g] : Expired(t)}) <= 1
  <2>1. CASE \E r \in Requests : Logout(r)
    BY <1>1, <2>1, LogoutPurges
  <2>2. CASE Restart
    <3>1. {t \in revoked'[g] : Expired(t)} = {}
      BY <2>2 DEF Restart
    <3> QED
      BY <3>1, FS_EmptySet
  <2>3. CASE ~Restart /\ \A r \in Requests : ~Logout(r)
    BY <1>1, <2>3 DEF Next, vars, IssueTokens, Receive, CheckRevoked, CheckExpiry, Tick
  <2> QED
    BY <2>1, <2>2, <2>3
<1>2. TypeOK /\ [Next]_vars =>
        [\A g \in Groups : revoked'[g] # revoked[g] =>
           Cardinality({t \in revoked'[g] : Expired(t)}) <= 1]_vars
  BY <1>1
<1> QED
  BY <1>2, TypeCorrect, PTL DEF Spec, RevocationsArePurged
=============================================================================
