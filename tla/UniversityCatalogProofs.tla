----------------------- MODULE UniversityCatalogProofs -----------------------
(***************************************************************************)
(* Safety of UniversityCatalog for any universities, requests and columns. *)
(***************************************************************************)
EXTENDS UniversityCatalog, TLAPS

-----------------------------------------------------------------------------
(* The inductive invariant. *)

\* What a request knows before each call.  A patch that is about to write holds
\* its own values of the fields it names and, of every other field, the row's
\* value unless that changed since.
CallInv ==
  \A r \in Requests :
    LET u == req[r].id
    IN /\ pc[r] = "insert" => Required \subseteq req[r].fields
       /\ pc[r] \in {"find", "write", "remove"} => u \in Universities
       /\ pc[r] = "write" =>
            /\ req[r].op = "update"
            /\ \A f \in Required : local[r][f] # None
            /\ \A f \in Fields : IF f \in req[r].fields THEN local[r][f] = r
                                 ELSE f \in stale[r] \/ local[r][f] = rows[u][f]
       /\ reply[r] # "none" => pc[r] = "done"

\* An identifier is used once: its row is there from its creation to its deletion.
CreatedInv ==
  /\ \A u \in Universities : Present(u) => u \in created
  /\ \A r \in Requests : reply[r] = "deleted" => req[r].id \in created

IndInv == TypeOK /\ CallInv /\ CreatedInv /\ DeletedIsGone /\ LossHasCause

RequestStep(r) ==
  \/ Reject(r) \/ Receive(r) \/ Create(r) \/ Find(r) \/ FindAll(r)
  \/ QueryFails(r) \/ Update(r) \/ Delete(r) \/ Disconnect(r)
-----------------------------------------------------------------------------
(* Operators of the model. *)

LEMMA EmptyRow == NoRow \in Row
<1> QED
  BY DEF NoRow, Row

LEMMA MergedRow ==
  ASSUME NEW r \in Requests, NEW row \in Row
  PROVE  /\ Merged(r, row) \in Row
         /\ Intended(r, row) = Merged(r, row)
         /\ \A f \in Fields : Merged(r, row)[f] = IF f \in req[r].fields THEN r ELSE row[f]
<1> QED
  BY DEF Merged, Intended, Row

\* A row that becomes new makes the copies of others stale where it differs.
LEMMA Changed ==
  ASSUME TypeOK, NEW r \in Requests, NEW u \in Universities, NEW new \in Row,
         Change(r, u, new)
  PROVE  /\ rows' \in [Universities -> Row] /\ stale' \in [Requests -> SUBSET Fields]
         /\ rows'[u] = new /\ \A v \in Universities \ {u} : rows'[v] = rows[v]
         /\ stale'[r] = stale[r]
         /\ \A s \in Requests :
              /\ stale[s] \subseteq stale'[s]
              /\ pc[s] # "write" => stale'[s] = stale[s]
              /\ s # r /\ pc[s] = "write" /\ req[s].id \in Universities =>
                   \A f \in Fields :
                     rows'[req[s].id][f] = rows[req[s].id][f] \/ f \in stale'[s]
<1>1. rows \in [Universities -> Row] /\ stale \in [Requests -> SUBSET Fields]
  BY DEF TypeOK
<1>2. rows' \in [Universities -> Row] /\ rows'[u] = new
      /\ \A v \in Universities \ {u} : rows'[v] = rows[v]
  BY <1>1 DEF Change
<1>3. stale' \in [Requests -> SUBSET Fields]
  BY <1>1 DEF Change
<1>4. \A s \in Requests :
        stale'[s] = IF s # r /\ pc[s] = "write" /\ req[s].id = u
                    THEN stale[s] \cup {f \in Fields : rows[u][f] # new[f]} ELSE stale[s]
  BY DEF Change
<1> QED
  BY <1>2, <1>3, <1>4

\* What each write of the table does.
LEMMA RowWritten ==
  ASSUME TypeOK, CallInv, CreatedInv, NEW r \in Requests,
         Create(r) \/ Update(r) \/ Delete(r), ~UNCHANGED <<rows, history>>
  PROVE  \E u \in Universities, new \in Row :
           /\ Change(r, u, new)
           /\ new = NoRow \/ \A f \in Required : new[f] # None
           /\ new # NoRow => u \in created'
           /\ u \in created /\ rows[u] = NoRow => new = NoRow
           /\ created \subseteq created' /\ created' \subseteq Universities
           /\ \/ ideal' = [ideal EXCEPT ![u] = new]
              \/ /\ pc[r] = "write" /\ new = local[r] /\ u = req[r].id
                 /\ ideal' = [ideal EXCEPT ![u] = Intended(r, ideal[u])]
<1>1. CASE Create(r)
  <2>1. PICK u \in Universities \ created :
          /\ Change(r, u, Merged(r, NoRow))
          /\ created' = created \cup {u}
          /\ ideal' = [ideal EXCEPT ![u] = Intended(r, NoRow)]
    BY <1>1 DEF Create
  <2>2. Required \subseteq req[r].fields /\ Required \subseteq Fields
    BY <1>1 DEF Create, CallInv, Fields
  <2>3. \A f \in Required : Merged(r, NoRow)[f] # None
    BY <2>2, EmptyRow, MergedRow, Columns
  <2>4. created \subseteq Universities
    BY DEF TypeOK
  <2>5. Merged(r, NoRow) \in Row /\ Intended(r, NoRow) = Merged(r, NoRow)
    BY EmptyRow, MergedRow
  <2> QED
    BY <2>1, <2>3, <2>4, <2>5
<1>2. CASE Update(r)
  <2>1. req[r].id \in Universities /\ local[r] \in Row /\ \A f \in Required : local[r][f] # None
    BY <1>2 DEF Update, CallInv, TypeOK
  <2>2. /\ Change(r, req[r].id, local[r]) /\ Present(req[r].id) /\ created' = created
        /\ ideal' = [ideal EXCEPT ![req[r].id] = Intended(r, ideal[req[r].id])]
        /\ pc[r] = "write"
    BY <1>2 DEF Update, history
  <2>3. req[r].id \in created /\ created \subseteq Universities
    BY <2>1, <2>2 DEF CreatedInv, TypeOK
  <2> QED
    BY <2>1, <2>2, <2>3 DEF Present
<1>3. CASE Delete(r)
  <2>1. req[r].id \in Universities /\ created \subseteq Universities
    BY <1>3 DEF Delete, CallInv, TypeOK
  <2>2. /\ Change(r, req[r].id, NoRow) /\ created' = created
        /\ ideal' = [ideal EXCEPT ![req[r].id] = NoRow]
    BY <1>3 DEF Delete, history
  <2> QED
    BY <2>1, <2>2, EmptyRow
<1> QED
  BY <1>1, <1>2, <1>3

\* What a request leaves alone.
LEMMA StepFrame ==
  ASSUME IndInv, NEW r \in Requests, RequestStep(r)
  PROVE  /\ pc[r] # "done"
         /\ \A s \in Requests \ {r} : /\ pc'[s] = pc[s] /\ req'[s] = req[s]
                                      /\ local'[s] = local[s] /\ reply'[s] = reply[s]
         /\ \/ Create(r) \/ Update(r) \/ Delete(r)
            \/ UNCHANGED <<rows, history>>
<1> USE DEF IndInv
<1>1. /\ DOMAIN pc = Requests /\ DOMAIN req = Requests
      /\ DOMAIN local = Requests /\ DOMAIN reply = Requests
      /\ pc \in [Requests -> Points] /\ reply \in [Requests -> Replies]
      /\ req \in [Requests -> Request] /\ local \in [Requests -> Row]
  BY DEF TypeOK
<1> USE DEF Goto, Return
<1>2. CASE Reject(r)
  BY <1>1, <1>2 DEF Reject
<1>3. CASE Receive(r)
  BY <1>1, <1>3 DEF Receive
<1>4. CASE Create(r)
  BY <1>1, <1>4 DEF Create
<1>5. CASE Find(r)
  BY <1>1, <1>5 DEF Find
<1>6. CASE FindAll(r) \/ QueryFails(r)
  BY <1>1, <1>6 DEF FindAll, QueryFails
<1>7. CASE Update(r) \/ Delete(r)
  BY <1>1, <1>7 DEF Update, Delete
<1>8. CASE Disconnect(r)
  BY <1>1, <1>8 DEF Disconnect, InFlight
<1> QED
  BY <1>2, <1>3, <1>4, <1>5, <1>6, <1>7, <1>8 DEF RequestStep

\* What any request does to the table, as the others see it.
LEMMA TableFrame ==
  ASSUME IndInv, NEW r \in Requests, RequestStep(r)
  PROVE  /\ rows' \in [Universities -> Row] /\ ideal' \in [Universities -> Row]
         /\ stale' \in [Requests -> SUBSET Fields]
         /\ created \subseteq created' /\ created' \subseteq Universities
         /\ \A u \in Universities :
              /\ rows'[u] # NoRow => u \in created' /\ \A f \in Required : rows'[u][f] # None
              /\ u \in created /\ rows[u] = NoRow => rows'[u] = NoRow
         /\ \A s \in Requests :
              /\ pc[s] # "write" => stale'[s] = stale[s]
              /\ stale[s] \subseteq stale'[s]
              /\ s # r /\ pc[s] = "write" =>
                   \A f \in Fields :
                     rows'[req[s].id][f] = rows[req[s].id][f] \/ f \in stale'[s]
<1> USE DEF IndInv
<1>0. /\ rows \in [Universities -> Row] /\ ideal \in [Universities -> Row]
      /\ stale \in [Requests -> SUBSET Fields] /\ created \subseteq Universities
      /\ \A u \in Universities : rows[u] # NoRow => /\ u \in created
                                                    /\ \A f \in Required : rows[u][f] # None
      /\ \A s \in Requests : pc[s] = "write" => req[s].id \in Universities
      /\ local \in [Requests -> Row]
  BY DEF TypeOK, CreatedInv, CallInv, Present
<1>1. CASE UNCHANGED <<rows, history>>
  BY <1>0, <1>1 DEF history
<1>2. CASE ~UNCHANGED <<rows, history>>
  <2>1. Create(r) \/ Update(r) \/ Delete(r)
    BY <1>2, StepFrame
  <2>2. PICK u \in Universities, new \in Row :
           /\ Change(r, u, new)
           /\ new = NoRow \/ \A f \in Required : new[f] # None
           /\ new # NoRow => u \in created'
           /\ u \in created /\ rows[u] = NoRow => new = NoRow
           /\ created \subseteq created' /\ created' \subseteq Universities
           /\ \/ ideal' = [ideal EXCEPT ![u] = new]
              \/ /\ pc[r] = "write" /\ new = local[r] /\ u = req[r].id
                 /\ ideal' = [ideal EXCEPT ![u] = Intended(r, ideal[u])]
    BY <1>2, <2>1, RowWritten
  <2>3. Intended(r, ideal[u]) \in Row
    BY <1>0, MergedRow
  <2>4. ideal' \in [Universities -> Row]
    BY <1>0, <2>2, <2>3
  <2> QED
    BY <1>0, <2>2, <2>4, Changed
<1> QED
  BY <1>1, <1>2
-----------------------------------------------------------------------------
(* Preservation. *)

LEMMA TypeStep ==
  ASSUME IndInv, NEW r \in Requests, RequestStep(r)
  PROVE  TypeOK'
<1> USE DEF IndInv
<1>1. /\ pc \in [Requests -> Points] /\ reply \in [Requests -> Replies]
      /\ req \in [Requests -> Request] /\ local \in [Requests -> Row]
      /\ ctx \in [Requests -> Contexts] /\ rows \in [Universities -> Row]
  BY DEF TypeOK
<1>2. pc' \in [Requests -> Points] /\ reply' \in [Requests -> Replies]
      /\ ctx' \in [Requests -> Contexts]
  <2> USE DEF Goto, Return, Points, Replies
  <2>1. CASE Reject(r) \/ Receive(r) \/ FindAll(r) \/ QueryFails(r)
    BY <1>1, <2>1 DEF Reject, Receive, FindAll, QueryFails
  <2>2. CASE Create(r) \/ Update(r) \/ Delete(r)
    BY <1>1, <2>2 DEF Create, Update, Delete
  <2>3. CASE Find(r)
    BY <1>1, <2>3 DEF Find
  <2>4. CASE Disconnect(r)
    BY <1>1, <2>4 DEF Disconnect, Contexts
  <2> QED
    BY <2>1, <2>2, <2>3, <2>4 DEF RequestStep
<1>3. req' \in [Requests -> Request]
  <2>1. CASE Receive(r)
    BY <1>1, <2>1 DEF Receive, Request, Ops, Fields, NoRequest
  <2>2. CASE Create(r)
    <3>1. PICK u \in Universities : req' = [req EXCEPT ![r].id = u]
      BY <2>2 DEF Create
    <3> QED
      BY <1>1, <3>1 DEF Request
  <2>3. CASE req' = req
    BY <1>1, <2>3
  <2> QED
    BY <2>1, <2>2, <2>3
    DEF RequestStep, Reject, Find, FindAll, QueryFails, Update, Delete, Disconnect
<1>4. local' \in [Requests -> Row]
  <2>1. CASE Find(r)
    <3>1. req[r].id \in Universities
      BY <2>1 DEF Find, CallInv
    <3>2. Merged(r, rows[req[r].id]) \in Row
      BY <1>1, <3>1, MergedRow
    <3> QED
      BY <1>1, <2>1, <3>2 DEF Find
  <2>2. CASE local' = local
    BY <1>1, <2>2
  <2> QED
    BY <2>1, <2>2
    DEF RequestStep, Reject, Receive, Create, FindAll, QueryFails, Update, Delete, Disconnect
<1> QED
  BY <1>2, <1>3, <1>4, TableFrame DEF TypeOK

LEMMA CallStep ==
  ASSUME IndInv, NEW r \in Requests, RequestStep(r)
  PROVE  CallInv'
<1> USE DEF IndInv
<1> DEFINE P(s) ==
      /\ pc[s] = "insert" => Required \subseteq req[s].fields
      /\ pc[s] \in {"find", "write", "remove"} => req[s].id \in Universities
      /\ pc[s] = "write" =>
           /\ req[s].op = "update"
           /\ \A f \in Required : local[s][f] # None
           /\ \A f \in Fields : IF f \in req[s].fields THEN local[s][f] = s
                                ELSE f \in stale[s] \/ local[s][f] = rows[req[s].id][f]
      /\ reply[s] # "none" => pc[s] = "done"
<1>1. \A s \in Requests : P(s)
  BY DEF CallInv
<1>2. ASSUME NEW s \in Requests \ {r} PROVE P(s)'
  <2>1. pc'[s] = pc[s] /\ req'[s] = req[s] /\ local'[s] = local[s] /\ reply'[s] = reply[s]
    BY StepFrame
  <2>2. pc[s] = "write" => /\ stale[s] \subseteq stale'[s]
                           /\ \A f \in Fields :
                                rows'[req[s].id][f] = rows[req[s].id][f] \/ f \in stale'[s]
    BY TableFrame
  <2> QED
    BY <1>1, <2>1, <2>2
<1>3. /\ pc \in [Requests -> Points] /\ reply \in [Requests -> Replies]
      /\ req \in [Requests -> Request] /\ local \in [Requests -> Row]
      /\ rows \in [Universities -> Row]
      /\ \A u \in Universities, f \in Required : rows[u] # NoRow => rows[u][f] # None
  BY DEF TypeOK
<1>4. P(r)'
  <2> USE DEF Goto, Return
  <2>1. CASE Reject(r) \/ FindAll(r) \/ QueryFails(r)
    BY <1>3, <2>1 DEF Reject, FindAll, QueryFails
  <2>2. CASE Create(r) \/ Update(r) \/ Delete(r)
    <3>1. pc'[r] = "done"
      BY <1>3, <2>2 DEF Create, Update, Delete
    <3> QED
      BY <3>1
  <2>3. CASE Receive(r)
    BY <1>1, <1>3, <2>3 DEF Receive, NoRequest
  <2>4. CASE Find(r)
    <3> DEFINE u == req[r].id
    <3>1. u \in Universities /\ reply[r] = "none" /\ req' = req /\ rows' = rows
      BY <1>1, <2>4 DEF Find
    <3>2. CASE pc'[r] = "done"
      BY <3>2
    <3>3. CASE pc'[r] = "remove"
      BY <1>3, <2>4, <3>1, <3>3 DEF Find
    <3>4. CASE pc'[r] = "write"
      <4>1. Present(u) /\ req[r].op = "update" /\ local'[r] = Merged(r, rows[u]) /\ reply' = reply
        BY <1>3, <2>4, <3>4 DEF Find
      <4>2. \A f \in Fields : local'[r][f] = IF f \in req[r].fields THEN r ELSE rows[u][f]
        BY <1>3, <3>1, <4>1, MergedRow
      <4>3. \A f \in Required : local'[r][f] # None
        BY <1>3, <3>1, <4>1, <4>2, Columns DEF Present, Fields
      <4> QED
        BY <3>1, <3>4, <4>1, <4>2, <4>3
    <3> QED
      BY <1>3, <2>4, <3>2, <3>3, <3>4 DEF Find
  <2>5. CASE Disconnect(r)
    BY <1>1, <2>5 DEF Disconnect, history
  <2> QED
    BY <2>1, <2>2, <2>3, <2>4, <2>5 DEF RequestStep
<1> QED
  BY <1>2, <1>4 DEF CallInv

LEMMA DeletedStep ==
  ASSUME IndInv, NEW r \in Requests, RequestStep(r)
  PROVE  CreatedInv' /\ DeletedIsGone'
<1> USE DEF IndInv
<1>1. \A s \in Requests \ {r} : reply'[s] = reply[s] /\ req'[s] = req[s]
  BY StepFrame
<1>2. /\ pc \in [Requests -> Points] /\ reply \in [Requests -> Replies]
      /\ rows \in [Universities -> Row] /\ created \subseteq Universities
  BY DEF TypeOK
<1>3. pc[r] # "done" /\ reply[r] = "none"
  BY <1>2, StepFrame DEF CallInv
<1>4. reply'[r] = "deleted" => /\ req' = req /\ req[r].id \in Universities
                               /\ rows[req[r].id] # NoRow /\ rows'[req[r].id] = NoRow
  <2> USE DEF Goto, Return
  <2>1. CASE Delete(r)
    <3>1. req[r].id \in Universities /\ req' = req
      BY <2>1 DEF Delete, CallInv
    <3>2. ASSUME reply'[r] = "deleted"
          PROVE  rows[req[r].id] # NoRow /\ Change(r, req[r].id, NoRow)
      BY <1>2, <2>1, <3>2 DEF Delete, Present, Applied
    <3> QED
      BY <3>1, <3>2, EmptyRow, Changed
  <2>2. CASE Reject(r) \/ Receive(r) \/ FindAll(r) \/ QueryFails(r)
    BY <1>2, <1>3, <2>2 DEF Reject, Receive, FindAll, QueryFails
  <2>3. CASE Create(r) \/ Update(r)
    BY <1>2, <1>3, <2>3 DEF Create, Update
  <2>4. CASE Find(r)
    BY <1>2, <1>3, <2>4 DEF Find
  <2>5. CASE Disconnect(r)
    BY <1>2, <1>3, <2>5 DEF Disconnect
  <2> QED
    BY <2>1, <2>2, <2>3, <2>4, <2>5 DEF RequestStep
<1>5. CreatedInv'
  <2>1. \A u \in Universities : rows'[u] # NoRow => u \in created'
    BY TableFrame
  <2>2. ASSUME NEW s \in Requests, reply'[s] = "deleted" PROVE req'[s].id \in created'
    <3>1. created \subseteq created'
      BY TableFrame
    <3>2. CASE s = r
      BY <1>4, <2>2, <3>1, <3>2 DEF CreatedInv, Present
    <3>3. CASE s # r
      BY <1>1, <2>2, <3>1, <3>3 DEF CreatedInv
    <3> QED
      BY <3>2, <3>3
  <2> QED
    BY <2>1, <2>2 DEF CreatedInv, Present
<1>6. DeletedIsGone'
  <2>1. ASSUME NEW s \in Requests \ {r}, reply[s] = "deleted"
        PROVE  /\ req[s].id \in created /\ rows[req[s].id] = NoRow
               /\ rows'[req[s].id] = NoRow
               /\ \A z \in Requests : reply[z] = "deleted" /\ req[z].id = req[s].id => z = s
    <3>1. req[s].id \in created /\ rows[req[s].id] = NoRow
      BY <2>1 DEF CreatedInv, DeletedIsGone
    <3>2. req[s].id \in Universities
      BY <1>2, <3>1
    <3> QED
      BY <2>1, <3>1, <3>2, TableFrame DEF DeletedIsGone
  <2>2. ASSUME NEW s \in Requests, reply'[s] = "deleted"
        PROVE  rows'[req'[s].id] = NoRow
    BY <1>1, <1>4, <2>1, <2>2
  <2>3. ASSUME NEW s \in Requests, NEW z \in Requests,
               reply'[s] = "deleted", reply'[z] = "deleted", req'[s].id = req'[z].id
        PROVE  s = z
    BY <1>1, <1>4, <2>1, <2>3
  <2> QED
    BY <2>2, <2>3 DEF DeletedIsGone
<1> QED
  BY <1>5, <1>6

\* A cause stays one: a request that is done changes no more.
LEMMA LossStep ==
  ASSUME IndInv, NEW r \in Requests, RequestStep(r)
  PROVE  LossHasCause'
<1> USE DEF IndInv
<1> DEFINE Cause(u, f, s) ==
      /\ req[s].op = "update" /\ req[s].id = u
      /\ f \in stale[s] /\ f \notin req[s].fields
      /\ pc[s] = "done" /\ reply[s] \in {"ok", "internal"}
<1>1. ASSUME NEW u \in Universities, NEW f \in Fields, NEW s \in Requests, Cause(u, f, s)
      PROVE  Cause(u, f, s)'
  <2>1. s # r
    BY <1>1, StepFrame
  <2> QED
    BY <1>1, <2>1, StepFrame, TableFrame
<1>2. ASSUME NEW u \in Universities, NEW f \in Fields,
             rows'[u][f] # ideal'[u][f], rows[u][f] # ideal[u][f]
      PROVE  \E s \in Requests : Cause(u, f, s)'
  <2>1. PICK s \in Requests : Cause(u, f, s)
    BY <1>2 DEF LossHasCause
  <2> QED
    BY <1>1, <2>1
<1>3. ASSUME NEW u \in Universities, NEW f \in Fields,
             rows'[u][f] # ideal'[u][f], rows[u][f] = ideal[u][f]
      PROVE  \E s \in Requests : Cause(u, f, s)'
  <2>0. rows \in [Universities -> Row] /\ ideal \in [Universities -> Row]
        /\ pc \in [Requests -> Points] /\ reply \in [Requests -> Replies]
    BY DEF TypeOK
  <2>1. ~UNCHANGED <<rows, history>>
    BY <1>3 DEF history
  <2>2. Create(r) \/ Update(r) \/ Delete(r)
    BY <2>1, StepFrame
  <2>3. PICK v \in Universities, new \in Row :
           /\ Change(r, v, new)
           /\ \/ ideal' = [ideal EXCEPT ![v] = new]
              \/ /\ pc[r] = "write" /\ new = local[r] /\ v = req[r].id
                 /\ ideal' = [ideal EXCEPT ![v] = Intended(r, ideal[v])]
    BY <2>1, <2>2, RowWritten
  <2>4. u = v
    BY <1>3, <2>0, <2>3, Changed
  <2>5. rows'[u] = new /\ stale'[r] = stale[r]
    BY <2>3, <2>4, Changed
  <2>6. /\ pc[r] = "write" /\ new = local[r] /\ u = req[r].id
        /\ ideal'[u] = Intended(r, ideal[u])
    BY <1>3, <2>0, <2>3, <2>4, <2>5
  <2>7. ideal'[u][f] = IF f \in req[r].fields THEN r ELSE ideal[u][f]
    BY <2>0, <2>6, MergedRow
  <2>8. f \notin req[r].fields /\ f \in stale[r] /\ req[r].op = "update"
    BY <1>3, <2>5, <2>6, <2>7 DEF CallInv
  <2>9. Update(r) /\ req' = req
    BY <2>2, <2>6 DEF Create, Update, Delete
  <2>10. pc'[r] = "done" /\ reply'[r] \in {"ok", "internal"}
    BY <2>0, <2>1, <2>9 DEF Update, Return, Goto, Applied, history
  <2>11. Cause(u, f, r)'
    BY <2>5, <2>6, <2>8, <2>9, <2>10
  <2> QED
    BY <2>11
<1> QED
  BY <1>2, <1>3 DEF LossHasCause

LEMMA EnvironmentStep ==
  ASSUME IndInv, Crash \/ UNCHANGED vars
  PROVE  IndInv'
<1> USE DEF IndInv
<1>1. /\ rows' = rows /\ req' = req /\ local' = local /\ created' = created
      /\ ideal' = ideal /\ stale' = stale /\ ctx' = ctx
      /\ pc' \in [Requests -> Points] /\ reply' \in [Requests -> Replies]
  BY DEF Crash, vars, handler, history, TypeOK, Points, Replies
<1>2. \A s \in Requests :
        /\ pc'[s] # pc[s] \/ reply'[s] # reply[s] => pc'[s] = "done" /\ reply'[s] = "killed"
        /\ pc[s] \in {"idle", "done"} => pc'[s] = pc[s] /\ reply'[s] = reply[s]
  BY DEF Crash, vars, handler, history, InFlight, TypeOK
<1>3. TypeOK'
  BY <1>1 DEF TypeOK
<1>4. CallInv'
  BY <1>1, <1>2 DEF CallInv
<1>5. CreatedInv' /\ DeletedIsGone'
  BY <1>1, <1>2 DEF CreatedInv, DeletedIsGone, Present
<1>6. LossHasCause'
  BY <1>1, <1>2 DEF LossHasCause
<1> QED
  BY <1>3, <1>4, <1>5, <1>6

LEMMA IndInit == Init => IndInv
<1> SUFFICES ASSUME Init PROVE IndInv
  OBVIOUS
<1>1. TypeOK
  BY EmptyRow DEF Init, TypeOK, Points, Replies, Request, NoRequest, Contexts
<1>2. CallInv /\ CreatedInv /\ DeletedIsGone
  BY DEF Init, CallInv, CreatedInv, DeletedIsGone, Present
<1>3. LossHasCause
  BY DEF Init, LossHasCause
<1> QED
  BY <1>1, <1>2, <1>3 DEF IndInv

LEMMA IndInvariant == Spec => []IndInv
<1>1. IndInv /\ [Next]_vars => IndInv'
  BY TypeStep, CallStep, DeletedStep, LossStep, EnvironmentStep DEF Next, RequestStep, IndInv
<1> QED
  BY <1>1, IndInit, PTL DEF Spec
-----------------------------------------------------------------------------
(* Theorems. *)

\* The table keeps its types, and every stored row fills the required columns.
THEOREM TypeCorrect == Spec => []TypeOK
<1>1. IndInv => TypeOK
  BY DEF IndInv
<1> QED
  BY <1>1, IndInvariant, PTL

\* A university whose deletion was confirmed never comes back, and is deleted once.
THEOREM DeletionsAreFinal == Spec => []DeletedIsGone
<1>1. IndInv => DeletedIsGone
  BY DEF IndInv
<1> QED
  BY <1>1, IndInvariant, PTL

\* A value sent for a field is lost only to a stale patch that did not name it.
THEOREM LossesHaveCauses == Spec => []LossHasCause
<1>1. IndInv => LossHasCause
  BY DEF IndInv
<1> QED
  BY <1>1, IndInvariant, PTL
=============================================================================
