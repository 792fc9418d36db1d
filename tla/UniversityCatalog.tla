------------------------- MODULE UniversityCatalog -------------------------
(***************************************************************************)
(* The university catalog: create, read, patch and delete rows of table    *)
(* universities, open to every client.  A patch is a query, a merge of the *)
(* fields the request names into the row it returned, and an update of the *)
(* whole row; a delete is a query and a delete.  Nothing ties the two      *)
(* statements together, so requests about one university overlap freely.   *)
(* A field's value is the request that sent it: what matters of a value is *)
(* whose it is.  Reads are single statements and change nothing.           *)
(***************************************************************************)
EXTENDS DatabaseCalls

CONSTANTS Universities,   \* identifiers, fresh for each creation
          Requests,       \* executions of the handlers
          Required,       \* the columns a creation must fill
          Optional,       \* ranking
          None            \* SQL NULL

ASSUME Columns == /\ Required # {} /\ Required \cap Optional = {}
                  /\ None \notin Requests \cup Universities

VARIABLES
  rows,      \* table universities
  pc,        \* the next call of each request
  req,       \* what each request asks: operation, identifier, fields it names
  ctx,       \* the context of its request
  local,     \* the handler's copy of the row
  reply,     \* what it answers
  created,   \* history: identifiers that have been inserted
  ideal,     \* history: the rows if every patch changed the fields it names only
  stale      \* history: fields that changed since each patch read its row

handler == <<pc, req, ctx, local, reply>>
history == <<created, ideal, stale>>
vars    == <<rows, handler, history>>
-----------------------------------------------------------------------------
Fields  == Required \cup Optional
Points  == {"idle", "insert", "find", "list", "write", "remove", "done"}
Ops     == {"create", "update", "delete", "get", "list"}
Replies == {"none", "ok", "created", "deleted", "invalid", "notfound", "internal", "killed"}
Row     == [Fields -> Requests \cup {None}]
Request == [op : Ops \cup {None}, id : Universities \cup {None}, fields : SUBSET Fields]

NoRow     == [f \in Fields |-> None]
NoRequest == [op |-> None, id |-> None, fields |-> {}]

\* A stored row fills its required columns.
TypeOK ==
  /\ rows \in [Universities -> Row]
  /\ \A u \in Universities, f \in Required : rows[u] # NoRow => rows[u][f] # None
  /\ pc \in [Requests -> Points]
  /\ req \in [Requests -> Request]
  /\ ctx \in [Requests -> Contexts]
  /\ local \in [Requests -> Row]
  /\ reply \in [Requests -> Replies]
  /\ created \subseteq Universities
  /\ ideal \in [Universities -> Row]
  /\ stale \in [Requests -> SUBSET Fields]

Init ==
  /\ rows = [u \in Universities |-> NoRow]
  /\ pc = [r \in Requests |-> "idle"]
  /\ req = [r \in Requests |-> NoRequest]
  /\ ctx = [r \in Requests |-> "live"]
  /\ local = [r \in Requests |-> NoRow]
  /\ reply = [r \in Requests |-> "none"]
  /\ created = {}
  /\ ideal = [u \in Universities |-> NoRow]
  /\ stale = [r \in Requests |-> {}]

InFlight(r)  == pc[r] \notin {"idle", "done"}
Goto(r, p)   == pc' = [pc EXCEPT ![r] = p]
Return(r, a) == Goto(r, "done") /\ reply' = [reply EXCEPT ![r] = a]
Present(u)   == rows[u] # NoRow

\* The row of u becomes new by r: every other patch of u that has read it holds a
\* stale copy of the fields that change.
Change(r, u, new) ==
  /\ rows' = [rows EXCEPT ![u] = new]
  /\ stale' = [s \in Requests |->
                 IF s # r /\ pc[s] = "write" /\ req[s].id = u
                 THEN stale[s] \cup {f \in Fields : rows[u][f] # new[f]} ELSE stale[s]]
-----------------------------------------------------------------------------
\* The body or the identifier does not parse, or a creation leaves out a field.
Reject(r) ==
  /\ pc[r] = "idle"
  /\ Return(r, "invalid")
  /\ UNCHANGED <<rows, req, ctx, local, history>>

\* A creation has an identifier minted when it comes to be inserted.
Receive(r) ==
  /\ pc[r] = "idle"
  /\ \/ \E S \in SUBSET Optional :
          /\ req' = [req EXCEPT ![r] = [op |-> "create", id |-> None, fields |-> Required \cup S]]
          /\ Goto(r, "insert")
     \/ \E u \in Universities, S \in SUBSET Fields :
          /\ req' = [req EXCEPT ![r] = [op |-> "update", id |-> u, fields |-> S]]
          /\ Goto(r, "find")
     \/ \E u \in Universities, op \in {"delete", "get"} :
          /\ req' = [req EXCEPT ![r] = [op |-> op, id |-> u, fields |-> {}]]
          /\ Goto(r, "find")
     \/ /\ req' = [req EXCEPT ![r] = [NoRequest EXCEPT !.op = "list"]]
        /\ Goto(r, "list")
  /\ UNCHANGED <<rows, ctx, local, reply, history>>

\* History: what the client means by its request.
Intended(r, row) == [f \in Fields |-> IF f \in req[r].fields THEN r ELSE row[f]]

\* Mutant: a field the request leaves blank overwrites the row's.
Merged_BlankOverwrites(r, row) == [f \in Fields |-> IF f \in req[r].fields THEN r ELSE None]

\* The fields a request names replace the row's; the others stay.
Merged(r, row) == [f \in Fields |-> IF f \in req[r].fields THEN r ELSE row[f]]

Create(r) ==
  /\ pc[r] = "insert"
  /\ \E u \in Universities \ created, o \in Outcomes(ctx[r]) :
       /\ req' = [req EXCEPT ![r].id = u]
       /\ IF Applied(o)
          THEN /\ Change(r, u, Merged(r, NoRow))
               /\ created' = created \cup {u}
               /\ ideal' = [ideal EXCEPT ![u] = Intended(r, NoRow)]
          ELSE UNCHANGED <<rows, history>>
       /\ Return(r, IF o = "ok" THEN "created" ELSE "internal")
  /\ UNCHANGED <<ctx, local>>

\* FindByID, for a read, a patch or a delete.
Find(r) ==
  /\ pc[r] = "find" /\ ctx[r] = "live"
  /\ LET u == req[r].id
     IN \/ /\ ~Present(u)
           /\ Return(r, "notfound")
           /\ UNCHANGED local
        \/ /\ Present(u) /\ req[r].op = "get"
           /\ Return(r, "ok")
           /\ UNCHANGED local
        \/ /\ Present(u) /\ req[r].op = "update"
           /\ local' = [local EXCEPT ![r] = Merged(r, rows[u])]
           /\ Goto(r, "write")
           /\ UNCHANGED reply
        \/ /\ Present(u) /\ req[r].op = "delete"
           /\ Goto(r, "remove")
           /\ UNCHANGED <<local, reply>>
  /\ UNCHANGED <<rows, req, ctx, history>>

FindAll(r) ==
  /\ pc[r] = "list" /\ ctx[r] = "live"
  /\ Return(r, "ok")
  /\ UNCHANGED <<rows, req, ctx, local, history>>

\* A query of the handler fails.
QueryFails(r) ==
  /\ pc[r] \in {"find", "list"}
  /\ Return(r, "internal")
  /\ UNCHANGED <<rows, req, ctx, local, history>>

\* Mutant: a patch of a row that is gone inserts it again.
Update_Upserts(r) ==
  /\ pc[r] = "write"
  /\ \E o \in Outcomes(ctx[r]) :
       LET u == req[r].id
       IN /\ IF Applied(o)
             THEN Change(r, u, local[r]) /\ ideal' = [ideal EXCEPT ![u] = Intended(r, ideal[u])]
             ELSE UNCHANGED <<rows, stale, ideal>>
          /\ Return(r, IF o = "ok" THEN "ok" ELSE "internal")
  /\ UNCHANGED <<req, ctx, local, created>>

\* UPDATE ... WHERE id = $1 sets every column; no affected row is not found.
Update(r) ==
  /\ pc[r] = "write"
  /\ \E o \in Outcomes(ctx[r]) :
       LET u == req[r].id
       IN /\ IF Applied(o) /\ Present(u)
             THEN Change(r, u, local[r]) /\ ideal' = [ideal EXCEPT ![u] = Intended(r, ideal[u])]
             ELSE UNCHANGED <<rows, stale, ideal>>
          /\ Return(r, IF o # "ok" THEN "internal" ELSE IF Present(u) THEN "ok" ELSE "notfound")
  /\ UNCHANGED <<req, ctx, local, created>>

\* DELETE ... WHERE id = $1
Delete(r) ==
  /\ pc[r] = "remove"
  /\ \E o \in Outcomes(ctx[r]) :
       LET u == req[r].id
       IN /\ IF Applied(o)
             THEN Change(r, u, NoRow) /\ ideal' = [ideal EXCEPT ![u] = NoRow]
             ELSE UNCHANGED <<rows, stale, ideal>>
          /\ Return(r, IF o # "ok" THEN "internal" ELSE IF Present(u) THEN "deleted" ELSE "notfound")
  /\ UNCHANGED <<req, ctx, local, created>>
-----------------------------------------------------------------------------
Disconnect(r) ==
  /\ InFlight(r) /\ ctx[r] = "live"
  /\ ctx' = [ctx EXCEPT ![r] = "cancelled"]
  /\ UNCHANGED <<rows, pc, req, local, reply, history>>

\* A crash, or the end of the shutdown deadline.
Crash ==
  /\ \E r \in Requests : InFlight(r)
  /\ pc' = [r \in Requests |-> IF InFlight(r) THEN "done" ELSE pc[r]]
  /\ reply' = [r \in Requests |-> IF InFlight(r) THEN "killed" ELSE reply[r]]
  /\ UNCHANGED <<rows, req, ctx, local, history>>

Next == \/ \E r \in Requests :
             \/ Reject(r) \/ Receive(r) \/ Create(r) \/ Find(r) \/ FindAll(r)
             \/ QueryFails(r) \/ Update(r) \/ Delete(r) \/ Disconnect(r)
        \/ Crash

Spec == Init /\ [][Next]_vars
-----------------------------------------------------------------------------
(* Properties. *)

\* A field of a university loses the value that was last sent for it only to a
\* patch that did not name the field and whose copy of it was stale: one that
\* had read the row before another request changed it (UpdateUniversity).
LossHasCause ==
  \A u \in Universities, f \in Fields :
    rows[u][f] # ideal[u][f] =>
      \E r \in Requests : /\ req[r].op = "update" /\ req[r].id = u
                          /\ f \in stale[r] /\ f \notin req[r].fields
                          /\ pc[r] = "done" /\ reply[r] \in {"ok", "internal"}

\* A university whose deletion was answered with 204 is gone for good, though
\* patches that read it before may write after; and only one deletion of it is
\* answered so.
DeletedIsGone ==
  \A r \in Requests :
    reply[r] = "deleted" =>
      /\ rows[req[r].id] = NoRow
      /\ \A s \in Requests : reply[s] = "deleted" /\ req[s].id = req[r].id => s = r
=============================================================================
