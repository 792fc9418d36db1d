--------------------------- MODULE ServerLifecycle ---------------------------
(***************************************************************************)
(* The process: it connects to the database, serves, and on a signal stops *)
(* listening, waits a while for its handlers and leaves; and the pool of   *)
(* database connections the handlers share.  A handler is seen here as the *)
(* calls it makes, in any order: a statement or a transaction holds one    *)
(* connection until it is answered, a query with many rows until the last  *)
(* row has been read, a call of the AI service holds none.  The pool hands *)
(* a connection that is given back to any one of the waiting handlers.     *)
(* Whatever the server does, the database may stop answering for good.     *)
(***************************************************************************)
EXTENDS Naturals, FiniteSets, DatabaseCalls

CONSTANTS Handlers,   \* connections of clients, each with one request
          MaxOpen,    \* SetMaxOpenConns
          MaxCalls    \* bound: calls a handler makes

ASSUME PoolBounds == /\ IsFiniteSet(Handlers)
                     /\ MaxOpen \in Nat \ {0} /\ MaxCalls \in Nat

VARIABLES
  main,       \* what main is doing
  listener,   \* the listening socket
  db,         \* the connection pool: not open yet, open, closed
  signalled,  \* whether a signal waits in the channel quit
  exit,       \* how the process ended
  hung,       \* the database answers no more
  pc,         \* what each handler is doing
  todo,       \* the calls it may still make
  held,       \* the connections it holds
  ctx,        \* the context of its request, which ends with the handler
  killed      \* handlers that ended with the process and not with an answer

process == <<main, listener, db, signalled, exit, hung>>
handler == <<pc, todo, held, ctx, killed>>
vars    == <<process, handler>>
-----------------------------------------------------------------------------
Points == {"idle", "accepted", "running", "waiting", "querying", "reading", "asking", "done"}

TypeOK ==
  /\ main \in {"connecting", "serving", "draining", "leaving", "exited"}
  /\ listener \in {"none", "open", "closed"}
  /\ db \in {"none", "open", "closed"}
  /\ signalled \in BOOLEAN
  /\ exit \in {"none", "clean", "fatal", "killed"}
  /\ hung \in BOOLEAN
  /\ pc \in [Handlers -> Points]
  /\ todo \in [Handlers -> 0..MaxCalls]
  /\ held \in [Handlers -> {0, 1}]
  /\ Cardinality({h \in Handlers : held[h] = 1}) <= MaxOpen
  /\ ctx \in [Handlers -> Contexts]
  /\ killed \subseteq Handlers

Init ==
  /\ main = "connecting" /\ listener = "none" /\ db = "none"
  /\ signalled = FALSE /\ exit = "none" /\ hung = FALSE
  /\ pc = [h \in Handlers |-> "idle"]
  /\ todo = [h \in Handlers |-> MaxCalls]
  /\ held = [h \in Handlers |-> 0]
  /\ ctx = [h \in Handlers |-> "live"]
  /\ killed = {}

Busy(h)    == pc[h] \notin {"idle", "done"}
Waiting    == {h \in Handlers : pc[h] = "waiting"}
InUse      == {h \in Handlers : held[h] = 1}
Goto(h, p) == pc' = [pc EXCEPT ![h] = p]

\* Mutant: the limit is tested before the new connection is counted.
HasFree_OneMore == Cardinality(InUse) <= MaxOpen

\* A connection may be opened.
HasFree == Cardinality(InUse) < MaxOpen

\* What ends with a handler, besides its place in the program.
Finish(h) == /\ todo' = [todo EXCEPT ![h] = 0]
             /\ ctx' = [ctx EXCEPT ![h] = "cancelled"]

\* The process ends: its handlers are gone, and with them their connections.
Exit(how) ==
  /\ main' = "exited" /\ exit' = how
  /\ killed' = {h \in Handlers : Busy(h)}
  /\ pc' = [h \in Handlers |-> "done"]
  /\ todo' = [h \in Handlers |-> 0]
  /\ held' = [h \in Handlers |-> 0]
  /\ ctx' = [h \in Handlers |-> "cancelled"]
-----------------------------------------------------------------------------
(* The pool. *)

\* A connection comes back: it goes to a waiting handler, or is free.  The
\* handler that gives it back goes on at p.
Release(h, p) ==
  \/ /\ Waiting = {}
     /\ held' = [held EXCEPT ![h] = 0]
     /\ Goto(h, p)
  \/ \E w \in Waiting : /\ held' = [held EXCEPT ![h] = 0, ![w] = 1]
                        /\ pc' = [pc EXCEPT ![h] = p, ![w] = "querying"]

\* A handler needs a connection: it has one, waits for one, or is refused, as
\* when its context is cancelled or no connection can be opened.
Ask(h) ==
  /\ pc[h] = "running" /\ todo[h] > 0
  /\ \/ /\ ctx[h] = "live"
        /\ IF HasFree THEN Goto(h, "querying") /\ held' = [held EXCEPT ![h] = 1]
                      ELSE Goto(h, "waiting") /\ UNCHANGED held
        /\ todo' = [todo EXCEPT ![h] = @ - 1]
        /\ UNCHANGED ctx
     \/ /\ Goto(h, "done") /\ Finish(h)
        /\ UNCHANGED held
  /\ UNCHANGED <<process, killed>>

\* The context of a waiting handler ends.
StopWaiting(h) ==
  /\ pc[h] = "waiting" /\ ctx[h] = "cancelled"
  /\ Goto(h, "done") /\ Finish(h)
  /\ UNCHANGED <<process, held, killed>>
-----------------------------------------------------------------------------
(* Handlers. *)

Accept(h) ==
  /\ pc[h] = "idle" /\ listener = "open"
  /\ Goto(h, "accepted")
  /\ UNCHANGED <<process, todo, held, ctx, killed>>

\* A connection accepted before the shutdown may bring its request during it.
Receive(h) ==
  /\ pc[h] = "accepted"
  /\ Goto(h, "running")
  /\ UNCHANGED <<process, todo, held, ctx, killed>>

HangUp(h) ==
  /\ pc[h] = "accepted"
  /\ Goto(h, "done") /\ Finish(h)
  /\ UNCHANGED <<process, held, killed>>

\* The database answers: a statement or a transaction is over, rows are to come.
DatabaseAnswers(h) ==
  /\ pc[h] = "querying" /\ ~hung
  /\ \/ Release(h, "running")
     \/ Goto(h, "reading") /\ UNCHANGED held
  /\ UNCHANGED <<process, todo, ctx, killed>>

\* The call or the reading of its rows fails, at the latest when the context is
\* cancelled; the handler answers.
CallFails(h) ==
  /\ pc[h] \in {"querying", "reading"}
  /\ ~hung \/ ctx[h] = "cancelled"
  /\ Release(h, "done") /\ Finish(h)
  /\ UNCHANGED <<process, killed>>

\* Mutant: rows that were read to the end keep their connection.
RowsEnd_KeepsConnection(h) ==
  /\ pc[h] = "reading" /\ ~hung
  /\ Goto(h, "running")
  /\ UNCHANGED <<process, todo, held, ctx, killed>>

\* rows.Next finds no further row and gives the connection back, before the
\* deferred Close and before the handler's next call (findDreamTrackerFundings
\* looks for the selected funding then).
RowsEnd(h) ==
  /\ pc[h] = "reading" /\ ~hung
  /\ Release(h, "running")
  /\ UNCHANGED <<process, todo, ctx, killed>>

CallAI(h) ==
  /\ pc[h] = "running" /\ todo[h] > 0
  /\ todo' = [todo EXCEPT ![h] = @ - 1]
  /\ Goto(h, "asking")
  /\ UNCHANGED <<process, held, ctx, killed>>

\* An answer, an error or the timeout of the client.
AIReturns(h) ==
  /\ pc[h] = "asking"
  /\ Goto(h, "running")
  /\ UNCHANGED <<process, todo, held, ctx, killed>>

Return(h) ==
  /\ pc[h] = "running"
  /\ Goto(h, "done") /\ Finish(h)
  /\ UNCHANGED <<process, held, killed>>

Disconnect(h) ==
  /\ pc[h] \in Points \ {"idle", "accepted", "done"} /\ ctx[h] = "live"
  /\ ctx' = [ctx EXCEPT ![h] = "cancelled"]
  /\ UNCHANGED <<process, pc, todo, held, killed>>

HandlerStep(h) ==
  \/ Ask(h) \/ StopWaiting(h) \/ DatabaseAnswers(h) \/ CallFails(h)
  \/ RowsEnd(h) \/ CallAI(h) \/ AIReturns(h) \/ Return(h)
-----------------------------------------------------------------------------
(* main. *)

\* NewConnection: the ping succeeds, or there is no pool, or it is closed after
\* the ping, and main gives up.
Connect ==
  /\ main = "connecting"
  /\ \/ /\ db' = "open" /\ main' = "serving"
        /\ UNCHANGED <<exit, handler>>
     \/ /\ db' \in {"none", "closed"}
        /\ Exit("fatal")
  /\ UNCHANGED <<listener, signalled, hung>>

\* The goroutine of ListenAndServe.
Listen ==
  /\ main = "serving" /\ listener = "none"
  /\ listener' = "open"
  /\ UNCHANGED <<main, db, signalled, exit, hung, handler>>

\* Listening or accepting fails: log.Fatalf.
ListenFails ==
  /\ main = "serving"
  /\ Exit("fatal")
  /\ UNCHANGED <<listener, db, signalled, hung>>

\* A signal is caught from signal.Notify on and is fatal before.
Signal ==
  /\ \/ /\ main = "connecting"
        /\ Exit("killed")
        /\ UNCHANGED signalled
     \/ /\ main = "serving" /\ ~signalled
        /\ signalled' = TRUE
        /\ UNCHANGED <<main, exit, handler>>
  /\ UNCHANGED <<listener, db, hung>>

\* Shutdown closes the listener; one that was not open yet never opens.
StartShutdown ==
  /\ main = "serving" /\ signalled
  /\ main' = "draining" /\ listener' = "closed"
  /\ UNCHANGED <<db, signalled, exit, hung, handler>>

\* Mutant: main does not wait for its handlers.
Drained_NoWait ==
  /\ main = "draining"
  /\ main' = "leaving"
  /\ UNCHANGED <<listener, db, signalled, exit, hung, handler>>

\* Shutdown returns nil: no connection is active, and none is new.
Drained ==
  /\ main = "draining"
  /\ \A h \in Handlers : ~Busy(h)
  /\ main' = "leaving"
  /\ UNCHANGED <<listener, db, signalled, exit, hung, handler>>

\* The deadline of Shutdown: log.Fatalf skips the deferred db.Close.
DeadlineExpires ==
  /\ main = "draining"
  /\ Exit("fatal")
  /\ UNCHANGED <<listener, db, signalled, hung>>

\* The deferred db.Close, and main returns.
Leave ==
  /\ main = "leaving"
  /\ \/ db = "open" /\ db' = "closed" /\ UNCHANGED <<main, exit, handler>>
     \/ db = "closed" /\ UNCHANGED db /\ Exit("clean")
  /\ UNCHANGED <<listener, signalled, hung>>

\* The process is killed.
Crash ==
  /\ main # "exited"
  /\ Exit("killed")
  /\ UNCHANGED <<listener, db, signalled, hung>>

\* The network or the database stalls and does not come back.
DatabaseHangs ==
  /\ ~hung /\ db = "open" /\ main # "exited"
  /\ hung' = TRUE
  /\ UNCHANGED <<main, listener, db, signalled, exit, handler>>

\* Mutant: Shutdown is given a context without a deadline.
MainStep_NoDeadline == StartShutdown \/ Drained \/ Leave

MainStep == StartShutdown \/ Drained \/ DeadlineExpires \/ Leave

Next == \/ \E h \in Handlers :
             HandlerStep(h) \/ Accept(h) \/ Receive(h) \/ HangUp(h) \/ Disconnect(h)
        \/ MainStep \/ Connect \/ Listen \/ ListenFails \/ Signal \/ Crash \/ DatabaseHangs

Spec == Init /\ [][Next]_vars

\* Handlers are goroutines, and their own steps, the AI client's timeout and the
\* answers of a database that answers all come; so do main's steps after a signal
\* and the deadline of Shutdown.  Clients, signals and failures promise nothing.
FairSpec == Spec /\ WF_vars(MainStep) /\ \A h \in Handlers : WF_vars(HandlerStep(h))
-----------------------------------------------------------------------------
(* Properties. *)

\* The pool is closed only when no handler is left to use it, and a clean exit
\* has killed none: main's deferred db.Close comes after Shutdown has drained.
DatabaseOutlivesHandlers ==
  /\ db = "closed" => \A h \in Handlers : ~Busy(h)
  /\ exit = "clean" => killed = {}

\* A handler that waits for a connection gets one, gives up with its client or
\* ends with the process, unless the database has stopped answering: no handler
\* holds a connection while it waits for another or for the AI service.
Served == \A h \in Handlers : pc[h] = "waiting" ~> pc[h] # "waiting" \/ hung

\* A signal that main has caught ends the process, whatever its handlers and the
\* database do.
Stops == signalled ~> main = "exited"
=============================================================================
