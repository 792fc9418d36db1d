------------------------ MODULE ServerLifecycleProofs ------------------------
(***************************************************************************)
(* Safety of ServerLifecycle for any handlers, pool and number of calls.   *)
(***************************************************************************)
EXTENDS ServerLifecycle, FiniteSetTheorems, TLAPS

-----------------------------------------------------------------------------
(* The inductive invariant. *)

\* A handler holds a connection while it queries or reads, and at no other time:
\* so never while it waits for one or asks the AI service.
HoldInv == \A h \in Handlers : held[h] = 1 <=> pc[h] \in {"querying", "reading"}

\* Handlers run only while main serves or drains; nothing is accepted after.
MainInv ==
  /\ main = "connecting" => listener = "none" /\ db = "none"
                            /\ \A h \in Handlers : pc[h] = "idle"
  /\ main \in {"draining", "leaving"} => listener = "closed"
  /\ main \in {"leaving", "exited"} => \A h \in Handlers : ~Busy(h)
  /\ main = "exited" => \A h \in Handlers : pc[h] = "done"
  /\ db = "closed" => main \in {"leaving", "exited"}
  /\ exit = "clean" => main = "exited" /\ killed = {}

IndInv == TypeOK /\ HoldInv /\ MainInv

ClientStep(h) == Accept(h) \/ Receive(h) \/ HangUp(h) \/ Disconnect(h)

MainAction == MainStep \/ Connect \/ Listen \/ ListenFails \/ Signal \/ Crash \/ DatabaseHangs
-----------------------------------------------------------------------------
(* The pool. *)

LEMMA InUseFinite == InUse \subseteq Handlers /\ IsFiniteSet(InUse) /\ Cardinality(InUse) \in Nat
<1>1. InUse \subseteq Handlers
  BY DEF InUse
<1> QED
  BY <1>1, PoolBounds, FS_Subset, FS_CardinalityType

\* A connection given back goes to one waiting handler or to none, and no more
\* are in use than before.
LEMMA Released ==
  ASSUME TypeOK, HoldInv, NEW h \in Handlers, NEW p \in Points \ {"querying", "reading"},
         pc[h] \in {"querying", "reading"}, Release(h, p)
  PROVE  /\ held' \in [Handlers -> {0, 1}] /\ pc' \in [Handlers -> Points]
         /\ Cardinality(InUse') <= MaxOpen
         /\ HoldInv'
         /\ pc'[h] = p
         /\ \A g \in Handlers : g # h /\ pc'[g] # pc[g] => pc[g] = "waiting" /\ pc'[g] = "querying"
         /\ Waiting # {} => Cardinality(InUse') = Cardinality(InUse)
<1>1. /\ held \in [Handlers -> {0, 1}] /\ pc \in [Handlers -> Points]
      /\ Cardinality(InUse) <= MaxOpen
  BY DEF TypeOK, InUse
<1>2. h \in InUse
  BY DEF HoldInv, InUse
<1>3. CASE /\ held' = [held EXCEPT ![h] = 0] /\ Goto(h, p) /\ Waiting = {}
  <2>1. InUse' = InUse \ {h}
    BY <1>1, <1>3 DEF InUse
  <2>2. Cardinality(InUse') = Cardinality(InUse) - 1
    BY <1>2, <2>1, InUseFinite, FS_RemoveElement
  <2>3. Cardinality(InUse') <= MaxOpen
    BY <1>1, <2>2, InUseFinite, PoolBounds
  <2> QED
    BY <1>1, <1>3, <2>3 DEF Goto, HoldInv
<1>4. ASSUME NEW w \in Waiting,
             held' = [held EXCEPT ![h] = 0, ![w] = 1],
             pc' = [pc EXCEPT ![h] = p, ![w] = "querying"]
      PROVE  /\ held' \in [Handlers -> {0, 1}] /\ pc' \in [Handlers -> Points]
             /\ Cardinality(InUse') <= MaxOpen
             /\ HoldInv'
             /\ pc'[h] = p
             /\ \A g \in Handlers : g # h /\ pc'[g] # pc[g] => pc[g] = "waiting" /\ pc'[g] = "querying"
             /\ Cardinality(InUse') = Cardinality(InUse)
  <2>1. w \in Handlers /\ pc[w] = "waiting" /\ w # h /\ w \notin InUse
    BY DEF Waiting, HoldInv, InUse
  <2>2. InUse' = (InUse \ {h}) \cup {w}
    BY <1>1, <1>4, <2>1 DEF InUse
  <2>3. /\ IsFiniteSet(InUse \ {h}) /\ Cardinality(InUse \ {h}) = Cardinality(InUse) - 1
    BY <1>2, InUseFinite, FS_RemoveElement
  <2>4. Cardinality(InUse') = Cardinality(InUse \ {h}) + 1
    BY <2>1, <2>2, <2>3, FS_AddElement
  <2>5. Cardinality(InUse') <= MaxOpen /\ Cardinality(InUse') = Cardinality(InUse)
    BY <1>1, <2>3, <2>4, InUseFinite
  <2>6. held' \in [Handlers -> {0, 1}] /\ pc' \in [Handlers -> Points]
    BY <1>1, <1>4, <2>1 DEF Points
  <2>7. HoldInv'
    BY <1>1, <1>4, <2>1 DEF HoldInv
  <2> QED
    BY <1>1, <1>4, <2>1, <2>5, <2>6, <2>7
<1> QED
  BY <1>3, <1>4 DEF Release

\* A handler that goes on without a connection before and after it.
LEMMA Moved ==
  ASSUME TypeOK, HoldInv, NEW h \in Handlers, NEW p \in Points, Goto(h, p), UNCHANGED held,
         pc[h] \in {"querying", "reading"} <=> p \in {"querying", "reading"}
  PROVE  /\ pc' \in [Handlers -> Points] /\ held' \in [Handlers -> {0, 1}]
         /\ Cardinality(InUse') <= MaxOpen /\ HoldInv'
         /\ pc'[h] = p /\ \A g \in Handlers : g # h => pc'[g] = pc[g]
<1> QED
  BY DEF TypeOK, HoldInv, Goto, InUse

\* What the steps of a handler change, for the process and the pool.
LEMMA HandlerFrame ==
  ASSUME IndInv, NEW h \in Handlers, HandlerStep(h) \/ ClientStep(h)
  PROVE  /\ UNCHANGED <<process, killed>>
         /\ pc' \in [Handlers -> Points] /\ held' \in [Handlers -> {0, 1}]
         /\ Cardinality(InUse') <= MaxOpen /\ HoldInv'
         /\ todo' \in [Handlers -> 0..MaxCalls] /\ ctx' \in [Handlers -> Contexts]
         /\ \A g \in Handlers : pc'[g] = pc[g] \/ Busy(g) \/ (listener = "open" /\ pc[g] = "idle")
<1> USE DEF IndInv
<1>1. /\ todo \in [Handlers -> 0..MaxCalls] /\ ctx \in [Handlers -> Contexts]
      /\ pc \in [Handlers -> Points] /\ held \in [Handlers -> {0, 1}]
      /\ Cardinality(InUse) <= MaxOpen /\ MaxCalls \in Nat /\ MaxOpen \in Nat
  BY PoolBounds DEF TypeOK, InUse
<1>2. /\ UNCHANGED <<process, killed>>
      /\ todo' \in [Handlers -> 0..MaxCalls] /\ ctx' \in [Handlers -> Contexts]
  <2> USE DEF Finish, Contexts
  <2>1. CASE Ask(h)
    BY <1>1, <2>1 DEF Ask
  <2>2. CASE StopWaiting(h) \/ DatabaseAnswers(h) \/ CallFails(h)
    BY <1>1, <2>2 DEF StopWaiting, DatabaseAnswers, CallFails
  <2>3. CASE RowsEnd(h) \/ CallAI(h) \/ AIReturns(h) \/ Return(h)
    BY <1>1, <2>3 DEF RowsEnd, CallAI, AIReturns, Return
  <2>4. CASE ClientStep(h)
    BY <1>1, <2>4 DEF ClientStep, Accept, Receive, HangUp, Disconnect
  <2> QED
    BY <2>1, <2>2, <2>3, <2>4 DEF HandlerStep
<1>3. /\ pc' \in [Handlers -> Points] /\ held' \in [Handlers -> {0, 1}]
      /\ Cardinality(InUse') <= MaxOpen /\ HoldInv'
      /\ \A g \in Handlers : pc'[g] = pc[g] \/ Busy(g) \/ (listener = "open" /\ pc[g] = "idle")
  <2> USE DEF Points
  <2>1. CASE Ask(h) /\ Goto(h, "querying") /\ HasFree /\ held' = [held EXCEPT ![h] = 1]
    <3>1. pc[h] = "running" /\ h \notin InUse
      BY <2>1 DEF Ask, HoldInv, InUse
    <3>2. InUse' = InUse \cup {h}
      BY <1>1, <2>1 DEF InUse
    <3>3. Cardinality(InUse') = Cardinality(InUse) + 1
      BY <3>1, <3>2, InUseFinite, FS_AddElement
    <3>4. Cardinality(InUse') <= MaxOpen
      BY <1>1, <2>1, <3>3, InUseFinite DEF HasFree
    <3> QED
      BY <1>1, <2>1, <3>1, <3>4 DEF Goto, HoldInv, Busy
  <2>2. CASE \E p \in {"idle", "accepted", "running", "waiting", "asking", "done"} :
               /\ pc[h] \notin {"querying", "reading"} /\ Goto(h, p) /\ UNCHANGED held
               /\ Busy(h) \/ (listener = "open" /\ pc[h] = "idle")
    BY <2>2, Moved
  <2>3. CASE pc[h] = "querying" /\ Goto(h, "reading") /\ UNCHANGED held
    BY <2>3, Moved DEF Busy
  <2>4. CASE \E p \in {"running", "done"} : pc[h] \in {"querying", "reading"} /\ Release(h, p)
    BY <2>4, Released DEF Busy
  <2>5. CASE UNCHANGED <<pc, held>>
    BY <1>1, <2>5 DEF InUse, HoldInv
  <2>6. CASE Ask(h)
    BY <2>1, <2>2, <2>6 DEF Ask, Busy
  <2>7. CASE DatabaseAnswers(h) \/ CallFails(h) \/ RowsEnd(h)
    BY <2>3, <2>4, <2>7 DEF DatabaseAnswers, CallFails, RowsEnd
  <2>8. CASE StopWaiting(h) \/ CallAI(h) \/ AIReturns(h) \/ Return(h)
    BY <2>2, <2>8 DEF StopWaiting, CallAI, AIReturns, Return, Busy
  <2>9. CASE ClientStep(h)
    BY <2>2, <2>5, <2>9 DEF ClientStep, Accept, Receive, HangUp, Disconnect, Busy
  <2> QED
    BY <2>6, <2>7, <2>8, <2>9 DEF HandlerStep
<1> QED
  BY <1>2, <1>3

LEMMA HandlerKeeps ==
  ASSUME IndInv, NEW h \in Handlers, HandlerStep(h) \/ ClientStep(h)
  PROVE  IndInv'
<1>1. TypeOK'
  BY HandlerFrame DEF IndInv, TypeOK, process, InUse
<1>2. MainInv'
  <2>1. /\ UNCHANGED <<main, listener, db, exit, killed>>
        /\ \A g \in Handlers : pc'[g] = pc[g] \/ Busy(g) \/ (listener = "open" /\ pc[g] = "idle")
    BY HandlerFrame DEF process
  <2>2. ASSUME main \in {"connecting", "leaving", "exited"}, NEW g \in Handlers
        PROVE  pc'[g] = pc[g]
    BY <2>1, <2>2 DEF IndInv, MainInv, Busy
  <2> QED
    BY <2>1, <2>2 DEF IndInv, MainInv, Busy
<1> QED
  BY <1>1, <1>2, HandlerFrame DEF IndInv
-----------------------------------------------------------------------------
(* main. *)

\* The end of the process leaves no handler and no connection in use.
LEMMA Exited ==
  ASSUME IndInv, NEW how \in {"clean", "fatal", "killed"}, Exit(how),
         how = "clean" => main = "leaving",
         listener' = listener, signalled' \in BOOLEAN, hung' = hung,
         db' \in {"none", "open", "closed"}
  PROVE  IndInv'
<1>1. /\ main' = "exited" /\ exit' = how
      /\ killed' = {h \in Handlers : Busy(h)}
      /\ pc' = [h \in Handlers |-> "done"] /\ todo' = [h \in Handlers |-> 0]
      /\ held' = [h \in Handlers |-> 0] /\ ctx' = [h \in Handlers |-> "cancelled"]
  BY DEF Exit
<1>2. Cardinality({h \in Handlers : held'[h] = 1}) <= MaxOpen
  <2>1. {h \in Handlers : held'[h] = 1} = {}
    BY <1>1
  <2> QED
    BY <2>1, FS_EmptySet, PoolBounds
<1>3. TypeOK'
  BY <1>1, <1>2, PoolBounds DEF IndInv, TypeOK, Points, Contexts
<1>4. HoldInv' /\ MainInv'
  BY <1>1 DEF IndInv, HoldInv, MainInv, Busy
<1> QED
  BY <1>3, <1>4 DEF IndInv

\* A step of main that leaves the handlers alone.
LEMMA MainKeeps ==
  ASSUME IndInv, UNCHANGED <<handler, exit>>, main' # "exited", main # "exited",
         main' \in {"connecting", "serving", "draining", "leaving", "exited"},
         listener' \in {"none", "open", "closed"}, db' \in {"none", "open", "closed"},
         signalled' \in BOOLEAN, hung' \in BOOLEAN,
         main' = "connecting" => main = "connecting" /\ UNCHANGED <<listener, db>>,
         main' \in {"draining", "leaving"} => listener' = "closed",
         main' = "leaving" => \A h \in Handlers : ~Busy(h),
         db' = "closed" => main' = "leaving"
  PROVE  IndInv'
<1>1. TypeOK'
  BY DEF IndInv, TypeOK, handler
<1>2. HoldInv'
  BY DEF IndInv, HoldInv, handler
<1>3. MainInv'
  BY DEF IndInv, MainInv, handler, Busy
<1> QED
  BY <1>1, <1>2, <1>3 DEF IndInv

LEMMA MainStepKeeps ==
  ASSUME IndInv, MainAction
  PROVE  IndInv'
<1>1. /\ main \in {"connecting", "serving", "draining", "leaving", "exited"}
      /\ listener \in {"none", "open", "closed"} /\ db \in {"none", "open", "closed"}
      /\ signalled \in BOOLEAN /\ hung \in BOOLEAN
  BY DEF IndInv, TypeOK
<1>2. /\ main \in {"draining", "leaving"} => listener = "closed"
      /\ main = "leaving" => \A h \in Handlers : ~Busy(h)
      /\ db = "closed" => main \in {"leaving", "exited"}
  BY DEF IndInv, MainInv
<1>3. CASE StartShutdown
  BY <1>1, <1>2, <1>3, MainKeeps DEF StartShutdown
<1>4. CASE Drained
  BY <1>1, <1>2, <1>4, MainKeeps DEF Drained
<1>5. CASE DeadlineExpires \/ ListenFails \/ Crash
  BY <1>1, <1>5, Exited DEF DeadlineExpires, ListenFails, Crash
<1>6. CASE Leave
  <2>1. CASE db = "open" /\ db' = "closed" /\ UNCHANGED <<main, exit, handler>>
    BY <1>1, <1>2, <1>6, <2>1, MainKeeps DEF Leave
  <2>2. CASE UNCHANGED db /\ Exit("clean")
    BY <1>1, <1>6, <2>2, Exited DEF Leave
  <2> QED
    BY <1>6, <2>1, <2>2 DEF Leave
<1>7. CASE Connect
  <2>1. CASE db' = "open" /\ main' = "serving" /\ UNCHANGED <<exit, handler>>
    BY <1>1, <1>2, <1>7, <2>1, MainKeeps DEF Connect
  <2>2. CASE db' \in {"none", "closed"} /\ Exit("fatal")
    BY <1>1, <1>7, <2>2, Exited DEF Connect
  <2> QED
    BY <1>7, <2>1, <2>2 DEF Connect
<1>8. CASE Listen
  BY <1>1, <1>2, <1>8, MainKeeps DEF Listen
<1>9. CASE Signal
  <2>1. CASE Exit("killed") /\ UNCHANGED signalled
    BY <1>1, <1>9, <2>1, Exited DEF Signal
  <2>2. CASE main = "serving" /\ signalled' = TRUE /\ UNCHANGED <<main, exit, handler>>
    BY <1>1, <1>2, <1>9, <2>2, MainKeeps DEF Signal
  <2> QED
    BY <1>9, <2>1, <2>2 DEF Signal
<1>10. CASE DatabaseHangs
  BY <1>1, <1>2, <1>10, MainKeeps DEF DatabaseHangs
<1> QED
  BY <1>3, <1>4, <1>5, <1>6, <1>7, <1>8, <1>9, <1>10 DEF MainAction, MainStep
-----------------------------------------------------------------------------
(* Theorems. *)

LEMMA IndInit == Init => IndInv
<1> SUFFICES ASSUME Init PROVE IndInv
  OBVIOUS
<1>1. Cardinality({h \in Handlers : held[h] = 1}) <= MaxOpen
  <2>1. {h \in Handlers : held[h] = 1} = {}
    BY DEF Init
  <2> QED
    BY <2>1, FS_EmptySet, PoolBounds
<1>2. TypeOK
  <2>1. todo \in [Handlers -> 0..MaxCalls]
    BY PoolBounds DEF Init
  <2>2. /\ pc \in [Handlers -> Points] /\ held \in [Handlers -> {0, 1}]
        /\ ctx \in [Handlers -> Contexts]
    BY DEF Init, Points, Contexts
  <2> QED
    BY <1>1, <2>1, <2>2 DEF Init, TypeOK
<1>3. HoldInv /\ MainInv
  BY DEF Init, HoldInv, MainInv, Busy
<1> QED
  BY <1>2, <1>3 DEF IndInv

LEMMA IndInvariant == Spec => []IndInv
<1>1. ASSUME IndInv, UNCHANGED vars PROVE IndInv'
  BY <1>1 DEF IndInv, TypeOK, HoldInv, MainInv, vars, process, handler, Busy
<1>2. IndInv /\ [Next]_vars => IndInv'
  BY <1>1, HandlerKeeps, MainStepKeeps DEF Next, ClientStep, MainAction
<1> QED
  BY <1>2, IndInit, PTL DEF Spec

\* The process and its handlers keep their types, and no more connections are in
\* use than SetMaxOpenConns allows, whatever the handlers call and in what order.
THEOREM TypeCorrect == Spec => []TypeOK
<1>1. IndInv => TypeOK
  BY DEF IndInv
<1> QED
  BY <1>1, IndInvariant, PTL

\* The pool is closed only when no handler is left, and a clean exit killed none.
THEOREM PoolOutlivesHandlers == Spec => []DatabaseOutlivesHandlers
<1>1. IndInv => DatabaseOutlivesHandlers
  BY DEF IndInv, MainInv, DatabaseOutlivesHandlers
<1> QED
  BY <1>1, IndInvariant, PTL
-----------------------------------------------------------------------------
(* The safety half of Served: whom a waiting handler waits for, and how long *)
(* a handler goes on.                                                        *)

\* A handler waits only while every connection is held by another one, and those
\* are waiting for the database, never for a connection or for the AI service.
WaitersWaitForDatabase ==
  Waiting # {} => /\ Cardinality(InUse) = MaxOpen
                  /\ \A h \in InUse : pc[h] \in {"querying", "reading"}

BusyInv == Waiting # {} => Cardinality(InUse) = MaxOpen

\* No connection is free while a handler waits: Release passes it on.
LEMMA BusyStep ==
  ASSUME IndInv, BusyInv, NEW h \in Handlers, HandlerStep(h) \/ ClientStep(h)
  PROVE  BusyInv'
<1>1. /\ pc \in [Handlers -> Points] /\ Cardinality(InUse) <= MaxOpen /\ MaxOpen \in Nat
      /\ Cardinality(InUse) \in Nat
  BY PoolBounds, InUseFinite DEF IndInv, TypeOK, InUse
<1>2. CASE Ask(h) /\ HasFree /\ Goto(h, "querying")
  <2>1. Waiting = {}
    BY <1>1, <1>2 DEF BusyInv, HasFree
  <2>2. Waiting' = {}
    BY <1>1, <1>2, <2>1 DEF Goto, Waiting
  <2> QED
    BY <2>2 DEF BusyInv
<1>3. CASE Ask(h) /\ ~HasFree /\ UNCHANGED held
  <2>1. Cardinality(InUse) = MaxOpen
    BY <1>1, <1>3 DEF HasFree
  <2>2. InUse' = InUse
    BY <1>3 DEF InUse
  <2> QED
    BY <2>1, <2>2 DEF BusyInv
<1>4. CASE UNCHANGED held /\ \/ \E p \in Points \ {"waiting"} : Goto(h, p)
                             \/ UNCHANGED pc
  <2>1. Waiting' \subseteq Waiting
    BY <1>1, <1>4 DEF Goto, Waiting
  <2>2. InUse' = InUse
    BY <1>4 DEF InUse
  <2> QED
    BY <2>1, <2>2 DEF BusyInv
<1>5. CASE \E p \in {"running", "done"} : pc[h] \in {"querying", "reading"} /\ Release(h, p)
  <2>1. PICK p \in {"running", "done"} : pc[h] \in {"querying", "reading"} /\ Release(h, p)
    BY <1>5
  <2>2. /\ \A g \in Handlers : pc'[g] = "waiting" => pc[g] = "waiting"
        /\ Waiting # {} => Cardinality(InUse') = Cardinality(InUse)
    BY <2>1, Released DEF IndInv, Points
  <2>3. Waiting' # {} => Waiting # {}
    BY <2>2 DEF Waiting
  <2> QED
    BY <2>2, <2>3 DEF BusyInv
<1>6. CASE Ask(h)
  BY <1>2, <1>3, <1>4, <1>6 DEF Ask, Points
<1>7. CASE DatabaseAnswers(h) \/ CallFails(h) \/ RowsEnd(h)
  BY <1>4, <1>5, <1>7 DEF DatabaseAnswers, CallFails, RowsEnd, Points
<1>8. CASE StopWaiting(h) \/ CallAI(h) \/ AIReturns(h) \/ Return(h)
  BY <1>4, <1>8 DEF StopWaiting, CallAI, AIReturns, Return, Points
<1>9. CASE ClientStep(h)
  BY <1>4, <1>9 DEF ClientStep, Accept, Receive, HangUp, Disconnect, Points
<1> QED
  BY <1>6, <1>7, <1>8, <1>9 DEF HandlerStep

\* A step of main leaves the handlers alone or ends them all.
LEMMA MainHandlers ==
  ASSUME MainAction
  PROVE  \/ UNCHANGED handler
         \/ pc' = [h \in Handlers |-> "done"] /\ todo' = [h \in Handlers |-> 0]
<1> QED
  BY DEF MainAction, MainStep, StartShutdown, Drained, DeadlineExpires, Leave, Connect, Listen,
         ListenFails, Signal, Crash, DatabaseHangs, Exit

\* Nobody waits for a connection in vain: all of them are in use, by handlers
\* that themselves wait for the database only.  So there is no circle of handlers
\* that wait for each other.
THEOREM NoCircularWait == Spec => []WaitersWaitForDatabase
<1>1. Init => BusyInv
  BY DEF Init, BusyInv, Waiting
<1>2. IndInv /\ BusyInv /\ [Next]_vars => BusyInv'
  <2> SUFFICES ASSUME IndInv, BusyInv, [Next]_vars PROVE BusyInv'
    OBVIOUS
  <2>1. CASE UNCHANGED handler
    BY <2>1 DEF handler, BusyInv, Waiting, InUse
  <2>2. CASE pc' = [h \in Handlers |-> "done"]
    BY <2>2 DEF BusyInv, Waiting
  <2> QED
    BY <2>1, <2>2, BusyStep, MainHandlers DEF Next, ClientStep, MainAction, vars
<1>3. IndInv /\ BusyInv => WaitersWaitForDatabase
  BY DEF IndInv, HoldInv, BusyInv, WaitersWaitForDatabase, InUse
<1> QED
  BY <1>1, <1>2, <1>3, IndInvariant, PTL DEF Spec
-----------------------------------------------------------------------------
(* A handler ends: what fairness has to drive is finite. *)

\* The steps a handler still has to take at most: a call is asked for, given a
\* connection, answered and read to the end.
Rank == [idle |-> 0, accepted |-> 2, running |-> 1, waiting |-> 4, querying |-> 3,
         reading |-> 2, asking |-> 2, done |-> 0]

Work(h) == 4 * todo[h] + Rank[pc[h]]

\* Every step of a handler leaves it less to do, and no step of another handler,
\* of a client or of main leaves it more.
HandlersAdvance ==
  [][\A h \in Handlers : Busy(h) => /\ Work(h)' <= Work(h)
                                    /\ HandlerStep(h) => Work(h)' < Work(h)]_vars

LEMMA WorkLeft ==
  ASSUME IndInv, NEW h \in Handlers, HandlerStep(h)
  PROVE  Work(h)' < Work(h)
<1>1. /\ todo[h] \in Nat /\ pc \in [Handlers -> Points] /\ held \in [Handlers -> {0, 1}]
      /\ todo \in [Handlers -> 0..MaxCalls]
  BY PoolBounds DEF IndInv, TypeOK
<1>2. CASE Ask(h) /\ pc'[h] \in {"querying", "waiting"} /\ todo'[h] = todo[h] - 1
  <2>1. pc[h] = "running" /\ todo[h] > 0
    BY <1>2 DEF Ask
  <2> QED
    BY <1>1, <1>2, <2>1 DEF Work, Rank
<1>3. CASE pc[h] \notin {"idle", "done"} /\ pc'[h] = "done" /\ todo'[h] = 0
  <2>1. Work(h)' = 0
    BY <1>3 DEF Work, Rank
  <2>2. Rank[pc[h]] \in Nat \ {0}
    BY <1>1, <1>3 DEF Rank, Points
  <2> QED
    BY <1>1, <2>1, <2>2 DEF Work
<1>4. CASE /\ pc[h] \in {"querying", "reading"} /\ todo'[h] = todo[h]
           /\ pc'[h] = "running" \/ (pc[h] = "querying" /\ pc'[h] = "reading")
  BY <1>1, <1>4 DEF Work, Rank
<1>5. CASE Ask(h)
  <2>1. \/ todo'[h] = todo[h] - 1 /\ pc'[h] \in {"querying", "waiting"}
        \/ pc'[h] = "done" /\ todo'[h] = 0
    BY <1>1, <1>5 DEF Ask, Goto, Finish
  <2>2. pc[h] = "running"
    BY <1>5 DEF Ask
  <2> QED
    BY <1>2, <1>3, <1>5, <2>1, <2>2
<1>6. CASE StopWaiting(h) \/ Return(h)
  BY <1>1, <1>3, <1>6 DEF StopWaiting, Return, Goto, Finish
<1>7. CASE DatabaseAnswers(h) \/ RowsEnd(h)
  <2>1. pc[h] \in {"querying", "reading"} /\ todo'[h] = todo[h]
    BY <1>7 DEF DatabaseAnswers, RowsEnd
  <2>2. pc'[h] = "running" \/ (pc[h] = "querying" /\ pc'[h] = "reading")
    <3>1. CASE Release(h, "running")
      BY <2>1, <3>1, Released DEF IndInv, Points
    <3>2. CASE pc[h] = "querying" /\ Goto(h, "reading")
      BY <1>1, <3>2 DEF Goto
    <3> QED
      BY <1>7, <3>1, <3>2 DEF DatabaseAnswers, RowsEnd
  <2> QED
    BY <1>4, <2>1, <2>2
<1>8. CASE CallFails(h)
  <2>1. pc[h] \in {"querying", "reading"} /\ Release(h, "done") /\ todo'[h] = 0
    BY <1>1, <1>8 DEF CallFails, Finish
  <2>2. pc'[h] = "done"
    BY <2>1, Released DEF IndInv, Points
  <2> QED
    BY <1>3, <2>1, <2>2
<1>9. CASE CallAI(h) \/ AIReturns(h)
  BY <1>1, <1>9 DEF CallAI, AIReturns, Goto, Work, Rank
<1> QED
  BY <1>5, <1>6, <1>7, <1>8, <1>9 DEF HandlerStep

\* Another handler's step changes nothing of h, or gives it its connection.
LEMMA WorkOfOthers ==
  ASSUME IndInv, NEW h \in Handlers, NEW g \in Handlers, g # h, HandlerStep(g) \/ ClientStep(g)
  PROVE  Work(h)' <= Work(h)
<1>1. /\ todo[h] \in Nat /\ pc \in [Handlers -> Points]
      /\ todo \in [Handlers -> 0..MaxCalls]
  BY PoolBounds DEF IndInv, TypeOK
<1>2. todo'[h] = todo[h]
  BY <1>1 DEF HandlerStep, ClientStep, Ask, StopWaiting, DatabaseAnswers, CallFails, RowsEnd, CallAI,
              AIReturns, Return, Accept, Receive, HangUp, Disconnect, Finish
<1>3. pc'[h] = pc[h] \/ (pc[h] = "waiting" /\ pc'[h] = "querying")
  <2>1. CASE \E p \in {"running", "done"} : pc[g] \in {"querying", "reading"} /\ Release(g, p)
    BY <2>1, Released DEF IndInv, Points
  <2>2. CASE UNCHANGED pc \/ \E p \in Points : Goto(g, p)
    BY <1>1, <2>2 DEF Goto
  <2>3. CASE Ask(g) \/ StopWaiting(g) \/ CallAI(g) \/ AIReturns(g) \/ Return(g)
    BY <2>2, <2>3 DEF Ask, StopWaiting, CallAI, AIReturns, Return, Points
  <2>4. CASE DatabaseAnswers(g) \/ CallFails(g) \/ RowsEnd(g)
    BY <2>1, <2>2, <2>4 DEF DatabaseAnswers, CallFails, RowsEnd, Points
  <2>5. CASE ClientStep(g)
    BY <2>2, <2>5 DEF ClientStep, Accept, Receive, HangUp, Disconnect, Points
  <2> QED
    BY <2>3, <2>4, <2>5 DEF HandlerStep
<1>4. Rank[pc[h]] \in Nat
  BY <1>1 DEF Rank, Points
<1> QED
  BY <1>1, <1>2, <1>3, <1>4 DEF Work, Rank

\* What a client does to its own handler.
LEMMA WorkOfClients ==
  ASSUME IndInv, NEW h \in Handlers, Busy(h), ClientStep(h)
  PROVE  Work(h)' <= Work(h)
<1>1. /\ todo[h] \in Nat /\ pc \in [Handlers -> Points]
      /\ todo \in [Handlers -> 0..MaxCalls]
  BY PoolBounds DEF IndInv, TypeOK
<1>2. Rank[pc[h]] \in Nat
  BY <1>1 DEF Rank, Points
<1>3. CASE Receive(h)
  BY <1>1, <1>3 DEF Receive, Goto, Work, Rank
<1>4. CASE HangUp(h)
  BY <1>1, <1>4 DEF HangUp, Goto, Finish, Work, Rank
<1>5. CASE Disconnect(h)
  BY <1>1, <1>2, <1>5 DEF Disconnect, Work
<1> QED
  BY <1>3, <1>4, <1>5 DEF ClientStep, Accept, Busy

LEMMA WorkOfMain ==
  ASSUME IndInv, NEW h \in Handlers, MainAction \/ UNCHANGED vars
  PROVE  Work(h)' <= Work(h)
<1>1. /\ todo[h] \in Nat /\ pc[h] \in Points
  BY PoolBounds DEF IndInv, TypeOK
<1>2. Rank[pc[h]] \in Nat
  BY <1>1 DEF Rank, Points
<1>3. CASE UNCHANGED handler
  BY <1>1, <1>2, <1>3 DEF handler, Work
<1>4. CASE pc' = [g \in Handlers |-> "done"] /\ todo' = [g \in Handlers |-> 0]
  BY <1>1, <1>2, <1>4 DEF Work, Rank
<1> QED
  BY <1>3, <1>4, MainHandlers DEF vars

\* No handler goes on for ever: with Served, it is only a matter of being scheduled.
THEOREM HandlersEnd == Spec => HandlersAdvance
<1>1. ASSUME IndInv, [Next]_vars, NEW h \in Handlers, Busy(h)
      PROVE  Work(h)' <= Work(h) /\ (HandlerStep(h) => Work(h)' < Work(h))
  <2>1. Work(h) \in Int /\ (HandlerStep(h) => Work(h)' \in Int)
    <3>1. todo[h] \in Nat /\ pc[h] \in Points
      BY <1>1, PoolBounds DEF IndInv, TypeOK
    <3>2. HandlerStep(h) => todo'[h] \in Nat /\ pc'[h] \in Points
      BY <1>1, HandlerFrame, PoolBounds
    <3> QED
      BY <3>1, <3>2 DEF Work, Rank, Points
  <2>2. HandlerStep(h) => Work(h)' < Work(h) /\ Work(h)' <= Work(h)
    BY <1>1, <2>1, WorkLeft
  <2> QED
    BY <1>1, <2>2, WorkOfOthers, WorkOfClients, WorkOfMain DEF Next, ClientStep, MainAction
<1>2. IndInv /\ [Next]_vars =>
        [\A h \in Handlers : Busy(h) => /\ Work(h)' <= Work(h)
                                        /\ HandlerStep(h) => Work(h)' < Work(h)]_vars
  BY <1>1
<1> QED
  BY <1>2, IndInvariant, PTL DEF Spec, HandlersAdvance
=============================================================================
