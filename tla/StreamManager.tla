--------------------------- MODULE StreamManager ---------------------------
(***************************************************************************)
(* The WebSocket fan-out core: the StreamManager of                        *)
(* src/stream_manager.py together with the websocket endpoint of           *)
(* src/main.py that drives it.                                             *)
(*                                                                         *)
(* One asyncio event loop runs everything, so a step of this model is the  *)
(* code between two points at which a coroutine really suspends.  No body  *)
(* guarded by StreamManager._lock awaits anything, the lock is therefore   *)
(* never contended and a locked section is one step with the code around   *)
(* it.  The suspension points kept are: the handshake, receive_text, the   *)
(* wait for a cancelled handler in unsubscribe, the next item of an        *)
(* upstream stream, the gather over the sends, the wait for close tasks,   *)
(* and the two gathers of shutdown.                                        *)
(*                                                                         *)
(* A connection subscribes at most once, so a client stands both for the   *)
(* WebSocket and for the client_id that subscribe draws for it.            *)
(***************************************************************************)

CONSTANTS
    Keys,      \* the stream keys "exchange:market:channel:symbol"
    Clients,   \* WebSocket connections
    Tasks,     \* upstream handler tasks, at most one is created per client
    NoBucket,  \* activeStreams[k]: k is not a key of active_streams
    NoTask,    \* upstreamTasks[k]: k is not a key of upstream_tasks
    NoKey      \* the endpoint's key (and a handler's) before it has one

ASSUME NoTaskAssumption == NoTask \notin Tasks
ASSUME NoKeyAssumption == NoKey \notin Keys
ASSUME NoBucketAssumption == \A S \in SUBSET Clients : NoBucket # S

VARIABLES
    activeStreams,  \* key -> the clients in its bucket, or NoBucket
    upstreamTasks,  \* key -> the registered handler, or NoTask
    closing,        \* <<t, c>>: a close of c that t spawned is in _closing
    pc,             \* where each handler task is suspended
    taskKey,        \* the key a handler was created for
    cancelled,      \* cancel() was called and is not yet delivered
    clientItems,    \* the snapshot a handler is sending to
    closeTasks,     \* closes that a handler awaits in its finally clause
    phase,          \* where each connection's endpoint coroutine is
    clientKey,      \* the key a connection subscribed to
    waitsFor,       \* the handler that an unsubscribe is waiting for
    socket,         \* the state of the connection itself
    server,         \* the progress of StreamManager.shutdown
    shutdownTasks,  \* the handlers that shutdown gathers
    shutdownCloses, \* the closes that shutdown gathers
    servedBy,       \* history: the handler registered when a client joined
    lost            \* history: the keys a handler of which lost a cancel

managerVars  == <<activeStreams, upstreamTasks, closing>>
handlerVars  == <<pc, taskKey, cancelled, clientItems, closeTasks>>
endpointVars == <<phase, clientKey, waitsFor, socket>>
serverVars   == <<server, shutdownTasks, shutdownCloses>>
historyVars  == <<servedBy, lost>>
vars == <<managerVars, handlerVars, endpointVars, serverVars, historyVars>>

-----------------------------------------------------------------------------
(* Helpers *)

\* The clients registered under a key (none when the key is absent).
Bucket(k) == IF activeStreams[k] = NoBucket THEN {} ELSE activeStreams[k]

Registered(t) == \E k \in Keys : upstreamTasks[k] = t

\* A handler that may still take another item from its adapter stream.
Running(t) == pc[t] \in {"created", "opening", "waiting", "sending"}

Init ==
    /\ activeStreams = [k \in Keys |-> NoBucket]
    /\ upstreamTasks = [k \in Keys |-> NoTask]
    /\ closing = {}
    /\ pc = [t \in Tasks |-> "unborn"]
    /\ taskKey = [t \in Tasks |-> NoKey]
    /\ cancelled = [t \in Tasks |-> FALSE]
    /\ clientItems = [t \in Tasks |-> {}]
    /\ closeTasks = [t \in Tasks |-> {}]
    /\ phase = [c \in Clients |-> "handshake"]
    /\ clientKey = [c \in Clients |-> NoKey]
    /\ waitsFor = [c \in Clients |-> NoTask]
    /\ socket = [c \in Clients |-> "open"]
    /\ server = "running"
    /\ shutdownTasks = {}
    /\ shutdownCloses = {}
    /\ servedBy = [c \in Clients |-> NoTask]
    /\ lost = {}

-----------------------------------------------------------------------------
(* The websocket endpoint, one coroutine per connection *)

\* The handshake ends without a subscription: the first message does not
\* come within 10 s, is malformed, or names a channel that is not offered;
\* the endpoint closes the socket and returns.
Reject(c) ==
    /\ phase[c] = "handshake"
    /\ phase' = [phase EXCEPT ![c] = "done"]
    /\ socket' = [socket EXCEPT ![c] = "closed"]
    /\ UNCHANGED <<managerVars, handlerVars, clientKey, waitsFor, serverVars,
                   historyVars>>

\* Mutant: every subscriber starts a new bucket, not only the first one.
Subscribe_NewBucket(c, k) ==
    /\ server = "running"
    /\ phase[c] = "handshake"
    /\ IF activeStreams[k] = NoBucket
       THEN \E t \in Tasks :
                /\ pc[t] = "unborn"
                /\ pc' = [pc EXCEPT ![t] = "created"]
                /\ taskKey' = [taskKey EXCEPT ![t] = k]
                /\ upstreamTasks' = [upstreamTasks EXCEPT ![k] = t]
       ELSE UNCHANGED <<pc, taskKey, upstreamTasks>>
    /\ activeStreams' = [activeStreams EXCEPT ![k] = {c}]
    /\ servedBy' = [servedBy EXCEPT ![c] = upstreamTasks'[k]]
    /\ clientKey' = [clientKey EXCEPT ![c] = k]
    /\ phase' = [phase EXCEPT ![c] = "subscribed"]
    /\ UNCHANGED <<closing, cancelled, clientItems, closeTasks, waitsFor,
                   socket, serverVars, lost>>

\* The endpoint's call of StreamManager.subscribe. The first subscriber of a
\* key creates the bucket and the handler. The server accepts no connection
\* once its lifespan is shutting down.
Subscribe(c, k) ==
    /\ server = "running"
    /\ phase[c] = "handshake"
    /\ IF activeStreams[k] = NoBucket
       THEN \E t \in Tasks :
                /\ pc[t] = "unborn"
                /\ pc' = [pc EXCEPT ![t] = "created"]
                /\ taskKey' = [taskKey EXCEPT ![t] = k]
                /\ upstreamTasks' = [upstreamTasks EXCEPT ![k] = t]
                /\ activeStreams' = [activeStreams EXCEPT ![k] = {c}]
       ELSE /\ activeStreams' = [activeStreams EXCEPT ![k] = @ \cup {c}]
            /\ UNCHANGED <<pc, taskKey, upstreamTasks>>
    /\ servedBy' = [servedBy EXCEPT ![c] = upstreamTasks'[k]]
    /\ clientKey' = [clientKey EXCEPT ![c] = k]
    /\ phase' = [phase EXCEPT ![c] = "subscribed"]
    /\ UNCHANGED <<closing, cancelled, clientItems, closeTasks, waitsFor,
                   socket, serverVars, lost>>

\* The peer goes away: receive_text (or receive_json) will raise.
Disconnect(c) ==
    /\ phase[c] # "done"
    /\ socket[c] \in {"open", "stuck"}
    /\ socket' = [socket EXCEPT ![c] = "closed"]
    /\ UNCHANGED <<managerVars, handlerVars, phase, clientKey, waitsFor,
                   serverVars, historyVars>>

\* What the mutants of Unsubscribe share: the client leaves with the given
\* bucket, registration, cancels and task to wait for.
LeaveWith(c, bucket, registered, cancels, task) ==
    LET k == clientKey[c]
    IN  /\ phase[c] = "subscribed"
        /\ activeStreams' = [activeStreams EXCEPT
                ![k] = IF @ = NoBucket THEN @ ELSE bucket]
        /\ upstreamTasks' = [upstreamTasks EXCEPT ![k] = registered]
        /\ cancelled' = cancels
        /\ waitsFor' = [waitsFor EXCEPT ![c] = task]
        /\ phase' = [phase EXCEPT ![c] =
                         IF task = NoTask THEN "done" ELSE "unsubscribing"]
        /\ socket' = [socket EXCEPT ![c] =
                          IF phase'[c] = "done" THEN "closed" ELSE @]
        /\ UNCHANGED <<closing, pc, taskKey, clientItems, closeTasks, clientKey,
                       serverVars, historyVars>>

\* Mutant: cancel() without asking whether there is a task.
Unsubscribe_NoTaskTest(c) ==
    LET k    == clientKey[c]
        last == Bucket(k) \subseteq {c}
        task == IF last THEN upstreamTasks[k] ELSE NoTask
    IN  LeaveWith(c, IF last THEN NoBucket ELSE Bucket(k) \ {c},
                  IF last THEN NoTask ELSE upstreamTasks[k],
                  [t \in Tasks \cup {task} |-> t = task \/ cancelled[t]], task)

\* Mutant: whoever leaves cancels the handler.
Unsubscribe_AnyoneCancels(c) ==
    LET k    == clientKey[c]
        last == Bucket(k) \subseteq {c}
        task == upstreamTasks[k]
    IN  LeaveWith(c, IF last THEN NoBucket ELSE Bucket(k) \ {c},
                  IF last THEN NoTask ELSE upstreamTasks[k],
                  [t \in Tasks |-> t = task \/ cancelled[t]], task)

\* Mutant: the handler is forgotten, but not cancelled.
Unsubscribe_NoCancel(c) ==
    LET k    == clientKey[c]
        last == Bucket(k) \subseteq {c}
    IN  LeaveWith(c, IF last THEN NoBucket ELSE Bucket(k) \ {c},
                  IF last THEN NoTask ELSE upstreamTasks[k], cancelled, NoTask)

\* receive_text raises (the socket is closed, or the frame is not text) and
\* the endpoint calls StreamManager.unsubscribe. The last client of a bucket
\* takes the bucket and the task with it, cancels the task and waits for it.
Unsubscribe(c) ==
    /\ phase[c] = "subscribed"
    /\ LET k    == clientKey[c]
           rest == Bucket(k) \ {c}
           last == activeStreams[k] # NoBucket /\ rest = {}
           task == IF last THEN upstreamTasks[k] ELSE NoTask
       IN  /\ activeStreams' =
                  IF activeStreams[k] = NoBucket THEN activeStreams
                  ELSE [activeStreams EXCEPT
                            ![k] = IF last THEN NoBucket ELSE rest]
           /\ upstreamTasks' =
                  IF last THEN [upstreamTasks EXCEPT ![k] = NoTask]
                  ELSE upstreamTasks
           /\ cancelled' = [t \in Tasks |-> cancelled[t] \/ t = task]
           /\ waitsFor' = [waitsFor EXCEPT ![c] = task]
           /\ phase' = [phase EXCEPT ![c] =
                            IF task = NoTask THEN "done" ELSE "unsubscribing"]
    /\ socket' = [socket EXCEPT ![c] =
                      IF phase'[c] = "done" THEN "closed" ELSE @]
    /\ UNCHANGED <<closing, pc, taskKey, clientItems, closeTasks, clientKey,
                   serverVars, historyVars>>

\* wait_for(task, 2.0) times out and cancels the handler once more.
CancelAgain(c) ==
    /\ phase[c] = "unsubscribing"
    /\ Running(waitsFor[c])
    /\ ~cancelled[waitsFor[c]]
    /\ cancelled' = [cancelled EXCEPT ![waitsFor[c]] = TRUE]
    /\ UNCHANGED <<managerVars, pc, taskKey, clientItems, closeTasks,
                   endpointVars, serverVars, historyVars>>

\* wait_for returns only once the handler has finished, timeout or not. The
\* endpoint returns, and with it the server drops the socket.
UnsubscribeReturns(c) ==
    /\ phase[c] = "unsubscribing"
    /\ pc[waitsFor[c]] = "done"
    /\ waitsFor' = [waitsFor EXCEPT ![c] = NoTask]
    /\ phase' = [phase EXCEPT ![c] = "done"]
    /\ socket' = [socket EXCEPT ![c] = "closed"]
    /\ UNCHANGED <<managerVars, handlerVars, clientKey, serverVars, historyVars>>

-----------------------------------------------------------------------------
(* The upstream handler, one task per generation of a key *)

\* What the mutants of Finally share: the registry and the clients to close.
FinallyWith(t, streams, tasks, left) ==
    /\ upstreamTasks' = tasks
    /\ activeStreams' = streams
    /\ closeTasks' = [closeTasks EXCEPT ![t] = left]
    /\ clientItems' = [clientItems EXCEPT ![t] = {}]
    /\ pc' = [pc EXCEPT ![t] = IF left = {} THEN "done" ELSE "closing"]

\* Mutant: the key is taken down whoever is registered under it.
Finally_NoIdentityTest(t, streams, tasks) ==
    LET k == taskKey[t]
    IN  FinallyWith(t, [streams EXCEPT ![k] = NoBucket],
                    [tasks EXCEPT ![k] = NoTask],
                    IF streams[k] = NoBucket THEN {} ELSE streams[k])

\* Mutant: the clients of the key are closed outside the identity test.
Finally_ClosesAnyBucket(t, streams, tasks) ==
    LET k    == taskKey[t]
        mine == tasks[k] = t
    IN  FinallyWith(t, IF mine THEN [streams EXCEPT ![k] = NoBucket] ELSE streams,
                    IF mine THEN [tasks EXCEPT ![k] = NoTask] ELSE tasks,
                    IF streams[k] = NoBucket THEN {} ELSE streams[k])

\* Mutant: the handler ends without taking its key down.
Finally_StaysRegistered(t, streams, tasks) ==
    FinallyWith(t, streams, tasks, {})

\* Mutant: the clients left in the bucket are not closed.
Finally_ClosesNobody(t, streams, tasks) ==
    LET k    == taskKey[t]
        mine == tasks[k] = t
    IN  FinallyWith(t, IF mine THEN [streams EXCEPT ![k] = NoBucket] ELSE streams,
                    IF mine THEN [tasks EXCEPT ![k] = NoTask] ELSE tasks, {})

\* The finally clause, entered with the given registry. Only the handler that
\* is still registered under its key takes the key down and closes what is
\* left in its bucket.
Finally(t, streams, tasks) ==
    LET k    == taskKey[t]
        mine == tasks[k] = t
        left == IF mine /\ streams[k] # NoBucket THEN streams[k] ELSE {}
    IN  /\ upstreamTasks' =
               IF mine THEN [tasks EXCEPT ![k] = NoTask] ELSE tasks
        /\ activeStreams' =
               IF mine THEN [streams EXCEPT ![k] = NoBucket] ELSE streams
        /\ closeTasks' = [closeTasks EXCEPT ![t] = left]
        /\ clientItems' = [clientItems EXCEPT ![t] = {}]
        /\ pc' = [pc EXCEPT ![t] = IF left = {} THEN "done" ELSE "closing"]

\* The task's first step opens the adapter stream of its channel: it resolves
\* the symbol and subscribes to the upstream connection.
HandlerStarts(t) ==
    /\ pc[t] = "created"
    /\ ~cancelled[t]
    /\ pc' = [pc EXCEPT ![t] = "opening"]
    /\ UNCHANGED <<managerVars, taskKey, cancelled, clientItems, closeTasks,
                   endpointVars, serverVars, historyVars>>

\* The stream is open. It waits for the connection in a wait_for, and that of
\* Python 3.11, which the Dockerfile uses, returns instead of raising when a
\* cancel comes just after the connection did: the cancel is lost. (From
\* Python 3.12 on, lost stays empty.)
StreamOpens(t) ==
    /\ pc[t] = "opening"
    /\ pc' = [pc EXCEPT ![t] = "waiting"]
    /\ cancelled' = [cancelled EXCEPT ![t] = FALSE]
    /\ lost' = IF cancelled[t] THEN lost \cup {taskKey[t]} ELSE lost
    /\ UNCHANGED <<managerVars, taskKey, clientItems, closeTasks,
                   endpointVars, serverVars, servedBy>>

\* An item arrives: it is sent to a snapshot of the bucket, or the handler
\* gives up when the key has no bucket.
ItemArrives(t) ==
    /\ pc[t] = "waiting"
    /\ ~cancelled[t]
    /\ LET bucket == Bucket(taskKey[t])
       IN  IF bucket = {}
           THEN Finally(t, activeStreams, upstreamTasks)
           ELSE /\ clientItems' = [clientItems EXCEPT ![t] = bucket]
                /\ pc' = [pc EXCEPT ![t] = "sending"]
                /\ UNCHANGED <<activeStreams, upstreamTasks, closeTasks>>
    /\ UNCHANGED <<closing, taskKey, cancelled, endpointVars, serverVars,
                   historyVars>>

\* What the mutants of SendsDone share: the handler goes on with the given
\* bucket and spawned closes.
GoOnWith(t, bucket, closes) ==
    /\ pc[t] = "sending"
    /\ ~cancelled[t]
    /\ closing' = closes
    /\ activeStreams' = [activeStreams EXCEPT ![taskKey[t]] =
                             IF @ = NoBucket THEN @ ELSE bucket]
    /\ clientItems' = [clientItems EXCEPT ![t] = {}]
    /\ pc' = [pc EXCEPT ![t] = "waiting"]
    /\ UNCHANGED <<upstreamTasks, closeTasks, taskKey, cancelled, endpointVars,
                   serverVars, historyVars>>

\* Mutant: the dead are dropped, but not closed.
SendsDone_NoClose(t, dead) ==
    /\ dead \subseteq clientItems[t]
    /\ pc[t] = "sending" /\ Bucket(taskKey[t]) \ dead # {}
    /\ GoOnWith(t, Bucket(taskKey[t]) \ dead, closing)

\* The gather is over; the sends to the clients in dead failed or took more
\* than 5 s. The dead are closed in tasks of their own and leave whatever
\* bucket the key has now; a bucket this empties is taken down.
SendsDone(t, dead) ==
    /\ pc[t] = "sending"
    /\ ~cancelled[t]
    /\ dead \subseteq clientItems[t]
    /\ closing' = closing \cup ({t} \X dead)
    /\ LET k       == taskKey[t]
           current == Bucket(k) \ dead
           emptied == /\ dead # {}
                      /\ activeStreams[k] # NoBucket
                      /\ current = {}
       IN  IF emptied
           THEN Finally(t, [activeStreams EXCEPT ![k] = NoBucket],
                           [upstreamTasks EXCEPT ![k] = NoTask])
           ELSE /\ activeStreams' =
                       IF activeStreams[k] = NoBucket THEN activeStreams
                       ELSE [activeStreams EXCEPT ![k] = current]
                /\ clientItems' = [clientItems EXCEPT ![t] = {}]
                /\ pc' = [pc EXCEPT ![t] = "waiting"]
                /\ UNCHANGED <<upstreamTasks, closeTasks>>
    /\ UNCHANGED <<taskKey, cancelled, endpointVars, serverVars, historyVars>>

\* The adapter's stream ends or raises.
StreamEnds(t) ==
    /\ pc[t] \in {"opening", "waiting"}
    /\ ~cancelled[t]
    /\ Finally(t, activeStreams, upstreamTasks)
    /\ UNCHANGED <<closing, taskKey, cancelled, endpointVars, serverVars,
                   historyVars>>

\* CancelledError is raised at the handler's await, whatever else it could
\* have returned. A task cancelled before its first step never enters try.
CancelDelivered(t) ==
    /\ Running(t)
    /\ cancelled[t]
    /\ cancelled' = [cancelled EXCEPT ![t] = FALSE]
    /\ IF pc[t] = "created"
       THEN /\ pc' = [pc EXCEPT ![t] = "done"]
            /\ UNCHANGED <<activeStreams, upstreamTasks, closeTasks, clientItems>>
       ELSE Finally(t, activeStreams, upstreamTasks)
    /\ UNCHANGED <<closing, taskKey, endpointVars, serverVars, historyVars>>

\* A close either takes effect, or runs into its 5 s timeout with the peer
\* still connected.
CloseOutcome(c) ==
    \E outcome \in {"closed", "stuck"} :
        socket' = [socket EXCEPT ![c] = IF @ = "open" THEN outcome ELSE @]

\* A close created by the finally clause is over; the handler ends with the
\* last one.
FinalCloseDone(t, c) ==
    /\ c \in closeTasks[t]
    /\ CloseOutcome(c)
    /\ closeTasks' = [closeTasks EXCEPT ![t] = @ \ {c}]
    /\ pc' = [pc EXCEPT ![t] = IF closeTasks'[t] = {} THEN "done" ELSE @]
    /\ UNCHANGED <<managerVars, taskKey, cancelled, clientItems, phase,
                   clientKey, waitsFor, serverVars, historyVars>>

\* A close spawned for a dead client is over and leaves _closing.
SpawnedCloseDone(t, c) ==
    /\ <<t, c>> \in closing
    /\ CloseOutcome(c)
    /\ closing' = closing \ {<<t, c>>}
    /\ UNCHANGED <<activeStreams, upstreamTasks, handlerVars, phase, clientKey,
                   waitsFor, serverVars, historyVars>>

-----------------------------------------------------------------------------
(* StreamManager.shutdown, called once by the lifespan handler *)

\* Mutant: the handlers are awaited, but not cancelled.
ShutdownBegins_NoCancel ==
    /\ server = "running"
    /\ server' = "cancelling"
    /\ shutdownTasks' = {t \in Tasks : Registered(t)}
    /\ upstreamTasks' = [k \in Keys |-> NoTask]
    /\ activeStreams' = [k \in Keys |-> NoBucket]
    /\ UNCHANGED <<closing, pc, taskKey, cancelled, clientItems, closeTasks,
                   endpointVars, shutdownCloses, historyVars>>

\* Both maps are cleared, every registered handler is cancelled.
ShutdownBegins ==
    /\ server = "running"
    /\ server' = "cancelling"
    /\ shutdownTasks' = {t \in Tasks : Registered(t)}
    /\ cancelled' = [t \in Tasks |-> cancelled[t] \/ Registered(t)]
    /\ upstreamTasks' = [k \in Keys |-> NoTask]
    /\ activeStreams' = [k \in Keys |-> NoBucket]
    /\ UNCHANGED <<closing, pc, taskKey, clientItems, closeTasks, endpointVars,
                   shutdownCloses, historyVars>>

\* The cancelled handlers are gathered; then the closes in _closing, as that
\* set is at this moment, are.
ShutdownTasksDone ==
    /\ server = "cancelling"
    /\ \A t \in shutdownTasks : pc[t] = "done"
    /\ server' = "draining"
    /\ shutdownCloses' = closing
    /\ UNCHANGED <<managerVars, handlerVars, endpointVars, shutdownTasks,
                   historyVars>>

ShutdownReturns ==
    /\ server = "draining"
    /\ shutdownCloses \cap closing = {}
    /\ server' = "stopped"
    /\ UNCHANGED <<managerVars, handlerVars, endpointVars, shutdownTasks,
                   shutdownCloses, historyVars>>

-----------------------------------------------------------------------------
EndpointNext(c) ==
    \/ Reject(c)
    \/ \E k \in Keys : Subscribe(c, k)
    \/ Disconnect(c)
    \/ Unsubscribe(c)
    \/ CancelAgain(c)
    \/ UnsubscribeReturns(c)

HandlerNext(t) ==
    \/ HandlerStarts(t)
    \/ StreamOpens(t)
    \/ ItemArrives(t)
    \/ \E dead \in SUBSET clientItems[t] : SendsDone(t, dead)
    \/ StreamEnds(t)
    \/ CancelDelivered(t)
    \/ \E c \in Clients : FinalCloseDone(t, c) \/ SpawnedCloseDone(t, c)

ShutdownNext ==
    \/ ShutdownBegins
    \/ ShutdownTasksDone
    \/ ShutdownReturns

\* Everything has come to its end; only then may the system stop.
Terminated ==
    /\ server = "stopped"
    /\ \A c \in Clients : phase[c] = "done"
    /\ \A t \in Tasks : pc[t] \in {"unborn", "done"}
    /\ closing = {}
    /\ UNCHANGED vars

Next ==
    \/ \E c \in Clients : EndpointNext(c)
    \/ \E t \in Tasks : HandlerNext(t)
    \/ ShutdownNext
    \/ Terminated

Spec == Init /\ [][Next]_vars

\* What the event loop, the 2 s and 5 s timeouts and the WebSocket layer
\* guarantee: a ready coroutine runs, sends and closes come to an end, a
\* closed socket is noticed. Nothing obliges a peer to leave, an item to
\* arrive or a stream to end.
Fairness ==
    /\ \A c \in Clients :
           /\ WF_vars(socket[c] = "closed" /\ Unsubscribe(c))
           /\ WF_vars(CancelAgain(c))
           /\ WF_vars(UnsubscribeReturns(c))
    /\ \A t \in Tasks :
           /\ WF_vars(HandlerStarts(t))
           /\ WF_vars(\E dead \in SUBSET clientItems[t] : SendsDone(t, dead))
           /\ WF_vars(CancelDelivered(t))
           /\ \A c \in Clients :
                  /\ WF_vars(FinalCloseDone(t, c))
                  /\ WF_vars(SpawnedCloseDone(t, c))
    /\ WF_vars(ShutdownTasksDone)
    /\ WF_vars(ShutdownReturns)

FairSpec == Spec /\ Fairness

-----------------------------------------------------------------------------
(* Correctness *)

\* The types of the variables of the fan-out core.
TypeOK ==
    /\ activeStreams \in [Keys -> {NoBucket} \cup SUBSET Clients]
    /\ upstreamTasks \in [Keys -> Tasks \cup {NoTask}]
    /\ closing \subseteq Tasks \X Clients
    /\ pc \in [Tasks -> {"unborn", "created", "opening", "waiting",
                         "sending", "closing", "done"}]
    /\ taskKey \in [Tasks -> Keys \cup {NoKey}]
    /\ cancelled \in [Tasks -> BOOLEAN]
    /\ clientItems \in [Tasks -> SUBSET Clients]
    /\ closeTasks \in [Tasks -> SUBSET Clients]
    /\ phase \in [Clients -> {"handshake", "subscribed", "unsubscribing",
                              "done"}]
    /\ clientKey \in [Clients -> Keys \cup {NoKey}]
    /\ waitsFor \in [Clients -> Tasks \cup {NoTask}]
    /\ socket \in [Clients -> {"open", "stuck", "closed"}]
    /\ server \in {"running", "cancelling", "draining", "stopped"}
    /\ shutdownTasks \subseteq Tasks
    /\ shutdownCloses \subseteq Tasks \X Clients
    /\ servedBy \in [Clients -> Tasks \cup {NoTask}]
    /\ lost \subseteq Keys

\* Between any two steps the two maps of the manager have the same keys and
\* no bucket is empty: an empty bucket would keep its upstream open for
\* nobody, and a late unsubscribe would cancel it under a new subscriber.
RegistryConsistent ==
    \A k \in Keys :
        /\ activeStreams[k] = NoBucket <=> upstreamTasks[k] = NoTask
        /\ activeStreams[k] # {}

\* A key with clients has a handler that was made for it, is alive and is not
\* about to be cancelled; so no bucket is left waiting on a dead stream.
RegisteredHandlerServes ==
    \A k \in Keys :
        upstreamTasks[k] # NoTask =>
            /\ taskKey[upstreamTasks[k]] = k
            /\ Running(upstreamTasks[k])
            /\ ~cancelled[upstreamTasks[k]]

\* The clients in a bucket are subscribed, to its key and to the generation of
\* the handler that serves it.
BucketsSeparate ==
    \A k \in Keys : \A c \in Bucket(k) :
        /\ servedBy[c] = upstreamTasks[k]
        /\ clientKey[c] = k
        /\ phase[c] = "subscribed"

\* The registry is consistent, and who is in it is served: every bucket by a
\* handler of its own that is alive, which nobody in it joined by mistake.
RegistryServes == RegistryConsistent /\ RegisteredHandlerServes /\ BucketsSeparate

\* A handler that goes on reading its stream is the registered one of its
\* key: no upstream is ever left running that nobody can cancel any more,
\* unless a cancel was lost on this key. (A handler that strays can in turn
\* unregister the next one of its key.)
Intact(t) == taskKey[t] \notin lost
NoStrayHandler ==
    \A t \in Tasks :
        Intact(t) /\ Running(t) /\ ~cancelled[t] => upstreamTasks[taskKey[t]] = t

\* Everything a handler does to a client (sending to it, closing it) concerns
\* a client that subscribed to this very handler, never one that joined a
\* later generation of the same key, unless a cancel was lost on the key.
GenerationsSeparate ==
    \A t \in Tasks : Intact(t) => \A c \in Clients :
        \/ c \in clientItems[t]
        \/ c \in closeTasks[t]
        \/ <<t, c>> \in closing
        => servedBy[c] = t

\* While the service runs, a subscribed client with an open socket is either
\* in the bucket of its key or about to be closed with 1011: none is silently
\* left without data.
ClosePending(c) ==
    \E t \in Tasks : <<t, c>> \in closing \/ c \in closeTasks[t]
NoOrphanClient ==
    \A c \in Clients :
        /\ server = "running"
        /\ phase[c] = "subscribed"
        /\ socket[c] = "open"
        => c \in Bucket(clientKey[c]) \/ ClosePending(c)

\* A client is closed by at most one handler, and never while it is served,
\* as long as no handler strays.
ClosedOnce ==
    \A c \in Clients : \A t, u \in Tasks : Intact(t) /\ Intact(u) =>
        /\ ~(<<t, c>> \in closing /\ c \in closeTasks[u])
        /\ <<t, c>> \in closing /\ <<u, c>> \in closing => t = u
        /\ c \in closeTasks[t] /\ c \in closeTasks[u] => t = u
        /\ <<t, c>> \in closing \/ c \in closeTasks[t]
               => \A k \in Keys : c \notin Bucket(k)

\* No client is forgotten, and none is closed twice.
ClientsAccountedFor == NoOrphanClient /\ ClosedOnce

\* A fan-out starts only in the handler registered for its key, and goes to
\* clients of that handler, unless a cancel was lost on the key.
FanOutOf(t) ==
    pc[t] # "sending" /\ pc'[t] = "sending" =>
        /\ upstreamTasks[taskKey[t]] = t
        /\ \A c \in clientItems'[t] : servedBy[c] = t
FanOutStep == \A t \in Tasks : Intact(t) => FanOutOf(t)
FanOutIsCurrent == [][FanOutStep]_vars

\* A handler is cancelled only when the step that cancels it leaves none of
\* its clients in any bucket: an unsubscribe never takes the upstream away
\* from the clients that stay, whichever generation the leaving one was of.
CancelStep ==
    \A t \in Tasks :
        ~cancelled[t] /\ cancelled'[t] =>
            \A c \in Clients, k \in Keys :
                servedBy[c] = t => c \notin Bucket(k)'
CancelLeavesNobody == [][CancelStep]_vars

\* A handler that is no longer registered comes to its end, unless a cancel
\* was lost on its key.
UnregisteredHandlersEnd ==
    \A t \in Tasks :
        pc[t] # "unborn" /\ ~Registered(t)
            ~> pc[t] = "done" \/ ~Intact(t)

\* A client that lost its bucket while the service runs sees its connection
\* end, unless the close ran into its timeout or the service goes down.
DetachedClientsEnd ==
    \A c \in Clients :
        phase[c] = "subscribed" /\ c \notin Bucket(clientKey[c])
            ~> phase[c] = "done" \/ socket[c] = "stuck" \/ server # "running"

\* An unsubscribe always returns: not even a lost cancel can hold it.
UnsubscribeEnds ==
    \A c \in Clients : phase[c] = "unsubscribing" ~> phase[c] = "done"

\* Whatever leaves comes to its end: the handlers that are not registered any
\* more, the clients without a bucket, and the calls of unsubscribe.
LeaversEnd == UnregisteredHandlersEnd /\ DetachedClientsEnd /\ UnsubscribeEnds

\* A shutdown comes to its end, so that the adapters are shut down as well,
\* unless a cancel was lost.
ShutdownEnds ==
    server # "running" ~> server = "stopped" \/ lost # {}

=============================================================================
