------------------------ MODULE StreamManagerProofs ------------------------
(***************************************************************************)
(* Proofs about StreamManager, for any sets of keys, clients and tasks.    *)
(*                                                                         *)
(* The registry properties are not inductive: that a bucket holds only     *)
(* clients of the registered handler depends on a client being in nothing  *)
(* before it subscribes, and that a handler is alive on the registry never *)
(* naming a task that was not yet created.  Inv adds these facts.  That no *)
(* client is forgotten or closed twice needs one more, ClosesApart, and    *)
(* the refinement of FanOut follows from Inv step by step.                 *)
(***************************************************************************)
EXTENDS StreamManagerFanOut, TLAPS

\* A task that was not created has left no trace anywhere.
UnbornIsBlank ==
    \A t \in Tasks :
        IF pc[t] = "unborn"
        THEN /\ taskKey[t] = NoKey
             /\ ~cancelled[t]
             /\ clientItems[t] = {} /\ closeTasks[t] = {}
             /\ \A k \in Keys : upstreamTasks[k] # t
             /\ \A c \in Clients : servedBy[c] # t /\ waitsFor[c] # t
        ELSE taskKey[t] \in Keys

\* A client belongs to a generation from the moment it subscribes; a
\* handler that an unsubscribe waits for is no longer registered.
EndpointConsistent ==
    \A c \in Clients :
        /\ phase[c] = "handshake" => servedBy[c] = NoTask
        /\ phase[c] \in {"subscribed", "unsubscribing"} => clientKey[c] \in Keys
        /\ phase[c] = "unsubscribing" =>
               waitsFor[c] \in Tasks /\ ~Registered(waitsFor[c])

\* Snapshots and final closes exist only while they are worked on.
HandlerConsistent ==
    \A t \in Tasks :
        /\ pc[t] = "sending" <=> clientItems[t] # {}
        /\ pc[t] = "closing" <=> closeTasks[t] # {}

\* The inductive invariant.
Inv ==
    /\ TypeOK
    /\ RegistryConsistent
    /\ RegisteredHandlerServes
    /\ BucketsSeparate
    /\ NoStrayHandler
    /\ GenerationsSeparate
    /\ UnbornIsBlank
    /\ EndpointConsistent
    /\ HandlerConsistent

-----------------------------------------------------------------------------
USE NoTaskAssumption, NoKeyAssumption, NoBucketAssumption
USE DEF managerVars, handlerVars, endpointVars, serverVars, historyVars, Intact

\* The invariant holds initially.
LEMMA InitInv == Init => Inv
  BY DEF Init, Inv, TypeOK, RegistryConsistent, RegisteredHandlerServes,
     NoStrayHandler, GenerationsSeparate, BucketsSeparate, UnbornIsBlank,
     EndpointConsistent, HandlerConsistent, Bucket, Running, Registered

\* A handshake that fails touches no registry.
LEMMA RejectKeepsInv ==
  ASSUME Inv, NEW c \in Clients, Reject(c)
  PROVE  Inv'
<1>1. /\ TypeOK'
      /\ RegistryConsistent'
      /\ RegisteredHandlerServes'
      /\ NoStrayHandler'
      /\ GenerationsSeparate'
      /\ BucketsSeparate'
      /\ UnbornIsBlank'
      /\ EndpointConsistent'
      /\ HandlerConsistent'
  BY DEF Inv, Reject, TypeOK, RegistryConsistent, RegisteredHandlerServes,
      NoStrayHandler, GenerationsSeparate, BucketsSeparate,
      UnbornIsBlank, EndpointConsistent, HandlerConsistent, Bucket,
      Registered, Running
<1>. QED
  BY <1>1 DEF Inv

\* A peer that goes away is noticed later, by its endpoint.
LEMMA DisconnectKeepsInv ==
  ASSUME Inv, NEW c \in Clients, Disconnect(c)
  PROVE  Inv'
<1>1. /\ TypeOK'
      /\ RegistryConsistent'
      /\ RegisteredHandlerServes'
      /\ NoStrayHandler'
      /\ GenerationsSeparate'
      /\ BucketsSeparate'
      /\ UnbornIsBlank'
      /\ EndpointConsistent'
      /\ HandlerConsistent'
  BY DEF Inv, Disconnect, TypeOK, RegistryConsistent,
      RegisteredHandlerServes, NoStrayHandler, GenerationsSeparate,
      BucketsSeparate, UnbornIsBlank, EndpointConsistent,
      HandlerConsistent, Bucket, Registered, Running
<1>. QED
  BY <1>1 DEF Inv

\* Whoever empties a bucket unregisters its handler in the same step.
LEMMA UnsubscribeKeepsInv ==
  ASSUME Inv, NEW c \in Clients, Unsubscribe(c)
  PROVE  Inv'
<1>1. /\ GenerationsSeparate'
      /\ HandlerConsistent'
  BY DEF Inv, Unsubscribe, GenerationsSeparate, HandlerConsistent
<1>2. TypeOK'
  BY DEF Inv, TypeOK, Unsubscribe, EndpointConsistent, Bucket
<1>3. RegistryConsistent'
  BY DEF Inv, RegistryConsistent, Unsubscribe, TypeOK, Bucket
<1>4. RegisteredHandlerServes'
  BY DEF Inv, RegisteredHandlerServes, Unsubscribe, TypeOK,
      EndpointConsistent, Running
<1>5. NoStrayHandler'
  <2> SUFFICES ASSUME NEW t \in Tasks, Intact(t)', Running(t)', ~cancelled'[t]
               PROVE  upstreamTasks'[taskKey'[t]] = t
    BY DEF NoStrayHandler
  <2>1. upstreamTasks[taskKey[t]] = t /\ taskKey[t] \in Keys /\ taskKey' = taskKey
    BY DEF Inv, TypeOK, NoStrayHandler, UnbornIsBlank, Running, Unsubscribe
  <2>2. upstreamTasks' = upstreamTasks
        \/ /\ upstreamTasks' = [upstreamTasks EXCEPT ![clientKey[c]] = NoTask]
           /\ cancelled'[t] = (cancelled[t] \/ t = upstreamTasks[clientKey[c]])
    BY DEF Unsubscribe
  <2>. QED
    BY <2>1, <2>2 DEF Inv, TypeOK
<1>6. BucketsSeparate'
  BY DEF Inv, BucketsSeparate, Unsubscribe, TypeOK, Bucket
<1>7. UnbornIsBlank'
  BY DEF Inv, UnbornIsBlank, Unsubscribe, TypeOK, EndpointConsistent
<1>8. EndpointConsistent'
  BY DEF Inv, EndpointConsistent, Unsubscribe, TypeOK,
      RegisteredHandlerServes, Registered
<1>. QED
  BY <1>1, <1>2, <1>3, <1>4, <1>5, <1>6, <1>7, <1>8 DEF Inv

\* The endpoint of a connection comes to its end.
LEMMA UnsubscribeReturnsKeepsInv ==
  ASSUME Inv, NEW c \in Clients, UnsubscribeReturns(c)
  PROVE  Inv'
<1>1. /\ TypeOK'
      /\ RegistryConsistent'
      /\ RegisteredHandlerServes'
      /\ NoStrayHandler'
      /\ GenerationsSeparate'
      /\ BucketsSeparate'
      /\ UnbornIsBlank'
      /\ HandlerConsistent'
  BY DEF Inv, UnsubscribeReturns, TypeOK, RegistryConsistent,
      RegisteredHandlerServes, NoStrayHandler, GenerationsSeparate,
      BucketsSeparate, UnbornIsBlank, HandlerConsistent, Bucket, Running
<1>2. EndpointConsistent'
  BY DEF Inv, EndpointConsistent, UnsubscribeReturns, TypeOK, Registered
<1>. QED
  BY <1>1, <1>2 DEF Inv

\* A new generation starts with a task nobody has seen before.
LEMMA SubscribeKeepsInv ==
  ASSUME Inv, NEW c \in Clients, NEW k \in Keys, Subscribe(c, k)
  PROVE  Inv'
<1>1. TypeOK'
  <2>1. CASE activeStreams[k] = NoBucket
    <3>1. PICK t \in Tasks :
              /\ pc' = [pc EXCEPT ![t] = "created"]
              /\ taskKey' = [taskKey EXCEPT ![t] = k]
              /\ upstreamTasks' = [upstreamTasks EXCEPT ![k] = t]
              /\ activeStreams' = [activeStreams EXCEPT ![k] = {c}]
      BY <2>1 DEF Subscribe
    <3>. QED
      BY <3>1 DEF Inv, TypeOK, Subscribe
  <2>2. CASE activeStreams[k] # NoBucket
    <3>1. activeStreams[k] \cup {c} \in SUBSET Clients
      BY <2>2 DEF Inv, TypeOK
    <3>. QED
      BY <2>2, <3>1 DEF Inv, TypeOK, Subscribe
  <2>. QED
    BY <2>1, <2>2
<1>2. RegistryConsistent'
  <2>1. CASE activeStreams[k] = NoBucket
    <3>1. PICK t \in Tasks :
              /\ upstreamTasks' = [upstreamTasks EXCEPT ![k] = t]
              /\ activeStreams' = [activeStreams EXCEPT ![k] = {c}]
      BY <2>1 DEF Subscribe
    <3>2. {c} # NoBucket /\ t # NoTask
      OBVIOUS
    <3>. QED
      BY <3>1, <3>2 DEF Inv, TypeOK, RegistryConsistent
  <2>2. CASE activeStreams[k] # NoBucket
    <3>1. activeStreams[k] \cup {c} \in SUBSET Clients
      BY <2>2 DEF Inv, TypeOK
    <3>. QED
      BY <2>2, <3>1 DEF Inv, TypeOK, RegistryConsistent, Subscribe
  <2>. QED
    BY <2>1, <2>2
<1>3. RegisteredHandlerServes'
  BY DEF Inv, RegisteredHandlerServes, Subscribe, TypeOK, UnbornIsBlank,
      Running
<1>4. NoStrayHandler'
  <2> SUFFICES ASSUME NEW t \in Tasks, Intact(t)', Running(t)', ~cancelled'[t]
               PROVE  upstreamTasks'[taskKey'[t]] = t
    BY DEF NoStrayHandler
  <2>1. CASE activeStreams[k] = NoBucket
    <3>1. PICK u \in Tasks :
              /\ pc[u] = "unborn"
              /\ pc' = [pc EXCEPT ![u] = "created"]
              /\ taskKey' = [taskKey EXCEPT ![u] = k]
              /\ upstreamTasks' = [upstreamTasks EXCEPT ![k] = u]
      BY <2>1 DEF Subscribe
    <3>2. upstreamTasks[k] = NoTask
      BY <2>1 DEF Inv, RegistryConsistent
    <3>3. CASE t = u
      BY <3>1, <3>3 DEF Inv, TypeOK
    <3>4. CASE t # u
      <4>1. Running(t) /\ taskKey'[t] = taskKey[t] /\ Intact(t)
        BY <3>1, <3>4 DEF Inv, TypeOK, Running, Subscribe
      <4>2. upstreamTasks[taskKey[t]] = t /\ taskKey[t] \in Keys
        BY <4>1 DEF Inv, NoStrayHandler, UnbornIsBlank, Running, Subscribe
      <4>. QED
        BY <3>1, <3>2, <4>1, <4>2 DEF Inv, TypeOK
    <3>. QED
      BY <3>3, <3>4
  <2>2. CASE activeStreams[k] # NoBucket
    BY <2>2 DEF Inv, NoStrayHandler, Subscribe, Running
  <2>. QED
    BY <2>1, <2>2
<1>5. GenerationsSeparate'
  <2>1. ASSUME NEW t \in Tasks, Intact(t)' PROVE Intact(t)
    BY <2>1 DEF Inv, TypeOK, UnbornIsBlank, Subscribe
  <2>. QED
    BY <2>1 DEF Inv, GenerationsSeparate, Subscribe, EndpointConsistent
<1>6. BucketsSeparate'
  <2> SUFFICES ASSUME NEW j \in Keys, NEW d \in Bucket(j)'
               PROVE  /\ servedBy'[d] = upstreamTasks'[j]
                      /\ clientKey'[d] = j
                      /\ phase'[d] = "subscribed"
    BY DEF BucketsSeparate
  <2>1. /\ servedBy' = [servedBy EXCEPT ![c] = upstreamTasks'[k]]
        /\ clientKey' = [clientKey EXCEPT ![c] = k]
        /\ phase' = [phase EXCEPT ![c] = "subscribed"]
        /\ phase[c] = "handshake"
    BY DEF Subscribe
  <2>2. d \in Bucket(j) \/ (d = c /\ j = k)
    BY DEF Subscribe, Inv, TypeOK, Bucket
  <2>3. CASE d = c /\ j = k
    BY <2>1, <2>3 DEF Inv, TypeOK
  <2>4. CASE d \in Bucket(j)
    <3>1. /\ servedBy[d] = upstreamTasks[j] /\ clientKey[d] = j
          /\ phase[d] = "subscribed" /\ d # c
      BY <2>1, <2>4 DEF Inv, BucketsSeparate
    <3>2. upstreamTasks'[j] = upstreamTasks[j]
      BY <2>4 DEF Inv, TypeOK, Subscribe, Bucket
    <3>. QED
      BY <2>1, <3>1, <3>2 DEF Inv, TypeOK
  <2>. QED
    BY <2>2, <2>3, <2>4
<1>7. UnbornIsBlank'
  BY DEF Inv, UnbornIsBlank, Subscribe, TypeOK
<1>8. EndpointConsistent'
  BY DEF Inv, EndpointConsistent, Subscribe, TypeOK, UnbornIsBlank,
      Registered
<1>9. HandlerConsistent'
  BY DEF Inv, HandlerConsistent, Subscribe, TypeOK
<1>. QED
  BY <1>1, <1>2, <1>3, <1>4, <1>5, <1>6, <1>7, <1>8, <1>9 DEF Inv

\* The handler an unsubscribe waits for is no longer registered.
LEMMA CancelAgainKeepsInv ==
  ASSUME Inv, NEW c \in Clients, CancelAgain(c)
  PROVE  Inv'
<1>1. /\ RegistryConsistent'
      /\ NoStrayHandler'
      /\ GenerationsSeparate'
      /\ BucketsSeparate'
      /\ UnbornIsBlank'
      /\ EndpointConsistent'
      /\ HandlerConsistent'
  BY DEF Inv, CancelAgain, RegistryConsistent, NoStrayHandler,
      GenerationsSeparate, BucketsSeparate, UnbornIsBlank,
      EndpointConsistent, HandlerConsistent, Bucket, Registered, Running
<1>2. TypeOK'
  BY DEF Inv, TypeOK, CancelAgain, EndpointConsistent
<1>3. RegisteredHandlerServes'
  BY DEF Inv, RegisteredHandlerServes, CancelAgain, EndpointConsistent,
      Running, Registered
<1>. QED
  BY <1>1, <1>2, <1>3 DEF Inv

\* Only here can a cancel be lost, and its key is intact no longer.
LEMMA StreamOpensKeepsInv ==
  ASSUME Inv, NEW t \in Tasks, StreamOpens(t)
  PROVE  Inv'
<1>1. /\ TypeOK'
      /\ RegistryConsistent'
      /\ RegisteredHandlerServes'
      /\ NoStrayHandler'
      /\ GenerationsSeparate'
      /\ BucketsSeparate'
      /\ UnbornIsBlank'
      /\ EndpointConsistent'
      /\ HandlerConsistent'
  BY DEF Inv, StreamOpens, TypeOK, RegistryConsistent,
      RegisteredHandlerServes, NoStrayHandler, GenerationsSeparate,
      BucketsSeparate, UnbornIsBlank, EndpointConsistent,
      HandlerConsistent, Bucket, Registered, Running
<1>. QED
  BY <1>1 DEF Inv

\* A handler starts to open its stream, or was cancelled before.
LEMMA HandlerStartsKeepsInv ==
  ASSUME Inv, NEW t \in Tasks, HandlerStarts(t)
  PROVE  Inv'
<1>1. /\ TypeOK'
      /\ RegistryConsistent'
      /\ RegisteredHandlerServes'
      /\ NoStrayHandler'
      /\ GenerationsSeparate'
      /\ BucketsSeparate'
      /\ UnbornIsBlank'
      /\ EndpointConsistent'
      /\ HandlerConsistent'
  BY DEF Inv, HandlerStarts, TypeOK, RegistryConsistent,
      RegisteredHandlerServes, NoStrayHandler, GenerationsSeparate,
      BucketsSeparate, UnbornIsBlank, EndpointConsistent,
      HandlerConsistent, Bucket, Registered, Running
<1>. QED
  BY <1>1 DEF Inv

\* The snapshot of a registered handler is its own bucket.
LEMMA ItemArrivesKeepsInv ==
  ASSUME Inv, NEW t \in Tasks, ItemArrives(t)
  PROVE  Inv'
<1>1. TypeOK'
  BY DEF Inv, TypeOK, ItemArrives, RegistryConsistent, UnbornIsBlank,
      Finally, Bucket
<1>2. RegistryConsistent'
  BY DEF Inv, RegistryConsistent, ItemArrives, UnbornIsBlank, Finally,
      Bucket
<1>3. RegisteredHandlerServes'
  BY DEF Inv, RegisteredHandlerServes, ItemArrives, TypeOK, Finally,
      Running
<1>4. NoStrayHandler'
  BY DEF Inv, NoStrayHandler, ItemArrives, TypeOK, UnbornIsBlank, Finally,
      Running
<1>5. GenerationsSeparate'
  BY DEF Inv, GenerationsSeparate, ItemArrives, TypeOK, NoStrayHandler,
      BucketsSeparate, UnbornIsBlank, Finally, Bucket, Running
<1>6. BucketsSeparate'
  BY DEF Inv, BucketsSeparate, ItemArrives, RegistryConsistent,
      UnbornIsBlank, Finally, Bucket
<1>7. UnbornIsBlank'
  BY DEF Inv, UnbornIsBlank, ItemArrives, TypeOK, Finally
<1>8. EndpointConsistent'
  BY DEF Inv, EndpointConsistent, ItemArrives, RegistryConsistent,
      UnbornIsBlank, Finally, Bucket, Registered
<1>9. HandlerConsistent'
  BY DEF Inv, HandlerConsistent, ItemArrives, TypeOK, Finally
<1>. QED
  BY <1>1, <1>2, <1>3, <1>4, <1>5, <1>6, <1>7, <1>8, <1>9 DEF Inv

\* The dead leave the bucket; a bucket this empties goes with its handler.
LEMMA SendsDoneKeepsInv ==
  ASSUME Inv, NEW t \in Tasks, NEW dead \in SUBSET clientItems[t], SendsDone(t, dead)
  PROVE  Inv'
<1>1. TypeOK'
  <2>1. closing' \subseteq Tasks \X Clients
    BY DEF Inv, TypeOK, SendsDone
  <2>2. taskKey[t] \in Keys
    BY DEF Inv, UnbornIsBlank, SendsDone
  <2>3. Bucket(taskKey[t]) \ dead \in SUBSET Clients
    BY <2>2 DEF Inv, TypeOK, Bucket
  <2>4. activeStreams' \in [Keys -> {NoBucket} \cup SUBSET Clients]
    BY <2>2, <2>3 DEF Inv, TypeOK, SendsDone, Finally
  <2>5. upstreamTasks' \in [Keys -> Tasks \cup {NoTask}]
    BY <2>2 DEF Inv, TypeOK, SendsDone, Finally
  <2>6. /\ pc' \in [Tasks -> {"unborn", "created", "opening", "waiting",
                              "sending", "closing", "done"}]
        /\ clientItems' \in [Tasks -> SUBSET Clients]
    BY DEF Inv, TypeOK, SendsDone, Finally
  <2>7. closeTasks' \in [Tasks -> SUBSET Clients]
    BY <2>2, <2>3 DEF Inv, TypeOK, SendsDone, Finally
  <2>. QED
    BY <2>1, <2>4, <2>5, <2>6, <2>7 DEF Inv, TypeOK, SendsDone
<1>2. RegistryConsistent'
  BY DEF Inv, RegistryConsistent, SendsDone, TypeOK, Finally, Bucket
<1>3. RegisteredHandlerServes'
  BY DEF Inv, RegisteredHandlerServes, SendsDone, TypeOK, Finally, Running
<1>4. NoStrayHandler'
  BY DEF Inv, NoStrayHandler, SendsDone, TypeOK, UnbornIsBlank, Finally,
      Running
<1>5. GenerationsSeparate'
  BY DEF Inv, GenerationsSeparate, SendsDone, TypeOK, Finally, Bucket
<1>6. BucketsSeparate'
  BY DEF Inv, BucketsSeparate, SendsDone, TypeOK, NoStrayHandler, Finally,
      Bucket
<1>7. UnbornIsBlank'
  BY DEF Inv, UnbornIsBlank, SendsDone, TypeOK, Finally
<1>8. EndpointConsistent'
  BY DEF Inv, EndpointConsistent, SendsDone, TypeOK, Finally, Registered
<1>9. HandlerConsistent'
  BY DEF Inv, HandlerConsistent, SendsDone, TypeOK, Finally
<1>. QED
  BY <1>1, <1>2, <1>3, <1>4, <1>5, <1>6, <1>7, <1>8, <1>9 DEF Inv

\* A registered handler takes its key down, an unregistered one nothing.
LEMMA StreamEndsKeepsInv ==
  ASSUME Inv, NEW t \in Tasks, StreamEnds(t)
  PROVE  Inv'
<1>1. TypeOK'
  BY DEF Inv, TypeOK, StreamEnds, UnbornIsBlank, Finally
<1>2. RegistryConsistent'
  BY DEF Inv, RegistryConsistent, StreamEnds, TypeOK, Finally
<1>3. RegisteredHandlerServes'
  BY DEF Inv, RegisteredHandlerServes, StreamEnds, TypeOK, Finally, Running
<1>4. NoStrayHandler'
  BY DEF Inv, NoStrayHandler, StreamEnds, TypeOK, Finally, Running
<1>5. GenerationsSeparate'
  BY DEF Inv, GenerationsSeparate, StreamEnds, BucketsSeparate,
      UnbornIsBlank, Finally, Bucket
<1>6. BucketsSeparate'
  BY DEF Inv, BucketsSeparate, StreamEnds, TypeOK, Finally, Bucket
<1>7. UnbornIsBlank'
  BY DEF Inv, UnbornIsBlank, StreamEnds, Finally
<1>8. EndpointConsistent'
  BY DEF Inv, EndpointConsistent, StreamEnds, Finally, Registered
<1>9. HandlerConsistent'
  BY DEF Inv, HandlerConsistent, StreamEnds, TypeOK, Finally
<1>. QED
  BY <1>1, <1>2, <1>3, <1>4, <1>5, <1>6, <1>7, <1>8, <1>9 DEF Inv

\* A cancelled handler is not registered, its finally clause takes nothing.
LEMMA CancelDeliveredKeepsInv ==
  ASSUME Inv, NEW t \in Tasks, CancelDelivered(t)
  PROVE  Inv'
<1>1. TypeOK'
  <2>1. CASE pc[t] = "created"
    BY <2>1 DEF Inv, TypeOK, CancelDelivered
  <2>2. CASE pc[t] # "created"
    <3>1. taskKey[t] \in Keys
      BY DEF Inv, UnbornIsBlank, CancelDelivered, Running
    <3>2. \/ activeStreams[taskKey[t]] = NoBucket
          \/ activeStreams[taskKey[t]] \in SUBSET Clients
      BY <3>1 DEF Inv, TypeOK
    <3>3. activeStreams' \in [Keys -> {NoBucket} \cup SUBSET Clients]
      BY <2>2, <3>1, <3>2 DEF Inv, TypeOK, CancelDelivered, Finally
    <3>4. upstreamTasks' \in [Keys -> Tasks \cup {NoTask}]
      BY <2>2, <3>1 DEF Inv, TypeOK, CancelDelivered, Finally
    <3>5. /\ pc' \in [Tasks -> {"unborn", "created", "opening", "waiting",
                                "sending", "closing", "done"}]
          /\ clientItems' \in [Tasks -> SUBSET Clients]
      BY <2>2 DEF Inv, TypeOK, CancelDelivered, Finally
    <3>6. closeTasks' \in [Tasks -> SUBSET Clients]
      BY <2>2, <3>1, <3>2 DEF Inv, TypeOK, CancelDelivered, Finally
    <3>. QED
      BY <2>2, <3>3, <3>4, <3>5, <3>6 DEF Inv, TypeOK, CancelDelivered
  <2>. QED
    BY <2>1, <2>2
<1>2. RegistryConsistent'
  BY DEF Inv, RegistryConsistent, CancelDelivered, RegisteredHandlerServes,
      UnbornIsBlank, Finally
<1>3. RegisteredHandlerServes'
  BY DEF Inv, RegisteredHandlerServes, CancelDelivered, TypeOK, Finally,
      Running
<1>4. NoStrayHandler'
  BY DEF Inv, NoStrayHandler, CancelDelivered, TypeOK, UnbornIsBlank,
      Finally, Running
<1>5. GenerationsSeparate'
  BY DEF Inv, GenerationsSeparate, CancelDelivered, TypeOK,
      BucketsSeparate, UnbornIsBlank, Finally, Bucket
<1>6. BucketsSeparate'
  BY DEF Inv, BucketsSeparate, CancelDelivered, RegisteredHandlerServes,
      UnbornIsBlank, Finally, Bucket
<1>7. UnbornIsBlank'
  BY DEF Inv, UnbornIsBlank, CancelDelivered, TypeOK, Finally
<1>8. EndpointConsistent'
  BY DEF Inv, EndpointConsistent, CancelDelivered, RegisteredHandlerServes,
      UnbornIsBlank, Finally, Registered
<1>9. HandlerConsistent'
  BY DEF Inv, HandlerConsistent, CancelDelivered, TypeOK, Finally
<1>. QED
  BY <1>1, <1>2, <1>3, <1>4, <1>5, <1>6, <1>7, <1>8, <1>9 DEF Inv

\* A handler has closed one of its last clients.
LEMMA FinalCloseDoneKeepsInv ==
  ASSUME Inv, NEW t \in Tasks, NEW c \in Clients, FinalCloseDone(t, c)
  PROVE  Inv'
<1>1. /\ TypeOK'
      /\ RegistryConsistent'
      /\ NoStrayHandler'
      /\ GenerationsSeparate'
      /\ BucketsSeparate'
      /\ UnbornIsBlank'
      /\ EndpointConsistent'
  BY DEF Inv, FinalCloseDone, TypeOK, RegistryConsistent, NoStrayHandler,
      GenerationsSeparate, BucketsSeparate, UnbornIsBlank,
      EndpointConsistent, Bucket, CloseOutcome, Registered, Running
<1>2. RegisteredHandlerServes'
  BY DEF Inv, RegisteredHandlerServes, FinalCloseDone, HandlerConsistent,
      Running
<1>3. HandlerConsistent'
  BY DEF Inv, HandlerConsistent, FinalCloseDone, TypeOK
<1>. QED
  BY <1>1, <1>2, <1>3 DEF Inv

\* A client that could not be sent to is closed.
LEMMA SpawnedCloseDoneKeepsInv ==
  ASSUME Inv, NEW t \in Tasks, NEW c \in Clients, SpawnedCloseDone(t, c)
  PROVE  Inv'
<1>1. /\ TypeOK'
      /\ RegistryConsistent'
      /\ RegisteredHandlerServes'
      /\ NoStrayHandler'
      /\ GenerationsSeparate'
      /\ BucketsSeparate'
      /\ UnbornIsBlank'
      /\ EndpointConsistent'
      /\ HandlerConsistent'
  BY DEF Inv, SpawnedCloseDone, TypeOK, RegistryConsistent,
      RegisteredHandlerServes, NoStrayHandler, GenerationsSeparate,
      BucketsSeparate, UnbornIsBlank, EndpointConsistent,
      HandlerConsistent, Bucket, CloseOutcome, Registered, Running
<1>. QED
  BY <1>1 DEF Inv

\* Shutdown empties both maps and cancels every registered handler at once.
LEMMA ShutdownBeginsKeepsInv ==
  ASSUME Inv, ShutdownBegins
  PROVE  Inv'
<1>1. /\ TypeOK'
      /\ RegistryConsistent'
      /\ RegisteredHandlerServes'
      /\ GenerationsSeparate'
      /\ BucketsSeparate'
      /\ EndpointConsistent'
      /\ HandlerConsistent'
  BY DEF Inv, ShutdownBegins, TypeOK, RegistryConsistent,
      RegisteredHandlerServes, GenerationsSeparate, BucketsSeparate,
      EndpointConsistent, HandlerConsistent, Bucket, Registered
<1>2. NoStrayHandler'
  <2> SUFFICES ASSUME NEW t \in Tasks, Intact(t)', Running(t)', ~cancelled'[t]
               PROVE  FALSE
    BY DEF NoStrayHandler
  <2>1. taskKey[t] \in Keys /\ upstreamTasks[taskKey[t]] = t
    BY DEF Inv, TypeOK, NoStrayHandler, UnbornIsBlank, Running, ShutdownBegins
  <2>. QED
    BY <2>1 DEF ShutdownBegins, Registered
<1>3. UnbornIsBlank'
  BY DEF Inv, UnbornIsBlank, ShutdownBegins, TypeOK, Registered
<1>. QED
  BY <1>1, <1>2, <1>3 DEF Inv

\* Shutdown has waited for the handlers.
LEMMA ShutdownTasksDoneKeepsInv ==
  ASSUME Inv, ShutdownTasksDone
  PROVE  Inv'
<1>1. /\ TypeOK'
      /\ RegistryConsistent'
      /\ RegisteredHandlerServes'
      /\ NoStrayHandler'
      /\ GenerationsSeparate'
      /\ BucketsSeparate'
      /\ UnbornIsBlank'
      /\ EndpointConsistent'
      /\ HandlerConsistent'
  BY DEF Inv, ShutdownTasksDone, TypeOK, RegistryConsistent,
      RegisteredHandlerServes, NoStrayHandler, GenerationsSeparate,
      BucketsSeparate, UnbornIsBlank, EndpointConsistent,
      HandlerConsistent, Bucket, Registered, Running
<1>. QED
  BY <1>1 DEF Inv

\* And for the closes.
LEMMA ShutdownReturnsKeepsInv ==
  ASSUME Inv, ShutdownReturns
  PROVE  Inv'
<1>1. /\ TypeOK'
      /\ RegistryConsistent'
      /\ RegisteredHandlerServes'
      /\ NoStrayHandler'
      /\ GenerationsSeparate'
      /\ BucketsSeparate'
      /\ UnbornIsBlank'
      /\ EndpointConsistent'
      /\ HandlerConsistent'
  BY DEF Inv, ShutdownReturns, TypeOK, RegistryConsistent,
      RegisteredHandlerServes, NoStrayHandler, GenerationsSeparate,
      BucketsSeparate, UnbornIsBlank, EndpointConsistent,
      HandlerConsistent, Bucket, Registered, Running
<1>. QED
  BY <1>1 DEF Inv

-----------------------------------------------------------------------------
\* Every step keeps the invariant: one lemma per action.
LEMMA NextKeepsInv == Inv /\ [Next]_vars => Inv'
<1> SUFFICES ASSUME Inv, [Next]_vars PROVE Inv'
  OBVIOUS
<1>1. ASSUME NEW c \in Clients, EndpointNext(c) PROVE Inv'
  BY <1>1, RejectKeepsInv, SubscribeKeepsInv, DisconnectKeepsInv,
     UnsubscribeKeepsInv, CancelAgainKeepsInv, UnsubscribeReturnsKeepsInv
     DEF EndpointNext
<1>2. ASSUME NEW t \in Tasks, HandlerNext(t) PROVE Inv'
  BY <1>2, HandlerStartsKeepsInv, StreamOpensKeepsInv, ItemArrivesKeepsInv,
     SendsDoneKeepsInv, StreamEndsKeepsInv, CancelDeliveredKeepsInv,
     FinalCloseDoneKeepsInv, SpawnedCloseDoneKeepsInv DEF HandlerNext
<1>3. CASE ShutdownNext
  BY <1>3, ShutdownBeginsKeepsInv, ShutdownTasksDoneKeepsInv,
     ShutdownReturnsKeepsInv DEF ShutdownNext
<1>4. CASE UNCHANGED vars
  BY <1>4 DEF vars, Inv, TypeOK, RegistryConsistent, RegisteredHandlerServes,
     NoStrayHandler, GenerationsSeparate, BucketsSeparate, UnbornIsBlank,
     EndpointConsistent, HandlerConsistent, Bucket, Running, Registered
<1>. QED
  BY <1>1, <1>2, <1>3, <1>4 DEF Next, Terminated

\* The invariant holds in every reachable state.
LEMMA InvHolds == Spec => []Inv
  BY InitInv, NextKeepsInv, PTL DEF Spec

-----------------------------------------------------------------------------
\* The variables of the fan-out core keep their types.
THEOREM TypeCorrect == Spec => []TypeOK
  BY InvHolds, PTL DEF Inv

\* Whatever Python does with cancels, the two maps agree, no bucket is empty,
\* a key with clients has a live handler of its own that nobody has
\* cancelled, and its bucket holds only subscribed clients of that handler.
THEOREM RegistryCorrect == Spec => []RegistryServes
<1>1. Inv => RegistryServes
  BY DEF Inv, RegistryServes
<1>. QED
  BY <1>1, InvHolds, PTL

\* On a key where no cancel was lost, no upstream runs that nobody can cancel
\* any more.
THEOREM HandlersDoNotStray == Spec => []NoStrayHandler
  BY InvHolds, PTL DEF Inv

\* On such a key, a handler sends to and closes only clients of its own
\* generation.
THEOREM GenerationsStaySeparate == Spec => []GenerationsSeparate
  BY InvHolds, PTL DEF Inv

\* On such a key, every fan-out is made by the registered handler and goes to
\* its own clients.
THEOREM FanOutsAreCurrent == Spec => FanOutIsCurrent
<1>1. ASSUME Inv, [Next]_vars, NEW t \in Tasks, Intact(t),
             pc[t] # "sending", pc'[t] = "sending"
      PROVE  /\ upstreamTasks[taskKey[t]] = t
             /\ \A c \in clientItems'[t] : servedBy[c] = t
  <2>1. ItemArrives(t)
    <3>1. ASSUME NEW c \in Clients, EndpointNext(c) PROVE FALSE
      BY <1>1, <3>1 DEF Inv, TypeOK, EndpointNext, Reject, Subscribe, Disconnect,
         Unsubscribe, CancelAgain, UnsubscribeReturns
    <3>2. ASSUME NEW u \in Tasks, HandlerNext(u) PROVE ItemArrives(t)
      <4>1. CASE HandlerStarts(u) \/ StreamOpens(u) \/ StreamEnds(u)
        BY <1>1, <4>1 DEF Inv, TypeOK, HandlerStarts, StreamOpens, StreamEnds,
           Finally
      <4>2. CASE ItemArrives(u)
        BY <1>1, <4>2 DEF Inv, TypeOK, ItemArrives, Finally
      <4>3. CASE \E dead \in SUBSET clientItems[u] : SendsDone(u, dead)
        BY <1>1, <4>3 DEF Inv, TypeOK, SendsDone, Finally
      <4>4. CASE CancelDelivered(u)
        BY <1>1, <4>4 DEF Inv, TypeOK, CancelDelivered, Finally
      <4>5. CASE \E c \in Clients : FinalCloseDone(u, c) \/ SpawnedCloseDone(u, c)
        BY <1>1, <4>5 DEF Inv, TypeOK, FinalCloseDone, SpawnedCloseDone,
           handlerVars
      <4>. QED
        BY <3>2, <4>1, <4>2, <4>3, <4>4, <4>5 DEF HandlerNext
    <3>. QED
      BY <1>1, <3>1, <3>2 DEF Next, Terminated, vars, ShutdownNext,
         ShutdownBegins, ShutdownTasksDone, ShutdownReturns
  <2>2. clientItems'[t] = Bucket(taskKey[t])
    BY <1>1, <2>1 DEF Inv, TypeOK, ItemArrives, Finally
  <2>3. upstreamTasks[taskKey[t]] = t
    BY <1>1, <2>1 DEF Inv, NoStrayHandler, ItemArrives, Running
  <2>4. taskKey[t] \in Keys
    BY <1>1, <2>1 DEF Inv, UnbornIsBlank, ItemArrives
  <2>. QED
    BY <1>1, <2>1, <2>2, <2>3, <2>4 DEF Inv, BucketsSeparate
<1>2. Inv /\ [Next]_vars => [FanOutStep]_vars
  BY <1>1 DEF FanOutStep, FanOutOf
<1>. QED
  BY <1>2, InvHolds, PTL DEF Spec, FanOutIsCurrent

\* No step that cancels a handler leaves one of its clients in a bucket.
THEOREM CancelsLeaveNobody == Spec => CancelLeavesNobody
<1>1. ASSUME Inv, Inv', NEW t \in Tasks, ~cancelled[t], cancelled'[t],
             servedBy' = servedBy,
             NEW c \in Clients, NEW k \in Keys, servedBy[c] = t
      PROVE  c \notin Bucket(k)'
  BY <1>1 DEF Inv, TypeOK, BucketsSeparate, RegisteredHandlerServes
<1>2. ASSUME Inv, [Next]_vars, NEW t \in Tasks, ~cancelled[t], cancelled'[t]
      PROVE  servedBy' = servedBy
  BY <1>2 DEF Inv, TypeOK, vars, Next, EndpointNext, HandlerNext, ShutdownNext,
     Terminated, Reject, Subscribe, Disconnect, Unsubscribe, CancelAgain,
     UnsubscribeReturns, HandlerStarts, StreamOpens, ItemArrives, SendsDone,
     StreamEnds, CancelDelivered, FinalCloseDone, SpawnedCloseDone,
     ShutdownBegins, ShutdownTasksDone, ShutdownReturns
<1>3. Inv /\ Inv' /\ [Next]_vars => [CancelStep]_vars
  BY <1>1, <1>2 DEF CancelStep
<1>. QED
  BY <1>3, InvHolds, PTL DEF Spec, CancelLeavesNobody

-----------------------------------------------------------------------------
(* No client is forgotten, and none is closed twice *)

\* What is inductive of ClosedOnce: a client that a handler closes is in no
\* bucket any more, and each handler closes it in one way only.
ClosesApart ==
    \A t \in Tasks : Intact(t) => \A c \in Clients :
        /\ ~(<<t, c>> \in closing /\ c \in closeTasks[t])
        /\ <<t, c>> \in closing \/ c \in closeTasks[t]
               => \A k \in Keys : c \notin Bucket(k)

\* The steps that change neither a bucket nor a close, make no endpoint
\* subscribed, open no socket and start no service.
QuietStep ==
    /\ UNCHANGED <<activeStreams, closing, closeTasks, taskKey, clientKey>>
    /\ lost \subseteq lost'
    /\ server' = "running" => server = "running"
    /\ \A c \in Clients :
           /\ phase'[c] = "subscribed" => phase[c] = "subscribed"
           /\ socket'[c] = "open" => socket[c] = "open"

\* A quiet step accounts for all clients.
LEMMA QuietStepAccounts ==
  ASSUME NoOrphanClient, ClosesApart, QuietStep
  PROVE  NoOrphanClient' /\ ClosesApart'
  BY DEF NoOrphanClient, ClosesApart, QuietStep, Bucket, ClosePending

\* A client belongs to one generation, so two handlers close it never.
LEMMA AccountsOfClosing == Inv /\ ClosesApart => ClosedOnce
<1> SUFFICES ASSUME Inv, ClosesApart, NEW c \in Clients,
                    NEW t \in Tasks, NEW u \in Tasks, Intact(t), Intact(u)
             PROVE  /\ ~(<<t, c>> \in closing /\ c \in closeTasks[u])
                    /\ <<t, c>> \in closing /\ <<u, c>> \in closing => t = u
                    /\ c \in closeTasks[t] /\ c \in closeTasks[u] => t = u
                    /\ <<t, c>> \in closing \/ c \in closeTasks[t]
                           => \A k \in Keys : c \notin Bucket(k)
  BY DEF ClosedOnce
<1>1. GenerationsSeparate
  BY DEF Inv
<1>. QED
  BY <1>1 DEF GenerationsSeparate, ClosesApart

\* What the clause at the end of a handler does: its own bucket, if it still has
\* one, becomes the closes it waits for.
LEMMA FinallyAccounts ==
  ASSUME Inv, NoOrphanClient, ClosesApart, NEW t \in Tasks,
         Running(t), pc[t] # "created",
         Finally(t, activeStreams, upstreamTasks),
         UNCHANGED <<closing, taskKey, endpointVars, serverVars, historyVars>>
  PROVE  NoOrphanClient' /\ ClosesApart'
<1> DEFINE k == taskKey[t]
<1>1. k \in Keys /\ closeTasks[t] = {}
  BY DEF Inv, UnbornIsBlank, HandlerConsistent, Running
<1>2. CASE upstreamTasks[k] # t
  <2>1. UNCHANGED <<activeStreams, closeTasks>>
    BY <1>1, <1>2 DEF Finally, Inv, TypeOK
  <2>. QED
    BY <2>1, QuietStepAccounts DEF QuietStep
<1>3. CASE upstreamTasks[k] = t
  <2>1. /\ activeStreams' = [activeStreams EXCEPT ![k] = NoBucket]
        /\ closeTasks' = [closeTasks EXCEPT ![t] = Bucket(k)]
    BY <1>1, <1>3 DEF Finally, Bucket
  <2>2. /\ Bucket(k)' = {} /\ closeTasks'[t] = Bucket(k)
        /\ \A l \in Keys \ {k} : Bucket(l)' = Bucket(l)
        /\ \A u \in Tasks \ {t} : closeTasks'[u] = closeTasks[u]
    BY <1>1, <2>1 DEF Bucket, Inv, TypeOK
  <2>3. NoOrphanClient'
    <3> SUFFICES ASSUME NEW c \in Clients, server' = "running",
                        phase'[c] = "subscribed", socket'[c] = "open"
                 PROVE  c \in Bucket(clientKey[c])' \/ ClosePending(c)'
      BY DEF NoOrphanClient
    <3>1. c \in Bucket(clientKey[c]) \/ ClosePending(c)
      BY DEF NoOrphanClient
    <3>2. clientKey[c] \in Keys
      BY DEF Inv, EndpointConsistent
    <3>. QED
      BY <1>1, <2>2, <3>1, <3>2 DEF ClosePending
  <2>4. Bucket(k) \subseteq Clients
    BY <1>1 DEF Bucket, Inv, TypeOK
  <2>5. ASSUME NEW c \in Bucket(k), NEW u \in Tasks, Intact(u)
        PROVE  /\ <<u, c>> \notin closing
               /\ c \notin closeTasks[u]
    BY <1>1, <2>4, <2>5 DEF ClosesApart
  <2>6. ASSUME NEW c \in Bucket(k), NEW l \in Keys \ {k}
        PROVE  c \notin Bucket(l)
    BY <1>1, <2>6 DEF Inv, BucketsSeparate
  <2>. QED
    BY <1>1, <2>2, <2>3, <2>4, <2>5, <2>6 DEF ClosesApart
<1>. QED
  BY <1>2, <1>3

\* Who subscribes is new to every handler.
LEMMA SubscribeAccounts ==
  ASSUME Inv, NoOrphanClient, ClosesApart,
         NEW c \in Clients, NEW k \in Keys, Subscribe(c, k)
  PROVE  NoOrphanClient' /\ ClosesApart'
<1>1. /\ Bucket(k)' = Bucket(k) \cup {c}
      /\ \A l \in Keys \ {k} : Bucket(l)' = Bucket(l)
  BY DEF Subscribe, Bucket, Inv, TypeOK
<1>2. /\ UNCHANGED <<closing, closeTasks, socket, server, lost>>
      /\ clientKey' = [clientKey EXCEPT ![c] = k]
      /\ phase' = [phase EXCEPT ![c] = "subscribed"]
  BY DEF Subscribe
<1>3. \A t \in Tasks : taskKey'[t] = taskKey[t] \/ pc[t] = "unborn"
  BY DEF Subscribe, Inv, TypeOK
<1>4. \A t \in Tasks : Intact(t)' => Intact(t)
  BY <1>2, <1>3 DEF Inv, UnbornIsBlank, TypeOK
<1>5. \A t \in Tasks : Intact(t) => <<t, c>> \notin closing /\ c \notin closeTasks[t]
  BY DEF Subscribe, Inv, EndpointConsistent, GenerationsSeparate
<1>6. NoOrphanClient'
  <2> SUFFICES ASSUME NEW d \in Clients, server' = "running",
                      phase'[d] = "subscribed", socket'[d] = "open"
               PROVE  d \in Bucket(clientKey[d])' \/ ClosePending(d)'
    BY DEF NoOrphanClient
  <2>1. CASE d = c
    BY <1>1, <1>2, <2>1 DEF Inv, TypeOK
  <2>2. CASE d # c
    <3>1. /\ clientKey'[d] = clientKey[d] /\ clientKey[d] \in Keys
          /\ d \in Bucket(clientKey[d]) \/ ClosePending(d)
      BY <1>2, <2>2 DEF Inv, TypeOK, EndpointConsistent, NoOrphanClient
    <3>. QED
      BY <1>1, <1>2, <3>1 DEF ClosePending
  <2>. QED
    BY <2>1, <2>2
<1>. QED
  BY <1>1, <1>2, <1>4, <1>5, <1>6 DEF ClosesApart

\* Who leaves takes nobody else out of a bucket.
LEMMA UnsubscribeAccounts ==
  ASSUME Inv, NoOrphanClient, ClosesApart, NEW c \in Clients, Unsubscribe(c)
  PROVE  NoOrphanClient' /\ ClosesApart'
<1>1. \A k \in Keys : Bucket(k)' \in {Bucket(k), Bucket(k) \ {c}}
  BY DEF Unsubscribe, Bucket, Inv, TypeOK, EndpointConsistent
<1>2. /\ UNCHANGED <<closing, closeTasks, clientKey, server, taskKey, lost>>
      /\ phase'[c] # "subscribed"
      /\ \A d \in Clients \ {c} : phase'[d] = phase[d] /\ socket'[d] = socket[d]
  BY DEF Unsubscribe, Inv, TypeOK
<1>3. NoOrphanClient'
  BY <1>1, <1>2 DEF NoOrphanClient, ClosePending, Inv, EndpointConsistent
<1>. QED
  BY <1>1, <1>2, <1>3 DEF ClosesApart

\* Who is dropped from a bucket after the sends is closed.
LEMMA SendsDoneAccounts ==
  ASSUME Inv, NoOrphanClient, ClosesApart, NEW t \in Tasks,
         NEW dead \in SUBSET clientItems[t], SendsDone(t, dead)
  PROVE  NoOrphanClient' /\ ClosesApart'
<1> DEFINE k == taskKey[t]
<1>1. k \in Keys /\ closeTasks[t] = {} /\ dead \subseteq Clients
  BY DEF SendsDone, Inv, TypeOK, UnbornIsBlank, HandlerConsistent
<1>2. /\ closing' = closing \cup ({t} \X dead)
      /\ UNCHANGED <<clientKey, phase, socket, server, taskKey, lost, servedBy>>
  BY DEF SendsDone
<1>3. /\ Bucket(k)' = Bucket(k) \ dead
      /\ \A l \in Keys \ {k} : Bucket(l)' = Bucket(l)
      /\ closeTasks' = closeTasks
  <2> DEFINE current == Bucket(k) \ dead
  <2>1. CASE dead # {} /\ activeStreams[k] # NoBucket /\ current = {}
    <3>1. Finally(t, [activeStreams EXCEPT ![k] = NoBucket],
                     [upstreamTasks EXCEPT ![k] = NoTask])
      BY <2>1 DEF SendsDone
    <3>2. /\ activeStreams' = [activeStreams EXCEPT ![k] = NoBucket]
          /\ closeTasks' = [closeTasks EXCEPT ![t] = {}]
      BY <1>1, <3>1 DEF Finally, Inv, TypeOK
    <3>. QED
      BY <1>1, <1>2, <2>1, <3>2 DEF Bucket, Inv, TypeOK
  <2>2. CASE ~(dead # {} /\ activeStreams[k] # NoBucket /\ current = {})
    <3>1. /\ activeStreams' = IF activeStreams[k] = NoBucket THEN activeStreams
                              ELSE [activeStreams EXCEPT ![k] = current]
          /\ closeTasks' = closeTasks
      BY <2>2 DEF SendsDone
    <3>2. current \in SUBSET Clients
      BY <1>1 DEF Bucket, Inv, TypeOK
    <3>. QED
      BY <1>1, <1>2, <3>1, <3>2 DEF Bucket, Inv, TypeOK
  <2>. QED
    BY <2>1, <2>2
<1>4. NoOrphanClient'
  <2> SUFFICES ASSUME NEW c \in Clients, server' = "running",
                      phase'[c] = "subscribed", socket'[c] = "open"
               PROVE  c \in Bucket(clientKey[c])' \/ ClosePending(c)'
    BY DEF NoOrphanClient
  <2>1. clientKey[c] \in Keys /\ (c \in Bucket(clientKey[c]) \/ ClosePending(c))
    BY <1>2 DEF NoOrphanClient, Inv, EndpointConsistent
  <2>. QED
    BY <1>2, <1>3, <2>1 DEF ClosePending
<1>5. ASSUME Intact(t), NEW c \in dead, NEW l \in Keys \ {k} PROVE c \notin Bucket(l)
  <2>1. servedBy[c] = t
    BY <1>1, <1>5 DEF Inv, GenerationsSeparate
  <2>2. c \in Bucket(l) => upstreamTasks[l] = t /\ taskKey[upstreamTasks[l]] = l
    BY <1>1, <1>5, <2>1 DEF Inv, BucketsSeparate, RegisteredHandlerServes
  <2>. QED
    BY <1>5, <2>2
<1>. QED
  BY <1>1, <1>2, <1>3, <1>4, <1>5 DEF ClosesApart

\* A close that is over has closed its client, or run into its timeout.
LEMMA CloseDoneAccounts ==
  ASSUME Inv, NoOrphanClient, ClosesApart, NEW t \in Tasks, NEW c \in Clients,
         FinalCloseDone(t, c) \/ SpawnedCloseDone(t, c)
  PROVE  NoOrphanClient' /\ ClosesApart'
<1>1. /\ UNCHANGED <<activeStreams, taskKey, clientKey, phase, server, lost>>
      /\ closing' \subseteq closing
      /\ \A u \in Tasks : closeTasks'[u] \subseteq closeTasks[u]
      /\ \A u \in Tasks, d \in Clients \ {c} :
             /\ <<u, d>> \in closing => <<u, d>> \in closing'
             /\ d \in closeTasks[u] => d \in closeTasks'[u]
  BY DEF FinalCloseDone, SpawnedCloseDone, handlerVars, managerVars, Inv, TypeOK
<1>2. /\ socket'[c] # "open"
      /\ \A d \in Clients \ {c} : socket'[d] = socket[d]
  BY DEF FinalCloseDone, SpawnedCloseDone, CloseOutcome, Inv, TypeOK
<1>3. NoOrphanClient'
  BY <1>1, <1>2 DEF NoOrphanClient, ClosePending, Bucket
<1>. QED
  BY <1>1, <1>3 DEF ClosesApart, Bucket

LEMMA NextAccounts ==
  Inv /\ NoOrphanClient /\ ClosesApart /\ [Next]_vars
      => NoOrphanClient' /\ ClosesApart'
<1> SUFFICES ASSUME Inv, NoOrphanClient, ClosesApart, [Next]_vars
             PROVE  NoOrphanClient' /\ ClosesApart'
  OBVIOUS
<1>1. ASSUME NEW c \in Clients, EndpointNext(c)
      PROVE  NoOrphanClient' /\ ClosesApart'
  <2>1. CASE \E k \in Keys : Subscribe(c, k)
    BY <2>1, SubscribeAccounts
  <2>2. CASE Unsubscribe(c)
    BY <2>2, UnsubscribeAccounts
  <2>3. CASE Reject(c) \/ Disconnect(c) \/ CancelAgain(c) \/ UnsubscribeReturns(c)
    <3>1. QuietStep
      BY <2>3 DEF QuietStep, Reject, Disconnect, CancelAgain, UnsubscribeReturns,
         Inv, TypeOK
    <3>. QED
      BY <3>1, QuietStepAccounts
  <2>. QED
    BY <1>1, <2>1, <2>2, <2>3 DEF EndpointNext
<1>2. ASSUME NEW t \in Tasks, HandlerNext(t)
      PROVE  NoOrphanClient' /\ ClosesApart'
  <2>1. CASE \E dead \in SUBSET clientItems[t] : SendsDone(t, dead)
    BY <2>1, SendsDoneAccounts
  <2>2. CASE \E c \in Clients : FinalCloseDone(t, c) \/ SpawnedCloseDone(t, c)
    BY <2>2, CloseDoneAccounts
  <2>3. CASE StreamEnds(t)
    BY <2>3, FinallyAccounts DEF StreamEnds, Running
  <2>4. CASE CancelDelivered(t)
    <3>1. CASE pc[t] = "created"
      BY <2>4, <3>1, QuietStepAccounts DEF QuietStep, CancelDelivered
    <3>. QED
      BY <2>4, <3>1, FinallyAccounts DEF CancelDelivered
  <2>5. CASE ItemArrives(t)
    <3>1. CASE Bucket(taskKey[t]) # {}
      BY <2>5, <3>1, QuietStepAccounts DEF QuietStep, ItemArrives
    <3>. QED
      BY <2>5, <3>1, FinallyAccounts DEF ItemArrives, Running
  <2>6. CASE HandlerStarts(t) \/ StreamOpens(t)
    BY <2>6, QuietStepAccounts DEF QuietStep, HandlerStarts, StreamOpens
  <2>. QED
    BY <1>2, <2>1, <2>2, <2>3, <2>4, <2>5, <2>6 DEF HandlerNext
<1>3. CASE ShutdownNext
  <2>1. CASE ShutdownBegins
    BY <2>1 DEF ShutdownBegins, NoOrphanClient, ClosesApart, Bucket
  <2>2. CASE ShutdownTasksDone \/ ShutdownReturns
    BY <2>2, QuietStepAccounts DEF QuietStep, ShutdownTasksDone, ShutdownReturns
  <2>. QED
    BY <1>3, <2>1, <2>2 DEF ShutdownNext
<1>4. CASE UNCHANGED vars
  BY <1>4, QuietStepAccounts DEF QuietStep, vars
<1>. QED
  BY <1>1, <1>2, <1>3, <1>4 DEF Next, Terminated

\* While the service runs, a subscribed client with an open socket is in its
\* bucket or about to be closed; and no client is closed twice, or while it is
\* served, on keys where no cancel was lost.
THEOREM ClientsStayAccountedFor == Spec => []ClientsAccountedFor
<1>1. Init => NoOrphanClient /\ ClosesApart
  BY DEF Init, NoOrphanClient, ClosesApart
<1>2. Inv /\ NoOrphanClient /\ ClosesApart => ClientsAccountedFor
  BY AccountsOfClosing DEF ClientsAccountedFor
<1>. QED
  BY <1>1, <1>2, NextAccounts, InvHolds, PTL DEF Spec

-----------------------------------------------------------------------------
(* The manager implements FanOut *)

\* A registered handler serves the bucket of its key and no other one.
LEMMA AudienceIsBucket ==
  ASSUME Inv, NEW k \in Keys, upstreamTasks[k] # NoTask
  PROVE  /\ upstreamTasks[k] \in Tasks
         /\ Audience(upstreamTasks[k]) = Bucket(k)
         /\ Bucket(k) # {}
         /\ activeStreams[k] = Bucket(k)
<1>1. upstreamTasks[k] \in Tasks
  BY DEF Inv, TypeOK
<1>2. \A l \in Keys : upstreamTasks[l] = upstreamTasks[k] => l = k
  BY <1>1 DEF Inv, RegisteredHandlerServes
<1>3. Bucket(k) \subseteq Clients /\ Bucket(k) # {} /\ activeStreams[k] = Bucket(k)
  BY DEF Inv, TypeOK, RegistryConsistent, Bucket
<1>4. Audience(upstreamTasks[k]) = Bucket(k)
  BY <1>1, <1>2, <1>3 DEF Audience
<1>. QED
  BY <1>1, <1>3, <1>4

\* A step that touches no bucket, no registration, no snapshot, no generation
\* and not the service is none of its clients' business.
SilentStep ==
    /\ UNCHANGED <<activeStreams, upstreamTasks, clientItems, servedBy>>
    /\ \A t \in Tasks : pc'[t] = "unborn" <=> pc[t] = "unborn"
    /\ server' = "running" <=> server = "running"

\* FanOut sees nothing of a silent step.
LEMMA SilentStepStutters == SilentStep => UNCHANGED Abstract!vars
<1> SUFFICES ASSUME SilentStep PROVE UNCHANGED Abstract!vars
  OBVIOUS
<1>1. \A t \in Tasks : Audience(t)' = Audience(t)
  BY DEF SilentStep, Audience, Bucket
<1>2. [t \in Tasks |-> Audience(t)]' = [t \in Tasks |-> Audience(t)]
  BY <1>1
<1>3. {t \in Tasks : pc[t] # "unborn"}' = {t \in Tasks : pc[t] # "unborn"}
  BY DEF SilentStep
<1>4. {c \in Clients : servedBy[c] # NoTask}' = {c \in Clients : servedBy[c] # NoTask}
  BY DEF SilentStep
<1>5. (server # "running")' <=> (server # "running")
  BY DEF SilentStep
<1>. QED
  BY <1>2, <1>3, <1>4, <1>5 DEF SilentStep, Abstract!vars

\* The first subscriber opens a session, the others join it.
LEMMA SubscribeImplements ==
  ASSUME Inv, NEW c \in Clients, NEW k \in Keys, Subscribe(c, k)
  PROVE  Abstract!Next
<1>1. /\ server = "running" /\ server' = "running"
      /\ clientItems' = clientItems
      /\ servedBy[c] = NoTask
      /\ servedBy' = [servedBy EXCEPT ![c] = upstreamTasks'[k]]
  BY DEF Subscribe, Inv, EndpointConsistent
<1>2. CASE activeStreams[k] = NoBucket
  <2>1. PICK t \in Tasks :
            /\ pc[t] = "unborn"
            /\ pc' = [pc EXCEPT ![t] = "created"]
            /\ upstreamTasks' = [upstreamTasks EXCEPT ![k] = t]
            /\ activeStreams' = [activeStreams EXCEPT ![k] = {c}]
    BY <1>2 DEF Subscribe
  <2>2. upstreamTasks[k] = NoTask /\ \A l \in Keys : upstreamTasks[l] # t
    BY <1>2, <2>1 DEF Inv, RegistryConsistent, UnbornIsBlank
  <2>3. /\ upstreamTasks'[k] = t /\ Bucket(k)' = {c}
        /\ \A l \in Keys \ {k} : /\ upstreamTasks'[l] = upstreamTasks[l]
                                 /\ Bucket(l)' = Bucket(l)
    BY <2>1 DEF Bucket, Inv, TypeOK
  <2>4. Audience(t)' = {c}
    BY <2>2, <2>3 DEF Audience
  <2>5. ASSUME NEW u \in Tasks, u # t PROVE Audience(u)' = Audience(u)
    BY <2>2, <2>3, <2>5 DEF Audience
  <2>6. [u \in Tasks |-> Audience(u)]'
            = [[u \in Tasks |-> Audience(u)] EXCEPT ![t] = {c}]
    BY <2>4, <2>5
  <2>7. {u \in Tasks : pc[u] # "unborn"}' = {u \in Tasks : pc[u] # "unborn"} \cup {t}
    BY <2>1 DEF Inv, TypeOK
  <2>8. {d \in Clients : servedBy[d] # NoTask}'
            = {d \in Clients : servedBy[d] # NoTask} \cup {c}
    BY <1>1, <2>1, <2>3 DEF Inv, TypeOK
  <2>9. Abstract!Open(k, t, c)
    BY <1>1, <2>1, <2>2, <2>6, <2>7, <2>8 DEF Abstract!Open
  <2>. QED
    BY <2>9 DEF Abstract!Next
<1>3. CASE activeStreams[k] # NoBucket
  <2>1. /\ activeStreams' = [activeStreams EXCEPT ![k] = @ \cup {c}]
        /\ UNCHANGED <<pc, upstreamTasks>>
    BY <1>3 DEF Subscribe
  <2> DEFINE t == upstreamTasks[k]
  <2>2. t # NoTask /\ t \in Tasks /\ Audience(t) = Bucket(k)
    BY <1>3, AudienceIsBucket DEF Inv, RegistryConsistent
  <2>3. /\ Bucket(k)' = Bucket(k) \cup {c}
        /\ \A l \in Keys \ {k} : Bucket(l)' = Bucket(l)
        /\ \A l \in Keys \ {k} : upstreamTasks[l] # t
    BY <1>3, <2>1, <2>2 DEF Bucket, Inv, TypeOK, RegisteredHandlerServes
  <2>4. ASSUME NEW u \in Tasks
        PROVE  Audience(u)' = IF u = t THEN Audience(u) \cup {c} ELSE Audience(u)
    BY <2>1, <2>3 DEF Audience
  <2>5. [u \in Tasks |-> Audience(u)]'
            = [[u \in Tasks |-> Audience(u)] EXCEPT ![t] = @ \cup {c}]
    BY <2>2, <2>4
  <2>6. {d \in Clients : servedBy[d] # NoTask}'
            = {d \in Clients : servedBy[d] # NoTask} \cup {c}
    BY <1>1, <2>1, <2>2 DEF Inv, TypeOK
  <2>7. Abstract!Join(k, c)
    BY <1>1, <2>1, <2>2, <2>5, <2>6 DEF Abstract!Join
  <2>. QED
    BY <2>7 DEF Abstract!Next
<1>. QED
  BY <1>2, <1>3

\* What all the steps do that take clients out of the bucket of a key: its
\* audience gets smaller, and the session ends with the last of it.
LEMMA LosesAudience ==
  ASSUME Inv, NEW k \in Keys, upstreamTasks[k] # NoTask, NEW gone,
         upstreamTasks' = [upstreamTasks EXCEPT
             ![k] = IF Bucket(k) \subseteq gone THEN NoTask ELSE @],
         activeStreams' = [activeStreams EXCEPT
             ![k] = IF Bucket(k) \subseteq gone THEN NoBucket ELSE @ \ gone]
  PROVE  Abstract!Lose(k, gone)
<1>1. PICK t \in Tasks : t = upstreamTasks[k]
  BY DEF Inv, TypeOK
<1>2. /\ Audience(t) = Bucket(k)
      /\ activeStreams[k] = Bucket(k) /\ Bucket(k) \subseteq Clients
  BY <1>1, AudienceIsBucket DEF Inv, TypeOK, Bucket
<1>3. \A l \in Keys \ {k} : /\ upstreamTasks[l] # t
                            /\ upstreamTasks'[l] = upstreamTasks[l]
                            /\ Bucket(l)' = Bucket(l)
  BY <1>1, <1>2 DEF Inv, TypeOK, RegisteredHandlerServes, Bucket
<1>4. Audience(t)' = Audience(t) \ gone
  <2>1. CASE Bucket(k) \subseteq gone
    <3>1. upstreamTasks'[k] # t
      BY <2>1 DEF Inv, TypeOK
    <3>2. Audience(t)' = {}
      BY <1>1, <1>3, <3>1 DEF Audience
    <3>. QED
      BY <1>2, <2>1, <3>2
  <2>2. CASE ~(Bucket(k) \subseteq gone)
    <3>1. upstreamTasks'[k] = t /\ activeStreams'[k] = Bucket(k) \ gone
      BY <1>1, <1>2, <2>2 DEF Inv, TypeOK
    <3>2. Bucket(k)' = Bucket(k) \ gone
      BY <1>1, <1>2, <3>1 DEF Bucket
    <3>. QED
      BY <1>1, <1>2, <1>3, <3>1, <3>2 DEF Audience
  <2>. QED
    BY <2>1, <2>2
<1>5. ASSUME NEW u \in Tasks, u # t PROVE Audience(u)' = Audience(u)
  <2>1. upstreamTasks'[k] # u /\ upstreamTasks[k] # u
    BY <1>1, <1>5 DEF Inv, TypeOK
  <2>. QED
    BY <1>3, <2>1 DEF Audience
<1>6. [u \in Tasks |-> Audience(u)]'
          = [[u \in Tasks |-> Audience(u)] EXCEPT ![t] = @ \ gone]
  BY <1>4, <1>5
<1>. QED
  BY <1>1, <1>2, <1>6 DEF Abstract!Lose


\* What a step does that creates no handler, subscribes nobody and begins no
\* shutdown: the sessions opened, the clients joined and the service stay.
SameGround ==
    /\ servedBy' = servedBy
    /\ \A t \in Tasks : pc'[t] = "unborn" <=> pc[t] = "unborn"
    /\ server' = server

\* FanOut sees the same sessions and joiners.
LEMMA GroundIsKept ==
  ASSUME SameGround
  PROVE  /\ {t \in Tasks : pc[t] # "unborn"}' = {t \in Tasks : pc[t] # "unborn"}
         /\ {c \in Clients : servedBy[c] # NoTask}'
                = {c \in Clients : servedBy[c] # NoTask}
         /\ (server # "running")' = (server # "running")
  BY DEF SameGround

\* Who leaves a bucket leaves the audience; who is in none does so unnoticed.
LEMMA UnsubscribeImplements ==
  ASSUME Inv, NEW c \in Clients, Unsubscribe(c)
  PROVE  Abstract!Next \/ UNCHANGED Abstract!vars
<1> DEFINE k == clientKey[c]
<1>1. k \in Keys
  BY DEF Unsubscribe, Inv, EndpointConsistent
<1>2. SameGround /\ clientItems' = clientItems
  BY DEF SameGround, Unsubscribe
<1>3. CASE c \in Bucket(k)
  <2>1. /\ upstreamTasks[k] # NoTask
        /\ activeStreams[k] = Bucket(k)
        /\ Bucket(k) # {}
        /\ Bucket(k) = Audience(upstreamTasks[k])
        /\ upstreamTasks[k] \in Tasks
    BY <1>1, <1>3, AudienceIsBucket DEF Inv, RegistryConsistent, Bucket
  <2>2. Bucket(k) \ {c} = {} <=> Bucket(k) \subseteq {c}
    OBVIOUS
  <2>3. /\ upstreamTasks' = [upstreamTasks EXCEPT
               ![k] = IF Bucket(k) \subseteq {c} THEN NoTask ELSE @]
        /\ activeStreams' = [activeStreams EXCEPT
               ![k] = IF Bucket(k) \subseteq {c} THEN NoBucket ELSE @ \ {c}]
    BY <1>1, <2>1, <2>2 DEF Unsubscribe, Inv, TypeOK, RegistryConsistent
  <2>4. Abstract!Lose(k, {c})
    BY <1>1, <2>1, <2>3, LosesAudience
  <2>5. Abstract!Leave(k, c)
    BY <1>2, <1>3, <2>1, <2>4, GroundIsKept DEF Abstract!Leave
  <2>. QED
    BY <1>1, <2>5 DEF Abstract!Next
<1>4. CASE c \notin Bucket(k)
  <2>1. Bucket(k) \ {c} = Bucket(k)
    BY <1>4
  <2>2. UNCHANGED <<activeStreams, upstreamTasks>>
    BY <1>1, <2>1 DEF Unsubscribe, Inv, TypeOK, RegistryConsistent, Bucket
  <2>3. SilentStep
    BY <1>2, <2>2 DEF SilentStep, SameGround
  <2>. QED
    BY <2>3, SilentStepStutters
<1>. QED
  BY <1>3, <1>4

\* What the registered handler of a key takes from its stream is sent to the
\* whole audience.
LEMMA ItemArrivesImplements ==
  ASSUME Inv, lost = {}, NEW t \in Tasks, ItemArrives(t)
  PROVE  Abstract!Next
<1> DEFINE k == taskKey[t]
<1>1. k \in Keys /\ upstreamTasks[k] = t /\ clientItems[t] = {}
  BY DEF Inv, NoStrayHandler, UnbornIsBlank, HandlerConsistent, ItemArrives, Running
<1>2. t # NoTask /\ Audience(t) = Bucket(k) /\ Bucket(k) # {}
  BY <1>1, AudienceIsBucket
<1>3. /\ clientItems' = [clientItems EXCEPT ![t] = Bucket(k)]
      /\ UNCHANGED <<activeStreams, upstreamTasks>>
  BY <1>2 DEF ItemArrives
<1>4. SameGround
  BY <1>2 DEF SameGround, ItemArrives, Inv, TypeOK
<1>5. [u \in Tasks |-> Audience(u)]' = [u \in Tasks |-> Audience(u)]
  BY <1>3 DEF Audience, Bucket
<1>6. Abstract!Deliver(k)
  BY <1>1, <1>2, <1>3, <1>4, <1>5, GroundIsKept DEF Abstract!Deliver
<1>. QED
  BY <1>1, <1>6 DEF Abstract!Next

\* The sends are over: the dead leave the audience, and the session if it was
\* all of it.
LEMMA SendsDoneImplements ==
  ASSUME Inv, lost = {}, NEW t \in Tasks,
         NEW dead \in SUBSET clientItems[t], SendsDone(t, dead)
  PROVE  Abstract!Next
<1> DEFINE k == taskKey[t]
<1>1. k \in Keys /\ upstreamTasks[k] = t /\ clientItems[t] # {} /\ dead \subseteq Clients
  BY DEF Inv, TypeOK, NoStrayHandler, UnbornIsBlank, HandlerConsistent,
     SendsDone, Running
<1>2. /\ t # NoTask /\ Audience(t) = Bucket(k) /\ Bucket(k) # {}
      /\ activeStreams[k] = Bucket(k) /\ activeStreams[k] # NoBucket
  BY <1>1, AudienceIsBucket DEF Inv, RegistryConsistent
<1>3. Bucket(k) \ dead = {} <=> Bucket(k) \subseteq dead
  OBVIOUS
<1>4. /\ clientItems' = [clientItems EXCEPT ![t] = {}]
      /\ upstreamTasks' = [upstreamTasks EXCEPT
             ![k] = IF Bucket(k) \subseteq dead THEN NoTask ELSE @]
      /\ activeStreams' = [activeStreams EXCEPT
             ![k] = IF Bucket(k) \subseteq dead THEN NoBucket ELSE @ \ dead]
      /\ SameGround
  <2>1. CASE Bucket(k) \subseteq dead
    <3>1. Finally(t, [activeStreams EXCEPT ![k] = NoBucket],
                     [upstreamTasks EXCEPT ![k] = NoTask])
      BY <1>2, <1>3, <2>1 DEF SendsDone
    <3>2. [upstreamTasks EXCEPT ![k] = NoTask][k] # t
      BY <1>1, <1>2 DEF Inv, TypeOK
    <3>. QED
      BY <1>1, <1>2, <2>1, <3>1, <3>2 DEF Finally, SendsDone, SameGround, Inv, TypeOK
  <2>2. CASE ~(Bucket(k) \subseteq dead)
    BY <1>1, <1>2, <1>3, <2>2 DEF SendsDone, SameGround, Inv, TypeOK
  <2>. QED
    BY <2>1, <2>2
<1>5. Abstract!Lose(k, dead)
  BY <1>1, <1>2, <1>4, LosesAudience
<1>6. dead = {} => [u \in Tasks |-> Audience(u)]' = [u \in Tasks |-> Audience(u)]
                   /\ upstreamTasks' = upstreamTasks
  BY <1>1, <1>2, <1>4 DEF Audience, Bucket, Inv, TypeOK
<1>7. Abstract!Settle(k, dead)
  BY <1>1, <1>2, <1>4, <1>5, <1>6, GroundIsKept DEF Abstract!Settle
<1>. QED
  BY <1>1, <1>7 DEF Abstract!Next

\* The stream of a registered handler ends, and the session with it.
LEMMA StreamEndsImplements ==
  ASSUME Inv, lost = {}, NEW t \in Tasks, StreamEnds(t)
  PROVE  Abstract!Next
<1> DEFINE k == taskKey[t]
<1>1. k \in Keys /\ upstreamTasks[k] = t /\ clientItems[t] = {}
  BY DEF Inv, NoStrayHandler, UnbornIsBlank, HandlerConsistent, StreamEnds, Running
<1>2. t # NoTask /\ Audience(t) = Bucket(k) /\ Bucket(k) \subseteq Clients
  BY <1>1, AudienceIsBucket DEF Inv, TypeOK, Bucket
<1>3. /\ upstreamTasks' = [upstreamTasks EXCEPT ![k] = NoTask]
      /\ activeStreams' = [activeStreams EXCEPT ![k] = NoBucket]
      /\ clientItems' = clientItems
      /\ SameGround
  BY <1>1 DEF StreamEnds, Finally, SameGround, Inv, TypeOK
<1>4. Abstract!Lose(k, Bucket(k))
  BY <1>1, <1>2, <1>3, LosesAudience
<1>5. [u \in Tasks |-> Audience(u)]'
          = [[u \in Tasks |-> Audience(u)] EXCEPT ![t] = {}]
  <2>1. [u \in Tasks |-> Audience(u)]'
            = [[u \in Tasks |-> Audience(u)] EXCEPT ![t] = @ \ Bucket(k)]
    BY <1>1, <1>4 DEF Abstract!Lose
  <2>2. Audience(t) \ Bucket(k) = {}
    BY <1>2
  <2>. QED
    BY <2>1, <2>2
<1>6. Abstract!Fail(k)
  BY <1>1, <1>2, <1>3, <1>5, GroundIsKept DEF Abstract!Fail
<1>. QED
  BY <1>1, <1>6 DEF Abstract!Next

\* Who is cancelled is registered no longer: what it was sending is abandoned.
LEMMA CancelDeliveredImplements ==
  ASSUME Inv, NEW t \in Tasks, CancelDelivered(t)
  PROVE  Abstract!Next \/ UNCHANGED Abstract!vars
<1>1. /\ \A k \in Keys : upstreamTasks[k] # t
      /\ taskKey[t] \in Keys
  BY DEF CancelDelivered, Running, Inv, TypeOK, RegisteredHandlerServes,
     UnbornIsBlank
<1>2. SameGround /\ UNCHANGED <<activeStreams, upstreamTasks>>
  BY <1>1 DEF CancelDelivered, Running, SameGround, Finally, Inv, TypeOK
<1>3. [u \in Tasks |-> Audience(u)]' = [u \in Tasks |-> Audience(u)]
  BY <1>2 DEF Audience, Bucket
<1>4. CASE clientItems[t] = {}
  <2>1. clientItems' = clientItems \/ clientItems' = [clientItems EXCEPT ![t] = {}]
    BY DEF CancelDelivered, Finally
  <2>2. clientItems' = clientItems
    <3>1. clientItems \in [Tasks -> SUBSET Clients]
      BY DEF Inv, TypeOK
    <3>2. [clientItems EXCEPT ![t] = {}] = clientItems
      BY <1>4, <3>1
    <3>. QED
      BY <2>1, <3>2
  <2>3. SilentStep
    BY <1>2, <2>2 DEF SilentStep, SameGround
  <2>. QED
    BY <2>3, SilentStepStutters
<1>5. CASE clientItems[t] # {}
  <2>1. clientItems' = [clientItems EXCEPT ![t] = {}]
    BY <1>5 DEF CancelDelivered, Finally, Inv, HandlerConsistent
  <2>2. Abstract!Abandon(t)
    BY <1>1, <1>2, <1>3, <1>5, <2>1, GroundIsKept DEF Abstract!Abandon
  <2>. QED
    BY <2>2 DEF Abstract!Next
<1>. QED
  BY <1>4, <1>5

\* Shutdown empties every bucket and ends every session.
LEMMA ShutdownBeginsImplements ==
  ASSUME Inv, ShutdownBegins
  PROVE  Abstract!Next
<1>1. /\ upstreamTasks' = [k \in Keys |-> NoTask]
      /\ activeStreams' = [k \in Keys |-> NoBucket]
      /\ server = "running" /\ server' # "running"
      /\ UNCHANGED <<clientItems, pc, servedBy>>
  BY DEF ShutdownBegins
<1>2. \A t \in Tasks : Audience(t)' = {}
  BY <1>1 DEF Audience, Bucket
<1>3. [t \in Tasks |-> Audience(t)]' = [t \in Tasks |-> {}]
  BY <1>2
<1>4. Abstract!GoDown
  BY <1>1, <1>3 DEF Abstract!GoDown
<1>. QED
  BY <1>4 DEF Abstract!Next

\* Every step is a step of a session or invisible, as long as no cancel is lost.
LEMMA NextImplements == Inv /\ [Next]_vars => [FanOutOrStray]_(Abstract!vars)
<1> SUFFICES ASSUME Inv, [Next]_vars, lost = {}
             PROVE  Abstract!Next \/ UNCHANGED Abstract!vars
  BY DEF FanOutOrStray
<1>1. ASSUME NEW c \in Clients, EndpointNext(c)
      PROVE  Abstract!Next \/ UNCHANGED Abstract!vars
  <2>1. CASE \E k \in Keys : Subscribe(c, k)
    BY <2>1, SubscribeImplements
  <2>2. CASE Unsubscribe(c)
    BY <2>2, UnsubscribeImplements
  <2>3. CASE Reject(c) \/ Disconnect(c) \/ CancelAgain(c) \/ UnsubscribeReturns(c)
    BY <2>3, SilentStepStutters DEF SilentStep, Reject, Disconnect, CancelAgain,
       UnsubscribeReturns
  <2>. QED
    BY <1>1, <2>1, <2>2, <2>3 DEF EndpointNext
<1>2. ASSUME NEW t \in Tasks, HandlerNext(t)
      PROVE  Abstract!Next \/ UNCHANGED Abstract!vars
  <2>1. CASE \E dead \in SUBSET clientItems[t] : SendsDone(t, dead)
    BY <2>1, SendsDoneImplements
  <2>2. CASE ItemArrives(t) \/ StreamEnds(t)
    BY <2>2, ItemArrivesImplements, StreamEndsImplements
  <2>3. CASE CancelDelivered(t)
    BY <2>3, CancelDeliveredImplements
  <2>4. CASE HandlerStarts(t) \/ StreamOpens(t)
    BY <2>4, SilentStepStutters DEF SilentStep, HandlerStarts, StreamOpens, Inv, TypeOK
  <2>5. CASE \E c \in Clients : FinalCloseDone(t, c) \/ SpawnedCloseDone(t, c)
    <3>1. SilentStep
      BY <2>5 DEF SilentStep, FinalCloseDone, SpawnedCloseDone, Inv, TypeOK,
         HandlerConsistent
    <3>. QED
      BY <3>1, SilentStepStutters
  <2>. QED
    BY <1>2, <2>1, <2>2, <2>3, <2>4, <2>5 DEF HandlerNext
<1>3. CASE ShutdownNext
  <2>1. CASE ShutdownBegins
    BY <2>1, ShutdownBeginsImplements
  <2>2. CASE ShutdownTasksDone \/ ShutdownReturns
    BY <2>2, SilentStepStutters DEF SilentStep, ShutdownTasksDone, ShutdownReturns
  <2>. QED
    BY <1>3, <2>1, <2>2 DEF ShutdownNext
<1>4. CASE UNCHANGED vars
  BY <1>4, SilentStepStutters DEF SilentStep, vars
<1>. QED
  BY <1>1, <1>2, <1>3, <1>4 DEF Next, Terminated

\* Until a cancel is lost, the stream manager does what FanOut allows: one
\* session per key at a time, serving exactly who joined it and has not left.
THEOREM ManagerImplementsFanOut == Spec => ImplementsFanOut
<1>1. Init => Abstract!Init
  <2> SUFFICES ASSUME Init PROVE Abstract!Init
    OBVIOUS
  <2>1. [t \in Tasks |-> Audience(t)] = [t \in Tasks |-> {}]
    BY DEF Init, Audience, Bucket
  <2>2. {t \in Tasks : pc[t] # "unborn"} = {}
    BY DEF Init
  <2>3. {c \in Clients : servedBy[c] # NoTask} = {}
    BY DEF Init
  <2>. QED
    BY <2>1, <2>2, <2>3 DEF Init, Abstract!Init
<1>. QED
  BY <1>1, NextImplements, InvHolds, PTL DEF Spec, ImplementsFanOut

=============================================================================
