--------------------------- MODULE StreamHubProofs ---------------------------
(***************************************************************************)
(* Proofs about StreamHub, for any topics, any consumers and any number of *)
(* breaks.                                                                 *)
(*                                                                         *)
(* That nobody starves is not inductive: a queue whose topic is not        *)
(* announced yet must have somebody left who will do it, also while the    *)
(* connection is still being announced on, and whoever waits when the      *)
(* connection is there must have been woken by it.  Inv adds these facts.  *)
(***************************************************************************)
EXTENDS StreamHub, TLAPS

\* A queue is in the list of its consumer's topic, and of no other.
QueuesMatch ==
    \A c \in Consumers :
        /\ con[c] # "idle" => topicOf[c] \in Topics
        /\ \A t \in Topics : c \in queues[t] => con[c] # "idle" /\ topicOf[c] = t

\* The event is set only between the announcement and the end of a connection,
\* and as long as it is set nobody waits for it in vain.
ConnectedWakes ==
    /\ run \in {"none", "connecting", "announcing", "sleeping"} => ~connected
    /\ connected => \A c \in Consumers : con[c] = "waiting" => woken[c]

\* A topic with queues is announced, or will be by somebody who waits, or was
\* given up.
Covered(t) ==
    \/ t \in subscribedTopics
    \/ \E d \in queues[t] : con[d] = "waiting"
    \/ t \in givenUp
QueuesCovered ==
    ws = "up" /\ (connected \/ run = "announcing") =>
        \A t \in TopicsWithQueues : Covered(t)

\* The inductive invariant.
Inv ==
    /\ TypeOK
    /\ ReadersHaveQueues
    /\ AnnouncedIsStreamed
    /\ QueuesMatch
    /\ ConnectedWakes
    /\ QueuesCovered

-----------------------------------------------------------------------------
USE NoTopicAssumption, MaxBreaksAssumption
USE DEF hubVars, consumerVars, wireVars, TopicsWithQueues

\* The invariant holds initially.
LEMMA InitInv == Init => Inv
<1> SUFFICES ASSUME Init PROVE Inv
  OBVIOUS
<1>1. TypeOK
  <2>1. breaks \in 0..MaxBreaks
    BY DEF Init
  <2>2. /\ queues \in [Topics -> SUBSET Consumers]
        /\ con = [c \in Consumers |-> "idle"]
        /\ topicOf = [c \in Consumers |-> NoTopic]
        /\ woken = [c \in Consumers |-> FALSE]
    BY DEF Init
  <2>. QED
    BY <2>1, <2>2 DEF Init, TypeOK
<1>2. ReadersHaveQueues /\ QueuesMatch /\ ConnectedWakes
  BY DEF Init, ReadersHaveQueues, QueuesMatch, ConnectedWakes
<1>3. AnnouncedIsStreamed /\ QueuesCovered
  BY DEF Init, AnnouncedIsStreamed, QueuesCovered
<1>. QED
  BY <1>1, <1>2, <1>3 DEF Inv

\* The first queue of a topic waits, and the others have one that did.
LEMMA SubscribeKeepsInv ==
  ASSUME Inv, NEW c \in Consumers, NEW t \in Topics, Subscribe(c, t)
  PROVE  Inv'
<1> USE DEF Inv, TypeOK
<1>1. TypeOK'
  BY DEF Subscribe
<1>2. /\ topicOf'[c] = t /\ con[c] = "idle"
      /\ con'[c] = IF queues[t] = {} THEN "waiting" ELSE "reading"
      /\ woken'[c] = connected
      /\ queues'[t] = queues[t] \cup {c}
      /\ \A u \in Topics \ {t} : queues'[u] = queues[u]
      /\ \A d \in Consumers \ {c} : /\ topicOf'[d] = topicOf[d]
                                    /\ con'[d] = con[d]
                                    /\ woken'[d] = woken[d]
      /\ UNCHANGED <<subscribedTopics, connected, closed, ws, streamed, givenUp>>
      /\ run' \in {run, "connecting"} /\ (run' # run => run = "none")
  <2>1. /\ con[c] = "idle"
        /\ topicOf' = [topicOf EXCEPT ![c] = t]
        /\ queues' = [queues EXCEPT ![t] = @ \cup {c}]
        /\ con' = [con EXCEPT
               ![c] = IF queues[t] = {} THEN "waiting" ELSE "reading"]
        /\ woken' = [woken EXCEPT ![c] = connected]
        /\ UNCHANGED <<subscribedTopics, connected, closed, ws, streamed, givenUp>>
        /\ run' \in {run, "connecting"} /\ (run' # run => run = "none")
    BY DEF Subscribe
  <2>. QED
    BY <2>1
<1>3. ReadersHaveQueues' /\ QueuesMatch'
  BY <1>1, <1>2 DEF ReadersHaveQueues, QueuesMatch
<1>4. AnnouncedIsStreamed'
  BY <1>2 DEF AnnouncedIsStreamed
<1>5. ConnectedWakes'
  BY <1>2 DEF ConnectedWakes
<1>6. QueuesCovered'
  <2> SUFFICES ASSUME ws' = "up", connected' \/ run' = "announcing",
                      NEW u \in Topics, queues'[u] # {}
               PROVE  Covered(u)'
    BY DEF QueuesCovered
  <2>1. c \notin queues[u]
    BY <1>2 DEF QueuesMatch
  <2>2. CASE queues[u] = {}
    BY <1>2, <2>2 DEF Covered
  <2>3. CASE queues[u] # {}
    <3>1. Covered(u)
      BY <1>2, <2>3 DEF QueuesCovered
    <3>. QED
      BY <1>2, <2>1, <3>1 DEF Covered
  <2>. QED
    BY <2>2, <2>3
<1>. QED
  BY <1>1, <1>3, <1>4, <1>5, <1>6

\* Who gives up waiting does so without a connection.
LEMMA SubscribeTimesOutKeepsInv ==
  ASSUME Inv, NEW c \in Consumers, SubscribeTimesOut(c)
  PROVE  Inv'
<1> USE DEF Inv, TypeOK
<1>1. TypeOK'
  BY DEF SubscribeTimesOut
<1>2. ~(ws = "up" /\ (connected \/ run = "announcing"))
  BY DEF SubscribeTimesOut, ConnectedWakes
<1>3. ReadersHaveQueues' /\ QueuesMatch' /\ AnnouncedIsStreamed' /\ ConnectedWakes'
  BY DEF SubscribeTimesOut, ReadersHaveQueues, QueuesMatch, AnnouncedIsStreamed,
     ConnectedWakes
<1>4. QueuesCovered'
  BY <1>2 DEF SubscribeTimesOut, QueuesCovered
<1>. QED
  BY <1>1, <1>3, <1>4

\* Who is woken announces its topic, unless that has been done.
LEMMA SubscribeWakesKeepsInv ==
  ASSUME Inv, NEW c \in Consumers, SubscribeWakes(c)
  PROVE  Inv'
<1> USE DEF Inv, TypeOK
<1>1. topicOf[c] \in Topics /\ c \in queues[topicOf[c]]
  BY DEF SubscribeWakes, QueuesMatch, ReadersHaveQueues
<1>2. TypeOK'
  BY <1>1 DEF SubscribeWakes, SendSubscribe
<1>3. /\ topicOf[c] \in subscribedTopics'
      /\ subscribedTopics' = subscribedTopics \cup {topicOf[c]}
      /\ con'[c] \in {"reading", "sending"} /\ con[c] = "waiting"
      /\ \A d \in Consumers \ {c} : con'[d] = con[d]
      /\ streamed \subseteq streamed'
      /\ ws = "up" => topicOf[c] \in streamed' \/ topicOf[c] \in subscribedTopics
      /\ UNCHANGED <<queues, connected, run, topicOf, woken, ws, givenUp>>
  BY <1>1 DEF SubscribeWakes, SendSubscribe
<1>4. ReadersHaveQueues' /\ QueuesMatch' /\ ConnectedWakes'
  BY <1>3 DEF ReadersHaveQueues, QueuesMatch, ConnectedWakes
<1>5. AnnouncedIsStreamed'
  BY <1>1, <1>3 DEF AnnouncedIsStreamed
<1>6. QueuesCovered'
  BY <1>1, <1>3 DEF QueuesCovered, Covered, QueuesMatch
<1>. QED
  BY <1>2, <1>4, <1>5, <1>6

\* A subscription that was sent, or was in vain.
LEMMA SubscribeReturnsKeepsInv ==
  ASSUME Inv, NEW c \in Consumers, SubscribeReturns(c)
  PROVE  Inv'
  BY DEF Inv, TypeOK, SubscribeReturns, ReadersHaveQueues, AnnouncedIsStreamed,
     QueuesMatch, ConnectedWakes, QueuesCovered, Covered

\* Who is cancelled while it waits gives its topic up.
LEMMA SubscribeCancelledKeepsInv ==
  ASSUME Inv, NEW c \in Consumers, SubscribeCancelled(c)
  PROVE  Inv'
<1> USE DEF Inv, TypeOK
<1>1. topicOf[c] \in Topics
  BY DEF SubscribeCancelled, QueuesMatch
<1>2. TypeOK'
  BY <1>1 DEF SubscribeCancelled
<1>3. ReadersHaveQueues' /\ QueuesMatch' /\ AnnouncedIsStreamed' /\ ConnectedWakes'
  BY <1>1 DEF SubscribeCancelled, ReadersHaveQueues, QueuesMatch,
     AnnouncedIsStreamed, ConnectedWakes
<1>4. QueuesCovered'
  BY <1>1 DEF SubscribeCancelled, QueuesCovered, Covered, QueuesMatch
<1>. QED
  BY <1>2, <1>3, <1>4

\* The last queue of a topic takes its announcement with it.
LEMMA UnsubscribeKeepsInv ==
  ASSUME Inv, NEW c \in Consumers, Unsubscribe(c)
  PROVE  Inv'
<1> USE DEF Inv, TypeOK
<1> DEFINE t == topicOf[c]
           drop == queues[t] \ {c} = {}
<1>1. t \in Topics
  BY DEF Unsubscribe, QueuesMatch
<1>2. TypeOK'
  BY <1>1 DEF Unsubscribe, SendUnsubscribe
<1>3. /\ queues' = [queues EXCEPT ![t] = @ \ {c}]
      /\ con[c] = "reading" /\ con'[c] \in {"leaving", "gone"}
      /\ \A d \in Consumers \ {c} : con'[d] = con[d]
      /\ subscribedTopics' = IF drop THEN subscribedTopics \ {t}
                                     ELSE subscribedTopics
      /\ givenUp' = IF drop THEN givenUp \ {t} ELSE givenUp
      /\ streamed' # streamed => drop /\ streamed' = streamed \ {t}
      /\ UNCHANGED <<connected, run, topicOf, woken, ws>>
  BY <1>1 DEF Unsubscribe, SendUnsubscribe
<1>4. /\ queues'[t] = queues[t] \ {c}
      /\ \A u \in Topics \ {t} : queues'[u] = queues[u]
  BY <1>1, <1>3
<1>5. ReadersHaveQueues' /\ QueuesMatch' /\ ConnectedWakes'
  BY <1>1, <1>3, <1>4 DEF ReadersHaveQueues, QueuesMatch, ConnectedWakes
<1>6. AnnouncedIsStreamed'
  BY <1>1, <1>3, <1>4 DEF AnnouncedIsStreamed
<1>7. QueuesCovered'
  <2> SUFFICES ASSUME ws = "up", connected \/ run = "announcing",
                      NEW u \in Topics, queues'[u] # {}
               PROVE  Covered(u)'
    BY <1>3 DEF QueuesCovered
  <2>1. queues[u] # {} /\ Covered(u)
    BY <1>4 DEF QueuesCovered
  <2>2. \A d \in queues[u] : con[d] = "waiting" => d # c /\ d \in queues'[u]
    BY <1>3, <1>4
  <2>3. u = t => ~drop
    BY <1>4
  <2>. QED
    BY <1>3, <2>1, <2>2, <2>3 DEF Covered
<1>. QED
  BY <1>2, <1>5, <1>6, <1>7

\* The last message about a topic.
LEMMA UnsubscribeReturnsKeepsInv ==
  ASSUME Inv, NEW c \in Consumers, UnsubscribeReturns(c)
  PROVE  Inv'
  BY DEF Inv, TypeOK, UnsubscribeReturns, ReadersHaveQueues, AnnouncedIsStreamed,
     QueuesMatch, ConnectedWakes, QueuesCovered, Covered

\* A new connection is told of every topic that has queues; those that come
\* before the announcement is over wait for it.
LEMMA RunKeepsInv ==
  ASSUME Inv, RunNext
  PROVE  Inv'
<1> USE DEF Inv, TypeOK
<1>1. CASE Connects
  BY <1>1 DEF Connects, ReadersHaveQueues, AnnouncedIsStreamed, QueuesMatch,
     ConnectedWakes, QueuesCovered, Covered
<1>2. CASE ConnectFails
  BY <1>2 DEF ConnectFails, ReadersHaveQueues, AnnouncedIsStreamed, QueuesMatch,
     ConnectedWakes, QueuesCovered, Covered
<1>3. CASE Announced
  BY <1>3 DEF Announced, ReadersHaveQueues, AnnouncedIsStreamed, QueuesMatch,
     ConnectedWakes, QueuesCovered, Covered
<1>4. CASE Breaks
  BY <1>4 DEF Breaks, ReadersHaveQueues, AnnouncedIsStreamed, QueuesMatch,
     ConnectedWakes, QueuesCovered, Covered
<1>5. CASE Disconnects
  BY <1>5 DEF Disconnects, ReadersHaveQueues, AnnouncedIsStreamed, QueuesMatch,
     ConnectedWakes, QueuesCovered
<1>6. CASE Reconnects
  BY <1>6 DEF Reconnects, ReadersHaveQueues, AnnouncedIsStreamed, QueuesMatch,
     ConnectedWakes, QueuesCovered, Covered
<1>7. CASE RunCancelled
  BY <1>7 DEF RunCancelled, ReadersHaveQueues, AnnouncedIsStreamed, QueuesMatch,
     ConnectedWakes, QueuesCovered
<1>. QED
  BY <1>1, <1>2, <1>3, <1>4, <1>5, <1>6, <1>7 DEF RunNext

\* The hub closes.
LEMMA CloseKeepsInv ==
  ASSUME Inv, Close
  PROVE  Inv'
  BY DEF Inv, TypeOK, Close, ReadersHaveQueues, AnnouncedIsStreamed, QueuesMatch,
     ConnectedWakes, QueuesCovered, Covered

-----------------------------------------------------------------------------
\* Every step keeps the invariant.
LEMMA NextKeepsInv == Inv /\ [Next]_vars => Inv'
<1> SUFFICES ASSUME Inv, [Next]_vars PROVE Inv'
  OBVIOUS
<1>1. ASSUME NEW c \in Consumers, ConsumerNext(c) PROVE Inv'
  BY <1>1, SubscribeKeepsInv, SubscribeTimesOutKeepsInv, SubscribeWakesKeepsInv,
     SubscribeReturnsKeepsInv, SubscribeCancelledKeepsInv, UnsubscribeKeepsInv,
     UnsubscribeReturnsKeepsInv DEF ConsumerNext
<1>2. CASE UNCHANGED vars
  BY <1>2 DEF vars, Inv, TypeOK, ReadersHaveQueues, AnnouncedIsStreamed,
     QueuesMatch, ConnectedWakes, QueuesCovered, Covered
<1>. QED
  BY <1>1, <1>2, RunKeepsInv, CloseKeepsInv DEF Next, Terminated

\* The invariant holds throughout.
LEMMA InvHolds == Spec => []Inv
  BY InitInv, NextKeepsInv, PTL DEF Spec

-----------------------------------------------------------------------------
\* The hub, its readers and the exchange agree on what is read: no reader loses
\* its queue to another, and what the hub believes announced is streamed on a
\* working connection and read by somebody.
THEOREM HubStaysConsistent == Spec => []HubConsistent
<1>1. Inv => HubConsistent
  BY DEF Inv, HubConsistent
<1>. QED
  BY <1>1, InvHolds, PTL

\* On a working connection nobody reads a topic that is neither streamed nor
\* about to be announced, unless its first consumer was cancelled in subscribe.
THEOREM NobodyElseStarves == Spec => []StarvedOnlyWhenGivenUp
<1>1. Inv => StarvedOnlyWhenGivenUp
  <2> SUFFICES ASSUME Inv, NEW c \in Consumers,
                      con[c] = "reading", connected, ws = "up"
               PROVE  \/ topicOf[c] \in streamed
                      \/ OnItsWay(topicOf[c])
                      \/ topicOf[c] \in givenUp
    BY DEF StarvedOnlyWhenGivenUp
  <2>1. topicOf[c] \in Topics /\ c \in queues[topicOf[c]]
    BY DEF Inv, QueuesMatch, ReadersHaveQueues
  <2>2. Covered(topicOf[c])
    BY <2>1 DEF Inv, QueuesCovered
  <2>3. \A d \in queues[topicOf[c]] : con[d] = "waiting" => woken[d]
    BY <2>1 DEF Inv, TypeOK, ConnectedWakes
  <2>. QED
    BY <2>2, <2>3 DEF Covered, OnItsWay, Inv, AnnouncedIsStreamed
<1>. QED
  BY <1>1, InvHolds, PTL

=============================================================================
