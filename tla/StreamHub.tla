----------------------------- MODULE StreamHub -----------------------------
(***************************************************************************)
(* The upstream multiplexer: StreamHub of src/exchanges/base.py, the       *)
(* adapters' generators (_ws_connect) that subscribe to it, and what the   *)
(* exchange streams on the one connection the hub keeps.                   *)
(*                                                                         *)
(* StreamHub._lock is never held across an await, so its sections are      *)
(* parts of the steps around them.  The suspension points are: connecting, *)
(* the sends of SUBSCRIBE and UNSUBSCRIBE payloads (their effect is at the *)
(* start, ws.send writes before it waits), the wait for _connected, the    *)
(* next frame, and the sleep before a reconnect.                           *)
(***************************************************************************)
EXTENDS Naturals

CONSTANTS
    Topics,     \* what can be subscribed upstream
    Consumers,  \* generators, each owning one queue of one topic
    NoTopic,    \* the topic of a consumer that has not subscribed
    MaxBreaks   \* bound: how often the exchange may drop the connection

ASSUME NoTopicAssumption == NoTopic \notin Topics
ASSUME MaxBreaksAssumption == MaxBreaks \in Nat

VARIABLES
    queues,      \* _queues: topic -> the consumers with a queue in its list
    subscribedTopics, \* _subscribed_topics
    connected,   \* the _connected event
    run,         \* where the _run task is suspended
    closed,      \* _closed
    con,         \* where each consumer is suspended
    topicOf,     \* the topic of each consumer
    woken,       \* the consumer's wait for _connected has been answered
    ws,          \* _ws: "none", or the connection, "up" or already "broken"
    streamed,    \* the topics the exchange sends on this connection
    breaks,      \* how often the connection was dropped
    givenUp      \* history: topics whose first consumer was cancelled
                 \* before it announced them, since the last connect

hubVars      == <<queues, subscribedTopics, connected, run, closed>>
consumerVars == <<con, topicOf, woken>>
wireVars     == <<ws, streamed, breaks>>
vars == <<hubVars, consumerVars, wireVars, givenUp>>

Init ==
    /\ queues = [t \in Topics |-> {}]
    /\ subscribedTopics = {}
    /\ connected = FALSE
    /\ run = "none"
    /\ closed = FALSE
    /\ con = [c \in Consumers |-> "idle"]
    /\ topicOf = [c \in Consumers |-> NoTopic]
    /\ woken = [c \in Consumers |-> FALSE]
    /\ ws = "none"
    /\ streamed = {}
    /\ breaks = 0
    /\ givenUp = {}

\* A topic is a key of _queues exactly while its list is not empty.
TopicsWithQueues == {t \in Topics : queues[t] # {}}

\* _send_payloads: without a connection nothing is sent, and what is sent on
\* a broken one is lost with a warning.
SendSubscribe(t) ==
    streamed' = IF ws = "up" THEN streamed \cup {t} ELSE streamed
SendUnsubscribe(t) ==
    streamed' = IF ws = "up" THEN streamed \ {t} ELSE streamed

-----------------------------------------------------------------------------
(* The consumers *)

\* subscribe: the queue is registered and the connection task started. The
\* first queue of a topic waits for the connection, the others are done.
Subscribe(c, t) ==
    /\ con[c] = "idle"
    /\ topicOf' = [topicOf EXCEPT ![c] = t]
    /\ queues' = [queues EXCEPT ![t] = @ \cup {c}]
    /\ run' = IF ~closed /\ run = "none" THEN "connecting" ELSE run
    /\ con' = [con EXCEPT
                   ![c] = IF queues[t] = {} THEN "waiting" ELSE "reading"]
    /\ woken' = [woken EXCEPT ![c] = connected]
    /\ UNCHANGED <<subscribedTopics, connected, closed, wireVars, givenUp>>

\* The wait for the connection times out after 30 s and subscribe returns the
\* queue: it "will pick up on reconnect". An announcement on a connection
\* that works is assumed not to take as long.
SubscribeTimesOut(c) ==
    /\ con[c] = "waiting"
    /\ ~woken[c]
    /\ ~(run = "announcing" /\ ws = "up")
    /\ con' = [con EXCEPT ![c] = "reading"]
    /\ UNCHANGED <<hubVars, topicOf, woken, wireVars, givenUp>>

\* Connected: the topic is announced unless the connection already has been
\* told of it.
SubscribeWakes(c) ==
    /\ con[c] = "waiting"
    /\ woken[c]
    /\ IF topicOf[c] \in subscribedTopics
       THEN /\ con' = [con EXCEPT ![c] = "reading"]
            /\ UNCHANGED <<subscribedTopics, streamed>>
       ELSE /\ con' = [con EXCEPT ![c] = "sending"]
            /\ subscribedTopics' = subscribedTopics \cup {topicOf[c]}
            /\ SendSubscribe(topicOf[c])
    /\ UNCHANGED <<queues, connected, run, closed, topicOf, woken, ws, breaks,
                   givenUp>>

SubscribeReturns(c) ==
    /\ con[c] = "sending"
    /\ con' = [con EXCEPT ![c] = "reading"]
    /\ UNCHANGED <<hubVars, topicOf, woken, wireVars, givenUp>>

\* The consumer is cancelled inside subscribe, which is outside the try of
\* _ws_connect: its queue stays where it is.
SubscribeCancelled(c) ==
    /\ con[c] \in {"waiting", "sending"}
    /\ con' = [con EXCEPT ![c] = "gone"]
    /\ givenUp' = IF con[c] = "waiting" THEN givenUp \cup {topicOf[c]}
                  ELSE givenUp
    /\ UNCHANGED <<hubVars, topicOf, woken, wireVars>>

\* Mutant: the topic stays in _subscribed_topics.
Unsubscribe_StaysSubscribed(c) ==
    /\ con[c] = "reading"
    /\ queues' = [queues EXCEPT ![topicOf[c]] = @ \ {c}]
    /\ con' = [con EXCEPT ![c] = "gone"]
    /\ IF queues[topicOf[c]] \ {c} = {} /\ connected
       THEN SendUnsubscribe(topicOf[c])
       ELSE UNCHANGED streamed
    /\ UNCHANGED <<subscribedTopics, connected, run, closed, topicOf, woken, ws,
                   breaks, givenUp>>

\* A consumer that has its queue ends: cancelled at its queue, closed by the
\* garbage collector after its handler left, or ended by a message. The
\* finally of _ws_connect calls unsubscribe.
Unsubscribe(c) ==
    /\ con[c] = "reading"
    /\ LET t    == topicOf[c]
           drop == queues[t] \ {c} = {}
       IN  /\ queues' = [queues EXCEPT ![t] = @ \ {c}]
           /\ subscribedTopics' =
                  IF drop THEN subscribedTopics \ {t} ELSE subscribedTopics
           /\ givenUp' = IF drop THEN givenUp \ {t} ELSE givenUp
           /\ IF drop /\ connected
              THEN /\ SendUnsubscribe(t)
                   /\ con' = [con EXCEPT ![c] = "leaving"]
              ELSE /\ con' = [con EXCEPT ![c] = "gone"]
                   /\ UNCHANGED streamed
    /\ UNCHANGED <<connected, run, closed, topicOf, woken, ws, breaks>>

UnsubscribeReturns(c) ==
    /\ con[c] = "leaving"
    /\ con' = [con EXCEPT ![c] = "gone"]
    /\ UNCHANGED <<hubVars, topicOf, woken, wireVars, givenUp>>

-----------------------------------------------------------------------------
(* The _run task *)

\* Mutant: a new connection is not told of the topics there are.
Connects_NoResubscribe ==
    /\ run = "connecting"
    /\ ws' = "up"
    /\ run' = "announcing"
    /\ givenUp' = {}
    /\ UNCHANGED <<queues, subscribedTopics, connected, closed, consumerVars,
                   streamed, breaks>>

\* The connection is made: what has queues now is announced on it.
Connects ==
    /\ run = "connecting"
    /\ ws' = "up"
    /\ subscribedTopics' = TopicsWithQueues
    /\ streamed' = TopicsWithQueues
    /\ run' = "announcing"
    /\ givenUp' = {}
    /\ UNCHANGED <<queues, connected, closed, consumerVars, breaks>>

ConnectFails ==
    /\ run = "connecting"
    /\ breaks < MaxBreaks
    /\ breaks' = breaks + 1
    /\ run' = "sleeping"
    /\ UNCHANGED <<queues, subscribedTopics, connected, closed, consumerVars,
                   ws, streamed, givenUp>>

\* The announcement has been sent; every consumer waiting is woken.
Announced ==
    /\ run = "announcing"
    /\ run' = "reading"
    /\ connected' = TRUE
    /\ woken' = [c \in Consumers |-> woken[c] \/ con[c] = "waiting"]
    /\ UNCHANGED <<queues, subscribedTopics, closed, con, topicOf, wireVars,
                   givenUp>>

\* The connection breaks, at first unnoticed.
Breaks ==
    /\ ws = "up"
    /\ breaks < MaxBreaks
    /\ breaks' = breaks + 1
    /\ ws' = "broken"
    /\ streamed' = {}
    /\ UNCHANGED <<hubVars, consumerVars, givenUp>>

\* Mutant: the task ends with its first connection.
Disconnects_ForGood ==
    /\ run = "reading"
    /\ ws = "broken"
    /\ connected' = FALSE
    /\ ws' = "none"
    /\ run' = "none"
    /\ UNCHANGED <<queues, subscribedTopics, closed, consumerVars, streamed,
                   breaks, givenUp>>

\* Reading from it raises, or ends; the finally clause runs.
Disconnects ==
    /\ run = "reading"
    /\ ws = "broken"
    /\ connected' = FALSE
    /\ ws' = "none"
    /\ run' = "sleeping"
    /\ UNCHANGED <<queues, subscribedTopics, closed, consumerVars, streamed,
                   breaks, givenUp>>

\* The reconnect delay is over.
Reconnects ==
    /\ run = "sleeping"
    /\ run' = "connecting"
    /\ UNCHANGED <<queues, subscribedTopics, connected, closed, consumerVars,
                   wireVars, givenUp>>

\* Mutant: close does not cancel the task.
Close_NoCancel ==
    /\ ~closed
    /\ closed' = TRUE
    /\ UNCHANGED <<queues, subscribedTopics, connected, run, consumerVars,
                   wireVars, givenUp>>

\* close, called when the service shuts down: _run is cancelled...
Close ==
    /\ ~closed
    /\ closed' = TRUE
    /\ run' = IF run = "none" THEN run ELSE "cancelled"
    /\ UNCHANGED <<queues, subscribedTopics, connected, consumerVars, wireVars,
                   givenUp>>

\* ...and takes the connection down.
RunCancelled ==
    /\ run = "cancelled"
    /\ run' = "none"
    /\ connected' = FALSE
    /\ ws' = "none"
    /\ streamed' = {}
    /\ UNCHANGED <<queues, subscribedTopics, closed, consumerVars, breaks,
                   givenUp>>

-----------------------------------------------------------------------------
ConsumerNext(c) ==
    \/ \E t \in Topics : Subscribe(c, t)
    \/ SubscribeTimesOut(c)
    \/ SubscribeWakes(c)
    \/ SubscribeReturns(c)
    \/ SubscribeCancelled(c)
    \/ Unsubscribe(c)
    \/ UnsubscribeReturns(c)

RunNext ==
    \/ Connects
    \/ ConnectFails
    \/ Announced
    \/ Breaks
    \/ Disconnects
    \/ Reconnects
    \/ RunCancelled

\* Everything has come to its end; only then may the system stop.
Terminated ==
    /\ closed /\ run = "none"
    /\ \A c \in Consumers : con[c] = "gone"
    /\ UNCHANGED vars

Next ==
    \/ \E c \in Consumers : ConsumerNext(c)
    \/ RunNext
    \/ Close
    \/ Terminated

Spec == Init /\ [][Next]_vars

\* A ready coroutine runs, sends come to an end, and connecting succeeds once
\* the faults (at most MaxBreaks) are over. Nothing makes a consumer
\* subscribe or leave, the exchange drop a connection, or the hub close.
Fairness ==
    /\ \A c \in Consumers :
           /\ WF_vars(SubscribeWakes(c))
           /\ WF_vars(SubscribeReturns(c))
           /\ WF_vars(UnsubscribeReturns(c))
    /\ WF_vars(Connects)
    /\ WF_vars(Announced)
    /\ WF_vars(Disconnects)
    /\ WF_vars(Reconnects)
    /\ WF_vars(RunCancelled)

FairSpec == Spec /\ Fairness

-----------------------------------------------------------------------------
(* Correctness *)

\* The types of the variables of the hub.
TypeOK ==
    /\ queues \in [Topics -> SUBSET Consumers]
    /\ subscribedTopics \subseteq Topics
    /\ connected \in BOOLEAN
    /\ run \in {"none", "connecting", "announcing", "reading", "sleeping",
                "cancelled"}
    /\ closed \in BOOLEAN
    /\ con \in [Consumers -> {"idle", "waiting", "sending", "reading", "leaving",
                              "gone"}]
    /\ topicOf \in [Consumers -> Topics \cup {NoTopic}]
    /\ woken \in [Consumers -> BOOLEAN]
    /\ ws \in {"none", "up", "broken"}
    /\ streamed \subseteq Topics
    /\ breaks \in 0..MaxBreaks
    /\ givenUp \subseteq Topics

\* No consumer that is still to read loses its queue to another's
\* unsubscribe, whatever the order in which they come and go.
ReadersHaveQueues ==
    \A c \in Consumers :
        con[c] \in {"waiting", "sending", "reading"} =>
            c \in queues[topicOf[c]]

\* What the hub believes it has announced on a connection, the exchange
\* streams on it, and somebody has a queue for it: a topic that is dropped
\* and taken up again while sends are under way never ends up believed
\* subscribed while the exchange was last told to stop.
AnnouncedIsStreamed ==
    /\ subscribedTopics \subseteq TopicsWithQueues
    /\ ws = "up" => subscribedTopics \subseteq streamed

\* The hub, its readers and the exchange agree on what is read, and the types of
\* the variables.
HubConsistent == TypeOK /\ ReadersHaveQueues /\ AnnouncedIsStreamed

\* Nobody starves on a working connection, except on a topic whose first
\* consumer was cancelled in subscribe: in every other interleaving the first queue of
\* a topic is still on its way to announcing it.
OnItsWay(t) == \E d \in queues[t] : con[d] = "waiting" /\ woken[d]
StarvedOnlyWhenGivenUp ==
    \A c \in Consumers :
        con[c] = "reading" /\ connected /\ ws = "up" =>
            \/ topicOf[c] \in streamed
            \/ OnItsWay(topicOf[c])
            \/ topicOf[c] \in givenUp

\* Whoever subscribes is fed in the end, over any reconnects, unless it leaves
\* or is cancelled, the hub closes or the topic was given up.
SubscribersGetFed ==
    \A c \in Consumers :
        con[c] \in {"waiting", "sending", "reading"} ~>
            \/ topicOf[c] \in streamed
            \/ con[c] \in {"leaving", "gone"}
            \/ closed
            \/ topicOf[c] \in givenUp

\* A closed hub takes its connection down, whatever its task was doing.
CloseEnds == closed ~> run = "none" /\ ws = "none"

=============================================================================
