---------------------------- MODULE DeltaStreams ----------------------------
(***************************************************************************)
(* What the readers of one topic make of its messages: the books of the    *)
(* stream_orderbook generators (and the tops and tickers built likewise),  *)
(* rebuilt from a snapshot and the updates that follow it, over the hub's  *)
(* bounded queues, late joiners and reconnects.                            *)
(*                                                                         *)
(* The hub is StreamHub with one topic; its steps are taken together with  *)
(* what they do to the messages.  A book is the set of its price levels,   *)
(* each change of the exchange's book adds or removes one, and a message   *)
(* is either full or one change.  Changes are numbered; the real sequence  *)
(* numbers differ in nothing but that OKX sends the previous one along.    *)
(***************************************************************************)
EXTENDS Naturals, Sequences

CONSTANTS
    Topic,      \* the topic
    Consumers,  \* as in StreamHub
    NoTopic,    \* as in StreamHub
    MaxBreaks,  \* as in StreamHub
    Streams,    \* the generators whose code is considered
    Levels,     \* price levels
    QueueSize,  \* _queue_size
    MaxChanges  \* bound: changes of the exchange's book, its first included

ASSUME StreamsAssumption ==
    Streams \subseteq {"okx_books", "bybit_orderbook", "kraken_book",
                       "bybit_ticker", "binance_depth", "hyperliquid_l2"}
ASSUME BoundsAssumption == {QueueSize, MaxChanges} \subseteq Nat \ {0}

VARIABLES
    queues, subscribedTopics, connected, run, closed, con, topicOf, woken, ws,
    streamed, breaks, givenUp

hub == <<queues, subscribedTopics, connected, run, closed, con, topicOf, woken,
         ws, streamed, breaks, givenUp>>

Hub == INSTANCE StreamHub WITH Topics <- {Topic}

VARIABLES
    stream,       \* whose code the readers run
    past,         \* the exchange's book after each of its changes
    wire,         \* messages sent on the connection that _run has not read
    queue,        \* the messages in each consumer's queue
    reader,       \* the generator above each consumer: "idle", "on", "ended"
    book,         \* its bids and asks, or its state
    bootstrapped, \* its bootstrapped
    last,         \* its last_seq or last_u, 0 for None; history where the code
                  \* has none
    joined,       \* history: how the consumer came to the topic since the last
                  \* connect: "fresh", or while it was streamed already, for
                  \* another generator ("shared") or for none ("leftover")
    missed        \* history: a message was dropped from its queue or skipped,
                  \* and no snapshot read since

readerVars == <<reader, book, bootstrapped, last, missed>>
vars == <<hub, stream, past, wire, queue, readerVars, joined>>

\* The updates of these carry numbers that are checked.
Sequenced == stream \in {"okx_books", "bybit_orderbook"}
\* Every message of these is a whole book.
WholeBooks == stream \in {"binance_depth", "hyperliquid_l2"}
\* These go on after a message that does not parse.
SkipsMalformed == stream \in {"binance_depth", "bybit_ticker"}

Init ==
    /\ Hub!Init
    /\ stream \in Streams
    /\ past = <<{}>>
    /\ wire = <<>>
    /\ queue = [c \in Consumers |-> <<>>]
    /\ reader = [c \in Consumers |-> "idle"]
    /\ book = [c \in Consumers |-> {}]
    /\ bootstrapped = [c \in Consumers |-> FALSE]
    /\ last = [c \in Consumers |-> 0]
    /\ joined = [c \in Consumers |-> "fresh"]
    /\ missed = [c \in Consumers |-> FALSE]

-----------------------------------------------------------------------------
(* The exchange *)

Snapshot == [full |-> TRUE, at |-> Len(past)]

\* The exchange is told of the topic. Streams with updates begin with a
\* snapshot, the others may; a SUBSCRIBE for what is streamed already may be
\* answered with an error only.
Answers ==
    \/ wire' = Append(wire, Snapshot)
    \/ (WholeBooks \/ Topic \in streamed) /\ UNCHANGED wire

\* A level of the exchange's book appears or goes.
Changes ==
    /\ Len(past) < MaxChanges
    /\ \E l \in Levels :
           LET b == past[Len(past)]
           IN  past' = Append(past, IF l \in b THEN b \ {l} ELSE b \cup {l})
    /\ wire' = IF Topic \in streamed
               THEN Append(wire, [full |-> WholeBooks, at |-> Len(past')])
               ELSE wire
    /\ UNCHANGED <<hub, stream, queue, readerVars, joined>>

-----------------------------------------------------------------------------
(* The steps of the hub, with their messages *)

NoMessages == UNCHANGED <<stream, past, wire, queue, readerVars, joined>>

\* A generator starts and asks for its queue.
Joins(c) ==
    /\ Hub!Subscribe(c, Topic)
    /\ reader' = [reader EXCEPT ![c] = "on"]
    /\ joined' = [joined EXCEPT ![c] =
           CASE Topic \notin streamed                    -> "fresh"
             [] \E d \in Consumers : reader[d] = "on"    -> "shared"
             [] OTHER                                    -> "leftover"]
    /\ UNCHANGED <<stream, past, wire, queue, book, bootstrapped, last, missed>>

\* The consumer announces the topic, unless that has been done.
Announces(c) ==
    /\ Hub!SubscribeWakes(c)
    /\ IF con'[c] = "sending" /\ ws = "up" THEN Answers ELSE UNCHANGED wire
    /\ UNCHANGED <<stream, past, queue, readerVars, joined>>

\* Cancelled in subscribe: the generator is gone, its queue is not. What
\* piles up in a queue without a reader is left out.
GivesUp(c) ==
    /\ Hub!SubscribeCancelled(c)
    /\ reader' = [reader EXCEPT ![c] = "ended"]
    /\ UNCHANGED <<stream, past, wire, queue, book, bootstrapped, last, joined,
                   missed>>

\* The generator returns, "ending stream so clients resync", or is left.
Ends(c) ==
    /\ reader' = [reader EXCEPT ![c] = "ended"]
    /\ UNCHANGED <<book, bootstrapped, last, missed>>

\* The handler leaves its loop while the generator stands at a yield: it is
\* closed later, and with it the _ws_connect below.
Abandoned(c) ==
    /\ reader[c] = "on"
    /\ bootstrapped[c]
    /\ Ends(c)
    /\ queue' = [queue EXCEPT ![c] = <<>>]
    /\ UNCHANGED <<hub, stream, past, wire, joined>>

\* The generator is cancelled at its queue, or the collector closes _ws_connect after
\* it has ended: the queue is given back.
Leaves(c) ==
    /\ Hub!Unsubscribe(c)
    /\ reader' = [reader EXCEPT ![c] = "ended"]
    /\ queue' = [queue EXCEPT ![c] = <<>>]
    /\ UNCHANGED <<stream, past, wire, book, bootstrapped, last, joined, missed>>

\* Mutant: nothing is asked for on a new connection.
Connects_Silent ==
    /\ Hub!Connects
    /\ joined' = [c \in Consumers |-> "fresh"]
    /\ UNCHANGED <<stream, past, wire, queue, readerVars>>

\* A new connection, on which the exchange begins anew.
Connects ==
    /\ Hub!Connects
    /\ IF Topic \in streamed' THEN Answers ELSE UNCHANGED wire
    /\ joined' = [c \in Consumers |-> "fresh"]
    /\ UNCHANGED <<stream, past, queue, readerVars>>

\* The connection goes. What has been read from it by then may be anything
\* of what was sent; the rest is lost.
GoesDown ==
    /\ Hub!Disconnects
    /\ wire' = <<>>
    /\ UNCHANGED <<stream, past, queue, readerVars, joined>>

SubscribeTimesOut(c)  == Hub!SubscribeTimesOut(c) /\ NoMessages
SubscribeReturns(c)   == Hub!SubscribeReturns(c) /\ NoMessages
UnsubscribeReturns(c) == Hub!UnsubscribeReturns(c) /\ NoMessages
ConnectFails          == Hub!ConnectFails /\ NoMessages
Announced             == Hub!Announced /\ NoMessages
Breaks                == Hub!Breaks /\ NoMessages
Reconnects            == Hub!Reconnects /\ NoMessages

Full(q) == Len(q) = QueueSize

\* _run reads a message and puts it into the topic's queues; a full one loses
\* its oldest.
Deliver ==
    /\ run = "reading"
    /\ wire # <<>>
    /\ LET m  == Head(wire)
           to == {c \in queues[Topic] : reader[c] = "on"}
       IN  /\ queue' = [c \in Consumers |->
                  IF c \notin to THEN queue[c]
                  ELSE Append(IF Full(queue[c]) THEN Tail(queue[c])
                              ELSE queue[c], m)]
           /\ missed' = [c \in Consumers |->
                  missed[c] \/ (c \in to /\ Full(queue[c]))]
    /\ wire' = Tail(wire)
    /\ UNCHANGED <<hub, stream, past, reader, book, bootstrapped, last, joined>>

-----------------------------------------------------------------------------
(* The readers *)

HasMessage(c) ==
    /\ reader[c] = "on"
    /\ con[c] = "reading"
    /\ queue[c] # <<>>

\* An update whose predecessor was not the last message.
IsGap(c, m) == Sequenced /\ ~m.full /\ last[c] # 0 /\ m.at # last[c] + 1

\* The book b after change n of the exchange's book.
After(b, n) == (b \ (past[n - 1] \ past[n])) \cup (past[n] \ past[n - 1])

\* Mutant: a snapshot is merged into the book.
Reads_Merges(c) ==
    /\ HasMessage(c)
    /\ LET m == Head(queue[c])
       IN  IF IsGap(c, m)
           THEN Ends(c)
           ELSE /\ last' = [last EXCEPT ![c] = m.at]
                /\ bootstrapped' = [bootstrapped EXCEPT ![c] = @ \/ m.full]
                /\ book' = [book EXCEPT ![c] =
                       IF m.full THEN @ \cup past[m.at]
                       ELSE IF bootstrapped[c] THEN After(@, m.at) ELSE @]
                /\ missed' = [missed EXCEPT ![c] = @ /\ ~m.full]
                /\ UNCHANGED reader
    /\ queue' = [queue EXCEPT ![c] = Tail(@)]
    /\ UNCHANGED <<hub, stream, past, wire, joined>>

\* A message is read and applied: a full one replaces the book, an update
\* changes a book that has been bootstrapped.
Reads(c) ==
    /\ HasMessage(c)
    /\ LET m == Head(queue[c])
       IN  IF IsGap(c, m)
           THEN Ends(c)
           ELSE /\ last' = [last EXCEPT ![c] = m.at]
                /\ bootstrapped' = [bootstrapped EXCEPT ![c] = @ \/ m.full]
                /\ book' = [book EXCEPT ![c] =
                       IF m.full THEN past[m.at]
                       ELSE IF bootstrapped[c] THEN After(@, m.at) ELSE @]
                /\ missed' = [missed EXCEPT ![c] = @ /\ ~m.full]
                /\ UNCHANGED reader
    /\ queue' = [queue EXCEPT ![c] = Tail(@)]
    /\ UNCHANGED <<hub, stream, past, wire, joined>>

\* A message does not parse: it is skipped or ends the generator.
Malformed(c) ==
    /\ HasMessage(c)
    /\ IF SkipsMalformed
       THEN /\ missed' = [missed EXCEPT ![c] = TRUE]
            /\ UNCHANGED <<reader, book, bootstrapped, last>>
       ELSE Ends(c)
    /\ queue' = [queue EXCEPT ![c] = Tail(@)]
    /\ UNCHANGED <<hub, stream, past, wire, joined>>

-----------------------------------------------------------------------------
ConsumerNext(c) ==
    \/ Joins(c)
    \/ Announces(c)
    \/ GivesUp(c)
    \/ Abandoned(c)
    \/ Leaves(c)
    \/ SubscribeTimesOut(c)
    \/ SubscribeReturns(c)
    \/ UnsubscribeReturns(c)
    \/ Reads(c)
    \/ Malformed(c)

\* Everything has come to its end; only then may the system stop.
Terminated ==
    /\ \A c \in Consumers : con[c] = "gone"
    /\ UNCHANGED vars

Next ==
    \/ \E c \in Consumers : ConsumerNext(c)
    \/ Connects
    \/ ConnectFails
    \/ Announced
    \/ Breaks
    \/ GoesDown
    \/ Reconnects
    \/ Deliver
    \/ Changes
    \/ Terminated

Spec == Init /\ [][Next]_vars

\* As for the hub; its task and the readers go on reading.
Fairness ==
    /\ \A c \in Consumers :
           /\ WF_vars(Announces(c))
           /\ WF_vars(SubscribeReturns(c))
           /\ WF_vars(Reads(c) \/ Malformed(c))
    /\ WF_vars(Connects)
    /\ WF_vars(Announced)
    /\ WF_vars(GoesDown)
    /\ WF_vars(Reconnects)
    /\ WF_vars(Deliver)

FairSpec == Spec /\ Fairness

-----------------------------------------------------------------------------
(* Correctness *)

\* The types of the variables of the streams; no queue outgrows its size.
Messages == [full : BOOLEAN, at : 1..MaxChanges]
TypeOK ==
    /\ stream \in Streams
    /\ past \in Seq(SUBSET Levels)
    /\ wire \in Seq(Messages)
    /\ \A c \in Consumers :
           queue[c] \in Seq(Messages) /\ Len(queue[c]) <= QueueSize
    /\ reader \in [Consumers -> {"idle", "on", "ended"}]
    /\ book \in [Consumers -> SUBSET Levels]
    /\ bootstrapped \in [Consumers -> BOOLEAN]
    /\ last \in [Consumers -> 0..MaxChanges]
    /\ joined \in [Consumers -> {"fresh", "shared", "leftover"}]
    /\ missed \in [Consumers -> BOOLEAN]

\* What a generator yields is the exchange's book as it was after the last
\* message read, whatever was dropped, left over from an earlier subscription
\* or sent anew; only where updates carry no number that is checked (Kraken's
\* books, Bybit's ticker) a loss goes unnoticed until the next snapshot.
BookIsTrue ==
    \A c \in Consumers :
        bootstrapped[c] /\ (Sequenced \/ WholeBooks \/ ~missed[c]) =>
            book[c] = past[last[c]]

\* Books are true, and queues within their size.
BooksHold == TypeOK /\ BookIsTrue

\* A generator that rebuilds books has one in the end, unless it joined a
\* stream under way, lost a message, ended, or the hub gave it nothing.
Excused(c) ==
    \/ reader[c] = "ended"
    \/ missed[c]
    \/ Topic \in givenUp
ReadersGetBooks ==
    \A c \in Consumers :
        reader[c] = "on" /\ ~WholeBooks ~>
            bootstrapped[c] \/ joined[c] # "fresh" \/ Excused(c)

=============================================================================
