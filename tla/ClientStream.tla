---------------------------- MODULE ClientStream ----------------------------
(***************************************************************************)
(* A stream of the synchronous client SDK: subscribe and stream of         *)
(* src/client/exchange_router_client/_core.py on the client's event loop,  *)
(* _LoopThread.iterate of client.py between the loop's thread and the      *)
(* consumer's, and the service's endpoint at the other end.                *)
(*                                                                         *)
(* A step is the code of one thread between two operations on the bounded  *)
(* queue they share, or between two awaits.  Messages are numbered.        *)
(***************************************************************************)
EXTENDS Naturals, Sequences

CONSTANTS
    Buffer,      \* STREAM_BUFFER_MAX
    MaxMessage,  \* bound: the messages of the service
    MaxFaults    \* bound: the times that a connection is lost or refused

VARIABLES
    asked,     \* what the service makes of the subscription
    loop,      \* the loop's thread runs until the client is closed
    pump,      \* where the pump is suspended, or "ended"
    offered,   \* what offer has still to put into the queue
    full,      \* offer has met a full queue and is about to drop an item
    items,     \* the queue between the threads
    consumer,  \* the consumer's thread
    sent,      \* the last message of the service
    read,      \* the last message that the consumer has read
    faults,    \* connections lost or refused so far
    dropped    \* history: offer has dropped an error

vars == <<asked, loop, pump, offered, full, items, consumer, sent, read,
          faults, dropped>>

\* An unknown exchange or market is refused before the connection is open, an
\* unknown channel after it.
Asked == {"channel", "unknown_channel", "unknown_market"}

\* What may be in the queue, apart from messages, and in this order.
Error    == MaxMessage + 1
Sentinel == MaxMessage + 2

Init ==
    /\ asked \in Asked
    /\ loop = "running"
    /\ pump = "connecting"
    /\ offered = <<>>
    /\ full = FALSE
    /\ items = <<>>
    /\ consumer = "reading"
    /\ sent = 0
    /\ read = 0
    /\ faults = 0
    /\ dropped = FALSE

-----------------------------------------------------------------------------
(* stream, subscribe and the pump: awaits on the loop's thread *)

Awaits == loop = "running" /\ offered = <<>>
Gone   == consumer \in {"left", "raised", "ended"}

\* The pump ends. Unless it was cancelled, offer gets the error first.
PumpEnds(last) == pump' = "ended" /\ offered' = last

\* The service accepts the connection and subscribes the client, or it closes
\* with code 1003. What it closes before accepting is a failed handshake, which
\* has no close code.
Connects ==
    /\ Awaits /\ pump = "connecting"
    /\ CASE asked = "channel" -> pump' = "open" /\ UNCHANGED offered
         [] asked = "unknown_channel" -> PumpEnds(<<Error, Sentinel>>)
         [] asked = "unknown_market" -> pump' = "pausing" /\ UNCHANGED offered
    /\ UNCHANGED <<asked, loop, full, items, consumer, sent, read, faults, dropped>>

Receives ==
    /\ Awaits /\ pump = "open"
    /\ sent < MaxMessage
    /\ sent' = sent + 1
    /\ offered' = <<sent'>>
    /\ UNCHANGED <<asked, loop, pump, full, items, consumer, read, faults, dropped>>

\* Mutant: a stream whose upstream has ended is over.
Loses_ForGood ==
    /\ Awaits /\ pump \in {"connecting", "open"}
    /\ faults < MaxFaults
    /\ faults' = faults + 1
    /\ PumpEnds(<<Sentinel>>)
    /\ UNCHANGED <<asked, loop, full, items, consumer, sent, read, dropped>>

\* The service cannot be reached, or it closes with another code, which the end
\* of the upstream and the service's shutdown do.
Loses ==
    /\ Awaits /\ pump \in {"connecting", "open"}
    /\ faults < MaxFaults
    /\ faults' = faults + 1
    /\ pump' = "pausing"
    /\ UNCHANGED <<asked, loop, offered, full, items, consumer, sent, read, dropped>>

\* The subscription does not get to the service in time: code 1008.
HandshakeTimesOut ==
    /\ Awaits /\ pump = "connecting"
    /\ faults < MaxFaults
    /\ faults' = faults + 1
    /\ PumpEnds(<<Error, Sentinel>>)
    /\ UNCHANGED <<asked, loop, full, items, consumer, sent, read, dropped>>

\* After two seconds.
Reconnects ==
    /\ Awaits /\ pump = "pausing"
    /\ pump' = "connecting"
    /\ UNCHANGED <<asked, loop, offered, full, items, consumer, sent, read,
                   faults, dropped>>

\* Mutant: the cancel stands after the loop and not in a finally.
Cancelled_UnlessClosed ==
    /\ Awaits /\ Gone /\ consumer # "left" /\ pump # "ended"
    /\ PumpEnds(<<Sentinel>>)
    /\ UNCHANGED <<asked, loop, full, items, consumer, sent, read, faults, dropped>>

\* The cancel of a consumer that is gone.
Cancelled ==
    /\ Awaits /\ Gone /\ pump # "ended"
    /\ PumpEnds(<<Sentinel>>)
    /\ UNCHANGED <<asked, loop, full, items, consumer, sent, read, faults, dropped>>

-----------------------------------------------------------------------------
(* offer: the consumer's thread may run between any two of its calls *)

\* Mutant: what does not fit is lost.
Offers_Once ==
    /\ loop = "running" /\ offered # <<>> /\ ~full
    /\ offered' = Tail(offered)
    /\ items' = IF Len(items) < Buffer THEN Append(items, Head(offered))
                                       ELSE items
    /\ UNCHANGED <<asked, loop, pump, full, consumer, sent, read, faults, dropped>>

\* put_nowait.
Offers ==
    /\ loop = "running" /\ offered # <<>> /\ ~full
    /\ IF Len(items) < Buffer
       THEN /\ items' = Append(items, Head(offered))
            /\ offered' = Tail(offered)
            /\ UNCHANGED full
       ELSE full' = TRUE /\ UNCHANGED <<items, offered>>
    /\ UNCHANGED <<asked, loop, pump, consumer, sent, read, faults, dropped>>

\* get_nowait, of what is the oldest item by now, if any is left.
Drops ==
    /\ loop = "running" /\ full
    /\ full' = FALSE
    /\ items' = SubSeq(items, 2, Len(items))
    /\ dropped' = (dropped \/ (items # <<>> /\ Head(items) = Error))
    /\ UNCHANGED <<asked, loop, pump, offered, consumer, sent, read, faults>>

-----------------------------------------------------------------------------
(* iterate: the consumer's thread *)

Reads ==
    /\ consumer = "reading" /\ items # <<>>
    /\ items' = Tail(items)
    /\ CASE Head(items) = Error -> consumer' = "raised" /\ UNCHANGED read
         [] Head(items) = Sentinel -> consumer' = "ended" /\ UNCHANGED read
         [] OTHER -> consumer' = "handling" /\ read' = Head(items)
    /\ UNCHANGED <<asked, loop, pump, offered, full, sent, faults, dropped>>

\* The consumer asks for the next message, or closes the generator.
GoesOn ==
    /\ consumer = "handling"
    /\ consumer' \in {"reading", "left"}
    /\ UNCHANGED <<asked, loop, pump, offered, full, items, sent, read, faults,
                   dropped>>

\* close of the client stops the loop where it is, whatever runs on it.
Closes ==
    /\ loop = "running"
    /\ loop' = "stopped"
    /\ UNCHANGED <<asked, pump, offered, full, items, consumer, sent, read,
                   faults, dropped>>

Step == Connects \/ Receives \/ Reconnects \/ Cancelled \/ Offers \/ Drops

Next == \/ Step \/ Loses \/ HandshakeTimesOut
        \/ Reads \/ GoesOn \/ Closes

\* The loop's thread runs; the consumer goes on with every message it gets.
Fairness ==
    /\ WF_vars(Step)
    /\ WF_vars(Cancelled)
    /\ WF_vars(Reads) /\ WF_vars(GoesOn)

Spec     == Init /\ [][Next]_vars
FairSpec == Spec /\ Fairness

-----------------------------------------------------------------------------
(* Correctness *)

TypeOK ==
    /\ asked \in Asked
    /\ loop \in {"running", "stopped"}
    /\ pump \in {"connecting", "open", "pausing", "ended"}
    /\ offered \in Seq(1..Sentinel) /\ Len(offered) <= 2
    /\ full \in BOOLEAN /\ dropped \in BOOLEAN
    /\ items \in Seq(1..Sentinel) /\ Len(items) <= Buffer
    /\ consumer \in {"reading", "handling", "left", "raised", "ended"}
    /\ {sent, read, faults} \subseteq 0..MaxMessage + MaxFaults

\* An error that ends the pump is raised by the consumer's generator, after
\* messages in their order, though offer drops items: a stream ends in silence
\* only if the consumer emptied the queue up to the error between offer's
\* put_nowait and its get_nowait.
ErrorsReachConsumer ==
    /\ consumer = "ended" => dropped
    /\ \A i, j \in DOMAIN items : i < j => items[i] < items[j]
    /\ items # <<>> => read < Head(items)

\* However often its connection is lost, a consumer reads on to the last
\* message, or is told why not, until it leaves or the client is closed.
Settled ==
    \/ read = MaxMessage
    \/ consumer \in {"left", "raised"}
    \/ loop = "stopped"
    \/ dropped
StreamGoesOn == asked = "channel" ~> Settled

\* The connection of a consumer that leaves is given back.
GivenBack == pump = "ended" \/ loop = "stopped"
ConnectionsAreGivenBack == consumer = "left" ~> GivenBack

\* "It does not retry a deliberate rejection" (Python_SDK.md).
RejectionsAreRaised ==
    asked # "channel" ~> consumer = "raised" \/ loop = "stopped"

=============================================================================
