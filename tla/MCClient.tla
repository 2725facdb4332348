------------------------------ MODULE MCClient ------------------------------
(***************************************************************************)
(* The two ends of the HTTP and WebSocket interface, for TLC: each         *)
(* behaviour is about the client's calls through the routes, about one of  *)
(* its streams, or about the join in the route for open interest.          *)
(***************************************************************************)
EXTENDS Naturals

CONSTANTS
    Parts,                          \* those that a run looks at
    Calls, MaxRetries,              \* ClientRequests
    Buffer, MaxMessage, MaxFaults,  \* ClientStream
    MaxTime, MaxLimit               \* OpenInterestJoin

ASSUME BoundsAssumption ==
    /\ {MaxRetries, Buffer, MaxMessage, MaxFaults} \subseteq Nat
    /\ {MaxTime, MaxLimit} \subseteq Nat \ {0}
    /\ Buffer > 1

VARIABLES
    part,  \* the component that this behaviour is about
    capabilities, stage, route, wrong, attempt, result, last, failed,
    asked, loop, pump, offered, full, items, consumer, sent, read, faults, dropped,
    now, traded, start, limit, rows, asOf, joined, came, cut

Request == INSTANCE ClientRequests
Stream == INSTANCE ClientStream
Join == INSTANCE OpenInterestJoin

RequestVars == <<capabilities, route, wrong, attempt, result, last, failed>>
StreamVars == <<asked, loop, pump, offered, full, items, consumer, sent, read,
                faults, dropped>>
JoinVars == <<now, traded, start, limit, rows, asOf, joined, came, cut>>
vars == <<part, stage, RequestVars, StreamVars, JoinVars>>

\* The variables of the components that a behaviour is not about have no use.
NoRequest ==
    /\ capabilities = 0 /\ route = 0 /\ wrong = 0 /\ attempt = 0 /\
       result = 0 /\ last = 0 /\ failed = 0
NoStream ==
    /\ asked = 0 /\ loop = 0 /\ pump = 0 /\ offered = 0 /\ full = 0 /\
       items = 0 /\ consumer = 0 /\ sent = 0 /\ read = 0 /\ faults = 0 /\
       dropped = 0
NoJoin ==
    /\ now = 0 /\ traded = 0 /\ start = 0 /\ limit = 0 /\ rows = 0 /\
       asOf = 0 /\ joined = 0 /\ came = 0 /\ cut = 0

Init ==
    /\ part \in Parts
    /\ \/ /\ part = "requests" /\ Request!Init /\ NoStream /\ NoJoin
       \/ /\ part = "stream" /\ Stream!Init /\ NoRequest /\ NoJoin /\ stage = 0
       \/ /\ part = "join" /\ Join!Init /\ NoRequest /\ NoStream

RequestNext ==
    /\ part = "requests"
    /\ Request!Next
    /\ UNCHANGED <<part, StreamVars, JoinVars>>
StreamNext ==
    /\ part = "stream"
    /\ Stream!Next
    /\ UNCHANGED <<part, RequestVars, JoinVars, stage>>
JoinNext ==
    /\ part = "join"
    /\ Join!Next
    /\ UNCHANGED <<part, RequestVars, StreamVars>>

Next == RequestNext \/ StreamNext \/ JoinNext

Spec == Init /\ [][Next]_vars

\* The fairness of ClientRequests and ClientStream.
requestVars == Request!vars
streamVars  == Stream!vars
Fairness ==
    /\ \A c \in Calls : WF_requestVars(part = "requests" /\ Request!GoesOn(c))
    /\ WF_streamVars(part = "stream" /\ Stream!Step)
    /\ WF_streamVars(part = "stream" /\ Stream!Cancelled)
    /\ WF_streamVars(part = "stream" /\ Stream!Reads)
    /\ WF_streamVars(part = "stream" /\ Stream!GoesOn)

FairSpec == Spec /\ Fairness

-----------------------------------------------------------------------------
(* The properties of the components, where they are stated and explained *)

\* ClientRequests: errors name the side at fault.
BlameIsRight == part = "requests" => Request!TypeOK /\ Request!BlameIsRight
\* ClientRequests: what capabilities rule out is not sent, and short frames are
\* flagged, until a fetch of the capabilities fails.
CapabilitiesAreUsed == part = "requests" => Request!CapabilitiesAreUsed
\* ClientRequests: every call returns or raises.
CallsEnd ==
    \A c \in Calls :
        part = "requests" /\ Request!Waits(c) ~> part = "requests" /\ ~Request!Waits(c)

\* ClientStream: an error that ends the pump reaches the consumer.
ErrorsReachConsumer ==
    part = "stream" => Stream!TypeOK /\ Stream!ErrorsReachConsumer
\* ClientStream: a stream goes on after its connection is lost.
StreamGoesOn ==
    part = "stream" /\ asked = "channel" ~> part = "stream" /\ Stream!Settled
\* ClientStream: a stream that is closed gives its connection back.
ConnectionsAreGivenBack ==
    part = "stream" /\ consumer = "left" ~> part = "stream" /\ Stream!GivenBack

\* OpenInterestJoin: a row that has a candle gets its close, or there is one of the
\* reasons that it has none.
RowsAreJoined == [][part = "join" => Join!JoinStep]_vars

=============================================================================
