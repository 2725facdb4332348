--------------------------- MODULE ClientRequests ---------------------------
(***************************************************************************)
(* An HTTP call from a method of the client SDK through the service's      *)
(* route and back: src/client/exchange_router_client/_core.py with its     *)
(* retries, its cached capabilities and its typed errors, and the          *)
(* exception handlers and validators of src/main.py.                       *)
(*                                                                         *)
(* Calls run at the same time and share the capabilities of an exchange,   *)
(* read before and after awaits.  What the adapter makes of a call is one  *)
(* answer, named by its cause; "exchange" in `wrong` asks an exchange that *)
(* is not there.                                                           *)
(***************************************************************************)
EXTENDS Naturals

CONSTANTS
    Calls,      \* coroutines of one AsyncCore, each making call after call
    MaxRetries  \* max_retries

VARIABLES
    capabilities,  \* _capabilities: "missing", "known" or "empty", per exchange
    stage,         \* the await a call is suspended at
    route,         \* what it asks for
    wrong,         \* what is wrong with its arguments, if anything
    attempt,       \* the counter of _request
    result,        \* what the method returned or raised last
    last,          \* history: the answer, or "lost", of the attempt that ended
                   \* the call, "none" if it was not sent
    failed         \* history: the capabilities of the exchange that is there
                   \* could once not be fetched

vars == <<capabilities, stage, route, wrong, attempt, result, last, failed>>

-----------------------------------------------------------------------------
\* Routes over pages: candles and the like, liquidations, and the long/short ratio,
\* which OKX gives of the currency whatever the rest of the symbol.
Routes    == {"series", "liquidations", "ratio"}
Exchanges == {"listed", "unlisted"}
Wrongs    == {"nothing", "exchange", "market", "route", "interval", "symbol"}

ExchangeOf(w) == IF w = "exchange" THEN "unlisted" ELSE "listed"

\* What the route's handler makes of a call to r. An exchange may be out of reach or
\* throttle, may reject what was asked, and may answer with rows, with a number that
\* does not parse, with values that do not fit the schema, or with a shape that the
\* adapter breaks on.
Data     == {"full", "short", "empty"}
OwnFault == {"rejected", "unparsable", "misfit", "broken"}
Answers(r, w) ==
    CASE w = "exchange" -> {"no_exchange"}
      [] w = "market" -> {"no_market"}
      [] w = "route" -> {"unsupported"}
      [] w = "interval" -> {"undeclared"}
      [] w = "symbol" /\ r # "ratio" -> {"unknown", "empty", "throttled", "broken"}
      [] OTHER -> Data \cup OwnFault \cup {"throttled"}

AllAnswers == Data \cup OwnFault \cup
    {"no_exchange", "no_market", "unsupported", "undeclared", "unknown", "throttled"}

\* The class that is raised. The code that an exchange puts into a body is a
\* ValueError whosever fault it means, and so is what float makes of no number.
Raises(answer) ==
    CASE answer \in Data -> "none"
      [] answer = "throttled" -> "UpstreamUnavailableError"
      [] answer \in {"unknown", "undeclared", "rejected", "unparsable"} -> "ValueError"
      [] answer = "unsupported" -> "NotImplementedError"
      [] answer = "misfit" -> "ValidationError"
      [] answer = "broken" -> "Exception"
      [] answer = "no_exchange" -> "HTTPException_404"
      [] answer = "no_market" -> "HTTPException_400"

\* Mutant: the handler of ValueError takes the ValidationErrors too, which are
\* ValueErrors.
Status_AnyValueError(class) ==
    CASE class = "none" -> 200
      [] class = "UpstreamUnavailableError" -> 503
      [] class \in {"ValueError", "ValidationError"} -> 400
      [] class = "NotImplementedError" -> 501
      [] class = "Exception" -> 500
      [] class = "HTTPException_404" -> 404
      [] class = "HTTPException_400" -> 400

\* The exception handlers; the most specific class decides.
Status(class) ==
    CASE class = "none" -> 200
      [] class = "UpstreamUnavailableError" -> 503
      [] class = "ValueError" -> 400
      [] class = "NotImplementedError" -> 501
      [] class = "ValidationError" -> 502
      [] class = "Exception" -> 500
      [] class = "HTTPException_404" -> 404
      [] class = "HTTPException_400" -> 400

ErrorForStatus(status) ==
    CASE status = 400 -> "BadRequest"
      [] status = 404 -> "NotFound"
      [] status = 429 -> "RateLimited"
      [] status = 501 -> "NotSupported"
      [] status = 503 -> "UpstreamUnavailable"
      [] OTHER -> "RouterError"

Retried(status) == status \in {429, 500, 502, 503, 504}

\* The warnings of a frame. Only the frame of liquidations does not look
\* whether it is short.
Flagged(r, rows, paginated) ==
    \/ rows = "empty"
    \/ rows = "short" /\ paginated /\ r # "liquidations"

Frame(rows, flagged) == [kind |-> "frame", rows |-> rows, flagged |-> flagged]
Raised(kind)         == [kind |-> kind, rows |-> "none", flagged |-> FALSE]
Nothing              == Raised("nothing")

Init ==
    /\ capabilities = [e \in Exchanges |-> "missing"]
    /\ stage = [c \in Calls |-> "idle"]
    /\ route = [c \in Calls |-> "series"]
    /\ wrong = [c \in Calls |-> "nothing"]
    /\ attempt = [c \in Calls |-> 0]
    /\ result = [c \in Calls |-> Nothing]
    /\ last = [c \in Calls |-> "none"]
    /\ failed = FALSE

-----------------------------------------------------------------------------
Goes(c, s) == stage' = [stage EXCEPT ![c] = s]
Ends(c, r, answer) ==
    /\ Goes(c, "idle")
    /\ attempt' = [attempt EXCEPT ![c] = 0]
    /\ result' = [result EXCEPT ![c] = r]
    /\ last' = [last EXCEPT ![c] = answer]

\* With the capabilities at hand a call that they rule out is not sent.
Preflight(c, w, known) ==
    CASE known = "known" /\ w = "route" -> Ends(c, Raised("NotSupported"), "none")
      [] known = "known" /\ w = "interval" -> Ends(c, Raised("BadRequest"), "none")
      [] OTHER -> /\ Goes(c, "route")
                  /\ attempt' = [attempt EXCEPT ![c] = 0]
                  /\ result' = [result EXCEPT ![c] = Nothing]
                  /\ last' = [last EXCEPT ![c] = "none"]

\* Mutant: an entry that is being fetched is marked as there, so that nobody
\* fetches it twice.
Begins_Marked(c, r, w) ==
    /\ stage[c] = "idle"
    /\ r = "liquidations" => w # "interval"
    /\ route' = [route EXCEPT ![c] = r]
    /\ wrong' = [wrong EXCEPT ![c] = w]
    /\ IF capabilities[ExchangeOf(w)] = "missing"
       THEN /\ Goes(c, "capabilities")
            /\ result' = [result EXCEPT ![c] = Nothing]
            /\ last' = [last EXCEPT ![c] = "none"]
            /\ capabilities' = [capabilities EXCEPT ![ExchangeOf(w)] = "empty"]
            /\ UNCHANGED attempt
       ELSE /\ Preflight(c, w, capabilities[ExchangeOf(w)])
            /\ UNCHANGED capabilities
    /\ UNCHANGED failed

Begins(c, r, w) ==
    /\ stage[c] = "idle"
    /\ r = "liquidations" => w # "interval"
    /\ route' = [route EXCEPT ![c] = r]
    /\ wrong' = [wrong EXCEPT ![c] = w]
    /\ IF capabilities[ExchangeOf(w)] = "missing"
       THEN /\ Goes(c, "capabilities")
            /\ result' = [result EXCEPT ![c] = Nothing]
            /\ last' = [last EXCEPT ![c] = "none"]
            /\ UNCHANGED attempt
       ELSE Preflight(c, w, capabilities[ExchangeOf(w)])
    /\ UNCHANGED <<capabilities, failed>>

\* _ensure_capabilities stores what it got, whatever is there by now: nothing
\* if its request failed.
Learns(c, known) ==
    /\ capabilities' = [capabilities EXCEPT ![ExchangeOf(wrong[c])] = known]
    /\ failed' = (failed \/ (known = "empty" /\ wrong[c] # "exchange"))
    /\ Preflight(c, wrong[c], known)
    /\ UNCHANGED <<route, wrong>>

CapabilitiesAnswered(c) ==
    /\ stage[c] = "capabilities"
    /\ Learns(c, IF wrong[c] = "exchange" THEN "empty" ELSE "known")

\* Mutant: only answers count as attempts.
Again_Uncounted(c, pause, kind, answer) ==
    /\ Goes(c, pause)
    /\ UNCHANGED <<capabilities, attempt, result, route, wrong, last, failed>>

\* A failed attempt is repeated after a sleep, MaxRetries times.
Again(c, pause, kind, answer) ==
    /\ IF attempt[c] < MaxRetries
       THEN /\ Goes(c, pause)
            /\ attempt' = [attempt EXCEPT ![c] = @ + 1]
            /\ UNCHANGED <<result, last>>
       ELSE Ends(c, Raised(kind), answer)
    /\ UNCHANGED <<capabilities, route, wrong, failed>>

\* No connection, or none that lasts until the answer.
Lost(c) ==
    \/ stage[c] = "route" /\ Again(c, "route_pause", "RouterUnreachable", "lost")
    \/ /\ stage[c] = "capabilities"
       /\ IF attempt[c] < MaxRetries
          THEN Again(c, "capabilities_pause", "RouterUnreachable", "lost")
          ELSE Learns(c, "empty")

PauseOver(c) ==
    /\ \/ stage[c] = "route_pause" /\ Goes(c, "route")
       \/ stage[c] = "capabilities_pause" /\ Goes(c, "capabilities")
    /\ UNCHANGED <<capabilities, route, wrong, attempt, result, last, failed>>

\* The route answers. Whether it is paginated is looked up when rows arrive.
Answered(c, answer) ==
    LET status    == Status(Raises(answer))
        paginated == capabilities[ExchangeOf(wrong[c])] = "known"
    IN  /\ stage[c] = "route"
        /\ answer \in Answers(route[c], wrong[c])
        /\ CASE status = 200 ->
                  /\ Ends(c, Frame(answer, Flagged(route[c], answer, paginated)), answer)
                  /\ UNCHANGED <<capabilities, route, wrong, failed>>
             [] Retried(status) ->
                  Again(c, "route_pause", ErrorForStatus(status), answer)
             [] OTHER ->
                  /\ Ends(c, Raised(ErrorForStatus(status)), answer)
                  /\ UNCHANGED <<capabilities, route, wrong, failed>>

Returns(c) ==
    \/ CapabilitiesAnswered(c)
    \/ Lost(c)
    \/ \E answer \in Answers(route[c], wrong[c]) : Answered(c, answer)

Next ==
    \E c \in Calls :
        \/ \E r \in Routes, w \in Wrongs : Begins(c, r, w)
        \/ Returns(c)
        \/ PauseOver(c)

\* The timeout of the HTTP client ends every request, and sleeps end.
GoesOn(c) == Returns(c) \/ PauseOver(c)
Fairness == \A c \in Calls : WF_vars(GoesOn(c))

Spec     == Init /\ [][Next]_vars
FairSpec == Spec /\ Fairness

-----------------------------------------------------------------------------
(* Correctness *)

TypeOK ==
    /\ capabilities \in [Exchanges -> {"missing", "known", "empty"}]
    /\ stage \in [Calls -> {"idle", "capabilities", "capabilities_pause",
                            "route", "route_pause"}]
    /\ route \in [Calls -> Routes]
    /\ wrong \in [Calls -> Wrongs]
    /\ attempt \in [Calls -> 0..MaxRetries]
    /\ last \in [Calls -> AllAnswers \cup {"none", "lost"}]
    /\ failed \in BOOLEAN

\* Errors name the side at fault, through the handlers of the service, the retries
\* and the classes of the client: a call is told that it is wrong only if it is, or
\* the exchange rejected it or sent a number that does not parse; that the exchange
\* or the router cannot be reached, or is broken, only if its last attempt found it
\* so. And a wrong call does not pass for a right one: it fails, or is warned that
\* there is nothing, but for OKX's ratio of a symbol that it does not look up.
Blames == {"BadRequest", "NotFound", "NotSupported"}
Reasons(kind) ==
    CASE kind \in Blames -> {"rejected", "unparsable"}
      [] kind = "UpstreamUnavailable" -> {"throttled"}
      [] kind = "RouterUnreachable" -> {"lost"}
      [] kind = "RouterError" -> {"misfit", "broken"}
      [] kind = "frame" -> Data
BlameIsRight ==
    \A c \in Calls : stage[c] = "idle" /\ result[c] # Nothing =>
        /\ \/ last[c] \in Reasons(result[c].kind)
           \/ wrong[c] # "nothing" /\ result[c].kind \in Blames
        /\ wrong[c] # "nothing" /\ result[c].kind = "frame" =>
               \/ result[c].rows = "empty" /\ result[c].flagged
               \/ wrong[c] = "symbol" /\ route[c] = "ratio"

\* The checks that rest on capabilities are made, whichever of the calls that run
\* at one time has fetched them, until a fetch of them fails: no call that they rule
\* out is sent, and a frame that is short says so, but for liquidations.
CapabilitiesAreUsed ==
    \A c \in Calls : stage[c] = "idle" /\ ~failed =>
        /\ wrong[c] \in {"route", "interval"} => last[c] = "none"
        /\ result[c].rows = "short" /\ route[c] # "liquidations" => result[c].flagged

\* Every call returns or raises, however the service and the network fail.
Waits(c) == stage[c] # "idle"
CallsEnd == \A c \in Calls : Waits(c) ~> ~Waits(c)

=============================================================================
