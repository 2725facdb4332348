----------------------------- MODULE InfoCache -----------------------------
(***************************************************************************)
(* What an adapter remembers of its exchange, and who fetches it when: the *)
(* instrument cache of src/exchanges/base.py with each adapter's           *)
(* _fetch_exchange_info, the funding intervals and multipliers filled on   *)
(* the way, the spot symbol maps, OKX's per-symbol funding intervals, and  *)
(* the warm-up task from startup to shutdown.                              *)
(*                                                                         *)
(* A step is the code between two awaits that suspend.  Calls are the      *)
(* coroutines of routes and stream handlers; a call is one use of a cache, *)
(* made again and again.  "perp" stands for the linear or the inverse      *)
(* market and one symbol for all.  The up to 50 pages of Bybit's listing   *)
(* are one request: a failure of any of them fails them all.               *)
(***************************************************************************)
EXTENDS Naturals, Sequences, SequencesExt

CONSTANTS
    Calls,       \* coroutines that use the caches, beside the warm-up
    Warm,        \* the warm-up task
    Refresh,     \* INFO_REFRESH_S, in ticks
    Retry,       \* INFO_RETRY_S, in ticks
    MaxFetch     \* bound: the ticks that the requests of a fetch may take

VARIABLES
    adapter,    \* which adapter's caches these are
    cached,     \* the caches that hold something
    partial,    \* markets cached without what an optional request failed to give
    intervals,  \* _funding_interval_cache and _contract_multiplier_cache:
                \* nothing, rows of the exchange, or the default of 8 hours
    elapsed,    \* time since _info_cache_at, at most Refresh
    queue,      \* each lock's holder and, behind it, who waits for it
    stage,      \* where each coroutine is suspended
    wants,      \* the cache it uses, "none" when idle
    since,      \* time since the fetching call read its `now`
    left,       \* the optional requests it has left
    warmLeft,   \* the steps of _warm that are to come
    server,     \* the lifespan of the service
    age,        \* history: time since the request for a listing, when cached
    tried       \* history: time since the last fetch began, at most Retry

cacheVars   == <<cached, partial, intervals, elapsed>>
fetchVars   == <<since, left>>
historyVars == <<age, tried>>
vars == <<adapter, cacheVars, queue, stage, wants, fetchVars, warmLeft,
          server, historyVars>>

-----------------------------------------------------------------------------
(* What the adapters differ in *)

Adapters == {"binance", "bybit", "hyperliquid", "kraken", "kucoin", "okx"}
Markets  == {"spot", "perp"}
Caches   == Markets \cup {"map", "interval"}
Callers  == Calls \cup {Warm}

\* The spot symbol map of Kraken, KuCoin and OKX, and the funding intervals
\* that OKX looks up one by one.
Offered ==
    CASE adapter \in {"kraken", "kucoin"} -> Markets \cup {"map"}
      [] adapter = "okx" -> Caches
      [] OTHER -> Markets

\* The steps of _warm. OKX's look-ups begin with the listing.
WarmSteps(a) ==
    CASE a = "okx" -> <<"perp", "perp", "interval">>
      [] a \in {"kraken", "kucoin"} -> <<"spot", "perp", "map">>
      [] OTHER -> <<"spot", "perp">>

\* What _fetch_exchange_info makes of a market: the requests whose failure it
\* survives, and when its rows fill the second cache.
Plain(fills) == [optionals |-> 0, fills |-> fills]

\* Binance's rows wait for the funding intervals, which are optional.
BinanceFetch(k) ==
    IF k = "perp" THEN [optionals |-> 1, fills |-> "at_the_end"]
                  ELSE Plain("never")

BybitFetch(k) == Plain(IF k = "perp" THEN "at_once" ELSE "never")

\* Optional are Hyperliquid's list of builder markets and a builder's markets.
HyperliquidFetch(k) ==
    IF k = "perp" THEN [optionals |-> 2, fills |-> "at_once"] ELSE Plain("never")

KrakenFetch(k) == Plain("never")
KucoinFetch(k) == Plain(IF k = "perp" THEN "at_once" ELSE "never")
OKXFetch(k)    == Plain(IF k = "perp" THEN "at_once" ELSE "never")

Fetch(k) ==
    CASE adapter = "binance" -> BinanceFetch(k)
      [] adapter = "bybit" -> BybitFetch(k)
      [] adapter = "hyperliquid" -> HyperliquidFetch(k)
      [] adapter = "kraken" -> KrakenFetch(k)
      [] adapter = "kucoin" -> KucoinFetch(k)
      [] adapter = "okx" -> OKXFetch(k)

LockOf(k) == IF k \in Markets THEN "info" ELSE "map"

\* Nobody stands in a queue twice.
Without(q, c) ==
    IF \E i \in DOMAIN q : q[i] = c
    THEN RemoveAt(q, CHOOSE i \in DOMAIN q : q[i] = c)
    ELSE q

Least(m, n) == IF m < n THEN m ELSE n

\* What a lookup takes without a fetch: a map is kept for ever, and so is an
\* interval of OKX.
Fresh(k) == k \in cached /\ (k \in Markets => elapsed[k] < Refresh)

\* The state that startup_exchanges leaves: every adapter's warm-up is a task.
Init ==
    /\ adapter \in Adapters
    /\ cached = {}
    /\ partial = {}
    /\ intervals = "none"
    /\ elapsed = [k \in Markets |-> Refresh]
    /\ queue = [l \in {"info", "map"} |-> <<>>]
    /\ stage = [c \in Callers |-> "idle"]
    /\ wants = [c \in Callers |-> "none"]
    /\ since = 0 /\ left = 0
    /\ warmLeft = WarmSteps(adapter)
    /\ server = "running"
    /\ age = [k \in Markets |-> Refresh]
    /\ tried = [k \in Markets |-> Retry]

-----------------------------------------------------------------------------
(* The end of a use *)

Fetching(c) == wants[c] \in Markets /\ stage[c] \in {"listing", "optional"}

\* Mutant: an exception skips the release of the lock.
Ends_Locked(c, raises) ==
    /\ stage' = [stage EXCEPT ![c] = "idle"]
    /\ wants' = [wants EXCEPT ![c] = "none"]
    /\ queue' = IF raises THEN queue
                ELSE [l \in {"info", "map"} |-> Without(queue[l], c)]
    /\ warmLeft' = IF c # Warm THEN warmLeft
                   ELSE IF raises THEN <<>> ELSE Tail(warmLeft)
    /\ IF Fetching(c) THEN since' = 0 /\ left' = 0 ELSE UNCHANGED fetchVars

\* The coroutine goes on with what it has, or with an exception; a lock it
\* holds or waits for is given up. _step passes an exception on, which ends
\* the warm-up.
Ends(c, raises) ==
    /\ stage' = [stage EXCEPT ![c] = "idle"]
    /\ wants' = [wants EXCEPT ![c] = "none"]
    /\ queue' = [l \in {"info", "map"} |-> Without(queue[l], c)]
    /\ warmLeft' = IF c # Warm THEN warmLeft
                   ELSE IF raises THEN <<>> ELSE Tail(warmLeft)
    /\ IF Fetching(c)
       THEN since' = 0 /\ left' = 0
       ELSE UNCHANGED fetchVars

-----------------------------------------------------------------------------
(* Looking into a cache *)

\* Without a fresh entry the exchange is asked; a lock is held meanwhile.
Requests(c, k) ==
    /\ stage' = [stage EXCEPT ![c] = "listing"]
    /\ wants' = [wants EXCEPT ![c] = k]
    /\ queue' = IF k = "interval" THEN queue
                ELSE [queue EXCEPT ![LockOf(k)] = <<c>> \o Without(@, c)]
    /\ tried' = IF k \in Markets THEN [tried EXCEPT ![k] = 0] ELSE tried
    /\ UNCHANGED <<fetchVars, warmLeft>>

\* Mutant: what was stale before the wait for the lock is fetched after it.
Looks_Once(c, k) ==
    IF Fresh(k) /\ stage[c] = "idle" THEN Ends(c, FALSE) /\ UNCHANGED tried
                                     ELSE Requests(c, k)

\* With the lock, if there is one: what is fresh is served.
Looks(c, k) ==
    IF Fresh(k) THEN Ends(c, FALSE) /\ UNCHANGED tried ELSE Requests(c, k)

\* A coroutine uses a cache. The listings are looked at under their lock
\* only; a map that is there and OKX's intervals need none. The warm-up uses
\* the cache of its next step.
Asks(c, k) ==
    /\ server = "running"
    /\ stage[c] = "idle"
    /\ k \in Offered
    /\ c = Warm => warmLeft # <<>> /\ k = Head(warmLeft)
    /\ IF \/ k = "interval"
          \/ k = "map" /\ Fresh(k)
          \/ queue[LockOf(k)] = <<>>
       THEN Looks(c, k)
       ELSE /\ stage' = [stage EXCEPT ![c] = "waiting"]
            /\ wants' = [wants EXCEPT ![c] = k]
            /\ queue' = [queue EXCEPT ![LockOf(k)] = Append(@, c)]
            /\ UNCHANGED <<fetchVars, tried, warmLeft>>
    /\ UNCHANGED <<adapter, cacheVars, server, age>>

\* The lock is passed on in the order of arrival.
Proceeds(c) ==
    /\ stage[c] = "waiting"
    /\ Head(queue[LockOf(wants[c])]) = c
    /\ Looks(c, wants[c])
    /\ UNCHANGED <<adapter, cacheVars, server, age>>

-----------------------------------------------------------------------------
(* Fetching *)

\* A fetch has brought all it will: the entry is as old as its `now`.
Stores(c, k, whole) ==
    /\ cached' = cached \cup {k}
    /\ partial' = IF whole THEN partial \ {k} ELSE partial \cup {k}
    /\ elapsed' = [elapsed EXCEPT ![k] = since]
    /\ age' = [age EXCEPT ![k] = since]
    /\ Ends(c, FALSE)

\* The listing is there. Its rows fill the second cache too, Binance's only
\* after its optional request.
Listed(c) ==
    LET k == wants[c]
    IN  /\ stage[c] = "listing" /\ k \in Markets
        /\ intervals' = IF Fetch(k).fills = "at_once" THEN "rows" ELSE intervals
        /\ IF Fetch(k).optionals = 0
           THEN Stores(c, k, TRUE)
           ELSE /\ stage' = [stage EXCEPT ![c] = "optional"]
                /\ left' = Fetch(k).optionals
                /\ UNCHANGED <<cached, partial, elapsed, queue, wants, since,
                               warmLeft, age>>
        /\ UNCHANGED <<adapter, server, tried>>

\* An optional request is over. Without its intervals Binance assumes the
\* default for every symbol, in place of what it knew; Hyperliquid stores
\* what it has.
OptionalEnds(c, answered) ==
    LET k == wants[c]
    IN  /\ stage[c] = "optional"
        /\ intervals' = IF Fetch(k).fills # "at_the_end" THEN intervals
                        ELSE IF answered THEN "rows" ELSE "default"
        /\ IF left = 1 \/ ~answered
           THEN Stores(c, k, answered)
           ELSE /\ left' = left - 1
                /\ UNCHANGED <<cached, partial, elapsed, queue, stage, wants,
                               since, warmLeft, age>>
        /\ UNCHANGED <<adapter, server, tried>>

\* Mutant: a fetch that fails drops what an earlier one put in the second
\* cache.
Fails_Cleared(c) ==
    LET k == wants[c]
    IN  /\ stage[c] = "listing" /\ k \in Markets
        /\ intervals' = IF Fetch(k).fills = "never" THEN intervals ELSE "none"
        /\ elapsed' = IF k \notin cached THEN elapsed
                      ELSE [elapsed EXCEPT ![k] = Refresh - Retry + since]
        /\ Ends(c, k \notin cached)
        /\ UNCHANGED <<adapter, cached, partial, server, historyVars>>

\* A required request fails, or a row of the listing or an entry of the list of
\* builder markets does not parse, when rows before it have filled the second
\* cache. An old listing is served and kept until the next attempt is due.
Fails(c) ==
    LET k == wants[c]
    IN  /\ Fetching(c)
        /\ \/ UNCHANGED intervals
           \/ Fetch(k).fills = "at_once" /\ intervals' = "rows"
           \/ /\ stage[c] = "optional" /\ Fetch(k).fills = "at_the_end"
              /\ intervals' \in {"rows", "default"}
        /\ elapsed' = IF k \notin cached THEN elapsed
                      ELSE [elapsed EXCEPT ![k] = Refresh - Retry + since]
        /\ Ends(c, k \notin cached)
        /\ UNCHANGED <<adapter, cached, partial, server, historyVars>>

\* The spot symbol map, or an interval of OKX, is answered and kept for ever;
\* without an answer a heuristic, or 8 hours, is used for now. Only the
\* warm-up of the map passes the exception on.
LooksUp(c, answered) ==
    LET k == wants[c]
    IN  /\ stage[c] = "listing" /\ k \notin Markets
        /\ cached' = IF answered THEN cached \cup {k} ELSE cached
        /\ Ends(c, ~answered /\ k = "map")
        /\ UNCHANGED <<adapter, partial, intervals, elapsed, server,
                       historyVars>>

\* The handler of a stream is cancelled, or the warm-up. A fetch that is cut
\* off leaves no trace in _info_cache_at.
Cancelled(c) ==
    /\ c = Warm => server = "stopping"
    /\ stage[c] # "idle" \/ (c = Warm /\ warmLeft # <<>>)
    /\ Ends(c, TRUE)
    /\ tried' = IF Fetching(c) THEN [tried EXCEPT ![wants[c]] = Retry] ELSE tried
    /\ UNCHANGED <<adapter, cacheVars, server, age>>

-----------------------------------------------------------------------------
(* Time and the lifespan *)

\* The requests of a fetch end within minutes, by their timeouts and bounded
\* retries, and so long before the next attempt is due.
Tick ==
    /\ \A c \in Callers : Fetching(c) => since < MaxFetch
    /\ since' = IF \E c \in Callers : Fetching(c) THEN since + 1 ELSE since
    /\ elapsed' = [k \in Markets |-> Least(elapsed[k] + 1, Refresh)]
    /\ age' = [k \in Markets |-> Least(age[k] + 1, Refresh)]
    /\ tried' = [k \in Markets |-> Least(tried[k] + 1, Retry)]
    /\ UNCHANGED <<adapter, cached, partial, intervals, queue, stage, wants,
                   left, warmLeft, server>>

\* Requests have been answered and handlers have ended (the server waits for
\* the former, StreamManager.shutdown for the latter); the warm-up is
\* cancelled...
ShutdownBegins ==
    /\ server = "running"
    /\ \A c \in Calls : stage[c] = "idle"
    /\ server' = "stopping"
    /\ UNCHANGED <<adapter, cacheVars, queue, stage, wants, fetchVars,
                   warmLeft, historyVars>>

\* ...and awaited, before the adapter closes its HTTP client.
ShutdownEnds ==
    /\ server = "stopping"
    /\ stage[Warm] = "idle" /\ warmLeft = <<>>
    /\ server' = "closed"
    /\ UNCHANGED <<adapter, cacheVars, queue, stage, wants, fetchVars,
                   warmLeft, historyVars>>

-----------------------------------------------------------------------------
CallNext(c) ==
    \/ \E k \in Caches : Asks(c, k)
    \/ Proceeds(c)
    \/ Listed(c)
    \/ \E answered \in BOOLEAN : OptionalEnds(c, answered) \/ LooksUp(c, answered)
    \/ Fails(c)
    \/ Cancelled(c)

Terminated == server = "closed" /\ UNCHANGED vars

Next ==
    \/ \E c \in Callers : CallNext(c)
    \/ Tick
    \/ ShutdownBegins
    \/ ShutdownEnds
    \/ Terminated

Spec == Init /\ [][Next]_vars

\* Coroutines that are ready run, and every request ends in one way or
\* another; which way is left open. Nobody has to use a cache, and the
\* service need not stop.
GoesOn(c) ==
    \/ Proceeds(c) \/ Listed(c) \/ Fails(c)
    \/ \E answered \in BOOLEAN : OptionalEnds(c, answered) \/ LooksUp(c, answered)
Fairness == \A c \in Callers : WF_vars(GoesOn(c))

FairSpec == Spec /\ Fairness

-----------------------------------------------------------------------------
(* Correctness *)

\* The types of the variables.
TypeOK ==
    /\ adapter \in Adapters
    /\ cached \subseteq Offered
    /\ partial \subseteq Markets
    /\ intervals \in {"none", "rows", "default"}
    /\ elapsed \in [Markets -> 0..Refresh]
    /\ queue \in [{"info", "map"} -> Seq(Callers)]
    /\ stage \in [Callers -> {"idle", "waiting", "listing", "optional"}]
    /\ wants \in [Callers -> Caches \cup {"none"}]
    /\ since \in 0..MaxFetch
    /\ left \in 0..2
    /\ warmLeft \in Seq(Caches)
    /\ server \in {"running", "stopping", "closed"}
    /\ age \in [Markets -> 0..Refresh]
    /\ tried \in [Markets -> 0..Retry]

\* What a lookup takes for fresh was requested less than 24 hours ago, unless
\* a refresh has failed within the last hour.
FreshIsRecent ==
    \A k \in Markets : Fresh(k) => age[k] < Refresh \/ tried[k] < Retry

\* Whoever is served a listing finds the funding interval and multiplier of
\* its symbols, however many fetches failed or were cut off half-way.
IntervalsCoverListing ==
    Fetch("perp").fills # "never" /\ "perp" \in cached => intervals # "none"

\* Once the adapter's HTTP client is closed nobody is about to use it.
NothingAfterShutdown ==
    server = "closed" => \A c \in Callers : stage[c] = "idle"

InfoInvariant ==
    /\ TypeOK
    /\ IntervalsCoverListing
    /\ NothingAfterShutdown

\* "Refreshed at most once per 24h" (API_Reference.md), and after a failed
\* attempt no more often than every hour, however many callers wait for the
\* same listing; a map that is there is not loaded again. A fetch that was
\* cancelled does not count.
FetchStep ==
    \A c \in Callers :
        LET k == wants'[c]
        IN  stage[c] # "listing" /\ stage'[c] = "listing" /\ k # "interval" =>
                \/ k \notin cached
                \/ k \in Markets /\ age[k] >= Refresh /\ tried[k] >= Retry
FetchesAreSpaced == [][FetchStep]_vars

\* Every use of a cache ends, even if every request fails and others keep
\* coming for the same lock.
Uses(c) == stage[c] # "idle"
UsesEnd == \A c \in Callers : Uses(c) ~> ~Uses(c)

=============================================================================
