------------------------------ MODULE History ------------------------------
(***************************************************************************)
(* The calls for historical records (candles, aggregated trades, funding   *)
(* rates, open interest, long/short ratios, liquidations): how each        *)
(* adapter turns "the newest limit records at or before start" into        *)
(* requests, while records keep arriving and requests fail half-way, and   *)
(* what a client gathers that asks for older records again and again.      *)
(*                                                                         *)
(* A record is a number and its time the half of it, so that two records   *)
(* may share a time and the order of the numbers is that of the times.     *)
(* The unit of time is the interval of the records, which begin at 2, since *)
(* no record is a millisecond old.                                         *)
(***************************************************************************)
EXTENDS Integers, FiniteSets

CONSTANTS
    Calls,       \* the calls considered, see below
    None,        \* no start, no end
    Limits,      \* the limits asked for
    PerRequest,  \* records a request returns at most
    MaxRequests, \* the caps of the walks: 100, 10 and 20 in the code
    Past,        \* bound: times before the first call
    MaxTime      \* bound: times

\* The adapters' methods, those of equal control under one name.
AllCalls ==
    {"agg_trades", "candles", "metrics", "okx_series", "liquidations",
     "okx_candles", "kucoin_futures", "kucoin_spot", "kucoin_funding",
     "hyperliquid_candles", "hyperliquid_funding", "binance_funding",
     "kraken_spot", "kraken_candles", "kraken_funding", "kraken_metrics"}

ASSUME CallsAssumption == Calls \subseteq AllCalls
\* The records of one time, of which there are two at most, do not fill a page.
ASSUME SizesAssumption ==
    /\ Limits \subseteq Nat \ {0}
    /\ PerRequest \in Nat /\ PerRequest > 2
    /\ {MaxRequests, Past, MaxTime} \subseteq Nat \ {0}
    /\ Past <= MaxTime
ASSUME NoneAssumption == None \notin Int

VARIABLES
    call,       \* whose code runs
    now,        \* the time of the newest record there may be
    records,    \* what the exchange has
    start,      \* start_time of the call
    limit,      \* limit of the call
    stage,      \* "idle"; the request the call waits for: "single", "recent",
                \* "walk", "funding", "forward"; "done", "failed"
    seed,       \* what the first request of a walk is anchored at
    currentEnd, \* current_end; endTime of Binance's walk, from_ts of Kraken's
    cadence,    \* cadence_ms of Binance's walk
    requests,   \* req_count
    collected,  \* the records gathered; the answer when "done"
    cut,        \* history: records may be missing from the answer, because a
                \* request failed, a cap was reached or a page was full
    known,      \* history: the records when the first request was answered
    view        \* the records of a client that pages back

callVars == <<start, limit, stage, seed, currentEnd, cadence, requests,
              collected, cut, known>>
vars == <<call, now, records, callVars, view>>

At(r) == r \div 2
Newest(S, n) == {r \in S : Cardinality({x \in S : x > r}) < n}
Oldest(S, n) == {r \in S : Cardinality({x \in S : x < r}) < n}
First(S) == CHOOSE r \in S : \A x \in S : r <= x

\* Between(a, b): the records from time a to time b.
Between(a, b) == {r \in records : a <= At(r) /\ At(r) <= b}
UpTo(t) == Between(0, t)

\* Records of one time are told apart by these calls only.
Ties == call \in {"agg_trades", "liquidations"}
RecordsAt(t) == IF Ties THEN {2 * t, 2 * t + 1} ELSE {2 * t}

Starts == {None} \cup 0..MaxTime

Init ==
    /\ call \in Calls
    /\ now = Past
    /\ records \in SUBSET UNION {RecordsAt(t) : t \in 2..Past}
    /\ start = None
    /\ limit \in Limits
    /\ stage = "idle"
    /\ seed = None
    /\ currentEnd = None
    /\ cadence = 1
    /\ requests = 0
    /\ collected = {}
    /\ cut = FALSE
    /\ known = {}
    /\ view = {}

\* The exchange's records go on, or there is none for a time.
Arrives ==
    /\ now < MaxTime
    /\ now' = now + 1
    /\ \E new \in SUBSET RecordsAt(now + 1) : records' = records \cup new
    /\ UNCHANGED <<call, callVars, view>>

-----------------------------------------------------------------------------
(* The pages: what one request returns, anchored at a *)

\* "if anchor": zero is taken for no anchor.
Given(a) == a # None /\ a # 0

\* endTime, end: inclusive.
EndPage(a, n) == Newest(IF Given(a) THEN UpTo(a) ELSE records, n)

\* Mutant: after is sent without the 1.
AfterPage_Exclusive(a, n) ==
    Newest(IF Given(a) THEN UpTo(a - 1) ELSE records, n)

\* after: exclusive, hence anchor + 1.
AfterPage(a, n) == Newest(IF Given(a) THEN UpTo((a + 1) - 1) ELSE records, n)

\* to: exclusive; no limit is sent.
ToPage(a) ==
    Newest(IF Given(a) THEN UpTo((a + 1) - 1) ELSE records, PerRequest)

\* startAt, endAt: a window of n intervals that ends after the anchor.
WindowPage(a, n) ==
    LET end == (IF a # None THEN a ELSE now) + 1
    IN  Between(end - n, end - 1)

\* from, to: a window as long as a page, whatever the limit.
FundingWindowPage(a) ==
    LET to == (IF Given(a) THEN a ELSE now) + 1
    IN  Between(to - PerRequest, to - 1)

\* startTime, endTime: a window of n intervals with both its ends, of which there
\* may be a record more than a page has; that of candles ends now at the latest.
SpanPage(a, n) ==
    LET end == IF a = None THEN now
               ELSE IF call = "hyperliquid_candles" /\ a > now THEN now
               ELSE a
    IN  Newest(Between(end - n, end), PerRequest)

Page(a, n) ==
    CASE call = "okx_candles"    -> AfterPage(a, n)
      [] call = "liquidations"   -> AfterPage(a, n)
      [] call = "kucoin_futures" -> ToPage(a)
      [] call = "kucoin_spot"    -> WindowPage(a, n)
      [] call = "kucoin_funding" -> FundingWindowPage(a)
      [] call \in {"hyperliquid_candles", "hyperliquid_funding"}
                                 -> SpanPage(a, n)
      [] OTHER                   -> EndPage(a, n)

-----------------------------------------------------------------------------
(* A call begins *)

AlwaysWalk == {"metrics", "hyperliquid_funding"}

\* One request is enough for a limit that fits in it and no start.
WalksIfAsked ==
    {"agg_trades", "candles", "okx_series", "liquidations", "kucoin_futures",
     "kucoin_spot", "kucoin_funding", "hyperliquid_candles"}

FirstStage(s, l) ==
    CASE call \in AlwaysWalk     -> "walk"
      [] call \in WalksIfAsked   ->
             IF Given(s) \/ (s = 0 /\ call # "agg_trades") \/ l > PerRequest
             THEN "walk" ELSE "single"
      [] call = "okx_candles"    ->
             IF s # None \/ l > PerRequest THEN "recent" ELSE "single"
      [] call = "binance_funding" -> IF s # None THEN "single" ELSE "recent"
      [] call = "kraken_candles" -> "forward"
      [] OTHER                   -> "single"

\* What Kraken's walk is anchored at. The clock stands between two intervals,
\* so that the time of a candle is never exactly now.
KrakenAnchor(s) == IF Given(s) THEN s ELSE now + 1

Begins(s, l) ==
    /\ start' = s
    /\ limit' = l
    /\ stage' = FirstStage(s, l)
    /\ seed' = IF call = "kraken_candles" THEN KrakenAnchor(s) ELSE s
    /\ currentEnd' = IF call = "kraken_candles" THEN KrakenAnchor(s) - l
                     ELSE None
    /\ cadence' = 1
    /\ requests' = 0
    /\ collected' = {}
    /\ cut' = FALSE
    /\ known' = {}
    /\ UNCHANGED <<call, now, records, view>>

\* A client asks for the first time, with or without a start.
Asks ==
    /\ stage = "idle"
    /\ \E s \in Starts : Begins(s, limit)

\* It asks for what is older than all it has; after a failure once more.
AsksOlder ==
    /\ stage \in {"done", "failed"}
    /\ Begins(IF view = {} THEN start ELSE At(First(view)), limit)

-----------------------------------------------------------------------------
(* The requests of a call are answered, or fail *)

Known == known' = IF requests = 0 /\ collected = {} THEN records ELSE known

\* Mutant: out[:total_limit].
Finish_Oldest(all) ==
    /\ stage' = "done"
    /\ collected' = Oldest(all, limit)
    /\ view' = view \cup collected'

\* "out[-total_limit:]": the newest records; of those that share a time, the
\* ones that stand last, which depends on the order within the pages.
Tails(all) ==
    LET Swapped(r) == IF Ties THEN (2 * At(r) + 1) - (r % 2) ELSE r
    IN  {Newest(all, limit),
         {r \in all :
              Cardinality({x \in all : Swapped(x) > Swapped(r)}) < limit}}

Finish(all) ==
    /\ stage' = "done"
    /\ collected' \in Tails(all)
    /\ view' = view \cup collected'

\* The number of records a request asks for.
PageSize == IF limit < PerRequest THEN limit ELSE PerRequest

\* Binance's funding rates from a time to another: of more records than fit
\* the exchange may return either end.
FundingPages(a, b, n) ==
    {Newest(Between(a, b), n), Oldest(Between(a, b), n)}

\* The pages of calls that make one request.
SinglePages ==
    CASE call = "binance_funding" ->
             FundingPages(start - PageSize, start, PageSize)
      [] call = "kraken_spot" ->
             {Newest(IF Given(start) THEN Between(start - limit, now)
                     ELSE records, PerRequest)}
      [] call = "kraken_funding" -> {records}
      [] call = "kraken_metrics" ->
             {Between(KrakenAnchor(start) - limit, now)}
      [] OTHER -> {Page(start, limit)}

\* Kraken answers forward of a time; what is past start is dropped.
NotAfterStart(S) ==
    IF call \in {"kraken_spot", "kraken_candles", "kraken_funding",
                 "kraken_metrics"} /\ Given(start)
    THEN {r \in S : At(r) <= start}
    ELSE S

Single ==
    /\ stage = "single"
    /\ \E page \in SinglePages : Finish(NotAfterStart(page))
    /\ cut' = (/\ call = "binance_funding"
               /\ \/ limit > PerRequest
                  \/ Cardinality(Between(start - PageSize, start)) > PageSize)
    /\ Known
    /\ UNCHANGED <<call, now, records, start, limit, seed, currentEnd, cadence,
                   requests>>

\* Mutant: a page that brings fewer new records than asked for is the last.
WalkPage_StopsShort ==
    /\ stage = "walk"
    /\ LET page == Page(IF currentEnd # None THEN currentEnd ELSE seed,
                        PerRequest)
           all  == collected \cup page
       IN  IF \/ Cardinality(page \ collected) < PerRequest
              \/ Cardinality(all) >= limit
           THEN Finish(all) /\ UNCHANGED <<currentEnd, requests>>
           ELSE /\ collected' = all
                /\ currentEnd' = At(First(page))
                /\ requests' = requests + 1
                /\ UNCHANGED <<stage, view>>
    /\ Known
    /\ UNCHANGED <<call, now, records, start, limit, seed, cadence, cut>>

\* The loop of _paginate_backwards: it ends when a page brings nothing new,
\* the limit or the cap is reached, or the next request would not go back.
WalkPage ==
    /\ stage = "walk"
    /\ LET page  == Page(IF currentEnd # None THEN currentEnd ELSE seed,
                         PerRequest)
           all   == collected \cup page
           next  == At(First(page))
           stuck == currentEnd # None /\ next >= currentEnd
           last  == \/ page \subseteq collected
                    \/ Cardinality(all) >= limit
                    \/ requests + 1 = MaxRequests
                    \/ stuck
       IN  IF last
           THEN /\ Finish(all)
                /\ cut' = (/\ ~(page \subseteq collected)
                           /\ Cardinality(all) < limit)
                /\ UNCHANGED <<currentEnd, requests>>
           ELSE /\ collected' = all
                /\ currentEnd' = next
                /\ requests' = requests + 1
                /\ UNCHANGED <<stage, cut, view>>
    /\ Known
    /\ UNCHANGED <<call, now, records, start, limit, seed, cadence>>

\* OKX's candles: the recent ones, and a walk back from them if they are few.
Recent ==
    /\ stage = "recent"
    /\ call = "okx_candles"
    /\ LET page == AfterPage(start, PageSize)
       IN  IF Cardinality(page) >= limit
           THEN Finish(page) /\ UNCHANGED seed
           ELSE /\ stage' = "walk"
                /\ collected' = page
                /\ seed' = IF page = {} THEN start ELSE At(First(page)) - 1
                /\ UNCHANGED view
    /\ Known
    /\ UNCHANGED <<call, now, records, start, limit, currentEnd, cadence,
                   requests, cut>>

\* The intervals between records that follow each other.
Intervals(S) ==
    {d \in 1..MaxTime : \E r \in S : \E x \in S :
        /\ At(x) - At(r) = d
        /\ \A y \in S : y <= r \/ y >= x}

\* Binance's funding rates without a start: the recent ones first. The median
\* of their intervals is one of them. Without any there is no oldest.
RecentFunding ==
    /\ stage = "recent"
    /\ call = "binance_funding"
    /\ LET page == Newest(records, PageSize)
       IN  \/ /\ Cardinality(page) >= limit
              /\ Finish(page)
              /\ UNCHANGED <<currentEnd, cadence>>
           \/ /\ Cardinality(page) < limit
              /\ page # {}
              /\ stage' = "funding"
              /\ collected' = page
              /\ currentEnd' = At(First(page)) - 1
              /\ cadence' \in IF Intervals(page) = {} THEN {1}
                              ELSE Intervals(page)
              /\ UNCHANGED view
           \/ /\ page = {}
              /\ stage' = "failed"
              /\ UNCHANGED <<collected, currentEnd, cadence, view>>
    /\ Known
    /\ UNCHANGED <<call, now, records, start, limit, seed, requests, cut>>

\* And then windows before the oldest, until one brings nothing.
FundingPage ==
    /\ stage = "funding"
    /\ LET from == currentEnd + 1 - PerRequest * cadence
       IN  \E page \in FundingPages(from, currentEnd, PerRequest) :
           LET all  == collected \cup page
               full == Cardinality(Between(from, currentEnd)) > PerRequest
           IN  IF \/ page \subseteq collected
                  \/ Cardinality(all) >= limit
                  \/ requests + 1 = MaxRequests
               THEN /\ Finish(all)
                    /\ cut' = (\/ cut
                               \/ full
                               \/ /\ ~(page \subseteq collected)
                                  /\ Cardinality(all) < limit)
                    /\ UNCHANGED <<currentEnd, requests>>
               ELSE /\ collected' = all
                    /\ currentEnd' = At(First(all)) - 1
                    /\ requests' = requests + 1
                    /\ cut' = (cut \/ full)
                    /\ UNCHANGED <<stage, view>>
    /\ UNCHANGED <<call, now, records, start, limit, seed, cadence, known>>

\* Kraken's futures candles are fetched forward until one opens in the
\* interval before the anchor.
ForwardPage ==
    /\ stage = "forward"
    /\ LET page == Oldest(Between(currentEnd, now), PerRequest)
           all  == collected \cup page
           last == At(CHOOSE r \in page : \A x \in page : x <= r)
       IN  IF \/ page \subseteq collected
              \/ last >= seed - 1
              \/ requests + 1 = MaxRequests
           THEN /\ Finish(NotAfterStart(all))
                /\ cut' = (Cardinality(page) = PerRequest)
                /\ UNCHANGED <<currentEnd, requests>>
           ELSE /\ collected' = all
                /\ currentEnd' = last + 1
                /\ requests' = requests + 1
                /\ UNCHANGED <<stage, cut, view>>
    /\ Known
    /\ UNCHANGED <<call, now, records, start, limit, seed, cadence>>

\* HTTPStatusError or ValueError: the walks stop early, with what they have;
\* OKX's liquidations take it for an empty page.
Fails ==
    /\ \/ stage \in {"walk", "forward"}
       \/ stage = "single" /\ call = "liquidations"
    /\ Finish(NotAfterStart(collected))
    /\ cut' = TRUE
    /\ UNCHANGED <<call, now, records, start, limit, seed, currentEnd, cadence,
                   requests, known>>

\* Any other exception, or a call that does not catch those, is an error.
Raises ==
    /\ stage \in {"single", "recent", "walk", "funding", "forward"}
    /\ stage' = "failed"
    /\ collected' = {}
    /\ UNCHANGED <<call, now, records, start, limit, seed, currentEnd, cadence,
                   requests, cut, known, view>>

-----------------------------------------------------------------------------
\* The client has enough.
Terminated == stage \in {"done", "failed"} /\ UNCHANGED vars

Next ==
    \/ Arrives
    \/ Asks
    \/ AsksOlder
    \/ Single
    \/ WalkPage
    \/ Recent
    \/ RecentFunding
    \/ FundingPage
    \/ ForwardPage
    \/ Fails
    \/ Raises
    \/ Terminated

Spec == Init /\ [][Next]_vars

-----------------------------------------------------------------------------
(* Correctness *)

Times == 0..(MaxTime + 1)

\* The types of the variables; an answer has at most limit records.
TypeOK ==
    /\ call \in Calls
    /\ now \in Past..MaxTime
    /\ start \in Starts
    /\ limit \in Limits
    /\ stage \in {"idle", "single", "recent", "walk", "funding", "forward",
                  "done", "failed"}
    /\ seed \in {None} \cup Times
    /\ currentEnd = None \/ currentEnd \in Int
    /\ cadence \in 1..MaxTime
    /\ requests \in 0..(MaxRequests - 1)
    /\ cut \in BOOLEAN
    /\ \A S \in {records, collected, known, view} :
           \A r \in S : At(r) \in 1..MaxTime
    /\ stage = "done" => Cardinality(collected) <= limit

\* The records a call is about, as they were when it was first answered.
Asked == {r \in known : start = None \/ At(r) <= start}

\* These answers depend on more than the code says: a window of funding rates
\* that overflows a page, Kraken's walk if it does not come to its end.
MayMissNewest == call \in {"binance_funding", "kraken_candles"} /\ cut

\* "Up to N records with timestamp <= X", and no later ones, except that a
\* start of zero is taken for none by most (API_Reference.md).
NothingAfterStart ==
    stage = "done" /\ Given(start) => \A r \in collected : At(r) <= start

\* The answer is the newest of the records asked for: none that is missing is
\* newer than one that is there, though pages are fetched one after another
\* while records arrive, and the walk may fail half-way.
ResultIsNewest ==
    stage = "done" /\ ~MayMissNewest =>
        \A r \in Asked \ collected : \A x \in collected : At(r) <= At(x)

\* An answer has the newest records up to its start, within its limit.
AnswersAreRight == TypeOK /\ NothingAfterStart /\ ResultIsNewest

\* There is a record for each time up to t.
Dense(t) == \A u \in 2..t : \E r \in known : At(r) = u

\* These fetch windows of time and stop at an empty one.
Windowed ==
    call \in {"kucoin_spot", "kucoin_funding", "hyperliquid_candles",
              "hyperliquid_funding", "binance_funding", "kraken_candles",
              "kraken_metrics"}

\* An answer with fewer records than the limit has all there are, unless a
\* request failed or a cap was reached; where windows of time are fetched, if
\* no time is without a record. Kraken's spot candles have a ceiling instead.
ShortMeansAll ==
    /\ stage = "done"
    /\ ~cut
    /\ call # "kraken_spot"
    /\ Cardinality(collected) < limit
    /\ Windowed => Dense(IF start = None THEN now ELSE start)
    => Asked \subseteq collected

\* "Pass the oldest timestamp you already have as the new start, request the
\* next page, prepend to your view" (API_Reference.md): the view has no gap.
ViewHasNoGap ==
    call \notin {"binance_funding", "kraken_candles"} =>
        \A r \in records \ view :
            \/ \A x \in view : At(r) <= At(x)
            \/ \A x \in view : At(r) >= At(x)

\* "X is the newest record in the response when present in the dataset"
\* (API_Reference.md).
StartIsReturned ==
    /\ stage = "done"
    /\ Given(start)
    /\ \E r \in known : At(r) = start
    => \E r \in collected : At(r) = start

=============================================================================
