----------------------------- MODULE Snapshots -----------------------------
(***************************************************************************)
(* Quotes from answers that are kept for a short time: the tickers of all  *)
(* futures at Kraken, the contexts of all assets at Hyperliquid, and the   *)
(* range of 24 hours that Hyperliquid's ticker makes of candles, for REST  *)
(* and for the stream.                                                     *)
(*                                                                         *)
(* Each is read before a lock is waited for and again with the lock, which *)
(* is held across the request.  Prices and ranges that the exchange gives  *)
(* are any: a mid need not lie in the range of what was traded.            *)
(***************************************************************************)
EXTENDS Naturals

CONSTANTS
    Calls,     \* coroutines that call get_ticker again and again
    QuoteTtl,  \* _CTX_TTL_S, FUT_TICKERS_TTL_S
    RangeTtl,  \* _TICKER_RESEED_S
    MaxPrice,  \* bound: prices
    MaxTime    \* bound: time

VARIABLES
    adapter,  \* "hyperliquid" or "kraken"
    now,      \* time.monotonic
    quote,    \* _ctx_cache, _fut_tickers_data: a price and when it came
    range,    \* _hl_cache: the range and the time of its candles; `since` is a
              \* history of when they came
    holder,   \* of the lock of each cache, Nobody if it is free
    stage,    \* the await at which a call is
    price,    \* the price that a call has got, 0 if none
    stream,   \* stream_ticker of Hyperliquid: "off", "reading", "reseeding", "ended"
    own,      \* what the stream keeps: its range, the price of a frame, `tried`,
              \* which is reseed_at less RangeTtl, and as history `since`, when the
              \* candles of its range were asked for (or without candles, when its
              \* first frame came), and whether the range was `kept` as the last
              \* attempt to renew it has brought no candles
    out       \* the ticker that this step gave out

vars == <<adapter, now, quote, range, holder, stage, price, stream, own, out>>

-----------------------------------------------------------------------------
Nobody == "nobody"
Caches == {"quote", "range"}
Prices == 1..MaxPrice
Ranges == {r \in [low : Prices, high : Prices] : r.low <= r.high}

\* Candles may be missing: None, None.
NoRange == [low |-> MaxPrice + 1, high |-> 0]
Nothing == [from |-> "nothing"]
NoOwn   == [range |-> NoRange, price |-> 0, tried |-> 0, since |-> 0, kept |-> FALSE]

\* Mutant: an elif, so that a price that raises the range is not its lowest.
Widened_OnOneSide(r, p) ==
    IF p > r.high THEN [r EXCEPT !.high = p]
                  ELSE [r EXCEPT !.low = IF p < r.low THEN p ELSE r.low]

\* The range that holds the price too.
Widened(r, p) == [low |-> IF p < r.low THEN p ELSE r.low,
                  high |-> IF p > r.high THEN p ELSE r.high]

Fresh(entry, ttl) == entry # Nothing /\ now - entry.at < ttl

Init ==
    /\ adapter \in {"hyperliquid", "kraken"}
    /\ now = 0
    /\ quote = Nothing /\ range = Nothing
    /\ holder = [k \in Caches |-> Nobody]
    /\ stage = [c \in Calls |-> "idle"]
    /\ price = [c \in Calls |-> 0]
    /\ stream = "off"
    /\ own = NoOwn
    /\ out = Nothing

\* A ticker: its price and range, when its range was last asked for and when it
\* came, and whether it has outlived the asking.
Gives(how, p, r, tried, since, kept) ==
    out' = [from |-> how, price |-> p, low |-> r.low, high |-> r.high,
            tried |-> tried, since |-> since, kept |-> kept]

Goes(c, s) == stage' = [stage EXCEPT ![c] = s]
NotStream  == UNCHANGED <<stream, own>>

-----------------------------------------------------------------------------
\* Mutant: a range that is widened in the cache is as good as new.
WithRange_Redated(c, p, r) ==
    /\ range' = [from |-> "candles", at |-> now, low |-> Widened(r, p).low,
                 high |-> Widened(r, p).high, since |-> r.since]
    /\ Gives("REST", p, Widened(r, p), r.since, r.since, FALSE)
    /\ Goes(c, "idle")
    /\ price' = [price EXCEPT ![c] = 0]

\* With the range at hand the price widens it, in the cache as well, and the
\* ticker is complete.
WithRange(c, p, r) ==
    /\ range' = [from |-> "candles", at |-> r.at, low |-> Widened(r, p).low,
                 high |-> Widened(r, p).high, since |-> r.since]
    /\ Gives("REST", p, Widened(r, p), r.since, r.since, FALSE)
    /\ Goes(c, "idle")
    /\ price' = [price EXCEPT ![c] = 0]

\* With the price at hand Hyperliquid goes on to the range. Kraken's tickers
\* have theirs.
WithQuote(c, q) ==
    CASE adapter = "kraken" ->
           /\ Gives("REST", q.price, [low |-> q.price, high |-> q.price],
                    now, now, FALSE)
           /\ Goes(c, "idle")
           /\ UNCHANGED <<range, price>>
      [] adapter = "hyperliquid" /\ Fresh(range, RangeTtl) ->
           WithRange(c, q.price, range)
      [] OTHER ->
           /\ Goes(c, "range_lock")
           /\ price' = [price EXCEPT ![c] = q.price]
           /\ out' = Nothing
           /\ UNCHANGED range

\* get_ticker: what is fresh is used at once, but by Kraken only with the lock.
GetsTicker(c) ==
    /\ stage[c] = "idle"
    /\ IF adapter = "hyperliquid" /\ Fresh(quote, QuoteTtl)
       THEN WithQuote(c, quote)
       ELSE /\ Goes(c, "quote_lock")
            /\ out' = Nothing
            /\ UNCHANGED <<range, price>>
    /\ UNCHANGED <<adapter, now, quote, holder>> /\ NotStream

\* Mutant: with the lock, nobody looks again.
LocksQuote_Blindly(c) ==
    /\ stage[c] = "quote_lock" /\ holder["quote"] = Nobody
    /\ Goes(c, "quote_request")
    /\ holder' = [holder EXCEPT !["quote"] = c]
    /\ out' = Nothing
    /\ UNCHANGED <<adapter, now, quote, range, price>> /\ NotStream

LocksQuote(c) ==
    /\ stage[c] = "quote_lock" /\ holder["quote"] = Nobody
    /\ IF Fresh(quote, QuoteTtl)
       THEN WithQuote(c, quote) /\ UNCHANGED holder
       ELSE /\ Goes(c, "quote_request")
            /\ holder' = [holder EXCEPT !["quote"] = c]
            /\ out' = Nothing
            /\ UNCHANGED <<range, price>>
    /\ UNCHANGED <<adapter, now, quote>> /\ NotStream

QuoteArrives(c) ==
    /\ stage[c] = "quote_request"
    /\ \E p \in Prices : quote' = [from |-> "request", at |-> now, price |-> p]
    /\ WithQuote(c, quote')
    /\ holder' = [holder EXCEPT !["quote"] = Nobody]
    /\ UNCHANGED <<adapter, now>> /\ NotStream

LocksRange(c) ==
    /\ stage[c] = "range_lock" /\ holder["range"] = Nobody
    /\ IF Fresh(range, RangeTtl)
       THEN WithRange(c, price[c], range) /\ UNCHANGED holder
       ELSE /\ Goes(c, "range_request")
            /\ holder' = [holder EXCEPT !["range"] = c]
            /\ out' = Nothing
            /\ UNCHANGED <<range, price>>
    /\ UNCHANGED <<adapter, now, quote>> /\ NotStream

RangeArrives(c) ==
    /\ stage[c] = "range_request"
    /\ \E r \in Ranges \cup {NoRange} :
           WithRange(c, price[c], [at |-> now, since |-> now,
                                   low |-> r.low, high |-> r.high])
    /\ holder' = [holder EXCEPT !["range"] = Nobody]
    /\ UNCHANGED <<adapter, now, quote>> /\ NotStream

\* The error goes to the caller, and the next one who waits asks again.
RequestFails(c) ==
    /\ stage[c] \in {"quote_request", "range_request"}
    /\ holder' = [k \in Caches |-> IF holder[k] = c THEN Nobody ELSE holder[k]]
    /\ Goes(c, "idle")
    /\ price' = [price EXCEPT ![c] = 0]
    /\ out' = Nothing
    /\ UNCHANGED <<adapter, now, quote, range>> /\ NotStream

-----------------------------------------------------------------------------
(* stream_ticker of Hyperliquid *)

NotCalls == UNCHANGED <<adapter, now, quote, range, holder, stage, price>>

\* The stream begins with a range of its own. Should the request fail then, there
\* is no stream.
StreamBegins ==
    /\ adapter = "hyperliquid" /\ stream \in {"off", "ended"}
    /\ stream' = "reading"
    /\ \E r \in Ranges \cup {NoRange} :
           own' = [range |-> r, price |-> 0, tried |-> now, since |-> now,
                   kept |-> FALSE]
    /\ out' = Nothing
    /\ NotCalls

\* A frame widens the range. When the candles are due they are asked for before
\* the ticker is given out, and not again for as long as that, whatever comes.
FrameArrives(p) ==
    /\ stream = "reading"
    /\ LET wider == [own EXCEPT !.range = Widened(@, p),
                               !.since = IF own.range = NoRange THEN now ELSE @]
       IN  IF now >= own.tried + RangeTtl
           THEN /\ stream' = "reseeding"
                /\ own' = [wider EXCEPT !.price = p, !.tried = now]
                /\ out' = Nothing
           ELSE /\ own' = wider
                /\ Gives("stream", p, wider.range, wider.tried, wider.since, wider.kept)
                /\ UNCHANGED stream
    /\ NotCalls

\* The candles replace the range, if there are any. Without any it stays as it is.
Reseeded ==
    /\ stream = "reseeding"
    /\ stream' = "reading"
    /\ \/ \E r \in Ranges :
              own' = [own EXCEPT !.range = r, !.price = 0, !.since = own.tried,
                                 !.kept = FALSE]
       \/ own' = [own EXCEPT !.price = 0, !.kept = TRUE]
    /\ Gives("reseeded_stream", own.price, own'.range, own.tried, own'.since, own'.kept)
    /\ NotCalls

\* A ValueError (422, or candles that do not parse) passes for a malformed frame:
\* the frame is skipped, and the stream reads on with the range it has.
ReseedRejected ==
    /\ stream = "reseeding"
    /\ stream' = "reading"
    /\ own' = [own EXCEPT !.price = 0, !.kept = TRUE]
    /\ out' = Nothing
    /\ NotCalls

\* Any other error of the candles ends the stream, as the end of the subscription
\* or the consumer may.
StreamEnds ==
    /\ stream \in {"reading", "reseeding"}
    /\ stream' = "ended"
    /\ own' = NoOwn
    /\ out' = Nothing
    /\ NotCalls

Tick ==
    /\ now < MaxTime
    /\ now' = now + 1
    /\ out' = Nothing
    /\ UNCHANGED <<adapter, quote, range, holder, stage, price>>
    /\ NotStream

Next ==
    \/ \E c \in Calls :
        \/ GetsTicker(c) \/ LocksQuote(c) \/ QuoteArrives(c)
        \/ LocksRange(c) \/ RangeArrives(c) \/ RequestFails(c)
    \/ StreamBegins \/ Reseeded \/ ReseedRejected \/ StreamEnds
    \/ \E p \in Prices : FrameArrives(p)
    \/ Tick

Spec == Init /\ [][Next]_vars

-----------------------------------------------------------------------------
(* Correctness *)

TypeOK ==
    /\ now \in 0..MaxTime
    /\ holder \in [Caches -> Calls \cup {Nobody}]
    /\ stage \in [Calls -> {"idle", "quote_lock", "quote_request", "range_lock",
                            "range_request"}]
    /\ price \in [Calls -> 0..MaxPrice]
    /\ stream \in {"off", "reading", "reseeding", "ended"}

\* A ticker's price lies in its range, whoever fetched, cached and widened the
\* parts of it meanwhile; but not on the frame with which a stream takes new
\* candles, which know traded prices only and replace the range that the frame
\* has widened.
RangeHoldsPrice ==
    out # Nothing /\ out.from # "reseeded_stream" =>
        out.low <= out.price /\ out.price <= out.high

\* However often prices widen a range, no ticker goes by candles that are older
\* than RangeTtl, neither from the cache nor from a stream; but for a stream that
\* has asked for newer ones within that time and was given none, which goes on
\* with what it has. (Candles may take their time to come; the ticker that waits
\* for them has the ones that come.)
RangesExpire ==
    out # Nothing =>
        /\ out.from # "reseeded_stream" => now - out.tried < RangeTtl
        /\ out.since >= out.tried \/ out.kept

\* No call repeats the request that another has just made while it waited: one
\* that takes the lock of a cache to ask has nothing fresh in it.
SharedStep ==
    \A c \in Calls, k \in Caches :
        holder[k] # c /\ holder'[k] = c =>
            ~ Fresh(IF k = "quote" THEN quote ELSE range,
                    IF k = "quote" THEN QuoteTtl ELSE RangeTtl)
RequestsAreShared == [][SharedStep]_vars

=============================================================================
