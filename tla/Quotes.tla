------------------------------- MODULE Quotes -------------------------------
(***************************************************************************)
(* What the adapters make of the prices and sizes that the exchanges send: *)
(* the current-value routes and the streams, with the listing's contract   *)
(* sizes, which a call reads when it runs and a stream once, as it opens.  *)
(*                                                                         *)
(* One row of an answer or frame stands for all; of the two sides of a     *)
(* book the model has one.  Numbers are taken from fields that may be      *)
(* missing.  Sorting, depth and limits are not modelled, nor are names,    *)
(* ids and the fields that are passed on as they are.  Bybit's books and   *)
(* ticker are rebuilt from updates: see DeltaStreams.                      *)
(***************************************************************************)
EXTENDS Integers

CONSTANTS
    Price,       \* the price in a frame
    Size,        \* the size in a frame
    UsdSize,     \* an inverse contract is worth this many USD
    BaseSize,    \* a linear contract this much of the base
    Cycle        \* the funding interval of the listing

VARIABLES
    adapter, market, route,  \* what this behaviour is about
    listed,  \* the symbol is in the info cache
    stream,  \* "off", "open" or "ended"
    kept,    \* the listing that the stream has read, as it opened
    out      \* the result of a call or frame, the frame, and the listing used

vars == <<adapter, market, route, listed, stream, kept, out>>

-----------------------------------------------------------------------------
Missing == -1

Adapters == {"binance", "bybit", "hyperliquid", "kraken", "kucoin", "okx"}
Markets  == {"spot", "linear", "inverse"}
Routes   == {"ticker", "book_ticker", "orderbook", "trades", "agg_trades",
             "mark_price", "liquidations"}

\* What an adapter serves: over REST and as a stream.
MarketsOf(a) == IF a = "hyperliquid" THEN {"spot", "linear"} ELSE Markets
RestRoutes(m) ==
    {"ticker", "book_ticker", "orderbook", "trades"} \cup
    (IF m = "spot" THEN {} ELSE {"mark_price"})
StreamRoutes(a, m) ==
    {"ticker", "book_ticker", "trades"} \cup
    (IF a = "kucoin" THEN {"orderbook"} ELSE {}) \cup
    (IF a = "binance" THEN {"orderbook", "agg_trades"} ELSE {}) \cup
    (IF m = "spot" THEN {}
     ELSE (IF a \in {"binance", "hyperliquid", "kraken", "kucoin", "okx"}
           THEN {"mark_price"} ELSE {})
          \cup (IF a \in {"binance", "bybit", "okx"} THEN {"liquidations"} ELSE {}))

\* A frame.  Of its sides, "other" is neither buy nor sell; `next` is the time of
\* the next funding, and the time is Now.  `tag` is "second" or "third" where the
\* code tells kinds of frames apart.
Now == 100
Frames(r) ==
    IF r = "mark_price"
    THEN [price : {Missing, 0, Price}, size : {Missing}, side : {"none"},
          index : {Missing, Price}, rate : BOOLEAN, next : {Missing, Now - 1, Now + 1},
          tag : {"first", "second", "third"}]
    ELSE [price : {Missing, Price}, size : {Missing, Size},
          side : IF r \in {"trades", "agg_trades", "liquidations"}
                 THEN {"none", "buy", "other"} ELSE {"buy"},
          index : {Missing}, rate : {FALSE}, next : {Missing},
          tag : IF r = "liquidations" THEN {"first", "second"} ELSE {"first"}]

\* What the info cache knows of the symbol: nothing before it has been fetched,
\* or if it has been delisted.
Listing(m, known) ==
    [known |-> known,
     size  |-> IF known /\ m = "inverse" THEN UsdSize ELSE Missing,
     multiplier |-> IF known /\ m = "linear" THEN BaseSize ELSE Missing,
     cycle |-> IF known THEN Cycle ELSE Missing]

-----------------------------------------------------------------------------
(* Values *)

Nothing == [kind |-> "nothing"]
Skipped == [kind |-> "skipped"]
Raised  == [kind |-> "raised"]
Value(native, unit, usd) ==
    [kind |-> "value", native |-> native, unit |-> unit, usd |-> usd]

\* build_qty_value, and build_volume_value, which adds the basis.
Qty(native, unit, size, price) ==
    IF unit = "contract"
    THEN IF size = Missing THEN Raised ELSE Value(native, unit, native * size)
    ELSE Value(native, unit, native * price)
Volume(native, unit, size, close) == Qty(native, unit, size, close)

\* A level of a book has no USD value.
Level(native, unit) == Value(native, unit, Missing)

\* A MarkPrice with its funding block, if there is one. `power` is the power of
\* the price in the unit of the rate, which is 0 for a relative rate.
NoFunding == [kind |-> "none"]
Funding(kind, power, cycle, until) ==
    [kind |-> kind, power |-> power, cycle |-> cycle, until |-> until]
Mark(price, index, funding) ==
    [kind |-> "mark", price |-> price, index |-> index, funding |-> funding]

OrZero(x)      == IF x = Missing THEN 0 ELSE x
Needs(xs, v)   == IF Missing \in xs THEN Raised ELSE v
Unit(m)        == IF m = "inverse" THEN "contract" ELSE "base"
BuyOrSell(f, v) == IF f.side = "buy" THEN v ELSE Skipped
Later(t)       == IF t > Now THEN t ELSE Now + 1

\* "discrete", if there are a rate, an interval and a time.
Discrete(f, cycle) ==
    IF f.rate /\ cycle # Missing /\ f.next # Missing
    THEN Funding("discrete", 0, cycle, Later(f.next))
    ELSE NoFunding

-----------------------------------------------------------------------------
(* Binance: base, but contracts on inverse markets *)

BinanceGetTicker(m, f, i) ==
    Needs({f.price, f.size}, Volume(f.size, Unit(m), i.size, f.price))
BinanceGetBookTicker(m, f, i) ==
    Needs({f.price, f.size}, Qty(f.size, Unit(m), i.size, f.price))
BinanceGetOrderbook(m, f) == Needs({f.price, f.size}, Level(f.size, Unit(m)))
BinanceGetTrades(m, f, i) ==
    Needs({f.price, f.size}, Qty(f.size, Unit(m), i.size, f.price))
BinanceGetMarkPrice(f, i) ==
    Needs({f.price, f.index}, Mark(f.price, f.index, Discrete(f, i.cycle)))

BinanceStreamTicker(m, f, i) ==
    Needs({f.price, f.size}, Volume(f.size, Unit(m), i.size, f.price))
BinanceStreamBookTicker(m, f, i) ==
    Needs({f.price, f.size}, Qty(f.size, Unit(m), i.size, f.price))
BinanceStreamOrderbook(m, f) == Needs({f.price, f.size}, Level(f.size, Unit(m)))
BinanceStreamTrades(m, f, i) ==
    IF OrZero(f.price) <= 0 \/ OrZero(f.size) <= 0
    THEN Skipped
    ELSE Qty(f.size, Unit(m), i.size, f.price)
BinanceStreamAggTrades(m, f, i) ==
    Needs({f.price, f.size}, Qty(f.size, Unit(m), i.size, f.price))
BinanceStreamMarkPrice(f, i) ==
    Needs({f.price, f.index}, Mark(f.price, f.index, Discrete(f, i.cycle)))
BinanceStreamLiquidations(m, f, i) ==
    Needs({f.price, f.size}, Qty(f.size, Unit(m), i.size, f.price))

(* Bybit: likewise *)

BybitGetTicker(m, f, i) ==
    Needs({f.price, f.size}, Volume(f.size, Unit(m), i.size, f.price))
BybitGetBookTicker(m, f, i) ==
    Qty(OrZero(f.size), Unit(m), i.size, OrZero(f.price))
BybitGetOrderbook(m, f) == Needs({f.price, f.size}, Level(f.size, Unit(m)))
BybitGetTrades(m, f, i) ==
    Needs({f.price, f.size}, Qty(f.size, Unit(m), i.size, f.price))
BybitGetMarkPrice(f, i) ==
    Needs({f.price, f.index}, Mark(f.price, f.index, Discrete(f, i.cycle)))

BybitStreamTicker(m, f, i) ==
    Volume(OrZero(f.size), Unit(m), i.size, OrZero(f.price))
BybitStreamBookTicker(m, f, i) ==
    IF Missing \in {f.price, f.size}
    THEN Skipped
    ELSE Qty(f.size, Unit(m), i.size, f.price)
BybitStreamTrades(m, f, i) ==
    Needs({f.price, f.size}, Qty(f.size, Unit(m), i.size, f.price))
BybitStreamLiquidations(m, f, i) ==
    BuyOrSell(f, Qty(OrZero(f.size), Unit(m), i.size, OrZero(f.price)))

(* Hyperliquid: always base. Without the listing _lookup raises. *)

HyperliquidGetTicker(f) ==
    Needs({f.price}, Volume(OrZero(f.size), "base", Missing, f.price))
HyperliquidGetBookTicker(f) ==
    Needs({f.price, f.size}, Qty(f.size, "base", Missing, f.price))
HyperliquidGetOrderbook(f) == Needs({f.price, f.size}, Level(f.size, "base"))
HyperliquidGetTrades(f) ==
    Needs({f.price, f.size}, Qty(f.size, "base", Missing, f.price))

\* The time of the next funding is computed, not read.
HyperliquidFunding == Funding("discrete", 0, Cycle, Now + Cycle)
HyperliquidGetMarkPrice(f) ==
    Needs({f.price}, Mark(f.price, f.index,
                          IF f.rate THEN HyperliquidFunding ELSE NoFunding))

HyperliquidStreamTicker(f) ==
    IF OrZero(f.price) <= 0
    THEN Skipped
    ELSE Volume(OrZero(f.size), "base", Missing, f.price)
HyperliquidStreamBookTicker(f) ==
    Needs({f.price, f.size}, Qty(f.size, "base", Missing, f.price))
HyperliquidStreamTrades(f) ==
    Needs({f.price, f.size}, Qty(f.size, "base", Missing, f.price))
HyperliquidStreamMarkPrice(f) ==
    IF f.rate
    THEN Needs({f.price, f.index}, Mark(f.price, f.index, HyperliquidFunding))
    ELSE Raised

(* Kraken: base, but contracts on inverse markets; rates come in units of the *)
(* price, or per price on inverse markets, unless the field is a relative one *)

KrakenGetTicker(m, f, i) ==
    IF m = "spot"
    THEN Needs({f.price, f.size}, Volume(f.size, "base", Missing, f.price))
    ELSE Volume(OrZero(f.size), Unit(m), i.size, OrZero(f.price))
KrakenGetBookTicker(m, f, i) ==
    IF m = "spot"
    THEN Needs({f.price, f.size}, Qty(f.size, "base", Missing, f.price))
    ELSE Qty(OrZero(f.size), Unit(m), i.size, OrZero(f.price))
KrakenGetOrderbook(m, f) == Needs({f.price, f.size}, Level(f.size, Unit(m)))
KrakenGetTrades(m, f, i) ==
    IF m # "spot" /\ f.side # "buy"
    THEN Skipped
    ELSE Needs({f.price, f.size}, Qty(f.size, Unit(m), i.size, f.price))

RatePower(m) == IF m = "linear" THEN 1 ELSE -1
\* abs_rate / mark, or abs_rate * mark.
KrakenFunding(m) ==
    LET power == IF m = "linear" THEN RatePower(m) - 1 ELSE RatePower(m) + 1
    IN  Funding("continuous", power, 60, Now + 60)
KrakenGetMarkPrice(m, f) ==
    IF f.price <= 0
    THEN Raised
    ELSE Mark(f.price, f.index, IF f.rate THEN KrakenFunding(m) ELSE NoFunding)

KrakenStreamTicker(m, f, i) ==
    CASE m = "spot" -> Volume(OrZero(f.size), "base", Missing, OrZero(f.price))
      [] m # "spot" /\ f.price = Missing -> Skipped
      [] OTHER -> Volume(OrZero(f.size), Unit(m), i.size, f.price)
KrakenStreamBookTicker(m, f, i) ==
    CASE m = "spot" -> Qty(OrZero(f.size), "base", Missing, OrZero(f.price))
      [] m # "spot" /\ f.price = Missing -> Skipped
      [] OTHER -> Qty(OrZero(f.size), Unit(m), i.size, f.price)
KrakenStreamTrades(m, f, i) ==
    CASE f.side # "buy" -> Skipped
      [] m # "spot" /\ f.side = "buy" /\ f.price = Missing -> Skipped
      [] OTHER -> Qty(OrZero(f.size), Unit(m), i.size, OrZero(f.price))
\* The rate of a "second" frame is relative.
KrakenStreamMarkPrice(m, f) ==
    IF f.price = Missing
    THEN Skipped
    ELSE Mark(f.price, f.index,
              CASE f.rate /\ f.tag = "second" -> Funding("continuous", 0, 60, Now + 60)
                [] f.rate /\ f.tag # "second" /\ f.price > 0 -> KrakenFunding(m)
                [] OTHER -> NoFunding)

(* KuCoin: contracts on both futures markets, but for the volume of a linear *)
(* ticker. Linear sizes become base.                                         *)

KucoinQty(m, native, i, price) ==
    CASE m = "inverse" -> Qty(native, "contract", i.size, price)
      [] m = "linear" /\ i.multiplier = Missing -> Raised
      [] m = "linear" /\ i.multiplier # Missing ->
             Qty(native * i.multiplier, "base", Missing, price)
      [] m = "spot" -> Qty(native, "base", Missing, price)
KucoinLevel(m, native, i) ==
    CASE m = "inverse" -> Level(native, "contract")
      [] m = "linear" /\ i.multiplier = Missing -> Raised
      [] m = "linear" /\ i.multiplier # Missing ->
             Level(native * i.multiplier, "base")
      [] m = "spot" -> Level(native, "base")

KucoinGetTicker(m, f, i) ==
    Volume(OrZero(f.size), Unit(m), i.size, OrZero(f.price))
KucoinGetBookTicker(m, f, i) ==
    Needs({f.price, f.size}, KucoinQty(m, f.size, i, f.price))
KucoinGetOrderbook(m, f, i) ==
    Needs({f.price, f.size}, KucoinLevel(m, f.size, i))
KucoinGetTrades(m, f, i) ==
    IF m = "linear" /\ i.multiplier = Missing
    THEN Raised
    ELSE BuyOrSell(f, Needs({f.price, f.size}, KucoinQty(m, f.size, i, f.price)))
KucoinGetMarkPrice(f, i) ==
    Mark(OrZero(f.price), f.index, Discrete(f, i.cycle))

KucoinStreamTicker(m, f, i) ==
    Volume(OrZero(f.size), Unit(m), i.size, OrZero(f.price))
\* Mutant: the sizes of a frame are not converted.
KucoinStreamBookTicker_AsItCame(m, f, i) ==
    IF m = "spot" /\ f.price = Missing
    THEN Skipped
    ELSE Qty(OrZero(f.size), Unit(m), i.size, OrZero(f.price))
KucoinStreamBookTicker(m, f, i) ==
    IF m = "spot" /\ f.price = Missing
    THEN Skipped
    ELSE KucoinQty(m, OrZero(f.size), i, OrZero(f.price))
KucoinStreamOrderbook(m, f, i) ==
    Needs({f.price, f.size}, KucoinLevel(m, f.size, i))
KucoinStreamTrades(m, f, i) ==
    BuyOrSell(f, KucoinQty(m, OrZero(f.size), i, OrZero(f.price)))
\* The subject of a "first" frame is "mark.index.price".
KucoinStreamMarkPrice(f, i) ==
    IF OrZero(f.price) = 0 /\ f.tag # "first"
    THEN Skipped
    ELSE Mark(OrZero(f.price), f.index, Discrete(f, i.cycle))

(* OKX: contracts as KuCoin's; the linear ticker has a field in base *)

\* Mutant: the conversion is forgotten.
OkxQty_AsItCame(m, native, i, price) ==
    IF m = "linear" /\ i.multiplier = Missing
    THEN Raised
    ELSE Qty(native, Unit(m), i.size, price)
OkxQty(m, native, i, price) ==
    CASE m = "linear" /\ i.multiplier = Missing -> Raised
      [] m = "linear" /\ i.multiplier # Missing ->
             Qty(native * i.multiplier, "base", Missing, price)
      [] m = "inverse" -> Qty(native, "contract", i.size, price)
      [] m = "spot" -> Qty(native, "base", Missing, price)

OkxGetTicker(m, f, i) ==
    Volume(OrZero(f.size), Unit(m), i.size, OrZero(f.price))
OkxGetBookTicker(m, f, i) == OkxQty(m, OrZero(f.size), i, OrZero(f.price))
OkxGetOrderbook(m, f, i) ==
    CASE m = "linear" /\ i.multiplier = Missing -> Raised
      [] m = "linear" /\ i.multiplier # Missing ->
             Needs({f.price, f.size}, Level(f.size * i.multiplier, "base"))
      [] OTHER -> Needs({f.price, f.size}, Level(f.size, Unit(m)))
OkxGetTrades(m, f, i) ==
    Needs({f.price, f.size}, OkxQty(m, f.size, i, f.price))
\* Three requests; the last, for the index price, ends well ("first"), or with a
\* ValueError, which leaves that price out, or an UpstreamUnavailableError ("third").
OkxGetMarkPrice(f, i) ==
    IF f.tag = "third"
    THEN Raised
    ELSE Needs({f.price}, Mark(f.price, IF f.tag = "first" THEN f.index ELSE Missing,
                               Discrete(f, i.cycle)))

OkxStreamTicker(m, f, i) ==
    Volume(OrZero(f.size), Unit(m), i.size, OrZero(f.price))
OkxStreamBookTicker(m, f, i) ==
    IF f.price = Missing
    THEN Skipped
    ELSE Needs({f.size}, OkxQty(m, f.size, i, f.price))
OkxStreamTrades(m, f, i) ==
    Needs({f.price, f.size}, OkxQty(m, f.size, i, f.price))
OkxStreamMarkPrice(f) == Needs({f.price}, Mark(f.price, Missing, NoFunding))
\* Liquidations of all swaps come on one topic, a "first" frame is of this one.
OkxStreamLiquidations(m, f, i) ==
    IF f.tag = "first"
    THEN BuyOrSell(f, Needs({f.price, f.size}, OkxQty(m, f.size, i, f.price)))
    ELSE Skipped

-----------------------------------------------------------------------------
(* The routes *)

BinanceRest(m, r, f, i) ==
    CASE r = "ticker"      -> BinanceGetTicker(m, f, i)
      [] r = "book_ticker" -> BinanceGetBookTicker(m, f, i)
      [] r = "orderbook"   -> BinanceGetOrderbook(m, f)
      [] r = "trades"      -> BinanceGetTrades(m, f, i)
      [] r = "mark_price"  -> BinanceGetMarkPrice(f, i)
BybitRest(m, r, f, i) ==
    CASE r = "ticker"      -> BybitGetTicker(m, f, i)
      [] r = "book_ticker" -> BybitGetBookTicker(m, f, i)
      [] r = "orderbook"   -> BybitGetOrderbook(m, f)
      [] r = "trades"      -> BybitGetTrades(m, f, i)
      [] r = "mark_price"  -> BybitGetMarkPrice(f, i)
HyperliquidRest(r, f) ==
    CASE r = "ticker"      -> HyperliquidGetTicker(f)
      [] r = "book_ticker" -> HyperliquidGetBookTicker(f)
      [] r = "orderbook"   -> HyperliquidGetOrderbook(f)
      [] r = "trades"      -> HyperliquidGetTrades(f)
      [] r = "mark_price"  -> HyperliquidGetMarkPrice(f)
KrakenRest(m, r, f, i) ==
    CASE r = "ticker"      -> KrakenGetTicker(m, f, i)
      [] r = "book_ticker" -> KrakenGetBookTicker(m, f, i)
      [] r = "orderbook"   -> KrakenGetOrderbook(m, f)
      [] r = "trades"      -> KrakenGetTrades(m, f, i)
      [] r = "mark_price"  -> KrakenGetMarkPrice(m, f)
KucoinRest(m, r, f, i) ==
    CASE r = "ticker"      -> KucoinGetTicker(m, f, i)
      [] r = "book_ticker" -> KucoinGetBookTicker(m, f, i)
      [] r = "orderbook"   -> KucoinGetOrderbook(m, f, i)
      [] r = "trades"      -> KucoinGetTrades(m, f, i)
      [] r = "mark_price"  -> KucoinGetMarkPrice(f, i)
OkxRest(m, r, f, i) ==
    CASE r = "ticker"      -> OkxGetTicker(m, f, i)
      [] r = "book_ticker" -> OkxGetBookTicker(m, f, i)
      [] r = "orderbook"   -> OkxGetOrderbook(m, f, i)
      [] r = "trades"      -> OkxGetTrades(m, f, i)
      [] r = "mark_price"  -> OkxGetMarkPrice(f, i)

\* A call: Hyperliquid's _lookup raises for a symbol that is not listed.
Rest(f, i) ==
    CASE adapter = "binance" -> BinanceRest(market, route, f, i)
      [] adapter = "bybit"   -> BybitRest(market, route, f, i)
      [] adapter = "hyperliquid" ->
             IF i.known THEN HyperliquidRest(route, f) ELSE Raised
      [] adapter = "kraken"  -> KrakenRest(market, route, f, i)
      [] adapter = "kucoin"  -> KucoinRest(market, route, f, i)
      [] adapter = "okx"     -> OkxRest(market, route, f, i)

BinanceFrame(m, r, f, i) ==
    CASE r = "ticker"       -> BinanceStreamTicker(m, f, i)
      [] r = "book_ticker"  -> BinanceStreamBookTicker(m, f, i)
      [] r = "orderbook"    -> BinanceStreamOrderbook(m, f)
      [] r = "trades"       -> BinanceStreamTrades(m, f, i)
      [] r = "agg_trades"   -> BinanceStreamAggTrades(m, f, i)
      [] r = "mark_price"   -> BinanceStreamMarkPrice(f, i)
      [] r = "liquidations" -> BinanceStreamLiquidations(m, f, i)
BybitFrame(m, r, f, i) ==
    CASE r = "ticker"       -> BybitStreamTicker(m, f, i)
      [] r = "book_ticker"  -> BybitStreamBookTicker(m, f, i)
      [] r = "trades"       -> BybitStreamTrades(m, f, i)
      [] r = "liquidations" -> BybitStreamLiquidations(m, f, i)
HyperliquidFrame(r, f) ==
    CASE r = "ticker"       -> HyperliquidStreamTicker(f)
      [] r = "book_ticker"  -> HyperliquidStreamBookTicker(f)
      [] r = "trades"       -> HyperliquidStreamTrades(f)
      [] r = "mark_price"   -> HyperliquidStreamMarkPrice(f)
KrakenFrame(m, r, f, i) ==
    CASE r = "ticker"       -> KrakenStreamTicker(m, f, i)
      [] r = "book_ticker"  -> KrakenStreamBookTicker(m, f, i)
      [] r = "trades"       -> KrakenStreamTrades(m, f, i)
      [] r = "mark_price"   -> KrakenStreamMarkPrice(m, f)
KucoinFrame(m, r, f, i) ==
    CASE r = "ticker"       -> KucoinStreamTicker(m, f, i)
      [] r = "book_ticker"  -> KucoinStreamBookTicker(m, f, i)
      [] r = "orderbook"    -> KucoinStreamOrderbook(m, f, i)
      [] r = "trades"       -> KucoinStreamTrades(m, f, i)
      [] r = "mark_price"   -> KucoinStreamMarkPrice(f, i)
OkxFrame(m, r, f, i) ==
    CASE r = "ticker"       -> OkxStreamTicker(m, f, i)
      [] r = "book_ticker"  -> OkxStreamBookTicker(m, f, i)
      [] r = "trades"       -> OkxStreamTrades(m, f, i)
      [] r = "mark_price"   -> OkxStreamMarkPrice(f)
      [] r = "liquidations" -> OkxStreamLiquidations(m, f, i)

\* A frame of an open stream, before its handler for malformed frames.
Frame(f, i) ==
    CASE adapter = "binance"     -> BinanceFrame(market, route, f, i)
      [] adapter = "bybit"       -> BybitFrame(market, route, f, i)
      [] adapter = "hyperliquid" -> HyperliquidFrame(route, f)
      [] adapter = "kraken"      -> KrakenFrame(market, route, f, i)
      [] adapter = "kucoin"      -> KucoinFrame(market, route, f, i)
      [] adapter = "okx"         -> OkxFrame(market, route, f, i)

\* What a stream raises on before it subscribes.
CannotOpen(i) ==
    \/ adapter = "hyperliquid" /\ ~i.known
    \/ /\ adapter \in {"kucoin", "okx"}
       /\ market = "linear"
       /\ route \notin {"ticker", "mark_price"}
       /\ i.multiplier = Missing

-----------------------------------------------------------------------------
TypeOK ==
    /\ adapter \in Adapters
    /\ market \in MarketsOf(adapter)
    /\ route \in RestRoutes(market) \cup StreamRoutes(adapter, market)
    /\ listed \in BOOLEAN
    /\ stream \in {"off", "open"}
    /\ kept \in {Listing(market, k) : k \in BOOLEAN}

NoFrame == CHOOSE f \in Frames("ticker") : f.price = Missing /\ f.size = Missing
NoResult(i) == [way |-> "none", frame |-> NoFrame, listing |-> i, result |-> Nothing]

Init ==
    /\ adapter \in Adapters
    /\ market \in MarketsOf(adapter)
    /\ route \in RestRoutes(market) \cup StreamRoutes(adapter, market)
    /\ listed \in BOOLEAN
    /\ stream = "off"
    /\ kept = Listing(market, FALSE)
    /\ out = NoResult(Listing(market, FALSE))

\* The info cache is refreshed and the symbol is new, or gone.
Relists ==
    /\ listed' = ~listed
    /\ UNCHANGED <<adapter, market, route, stream, kept, out>>

Gets(f) ==
    /\ route \in RestRoutes(market)
    /\ LET i == Listing(market, listed)
       IN  out' = [way |-> "rest", frame |-> f, listing |-> i, result |-> Rest(f, i)]
    /\ UNCHANGED <<adapter, market, route, listed, stream, kept>>

Opens ==
    /\ stream = "off"
    /\ route \in StreamRoutes(adapter, market)
    /\ ~CannotOpen(Listing(market, listed))
    /\ stream' = "open"
    /\ kept' = Listing(market, listed)
    /\ UNCHANGED <<adapter, market, route, listed, out>>

\* What raises is skipped, but it ends Bybit's book ticker.
EndsOn(result) ==
    result = Raised /\ adapter = "bybit" /\ route = "book_ticker"
FrameArrives(f) ==
    /\ stream = "open"
    /\ LET result == Frame(f, kept)
       IN  /\ out' = [way |-> "stream", frame |-> f, listing |-> kept,
                      result |-> IF result = Raised THEN Skipped ELSE result]
           /\ stream' = IF EndsOn(result) THEN "off" ELSE "open"
    /\ UNCHANGED <<adapter, market, route, listed, kept>>

Closes ==
    /\ stream = "open"
    /\ stream' = "off"
    /\ UNCHANGED <<adapter, market, route, listed, kept, out>>

Next ==
    \/ Relists
    \/ \E f \in Frames(route) : Gets(f)
    \/ Opens
    \/ \E f \in Frames(route) : FrameArrives(f)
    \/ Closes

Spec == Init /\ [][Next]_vars

-----------------------------------------------------------------------------
(* Properties *)

\* The exchanges' units: contracts on inverse markets, and on the linear ones of
\* KuCoin and OKX in every field but the ticker's volume.
InContracts ==
    \/ market = "inverse"
    \/ market = "linear" /\ adapter \in {"kucoin", "okx"} /\ route # "ticker"
Base(f) == IF InContracts THEN f.size * BaseSize ELSE f.size
Usd(f)  == IF market = "inverse" THEN f.size * UsdSize ELSE Base(f) * f.price
Complete(f) == f.price > 0 /\ f.size > 0

\* An amount that a route or stream delivers is the one that the exchange meant:
\* base amounts in base, others in contracts, and their worth in USD is right, with
\* whatever listing the caller or the stream has read.  A book's levels have no worth.
AmountsAreTrue ==
    LET f == out.frame
        v == out.result
    IN  v.kind = "value" /\ Complete(f) =>
        /\ v.usd \in {Missing, Usd(f)}
        /\ v.usd = Missing => route = "orderbook"
        /\ v.unit = IF market = "inverse" THEN "contract" ELSE "base"
        /\ v.native = IF market = "inverse" THEN f.size ELSE Base(f)

\* A funding block is whole: the rate is a pure number, there is a cycle, and the
\* rate is valid beyond the time of the price it comes with.
FundingIsWhole ==
    LET v == out.result
    IN  v.kind = "mark" /\ v.funding.kind # "none" =>
        /\ v.funding.power = 0
        /\ v.funding.cycle # Missing
        /\ v.funding.until > Now

\* A stream gives what a call gives for the same frame and listing, and leaves out
\* frames that are whole only where the call raises.  Exempt are the mark prices,
\* which come with less on some streams.
StreamsMatchRest ==
    LET f == out.frame
        rest == Rest(f, out.listing)
    IN  /\ out.way = "stream"
        /\ route \in RestRoutes(market) \ {"mark_price"}
        /\ Complete(f)
        /\ f.side = "buy"
        => out.result = IF rest = Raised THEN Skipped ELSE rest
=============================================================================
