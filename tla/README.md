# exchange-router-service: specifications

TLA+ modules for the exchange router: a FastAPI service that gives one HTTP and
WebSocket interface to six crypto exchanges.  The modules follow the code under
`src/src` and `src/client`; comments in them name the function they model.

1. [The system](#the-system)
2. [Modules](#modules)
3. [Runs, bounds and what they show](#runs-bounds-and-what-they-show)
4. [Fairness](#fairness)
5. [Proofs](#proofs)
6. [Where code and documents disagree](#where-code-and-documents-disagree)
7. [What is not modelled](#what-is-not-modelled)
8. [Plan](#plan)

## The system

Everything runs on one asyncio event loop.  A coroutine runs alone until it
awaits something that is not ready, so the interesting interleavings are those
between awaits, and the failures are cancels, timeouts, lost connections and
upstream errors.

| Component | State | Operations | Interacts with | What makes it correct |
|---|---|---|---|---|
| `StreamManager` (`stream_manager.py`) | `active_streams` (key to clients), `upstream_tasks` (key to handler), `_closing` | `subscribe`, `unsubscribe`, `shutdown`, one `_upstream_handler` task per key, `_close_client` tasks | called by the endpoint and the lifespan handler; pulls from an adapter stream; sends to and closes client sockets | the two maps agree; a handler serves, closes and unregisters only its own generation of a key; no client is left silent; nothing runs that nobody can cancel; shutdown ends |
| WebSocket endpoint (`main.py:354`) | where its coroutine is, key and client id | handshake with 10 s timeout, validation, subscribe, receive loop, unsubscribe in `finally` | `StreamManager` | every subscription is given back exactly once |
| `StreamHub` (`exchanges/base.py:116`) | `_queues`, `_subscribed_topics`, `_connected`, `_ws`, `_task`, `_closed` | `subscribe`, `unsubscribe`, `close`, the `_run` task with reconnects, keepalive | used by each adapter's `_ws_connect` generator; talks to the exchange | what it believes announced is streamed, readers have queues, readers are fed after reconnects, close ends |
| Adapter streams (`stream_orderbook`, ...) | books, sequence numbers, last values | one generator per handler | `StreamHub`, REST snapshots | a book shown is the exchange's book, gaps are noticed |
| Hub of a subscription (`_ws_connect`, `_get_hub`, `_hub_key`; Hyperliquid's pool, `hyperliquid/adapter.py:447-501`) | hubs per key; topics, references and payloads per hub | `_ws_connect`, `_acquire_topic`, `_release_topic` | `StreamHub` | a topic has one hub, is counted exactly and announced as its readers asked; at most 10 hubs of 900 topics |
| Request path (`_make_request` of each adapter) | `_backoff_until`, last request times, retry counters | request, back off, retry, fail | exchange REST, every route | no request in a known backoff window, bounded retries, right error |
| Instrument cache and warm-up (`base.py:412-505`) | cached info, time, lock, funding intervals, symbol maps, warm task | `_ensure_info_cache` with `_fetch_exchange_info`, `_ensure_spot_symbol_map`, `preload`, `cancel_warm` | routes, streams, lifespan | one fetch at a time, at most once a day or an hour after a failure; an old cache survives a failed fetch; every listing has its intervals |
| Caches of snapshots (`hyperliquid/adapter.py:332-397`, `kraken/adapter.py:624-635`) | contexts, ranges and tickers that live for seconds or minutes, a lock each | `_ctx_snapshot`, `_high_low_24h_cached`, `_futures_tickers` | ticker routes, Hyperliquid's ticker stream | callers share one request; a price lies in its range; a range is not older than its time to live |
| Units and values (`get_ticker`, ..., `stream_trades` of each adapter) | the listing a stream has read | one conversion per route and stream | instrument cache | amounts in base or contracts as declared, with the right worth; relative funding rates |
| History calls and pagination (`base.py:357`, `get_candles`, ... of each adapter) | none between calls | one request, or a walk back over pages | exchange REST, clients that page back | no gap, no repeat, terminates |
| Registry and lifespan (`exchanges/__init__.py`, `main.py:26`) | the adapters | startup, shutdown | all of the above | shutdown in the documented order |
| HTTP routes (`main.py`) | none | validation, error mapping, open-interest join | adapters | errors blame the right side, values joined on the right candle |
| Client SDK (`client/`) | capability cache, background loop, queue between threads | request with retries, `stream`, `fetch_many` | the service | calls end, errors are classified and reach the consumer, streams go on, connections are given back |
| Auditor (`tools/auditor`) | probe results | sequential probes | the service | diagnostic only |

Hard behaviours, each listed with its line in `PROJECT.json` under `hazards`:
generations of one key that overlap (a handler still ending while the key has
new clients); snapshots used after an await; cancels delivered late or, on
Python 3.11, lost; closes and sends that time out; a reconnect racing
subscribe and unsubscribe; consumers cancelled half-way; queues at their limit;
backoff windows read once and slept on; caches that go stale, fetched by many
at once or broken off half-way; contracts mistaken for coins; two threads of the
client over one bounded queue.

## Modules

| Module | Models | Size of the code |
|---|---|---|
| `StreamManager` | `stream_manager.py` and the endpoint of `main.py` | 125 + 45 lines |
| `FanOut` | abstract: what the manager promises to its clients | - |
| `StreamManagerFanOut` | the refinement mapping of `StreamManager` to `FanOut` | - |
| `StreamManagerProofs` | theorems about `StreamManager` | - |
| `StreamHub` | `StreamHub` and the `_ws_connect` generators | 200 lines + 6 generators |
| `StreamHubProofs` | theorems about `StreamHub` | - |
| `DeltaStreams` | the books, tops and tickers built from messages over the hub's queues; composed with `StreamHub` | 6 generators of 40 to 95 lines |
| `DeltaStreamsProofs` | theorems about `DeltaStreams` | - |
| `RequestPath` | `_make_request` of OKX, Binance, Bybit, KuCoin and Hyperliquid | 5 methods of 50 to 80 lines |
| `RequestPathProofs` | theorems about `RequestPath` | - |
| `KrakenRequests` | `_make_request`, `_await_throttle` and `_set_backoff` of Kraken | 120 lines |
| `KrakenRequestsProofs` | theorems about `KrakenRequests` | - |
| `History` | `_paginate_backwards` and the history calls of all adapters | 25 methods of 30 to 115 lines |
| `HistoryProofs` | theorems about `History` | - |
| `InfoCache` | `_ensure_info_cache`, each adapter's `_fetch_exchange_info`, the symbol maps, the warm-up | 100 lines + 6 methods of 75 to 125 lines |
| `Hubs` | `_ws_connect`, `_get_hub` and Hyperliquid's pool | 200 lines |
| `Snapshots` | the short-lived caches of Hyperliquid and Kraken, Hyperliquid's ticker and its stream | 150 lines |
| `Quotes` | the current-value routes and the streams of all adapters | 56 methods of 20 to 90 lines |
| `ClientRequests` | the SDK's requests through the service's error handlers | 180 lines |
| `ClientStream` | `stream`, `subscribe` and `_LoopThread.iterate` of the SDK | 70 lines |
| `OpenInterestJoin` | the open interest route of `main.py` | 40 lines |
| `MCStreamManager` | the symmetry set for TLC | - |
| `MCAdapters` | `InfoCache`, `Hubs`, `Snapshots` and `Quotes`, one of them to a behaviour | - |
| `AdaptersProofs` | theorems about `MCAdapters` | - |
| `MCClient` | `ClientRequests`, `ClientStream` and `OpenInterestJoin`, likewise | - |
| `ClientProofs` | theorems about `MCClient` | - |

The components that `MCAdapters` and `MCClient` put side by side share no state,
in the code as in the modules.  A disjunction of their specifications checks each
of them in full, with one set of constants and one state graph; their products
would add nothing but interleavings of steps that commute.  Each property there
begins with the `part` it is about, and is stated and explained in its module.

### StreamManager

A step is the code between two points where a coroutine really suspends.  No
section under `StreamManager._lock` awaits anything, so the lock is never
contended and a section is part of the step around it.

| State | Code |
|---|---|
| `activeStreams`, `upstreamTasks`, `closing` | `active_streams` (the clients of a bucket as a set), `upstream_tasks`, `_closing` |
| `pc`, `taskKey`, `cancelled`, `clientItems`, `closeTasks` | of a handler task: where it is suspended, its key, a cancel requested and not yet delivered, the snapshot being sent to, the closes awaited in `finally` |
| `phase`, `clientKey`, `waitsFor`, `socket` | of an endpoint coroutine: its progress, its key, the handler `unsubscribe` waits for, and the connection |
| `server`, `shutdownTasks`, `shutdownCloses` | the progress of `shutdown` and its two gathers |
| `servedBy`, `lost` | history: the handler that was registered when a client joined, which is its generation; the keys on which a handler has lost a cancel |

| Action | Code |
|---|---|
| `Reject`, `Subscribe`, `Disconnect` | the endpoint up to `stream_manager.subscribe`; the peer |
| `Unsubscribe`, `CancelAgain`, `UnsubscribeReturns` | `unsubscribe`: the locked section with `cancel`, the 2 s timeout of `wait_for`, its return |
| `HandlerStarts`, `StreamOpens` | the handler's first step and the first `anext` of the adapter stream |
| `ItemArrives`, `SendsDone` | the loop body up to and after the gather, with dead clients |
| `StreamEnds`, `CancelDelivered` and the operator `Finally` | the ways into `finally`, and what it does |
| `FinalCloseDone`, `SpawnedCloseDone` | the close tasks |
| `ShutdownBegins`, `ShutdownTasksDone`, `ShutdownReturns` | `shutdown` between its gathers |

A cancel can be lost.  Up to Python 3.11, which the Dockerfile uses,
`asyncio.wait_for` returns its result when a cancel arrives after what it waits
for has happened and before the waiting task runs again; a handler meets such a
`wait_for` while its stream opens (`base.py:159`), so `StreamOpens` may swallow
the cancel of its handler and enters the key in `lost`.  The properties about
generations are stated for handlers that are `Intact`, those of keys on which
nothing was lost: the exemption is per key and not per handler because a
handler that strays unregisters the next handler of its key when it ends.  What
is stated without `Intact` holds even then, and what a lost cancel breaks is a
run of its own.  From Python 3.12 on the cancel is always delivered.

`FanOut` knows sessions, audiences and deliveries, and none of tasks, maps,
cancels or closes.  The mapping takes a session to be a handler task while it is
registered and its audience to be the bucket of its key.  Every step is a step
of `FanOut` or none, until a cancel is lost.

### StreamHub

| State | Code |
|---|---|
| `queues`, `subscribedTopics`, `connected`, `closed` | `_queues` (the consumers that own a queue), `_subscribed_topics`, `_connected`, `_closed` |
| `run` | where the `_run` task is suspended; `"none"` when there is none |
| `con`, `topicOf`, `woken` | a generator: its progress, its topic, and whether its wait for `_connected` was answered (an event wakes its waiters for good, even if it is cleared before they run) |
| `ws`, `streamed`, `breaks` | the connection, what the exchange sends on it, and the bound on faults |
| `givenUp` | history: topics whose first consumer was cancelled inside `subscribe` since the last connect |

The actions are the parts of `subscribe`, `unsubscribe`, `close` and `_run`
between awaits.  A payload takes effect when it is sent, because `ws.send`
writes before it waits; on a broken connection it is lost with a warning, as in
`_send_payloads`.

### DeltaStreams

One topic of a hub with the generators above it.  The hub is `StreamHub` with
`Topics <- {Topic}`, its steps taken together with what they do to messages;
`close` is left out, so the hub stays up.

| State | Code |
|---|---|
| `stream` | whose generator runs; chosen in `Init` |
| `past`, `wire` | the exchange's book after each of its changes; what it has sent and `_run` has not read |
| `queue` | the queues of `StreamHub._queues` |
| `reader`, `book`, `bootstrapped`, `last` | the generator, its book, `bootstrapped`, `last_seq` or `last_u` |
| `joined`, `missed` | history: how the consumer came to the topic; whether a message was dropped or skipped since its last snapshot |

| Action | Code |
|---|---|
| `Joins`, `Announces`, `GivesUp`, `Leaves` | `_ws_connect` around `hub.subscribe` and in its `finally` |
| `Abandoned` | a handler that breaks out of its loop, which leaves the generator to the collector |
| `Deliver` | the dispatch of `_run`, which drops the oldest message of a full queue |
| `Reads`, `Malformed` | the loop body of the generator |
| `Connects`, `GoesDown` and the other steps of the hub | as in `StreamHub`; a new connection gets a snapshot, a lost one loses what was unread |

A book is the set of its price levels and a change of the exchange's book adds
or removes one; a message is a whole book or one change.  Changes are numbered.
Of the generators two check the numbers and end at a gap (OKX's `books`, Bybit's
order book, which behave alike), two have none to check (Kraken's book, Bybit's
ticker, which differ in what a message that does not parse does), and for the
others every message is a whole book.  Of the exchange it is assumed that
SUBSCRIBE for a topic it does not stream is answered with a snapshot where the
stream has updates, and that a repeated one may be answered with an error alone.
Queues of generators that have ended are given no messages: nobody reads them.

### RequestPath and KrakenRequests

| State | Code |
|---|---|
| `adapter` | whose `_make_request` runs; chosen in `Init`, one adapter to a behaviour, since adapters share nothing |
| `backoff` | what remains until `_backoff_until` (one host of Binance, which keys it by host) |
| `stage`, `wait`, `retries` | of a call: the await it is suspended at, what remains of its sleep, the local counter |
| `sent`, `seen` | history: requests sent by the call; what remains of the window it saw when it last looked |

| Action | Code |
|---|---|
| `Start`, `PauseOver`, both through `Attempt` | the head of the retry loop: look at the deadline, refuse a long wait, sleep or go on |
| `BackoffOver` | the end of the sleep; the deadline is not looked at again |
| `Admitted` | OKX's semaphore and rate bucket, which only delay |
| `Answered`, `RateLimited`, `Banned`, `Fails` | the outcomes of the request, with what headers do to the deadline (`AfterHeaders`) |
| `Tick` | time |

Kraken's path has a shape of its own, hence a module: each attempt passes
`_await_throttle`, one step (`Throttle`) that computes the longest of the
remaining window, the spacing and the pair's interval, and either enters the
request or sleeps and comes back; `_set_backoff` opens windows and, on strong
signals, slows requests down.

Time is relative: a deadline is what remains of it, and `Tick` lets all of them
come closer by one.  Durations keep the order of the code's seconds and not
their ratio, so a comparison comes out as it does in the code, while how many
requests fit in an interval is not counted.

### History

A call for historical records turns "the newest `limit` records at or before
`start`" into requests, in one of four ways: one request; `_paginate_backwards`;
OKX's candles and Binance's funding rates, which fetch recent records first and
then walk back from them; and Kraken's walk forward over futures candles.  Calls
share no state, so a behaviour has one call at a time, chosen in `Init`; what
interleaves with its requests are records that arrive and requests that fail.

| State | Code |
|---|---|
| `call`, `start`, `limit` | which method runs, with what |
| `stage`, `seed`, `currentEnd`, `cadence`, `requests`, `collected` | the request it waits for and the local variables of the walk |
| `records`, `now` | the exchange's records and its clock |
| `view` | a client that passes its oldest timestamp as the next `start`, as the API reference advises |
| `known`, `cut` | history: the records when the call was first answered; whether a failure, a cap or a full page may have cut records off |

| Action | Code |
|---|---|
| `Asks`, `AsksOlder` | the client; `FirstStage` is the beginning of each method |
| `Single` | the methods that make one request |
| `WalkPage`, with a `...Page` operator for what each adapter sends | an iteration of `_paginate_backwards` |
| `Recent`, `RecentFunding`, `FundingPage`, `ForwardPage` | the walks of OKX, Binance and Kraken |
| `Fails`, `Raises` | errors that end a walk early, and those that end the call |
| `Arrives` | a time passes, with records or without |

Methods with the same control share a name: `"candles"` is Binance's and
Bybit's, `"metrics"` their open interest and long/short ratios and Bybit's
funding rates, `"okx_series"` OKX's funding rates, open interest and ratios,
`"kraken_metrics"` Kraken's open interest and ratios.  Records that are equal in
every field are one record, as `seen` has it.  Exclusive and inclusive
parameters are taken as the table of `Contributor_Guide.md:478` has them.

### InfoCache

| State | Code |
|---|---|
| `cached`, `elapsed` | `_info_cache` and the symbol maps that are filled; the time since `_info_cache_at` |
| `partial`, `intervals` | a listing that lacks what an optional request failed to give; `_funding_interval_cache` and `_contract_multiplier_cache`, with rows of the exchange or the default |
| `queue` | the holder of `_info_lock` and of the map's lock, and who waits behind it, first-in first-out |
| `stage`, `wants`, `since`, `left` | a coroutine: its await, the cache it uses, when it read `now`, the optional requests it still makes |
| `warmLeft`, `server` | the steps of `_warm` to come; the lifespan |
| `age`, `tried` | history: the time since the cached listing was requested, and since the last attempt |

`Asks` is a look-up, `Looks` the test before and after the lock, `Listed`,
`OptionalEnds` and `Fails` the ends of a fetch's requests, `LooksUp` those of a
map or of an interval of OKX, `Cancelled` a handler or the warm-up that is cut
off.  What the six `_fetch_exchange_info` differ in is `Fetch`: which requests
may fail, and whether rows fill the second cache one by one or at the end.

### Hubs

`payloads` is the table from which a hub builds its messages (`_topic_payloads`,
`_topic_args`), `refs`, `topicHub` and `slots` are the pool of Hyperliquid, and
`announced` is what the exchange was told on a connection.  `Opens` and
`Acquires` are `_ws_connect` up to the wait in `hub.subscribe`, `Cancelled` the
cancel there, which no `finally` sees; `Leaves` and `Releases` are the two halves
of `_release_topic`, between which it waits.  The inside of a hub is `StreamHub`.

### Snapshots

`quote` and `range` are the cached answers with the time they came, `holder` the
locks; `stage` and `price` belong to the calls, `stream` and `own` to
`stream_ticker` of Hyperliquid.  `since` is a history: when the candles of a range
came, whatever has widened it since.  `out` is the ticker that a step gave out.

A stream asks for candles with `FrameArrives`, when its range is due, and sets the
time of its next attempt before it knows how this one ends.  `Reseeded` takes the
candles, or keeps the range if there are none; `ReseedRejected` is a `ValueError`
(`hyperliquid/adapter.py:298`), which the loop takes for a malformed frame (line
952) and skips; `StreamEnds` is every other error, and the end of the
subscription.  `RangesAreSound` has two parts: the price lies in the range, except
on the frame that brings new candles (`RangeHoldsPrice`); and no range is used past
its time to live without an attempt to renew it, and one whose candles are older
than the last attempt is marked as `kept` (`RangesExpire`).

### Quotes

One operator per method, `<Adapter>Get<Route>` and `<Adapter>Stream<Route>`: it
takes a frame and a listing, and gives a value, a mark, nothing (`Skipped`) or an
exception (`Raised`).  Prices, sizes, contract sizes and multipliers are distinct
numbers, so that a product shows which of them went into it, and any field of a
frame may be missing.  A funding rate has no number but a unit, the power of the
price in it.  The state machine around them is short: a call reads the listing
when it runs, a stream reads it once (`kept`), and listings change.

### ClientRequests, ClientStream, OpenInterestJoin

`ClientRequests` has a call's way through `_ensure_capabilities`, `_preflight`
and `_request`, the answer of the route's handler, the exception handler that
takes it (`Status`), the retries and the class of the error that is raised.
`wrong` is what is wrong with the call's arguments.  An answer is named by its
cause, not by its exception: `Answers` says which a route may give to a call,
`Raises` the class that the adapters raise for each.  The body of an exchange that
carries an error code (`"rejected"`) and a number that does not parse
(`"unparsable"`) are both a `ValueError`, so the service blames the caller for
them; `BlameIsRight` names them as causes of a 400 and accepts no other for a
right call.  OKX asks for its long/short ratio by the base currency
(`okx/adapter.py:1118`, `1149`), so that route gives rows for a symbol that is not
listed.  Calls share the cached capabilities of an exchange; `failed` is a
history, whether a fetch of them has failed, and `CapabilitiesAreUsed` is about
what the calls make of them until then.

In `ClientStream` a step is what one thread does between two operations on the
queue they share.  `Connects`, `Receives`, `Loses`, `HandshakeTimesOut` and
`Reconnects` are `stream` and `subscribe` against the endpoint, `Offers` and
`Drops` the two calls of `offer`, `Reads`, `GoesOn` and `Cancelled` are `iterate`,
and `Closes` is the client's `close`.  The second cancel of `iterate`'s `finally`,
which reaches a pump that is ending, is one with the first.

`OpenInterestJoin` counts time in periods.  The rows and the candles are what
`History` says of the two calls, of which either may give a part only (`Walks`):
a walk back that a failure or the cap ends keeps the newest, Kraken's walk forward
the oldest.  Trades and ends of periods come in between.  `came` and `cut` are
histories, the candles of the answer and whether they are a part.  A row that is
given no close although its candle was traded has one of three reasons: the walk
was cut and did not bring the candle or none after it; its candle is the last
one; or periods ended between the two calls and the candles do not reach back to
it.  With a walk that was not cut the last two are all there are.

## Runs, bounds and what they show

| Run | Instance | Shows |
|---|---|---|
| `fan_out_safety` | 3 connections, 2 keys, 3 tasks, symmetric | the registry and the clients stay right even if cancels are lost (`TypeOK`, `RegistryServes`, `ClientsAccountedFor`, `CancelLeavesNobody`); generations do not mix where none is (`NoStrayHandler`, `GenerationsSeparate`, `FanOutIsCurrent`, `ImplementsFanOut`) |
| `fan_out_liveness` | 2 connections, 1 key, 2 tasks | `LeaversEnd`, `ShutdownEnds` |
| `hub` | 3 consumers, 2 topics, 2 faults | `HubConsistent`, `StarvedOnlyWhenGivenUp`, `SubscribersGetFed`, `CloseEnds` |
| `delta_streams` | 2 generators, 5 kinds of stream, 1 fault, queues of 2, 3 changes of the book | `BooksHold`, `ReadersGetBooks` |
| `requests` | 3 calls, made again and again, of each of the 5 adapters | `SeenWindowsAreKept`, `DeadlineNeverShrinks`, `CallsEnd` |
| `kraken_requests` | 3 calls of 2 attempts, 1 pair, intervals up to 3 ticks | `NothingSentInWindow`, `SpacingKept`, `CallsEnd` |
| `history` | 16 kinds of call, any history of 4 times and 2 more to come, pages of 3 records, walks of 3 requests, limits 2, 5, 8 | `AnswersAreRight`, `ShortMeansAll`, `ViewHasNoGap` |
| `adapters` | `InfoCache`: 2 calls beside the warm-up, of each of the 6 adapters; `Hubs`: 3 generators, 3 payloads, 2 hubs of 1 topic; `Snapshots`: 2 calls and a stream, 2 prices, 3 ticks; `Quotes`: every method of every adapter, market, frame and listing | `CachesAreSound`, `FetchesAreSpaced`, `UsesEnd`; `HubsAreSound`; `RangesAreSound`, `RequestsAreShared`; `ValuesAreTrue`, `StreamsMatchRest` |
| `client` | `ClientRequests`: 2 calls, 1 retry, 3 routes, 5 ways to be wrong; `ClientStream`: a queue of 3, 6 messages, 3 faults; `OpenInterestJoin`: 5 periods, 1 to 4 rows, walks that end anywhere | `BlameIsRight`, `CapabilitiesAreUsed`, `CallsEnd`; `ErrorsReachConsumer`, `StreamGoesOn`, `ConnectionsAreGivenBack`; `RowsAreJoined` |
| `shared_payload`, `stream_rejected`, `history_newest` | | `HubsKeepTheirShape`, `RejectionsAreRaised`, `StartIsReturned`: violated, the disagreements below |

Bounds.  Three connections let one handler end while a second generation of the
key has two clients, or the second ends while a third begins; two keys are
enough because handlers of different keys share only `_closing` and `shutdown`.
A task is created per first subscriber, so there are as many as connections.
The liveness run of the manager is smaller because it keeps no symmetry; two
connections give two generations of one key.  In the hub three consumers let
one leave and one arrive around a third, and two faults let a reconnect fail and
be repeated (`MaxBreaks` bounds both lost connections and refused ones).  In
`delta_streams` one price level is enough, since a change that is lost or
applied twice turns it over; a snapshot and two updates overflow a queue of two;
the second generator is the one that joins late or after the first.  Three
calls let one open a window while a second sleeps and a third looks; their
retries are the code's three, their windows have every order relative to the
thresholds that the seconds have (`MaxWindow`).  Kraken's calls retry once
instead of seven times: attempts differ in nothing but their number, and the
proofs hold for any.  Its pair interval is longer than the slowed spacing, as in
the code, and `MaxWindow` and `SlowWindow` bound the windows.  In
`history` a limit of 2 fits in one page, 5 needs two and 8 reaches the cap; pages
of three leave a page room beside the record it repeats; four times make every
pattern of holes a window of three can meet; at most two trades or liquidations
share a time, fewer than fill a page.

In the instrument cache two calls and the warm-up let one fetch, one wait behind
it and one behind both; the periods keep their order (`MaxFetch` for minutes,
`Retry` for an hour, `Refresh` for a day).  Two hubs of one topic make the pool
full with two of the three topics; the four adapters of that instance are those
whose choice of a hub differs, with Kraken in a run of its own and KuCoin's like
Bybit's.  The time to live of a range is twice that of a quote, so a range is
used for quotes of different ages, and `MaxTime` lets it expire with quotes
still fresh, and a stream come to its first attempt to renew it and go on after.
Two calls of the SDK let one read the capabilities while the other fetches them.
A queue of three items between the threads is full with messages, with an error
behind them and with the sentinel last; three faults let a reconnect fail twice.
Five periods let a row be the newest, be followed by a period, be older than all
candles, and lie on either side of where a walk was cut.  `Parts` names the
components of `MCAdapters` and `MCClient` that a run is about; leaving some out is
of use while one of them is changed.

Deadlock is checked where the system always has something to do, and where it
may stop `Terminated` is the only way to; `adapters`, `client` and the runs of
their modules alone do without it, since generators that have all been cancelled
in `subscribe`, or a closed stream, have no step left.

Every property of a passing run has a mutant: an operator marked "Mutant" beside
the action it replaces, which changes the action as a plausible bug would and
breaks the property.

## Fairness

`StreamManager!Fairness`: a ready coroutine is run, since the loop's queue is
first-in first-out; sends and closes end because of their 5 s timeouts; the wait
of `unsubscribe` is cut off after 2 s; a closed socket is noticed by its
endpoint.  Nothing is assumed of peers, upstream items, the opening or the end
of a stream.  `StreamHub!Fairness`: likewise, and a connection attempt succeeds
after finitely many faults; without that nobody could promise any data.
`DeltaStreams!Fairness` adds that `_run` reads what has been sent and a reader
what is in its queue.
`RequestPath!Fairness` and `KrakenRequests!Fairness`: time passes, a call whose
sleep is over runs, and the timeout of the HTTP client ends a request in one way
or another; which one is left open, so `CallsEnd` holds even if every answer is
a failure.  `InfoCache!Fairness`: the holder of a lock runs, waiters get it in
turn, and requests end; nobody has to use a cache.  `ClientRequests!Fairness`:
requests and sleeps end, by the timeout of the HTTP client.
`ClientStream!Fairness`: the loop's thread runs as long as it is not stopped, a
cancel is delivered, and the consumer asks for the next message or closes its
generator after each one; `StreamGoesOn` is about such consumers.

## Proofs

Every safety invariant and action property that a passing run checks, and the
refinement, is a theorem.  TLC shows it on the instance of its run; the theorem
holds for all values of the constants that meet the assumptions of the module.
TLC evaluates these in every run.

`StreamManagerProofs` holds for any sets of keys, connections and tasks, from
the assumptions that the "absent" values differ from the present ones
(`NoTaskAssumption`, `NoKeyAssumption`, `NoBucketAssumption`).  The registry
properties are not inductive.  That a bucket holds only clients of its handler
needs to know that a connection in its handshake belongs to nobody; that the
registered handler is alive needs to know that no map names a task not yet
created; and that an `unsubscribe` may cancel the handler it waits for once more
needs to know that this handler is registered no longer.  `Inv` adds these as
`UnbornIsBlank`, `EndpointConsistent` and `HandlerConsistent`, together with
`NoStrayHandler` and `GenerationsSeparate`, which carry the lost cancels.  There
is one lemma per action; `NextKeepsInv` puts them together.  That no client is
closed twice is about the closes of a handler that has ended and those of the
handlers before it; what is inductive of it is `ClosesApart`: a client being
closed is in no bucket and is closed in one of the two ways.  The refinement has
one lemma per action, which says what the step is in `FanOut`: a session that
opens or ends, a client that joins or leaves, a delivery, or nothing.  `FanOut`
has no fairness: what has to end eventually is in `LeaversEnd` and `ShutdownEnds`.

`StreamHubProofs` holds for any consumers, topics and number of faults.  That
nobody starves who was not given up is a statement about a connection that is up;
the invariant has to carry it through the announcements of a connect
(`QueuesCovered`: each topic with a queue is announced, has a consumer on its way
to announce it, or was given up), and to know that whoever was woken still finds
a connection or has to wait for the next one (`ConnectedWakes`).

`DeltaStreamsProofs` holds for any consumers, levels, changes and sizes of the
queues from one on.  A book is a state of the exchange's book if the updates that
made it follow on each other; the invariant follows them to the wire.  For each
reader, the last update it applied, its queue and what is still to be sent are
one chain (`ChainsUnbroken`), in which an update follows its predecessor or is
a snapshot, and whose end is the present book as long as the topic is streamed.
A full queue drops the oldest, which breaks the chain between the book and the
queue only, and sets `missed`; a lost connection ends the chain, and the next one
begins with a snapshot.  Those who check the numbers find the break; of those who
cannot, the theorem speaks until `missed`, as `BooksHold` does.

`RequestPathProofs` holds for any set of calls and any of the five adapters
(`AdaptersAssumption`).  That a call sends at most three requests needs to know
what each stage makes of the two counters together (a request in flight has
been counted in `sent` and not yet in `retries`), and that it respects the
window it saw needs to know that its sleep lasts as long as that window:
`CallConsistent`.

`KrakenRequestsProofs` holds for any calls, pairs and positive durations
(`NoPairAssumption`, `DurationsAssumption`).  Its invariant relates the times
the throttle keeps to those the requests were really sent at.

`HistoryProofs` holds for any of the calls, limits and caps, any history and any
way it goes on, from `SizesAssumption`: a page has more than two records, the
number that may share a time, since otherwise a walk could stand still on a time
with more records than fit in a page.  The code's pages have at least 100
records, and it relies on fewer trades than that sharing a millisecond.
What a walk has gathered is right because of where it stands: it has every
record that the call may answer with and that is later than its anchor
(`WalkFits`), though pages overlap by the records of one time.  Binance's funding
rates have that as long as no window overflowed (`FundingFits`); Kraken's
forward walk has all from its first time to its next one (`ForwardFits`).  Records
that arrive meanwhile are later than all there were (`RecordsFit`), so they are
behind every anchor.  `FinishGives` makes an answer of what was gathered and adds
it to the view, whose records the next call starts behind (`ViewFits`).  That a
short answer has all rests on a count: a window of `limit` times none of which
is without a record has `limit` records (`DenseCount`, and `SpanHasWindow` where
the request names both ends of the window).  What the newest records
of a set are is defined by counting, hence `LeadingGives`.

`AdaptersProofs` has an invariant for each of the four components.  `PoolInv`
says who holds a topic from the step that takes it to the step that gives it back,
across the wait in the middle of `_release_topic`, and that a topic is counted, has
its payload, a hub and a slot for exactly as long as it has holders.  Its theorem
`HubsStaySound` supposes that Kraken is not among the adapters, as in the run:
Kraken does not keep a hub's subscriptions of one shape, which is the disagreement
that `shared_payload` shows.  It holds for any number of hubs and of topics to a
hub from one on (`HubsAssumption`), the code's 10 and 900 among them.  `SnapInv`
says how old what is kept is, what a call that waits for a lock has in its hands,
and of the range of a stream that its candles are as new as the last attempt or
that the attempt brought none.  `InfoInv` relates the queue of each lock
to the stages of those in it, and the time an entry passes for to the times
of its request and of the last attempt; it needs that a fetch takes less than an
hour and an hour less than a day (`InfoCacheAssumption`).  `QuoteInv` says
that what was given out is what the method makes of a frame and a listing that
there may be; the theorems then go through the methods of all adapters, for any
positive prices, sizes and contract sizes (`NumbersAssumption`).

`ClientProofs` likewise.  `RequestInv` holds for any number of calls and
retries.  Of the class of a call's error nothing but the call's own steps decide;
but whether its arguments were looked at depends on what another has left in the
cache, so `CallRight` carries from the look-up to the end that what capabilities
rule out is not at the route, unless a fetch has failed.  `StreamInv` has the
order of what is in the queue between the threads, what `offer` still has in its
hands, and that a consumer yet to read has the error before the end of the queue,
or `offer` has dropped it; a queue has room for two (`BoundsAssumption`; the
code's has 1024).  `JoinInv` says that rows are of periods that had begun when
they were read, and that between the oldest of them and the newest time that was
asked for there are no more periods than the limit.  From this, a row that lies
before all candles of a walk that was not cut is one of the oldest rows, as many
as periods have ended since (`NewestReachBack`, `CandlesReachBack`): the newest
candles are counted, hence so are the periods and the rows.

| Theorem | Says |
|---|---|
| `TypeCorrect` | `TypeOK` of `StreamManager` |
| `RegistryCorrect` | `RegistryServes`: the maps agree, a registered handler serves, a bucket is its handler's |
| `HandlersDoNotStray`, `GenerationsStaySeparate`, `FanOutsAreCurrent` | `NoStrayHandler`, `GenerationsSeparate`, `FanOutIsCurrent`, all on keys where no cancel was lost |
| `CancelsLeaveNobody` | `CancelLeavesNobody` |
| `ClientsStayAccountedFor` | `ClientsAccountedFor`: a subscribed client is served or about to be closed, and closed once |
| `ManagerImplementsFanOut` | `ImplementsFanOut`: the refinement of `FanOut`, until a cancel is lost |
| `HubStaysConsistent`, `NobodyElseStarves` | `HubConsistent`, `StarvedOnlyWhenGivenUp` of `StreamHub` |
| `BooksStayTrue` | `BooksHold` of `DeltaStreams` |
| `ThreeAttempts`, `CallsKeepSeenWindows`, `DeadlinesOnlyGrow` | `AttemptsBounded`, `SeenWindowsAreKept`, `DeadlineNeverShrinks` of `RequestPath` |
| `WindowsAreQuiet`, `RequestsAreSpaced` | `NothingSentInWindow`, `SpacingKept` of `KrakenRequests` |
| `AnswersStayRight`, `ShortAnswersHaveAll`, `ViewsHaveNoGap` | `AnswersAreRight`, `ShortMeansAll`, `ViewHasNoGap` of `History` |
| `HubsStaySound` | `HubsAreSound` of `Hubs`, without Kraken |
| `RangesStaySound`, `RequestsStayShared` | `RangesAreSound`, `RequestsAreShared` of `Snapshots` |
| `CachesStaySound`, `FetchesStaySpaced` | `CachesAreSound`, `FetchesAreSpaced` of `InfoCache` |
| `ValuesStayTrue`, `StreamsStayMatched` | `ValuesAreTrue`, `StreamsMatchRest` of `Quotes` |
| `BlameStaysRight`, `CapabilitiesStayUsed` | `BlameIsRight`, `CapabilitiesAreUsed` of `ClientRequests` |
| `ErrorsStayAhead`, `RowsStayJoined` | `ErrorsReachConsumer` of `ClientStream`, `RowsAreJoined` of `OpenInterestJoin` |

Only model-checked: liveness, fairness and `ENABLED`, which the prover does not
reach: `LeaversEnd`, `ShutdownEnds`,
`SubscribersGetFed`, `CloseEnds`, `CallsEnd`, `ReadersGetBooks`, `UsesEnd`,
`StreamGoesOn` and `ConnectionsAreGivenBack`.  The three violated properties have
nothing to prove.  `ThreeAttempts` is about `AttemptsBounded`, which no run has,
since the proof says more.

## Where code and documents disagree

Shown by a run:

* `history_newest`: Kraken's forward walk stops when the last candle of a page
  opens at or after the anchor less one interval (`kraken/adapter.py:1111`); if
  it opens exactly there, the candle at `start` is not fetched.  A request that
  fails, or the cap, costs the newest candles too, where every other walk loses
  the oldest.  `API_Reference.md:112` has X in the answer.
* `shared_payload`: Kraken has a hub for each shape of a subscription
  (`Contributor_Guide.md:623`), but one table of payloads for all, keyed by a
  topic without the trigger (`kraken/adapter.py:652-660`, `742`).  When a hub
  connects after the other shape has been opened it announces that one: a plain
  ticker then comes with every change of the book, or a book ticker without
  trades stands still.
* `stream_rejected`: an unknown exchange or market is refused before the
  WebSocket handshake (`main.py:357`), which the SDK cannot tell from a service
  that is down: `stream` tries again every two seconds for ever, where
  `Python_SDK.md:380` has it fail fast.

Noticed while modelling, part of the models, and excepted by their properties:

* On Python 3.11 the cancel sent by the last subscriber's `unsubscribe` may be
  lost in `wait_for(self._connected.wait(), 30)` (`base.py:159`); its handler
  then fans its stream out to the next subscriber, beside that subscriber's own
  handler, until the 2 s timeout cancels it again, though
  `System_Architecture.md:90` promises a fresh connection.  For the same reason
  `StreamManager.shutdown`, which cancels once and gathers without a timeout, may
  wait for ever, which `ShutdownEnds` has to except.
* A generator cancelled in `hub.subscribe` leaves its queue (`okx/adapter.py:584`
  and the same place of the others); the next consumer of the topic is not
  announced until the hub reconnects (`Contributor_Guide.md:597`).  In
  Hyperliquid's pool it leaves its reference too, for ever.
* `hub.subscribe` (`base.py:150`) announces a topic only if it has no queue.  A
  generator whose handler was cancelled while it sent, or broke out of its loop
  (`stream_manager.py:83-107`), is closed later by the collector and keeps its
  queue until then; whoever subscribes meanwhile joins the old stream, gets no
  snapshot and, where books are rebuilt from updates (`okx/adapter.py:1417`),
  stays silent until the hub reconnects.
* A Bybit request that sleeps for a soft limit is sent when its sleep ends,
  although another one's 403 has started the ban meanwhile;
  `Exchange_Notes.md:205` has all later requests rejected.  More than the "one
  extra request" of `System_Architecture.md:102` can slip into a window: each
  call asleep when a longer one opens is one.
* A topic dropped between `_run`'s snapshot and `_connected.set()` is never
  unsubscribed (`base.py:188`), until the hub reconnects.
* The refusal of long waits that KuCoin and Hyperliquid make above 30 s cannot
  happen: the windows they open themselves are 5 s and at most 15 s.
* `_paginate_backwards` swallows the `ValueError` of a rejected request also on
  its first page, so a call that walks answers an unknown symbol with an empty
  list where one that does not answers 400 (`base.py:368`,
  `System_Architecture.md:118`).
* `start=0` is taken for no start by every adapter that tests `if anchor`.
* Binance's funding rates with a `start` are one request whatever the limit, so
  at most 1000 records (`binance/adapter.py:808`).
* Hyperliquid's walks and most of KuCoin's fetch windows of time and stop at an
  empty one: a market that stood still for a page's length ends the walk,
  although there are older records.
* When Hyperliquid's ticker stream fetches its range anew, the candles replace a
  range that the frame has just widened (`hyperliquid/adapter.py:924-936`), so its
  price may lie outside of the range it is sent with; `Exchange_Notes.md:272` has
  `low_24h <= price <= high_24h` always.  `RangesAreSound` excepts that frame.
* That stream puts its next attempt 120 s ahead before it asks
  (`hyperliquid/adapter.py:929-931`).  If no candles come, or the request is
  rejected (lines 298 and 952), the old range stays for 120 s more, as often as
  that happens; by `Exchange_Notes.md:272` a peak outlives its day by at most
  120 s, on the stream as on REST.  `RangesExpire` excepts the ranges that are
  kept so.
* A field that is missing becomes 0 where the code says `or 0`: KuCoin, OKX and
  Bybit's stream can give a price of 0, and KuCoin and Kraken's streams a mark
  price of 0 that Kraken's route refuses.
* OKX's mark price leaves the index price out if its request is rejected, and
  fails if the exchange is unavailable (`okx/adapter.py:918-926`).
* An inverse stream opened while the instrument cache has no listing can value no
  frame and is silent for as long as it is open; only Bybit's book ticker ends.
* An exchange's answer with a number that does not parse is a `ValueError`, hence
  a 400 that blames the caller (`main.py:59`), where `API_Reference.md:523` has 502.
  The error codes in an exchange's body go the same way, whichever side they blame
  (`kraken/adapter.py:601-603`, `bybit/adapter.py:394-395`,
  `okx/adapter.py:551-552`).  `BlameIsRight` names both as what a right call may
  be blamed for.
* OKX's long/short ratio is asked for by the base currency, so an unlisted symbol
  of a listed currency is answered with rows (`okx/adapter.py:1118`, `1149`).
* The SDK keeps an empty answer for the capabilities of an exchange for ever, also
  if a concurrent call has stored the real one; its checks and warnings are off
  from then on.  The frame of liquidations never warns that it is short
  (`frames.py:210-224`, `Python_SDK.md:260`); `CapabilitiesAreUsed` excepts it.
* `offer` may drop an error when the consumer empties the queue between its two
  calls; and `close` of the client leaves a consumer blocked in `items.get`.
* The last candle of the join is always taken for the running one: if there has
  been no trade since the period began, or `start` is given, the newest row keeps
  no value although its candle has ended.  A walk for candles that ends early
  (`base.py:368`, `kraken/adapter.py:1078`) costs further rows their value, with a
  status of 200.

## What is not modelled

The response models and the auditor: declarations, and probes that run one
after the other.  The conversion of history records and of open interest values,
sorting, depths and limits of the current-value routes, symbol names, and decimal
arithmetic.  In `StreamHub` the keepalive task, which shares no state; in
`DeltaStreams` prices and quantities; in `StreamManager` the content of items and
the validation of the first message, which is one nondeterministic `Reject`.
A cancel of the endpoint's own coroutine by the server is not modelled.  In the
request path the counts of OKX's rate bucket and semaphore (they are one delay
of unknown length), the pool of the HTTP client, and a cancel of a call.  In
`History` the open interest of KuCoin, whose end is floored to a period, and of
Hyperliquid, which is one current value; rows that an adapter leaves out because a
field is missing.  In `InfoCache` the pages of Bybit's listing.  Of the routes
those that only report (status, overview, listings); of the SDK `fetch_many`,
which gathers calls that `ClientRequests` has, and data frames.

Hazards without a property: closes still running when shutdown goes on, about
which the code promises nothing; Bybit's sleepers during a ban, which the code
does not keep out; Binance's overfull windows of funding rates, where what the
exchange answers is not known from the code; default funding intervals and
missing builder markets after a failed optional request, which the code intends.

## Plan

Done, the most important behaviour first: `StreamManager` with `FanOut`,
`StreamHub` and the proofs of the manager's registry; `RequestPath` and
`KrakenRequests` with their proofs; `DeltaStreams`; `History`; `InfoCache`,
`Hubs`, `Snapshots` and `Quotes`; `ClientRequests`, `ClientStream` and
`OpenInterestJoin`; and the proofs of the safety properties of all of them.

What would come next:

1. `HubsStaySound` for Kraken, in the weaker form that holds there.
2. `fetch_many` over `ClientRequests`, and the parsing of history records in the
   manner of `Quotes`.
3. A composition of `StreamManager` with `Hubs`, for generators that the
   collector closes late.
