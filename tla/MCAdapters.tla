----------------------------- MODULE MCAdapters -----------------------------
(***************************************************************************)
(* What adapters do beside streaming and asking, for TLC: each behaviour   *)
(* is about the instrument cache, the pool of hubs, the cached snapshots   *)
(* or the quotes, which share no state with each other.                    *)
(***************************************************************************)
EXTENDS Naturals

CONSTANTS
    Parts,                                        \* those that a run looks at
    Calls, Warm, Refresh, Retry, MaxFetch,        \* InfoCache
    PoolAdapters, Consumers, MaxHubs, MaxSubs,    \* Hubs
    QuoteTtl, RangeTtl, MaxPrice, MaxTime,        \* Snapshots
    Price, Size, UsdSize, BaseSize, Cycle         \* Quotes

ASSUME InfoCacheAssumption ==
    /\ Warm \notin Calls
    /\ {Refresh, Retry, MaxFetch} \subseteq Nat
    /\ MaxFetch < Retry /\ Retry < Refresh
ASSUME HubsAssumption == {MaxHubs, MaxSubs} \subseteq Nat \ {0}
ASSUME CallsAssumption == "nobody" \notin Calls
ASSUME NumbersAssumption ==
    {QuoteTtl, RangeTtl, MaxPrice, MaxTime, Price, Size, UsdSize, BaseSize, Cycle}
        \subseteq Nat \ {0}

VARIABLES
    part,  \* the component that this behaviour is about
    adapter, cached, partial, intervals, elapsed, queue, stage, wants, since,
    left, warmLeft, server, age, tried, wanted, hub, payloads, refs, topicHub,
    slots, up, announced, now, quote, range, holder, price, stream, own, out,
    market, route, listed, kept

Info == INSTANCE InfoCache
Pool == INSTANCE Hubs WITH Adapters <- PoolAdapters
Snap == INSTANCE Snapshots
Quote == INSTANCE Quotes

InfoVars == <<cached, partial, intervals, elapsed, queue, wants, since, left,
              warmLeft, server, age, tried>>
PoolVars == <<wanted, hub, payloads, refs, topicHub, slots, up, announced>>
SnapVars == <<now, quote, range, holder, price, own>>
QuoteVars == <<market, route, listed, kept>>
vars == <<part, adapter, stage, stream, out, InfoVars, PoolVars, SnapVars, QuoteVars>>

\* The variables of the components that a behaviour is not about have no use.
NoInfo ==
    /\ cached = 0 /\ partial = 0 /\ intervals = 0 /\ elapsed = 0 /\
       queue = 0 /\ wants = 0 /\ since = 0 /\ left = 0 /\ warmLeft = 0 /\
       server = 0 /\ age = 0 /\ tried = 0
NoPool ==
    /\ wanted = 0 /\ hub = 0 /\ payloads = 0 /\ refs = 0 /\ topicHub = 0 /\
       slots = 0 /\ up = 0 /\ announced = 0
NoSnap ==
    /\ now = 0 /\ quote = 0 /\ range = 0 /\ holder = 0 /\ price = 0 /\ own = 0
NoQuote ==
    /\ market = 0 /\ route = 0 /\ listed = 0 /\ kept = 0

Init ==
    /\ part \in Parts
    /\ \/ /\ part = "info" /\ Info!Init /\ NoPool /\ NoSnap /\ NoQuote /\
             stream = 0 /\ out = 0
       \/ /\ part = "hubs" /\ Pool!Init /\ NoInfo /\ NoSnap /\ NoQuote /\
             stream = 0 /\ out = 0
       \/ /\ part = "snapshots" /\ Snap!Init /\ NoInfo /\ NoPool /\ NoQuote
       \/ /\ part = "quotes" /\ Quote!Init /\ NoInfo /\ NoPool /\ NoSnap /\
             stage = 0

InfoNext ==
    /\ part = "info"
    /\ Info!Next
    /\ UNCHANGED <<part, PoolVars, SnapVars, QuoteVars, stream, out>>
PoolNext ==
    /\ part = "hubs"
    /\ Pool!Next
    /\ UNCHANGED <<part, InfoVars, SnapVars, QuoteVars, stream, out>>
SnapNext ==
    /\ part = "snapshots"
    /\ Snap!Next
    /\ UNCHANGED <<part, InfoVars, PoolVars, QuoteVars>>
QuoteNext ==
    /\ part = "quotes"
    /\ Quote!Next
    /\ UNCHANGED <<part, InfoVars, PoolVars, SnapVars, stage>>

Next == InfoNext \/ PoolNext \/ SnapNext \/ QuoteNext

Spec == Init /\ [][Next]_vars

\* The fairness of InfoCache.
infoVars == Info!vars
Fairness ==
    \A c \in Info!Callers : WF_infoVars(part = "info" /\ Info!GoesOn(c))

FairSpec == Spec /\ Fairness

-----------------------------------------------------------------------------
(* The properties of the components, where they are stated and explained *)

\* InfoCache: locks, caches and the listings in them go together, nothing is
\* fetched after the HTTP client is closed, and what passes for fresh was fetched
\* recently.
CachesAreSound == part = "info" => Info!InfoInvariant /\ Info!FreshIsRecent
\* InfoCache: a listing is fetched at most once a period, or a retry's delay.
FetchesAreSpaced == [][part = "info" => Info!FetchStep]_vars
\* InfoCache: every use of a cache ends.
UsesEnd ==
    \A c \in Info!Callers :
        part = "info" /\ Info!Uses(c) ~> part = "info" /\ ~Info!Uses(c)

\* Hubs: Hyperliquid's pool counts exactly the holders of every topic, and a topic
\* is announced in the shape that its readers asked for.
HubsAreSound ==
    part = "hubs" => Pool!TypeOK /\ Pool!PoolIsExact /\ Pool!AnnouncedAsAsked

\* Snapshots: the price of a ticker lies within its range, which comes from candles
\* that are not older than its time to live, unless a stream has asked for newer ones
\* within that time in vain.
RangesAreSound ==
    part = "snapshots" => Snap!TypeOK /\ Snap!RangeHoldsPrice /\ Snap!RangesExpire
\* Snapshots: callers that come at one time share one request.
RequestsAreShared == [][part = "snapshots" => Snap!SharedStep]_vars

\* Quotes: amounts have their unit and their worth, a funding block is whole and
\* its rate a pure number.
ValuesAreTrue ==
    part = "quotes" => Quote!TypeOK /\ Quote!AmountsAreTrue /\ Quote!FundingIsWhole
\* Quotes: streams and calls make the same of the same.
StreamsMatchRest == part = "quotes" => Quote!StreamsMatchRest

=============================================================================
