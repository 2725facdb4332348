\* Two calls beside the warm-up, so that one can wait behind it and one behind both;
\* three consumers on two hubs of one topic each, so that a pool gets full; two prices.
SPECIFICATION FairSpec
CONSTANTS
    Parts = {"info", "hubs", "snapshots", "quotes"}
    Calls = {c1, c2}
    Warm = warm
    Refresh = 3
    Retry = 2
    MaxFetch = 1
    PoolAdapters = {"binance", "bybit", "okx", "hyperliquid"}
    Consumers = {g1, g2, g3}
    MaxHubs = 2
    MaxSubs = 1
    QuoteTtl = 1
    RangeTtl = 2
    MaxPrice = 2
    MaxTime = 3
    Price = 3
    Size = 5
    UsdSize = 7
    BaseSize = 2
    Cycle = 480
INVARIANTS
    CachesAreSound
    HubsAreSound
    RangesAreSound
    ValuesAreTrue
    StreamsMatchRest
PROPERTIES
    FetchesAreSpaced
    UsesEnd
    RequestsAreShared
\* Where nobody is left to leave, a pool of hubs may come to rest.
CHECK_DEADLOCK FALSE
