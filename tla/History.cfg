\* Histories of four times, of which any may have no record, and one more that
\* comes later; pages of three records, walks of three requests.
SPECIFICATION Spec
CONSTANTS
    Calls = {"agg_trades", "candles", "metrics", "okx_series", "liquidations",
     "okx_candles", "kucoin_futures", "kucoin_spot", "kucoin_funding",
     "hyperliquid_candles", "hyperliquid_funding", "binance_funding",
     "kraken_spot", "kraken_candles", "kraken_funding", "kraken_metrics"}
    None = None
    Limits = {2, 5, 8}
    PerRequest = 3
    MaxRequests = 3
    Past = 5
    MaxTime = 7
INVARIANTS
    AnswersAreRight
    ShortMeansAll
    ViewHasNoGap
