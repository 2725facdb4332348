\* Three calls, each made over and over, share the deadline of one adapter.
SPECIFICATION FairSpec
CONSTANTS
    Calls = {c1, c2, c3}
    Adapters = {"okx", "binance", "bybit", "kucoin", "hyperliquid"}
PROPERTIES
    SeenWindowsAreKept
    DeadlineNeverShrinks
    CallsEnd
