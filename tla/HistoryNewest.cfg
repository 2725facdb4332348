\* Kraken's futures candles, five of them in pages of three.
SPECIFICATION Spec
CONSTANTS
    Calls = {"kraken_candles"}
    None = None
    Limits = {5}
    PerRequest = 3
    MaxRequests = 3
    Past = 6
    MaxTime = 7
INVARIANTS
    StartIsReturned
