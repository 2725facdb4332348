\* Two calls, of which one can learn the capabilities while the other does, and one
\* retry; a queue of three items and a connection that fails three times; five
\* periods, rows for up to four of them and candles for five.
SPECIFICATION FairSpec
CONSTANTS
    Parts = {"requests", "stream", "join"}
    Calls = {c1, c2}
    MaxRetries = 1
    Buffer = 3
    MaxMessage = 6
    MaxFaults = 3
    MaxTime = 5
    MaxLimit = 4
INVARIANTS
    
    CapabilitiesAreUsed
    ErrorsReachConsumer
PROPERTIES
    CallsEnd
    StreamGoesOn
    ConnectionsAreGivenBack
    RowsAreJoined
\* A stream whose consumer has closed it has no step left.
CHECK_DEADLOCK FALSE
