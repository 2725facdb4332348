\* Two generators of one topic, a connection that breaks once, queues of two
\* messages and a book of two levels that changes twice.
SPECIFICATION FairSpec
CONSTANTS
    Topic = topic
    Consumers = {c1, c2}
    NoTopic = NoTopic
    MaxBreaks = 1
    Streams = {"okx_books", "kraken_book", "bybit_ticker", "binance_depth", "hyperliquid_l2"}
    Levels = {a}
    QueueSize = 2
    MaxChanges = 3
INVARIANTS
    BooksHold
PROPERTIES
    ReadersGetBooks
