\* Two connections that can meet on one key or follow each other.
SPECIFICATION FairSpec
CONSTANTS
    Keys = {k1}
    Clients = {c1, c2}
    Tasks = {t1, t2}
    NoBucket = NoBucket
    NoTask = NoTask
    NoKey = NoKey
PROPERTIES
    ShutdownEnds
    LeaversEnd
