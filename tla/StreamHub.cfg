\* Three consumers, so that two can follow each other under a third, on two
\* topics; the connection is lost or refused twice.
SPECIFICATION FairSpec
CONSTANTS
    Topics = {a, b}
    Consumers = {c1, c2, c3}
    NoTopic = NoTopic
    MaxBreaks = 2
INVARIANTS
    HubConsistent
    StarvedOnlyWhenGivenUp
PROPERTIES
    SubscribersGetFed
    CloseEnds
