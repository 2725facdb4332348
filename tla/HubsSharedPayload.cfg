SPECIFICATION Spec
CONSTANTS
    Adapters = {"kraken"}
    Consumers = {c1, c2}
    MaxHubs = 2
    MaxSubs = 1
INVARIANTS HubsKeepTheirShape
CHECK_DEADLOCK FALSE
