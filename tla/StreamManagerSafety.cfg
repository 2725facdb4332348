\* Three connections over two keys, so that a client of a later generation
\* can join while an earlier handler is still ending.
SPECIFICATION Spec
CONSTANTS
    Keys = {k1, k2}
    Clients = {c1, c2, c3}
    Tasks = {t1, t2, t3}
    NoBucket = NoBucket
    NoTask = NoTask
    NoKey = NoKey
SYMMETRY Symmetry
INVARIANTS
    TypeOK
    RegistryServes
    NoStrayHandler
    GenerationsSeparate
    ClientsAccountedFor
PROPERTIES
    CancelLeavesNobody
    FanOutIsCurrent
    ImplementsFanOut
