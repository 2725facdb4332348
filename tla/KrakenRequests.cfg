\* Three calls that retry once; a pair interval longer than the spacing of
\* requests that are slowed down, and a window as long as that.
SPECIFICATION FairSpec
CONSTANTS
    Calls = {c1, c2, c3}
    Pairs = {p}
    NoPair = NoPair
    Interval = 1
    ExtraInterval = 1
    PairInterval = 3
    MaxAttempts = 2
    MaxWindow = 2
    SlowWindow = 3
PROPERTIES
    NothingSentInWindow
    SpacingKept
    CallsEnd
