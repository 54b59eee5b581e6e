\* A snooze that is taken back.
CONSTANTS
    Item = {i1}
    Handler = {h1}
    Loop = {w1}
    Reader = {r1}
    None = None
    Slow = FALSE
    RedisReturns = TRUE
    MaxWrites = 2
    MaxBuilds = 1
    MaxLists = 0
    MaxFaults = 0
SPECIFICATION Spec
INVARIANTS
    UnsnoozeRestores
