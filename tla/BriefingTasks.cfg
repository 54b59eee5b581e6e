\* A task that changes in Project-Box while a briefing is cached.
CONSTANTS
    Item = {i1}
    Handler = {h1}
    Loop = {w1}
    Reader = {r1}
    None = None
    Slow = FALSE
    RedisReturns = TRUE
    MaxWrites = 0
    MaxBuilds = 1
    MaxLists = 1
    MaxFaults = 0
SPECIFICATION Spec
INVARIANTS
    TasksAreShown
