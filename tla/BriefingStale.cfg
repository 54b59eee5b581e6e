\* A briefing built between the invalidation and the commit of a decision.
CONSTANTS
    Item = {i1}
    Handler = {h1}
    Loop = {w1}
    Reader = {r1}
    None = None
    Slow = FALSE
    RedisReturns = TRUE
    MaxWrites = 1
    MaxBuilds = 1
    MaxLists = 0
    MaxFaults = 0
SPECIFICATION Spec
INVARIANTS
    WritesAreShown
