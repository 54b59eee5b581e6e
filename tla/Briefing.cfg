\* One task and one email, two writes, one briefing, two loops, an outage or a crash.
CONSTANTS
    Item = {i1}
    Handler = {h1}
    Loop = {w1, w2}
    Reader = {r1}
    None = None
    Slow = FALSE
    RedisReturns = TRUE
    MaxWrites = 2
    MaxBuilds = 1
    MaxLists = 1
    MaxFaults = 1
SPECIFICATION FairSpec
INVARIANTS
    Inv
    FreshUnlessRaced
    HiddenComesBack
PROPERTIES
    Wakes
