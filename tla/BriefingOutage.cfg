\* An outage of Redis that does not end.
CONSTANTS
    Item = {i1}
    Handler = {h1}
    Loop = {w1}
    Reader = {r1}
    None = None
    Slow = FALSE
    RedisReturns = FALSE
    MaxWrites = 1
    MaxBuilds = 1
    MaxLists = 0
    MaxFaults = 1
SPECIFICATION FairSpec
PROPERTIES
    Wakes
