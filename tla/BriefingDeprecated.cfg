\* A legacy task snoozed on the deprecated route.
CONSTANTS
    Item = {i1}
    Handler = {h1}
    Loop = {w1}
    Reader = {r1}
    None = None
    Slow = FALSE
    RedisReturns = TRUE
    MaxWrites = 1
    MaxBuilds = 0
    MaxLists = 0
    MaxFaults = 0
SPECIFICATION FairSpec
PROPERTIES
    DeprecatedWakes
