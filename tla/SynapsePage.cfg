\* Two mishaps; one costs the page two sockets at most, its own and one that
\* the late endpoint of an older socket evicts.
SPECIFICATION SPFairSpec
CONSTANTS
    Message = {m1}
    Nil = Nil
    MaxSockets = 5
    MaxMishaps = 2
INVARIANTS
    SPInv
PROPERTIES
    EvictedByItsOwn
    Settles
    ReplyShown
\* A page at rest has nothing to do.
CHECK_DEADLOCK FALSE
