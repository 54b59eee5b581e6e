\* Two browsers and the voice bridge, two models, three things users do, a
\* socket that closes and a request that fails.
\* What users do may be used up: stopping is no error.
CONSTANTS
    Client = {c1, c2}
    Voice = Voice
    Model = {m1, m2}
    Default = m1
    None = None
    MaxOps = 3
    MaxDrops = 1
    MaxFaults = 1
SPECIFICATION FairSpec
INVARIANTS
    Inv
PROPERTIES
    PickEnds
CHECK_DEADLOCK FALSE
