\* One run, one agent, the two status keys: four slots hold every kind of frame,
\* and each kind meets a full queue.
\* The bounded frames may be used up: stopping is no error.
CONSTANTS
    Run = {r1}
    Agent = {a1}
    All = All
    Frame = {f1, f2, f3, f4, f5}
    None = None
    Capacity = 4
    MaxDeltas = 3
    MaxStatuses = 2
    MaxControls = 2
SPECIFICATION FairSpec
INVARIANTS
    TypeOK
    TrackingExact
    TextConserved
    WedgedByControlOnly
PROPERTIES
    ImplementsContract
    NothingStranded
CHECK_DEADLOCK FALSE
