\* One browser, two connections, an event, a bad frame.
\* After a stop nothing is left to do: stopping is no error.
CONSTANTS
    Client = {b1}
    Poll = poll
    Terminal = terminal
    None = None
    MaxConns = 2
    MaxEvents = 1
    MaxBadFrames = 1
    MaxVisits = 1
SPECIFICATION FairSpec
INVARIANTS
    Inv
    ToldIsTrue
    ResyncIsFresh
PROPERTIES
    NothingHangs
CHECK_DEADLOCK FALSE
