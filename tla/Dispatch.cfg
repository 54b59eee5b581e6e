\* One item, a request, a worker pass and two runs, with one edit that may set
\* the session or the status.
\* The bounded users, runs and failures may be used up: stopping is no error.
CONSTANTS
    Item = {i1}
    Handler = {h1}
    Worker = Worker
    Subscriber = Subscriber
    Run = {r1, r2}
    Source = {"chat"}
    None = None
    Unborn = Unborn
    Deleted = Deleted
    MoveTo = {"queued"}
    GivenAgent = {"known"}
    GivenSession = {r1, r2}
    GivenStatus = {"done"}
    MaxStream = 1
    MaxEdits = 1
    MaxFailures = 0
SPECIFICATION Spec
SYMMETRY Symmetry
INVARIANTS
    Inv
    JobTellsOutcome
PROPERTIES
    HistoryKept
CHECK_DEADLOCK FALSE
