\* One item, one run that reports on two streams, an edit and one failure.
\* The bounded users, runs and failures may be used up: stopping is no error.
CONSTANTS
    Item = {i1}
    Handler = {h1}
    Worker = Worker
    Subscriber = Subscriber
    Run = {r1}
    Source = {"chat", "agent"}
    None = None
    Unborn = Unborn
    Deleted = Deleted
    MoveTo = {"queued"}
    GivenAgent = {"known"}
    GivenSession = {}
    GivenStatus = {"done"}
    MaxStream = 1
    MaxEdits = 1
    MaxFailures = 1
SPECIFICATION Spec
INVARIANTS
    Inv
    JobTellsOutcome
CHECK_DEADLOCK FALSE
