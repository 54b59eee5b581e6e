\* One item, one run, one rejection, rollback or disconnection, and liveness.
\* The bounded users, runs and failures may be used up: stopping is no error.
CONSTANTS
    Item = {i1}
    Handler = {h1}
    Worker = Worker
    Subscriber = Subscriber
    Run = {r1}
    Source = {"chat"}
    None = None
    Unborn = Unborn
    Deleted = Deleted
    MoveTo = {"queued"}
    GivenAgent = {"known", "unknown"}
    GivenSession = {}
    GivenStatus = {}
    MaxStream = 1
    MaxEdits = 0
    MaxFailures = 1
SPECIFICATION FairSpec
INVARIANTS
    Inv
    JobTellsOutcome
PROPERTIES
    Served
CHECK_DEADLOCK FALSE
