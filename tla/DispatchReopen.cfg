\* Both sources report on one run: the subscriber reopens a finished job.
\* The bounded users, runs and failures may be used up: stopping is no error.
CONSTANTS
    Item = {i1}
    Handler = {h1}
    Worker = Worker
    Subscriber = Subscriber
    Run = {r1}
    Source = {"chat", "agent"}
    None = None
    Unborn = Unborn
    Deleted = Deleted
    MoveTo = {"queued"}
    GivenAgent = {"known"}
    GivenSession = {}
    GivenStatus = {}
    MaxStream = 1
    MaxEdits = 0
    MaxFailures = 0
SPECIFICATION Spec
PROPERTIES
    NoJobReopens
CHECK_DEADLOCK FALSE
