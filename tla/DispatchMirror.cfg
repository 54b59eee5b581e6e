\* A run ends before the dispatch that started it is committed.
\* The bounded users, runs and failures may be used up: stopping is no error.
CONSTANTS
    Item = {i1}
    Handler = {h1}
    Worker = Worker
    Subscriber = Subscriber
    Run = {r1}
    Source = {"chat"}
    None = None
    Unborn = Unborn
    Deleted = Deleted
    MoveTo = {"queued"}
    GivenAgent = {"known"}
    GivenSession = {}
    GivenStatus = {}
    MaxStream = 1
    MaxEdits = 0
    MaxFailures = 0
SPECIFICATION FairSpec
PROPERTIES
    OutcomeMirrored
CHECK_DEADLOCK FALSE
