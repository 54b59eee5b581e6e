\* A dispatch does not write the fields that equal its stale snapshot.
\* The bounded users, runs and failures may be used up: stopping is no error.
CONSTANTS
    Item = {i1}
    Handler = {h1}
    Worker = Worker
    Subscriber = Subscriber
    Run = {r1, r2}
    Source = {"chat"}
    None = None
    Unborn = Unborn
    Deleted = Deleted
    MoveTo = {"queued"}
    GivenAgent = {"known"}
    GivenSession = {}
    GivenStatus = {}
    MaxStream = 1
    MaxEdits = 0
    MaxFailures = 0
SPECIFICATION Spec
PROPERTIES
    DispatchedIsActive
CHECK_DEADLOCK FALSE
