\* One agent's own status and the fleet snapshot share the queue.
CONSTANTS
    Run = {}
    Agent = {a1}
    All = All
    Frame = {f1, f2, f3, f4}
    None = None
    Capacity = 2
    MaxDeltas = 0
    MaxStatuses = 3
    MaxControls = 1
SPECIFICATION Spec
PROPERTIES
    ViewNeverRegresses
CHECK_DEADLOCK FALSE
