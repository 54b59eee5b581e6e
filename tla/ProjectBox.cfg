\* Two requests at a time, four in all; one focus session, one edit, one fault.
\* The bounded requests may be used up: stopping is no error.
CONSTANTS
    Handler = {h1, h2}
    Task = {t0, t1, t2}
    First = t0
    None = None
    MaxRequests = 4
    MaxSessions = 1
    MaxEdits = 1
    MaxFaults = 1
SPECIFICATION Spec
SYMMETRY Symmetry
INVARIANTS
    Inv
    FreshUnlessRaced
    OneTask
    LoggedOnce
PROPERTIES
    UpdateKeepsRest
CHECK_DEADLOCK FALSE
