\* A time entry that is logged while a note is read and written back.
CONSTANTS
    Handler = {h1, h2}
    Task = {t0, t1, t2}
    First = t0
    None = None
    MaxRequests = 4
    MaxSessions = 1
    MaxEdits = 0
    MaxFaults = 0
SPECIFICATION Spec
SYMMETRY Symmetry
PROPERTIES
    FieldsKept
CHECK_DEADLOCK FALSE
