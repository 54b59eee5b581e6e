\* A message meets the model another handler has set meanwhile.
CONSTANTS
    Client = {c1}
    Voice = Voice
    Model = {m1, m2}
    Default = m1
    None = None
    MaxOps = 2
    MaxDrops = 0
    MaxFaults = 0
SPECIFICATION Spec
INVARIANTS
    NeverOverridden
CHECK_DEADLOCK FALSE
