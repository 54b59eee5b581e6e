\* Events of a run that are handled before its registration.
\* The bounded runs and stops may be used up: stopping is no error.
CONSTANTS
    Client = {c1}
    Voice = Voice
    VoiceClient = c1
    VoiceKey = "voice"
    Run = {r1}
    None = None
    Slow = FALSE
    MaxDeltas = 2
    MaxWire = 2
    MaxStops = 0
    MaxCancels = 0
    MaxFaults = 0
SPECIFICATION Spec
INVARIANTS
    ReplyNeverCut
CHECK_DEADLOCK FALSE
