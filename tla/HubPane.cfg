\* The pane of a voice session is closed while its run streams.
\* The bounded runs and stops may be used up: stopping is no error.
CONSTANTS
    Client = {c1, c2}
    Voice = Voice
    VoiceClient = c1
    VoiceKey = "voice"
    Run = {r1}
    None = None
    Slow = FALSE
    MaxDeltas = 1
    MaxWire = 2
    MaxStops = 0
    MaxCancels = 0
    MaxFaults = 1
SPECIFICATION Spec
INVARIANTS
    VoiceStaysPrivate
CHECK_DEADLOCK FALSE
