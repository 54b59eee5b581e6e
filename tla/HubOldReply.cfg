\* Two runs and a reset: what the history fallback shows again.
\* The bounded runs and stops may be used up: stopping is no error.
CONSTANTS
    Client = {c1}
    Voice = Voice
    VoiceClient = c1
    VoiceKey = "voice"
    Run = {r1, r2}
    None = None
    Slow = FALSE
    MaxDeltas = 1
    MaxWire = 2
    MaxStops = 1
    MaxCancels = 0
    MaxFaults = 0
SPECIFICATION Spec
PROPERTIES
    FallbackNotRepeated
CHECK_DEADLOCK FALSE
