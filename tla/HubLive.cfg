\* Liveness of replies with two runs and a cancelled turn; no failures.
\* The bounded runs and stops may be used up: stopping is no error.
CONSTANTS
    Client = {c1}
    Voice = Voice
    VoiceClient = c1
    VoiceKey = "voice"
    Run = {r1, r2}
    None = None
    Slow = FALSE
    MaxDeltas = 0
    MaxWire = 1
    MaxStops = 0
    MaxCancels = 1
    MaxFaults = 0
SPECIFICATION FairSpec
PROPERTIES
    EndsAreTold
CHECK_DEADLOCK FALSE
