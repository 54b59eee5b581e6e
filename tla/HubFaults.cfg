\* One run in any session, two failures, limits that expire, a cancelled turn
\* and an abort or reset.
\* The bounded runs and stops may be used up: stopping is no error.
CONSTANTS
    Client = {c1}
    Voice = Voice
    VoiceClient = c1
    VoiceKey = "main"
    Run = {r1}
    None = None
    Slow = TRUE
    MaxDeltas = 2
    MaxWire = 2
    MaxStops = 1
    MaxCancels = 1
    MaxFaults = 2
SPECIFICATION Spec
INVARIANTS
    RunsEnd
    FullReply
CHECK_DEADLOCK FALSE
