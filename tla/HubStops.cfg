\* The same with an abort or a reset in place of the cancelled turn: a larger
\* instance of some four million states.
\* The bounded runs and stops may be used up: stopping is no error.
CONSTANTS
    Client = {c1, c2}
    Voice = Voice
    VoiceClient = c1
    VoiceKey = "voice"
    Run = {r1, r2}
    None = None
    Slow = FALSE
    MaxDeltas = 1
    MaxWire = 1
    MaxStops = 1
    MaxCancels = 0
    MaxFaults = 0
SPECIFICATION Spec
SYMMETRY Symmetry
INVARIANTS
    Inv
    VoiceStaysPrivate
    RunsEnd
    FullReply
CHECK_DEADLOCK FALSE
