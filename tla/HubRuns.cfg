\* Two panes, two runs, a cancelled turn; no failures.
\* The bounded runs and stops may be used up: stopping is no error.
CONSTANTS
    Client = {c1, c2}
    Voice = Voice
    VoiceClient = c1
    VoiceKey = "voice"
    Run = {r1, r2}
    None = None
    Slow = FALSE
    MaxDeltas = 2
    MaxWire = 2
    MaxStops = 0
    MaxCancels = 1
    MaxFaults = 0
SPECIFICATION Spec
SYMMETRY Symmetry
INVARIANTS
    Inv
    VoiceStaysPrivate
    RunsEnd
CHECK_DEADLOCK FALSE
