\* Two sessions of one binding, two turns, one barge-in, one dropped connection.
\* The bounded turns, stops and faults may be used up: stopping is no error.
CONSTANTS
    MaxBridges = 2
    MaxTurns = 2
    MaxEvents = 1
    MaxStops = 1
    MaxFaults = 1
SPECIFICATION FairSpec
INVARIANTS
    Inv
PROPERTIES
    OneVoice
    ListensOrEnds
CHECK_DEADLOCK FALSE
