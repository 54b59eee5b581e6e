\* A barge-in that cancels a turn before its reply is awaited.
\* The bounded turns, stops and faults may be used up: stopping is no error.
CONSTANTS
    MaxBridges = 2
    MaxTurns = 1
    MaxEvents = 1
    MaxStops = 0
    MaxFaults = 0
SPECIFICATION Spec
INVARIANTS
    TurnsAreEnded
CHECK_DEADLOCK FALSE
