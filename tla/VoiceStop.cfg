\* The smallest instance in which a stop is swallowed.
\* The bounded turns, stops and faults may be used up: stopping is no error.
CONSTANTS
    MaxBridges = 2
    MaxTurns = 2
    MaxEvents = 0
    MaxStops = 1
    MaxFaults = 0
SPECIFICATION FairSpec
PROPERTIES
    StopStops
CHECK_DEADLOCK FALSE
