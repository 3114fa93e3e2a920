CONSTANTS
    Processes = 3
    Commands = 3
    MaxStops = 1
    MaxCrashes = 2
    MaxRaces = 1
SPECIFICATION FairSpec
INVARIANTS
    TypeOK
    SoleDaemon
PROPERTIES
    StartServes
    StopCleans
    StartsServe
CHECK_DEADLOCK FALSE
