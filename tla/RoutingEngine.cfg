CONSTANTS
    a = a
    b = b
    c = c
    Node = {a, b, c}
    FrameIds = {FALSE, TRUE}
    Scale = 1000
    Alpha <- HourlyAlpha
    Keep <- HourlyKeep
    Noise = 1
    ForwardThreshold = 50
    CarrierHops = 10
    MaxClock = 2
    MaxMeets = 3
SPECIFICATION Spec
SYMMETRY Interchangeable
INVARIANTS
    TypeOK
    HearsayHasSource
    AverageWithinGaps
    OnlyStrangersCarryOn
CHECK_DEADLOCK FALSE
