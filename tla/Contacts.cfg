CONSTANTS
    Peer = {p}
    Addr = {home, cafe}
    Beacon = 3
    Sweep = 4
    StaleAfter = 9
    ScanWindow = 18
    ForgetAfter = 19
    MaxAnswers = 1
    Jitter = 1
    Old = 29
SPECIFICATION Spec
INVARIANTS
    TypeOK
    AddressesExpire
    PresentIsReachable
PROPERTIES
    SweepSparesTheLiving
