\* The recipient on another network, its key unknown to the sender; a relay that changes networks.
CONSTANTS
    a = a
    b = b
    c = c
    d = d
    e = e
    m1 = m1
    m2 = m2
    wifi = wifi
    hotspot = hotspot
    ip1 = ip1
    ip2 = ip2
    ip3 = ip3
    ip4 = ip4
    Node = {a, b, c}
    Msg = {m1}
    Net = {wifi, hotspot}
    Ip = {ip1, ip2}
    Origin <- FromA
    Target <- ToC
    Home <- CElsewhere
    Known <- OnlyRelayHeard
    HopLimit = 2
    CarrierHops = 2
    Lossy = FALSE
    Mortal <- NoIds
    Hours = FALSE
    Mobile <- OnlyB
    MaxTries = 1
    MaxFaults = 0
    MaxMoves = 2
SPECIFICATION Spec
INVARIANTS
    HopDiscipline
    UserPlaintextStaysHome
PROPERTIES
    ServiceUsed
CHECK_DEADLOCK FALSE
