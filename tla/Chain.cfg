\* Five nodes, the recipient away: how far a message spreads.
CONSTANTS
    a = a
    b = b
    c = c
    d = d
    e = e
    m1 = m1
    m2 = m2
    wifi = wifi
    hotspot = hotspot
    ip1 = ip1
    ip2 = ip2
    ip3 = ip3
    ip4 = ip4
    Node = {a, b, c, d, e}
    Msg = {m1}
    Net = {wifi}
    Ip = {ip1, ip2, ip3, ip4}
    Origin <- FromA
    Target <- ToE
    Home <- EAway
    Known <- ELeft
    HopLimit = 2
    CarrierHops = 2
    Lossy = FALSE
    Mortal <- NoIds
    Hours = FALSE
    Mobile <- Everyone
    MaxTries = 1
    MaxFaults = 0
    MaxMoves = 0
SPECIFICATION BurstSpec
INVARIANTS
    TypeOK
    HopDiscipline
PROPERTIES
    BurstsDieOut
CHECK_DEADLOCK FALSE
