\* The recipient leaves the network without a goodbye.
CONSTANTS
    a = a
    b = b
    c = c
    d = d
    e = e
    m1 = m1
    m2 = m2
    wifi = wifi
    hotspot = hotspot
    ip1 = ip1
    ip2 = ip2
    ip3 = ip3
    ip4 = ip4
    Node = {a, c}
    Msg = {m1}
    Net = {wifi}
    Ip = {ip1, ip3}
    Origin <- FromA
    Target <- ToC
    Home <- OneLan
    Known <- AllHeard
    HopLimit = 3
    CarrierHops = 2
    Lossy = FALSE
    Mortal <- NoIds
    Hours = FALSE
    Mobile <- OnlyC
    MaxTries = 1
    MaxFaults = 0
    MaxMoves = 1
SPECIFICATION Spec
INVARIANTS
    DeliveredMeansReceived
CHECK_DEADLOCK FALSE
