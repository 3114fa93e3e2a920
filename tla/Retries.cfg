\* Two nodes, a lossy network, overlapping attempts.
CONSTANTS
    a = a
    b = b
    c = c
    d = d
    e = e
    m1 = m1
    m2 = m2
    wifi = wifi
    hotspot = hotspot
    ip1 = ip1
    ip2 = ip2
    ip3 = ip3
    ip4 = ip4
    Node = {a, c}
    Msg = {m1}
    Net = {wifi}
    Ip = {ip1, ip3}
    Origin <- FromA
    Target <- ToC
    Home <- OneLan
    Known <- AllHeard
    HopLimit = 1
    CarrierHops = 2
    Lossy = TRUE
    Mortal <- NoIds
    Hours = FALSE
    Mobile <- Everyone
    MaxTries = 2
    MaxFaults = 0
    MaxMoves = 0
SPECIFICATION Spec
INVARIANTS
    AtMostOnce
PROPERTIES
    MailboxKept
CHECK_DEADLOCK FALSE
