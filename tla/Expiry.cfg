\* A message to oneself and one that outlives its ttl; the cleanup runs at any time.
CONSTANTS
    a = a
    b = b
    c = c
    d = d
    e = e
    m1 = m1
    m2 = m2
    wifi = wifi
    hotspot = hotspot
    ip1 = ip1
    ip2 = ip2
    ip3 = ip3
    ip4 = ip4
    Node = {a, c}
    Msg = {m1, m2}
    Net = {wifi}
    Ip = {ip1, ip3}
    Origin <- FromA
    Target <- ToSelfAndC
    Home <- OneLan
    Known <- AllHeard
    HopLimit = 1
    CarrierHops = 2
    Lossy = FALSE
    Mortal <- IdsOfM2
    Hours = TRUE
    Mobile <- Everyone
    MaxTries = 1
    MaxFaults = 1
    MaxMoves = 0
SPECIFICATION Spec
INVARIANTS
    AckOnlyAfterInbox
    InboxRemembered
    IntransitOwned
PROPERTIES
    MailboxKept
CHECK_DEADLOCK FALSE
