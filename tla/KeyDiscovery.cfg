CONSTANTS
    a = a
    b = b
    c = c
    d = d
    e = e
    Node = {a, b, c, d, e}
    MaxKeyHops = 3
    Scenario <- Networks
SPECIFICATION FairSpec
INVARIANTS
    TypeOK
    SealedForRecipient
    KeysComeByTcp
PROPERTIES
    AnswersArrive
    RequestsDieOut
    AnswersStayInRings
    ServiceKept
CHECK_DEADLOCK FALSE
