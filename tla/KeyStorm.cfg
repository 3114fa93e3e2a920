CONSTANTS
    a = a
    b = b
    c = c
    d = d
    e = e
    Node = {a, b, c, d, e}
    MaxKeyHops = 3
    Scenario <- Village
SPECIFICATION FairSpec
PROPERTIES
    AnswersDieOut
CHECK_DEADLOCK FALSE
