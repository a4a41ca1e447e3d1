CONSTANTS
    Tokens = {t1, t2, t3, t4}
    Tabs = {b1}
    Handlers = {q1, q2}
    NoToken = NoToken
    NoTab = NoTab
SPECIFICATION SessionSpec
CHECK_DEADLOCK FALSE
INVARIANT
    FamilyEnds
