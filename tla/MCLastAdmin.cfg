CONSTANTS
    Users = {u1, u2}
    Rooms = {r1}
    Requests = {q1, q2}
    NoRoom = NoRoom
    minGroupMembers = 2
    MaxClock = 2
SPECIFICATION RosterSpec
CHECK_DEADLOCK FALSE
PROPERTY
    DemotionKeepsAnAdmin
