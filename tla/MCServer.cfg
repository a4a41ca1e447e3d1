CONSTANTS
    Users = {a1, a2}
    Rooms = {r1, r2}
    Requests = {q1, q2}
    NoRoom = NoRoom
    minGroupMembers = 1
    MaxClock = 3
    GroupClock = 2
    Tokens = {t1, t2, t3}
    Tabs = {a1, a2}
    Handlers = {q1, q2}
    NoToken = NoToken
    NoTab = NoTab
SPECIFICATION MCSpec
SYMMETRY ServerSymmetry
CHECK_DEADLOCK FALSE
INVARIANTS
    RosterTypeOK
    BannedIsOut
    DirectRoomIsAPair
    OneDirectRoom
    RoomsHaveAdmin
    SessionTypeOK
    OneActiveToken
    RotatedOnce
    DedupAvoidsReuse
PROPERTIES
    DeadFamilyStaysDead
