CONSTANTS
    c1 = c1
    c2 = c2
    u1 = u1
    r1 = r1
    NoTopic = NoTopic
    NoCaller = NoCaller
    Clients = {c1, c2}
    Rooms = {r1}
    Users = {u1}
    UserOf <- MCUserOf
    Members <- MCMembers
    RegisterBuffer = 1
    CommandBuffer = 1
    SendBuffer = 1
    DisconnectBuffer = 1
    SubRequestBuffer = 1
    MaxCommands = 3
    MaxFaults = 0
SPECIFICATION Spec
CHECK_DEADLOCK FALSE
INVARIANT
    WatchedIsSubscribed
