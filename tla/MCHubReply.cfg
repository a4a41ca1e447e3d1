CONSTANTS
    c1 = c1
    c2 = c2
    u1 = u1
    Clients = {c1, c2}
    Rooms = {r1}
    Users = {u1}
    UserOf <- MCUserOf
    Payloads = {p}
    ErrorPayload = p
    RegisterBuffer = 1
    CommandBuffer = 1
    SendBuffer = 1
    DisconnectBuffer = 1
    MayStop = TRUE
    MaxInputs = 3
SPECIFICATION MCSpec
CHECK_DEADLOCK FALSE
INVARIANT
    ReplyIsDiscarded
