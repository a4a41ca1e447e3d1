-------------------------------- MODULE Hub --------------------------------
(***************************************************************************)
(* The connection manager of the real-time layer: the Hub goroutine        *)
(* (internal/websocket/hub.go), the six command channels through which it  *)
(* is driven, and the read and write pumps of every connection             *)
(* (internal/websocket/client.go).                                         *)
(*                                                                         *)
(* A member of Clients is one *Client, that is one WebSocket connection:   *)
(* it is created by the upgrade handler, and never used again once it is   *)
(* torn down.  Every command channel is a queue of its own and the Hub's   *)
(* select takes from any of the non-empty ones, so commands sent on        *)
(* different channels may be processed in either order.                    *)
(***************************************************************************)
EXTENDS Naturals, Sequences

CONSTANTS
    Clients,           \* connections
    Rooms,
    Users,
    UserOf,            \* the user each connection authenticated as
    Payloads,          \* what an event carries
    ErrorPayload,      \* the error envelope a read loop sends to its own client
    RegisterBuffer,    \* registerBuffer: capacity of register and unregister
    CommandBuffer,     \* commandBuffer: capacity of the other four channels
    SendBuffer,        \* sendBuffer: capacity of Client.send
    DisconnectBuffer,  \* disconnectBuffer: capacity of Server.disconnects
    MayStop            \* whether the run context may be cancelled

ASSUME HubAssumption ==
    /\ UserOf \in [Clients -> Users]
    /\ ErrorPayload \in Payloads
    /\ RegisterBuffer \in Nat \ {0}
    /\ CommandBuffer \in Nat \ {0}
    /\ SendBuffer \in Nat \ {0}
    /\ DisconnectBuffer \in Nat \ {0}
    /\ MayStop \in BOOLEAN

VARIABLES
    \* The state only the Hub goroutine touches.  A map entry of rooms or users
    \* that is absent in the code is the empty set here: an entry is created
    \* with its first client and deleted with its last.
    clients, rooms, users,
    cRooms,            \* Client.rooms of every connection
    fanout,            \* the broadcast being delivered: who is still to be served
    done,              \* whether Run has returned
    \* The command channels.
    register, unregister, join, leave, broadcast, userBroadcast,
    disconnects,       \* Server.disconnects
    \* The connections.
    send, closed,      \* Client.send and the clients whose send is closed
    readPump, writePump,
    panicked           \* "no", or which goroutine brought the process down

hubState == <<clients, rooms, users, cRooms, closed, disconnects>>
commands == <<register, unregister, join, leave, broadcast, userBroadcast>>
pumps == <<readPump, writePump>>
vars == <<hubState, fanout, done, commands, send, pumps, panicked>>

ReadStates == {"none", "starting", "running", "unregistering", "exited"}
WriteStates == {"none", "running", "exited"}
Subscription == [client : Clients, room : Rooms]
RoomEvent == [room : Rooms, payload : Payloads]
UserEvent == [user : Users, payload : Payloads]
Disconnect == [user : Users, rooms : SUBSET Rooms]
Idle == [pending |-> {}, payload |-> ErrorPayload]

ValuesOK ==
    /\ clients \in SUBSET Clients
    /\ rooms \in [Rooms -> SUBSET Clients]
    /\ users \in [Users -> SUBSET Clients]
    /\ cRooms \in [Clients -> SUBSET Rooms]
    /\ fanout \in [pending : SUBSET Clients, payload : Payloads]
    /\ done \in BOOLEAN
    /\ register \in Seq(Clients) /\ unregister \in Seq(Clients)
    /\ join \in Seq(Subscription) /\ leave \in Seq(Subscription)
    /\ broadcast \in Seq(RoomEvent)
    /\ userBroadcast \in Seq(UserEvent)
    /\ disconnects \in Seq(Disconnect)
    /\ send \in [Clients -> Seq(Payloads)]
    /\ closed \in SUBSET Clients
    /\ readPump \in [Clients -> ReadStates]
    /\ writePump \in [Clients -> WriteStates]
    /\ panicked \in {"no", "hub", "read"}

(* No more waits on a channel than it was made to hold, a slow client's send *)
(* and the departures included: what the process keeps for its connections   *)
(* is bounded.                                                               *)
WithinCapacity ==
    /\ Len(register) <= RegisterBuffer /\ Len(unregister) <= RegisterBuffer
    /\ Len(join) <= CommandBuffer /\ Len(leave) <= CommandBuffer
    /\ Len(broadcast) <= CommandBuffer /\ Len(userBroadcast) <= CommandBuffer
    /\ Len(disconnects) <= DisconnectBuffer
    /\ \A c \in Clients : Len(send[c]) <= SendBuffer

(* The types of the variables, and the capacities of the channels (hub.go     *)
(* NewHub, client.go newClient, server.go).                                   *)
TypeOK == ValuesOK /\ WithinCapacity

(* NewHub and newClient: nothing connected, nothing queued. *)
Init ==
    /\ clients = {}
    /\ rooms = [r \in Rooms |-> {}]
    /\ users = [u \in Users |-> {}]
    /\ cRooms = [c \in Clients |-> {}]
    /\ fanout = Idle
    /\ done = FALSE
    /\ register = <<>> /\ unregister = <<>>
    /\ join = <<>> /\ leave = <<>>
    /\ broadcast = <<>> /\ userBroadcast = <<>>
    /\ disconnects = <<>>
    /\ send = [c \in Clients |-> <<>>]
    /\ closed = {}
    /\ readPump = [c \in Clients |-> "none"]
    /\ writePump = [c \in Clients |-> "none"]
    /\ panicked = "no"

-----------------------------------------------------------------------------
(* Handing the Hub a command.  A full channel blocks the caller, except that *)
(* a stopped Hub releases it and the command is dropped.                     *)

EnqueueOrBlock(ch, x, capacity) == {q \in {Append(ch, x)} : Len(ch) < capacity}

\* Handed over by a goroutine of its own, as many waiting as there are callers.
EnqueueSpawned(ch, x, capacity) == {Append(ch, x)}

Enqueue(ch, x, capacity) ==
    {q \in {Append(ch, x)} : Len(ch) < capacity} \cup {q \in {ch} : done}

(* The upgrade handler: Register, then start the write pump. *)
Connect(c) ==
    /\ readPump[c] = "none"
    /\ register' \in Enqueue(register, c, RegisterBuffer)
    /\ readPump' = [readPump EXCEPT ![c] = "starting"]
    /\ writePump' = [writePump EXCEPT ![c] = "running"]
    /\ UNCHANGED <<hubState, fanout, done, unregister, join, leave, broadcast,
                   userBroadcast, send, panicked>>

(* The end of the upgrade handler: the read loop starts. *)
StartReadPump(c) ==
    /\ readPump[c] = "starting"
    /\ readPump' = [readPump EXCEPT ![c] = "running"]
    /\ UNCHANGED <<hubState, fanout, done, commands, send, writePump, panicked>>

(* Hub.Join and Hub.Leave, called by the read loop of c. *)
Join(c, r) ==
    /\ readPump[c] = "running"
    /\ join' \in Enqueue(join, [client |-> c, room |-> r], CommandBuffer)
    /\ UNCHANGED <<hubState, fanout, done, register, unregister, leave,
                   broadcast, userBroadcast, send, pumps, panicked>>

Leave(c, r) ==
    /\ readPump[c] = "running"
    /\ leave' \in Enqueue(leave, [client |-> c, room |-> r], CommandBuffer)
    /\ UNCHANGED <<hubState, fanout, done, register, unregister, join,
                   broadcast, userBroadcast, send, pumps, panicked>>

(* sendError and enqueue: the read loop replies to its own client.  The send *)
(* never blocks; a full queue discards the reply.  A Go send on a closed     *)
(* channel panics even inside a select with a default, and a panic in this   *)
(* goroutine ends the process.                                               *)
SendError(c) ==
    /\ readPump[c] = "running"
    /\ IF c \in closed
       THEN panicked' = "read" /\ UNCHANGED send
       ELSE /\ send' = [send EXCEPT ![c] = IF Len(@) < SendBuffer
                                           THEN Append(@, ErrorPayload) ELSE @]
            /\ UNCHANGED panicked
    /\ UNCHANGED <<hubState, fanout, done, commands, pumps>>

(* The read loop ends: the peer left, the read deadline lapsed, or the write *)
(* pump closed the connection.                                               *)
ReadFails(c) ==
    /\ readPump[c] = "running"
    /\ readPump' = [readPump EXCEPT ![c] = "unregistering"]
    /\ UNCHANGED <<hubState, fanout, done, commands, send, writePump, panicked>>

(* The deferred call of the read pump: Unregister, then close the connection. *)
Unregister(c) ==
    /\ readPump[c] = "unregistering"
    /\ unregister' \in Enqueue(unregister, c, RegisterBuffer)
    /\ readPump' = [readPump EXCEPT ![c] = "exited"]
    /\ UNCHANGED <<hubState, fanout, done, register, join, leave, broadcast,
                   userBroadcast, send, writePump, panicked>>

(* The write pump.  It writes the next queued payload, or ends when send is   *)
(* closed and drained.  A write to a connection that is closed or broken      *)
(* fails and ends it too; so does a ping, whatever is queued.                 *)
IgnoreClose(c) ==
    /\ writePump[c] = "running"
    /\ send[c] # <<>>
    /\ readPump[c] # "exited"
    /\ send' = [send EXCEPT ![c] = Tail(@)]
    /\ UNCHANGED <<hubState, fanout, done, commands, pumps, panicked>>

WriteNext(c) ==
    /\ writePump[c] = "running"
    /\ \/ /\ send[c] # <<>>
          /\ readPump[c] # "exited"
          /\ send' = [send EXCEPT ![c] = Tail(@)]
          /\ UNCHANGED writePump
       \/ /\ send[c] = <<>>
          /\ c \in closed
          /\ writePump' = [writePump EXCEPT ![c] = "exited"]
          /\ UNCHANGED send
    /\ UNCHANGED <<hubState, fanout, done, commands, readPump, panicked>>

WriteFails(c) ==
    /\ writePump[c] = "running"
    /\ writePump' = [writePump EXCEPT ![c] = "exited"]
    /\ UNCHANGED <<hubState, fanout, done, commands, send, readPump, panicked>>

(* Hub.Broadcast and Hub.BroadcastToUser, called by the Broker. *)
Broadcast(r, p) ==
    /\ broadcast' \in Enqueue(broadcast, [room |-> r, payload |-> p], CommandBuffer)
    /\ UNCHANGED <<hubState, fanout, done, register, unregister, join, leave,
                   userBroadcast, send, pumps, panicked>>

BroadcastToUser(u, p) ==
    /\ userBroadcast' \in Enqueue(userBroadcast, [user |-> u, payload |-> p], CommandBuffer)
    /\ UNCHANGED <<hubState, fanout, done, register, unregister, join, leave,
                   broadcast, send, pumps, panicked>>

-----------------------------------------------------------------------------
(* The Hub goroutine.  Selecting: it is between two commands. *)
Selecting == ~done /\ fanout.pending = {}

HubRegister ==
    /\ Selecting
    /\ register # <<>>
    /\ LET c == Head(register) IN
       /\ clients' = clients \cup {c}
       /\ users' = [users EXCEPT ![UserOf[c]] = @ \cup {c}]
    /\ register' = Tail(register)
    /\ UNCHANGED <<rooms, cRooms, closed, disconnects, fanout, done, unregister,
                   join, leave, broadcast, userBroadcast, send, pumps, panicked>>

(* removeClient, with detach for every room of c and detachUser, close of    *)
(* c.send (which panics if it is closed already) and ClientDisconnected,     *)
(* which drops the event when its queue is full.  Client.rooms is left as    *)
(* it is.                                                                     *)
TearDown(c, joined) ==
    /\ clients' = clients \ {c}
    /\ rooms' = [r \in Rooms |-> IF r \in joined THEN rooms[r] \ {c} ELSE rooms[r]]
    /\ users' = [users EXCEPT ![UserOf[c]] = @ \ {c}]
    /\ closed' = closed \cup {c}
    /\ panicked' = IF c \in closed THEN "hub" ELSE panicked
    /\ disconnects' = IF Len(disconnects) < DisconnectBuffer
                      THEN Append(disconnects, [user |-> UserOf[c], rooms |-> cRooms[c]])
                      ELSE disconnects

RemoveUnguarded(c) == TearDown(c, cRooms[c])

RemoveUndetached(c) ==
    IF c \in clients THEN TearDown(c, {})
    ELSE UNCHANGED <<clients, rooms, users, closed, panicked, disconnects>>

RemoveKeepingUser(c) ==
    IF c \in clients
    THEN /\ clients' = clients \ {c}
         /\ rooms' = [r \in Rooms |-> rooms[r] \ {c}]
         /\ closed' = closed \cup {c}
         /\ UNCHANGED <<users, panicked, disconnects>>
    ELSE UNCHANGED <<clients, rooms, users, closed, panicked, disconnects>>

RemoveKeepingClient(c) ==
    IF c \in clients
    THEN /\ rooms' = [r \in Rooms |-> rooms[r] \ {c}]
         /\ users' = [users EXCEPT ![UserOf[c]] = @ \ {c}]
         /\ closed' = closed \cup {c}
         /\ UNCHANGED <<clients, panicked, disconnects>>
    ELSE UNCHANGED <<clients, rooms, users, closed, panicked, disconnects>>

removeClient(c) ==
    IF c \in clients THEN TearDown(c, cRooms[c])
    ELSE UNCHANGED <<clients, rooms, users, closed, panicked, disconnects>>

HubUnregister ==
    /\ Selecting
    /\ unregister # <<>>
    /\ removeClient(Head(unregister))
    /\ unregister' = Tail(unregister)
    /\ UNCHANGED <<cRooms, fanout, done, register, join, leave, broadcast,
                   userBroadcast, send, pumps>>

addToRoom(c, r) ==
    IF c \notin clients \/ r \in cRooms[c]
    THEN UNCHANGED <<rooms, cRooms>>
    ELSE /\ rooms' = [rooms EXCEPT ![r] = @ \cup {c}]
         /\ cRooms' = [cRooms EXCEPT ![c] = @ \cup {r}]

HubJoin ==
    /\ Selecting
    /\ join # <<>>
    /\ addToRoom(Head(join).client, Head(join).room)
    /\ join' = Tail(join)
    /\ UNCHANGED <<clients, users, closed, disconnects, fanout, done, register,
                   unregister, leave, broadcast, userBroadcast, send, pumps, panicked>>

removeFromRoom(c, r) ==
    IF r \notin cRooms[c]
    THEN UNCHANGED <<rooms, cRooms>>
    ELSE /\ rooms' = [rooms EXCEPT ![r] = @ \ {c}]
         /\ cRooms' = [cRooms EXCEPT ![c] = @ \ {r}]

HubLeave ==
    /\ Selecting
    /\ leave # <<>>
    /\ removeFromRoom(Head(leave).client, Head(leave).room)
    /\ leave' = Tail(leave)
    /\ UNCHANGED <<clients, users, closed, disconnects, fanout, done, register,
                   unregister, join, broadcast, userBroadcast, send, pumps, panicked>>

(* deliver and deliverToUser range over a set of clients; each client served  *)
(* is one DeliverOne step, since the pumps run meanwhile.                     *)
HubBroadcast ==
    /\ Selecting
    /\ broadcast # <<>>
    /\ fanout' = [pending |-> rooms[Head(broadcast).room],
                  payload |-> Head(broadcast).payload]
    /\ broadcast' = Tail(broadcast)
    /\ UNCHANGED <<hubState, done, register, unregister, join, leave,
                   userBroadcast, send, pumps, panicked>>

HubUserBroadcast ==
    /\ Selecting
    /\ userBroadcast # <<>>
    /\ fanout' = [pending |-> users[Head(userBroadcast).user],
                  payload |-> Head(userBroadcast).payload]
    /\ userBroadcast' = Tail(userBroadcast)
    /\ UNCHANGED <<hubState, done, register, unregister, join, leave,
                   broadcast, send, pumps, panicked>>

(* One client of the range: a full send queue marks a slow consumer, which is *)
(* removed; a closed one would panic.                                         *)
DeliverOne(c) ==
    /\ ~done
    /\ c \in fanout.pending
    /\ fanout' = [fanout EXCEPT !.pending = @ \ {c}]
    /\ \/ /\ c \in closed
          /\ panicked' = "hub"
          /\ UNCHANGED <<hubState, send>>
       \/ /\ c \notin closed
          /\ Len(send[c]) < SendBuffer
          /\ send' = [send EXCEPT ![c] = Append(@, fanout.payload)]
          /\ UNCHANGED <<hubState, panicked>>
       \/ /\ c \notin closed
          /\ Len(send[c]) >= SendBuffer
          /\ removeClient(c)
          /\ UNCHANGED <<cRooms, send>>
    /\ UNCHANGED <<done, commands, pumps>>

(* Run returns when the context is cancelled, between two commands. *)
Stop ==
    /\ MayStop
    /\ Selecting
    /\ done' = TRUE
    /\ UNCHANGED <<hubState, fanout, commands, send, pumps, panicked>>

(* processDisconnects takes the next event (what it then does is presence). *)
TakeDisconnect ==
    /\ disconnects # <<>>
    /\ disconnects' = Tail(disconnects)
    /\ UNCHANGED <<clients, rooms, users, cRooms, closed, fanout, done,
                   commands, send, pumps, panicked>>

-----------------------------------------------------------------------------
HubStep ==
    \/ HubRegister \/ HubUnregister \/ HubJoin \/ HubLeave
    \/ HubBroadcast \/ HubUserBroadcast
    \/ \E c \in Clients : DeliverOne(c)

ClientStep(c) ==
    \/ Connect(c) \/ StartReadPump(c) \/ SendError(c)
    \/ \E r \in Rooms : Join(c, r) \/ Leave(c, r)
    \/ ReadFails(c) \/ Unregister(c) \/ WriteNext(c) \/ WriteFails(c)

Environment ==
    \/ \E p \in Payloads : \/ \E r \in Rooms : Broadcast(r, p)
                           \/ \E u \in Users : BroadcastToUser(u, p)
    \/ Stop \/ TakeDisconnect

(* A panic ends the process: no step follows one. *)
Next ==
    /\ panicked = "no"
    /\ HubStep \/ (\E c \in Clients : ClientStep(c)) \/ Environment

Spec == Init /\ [][Next]_vars

(* Goroutines are scheduled: the Hub takes what is queued; a handler that has *)
(* started reaches its end; a pump that can move moves; a read or a write on  *)
(* a connection that the other pump has closed fails.  Nothing obliges a peer *)
(* to send a frame, to hang up, or a live connection to break.                *)
Running(A) == panicked = "no" /\ A

Fairness ==
    /\ WF_vars(Running(HubStep))
    /\ \A c \in Clients :
         /\ WF_vars(Running(StartReadPump(c)))
         /\ WF_vars(Running(Unregister(c)))
         /\ WF_vars(Running(WriteNext(c)))
         /\ WF_vars(Running(writePump[c] = "exited" /\ ReadFails(c)))
         /\ WF_vars(Running(readPump[c] = "exited" /\ WriteFails(c)))

FairSpec == Spec /\ Fairness

-----------------------------------------------------------------------------
(* Properties. *)

(* The room index and Client.rooms, which the Hub updates separately in       *)
(* addToRoom, removeFromRoom, detach and removeClient, agree on every         *)
(* registered connection, and nobody else is in the room index: no departed   *)
(* connection can be served or keep a room subscribed.                        *)
RoomIndexConsistent ==
    \A c \in Clients, r \in Rooms :
        c \in rooms[r] <=> (c \in clients /\ r \in cRooms[c])

(* The per-user index holds exactly the registered connections of the user:   *)
(* the register case of Run and detachUser keep it in step with clients.      *)
UserIndexConsistent ==
    \A c \in Clients, u \in Users :
        c \in users[u] <=> (c \in clients /\ UserOf[c] = u)

(* The Hub goroutine never closes a send channel twice and never sends on a   *)
(* closed one, whatever the order in which slow-consumer removals, repeated   *)
(* unregisters and broadcasts reach it (the guard of removeClient).           *)
HubNeverPanics == panicked # "hub"

(* No read loop sends on a channel the Hub has closed.  client.go says of     *)
(* sendError that "if the send queue is full the client is already being      *)
(* dropped, so the notice is simply discarded".                               *)
ReplyIsDiscarded == panicked # "read"

(* A read pump that has lost its connection hands over its unregister and     *)
(* ends, even when the Hub has stopped with a full unregister channel (the    *)
(* done case of enqueueClient).                                               *)
ReadPumpReleased ==
    \A c \in Clients :
        readPump[c] = "unregistering" ~> (readPump[c] = "exited" \/ panicked # "no")

(* When the Hub drops a connection, closing send makes the write pump drain   *)
(* and close the socket, which ends the read pump: both goroutines end.       *)
DroppedConnectionEnds ==
    \A c \in Clients :
        c \in closed ~> \/ readPump[c] = "exited" /\ writePump[c] = "exited"
                        \/ panicked # "no"

(* The Hub's memory of a connection only moves forward: once removed it is    *)
(* never registered, indexed or served again.                                 *)
RemovedForGood ==
    [][\A c \in closed : /\ c \notin clients'
                         /\ Len(send'[c]) <= Len(send[c])]_vars
=============================================================================
