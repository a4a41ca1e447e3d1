------------------------------ MODULE Realtime ------------------------------
(***************************************************************************)
(* One server's real-time layer: the Hub and its pumps (Hub.tla), the      *)
(* Broker (Broker.tla) and the frame handlers that drive both              *)
(* (internal/websocket/server.go, handlers.go, presence.go).  The rest of  *)
(* the deployment, other servers and the REST handlers, appears as         *)
(* publications to Redis topics.                                           *)
(*                                                                         *)
(* An event is [topic, id]; ids count publications, in the order Redis     *)
(* receives them.                                                          *)
(***************************************************************************)
EXTENDS Naturals, Sequences, FiniteSets, SequencesExt

CONSTANTS
    Clients, Rooms, Users, UserOf, NoTopic, NoCaller,
    RegisterBuffer, CommandBuffer, SendBuffer, DisconnectBuffer, SubRequestBuffer,
    Members,      \* the <<user, room>> pairs with an active membership
    MaxCommands,  \* bound: frames and remote publications in all
    MaxFaults     \* bound: timeouts, broken connections and failed Redis calls in all

ASSUME RealtimeAssumption ==
    /\ IsFiniteSet(Rooms) /\ IsFiniteSet(Users)
    /\ UserOf \in [Clients -> Users]
    /\ NoTopic \notin Rooms \cup Users /\ NoCaller \notin Clients
    /\ RegisterBuffer \in Nat \ {0} /\ CommandBuffer \in Nat \ {0} /\ SendBuffer \in Nat \ {0}
    /\ DisconnectBuffer \in Nat \ {0} /\ SubRequestBuffer \in Nat \ {0}
    /\ MaxCommands \in Nat /\ MaxFaults \in Nat

VARIABLES
    clients, rooms, users, cRooms, fanout, done, register, unregister, join, leave,
    broadcast, userBroadcast, disconnects, send, closed, readPump, writePump, panicked,
    subReqs, subscribed, redisSubs, stream, holding, ready,
    handler,      \* per connection: where its handler goroutine stands
    commands,     \* how many frames and remote publications there have been
    faults,       \* how many faults there have been
    published,    \* how many events have been published
    delivered     \* per connection: the events the Hub put on its send queue

Topics == Rooms \cup Users
TopicKind == [t \in Topics |-> IF t \in Rooms THEN "room" ELSE "user"]
Error == [topic |-> NoTopic, id |-> 0]

H == INSTANCE Hub WITH
       Payloads <- [topic : Topics \cup {NoTopic}, id : Nat],
       ErrorPayload <- Error, MayStop <- FALSE
B == INSTANCE Broker WITH
       Kinds <- {"room", "user"}, KindOf <- TopicKind, Callers <- Clients

hub == <<clients, rooms, users, cRooms, fanout, done, register, unregister, join, leave,
         broadcast, userBroadcast, disconnects, send, closed, readPump, writePump, panicked>>
broker == <<subReqs, subscribed, redisSubs, stream, holding, ready>>
ghosts == <<commands, faults, published, delivered>>
vars == <<hub, broker, handler, ghosts>>

Init ==
    /\ H!Init /\ B!BInit
    /\ handler = [c \in Clients |-> [at |-> "connect", room |-> NoTopic]]
    /\ commands = 0 /\ faults = 0 /\ published = 0
    /\ delivered = [c \in Clients |-> <<>>]

GoTo(c, place, r) == handler' = [handler EXCEPT ![c] = [at |-> place, room |-> r]]
At(c, place) == handler[c].at = place
Ready(c) == handler[c].at = "read" /\ readPump[c] = "running"
Frame == commands < MaxCommands /\ commands' = commands + 1 /\ UNCHANGED faults
Fault == faults < MaxFaults /\ faults' = faults + 1 /\ UNCHANGED commands
Member(c, r) == <<UserOf[c], r>> \in Members

(* Server.publish and the store's Publish functions. *)
Send(t) ==
    /\ B!Publish(t, published + 1)
    /\ published' = published + 1

-----------------------------------------------------------------------------
(* The upgrade handler: register, subscribe to the user's own channel, then   *)
(* start the read loop whatever came of the subscription.  (What              *)
(* presenceOnline publishes in between is a Remote publication.)              *)
Connect(c) ==
    /\ At(c, "connect")
    /\ H!Connect(c)
    /\ GoTo(c, "subscribe", NoTopic)
    /\ UNCHANGED <<broker, ghosts>>

SubscribeUser(c) ==
    /\ At(c, "subscribe")
    /\ B!EnsureSubscribed(c, UserOf[c])
    /\ GoTo(c, "subscribing", NoTopic)
    /\ UNCHANGED <<hub, ghosts>>

SubscribeUserTimesOut(c) ==
    /\ Fault
    /\ At(c, "subscribe")
    /\ B!EnsureGivesUp(c)
    /\ GoTo(c, "subscribing", NoTopic)
    /\ UNCHANGED <<hub, published, delivered>>

StartReading(c) ==
    /\ At(c, "subscribing")
    /\ B!EnsureReturns(c)
    /\ H!StartReadPump(c)
    /\ GoTo(c, "read", NoTopic)
    /\ UNCHANGED ghosts

(* handleRoomJoin.  The membership check and the subscription request, then   *)
(* Hub.Join once the subscription is confirmed, then user.joined.             *)
RoomJoin(c, r) ==
    /\ Ready(c) /\ Frame
    /\ Member(c, r)
    /\ B!EnsureSubscribed(c, r)
    /\ GoTo(c, "join", r)
    /\ UNCHANGED <<hub, published, delivered>>

RoomJoined(c) ==
    /\ At(c, "join")
    /\ ready[c] = "ok"
    /\ B!EnsureReturns(c)
    /\ H!Join(c, handler[c].room)
    /\ GoTo(c, "publish", handler[c].room)
    /\ UNCHANGED ghosts

RoomJoinFailed(c) ==
    /\ At(c, "join")
    /\ ready[c] = "failed"
    /\ B!EnsureReturns(c)
    /\ H!SendError(c)
    /\ GoTo(c, "read", NoTopic)
    /\ UNCHANGED ghosts

(* A frame that is answered with an error: a malformed one, a failed check, a *)
(* join whose context expires before its request is queued.                   *)
Refuse(c) ==
    /\ Ready(c) /\ Frame
    /\ H!SendError(c)
    /\ UNCHANGED <<broker, handler, published, delivered>>

(* handleRoomLeave: Hub.Leave, then user.left. *)
RoomLeave(c, r) ==
    /\ Ready(c) /\ Frame
    /\ H!Leave(c, r)
    /\ GoTo(c, "publish", r)
    /\ UNCHANGED <<broker, published, delivered>>

(* handleMessageSend: the message is persisted, then published. *)
MessageSend(c, r) ==
    /\ Ready(c) /\ Frame
    /\ Member(c, r)
    /\ GoTo(c, "publish", r)
    /\ UNCHANGED <<hub, broker, published, delivered>>

Announce(c) ==
    /\ At(c, "publish")
    /\ Send(handler[c].room)
    /\ GoTo(c, "read", NoTopic)
    /\ UNCHANGED <<hub, commands, faults, delivered>>

(* A publication that fails is logged and forgotten. *)
AnnounceFails(c) ==
    /\ Fault
    /\ At(c, "publish")
    /\ GoTo(c, "read", NoTopic)
    /\ UNCHANGED <<hub, broker, published, delivered>>

EnsureTimesOut(c) ==
    /\ Fault
    /\ B!EnsureTimesOut(c)
    /\ UNCHANGED <<hub, handler, published, delivered>>

(* The connection breaks: the read loop notices between two frames, the write *)
(* pump at any time.  What follows, once the other pump has closed it, is no  *)
(* fault of its own.                                                          *)
ConnectionBreaks(c) ==
    /\ Fault
    /\ \/ writePump[c] = "running" /\ At(c, "read") /\ H!ReadFails(c)
       \/ readPump[c] # "exited" /\ H!WriteFails(c)
    /\ UNCHANGED <<broker, handler, published, delivered>>

Pump(c) ==
    /\ \/ writePump[c] = "exited" /\ At(c, "read") /\ H!ReadFails(c)
       \/ readPump[c] = "exited" /\ H!WriteFails(c)
       \/ H!Unregister(c)
       \/ H!WriteNext(c)
    /\ UNCHANGED <<broker, handler, ghosts>>

-----------------------------------------------------------------------------
(* A Hub step, with the calls detach and detachUser make for every room and   *)
(* user it leaves without a local connection.  The rooms of a connection are  *)
(* visited in any order.                                                      *)
VacatedRooms == {r \in Rooms : rooms[r] # {} /\ rooms'[r] = {}}
VacatedUsers == {u \in Users : users[u] # {} /\ users'[u] = {}}

HubMoves ==
    /\ H!HubStep
    /\ \E r \in SetToSeqs(VacatedRooms), u \in SetToSeqs(VacatedUsers) :
         subReqs' = [k \in {"room", "user"} |-> B!Unsubscribe(k, IF k = "room" THEN r ELSE u)]
    /\ delivered' = [c \in Clients |->
                       IF Len(send'[c]) > Len(send[c])
                       THEN Append(delivered[c], fanout.payload) ELSE delivered[c]]
    /\ UNCHANGED <<subscribed, redisSubs, stream, holding, ready, handler, commands, faults, published>>

(* Broker.Run. *)
BrokerApplies ==
    /\ \E k \in {"room", "user"} : B!applySubRequest(k)
    /\ UNCHANGED <<hub, handler, ghosts>>

SubRequestFails ==
    /\ Fault
    /\ \E k \in {"room", "user"} : B!SubRequestFails(k)
    /\ UNCHANGED <<hub, handler, published, delivered>>

BrokerTakes ==
    /\ \E k \in {"room", "user"} : B!TakeMessage(k)
    /\ UNCHANGED <<hub, handler, ghosts>>

BrokerForwards ==
    /\ B!HandOver
    /\ LET e == holding[1] IN
       IF e.topic \in Rooms THEN H!Broadcast(e.topic, e) ELSE H!BroadcastToUser(e.topic, e)
    /\ UNCHANGED <<handler, ghosts>>

(* processDisconnects: user.left for every room the connection had joined, of *)
(* which those this server is still subscribed to come back to it             *)
(* (presenceOffline; the presence counters are not modelled here, and what a  *)
(* change of status publishes is a Remote publication).                       *)
AnnounceDeparture(left) ==
    /\ disconnects # <<>>
    /\ H!TakeDisconnect
    /\ \E s \in SetToSeqs(left \cap redisSubs) :
         stream' = [stream EXCEPT !["room"] =
                      @ \o [i \in 1..Len(s) |-> [topic |-> s[i], id |-> published + i]]]
    /\ published' = published + Cardinality(left)
    /\ UNCHANGED <<subReqs, subscribed, redisSubs, holding, ready, handler, delivered>>

ProcessDisconnect ==
    /\ disconnects # <<>>
    /\ AnnounceDeparture(Head(disconnects).rooms)
    /\ UNCHANGED <<commands, faults>>

ProcessDisconnectFails ==
    /\ Fault
    /\ disconnects # <<>>
    /\ \E left \in SUBSET Head(disconnects).rooms : AnnounceDeparture(left)

(* An event published by another server or by a REST handler. *)
Remote(t) ==
    /\ Frame
    /\ Send(t)
    /\ UNCHANGED <<hub, handler, delivered>>

-----------------------------------------------------------------------------
HandlerStep(c) ==
    \/ Connect(c) \/ SubscribeUser(c) \/ SubscribeUserTimesOut(c) \/ StartReading(c)
    \/ \E r \in Rooms : RoomJoin(c, r) \/ RoomLeave(c, r) \/ MessageSend(c, r)
    \/ RoomJoined(c) \/ RoomJoinFailed(c) \/ Refuse(c) \/ Announce(c) \/ AnnounceFails(c)

Next ==
    /\ panicked = "no"
    /\ \/ \E c \in Clients : \/ HandlerStep(c) \/ EnsureTimesOut(c)
                             \/ ConnectionBreaks(c) \/ Pump(c)
       \/ HubMoves \/ BrokerApplies \/ SubRequestFails \/ BrokerTakes \/ BrokerForwards
       \/ ProcessDisconnect \/ ProcessDisconnectFails
       \/ \E t \in Topics : Remote(t)

Running(A) == panicked = "no" /\ A

(* Goroutines run: the Hub, the Broker and processDisconnects serve what they *)
(* are given, a handler that has started goes on, pumps move.  No timeout, no *)
(* failure and no input is owed to anyone.                                    *)
Fairness ==
    /\ WF_vars(Running(HubMoves))
    /\ WF_vars(Running(BrokerApplies \/ BrokerTakes \/ BrokerForwards))
    /\ WF_vars(Running(ProcessDisconnect))
    /\ \A c \in Clients :
         WF_vars(Running(SubscribeUser(c) \/ StartReading(c) \/ RoomJoined(c)
                           \/ RoomJoinFailed(c) \/ Announce(c)))

Spec == Init /\ [][Next]_vars /\ Fairness

-----------------------------------------------------------------------------
(* The variables keep their types. *)
TypeOK ==
    /\ H!ValuesOK /\ B!BTypeOK
    /\ handler \in [Clients -> [at : {"connect", "subscribe", "subscribing", "read",
                                      "join", "publish"},
                                room : Rooms \cup {NoTopic}]]
    /\ commands \in 0..MaxCommands /\ faults \in 0..MaxFaults
    /\ published \in Nat
    /\ delivered \in [Clients -> Seq([topic : Topics, id : Nat])]

(* No connection is sent the same event twice: events reach the Hub on the    *)
(* Redis receive path only, so the publishing server does not deliver its own *)
(* events a second time.                                                      *)
DeliveredOnce ==
    \A c \in Clients : \A i, j \in DOMAIN delivered[c] :
        delivered[c][i] = delivered[c][j] => i = j

(* Events of one Pub/Sub connection reach a client in the order Redis         *)
(* received them, across resubscriptions, slow consumers and both hops        *)
(* (Broker.Run to Hub.Run to send).                                           *)
DeliveredInOrder ==
    \A c \in Clients : \A i, j \in DOMAIN delivered[c] :
        /\ i < j
        /\ TopicKind[delivered[c][i].topic] = TopicKind[delivered[c][j].topic]
        => delivered[c][i].id < delivered[c][j].id

(* What the Broker answers EnsureSubscribed from is never stale. *)
SubscribedIsReal == B!SubscribedIsReal

(* A room with a local connection in it is subscribed in Redis.  README.md:   *)
(* "a late unsubscribe only wastes a little effort delivering to an empty     *)
(* room, it never loses anything".                                            *)
WatchedIsSubscribed == \A r \in Rooms : rooms[r] # {} => r \in redisSubs

(* The relay never wedges: though the Broker blocks on the Hub's broadcast    *)
(* channels, a handler waits for the Broker and every channel is bounded, all *)
(* that was queued is served and every handler gets its answer.               *)
RelayDrains ==
    <>[](\/ panicked # "no"
         \/ /\ \A k \in {"room", "user"} : subReqs[k] = <<>> /\ stream[k] = <<>>
            /\ holding = <<>> /\ broadcast = <<>> /\ userBroadcast = <<>>
            /\ join = <<>> /\ leave = <<>> /\ register = <<>> /\ unregister = <<>>
            /\ \A c \in Clients : handler[c].at \in {"connect", "read"})
=============================================================================
