--------------------------- MODULE RealtimeProofs ---------------------------
(***************************************************************************)
(* Proofs about one server's real-time layer, for any connections, rooms   *)
(* and users, any channel capacities and any number of commands and        *)
(* faults: the composition implements Hub (so that what HubProofs shows of *)
(* the Hub holds in it), its types, and the order of delivery.             *)
(***************************************************************************)
EXTENDS Realtime, FiniteSetTheorems, TLAPS

(* The theorems of HubProofs, for the Hub of this composition. *)
HP == INSTANCE HubProofs WITH
        Payloads <- [topic : Topics \cup {NoTopic}, id : Nat],
        ErrorPayload <- Error, MayStop <- FALSE

(* HP extends the same module as H. *)
LEMMA SameHub == (HP!Init <=> H!Init) /\ (HP!Next <=> H!Next) /\ HP!vars = H!vars
  BY DEF HP!Init, H!Init, HP!Idle, H!Idle, HP!vars, H!vars, HP!hubState, H!hubState,
         HP!commands, H!commands, HP!pumps, H!pumps, HP!Next, H!Next, HP!HubStep, H!HubStep,
         HP!ClientStep, H!ClientStep, HP!Environment, H!Environment, HP!HubRegister, H!HubRegister,
         HP!HubUnregister, H!HubUnregister, HP!HubJoin, H!HubJoin, HP!HubLeave, H!HubLeave,
         HP!HubBroadcast, H!HubBroadcast, HP!HubUserBroadcast, H!HubUserBroadcast,
         HP!DeliverOne, H!DeliverOne, HP!Connect, H!Connect, HP!StartReadPump, H!StartReadPump,
         HP!SendError, H!SendError, HP!Join, H!Join, HP!Leave, H!Leave, HP!ReadFails, H!ReadFails,
         HP!Unregister, H!Unregister, HP!WriteNext, H!WriteNext, HP!WriteFails, H!WriteFails,
         HP!Broadcast, H!Broadcast, HP!BroadcastToUser, H!BroadcastToUser, HP!Stop, H!Stop,
         HP!TakeDisconnect, H!TakeDisconnect, HP!Enqueue, H!Enqueue, HP!Selecting, H!Selecting,
         HP!removeClient, H!removeClient, HP!TearDown, H!TearDown, HP!addToRoom, H!addToRoom,
         HP!removeFromRoom, H!removeFromRoom

LEMMA SameStep == [H!Next]_(H!vars) => [HP!Next]_(HP!vars)
  BY SameHub DEF HP!vars, H!vars, HP!hubState, H!hubState, HP!commands, H!commands, HP!pumps, H!pumps

LEMMA SameTypes == HP!ValuesOK <=> H!ValuesOK
  BY DEF HP!ValuesOK, H!ValuesOK, HP!ReadStates, H!ReadStates, HP!WriteStates, H!WriteStates,
         HP!Subscription, H!Subscription, HP!RoomEvent, H!RoomEvent, HP!UserEvent, H!UserEvent,
         HP!Disconnect, H!Disconnect

LEMMA HubAssumptionHolds == HP!HubAssumption
  BY RealtimeAssumption DEF HP!HubAssumption, Error, Topics

-----------------------------------------------------------------------------
(* The types, with what the handler of a join or a publication is about. *)
HandlerOK == \A c \in Clients : handler[c].at \in {"join", "publish"} => handler[c].room \in Rooms

RelayTypeOK ==
    /\ B!BTypeOK
    /\ handler \in [Clients -> [at : {"connect", "subscribe", "subscribing", "read",
                                      "join", "publish"},
                                room : Rooms \cup {NoTopic}]]
    /\ commands \in 0..MaxCommands /\ faults \in 0..MaxFaults
    /\ published \in Nat

RelayInv == H!ValuesOK /\ RelayTypeOK /\ HandlerOK

LEMMA HeldEvent ==
    ASSUME RelayInv, ~B!Free
    PROVE  holding[1] \in B!Event /\ holding[1].topic \in Topics /\ holding[1].id \in Nat
  <1>1. holding \in Seq(B!Event) /\ holding # <<>>
    BY DEF RelayInv, RelayTypeOK, B!BTypeOK, B!Free
  <1>2. holding[1] \in B!Event
    BY <1>1
  <1>3. QED BY <1>2 DEF B!Event

(* Every step of the composition is a step of the Hub or leaves it alone. *)
LEMMA StepIsHubStep ==
    ASSUME RelayInv, [Next]_vars
    PROVE  [H!Next]_(H!vars)
  <1>1. ASSUME UNCHANGED hub PROVE UNCHANGED H!vars
    BY <1>1 DEF hub, H!vars, H!hubState, H!commands, H!pumps
  <1>2. CASE UNCHANGED vars
    BY <1>1, <1>2 DEF vars
  <1>3. ASSUME panicked = "no", NEW c \in Clients,
               HandlerStep(c) \/ EnsureTimesOut(c) \/ ConnectionBreaks(c) \/ Pump(c)
        PROVE  [H!Next]_(H!vars)
    <2>1. ASSUME H!ClientStep(c) PROVE H!Next
      BY <1>3, <2>1 DEF H!Next
    <2>2. CASE \/ SubscribeUser(c) \/ SubscribeUserTimesOut(c) \/ Announce(c) \/ AnnounceFails(c)
               \/ EnsureTimesOut(c) \/ \E r \in Rooms : RoomJoin(c, r) \/ MessageSend(c, r)
      BY <1>1, <2>2 DEF SubscribeUser, SubscribeUserTimesOut, Announce, AnnounceFails, EnsureTimesOut,
                        RoomJoin, MessageSend
    <2>3. CASE Connect(c) \/ StartReading(c) \/ Refuse(c) \/ RoomJoinFailed(c)
      BY <2>1, <2>3 DEF Connect, StartReading, Refuse, RoomJoinFailed, H!ClientStep
    <2>4. CASE RoomJoined(c)
      <3>1. handler[c].room \in Rooms /\ H!Join(c, handler[c].room)
        BY <2>4 DEF RoomJoined, At, RelayInv, HandlerOK
      <3>2. QED BY <2>1, <3>1 DEF H!ClientStep
    <2>5. CASE \E r \in Rooms : RoomLeave(c, r)
      BY <2>1, <2>5 DEF RoomLeave, H!ClientStep
    <2>6. CASE ConnectionBreaks(c) \/ Pump(c)
      BY <2>1, <2>6 DEF ConnectionBreaks, Pump, H!ClientStep
    <2>7. QED BY <1>3, <2>2, <2>3, <2>4, <2>5, <2>6 DEF HandlerStep
  <1>4. ASSUME panicked = "no", HubMoves PROVE H!Next
    BY <1>4 DEF HubMoves, H!Next
  <1>5. CASE BrokerApplies \/ SubRequestFails \/ BrokerTakes \/ \E t \in Topics : Remote(t)
    BY <1>1, <1>5 DEF BrokerApplies, SubRequestFails, BrokerTakes, Remote
  <1>6. ASSUME panicked = "no", BrokerForwards PROVE H!Next
    <2>1. ~B!Free
      BY <1>6 DEF BrokerForwards, B!HandOver
    <2>2. /\ holding[1].topic \in Topics
          /\ holding[1] \in [topic : Topics \cup {NoTopic}, id : Nat]
      BY <2>1, HeldEvent DEF B!Event
    <2>3. H!Environment
      BY <1>6, <2>2 DEF BrokerForwards, H!Environment, Topics
    <2>4. QED BY <1>6, <2>3 DEF H!Next
  <1>7. ASSUME panicked = "no", ProcessDisconnect \/ ProcessDisconnectFails PROVE H!Next
    BY <1>7 DEF ProcessDisconnect, ProcessDisconnectFails, AnnounceDeparture, H!Environment, H!Next
  <1>8. QED BY <1>2, <1>3, <1>4, <1>5, <1>6, <1>7 DEF Next

LEMMA HubTypesKept ==
    ASSUME RelayInv, [Next]_vars
    PROVE  H!ValuesOK'
  <1>1. [HP!Next]_(HP!vars) /\ HP!ValuesOK
    BY StepIsHubStep, SameStep, SameTypes DEF RelayInv
  <1>2. HP!ValuesOK'
    BY <1>1, HP!TypeStep, HubAssumptionHolds
  <1>3. QED BY <1>2, SameTypes, PTL

-----------------------------------------------------------------------------
(* Queues. *)
LEMMA Appended ==
    ASSUME NEW S, NEW q \in Seq(S), NEW x \in S
    PROVE  /\ Append(q, x) \in Seq(S) /\ Len(Append(q, x)) = Len(q) + 1
           /\ \A i \in 1..Len(q) : Append(q, x)[i] = q[i]
           /\ Append(q, x)[Len(q) + 1] = x
  OBVIOUS

LEMMA Taken ==
    ASSUME NEW S, NEW q \in Seq(S), q # <<>>
    PROVE  /\ Head(q) \in S /\ Head(q) = q[1] /\ Tail(q) \in Seq(S)
           /\ Len(q) \in Nat /\ Len(q) >= 1 /\ Len(Tail(q)) = Len(q) - 1
           /\ \A i \in 1..Len(Tail(q)) : Tail(q)[i] = q[i + 1]
  OBVIOUS

LEMMA Joined ==
    ASSUME NEW S, NEW q \in Seq(S), NEW n \in Nat, NEW f \in [1..n -> S]
    PROVE  /\ q \o f \in Seq(S) /\ Len(q \o f) = Len(q) + n
           /\ \A i \in 1..Len(q) : (q \o f)[i] = q[i]
           /\ \A i \in 1..n : (q \o f)[Len(q) + i] = f[i]
  <1>1. f \in Seq(S) /\ Len(f) = n
    OBVIOUS
  <1>2. QED BY <1>1

LEMMA TopicKinds == \A t \in Topics : TopicKind[t] \in {"room", "user"}
  BY DEF TopicKind

LEMMA HandlerMoved ==
    ASSUME RelayInv, NEW c \in Clients,
           NEW place \in {"connect", "subscribe", "subscribing", "read", "join", "publish"},
           NEW r \in Rooms \cup {NoTopic}, place \in {"join", "publish"} => r \in Rooms,
           GoTo(c, place, r)
    PROVE  /\ handler' \in [Clients -> [at : {"connect", "subscribe", "subscribing", "read",
                                              "join", "publish"},
                                        room : Rooms \cup {NoTopic}]]
           /\ HandlerOK'
  BY DEF RelayInv, RelayTypeOK, GoTo, HandlerOK

(* What a step of the handlers does to the Broker. *)
LEMMA CallTypes ==
    ASSUME B!BTypeOK, NEW c \in Clients, NEW t \in Topics, NEW id \in Nat,
           \/ UNCHANGED broker \/ B!EnsureSubscribed(c, t) \/ B!EnsureGivesUp(c) \/ B!EnsureTimesOut(c)
           \/ B!EnsureReturns(c) \/ B!Publish(t, id)
    PROVE  B!BTypeOK'
  <1> USE RealtimeAssumption
  <1>1. CASE UNCHANGED broker
    BY <1>1 DEF broker, B!BTypeOK
  <1>2. CASE B!EnsureSubscribed(c, t)
    <2> DEFINE k == TopicKind[t]
               x == [topic |-> t, subscribe |-> TRUE, caller |-> c]
    <2>1. k \in {"room", "user"} /\ subReqs[k] \in Seq(B!Request) /\ x \in B!Request
      BY TopicKinds DEF B!BTypeOK, B!Request
    <2>2. /\ Append(subReqs[k], x) \in Seq(B!Request) /\ Len(Append(subReqs[k], x)) = Len(subReqs[k]) + 1
          /\ Len(subReqs[k]) \in Nat
      BY <2>1, Appended
    <2>3. subReqs' = [subReqs EXCEPT ![k] = Append(subReqs[k], x)] /\ Len(subReqs[k]) < SubRequestBuffer
      BY <1>2 DEF B!EnsureSubscribed
    <2> HIDE DEF k, x
    <2>4. subReqs' \in [{"room", "user"} -> Seq(B!Request)]
      BY <2>1, <2>2, <2>3 DEF B!BTypeOK
    <2>5. \A l \in {"room", "user"} : Len(subReqs'[l]) <= SubRequestBuffer
      BY <2>1, <2>2, <2>3 DEF B!BTypeOK
    <2>6. ready' \in [Clients -> {"none", "waiting", "ok", "failed"}] /\ UNCHANGED <<subscribed, redisSubs, stream, holding>>
      BY <1>2 DEF B!BTypeOK, B!EnsureSubscribed
    <2>7. QED BY <2>4, <2>5, <2>6 DEF B!BTypeOK
  <1>3. CASE B!EnsureGivesUp(c) \/ B!EnsureReturns(c)
    BY <1>3 DEF B!BTypeOK, B!EnsureGivesUp, B!EnsureReturns
  <1>4. CASE B!EnsureTimesOut(c)
    <2>1. ASSUME NEW k \in {"room", "user"}
          PROVE  subReqs'[k] \in Seq(B!Request) /\ Len(subReqs'[k]) <= SubRequestBuffer
      <3>1. subReqs[k] \in Seq(B!Request) /\ Len(subReqs[k]) \in Nat /\ Len(subReqs[k]) <= SubRequestBuffer
        BY DEF B!BTypeOK
      <3>2. subReqs'[k] = [i \in DOMAIN subReqs[k] |->
                             IF subReqs[k][i].caller = c THEN [subReqs[k][i] EXCEPT !.caller = NoCaller]
                             ELSE subReqs[k][i]]
        BY <1>4 DEF B!EnsureTimesOut
      <3>3. DOMAIN subReqs[k] = 1..Len(subReqs[k])
        BY <3>1
      <3>4. ASSUME NEW i \in 1..Len(subReqs[k]) PROVE subReqs'[k][i] \in B!Request
        <4>1. subReqs[k][i] \in B!Request
          BY <3>1
        <4>2. [subReqs[k][i] EXCEPT !.caller = NoCaller] \in B!Request
          BY <4>1 DEF B!Request
        <4>3. QED BY <3>2, <3>3, <4>1, <4>2
      <3>5. subReqs'[k] \in [1..Len(subReqs[k]) -> B!Request]
        BY <3>2, <3>3, <3>4
      <3>6. subReqs'[k] \in Seq(B!Request) /\ Len(subReqs'[k]) = Len(subReqs[k])
        BY <3>1, <3>5
      <3>7. QED BY <3>1, <3>6
    <2>2. subReqs' \in [{"room", "user"} -> Seq(B!Request)]
      BY <1>4, <2>1 DEF B!EnsureTimesOut
    <2>3. ready' \in [Clients -> {"none", "waiting", "ok", "failed"}] /\ UNCHANGED <<subscribed, redisSubs, stream, holding>>
      BY <1>4 DEF B!BTypeOK, B!EnsureTimesOut
    <2>4. QED BY <2>1, <2>2, <2>3 DEF B!BTypeOK
  <1>5. CASE B!Publish(t, id)
    <2>1. TopicKind[t] \in {"room", "user"} /\ [topic |-> t, id |-> id] \in B!Event
      BY TopicKinds DEF B!Event
    <2>2. stream[TopicKind[t]] \in Seq(B!Event)
      BY <2>1 DEF B!BTypeOK
    <2>3. Append(stream[TopicKind[t]], [topic |-> t, id |-> id]) \in Seq(B!Event)
      BY <2>1, <2>2, Appended
    <2>4. stream' \in [{"room", "user"} -> Seq(B!Event)]
      BY <1>5, <2>1, <2>3 DEF B!Publish, B!Published, B!BTypeOK
    <2>5. QED BY <1>5, <2>4 DEF B!Publish, B!BTypeOK
  <1>6. QED BY <1>1, <1>2, <1>3, <1>4, <1>5

(* What a step of Broker.Run does. *)
LEMMA RunTypes ==
    ASSUME B!BTypeOK, NEW k \in {"room", "user"},
           B!applySubRequest(k) \/ B!SubRequestFails(k) \/ B!TakeMessage(k) \/ B!HandOver
    PROVE  B!BTypeOK'
  <1> USE RealtimeAssumption
  <1>1. CASE B!applySubRequest(k) \/ B!SubRequestFails(k)
    <2>1. subReqs[k] \in Seq(B!Request) /\ subReqs[k] # <<>> /\ Len(subReqs[k]) <= SubRequestBuffer
      BY <1>1 DEF B!BTypeOK, B!applySubRequest, B!SubRequestFails
    <2>2. /\ Head(subReqs[k]) \in B!Request /\ Tail(subReqs[k]) \in Seq(B!Request)
          /\ Len(subReqs[k]) \in Nat /\ Len(Tail(subReqs[k])) = Len(subReqs[k]) - 1
      BY <2>1, Taken
    <2>3. PICK x \in B!Request : x = Head(subReqs[k])
      BY <2>2
    <2>4. x.topic \in Topics /\ x.caller \in Clients \cup {NoCaller}
      BY <2>3 DEF B!Request
    <2>5. subReqs' = [subReqs EXCEPT ![k] = Tail(subReqs[k])] /\ UNCHANGED <<stream, holding>>
      BY <1>1 DEF B!applySubRequest, B!SubRequestFails
    <2>6. /\ subReqs' \in [{"room", "user"} -> Seq(B!Request)]
          /\ \A l \in {"room", "user"} : Len(subReqs'[l]) <= SubRequestBuffer
      BY <2>1, <2>2, <2>5 DEF B!BTypeOK
    <2>7. subscribed' \in SUBSET Topics /\ redisSubs' \in SUBSET Topics
      BY <1>1, <2>3, <2>4 DEF B!BTypeOK, B!applySubRequest, B!SubRequestFails, B!ForgetTopic
    <2>8. \A outcome \in {"ok", "failed"} :
             B!Reply(x.caller, outcome) => ready' \in [Clients -> {"none", "waiting", "ok", "failed"}]
      BY <2>4 DEF B!Reply, B!BTypeOK
    <2>9. ready' \in [Clients -> {"none", "waiting", "ok", "failed"}]
      BY <1>1, <2>3, <2>8 DEF B!BTypeOK, B!applySubRequest, B!SubRequestFails
    <2>10. QED BY <2>5, <2>6, <2>7, <2>9 DEF B!BTypeOK
  <1>2. CASE B!TakeMessage(k)
    <2>1. stream[k] \in Seq(B!Event) /\ stream[k] # <<>>
      BY <1>2 DEF B!BTypeOK, B!TakeMessage
    <2>2. Head(stream[k]) \in B!Event /\ Tail(stream[k]) \in Seq(B!Event)
      BY <2>1, Taken
    <2>3. holding' \in Seq(B!Event) /\ stream' \in [{"room", "user"} -> Seq(B!Event)]
      BY <1>2, <2>2 DEF B!BTypeOK, B!TakeMessage
    <2>4. QED BY <1>2, <2>3 DEF B!BTypeOK, B!TakeMessage
  <1>3. CASE B!HandOver
    BY <1>3 DEF B!BTypeOK, B!HandOver
  <1>4. QED BY <1>1, <1>2, <1>3

(* The requests the Hub queues never exceed the channel. *)
LEMMA UnsubscribeTypes ==
    ASSUME B!BTypeOK, NEW k \in {"room", "user"}, NEW s \in Seq(Topics)
    PROVE  /\ B!Unsubscribe(k, s) \in Seq(B!Request)
           /\ Len(B!Unsubscribe(k, s)) <= SubRequestBuffer
  <1> USE RealtimeAssumption
  <1>1. subReqs[k] \in Seq(B!Request) /\ Len(subReqs[k]) \in Nat /\ Len(subReqs[k]) <= SubRequestBuffer
    BY DEF B!BTypeOK
  <1> DEFINE space == SubRequestBuffer - Len(subReqs[k])
             n == IF Len(s) < space THEN Len(s) ELSE space
             f == [i \in 1..n |-> [topic |-> s[i], subscribe |-> FALSE, caller |-> NoCaller]]
  <1>2. n \in Nat /\ n <= Len(s) /\ Len(subReqs[k]) + n <= SubRequestBuffer
    <2>1. Len(s) \in Nat /\ SubRequestBuffer \in Nat
      OBVIOUS
    <2>2. space \in Nat /\ Len(subReqs[k]) + space = SubRequestBuffer
      BY <1>1, <2>1
    <2>3. CASE Len(s) < space
      BY <1>1, <2>1, <2>3
    <2>4. CASE ~(Len(s) < space)
      BY <1>1, <2>1, <2>2, <2>4
    <2>5. QED BY <2>3, <2>4
  <1>3. B!Unsubscribe(k, s) = subReqs[k] \o f
    BY DEF B!Unsubscribe
  <1> HIDE DEF n
  <1>4. f \in [1..n -> B!Request]
    <2>1. ASSUME NEW i \in 1..n PROVE s[i] \in Topics
      BY <1>2
    <2>2. QED BY <2>1 DEF B!Request
  <1> HIDE DEF f
  <1>5. subReqs[k] \o f \in Seq(B!Request) /\ Len(subReqs[k] \o f) = Len(subReqs[k]) + n
    BY <1>1, <1>2, <1>4, Joined
  <1>6. QED BY <1>1, <1>2, <1>3, <1>5

LEMMA OrderTypes ==
    ASSUME NEW S, IsFiniteSet(S), NEW s \in SetToSeqs(S)
    PROVE  s \in Seq(S) /\ Len(s) = Cardinality(S) /\ s \in [1..Len(s) -> S] /\ Len(s) \in Nat
  <1>1. Cardinality(S) \in Nat /\ s \in [1..Cardinality(S) -> S]
    BY FS_CardinalityType DEF SetToSeqs
  <1>2. QED BY <1>1

(* The departures of a connection, as processDisconnects announces them. *)
LEMMA Departures ==
    ASSUME RelayInv, NEW left \in SUBSET Rooms, AnnounceDeparture(left)
    PROVE  \E s \in Seq(Rooms) :
              /\ stream' = [stream EXCEPT !["room"] =
                              @ \o [i \in 1..Len(s) |-> [topic |-> s[i], id |-> published + i]]]
              /\ published' \in Nat /\ published + Len(s) <= published' /\ Len(s) \in Nat
  <1>1. IsFiniteSet(left) /\ IsFiniteSet(left \cap redisSubs)
    BY RealtimeAssumption, FS_Subset
  <1>2. PICK s \in SetToSeqs(left \cap redisSubs) :
           stream' = [stream EXCEPT !["room"] =
                        @ \o [i \in 1..Len(s) |-> [topic |-> s[i], id |-> published + i]]]
    BY DEF AnnounceDeparture
  <1>3. /\ s \in Seq(left \cap redisSubs) /\ Len(s) = Cardinality(left \cap redisSubs)
        /\ s \in [1..Len(s) -> left \cap redisSubs] /\ Len(s) \in Nat
    BY <1>1, <1>2, OrderTypes
  <1>4. s \in Seq(Rooms)
    BY <1>3
  <1>5. Cardinality(left) \in Nat /\ Cardinality(left \cap redisSubs) <= Cardinality(left)
    BY <1>1, FS_CardinalityType, FS_Subset
  <1>6. published' = published + Cardinality(left) /\ published \in Nat
    BY DEF AnnounceDeparture, RelayInv, RelayTypeOK
  <1>7. published' \in Nat /\ published + Len(s) <= published' /\ Len(s) \in Nat
    BY <1>3, <1>5, <1>6
  <1>8. QED BY <1>2, <1>4, <1>7, Zenon

LEMMA HandlersKeepTypes ==
    ASSUME RelayInv, NEW c \in Clients, HandlerStep(c) \/ EnsureTimesOut(c)
    PROVE  RelayTypeOK' /\ HandlerOK'
  <1> USE RealtimeAssumption
  <1>1. UserOf[c] \in Topics /\ Rooms \subseteq Topics /\ published + 1 \in Nat
    BY DEF Topics, RelayInv, RelayTypeOK
  <1>2. handler[c].at \in {"join", "publish"} => handler[c].room \in Rooms
    BY DEF RelayInv, HandlerOK
  <1>3. commands' \in 0..MaxCommands /\ faults' \in 0..MaxFaults
    BY DEF HandlerStep, Connect, SubscribeUser, SubscribeUserTimesOut, StartReading, RoomJoin, RoomLeave,
           MessageSend, RoomJoined, RoomJoinFailed, Refuse, Announce, AnnounceFails, EnsureTimesOut,
           ghosts, Frame, Fault, RelayInv, RelayTypeOK
  <1>4. published' \in Nat
    BY DEF HandlerStep, Connect, SubscribeUser, SubscribeUserTimesOut, StartReading, RoomJoin, RoomLeave,
           MessageSend, RoomJoined, RoomJoinFailed, Refuse, Announce, AnnounceFails, EnsureTimesOut,
           ghosts, Send, RelayInv, RelayTypeOK
  <1>5. /\ handler' \in [Clients -> [at : {"connect", "subscribe", "subscribing", "read", "join", "publish"},
                                     room : Rooms \cup {NoTopic}]]
        /\ HandlerOK'
    <2>1. CASE UNCHANGED handler
      BY <2>1 DEF RelayInv, RelayTypeOK, HandlerOK
    <2>2. ASSUME NEW place \in {"connect", "subscribe", "subscribing", "read", "join", "publish"},
                 NEW r \in Rooms \cup {NoTopic}, place \in {"join", "publish"} => r \in Rooms,
                 GoTo(c, place, r)
          PROVE  <1>5
      BY <2>2, HandlerMoved
    <2>3. CASE \E r \in Rooms : GoTo(c, "join", r) \/ GoTo(c, "publish", r)
      BY <2>2, <2>3
    <2>4. CASE GoTo(c, "subscribe", NoTopic) \/ GoTo(c, "subscribing", NoTopic) \/ GoTo(c, "read", NoTopic)
      BY <2>2, <2>4
    <2>5. QED BY <1>2, <2>1, <2>3, <2>4 DEF HandlerStep, Connect, SubscribeUser, SubscribeUserTimesOut,
                StartReading, RoomJoin, RoomLeave, MessageSend, RoomJoined, RoomJoinFailed, Refuse, Announce,
                AnnounceFails, EnsureTimesOut, At
  <1>6. B!BTypeOK'
    <2>1. B!BTypeOK
      BY DEF RelayInv, RelayTypeOK
    <2>2. CASE \/ Connect(c) \/ Refuse(c) \/ AnnounceFails(c)
               \/ \E r \in Rooms : RoomLeave(c, r) \/ MessageSend(c, r)
      BY <1>1, <2>1, <2>2, CallTypes DEF Connect, Refuse, AnnounceFails, RoomLeave, MessageSend
    <2>3. CASE SubscribeUser(c) \/ SubscribeUserTimesOut(c) \/ EnsureTimesOut(c)
      BY <1>1, <2>1, <2>3, CallTypes DEF SubscribeUser, SubscribeUserTimesOut, EnsureTimesOut
    <2>4. CASE StartReading(c) \/ RoomJoined(c) \/ RoomJoinFailed(c)
      BY <1>1, <2>1, <2>4, CallTypes DEF StartReading, RoomJoined, RoomJoinFailed
    <2>5. ASSUME NEW r \in Rooms, RoomJoin(c, r) PROVE B!BTypeOK'
      BY <1>1, <2>1, <2>5, CallTypes DEF RoomJoin
    <2>6. CASE Announce(c)
      BY <1>1, <1>2, <2>1, <2>6, CallTypes DEF Announce, Send, At
    <2>7. QED BY <2>2, <2>3, <2>4, <2>5, <2>6 DEF HandlerStep
  <1>7. QED BY <1>3, <1>4, <1>5, <1>6 DEF RelayTypeOK

LEMMA RestKeepsTypes ==
    ASSUME RelayInv,
           \/ \E c \in Clients : ConnectionBreaks(c) \/ Pump(c)
           \/ HubMoves \/ BrokerApplies \/ SubRequestFails \/ BrokerTakes \/ BrokerForwards
           \/ ProcessDisconnect \/ ProcessDisconnectFails \/ \E t \in Topics : Remote(t)
    PROVE  RelayTypeOK' /\ HandlerOK'
  <1> USE RealtimeAssumption
  <1>1. B!BTypeOK /\ published \in Nat
    BY DEF RelayInv, RelayTypeOK
  <1>2. handler' = handler
    BY DEF ConnectionBreaks, Pump, HubMoves, BrokerApplies, SubRequestFails, BrokerTakes, BrokerForwards,
           ProcessDisconnect, ProcessDisconnectFails, AnnounceDeparture, Remote
  <1>3. commands' \in 0..MaxCommands /\ faults' \in 0..MaxFaults
    <2>1. UNCHANGED <<commands, faults>> \/ Frame \/ Fault
      BY DEF ConnectionBreaks, Pump, HubMoves, BrokerApplies, SubRequestFails, BrokerTakes, BrokerForwards,
             ProcessDisconnect, ProcessDisconnectFails, Remote, ghosts
    <2>2. QED BY <2>1 DEF Frame, Fault, RelayInv, RelayTypeOK
  <1>4. B!BTypeOK' /\ published' \in Nat
    <2>1. CASE \E c \in Clients : ConnectionBreaks(c) \/ Pump(c)
      BY <1>1, <2>1 DEF ConnectionBreaks, Pump, ghosts, broker, B!BTypeOK
    <2>2. CASE BrokerApplies \/ SubRequestFails \/ BrokerTakes \/ BrokerForwards
      BY <1>1, <2>2, RunTypes DEF BrokerApplies, SubRequestFails, BrokerTakes, BrokerForwards, ghosts
    <2>3. ASSUME NEW t \in Topics, Remote(t) PROVE B!BTypeOK' /\ published' \in Nat
      <3>1. published + 1 \in Nat /\ B!Publish(t, published + 1) /\ published' = published + 1
        BY <1>1, <2>3 DEF Remote, Send
      <3>2. CASE t \notin redisSubs
        BY <1>1, <3>1, <3>2 DEF B!Publish, B!Published, B!BTypeOK
      <3>3. CASE t \in redisSubs
        <4>1. TopicKind[t] \in {"room", "user"} /\ [topic |-> t, id |-> published + 1] \in B!Event
          BY <3>1, TopicKinds DEF B!Event
        <4>2. Append(stream[TopicKind[t]], [topic |-> t, id |-> published + 1]) \in Seq(B!Event)
          BY <1>1, <4>1, Appended DEF B!BTypeOK
        <4>3. stream' \in [{"room", "user"} -> Seq(B!Event)]
          BY <1>1, <3>1, <3>3, <4>1, <4>2 DEF B!Publish, B!Published, B!BTypeOK
        <4>4. QED BY <1>1, <3>1, <4>3 DEF B!Publish, B!BTypeOK
      <3>4. QED BY <3>2, <3>3
    <2>4. ASSUME NEW left \in SUBSET Rooms, AnnounceDeparture(left) PROVE B!BTypeOK' /\ published' \in Nat
      <3>1. PICK s \in Seq(Rooms) :
              /\ stream' = [stream EXCEPT !["room"] =
                              @ \o [i \in 1..Len(s) |-> [topic |-> s[i], id |-> published + i]]]
              /\ published' \in Nat /\ Len(s) \in Nat
        BY <2>4, Departures
      <3> DEFINE f == [i \in 1..Len(s) |-> [topic |-> s[i], id |-> published + i]]
      <3>2. f \in [1..Len(s) -> B!Event]
        <4>1. ASSUME NEW i \in 1..Len(s) PROVE s[i] \in Topics /\ published + i \in Nat
          BY <1>1, <3>1 DEF Topics
        <4>2. QED BY <4>1 DEF B!Event
      <3>3. stream' = [stream EXCEPT !["room"] = stream["room"] \o f]
        BY <3>1
      <3>4. stream["room"] \in Seq(B!Event)
        BY <1>1 DEF B!BTypeOK
      <3> HIDE DEF f
      <3>5. stream["room"] \o f \in Seq(B!Event)
        BY <3>1, <3>2, <3>4, Joined
      <3>6. stream' \in [{"room", "user"} -> Seq(B!Event)]
        BY <1>1, <3>3, <3>5 DEF B!BTypeOK
      <3>7. QED BY <1>1, <2>4, <3>1, <3>6 DEF AnnounceDeparture, B!BTypeOK
    <2>5. CASE ProcessDisconnect \/ ProcessDisconnectFails
      <3>1. disconnects \in Seq(H!Disconnect) /\ disconnects # <<>>
        BY <2>5 DEF RelayInv, H!ValuesOK, ProcessDisconnect, ProcessDisconnectFails
      <3>2. Head(disconnects) \in H!Disconnect
        BY <3>1, Taken
      <3>3. Head(disconnects).rooms \in SUBSET Rooms
        BY <3>2 DEF H!Disconnect
      <3>4. QED BY <2>4, <2>5, <3>3 DEF ProcessDisconnect, ProcessDisconnectFails
    <2>6. CASE HubMoves
      <3>1. PICK r \in SetToSeqs(VacatedRooms), u \in SetToSeqs(VacatedUsers) :
               subReqs' = [k \in {"room", "user"} |-> B!Unsubscribe(k, IF k = "room" THEN r ELSE u)]
        BY <2>6 DEF HubMoves
      <3>2. /\ IsFiniteSet(VacatedRooms) /\ VacatedRooms \subseteq Topics
            /\ IsFiniteSet(VacatedUsers) /\ VacatedUsers \subseteq Topics
        BY FS_Subset DEF VacatedRooms, VacatedUsers, Topics
      <3>3. r \in Seq(VacatedRooms) /\ u \in Seq(VacatedUsers)
        BY <3>1, <3>2, OrderTypes
      <3>4. r \in Seq(Topics) /\ u \in Seq(Topics)
        BY <3>2, <3>3
      <3>5. ASSUME NEW k \in {"room", "user"}
            PROVE  subReqs'[k] \in Seq(B!Request) /\ Len(subReqs'[k]) <= SubRequestBuffer
        <4>1. PICK s \in Seq(Topics) : s = IF k = "room" THEN r ELSE u
          BY <3>4
        <4>2. subReqs'[k] = B!Unsubscribe(k, s)
          BY <3>1, <4>1
        <4>3. QED BY <1>1, <4>2, UnsubscribeTypes
      <3>6. subReqs' \in [{"room", "user"} -> Seq(B!Request)]
        BY <3>1, <3>5
      <3>7. QED BY <1>1, <2>6, <3>5, <3>6 DEF HubMoves, B!BTypeOK
    <2>7. QED BY <2>1, <2>2, <2>3, <2>5, <2>6
  <1>5. QED BY <1>2, <1>4, <1>3 DEF RelayInv, RelayTypeOK, HandlerOK

LEMMA RelayStep ==
    ASSUME RelayInv, [Next]_vars
    PROVE  RelayInv'
  <1>1. CASE UNCHANGED vars
    BY <1>1, HubTypesKept DEF RelayInv, RelayTypeOK, HandlerOK, B!BTypeOK, vars, broker, ghosts
  <1>2. CASE Next
    BY <1>2, HubTypesKept, HandlersKeepTypes, RestKeepsTypes DEF Next, RelayInv
  <1>3. QED BY <1>1, <1>2

LEMMA RelayInit == Init => RelayInv
  <1> SUFFICES ASSUME Init PROVE RelayInv
    OBVIOUS
  <1>1. H!ValuesOK
    <2>1. H!Idle \in [pending : SUBSET Clients, payload : [topic : Topics \cup {NoTopic}, id : Nat]]
      BY DEF H!Idle, Error
    <2>2. \A S : <<>> \in Seq(S)
      OBVIOUS
    <2>3. H!Init
      BY DEF Init
    <2>4. QED BY <2>1, <2>2, <2>3 DEF H!Init, H!ValuesOK, H!ReadStates, H!WriteStates
  <1>2. RelayTypeOK
    BY RealtimeAssumption DEF Init, B!BInit, B!BTypeOK, RelayTypeOK
  <1>3. HandlerOK
    BY DEF Init, HandlerOK
  <1>4. QED BY <1>1, <1>2, <1>3 DEF RelayInv

(* The types of the handlers, the Broker and the Hub, and the room every    *)
(* join and publication in progress is about.                               *)
THEOREM RelayInvariant == Spec => []RelayInv
  BY RelayInit, RelayStep, PTL DEF Spec

(* The Hub inside the server behaves as the Hub specified on its own, where *)
(* any client, room event or user event may come at any time: the handlers  *)
(* and the Broker drive it only through its operations.                     *)
THEOREM ImplementsHub == Spec => H!Spec
  <1>1. Init => H!Init
    BY DEF Init
  <1>2. QED BY <1>1, StepIsHubStep, RelayInvariant, PTL DEF Spec, H!Spec

(* So what is proved of the Hub holds in the composition: its indexes agree, *)
(* and it never sends on, or closes, a closed channel.                       *)
THEOREM HubIsSafeHere ==
    Spec => [](H!RoomIndexConsistent /\ H!UserIndexConsistent /\ H!HubNeverPanics)
  <1>1. H!Spec => HP!Spec
    BY SameHub, SameStep, PTL DEF H!Spec, HP!Spec
  <1>2. HP!IndexInv => H!RoomIndexConsistent /\ H!UserIndexConsistent /\ H!HubNeverPanics
    BY DEF HP!IndexInv, HP!RoomIndexConsistent, HP!UserIndexConsistent, HP!HubNeverPanics,
           H!RoomIndexConsistent, H!UserIndexConsistent, H!HubNeverPanics
  <1>3. HP!Spec => []HP!IndexInv
    BY HP!IndexInvariant, HubAssumptionHolds, PTL
  <1>4. QED BY <1>1, <1>2, <1>3, ImplementsHub, PTL

-----------------------------------------------------------------------------
(* What the Broker answers EnsureSubscribed from is never stale, whichever   *)
(* Redis calls fail and whichever callers give up.                           *)
THEOREM SubscriptionsAreReal == Spec => []SubscribedIsReal
  <1>1. Init => SubscribedIsReal
    BY DEF Init, B!BInit, SubscribedIsReal, B!SubscribedIsReal
  <1>2. SubscribedIsReal /\ [Next]_vars => SubscribedIsReal'
    <2> SUFFICES ASSUME SubscribedIsReal, [Next]_vars PROVE SubscribedIsReal'
      OBVIOUS
    <2> USE DEF SubscribedIsReal, B!SubscribedIsReal
    <2>1. ASSUME NEW c \in Clients, HandlerStep(c) \/ EnsureTimesOut(c)
          PROVE  UNCHANGED <<subscribed, redisSubs>>
      BY <2>1 DEF HandlerStep, Connect, SubscribeUser, SubscribeUserTimesOut, StartReading, RoomJoin, RoomLeave,
           MessageSend, RoomJoined, RoomJoinFailed, Refuse, Announce, AnnounceFails, EnsureTimesOut, Send, broker,
           B!EnsureSubscribed, B!EnsureGivesUp, B!EnsureReturns, B!EnsureTimesOut, B!Publish
    <2>2. ASSUME \/ \E c \in Clients : ConnectionBreaks(c) \/ Pump(c)
                 \/ HubMoves \/ BrokerTakes \/ BrokerForwards
                 \/ ProcessDisconnect \/ ProcessDisconnectFails \/ \E t \in Topics : Remote(t)
          PROVE  UNCHANGED <<subscribed, redisSubs>>
      BY <2>2 DEF ConnectionBreaks, Pump, HubMoves, BrokerTakes, BrokerForwards, ProcessDisconnect,
           ProcessDisconnectFails, AnnounceDeparture, Remote, Send, broker, B!TakeMessage, B!HandOver, B!Publish
    <2>3. CASE BrokerApplies
      BY <2>3 DEF BrokerApplies, B!applySubRequest, B!ForgetTopic
    <2>4. CASE SubRequestFails
      BY <2>4 DEF SubRequestFails, B!SubRequestFails, B!ForgetTopic
    <2>5. CASE UNCHANGED vars
      BY <2>5 DEF vars, broker
    <2>6. QED BY <2>1, <2>2, <2>3, <2>4, <2>5 DEF Next
  <1>3. QED BY <1>1, <1>2, PTL DEF Spec

-----------------------------------------------------------------------------
(* The order of delivery.  An event travels from the stream of its Pub/Sub   *)
(* connection to the Broker's hand, the Hub's channel, the fan-out and the   *)
(* send queues; at each place it is older than every event of its kind in    *)
(* the places behind it.                                                     *)
KindOf(e) == TopicKind[e.topic]

BeforeStream(k, n) == n <= published /\ \A i \in 1..Len(stream[k]) : n < stream[k][i].id

BeforeHeld(k, n) ==
    BeforeStream(k, n) /\ (holding # <<>> /\ KindOf(holding[1]) = k => n < holding[1].id)

BeforeQueued(k, n) ==
    /\ BeforeHeld(k, n)
    /\ k = "room" => \A i \in 1..Len(broadcast) : n < broadcast[i].payload.id
    /\ k = "user" => \A i \in 1..Len(userBroadcast) : n < userBroadcast[i].payload.id

BeforeServed(c, k, n) ==
    /\ BeforeQueued(k, n)
    /\ c \in fanout.pending /\ KindOf(fanout.payload) = k => n < fanout.payload.id

StreamOrder ==
    \A k \in {"room", "user"} : \A i \in 1..Len(stream[k]) :
        /\ KindOf(stream[k][i]) = k /\ stream[k][i].id <= published
        /\ \A j \in 1..Len(stream[k]) : i < j => stream[k][i].id < stream[k][j].id

HeldOrder == holding # <<>> => BeforeStream(KindOf(holding[1]), holding[1].id)

(* One of the Hub's two event channels. *)
QueueOrder(q, k) ==
    \A i \in 1..Len(q) :
        /\ q[i].payload \in B!Event /\ KindOf(q[i].payload) = k
        /\ BeforeHeld(k, q[i].payload.id)
        /\ \A j \in 1..Len(q) : i < j => q[i].payload.id < q[j].payload.id

FanoutOrder ==
    fanout.pending # {} => fanout.payload \in B!Event /\ BeforeQueued(KindOf(fanout.payload), fanout.payload.id)

DeliveredOrder ==
    /\ delivered \in [Clients -> Seq(B!Event)]
    /\ \A c \in Clients : \A i \in 1..Len(delivered[c]) :
          /\ BeforeServed(c, KindOf(delivered[c][i]), delivered[c][i].id)
          /\ \A j \in 1..Len(delivered[c]) :
                i < j /\ KindOf(delivered[c][i]) = KindOf(delivered[c][j]) =>
                   delivered[c][i].id < delivered[c][j].id

OrderInv ==
    /\ StreamOrder /\ HeldOrder /\ QueueOrder(broadcast, "room") /\ QueueOrder(userBroadcast, "user")
    /\ FanoutOrder /\ DeliveredOrder

LEMMA StreamTypes ==
    ASSUME RelayInv, NEW k \in {"room", "user"}
    PROVE  /\ stream[k] \in Seq(B!Event) /\ Len(stream[k]) \in Nat
           /\ \A i \in 1..Len(stream[k]) :
                 stream[k][i] \in B!Event /\ stream[k][i].topic \in Topics /\ stream[k][i].id \in Nat
           /\ published \in Nat
  <1>1. stream[k] \in Seq(B!Event) /\ published \in Nat
    BY DEF RelayInv, RelayTypeOK, B!BTypeOK
  <1>2. ASSUME NEW i \in 1..Len(stream[k])
        PROVE  stream[k][i] \in B!Event /\ stream[k][i].topic \in Topics /\ stream[k][i].id \in Nat
    <2>1. stream[k][i] \in B!Event
      BY <1>1
    <2>2. QED BY <2>1 DEF B!Event
  <1>3. QED BY <1>1, <1>2

(* An event travels no further than the stream. *)
LEMMA StreamGrows ==
    ASSUME RelayInv, OrderInv, UNCHANGED <<holding, broadcast, userBroadcast, fanout, delivered>>,
           StreamOrder',
           \A k \in {"room", "user"}, n \in Nat : BeforeStream(k, n) => BeforeStream(k, n)'
    PROVE  OrderInv'
  <1>1. \A k \in {"room", "user"}, n \in Nat : BeforeHeld(k, n) => BeforeHeld(k, n)'
    BY DEF BeforeHeld
  <1>2. \A k \in {"room", "user"}, n \in Nat : BeforeQueued(k, n) => BeforeQueued(k, n)'
    BY <1>1 DEF BeforeQueued
  <1>3. \A c \in Clients, k \in {"room", "user"}, n \in Nat : BeforeServed(c, k, n) => BeforeServed(c, k, n)'
    BY <1>2 DEF BeforeServed
  <1>4. \A e \in B!Event : KindOf(e) \in {"room", "user"} /\ e.id \in Nat
    BY TopicKinds DEF KindOf, B!Event
  <1>5. QueueOrder(broadcast, "room")' /\ QueueOrder(userBroadcast, "user")'
    BY <1>1, <1>4 DEF OrderInv, QueueOrder
  <1>6. FanoutOrder'
    BY <1>2, <1>4 DEF OrderInv, FanoutOrder
  <1>7. DeliveredOrder'
    BY <1>3, <1>4 DEF OrderInv, DeliveredOrder
  <1>8. HeldOrder'
    BY <1>4, HeldEvent DEF OrderInv, HeldOrder, B!Free
  <1>9. QED BY <1>5, <1>6, <1>7, <1>8 DEF OrderInv

(* m events join the stream of one kind, numbered after all the others. *)
LEMMA StreamExtended ==
    ASSUME RelayInv, OrderInv, NEW l \in {"room", "user"}, NEW m \in Nat,
           Len(stream'[l]) = Len(stream[l]) + m,
           \A i \in 1..Len(stream[l]) : stream'[l][i] = stream[l][i],
           \A i \in 1..m : /\ stream'[l][Len(stream[l]) + i].id = published + i
                           /\ KindOf(stream'[l][Len(stream[l]) + i]) = l,
           \A k \in {"room", "user"} : k # l => stream'[k] = stream[k],
           published' \in Nat, published + m <= published',
           UNCHANGED <<holding, broadcast, userBroadcast, fanout, delivered>>
    PROVE  OrderInv'
  <1>1. published \in Nat /\ published <= published'
    <2>1. published \in Nat
      BY DEF RelayInv, RelayTypeOK
    <2>2. QED BY <2>1
  <1>2. Len(stream[l]) \in Nat
    BY StreamTypes
  <1>3. ASSUME NEW i \in 1..Len(stream'[l])
        PROVE  \/ i \in 1..Len(stream[l]) /\ stream'[l][i] = stream[l][i]
               \/ \E x \in 1..m : /\ i = Len(stream[l]) + x /\ stream'[l][i].id = published + x
                                  /\ KindOf(stream'[l][i]) = l
    <2>1. CASE i <= Len(stream[l])
      BY <1>2, <2>1
    <2>2. CASE i > Len(stream[l])
      <3>0. i \in Int /\ i <= Len(stream[l]) + m
        BY <1>2
      <3>1. i - Len(stream[l]) \in 1..m /\ i = Len(stream[l]) + (i - Len(stream[l]))
        BY <1>2, <2>2, <3>0
      <3>2. PICK x \in 1..m : i = Len(stream[l]) + x
        BY <3>1, Zenon
      <3>3. stream'[l][i].id = published + x /\ KindOf(stream'[l][i]) = l
        BY <3>2
      <3>4. QED BY <3>2, <3>3
    <2>3. QED BY <1>2, <2>1, <2>2
  <1>4. ASSUME NEW i \in 1..Len(stream[l])
        PROVE  KindOf(stream[l][i]) = l /\ stream[l][i].id <= published /\ stream[l][i].id \in Nat
    BY StreamTypes DEF OrderInv, StreamOrder
  <1>5. ASSUME NEW i \in 1..Len(stream'[l])
        PROVE  KindOf(stream'[l][i]) = l /\ stream'[l][i].id <= published'
    <2>1. CASE i \in 1..Len(stream[l]) /\ stream'[l][i] = stream[l][i]
      BY <1>1, <1>4, <2>1
    <2>2. ASSUME NEW x \in 1..m, stream'[l][i].id = published + x, KindOf(stream'[l][i]) = l
          PROVE  KindOf(stream'[l][i]) = l /\ stream'[l][i].id <= published'
      BY <1>1, <2>2
    <2>3. QED BY <1>3, <2>1, <2>2
  <1>6. ASSUME NEW i \in 1..Len(stream'[l]), NEW j \in 1..Len(stream'[l]), i < j
        PROVE  stream'[l][i].id < stream'[l][j].id
    <2>1. CASE j \in 1..Len(stream[l]) /\ stream'[l][j] = stream[l][j]
      <3>1. i \in 1..Len(stream[l]) /\ stream'[l][i] = stream[l][i]
        BY <1>2, <1>6, <2>1
      <3>2. QED BY <1>6, <2>1, <3>1 DEF OrderInv, StreamOrder
    <2>2. ASSUME NEW y \in 1..m, j = Len(stream[l]) + y, stream'[l][j].id = published + y
          PROVE  stream'[l][i].id < stream'[l][j].id
      <3>1. CASE i \in 1..Len(stream[l]) /\ stream'[l][i] = stream[l][i]
        BY <1>1, <1>2, <1>4, <2>2, <3>1
      <3>2. ASSUME NEW x \in 1..m, i = Len(stream[l]) + x, stream'[l][i].id = published + x
            PROVE  stream'[l][i].id < stream'[l][j].id
        <4>1. x < y
          BY <1>2, <1>6, <2>2, <3>2
        <4>2. published + x < published + y
          BY <1>1, <4>1
        <4>3. QED BY <2>2, <3>2, <4>2
      <3>3. QED BY <1>3, <3>1, <3>2
    <2>3. QED BY <1>3, <2>1, <2>2
  <1>7. StreamOrder'
    <2>1. ASSUME NEW k \in {"room", "user"}, k # l, NEW i \in 1..Len(stream[k])
          PROVE  stream[k][i].id <= published' /\ KindOf(stream[k][i]) = k
      <3>1. stream[k][i].id <= published /\ KindOf(stream[k][i]) = k /\ stream[k][i].id \in Nat
        BY StreamTypes DEF OrderInv, StreamOrder
      <3>2. QED BY <1>1, <3>1
    <2>2. ASSUME NEW k \in {"room", "user"}, NEW i \in 1..Len(stream'[k])
          PROVE  /\ KindOf(stream'[k][i]) = k /\ stream'[k][i].id <= published'
                 /\ \A j \in 1..Len(stream'[k]) : i < j => stream'[k][i].id < stream'[k][j].id
      <3>1. CASE k = l
        BY <1>5, <1>6, <3>1
      <3>2. CASE k # l
        BY <2>1, <3>2 DEF OrderInv, StreamOrder
      <3>3. QED BY <3>1, <3>2
    <2>3. QED BY <2>2 DEF StreamOrder, KindOf
  <1>8. ASSUME NEW k \in {"room", "user"}, NEW n \in Nat, BeforeStream(k, n) PROVE BeforeStream(k, n)'
    <2>1. n <= published' /\ n <= published
      BY <1>1, <1>8 DEF BeforeStream
    <2>2. CASE k # l
      BY <1>8, <2>1, <2>2 DEF BeforeStream
    <2>3. CASE k = l
      <3>1. ASSUME NEW i \in 1..Len(stream'[l]) PROVE n < stream'[l][i].id
        <4>1. CASE i \in 1..Len(stream[l]) /\ stream'[l][i] = stream[l][i]
          BY <1>8, <2>3, <4>1 DEF BeforeStream
        <4>2. ASSUME NEW x \in 1..m, stream'[l][i].id = published + x PROVE n < stream'[l][i].id
          <5>1. n < published + x
            BY <1>1, <2>1
          <5>2. QED BY <4>2, <5>1
        <4>3. QED BY <1>3, <4>1, <4>2
      <3>2. QED BY <2>1, <2>3, <3>1 DEF BeforeStream
    <2>4. QED BY <2>2, <2>3
  <1>9. QED BY <1>7, <1>8, StreamGrows

(* A publication. *)
LEMMA SendKeepsOrder ==
    ASSUME RelayInv, OrderInv, NEW t \in Topics, Send(t),
           UNCHANGED <<broadcast, userBroadcast, fanout, delivered>>
    PROVE  OrderInv'
  <1>1. /\ published \in Nat /\ published' = published + 1 /\ holding' = holding
        /\ stream' = B!Published(t, published + 1)
    BY DEF Send, B!Publish, RelayInv, RelayTypeOK
  <1>2. PICK l \in {"room", "user"} : l = TopicKind[t]
    BY TopicKinds
  <1>3. stream[l] \in Seq(B!Event) /\ Len(stream[l]) \in Nat
    BY StreamTypes
  <1>4. CASE t \notin redisSubs
    <2>1. stream' = stream /\ published' \in Nat /\ published + 0 <= published' /\ Len(stream[l]) = Len(stream[l]) + 0
      BY <1>1, <1>3, <1>4 DEF B!Published
    <2>2. ASSUME NEW i \in 1..0 PROVE FALSE
      OBVIOUS
    <2>3. QED BY <1>1, <2>1, <2>2, StreamExtended
  <1>5. CASE t \in redisSubs
    <2>1. PICK e \in B!Event : /\ e.id = published + 1 /\ KindOf(e) = l
                               /\ stream' = [stream EXCEPT ![l] = Append(stream[l], e)]
      <3>1. [topic |-> t, id |-> published + 1] \in B!Event
        BY <1>1 DEF B!Event
      <3>2. QED BY <1>1, <1>2, <1>5, <3>1 DEF B!Published, KindOf
    <2>2. /\ stream'[l] = Append(stream[l], e)
          /\ \A k \in {"room", "user"} : k # l => stream'[k] = stream[k]
      BY <2>1 DEF RelayInv, RelayTypeOK, B!BTypeOK
    <2>3. /\ Len(stream'[l]) = Len(stream[l]) + 1
          /\ \A i \in 1..Len(stream[l]) : stream'[l][i] = stream[l][i]
          /\ \A i \in 1..1 : stream'[l][Len(stream[l]) + i] = e
      BY <1>3, <2>2, Appended
    <2>4. \A i \in 1..1 : stream'[l][Len(stream[l]) + i].id = published + i
                          /\ KindOf(stream'[l][Len(stream[l]) + i]) = l
      BY <2>1, <2>3
    <2>5. published' \in Nat /\ published + 1 <= published'
      BY <1>1
    <2>6. QED BY <1>1, <2>2, <2>3, <2>4, <2>5, StreamExtended
  <1>6. QED BY <1>4, <1>5

LEMMA DeparturesKeepOrder ==
    ASSUME RelayInv, OrderInv, NEW left \in SUBSET Rooms, AnnounceDeparture(left)
    PROVE  OrderInv'
  <1>1. PICK s \in Seq(Rooms) :
           /\ stream' = [stream EXCEPT !["room"] =
                           @ \o [i \in 1..Len(s) |-> [topic |-> s[i], id |-> published + i]]]
           /\ published' \in Nat /\ published + Len(s) <= published' /\ Len(s) \in Nat
    BY Departures
  <1>2. UNCHANGED <<holding, broadcast, userBroadcast, fanout, delivered>>
    BY DEF AnnounceDeparture, H!TakeDisconnect, H!commands
  <1> DEFINE f == [i \in 1..Len(s) |-> [topic |-> s[i], id |-> published + i]]
  <1>3. published \in Nat /\ stream["room"] \in Seq(B!Event)
    BY StreamTypes
  <1>4. f \in [1..Len(s) -> B!Event] /\ \A i \in 1..Len(s) : f[i].id = published + i /\ KindOf(f[i]) = "room"
    <2>1. ASSUME NEW i \in 1..Len(s) PROVE s[i] \in Topics /\ s[i] \in Rooms /\ published + i \in Nat
      BY <1>1, <1>3 DEF Topics
    <2>2. QED BY <2>1 DEF B!Event, KindOf, TopicKind
  <1>5. stream' = [stream EXCEPT !["room"] = stream["room"] \o f]
    BY <1>1
  <1> HIDE DEF f
  <1>6. stream'["room"] = stream["room"] \o f /\ \A k \in {"room", "user"} : k # "room" => stream'[k] = stream[k]
    BY <1>5 DEF RelayInv, RelayTypeOK, B!BTypeOK
  <1>7. /\ Len(stream'["room"]) = Len(stream["room"]) + Len(s)
        /\ \A i \in 1..Len(stream["room"]) : stream'["room"][i] = stream["room"][i]
        /\ \A i \in 1..Len(s) : stream'["room"][Len(stream["room"]) + i] = f[i]
    BY <1>1, <1>3, <1>4, <1>6, Joined
  <1>8. \A i \in 1..Len(s) : /\ stream'["room"][Len(stream["room"]) + i].id = published + i
                             /\ KindOf(stream'["room"][Len(stream["room"]) + i]) = "room"
    BY <1>4, <1>7
  <1>9. QED BY <1>1, <1>2, <1>6, <1>7, <1>8, StreamExtended

LEMMA EventKinds == \A e \in B!Event : KindOf(e) \in {"room", "user"} /\ e.id \in Nat /\ e.topic \in Topics
  BY TopicKinds DEF KindOf, B!Event

(* Run takes the oldest event of a stream. *)
LEMMA TakeKeepsOrder ==
    ASSUME RelayInv, OrderInv, BrokerTakes
    PROVE  OrderInv'
  <1>1. PICK l \in {"room", "user"} :
           /\ holding = <<>> /\ stream[l] # <<>> /\ holding' = <<Head(stream[l])>>
           /\ stream' = [stream EXCEPT ![l] = Tail(stream[l])]
    BY DEF BrokerTakes, B!TakeMessage, B!Free
  <1>2. UNCHANGED <<broadcast, userBroadcast, fanout, delivered, published>>
    BY DEF BrokerTakes, hub, ghosts
  <1>3. PICK e \in B!Event : e = stream[l][1] /\ holding' = <<e>> /\ KindOf(e) = l /\ e.id <= published
    BY <1>1, Taken, StreamTypes DEF OrderInv, StreamOrder
  <1>4. /\ Len(stream[l]) \in Nat /\ Len(stream'[l]) = Len(stream[l]) - 1 /\ Len(stream[l]) >= 1
        /\ \A i \in 1..Len(stream'[l]) : stream'[l][i] = stream[l][i + 1]
    <2>1. stream'[l] = Tail(stream[l]) /\ stream[l] \in Seq(B!Event)
      BY <1>1, StreamTypes DEF RelayInv, RelayTypeOK, B!BTypeOK
    <2>2. QED BY <1>1, <2>1, Taken
  <1>5. \A k \in {"room", "user"} : k # l => stream'[k] = stream[k]
    BY <1>1 DEF RelayInv, RelayTypeOK, B!BTypeOK
  <1>6. \A i \in 1..Len(stream'[l]) : i + 1 \in 1..Len(stream[l])
    BY <1>4
  <1>7. StreamOrder'
    <2>1. ASSUME NEW k \in {"room", "user"}, NEW i \in 1..Len(stream'[k])
          PROVE  /\ KindOf(stream'[k][i]) = k /\ stream'[k][i].id <= published
                 /\ \A j \in 1..Len(stream'[k]) : i < j => stream'[k][i].id < stream'[k][j].id
      <3>1. CASE k = l
        <4>1. i + 1 \in 1..Len(stream[l]) /\ stream'[l][i] = stream[l][i + 1]
          BY <1>4, <1>6, <3>1
        <4>2. KindOf(stream'[l][i]) = l /\ stream'[l][i].id <= published
          BY <4>1 DEF OrderInv, StreamOrder
        <4>3. ASSUME NEW j \in 1..Len(stream'[l]), i < j PROVE stream'[l][i].id < stream'[l][j].id
          <5>1. j + 1 \in 1..Len(stream[l]) /\ stream'[l][j] = stream[l][j + 1] /\ i + 1 < j + 1
            BY <1>4, <1>6, <4>3
          <5>2. QED BY <4>1, <5>1 DEF OrderInv, StreamOrder
        <4>4. QED BY <3>1, <4>2, <4>3
      <3>2. CASE k # l
        BY <1>5, <3>2 DEF OrderInv, StreamOrder
      <3>3. QED BY <3>1, <3>2
    <2>2. QED BY <1>2, <2>1 DEF StreamOrder, KindOf
  <1>8. \A i \in 1..Len(stream'[l]) : e.id < stream'[l][i].id
    BY <1>3, <1>4, <1>6 DEF OrderInv, StreamOrder
  <1>9. HeldOrder'
    BY <1>2, <1>3, <1>8 DEF HeldOrder, BeforeStream, KindOf
  <1>10. ASSUME NEW k \in {"room", "user"}, NEW n \in Nat, BeforeHeld(k, n) PROVE BeforeHeld(k, n)'
    <2>1. n <= published /\ \A i \in 1..Len(stream[k]) : n < stream[k][i].id
      BY <1>10 DEF BeforeHeld, BeforeStream
    <2>2. \A i \in 1..Len(stream'[k]) : n < stream'[k][i].id
      BY <1>4, <1>5, <1>6, <2>1
    <2>3. k = l => n < e.id
      BY <1>3, <1>4, <2>1
    <2>4. QED BY <1>2, <1>3, <2>1, <2>2, <2>3 DEF BeforeHeld, BeforeStream, KindOf
  <1>11. \A k \in {"room", "user"}, n \in Nat : BeforeQueued(k, n) => BeforeQueued(k, n)'
    BY <1>2, <1>10 DEF BeforeQueued
  <1>12. QueueOrder(broadcast, "room")' /\ QueueOrder(userBroadcast, "user")'
    BY <1>2, <1>10, EventKinds DEF OrderInv, QueueOrder
  <1>13. FanoutOrder'
    BY <1>2, <1>11, EventKinds DEF OrderInv, FanoutOrder
  <1>14. DeliveredOrder'
    BY <1>2, <1>11, EventKinds DEF OrderInv, DeliveredOrder, BeforeServed
  <1>15. QED BY <1>7, <1>9, <1>12, <1>13, <1>14 DEF OrderInv

(* The event in hand joins the end of the Hub's channel for its kind, or is  *)
(* dropped when the Hub has stopped.                                         *)
LEMMA ForwardKeepsOrder ==
    ASSUME RelayInv, OrderInv, BrokerForwards
    PROVE  OrderInv'
  <1>1. PICK e \in B!Event : e = holding[1] /\ holding # <<>> /\ e.topic \in Topics
    BY HeldEvent DEF BrokerForwards, B!HandOver, B!Free
  <1>2. holding' = <<>> /\ UNCHANGED <<stream, published, fanout, delivered>>
    BY DEF BrokerForwards, B!HandOver, H!Broadcast, H!BroadcastToUser, ghosts
  <1>3. BeforeStream(KindOf(e), e.id)
    BY <1>1 DEF OrderInv, HeldOrder
  <1>4. \A k \in {"room", "user"}, n \in Nat : BeforeStream(k, n) => BeforeHeld(k, n)'
    BY <1>2 DEF BeforeStream, BeforeHeld
  <1>5. StreamOrder' /\ HeldOrder'
    BY <1>2 DEF OrderInv, StreamOrder, HeldOrder, KindOf
  <1>6. broadcast \in Seq(H!RoomEvent) /\ userBroadcast \in Seq(H!UserEvent)
    BY DEF RelayInv, H!ValuesOK
  <1>7. /\ \/ broadcast' = broadcast
           \/ /\ KindOf(e) = "room" /\ Len(broadcast') = Len(broadcast) + 1
              /\ broadcast'[Len(broadcast) + 1].payload = e
              /\ \A i \in 1..Len(broadcast) : broadcast'[i] = broadcast[i]
        /\ \/ userBroadcast' = userBroadcast
           \/ /\ KindOf(e) = "user" /\ Len(userBroadcast') = Len(userBroadcast) + 1
              /\ userBroadcast'[Len(userBroadcast) + 1].payload = e
              /\ \A i \in 1..Len(userBroadcast) : userBroadcast'[i] = userBroadcast[i]
    <2>1. CASE e.topic \in Rooms
      <3>1. H!Broadcast(e.topic, e) /\ KindOf(e) = "room"
        BY <1>1, <2>1 DEF BrokerForwards, KindOf, TopicKind
      <3>2. [room |-> e.topic, payload |-> e] \in H!RoomEvent
        BY <1>1, <2>1 DEF H!RoomEvent, B!Event
      <3>3. userBroadcast' = userBroadcast /\ (broadcast' = broadcast
              \/ broadcast' = Append(broadcast, [room |-> e.topic, payload |-> e]))
        BY <3>1 DEF H!Broadcast, H!Enqueue
      <3>4. QED BY <1>6, <3>1, <3>2, <3>3, Appended
    <2>2. CASE e.topic \notin Rooms
      <3>1. H!BroadcastToUser(e.topic, e) /\ KindOf(e) = "user"
        BY <1>1, <2>2 DEF BrokerForwards, KindOf, TopicKind
      <3>2. [user |-> e.topic, payload |-> e] \in H!UserEvent
        BY <1>1, <2>2 DEF H!UserEvent, B!Event, Topics
      <3>3. broadcast' = broadcast /\ (userBroadcast' = userBroadcast
              \/ userBroadcast' = Append(userBroadcast, [user |-> e.topic, payload |-> e]))
        BY <3>1 DEF H!BroadcastToUser, H!Enqueue
      <3>4. QED BY <1>6, <3>1, <3>2, <3>3, Appended
    <2>3. QED BY <2>1, <2>2
  <1>8. ASSUME NEW q, NEW p, NEW k \in {"room", "user"}, QueueOrder(q, k), Len(q) \in Nat,
               \/ p = q
               \/ /\ KindOf(e) = k /\ Len(p) = Len(q) + 1 /\ p[Len(q) + 1].payload = e
                  /\ \A i \in 1..Len(q) : p[i] = q[i]
        PROVE  \A i \in 1..Len(p) :
                  /\ p[i].payload \in B!Event /\ KindOf(p[i].payload) = k
                  /\ BeforeStream(k, p[i].payload.id)
                  /\ \A j \in 1..Len(p) : i < j => p[i].payload.id < p[j].payload.id
    <2>1. \A i \in 1..Len(q) :
             /\ q[i].payload \in B!Event /\ KindOf(q[i].payload) = k /\ BeforeStream(k, q[i].payload.id)
             /\ KindOf(e) = k => q[i].payload.id < e.id
             /\ \A j \in 1..Len(q) : i < j => q[i].payload.id < q[j].payload.id
      BY <1>1, <1>8 DEF QueueOrder, BeforeHeld
    <2>2. CASE p = q
      BY <2>1, <2>2
    <2>3. CASE /\ KindOf(e) = k /\ Len(p) = Len(q) + 1 /\ p[Len(q) + 1].payload = e
               /\ \A i \in 1..Len(q) : p[i] = q[i]
      <3>1. \A i \in 1..Len(p) : i \in 1..Len(q) \/ i = Len(q) + 1
        BY <1>8, <2>3
      <3>2. ASSUME NEW i \in 1..Len(p)
            PROVE p[i].payload \in B!Event /\ KindOf(p[i].payload) = k /\ BeforeStream(k, p[i].payload.id)
        BY <1>1, <1>3, <2>1, <2>3, <3>1
      <3>3. ASSUME NEW i \in 1..Len(p), NEW j \in 1..Len(p), i < j
            PROVE  p[i].payload.id < p[j].payload.id
        <4>1. i \in 1..Len(q)
          BY <1>8, <2>3, <3>3
        <4>2. QED BY <2>1, <2>3, <3>1, <3>3, <4>1
      <3>4. QED BY <3>2, <3>3
    <2>4. QED BY <1>8, <2>2, <2>3
  <1>9. QueueOrder(broadcast, "room")'
    <2>1. Len(broadcast) \in Nat
      BY <1>6
    <2>2. \A i \in 1..Len(broadcast') :
             /\ broadcast'[i].payload \in B!Event /\ KindOf(broadcast'[i].payload) = "room"
             /\ BeforeStream("room", broadcast'[i].payload.id)
             /\ \A j \in 1..Len(broadcast') : i < j => broadcast'[i].payload.id < broadcast'[j].payload.id
      BY <1>7, <1>8, <2>1 DEF OrderInv
    <2>3. QED BY <1>2, <2>2 DEF QueueOrder, BeforeHeld, BeforeStream, KindOf
  <1>10. QueueOrder(userBroadcast, "user")'
    <2>1. Len(userBroadcast) \in Nat
      BY <1>6
    <2>2. \A i \in 1..Len(userBroadcast') :
             /\ userBroadcast'[i].payload \in B!Event /\ KindOf(userBroadcast'[i].payload) = "user"
             /\ BeforeStream("user", userBroadcast'[i].payload.id)
             /\ \A j \in 1..Len(userBroadcast') :
                    i < j => userBroadcast'[i].payload.id < userBroadcast'[j].payload.id
      BY <1>7, <1>8, <2>1 DEF OrderInv
    <2>3. QED BY <1>2, <2>2 DEF QueueOrder, BeforeHeld, BeforeStream, KindOf
  <1>11. ASSUME NEW k \in {"room", "user"}, NEW n \in Nat, BeforeQueued(k, n) PROVE BeforeQueued(k, n)'
    <2>1. BeforeHeld(k, n)' /\ (KindOf(e) = k => n < e.id)
      BY <1>1, <1>4, <1>11 DEF BeforeQueued, BeforeHeld
    <2>2. k = "room" => \A i \in 1..Len(broadcast') : n < broadcast'[i].payload.id
      <3>1. Len(broadcast) \in Nat
        BY <1>6
      <3>2. QED BY <1>7, <1>11, <2>1, <3>1 DEF BeforeQueued
    <2>3. k = "user" => \A i \in 1..Len(userBroadcast') : n < userBroadcast'[i].payload.id
      <3>1. Len(userBroadcast) \in Nat
        BY <1>6
      <3>2. QED BY <1>7, <1>11, <2>1, <3>1 DEF BeforeQueued
    <2>4. QED BY <2>1, <2>2, <2>3 DEF BeforeQueued
  <1>12. FanoutOrder'
    BY <1>2, <1>11, EventKinds DEF OrderInv, FanoutOrder
  <1>13. DeliveredOrder'
    BY <1>2, <1>11, EventKinds DEF OrderInv, DeliveredOrder, BeforeServed
  <1>14. QED BY <1>5, <1>9, <1>10, <1>12, <1>13 DEF OrderInv

(* The event at the head of a channel of the Hub is older than the rest. *)
LEMMA HeadOrder ==
    ASSUME NEW S, NEW q \in Seq(S), q # <<>>, NEW k \in {"room", "user"}, QueueOrder(q, k)
    PROVE  /\ Head(q).payload \in B!Event /\ KindOf(Head(q).payload) = k
           /\ BeforeHeld(k, Head(q).payload.id)
           /\ QueueOrder(Tail(q), k)
           /\ \A i \in 1..Len(Tail(q)) : Head(q).payload.id < Tail(q)[i].payload.id
           /\ \A n \in Nat : (\A i \in 1..Len(q) : n < q[i].payload.id) =>
                 /\ n < Head(q).payload.id
                 /\ \A i \in 1..Len(Tail(q)) : n < Tail(q)[i].payload.id
  <1>1. /\ Head(q) = q[1] /\ 1 \in 1..Len(q) /\ Len(q) \in Nat
        /\ Len(Tail(q)) = Len(q) - 1
        /\ \A i \in 1..Len(Tail(q)) : Tail(q)[i] = q[i + 1]
    BY Taken
  <1>2. \A i \in 1..Len(Tail(q)) : i + 1 \in 1..Len(q) /\ 1 < i + 1
    BY <1>1
  <1>3. ASSUME NEW i \in 1..Len(Tail(q))
        PROVE  /\ Tail(q)[i].payload \in B!Event /\ KindOf(Tail(q)[i].payload) = k
               /\ BeforeHeld(k, Tail(q)[i].payload.id)
               /\ \A j \in 1..Len(Tail(q)) : i < j => Tail(q)[i].payload.id < Tail(q)[j].payload.id
    <2>1. /\ Tail(q)[i].payload \in B!Event /\ KindOf(Tail(q)[i].payload) = k
          /\ BeforeHeld(k, Tail(q)[i].payload.id)
      BY <1>1, <1>2 DEF QueueOrder
    <2>2. ASSUME NEW j \in 1..Len(Tail(q)), i < j PROVE Tail(q)[i].payload.id < Tail(q)[j].payload.id
      <3>1. i + 1 \in 1..Len(q) /\ j + 1 \in 1..Len(q) /\ i + 1 < j + 1
        BY <1>1, <1>2, <2>2
      <3>2. QED BY <1>1, <3>1 DEF QueueOrder
    <2>3. QED BY <2>1, <2>2
  <1>4. QueueOrder(Tail(q), k)
    BY <1>3 DEF QueueOrder
  <1>5. QED BY <1>1, <1>2, <1>4 DEF QueueOrder

(* A delivery starts: the head of a channel goes to the connections of its   *)
(* room or user.                                                             *)
LEMMA FanoutStarts ==
    ASSUME RelayInv, OrderInv, NEW k \in {"room", "user"}, NEW e \in B!Event, KindOf(e) = k,
           fanout.pending = {}, fanout'.payload = e, BeforeQueued(k, e.id)',
           \A l \in {"room", "user"}, n \in Nat :
              BeforeQueued(l, n) => BeforeQueued(l, n)' /\ (l = k => n < e.id),
           QueueOrder(broadcast, "room")', QueueOrder(userBroadcast, "user")',
           UNCHANGED <<stream, holding, published, delivered>>
    PROVE  OrderInv'
  <1>1. StreamOrder' /\ HeldOrder'
    BY DEF OrderInv, StreamOrder, HeldOrder, BeforeStream, KindOf
  <1>2. FanoutOrder'
    BY DEF FanoutOrder, KindOf
  <1>3. ASSUME NEW c \in Clients, NEW i \in 1..Len(delivered[c])
        PROVE  BeforeServed(c, KindOf(delivered[c][i]), delivered[c][i].id)'
    <2>1. BeforeServed(c, KindOf(delivered[c][i]), delivered[c][i].id)
      BY DEF OrderInv, DeliveredOrder
    <2>2. delivered[c][i] \in B!Event
      BY DEF OrderInv, DeliveredOrder
    <2>3. PICK l \in {"room", "user"}, n \in Nat : l = KindOf(delivered[c][i]) /\ n = delivered[c][i].id
      BY <2>2, EventKinds
    <2>4. BeforeQueued(l, n)' /\ (l = k => n < e.id)
      BY <2>1, <2>3 DEF BeforeServed
    <2>5. BeforeServed(c, l, n)'
      BY <2>4 DEF BeforeServed, KindOf
    <2>6. l = KindOf(delivered[c][i])' /\ n = delivered'[c][i].id
      BY <2>3 DEF KindOf
    <2>7. QED BY <2>5, <2>6
  <1>4. DeliveredOrder'
    BY <1>3 DEF OrderInv, DeliveredOrder, KindOf
  <1>5. QED BY <1>1, <1>2, <1>4 DEF OrderInv

LEMMA UnsentIsUndelivered ==
    ASSUME RelayInv, OrderInv, HubMoves, UNCHANGED send
    PROVE  UNCHANGED delivered
  <1>1. \A c \in Clients : Len(send[c]) \in Nat
    BY DEF RelayInv, H!ValuesOK
  <1>2. \A c \in Clients : ~(Len(send'[c]) > Len(send[c]))
    BY <1>1
  <1>3. delivered' = [c \in Clients |-> delivered[c]]
    BY <1>2 DEF HubMoves
  <1>4. QED BY <1>3 DEF OrderInv, DeliveredOrder

LEMMA BroadcastKeepsOrder ==
    ASSUME RelayInv, OrderInv, HubMoves, H!HubBroadcast
    PROVE  OrderInv'
  <1>1. /\ UNCHANGED <<stream, holding, published, delivered, userBroadcast>>
        /\ broadcast # <<>> /\ broadcast' = Tail(broadcast) /\ fanout.pending = {}
        /\ fanout'.payload = Head(broadcast).payload
    BY UnsentIsUndelivered DEF HubMoves, H!HubBroadcast, H!Selecting
  <1>2. broadcast \in Seq(H!RoomEvent) /\ QueueOrder(broadcast, "room")
    BY DEF RelayInv, H!ValuesOK, OrderInv
  <1>3. PICK e \in B!Event : e = Head(broadcast).payload /\ KindOf(e) = "room" /\ BeforeHeld("room", e.id)
    BY <1>1, <1>2, HeadOrder
  <1>4. /\ QueueOrder(Tail(broadcast), "room")
        /\ \A i \in 1..Len(broadcast') : e.id < broadcast'[i].payload.id
        /\ \A n \in Nat : (\A i \in 1..Len(broadcast) : n < broadcast[i].payload.id) =>
              n < e.id /\ \A i \in 1..Len(broadcast') : n < broadcast'[i].payload.id
    BY <1>1, <1>2, <1>3, HeadOrder
  <1>5. \A k \in {"room", "user"}, n \in Nat : BeforeHeld(k, n) => BeforeHeld(k, n)'
    BY <1>1 DEF BeforeHeld, BeforeStream, KindOf
  <1>6. QueueOrder(broadcast, "room")'
    BY <1>1, <1>4 DEF QueueOrder, BeforeHeld, BeforeStream, KindOf
  <1>7. QueueOrder(userBroadcast, "user")'
    BY <1>1 DEF OrderInv, QueueOrder, BeforeHeld, BeforeStream, KindOf
  <1>8. e.id \in Nat /\ BeforeHeld("room", e.id)'
    BY <1>3, <1>5, EventKinds
  <1>9. BeforeQueued("room", e.id)'
    BY <1>4, <1>8 DEF BeforeQueued
  <1>10. \A l \in {"room", "user"}, n \in Nat :
            BeforeQueued(l, n) => BeforeQueued(l, n)' /\ (l = "room" => n < e.id)
    BY <1>1, <1>4, <1>5 DEF BeforeQueued
  <1>11. QED BY <1>1, <1>3, <1>6, <1>7, <1>9, <1>10, FanoutStarts

LEMMA UserBroadcastKeepsOrder ==
    ASSUME RelayInv, OrderInv, HubMoves, H!HubUserBroadcast
    PROVE  OrderInv'
  <1>1. /\ UNCHANGED <<stream, holding, published, delivered, broadcast>>
        /\ userBroadcast # <<>> /\ userBroadcast' = Tail(userBroadcast) /\ fanout.pending = {}
        /\ fanout'.payload = Head(userBroadcast).payload
    BY UnsentIsUndelivered DEF HubMoves, H!HubUserBroadcast, H!Selecting
  <1>2. userBroadcast \in Seq(H!UserEvent) /\ QueueOrder(userBroadcast, "user")
    BY DEF RelayInv, H!ValuesOK, OrderInv
  <1>3. PICK e \in B!Event :
           e = Head(userBroadcast).payload /\ KindOf(e) = "user" /\ BeforeHeld("user", e.id)
    BY <1>1, <1>2, HeadOrder
  <1>4. /\ QueueOrder(Tail(userBroadcast), "user")
        /\ \A i \in 1..Len(userBroadcast') : e.id < userBroadcast'[i].payload.id
        /\ \A n \in Nat : (\A i \in 1..Len(userBroadcast) : n < userBroadcast[i].payload.id) =>
              n < e.id /\ \A i \in 1..Len(userBroadcast') : n < userBroadcast'[i].payload.id
    BY <1>1, <1>2, <1>3, HeadOrder
  <1>5. \A k \in {"room", "user"}, n \in Nat : BeforeHeld(k, n) => BeforeHeld(k, n)'
    BY <1>1 DEF BeforeHeld, BeforeStream, KindOf
  <1>6. QueueOrder(userBroadcast, "user")'
    BY <1>1, <1>4 DEF QueueOrder, BeforeHeld, BeforeStream, KindOf
  <1>7. QueueOrder(broadcast, "room")'
    BY <1>1 DEF OrderInv, QueueOrder, BeforeHeld, BeforeStream, KindOf
  <1>8. e.id \in Nat /\ BeforeHeld("user", e.id)'
    BY <1>3, <1>5, EventKinds
  <1>9. BeforeQueued("user", e.id)'
    BY <1>4, <1>8 DEF BeforeQueued
  <1>10. \A l \in {"room", "user"}, n \in Nat :
            BeforeQueued(l, n) => BeforeQueued(l, n)' /\ (l = "user" => n < e.id)
    BY <1>1, <1>4, <1>5 DEF BeforeQueued
  <1>11. QED BY <1>1, <1>3, <1>6, <1>7, <1>9, <1>10, FanoutStarts

(* One connection is served, or dropped as a slow consumer. *)
LEMMA DeliveryKeepsOrder ==
    ASSUME RelayInv, OrderInv, HubMoves, NEW d \in Clients, H!DeliverOne(d)
    PROVE  OrderInv'
  <1>1. /\ UNCHANGED <<stream, holding, published, broadcast, userBroadcast>>
        /\ d \in fanout.pending /\ fanout'.pending = fanout.pending \ {d} /\ fanout'.payload = fanout.payload
    BY DEF HubMoves, H!DeliverOne, H!commands, RelayInv, H!ValuesOK
  <1>2. \A k, n : BeforeQueued(k, n) <=> BeforeQueued(k, n)'
    BY <1>1 DEF BeforeQueued, BeforeHeld, BeforeStream, KindOf
  <1>3. PICK e \in B!Event : e = fanout.payload /\ BeforeQueued(KindOf(e), e.id)
    BY <1>1 DEF OrderInv, FanoutOrder
  <1>4. /\ StreamOrder' /\ HeldOrder' /\ QueueOrder(broadcast, "room")'
        /\ QueueOrder(userBroadcast, "user")'
    BY <1>1 DEF OrderInv, StreamOrder, HeldOrder, QueueOrder, BeforeHeld, BeforeStream, KindOf
  <1>5. FanoutOrder'
    BY <1>1, <1>2, <1>3 DEF FanoutOrder, KindOf
  <1>6. delivered \in [Clients -> Seq(B!Event)]
    BY DEF OrderInv, DeliveredOrder
  <1>7. \A c \in Clients : delivered'[c] = delivered[c] \/ (c = d /\ delivered'[c] = Append(delivered[c], e))
    <2>1. \A c \in Clients : Len(send[c]) \in Nat
      BY DEF RelayInv, H!ValuesOK
    <2>2. \A c \in Clients : c # d => send'[c] = send[c]
      BY DEF H!DeliverOne, RelayInv, H!ValuesOK
    <2>3. \A c \in Clients : c # d => ~(Len(send'[c]) > Len(send[c]))
      BY <2>1, <2>2
    <2>4. QED BY <1>3, <2>3 DEF HubMoves
  <1>8. delivered' \in [Clients -> Seq(B!Event)]
    <2>1. ASSUME NEW c \in Clients PROVE delivered'[c] \in Seq(B!Event)
      <3>1. delivered[c] \in Seq(B!Event)
        BY <1>6
      <3>2. Append(delivered[c], e) \in Seq(B!Event)
        BY <3>1
      <3>3. QED BY <1>7, <3>1, <3>2
    <2>2. delivered' = [c \in Clients |-> delivered'[c]]
      BY DEF HubMoves
    <2>3. QED BY <2>1, <2>2
  <1>9. ASSUME NEW c \in Clients
        PROVE  \A i \in 1..Len(delivered'[c]) :
                  /\ \E k, n : /\ k = KindOf(delivered'[c][i]) /\ n = delivered'[c][i].id
                               /\ BeforeServed(c, k, n)'
                  /\ \A j \in 1..Len(delivered'[c]) :
                        i < j /\ KindOf(delivered'[c][i]) = KindOf(delivered'[c][j]) =>
                           delivered'[c][i].id < delivered'[c][j].id
    <2>1. delivered[c] \in Seq(B!Event)
      BY <1>6
    <2>2. \A k, n : BeforeServed(c, k, n) => BeforeServed(c, k, n)'
      BY <1>1, <1>2 DEF BeforeServed, KindOf
    <2>3. \A i \in 1..Len(delivered[c]) :
             /\ delivered[c][i] \in B!Event
             /\ BeforeServed(c, KindOf(delivered[c][i]), delivered[c][i].id)
             /\ \A j \in 1..Len(delivered[c]) :
                   i < j /\ KindOf(delivered[c][i]) = KindOf(delivered[c][j]) =>
                      delivered[c][i].id < delivered[c][j].id
      BY <2>1 DEF OrderInv, DeliveredOrder
    <2>4. CASE delivered'[c] = delivered[c]
      BY <2>2, <2>3, <2>4
    <2>5. CASE c = d /\ delivered'[c] = Append(delivered[c], e)
      <3>1. /\ Len(delivered[c]) \in Nat /\ Len(delivered'[c]) = Len(delivered[c]) + 1
            /\ \A i \in 1..Len(delivered[c]) : delivered'[c][i] = delivered[c][i]
            /\ delivered'[c][Len(delivered[c]) + 1] = e
        BY <2>1, <2>5, Appended
      <3>2. \A i \in 1..Len(delivered'[c]) : i \in 1..Len(delivered[c]) \/ i = Len(delivered[c]) + 1
        BY <3>1
      <3>3. BeforeServed(c, KindOf(e), e.id)'
        <4>1. c \notin fanout'.pending
          BY <1>1, <2>5
        <4>2. BeforeQueued(KindOf(e), e.id)'
          BY <1>2, <1>3
        <4>3. QED BY <4>1, <4>2 DEF BeforeServed
      <3>4. \A i \in 1..Len(delivered[c]) : KindOf(delivered[c][i]) = KindOf(e) => delivered[c][i].id < e.id
        BY <1>1, <1>3, <2>3, <2>5 DEF BeforeServed
      <3>5. ASSUME NEW i \in 1..Len(delivered'[c])
            PROVE  \E k, n : /\ k = KindOf(delivered'[c][i]) /\ n = delivered'[c][i].id
                             /\ BeforeServed(c, k, n)'
        <4>1. CASE i \in 1..Len(delivered[c])
          BY <2>2, <2>3, <3>1, <4>1
        <4>2. CASE i = Len(delivered[c]) + 1
          <5>1. \E k, n : k = KindOf(e) /\ n = e.id /\ BeforeServed(c, k, n)'
            BY <3>3
          <5>2. QED BY <3>1, <4>2, <5>1
        <4>3. QED BY <3>2, <4>1, <4>2
      <3>6. ASSUME NEW i \in 1..Len(delivered'[c]), NEW j \in 1..Len(delivered'[c]), i < j,
                   KindOf(delivered'[c][i]) = KindOf(delivered'[c][j])
            PROVE  delivered'[c][i].id < delivered'[c][j].id
        <4>1. i \in 1..Len(delivered[c]) /\ delivered'[c][i] = delivered[c][i]
          BY <3>1, <3>6
        <4>2. CASE j \in 1..Len(delivered[c])
          BY <2>3, <3>1, <3>6, <4>1, <4>2
        <4>3. CASE j = Len(delivered[c]) + 1
          BY <3>1, <3>4, <3>6, <4>1, <4>3
        <4>4. QED BY <3>2, <4>2, <4>3
      <3>7. QED BY <3>5, <3>6
    <2>6. QED BY <1>7, <2>4, <2>5
  <1>10. DeliveredOrder'
    <2>1. ASSUME NEW c \in Clients, NEW i \in 1..Len(delivered'[c])
          PROVE  BeforeServed(c, KindOf(delivered[c][i]), delivered[c][i].id)'
      <3>1. PICK k, n : k = KindOf(delivered[c][i])' /\ n = delivered'[c][i].id /\ BeforeServed(c, k, n)'
        BY <1>9 DEF KindOf
      <3>2. QED BY <3>1 DEF BeforeServed
    <2>2. QED BY <1>8, <1>9, <2>1 DEF DeliveredOrder, KindOf
  <1>11. QED BY <1>4, <1>5, <1>10 DEF OrderInv

(* The rest of the steps move no event. *)
LEMMA NothingMoves ==
    ASSUME OrderInv, UNCHANGED <<stream, holding, broadcast, userBroadcast, fanout, published, delivered>>
    PROVE  OrderInv'
  BY DEF OrderInv, StreamOrder, HeldOrder, QueueOrder, FanoutOrder, DeliveredOrder, BeforeServed,
         BeforeQueued, BeforeHeld, BeforeStream, KindOf

LEMMA HubKeepsOrder ==
    ASSUME RelayInv, OrderInv, HubMoves
    PROVE  OrderInv'
  <1>1. CASE H!HubRegister \/ H!HubUnregister \/ H!HubJoin \/ H!HubLeave
    <2>1. UNCHANGED <<send, broadcast, userBroadcast, fanout>>
      BY <1>1 DEF H!HubRegister, H!HubUnregister, H!HubJoin, H!HubLeave
    <2>2. UNCHANGED <<stream, holding, published, delivered>>
      BY <2>1, UnsentIsUndelivered DEF HubMoves
    <2>3. QED BY <2>1, <2>2, NothingMoves
  <1>2. QED BY <1>1, BroadcastKeepsOrder, UserBroadcastKeepsOrder, DeliveryKeepsOrder DEF HubMoves, H!HubStep

LEMMA OrderStep ==
    ASSUME RelayInv, OrderInv, [Next]_vars
    PROVE  OrderInv'
  <1>1. CASE UNCHANGED vars
    BY <1>1, NothingMoves DEF vars, hub, broker, ghosts
  <1>2. ASSUME NEW c \in Clients, HandlerStep(c) PROVE OrderInv'
    <2>1. CASE \/ Connect(c) \/ SubscribeUser(c) \/ SubscribeUserTimesOut(c) \/ StartReading(c)
      BY <2>1, NothingMoves DEF Connect, SubscribeUser, SubscribeUserTimesOut, StartReading, H!Connect,
           H!StartReadPump, B!EnsureSubscribed, B!EnsureGivesUp, B!EnsureReturns, hub, broker, ghosts, H!commands
    <2>2. CASE \/ RoomJoined(c) \/ RoomJoinFailed(c) \/ Refuse(c) \/ AnnounceFails(c)
      BY <2>2, NothingMoves DEF RoomJoined, RoomJoinFailed, Refuse, AnnounceFails, H!Join, H!SendError,
           B!EnsureReturns, hub, broker, ghosts, H!commands
    <2>3. CASE \E r \in Rooms : RoomJoin(c, r) \/ RoomLeave(c, r) \/ MessageSend(c, r)
      BY <2>3, NothingMoves DEF RoomJoin, RoomLeave, MessageSend, H!Leave, B!EnsureSubscribed,
           hub, broker, ghosts, H!commands
    <2>4. CASE Announce(c)
      <3>1. handler[c].room \in Topics
        BY <2>4 DEF Announce, At, RelayInv, HandlerOK, Topics
      <3>2. Send(handler[c].room) /\ UNCHANGED <<broadcast, userBroadcast, fanout, delivered>>
        BY <2>4 DEF Announce, hub
      <3>3. QED BY <3>1, <3>2, SendKeepsOrder
    <2>5. QED BY <1>2, <2>1, <2>2, <2>3, <2>4 DEF HandlerStep
  <1>3. ASSUME NEW c \in Clients, EnsureTimesOut(c) \/ ConnectionBreaks(c) \/ Pump(c) PROVE OrderInv'
    BY <1>3, NothingMoves DEF EnsureTimesOut, ConnectionBreaks, Pump, B!EnsureTimesOut, H!ReadFails,
         H!WriteFails, H!Unregister, H!WriteNext, hub, broker, ghosts, H!commands
  <1>4. CASE BrokerApplies \/ SubRequestFails
    BY <1>4, NothingMoves DEF BrokerApplies, SubRequestFails, B!applySubRequest, B!SubRequestFails,
         B!ForgetTopic, hub, ghosts
  <1>5. CASE ProcessDisconnect \/ ProcessDisconnectFails
    <2>1. PICK left \in SUBSET Head(disconnects).rooms : disconnects # <<>> /\ AnnounceDeparture(left)
      BY <1>5 DEF ProcessDisconnect, ProcessDisconnectFails
    <2>2. Head(disconnects).rooms \in SUBSET Rooms
      <3>1. disconnects \in Seq(H!Disconnect)
        BY DEF RelayInv, H!ValuesOK
      <3>2. Head(disconnects) \in H!Disconnect
        BY <2>1, <3>1, Taken
      <3>3. QED BY <3>2 DEF H!Disconnect
    <2>3. left \in SUBSET Rooms
      BY <2>2
    <2>4. QED BY <2>1, <2>3, DeparturesKeepOrder
  <1>6. ASSUME NEW t \in Topics, Remote(t) PROVE OrderInv'
    BY <1>6, SendKeepsOrder DEF Remote, hub
  <1>7. QED BY <1>1, <1>2, <1>3, <1>4, <1>5, <1>6, HubKeepsOrder, TakeKeepsOrder, ForwardKeepsOrder DEF Next

LEMMA OrderInit == Init => OrderInv
  <1> SUFFICES ASSUME Init PROVE OrderInv
    OBVIOUS
  <1>1. /\ stream = [k \in {"room", "user"} |-> <<>>] /\ holding = <<>>
        /\ broadcast = <<>> /\ userBroadcast = <<>> /\ fanout.pending = {}
        /\ delivered = [c \in Clients |-> <<>>]
    BY DEF Init, H!Init, B!BInit, H!Idle
  <1>2. Len(<<>>) = 0 /\ \A i \in 1..0 : FALSE
    OBVIOUS
  <1>3. StreamOrder /\ HeldOrder /\ QueueOrder(broadcast, "room") /\ QueueOrder(userBroadcast, "user")
    BY <1>1, <1>2 DEF StreamOrder, HeldOrder, QueueOrder
  <1>4. FanoutOrder
    BY <1>1 DEF FanoutOrder
  <1>5. DeliveredOrder
    <2>1. \A S : <<>> \in Seq(S)
      OBVIOUS
    <2>2. QED BY <1>1, <1>2, <2>1 DEF DeliveredOrder
  <1>6. QED BY <1>3, <1>4, <1>5 DEF OrderInv

(* The inductive invariant of delivery: every event on its way is newer than *)
(* those of its kind further on, from Redis's stream through the Broker's    *)
(* hand, the Hub's channel and the fan-out to what each connection was sent. *)
THEOREM OrderInvariant == Spec => []OrderInv
  BY OrderInit, OrderStep, RelayInvariant, PTL DEF Spec

(* The variables of the composition keep their types. *)
THEOREM RealtimeTypes == Spec => []TypeOK
  <1>1. RelayInv /\ OrderInv => TypeOK
    BY DEF RelayInv, RelayTypeOK, OrderInv, DeliveredOrder, TypeOK, B!Event
  <1>2. QED BY <1>1, RelayInvariant, OrderInvariant, PTL

(* Events of one Pub/Sub connection reach a client in the order Redis        *)
(* received them, for any number of connections, rooms and faults.           *)
THEOREM EventsInOrder == Spec => []DeliveredInOrder
  <1>1. OrderInv => DeliveredInOrder
    <2> SUFFICES ASSUME OrderInv, NEW c \in Clients, NEW i \in DOMAIN delivered[c],
                        NEW j \in DOMAIN delivered[c], i < j,
                        TopicKind[delivered[c][i].topic] = TopicKind[delivered[c][j].topic]
                 PROVE  delivered[c][i].id < delivered[c][j].id
      BY DEF DeliveredInOrder
    <2>1. delivered[c] \in Seq(B!Event)
      BY DEF OrderInv, DeliveredOrder
    <2>2. i \in 1..Len(delivered[c]) /\ j \in 1..Len(delivered[c])
      BY <2>1
    <2>3. QED BY <2>2 DEF OrderInv, DeliveredOrder, KindOf
  <1>2. QED BY <1>1, OrderInvariant, PTL

(* No connection is sent the same event twice: two deliveries of one event   *)
(* would have one kind and one number, and numbers of a kind only grow.      *)
THEOREM EventsOnce == Spec => []DeliveredOnce
  <1>1. OrderInv => DeliveredOnce
    <2> SUFFICES ASSUME OrderInv, NEW c \in Clients, NEW i \in DOMAIN delivered[c],
                        NEW j \in DOMAIN delivered[c], delivered[c][i] = delivered[c][j]
                 PROVE  i = j
      BY DEF DeliveredOnce
    <2>1. delivered[c] \in Seq(B!Event)
      BY DEF OrderInv, DeliveredOrder
    <2>2. i \in 1..Len(delivered[c]) /\ j \in 1..Len(delivered[c]) /\ Len(delivered[c]) \in Nat
      BY <2>1
    <2>3. \A x, y \in 1..Len(delivered[c]) :
             x < y /\ delivered[c][x] = delivered[c][y] => delivered[c][x].id < delivered[c][x].id
      BY DEF OrderInv, DeliveredOrder, KindOf
    <2>4. \A x \in 1..Len(delivered[c]) : delivered[c][x].id \in Nat
      BY <2>1, EventKinds
    <2>5. ~(i < j) /\ ~(j < i)
      BY <2>2, <2>3, <2>4
    <2>6. QED BY <2>2, <2>5
  <1>2. QED BY <1>1, OrderInvariant, PTL
=============================================================================
