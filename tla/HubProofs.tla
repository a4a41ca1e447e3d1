----------------------------- MODULE HubProofs -----------------------------
(***************************************************************************)
(* Proofs about the Hub for any number of connections, rooms and users and *)
(* any channel capacities.                                                 *)
(*                                                                         *)
(* The indexes are not inductive by themselves: the register case of Run   *)
(* adds a connection to clients and users without looking at its rooms, so *)
(* a connection that was registered again after it had been removed would  *)
(* be in clients with a non-empty Client.rooms and in no room.  IndexInv   *)
(* adds what excludes it: a connection whose registration is still queued  *)
(* has never been in the Hub, and is queued once.                          *)
(***************************************************************************)
EXTENDS Hub, TLAPS

NeverSeen(c) == c \notin clients /\ c \notin closed /\ cRooms[c] = {}

RegisteredOnce ==
    /\ \A c \in Clients : readPump[c] = "none" => NeverSeen(c)
    /\ \A i \in 1..Len(register) :
         NeverSeen(register[i]) /\ readPump[register[i]] # "none"
    /\ \A i, j \in 1..Len(register) : register[i] = register[j] => i = j

IndexInv ==
    /\ ValuesOK
    /\ RoomIndexConsistent
    /\ UserIndexConsistent
    /\ HubNeverPanics
    /\ closed \cap clients = {}
    /\ fanout.pending \subseteq clients
    /\ RegisteredOnce

(* Taking the head of a non-empty queue, and what Append adds: facts about    *)
(* sequences every command channel needs.                                     *)
LEMMA QueueFacts ==
    ASSUME NEW S, NEW q \in Seq(S)
    PROVE  /\ \A x \in S : /\ Append(q, x) \in Seq(S)
                           /\ Len(Append(q, x)) = Len(q) + 1
                           /\ Append(q, x)[Len(q) + 1] = x
                           /\ \A i \in 1..Len(q) : Append(q, x)[i] = q[i]
           /\ q # <<>> => /\ Head(q) \in S /\ Tail(q) \in Seq(S)
                          /\ Head(q) = q[1]
                          /\ Len(q) >= 1 /\ Len(Tail(q)) = Len(q) - 1
                          /\ \A i \in 1..Len(Tail(q)) : Tail(q)[i] = q[i + 1]
  OBVIOUS

(* Updating a function at one point keeps its type. *)
LEMMA ExceptType ==
    ASSUME NEW S, NEW T, NEW f \in [S -> T], NEW x \in S, NEW y \in T
    PROVE  [f EXCEPT ![x] = y] \in [S -> T]
  OBVIOUS

(* Whichever way Enqueue ends, the channel still holds elements of its type. *)
LEMMA EnqueueType ==
    ASSUME NEW S, NEW q \in Seq(S), NEW x \in S, NEW n, NEW p \in Enqueue(q, x, n)
    PROVE  p \in Seq(S) /\ p \in {q, Append(q, x)}
  BY QueueFacts DEF Enqueue

(* removeClient keeps the types of the Hub's state. *)
LEMMA RemoveType ==
    ASSUME ValuesOK, NEW c \in Clients, removeClient(c)
    PROVE  /\ clients' \in SUBSET Clients
           /\ rooms' \in [Rooms -> SUBSET Clients]
           /\ users' \in [Users -> SUBSET Clients]
           /\ closed' \in SUBSET Clients
           /\ panicked' \in {"no", "hub", "read"}
           /\ disconnects' \in Seq(Disconnect)
  <1>1. [user |-> UserOf[c], rooms |-> cRooms[c]] \in Disconnect
    BY HubAssumption DEF ValuesOK, Disconnect
  <1>2. Append(disconnects, [user |-> UserOf[c], rooms |-> cRooms[c]])
          \in Seq(Disconnect)
    BY <1>1, QueueFacts DEF ValuesOK
  <1>3. CASE c \in clients
    <2>1. UserOf[c] \in Users /\ TearDown(c, cRooms[c])
      BY <1>3, HubAssumption DEF removeClient
    <2>2. /\ rooms' \in [Rooms -> SUBSET Clients]
          /\ users' \in [Users -> SUBSET Clients]
          /\ clients' \in SUBSET Clients /\ closed' \in SUBSET Clients
      BY <2>1 DEF ValuesOK, TearDown
    <2>3. panicked' \in {"no", "hub", "read"} /\ disconnects' \in Seq(Disconnect)
      BY <1>2, <2>1 DEF ValuesOK, TearDown
    <2>4. QED BY <2>2, <2>3
  <1>4. CASE c \notin clients
    BY <1>4 DEF ValuesOK, removeClient
  <1>5. QED BY <1>3, <1>4

(* Every step keeps the types, one case per action. *)
LEMMA TypeStep ==
    ASSUME ValuesOK, [Next]_vars
    PROVE  ValuesOK'
  <1> USE HubAssumption DEF ReadStates, WriteStates
  <1>1. ASSUME NEW c \in Clients, Connect(c) PROVE ValuesOK'
    <2>0. /\ register \in Seq(Clients) /\ c \in Clients
          /\ register' \in Enqueue(register, c, RegisterBuffer)
      BY <1>1 DEF ValuesOK, Connect
    <2>1. register' \in Seq(Clients)
      BY <2>0, EnqueueType
    <2>2. QED BY <1>1, <2>1 DEF ValuesOK, Connect, hubState
  <1>2. ASSUME NEW c \in Clients, StartReadPump(c) PROVE ValuesOK'
    BY <1>2 DEF ValuesOK, StartReadPump, hubState, commands
  <1>3. ASSUME NEW c \in Clients, NEW r \in Rooms, Join(c, r) PROVE ValuesOK'
    <2>0. /\ join \in Seq(Subscription) /\ [client |-> c, room |-> r] \in Subscription
          /\ join' \in Enqueue(join, [client |-> c, room |-> r], CommandBuffer)
      BY <1>3 DEF ValuesOK, Join, Subscription
    <2>1. join' \in Seq(Subscription)
      BY <2>0, EnqueueType
    <2>2. QED BY <1>3, <2>1 DEF ValuesOK, Join, hubState, pumps
  <1>4. ASSUME NEW c \in Clients, NEW r \in Rooms, Leave(c, r) PROVE ValuesOK'
    <2>0. /\ leave \in Seq(Subscription) /\ [client |-> c, room |-> r] \in Subscription
          /\ leave' \in Enqueue(leave, [client |-> c, room |-> r], CommandBuffer)
      BY <1>4 DEF ValuesOK, Leave, Subscription
    <2>1. leave' \in Seq(Subscription)
      BY <2>0, EnqueueType
    <2>2. QED BY <1>4, <2>1 DEF ValuesOK, Leave, hubState, pumps
  <1>5. ASSUME NEW c \in Clients, SendError(c) PROVE ValuesOK'
    <2>0. send \in [Clients -> Seq(Payloads)] /\ send[c] \in Seq(Payloads) /\ ErrorPayload \in Payloads
      BY DEF ValuesOK
    <2>1. Append(send[c], ErrorPayload) \in Seq(Payloads)
      BY <2>0, QueueFacts
    <2>2. send' = send \/ send' = [send EXCEPT ![c] = Append(send[c], ErrorPayload)]
                       \/ send' = [send EXCEPT ![c] = send[c]]
      BY <1>5 DEF SendError
    <2>3. send' \in [Clients -> Seq(Payloads)]
      BY <2>0, <2>1, <2>2, ExceptType
    <2>4. panicked' \in {"no", "hub", "read"}
      BY <1>5 DEF ValuesOK, SendError
    <2>5. QED BY <1>5, <2>3, <2>4 DEF ValuesOK, SendError, hubState, commands, pumps
  <1>6. ASSUME NEW c \in Clients, ReadFails(c) PROVE ValuesOK'
    BY <1>6 DEF ValuesOK, ReadFails, hubState, commands
  <1>7. ASSUME NEW c \in Clients, Unregister(c) PROVE ValuesOK'
    <2>0. /\ unregister \in Seq(Clients) /\ c \in Clients
          /\ unregister' \in Enqueue(unregister, c, RegisterBuffer)
      BY <1>7 DEF ValuesOK, Unregister
    <2>1. unregister' \in Seq(Clients)
      BY <2>0, EnqueueType
    <2>2. QED BY <1>7, <2>1 DEF ValuesOK, Unregister, hubState
  <1>8. ASSUME NEW c \in Clients, WriteNext(c) PROVE ValuesOK'
    <2>0. send \in [Clients -> Seq(Payloads)] /\ send[c] \in Seq(Payloads)
      BY DEF ValuesOK
    <2>1. send[c] # <<>> => Tail(send[c]) \in Seq(Payloads)
      BY <2>0, QueueFacts
    <2>2. send' = send \/ (send[c] # <<>> /\ send' = [send EXCEPT ![c] = Tail(send[c])])
      BY <1>8 DEF WriteNext
    <2>3. send' \in [Clients -> Seq(Payloads)]
      BY <2>0, <2>1, <2>2, ExceptType
    <2>4. writePump' \in [Clients -> WriteStates]
      BY <1>8 DEF ValuesOK, WriteNext
    <2>5. QED BY <1>8, <2>3, <2>4 DEF ValuesOK, WriteNext, hubState, commands
  <1>9. ASSUME NEW c \in Clients, WriteFails(c) PROVE ValuesOK'
    BY <1>9 DEF ValuesOK, WriteFails, hubState, commands
  <1>10. ASSUME NEW r \in Rooms, NEW p \in Payloads, Broadcast(r, p) PROVE ValuesOK'
    <2>0. /\ broadcast \in Seq(RoomEvent) /\ [room |-> r, payload |-> p] \in RoomEvent
          /\ broadcast' \in Enqueue(broadcast, [room |-> r, payload |-> p], CommandBuffer)
      BY <1>10 DEF ValuesOK, Broadcast, RoomEvent
    <2>1. broadcast' \in Seq(RoomEvent)
      BY <2>0, EnqueueType
    <2>2. QED BY <1>10, <2>1 DEF ValuesOK, Broadcast, hubState, pumps
  <1>11. ASSUME NEW u \in Users, NEW p \in Payloads, BroadcastToUser(u, p) PROVE ValuesOK'
    <2>0. /\ userBroadcast \in Seq(UserEvent) /\ [user |-> u, payload |-> p] \in UserEvent
          /\ userBroadcast' \in Enqueue(userBroadcast, [user |-> u, payload |-> p], CommandBuffer)
      BY <1>11 DEF ValuesOK, BroadcastToUser, UserEvent
    <2>1. userBroadcast' \in Seq(UserEvent)
      BY <2>0, EnqueueType
    <2>2. QED BY <1>11, <2>1 DEF ValuesOK, BroadcastToUser, hubState, pumps
  <1>12. CASE HubRegister
    <2>1. Head(register) \in Clients /\ Tail(register) \in Seq(Clients)
      BY <1>12, QueueFacts DEF ValuesOK, HubRegister
    <2>2. QED BY <1>12, <2>1 DEF ValuesOK, HubRegister, pumps
  <1>13. CASE HubUnregister
    <2>1. Head(unregister) \in Clients /\ Tail(unregister) \in Seq(Clients)
      BY <1>13, QueueFacts DEF ValuesOK, HubUnregister
    <2>2. removeClient(Head(unregister))
      BY <1>13 DEF HubUnregister
    <2>3. QED BY <1>13, <2>1, <2>2, RemoveType DEF ValuesOK, HubUnregister, pumps
  <1>14. CASE HubJoin
    <2>1. Head(join) \in Subscription /\ Tail(join) \in Seq(Subscription)
      BY <1>14, QueueFacts DEF ValuesOK, HubJoin
    <2> DEFINE c == Head(join).client  r == Head(join).room
    <2>2. c \in Clients /\ r \in Rooms
      BY <2>1 DEF Subscription
    <2>3. \/ UNCHANGED <<rooms, cRooms>>
          \/ /\ rooms' = [rooms EXCEPT ![r] = rooms[r] \cup {c}]
             /\ cRooms' = [cRooms EXCEPT ![c] = cRooms[c] \cup {r}]
      BY <1>14 DEF HubJoin, addToRoom
    <2> HIDE DEF c, r
    <2>4. /\ rooms \in [Rooms -> SUBSET Clients] /\ cRooms \in [Clients -> SUBSET Rooms]
          /\ rooms[r] \cup {c} \in SUBSET Clients /\ cRooms[c] \cup {r} \in SUBSET Rooms
      BY <2>2 DEF ValuesOK
    <2>5. /\ rooms' \in [Rooms -> SUBSET Clients]
          /\ cRooms' \in [Clients -> SUBSET Rooms]
      BY <2>2, <2>3, <2>4, ExceptType
    <2>6. QED BY <1>14, <2>1, <2>5 DEF ValuesOK, HubJoin, pumps
  <1>15. CASE HubLeave
    <2>1. Head(leave) \in Subscription /\ Tail(leave) \in Seq(Subscription)
      BY <1>15, QueueFacts DEF ValuesOK, HubLeave
    <2> DEFINE c == Head(leave).client  r == Head(leave).room
    <2>2. c \in Clients /\ r \in Rooms
      BY <2>1 DEF Subscription
    <2>3. \/ UNCHANGED <<rooms, cRooms>>
          \/ /\ rooms' = [rooms EXCEPT ![r] = rooms[r] \ {c}]
             /\ cRooms' = [cRooms EXCEPT ![c] = cRooms[c] \ {r}]
      BY <1>15 DEF HubLeave, removeFromRoom
    <2> HIDE DEF c, r
    <2>4. /\ rooms \in [Rooms -> SUBSET Clients] /\ cRooms \in [Clients -> SUBSET Rooms]
          /\ rooms[r] \ {c} \in SUBSET Clients /\ cRooms[c] \ {r} \in SUBSET Rooms
      BY <2>2 DEF ValuesOK
    <2>5. /\ rooms' \in [Rooms -> SUBSET Clients]
          /\ cRooms' \in [Clients -> SUBSET Rooms]
      BY <2>2, <2>3, <2>4, ExceptType
    <2>6. QED BY <1>15, <2>1, <2>5 DEF ValuesOK, HubLeave, pumps
  <1>16. CASE HubBroadcast
    <2>1. /\ Head(broadcast) \in RoomEvent
          /\ Tail(broadcast) \in Seq(RoomEvent)
      BY <1>16, QueueFacts DEF ValuesOK, HubBroadcast
    <2>2. QED BY <1>16, <2>1 DEF ValuesOK, HubBroadcast, hubState, pumps, RoomEvent
  <1>17. CASE HubUserBroadcast
    <2>1. /\ Head(userBroadcast) \in UserEvent
          /\ Tail(userBroadcast) \in Seq(UserEvent)
      BY <1>17, QueueFacts DEF ValuesOK, HubUserBroadcast
    <2>2. QED BY <1>17, <2>1 DEF ValuesOK, HubUserBroadcast, hubState, pumps, UserEvent
  <1>18. ASSUME NEW c \in Clients, DeliverOne(c) PROVE ValuesOK'
    <2>0. send \in [Clients -> Seq(Payloads)] /\ send[c] \in Seq(Payloads) /\ fanout.payload \in Payloads
      BY DEF ValuesOK
    <2>1. Append(send[c], fanout.payload) \in Seq(Payloads)
      BY <2>0, QueueFacts
    <2>2. fanout' \in [pending : SUBSET Clients, payload : Payloads]
      BY <1>18 DEF ValuesOK, DeliverOne
    <2>3. CASE UNCHANGED hubState
      <3>1. send' = send \/ send' = [send EXCEPT ![c] = Append(send[c], fanout.payload)]
        BY <1>18 DEF DeliverOne
      <3>2. send' \in [Clients -> Seq(Payloads)]
        BY <2>0, <2>1, <3>1, ExceptType
      <3>3. panicked' \in {"no", "hub", "read"}
        BY <1>18, RemoveType DEF ValuesOK, DeliverOne
      <3>4. QED BY <1>18, <2>2, <2>3, <3>2, <3>3 DEF ValuesOK, DeliverOne, hubState, commands, pumps
    <2>4. CASE removeClient(c) /\ UNCHANGED <<cRooms, send>>
      BY <1>18, <2>2, <2>4, RemoveType DEF ValuesOK, DeliverOne, commands, pumps
    <2>5. QED BY <1>18, <2>3, <2>4 DEF DeliverOne
  <1>19. CASE Stop
    BY <1>19 DEF ValuesOK, Stop, hubState, commands, pumps
  <1>20. CASE TakeDisconnect
    <2>1. Tail(disconnects) \in Seq(Disconnect)
      BY <1>20, QueueFacts DEF ValuesOK, TakeDisconnect
    <2>2. QED BY <1>20, <2>1 DEF ValuesOK, TakeDisconnect, commands, pumps
  <1>21. CASE UNCHANGED vars
    BY <1>21 DEF ValuesOK, vars, hubState, commands, pumps
  <1>22. QED
    BY <1>1, <1>2, <1>3, <1>4, <1>5, <1>6, <1>7, <1>8, <1>9, <1>10, <1>11, <1>12, <1>13,
       <1>14, <1>15, <1>16, <1>17, <1>18, <1>19, <1>20, <1>21
       DEF Next, HubStep, ClientStep, Environment

(* removeClient takes its client out of every index at once. *)
LEMMA RemoveKeepsIndexes ==
    ASSUME ValuesOK, RoomIndexConsistent, UserIndexConsistent, HubNeverPanics,
           closed \cap clients = {}, RegisteredOnce,
           NEW c \in Clients, removeClient(c), UNCHANGED <<cRooms, register, readPump>>
    PROVE  /\ RoomIndexConsistent' /\ UserIndexConsistent' /\ HubNeverPanics'
           /\ (closed \cap clients = {})' /\ RegisteredOnce'
           /\ clients' = clients \ {c}
  <1>1. CASE c \notin clients
    <2>1. UNCHANGED <<clients, rooms, users, closed, panicked>>
      BY <1>1 DEF removeClient
    <2>2. QED
      BY <1>1, <2>1 DEF RoomIndexConsistent, UserIndexConsistent, HubNeverPanics,
                        RegisteredOnce, NeverSeen
  <1>2. CASE c \in clients
    <2>1. TearDown(c, cRooms[c]) /\ c \notin closed
      BY <1>2 DEF removeClient
    <2>2. RoomIndexConsistent'
      BY <2>1 DEF RoomIndexConsistent, TearDown, ValuesOK
    <2>3. UserIndexConsistent'
      <3> SUFFICES ASSUME NEW d \in Clients, NEW u \in Users
                   PROVE  d \in users'[u] <=> (d \in clients' /\ UserOf[d] = u)
        BY DEF UserIndexConsistent
      <3>1. d \in users[u] <=> (d \in clients /\ UserOf[d] = u)
        BY DEF UserIndexConsistent
      <3>2. users'[u] = IF u = UserOf[c] THEN users[u] \ {c} ELSE users[u]
        BY <2>1 DEF TearDown, ValuesOK
      <3>3. QED BY <2>1, <3>1, <3>2 DEF TearDown
    <2>4. HubNeverPanics' /\ (closed \cap clients = {})' /\ clients' = clients \ {c}
      BY <2>1 DEF HubNeverPanics, TearDown
    <2>5. RegisteredOnce'
      BY <1>2, <2>1 DEF RegisteredOnce, NeverSeen, TearDown
    <2>6. QED BY <2>2, <2>3, <2>4, <2>5
  <1>3. QED BY <1>1, <1>2

(* A step that leaves the Hub's own state and the pumps' progress alone keeps *)
(* everything but the types, as long as it adds no registration.              *)
LEMMA FrameKeepsIndexes ==
    ASSUME IndexInv, ValuesOK',
           UNCHANGED <<clients, rooms, users, cRooms, closed, fanout, register>>,
           \A c \in Clients : readPump'[c] = "none" <=> readPump[c] = "none",
           panicked' # "hub"
    PROVE  IndexInv'
  BY DEF IndexInv, ValuesOK, RoomIndexConsistent, UserIndexConsistent, HubNeverPanics,
         RegisteredOnce, NeverSeen

(* Every step keeps the strengthened invariant.  Connect, the Hub's own       *)
(* actions and DeliverOne are the ones that touch the indexes.                *)
LEMMA IndexStep ==
    ASSUME IndexInv, [Next]_vars
    PROVE  IndexInv'
  <1> USE DEF hubState, commands, pumps
  <1>0. ValuesOK /\ ValuesOK'
    BY TypeStep DEF IndexInv
  <1>1. ASSUME NEW c \in Clients, Connect(c) PROVE IndexInv'
    <2>1. register' = register \/ register' = Append(register, c)
      BY <1>1 DEF Connect, Enqueue
    <2>2. /\ readPump[c] = "none" /\ UNCHANGED <<hubState, fanout, panicked>>
          /\ \A d \in Clients : readPump'[d] = IF d = c THEN "starting" ELSE readPump[d]
      BY <1>0, <1>1 DEF Connect, ValuesOK
    <2>3. NeverSeen(c) /\ \A i \in 1..Len(register) : register[i] \in Clients /\ register[i] # c
      <3>1. \A i \in 1..Len(register) : register[i] \in Clients
        BY <1>0 DEF ValuesOK
      <3>2. QED BY <2>2, <3>1 DEF IndexInv, RegisteredOnce
    <2>4. RegisteredOnce'
      <3>1. CASE register' = register
        BY <1>0, <2>2, <2>3, <3>1 DEF IndexInv, RegisteredOnce, NeverSeen
      <3>2. CASE register' = Append(register, c)
        <4>1. /\ Len(register') = Len(register) + 1 /\ register'[Len(register) + 1] = c
              /\ \A i \in 1..Len(register) : register'[i] = register[i]
              /\ Len(register) \in Nat
          BY <1>0, <3>2, QueueFacts DEF ValuesOK
        <4>2. \A i \in 1..Len(register') :
                i \in 1..Len(register) \/ i = Len(register) + 1
          BY <4>1
        <4>3. QED BY <2>2, <2>3, <4>1, <4>2 DEF IndexInv, RegisteredOnce, NeverSeen
      <3>3. QED BY <2>1, <3>1, <3>2
    <2>5. QED
      BY <1>0, <2>2, <2>4 DEF IndexInv, RoomIndexConsistent, UserIndexConsistent, HubNeverPanics
  <1>2. ASSUME NEW c \in Clients,
               StartReadPump(c) \/ ReadFails(c) \/ Unregister(c) \/ WriteNext(c) \/ WriteFails(c)
                 \/ SendError(c) \/ (\E r \in Rooms : Join(c, r) \/ Leave(c, r))
        PROVE  IndexInv'
    <2>1. UNCHANGED <<clients, rooms, users, cRooms, closed, fanout, register>>
      BY <1>2 DEF StartReadPump, ReadFails, Unregister, WriteNext, WriteFails, SendError, Join, Leave
    <2>2. \A d \in Clients : readPump'[d] = "none" <=> readPump[d] = "none"
      BY <1>0, <1>2 DEF ValuesOK, StartReadPump, ReadFails, Unregister, WriteNext, WriteFails,
                        SendError, Join, Leave
    <2>3. panicked' # "hub"
      BY <1>2 DEF IndexInv, HubNeverPanics, StartReadPump, ReadFails, Unregister, WriteNext,
                  WriteFails, SendError, Join, Leave
    <2>4. QED BY <1>0, <2>1, <2>2, <2>3, FrameKeepsIndexes
  <1>3. CASE Environment \/ UNCHANGED vars
    <2>1. /\ UNCHANGED <<clients, rooms, users, cRooms, closed, fanout, register, readPump>>
          /\ panicked' = panicked
      BY <1>3 DEF Environment, Broadcast, BroadcastToUser, Stop, TakeDisconnect, vars
    <2>2. QED BY <1>0, <2>1, FrameKeepsIndexes DEF IndexInv, HubNeverPanics
  <1>4. CASE HubRegister
    <2> DEFINE c == Head(register)
    <2>1. /\ c \in Clients /\ c = register[1] /\ Len(register) \in Nat /\ Len(register) >= 1
          /\ register' = Tail(register) /\ Len(register') = Len(register) - 1
          /\ \A i \in 1..Len(register') : register'[i] = register[i + 1]
      BY <1>0, <1>4, QueueFacts DEF HubRegister, ValuesOK
    <2>2. NeverSeen(c) /\ readPump[c] # "none"
      BY <2>1 DEF IndexInv, RegisteredOnce
    <2>3. /\ clients' = clients \cup {c} /\ UserOf[c] \in Users
          /\ users' = [users EXCEPT ![UserOf[c]] = users[UserOf[c]] \cup {c}]
          /\ UNCHANGED <<rooms, cRooms, closed, fanout, readPump, panicked>>
      BY <1>4, <2>1, HubAssumption DEF HubRegister
    <2> HIDE DEF c
    <2>4. RoomIndexConsistent'
      BY <2>2, <2>3 DEF IndexInv, RoomIndexConsistent, NeverSeen
    <2>5. UserIndexConsistent'
      <3> SUFFICES ASSUME NEW d \in Clients, NEW u \in Users
                   PROVE  d \in users'[u] <=> (d \in clients' /\ UserOf[d] = u)
        BY DEF UserIndexConsistent
      <3>1. d \in users[u] <=> (d \in clients /\ UserOf[d] = u)
        BY DEF IndexInv, UserIndexConsistent
      <3>2. users'[u] = IF u = UserOf[c] THEN users[u] \cup {c} ELSE users[u]
        BY <1>0, <2>3 DEF ValuesOK
      <3>3. QED BY <2>3, <3>1, <3>2
    <2>6. (closed \cap clients = {})' /\ (fanout.pending \subseteq clients)' /\ HubNeverPanics'
      BY <2>2, <2>3 DEF IndexInv, NeverSeen, HubNeverPanics
    <2>7. RegisteredOnce'
      <3>1. \A i \in 1..Len(register') : i + 1 \in 1..Len(register) /\ i + 1 # 1
        BY <2>1
      <3>2. \A i \in 1..Len(register') : register'[i] # c
        BY <2>1, <3>1 DEF IndexInv, RegisteredOnce
      <3>3. \A d \in Clients : readPump'[d] = "none" => d # c
        BY <2>2, <2>3
      <3>4. \A i, j \in 1..Len(register') : i + 1 = j + 1 => i = j
        BY <2>1
      <3>5. QED BY <2>1, <2>3, <3>1, <3>2, <3>3, <3>4 DEF IndexInv, RegisteredOnce, NeverSeen
    <2>8. QED BY <1>0, <2>4, <2>5, <2>6, <2>7 DEF IndexInv
  <1>5. CASE HubUnregister
    <2>1. Head(unregister) \in Clients
      BY <1>0, <1>5, QueueFacts DEF HubUnregister, ValuesOK
    <2>2. /\ removeClient(Head(unregister)) /\ fanout.pending = {}
          /\ UNCHANGED <<cRooms, register, readPump, fanout>>
      BY <1>5 DEF HubUnregister, Selecting
    <2>3. QED BY <1>0, <2>1, <2>2, RemoveKeepsIndexes DEF IndexInv
  <1>6. CASE HubJoin
    <2> DEFINE c == Head(join).client  r == Head(join).room
    <2>1. c \in Clients /\ r \in Rooms
      <3>1. Head(join) \in Subscription
        BY <1>0, <1>6, QueueFacts DEF HubJoin, ValuesOK
      <3>2. QED BY <3>1 DEF Subscription
    <2>2. /\ \/ UNCHANGED <<rooms, cRooms>>
             \/ /\ c \in clients
                /\ rooms' = [rooms EXCEPT ![r] = rooms[r] \cup {c}]
                /\ cRooms' = [cRooms EXCEPT ![c] = cRooms[c] \cup {r}]
          /\ UNCHANGED <<clients, users, closed, fanout, register, readPump, panicked>>
      BY <1>6 DEF HubJoin, addToRoom
    <2> HIDE DEF c, r
    <2>3. RoomIndexConsistent'
      <3> SUFFICES ASSUME NEW d \in Clients, NEW s \in Rooms
                   PROVE  d \in rooms'[s] <=> (d \in clients' /\ s \in cRooms'[d])
        BY DEF RoomIndexConsistent
      <3>1. d \in rooms[s] <=> (d \in clients /\ s \in cRooms[d])
        BY DEF IndexInv, RoomIndexConsistent
      <3>2. CASE UNCHANGED <<rooms, cRooms>>
        BY <2>2, <3>1, <3>2
      <3>3. CASE ~UNCHANGED <<rooms, cRooms>>
        <4>1. rooms'[s] = IF s = r THEN rooms[s] \cup {c} ELSE rooms[s]
          BY <1>0, <2>1, <2>2, <3>3 DEF ValuesOK
        <4>2. cRooms'[d] = IF d = c THEN cRooms[d] \cup {r} ELSE cRooms[d]
          BY <1>0, <2>1, <2>2, <3>3 DEF ValuesOK
        <4>3. QED BY <2>2, <3>1, <3>3, <4>1, <4>2
      <3>4. QED BY <3>2, <3>3
    <2>4. \A d \in Clients : d \notin clients => cRooms'[d] = cRooms[d]
      BY <1>0, <2>1, <2>2 DEF ValuesOK
    <2>5. RegisteredOnce'
      <3>1. \A i \in 1..Len(register) : register[i] \in Clients
        BY <1>0 DEF ValuesOK
      <3>2. QED BY <2>2, <2>4, <3>1 DEF IndexInv, RegisteredOnce, NeverSeen
    <2>6. QED
      BY <1>0, <2>2, <2>3, <2>5 DEF IndexInv, UserIndexConsistent, HubNeverPanics
  <1>7. CASE HubLeave
    <2> DEFINE c == Head(leave).client  r == Head(leave).room
    <2>1. c \in Clients /\ r \in Rooms
      <3>1. Head(leave) \in Subscription
        BY <1>0, <1>7, QueueFacts DEF HubLeave, ValuesOK
      <3>2. QED BY <3>1 DEF Subscription
    <2>2. /\ \/ UNCHANGED <<rooms, cRooms>>
             \/ /\ r \in cRooms[c]
                /\ rooms' = [rooms EXCEPT ![r] = rooms[r] \ {c}]
                /\ cRooms' = [cRooms EXCEPT ![c] = cRooms[c] \ {r}]
          /\ UNCHANGED <<clients, users, closed, fanout, register, readPump, panicked>>
      BY <1>7 DEF HubLeave, removeFromRoom
    <2> HIDE DEF c, r
    <2>3. RoomIndexConsistent'
      <3> SUFFICES ASSUME NEW d \in Clients, NEW s \in Rooms
                   PROVE  d \in rooms'[s] <=> (d \in clients' /\ s \in cRooms'[d])
        BY DEF RoomIndexConsistent
      <3>1. d \in rooms[s] <=> (d \in clients /\ s \in cRooms[d])
        BY DEF IndexInv, RoomIndexConsistent
      <3>2. CASE UNCHANGED <<rooms, cRooms>>
        BY <2>2, <3>1, <3>2
      <3>3. CASE ~UNCHANGED <<rooms, cRooms>>
        <4>1. rooms'[s] = IF s = r THEN rooms[s] \ {c} ELSE rooms[s]
          BY <1>0, <2>1, <2>2, <3>3 DEF ValuesOK
        <4>2. cRooms'[d] = IF d = c THEN cRooms[d] \ {r} ELSE cRooms[d]
          BY <1>0, <2>1, <2>2, <3>3 DEF ValuesOK
        <4>3. QED BY <2>2, <3>1, <3>3, <4>1, <4>2
      <3>4. QED BY <3>2, <3>3
    <2>4. \A d \in Clients : cRooms[d] = {} => cRooms'[d] = {}
      BY <1>0, <2>1, <2>2 DEF ValuesOK
    <2>5. RegisteredOnce'
      <3>1. \A i \in 1..Len(register) : register[i] \in Clients
        BY <1>0 DEF ValuesOK
      <3>2. QED BY <2>2, <2>4, <3>1 DEF IndexInv, RegisteredOnce, NeverSeen
    <2>6. QED
      BY <1>0, <2>2, <2>3, <2>5 DEF IndexInv, UserIndexConsistent, HubNeverPanics
  <1>8. CASE HubBroadcast
    <2>1. Head(broadcast).room \in Rooms
      <3>1. Head(broadcast) \in RoomEvent
        BY <1>0, <1>8, QueueFacts DEF HubBroadcast, ValuesOK
      <3>2. QED BY <3>1 DEF RoomEvent
    <2>2. rooms[Head(broadcast).room] \subseteq clients
      BY <1>0, <2>1 DEF IndexInv, RoomIndexConsistent, ValuesOK
    <2>3. /\ fanout'.pending \subseteq clients
          /\ UNCHANGED <<hubState, register, readPump, panicked>>
      BY <1>8, <2>2 DEF HubBroadcast
    <2>4. QED
      BY <1>0, <2>3 DEF IndexInv, RoomIndexConsistent, UserIndexConsistent, HubNeverPanics,
                        RegisteredOnce, NeverSeen
  <1>9. CASE HubUserBroadcast
    <2>1. Head(userBroadcast).user \in Users
      <3>1. Head(userBroadcast) \in UserEvent
        BY <1>0, <1>9, QueueFacts DEF HubUserBroadcast, ValuesOK
      <3>2. QED BY <3>1 DEF UserEvent
    <2>2. users[Head(userBroadcast).user] \subseteq clients
      BY <1>0, <2>1 DEF IndexInv, UserIndexConsistent, ValuesOK
    <2>3. /\ fanout'.pending \subseteq clients
          /\ UNCHANGED <<hubState, register, readPump, panicked>>
      BY <1>9, <2>2 DEF HubUserBroadcast
    <2>4. QED
      BY <1>0, <2>3 DEF IndexInv, RoomIndexConsistent, UserIndexConsistent, HubNeverPanics,
                        RegisteredOnce, NeverSeen
  <1>10. ASSUME NEW c \in Clients, DeliverOne(c) PROVE IndexInv'
    <2>1. c \in clients /\ c \notin closed
      BY <1>10 DEF DeliverOne, IndexInv
    <2>2. fanout'.pending = fanout.pending \ {c} /\ UNCHANGED <<register, readPump>>
      BY <1>0, <1>10 DEF DeliverOne, ValuesOK
    <2>3. CASE UNCHANGED <<hubState, panicked>>
      BY <1>0, <2>2, <2>3 DEF IndexInv, RoomIndexConsistent, UserIndexConsistent,
                              HubNeverPanics, RegisteredOnce, NeverSeen
    <2>4. CASE removeClient(c) /\ UNCHANGED cRooms
      BY <1>0, <2>2, <2>4, RemoveKeepsIndexes DEF IndexInv
    <2>5. QED BY <1>10, <2>1, <2>3, <2>4 DEF DeliverOne
  <1>11. QED
    BY <1>1, <1>2, <1>3, <1>4, <1>5, <1>6, <1>7, <1>8, <1>9, <1>10
       DEF Next, HubStep, ClientStep

(* The strengthened invariant holds in every reachable state. *)
THEOREM IndexInvariant == Spec => []IndexInv
  <1>1. Init => IndexInv
    <2> SUFFICES ASSUME Init PROVE IndexInv
      OBVIOUS
    <2>1. \A S : <<>> \in Seq(S)
      OBVIOUS
    <2>2. ValuesOK
      BY <2>1, HubAssumption DEF Init, ValuesOK, Idle, ReadStates, WriteStates
    <2>3. RegisteredOnce
      BY DEF Init, RegisteredOnce, NeverSeen
    <2>4. QED
      BY <2>2, <2>3 DEF Init, IndexInv, RoomIndexConsistent, UserIndexConsistent,
                        HubNeverPanics, Idle
  <1>2. IndexInv /\ [Next]_vars => IndexInv'
    BY IndexStep
  <1>3. QED BY <1>1, <1>2, PTL DEF Spec

(* What Enqueue, a receive and a guarded send leave on a channel of n.        *)
LEMMA Bounded ==
    ASSUME NEW S, NEW q \in Seq(S), NEW x \in S, NEW n \in Nat, Len(q) <= n
    PROVE  /\ \A p \in Enqueue(q, x, n) : Len(p) <= n
           /\ q # <<>> => Len(Tail(q)) <= n
           /\ Len(q) < n => Len(Append(q, x)) <= n
  BY QueueFacts DEF Enqueue

(* removeClient drops the departure when there is no room for it.             *)
LEMMA RemoveBounded ==
    ASSUME ValuesOK, WithinCapacity, NEW c \in Clients, removeClient(c)
    PROVE  Len(disconnects') <= DisconnectBuffer
  <1>1. /\ [user |-> UserOf[c], rooms |-> cRooms[c]] \in Disconnect
        /\ disconnects \in Seq(Disconnect) /\ DisconnectBuffer \in Nat
    BY HubAssumption DEF ValuesOK, Disconnect
  <1>2. Len(disconnects) <= DisconnectBuffer
    BY DEF WithinCapacity
  <1>3. \/ disconnects' = disconnects
        \/ /\ Len(disconnects) < DisconnectBuffer
           /\ disconnects' = Append(disconnects, [user |-> UserOf[c], rooms |-> cRooms[c]])
    BY DEF removeClient, TearDown
  <1>4. QED BY <1>1, <1>2, <1>3, Bounded

(* One client's send, after something was added to it or taken from it.       *)
LEMMA SendBounded ==
    ASSUME ValuesOK, WithinCapacity, NEW c \in Clients, NEW x \in Payloads,
           \/ send' = send
           \/ send' = [send EXCEPT ![c] = send[c]]
           \/ send[c] # <<>> /\ send' = [send EXCEPT ![c] = Tail(send[c])]
           \/ Len(send[c]) < SendBuffer /\ send' = [send EXCEPT ![c] = Append(send[c], x)]
    PROVE  \A d \in Clients : Len(send'[d]) <= SendBuffer
  <1>1. /\ send \in [Clients -> Seq(Payloads)] /\ send[c] \in Seq(Payloads) /\ SendBuffer \in Nat
        /\ \A d \in Clients : Len(send[d]) <= SendBuffer
    BY HubAssumption DEF ValuesOK, WithinCapacity
  <1>2. /\ send[c] # <<>> => Len(Tail(send[c])) <= SendBuffer
        /\ Len(send[c]) < SendBuffer => Len(Append(send[c], x)) <= SendBuffer
    BY <1>1, Bounded
  <1>3. QED BY <1>1, <1>2

(* No step leaves more on a channel than it holds, one case per channel.      *)
LEMMA CapacityStep ==
    ASSUME ValuesOK, WithinCapacity, [Next]_vars
    PROVE  WithinCapacity'
  <1> USE DEF hubState, commands, pumps
  <1>0. /\ RegisterBuffer \in Nat /\ CommandBuffer \in Nat /\ DisconnectBuffer \in Nat
        /\ register \in Seq(Clients) /\ unregister \in Seq(Clients)
        /\ join \in Seq(Subscription) /\ leave \in Seq(Subscription)
        /\ broadcast \in Seq(RoomEvent) /\ userBroadcast \in Seq(UserEvent)
        /\ disconnects \in Seq(Disconnect)
    BY HubAssumption DEF ValuesOK
  <1>1. ASSUME NEW c \in Clients, ClientStep(c) PROVE WithinCapacity'
    <2>1. CASE Connect(c)
      <3>1. Len(register') <= RegisterBuffer
        BY <1>0, <2>1, Bounded DEF Connect, WithinCapacity
      <3>2. QED BY <2>1, <3>1 DEF Connect, WithinCapacity
    <2>2. CASE Unregister(c)
      <3>1. Len(unregister') <= RegisterBuffer
        BY <1>0, <2>2, Bounded DEF Unregister, WithinCapacity
      <3>2. QED BY <2>2, <3>1 DEF Unregister, WithinCapacity
    <2>3. ASSUME NEW r \in Rooms, Join(c, r) PROVE WithinCapacity'
      <3>1. [client |-> c, room |-> r] \in Subscription
        BY DEF Subscription
      <3>2. Len(join') <= CommandBuffer
        BY <1>0, <2>3, <3>1, Bounded DEF Join, WithinCapacity
      <3>3. QED BY <2>3, <3>2 DEF Join, WithinCapacity
    <2>4. ASSUME NEW r \in Rooms, Leave(c, r) PROVE WithinCapacity'
      <3>1. [client |-> c, room |-> r] \in Subscription
        BY DEF Subscription
      <3>2. Len(leave') <= CommandBuffer
        BY <1>0, <2>4, <3>1, Bounded DEF Leave, WithinCapacity
      <3>3. QED BY <2>4, <3>2 DEF Leave, WithinCapacity
    <2>5. CASE SendError(c) \/ WriteNext(c)
      <3>1. \A d \in Clients : Len(send'[d]) <= SendBuffer
        <4>1. ErrorPayload \in Payloads
          BY HubAssumption
        <4>2. \/ send' = send
              \/ send' = [send EXCEPT ![c] = send[c]]
              \/ send[c] # <<>> /\ send' = [send EXCEPT ![c] = Tail(send[c])]
              \/ /\ Len(send[c]) < SendBuffer
                 /\ send' = [send EXCEPT ![c] = Append(send[c], ErrorPayload)]
          BY <2>5 DEF SendError, WriteNext
        <4>3. QED BY <4>1, <4>2, SendBounded
      <3>2. QED BY <2>5, <3>1 DEF SendError, WriteNext, WithinCapacity
    <2>6. CASE StartReadPump(c) \/ ReadFails(c) \/ WriteFails(c)
      BY <2>6 DEF StartReadPump, ReadFails, WriteFails, WithinCapacity
    <2>7. QED BY <1>1, <2>1, <2>2, <2>3, <2>4, <2>5, <2>6 DEF ClientStep
  <1>2. CASE HubRegister \/ HubJoin \/ HubLeave \/ HubBroadcast \/ HubUserBroadcast \/ TakeDisconnect
    <2>1. /\ register # <<>> => Len(Tail(register)) <= RegisterBuffer
          /\ join # <<>> => Len(Tail(join)) <= CommandBuffer
          /\ leave # <<>> => Len(Tail(leave)) <= CommandBuffer
          /\ broadcast # <<>> => Len(Tail(broadcast)) <= CommandBuffer
          /\ userBroadcast # <<>> => Len(Tail(userBroadcast)) <= CommandBuffer
          /\ disconnects # <<>> => Len(Tail(disconnects)) <= DisconnectBuffer
      BY <1>0, QueueFacts DEF WithinCapacity
    <2>2. QED BY <1>2, <2>1 DEF HubRegister, HubJoin, HubLeave, HubBroadcast, HubUserBroadcast,
                                TakeDisconnect, WithinCapacity
  <1>3. CASE HubUnregister
    <2>1. Head(unregister) \in Clients /\ Len(Tail(unregister)) <= RegisterBuffer
      BY <1>0, <1>3, QueueFacts DEF HubUnregister, WithinCapacity
    <2>2. Len(disconnects') <= DisconnectBuffer
      BY <1>3, <2>1, RemoveBounded DEF HubUnregister
    <2>3. QED BY <1>3, <2>1, <2>2 DEF HubUnregister, WithinCapacity
  <1>4. ASSUME NEW c \in Clients, DeliverOne(c) PROVE WithinCapacity'
    <2>1. fanout.payload \in Payloads
      BY DEF ValuesOK
    <2>2. \/ send' = send
          \/ /\ Len(send[c]) < SendBuffer
             /\ send' = [send EXCEPT ![c] = Append(send[c], fanout.payload)]
      BY <1>4 DEF DeliverOne
    <2>3. \A d \in Clients : Len(send'[d]) <= SendBuffer
      BY <2>1, <2>2, SendBounded
    <2>4. disconnects' = disconnects \/ removeClient(c)
      BY <1>4 DEF DeliverOne
    <2>5. Len(disconnects') <= DisconnectBuffer
      BY <2>4, RemoveBounded DEF WithinCapacity
    <2>6. QED BY <1>4, <2>3, <2>5 DEF DeliverOne, WithinCapacity
  <1>5. ASSUME NEW p \in Payloads, NEW r \in Rooms, Broadcast(r, p) PROVE WithinCapacity'
    <2>1. [room |-> r, payload |-> p] \in RoomEvent
      BY DEF RoomEvent
    <2>2. Len(broadcast') <= CommandBuffer
      BY <1>0, <1>5, <2>1, Bounded DEF Broadcast, WithinCapacity
    <2>3. QED BY <1>5, <2>2 DEF Broadcast, WithinCapacity
  <1>6. ASSUME NEW p \in Payloads, NEW u \in Users, BroadcastToUser(u, p) PROVE WithinCapacity'
    <2>1. [user |-> u, payload |-> p] \in UserEvent
      BY DEF UserEvent
    <2>2. Len(userBroadcast') <= CommandBuffer
      BY <1>0, <1>6, <2>1, Bounded DEF BroadcastToUser, WithinCapacity
    <2>3. QED BY <1>6, <2>2 DEF BroadcastToUser, WithinCapacity
  <1>7. CASE Stop \/ UNCHANGED vars
    BY <1>7 DEF Stop, vars, WithinCapacity
  <1>8. QED BY <1>1, <1>2, <1>3, <1>4, <1>5, <1>6, <1>7 DEF Next, HubStep, Environment

(* Every variable of the Hub keeps its type, for all constants, and no channel *)
(* holds more than its capacity, however callers, the Hub and the pumps race.  *)
THEOREM TypeCorrect == Spec => []TypeOK
  <1>1. Init => WithinCapacity
    BY HubAssumption DEF Init, WithinCapacity
  <1>2. IndexInv => ValuesOK
    BY DEF IndexInv
  <1>3. ValuesOK /\ WithinCapacity => TypeOK
    BY DEF TypeOK
  <1>4. ValuesOK /\ WithinCapacity /\ [Next]_vars => WithinCapacity'
    BY CapacityStep
  <1>5. QED BY <1>1, <1>2, <1>3, <1>4, IndexInvariant, PTL DEF Spec

(* hub.go: the room index, Client.rooms and the client set always agree. *)
THEOREM RoomIndexCorrect == Spec => []RoomIndexConsistent
  <1>1. IndexInv => RoomIndexConsistent
    BY DEF IndexInv
  <1>2. QED BY <1>1, IndexInvariant, PTL

(* hub.go: the per-user index is exactly the registered connections by user. *)
THEOREM UserIndexCorrect == Spec => []UserIndexConsistent
  <1>1. IndexInv => UserIndexConsistent
    BY DEF IndexInv
  <1>2. QED BY <1>1, IndexInvariant, PTL

(* hub.go: the guard of removeClient is enough; the Hub goroutine never       *)
(* closes a channel twice nor sends on a closed one.                          *)
THEOREM HubIsPanicFree == Spec => []HubNeverPanics
  <1>1. IndexInv => HubNeverPanics
    BY DEF IndexInv
  <1>2. QED BY <1>1, IndexInvariant, PTL

(* No step opens a closed channel again or adds to its queue. *)
LEMMA ClosedStepKeeps ==
    ASSUME IndexInv, [Next]_vars
    PROVE  closed \subseteq closed' /\ \A c \in closed : Len(send'[c]) <= Len(send[c])
  <1>1. /\ send \in [Clients -> Seq(Payloads)] /\ closed \subseteq Clients
        /\ \A c \in Clients : send[c] \in Seq(Payloads) /\ Len(send[c]) \in Nat
        /\ fanout.pending \subseteq Clients
    BY DEF IndexInv, ValuesOK
  <1>2. ASSUME UNCHANGED send PROVE \A c \in closed : Len(send'[c]) <= Len(send[c])
    BY <1>1, <1>2
  <1>3. ASSUME NEW d \in Clients, d \notin closed, NEW q, send' = [send EXCEPT ![d] = q]
        PROVE  \A c \in closed : Len(send'[c]) <= Len(send[c])
    BY <1>1, <1>3
  <1>4. CASE UNCHANGED vars
    BY <1>2, <1>4 DEF vars, hubState
  <1>5. CASE HubRegister \/ HubJoin \/ HubLeave \/ HubBroadcast \/ HubUserBroadcast \/ Stop \/ TakeDisconnect
    BY <1>2, <1>5 DEF HubRegister, HubJoin, HubLeave, HubBroadcast, HubUserBroadcast, Stop, TakeDisconnect,
                      hubState
  <1>6. CASE HubUnregister
    BY <1>2, <1>6 DEF HubUnregister, removeClient, TearDown
  <1>7. ASSUME NEW d \in Clients, DeliverOne(d)
        PROVE  closed \subseteq closed' /\ \A c \in closed : Len(send'[c]) <= Len(send[c])
    <2>1. CASE UNCHANGED send
      BY <1>2, <1>7, <2>1 DEF DeliverOne, removeClient, TearDown, hubState
    <2>2. CASE /\ d \notin closed /\ send' = [send EXCEPT ![d] = Append(@, fanout.payload)]
               /\ UNCHANGED hubState
      BY <1>3, <2>2 DEF hubState
    <2>3. QED BY <1>7, <2>1, <2>2 DEF DeliverOne
  <1>8. ASSUME NEW p \in Payloads, (\E r \in Rooms : Broadcast(r, p)) \/ (\E u \in Users : BroadcastToUser(u, p))
        PROVE  closed \subseteq closed' /\ \A c \in closed : Len(send'[c]) <= Len(send[c])
    BY <1>2, <1>8 DEF Broadcast, BroadcastToUser, hubState
  <1>9. ASSUME NEW d \in Clients, ClientStep(d)
        PROVE  closed \subseteq closed' /\ \A c \in closed : Len(send'[c]) <= Len(send[c])
    <2>1. closed' = closed
      BY <1>9 DEF ClientStep, Connect, StartReadPump, SendError, Join, Leave, ReadFails, Unregister,
                  WriteNext, WriteFails, hubState
    <2>2. CASE SendError(d)
      BY <1>2, <1>3, <2>1, <2>2 DEF SendError
    <2>3. CASE WriteNext(d)
      <3>1. CASE UNCHANGED send
        BY <1>2, <2>1, <3>1
      <3>2. CASE send[d] # <<>> /\ send' = [send EXCEPT ![d] = Tail(@)]
        <4>1. Len(Tail(send[d])) = Len(send[d]) - 1 /\ Len(send[d]) \in Nat
          BY <1>1, <3>2, QueueFacts
        <4>2. Len(Tail(send[d])) <= Len(send[d])
          BY <4>1
        <4>3. \A c \in Clients : send'[c] = IF c = d THEN Tail(send[d]) ELSE send[c]
          BY <1>1, <3>2
        <4>4. \A c \in Clients : Len(send[c]) <= Len(send[c])
          BY <1>1
        <4>5. QED BY <1>1, <2>1, <4>2, <4>3, <4>4
      <3>3. QED BY <2>3, <3>1, <3>2 DEF WriteNext
    <2>4. CASE \/ Connect(d) \/ StartReadPump(d) \/ ReadFails(d) \/ Unregister(d) \/ WriteFails(d)
               \/ \E r \in Rooms : Join(d, r) \/ Leave(d, r)
      BY <1>2, <2>1, <2>4 DEF Connect, StartReadPump, ReadFails, Unregister, WriteFails, Join, Leave
    <2>5. QED BY <1>9, <2>2, <2>3, <2>4 DEF ClientStep
  <1>10. QED BY <1>4, <1>5, <1>6, <1>7, <1>8, <1>9 DEF Next, HubStep, Environment

(* What RemovedForGood says of one step. *)
StaysOut ==
    \A c \in closed : /\ c \notin clients'
                      /\ Len(send'[c]) <= Len(send[c])

LEMMA StaysOutStep ==
    ASSUME IndexInv, IndexInv', [Next]_vars
    PROVE  StaysOut
  <1>1. closed \subseteq closed' /\ \A c \in closed : Len(send'[c]) <= Len(send[c])
    BY ClosedStepKeeps
  <1>2. closed' \cap clients' = {}
    BY DEF IndexInv
  <1>3. QED BY <1>1, <1>2 DEF StaysOut

(* hub.go: a connection that was removed is never registered, indexed or     *)
(* served again, whatever is still queued for it.                            *)
THEOREM RemovedStayOut == Spec => RemovedForGood
  <1>1. IndexInv /\ IndexInv' /\ [Next]_vars => [StaysOut]_vars
    BY StaysOutStep
  <1>2. QED BY <1>1, IndexInvariant, PTL DEF Spec, RemovedForGood, StaysOut

=============================================================================
