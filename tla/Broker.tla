------------------------------- MODULE Broker -------------------------------
(***************************************************************************)
(* The bridge between one server's Hub and Redis Pub/Sub                   *)
(* (internal/websocket/broker.go, internal/store/pubsub.go).               *)
(*                                                                         *)
(* The room half and the user half of the Broker are the same code twice:  *)
(* a request channel, a set of subscribed topics and a Pub/Sub connection  *)
(* each, served by one goroutine.  A topic is a room:{id} or a user:{id}   *)
(* channel, and KindOf says which half it belongs to.                      *)
(***************************************************************************)
EXTENDS Integers, Sequences

CONSTANTS
    Topics, Kinds, KindOf,
    Callers,           \* the goroutines that call EnsureSubscribed
    NoCaller,          \* the ready field of a request nobody waits for
    SubRequestBuffer   \* subRequestBuffer: capacity of each request channel

VARIABLES
    subReqs,       \* per kind: the requests queued for Run
    subscribed,    \* Broker.subscribed and Broker.userSubscribed together
    redisSubs,     \* the channels Redis has this server subscribed to
    stream,        \* per kind: events received on the Pub/Sub connection
    holding,       \* the event Run has taken and is handing to the Hub
    ready          \* per caller: the outcome of its pending EnsureSubscribed

bvars == <<subReqs, subscribed, redisSubs, stream, holding, ready>>

Request == [topic : Topics, subscribe : BOOLEAN, caller : Callers \cup {NoCaller}]
Event == [topic : Topics, id : Nat]

BTypeOK ==
    /\ subReqs \in [Kinds -> Seq(Request)]
    /\ \A k \in Kinds : Len(subReqs[k]) <= SubRequestBuffer
    /\ subscribed \in SUBSET Topics
    /\ redisSubs \in SUBSET Topics
    /\ stream \in [Kinds -> Seq(Event)]
    /\ holding \in Seq(Event)
    /\ ready \in [Callers -> {"none", "waiting", "ok", "failed"}]

BInit ==
    /\ subReqs = [k \in Kinds |-> <<>>]
    /\ subscribed = {}
    /\ redisSubs = {}
    /\ stream = [k \in Kinds |-> <<>>]
    /\ holding = <<>>
    /\ ready = [x \in Callers |-> "none"]

-----------------------------------------------------------------------------
EnsureUnbounded(x, t) ==
    /\ ready[x] = "none"
    /\ subReqs' = [subReqs EXCEPT ![KindOf[t]] =
                     Append(@, [topic |-> t, subscribe |-> TRUE, caller |-> x])]
    /\ ready' = [ready EXCEPT ![x] = "waiting"]
    /\ UNCHANGED <<subscribed, redisSubs, stream, holding>>

(* EnsureSubscribed and EnsureUserSubscribed: queue a request and wait.  A   *)
(* full channel blocks the caller.                                           *)
EnsureSubscribed(x, t) ==
    /\ ready[x] = "none"
    /\ Len(subReqs[KindOf[t]]) < SubRequestBuffer
    /\ subReqs' = [subReqs EXCEPT ![KindOf[t]] =
                     Append(@, [topic |-> t, subscribe |-> TRUE, caller |-> x])]
    /\ ready' = [ready EXCEPT ![x] = "waiting"]
    /\ UNCHANGED <<subscribed, redisSubs, stream, holding>>

(* The caller's context expires before its request is queued ...              *)
EnsureGivesUp(x) ==
    /\ ready[x] = "none"
    /\ ready' = [ready EXCEPT ![x] = "failed"]
    /\ UNCHANGED <<subReqs, subscribed, redisSubs, stream, holding>>

(* ... or before it is answered: it gives up, and the request stays           *)
(* queued with a ready channel nobody reads.                                  *)
EnsureTimesOut(x) ==
    /\ ready[x] = "waiting"
    /\ ready' = [ready EXCEPT ![x] = "failed"]
    /\ subReqs' = [k \in Kinds |-> [i \in DOMAIN subReqs[k] |->
                     IF subReqs[k][i].caller = x
                     THEN [subReqs[k][i] EXCEPT !.caller = NoCaller]
                     ELSE subReqs[k][i]]]
    /\ UNCHANGED <<subscribed, redisSubs, stream, holding>>

(* The caller reads its outcome. *)
EnsureReturns(x) ==
    /\ ready[x] \in {"ok", "failed"}
    /\ ready' = [ready EXCEPT ![x] = "none"]
    /\ UNCHANGED <<subReqs, subscribed, redisSubs, stream, holding>>

(* Unsubscribe and UnsubscribeUser, called by the Hub for one topic after the *)
(* other: never blocks, a full channel drops the request.                     *)
Unsubscribe(k, topics) ==
    LET space == SubRequestBuffer - Len(subReqs[k])
        n == IF Len(topics) < space THEN Len(topics) ELSE space
    IN subReqs[k] \o [i \in 1..n |->
                        [topic |-> topics[i], subscribe |-> FALSE, caller |-> NoCaller]]

-----------------------------------------------------------------------------
(* Run.  Free: the goroutine is at its select, not blocked on the Hub. *)
Free == holding = <<>>

ReplySuccess(x, outcome) ==
    IF x = NoCaller \/ outcome = "failed" THEN UNCHANGED ready
    ELSE ready' = [ready EXCEPT ![x] = outcome]

Reply(x, outcome) ==
    IF x = NoCaller THEN UNCHANGED ready ELSE ready' = [ready EXCEPT ![x] = outcome]

(* applySubRequest and applyUserSubRequest.  A topic that is already in the  *)
(* set is answered at once; the set forgets a topic before Redis is asked to *)
(* unsubscribe it.                                                            *)
KeepOnUnsubscribe(t) == UNCHANGED subscribed

ForgetTopic(t) == subscribed' = subscribed \ {t}

applySubRequest(k) ==
    /\ Free
    /\ subReqs[k] # <<>>
    /\ LET req == Head(subReqs[k]) IN
       IF req.subscribe
       THEN /\ subscribed' = subscribed \cup {req.topic}
            /\ redisSubs' = IF req.topic \in subscribed THEN redisSubs
                           ELSE redisSubs \cup {req.topic}
            /\ Reply(req.caller, "ok")
       ELSE /\ ForgetTopic(req.topic)
            /\ redisSubs' = redisSubs \ {req.topic}
            /\ UNCHANGED ready
    /\ subReqs' = [subReqs EXCEPT ![k] = Tail(@)]
    /\ UNCHANGED <<stream, holding>>

(* The same when Redis refuses the call: a failed subscribe is reported to   *)
(* the caller, a failed unsubscribe is logged and forgotten all the same.     *)
SubRequestFails(k) ==
    /\ Free
    /\ subReqs[k] # <<>>
    /\ LET req == Head(subReqs[k]) IN
       \/ /\ req.subscribe
          /\ req.topic \notin subscribed
          /\ Reply(req.caller, "failed")
          /\ UNCHANGED subscribed
       \/ /\ ~req.subscribe
          /\ ForgetTopic(req.topic)
          /\ UNCHANGED ready
    /\ subReqs' = [subReqs EXCEPT ![k] = Tail(@)]
    /\ UNCHANGED <<redisSubs, stream, holding>>

(* Run takes the next event of one connection ... *)
TakeAny(k) ==
    /\ Free
    /\ \E i \in DOMAIN stream[k] :
         /\ holding' = <<stream[k][i]>>
         /\ stream' = [stream EXCEPT ![k] = SubSeq(@, 1, i - 1) \o SubSeq(@, i + 1, Len(@))]
    /\ UNCHANGED <<subReqs, subscribed, redisSubs, ready>>

TakeMessage(k) ==
    /\ Free
    /\ stream[k] # <<>>
    /\ holding' = <<Head(stream[k])>>
    /\ stream' = [stream EXCEPT ![k] = Tail(@)]
    /\ UNCHANGED <<subReqs, subscribed, redisSubs, ready>>

(* ... and blocks in Hub.Broadcast or Hub.BroadcastToUser until it has handed *)
(* it over.                                                                    *)
HandOver ==
    /\ ~Free
    /\ holding' = <<>>
    /\ UNCHANGED <<subReqs, subscribed, redisSubs, stream, ready>>

PublishedTwice(t, id) ==
    IF t \in redisSubs
    THEN [stream EXCEPT ![KindOf[t]] =
            @ \o <<[topic |-> t, id |-> id], [topic |-> t, id |-> id]>>]
    ELSE stream

(* Redis PUBLISH, by this server or another: the event reaches this server    *)
(* only if it is subscribed at that moment, and is discarded otherwise.       *)
Published(t, id) ==
    IF t \in redisSubs
    THEN [stream EXCEPT ![KindOf[t]] = Append(@, [topic |-> t, id |-> id])]
    ELSE stream

Publish(t, id) ==
    /\ stream' = Published(t, id)
    /\ UNCHANGED <<subReqs, subscribed, redisSubs, holding, ready>>

-----------------------------------------------------------------------------
(* A topic the Broker believes subscribed is subscribed in Redis, so that     *)
(* EnsureSubscribed never answers from a stale entry (applySubRequest forgets *)
(* a topic even when Redis refuses the unsubscribe).                          *)
SubscribedIsReal == subscribed \subseteq redisSubs
=============================================================================
