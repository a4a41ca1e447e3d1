---------------------------- MODULE ClientProofs ----------------------------
(***************************************************************************)
(* Proofs about the smaller components of the browser, for any number of   *)
(* tabs, timers, users and operations: the typing indicator (nobody is     *)
(* shown typing for ever), presence, the dialog that makes a room (every   *)
(* request it sends is one the server accepts); and the types of all the   *)
(* browser's components together.                                          *)
(***************************************************************************)
EXTENDS MCClient, ChatTabProofs, ViewProofs

(* Typing. *)

ExpiryStates == {"new", "armed", "stopped", "firing", "expiring", "done"}

TrackerOK ==
    /\ TypingTypeOK
    /\ handler \in [Composers -> [pub : {"none", "true", "false"}, since : 0..MaxTimers, crossed : BOOLEAN]]

ListenerOK == wire \in Seq(BOOLEAN) /\ shows \in BOOLEAN /\ missed \in BOOLEAN

(* Timers are numbered in the order of their creation. *)
TimersInOrder == \E n \in 0..MaxTimers : \A k \in Timers : expiry[k] # "new" <=> k <= n

(* A handler about to publish true, unless a stop has crossed it, has its    *)
(* own timer or a later one armed: Start replaces a timer only by a new one, *)
(* and no timer that young fires before the publish is over.                 *)
StartsAreTimed ==
    \A c \in Composers : handler[c].pub = "true" =>
        /\ handler[c].since \in Timers /\ expiry[handler[c].since] # "new"
        /\ ~handler[c].crossed => \E k \in Timers : handler[c].since <= k /\ expiry[k] = "armed"

TypingInv == TrackerOK /\ ListenerOK /\ TimersInOrder /\ StartsAreTimed /\ TypingBacked

-----------------------------------------------------------------------------
LEMMA NextTimerIsNew ==
    ASSUME TrackerOK, TimersInOrder, NextTimer \in Timers
    PROVE  /\ \A k \in Timers : expiry[k] # "new" <=> k < NextTimer
           /\ NextTimer \in Nat
  <1>1. PICK n \in 0..MaxTimers : \A k \in Timers : expiry[k] # "new" <=> k <= n
    BY DEF TimersInOrder
  <1>2. MaxTimers \in Nat /\ n \in Nat
    BY TypingAssumption
  <1>3. CASE n = 0
    <2>1. Created = {}
      BY <1>1, <1>2, <1>3 DEF Created, Timers
    <2>2. NextTimer = 1
      BY <2>1 DEF NextTimer
    <2>3. QED BY <1>1, <1>2, <1>3, <2>2 DEF Timers
  <1>4. CASE n # 0
    <2>1. \A k \in Timers : k \in Created <=> k <= n
      BY <1>1 DEF Created
    <2>2. Created # {} /\ n \in Created /\ n + 1 \notin Created /\ Created \subseteq Timers
      BY <1>2, <1>4, <2>1 DEF Created, Timers
    <2>3. n + 1 \in 1..(MaxTimers + 1) /\ (n + 1) - 1 \in Created
      BY <1>2, <2>2
    <2>4. NextTimer = CHOOSE k \in 1..(MaxTimers + 1) : k \notin Created /\ k - 1 \in Created
      BY <2>2 DEF NextTimer
    <2>5. \E k \in 1..(MaxTimers + 1) : k \notin Created /\ k - 1 \in Created
      BY <2>2, <2>3
    <2>6. NextTimer \in 1..(MaxTimers + 1) /\ NextTimer \notin Created /\ NextTimer - 1 \in Created
      BY <2>4, <2>5
    <2>7. NextTimer = n + 1
      <3>1. NextTimer > n
        BY <1>2, <2>1, <2>6 DEF Timers
      <3>2. NextTimer - 1 <= n
        BY <1>2, <2>1, <2>2, <2>6
      <3>3. QED BY <1>2, <2>6, <3>1, <3>2
    <2>8. QED BY <1>1, <1>2, <2>7 DEF Timers
  <1>5. QED BY <1>3, <1>4

-----------------------------------------------------------------------------
(* What the other member will see, once the queue has been worked off. *)
LEMMA Heard ==
    ASSUME NEW w \in Seq(BOOLEAN), NEW v \in BOOLEAN
    PROVE  Append(w, v) # <<>> /\ Last(Append(w, v)) = v /\ Append(w, v) \in Seq(BOOLEAN)
  BY DEF Last

LEMMA LastTaken ==
    ASSUME NEW S, NEW w \in Seq(S), w # <<>>
    PROVE  /\ Head(w) \in S /\ Tail(w) \in Seq(S)
           /\ Tail(w) = <<>> => Last(w) = Head(w)
           /\ Tail(w) # <<>> => Last(Tail(w)) = Last(w)
           /\ Len(w) \in DOMAIN w /\ Last(w) = w[Len(w)]
  <1>1. /\ Head(w) \in S /\ Head(w) = w[1] /\ Tail(w) \in Seq(S)
        /\ Len(w) \in Nat /\ Len(w) >= 1 /\ Len(Tail(w)) = Len(w) - 1
        /\ \A i \in 1..Len(Tail(w)) : Tail(w)[i] = w[i + 1]
        /\ DOMAIN w = 1..Len(w)
    OBVIOUS
  <1>2. Last(w) = w[Len(w)] /\ Last(Tail(w)) = Tail(w)[Len(Tail(w))]
    BY DEF Last
  <1>3. ASSUME Tail(w) = <<>> PROVE Last(w) = Head(w)
    <2>1. Len(w) = 1
      BY <1>1, <1>3
    <2>2. QED BY <1>1, <1>2, <2>1
  <1>4. ASSUME Tail(w) # <<>> PROVE Last(Tail(w)) = Last(w)
    <2>1. Len(Tail(w)) \in 1..Len(Tail(w)) /\ Len(Tail(w)) + 1 = Len(w)
      BY <1>1, <1>4
    <2>2. QED BY <1>1, <1>2, <2>1
  <1>5. QED BY <1>1, <1>2, <1>3, <1>4

LEMMA LastHeard ==
    ASSUME NEW w \in Seq(BOOLEAN), w # <<>>
    PROVE  /\ Head(w) \in BOOLEAN /\ Tail(w) \in Seq(BOOLEAN)
           /\ Tail(w) = <<>> => Last(w) = Head(w)
           /\ Tail(w) # <<>> => Last(Tail(w)) = Last(w)
           /\ Len(w) \in DOMAIN w /\ Last(w) = w[Len(w)]
  BY LastTaken

(* The tab and the composers leave the tracker alone. *)
LEMMA TrackerUntouched ==
    ASSUME TypingInv, UNCHANGED <<entry, expiry, handler>>
    PROVE  TrackerOK' /\ TimersInOrder' /\ StartsAreTimed'
  BY DEF TypingInv, TrackerOK, TypingTypeOK, TimersInOrder, StartsAreTimed

LEMMA ComposersKeep ==
    ASSUME TypingInv, UNCHANGED <<entry, expiry, handler, wire, shows, missed>>
    PROVE  TypingInv'
  <1>1. ListenerOK' /\ TypingBacked'
    BY DEF TypingInv, ListenerOK, TypingBacked, WillShow, Outstanding
  <1>2. QED BY <1>1, TrackerUntouched DEF TypingInv

(* Start: whatever was armed for a pending handler makes way for a newer     *)
(* timer, which is armed.                                                    *)
LEMMA StartKeeps ==
    ASSUME TypingInv, NEW c \in Composers, handleTypingStart(c)
    PROVE  TypingInv'
  <1>1. CASE UNCHANGED <<entry, expiry, handler>>
    BY <1>1, ComposersKeep DEF handleTypingStart
  <1>2. CASE Start /\ handler' = [handler EXCEPT ![c] = [pub |-> "true", since |-> NextTimer, crossed |-> FALSE]]
    <2>1. PICK t \in Timers : t = NextTimer
      BY DEF handleTypingStart
    <2>2. t \in Nat /\ t # 0 /\ t \in 0..MaxTimers /\ \A k \in Timers : expiry[k] # "new" <=> k < t
      BY <2>1, NextTimerIsNew, TypingAssumption DEF TypingInv, Timers
    <2>3. entry' = t /\ entry' \in 0..MaxTimers
      BY <1>2, <2>1, <2>2 DEF Start
    <2>4. /\ expiry' = [k \in Timers |-> IF k = t THEN "armed"
                                     ELSE IF k = entry /\ expiry[k] = "armed" THEN "stopped" ELSE expiry[k]]
          /\ expiry'[t] = "armed"
      BY <1>2, <2>1 DEF Start
    <2>5. expiry' \in [Timers -> ExpiryStates]
      BY <2>4 DEF TypingInv, TrackerOK, TypingTypeOK, ExpiryStates
    <2>6. \A k \in Timers : k # t => (expiry'[k] # "new" <=> expiry[k] # "new")
      BY <2>4
    <2>7. /\ handler' \in [Composers -> [pub : {"none", "true", "false"}, since : 0..MaxTimers, crossed : BOOLEAN]]
          /\ \A d \in Composers : d # c => handler'[d] = handler[d]
          /\ handler'[c].since = t
      BY <1>2, <2>1, <2>2 DEF TypingInv, TrackerOK
    <2>8. TrackerOK'
      BY <2>3, <2>4, <2>5, <2>7 DEF TrackerOK, TypingTypeOK, ExpiryStates
    <2>9. TimersInOrder'
      <3>1. \A k \in Timers : expiry'[k] # "new" <=> k <= t
        BY <2>2, <2>4, <2>6 DEF Timers
      <3>2. QED BY <2>2, <3>1 DEF TimersInOrder
    <2>10. StartsAreTimed'
      <3>1. ASSUME NEW d \in Composers, handler'[d].pub = "true"
            PROVE  /\ handler'[d].since \in Timers /\ expiry'[handler'[d].since] # "new"
                   /\ handler'[d].since <= t
        <4>1. CASE d = c
          BY <2>2, <2>4, <2>7, <4>1
        <4>2. CASE d # c
          <5>1. PICK x \in Timers : x = handler[d].since /\ expiry[x] # "new"
            BY <2>7, <3>1, <4>2 DEF TypingInv, StartsAreTimed
          <5>2. x < t /\ x \in Nat
            BY <2>2, <5>1 DEF Timers
          <5>3. expiry'[x] # "new" /\ x <= t
            BY <2>2, <2>6, <5>1, <5>2
          <5>4. QED BY <2>7, <4>2, <5>1, <5>3
        <4>3. QED BY <4>1, <4>2
      <3>2. QED BY <2>4, <3>1 DEF StartsAreTimed
    <2>11. t \in Outstanding'
      BY <2>4 DEF Outstanding
    <2>12. ListenerOK' /\ TypingBacked'
      BY <2>11 DEF handleTypingStart, TypingInv, ListenerOK, TypingBacked
    <2>13. QED BY <2>8, <2>9, <2>10, <2>12 DEF TypingInv
  <1>3. QED BY <1>1, <1>2 DEF handleTypingStart

LEMMA StopKeeps ==
    ASSUME TypingInv, NEW c \in Composers, handleTypingStop(c)
    PROVE  TypingInv'
  <1>1. /\ entry' = 0
        /\ expiry' = [k \in Timers |-> IF k = entry /\ expiry[k] = "armed" THEN "stopped" ELSE expiry[k]]
        /\ UNCHANGED <<wire, shows, missed>>
    BY DEF handleTypingStop, Stop
  <1>2. handler' = [d \in Composers |-> IF d = c THEN [pub |-> "false", since |-> 0, crossed |-> FALSE]
                                        ELSE [handler[d] EXCEPT !.crossed = handler[d].pub = "true"]]
    BY DEF handleTypingStop
  <1>3. 0 \in 0..MaxTimers
    BY TypingAssumption
  <1>4. /\ expiry' \in [Timers -> ExpiryStates]
        /\ \A k \in Timers : expiry'[k] # "new" <=> expiry[k] # "new"
    BY <1>1 DEF TypingInv, TrackerOK, TypingTypeOK, ExpiryStates
  <1>5. ASSUME NEW d \in Composers
        PROVE  /\ handler'[d] \in [pub : {"none", "true", "false"}, since : 0..MaxTimers, crossed : BOOLEAN]
               /\ handler'[d].pub = "true" => /\ handler'[d].crossed
                                              /\ handler[d].pub = "true" /\ handler'[d].since = handler[d].since
               /\ d = c => handler'[d].pub = "false"
    <2>1. handler[d] \in [pub : {"none", "true", "false"}, since : 0..MaxTimers, crossed : BOOLEAN]
      BY DEF TypingInv, TrackerOK
    <2>2. CASE d = c
      BY <1>2, <1>3, <2>2
    <2>3. CASE d # c
      <3>1. handler'[d] = [handler[d] EXCEPT !.crossed = handler[d].pub = "true"]
        BY <1>2, <2>3
      <3>2. /\ handler'[d] \in [pub : {"none", "true", "false"}, since : 0..MaxTimers, crossed : BOOLEAN]
            /\ handler'[d].pub = handler[d].pub /\ handler'[d].since = handler[d].since
            /\ handler'[d].crossed = (handler[d].pub = "true")
        BY <2>1, <3>1
      <3>3. QED BY <2>3, <3>2
    <2>4. QED BY <2>2, <2>3
  <1>6. handler' \in [Composers -> [pub : {"none", "true", "false"}, since : 0..MaxTimers, crossed : BOOLEAN]]
    BY <1>2, <1>5
  <1>7. TrackerOK'
    BY <1>1, <1>3, <1>4, <1>6 DEF TrackerOK, TypingTypeOK, ExpiryStates
  <1>8. TimersInOrder'
    BY <1>4 DEF TypingInv, TimersInOrder
  <1>9. StartsAreTimed'
    BY <1>4, <1>5 DEF TypingInv, StartsAreTimed
  <1>10. ListenerOK'
    BY <1>1 DEF TypingInv, ListenerOK
  <1>11. TypingBacked'
    BY <1>5 DEF TypingBacked
  <1>12. QED BY <1>7, <1>8, <1>9, <1>10, <1>11 DEF TypingInv

(* A true is published while its timer is armed, or missed records it. *)
LEMMA PublishKeeps ==
    ASSUME TypingInv, NEW c \in Composers, HandlerPublishes(c)
    PROVE  TypingInv'
  <1>1. UNCHANGED <<entry, expiry, shows>> /\ handler' = [handler EXCEPT ![c] = NoHandler]
    BY DEF HandlerPublishes
  <1>2. PICK v \in BOOLEAN : v = (handler[c].pub = "true")
    OBVIOUS
  <1>3. /\ handler' \in [Composers -> [pub : {"none", "true", "false"}, since : 0..MaxTimers, crossed : BOOLEAN]]
        /\ \A d \in Composers : d # c => handler'[d] = handler[d]
        /\ handler'[c].pub = "none"
    BY <1>1, TypingAssumption DEF TypingInv, TrackerOK, NoHandler
  <1>4. TrackerOK' /\ TimersInOrder' /\ StartsAreTimed'
    BY <1>1, <1>3 DEF TypingInv, TrackerOK, TypingTypeOK, TimersInOrder, StartsAreTimed
  <1>5. UNCHANGED Outstanding
    BY <1>1 DEF Outstanding
  <1>6. v /\ ~handler[c].crossed => Outstanding # {}
    BY <1>2 DEF TypingInv, StartsAreTimed, Outstanding
  <1>7. CASE /\ wire' = Append(wire, v)
             /\ missed' = (v /\ handler[c].crossed /\ Outstanding = {})
    <2>1. ListenerOK' /\ WillShow' = v
      BY <1>1, <1>7, Heard DEF TypingInv, ListenerOK, WillShow
    <2>2. WillShow' /\ ~missed' => Outstanding' # {}
      BY <1>5, <1>6, <1>7, <2>1
    <2>3. QED BY <1>4, <2>1, <2>2 DEF TypingInv, TypingBacked
  <1>8. CASE UNCHANGED wire /\ missed' = (missed \/ ~v)
    <2>1. ListenerOK' /\ WillShow' = WillShow
      BY <1>1, <1>8 DEF TypingInv, ListenerOK, WillShow
    <2>2. ~missed' => ~missed /\ handler[c].pub = "true"
      BY <1>2, <1>8
    <2>3. TypingBacked'
      BY <1>3, <1>5, <2>1, <2>2 DEF TypingInv, TypingBacked
    <2>4. QED BY <1>4, <2>1, <2>3 DEF TypingInv
  <1>9. QED BY <1>2, <1>7, <1>8 DEF HandlerPublishes, PublishTyping

LEMMA TimersKeep ==
    ASSUME TypingInv, NEW x \in Timers, TimerFires(x) \/ TimerDeletes(x) \/ TimerPublishes(x)
    PROVE  TypingInv'
  <1>1. /\ UNCHANGED <<handler, shows>>
        /\ \A k \in Timers : k # x => expiry'[k] = expiry[k]
        /\ expiry[x] # "new" /\ expiry'[x] # "new" /\ expiry' \in [Timers -> ExpiryStates]
        /\ entry' = entry \/ entry' = 0
    BY DEF TimerFires, TimerDeletes, TimerPublishes, TypingInv, TrackerOK, TypingTypeOK, ExpiryStates
  <1>2. entry' # 0 => expiry'[entry'] \in {"armed", "firing"}
    <2>1. entry \in 0..MaxTimers /\ (entry # 0 => entry \in Timers /\ expiry[entry] \in {"armed", "firing"})
      BY TypingAssumption DEF TypingInv, TrackerOK, TypingTypeOK, Timers
    <2>2. CASE TimerFires(x)
      BY <1>1, <2>1, <2>2 DEF TimerFires, TypingInv, TrackerOK, TypingTypeOK
    <2>3. CASE TimerDeletes(x)
      BY <2>3 DEF TimerDeletes
    <2>4. CASE TimerPublishes(x)
      BY <1>1, <2>1, <2>4 DEF TimerPublishes
    <2>5. QED BY <2>2, <2>3, <2>4
  <1>3. TrackerOK'
    BY <1>1, <1>2, TypingAssumption DEF TypingInv, TrackerOK, TypingTypeOK, ExpiryStates
  <1>4. TimersInOrder'
    BY <1>1 DEF TypingInv, TimersInOrder
  <1>5. StartsAreTimed'
    <2>1. ASSUME NEW d \in Composers, handler[d].pub = "true", NEW k \in Timers, handler[d].since <= k,
                 expiry[k] = "armed"
          PROVE  expiry'[k] = "armed"
      <3>1. handler[d].since \in Nat /\ k \in Nat
        BY TypingAssumption DEF TypingInv, TrackerOK, Timers
      <3>2. k # x
        <4>1. CASE TimerFires(x)
          <5>1. x < handler[d].since
            BY <2>1, <4>1 DEF TimerFires
          <5>2. QED BY <2>1, <3>1, <5>1
        <4>2. CASE TimerDeletes(x) \/ TimerPublishes(x)
          BY <2>1, <4>2 DEF TimerDeletes, TimerPublishes
        <4>3. QED BY <4>1, <4>2
      <3>3. QED BY <1>1, <2>1, <3>2
    <2>2. \A d \in Composers : handler[d].pub = "true" =>
             handler[d].since \in Timers /\ expiry'[handler[d].since] # "new"
      BY <1>1 DEF TypingInv, StartsAreTimed
    <2>3. QED BY <1>1, <2>1, <2>2 DEF TypingInv, StartsAreTimed
  <1>6. ListenerOK' /\ TypingBacked'
    <2>1. CASE TimerFires(x) \/ TimerDeletes(x)
      <3>1. UNCHANGED <<wire, missed>> /\ x \in Outstanding'
        BY <2>1 DEF TimerFires, TimerDeletes, Outstanding, TypingInv, TrackerOK, TypingTypeOK
      <3>2. QED BY <1>1, <3>1 DEF TypingInv, ListenerOK, TypingBacked
    <2>2. CASE TimerPublishes(x)
      <3>1. CASE wire' = Append(wire, FALSE) /\ missed' = FALSE
        <4>1. ListenerOK' /\ WillShow' = FALSE
          BY <1>1, <3>1, Heard DEF TypingInv, ListenerOK, WillShow
        <4>2. QED BY <4>1 DEF TypingBacked
      <3>2. CASE UNCHANGED wire /\ missed' = TRUE
        BY <1>1, <3>2 DEF TypingInv, ListenerOK, TypingBacked
      <3>3. QED BY <2>2, <3>1, <3>2 DEF TimerPublishes, PublishTyping
    <2>3. QED BY <2>1, <2>2
  <1>7. QED BY <1>3, <1>4, <1>5, <1>6 DEF TypingInv

(* The other member's tab: what it loses with its socket is missed. *)
LEMMA ListenerKeeps ==
    ASSUME TypingInv, ShowTyping \/ ListenerDrops \/ ListenerReturns \/ ListenerRemounts
    PROVE  TypingInv'
  <1>1. UNCHANGED <<entry, expiry, handler>>
    BY DEF ShowTyping, ListenerDrops, ListenerReturns, ListenerRemounts
  <1>2. TrackerOK' /\ TimersInOrder' /\ StartsAreTimed'
    BY <1>1, TrackerUntouched
  <1>3. ListenerOK
    BY DEF TypingInv
  <1>4. ListenerOK' /\ (WillShow' /\ ~missed' => WillShow /\ ~missed)
    <2>1. CASE ShowTyping
      <3>1. /\ wire # <<>> /\ wire \in Seq(BOOLEAN) /\ shows' = Head(wire) /\ wire' = Tail(wire)
            /\ missed' = missed
        BY <1>3, <2>1 DEF ShowTyping, ListenerOK
      <3>2. WillShow = Last(wire)
        BY <3>1 DEF WillShow
      <3>3. WillShow' = Last(wire)
        <4>1. CASE Tail(wire) = <<>>
          BY <3>1, <4>1, LastHeard DEF WillShow
        <4>2. CASE Tail(wire) # <<>>
          BY <3>1, <4>2, LastHeard DEF WillShow
        <4>3. QED BY <4>1, <4>2
      <3>4. ListenerOK'
        BY <1>3, <3>1, LastHeard DEF ListenerOK
      <3>5. QED BY <3>1, <3>2, <3>3, <3>4
    <2>2. CASE ListenerDrops
      <3>1. /\ wire' = <<>> /\ shows' = shows /\ wire \in Seq(BOOLEAN)
            /\ missed' = (missed \/ \E k \in DOMAIN wire : ~wire[k])
        BY <1>3, <2>2 DEF ListenerDrops, ListenerOK
      <3>2. ASSUME WillShow', ~missed' PROVE WillShow /\ ~missed
        <4>1. CASE wire = <<>>
          BY <3>1, <3>2, <4>1 DEF WillShow
        <4>2. CASE wire # <<>>
          <5>1. Len(wire) \in DOMAIN wire /\ Last(wire) = wire[Len(wire)]
            BY <3>1, <4>2, LastHeard
          <5>2. wire[Len(wire)] /\ ~missed
            BY <3>1, <3>2, <5>1
          <5>3. QED BY <4>2, <5>1, <5>2 DEF WillShow
        <4>3. QED BY <4>1, <4>2
      <3>3. ListenerOK'
        <4>1. <<>> \in Seq(BOOLEAN)
          OBVIOUS
        <4>2. QED BY <1>3, <3>1, <4>1 DEF ListenerOK
      <3>4. QED BY <3>2, <3>3
    <2>3. CASE ListenerReturns
      BY <1>3, <2>3 DEF ListenerReturns, ListenerOK, WillShow
    <2>4. CASE ListenerRemounts
      BY <1>3, <2>4 DEF ListenerRemounts, ListenerOK, WillShow
    <2>5. QED BY <2>1, <2>2, <2>3, <2>4
  <1>5. TypingBacked'
    BY <1>1, <1>4 DEF TypingInv, TypingBacked, Outstanding
  <1>6. QED BY <1>2, <1>4, <1>5 DEF TypingInv

LEMMA TypingStep ==
    ASSUME TypingInv, [TypingNext]_typingVars
    PROVE  TypingInv'
  <1>1. CASE UNCHANGED typingVars
    BY <1>1, ComposersKeep DEF typingVars
  <1>2. ASSUME NEW c \in Composers, notifyTyping(c) \/ stopTyping(c) \/ TypistDrops(c) PROVE TypingInv'
    BY <1>2, ComposersKeep DEF notifyTyping, stopTyping, TypistDrops
  <1>3. QED BY <1>1, <1>2, StartKeeps, StopKeeps, PublishKeeps, TimersKeep, ListenerKeeps DEF TypingNext

LEMMA TypingStarts == TypingInit => TypingInv
  <1> SUFFICES ASSUME TypingInit PROVE TypingInv
    OBVIOUS
  <1>1. 0 \in 0..MaxTimers /\ \A k \in Timers : ~(k <= 0)
    BY TypingAssumption DEF Timers
  <1>2. TrackerOK /\ TimersInOrder
    BY <1>1 DEF TypingInit, TrackerOK, TypingTypeOK, NoHandler, TimersInOrder
  <1>3. ListenerOK
    <2>1. <<>> \in Seq(BOOLEAN)
      OBVIOUS
    <2>2. QED BY <2>1 DEF TypingInit, ListenerOK
  <1>4. StartsAreTimed
    BY DEF TypingInit, StartsAreTimed, NoHandler
  <1>5. TypingBacked
    BY DEF TypingInit, TypingBacked, WillShow
  <1>6. QED BY <1>2, <1>3, <1>4, <1>5 DEF TypingInv

-----------------------------------------------------------------------------
(* The inductive invariant of the indicator: the tracker's types, timers     *)
(* numbered as they are created, and a timer armed for every publish of true *)
(* that no stop has crossed.                                                 *)
THEOREM TypingInvariant == TypingSpec => []TypingInv
  BY TypingStarts, TypingStep, PTL DEF TypingSpec

(* The tracker's entry is a timer that has not run yet (typing.go's map). *)
THEOREM TypingTypes == TypingSpec => []TypingTypeOK
  <1>1. TypingInv => TypingTypeOK
    BY DEF TypingInv, TrackerOK
  <1>2. QED BY <1>1, TypingInvariant, PTL

(* Nobody is shown typing for ever: while the indicator is on, a timer or a  *)
(* handler is left that turns it off, however many tabs type at once.        *)
THEOREM TypingEnds == TypingSpec => []TypingBacked
  <1>1. TypingInv => TypingBacked
    BY DEF TypingInv
  <1>2. QED BY <1>1, TypingInvariant, PTL

-----------------------------------------------------------------------------
(* Presence. *)

Statuses == {"online", "away"}

(* The per-tab state of the jobs and of the browser. *)
PresInv ==
    /\ conns \in Int /\ shownAs \in {"none", "online", "away"}
    /\ line \in [Tabs -> BOOLEAN] /\ beat \in [Tabs -> BOOLEAN] /\ awayTimer \in [Tabs -> BOOLEAN]
    /\ online \in [Tabs -> {"idle", "incr", "extend", "set"}]
    /\ offline \in [Tabs -> {"idle", "reset", "del"}]
    /\ disconnects \in [Tabs -> 0..DisconnectBuffer]
    /\ selfStatus \in [Tabs -> Statuses]
    /\ frames \in [Tabs -> Seq(Statuses)]

LEMMA RedisKeeps ==
    ASSUME PresInv, Lapse \/ ConnsLapse
    PROVE  PresInv'
  <1>1. CASE Lapse
    BY <1>1 DEF PresInv, Lapse, DelStatusKey, jobs, browser
  <1>2. CASE ConnsLapse
    BY <1>2 DEF PresInv, ConnsLapse, jobs, browser
  <1>3. QED BY <1>1, <1>2

LEMMA ConnectKeeps ==
    ASSUME PresInv, NEW t \in Tabs, Connect(t) \/ PresenceConnect(t) \/ ConnectFails(t)
    PROVE  PresInv'
  <1>1. CASE Connect(t)
    <2>1. <<>> \in Seq(Statuses) /\ <<selfStatus[t]>> \in Seq(Statuses)
      BY DEF PresInv
    <2>2. QED BY <1>1, <2>1 DEF PresInv, Connect, redis, browser
  <1>2. CASE PresenceConnect(t)
    <2>1. conns' \in Int /\ shownAs' \in {"none", "online", "away"}
      BY <1>2 DEF PresInv, PresenceConnect, ExpireStatusKey, SetStatusKey
    <2>2. online' \in [Tabs -> {"idle", "incr", "extend", "set"}]
      BY <1>2 DEF PresInv, PresenceConnect
    <2>3. QED BY <1>2, <2>1, <2>2 DEF PresInv, PresenceConnect, browser
  <1>3. CASE ConnectFails(t)
    BY <1>3 DEF PresInv, ConnectFails, redis, browser
  <1>4. QED BY <1>1, <1>2, <1>3

LEMMA LivingKeeps ==
    ASSUME PresInv, NEW t \in Tabs, PresenceSetStatus(t) \/ PresenceHeartbeat(t) \/ Resurrect(t)
    PROVE  PresInv'
  <1>1. CASE PresenceSetStatus(t)
    <2>1. frames[t] \in Seq(Statuses) /\ frames[t] # <<>>
      BY <1>1 DEF PresInv, PresenceSetStatus
    <2>2. Head(frames[t]) \in Statuses /\ Tail(frames[t]) \in Seq(Statuses)
      BY <2>1
    <2>3. frames' \in [Tabs -> Seq(Statuses)]
      BY <1>1, <2>2 DEF PresInv, PresenceSetStatus
    <2>4. shownAs' \in {"none", "online", "away"}
      BY <1>1, <2>2 DEF PresInv, PresenceSetStatus, SetStatusKey, Statuses
    <2>5. QED BY <1>1, <2>3, <2>4 DEF PresInv, PresenceSetStatus, jobs, browser
  <1>2. CASE PresenceHeartbeat(t)
    BY <1>2 DEF PresInv, PresenceHeartbeat, ExpireStatusKey, browser
  <1>3. CASE Resurrect(t)
    BY <1>3 DEF PresInv, Resurrect, SetStatusKey, browser
  <1>4. QED BY <1>1, <1>2, <1>3

LEMMA EndingKeeps ==
    ASSUME PresInv, NEW t \in Tabs,
           ClientDisconnected(t) \/ PresenceDisconnect(t) \/ DisconnectFails(t) \/ Crash(t)
    PROVE  PresInv'
  <1>1. <<>> \in Seq(Statuses) /\ DisconnectBuffer \in Nat
    BY PresenceAssumption
  <1>2. CASE ClientDisconnected(t)
    <2>1. disconnects' \in [Tabs -> 0..DisconnectBuffer]
      BY <1>1, <1>2 DEF PresInv, ClientDisconnected
    <2>2. QED BY <1>1, <1>2, <2>1 DEF PresInv, ClientDisconnected, redis, browser
  <1>3. CASE PresenceDisconnect(t)
    <2>1. disconnects' \in [Tabs -> 0..DisconnectBuffer] /\ conns' \in Int
      <3>1. disconnects[t] \in 0..DisconnectBuffer /\ disconnects \in [Tabs -> 0..DisconnectBuffer] /\ conns \in Int
        BY DEF PresInv
      <3>2. disconnects[t] > 0 => disconnects[t] - 1 \in 0..DisconnectBuffer
        BY <1>1, <3>1
      <3>3. \/ disconnects' = disconnects
            \/ disconnects[t] > 0 /\ disconnects' = [disconnects EXCEPT ![t] = disconnects[t] - 1]
        BY <1>3 DEF PresenceDisconnect
      <3>4. conns' \in {conns, conns - 1, 0}
        BY <1>3 DEF PresenceDisconnect
      <3>5. QED BY <3>1, <3>2, <3>3, <3>4
    <2>2. offline' \in [Tabs -> {"idle", "reset", "del"}]
      BY <1>3 DEF PresInv, PresenceDisconnect
    <2>3. QED BY <1>3, <2>1, <2>2 DEF PresInv, PresenceDisconnect, DelStatusKey, browser
  <1>4. CASE DisconnectFails(t)
    <2>1. disconnects' \in [Tabs -> 0..DisconnectBuffer]
      <3>1. disconnects[t] \in 0..DisconnectBuffer /\ disconnects \in [Tabs -> 0..DisconnectBuffer]
        BY DEF PresInv
      <3>2. disconnects[t] > 0 => disconnects[t] - 1 \in 0..DisconnectBuffer
        BY <1>1, <3>1
      <3>3. \/ disconnects' = disconnects
            \/ disconnects[t] > 0 /\ disconnects' = [disconnects EXCEPT ![t] = disconnects[t] - 1]
        BY <1>4 DEF DisconnectFails
      <3>4. QED BY <3>1, <3>2, <3>3
    <2>2. QED BY <1>4, <2>1 DEF PresInv, DisconnectFails, redis, browser
  <1>5. CASE Crash(t)
    BY <1>1, <1>5 DEF PresInv, Crash, redis, browser
  <1>6. QED BY <1>2, <1>3, <1>4, <1>5

LEMMA StatusSet ==
    ASSUME PresInv, NEW t \in Tabs, NEW v \in Statuses, setSelfStatus(t, v)
    PROVE  selfStatus' \in [Tabs -> Statuses] /\ frames' \in [Tabs -> Seq(Statuses)]
  <1>1. Append(frames[t], v) \in Seq(Statuses)
    BY DEF PresInv
  <1>2. QED BY <1>1 DEF PresInv, setSelfStatus

LEMMA BrowserKeeps ==
    ASSUME PresInv, NEW t \in Tabs, AutoAway(t) \/ onActivity(t) \/ Toggle(t)
    PROVE  PresInv'
  <1>1. selfStatus' \in [Tabs -> Statuses] /\ frames' \in [Tabs -> Seq(Statuses)]
    BY StatusSet DEF AutoAway, onActivity, Toggle, Statuses, PresInv
  <1>2. QED BY <1>1 DEF PresInv, AutoAway, onActivity, Toggle, redis, jobs

LEMMA PresStep ==
    ASSUME PresInv, [PresNext]_presVars
    PROVE  PresInv'
  <1>1. CASE UNCHANGED presVars
    BY <1>1 DEF PresInv, presVars, redis, jobs, browser
  <1>2. QED BY <1>1, RedisKeeps, ConnectKeeps, LivingKeeps, EndingKeeps, BrowserKeeps DEF PresNext, PresTab

LEMMA PresStarts == PresInit => PresInv
  <1>1. <<>> \in Seq(Statuses) /\ 0 \in 0..DisconnectBuffer /\ 0 \in Int
    BY PresenceAssumption
  <1>2. QED BY <1>1 DEF PresInit, PresInv, Statuses

(* Whatever two processes' jobs, crashes and failed commands do to the       *)
(* counter and the status key, a job is at one of its commands, a queue of   *)
(* disconnects within its buffer (presence.go), and a tab online or away.    *)
THEOREM PresenceTypes == PresSpec => []PresTypeOK
  <1>1. PresInv => PresTypeOK
    BY DEF PresInv, PresTypeOK, Statuses
  <1>2. QED BY <1>1, PresStarts, PresStep, PTL DEF PresSpec

-----------------------------------------------------------------------------
(* The dialog. *)

Distinct(s) == \A i, j \in DOMAIN s : s[i] = s[j] => i = j

(* What the pickers may stage: others, each once; a peer who is not Self.    *)
(* A closed dialog is empty, so nothing of an earlier visit is sent.         *)
Staged ==
    /\ groupMembers \in Seq(People \ {Self}) /\ Distinct(groupMembers)
    /\ directPeer \in (People \ {Self}) \cup {NoOne}
    /\ found \subseteq People

DialogInv == DialogTypeOK /\ Staged /\ RequestWellFormed

LEMMA AppendDistinct ==
    ASSUME NEW S, NEW s \in Seq(S), Distinct(s), NEW u \in S, u \notin ToSet(s)
    PROVE  Append(s, u) \in Seq(S) /\ Distinct(Append(s, u))
  <1>1. \A i \in 1..Len(s) : s[i] # u
    BY DEF ToSet
  <1>2. /\ Append(s, u) \in Seq(S) /\ DOMAIN Append(s, u) = 1..(Len(s) + 1)
        /\ \A i \in 1..Len(s) : Append(s, u)[i] = s[i]
        /\ Append(s, u)[Len(s) + 1] = u /\ Len(s) \in Nat /\ DOMAIN s = 1..Len(s)
    OBVIOUS
  <1>3. QED BY <1>1, <1>2 DEF Distinct

LEMMA RemoveDistinct ==
    ASSUME NEW S, NEW s \in Seq(S), Distinct(s), NEW n \in DOMAIN s
    PROVE  RemoveAt(s, n) \in Seq(S) /\ Distinct(RemoveAt(s, n))
  <1> DEFINE a == SubSeq(s, 1, n - 1)
             b == SubSeq(s, n + 1, Len(s))
  <1>1. Len(s) \in Nat /\ DOMAIN s = 1..Len(s) /\ n \in 1..Len(s)
    OBVIOUS
  <1>2. a \in Seq(S) /\ Len(a) = n - 1 /\ \A i \in 1..(n - 1) : a[i] = s[i]
    BY <1>1
  <1>3. b \in Seq(S) /\ Len(b) = Len(s) - n /\ \A i \in 1..(Len(s) - n) : b[i] = s[n + i]
    BY <1>1
  <1>4. PICK r : r = a \o b
    OBVIOUS
  <1> HIDE DEF a, b
  <1>5. r \in Seq(S) /\ Len(r) = Len(s) - 1 /\ DOMAIN r = 1..(Len(s) - 1)
    <2>1. a \in Seq(S) /\ b \in Seq(S)
      BY <1>2, <1>3
    <2>2. r \in Seq(S) /\ Len(r) = Len(a) + Len(b)
      BY <1>4, <2>1
    <2>3. Len(a) + Len(b) = Len(s) - 1
      BY <1>1, <1>2, <1>3
    <2>4. QED BY <2>2, <2>3
  <1>6. \A i \in 1..(Len(s) - 1) : i < n => r[i] = s[i]
    BY <1>1, <1>2, <1>3, <1>4
  <1>7. ASSUME NEW i \in 1..(Len(s) - 1), ~(i < n) PROVE r[i] = s[i + 1]
    <2>1. i - (n - 1) \in 1..(Len(s) - n) /\ n + (i - (n - 1)) = i + 1
      BY <1>1, <1>7
    <2>2. r[i] = b[i - (n - 1)]
      BY <1>1, <1>2, <1>3, <1>4, <1>7
    <2>3. QED BY <1>3, <2>1, <2>2
  <1>8. Distinct(r)
    <2> SUFFICES ASSUME NEW i \in DOMAIN r, NEW j \in DOMAIN r, r[i] = r[j] PROVE i = j
      BY DEF Distinct
    <2>1. i \in 1..(Len(s) - 1) /\ j \in 1..(Len(s) - 1)
      BY <1>5
    <2>2. ASSUME NEW k \in 1..(Len(s) - 1)
          PROVE  \E x \in DOMAIN s : r[k] = s[x] /\ ((k < n /\ x = k) \/ (~(k < n) /\ x = k + 1))
      <3>1. CASE k < n
        <4>1. k \in DOMAIN s
          BY <1>1, <3>1
        <4>2. QED BY <1>6, <3>1, <4>1
      <3>2. CASE ~(k < n)
        <4>1. k + 1 \in DOMAIN s
          BY <1>1, <3>2
        <4>2. QED BY <1>7, <3>2, <4>1
      <3>3. QED BY <3>1, <3>2
    <2>3. PICK x \in DOMAIN s : r[i] = s[x] /\ ((i < n /\ x = i) \/ (~(i < n) /\ x = i + 1))
      BY <2>1, <2>2
    <2>4. PICK y \in DOMAIN s : r[j] = s[y] /\ ((j < n /\ y = j) \/ (~(j < n) /\ y = j + 1))
      BY <2>1, <2>2
    <2>5. x = y
      BY <2>3, <2>4 DEF Distinct
    <2>6. QED BY <1>1, <2>1, <2>3, <2>4, <2>5
  <1>9. RemoveAt(s, n) = r
    BY <1>4 DEF RemoveAt, a, b
  <1>10. QED BY <1>5, <1>8, <1>9

(* Members staged once each are as many as the list is long. *)
LEMMA DistinctCount ==
    ASSUME NEW S, NEW s \in Seq(S), Distinct(s)
    PROVE  Cardinality(ToSet(s)) = Len(s)
  <1>1. Len(s) \in Nat /\ DOMAIN s = 1..Len(s)
    OBVIOUS
  <1>2. s \in Bijection(1..Len(s), ToSet(s))
    <2>1. s \in [1..Len(s) -> ToSet(s)]
      BY <1>1 DEF ToSet
    <2>2. \A y \in ToSet(s) : \E i \in 1..Len(s) : s[i] = y
      BY <1>1 DEF ToSet
    <2>3. s \in Injection(1..Len(s), ToSet(s))
      BY <1>1, <2>1 DEF Injection, IsInjective, Distinct
    <2>4. QED BY <2>1, <2>2, <2>3 DEF Bijection, Surjection
  <1>3. IsFiniteSet(1..Len(s)) /\ Cardinality(1..Len(s)) = Len(s)
    BY <1>1, FS_Interval
  <1>4. ExistsBijection(1..Len(s), ToSet(s))
    BY <1>2 DEF ExistsBijection
  <1>5. QED BY <1>3, <1>4, FS_Bijection

LEMMA NobodyStaged == <<>> \in Seq(People \ {Self}) /\ Distinct(<<>>) /\ <<>> \in Seq(People)
  BY DEF Distinct

LEMMA StagedArePeople ==
    ASSUME Staged
    PROVE  groupMembers \in Seq(People) /\ directPeer \in People \cup {NoOne}
  BY DEF Staged

LEMMA ResetKeeps ==
    ASSUME DialogInv, reset, open' = FALSE, UNCHANGED posted
    PROVE  DialogInv'
  BY NobodyStaged DEF DialogInv, DialogTypeOK, Staged, RequestWellFormed, reset, clearUserSearch, NameKinds

LEMMA OpenCloseKeeps ==
    ASSUME DialogInv, OpenOrClose \/ CreateAnswered
    PROVE  DialogInv'
  <1>1. CASE reset /\ open' = FALSE /\ UNCHANGED posted
    BY <1>1, ResetKeeps
  <1>2. CASE UNCHANGED <<kind, name, picks, search, posted>> /\ (open' \/ UNCHANGED open)
    BY <1>2 DEF DialogInv, DialogTypeOK, Staged, RequestWellFormed, picks, search
  <1>3. OpenOrClose => \/ reset /\ open' = FALSE /\ UNCHANGED posted
                       \/ UNCHANGED <<kind, name, picks, search, posted>> /\ open'
    BY DEF OpenOrClose, handleOpenChangeTo
  <1>4. CreateAnswered => \/ reset /\ open' = FALSE /\ UNCHANGED posted
                          \/ UNCHANGED <<kind, name, picks, search, posted>> /\ UNCHANGED open
    BY DEF CreateAnswered, handleOpenChangeTo
  <1>5. QED BY <1>1, <1>2, <1>3, <1>4

LEMMA FieldsKeep ==
    ASSUME DialogInv,
           \/ TypeName \/ TypeSearch \/ Debounce \/ SearchAnswered \/ ClearPeer
           \/ \E next \in {"channel", "group", "direct"} : changeKind(next)
    PROVE  DialogInv'
  <1>1. CASE TypeName \/ TypeSearch \/ Debounce
    BY <1>1 DEF DialogInv, DialogTypeOK, Staged, RequestWellFormed, TypeName, TypeSearch, Debounce, picks, search
  <1>2. CASE SearchAnswered
    BY <1>2 DEF DialogInv, DialogTypeOK, Staged, RequestWellFormed, SearchAnswered, picks
  <1>3. CASE ClearPeer
    BY <1>3 DEF DialogInv, DialogTypeOK, Staged, RequestWellFormed, ClearPeer, search
  <1>4. CASE \E next \in {"channel", "group", "direct"} : changeKind(next)
    BY <1>4, NobodyStaged
       DEF DialogInv, DialogTypeOK, Staged, RequestWellFormed, changeKind, clearUserSearch
  <1>5. QED BY <1>1, <1>2, <1>3, <1>4

LEMMA PickersKeep ==
    ASSUME DialogInv, NEW u \in People, addGroupMember(u) \/ removeGroupMember(u) \/ selectDirectPeer(u)
    PROVE  DialogInv'
  <1>1. CASE addGroupMember(u)
    <2>1. u \in People \ {Self} /\ u \notin ToSet(groupMembers) /\ groupMembers' = Append(groupMembers, u)
      BY <1>1 DEF addGroupMember, groupResults
    <2>2. groupMembers' \in Seq(People \ {Self}) /\ Distinct(groupMembers')
      BY <2>1, AppendDistinct DEF DialogInv, Staged
    <2>3. Staged'
      BY <1>1, <2>2 DEF DialogInv, Staged, addGroupMember, clearUserSearch
    <2>4. groupMembers' \in Seq(People)
      BY <2>2
    <2>5. QED BY <1>1, <2>3, <2>4 DEF DialogInv, DialogTypeOK, RequestWellFormed, addGroupMember
  <1>2. CASE removeGroupMember(u)
    <2>1. PICK i \in DOMAIN groupMembers : groupMembers' = RemoveAt(groupMembers, i)
      BY <1>2 DEF removeGroupMember
    <2>2. groupMembers' \in Seq(People \ {Self}) /\ Distinct(groupMembers')
      BY <2>1, RemoveDistinct DEF DialogInv, Staged
    <2>3. Staged'
      BY <1>2, <2>2 DEF DialogInv, Staged, removeGroupMember, search
    <2>4. groupMembers' \in Seq(People)
      BY <2>2
    <2>5. QED BY <1>2, <2>3, <2>4 DEF DialogInv, DialogTypeOK, RequestWellFormed, removeGroupMember
  <1>3. CASE selectDirectPeer(u)
    BY <1>3 DEF DialogInv, DialogTypeOK, Staged, RequestWellFormed, selectDirectPeer, directResults, clearUserSearch
  <1>4. QED BY <1>1, <1>2, <1>3

LEMMA SubmitKeeps ==
    ASSUME DialogInv, handleSubmit
    PROVE  DialogInv'
  <1>1. DialogTypeOK' /\ Staged'
    BY DEF DialogInv, DialogTypeOK, Staged, handleSubmit, picks, search
  <1>2. /\ posted'.type = kind /\ posted'.name = name
        /\ posted'.members = IF kind = "group" THEN groupMembers ELSE <<>>
        /\ posted'.peer = IF kind = "direct" THEN directPeer ELSE NoOne
    BY DEF handleSubmit
  <1>3. CASE kind = "group"
    <2>1. validateRoomName(name) /\ Len(groupMembers) >= MIN_GROUP_MEMBERS
      BY <1>3 DEF handleSubmit, SubmitEnabled, canSubmitGroup
    <2>2. Cardinality(ToSet(groupMembers)) = Len(groupMembers)
      BY DistinctCount DEF DialogInv, Staged
    <2>3. Self \notin ToSet(groupMembers)
      BY DEF DialogInv, Staged, ToSet
    <2>4. RequestWellFormed'
      BY <1>2, <1>3, <2>1, <2>2, <2>3 DEF RequestWellFormed
    <2>5. QED BY <1>1, <2>4 DEF DialogInv
  <1>4. CASE kind = "direct"
    <2>1. directPeer \in People \ {Self}
      BY <1>4 DEF handleSubmit, SubmitEnabled, canSubmitDirect, DialogInv, Staged
    <2>2. RequestWellFormed'
      BY <1>2, <1>4, <2>1 DEF RequestWellFormed
    <2>3. QED BY <1>1, <2>2 DEF DialogInv
  <1>5. CASE kind = "channel"
    <2>1. RequestWellFormed'
      BY <1>2, <1>5 DEF RequestWellFormed, handleSubmit
    <2>2. QED BY <1>1, <2>1 DEF DialogInv
  <1>6. QED BY <1>3, <1>4, <1>5 DEF DialogInv, DialogTypeOK

LEMMA DialogStep ==
    ASSUME DialogInv, [DialogNext]_dialogVars
    PROVE  DialogInv'
  <1>1. CASE UNCHANGED dialogVars
    BY <1>1 DEF DialogInv, DialogTypeOK, Staged, RequestWellFormed, dialogVars, picks, search
  <1>2. QED BY <1>1, OpenCloseKeeps, FieldsKeep, PickersKeep, SubmitKeeps DEF DialogNext

LEMMA DialogStarts == DialogInit => DialogInv
  BY NobodyStaged DEF DialogInit, DialogInv, DialogTypeOK, Staged, RequestWellFormed, NoRequest, NameKinds

(* The inductive invariant of the dialog: whom the pickers have staged, and  *)
(* that closing it leaves nobody staged (CreateRoomDialog.tsx).              *)
THEOREM DialogInvariant == DialogSpec => []DialogInv
  BY DialogStarts, DialogStep, PTL DEF DialogSpec

(* Every request the dialog sends names whom the server's rules for its kind *)
(* ask for, for any people and any least number of members: a group enough   *)
(* distinct others and not the caller, a direct room another user, no other  *)
(* kind anybody (handleSubmit).  Of the name it says only that it passed the *)
(* dialog's own rule: the server trims it and counts bytes, and may refuse.  *)
THEOREM RequestsWellFormed == DialogSpec => []RequestWellFormed
  <1>1. DialogInv => RequestWellFormed
    BY DEF DialogInv
  <1>2. QED BY <1>1, DialogInvariant, PTL

-----------------------------------------------------------------------------
(* The components together. *)

(* What moves one component moves it as its own specification says, and      *)
(* leaves the others alone.                                                  *)
LEMMA ComponentSteps ==
    ASSUME [MCNext]_allVars
    PROVE  /\ [TabNext]_tabVars /\ [PresNext]_presVars /\ [TypingNext]_typingVars
           /\ [ScreenNext]_screenVars /\ [PanelNext]_panelVars /\ [DialogNext]_dialogVars
  <1>1. CASE MCNext
    BY <1>1 DEF MCNext, Still
  <1>2. CASE UNCHANGED allVars
    BY <1>2 DEF allVars
  <1>3. QED BY <1>1, <1>2

(* Each component of the browser behaves in the composed run as its own      *)
(* specification allows, so what is proved of a component holds there.       *)
THEOREM ClientRefinesComponents ==
    MCSpec => TabSpec /\ PresSpec /\ TypingSpec /\ ScreenSpec /\ PanelSpec /\ DialogSpec
  <1>1. MCInit => TabInit /\ PresInit /\ TypingInit /\ ScreenInit /\ PanelInit /\ DialogInit
    BY DEF MCInit
  <1>2. QED BY <1>1, ComponentSteps, PTL
            DEF MCSpec, TabSpec, PresSpec, TypingSpec, ScreenSpec, PanelSpec, DialogSpec

(* The state of every component of the browser keeps its type, for any       *)
(* rooms, tabs, composers, people, page sizes and budgets.                   *)
THEOREM ClientTypes == MCSpec => []ClientTypeOK
  <1>1. DialogInv => DialogTypeOK
    BY DEF DialogInv
  <1>2. TabTypeOK /\ PresTypeOK /\ TypingTypeOK /\ ScreenTypeOK /\ PanelTypeOK /\ DialogTypeOK => ClientTypeOK
    BY DEF ClientTypeOK
  <1>3. QED BY <1>1, <1>2, ClientRefinesComponents, TabTypes, PresenceTypes, TypingTypes,
               ScreenTypes, PanelTypesHold, DialogInvariant, PTL
=============================================================================
