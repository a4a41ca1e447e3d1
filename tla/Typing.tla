------------------------------- MODULE Typing -------------------------------
(* One user's typing indicator in one room, from the composers of their     *)
(* tabs (useTyping.ts, MessageInput.tsx) over the server's tracker with its *)
(* auto-expire timers (internal/websocket/typing.go, handlers.go) to the    *)
(* list another member's tab shows.                                         *)
(*                                                                          *)
(* Time is abstract: a timer may fire at any moment, except while a publish *)
(* of true is pending that began before the timer was created (the publish  *)
(* gives up after dbTimeout, which is typingTimeout).                       *)
EXTENDS Naturals, Sequences, SequencesExt

CONSTANTS Composers,    \* the user's tabs
          MaxTimers,    \* bound: timers created
          MaxTypingOps  \* bound: keystrokes, stops and lost connections

ASSUME TypingAssumption == MaxTimers \in Nat \ {0} /\ MaxTypingOps \in Nat

VARIABLES
    active,    \* activeRef, per tab
    idle,      \* the idle timer is armed, per tab
    typing,    \* typing frames on their way, per tab
    entry,     \* the tracker's map: the user's timer, 0 for none
    expiry,    \* per timer: "new", "armed", "stopped", "firing", "expiring", "done"
    handler,   \* per tab's connection: the publish its handler has yet to do
    wire,      \* events on their way to the other member's tab
    listening, \* that tab hears the room
    shows,     \* typingUserIds of that tab holds the user
    missed,    \* history: a true that nothing ends is shown to that tab
    typingOps  \* budget used

typingVars == <<active, idle, typing, entry, expiry, handler, wire, listening, shows, missed, typingOps>>

SpendTyping == typingOps < MaxTypingOps /\ typingOps' = typingOps + 1

NoHandler == [pub |-> "none", since |-> 0, crossed |-> FALSE]
Timers == 1..MaxTimers
Created == {k \in Timers : expiry[k] # "new"}
NextTimer == IF Created = {} THEN 1 ELSE CHOOSE k \in 1..(MaxTimers + 1) : k \notin Created /\ k - 1 \in Created

\* Timers that will still publish false.
Outstanding == {k \in Timers : expiry[k] \in {"armed", "firing", "expiring"}}

-----------------------------------------------------------------------------
(* The composer.                                                            *)

\* A keystroke: typing.start when none is active or the last is 3 s old.
notifyTyping(c) ==
    /\ SpendTyping
    /\ \E stale \in BOOLEAN :
          IF ~active[c] \/ stale
          THEN typing' = [typing EXCEPT ![c] = Append(@, "start")] /\ active' = [active EXCEPT ![c] = TRUE]
          ELSE UNCHANGED <<typing, active>>
    /\ idle' = [idle EXCEPT ![c] = TRUE]
    /\ UNCHANGED <<entry, expiry, handler, wire, listening, shows, missed>>

\* The idle timer, a sent message, an emptied box or a closed room.
stopTyping(c) ==
    /\ idle[c]
    /\ idle' = [idle EXCEPT ![c] = FALSE]
    /\ active' = [active EXCEPT ![c] = FALSE]
    /\ typing' = IF active[c] THEN [typing EXCEPT ![c] = Append(@, "stop")] ELSE typing
    /\ UNCHANGED <<entry, expiry, handler, wire, listening, shows, missed, typingOps>>

\* The typist's socket is down for a while: frames in flight are lost.
TypistDrops(c) ==
    /\ typing[c] # <<>>
    /\ SpendTyping
    /\ typing' = [typing EXCEPT ![c] = <<>>]
    /\ UNCHANGED <<active, idle, entry, expiry, handler, wire, listening, shows, missed>>

-----------------------------------------------------------------------------
(* The server.                                                              *)

\* An entry that is there is kept as it is.
StartOnce ==
    IF entry # 0 THEN UNCHANGED <<entry, expiry>>
    ELSE entry' = NextTimer /\ expiry' = [expiry EXCEPT ![NextTimer] = "armed"]

\* Start: the timer in the map, if it has not fired yet, makes way for a new one.
Start ==
    /\ entry' = NextTimer
    /\ expiry' = [k \in Timers |-> IF k = NextTimer THEN "armed"
                                   ELSE IF k = entry /\ expiry[k] = "armed" THEN "stopped"
                                   ELSE expiry[k]]

\* Stop: likewise, and the entry goes.
Stop ==
    /\ entry' = 0
    /\ expiry' = [k \in Timers |-> IF k = entry /\ expiry[k] = "armed" THEN "stopped" ELSE expiry[k]]

\* handleTypingStart up to its publish; a user who is no member is refused.
handleTypingStart(c) ==
    /\ handler[c].pub = "none" /\ typing[c] # <<>> /\ Head(typing[c]) = "start"
    /\ NextTimer \in Timers
    /\ typing' = [typing EXCEPT ![c] = Tail(@)]
    /\ \/ Start /\ handler' = [handler EXCEPT ![c] = [pub |-> "true", since |-> NextTimer, crossed |-> FALSE]]
       \/ UNCHANGED <<entry, expiry, handler>>
    /\ UNCHANGED <<active, idle, wire, listening, shows, missed, typingOps>>

\* handleTypingStop up to its publish.  A stop that comes between the timer and
\* the publish of another tab's start (crossed) may leave it without a timer.
handleTypingStop(c) ==
    /\ handler[c].pub = "none" /\ typing[c] # <<>> /\ Head(typing[c]) = "stop"
    /\ typing' = [typing EXCEPT ![c] = Tail(@)]
    /\ Stop
    /\ handler' = [d \in Composers |-> IF d = c THEN [pub |-> "false", since |-> 0, crossed |-> FALSE]
                                      ELSE [handler[d] EXCEPT !.crossed = handler[d].pub = "true"]]
    /\ UNCHANGED <<active, idle, wire, listening, shows, missed, typingOps>>

\* The event reaches the other member's tab, or fails to.
PublishTyping(value, crossed) ==
    \/ /\ listening
       /\ wire' = Append(wire, value)
       /\ missed' = (value /\ crossed /\ Outstanding = {})
    \/ /\ UNCHANGED wire
       /\ missed' = (missed \/ ~value)

HandlerPublishes(c) ==
    /\ handler[c].pub # "none"
    /\ PublishTyping(handler[c].pub = "true", handler[c].crossed)
    /\ handler' = [handler EXCEPT ![c] = NoHandler]
    /\ UNCHANGED <<active, idle, typing, entry, expiry, listening, shows, typingOps>>

\* A timer fires: from here on stopping it is too late.
TimerFires(k) ==
    /\ expiry[k] = "armed"
    /\ \A c \in Composers : handler[c].pub = "true" => k < handler[c].since
    /\ expiry' = [expiry EXCEPT ![k] = "firing"]
    /\ UNCHANGED <<active, idle, typing, entry, handler, wire, listening, shows, missed, typingOps>>

\* It deletes the entry, whosever it is by now.
TimerDeletes(k) ==
    /\ expiry[k] = "firing"
    /\ expiry' = [expiry EXCEPT ![k] = "expiring"]
    /\ entry' = 0
    /\ UNCHANGED <<active, idle, typing, handler, wire, listening, shows, missed, typingOps>>

\* onExpire.
TimerPublishes(k) ==
    /\ expiry[k] = "expiring"
    /\ expiry' = [expiry EXCEPT ![k] = "done"]
    /\ PublishTyping(FALSE, FALSE)
    /\ UNCHANGED <<active, idle, typing, entry, handler, listening, shows, typingOps>>

-----------------------------------------------------------------------------
(* The other member's tab.                                                  *)

\* The listener of useTyping.
ShowTyping ==
    /\ wire # <<>>
    /\ shows' = Head(wire) /\ wire' = Tail(wire)
    /\ UNCHANGED <<active, idle, typing, entry, expiry, handler, listening, missed, typingOps>>

\* Its socket breaks: the list stays as it is.
ListenerDrops ==
    /\ listening
    /\ SpendTyping
    /\ listening' = FALSE /\ wire' = <<>>
    /\ missed' = (missed \/ \E k \in DOMAIN wire : ~wire[k])
    /\ UNCHANGED <<active, idle, typing, entry, expiry, handler, shows>>

ListenerReturns ==
    /\ ~listening
    /\ listening' = TRUE
    /\ UNCHANGED <<active, idle, typing, entry, expiry, handler, wire, shows, missed, typingOps>>

\* It opens another room and comes back.
ListenerRemounts ==
    /\ shows
    /\ SpendTyping
    /\ shows' = FALSE
    /\ UNCHANGED <<active, idle, typing, entry, expiry, handler, wire, listening, missed>>

-----------------------------------------------------------------------------
TypingInit ==
    /\ active = [c \in Composers |-> FALSE] /\ idle = active
    /\ typing = [c \in Composers |-> <<>>]
    /\ entry = 0 /\ expiry = [k \in Timers |-> "new"]
    /\ handler = [c \in Composers |-> NoHandler]
    /\ wire = <<>> /\ listening = TRUE /\ shows = FALSE /\ missed = FALSE
    /\ typingOps = 0

TypingNext ==
    \/ \E c \in Composers : \/ notifyTyping(c) \/ stopTyping(c) \/ TypistDrops(c)
                            \/ handleTypingStart(c) \/ handleTypingStop(c) \/ HandlerPublishes(c)
    \/ \E k \in Timers : TimerFires(k) \/ TimerDeletes(k) \/ TimerPublishes(k)
    \/ ShowTyping \/ ListenerDrops \/ ListenerReturns \/ ListenerRemounts

TypingSpec == TypingInit /\ [][TypingNext]_typingVars

-----------------------------------------------------------------------------
(* Properties.                                                              *)

TypingTypeOK ==
    /\ entry \in 0..MaxTimers
    /\ expiry \in [Timers -> {"new", "armed", "stopped", "firing", "expiring", "done"}]
    /\ (entry # 0 => expiry[entry] \in {"armed", "firing"})

\* What the other member will see once the events in flight have arrived.
WillShow == IF wire = <<>> THEN shows ELSE Last(wire)

\* Nobody is shown typing for ever: as long as the indicator is on, a timer or a
\* handler is left that will turn it off.  Timers that fire while they are being
\* replaced, and delete each other's entry, do not break it; a false that is
\* lost on its way does, and so do two tabs whose stop and start cross.
TypingBacked ==
    WillShow /\ ~missed => Outstanding # {} \/ \E c \in Composers : handler[c].pub = "false"
=============================================================================
