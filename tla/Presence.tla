------------------------------ MODULE Presence ------------------------------
(* One user's presence: the status key and the connection counter in Redis  *)
(* (internal/store/presence.go), the server's connect, heartbeat, update    *)
(* and disconnect jobs that change them one Redis command at a time         *)
(* (internal/websocket/presence.go, client.go), and the browser side that   *)
(* sends presence.update: the toggle, the inactivity timer and the          *)
(* re-assertion on reconnect (usePresence.ts, useAutoAway.ts).              *)
(*                                                                          *)
(* Each tab of the user reaches a server process of its own, so every       *)
(* interleaving of the jobs of two tabs is possible; a process may crash    *)
(* and a Redis command may fail, a bounded number of times.                 *)
EXTENDS Integers, Sequences

CONSTANTS Tabs,        \* the user's tabs and devices
          DisconnectBuffer, \* disconnectBuffer: queued disconnect events
          MaxFaults,   \* bound: crashes and failed Redis commands
          MaxPresOps   \* bound: connections made and things the user does

ASSUME PresenceAssumption ==
    DisconnectBuffer \in Nat \ {0} /\ MaxFaults \in Nat /\ MaxPresOps \in Nat

VARIABLES
    conns,       \* presence:conns, 0 when absent
    shownAs,     \* presence:status: "none" when absent
    expires,     \* that key has a TTL
    line,        \* per tab: its connection is registered
    online,      \* per tab: presenceOnline, "idle" or the command it is at
    offline,     \* per tab's process: presenceOffline, likewise
    disconnects, \* per tab's process: queued disconnect events
    beat,        \* per tab: a heartbeat has found the status key gone
    frames,      \* per tab: presence.update frames on their way
    selfStatus,  \* per tab: selfStatus of the presence store
    awayTimer,   \* per tab: the inactivity timer is armed
    faults, presOps  \* budgets used

redis    == <<conns, shownAs, expires>>
jobs     == <<online, offline, disconnects, beat>>
browser  == <<selfStatus, awayTimer>>
presVars == <<redis, line, jobs, frames, browser, faults, presOps>>

SpendPres == presOps < MaxPresOps /\ presOps' = presOps + 1
Fault == faults < MaxFaults /\ faults' = faults + 1

-----------------------------------------------------------------------------
(* The Redis commands.                                                      *)

SetStatusKey(value) == shownAs' = value /\ expires' = TRUE
ExpireStatusKey == expires' = TRUE /\ UNCHANGED shownAs
DelStatusKey == shownAs' = "none" /\ expires' = TRUE

\* The status key reaches its TTL: no beat has refreshed it for that long.
Lapse ==
    /\ shownAs # "none" /\ expires
    /\ DelStatusKey
    /\ UNCHANGED <<conns, line, jobs, frames, browser, faults, presOps>>

\* The counter reaches its safety TTL, a day after the last connection.
ConnsLapse ==
    /\ \A t \in Tabs : ~line[t]
    /\ conns' = 0
    /\ UNCHANGED <<shownAs, expires, line, jobs, frames, browser, faults, presOps>>

-----------------------------------------------------------------------------
(* A connection begins: presenceOnline runs before its frames are read.     *)

\* The handshake; the browser's onopen asserts again what the user chose.
Connect(t) ==
    /\ ~line[t] /\ online[t] = "idle"
    /\ SpendPres
    /\ line' = [line EXCEPT ![t] = TRUE]
    /\ online' = [online EXCEPT ![t] = "incr"]
    /\ frames' = [frames EXCEPT ![t] = IF selfStatus[t] = "online" THEN <<>> ELSE <<selfStatus[t]>>]
    /\ UNCHANGED <<redis, offline, disconnects, beat, browser, faults>>

\* PresenceConnect: only the connection that takes the count from 0 to 1 sets
\* the status; another one leaves an explicit "away" alone.
PresenceConnect(t) ==
    /\ \/ /\ online[t] = "incr"
          /\ conns' = conns + 1
          /\ online' = [online EXCEPT ![t] = IF conns + 1 > 1 THEN "extend" ELSE "set"]
          /\ UNCHANGED <<shownAs, expires>>
       \/ /\ online[t] = "extend"
          /\ ExpireStatusKey
          /\ online' = [online EXCEPT ![t] = "idle"]
          /\ UNCHANGED conns
       \/ /\ online[t] = "set"
          /\ SetStatusKey("online")
          /\ online' = [online EXCEPT ![t] = "idle"]
          /\ UNCHANGED conns
    /\ UNCHANGED <<line, offline, disconnects, beat, frames, browser, faults, presOps>>

\* A command that fails ends the job, whatever has been done already.
ConnectFails(t) ==
    /\ online[t] # "idle"
    /\ Fault
    /\ online' = [online EXCEPT ![t] = "idle"]
    /\ UNCHANGED <<redis, line, offline, disconnects, beat, frames, browser, presOps>>

-----------------------------------------------------------------------------
(* While it lives.                                                          *)

\* PresenceSetStatus, for a presence.update frame.
PresenceSetStatus(t) ==
    /\ line[t] /\ online[t] = "idle" /\ frames[t] # <<>>
    /\ frames' = [frames EXCEPT ![t] = Tail(@)]
    /\ \/ SetStatusKey(Head(frames[t])) /\ UNCHANGED faults
       \/ Fault /\ UNCHANGED <<shownAs, expires>>
    /\ UNCHANGED <<conns, line, jobs, browser, presOps>>

\* The writePump's beat, on a goroutine of its own: refresh the status key.
PresenceHeartbeat(t) ==
    /\ line[t] /\ ~beat[t]
    /\ IF shownAs = "none"
       THEN beat' = [beat EXCEPT ![t] = TRUE] /\ UNCHANGED <<shownAs, expires>>
       ELSE ExpireStatusKey /\ UNCHANGED beat
    /\ UNCHANGED <<conns, line, online, offline, disconnects, frames, browser, faults, presOps>>

\* It gives up when the key has lapsed.
NoResurrection(t) ==
    /\ beat[t]
    /\ beat' = [beat EXCEPT ![t] = FALSE]
    /\ UNCHANGED <<redis, line, online, offline, disconnects, frames, browser, faults, presOps>>

\* A key that has lapsed is set again, as online whatever it was.
Resurrect(t) ==
    /\ beat[t]
    /\ beat' = [beat EXCEPT ![t] = FALSE]
    /\ \/ SetStatusKey("online") /\ UNCHANGED faults
       \/ Fault /\ UNCHANGED <<shownAs, expires>>
    /\ UNCHANGED <<conns, line, online, offline, disconnects, frames, browser, presOps>>

-----------------------------------------------------------------------------
(* A connection ends.                                                       *)

\* ClientDisconnected: an event for processDisconnects, dropped when the queue
\* is full.
ClientDisconnected(t) ==
    /\ line[t]
    /\ line' = [line EXCEPT ![t] = FALSE]
    /\ frames' = [frames EXCEPT ![t] = <<>>]
    /\ disconnects' = [disconnects EXCEPT ![t] = IF @ < DisconnectBuffer THEN @ + 1 ELSE @]
    /\ UNCHANGED <<redis, online, offline, beat, browser, faults, presOps>>

\* PresenceDisconnect, by the one goroutine of processDisconnects.
PresenceDisconnect(t) ==
    /\ \/ /\ offline[t] = "idle" /\ disconnects[t] > 0
          /\ disconnects' = [disconnects EXCEPT ![t] = @ - 1]
          /\ conns' = conns - 1
          /\ offline' = [offline EXCEPT ![t] = IF conns > 1 THEN "idle" ELSE IF conns < 1 THEN "reset" ELSE "del"]
          /\ UNCHANGED <<shownAs, expires>>
       \/ /\ offline[t] = "reset"
          /\ conns' = 0
          /\ offline' = [offline EXCEPT ![t] = "del"]
          /\ UNCHANGED <<disconnects, shownAs, expires>>
       \/ /\ offline[t] = "del"
          /\ DelStatusKey
          /\ offline' = [offline EXCEPT ![t] = "idle"]
          /\ UNCHANGED <<disconnects, conns>>
    /\ UNCHANGED <<line, online, beat, frames, browser, faults, presOps>>

DisconnectFails(t) ==
    /\ Fault
    /\ \/ offline[t] = "idle" /\ disconnects[t] > 0 /\ disconnects' = [disconnects EXCEPT ![t] = @ - 1]
          /\ UNCHANGED offline
       \/ offline[t] # "idle" /\ offline' = [offline EXCEPT ![t] = "idle"] /\ UNCHANGED disconnects
    /\ UNCHANGED <<redis, line, online, beat, frames, browser, presOps>>

\* The process dies, and with it the connection and every job it had begun.
Crash(t) ==
    /\ Fault
    /\ line[t] \/ online[t] # "idle" \/ offline[t] # "idle" \/ disconnects[t] > 0
    /\ line' = [line EXCEPT ![t] = FALSE]
    /\ online' = [online EXCEPT ![t] = "idle"] /\ offline' = [offline EXCEPT ![t] = "idle"]
    /\ disconnects' = [disconnects EXCEPT ![t] = 0] /\ beat' = [beat EXCEPT ![t] = FALSE]
    /\ frames' = [frames EXCEPT ![t] = <<>>]
    /\ UNCHANGED <<redis, browser, presOps>>

-----------------------------------------------------------------------------
(* The browser.                                                             *)

\* setSelfStatus keeps the choice and sends it if the socket is open.
setSelfStatus(t, value) ==
    /\ selfStatus' = [selfStatus EXCEPT ![t] = value]
    /\ frames' = IF line[t] THEN [frames EXCEPT ![t] = Append(@, value)] ELSE frames

\* The inactivity timer fires.
AutoAway(t) ==
    /\ awayTimer[t]
    /\ SpendPres
    /\ awayTimer' = [awayTimer EXCEPT ![t] = FALSE]
    /\ IF selfStatus[t] # "away" THEN setSelfStatus(t, "away") ELSE UNCHANGED <<selfStatus, frames>>
    /\ UNCHANGED <<redis, line, jobs, faults>>

\* Any input: back from away at once, and the countdown starts again.
onActivity(t) ==
    /\ selfStatus[t] = "away" \/ ~awayTimer[t]
    /\ SpendPres
    /\ awayTimer' = [awayTimer EXCEPT ![t] = TRUE]
    /\ IF selfStatus[t] = "away" THEN setSelfStatus(t, "online") ELSE UNCHANGED <<selfStatus, frames>>
    /\ UNCHANGED <<redis, line, jobs, faults>>

\* A click on the control.  The press that begins it is activity, so the
\* status it flips is always "online".
Toggle(t) ==
    /\ selfStatus[t] = "online" /\ awayTimer[t]
    /\ SpendPres
    /\ setSelfStatus(t, "away")
    /\ UNCHANGED <<redis, line, jobs, awayTimer, faults>>

-----------------------------------------------------------------------------
PresInit ==
    /\ conns = 0 /\ shownAs = "none" /\ expires = TRUE
    /\ line = [t \in Tabs |-> FALSE]
    /\ online = [t \in Tabs |-> "idle"] /\ offline = [t \in Tabs |-> "idle"]
    /\ disconnects = [t \in Tabs |-> 0] /\ beat = [t \in Tabs |-> FALSE]
    /\ frames = [t \in Tabs |-> <<>>]
    /\ selfStatus = [t \in Tabs |-> "online"] /\ awayTimer = [t \in Tabs |-> TRUE]
    /\ faults = 0 /\ presOps = 0

PresTab(t) ==
    \/ Connect(t) \/ PresenceConnect(t) \/ ConnectFails(t)
    \/ PresenceSetStatus(t) \/ PresenceHeartbeat(t) \/ Resurrect(t)
    \/ ClientDisconnected(t) \/ PresenceDisconnect(t) \/ DisconnectFails(t) \/ Crash(t)
    \/ AutoAway(t) \/ onActivity(t) \/ Toggle(t)

PresNext == Lapse \/ ConnsLapse \/ \E t \in Tabs : PresTab(t)

\* Jobs go on and tickers tick; a key nobody refreshes lapses.
PresFairness ==
    /\ \A t \in Tabs : /\ WF_presVars(PresenceConnect(t)) /\ WF_presVars(PresenceDisconnect(t))
                       /\ WF_presVars(PresenceHeartbeat(t)) /\ WF_presVars(Resurrect(t))
                       /\ WF_presVars(PresenceSetStatus(t))
    /\ WF_presVars((\A t \in Tabs : ~line[t]) /\ Lapse)

PresSpec == PresInit /\ [][PresNext]_presVars /\ PresFairness

-----------------------------------------------------------------------------
(* Properties.                                                              *)

PresTypeOK ==
    /\ conns \in Int /\ shownAs \in {"none", "online", "away"}
    /\ \A t \in Tabs : /\ online[t] \in {"idle", "incr", "extend", "set"}
                       /\ offline[t] \in {"idle", "reset", "del"}
                       /\ disconnects[t] \in 0..DisconnectBuffer
                       /\ selfStatus[t] \in {"online", "away"}

Connected == \E t \in Tabs : line[t]

\* A user with a live connection does not stay offline: a count that a crash, a
\* dropped disconnect event or a race of two jobs has put wrong may delete the
\* status under them, and a heartbeat brings it back.
PresentIsShown == Connected ~> (shownAs # "none" \/ ~Connected)

\* A user whose last connection is gone does not stay online or away, even when
\* no disconnect job ever ran for it.
GoneIsForgotten == ~Connected ~> (shownAs = "none" \/ Connected)

\* Whatever went wrong on the way, what Redis says of the user comes to agree
\* with whether the user is connected.
PresenceHeals == PresentIsShown /\ GoneIsForgotten
=============================================================================
