------------------------------ MODULE ChatTab -------------------------------
(* One browser tab: its session (auth-store.ts, api.ts, useAuth.ts), the    *)
(* WebSocket provider with its connection effect, reconnects and room joins *)
(* (useWebSocket.tsx), the list of rooms with its unread badges             *)
(* (useRooms.ts) and the page on screen, against what the server keeps for  *)
(* the tab's user and connection.                                           *)
(*                                                                          *)
(* JavaScript runs one callback at a time.  Each action is one callback, or *)
(* one stretch of an async function between two awaits; React's effects run *)
(* some time after the state they depend on has changed.  What the messages *)
(* of a room become in the cache is in module Messages.                     *)
EXTENDS Naturals, Sequences, FiniteSets, SequencesExt

CONSTANTS Rooms,       \* rooms of the server
          Nobody,      \* null / undefined
          MaxTokens,   \* bound: access tokens the tab may get
          MaxTabOps    \* bound: what the user, the network and others start

ASSUME TabAssumption ==
    /\ MaxTokens \in Nat \ {0} /\ MaxTabOps \in Nat
    /\ Rooms \cap {"login", "chat", "admin"} = {} /\ Nobody \notin Rooms
    /\ IsFiniteSet(Rooms)

VARIABLES
    hydrated,   \* hasHydrated
    token,      \* the access token (0: null); user and refreshToken go with it
    fresh,      \* the token does not expire soon
    issued,     \* tokens issued so far
    refresh,    \* refreshPromise is pending
    page,       \* the route: "login", "admin", "chat" or a room
    mounted,    \* the provider is mounted
    ranFor,     \* the token its connection effect last ran for
    connecting, \* connectingRef, and where that attempt's refresh stands
    ws,         \* readyState of wsRef.current, "none" for null
    timer,      \* a reconnect is scheduled
    status, once,  \* what the provider shows: status, hasConnectedOnce
    joined,     \* joinedRoomsRef
    due,        \* the reconcile effect has a changed dependency
    list,       \* the ["rooms"] cache: Nobody, or the unread count per room
    listFetch,  \* its fetch: "idle", "sent", "refreshing" or "answered"
    answer,     \* what the server answered to it
    loggingOut, \* logout() waits for its POST
    leaving,    \* the room the header's Leave waits for, or Nobody
    member,     \* room_members: the rooms the user belongs to
    unread,     \* unread messages per room, as the server counts them
    subs,       \* the rooms our connection is in at the hub
    up, down,   \* frames and events in flight on the current socket
    departures, \* rooms of dead connections still to be announced as left
    strays,     \* the connect() attempts of unmounted providers, and their sockets
    leaked,     \* history: live sockets a provider has lost
    stranded,   \* history: the last connect() ended for want of a network
    refused,    \* history: joins the server refused this connection
    dropped,    \* history: rooms left on a user.left while still in the list
    tabOps      \* budget used

session  == <<hydrated, token, fresh, issued, refresh, loggingOut>>
socket   == <<mounted, ranFor, connecting, ws, timer, status, once>>
rooms    == <<joined, due, list, listFetch, answer, dropped>>
hub      == <<member, unread, subs, departures, leaving>>
tabVars  == <<session, page, socket, strays, rooms, hub, up, down, leaked,
              stranded, refused, tabOps>>

SpendTab == tabOps < MaxTabOps /\ tabOps' = tabOps + 1

ChatPages == {"chat"} \cup Rooms

\* Events of the server, and what an unmounted provider leaves behind: the
\* attempt or its socket, joinedRoomsRef, the rooms its connection is in at the
\* hub, and the events on their way to it.
Events == [type : {"user.left", "room.invited", "message.new"}, room : Rooms, ended : BOOLEAN]
Answers == {"granted", "denied", "unreachable"}
Stray == [st : {"awaiting", "connecting", "open", "gone"} \cup Answers,
          rooms : SUBSET Rooms, hears : SUBSET Rooms, inbox : Seq(Events)]

\* The continuation of an await runs before the browser takes its next task.
Settled ==
    /\ connecting \notin Answers
    /\ \A k \in DOMAIN strays : strays[k].st \notin Answers

-----------------------------------------------------------------------------
(* Session.                                                                 *)

setAuth ==
    /\ issued < MaxTokens
    /\ issued' = issued + 1 /\ token' = issued + 1 /\ fresh' = TRUE

clearAuth == token' = 0 /\ fresh' = FALSE /\ UNCHANGED issued

\* The store has read localStorage: from here on the guards may redirect.
Hydrate ==
    /\ Settled /\ ~hydrated
    /\ hydrated' = TRUE
    /\ UNCHANGED <<token, fresh, issued, refresh, loggingOut, page, socket, strays, rooms, hub, up, down,
                   leaked, stranded, refused, tabOps>>

\* login and signup, on a page only a guest is shown.
Login ==
    /\ Settled /\ hydrated /\ page = "login" /\ token = 0
    /\ setAuth
    /\ UNCHANGED <<hydrated, refresh, loggingOut, page, socket, strays, rooms, hub, up, down,
                   leaked, stranded, refused, tabOps>>

\* isAccessTokenExpiringSoon turns true.
Expire ==
    /\ Settled /\ fresh
    /\ SpendTab
    /\ fresh' = FALSE
    /\ UNCHANGED <<hydrated, token, issued, refresh, loggingOut, page, socket, strays, rooms, hub, up, down,
                   leaked, stranded, refused>>

\* Any request of the tab is answered 401: refresh, shared by all who ask.
Unauthorized ==
    /\ Settled /\ token # 0 /\ ~fresh /\ ~refresh
    /\ SpendTab
    /\ refresh' = TRUE
    /\ UNCHANGED <<hydrated, token, fresh, issued, loggingOut, page, socket, strays, rooms, hub, up, down,
                   leaked, stranded, refused>>

\* What the refresh answers to those who wait for it: the connection attempt,
\* that of an unmounted provider, and the rooms query, which asks again.
Settle(outcome) ==
    /\ refresh' = FALSE
    /\ connecting' = IF connecting = "awaiting" THEN outcome ELSE connecting
    /\ strays' = [k \in DOMAIN strays |->
                     [strays[k] EXCEPT !.st = IF @ = "awaiting" THEN outcome ELSE @]]
    /\ listFetch' = IF listFetch # "refreshing" THEN listFetch
                    ELSE IF outcome = "granted" THEN "sent" ELSE "idle"

\* doRefresh ends: new tokens, a refusal that ends the session, or no network.
doRefresh(outcome) ==
    /\ Settled /\ refresh
    /\ \/ outcome = "granted" /\ setAuth
       \/ outcome = "denied" /\ clearAuth
       \/ outcome = "unreachable" /\ UNCHANGED <<token, fresh, issued>>
    /\ Settle(outcome)
    /\ UNCHANGED <<hydrated, loggingOut, page, mounted, ranFor, ws, timer, status, once,
                   joined, due, list, answer, dropped, hub, up, down, leaked, stranded, refused, tabOps>>

\* logout: the POST may fail or take long; the store is cleared after it.
Logout ==
    /\ Settled /\ token # 0 /\ page \in ChatPages /\ mounted /\ ~loggingOut
    /\ SpendTab
    /\ loggingOut' = TRUE
    /\ UNCHANGED <<hydrated, token, fresh, issued, refresh, page, socket, strays, rooms, hub, up, down,
                   leaked, stranded, refused>>

LoggedOut ==
    /\ Settled /\ loggingOut
    /\ loggingOut' = FALSE
    /\ clearAuth
    /\ list' = Nobody /\ listFetch' = "idle" /\ answer' = Nobody /\ due' = (due \/ list # Nobody)
    /\ UNCHANGED <<hydrated, refresh, page, socket, strays, joined, dropped, hub, up, down,
                   leaked, stranded, refused, tabOps>>

-----------------------------------------------------------------------------
(* Routes.                                                                  *)

\* ChatWindow marks its room read when it opens and when it closes; the badge
\* goes at once, the POST resets the server's count of a member.
ClearBadges(rs) ==
    /\ list' = IF list = Nobody THEN Nobody
               ELSE [r \in DOMAIN list |-> IF r \in rs THEN 0 ELSE list[r]]
    /\ due' = (due \/ list' # list)

MarkRead(rs) ==
    /\ ClearBadges(rs)
    /\ unread' = [r \in Rooms |-> IF r \in rs THEN 0 ELSE unread[r]]

\* useRequireAuth, useRequireGuest and useRequireSystemAdmin replace the page.
Redirect ==
    /\ Settled /\ hydrated
    /\ \/ page \in ChatPages /\ token = 0 /\ page' = "login" /\ ClearBadges({page})
       \/ page = "login" /\ token # 0 /\ page' = "chat" /\ UNCHANGED <<list, due>>
       \/ page = "admin" /\ token = 0 /\ page' = "chat" /\ UNCHANGED <<list, due>>
    /\ UNCHANGED <<session, socket, strays, joined, listFetch, answer, dropped, hub, up, down,
                   leaked, stranded, refused, tabOps>>

\* A link of the sidebar: a room of the list, the empty page or the dashboard.
Navigate(to) ==
    /\ Settled /\ mounted /\ page \in ChatPages /\ to # page
    /\ to \in Rooms => list # Nobody /\ to \in DOMAIN list
    /\ SpendTab
    /\ page' = to
    /\ MarkRead({page, to} \cap Rooms)
    /\ UNCHANGED <<session, socket, strays, joined, listFetch, answer, dropped, member, subs, departures, leaving,
                   up, down, leaked, stranded, refused>>

BackToChat ==
    /\ Settled /\ page = "admin" /\ token # 0
    /\ page' = "chat"
    /\ UNCHANGED <<session, socket, strays, rooms, hub, up, down, leaked, stranded, refused, tabOps>>

-----------------------------------------------------------------------------
(* The connection.                                                          *)

\* new WebSocket: wsRef now points to it; w is what it pointed to before.
NewSocket(w) ==
    /\ ws' = "connecting" /\ status' = "connecting"
    /\ leaked' = IF w \in {"connecting", "open"} THEN leaked + 1 ELSE leaked

\* Without connectingRef: an attempt that waits is not in the way.
ConnectUnguarded(w) ==
    IF fresh
    THEN NewSocket(w) /\ UNCHANGED <<connecting, refresh>>
    ELSE /\ connecting' = IF token = 0 THEN "denied" ELSE "awaiting"
         /\ refresh' = (refresh \/ token # 0)
         /\ ws' = w /\ UNCHANGED <<status, leaked>>

\* connect() with wsRef at w, up to its await or to the new socket.
connect(w) ==
    IF connecting # "no"
    THEN ws' = w /\ UNCHANGED <<connecting, refresh, status, leaked>>
    ELSE IF fresh
    THEN NewSocket(w) /\ UNCHANGED <<connecting, refresh>>
    ELSE /\ connecting' = IF token = 0 THEN "denied" ELSE "awaiting"
         /\ refresh' = (refresh \/ token # 0)
         /\ ws' = w /\ UNCHANGED <<status, leaked>>

\* The socket goes: both ends lose what is in flight, and the server will
\* announce the departure from the rooms the connection was in.
HangUp ==
    /\ departures' = departures \cup subs
    /\ subs' = {} /\ refused' = {} /\ up' = <<>> /\ down' = <<>>

\* The connection effect, on mount and whenever the token changes: its cleanup
\* (the old socket is detached and closed, the timer cleared), then connect().
\* A mount starts with refs of its own.
ConnectionEffect ==
    /\ hydrated /\ token # 0 /\ page \in ChatPages
    /\ ~mounted \/ ranFor # token
    /\ mounted' = TRUE /\ ranFor' = token
    /\ timer' = FALSE /\ stranded' = FALSE
    /\ HangUp
    /\ connect("none")
    /\ listFetch' = IF list = Nobody /\ listFetch = "idle" THEN "sent" ELSE listFetch
    /\ due' = (due \/ ~mounted \/ status' # status)
    /\ UNCHANGED <<hydrated, token, fresh, issued, loggingOut, page, once, strays, joined, list, answer, dropped,
                   member, unread, leaving, tabOps>>

\* The provider unmounts with the session or the chat pages: the cleanup, and
\* an attempt that waits for its refresh is left behind, with its refs.
Unmount ==
    /\ mounted
    /\ token = 0 \/ page \notin ChatPages
    /\ mounted' = FALSE /\ ranFor' = 0 /\ ws' = "none" /\ timer' = FALSE
    /\ strays' = IF connecting \notin {"awaiting", "granted"} THEN strays
                 ELSE Append(strays, [st |-> connecting, rooms |-> joined, hears |-> {}, inbox |-> <<>>])
    /\ connecting' = "no" /\ status' = "connecting" /\ once' = FALSE /\ stranded' = FALSE
    /\ HangUp
    /\ joined' = {} /\ dropped' = {} /\ due' = FALSE
    /\ UNCHANGED <<session, page, list, listFetch, answer, member, unread, leaving, leaked, tabOps>>

\* connect() goes on after its await.
ConnectResumes ==
    /\ connecting \notin {"no", "awaiting"}
    /\ connecting' = "no"
    /\ \/ connecting = "granted" /\ NewSocket(ws) /\ UNCHANGED stranded
       \/ /\ connecting # "granted"
          /\ stranded' = (connecting = "unreachable")
          /\ UNCHANGED <<ws, status, leaked>>
    /\ due' = (due \/ status' # status)
    /\ UNCHANGED <<session, page, mounted, ranFor, timer, once, strays, joined, list, listFetch, answer, dropped,
                   hub, up, down, refused, tabOps>>

Joins(rs) == SetToSeq({[type |-> "room.join", room |-> r] : r \in rs})
Leaves(rs) == SetToSeq({[type |-> "room.leave", room |-> r] : r \in rs})

\* onopen: re-join everything joined so far.
OnOpen ==
    /\ Settled /\ ws = "connecting"
    /\ ws' = "open" /\ status' = "open" /\ once' = TRUE
    /\ up' = Joins(joined)
    /\ due' = TRUE
    /\ UNCHANGED <<session, page, mounted, ranFor, connecting, timer, strays, joined, list, listFetch, answer, dropped,
                   hub, down, leaked, stranded, refused, tabOps>>

\* onclose: schedule a reconnect.
Closed ==
    /\ ws' = "none" /\ status' = "closed" /\ timer' = TRUE
    /\ due' = (due \/ status # "closed")

\* The handshake fails: onerror closes the socket and onclose follows.
OnError ==
    /\ Settled /\ ws = "connecting"
    /\ SpendTab
    /\ Closed
    /\ UNCHANGED <<session, page, mounted, ranFor, connecting, once, strays, joined, list, listFetch, answer, dropped,
                   hub, up, down, leaked, stranded, refused>>

\* An open socket breaks; its close event comes later.
SocketBreaks ==
    /\ Settled /\ ws = "open"
    /\ SpendTab
    /\ ws' = "closing"
    /\ HangUp
    /\ UNCHANGED <<session, page, mounted, ranFor, connecting, timer, status, once, strays, rooms,
                   member, unread, leaving, leaked, stranded>>

OnClose ==
    /\ Settled /\ ws = "closing"
    /\ Closed
    /\ UNCHANGED <<session, page, mounted, ranFor, connecting, once, strays, joined, list, listFetch, answer, dropped,
                   hub, up, down, leaked, stranded, refused, tabOps>>

\* The scheduled reconnect.
scheduleReconnect ==
    /\ Settled /\ timer
    /\ timer' = FALSE /\ stranded' = FALSE
    /\ connect(ws)
    /\ due' = (due \/ status' # status)
    /\ UNCHANGED <<hydrated, token, fresh, issued, loggingOut, page, mounted, ranFor, once, strays,
                   joined, list, listFetch, answer, dropped, hub, up, down, refused, tabOps>>

\* The banner's button, shown once a connection has been lost.
reconnectNow ==
    /\ Settled /\ mounted /\ status # "open" /\ once
    /\ ws \notin {"open", "connecting"}
    /\ SpendTab
    /\ timer' = FALSE /\ stranded' = FALSE
    /\ connect(ws)
    /\ due' = (due \/ status' # status)
    /\ UNCHANGED <<hydrated, token, fresh, issued, loggingOut, page, mounted, ranFor, once, strays,
                   joined, list, listFetch, answer, dropped, hub, up, down, refused>>

-----------------------------------------------------------------------------
(* Rooms.                                                                   *)

send(frames) == up' = IF ws = "open" THEN up \o frames ELSE up

\* The rooms query is answered by the server, or refused for its token.
RoomsRead ==
    /\ Settled /\ listFetch = "sent"
    /\ \/ listFetch' = "answered" /\ answer' = [r \in member |-> unread[r]] /\ UNCHANGED refresh
       \/ ~fresh /\ token # 0 /\ listFetch' = "refreshing" /\ refresh' = TRUE /\ UNCHANGED answer
    /\ UNCHANGED <<hydrated, token, fresh, issued, loggingOut, page, socket, strays, joined, due, list, dropped, hub,
                   up, down, leaked, stranded, refused, tabOps>>

\* The answer replaces the list; an equal one leaves it as it was.
RoomsAnswered ==
    /\ Settled /\ listFetch = "answered"
    /\ listFetch' = "idle" /\ answer' = Nobody /\ list' = answer
    /\ due' = (due \/ list' # list)
    /\ UNCHANGED <<session, page, socket, strays, joined, dropped, hub, up, down,
                   leaked, stranded, refused, tabOps>>

\* It joins what is missing and forgets to leave.
ReconcileJoinsOnly ==
    /\ due /\ mounted
    /\ due' = FALSE
    /\ IF status = "open" /\ list # Nobody
       THEN /\ joined' = joined \cup DOMAIN list
            /\ send(Joins(DOMAIN list \ joined))
            /\ dropped' = {}
       ELSE UNCHANGED <<joined, up, dropped>>
    /\ UNCHANGED <<session, page, socket, strays, list, listFetch, answer, hub, down,
                   leaked, stranded, refused, tabOps>>

\* The rooms to join and to leave for the socket to follow the list.
Reconcile ==
    /\ due /\ mounted
    /\ due' = FALSE
    /\ IF status = "open" /\ list # Nobody
       THEN /\ joined' = DOMAIN list
            /\ send(Joins(DOMAIN list \ joined) \o Leaves(joined \ DOMAIN list))
            /\ dropped' = {}
       ELSE UNCHANGED <<joined, up, dropped>>
    /\ UNCHANGED <<session, page, socket, strays, list, listFetch, answer, hub, down,
                   leaked, stranded, refused, tabOps>>

\* The server takes a frame.
HandleRoomFrame ==
    /\ Settled /\ up # <<>> /\ ws = "open"
    /\ up' = Tail(up)
    /\ LET r == Head(up).room IN
        \/ /\ Head(up).type = "room.join"
           /\ IF r \in member
              THEN subs' = subs \cup {r} /\ refused' = refused \ {r}
              ELSE refused' = refused \cup {r} /\ UNCHANGED subs
        \/ /\ Head(up).type = "room.leave"
           /\ subs' = subs \ {r} /\ refused' = refused \ {r}
    /\ UNCHANGED <<session, page, socket, strays, rooms, member, unread, departures, leaving, down,
                   leaked, stranded, tabOps>>

\* It is dropped from the set and the server never told.
LeaveUntold(r) == joined' = joined \ {r} /\ UNCHANGED up

\* leaveRoom of the tab: the socket forgets the room.
leaveRoom(r) ==
    /\ joined' = joined \ {r}
    /\ send(<<[type |-> "room.leave", room |-> r]>>)

\* An event reaches our connection, and those of unmounted providers, that
\* listen to where it is published.
\* (ended records whether the user's membership has: no property of the event.)
Tell(e, heard, hearing) ==
    /\ down' = IF heard /\ ws = "open" THEN Append(down, e) ELSE down
    /\ strays' = [k \in DOMAIN strays |->
                     [strays[k] EXCEPT !.inbox = IF k \in hearing THEN Append(@, e) ELSE @]]

ToRoom(r, type, ended) ==
    Tell([type |-> type, room |-> r, ended |-> ended],
         r \in subs, {k \in DOMAIN strays : r \in strays[k].hears})

ToUser(r, type) ==
    Tell([type |-> type, room |-> r, ended |-> FALSE],
         TRUE, {k \in DOMAIN strays : strays[k].st = "open"})

\* The user is kicked, or leaves on another device.
MembershipEnds(r) ==
    /\ Settled /\ r \in member
    /\ SpendTab
    /\ member' = member \ {r}
    /\ ToRoom(r, "user.left", TRUE)
    /\ UNCHANGED <<session, page, socket, rooms, unread, subs, departures, leaving, up,
                   leaked, stranded, refused>>

\* Another user's invite or new room: told on the user's own channel.
MembershipBegins(r) ==
    /\ Settled /\ r \notin member
    /\ SpendTab
    /\ member' = member \cup {r}
    /\ ToUser(r, "room.invited")
    /\ UNCHANGED <<session, page, socket, rooms, unread, subs, departures, leaving, up,
                   leaked, stranded, refused>>

\* invalidateQueries(["rooms"]): a refetch under way begins again, but the
\* library lets the first fetch finish.
InvalidateRooms == listFetch' = IF list = Nobody /\ listFetch # "idle" THEN listFetch ELSE "sent"

\* The header's Leave: the POST is handled, and the room told.
handleLeave(r) ==
    /\ Settled /\ mounted /\ page = r /\ r \in member /\ leaving = Nobody
    /\ SpendTab
    /\ leaving' = r
    /\ member' = member \ {r}
    /\ ToRoom(r, "user.left", TRUE)
    /\ UNCHANGED <<session, page, socket, rooms, unread, subs, departures, up,
                   leaked, stranded, refused>>

\* Its answer takes the tab out of the room; one that is lost shows a toast.
LeaveAnswered ==
    /\ Settled /\ leaving # Nobody
    /\ leaving' = Nobody
    /\ \/ /\ mounted
          /\ InvalidateRooms
          /\ page' = "chat"
          /\ ClearBadges({page})
       \/ UNCHANGED <<listFetch, page, list, due>>
    /\ UNCHANGED <<session, socket, strays, joined, answer, dropped, member, unread, subs, departures, up, down,
                   leaked, stranded, refused, tabOps>>

\* A channel joined from the browser or a room made in the dialog: no event
\* tells the tab, its list is read again and the room opened.
JoinOrCreate(r) ==
    /\ Settled /\ mounted /\ page \in ChatPages /\ r \notin member
    /\ SpendTab
    /\ member' = member \cup {r}
    /\ InvalidateRooms
    /\ page' = r
    /\ MarkRead({page, r} \cap Rooms)
    /\ UNCHANGED <<session, socket, strays, joined, answer, dropped, subs, departures, leaving, up, down,
                   leaked, stranded, refused>>

PeerWrites(r) ==
    /\ Settled /\ unread[r] = 0
    /\ SpendTab
    /\ unread' = [unread EXCEPT ![r] = 1]
    /\ ToRoom(r, "message.new", FALSE)
    /\ UNCHANGED <<session, page, socket, rooms, member, subs, departures, leaving, up,
                   leaked, stranded, refused>>

\* presenceOffline: a connection of this user is gone and its rooms are told,
\* whatever other connections the user has.
AnnounceLeft(r) ==
    /\ Settled /\ r \in departures
    /\ departures' = departures \ {r}
    /\ ToRoom(r, "user.left", r \notin member)
    /\ UNCHANGED <<session, page, socket, rooms, member, unread, subs, leaving, up,
                   leaked, stranded, refused, tabOps>>

\* A message in a room that is not the active one counts on its badge.
BumpBadge(r) ==
    IF list = Nobody THEN UNCHANGED <<list, due>>
    ELSE /\ list' = [s \in DOMAIN list |-> IF s = r THEN list[s] + 1 ELSE list[s]]
         /\ due' = TRUE

\* routeEvent, and ChatWindow's own listener for user.left.
RouteEvent ==
    /\ Settled /\ down # <<>> /\ mounted
    /\ down' = Tail(down)
    /\ LET r == Head(down).room IN
        \/ /\ Head(down).type = "user.left"
           /\ leaveRoom(r)
           /\ InvalidateRooms
           /\ dropped' = dropped \cup (IF list # Nobody /\ r \in DOMAIN list THEN {r} ELSE {})
           /\ page' = IF page = r THEN "chat" ELSE page
           /\ ClearBadges({r} \cap {page})
        \/ /\ Head(down).type = "room.invited"
           /\ InvalidateRooms
           /\ UNCHANGED <<joined, up, dropped, page, list, due>>
        \/ /\ Head(down).type = "message.new"
           /\ IF r = page THEN UNCHANGED <<list, due>> ELSE BumpBadge(r)
           /\ UNCHANGED <<joined, up, dropped, page, listFetch>>
    /\ UNCHANGED <<session, socket, strays, answer, hub, leaked, stranded, refused, tabOps>>

-----------------------------------------------------------------------------
(* What an unmounted provider has left behind.                              *)

\* Its attempt resumes: nothing after the await asks whether the provider is
\* still there, and a granted one opens a socket into the dead wsRef.
StrayResumes(k) ==
    /\ strays[k].st \in Answers
    /\ strays' = [strays EXCEPT ![k].st = IF @ = "granted" THEN "connecting" ELSE "gone"]
    /\ UNCHANGED <<session, page, socket, rooms, hub, up, down, leaked, stranded, refused, tabOps>>

\* onopen joins the rooms the dead provider had joined (the server takes these
\* frames at once).
StrayOpens(k) ==
    /\ Settled /\ strays[k].st = "connecting"
    /\ strays' = [strays EXCEPT ![k].st = "open", ![k].hears = strays[k].rooms \cap member]
    /\ UNCHANGED <<session, page, socket, rooms, hub, up, down, leaked, stranded, refused, tabOps>>

\* onmessage is routed into the same caches, by refs that know no active room;
\* a user.left leaves the room on this socket.
StrayRoutes(k) ==
    /\ Settled /\ strays[k].st = "open" /\ strays[k].inbox # <<>>
    /\ LET e == Head(strays[k].inbox) IN
        \/ /\ e.type = "user.left"
           /\ InvalidateRooms
           /\ strays' = [strays EXCEPT ![k].inbox = Tail(@), ![k].rooms = @ \ {e.room}, ![k].hears = @ \ {e.room}]
           /\ UNCHANGED <<list, due>>
        \/ /\ e.type = "room.invited"
           /\ InvalidateRooms
           /\ strays' = [strays EXCEPT ![k].inbox = Tail(@)]
           /\ UNCHANGED <<list, due>>
        \/ /\ e.type = "message.new"
           /\ BumpBadge(e.room)
           /\ strays' = [strays EXCEPT ![k].inbox = Tail(@)]
           /\ UNCHANGED listFetch
    /\ UNCHANGED <<session, page, socket, joined, answer, dropped, hub, up, down,
                   leaked, stranded, refused, tabOps>>

\* Its handshake fails or its socket breaks; onclose was meant and schedules
\* nothing.  Only this, and the end of the page, closes it.
StrayBreaks(k) ==
    /\ Settled /\ strays[k].st \in {"connecting", "open"}
    /\ SpendTab
    /\ departures' = departures \cup strays[k].hears
    /\ strays' = [strays EXCEPT ![k].st = "gone", ![k].hears = {}, ![k].inbox = <<>>]
    /\ UNCHANGED <<session, page, socket, rooms, member, unread, subs, leaving, up, down,
                   leaked, stranded, refused>>

-----------------------------------------------------------------------------
TabInit ==
    /\ hydrated = FALSE /\ token \in {0, 1} /\ fresh = (token = 1) /\ issued = 1
    /\ refresh = FALSE /\ loggingOut = FALSE /\ page \in {"login", "chat"}
    /\ mounted = FALSE /\ ranFor = 0 /\ connecting = "no" /\ ws = "none" /\ timer = FALSE
    /\ status = "connecting" /\ once = FALSE /\ strays = <<>>
    /\ joined = {} /\ due = FALSE /\ list = Nobody /\ listFetch = "idle" /\ answer = Nobody /\ dropped = {}
    /\ member \in {{}, Rooms} /\ unread = [r \in Rooms |-> 0] /\ subs = {} /\ departures = {} /\ leaving = Nobody
    /\ up = <<>> /\ down = <<>> /\ leaked = 0 /\ stranded = FALSE /\ refused = {}
    /\ tabOps = 0

\* React runs effects when it commits.
Effects == ConnectionEffect \/ Unmount \/ Reconcile

Continuations == ConnectResumes \/ \E k \in DOMAIN strays : StrayResumes(k)

Tasks ==
    \/ Hydrate \/ Login \/ Expire \/ Unauthorized \/ Logout \/ LoggedOut \/ Redirect \/ BackToChat
    \/ \E outcome \in Answers : doRefresh(outcome)
    \/ \E to \in {"chat", "admin"} \cup Rooms : Navigate(to)
    \/ OnOpen \/ OnError \/ SocketBreaks \/ OnClose \/ scheduleReconnect \/ reconnectNow
    \/ RoomsRead \/ RoomsAnswered \/ HandleRoomFrame \/ RouteEvent
    \/ LeaveAnswered
    \/ \E r \in Rooms : \/ MembershipEnds(r) \/ MembershipBegins(r) \/ PeerWrites(r) \/ AnnounceLeft(r)
                        \/ handleLeave(r) \/ JoinOrCreate(r)
    \/ \E k \in DOMAIN strays : StrayOpens(k) \/ StrayRoutes(k) \/ StrayBreaks(k)

TabNext == Effects \/ Continuations \/ Tasks

TabSpec == TabInit /\ [][TabNext]_tabVars

-----------------------------------------------------------------------------
(* Properties.                                                              *)

TabTypeOK ==
    /\ token \in 0..issued /\ issued \in 1..MaxTokens /\ (fresh => token # 0)
    /\ page \in {"login", "admin"} \cup ChatPages
    /\ connecting \in {"no", "awaiting", "granted", "denied", "unreachable"}
    /\ connecting = "awaiting" \/ listFetch = "refreshing" => refresh
    /\ strays \in Seq(Stray)
    /\ \A k \in DOMAIN strays : /\ strays[k].st = "awaiting" => refresh
                                /\ strays[k].hears \subseteq strays[k].rooms
                                /\ strays[k].inbox # <<>> => strays[k].st = "open"
    /\ ws \in {"none", "connecting", "open", "closing"}
    /\ status \in {"connecting", "open", "closed"} /\ (ws = "open" => status = "open")
    /\ joined \subseteq Rooms /\ subs \subseteq Rooms /\ (list # Nobody => DOMAIN list \subseteq Rooms)
    /\ (~mounted => ws = "none" /\ ~timer)

\* A provider keeps one socket: whatever the timer, the banner, a changed
\* token and a refresh that comes back do together, a mounted provider never
\* replaces its socket while that is still alive.  (That of a provider which
\* has unmounted is another one: see OneConnection.)
OneSocket == leaked = 0

\* "One WebSocket for the whole authenticated chat session" (the provider), "so
\* the socket survives room switches - exactly one session" (the chat layout):
\* the tab has at most one live socket, mounted or left behind.
OneConnection ==
    LET Live == {"connecting", "open"}
        left == {k \in DOMAIN strays : strays[k].st \in Live}
    IN  Cardinality(left) + (IF ws \in Live THEN 1 ELSE 0) <= 1

\* A provider with a session has a socket, an attempt or a scheduled reconnect,
\* unless its effect is due, its socket's close event is, or its last attempt
\* ended because the refresh could not reach the server: that schedules
\* nothing, and the tab then waits for the user.
StrandedOnlyOffline ==
    mounted /\ token # 0 /\ page \in ChatPages /\ ranFor = token =>
        ws # "none" \/ timer \/ connecting # "no" \/ stranded

\* The rooms of a connection in rs once the frames in flight are taken: the
\* last frame about a room decides.
Heading(frames, rs) ==
    {r \in Rooms :
        \/ r \in rs /\ \A k \in DOMAIN frames : frames[k].room # r
        \/ \E k \in DOMAIN frames :
              /\ frames[k] = [type |-> "room.join", room |-> r]
              /\ \A j \in DOMAIN frames : j > k => frames[j].room # r}

\* While the socket is open, the rooms the server will send events of are the
\* rooms the tab has joined: across reconnects, kicks and reconciliation no
\* room goes on being heard after it was left, nor is one silently missed,
\* but for joins the server refused.
SubscriptionsFollow ==
    ws = "open" =>
        /\ Heading(up, subs) \subseteq joined
        /\ joined \subseteq Heading(up, subs \cup refused)

\* When the effects have run on an open socket, the tab is in exactly the
\* rooms of its list, but for those a user.left about itself took it out of
\* (an equal list does not run the effect again).
Reconciled ==
    status = "open" /\ list # Nobody /\ ~due =>
        joined \subseteq DOMAIN list /\ DOMAIN list \ joined \subseteq dropped

\* "It's us - either we left ... or we were just kicked": a user.left that the
\* tab handles as its own user's departure was published after the user's
\* membership had ended.
LeftMeansLeft ==
    \A k \in DOMAIN down : down[k].type = "user.left" => down[k].ended
=============================================================================
