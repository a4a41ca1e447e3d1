----------------------------- MODULE RoomPanel ------------------------------
(* The members of the open room as an admin's tab shows them: the           *)
(* ["room", id] query (useRoom), the events that invalidate it              *)
(* (useWebSocket.tsx), and what the admin does to the members: the invite   *)
(* dialog, promoting and demoting, and kicking (InviteMemberDialog.tsx,     *)
(* MembersList.tsx, useRooms.ts).                                           *)
(*                                                                          *)
(* The admin's own row does not change.  An event only says that something  *)
(* did: what the tab shows is always what a fetch has read.                 *)
EXTENDS Naturals, FiniteSets

CONSTANTS Others,       \* the other users
          NoData,       \* undefined / null
          MaxPanelOps   \* bound: what the admins and the network start

ASSUME PanelAssumption ==
    /\ MaxPanelOps \in Nat
    /\ NoData \notin Others /\ NoData \notin [Others -> {"none", "member", "admin"}]

VARIABLES
    roles,      \* room_members: the role of each other user, "none" if out
    announcing, \* events committed handlers have yet to publish
    heard,      \* events on their way to the tab
    linked,     \* the tab's socket is open
    seen,       \* the cache: NoData, or the roles last read
    detail,     \* its fetch: "idle", "sent", or "read" by the server
    asRead,     \* the roles it has read
    results,    \* what the invite dialog offers
    kickTarget, \* the member the kick dialog asks about
    requests,   \* the tab's own requests in flight
    latest,     \* per kind of request: the user of the last one made
    unheard,    \* history: a change that nothing will tell the tab of
    panelOps    \* budget used

panelVars == <<roles, announcing, heard, linked, seen, detail, asRead, results, kickTarget, requests, latest, unheard, panelOps>>

SpendPanel == panelOps < MaxPanelOps /\ panelOps' = panelOps + 1

-----------------------------------------------------------------------------
(* The query.                                                               *)

\* A fetch that is already under way will do.
InvalidateLazily(now) == IF detail = "idle" THEN "sent" ELSE detail

\* invalidateQueries: a refetch under way is given up and begun again, unless
\* it is the first one, which the library lets finish.
Invalidate(now) == IF now = NoData /\ detail # "idle" THEN detail ELSE "sent"

\* What that leaves unread: a first fetch that has been read already.
LeftUnread == seen = NoData /\ detail = "read"

\* GetRoom reads the members.
DetailRead ==
    /\ detail = "sent"
    /\ detail' = "read" /\ asRead' = roles
    /\ unheard' = FALSE
    /\ UNCHANGED <<roles, announcing, heard, linked, seen, results, kickTarget, requests, latest, panelOps>>

DetailAnswered ==
    /\ detail = "read"
    /\ seen' = asRead /\ detail' = "idle" /\ asRead' = NoData
    /\ UNCHANGED <<roles, announcing, heard, linked, results, kickTarget, requests, latest, unheard, panelOps>>

\* It fails for good: the cache stays as it was.
DetailFails ==
    /\ detail # "idle" /\ seen # NoData
    /\ SpendPanel
    /\ detail' = "idle" /\ asRead' = NoData /\ unheard' = TRUE
    /\ UNCHANGED <<roles, announcing, heard, linked, seen, results, kickTarget, requests, latest>>

-----------------------------------------------------------------------------
(* Others.                                                                  *)

\* Another admin, or the user: a join, a leave, a kick, a new role.  An invite
\* is announced by no event of the room: only the invitee's own tab, if it is
\* online, joins the room and is heard.
MemberChanges(u, role) ==
    /\ roles[u] # role /\ (role = "admin" => roles[u] # "none")
    /\ SpendPanel
    /\ roles' = [roles EXCEPT ![u] = role]
    /\ \/ announcing' = announcing + 1 /\ UNCHANGED unheard
       \/ roles[u] = "none" /\ unheard' = TRUE /\ UNCHANGED announcing
    /\ UNCHANGED <<heard, linked, seen, detail, asRead, results, kickTarget, requests, latest>>

Announce ==
    /\ announcing > 0
    /\ announcing' = announcing - 1
    /\ heard' = IF linked THEN heard + 1 ELSE heard
    /\ unheard' = (unheard \/ ~linked)
    /\ UNCHANGED <<roles, linked, seen, detail, asRead, results, kickTarget, requests, latest, panelOps>>

\* routeEvent on user.joined, user.left or member.role_changed.
RouteMemberEvent ==
    /\ heard > 0
    /\ heard' = heard - 1
    /\ detail' = Invalidate(seen) /\ asRead' = IF detail' = "sent" THEN NoData ELSE asRead
    /\ unheard' = (unheard \/ LeftUnread)
    /\ UNCHANGED <<roles, announcing, linked, seen, results, kickTarget, requests, latest, panelOps>>

\* The socket breaks, with the events on their way.
LinkBreaks ==
    /\ linked
    /\ SpendPanel
    /\ linked' = FALSE /\ heard' = 0
    /\ unheard' = (unheard \/ heard > 0)
    /\ UNCHANGED <<roles, announcing, seen, detail, asRead, results, kickTarget, requests, latest>>

\* onopen joins the room again, and the server announces that as a user.joined
\* of the tab's own user, which the tab hears like any other (unless the join is
\* refused, or the hub takes the event before the join).
LinkReturns ==
    /\ ~linked
    /\ linked' = TRUE
    /\ announcing' \in {announcing, announcing + 1}
    /\ UNCHANGED <<roles, heard, seen, detail, asRead, results, kickTarget, requests, latest, unheard, panelOps>>

-----------------------------------------------------------------------------
(* The admin.                                                               *)

Request(kind, u, role) == [kind |-> kind, user |-> u, role |-> role, st |-> "sent"]

\* A mutation's isPending and variables are those of its last call: a button is
\* disabled for that user only.
Pending(kind, u) == latest[kind] = u /\ \E q \in requests : q.kind = kind /\ q.user = u

\* mutate.  (Two requests alike that are both on their way count as one.)
Issue(kind, u, role) ==
    /\ requests' = requests \cup {Request(kind, u, role)}
    /\ latest' = [latest EXCEPT ![kind] = u]

\* The debounced search, which leaves out the members of that moment.
SearchUsers ==
    /\ results # {u \in Others : roles[u] = "none"}
    /\ SpendPanel
    /\ results' = {u \in Others : roles[u] = "none"}
    /\ UNCHANGED <<roles, announcing, heard, linked, seen, detail, asRead, kickTarget, requests, latest, unheard>>

\* Closing the invite dialog clears its box.
handleOpenChange ==
    /\ results # {}
    /\ results' = {}
    /\ UNCHANGED <<roles, announcing, heard, linked, seen, detail, asRead, kickTarget, requests, latest, unheard, panelOps>>

handleInvite(u) ==
    /\ u \in results /\ ~Pending("invite", u)
    /\ SpendPanel
    /\ Issue("invite", u, "member")
    /\ UNCHANGED <<roles, announcing, heard, linked, seen, detail, asRead, results, kickTarget, unheard>>

\* The other role than the one shown.  (The admin's own row counts: another is
\* never the last admin.)
changeRole(u) ==
    /\ seen # NoData /\ seen[u] # "none" /\ ~Pending("role", u)
    /\ SpendPanel
    /\ Issue("role", u, IF seen[u] = "admin" THEN "member" ELSE "admin")
    /\ UNCHANGED <<roles, announcing, heard, linked, seen, detail, asRead, results, kickTarget, unheard>>

\* The dialog is drawn in the member's row: it is gone when the row is.
KickAsked == kickTarget # NoData /\ seen[kickTarget] # "none"

askKick(u) ==
    /\ seen # NoData /\ seen[u] # "none" /\ ~Pending("kick", u)
    /\ ~KickAsked
    /\ SpendPanel
    /\ kickTarget' = u
    /\ UNCHANGED <<roles, announcing, heard, linked, seen, detail, asRead, results, requests, latest, unheard>>

cancelKick ==
    /\ KickAsked
    /\ kickTarget' = NoData
    /\ UNCHANGED <<roles, announcing, heard, linked, seen, detail, asRead, results, requests, latest, unheard, panelOps>>

confirmKick ==
    /\ KickAsked
    /\ Issue("kick", kickTarget, "none")
    /\ kickTarget' = NoData
    /\ UNCHANGED <<roles, announcing, heard, linked, seen, detail, asRead, results, unheard, panelOps>>

\* InviteMember, ChangeMemberRole and RemoveMember of the server.
Allowed(q) == (q.kind = "invite") = (roles[q.user] = "none")

RequestHandled(q) ==
    /\ q \in requests /\ q.st = "sent"
    /\ \/ /\ Allowed(q)
          /\ roles' = [roles EXCEPT ![q.user] = q.role]
          /\ announcing' = IF q.kind = "invite" \/ roles[q.user] = q.role THEN announcing ELSE announcing + 1
          /\ requests' = (requests \ {q}) \cup {[q EXCEPT !.st = "done"]}
       \/ /\ requests' = (requests \ {q}) \cup {[q EXCEPT !.st = "refused"]}
          /\ UNCHANGED <<roles, announcing>>
    /\ UNCHANGED <<heard, linked, seen, detail, asRead, results, kickTarget, latest, unheard, panelOps>>

\* The answer: an invite and a kick invalidate the members at once, a new role
\* waits for its event; a failure, or an answer that is lost, shows a toast.
RequestAnswered(q) ==
    /\ q \in requests /\ q.st # "sent"
    /\ requests' = requests \ {q}
    /\ \/ /\ q.st = "done"
          /\ detail' = IF q.kind = "role" THEN detail ELSE Invalidate(seen)
          /\ asRead' = IF detail' = "sent" THEN NoData ELSE asRead
          /\ results' = IF q.kind = "invite" THEN results \ {q.user} ELSE results
          /\ unheard' = (unheard \/ (q.kind # "role" /\ LeftUnread))
       \/ /\ unheard' = (unheard \/ (q.st = "done" /\ q.kind = "invite"))
          /\ UNCHANGED <<detail, asRead, results>>
    /\ UNCHANGED <<roles, announcing, heard, linked, seen, kickTarget, latest, panelOps>>

-----------------------------------------------------------------------------
PanelInit ==
    /\ roles \in [Others -> {"none", "member"}] /\ announcing = 0 /\ heard = 0 /\ linked = TRUE
    /\ seen = NoData /\ detail = "sent" /\ asRead = NoData /\ results = {} /\ kickTarget = NoData /\ requests = {}
    /\ latest = [kind \in {"invite", "role", "kick"} |-> NoData]
    /\ unheard = FALSE /\ panelOps = 0

PanelNext ==
    \/ DetailRead \/ DetailAnswered \/ DetailFails
    \/ \E u \in Others, role \in {"none", "member", "admin"} : MemberChanges(u, role)
    \/ Announce \/ RouteMemberEvent \/ LinkBreaks \/ LinkReturns
    \/ SearchUsers \/ handleOpenChange \/ cancelKick \/ confirmKick
    \/ \E u \in Others : handleInvite(u) \/ changeRole(u) \/ askKick(u)
    \/ \E q \in requests : RequestHandled(q) \/ RequestAnswered(q)

PanelSpec == PanelInit /\ [][PanelNext]_panelVars

-----------------------------------------------------------------------------
(* Properties.                                                              *)

PanelTypeOK ==
    /\ roles \in [Others -> {"none", "member", "admin"}]
    /\ (seen # NoData => seen \in [Others -> {"none", "member", "admin"}])
    /\ (kickTarget # NoData => kickTarget \in Others /\ seen # NoData)

\* When nothing is in flight, the members shown are the members there are,
\* whatever order fetches, events, the admin's requests and other admins'
\* changes came in, but for changes whose event the tab could not hear and
\* that no later fetch, such as the one its own re-join causes, has read.
MembersFollow ==
    seen # NoData /\ detail = "idle" /\ announcing = 0 /\ heard = 0 /\ requests = {} /\ ~unheard
        => seen = roles
=============================================================================
