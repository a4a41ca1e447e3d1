----------------------------- MODULE Membership -----------------------------
(***************************************************************************)
(* Rooms and their members: the tables rooms and room_members, the         *)
(* statements of internal/store/rooms.go and the REST handlers of          *)
(* internal/handlers/rooms.go (with RequireRoomAdmin of middleware.go).    *)
(*                                                                         *)
(* A handler is several database calls, and other requests run between     *)
(* them.  A request is one of Requests; its record says which call is next *)
(* and what the earlier ones established.  Statements run at READ          *)
(* COMMITTED: each sees what is committed when it starts.  A request may   *)
(* end at any point between two calls (the client hangs up, which cancels  *)
(* the context of the request, or the database fails); an open transaction *)
(* is then rolled back.                                                    *)
(*                                                                         *)
(* The events the handlers publish after a commit are not here: to the     *)
(* real-time layer they are the remote publications of Realtime.           *)
(***************************************************************************)
EXTENDS Naturals, FiniteSets

CONSTANTS
    Users, Rooms,
    Requests,     \* requests that may be in flight at once
    NoRoom,
    minGroupMembers,
    MaxClock      \* bound: room creations and joins in all

ASSUME MembershipAssumption ==
    NoRoom \notin Rooms /\ minGroupMembers \in Nat /\ MaxClock \in Nat

VARIABLES
    kind,         \* per room: its type and visibility, "none" before it is created
    roster,       \* per room and user: the room_members row
    clock,        \* the last joined_at
    req,          \* per request: where it stands
    unsettled     \* ghost: rooms that have been empty, that lost a succession check, or in
                  \* which two of leave, kick and demotion overlapped

rosterVars == <<kind, roster, clock, req, unsettled>>

Kinds == {"none", "public", "private", "group", "direct"}
Roles == {"member", "admin"}
RosterRow == [role : Roles \cup {"none"}, active : BOOLEAN, banned : BOOLEAN, joined : Nat]
NoRow == [role |-> "none", active |-> FALSE, banned |-> FALSE, joined |-> 0]
Steps == {"invite", "join", "succession", "promote", "role", "setrole", "kick", "direct"}
InFlight == [at : Steps, room : Rooms \cup {NoRoom}, by : Users, on : Users, role : Roles]
Idle == [at |-> "idle"]

RosterTypeOK ==
    /\ kind \in [Rooms -> Kinds]
    /\ roster \in [Rooms -> [Users -> RosterRow]]
    /\ clock \in Nat
    /\ req \in [Requests -> InFlight \cup {Idle}]
    /\ unsettled \in SUBSET Rooms

RosterInit ==
    /\ kind = [r \in Rooms |-> "none"]
    /\ roster = [r \in Rooms |-> [u \in Users |-> NoRow]]
    /\ clock = 0
    /\ req = [q \in Requests |-> Idle]
    /\ unsettled = {}

-----------------------------------------------------------------------------
HasRow(r, u) == roster[r][u].role # "none"
Active(r) == {u \in Users : roster[r][u].active}
Admins(r) == {u \in Active(r) : roster[r][u].role = "admin"}
HasAdmins(r) == kind[r] \in {"public", "private", "group"}

At(q, step) == req[q].at = step
Begin(q, step, r, u, v, role) ==
    req' = [req EXCEPT ![q] = [at |-> step, room |-> r, by |-> u, on |-> v, role |-> role]]
Advance(q, step) == req' = [req EXCEPT ![q].at = step]
Finish(q) == req' = [req EXCEPT ![q] = Idle]

(* A row ChangeMemberRole has selected FOR UPDATE: other writers wait. *)
Locked(r, u) ==
    \E q \in Requests : At(q, "setrole") /\ req[q].room = r /\ req[q].on = u

GuestRow(role) == [role |-> "guest", active |-> TRUE, banned |-> FALSE, joined |-> clock + 1]

Fresh(role) == [role |-> role, active |-> TRUE, banned |-> FALSE, joined |-> clock + 1]
Tick == clock < MaxClock /\ clock' = clock + 1

(* The request may yet take an admin from room r. *)
Removing(q, r) ==
    /\ ~At(q, "idle") /\ req[q].room = r
    /\ \/ req[q].at \in {"succession", "promote", "kick"}
       \/ req[q].at \in {"role", "setrole"} /\ req[q].role = "member"

(* Another such request starts: with one in flight, they overlap.             *)
Unsettle(r) == IF \E q \in Requests : Removing(q, r) THEN unsettled \cup {r} ELSE unsettled

(* RequireRoomAdmin, and the same check inlined in InviteMember. *)
RequireRoomAdmin(r, u) == u \in Admins(r)

-----------------------------------------------------------------------------
(* CreateRoom.  CreateChannel and CreateGroup are one transaction on a room   *)
(* nobody else can see yet.                                                   *)
CreateChannel(u, r, visibility) ==
    /\ kind[r] = "none"
    /\ Tick
    /\ kind' = [kind EXCEPT ![r] = visibility]
    /\ roster' = [roster EXCEPT ![r][u] = Fresh("admin")]
    /\ UNCHANGED <<req, unsettled>>

CreateGroup(u, r, members) ==
    /\ kind[r] = "none"
    /\ u \notin members
    /\ Cardinality(members) >= minGroupMembers
    /\ Tick
    /\ kind' = [kind EXCEPT ![r] = "group"]
    /\ roster' = [roster EXCEPT ![r] = [v \in Users |->
                  IF v = u THEN Fresh("admin")
                  ELSE IF v \in members THEN Fresh("member") ELSE NoRow]]
    /\ UNCHANGED <<req, unsettled>>

(* GetOrCreateDirectRoom: take the pair's advisory lock and look for a room   *)
(* both have ever had a row in; then, still holding it, reactivate or create. *)
DirectRooms(u, v) == {r \in Rooms : kind[r] = "direct" /\ HasRow(r, u) /\ HasRow(r, v)}

NoLock(u, v) == FALSE

PairLocked(u, v) ==
    \E q \in Requests : At(q, "direct") /\ {req[q].by, req[q].on} = {u, v}

FindDirectRoom(q, u, v) ==
    /\ At(q, "idle")
    /\ u # v
    /\ ~PairLocked(u, v)
    /\ IF DirectRooms(u, v) = {} THEN Begin(q, "direct", NoRoom, u, v, "member")
       ELSE \E r \in DirectRooms(u, v) : Begin(q, "direct", r, u, v, "member")
    /\ UNCHANGED <<kind, roster, clock, unsettled>>

ReactivateDirectRoom(q) ==
    /\ At(q, "direct")
    /\ req[q].room # NoRoom
    /\ Tick
    /\ roster' = [roster EXCEPT ![req[q].room] = [w \in Users |->
                  IF w \in {req[q].by, req[q].on} /\ ~roster[req[q].room][w].active
                  THEN [roster[req[q].room][w] EXCEPT !.active = TRUE, !.joined = clock + 1]
                  ELSE roster[req[q].room][w]]]
    /\ Finish(q)
    /\ UNCHANGED <<kind, unsettled>>

CreateDirectRoom(q, r) ==
    /\ At(q, "direct")
    /\ req[q].room = NoRoom
    /\ kind[r] = "none"
    /\ Tick
    /\ kind' = [kind EXCEPT ![r] = "direct"]
    /\ roster' = [roster EXCEPT ![r] = [w \in Users |->
                  IF w \in {req[q].by, req[q].on} THEN Fresh("member") ELSE NoRow]]
    /\ Finish(q)
    /\ UNCHANGED unsettled

-----------------------------------------------------------------------------
(* AddMember: insert, or reactivate a departed row and lift its ban; an       *)
(* active member is left alone (ErrAlreadyMember).                            *)
KeepBan(r, u) ==
    /\ ~Locked(r, u)
    /\ \/ /\ roster[r][u].active
          /\ UNCHANGED <<roster, clock>>
       \/ /\ ~roster[r][u].active
          /\ Tick
          /\ roster' = [roster EXCEPT ![r][u] = [Fresh("member") EXCEPT !.banned = roster[r][u].banned]]

AddMember(r, u) ==
    /\ ~Locked(r, u)
    /\ \/ /\ roster[r][u].active
          /\ UNCHANGED <<roster, clock>>
       \/ /\ ~roster[r][u].active
          /\ Tick
          /\ roster' = [roster EXCEPT ![r][u] = Fresh("member")]

InviteMember(q, u, r, v) ==
    /\ At(q, "idle")
    /\ RequireRoomAdmin(r, u)
    /\ Begin(q, "invite", r, u, v, "member")
    /\ UNCHANGED <<kind, roster, clock, unsettled>>

Invited(q) ==
    /\ At(q, "invite")
    /\ AddMember(req[q].room, req[q].on)
    /\ Finish(q)
    /\ UNCHANGED <<kind, unsettled>>

(* JoinChannel: a public channel the caller is not banned from. *)
JoinChannel(q, u, r) ==
    /\ At(q, "idle")
    /\ kind[r] = "public"
    /\ ~roster[r][u].banned
    /\ Begin(q, "join", r, u, u, "member")
    /\ UNCHANGED <<kind, roster, clock, unsettled>>

Joined(q) ==
    /\ At(q, "join")
    /\ AddMember(req[q].room, req[q].on)
    /\ Finish(q)
    /\ UNCHANGED <<kind, unsettled>>

-----------------------------------------------------------------------------
(* LeaveRoom: RemoveMember, then PromoteOldestIfNoAdmins, whose statement     *)
(* picks its candidate from a snapshot and then updates that row, whatever    *)
(* has become of it.                                                          *)
LeaveRoom(q, u, r) ==
    /\ At(q, "idle")
    /\ u \in Active(r)
    /\ ~Locked(r, u)
    /\ roster' = [roster EXCEPT ![r][u].active = FALSE]
    /\ unsettled' = IF Active(r) = {u} THEN unsettled \cup {r} ELSE Unsettle(r)
    /\ Begin(q, "succession", r, u, u, "admin")
    /\ UNCHANGED <<kind, clock>>

Eldest(r) == {u \in Active(r) : \A v \in Active(r) : roster[r][u].joined <= roster[r][v].joined}

AnyRoomsHeirs(r) == IF Admins(r) = {} THEN Eldest(r) ELSE {}

Heirs(r) == IF HasAdmins(r) /\ Admins(r) = {} THEN Eldest(r) ELSE {}

PromoteOldestIfNoAdmins(q) ==
    /\ At(q, "succession")
    /\ LET r == req[q].room IN
       \/ /\ Heirs(r) = {}
          /\ Finish(q)
       \/ \E u \in Heirs(r) : Begin(q, "promote", r, req[q].by, u, "admin")
    /\ UNCHANGED <<kind, roster, clock, unsettled>>

Promoted(q) ==
    /\ At(q, "promote")
    /\ ~Locked(req[q].room, req[q].on)
    /\ roster' = [roster EXCEPT ![req[q].room][req[q].on].role = "admin"]
    /\ Finish(q)
    /\ UNCHANGED <<kind, clock, unsettled>>

-----------------------------------------------------------------------------
(* ChangeMemberRole: the caller is an admin; then one transaction that locks  *)
(* the target's row, counts the admins when demoting one, updates, commits.   *)
ChangeMemberRole(q, u, r, v, role) ==
    /\ At(q, "idle")
    /\ RequireRoomAdmin(r, u)
    /\ Begin(q, "role", r, u, v, role)
    /\ unsettled' = IF role = "member" THEN Unsettle(r) ELSE unsettled
    /\ UNCHANGED <<kind, roster, clock>>

(* ErrLastAdmin. *)
NeverLast(r, v, role) == FALSE

LastAdmin(r, v, role) ==
    roster[r][v].role = "admin" /\ role # "admin" /\ Cardinality(Admins(r)) <= 1

LockMember(q) ==
    /\ At(q, "role")
    /\ LET r == req[q].room  v == req[q].on IN
       /\ ~Locked(r, v)
       /\ IF v \notin Active(r) \/ roster[r][v].role = req[q].role
              \/ LastAdmin(r, v, req[q].role)
          THEN Finish(q) ELSE Advance(q, "setrole")
    /\ UNCHANGED <<kind, roster, clock, unsettled>>

RoleChanged(q) ==
    /\ At(q, "setrole")
    /\ roster' = [roster EXCEPT ![req[q].room][req[q].on].role = req[q].role]
    /\ Finish(q)
    /\ UNCHANGED <<kind, clock, unsettled>>

(* RemoveMember (kick): the caller is an admin and not the target; BanMember  *)
(* does nothing to a row that is not active.                                  *)
RemoveMember(q, u, r, v) ==
    /\ At(q, "idle")
    /\ RequireRoomAdmin(r, u)
    /\ u # v
    /\ Begin(q, "kick", r, u, v, "member")
    /\ unsettled' = Unsettle(r)
    /\ UNCHANGED <<kind, roster, clock>>

BanMember(q) ==
    /\ At(q, "kick")
    /\ LET r == req[q].room  v == req[q].on IN
       /\ ~Locked(r, v)
       /\ roster' = IF v \in Active(r)
                  THEN [roster EXCEPT ![r][v].active = FALSE, ![r][v].banned = TRUE]
                  ELSE roster
       /\ unsettled' = IF Active(r) = {v} THEN unsettled \cup {r} ELSE unsettled
    /\ Finish(q)
    /\ UNCHANGED <<kind, clock>>

(* The request ends between two calls. *)
Abandon(q) ==
    /\ ~At(q, "idle")
    /\ unsettled' = IF req[q].at \in {"succession", "promote"}
                   THEN unsettled \cup {req[q].room} ELSE unsettled
    /\ Finish(q)
    /\ UNCHANGED <<kind, roster, clock>>

-----------------------------------------------------------------------------
Start(q) ==
    \E u \in Users :
       \/ \E r \in Rooms : JoinChannel(q, u, r) \/ LeaveRoom(q, u, r)
       \/ \E v \in Users :
            \/ FindDirectRoom(q, u, v)
            \/ \E r \in Rooms :
                 \/ InviteMember(q, u, r, v) \/ RemoveMember(q, u, r, v)
                 \/ \E role \in Roles : ChangeMemberRole(q, u, r, v, role)

Continue(q) ==
    \/ ReactivateDirectRoom(q) \/ (\E r \in Rooms : CreateDirectRoom(q, r))
    \/ Invited(q) \/ Joined(q)
    \/ PromoteOldestIfNoAdmins(q) \/ Promoted(q)
    \/ LockMember(q) \/ RoleChanged(q) \/ BanMember(q)
    \/ Abandon(q)

CreateRoom ==
    \E u \in Users, r \in Rooms :
        \/ \E visibility \in {"public", "private"} : CreateChannel(u, r, visibility)
        \/ \E members \in SUBSET Users : CreateGroup(u, r, members)

RosterNext == CreateRoom \/ \E q \in Requests : Start(q) \/ Continue(q)

RosterSpec == RosterInit /\ [][RosterNext]_rosterVars

-----------------------------------------------------------------------------
(* Nobody is both banned from a room and an active member of it: a kick ends  *)
(* the membership, and every way back in (AddMember, from an invite or a      *)
(* join that raced the kick) lifts the ban.  GetOrCreateDirectRoom reactivates *)
(* without lifting, which is safe only because nobody is ever kicked from a   *)
(* direct room.                                                               *)
BannedIsOut == \A r \in Rooms, u \in Users : roster[r][u].banned => u \notin Active(r)

(* A direct room belongs to exactly two users for ever, both plain members:   *)
(* no invite, join, succession or role change reaches it (rooms.go: "a direct *)
(* room structurally can only ever hold these exact two users").              *)
DirectRoomIsAPair ==
    \A r \in Rooms : kind[r] = "direct" =>
        \E u, v \in Users :
            /\ u # v
            /\ \A w \in Users : roster[r][w].role = IF w \in {u, v} THEN "member" ELSE "none"

(* Two users share at most one direct room, whatever requests race to open it *)
(* (the advisory lock of GetOrCreateDirectRoom).                              *)
OneDirectRoom ==
    \A u, v \in Users : u # v =>
        \A r, s \in DirectRooms(u, v) : r = s

(* With no request in flight, a channel or group with members has an admin,   *)
(* whatever joins, invites, promotions and direct rooms run at once, unless   *)
(* it has been empty, a succession check was lost with its request, or two of *)
(* leave, kick and demotion overlapped in it.  (That they then lose the last  *)
(* admin is DemotionKeepsAnAdmin below.)                                      *)
RoomsHaveAdmin ==
    (\A q \in Requests : At(q, "idle")) =>
        \A r \in Rooms \ unsettled :
            HasAdmins(r) /\ Active(r) # {} => Admins(r) # {}

(* A banned user comes back only on an admin's invite (handlers/rooms.go:     *)
(* "only an admin re-invite (which clears the ban via AddMember) can let them *)
(* back in").                                                                 *)
BanHolds ==
    [][\A r \in Rooms, u \in Users :
         roster[r][u].banned /\ ~roster'[r][u].banned =>
            \E q \in Requests : At(q, "invite") /\ req[q].room = r /\ req[q].on = u]_rosterVars

(* Demotions alone never take a room's last admin, also when several run at   *)
(* once: in a room nobody has left or been kicked from, a demotion leaves an  *)
(* admin (rooms.go: "to stay race-safe under concurrent demotes of the same   *)
(* room's admins").                                                           *)
Undeparted(r) == \A u \in Users : HasRow(r, u) => u \in Active(r)

DemotionKeepsAnAdmin ==
    [][\A q \in Requests :
         /\ At(q, "setrole") /\ req[q].role = "member" /\ Undeparted(req[q].room)
         /\ req'[q] = Idle /\ roster' # roster
         => \E u \in Users : /\ roster'[req[q].room][u].active
                            /\ roster'[req[q].room][u].role = "admin"]_rosterVars
=============================================================================
