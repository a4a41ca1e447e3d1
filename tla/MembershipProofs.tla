-------------------------- MODULE MembershipProofs --------------------------
(***************************************************************************)
(* Proofs about Membership, for any users, rooms and requests.             *)
(*                                                                         *)
(* The three invariants need each other.  A direct room stays a pair       *)
(* because every request that could change it must find an admin in it,    *)
(* and it has none (RequestInv); nobody is banned in a direct room, so     *)
(* reactivating it lifts no ban (RowInv); and a request about to create a  *)
(* direct room has found none and holds the pair's lock (DirectInv,        *)
(* LockInv), so it forks no conversation.                                  *)
(***************************************************************************)
EXTENDS Membership, FiniteSetTheorems, WellFoundedInduction, TLAPS

Managed == {"public", "private", "group"}

RowInv ==
    \A r \in Rooms, u \in Users :
        /\ roster[r][u].banned => ~roster[r][u].active
        /\ kind[r] = "none" => roster[r][u] = NoRow
        /\ kind[r] = "direct" => ~roster[r][u].banned /\ roster[r][u].role # "admin"

(* A request for an existing room names it, and any but a leave or a direct  *)
(* room's names a channel or a group.                                        *)
RequestOK(q) ==
    /\ req[q].at \in {"invite", "join", "promote", "role", "setrole", "kick"} =>
          req[q].room \in Rooms /\ kind[req[q].room] \in Managed
    /\ req[q].at = "succession" => req[q].room \in Rooms /\ kind[req[q].room] # "none"

RequestInv == \A q \in Requests : RequestOK(q)

(* The direct room of two users. *)
Shared(r, u, v) == kind[r] = "direct" /\ HasRow(r, u) /\ HasRow(r, v)

(* What the holder of a pair's lock has found. *)
DirectOK(q) ==
    req[q].at = "direct" =>
        /\ req[q].by # req[q].on
        /\ req[q].room = NoRoom => \A r \in Rooms : ~Shared(r, req[q].by, req[q].on)
        /\ req[q].room # NoRoom => req[q].room \in Rooms /\ Shared(req[q].room, req[q].by, req[q].on)

DirectInv == \A q \in Requests : DirectOK(q)

LockInv ==
    \A p, q \in Requests :
        At(p, "direct") /\ At(q, "direct") /\ {req[p].by, req[p].on} = {req[q].by, req[q].on} => p = q

IInv == RosterTypeOK /\ RowInv /\ RequestInv /\ DirectInv /\ LockInv /\ DirectRoomIsAPair /\ OneDirectRoom

-----------------------------------------------------------------------------
(* Requests. *)

LEMMA RequestKinds ==
    ASSUME RosterTypeOK, NEW q \in Requests, req[q].at # "idle"
    PROVE  /\ req[q] \in InFlight
           /\ req[q].at \in Steps /\ req[q].room \in Rooms \cup {NoRoom}
           /\ req[q].by \in Users /\ req[q].on \in Users /\ req[q].role \in Roles
  <1>1. req[q] \in InFlight
    BY DEF RosterTypeOK, Idle
  <1>2. QED BY <1>1 DEF InFlight

LEMMA RequestBegun ==
    ASSUME RosterTypeOK, NEW q \in Requests, NEW step \in Steps, NEW r \in Rooms \cup {NoRoom},
           NEW u \in Users, NEW v \in Users, NEW role \in Roles, Begin(q, step, r, u, v, role)
    PROVE  /\ req' \in [Requests -> InFlight \cup {Idle}]
           /\ \A p \in Requests : p # q => req'[p] = req[p]
           /\ req'[q].at = step /\ req'[q].room = r /\ req'[q].by = u /\ req'[q].on = v
           /\ req'[q].role = role
  BY DEF Begin, RosterTypeOK, InFlight

LEMMA RequestFinished ==
    ASSUME RosterTypeOK, NEW q \in Requests, Finish(q)
    PROVE  /\ req' \in [Requests -> InFlight \cup {Idle}]
           /\ \A p \in Requests : p # q => req'[p] = req[p]
           /\ req'[q] = Idle /\ req'[q].at = "idle"
  BY DEF Finish, RosterTypeOK, Idle

LEMMA RequestAdvanced ==
    ASSUME RosterTypeOK, NEW q \in Requests, At(q, "role"), Advance(q, "setrole")
    PROVE  /\ req' \in [Requests -> InFlight \cup {Idle}]
           /\ \A p \in Requests : p # q => req'[p] = req[p]
           /\ req'[q].at = "setrole" /\ req'[q].room = req[q].room /\ req'[q].by = req[q].by
           /\ req'[q].on = req[q].on /\ req'[q].role = req[q].role
  <1>1. req[q] \in InFlight
    BY RequestKinds DEF At
  <1>2. req'[q] = [req[q] EXCEPT !.at = "setrole"]
    BY DEF Advance, RosterTypeOK
  <1>3. req'[q] = [at |-> "setrole", room |-> req[q].room, by |-> req[q].by,
                   on |-> req[q].on, role |-> req[q].role]
    BY <1>1, <1>2 DEF InFlight
  <1>4. req'[q] \in InFlight
    BY <1>1, <1>3 DEF InFlight, Steps
  <1>5. QED BY <1>3, <1>4 DEF Advance, RosterTypeOK

(* One row is written. *)
LEMMA RowWritten ==
    ASSUME RosterTypeOK, NEW r \in Rooms, NEW u \in Users, NEW x \in RosterRow,
           roster' = [roster EXCEPT ![r][u] = x]
    PROVE  /\ roster' \in [Rooms -> [Users -> RosterRow]]
           /\ \A s \in Rooms, v \in Users : roster'[s][v] = IF s = r /\ v = u THEN x ELSE roster[s][v]
  BY DEF RosterTypeOK

(* The rows of one room are written. *)
LEMMA RoomWritten ==
    ASSUME RosterTypeOK, NEW r \in Rooms, NEW f \in [Users -> RosterRow],
           roster' = [roster EXCEPT ![r] = f]
    PROVE  /\ roster' \in [Rooms -> [Users -> RosterRow]]
           /\ \A s \in Rooms, v \in Users : roster'[s][v] = IF s = r THEN f[v] ELSE roster[s][v]
  BY DEF RosterTypeOK

LEMMA RowParts ==
    ASSUME RosterTypeOK, NEW r \in Rooms, NEW u \in Users
    PROVE  /\ roster[r][u] \in RosterRow
           /\ roster[r][u].role \in Roles \cup {"none"} /\ roster[r][u].active \in BOOLEAN
           /\ roster[r][u].banned \in BOOLEAN /\ roster[r][u].joined \in Nat
           /\ kind[r] \in Kinds
  BY DEF RosterTypeOK, RosterRow

LEMMA FreshRow ==
    ASSUME RosterTypeOK, NEW role \in Roles
    PROVE  /\ Fresh(role) \in RosterRow /\ NoRow \in RosterRow
           /\ Fresh(role).role = role /\ Fresh(role).active /\ ~Fresh(role).banned
  BY DEF Fresh, NoRow, RosterRow, Roles, RosterTypeOK

(* Only a channel or a group has admins. *)
LEMMA AdminsAreManaged ==
    ASSUME RosterTypeOK, RowInv, NEW r \in Rooms, NEW u \in Users, RequireRoomAdmin(r, u)
    PROVE  kind[r] \in Managed
  BY RowParts DEF RequireRoomAdmin, Admins, Active, RowInv, NoRow, Managed, Kinds

-----------------------------------------------------------------------------
(* What a step owes. *)

(* No room appears among the direct ones or changes its members. *)
DirectKept ==
    \A r \in Rooms :
        /\ kind'[r] = "direct" <=> kind[r] = "direct"
        /\ kind[r] = "direct" => \A u \in Users : roster'[r][u].role = roster[r][u].role

LEMMA PairsKept ==
    ASSUME DirectKept
    PROVE  /\ DirectRoomIsAPair => DirectRoomIsAPair'
           /\ OneDirectRoom => OneDirectRoom'
  <1>1. DirectRoomIsAPair => DirectRoomIsAPair'
    BY DEF DirectKept, DirectRoomIsAPair
  <1>2. OneDirectRoom => OneDirectRoom'
    BY DEF OneDirectRoom, DirectRooms, HasRow, DirectKept
  <1>3. QED BY <1>1, <1>2

(* A room keeps its kind for good. *)
KindsKept == \A r \in Rooms : kind[r] # "none" => kind'[r] = kind[r]

(* When one request moves and the direct rooms stay, the others keep what   *)
(* they have established.                                                   *)
LEMMA RequestsKept ==
    ASSUME RosterTypeOK, RequestInv, DirectInv, LockInv, KindsKept, DirectKept,
           NEW q \in Requests,
           \A p \in Requests : p # q => req'[p] = req[p],
           RequestOK(q)', DirectOK(q)',
           req'[q].at = "direct" =>
              \A p \in Requests : At(p, "direct") /\ {req[p].by, req[p].on} = {req'[q].by, req'[q].on} => p = q
    PROVE  RequestInv' /\ DirectInv' /\ LockInv'
  <1>1. ASSUME NEW p \in Requests, p # q
        PROVE  RequestOK(p)' /\ DirectOK(p)'
    <2>1. req'[p] = req[p]
      BY <1>1
    <2>2. RequestOK(p)'
      BY <2>1 DEF RequestInv, RequestOK, KindsKept, Managed
    <2>3. DirectOK(p)'
      <3>1. CASE req[p].at # "direct"
        BY <2>1, <3>1 DEF DirectOK
      <3>2. CASE req[p].at = "direct"
        BY <2>1, <3>2, RequestKinds DEF DirectInv, DirectOK, Shared, HasRow, DirectKept
      <3>3. QED BY <3>1, <3>2
    <2>4. QED BY <2>2, <2>3
  <1>2. RequestInv' /\ DirectInv'
    BY <1>1 DEF RequestInv, DirectInv
  <1>3. LockInv'
    BY DEF LockInv, At
  <1>4. QED BY <1>2, <1>3

(* The request q ends, and the tables change as it left them. *)
LEMMA RequestEnds ==
    ASSUME IInv, NEW q \in Requests, Finish(q), KindsKept, DirectKept, RowInv',
           kind' \in [Rooms -> Kinds], roster' \in [Rooms -> [Users -> RosterRow]],
           clock' \in Nat, unsettled' \in SUBSET Rooms
    PROVE  IInv'
  <1>1. RosterTypeOK'
    BY RequestFinished DEF RosterTypeOK, IInv
  <1>2. RequestOK(q)' /\ DirectOK(q)' /\ req'[q].at # "direct"
    BY RequestFinished DEF RequestOK, DirectOK, IInv
  <1>3. RequestInv' /\ DirectInv' /\ LockInv'
    BY <1>2, RequestFinished, RequestsKept DEF IInv
  <1>4. QED BY <1>1, <1>3, PairsKept DEF IInv

(* Nothing changes but one request. *)
LEMMA TablesUnchanged ==
    ASSUME UNCHANGED <<kind, roster>>
    PROVE  KindsKept /\ DirectKept /\ (RowInv => RowInv')
  BY DEF KindsKept, DirectKept, RowInv

LEMMA RequestMoves ==
    ASSUME IInv, NEW q \in Requests, UNCHANGED <<kind, roster, clock>>, unsettled' \in SUBSET Rooms,
           req' \in [Requests -> InFlight \cup {Idle}],
           \A p \in Requests : p # q => req'[p] = req[p],
           RequestOK(q)', DirectOK(q)',
           req'[q].at = "direct" =>
              \A p \in Requests : At(p, "direct") /\ {req[p].by, req[p].on} = {req'[q].by, req'[q].on} => p = q
    PROVE  IInv'
  <1>1. RosterTypeOK'
    BY DEF RosterTypeOK, IInv
  <1>2. RequestInv' /\ DirectInv' /\ LockInv'
    BY TablesUnchanged, RequestsKept DEF IInv
  <1>3. QED BY <1>1, <1>2, TablesUnchanged, PairsKept DEF IInv

-----------------------------------------------------------------------------
(* Requests that begin or go on without touching the tables. *)

LEMMA StartKeeps ==
    ASSUME IInv, NEW q \in Requests, NEW u \in Users, NEW v \in Users,
           \/ \E r \in Rooms : \/ JoinChannel(q, u, r) \/ InviteMember(q, u, r, v) \/ RemoveMember(q, u, r, v)
                               \/ \E role \in Roles : ChangeMemberRole(q, u, r, v, role)
           \/ FindDirectRoom(q, u, v)
    PROVE  IInv'
  <1>1. ASSUME NEW r \in Rooms, NEW w \in Users, NEW step \in {"join", "invite", "kick", "role"},
               NEW role \in Roles, Begin(q, step, r, u, w, role), kind[r] \in Managed,
               UNCHANGED <<kind, roster, clock>>, unsettled' \in SUBSET Rooms
        PROVE  IInv'
    <2>1. /\ req' \in [Requests -> InFlight \cup {Idle}]
          /\ \A p \in Requests : p # q => req'[p] = req[p]
          /\ req'[q].at = step /\ req'[q].room = r
      BY <1>1, RequestBegun DEF Steps, IInv
    <2>2. RequestOK(q)' /\ DirectOK(q)' /\ req'[q].at # "direct"
      BY <1>1, <2>1 DEF RequestOK, DirectOK, Managed
    <2>3. QED BY <1>1, <2>1, <2>2, RequestMoves
  <1>2. ASSUME NEW r \in Rooms, JoinChannel(q, u, r) PROVE IInv'
    BY <1>1, <1>2 DEF JoinChannel, Managed, Roles, IInv, RosterTypeOK
  <1>3. ASSUME NEW r \in Rooms, InviteMember(q, u, r, v) PROVE IInv'
    BY <1>1, <1>3, AdminsAreManaged DEF InviteMember, Roles, IInv, RosterTypeOK
  <1>4. ASSUME NEW r \in Rooms, RemoveMember(q, u, r, v) PROVE IInv'
    BY <1>1, <1>4, AdminsAreManaged DEF RemoveMember, Unsettle, Roles, IInv, RosterTypeOK
  <1>5. ASSUME NEW r \in Rooms, NEW role \in Roles, ChangeMemberRole(q, u, r, v, role) PROVE IInv'
    BY <1>1, <1>5, AdminsAreManaged DEF ChangeMemberRole, Unsettle, IInv, RosterTypeOK
  <1>6. CASE FindDirectRoom(q, u, v)
    <2>1. PICK r \in Rooms \cup {NoRoom} :
             /\ Begin(q, "direct", r, u, v, "member")
             /\ r = NoRoom => \A s \in Rooms : ~Shared(s, u, v)
             /\ r # NoRoom => Shared(r, u, v)
      <3>1. CASE DirectRooms(u, v) = {}
        BY <1>6, <3>1 DEF FindDirectRoom, DirectRooms, Shared
      <3>2. CASE DirectRooms(u, v) # {}
        BY <1>6, <3>2, MembershipAssumption DEF FindDirectRoom, DirectRooms, Shared
      <3>3. QED BY <3>1, <3>2
    <2>2. /\ req' \in [Requests -> InFlight \cup {Idle}]
          /\ \A p \in Requests : p # q => req'[p] = req[p]
          /\ req'[q].at = "direct" /\ req'[q].room = r /\ req'[q].by = u /\ req'[q].on = v
      BY <2>1, RequestBegun DEF Steps, Roles, IInv
    <2>3. UNCHANGED <<kind, roster, clock, unsettled>> /\ u # v /\ ~PairLocked(u, v)
      BY <1>6 DEF FindDirectRoom
    <2>4. RequestOK(q)'
      BY <2>2 DEF RequestOK
    <2>5. DirectOK(q)'
      BY <2>1, <2>2, <2>3, MembershipAssumption DEF DirectOK, Shared, HasRow
    <2>6. \A p \in Requests : At(p, "direct") => {req[p].by, req[p].on} # {u, v}
      BY <2>3 DEF PairLocked
    <2>7. unsettled' \in SUBSET Rooms
      BY <2>3 DEF IInv, RosterTypeOK
    <2>8. QED BY <2>2, <2>3, <2>4, <2>5, <2>6, <2>7, RequestMoves
  <1>7. QED BY <1>2, <1>3, <1>4, <1>5, <1>6

LEMMA HeirIsManaged ==
    ASSUME NEW r \in Rooms, NEW u \in Heirs(r)
    PROVE  u \in Users /\ kind[r] \in Managed
  BY DEF Heirs, Eldest, Active, HasAdmins, Managed

LEMMA ContinueKeeps ==
    ASSUME IInv, NEW q \in Requests, PromoteOldestIfNoAdmins(q) \/ LockMember(q) \/ Abandon(q)
    PROVE  IInv'
  <1>1. ASSUME Finish(q), UNCHANGED <<kind, roster, clock>>, unsettled' \in SUBSET Rooms
        PROVE  IInv'
    BY <1>1, TablesUnchanged, RequestEnds DEF IInv, RosterTypeOK
  <1>2. CASE PromoteOldestIfNoAdmins(q)
    <2>1. CASE Finish(q)
      BY <1>1, <1>2, <2>1 DEF PromoteOldestIfNoAdmins, IInv, RosterTypeOK
    <2>2. ASSUME NEW u \in Heirs(req[q].room), Begin(q, "promote", req[q].room, req[q].by, u, "admin")
          PROVE  IInv'
      <3>1. req[q].room \in Rooms /\ req[q].by \in Users
        BY <1>2, RequestKinds DEF PromoteOldestIfNoAdmins, At, IInv, RequestInv, RequestOK
      <3>2. u \in Users /\ kind[req[q].room] \in Managed
        BY <2>2, <3>1, HeirIsManaged
      <3>3. /\ req' \in [Requests -> InFlight \cup {Idle}]
            /\ \A p \in Requests : p # q => req'[p] = req[p]
            /\ req'[q].at = "promote" /\ req'[q].room = req[q].room
        BY <2>2, <3>1, <3>2, RequestBegun DEF Steps, Roles, IInv
      <3>4. UNCHANGED <<kind, roster, clock, unsettled>>
        BY <1>2 DEF PromoteOldestIfNoAdmins
      <3>5. RequestOK(q)' /\ DirectOK(q)' /\ req'[q].at # "direct"
        BY <3>1, <3>2, <3>3, <3>4 DEF RequestOK, DirectOK, Managed
      <3>6. unsettled' \in SUBSET Rooms
        BY <3>4 DEF IInv, RosterTypeOK
      <3>7. QED BY <3>3, <3>4, <3>5, <3>6, RequestMoves
    <2>3. QED BY <1>2, <2>1, <2>2 DEF PromoteOldestIfNoAdmins
  <1>3. CASE LockMember(q)
    <2>1. CASE Finish(q)
      BY <1>1, <1>3, <2>1 DEF LockMember, IInv, RosterTypeOK
    <2>2. CASE Advance(q, "setrole")
      <3>1. At(q, "role") /\ UNCHANGED <<kind, roster, clock, unsettled>>
        BY <1>3 DEF LockMember
      <3>2. /\ req' \in [Requests -> InFlight \cup {Idle}]
            /\ \A p \in Requests : p # q => req'[p] = req[p]
            /\ req'[q].at = "setrole" /\ req'[q].room = req[q].room
        BY <2>2, <3>1, RequestAdvanced DEF IInv
      <3>3. RequestOK(q)' /\ DirectOK(q)' /\ req'[q].at # "direct"
        BY <3>1, <3>2 DEF RequestOK, DirectOK, Managed, IInv, RequestInv, At
      <3>4. unsettled' \in SUBSET Rooms
        BY <3>1 DEF IInv, RosterTypeOK
      <3>5. QED BY <3>1, <3>2, <3>3, <3>4, RequestMoves
    <2>3. QED BY <1>3, <2>1, <2>2 DEF LockMember
  <1>4. CASE Abandon(q)
    <2>1. unsettled' \in SUBSET Rooms
      BY <1>4 DEF Abandon, IInv, RosterTypeOK, RequestInv, RequestOK
    <2>2. QED BY <1>1, <1>4, <2>1 DEF Abandon
  <1>5. QED BY <1>2, <1>3, <1>4

-----------------------------------------------------------------------------
(* Requests that write rows. *)

(* A row of a channel or group is written and the request ends. *)
LEMMA ManagedRowWritten ==
    ASSUME IInv, NEW q \in Requests, Finish(q), NEW r \in Rooms, NEW u \in Users, NEW x \in RosterRow,
           kind[r] \in Managed, x.banned => ~x.active,
           roster' = [roster EXCEPT ![r][u] = x], UNCHANGED kind,
           clock' \in Nat, unsettled' \in SUBSET Rooms
    PROVE  IInv'
  <1>1. /\ roster' \in [Rooms -> [Users -> RosterRow]]
        /\ \A s \in Rooms, v \in Users : roster'[s][v] = IF s = r /\ v = u THEN x ELSE roster[s][v]
    BY RowWritten DEF IInv
  <1>2. KindsKept /\ DirectKept
    BY <1>1 DEF KindsKept, DirectKept, Managed
  <1>3. RowInv'
    BY <1>1 DEF RowInv, IInv, Managed
  <1>4. kind' \in [Rooms -> Kinds]
    BY DEF IInv, RosterTypeOK
  <1>5. QED BY <1>1, <1>2, <1>3, <1>4, RequestEnds

LEMMA AddMemberKeeps ==
    ASSUME IInv, NEW q \in Requests, Invited(q) \/ Joined(q)
    PROVE  IInv'
  <1>1. /\ req[q].room \in Rooms /\ kind[req[q].room] \in Managed /\ req[q].on \in Users
        /\ AddMember(req[q].room, req[q].on) /\ Finish(q) /\ UNCHANGED <<kind, unsettled>>
    BY RequestKinds DEF Invited, Joined, At, IInv, RequestInv, RequestOK
  <1>2. CASE UNCHANGED <<roster, clock>>
    BY <1>1, <1>2, TablesUnchanged, RequestEnds DEF IInv, RosterTypeOK
  <1>3. CASE Tick /\ roster' = [roster EXCEPT ![req[q].room][req[q].on] = Fresh("member")]
    <2>1. Fresh("member") \in RosterRow /\ ~Fresh("member").banned
      BY FreshRow DEF IInv, Roles
    <2>2. clock' \in Nat /\ unsettled' \in SUBSET Rooms
      BY <1>1, <1>3 DEF Tick, IInv, RosterTypeOK
    <2>3. QED BY <1>1, <1>3, <2>1, <2>2, ManagedRowWritten
  <1>4. QED BY <1>1, <1>2, <1>3 DEF AddMember

LEMMA RoleWriteKeeps ==
    ASSUME IInv, NEW q \in Requests, Promoted(q) \/ RoleChanged(q)
    PROVE  IInv'
  <1>1. /\ req[q].room \in Rooms /\ kind[req[q].room] \in Managed
        /\ req[q].on \in Users /\ req[q].role \in Roles
    BY RequestKinds DEF Promoted, RoleChanged, At, IInv, RequestInv, RequestOK
  <1>2. PICK role \in Roles : roster' = [roster EXCEPT ![req[q].room][req[q].on].role = role]
    BY <1>1 DEF Promoted, RoleChanged, Roles
  <1>3. Finish(q) /\ UNCHANGED <<kind, clock, unsettled>>
    BY DEF Promoted, RoleChanged
  <1> DEFINE x == [roster[req[q].room][req[q].on] EXCEPT !.role = role]
  <1>4. roster[req[q].room][req[q].on] \in RosterRow
    BY <1>1, RowParts DEF IInv
  <1>5. x \in RosterRow /\ (x.banned => ~x.active)
    BY <1>1, <1>4 DEF RosterRow, IInv, RowInv
  <1>6. roster' = [roster EXCEPT ![req[q].room][req[q].on] = x]
    BY <1>2, <1>1 DEF IInv, RosterTypeOK
  <1>7. clock' \in Nat /\ unsettled' \in SUBSET Rooms
    BY <1>3 DEF IInv, RosterTypeOK
  <1> HIDE DEF x
  <1>8. QED BY <1>1, <1>3, <1>5, <1>6, <1>7, ManagedRowWritten

LEMMA BanKeeps ==
    ASSUME IInv, NEW q \in Requests, BanMember(q)
    PROVE  IInv'
  <1>1. req[q].room \in Rooms /\ kind[req[q].room] \in Managed /\ req[q].on \in Users
    BY RequestKinds DEF BanMember, At, IInv, RequestInv, RequestOK
  <1>2. Finish(q) /\ UNCHANGED <<kind, clock>> /\ unsettled' \in SUBSET Rooms
    BY <1>1 DEF BanMember, IInv, RosterTypeOK
  <1>3. CASE UNCHANGED roster
    BY <1>2, <1>3, TablesUnchanged, RequestEnds DEF IInv, RosterTypeOK
  <1>4. CASE roster' = [roster EXCEPT ![req[q].room][req[q].on].active = FALSE,
                                  ![req[q].room][req[q].on].banned = TRUE]
    <2> DEFINE x == [roster[req[q].room][req[q].on] EXCEPT !.active = FALSE, !.banned = TRUE]
    <2>1. roster[req[q].room][req[q].on] \in RosterRow
      BY <1>1, RowParts DEF IInv
    <2>2. x \in RosterRow /\ ~x.active
      BY <2>1 DEF RosterRow
    <2>3. roster' = [roster EXCEPT ![req[q].room][req[q].on] = x]
      BY <1>1, <1>4 DEF IInv, RosterTypeOK
    <2>4. clock' \in Nat
      BY <1>2 DEF IInv, RosterTypeOK
    <2> HIDE DEF x
    <2>5. QED BY <1>1, <1>2, <2>2, <2>3, <2>4, ManagedRowWritten
  <1>5. QED BY <1>3, <1>4 DEF BanMember

LEMMA LeaveKeeps ==
    ASSUME IInv, NEW q \in Requests, NEW u \in Users, NEW r \in Rooms, LeaveRoom(q, u, r)
    PROVE  IInv'
  <1> DEFINE x == [roster[r][u] EXCEPT !.active = FALSE]
  <1>1. roster[r][u] \in RosterRow /\ roster[r][u].active
    BY RowParts DEF LeaveRoom, Active, IInv
  <1>2. x \in RosterRow /\ ~x.active /\ x.banned = roster[r][u].banned /\ x.role = roster[r][u].role
    BY <1>1 DEF RosterRow
  <1>3. roster' = [roster EXCEPT ![r][u] = x]
    BY DEF LeaveRoom, IInv, RosterTypeOK
  <1>4. kind[r] # "none"
    BY <1>1 DEF IInv, RowInv, NoRow
  <1> HIDE DEF x
  <1>5. /\ roster' \in [Rooms -> [Users -> RosterRow]]
        /\ \A s \in Rooms, v \in Users : roster'[s][v] = IF s = r /\ v = u THEN x ELSE roster[s][v]
    BY <1>2, <1>3, RowWritten DEF IInv
  <1>6. /\ req' \in [Requests -> InFlight \cup {Idle}]
        /\ \A p \in Requests : p # q => req'[p] = req[p]
        /\ req'[q].at = "succession" /\ req'[q].room = r
    BY RequestBegun DEF LeaveRoom, Steps, Roles, IInv
  <1>7. kind' = kind /\ clock' = clock /\ unsettled' \in SUBSET Rooms
    BY DEF LeaveRoom, Unsettle, IInv, RosterTypeOK
  <1>8. KindsKept /\ DirectKept
    BY <1>2, <1>5, <1>7 DEF KindsKept, DirectKept
  <1>9. RowInv'
    BY <1>2, <1>4, <1>5, <1>7 DEF RowInv, IInv
  <1>10. RequestOK(q)' /\ DirectOK(q)' /\ req'[q].at # "direct"
    BY <1>4, <1>6, <1>7 DEF RequestOK, DirectOK
  <1>11. RequestInv' /\ DirectInv' /\ LockInv'
    BY <1>6, <1>8, <1>10, RequestsKept DEF IInv
  <1>12. RosterTypeOK'
    BY <1>5, <1>6, <1>7 DEF RosterTypeOK, IInv
  <1>13. QED BY <1>8, <1>9, <1>11, <1>12, PairsKept DEF IInv

LEMMA ReactivateKeeps ==
    ASSUME IInv, NEW q \in Requests, ReactivateDirectRoom(q)
    PROVE  IInv'
  <1> DEFINE r == req[q].room
             f == [w \in Users |->
                     IF w \in {req[q].by, req[q].on} /\ ~roster[r][w].active
                     THEN [roster[r][w] EXCEPT !.active = TRUE, !.joined = clock + 1]
                     ELSE roster[r][w]]
  <1>1. r \in Rooms /\ kind[r] = "direct"
    BY DEF ReactivateDirectRoom, At, IInv, DirectInv, DirectOK, Shared
  <1>2. clock' \in Nat /\ clock + 1 \in Nat /\ Finish(q) /\ kind' = kind /\ unsettled' = unsettled
    <2>1. Tick /\ Finish(q) /\ kind' = kind /\ unsettled' = unsettled
      BY DEF ReactivateDirectRoom
    <2>2. QED BY <2>1 DEF Tick, IInv, RosterTypeOK
  <1>3. roster' = [roster EXCEPT ![r] = f]
    BY DEF ReactivateDirectRoom
  <1>4. ASSUME NEW w \in Users
        PROVE  f[w] \in RosterRow /\ f[w].role = roster[r][w].role /\ f[w].banned = roster[r][w].banned
    <2>1. roster[r][w] \in RosterRow
      BY <1>1, RowParts DEF IInv
    <2>2. QED BY <1>2, <2>1 DEF RosterRow
  <1>5. f \in [Users -> RosterRow]
    BY <1>4
  <1> HIDE DEF f, r
  <1>6. /\ roster' \in [Rooms -> [Users -> RosterRow]]
        /\ \A s \in Rooms, v \in Users : roster'[s][v] = IF s = r THEN f[v] ELSE roster[s][v]
    BY <1>1, <1>3, <1>5, RoomWritten DEF IInv
  <1>7. KindsKept /\ DirectKept
    BY <1>2, <1>4, <1>6 DEF KindsKept, DirectKept
  <1>8. RowInv'
    BY <1>1, <1>2, <1>4, <1>6 DEF RowInv, IInv
  <1>9. QED BY <1>2, <1>6, <1>7, <1>8, RequestEnds DEF IInv, RosterTypeOK

(* The rooms nobody has seen yet. *)
LEMMA CreateKeeps ==
    ASSUME IInv, NEW u \in Users, NEW r \in Rooms,
           \/ \E visibility \in {"public", "private"} : CreateChannel(u, r, visibility)
           \/ \E members \in SUBSET Users : CreateGroup(u, r, members)
    PROVE  IInv'
  <1>1. Fresh("admin") \in RosterRow /\ Fresh("member") \in RosterRow /\ NoRow \in RosterRow /\ ~Fresh("admin").banned
        /\ ~Fresh("member").banned /\ ~NoRow.banned
    BY FreshRow DEF IInv, Roles, NoRow
  <1>2. kind[r] = "none" /\ UNCHANGED <<req, unsettled>> /\ clock' \in Nat
    BY DEF CreateChannel, CreateGroup, Tick, IInv, RosterTypeOK
  <1>3. PICK k \in Managed : kind' = [kind EXCEPT ![r] = k]
    BY DEF CreateChannel, CreateGroup, Managed
  <1>4. kind' \in [Rooms -> Kinds] /\ \A s \in Rooms : kind'[s] = IF s = r THEN k ELSE kind[s]
    BY <1>3 DEF IInv, RosterTypeOK, Kinds, Managed
  <1>5. /\ roster' \in [Rooms -> [Users -> RosterRow]]
        /\ \A s \in Rooms, v \in Users : s # r => roster'[s][v] = roster[s][v]
        /\ \A v \in Users : ~roster'[r][v].banned
    <2>1. CASE \E visibility \in {"public", "private"} : CreateChannel(u, r, visibility)
      <3>1. roster' = [roster EXCEPT ![r][u] = Fresh("admin")]
        BY <2>1 DEF CreateChannel
      <3>2. \A s \in Rooms, v \in Users :
               roster'[s][v] = IF s = r /\ v = u THEN Fresh("admin") ELSE roster[s][v]
        BY <1>1, <3>1, RowWritten DEF IInv
      <3>3. roster' \in [Rooms -> [Users -> RosterRow]]
        BY <1>1, <3>1, RowWritten DEF IInv
      <3>4. QED BY <1>1, <1>2, <3>2, <3>3 DEF IInv, RowInv
    <2>2. ASSUME NEW members \in SUBSET Users, CreateGroup(u, r, members)
          PROVE <1>5!1 /\ <1>5!2 /\ <1>5!3
      <3> DEFINE f == [v \in Users |-> IF v = u THEN Fresh("admin")
                                       ELSE IF v \in members THEN Fresh("member") ELSE NoRow]
      <3>1. f \in [Users -> RosterRow] /\ \A v \in Users : ~f[v].banned
        BY <1>1
      <3>2. roster' = [roster EXCEPT ![r] = f]
        BY <2>2 DEF CreateGroup
      <3> HIDE DEF f
      <3>3. QED BY <3>1, <3>2, RoomWritten DEF IInv
    <2>3. QED BY <2>1, <2>2
  <1>6. KindsKept /\ DirectKept
    BY <1>2, <1>4, <1>5 DEF KindsKept, DirectKept, Managed
  <1>7. RowInv'
    BY <1>2, <1>4, <1>5 DEF RowInv, IInv, Managed
  <1>8. RequestInv' /\ LockInv'
    BY <1>2, <1>4 DEF RequestInv, RequestOK, LockInv, At, IInv, Managed
  <1>9. DirectInv'
    <2>1. ASSUME NEW q \in Requests PROVE DirectOK(q)'
      <3>1. CASE req[q].at # "direct"
        BY <1>2, <3>1 DEF DirectOK
      <3>2. CASE req[q].at = "direct"
        BY <1>2, <1>6, <3>2, RequestKinds DEF IInv, DirectInv, DirectOK, Shared, HasRow, DirectKept
      <3>3. QED BY <3>1, <3>2
    <2>2. QED BY <2>1 DEF DirectInv
  <1>10. RosterTypeOK'
    BY <1>2, <1>4, <1>5 DEF IInv, RosterTypeOK
  <1>11. QED BY <1>6, <1>7, <1>8, <1>9, <1>10, PairsKept DEF IInv

(* The new room is the first that the two share: the request looked for one *)
(* and has kept every other request for the same pair waiting since.        *)
LEMMA CreateDirectKeeps ==
    ASSUME IInv, NEW q \in Requests, NEW r \in Rooms, CreateDirectRoom(q, r)
    PROVE  IInv'
  <1> DEFINE u == req[q].by
             v == req[q].on
             f == [w \in Users |-> IF w \in {u, v} THEN Fresh("member") ELSE NoRow]
  <1>1. u \in Users /\ v \in Users /\ u # v /\ kind[r] = "none" /\ req[q].at = "direct"
    BY RequestKinds DEF CreateDirectRoom, At, IInv, DirectInv, DirectOK
  <1>2. \A s \in Rooms : ~Shared(s, u, v)
    BY DEF CreateDirectRoom, At, IInv, DirectInv, DirectOK
  <1>3. Tick /\ Finish(q) /\ unsettled' = unsettled /\ kind' = [kind EXCEPT ![r] = "direct"]
        /\ roster' = [roster EXCEPT ![r] = f]
    BY DEF CreateDirectRoom
  <1>4. f \in [Users -> RosterRow]
    BY FreshRow DEF IInv, Roles
  <1>5. \A w \in Users : /\ f[w].role = IF w \in {u, v} THEN "member" ELSE "none"
                         /\ ~f[w].banned
    BY FreshRow DEF IInv, Roles, NoRow
  <1> HIDE DEF f
  <1>6. /\ roster' \in [Rooms -> [Users -> RosterRow]]
        /\ \A s \in Rooms, w \in Users : roster'[s][w] = IF s = r THEN f[w] ELSE roster[s][w]
    BY <1>3, <1>4, RoomWritten DEF IInv
  <1>7. /\ kind' \in [Rooms -> Kinds]
        /\ \A s \in Rooms : kind'[s] = IF s = r THEN "direct" ELSE kind[s]
    BY <1>3 DEF IInv, RosterTypeOK, Kinds
  <1>8. /\ req' \in [Requests -> InFlight \cup {Idle}]
        /\ \A p \in Requests : p # q => req'[p] = req[p]
        /\ req'[q].at = "idle"
    BY <1>3, RequestFinished DEF IInv
  <1> HIDE DEF u, v
  <1>9. RosterTypeOK'
    BY <1>3, <1>6, <1>7, <1>8 DEF Tick, IInv, RosterTypeOK
  <1>10. RowInv'
    BY <1>5, <1>6, <1>7 DEF RowInv, IInv
  <1>11. RequestInv'
    BY <1>1, <1>7, <1>8 DEF RequestInv, RequestOK, IInv, Managed
  <1>12. LockInv'
    BY <1>8 DEF LockInv, At, IInv
  <1>13. \A s \in Rooms, a, b \in Users :
            Shared(s, a, b)' <=> IF s = r THEN a \in {u, v} /\ b \in {u, v} ELSE Shared(s, a, b)
    BY <1>5, <1>6, <1>7 DEF Shared, HasRow
  <1>14. DirectInv'
    <2>1. ASSUME NEW p \in Requests, req'[p].at = "direct" PROVE DirectOK(p)'
      <3>1. p # q /\ req'[p] = req[p]
        BY <1>8, <2>1
      <3>2. DirectOK(p) /\ req[p].by \in Users /\ req[p].on \in Users /\ req[p].at = "direct"
        BY <2>1, <3>1, RequestKinds DEF IInv, DirectInv
      <3>3. {req[p].by, req[p].on} # {u, v}
        BY <1>1, <3>1, <3>2 DEF IInv, LockInv, At, u, v
      <3>4. CASE req[p].room = NoRoom
        <4>1. \A s \in Rooms : ~Shared(s, req[p].by, req[p].on)'
          BY <1>13, <3>1, <3>2, <3>3, <3>4 DEF DirectOK
        <4>2. QED BY <3>1, <3>2, <3>4, <4>1 DEF DirectOK
      <3>5. CASE req[p].room # NoRoom
        <4>1. req[p].room \in Rooms /\ Shared(req[p].room, req[p].by, req[p].on)
          BY <3>2, <3>5 DEF DirectOK
        <4>2. req[p].room # r
          BY <1>1, <4>1 DEF Shared
        <4>3. Shared(req[p].room, req[p].by, req[p].on)'
          BY <1>6, <1>7, <3>1, <3>2, <4>1, <4>2 DEF Shared, HasRow
        <4>4. QED BY <3>1, <3>2, <3>5, <4>1, <4>3 DEF DirectOK
      <3>6. QED BY <3>4, <3>5
    <2>2. QED BY <2>1 DEF DirectInv, DirectOK
  <1>15. DirectRoomIsAPair'
    <2>1. ASSUME NEW s \in Rooms, kind'[s] = "direct"
          PROVE  \E a, b \in Users :
                    /\ a # b
                    /\ \A w \in Users : roster'[s][w].role = IF w \in {a, b} THEN "member" ELSE "none"
      <3>1. CASE s = r
        BY <1>1, <1>5, <1>6, <3>1
      <3>2. CASE s # r
        <4>1. kind[s] = "direct" /\ \A w \in Users : roster'[s][w] = roster[s][w]
          BY <1>6, <1>7, <2>1, <3>2
        <4>2. QED BY <4>1 DEF IInv, DirectRoomIsAPair
      <3>3. QED BY <3>1, <3>2
    <2>2. QED BY <2>1 DEF DirectRoomIsAPair
  <1>16. OneDirectRoom'
    <2>1. ASSUME NEW a \in Users, NEW b \in Users, a # b, NEW s \in Rooms, NEW t \in Rooms,
                 Shared(s, a, b)', Shared(t, a, b)'
          PROVE  s = t
      <3>1. CASE s # r /\ t # r
        BY <1>13, <2>1, <3>1 DEF IInv, OneDirectRoom, DirectRooms, Shared
      <3>2. CASE s = r /\ t # r
        BY <1>2, <1>13, <2>1, <3>2 DEF Shared
      <3>3. CASE s # r /\ t = r
        BY <1>2, <1>13, <2>1, <3>3 DEF Shared
      <3>4. QED BY <3>1, <3>2, <3>3
    <2>2. \A a, b \in Users : a # b =>
             \A s, t \in Rooms : Shared(s, a, b)' /\ Shared(t, a, b)' => s = t
      BY <2>1
    <2>3. QED BY <2>2 DEF OneDirectRoom, DirectRooms, Shared, HasRow
  <1>17. QED BY <1>9, <1>10, <1>11, <1>12, <1>14, <1>15, <1>16 DEF IInv

-----------------------------------------------------------------------------
LEMMA InitEstablishes == RosterInit => IInv
  <1> SUFFICES ASSUME RosterInit PROVE IInv
    OBVIOUS
  <1>1. RosterTypeOK
    BY DEF RosterInit, RosterTypeOK, Kinds, RosterRow, NoRow, Roles
  <1>2. RowInv
    BY DEF RosterInit, RowInv, NoRow
  <1>3. \A q \in Requests : req[q].at = "idle"
    BY DEF RosterInit, Idle
  <1>4. RequestInv /\ DirectInv /\ LockInv
    BY <1>3 DEF RequestInv, RequestOK, DirectInv, DirectOK, LockInv, At
  <1>5. DirectRoomIsAPair /\ OneDirectRoom
    BY DEF RosterInit, DirectRoomIsAPair, OneDirectRoom, DirectRooms
  <1>6. QED BY <1>1, <1>2, <1>4, <1>5 DEF IInv

LEMMA NextKeeps == IInv /\ [RosterNext]_rosterVars => IInv'
  <1> SUFFICES ASSUME IInv, [RosterNext]_rosterVars PROVE IInv'
    OBVIOUS
  <1>1. ASSUME NEW q \in Requests, Start(q) PROVE IInv'
    BY <1>1, StartKeeps, LeaveKeeps DEF Start
  <1>2. ASSUME NEW q \in Requests, Continue(q) PROVE IInv'
    BY <1>2, ReactivateKeeps, CreateDirectKeeps, AddMemberKeeps, ContinueKeeps, RoleWriteKeeps, BanKeeps
    DEF Continue
  <1>3. CASE CreateRoom
    BY <1>3, CreateKeeps DEF CreateRoom
  <1>4. CASE UNCHANGED rosterVars
    <2>1. UNCHANGED <<kind, roster, clock, req, unsettled>>
      BY <1>4 DEF rosterVars
    <2>2. RosterTypeOK' /\ LockInv'
      BY <2>1 DEF IInv, RosterTypeOK, LockInv, At
    <2>3. RequestInv' /\ DirectInv'
      BY <2>1 DEF IInv, RequestInv, RequestOK, DirectInv, DirectOK, Shared, HasRow
    <2>4. QED BY <2>1, <2>2, <2>3, TablesUnchanged, PairsKept DEF IInv
  <1>5. QED BY <1>1, <1>2, <1>3, <1>4 DEF RosterNext

(* The inductive invariant holds throughout, with any number of requests in  *)
(* flight and each of them abandoned at any point.                           *)
THEOREM MembershipInvariant == RosterSpec => []IInv
  BY InitEstablishes, NextKeeps, PTL DEF RosterSpec

(* The tables and the requests keep their types. *)
THEOREM MembershipTypes == RosterSpec => []RosterTypeOK
  <1>1. IInv => RosterTypeOK
    BY DEF IInv
  <1>2. QED BY <1>1, MembershipInvariant, PTL

(* However a kick races with invites, joins and reopened direct rooms, nobody *)
(* is at once banned from a room and an active member of it.                  *)
THEOREM BannedStayOut == RosterSpec => []BannedIsOut
  <1>1. IInv => BannedIsOut
    BY RowParts DEF IInv, RowInv, BannedIsOut, Active
  <1>2. QED BY <1>1, MembershipInvariant, PTL

(* A direct room holds the rows of exactly two users, both plain members. *)
THEOREM DirectRoomsArePairs == RosterSpec => []DirectRoomIsAPair
  <1>1. IInv => DirectRoomIsAPair
    BY DEF IInv
  <1>2. QED BY <1>1, MembershipInvariant, PTL

(* However many requests race to open it, two users share one direct room. *)
THEOREM PairsShareOneRoom == RosterSpec => []OneDirectRoom
  <1>1. IInv => OneDirectRoom
    BY DEF IInv
  <1>2. QED BY <1>1, MembershipInvariant, PTL

-----------------------------------------------------------------------------
(* Admins.  In a room where no two requests that may take an admin have      *)
(* overlapped, what such a request has checked stays true until it writes,   *)
(* whatever joins, invites, promotions and direct rooms run meanwhile.       *)

SomeMember(r) == \E u \in Users : roster[r][u].active
SomeAdmin(r) == \E u \in Users : roster[r][u].active /\ roster[r][u].role = "admin"
OtherAdmin(r, v) == \E u \in Users : u # v /\ roster[r][u].active /\ roster[r][u].role = "admin"

(* A succession check for the room is still to run or to write. *)
InSuccession(q, r) == req[q].at \in {"succession", "promote"} /\ req[q].room = r
Succeeding(r) == \E q \in Requests : InSuccession(q, r)

Governed(r) ==
    HasAdmins(r) /\ r \notin unsettled => SomeMember(r) /\ (SomeAdmin(r) \/ Succeeding(r))

Alone ==
    \A r \in Rooms, p, q \in Requests :
        r \notin unsettled /\ Removing(p, r) /\ Removing(q, r) => p = q

(* The row lock of ChangeMemberRole. *)
SetsRole(q, r, v) == req[q].at = "setrole" /\ req[q].room = r /\ req[q].on = v

OneLock ==
    \A r \in Rooms, v \in Users, p, q \in Requests : SetsRole(p, r, v) /\ SetsRole(q, r, v) => p = q

(* What a request in a settled room has checked. *)
StillTrue(q) ==
    \A r \in Rooms, u, v \in Users :
        req[q].room = r /\ req[q].by = u /\ req[q].on = v =>
            /\ req[q].at = "setrole" => roster[r][v].active
            /\ r \notin unsettled =>
                  /\ req[q].at = "promote" => roster[r][v].active
                  /\ req[q].at = "kick" => u # v /\ roster[r][u].active /\ roster[r][u].role = "admin"
                  /\ req[q].at = "setrole" /\ req[q].role = "member" /\ roster[r][v].role = "admin" =>
                        OtherAdmin(r, v)

GovInv ==
    /\ Alone /\ OneLock
    /\ \A r \in Rooms : Governed(r)
    /\ \A q \in Requests : StillTrue(q)

(* A step after which every member of the room is still one, and every admin. *)
Grows(r) ==
    \A u \in Users : roster[r][u].active =>
        roster'[r][u].active /\ (roster[r][u].role = "admin" => roster'[r][u].role = "admin")

(* The other requests stand where they stood, and a row they hold is as it was. *)
OthersStay(q) ==
    \A p \in Requests : p # q =>
        /\ req'[p] = req[p]
        /\ \A r \in Rooms, v \in Users : SetsRole(p, r, v) => roster'[r][v] = roster[r][v]

(* Nobody but q may take an admin from r, unless r is unsettled. *)
OnlyOne(q, r) == r \in unsettled' \/ \A p \in Requests : p # q => ~Removing(p, r)

LEMMA AloneKept ==
    ASSUME Alone, NEW q \in Requests, OthersStay(q), unsettled \subseteq unsettled',
           \A r \in Rooms : Removing(q, r)' => Removing(q, r) \/ OnlyOne(q, r)
    PROVE  Alone'
  <1> SUFFICES ASSUME NEW r \in Rooms, NEW p1 \in Requests, NEW p2 \in Requests, r \notin unsettled',
                      Removing(p1, r)', Removing(p2, r)', p1 # p2
               PROVE  FALSE
    BY DEF Alone
  <1>1. \A p \in Requests : p # q => (Removing(p, r)' <=> Removing(p, r))
    BY DEF OthersStay, Removing, At
  <1>2. r \notin unsettled
    OBVIOUS
  <1>3. CASE p1 # q /\ p2 # q
    BY <1>1, <1>2, <1>3 DEF Alone
  <1>4. CASE p1 = q
    BY <1>1, <1>2, <1>4 DEF Alone, OnlyOne
  <1>5. CASE p2 = q
    BY <1>1, <1>2, <1>5 DEF Alone, OnlyOne
  <1>6. QED BY <1>3, <1>4, <1>5

LEMMA OneLockKept ==
    ASSUME OneLock, NEW q \in Requests, OthersStay(q),
           \A r \in Rooms, v \in Users : SetsRole(q, r, v)' => \A p \in Requests : p # q => ~SetsRole(p, r, v)
    PROVE  OneLock'
  <1> SUFFICES ASSUME NEW r \in Rooms, NEW v \in Users, NEW p1 \in Requests, NEW p2 \in Requests,
                      SetsRole(p1, r, v)', SetsRole(p2, r, v)', p1 # p2
               PROVE  FALSE
    BY DEF OneLock
  <1>1. \A p \in Requests : p # q => (SetsRole(p, r, v)' <=> SetsRole(p, r, v))
    BY DEF OthersStay, SetsRole
  <1>2. CASE p1 # q /\ p2 # q
    BY <1>1, <1>2 DEF OneLock
  <1>3. CASE p1 = q \/ p2 = q
    BY <1>1, <1>3
  <1>4. QED BY <1>2, <1>3

LEMMA GovernedGrows ==
    ASSUME NEW r \in Rooms, Governed(r), Grows(r), HasAdmins(r)' => HasAdmins(r),
           unsettled \subseteq unsettled', NEW q \in Requests, OthersStay(q),
           InSuccession(q, r) => Succeeding(r)' \/ SomeAdmin(r)' \/ r \in unsettled'
    PROVE  Governed(r)'
  <1> SUFFICES ASSUME HasAdmins(r)', r \notin unsettled'
               PROVE  SomeMember(r)' /\ (SomeAdmin(r)' \/ Succeeding(r)')
    BY DEF Governed
  <1>1. SomeMember(r) /\ (SomeAdmin(r) \/ Succeeding(r))
    BY DEF Governed
  <1>2. SomeMember(r)' /\ (SomeAdmin(r) => SomeAdmin(r)')
    BY <1>1 DEF SomeMember, SomeAdmin, Grows
  <1>3. ASSUME NEW p \in Requests, InSuccession(p, r), p # q PROVE Succeeding(r)'
    BY <1>3 DEF InSuccession, Succeeding, OthersStay
  <1>4. QED BY <1>1, <1>2, <1>3 DEF Succeeding

LEMMA StillGrows ==
    ASSUME NEW q \in Requests, NEW p \in Requests, p # q, OthersStay(q), StillTrue(p),
           unsettled \subseteq unsettled', \A r \in Rooms : Grows(r)
    PROVE  StillTrue(p)'
  <1> SUFFICES ASSUME NEW r \in Rooms, NEW u \in Users, NEW v \in Users,
                      req'[p].room = r, req'[p].by = u, req'[p].on = v
               PROVE  /\ req'[p].at = "setrole" => roster'[r][v].active
                      /\ r \notin unsettled' =>
                           /\ req'[p].at = "promote" => roster'[r][v].active
                           /\ req'[p].at = "kick" => u # v /\ roster'[r][u].active /\ roster'[r][u].role = "admin"
                           /\ req'[p].at = "setrole" /\ req'[p].role = "member" /\ roster'[r][v].role = "admin" =>
                                 OtherAdmin(r, v)'
    BY DEF StillTrue
  <1>1. req'[p] = req[p] /\ (req[p].at = "setrole" => roster'[r][v] = roster[r][v])
    BY DEF OthersStay, SetsRole
  <1>2. OtherAdmin(r, v) => OtherAdmin(r, v)'
    BY DEF OtherAdmin, Grows
  <1>3. QED BY <1>1, <1>2 DEF StillTrue, Grows

(* A step of q that takes nothing from any room. *)
LEMMA GrowingStep ==
    ASSUME GovInv, NEW q \in Requests, OthersStay(q), unsettled \subseteq unsettled',
           \A r \in Rooms : Grows(r) /\ (HasAdmins(r)' => HasAdmins(r)),
           \A r \in Rooms : Removing(q, r)' => Removing(q, r) \/ OnlyOne(q, r),
           \A r \in Rooms : InSuccession(q, r) => Succeeding(r)' \/ SomeAdmin(r)' \/ r \in unsettled',
           \A r \in Rooms, v \in Users : SetsRole(q, r, v)' => \A p \in Requests : p # q => ~SetsRole(p, r, v),
           StillTrue(q)'
    PROVE  GovInv'
  <1>1. Alone'
    BY AloneKept DEF GovInv
  <1>2. OneLock'
    BY OneLockKept DEF GovInv
  <1>3. \A r \in Rooms : Governed(r)'
    BY GovernedGrows DEF GovInv
  <1>4. \A p \in Requests : StillTrue(p)'
    BY StillGrows DEF GovInv
  <1>5. QED BY <1>1, <1>2, <1>3, <1>4 DEF GovInv

(* A step of q that may take v from room r, where no other request counts on *)
(* an admin.                                                                 *)
LEMMA ShrinkingStep ==
    ASSUME GovInv, NEW q \in Requests, OthersStay(q), unsettled \subseteq unsettled', kind' = kind,
           NEW r \in Rooms, NEW v \in Users,
           \A s \in Rooms, w \in Users : s # r \/ w # v => roster'[s][w] = roster[s][w],
           OnlyOne(q, r), \A s \in Rooms : s # r => ~Removing(q, s)' /\ ~InSuccession(q, s),
           \A s \in Rooms, w \in Users : ~SetsRole(q, s, w)',
           HasAdmins(r) /\ r \notin unsettled' => SomeMember(r)' /\ (SomeAdmin(r)' \/ Succeeding(r)'),
           StillTrue(q)'
    PROVE  GovInv'
  <1>1. Alone'
    BY AloneKept DEF GovInv
  <1>2. OneLock'
    BY OneLockKept DEF GovInv
  <1>3. ASSUME NEW s \in Rooms, s # r PROVE Governed(s)'
    <2>1. Grows(s) /\ (HasAdmins(s)' => HasAdmins(s))
      BY <1>3 DEF Grows, HasAdmins
    <2>2. QED BY <1>3, <2>1, GovernedGrows DEF GovInv
  <1>4. Governed(r)'
    BY DEF Governed, HasAdmins
  <1>5. ASSUME NEW p \in Requests, p # q PROVE StillTrue(p)'
    <2> SUFFICES ASSUME NEW s \in Rooms, NEW x \in Users, NEW w \in Users,
                        req'[p].room = s, req'[p].by = x, req'[p].on = w
                 PROVE  /\ req'[p].at = "setrole" => roster'[s][w].active
                        /\ s \notin unsettled' =>
                             /\ req'[p].at = "promote" => roster'[s][w].active
                             /\ req'[p].at = "kick" => x # w /\ roster'[s][x].active /\ roster'[s][x].role = "admin"
                             /\ req'[p].at = "setrole" /\ req'[p].role = "member" /\ roster'[s][w].role = "admin" =>
                                   OtherAdmin(s, w)'
      BY DEF StillTrue
    <2>1. req'[p] = req[p] /\ (req[p].at = "setrole" => roster'[s][w] = roster[s][w])
      BY <1>5 DEF OthersStay, SetsRole
    <2>2. req[p].at = "setrole" => roster[s][w].active
      BY <2>1 DEF GovInv, StillTrue
    <2>3. CASE s # r
      <3>1. \A y \in Users : roster'[s][y] = roster[s][y]
        BY <2>3
      <3>2. OtherAdmin(s, w) => OtherAdmin(s, w)'
        BY <3>1 DEF OtherAdmin
      <3>3. QED BY <2>1, <3>1, <3>2 DEF GovInv, StillTrue
    <2>4. CASE s = r
      <3>1. s \in unsettled' \/ ~Removing(p, s)
        BY <1>5, <2>4 DEF OnlyOne
      <3>2. ~Removing(p, s) => /\ req[p].at \notin {"promote", "kick"}
                               /\ ~(req[p].at = "setrole" /\ req[p].role = "member")
        BY <2>1 DEF Removing, At
      <3>3. QED BY <2>1, <2>2, <3>1, <3>2
    <2>5. QED BY <2>3, <2>4
  <1>6. QED BY <1>1, <1>2, <1>3, <1>4, <1>5 DEF GovInv

(* A member of a room with members is eldest. *)
LEMMA EldestExists ==
    ASSUME RosterTypeOK, NEW r \in Rooms, SomeMember(r)
    PROVE  Eldest(r) # {}
  <1> DEFINE T == {n \in Nat : \E u \in Active(r) : roster[r][u].joined = n}
             R == OpToRel(<, Nat)
  <1>1. PICK u \in Active(r) : roster[r][u].joined \in Nat
    BY RowParts DEF SomeMember, Active
  <1>2. roster[r][u].joined \in T /\ T \subseteq Nat
    BY <1>1
  <1>3. \A i, j \in Nat : i < j => <<i, j>> \in R
    BY DEF OpToRel
  <1>4. IsWellFoundedOn(R, Nat)
    BY NatLessThanWellFounded
  <1> HIDE DEF T, R
  <1>5. PICK n \in T : \A m \in T : ~(<<m, n>> \in R)
    BY <1>2, <1>4, WFMin
  <1>6. ASSUME NEW m \in T PROVE n <= m
    <2>1. n \in Nat /\ m \in Nat
      BY <1>2
    <2>2. ~(m < n)
      BY <1>3, <1>5, <2>1, Zenon
    <2>3. QED BY <2>1, <2>2
  <1>7. PICK v \in Active(r) : roster[r][v].joined = n
    BY DEF T
  <1>8. \A w \in Active(r) : roster[r][w].joined \in T
    BY RowParts DEF T, Active
  <1>9. v \in Eldest(r)
    BY <1>6, <1>7, <1>8 DEF Eldest
  <1>10. QED BY <1>9

(* A request in flight names users, and a room for all but a direct one. *)
LEMMA RequestNames ==
    ASSUME IInv, NEW q \in Requests, NEW step, At(q, step),
           step \in {"invite", "join", "promote", "role", "setrole", "kick", "succession"}
    PROVE  /\ req[q].room \in Rooms /\ req[q].by \in Users /\ req[q].on \in Users
           /\ req[q].role \in Roles /\ kind[req[q].room] # "none"
  BY RequestKinds DEF IInv, At, RequestInv, RequestOK, Managed

(* The tables as they were: nothing is taken. *)
LEMMA TablesStay ==
    ASSUME UNCHANGED <<kind, roster>>
    PROVE  \A r \in Rooms : Grows(r) /\ (HasAdmins(r)' => HasAdmins(r))
  BY DEF Grows, HasAdmins

(* An idle request is about nothing. *)
LEMMA IdleRequest ==
    ASSUME NEW q \in Requests, req[q].at \in {"idle", "invite", "join", "direct"}, NEW r \in Rooms
    PROVE  ~Removing(q, r) /\ ~InSuccession(q, r)
  BY DEF Removing, InSuccession, At

LEMMA StartGoverned ==
    ASSUME IInv, GovInv, NEW q \in Requests, NEW u \in Users, NEW v \in Users, At(q, "idle"),
           NEW step \in Steps \ {"setrole", "promote", "succession"}, NEW r \in Rooms \cup {NoRoom}, NEW role \in Roles,
           Begin(q, step, r, u, v, role), UNCHANGED <<kind, roster>>,
           unsettled' = unsettled \/ (r \in Rooms /\ unsettled' = Unsettle(r)),
           step = "kick" \/ (step = "role" /\ role = "member") => r \in Rooms /\ unsettled' = Unsettle(r),
           step = "kick" => u # v /\ RequireRoomAdmin(r, u)
    PROVE  GovInv'
  <1>1. /\ \A p \in Requests : p # q => req'[p] = req[p]
        /\ req'[q].at = step /\ req'[q].room = r /\ req'[q].by = u /\ req'[q].on = v /\ req'[q].role = role
    BY RequestBegun DEF IInv
  <1>2. OthersStay(q) /\ unsettled \subseteq unsettled'
    BY <1>1 DEF OthersStay, Unsettle
  <1>3. ASSUME NEW s \in Rooms, Removing(q, s)' PROVE OnlyOne(q, s)
    <2>1. s = r /\ (step = "kick" \/ (step = "role" /\ role = "member"))
      BY <1>1, <1>3 DEF Removing, At
    <2>2. QED BY <2>1 DEF OnlyOne, Unsettle
  <1>4. \A s \in Rooms : ~InSuccession(q, s)
    BY IdleRequest DEF At
  <1>5. \A s \in Rooms, w \in Users : ~SetsRole(q, s, w)'
    BY <1>1 DEF SetsRole
  <1>6. StillTrue(q)'
    BY <1>1 DEF StillTrue, RequireRoomAdmin, Admins, Active
  <1>7. \A s \in Rooms : Grows(s) /\ (HasAdmins(s)' => HasAdmins(s))
    BY TablesStay
  <1>8. QED BY <1>2, <1>3, <1>4, <1>5, <1>6, <1>7, GrowingStep

LEMMA StartsGoverned ==
    ASSUME IInv, GovInv, NEW q \in Requests, NEW u \in Users, NEW v \in Users,
           \/ \E r \in Rooms : \/ JoinChannel(q, u, r) \/ InviteMember(q, u, r, v) \/ RemoveMember(q, u, r, v)
                               \/ \E role \in Roles : ChangeMemberRole(q, u, r, v, role)
           \/ FindDirectRoom(q, u, v)
    PROVE  GovInv'
  <1>1. {"join", "invite", "kick", "role", "direct"} \subseteq Steps \ {"setrole", "promote", "succession"}
        /\ {"member", "admin"} \subseteq Roles
    BY DEF Steps, Roles
  <1>2. ASSUME NEW r \in Rooms, JoinChannel(q, u, r) PROVE GovInv'
    BY <1>1, <1>2, StartGoverned DEF JoinChannel
  <1>3. ASSUME NEW r \in Rooms, InviteMember(q, u, r, v) PROVE GovInv'
    BY <1>1, <1>3, StartGoverned DEF InviteMember
  <1>4. ASSUME NEW r \in Rooms, RemoveMember(q, u, r, v) PROVE GovInv'
    BY <1>1, <1>4, StartGoverned DEF RemoveMember
  <1>5. ASSUME NEW r \in Rooms, NEW role \in Roles, ChangeMemberRole(q, u, r, v, role) PROVE GovInv'
    <2>1. /\ At(q, "idle") /\ Begin(q, "role", r, u, v, role) /\ UNCHANGED <<kind, roster>>
          /\ unsettled' = unsettled \/ unsettled' = Unsettle(r)
          /\ role = "member" => unsettled' = Unsettle(r)
      BY <1>5 DEF ChangeMemberRole
    <2>2. QED BY <1>1, <2>1, StartGoverned
  <1>6. CASE FindDirectRoom(q, u, v)
    <2>1. PICK r \in Rooms \cup {NoRoom} : Begin(q, "direct", r, u, v, "member")
      BY <1>6 DEF FindDirectRoom, DirectRooms
    <2>2. At(q, "idle") /\ UNCHANGED <<kind, roster, unsettled>>
      BY <1>6 DEF FindDirectRoom
    <2>3. QED BY <1>1, <2>1, <2>2, StartGoverned
  <1>7. QED BY <1>2, <1>3, <1>4, <1>5, <1>6

LEMMA LeaveGoverned ==
    ASSUME IInv, GovInv, NEW q \in Requests, NEW u \in Users, NEW r \in Rooms, LeaveRoom(q, u, r)
    PROVE  GovInv'
  <1>1. /\ \A p \in Requests : p # q => req'[p] = req[p]
        /\ req'[q].at = "succession" /\ req'[q].room = r
    BY RequestBegun DEF LeaveRoom, Steps, Roles, IInv
  <1>2. /\ req[q].at = "idle" /\ kind' = kind /\ ~Locked(r, u)
        /\ unsettled' = IF Active(r) = {u} THEN unsettled \cup {r} ELSE Unsettle(r)
    BY DEF LeaveRoom, At
  <1>3. \A s \in Rooms, w \in Users : s # r \/ w # u => roster'[s][w] = roster[s][w]
    BY DEF LeaveRoom, IInv, RosterTypeOK
  <1>4. OthersStay(q)
    BY <1>1, <1>2, <1>3 DEF OthersStay, SetsRole, Locked, At
  <1>5. unsettled \subseteq unsettled' /\ OnlyOne(q, r)
    BY <1>2 DEF Unsettle, OnlyOne
  <1>6. \A s \in Rooms : s # r => ~Removing(q, s)' /\ ~InSuccession(q, s)
    BY <1>1, <1>2 DEF Removing, InSuccession
  <1>7. \A s \in Rooms, w \in Users : ~SetsRole(q, s, w)'
    BY <1>1 DEF SetsRole
  <1>8. Succeeding(r)' /\ StillTrue(q)'
    BY <1>1 DEF Succeeding, InSuccession, StillTrue
  <1>9. r \notin unsettled' => SomeMember(r)'
    BY <1>2, <1>3 DEF LeaveRoom, Active, SomeMember
  <1>10. QED BY <1>2, <1>3, <1>4, <1>5, <1>6, <1>7, <1>8, <1>9, ShrinkingStep

(* A request that ends and has taken nothing. *)
LEMMA EndGoverned ==
    ASSUME IInv, GovInv, NEW q \in Requests, Finish(q), unsettled \subseteq unsettled',
           \A r \in Rooms : Grows(r) /\ (HasAdmins(r)' => HasAdmins(r)),
           \A r \in Rooms : InSuccession(q, r) => SomeAdmin(r)' \/ r \in unsettled' \/ ~HasAdmins(r),
           \A p \in Requests, r \in Rooms, v \in Users :
               p # q /\ SetsRole(p, r, v) => roster'[r][v] = roster[r][v]
    PROVE  GovInv'
  <1>1. req'[q].at = "idle" /\ \A p \in Requests : p # q => req'[p] = req[p]
    BY RequestFinished DEF IInv
  <1>2. OthersStay(q)
    BY <1>1 DEF OthersStay
  <1>3. /\ \A r \in Rooms : ~Removing(q, r)'
        /\ \A r \in Rooms, v \in Users : ~SetsRole(q, r, v)'
        /\ StillTrue(q)'
    BY <1>1 DEF Removing, At, SetsRole, StillTrue
  <1>4. Alone' /\ OneLock'
    BY <1>2, <1>3, AloneKept, OneLockKept DEF GovInv
  <1>5. ASSUME NEW r \in Rooms PROVE Governed(r)'
    <2>1. CASE HasAdmins(r)
      BY <1>2, <2>1, GovernedGrows DEF GovInv
    <2>2. CASE ~HasAdmins(r)
      BY <2>2 DEF Governed
    <2>3. QED BY <2>1, <2>2
  <1>6. \A p \in Requests : StillTrue(p)'
    BY <1>2, <1>3, StillGrows DEF GovInv
  <1>7. QED BY <1>4, <1>5, <1>6 DEF GovInv

(* The succession check finds an heir in every governed room without admin. *)
LEMMA SuccessionGoverned ==
    ASSUME IInv, GovInv, NEW q \in Requests, PromoteOldestIfNoAdmins(q)
    PROVE  GovInv'
  <1>1. At(q, "succession") /\ UNCHANGED <<kind, roster, unsettled>>
    BY DEF PromoteOldestIfNoAdmins
  <1>2. PICK r \in Rooms : r = req[q].room /\ req[q].by \in Users
    BY <1>1, RequestNames
  <1>3. \A s \in Rooms : Grows(s) /\ (HasAdmins(s)' => HasAdmins(s))
    BY <1>1, TablesStay
  <1>4. CASE Heirs(r) = {} /\ Finish(q)
    <2>1. HasAdmins(r) => Admins(r) # {} \/ Eldest(r) = {}
      BY <1>4 DEF Heirs
    <2>2. HasAdmins(r) => SomeAdmin(r) \/ ~SomeMember(r)
      BY <2>1, EldestExists DEF IInv, Admins, Active, SomeAdmin
    <2>3. HasAdmins(r) => SomeAdmin(r)' \/ r \in unsettled'
      BY <1>1, <2>2 DEF GovInv, Governed, SomeAdmin
    <2>4. \A s \in Rooms : InSuccession(q, s) => SomeAdmin(s)' \/ s \in unsettled' \/ ~HasAdmins(s)
      BY <1>2, <2>3 DEF InSuccession
    <2>5. QED BY <1>1, <1>3, <1>4, <2>4, EndGoverned
  <1>5. ASSUME NEW u \in Heirs(r), Begin(q, "promote", r, req[q].by, u, "admin")
        PROVE  GovInv'
    <2>1. u \in Users /\ roster[r][u].active
      BY <1>5 DEF Heirs, Eldest, Active
    <2>2. /\ \A p \in Requests : p # q => req'[p] = req[p]
          /\ req'[q].at = "promote" /\ req'[q].room = r /\ req'[q].on = u
      BY <1>2, <1>5, <2>1, RequestBegun DEF Steps, Roles, IInv
    <2>3. OthersStay(q)
      BY <1>1, <2>2 DEF OthersStay
    <2>4. \A s \in Rooms : Removing(q, s)' => Removing(q, s)
      BY <1>1, <1>2, <2>2 DEF Removing, At
    <2>5. \A s \in Rooms : InSuccession(q, s) => Succeeding(s)'
      BY <1>2, <2>2 DEF InSuccession, Succeeding
    <2>6. StillTrue(q)' /\ \A s \in Rooms, v \in Users : ~SetsRole(q, s, v)'
      BY <1>1, <2>1, <2>2 DEF StillTrue, SetsRole
    <2>7. QED BY <1>1, <1>3, <2>3, <2>4, <2>5, <2>6, GrowingStep
  <1>6. QED BY <1>2, <1>4, <1>5 DEF PromoteOldestIfNoAdmins

LEMMA AbandonGoverned ==
    ASSUME IInv, GovInv, NEW q \in Requests, Abandon(q)
    PROVE  GovInv'
  <1>1. UNCHANGED <<kind, roster>> /\ Finish(q) /\ unsettled \subseteq unsettled'
    BY DEF Abandon
  <1>2. \A r \in Rooms : InSuccession(q, r) => r \in unsettled'
    BY DEF Abandon, InSuccession
  <1>3. QED BY <1>1, <1>2, TablesStay, EndGoverned

(* A demotion goes ahead only past another admin. *)
LEMMA LockGoverned ==
    ASSUME IInv, GovInv, NEW q \in Requests, LockMember(q)
    PROVE  GovInv'
  <1>1. At(q, "role") /\ UNCHANGED <<kind, roster, unsettled>>
    BY DEF LockMember
  <1>2. PICK r \in Rooms, v \in Users : r = req[q].room /\ v = req[q].on /\ req[q].role \in Roles
    BY <1>1, RequestNames
  <1>3. \A s \in Rooms : Grows(s) /\ (HasAdmins(s)' => HasAdmins(s))
    BY <1>1, TablesStay
  <1>4. \A s \in Rooms : ~InSuccession(q, s)
    BY <1>1 DEF InSuccession, At
  <1>5. CASE Finish(q)
    BY <1>1, <1>3, <1>4, <1>5, EndGoverned
  <1>6. CASE /\ Advance(q, "setrole")
             /\ v \in Active(r) /\ roster[r][v].role # req[q].role /\ ~LastAdmin(r, v, req[q].role)
             /\ ~Locked(r, v)
    <2>1. /\ \A p \in Requests : p # q => req'[p] = req[p]
          /\ req'[q].at = "setrole" /\ req'[q].room = r /\ req'[q].on = v /\ req'[q].role = req[q].role
      BY <1>1, <1>2, <1>6, RequestAdvanced DEF IInv
    <2>2. ASSUME req[q].role = "member", roster[r][v].role = "admin"
          PROVE  OtherAdmin(r, v)
      <3>1. Cardinality({v}) = 1
        BY FS_Singleton
      <3>2. Admins(r) # {v}
        BY <1>6, <2>2, <3>1 DEF LastAdmin
      <3>3. v \in Admins(r)
        BY <1>6, <2>2 DEF Admins
      <3>4. QED BY <3>2, <3>3 DEF Admins, Active, OtherAdmin
    <2>3. OtherAdmin(r, v) => OtherAdmin(r, v)'
      BY <1>1 DEF OtherAdmin
    <2>4. StillTrue(q)'
      BY <1>1, <1>6, <2>1, <2>2, <2>3 DEF StillTrue, Active
    <2>5. OthersStay(q)
      BY <1>1, <2>1 DEF OthersStay
    <2>6. \A s \in Rooms : Removing(q, s)' => Removing(q, s)
      BY <1>1, <1>2, <2>1 DEF Removing, At
    <2>7. \A s \in Rooms, w \in Users : SetsRole(q, s, w)' => \A p \in Requests : p # q => ~SetsRole(p, s, w)
      BY <1>6, <2>1 DEF SetsRole, Locked, At
    <2>8. QED BY <1>1, <1>3, <1>4, <2>4, <2>5, <2>6, <2>7, GrowingStep
  <1>7. QED BY <1>2, <1>5, <1>6 DEF LockMember

LEMMA AddGoverned ==
    ASSUME IInv, GovInv, NEW q \in Requests, Invited(q) \/ Joined(q)
    PROVE  GovInv'
  <1>1. /\ At(q, "invite") \/ At(q, "join")
        /\ AddMember(req[q].room, req[q].on) /\ Finish(q) /\ UNCHANGED <<kind, unsettled>>
    BY DEF Invited, Joined
  <1>2. PICK r \in Rooms, v \in Users : r = req[q].room /\ v = req[q].on
    BY <1>1, RequestNames
  <1>3. \A s \in Rooms, w \in Users : s # r \/ w # v \/ roster[s][w].active => roster'[s][w] = roster[s][w]
    BY <1>1, <1>2 DEF AddMember, IInv, RosterTypeOK
  <1>4. \A s \in Rooms : Grows(s) /\ (HasAdmins(s)' => HasAdmins(s))
    BY <1>1, <1>3 DEF Grows, HasAdmins
  <1>5. \A s \in Rooms : ~InSuccession(q, s)
    BY <1>1 DEF InSuccession, At
  <1>6. ASSUME NEW p \in Requests, NEW s \in Rooms, NEW w \in Users, SetsRole(p, s, w)
        PROVE  roster'[s][w] = roster[s][w]
    <2>1. s # r \/ w # v
      BY <1>1, <1>2, <1>6 DEF AddMember, Locked, SetsRole, At
    <2>2. QED BY <1>3, <2>1
  <1>7. QED BY <1>1, <1>4, <1>5, <1>6, EndGoverned

(* A promotion gives its room an admin. *)
LEMMA PromotionGoverned ==
    ASSUME IInv, GovInv, NEW q \in Requests, NEW r \in Rooms, NEW v \in Users,
           r = req[q].room, v = req[q].on, roster' = [roster EXCEPT ![r][v].role = "admin"],
           Promoted(q) \/ RoleChanged(q)
    PROVE  GovInv'
  <1>1. Finish(q) /\ UNCHANGED <<kind, unsettled>> /\ (At(q, "setrole") \/ (At(q, "promote") /\ ~Locked(r, v)))
    BY DEF Promoted, RoleChanged
  <1>2. /\ \A s \in Rooms, w \in Users : s # r \/ w # v => roster'[s][w] = roster[s][w]
        /\ roster'[r][v].role = "admin" /\ roster'[r][v].active = roster[r][v].active
    <2>1. roster[r][v] \in RosterRow
      BY RowParts DEF IInv
    <2>2. QED BY <2>1 DEF IInv, RosterTypeOK, RosterRow
  <1>3. \A s \in Rooms : Grows(s) /\ (HasAdmins(s)' => HasAdmins(s))
    BY <1>1, <1>2 DEF Grows, HasAdmins
  <1>4. ASSUME NEW s \in Rooms, InSuccession(q, s) PROVE SomeAdmin(s)' \/ s \in unsettled'
    <2>1. s = r /\ At(q, "promote") /\ req[q].by \in Users
      BY <1>1, <1>4, RequestNames DEF InSuccession, At
    <2>2. r \notin unsettled => roster[r][v].active
      BY <2>1 DEF GovInv, StillTrue, At
    <2>3. QED BY <1>1, <1>2, <2>1, <2>2 DEF SomeAdmin
  <1>5. ASSUME NEW p \in Requests, NEW s \in Rooms, NEW w \in Users, p # q, SetsRole(p, s, w)
        PROVE  roster'[s][w] = roster[s][w]
    <2>1. CASE At(q, "setrole")
      <3>1. SetsRole(q, r, v)
        BY <2>1 DEF SetsRole, At
      <3>2. s # r \/ w # v
        BY <1>5, <3>1 DEF GovInv, OneLock
      <3>3. QED BY <1>2, <3>2
    <2>2. CASE ~Locked(r, v)
      <3>1. s # r \/ w # v
        BY <1>5, <2>2 DEF Locked, SetsRole, At
      <3>2. QED BY <1>2, <3>1
    <2>3. QED BY <1>1, <2>1, <2>2
  <1>6. QED BY <1>1, <1>3, <1>4, <1>5, EndGoverned

(* A demotion in a settled room leaves the admin it was counted against. *)
LEMMA DemotionGoverned ==
    ASSUME IInv, GovInv, NEW q \in Requests, NEW r \in Rooms, NEW v \in Users,
           r = req[q].room, v = req[q].on, RoleChanged(q), req[q].role = "member"
    PROVE  GovInv'
  <1>1. /\ Finish(q) /\ UNCHANGED <<kind, unsettled>> /\ At(q, "setrole")
        /\ roster' = [roster EXCEPT ![r][v].role = "member"]
    BY DEF RoleChanged
  <1>2. /\ \A s \in Rooms, w \in Users : s # r \/ w # v => roster'[s][w] = roster[s][w]
        /\ roster'[r][v].active = roster[r][v].active
    <2>1. roster[r][v] \in RosterRow
      BY RowParts DEF IInv
    <2>2. QED BY <1>1, <2>1 DEF IInv, RosterTypeOK, RosterRow
  <1>3. req'[q].at = "idle" /\ \A p \in Requests : p # q => req'[p] = req[p]
    BY <1>1, RequestFinished DEF IInv
  <1>4. SetsRole(q, r, v) /\ Removing(q, r) /\ \A s \in Rooms : ~InSuccession(q, s)
    BY <1>1 DEF SetsRole, Removing, At, InSuccession
  <1>5. OthersStay(q)
    <2> SUFFICES ASSUME NEW p \in Requests, p # q, NEW s \in Rooms, NEW w \in Users, SetsRole(p, s, w)
                 PROVE  roster'[s][w] = roster[s][w]
      BY <1>3 DEF OthersStay
    <2>1. s # r \/ w # v
      BY <1>4 DEF GovInv, OneLock
    <2>2. QED BY <1>2, <2>1
  <1>6. OnlyOne(q, r)
    BY <1>1, <1>4 DEF OnlyOne, GovInv, Alone
  <1>7. /\ \A s \in Rooms : ~Removing(q, s)' /\ \A w \in Users : ~SetsRole(q, s, w)'
        /\ StillTrue(q)'
    BY <1>3 DEF Removing, At, SetsRole, StillTrue
  <1>8. ASSUME HasAdmins(r), r \notin unsettled' PROVE SomeMember(r)' /\ SomeAdmin(r)'
    <2>1. r \notin unsettled /\ SomeMember(r) /\ (SomeAdmin(r) \/ Succeeding(r))
      BY <1>1, <1>8 DEF GovInv, Governed
    <2>2. ASSUME NEW p \in Requests, InSuccession(p, r) PROVE FALSE
      <3>1. Removing(p, r)
        BY <2>2 DEF InSuccession, Removing, At
      <3>2. p = q
        BY <1>4, <2>1, <3>1 DEF GovInv, Alone
      <3>3. QED BY <1>4, <2>2, <3>2
    <2>3. SomeAdmin(r)
      BY <2>1, <2>2 DEF Succeeding
    <2>4. roster[r][v].role = "admin" => OtherAdmin(r, v)
      <3>1. req[q].by \in Users
        BY <1>1, RequestNames
      <3>2. QED BY <1>1, <2>1, <3>1 DEF GovInv, StillTrue, At
    <2>5. OtherAdmin(r, v)
      BY <2>3, <2>4 DEF SomeAdmin, OtherAdmin
    <2>6. QED BY <1>2, <2>5 DEF OtherAdmin, SomeAdmin, SomeMember
  <1>9. QED BY <1>1, <1>2, <1>4, <1>5, <1>6, <1>7, <1>8, ShrinkingStep

LEMMA RoleGoverned ==
    ASSUME IInv, GovInv, NEW q \in Requests, Promoted(q) \/ RoleChanged(q)
    PROVE  GovInv'
  <1>1. At(q, "promote") \/ At(q, "setrole")
    BY DEF Promoted, RoleChanged
  <1>2. PICK r \in Rooms, v \in Users : r = req[q].room /\ v = req[q].on /\ req[q].role \in Roles
    BY <1>1, RequestNames
  <1>3. CASE Promoted(q)
    BY <1>2, <1>3, PromotionGoverned DEF Promoted
  <1>4. CASE RoleChanged(q) /\ req[q].role = "admin"
    BY <1>2, <1>4, PromotionGoverned DEF RoleChanged
  <1>5. CASE RoleChanged(q) /\ req[q].role = "member"
    BY <1>2, <1>5, DemotionGoverned
  <1>6. QED BY <1>2, <1>3, <1>4, <1>5 DEF Roles

(* The admin who kicks stays. *)
LEMMA BanGoverned ==
    ASSUME IInv, GovInv, NEW q \in Requests, BanMember(q)
    PROVE  GovInv'
  <1>1. At(q, "kick") /\ Finish(q) /\ kind' = kind /\ unsettled \subseteq unsettled'
    BY DEF BanMember
  <1>2. PICK r \in Rooms, u \in Users, v \in Users : r = req[q].room /\ u = req[q].by /\ v = req[q].on
    BY <1>1, RequestNames
  <1>3. ~Locked(r, v) /\ \A s \in Rooms, w \in Users : s # r \/ w # v => roster'[s][w] = roster[s][w]
    BY <1>2 DEF BanMember, IInv, RosterTypeOK
  <1>4. req'[q].at = "idle" /\ \A p \in Requests : p # q => req'[p] = req[p]
    BY <1>1, RequestFinished DEF IInv
  <1>5. Removing(q, r) /\ \A s \in Rooms : ~InSuccession(q, s)
    BY <1>1, <1>2 DEF Removing, At, InSuccession
  <1>6. OthersStay(q)
    BY <1>3, <1>4 DEF OthersStay, SetsRole, Locked, At
  <1>7. OnlyOne(q, r)
    BY <1>1, <1>5 DEF OnlyOne, GovInv, Alone
  <1>8. /\ \A s \in Rooms : ~Removing(q, s)' /\ \A w \in Users : ~SetsRole(q, s, w)'
        /\ StillTrue(q)'
    BY <1>4 DEF Removing, At, SetsRole, StillTrue
  <1>9. r \notin unsettled' => SomeMember(r)' /\ SomeAdmin(r)'
    <2>1. r \notin unsettled' => u # v /\ roster[r][u].active /\ roster[r][u].role = "admin"
      BY <1>1, <1>2 DEF GovInv, StillTrue, At
    <2>2. QED BY <1>3, <2>1 DEF SomeAdmin, SomeMember
  <1>10. QED BY <1>1, <1>3, <1>5, <1>6, <1>7, <1>8, <1>9, ShrinkingStep

LEMMA DirectGoverned ==
    ASSUME IInv, GovInv, NEW q \in Requests,
           ReactivateDirectRoom(q) \/ \E r \in Rooms : CreateDirectRoom(q, r)
    PROVE  GovInv'
  <1>1. At(q, "direct") /\ Finish(q) /\ unsettled' = unsettled
    BY DEF ReactivateDirectRoom, CreateDirectRoom
  <1>2. PICK r \in Rooms :
           /\ kind'[r] = "direct" /\ kind[r] \in {"none", "direct"}
           /\ \A w \in Users : roster[r][w].active => roster'[r][w] = roster[r][w]
           /\ \A s \in Rooms : s # r => kind'[s] = kind[s] /\ \A w \in Users : roster'[s][w] = roster[s][w]
    <2>1. CASE ReactivateDirectRoom(q)
      <3>1. req[q].room \in Rooms /\ kind[req[q].room] = "direct"
        BY <2>1 DEF ReactivateDirectRoom, At, IInv, DirectInv, DirectOK, Shared
      <3>2. /\ kind' = kind /\ \A s \in Rooms : s # req[q].room => roster'[s] = roster[s]
            /\ \A w \in Users : roster[req[q].room][w].active => roster'[req[q].room][w] = roster[req[q].room][w]
        BY <2>1, <3>1 DEF ReactivateDirectRoom, IInv, RosterTypeOK
      <3>3. QED BY <3>1, <3>2
    <2>2. ASSUME NEW r \in Rooms, CreateDirectRoom(q, r)
          PROVE  /\ kind'[r] = "direct" /\ kind[r] = "none"
                 /\ \A w \in Users : ~roster[r][w].active
                 /\ \A s \in Rooms : s # r => kind'[s] = kind[s] /\ roster'[s] = roster[s]
      BY <2>2 DEF CreateDirectRoom, IInv, RosterTypeOK, RowInv, NoRow
    <2>3. QED BY <2>1, <2>2
  <1>3. \A s \in Rooms : Grows(s) /\ (HasAdmins(s)' => HasAdmins(s))
    BY <1>2 DEF Grows, HasAdmins
  <1>4. \A s \in Rooms : ~InSuccession(q, s)
    BY <1>1 DEF InSuccession, At
  <1>5. ASSUME NEW p \in Requests, NEW s \in Rooms, NEW w \in Users, SetsRole(p, s, w)
        PROVE  roster'[s][w] = roster[s][w]
    <2>1. kind[s] \in Managed
      BY <1>5 DEF SetsRole, IInv, RequestInv, RequestOK
    <2>2. QED BY <1>2, <2>1 DEF Managed
  <1>6. QED BY <1>1, <1>3, <1>4, <1>5, EndGoverned

(* A new channel or group has its creator for an admin. *)
LEMMA CreateGoverned ==
    ASSUME IInv, GovInv, NEW u \in Users, NEW r \in Rooms,
           \/ \E visibility \in {"public", "private"} : CreateChannel(u, r, visibility)
           \/ \E members \in SUBSET Users : CreateGroup(u, r, members)
    PROVE  GovInv'
  <1>1. kind[r] = "none" /\ UNCHANGED <<req, unsettled>>
    BY DEF CreateChannel, CreateGroup
  <1>2. /\ \A s \in Rooms : s # r => kind'[s] = kind[s] /\ \A w \in Users : roster'[s][w] = roster[s][w]
        /\ roster'[r][u] = Fresh("admin")
    <2>1. CASE \E visibility \in {"public", "private"} : CreateChannel(u, r, visibility)
      BY <2>1 DEF CreateChannel, IInv, RosterTypeOK
    <2>2. CASE \E members \in SUBSET Users : CreateGroup(u, r, members)
      BY <2>2 DEF CreateGroup, IInv, RosterTypeOK
    <2>3. QED BY <2>1, <2>2
  <1>3. SomeAdmin(r)' /\ SomeMember(r)'
    BY <1>2, FreshRow DEF SomeAdmin, SomeMember, IInv, Roles
  <1>4. ASSUME NEW s \in Rooms PROVE Governed(s)'
    <2>1. CASE s = r
      BY <1>3, <2>1 DEF Governed
    <2>2. CASE s # r
      BY <1>1, <1>2, <2>2 DEF GovInv, Governed, HasAdmins, SomeMember, SomeAdmin, Succeeding, InSuccession
    <2>3. QED BY <2>1, <2>2
  <1>5. ASSUME NEW q \in Requests PROVE StillTrue(q)'
    <2> SUFFICES ASSUME NEW s \in Rooms, NEW x \in Users, NEW w \in Users,
                        req[q].room = s, req[q].by = x, req[q].on = w, req[q].at \in {"setrole", "promote", "kick"}
                 PROVE  /\ req[q].at = "setrole" => roster'[s][w].active
                        /\ s \notin unsettled =>
                             /\ req[q].at = "promote" => roster'[s][w].active
                             /\ req[q].at = "kick" => x # w /\ roster'[s][x].active /\ roster'[s][x].role = "admin"
                             /\ req[q].at = "setrole" /\ req[q].role = "member" /\ roster'[s][w].role = "admin" =>
                                   OtherAdmin(s, w)'
      BY <1>1 DEF StillTrue
    <2>1. s # r
      BY <1>1 DEF IInv, RequestInv, RequestOK, Managed
    <2>2. \A y \in Users : roster'[s][y] = roster[s][y]
      BY <1>2, <2>1
    <2>3. OtherAdmin(s, w) => OtherAdmin(s, w)'
      BY <2>2 DEF OtherAdmin
    <2>4. QED BY <2>2, <2>3 DEF GovInv, StillTrue
  <1>6. Alone' /\ OneLock'
    BY <1>1 DEF GovInv, Alone, OneLock, Removing, SetsRole, At
  <1>7. QED BY <1>4, <1>5, <1>6 DEF GovInv

LEMMA GovernedNext ==
    ASSUME IInv, GovInv, [RosterNext]_rosterVars
    PROVE  GovInv'
  <1>1. ASSUME NEW q \in Requests, Start(q) PROVE GovInv'
    BY <1>1, StartsGoverned, LeaveGoverned DEF Start
  <1>2. ASSUME NEW q \in Requests, Continue(q) PROVE GovInv'
    BY <1>2, DirectGoverned, AddGoverned, SuccessionGoverned, RoleGoverned, LockGoverned, BanGoverned, AbandonGoverned
    DEF Continue
  <1>3. CASE CreateRoom
    BY <1>3, CreateGoverned DEF CreateRoom
  <1>4. CASE UNCHANGED rosterVars
    <2>1. UNCHANGED <<kind, roster, clock, req, unsettled>>
      BY <1>4 DEF rosterVars
    <2>2. \A r \in Rooms : Governed(r)'
      BY <2>1 DEF GovInv, Governed, HasAdmins, SomeMember, SomeAdmin, Succeeding, InSuccession
    <2>3. \A q \in Requests : StillTrue(q)'
      BY <2>1 DEF GovInv, StillTrue, OtherAdmin
    <2>4. Alone' /\ OneLock'
      BY <2>1 DEF GovInv, Alone, OneLock, Removing, SetsRole, At
    <2>5. QED BY <2>2, <2>3, <2>4 DEF GovInv
  <1>5. QED BY <1>1, <1>2, <1>3, <1>4 DEF RosterNext

LEMMA GovernedInit == RosterInit => GovInv
  BY DEF RosterInit, GovInv, Alone, OneLock, Removing, SetsRole, At, Governed, StillTrue, HasAdmins, Idle

(* However many requests run at once, one that may take an admin from a     *)
(* settled room still finds true what it has checked, and every settled     *)
(* room has an admin or one about to be named.                              *)
THEOREM GovernedInvariant == RosterSpec => []GovInv
  BY InitEstablishes, NextKeeps, GovernedInit, GovernedNext, PTL DEF RosterSpec

(* However many requests run at once, a channel or group that has never been *)
(* empty, has lost no succession check to a cancelled request and has seen   *)
(* no two of leave, kick and demotion overlap has an admin whenever no       *)
(* request is in flight.                                                     *)
THEOREM RoomsKeepAnAdmin == RosterSpec => []RoomsHaveAdmin
  <1>1. GovInv => RoomsHaveAdmin
    <2> SUFFICES ASSUME GovInv, \A q \in Requests : At(q, "idle"), NEW r \in Rooms \ unsettled,
                        HasAdmins(r)
                 PROVE  Admins(r) # {}
      BY DEF RoomsHaveAdmin
    <2>1. ~Succeeding(r)
      BY DEF Succeeding, InSuccession, At
    <2>2. SomeAdmin(r)
      BY <2>1 DEF GovInv, Governed
    <2>3. QED BY <2>2 DEF SomeAdmin, Admins, Active
  <1>2. QED BY <1>1, GovernedInvariant, PTL

(* Whatever runs at once, a ban is lifted only by an invite or by a join that *)
(* has passed its check (AddMember of store/rooms.go is the only statement    *)
(* that writes banned_at = NULL).                                             *)
BanLiftedOnEntry ==
    [][\A r \in Rooms, u \in Users :
         roster[r][u].banned /\ ~roster'[r][u].banned =>
            \E q \in Requests : req[q].at \in {"invite", "join"} /\ req[q].room = r /\ req[q].on = u]_rosterVars

LEMMA BanLifted ==
    ASSUME IInv, RosterNext, NEW r \in Rooms, NEW u \in Users, roster[r][u].banned, ~roster'[r][u].banned
    PROVE  \E q \in Requests : req[q].at \in {"invite", "join"} /\ req[q].room = r /\ req[q].on = u
  <1>1. roster[r][u] \in RosterRow /\ kind[r] # "none" /\ kind[r] # "direct"
    BY RowParts DEF IInv, RowInv, NoRow
  <1>2. CASE CreateRoom
    <2>1. PICK s \in Rooms : kind[s] = "none" /\ roster'[r] = IF s = r THEN roster'[r] ELSE roster[r]
      BY <1>2 DEF CreateRoom, CreateChannel, CreateGroup, IInv, RosterTypeOK
    <2>2. QED BY <1>1, <2>1
  <1>3. ASSUME NEW q \in Requests, Start(q) PROVE FALSE
    <2>1. PICK w \in Users, s \in Rooms : roster' = roster \/ roster' = [roster EXCEPT ![s][w].active = FALSE]
      BY <1>3 DEF Start, JoinChannel, LeaveRoom, FindDirectRoom, InviteMember, RemoveMember, ChangeMemberRole
    <2>2. roster'[r][u] = roster[r][u] \/ roster'[r][u] = [roster[r][u] EXCEPT !.active = FALSE]
      <3>1. CASE roster' = roster
        BY <3>1
      <3>2. CASE roster' = [roster EXCEPT ![s][w].active = FALSE]
        <4>1. CASE s = r /\ w = u
          BY <3>2, <4>1 DEF IInv, RosterTypeOK
        <4>2. CASE ~(s = r /\ w = u)
          BY <3>2, <4>2 DEF IInv, RosterTypeOK
        <4>3. QED BY <4>1, <4>2
      <3>3. QED BY <2>1, <3>1, <3>2
    <2>3. [roster[r][u] EXCEPT !.active = FALSE].banned = roster[r][u].banned
      BY <1>1 DEF RosterRow
    <2>4. QED BY <2>2, <2>3
  <1>4. ASSUME NEW q \in Requests, Continue(q)
        PROVE  req[q].at \in {"invite", "join"} /\ req[q].room = r /\ req[q].on = u
    <2>1. CASE Invited(q) \/ Joined(q)
      <3>1. /\ req[q].at \in {"invite", "join"} /\ AddMember(req[q].room, req[q].on)
            /\ req[q].room \in Rooms /\ req[q].on \in Users
        BY <2>1, RequestKinds DEF Invited, Joined, At, IInv, RequestInv, RequestOK
      <3>2. QED BY <3>1 DEF AddMember, IInv, RosterTypeOK
    <2>2. CASE ReactivateDirectRoom(q)
      <3>1. req[q].room \in Rooms /\ kind[req[q].room] = "direct"
        BY <2>2 DEF ReactivateDirectRoom, At, IInv, DirectInv, DirectOK, Shared
      <3>2. roster'[r] = roster[r]
        BY <1>1, <2>2, <3>1 DEF ReactivateDirectRoom, IInv, RosterTypeOK
      <3>3. QED BY <3>2
    <2>3. ASSUME NEW s \in Rooms, CreateDirectRoom(q, s) PROVE FALSE
      <3>1. roster'[r] = roster[r]
        BY <1>1, <2>3 DEF CreateDirectRoom, IInv, RosterTypeOK
      <3>2. QED BY <3>1
    <2>4. CASE Promoted(q) \/ RoleChanged(q)
      BY <1>1, <2>4 DEF Promoted, RoleChanged, IInv, RosterTypeOK, RosterRow
    <2>5. CASE BanMember(q)
      BY <1>1, <2>5 DEF BanMember, IInv, RosterTypeOK, RosterRow
    <2>6. CASE PromoteOldestIfNoAdmins(q) \/ LockMember(q) \/ Abandon(q)
      BY <2>6 DEF PromoteOldestIfNoAdmins, LockMember, Abandon
    <2>7. QED BY <1>4, <2>1, <2>2, <2>3, <2>4, <2>5, <2>6 DEF Continue
  <1>5. QED BY <1>2, <1>3, <1>4 DEF RosterNext

(* However requests interleave, a ban is lifted only by the upsert of an     *)
(* invite of that user or of the user's own join (store/rooms.go).           *)
THEOREM BansLiftedOnEntry == RosterSpec => BanLiftedOnEntry
  <1>1. IInv /\ [RosterNext]_rosterVars =>
          [\A r \in Rooms, u \in Users :
             roster[r][u].banned /\ ~roster'[r][u].banned =>
                \E q \in Requests : req[q].at \in {"invite", "join"} /\ req[q].room = r /\ req[q].on = u]_rosterVars
    BY BanLifted
  <1>2. QED BY <1>1, MembershipInvariant, PTL DEF RosterSpec, BanLiftedOnEntry
=============================================================================
