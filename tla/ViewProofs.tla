----------------------------- MODULE ViewProofs -----------------------------
(***************************************************************************)
(* Proofs about what a room's page shows: the members an admin's tab       *)
(* lists (RoomPanel), for any users and any number of changes, requests    *)
(* and broken connections; and the scrolled list of messages (Screen), for *)
(* any page size, height of the view, thresholds and number of messages.   *)
(***************************************************************************)
EXTENDS RoomPanel, Screen, FiniteSetTheorems, TLAPS

Roles == {"none", "member", "admin"}
Requests == [kind : {"invite", "role", "kick"}, user : Others, role : Roles,
             st : {"sent", "done", "refused"}]

(* Something is on its way that makes the tab read the members again, or is  *)
(* recorded as never coming.                                                 *)
InvitePending == \E q \in requests : q.kind = "invite" /\ q.st = "done"
NewsComing == announcing > 0 \/ heard > 0 \/ unheard \/ InvitePending

PanelTypes ==
    /\ PanelTypeOK
    /\ announcing \in Nat /\ heard \in Nat /\ unheard \in BOOLEAN
    /\ detail \in {"idle", "sent", "read"}
    /\ (detail = "read" => asRead \in [Others -> Roles])
    /\ requests \in SUBSET Requests

(* What was read is what there is, or news is coming; what is shown is, too, *)
(* unless a fetch is under way.                                              *)
ReadIsFresh == detail = "read" => asRead = roles \/ NewsComing
SeenIsFresh == seen # NoData /\ detail = "idle" => seen = roles \/ NewsComing

PanelInv == PanelTypes /\ ReadIsFresh /\ SeenIsFresh

-----------------------------------------------------------------------------
(* A step that leaves the members and the query alone, and takes no news     *)
(* away.                                                                     *)
LEMMA NewsKept ==
    ASSUME PanelInv, UNCHANGED <<roles, seen, detail, asRead>>, NewsComing => NewsComing'
    PROVE  ReadIsFresh' /\ SeenIsFresh'
  BY DEF PanelInv, ReadIsFresh, SeenIsFresh

(* Whatever it does to the rest, a step after which news is coming keeps     *)
(* both.                                                                     *)
LEMMA NewsSuffices ==
    ASSUME NewsComing'
    PROVE  ReadIsFresh' /\ SeenIsFresh'
  BY DEF ReadIsFresh, SeenIsFresh

LEMMA QueryKeeps ==
    ASSUME PanelInv, DetailRead \/ DetailAnswered \/ DetailFails
    PROVE  PanelInv'
  <1>1. CASE DetailRead
    <2>1. PanelTypes'
      BY <1>1 DEF DetailRead, PanelInv, PanelTypes, PanelTypeOK, Roles
    <2>2. QED BY <1>1, <2>1 DEF DetailRead, PanelInv, ReadIsFresh, SeenIsFresh
  <1>2. CASE DetailAnswered
    <2>1. PanelTypes'
      BY <1>2, PanelAssumption DEF DetailAnswered, PanelInv, PanelTypes, PanelTypeOK, Roles
    <2>2. NewsComing' <=> NewsComing
      BY <1>2 DEF DetailAnswered, NewsComing, InvitePending
    <2>3. QED BY <1>2, <2>1, <2>2 DEF DetailAnswered, PanelInv, ReadIsFresh, SeenIsFresh
  <1>3. CASE DetailFails
    <2>1. PanelTypes'
      BY <1>3 DEF DetailFails, PanelInv, PanelTypes, PanelTypeOK
    <2>2. NewsComing'
      BY <1>3 DEF DetailFails, NewsComing
    <2>3. QED BY <2>1, <2>2, NewsSuffices DEF PanelInv
  <1>4. QED BY <1>1, <1>2, <1>3

LEMMA ChangeKeeps ==
    ASSUME PanelInv, NEW u \in Others, NEW role \in Roles, MemberChanges(u, role)
    PROVE  PanelInv'
  <1>1. roles' \in [Others -> Roles]
    BY DEF MemberChanges, PanelInv, PanelTypes, PanelTypeOK, Roles
  <1>2. announcing' \in Nat /\ unheard' \in BOOLEAN /\ (announcing' > 0 \/ unheard')
    <2>1. announcing \in Nat /\ unheard \in BOOLEAN
      BY DEF PanelInv, PanelTypes
    <2>2. CASE announcing' = announcing + 1 /\ UNCHANGED unheard
      <3>1. announcing' \in Nat /\ announcing' > 0
        BY <2>1, <2>2
      <3>2. QED BY <2>1, <2>2, <3>1
    <2>3. CASE unheard' = TRUE /\ UNCHANGED announcing
      BY <2>1, <2>3
    <2>4. QED BY <2>2, <2>3 DEF MemberChanges
  <1>3. PanelTypes'
    BY <1>1, <1>2 DEF MemberChanges, PanelInv, PanelTypes, PanelTypeOK, Roles
  <1>4. NewsComing'
    BY <1>2 DEF NewsComing
  <1>5. QED BY <1>3, <1>4, NewsSuffices DEF PanelInv

(* invalidateQueries: the members are read again, unless the first fetch has *)
(* read them already.                                                        *)
LEMMA Invalidated ==
    ASSUME PanelInv, detail' = Invalidate(seen), unheard' = (unheard \/ LeftUnread),
           asRead' = IF detail' = "sent" THEN NoData ELSE asRead, UNCHANGED <<seen, roles>>
    PROVE  /\ detail' \in {"sent", "read"} /\ unheard' \in BOOLEAN
           /\ detail' = "read" => asRead' \in [Others -> Roles] /\ unheard'
           /\ ReadIsFresh' /\ SeenIsFresh'
  <1>1. detail \in {"idle", "sent", "read"} /\ unheard \in BOOLEAN
        /\ (detail = "read" => asRead \in [Others -> Roles])
    BY DEF PanelInv, PanelTypes
  <1>2. detail' = "sent" \/ (seen = NoData /\ detail' = detail /\ detail \in {"sent", "read"})
    BY <1>1 DEF Invalidate
  <1>3. detail' = "read" => detail = "read" /\ asRead' = asRead /\ LeftUnread
    BY <1>2 DEF LeftUnread
  <1>4. unheard' \in BOOLEAN /\ (detail' = "read" => unheard')
    BY <1>1, <1>3
  <1>5. detail' \in {"sent", "read"} /\ (detail' = "read" => asRead' \in [Others -> Roles])
    BY <1>1, <1>2, <1>3
  <1>6. QED BY <1>4, <1>5 DEF ReadIsFresh, SeenIsFresh, NewsComing

LEMMA EventsKeep ==
    ASSUME PanelInv, Announce \/ RouteMemberEvent \/ LinkBreaks \/ LinkReturns
    PROVE  PanelInv'
  <1>1. CASE Announce
    <2>1. announcing' \in Nat /\ heard' \in Nat /\ unheard' \in BOOLEAN
          /\ (heard' > 0 \/ unheard')
      <3>1. announcing \in Nat /\ heard \in Nat /\ unheard \in BOOLEAN
        BY DEF PanelInv, PanelTypes
      <3>2. announcing' \in Nat
        BY <1>1, <3>1 DEF Announce
      <3>3. unheard' \in BOOLEAN
        BY <1>1, <3>1 DEF Announce
      <3>4. CASE linked
        <4>1. heard' = heard + 1
          BY <1>1, <3>4 DEF Announce
        <4>2. heard' \in Nat /\ heard' > 0
          BY <3>1, <4>1
        <4>3. QED BY <3>2, <3>3, <4>2
      <3>5. CASE ~linked
        <4>1. heard' = heard /\ unheard'
          BY <1>1, <3>5 DEF Announce
        <4>2. QED BY <3>1, <3>2, <3>3, <4>1
      <3>6. QED BY <3>4, <3>5
    <2>2. PanelTypes'
      BY <1>1, <2>1 DEF Announce, PanelInv, PanelTypes, PanelTypeOK
    <2>3. NewsComing'
      BY <2>1 DEF NewsComing
    <2>4. QED BY <2>2, <2>3, NewsSuffices DEF PanelInv
  <1>2. CASE RouteMemberEvent
    <2>1. heard' \in Nat
      BY <1>2 DEF RouteMemberEvent, PanelInv, PanelTypes
    <2>2. /\ detail' \in {"sent", "read"} /\ unheard' \in BOOLEAN
          /\ detail' = "read" => asRead' \in [Others -> Roles] /\ unheard'
          /\ ReadIsFresh' /\ SeenIsFresh'
      BY <1>2, Invalidated DEF RouteMemberEvent
    <2>3. PanelTypes'
      BY <1>2, <2>1, <2>2 DEF RouteMemberEvent, PanelInv, PanelTypes, PanelTypeOK
    <2>4. QED BY <2>2, <2>3 DEF PanelInv
  <1>3. CASE LinkBreaks
    <2>1. heard' \in Nat /\ unheard' \in BOOLEAN /\ (unheard => unheard') /\ (heard > 0 => unheard')
      BY <1>3 DEF LinkBreaks, PanelInv, PanelTypes
    <2>2. PanelTypes'
      BY <1>3, <2>1 DEF LinkBreaks, PanelInv, PanelTypes, PanelTypeOK
    <2>3. NewsComing => NewsComing'
      BY <1>3, <2>1 DEF LinkBreaks, NewsComing, InvitePending
    <2>4. QED BY <1>3, <2>2, <2>3, NewsKept DEF LinkBreaks, PanelInv
  <1>4. CASE LinkReturns
    <2>0. announcing' \in Nat /\ (announcing > 0 => announcing' > 0)
      BY <1>4 DEF LinkReturns, PanelInv, PanelTypes
    <2>1. PanelTypes'
      BY <1>4, <2>0 DEF LinkReturns, PanelInv, PanelTypes, PanelTypeOK
    <2>2. NewsComing => NewsComing'
      BY <1>4, <2>0 DEF LinkReturns, NewsComing, InvitePending
    <2>3. QED BY <1>4, <2>1, <2>2, NewsKept DEF LinkReturns, PanelInv
  <1>5. QED BY <1>1, <1>2, <1>3, <1>4

(* The dialogs and the requests they send. *)
LEMMA IssueKeeps ==
    ASSUME PanelInv, requests \subseteq requests', requests' \in SUBSET Requests,
           UNCHANGED <<roles, announcing, heard, seen, detail, asRead, unheard>>,
           kickTarget' # NoData => kickTarget' \in Others /\ seen # NoData
    PROVE  PanelInv'
  <1>1. PanelTypes'
    BY DEF PanelInv, PanelTypes, PanelTypeOK
  <1>2. NewsComing => NewsComing'
    BY DEF NewsComing, InvitePending
  <1>3. QED BY <1>1, <1>2, NewsKept DEF PanelInv

LEMMA AdminKeeps ==
    ASSUME PanelInv,
           \/ SearchUsers \/ handleOpenChange \/ cancelKick \/ confirmKick
           \/ \E u \in Others : handleInvite(u) \/ changeRole(u) \/ askKick(u)
    PROVE  PanelInv'
  <1>1. /\ requests \in SUBSET Requests
        /\ kickTarget # NoData => kickTarget \in Others /\ seen # NoData
    BY DEF PanelInv, PanelTypes, PanelTypeOK
  <1>2. CASE SearchUsers \/ handleOpenChange
    BY <1>1, <1>2, IssueKeeps DEF SearchUsers, handleOpenChange
  <1>3. CASE cancelKick
    BY <1>1, <1>3, IssueKeeps DEF cancelKick
  <1>4. CASE confirmKick
    <2>1. Request("kick", kickTarget, "none") \in Requests
      BY <1>1, <1>4 DEF confirmKick, KickAsked, Request, Requests, Roles
    <2>2. QED BY <1>1, <1>4, <2>1, IssueKeeps DEF confirmKick, Issue
  <1>5. ASSUME NEW u \in Others, handleInvite(u) PROVE PanelInv'
    <2>1. Request("invite", u, "member") \in Requests
      BY DEF Request, Requests, Roles
    <2>2. QED BY <1>1, <1>5, <2>1, IssueKeeps DEF handleInvite, Issue
  <1>6. ASSUME NEW u \in Others, changeRole(u) PROVE PanelInv'
    <2>1. Request("role", u, "member") \in Requests /\ Request("role", u, "admin") \in Requests
      BY DEF Request, Requests, Roles
    <2>2. QED BY <1>1, <1>6, <2>1, IssueKeeps DEF changeRole, Issue
  <1>7. ASSUME NEW u \in Others, askKick(u) PROVE PanelInv'
    BY <1>1, <1>7, IssueKeeps DEF askKick
  <1>8. QED BY <1>2, <1>3, <1>4, <1>5, <1>6, <1>7

(* A request the server grants is announced, except an invite, of which the  *)
(* answer is the news.                                                       *)
LEMMA HandledKeeps ==
    ASSUME PanelInv, NEW q \in requests, RequestHandled(q)
    PROVE  PanelInv'
  <1>1. /\ requests \in SUBSET Requests /\ q \in Requests /\ q.st = "sent" /\ roles \in [Others -> Roles]
        /\ announcing \in Nat
    BY DEF RequestHandled, PanelInv, PanelTypes, PanelTypeOK, Roles
  <1>2. ASSUME NEW s \in {"done", "refused"}, requests' = (requests \ {q}) \cup {[q EXCEPT !.st = s]}
        PROVE  /\ requests' \in SUBSET Requests
               /\ InvitePending => InvitePending'
               /\ s = "done" /\ q.kind = "invite" => InvitePending'
    <2>1. PICK p \in Requests : p = [q EXCEPT !.st = s] /\ p.st = s /\ p.kind = q.kind
      <3>1. /\ [q EXCEPT !.st = s] \in Requests /\ [q EXCEPT !.st = s].st = s
            /\ [q EXCEPT !.st = s].kind = q.kind
        <4>1. s \in {"sent", "done", "refused"}
          OBVIOUS
        <4>2. QED BY <1>1, <4>1 DEF Requests
      <3>2. QED BY <3>1
    <2>2. QED BY <1>1, <1>2, <2>1 DEF InvitePending
  <1>3. CASE requests' = (requests \ {q}) \cup {[q EXCEPT !.st = "refused"]} /\ UNCHANGED <<roles, announcing>>
    <2>1. requests' \in SUBSET Requests /\ (InvitePending => InvitePending')
      BY <1>2, <1>3
    <2>2. PanelTypes'
      BY <1>3, <2>1 DEF RequestHandled, PanelInv, PanelTypes, PanelTypeOK
    <2>3. NewsComing => NewsComing'
      BY <1>3, <2>1 DEF RequestHandled, NewsComing
    <2>4. QED BY <1>3, <2>2, <2>3, NewsKept DEF RequestHandled, PanelInv
  <1>4. CASE /\ roles' = [roles EXCEPT ![q.user] = q.role]
             /\ announcing' = IF q.kind = "invite" \/ roles[q.user] = q.role THEN announcing ELSE announcing + 1
             /\ requests' = (requests \ {q}) \cup {[q EXCEPT !.st = "done"]}
    <2>1. /\ requests' \in SUBSET Requests /\ (InvitePending => InvitePending')
          /\ (q.kind = "invite" => InvitePending')
      BY <1>2, <1>4
    <2>2. q.user \in Others /\ q.role \in Roles
      BY <1>1 DEF Requests
    <2>3. roles' \in [Others -> Roles] /\ (roles[q.user] = q.role => roles' = roles)
      BY <1>1, <1>4, <2>2
    <2>4. announcing' \in Nat /\ (announcing > 0 => announcing' > 0)
      BY <1>1, <1>4
    <2>5. PanelTypes'
      BY <2>1, <2>3, <2>4 DEF RequestHandled, PanelInv, PanelTypes, PanelTypeOK, Roles
    <2>6. NewsComing => NewsComing'
      BY <2>1, <2>4 DEF RequestHandled, NewsComing
    <2>7. CASE roles' = roles
      BY <2>5, <2>6, <2>7, NewsKept DEF RequestHandled, PanelInv
    <2>8. CASE roles' # roles
      <3>1. q.kind = "invite" \/ announcing' > 0
        BY <1>1, <1>4, <2>3, <2>8
      <3>2. NewsComing'
        BY <2>1, <3>1 DEF NewsComing
      <3>3. QED BY <2>5, <3>2, NewsSuffices DEF PanelInv
    <2>9. QED BY <2>7, <2>8
  <1>5. QED BY <1>3, <1>4 DEF RequestHandled

LEMMA AnsweredKeeps ==
    ASSUME PanelInv, NEW q \in requests, RequestAnswered(q)
    PROVE  PanelInv'
  <1>1. /\ requests' \in SUBSET Requests /\ unheard \in BOOLEAN /\ detail \in {"idle", "sent", "read"}
        /\ (detail = "read" => asRead \in [Others -> Roles])
        /\ requests' = requests \ {q} /\ UNCHANGED <<roles, announcing, heard, seen, kickTarget>>
    BY DEF RequestAnswered, PanelInv, PanelTypes
  <1>2. q.kind # "invite" \/ q.st # "done" => (InvitePending => InvitePending')
    BY <1>1 DEF InvitePending
  <1>3. CASE /\ q.st = "done" /\ q.kind # "role"
             /\ detail' = Invalidate(seen) /\ asRead' = IF detail' = "sent" THEN NoData ELSE asRead
             /\ unheard' = (unheard \/ LeftUnread)
    <2>1. /\ detail' \in {"sent", "read"} /\ unheard' \in BOOLEAN
          /\ detail' = "read" => asRead' \in [Others -> Roles] /\ unheard'
          /\ ReadIsFresh' /\ SeenIsFresh'
      BY <1>1, <1>3, Invalidated
    <2>2. PanelTypes'
      BY <1>1, <2>1 DEF PanelInv, PanelTypes, PanelTypeOK
    <2>3. QED BY <2>1, <2>2 DEF PanelInv
  <1>4. CASE /\ q.st = "done" /\ q.kind = "role" /\ detail' = detail
             /\ asRead' = IF detail' = "sent" THEN NoData ELSE asRead
             /\ unheard' = unheard
    <2>1. PanelTypes'
      BY <1>1, <1>4 DEF PanelInv, PanelTypes, PanelTypeOK
    <2>2. NewsComing => NewsComing'
      BY <1>1, <1>2, <1>4 DEF NewsComing
    <2>3. ReadIsFresh' /\ SeenIsFresh'
      BY <1>1, <1>4, <2>2 DEF PanelInv, ReadIsFresh, SeenIsFresh
    <2>4. QED BY <2>1, <2>3 DEF PanelInv
  <1>5. CASE /\ unheard' = (unheard \/ (q.st = "done" /\ q.kind = "invite"))
             /\ UNCHANGED <<detail, asRead>>
    <2>1. unheard' \in BOOLEAN
      BY <1>5
    <2>2. PanelTypes'
      BY <1>1, <1>5, <2>1 DEF PanelInv, PanelTypes, PanelTypeOK
    <2>3. NewsComing => NewsComing'
      BY <1>1, <1>2, <1>5 DEF NewsComing
    <2>4. QED BY <1>1, <1>5, <2>2, <2>3, NewsKept DEF PanelInv
  <1>6. QED BY <1>1, <1>3, <1>4, <1>5 DEF RequestAnswered

LEMMA PanelStep ==
    ASSUME PanelInv, [PanelNext]_panelVars
    PROVE  PanelInv'
  <1>1. CASE UNCHANGED panelVars
    <2>1. requests' = requests /\ requests \in SUBSET Requests
          /\ UNCHANGED <<roles, announcing, heard, seen, detail, asRead, unheard, kickTarget>>
      BY <1>1 DEF panelVars, PanelInv, PanelTypes
    <2>2. QED BY <2>1, IssueKeeps DEF PanelInv, PanelTypes, PanelTypeOK
  <1>2. CASE PanelNext
    BY <1>2, QueryKeeps, ChangeKeeps, EventsKeep, AdminKeeps, HandledKeeps, AnsweredKeeps DEF PanelNext, Roles
  <1>3. QED BY <1>1, <1>2

LEMMA PanelStarts == PanelInit => PanelInv
  <1> SUFFICES ASSUME PanelInit PROVE PanelInv
    OBVIOUS
  <1>1. roles \in [Others -> {"none", "member", "admin"}] /\ requests \in SUBSET Requests
    BY DEF PanelInit
  <1>2. /\ announcing \in Nat /\ heard \in Nat /\ detail = "sent" /\ seen = NoData /\ kickTarget = NoData
    BY DEF PanelInit
  <1>3. unheard \in BOOLEAN
    BY DEF PanelInit
  <1>4. QED BY <1>1, <1>2, <1>3 DEF PanelInv, PanelTypes, PanelTypeOK, ReadIsFresh, SeenIsFresh

-----------------------------------------------------------------------------
(* The inductive invariant of the panel: what is shown, and what a fetch has *)
(* read, is what there is, or an event or an answer is coming.               *)
THEOREM PanelInvariant == PanelSpec => []PanelInv
  BY PanelStarts, PanelStep, PTL DEF PanelSpec

(* The panel's types: a kick is asked about a member of a list that is       *)
(* shown.                                                                    *)
THEOREM PanelTypesHold == PanelSpec => []PanelTypeOK
  <1>1. PanelInv => PanelTypeOK
    BY DEF PanelInv, PanelTypes
  <1>2. QED BY <1>1, PanelInvariant, PTL

(* When nothing is in flight, the members shown are the members there are,   *)
(* whatever order fetches, events, requests and other admins' changes came   *)
(* in, but for changes whose event the tab could not hear.                   *)
THEOREM MembersShown == PanelSpec => []MembersFollow
  <1>1. PanelInv => MembersFollow
    BY DEF PanelInv, PanelTypes, SeenIsFresh, NewsComing, InvitePending, MembersFollow
  <1>2. QED BY <1>1, PanelInvariant, PTL

-----------------------------------------------------------------------------
(***************************************************************************)
(* The scrolled list.  ViewStays rests on three facts: the anchor of an    *)
(* older page that nothing has overtaken is the height of the list, the    *)
(* list is taller than the view before anything can scroll, so that the    *)
(* new position is never clamped, and what makes the list taller runs the  *)
(* second layout effect.                                                   *)
(***************************************************************************)
Height == ScrollHeight(lo, hi)

ListInv ==
    /\ lo \in Int /\ hi \in Int /\ lo <= hi + 1 /\ top \in Int /\ anchor \in Int
    /\ tall \subseteq lo..hi
    /\ prevCount = Count(lo, hi)
    /\ 0 <= top /\ top <= Bottom(Height)
    /\ anchor <= Height
    /\ scrollDue \/ fetching => Height > ViewHeight
    /\ fetching => hasNextPage /\ lo <= hi
    /\ fetching /\ ~raced => anchor = Height

(* The tall rows of the list before a message. *)
LEMMA TallRows ==
    ASSUME ListInv, NEW a \in Int, NEW id \in Int
    PROVE  /\ IsFiniteSet({x \in tall : a <= x /\ x < id})
           /\ Cardinality({x \in tall : a <= x /\ x < id}) \in Nat
           /\ Offset(a, id) \in Int
           /\ a <= id => Offset(a, id) >= 0
  <1>1. IsFiniteSet(lo..hi)
    BY FS_Interval DEF ListInv
  <1>2. {x \in tall : a <= x /\ x < id} \in SUBSET (lo..hi)
    BY DEF ListInv
  <1>3. IsFiniteSet({x \in tall : a <= x /\ x < id})
    BY <1>1, <1>2, FS_Subset
  <1> DEFINE n == Cardinality({x \in tall : a <= x /\ x < id})
  <1>4. n \in Nat
    BY <1>3, FS_CardinalityType
  <1>5. Offset(a, id) = (id - a) + n
    BY DEF Offset
  <1> HIDE DEF n
  <1>6. Offset(a, id) \in Int /\ (a <= id => Offset(a, id) >= 0)
    BY <1>4, <1>5
  <1>7. QED BY <1>3, <1>4, <1>6 DEF n

(* Rows in front of the list are one unit each, and so is one behind it. *)
LEMMA OffsetShift ==
    ASSUME ListInv, NEW a \in Int, a <= lo, NEW id \in Int
    PROVE  Offset(a, id) = Offset(lo, id) + (lo - a)
  <1>0. lo \in Int /\ hi \in Int /\ \A x \in tall : x \in Int /\ lo <= x
    BY DEF ListInv
  <1>1. {x \in tall : a <= x /\ x < id} = {x \in tall : lo <= x /\ x < id}
    <2>1. \A x \in tall : a <= x /\ lo <= x
      BY <1>0
    <2>2. QED BY <2>1
  <1> DEFINE n == Cardinality({x \in tall : lo <= x /\ x < id})
  <1>2. n \in Nat /\ lo \in Int
    BY TallRows DEF ListInv
  <1>3. Offset(a, id) = (id - a) + n /\ Offset(lo, id) = (id - lo) + n
    BY <1>1 DEF Offset
  <1> HIDE DEF n
  <1>4. QED BY <1>2, <1>3

LEMMA HeightBelow ==
    ASSUME ListInv
    PROVE  ScrollHeight(lo, hi + 1) = Height + 1
  <1>0. /\ lo \in Int /\ hi \in Int /\ hi + 1 \in Int
        /\ \A x \in tall : x \in Int /\ lo <= x /\ x <= hi
    BY DEF ListInv
  <1>1. {x \in tall : lo <= x /\ x < hi + 1 + 1} = {x \in tall : lo <= x /\ x < hi + 1}
    <2>1. \A x \in tall : x < hi + 1 /\ x < hi + 1 + 1
      BY <1>0
    <2>2. QED BY <2>1
  <1> DEFINE n == Cardinality({x \in tall : lo <= x /\ x < hi + 1})
  <1>2. n \in Nat
    BY <1>0, TallRows
  <1>3. Height = ((hi + 1) - lo) + n
    BY Zenon DEF ScrollHeight, Height, Offset
  <1>3a. ScrollHeight(lo, hi + 1) = ((hi + 1 + 1) - lo) + n
    BY <1>1, Zenon DEF ScrollHeight, Offset
  <1> HIDE DEF n
  <1>4. QED BY <1>0, <1>2, <1>3, <1>3a

LEMMA HeightType ==
    ASSUME ListInv
    PROVE  Height \in Int /\ Height >= 0
  <1>1. lo \in Int /\ hi + 1 \in Int /\ lo <= hi + 1
    BY DEF ListInv
  <1>2. QED BY <1>1, TallRows DEF Height, ScrollHeight

(* An empty list has no height. *)
LEMMA EmptyHeight ==
    ASSUME ListInv, hi < lo
    PROVE  Height = 0 /\ tall = {} /\ hi = lo - 1
  <1>1. lo \in Int /\ hi \in Int /\ hi = lo - 1 /\ tall = {}
    BY DEF ListInv
  <1>2. {x \in tall : lo <= x /\ x < hi + 1} = {}
    BY <1>1
  <1>3. Cardinality({}) = 0
    BY FS_EmptySet
  <1>4. QED BY <1>1, <1>2, <1>3 DEF Height, ScrollHeight, Offset

(* What the layout effect leaves, on a list that has not shrunk. *)
LEMMA LayoutKeeps ==
    ASSUME ListInv, NEW a \in Int, NEW b \in Int, NEW still, NEW h \in Int, h = ScrollHeight(a, b),
           Height <= h, Count(lo, hi) <= Count(a, b), LayoutEffect(a, b, still)
    PROVE  /\ prevCount' = Count(a, b) /\ anchor' \in {anchor, -1}
           /\ top' \in Int /\ 0 <= top' /\ top' <= Bottom(h)
           /\ top' # top => h > ViewHeight
           /\ scrollDue' => scrollDue \/ top' # top
  <1>1. Height \in Int /\ Height >= 0 /\ ViewHeight \in Nat
    BY HeightType, ScreenAssumption
  <1>2. /\ Bottom(h) \in Int /\ 0 <= Bottom(h) /\ Bottom(Height) <= Bottom(h)
        /\ h <= ViewHeight => Bottom(h) = 0
    BY <1>1 DEF Bottom
  <1>3. top \in Int /\ 0 <= top /\ top <= Bottom(h) /\ anchor \in Int /\ anchor <= h
    BY <1>1, <1>2 DEF ListInv, Bottom
  <1>4. /\ anchor' \in {anchor, -1}
        /\ top' = top \/ top' = Bottom(h) \/ top' = Clamp(top + h - anchor, h)
        /\ scrollDue' => scrollDue \/ top' # top
    BY DEF LayoutEffect, Reassert
  <1>5. prevCount' = Count(a, b)
    <2>1. Count(a, b) \in Int /\ Count(lo, hi) \in Int /\ prevCount = Count(lo, hi)
      BY DEF ListInv, Count
    <2>2. ~(Count(a, b) > prevCount) => prevCount = Count(a, b)
      BY <2>1
    <2>3. QED BY <2>2 DEF LayoutEffect
  <1>6. Clamp(top + h - anchor, h) \in Int /\ 0 <= Clamp(top + h - anchor, h)
        /\ Clamp(top + h - anchor, h) <= Bottom(h)
    BY <1>2, <1>3 DEF Clamp
  <1>7. top' \in Int /\ 0 <= top' /\ top' <= Bottom(h)
    BY <1>2, <1>3, <1>4, <1>6
  <1>8. top' # top => h > ViewHeight
    BY <1>1, <1>2, <1>3, <1>7
  <1>9. QED BY <1>4, <1>5, <1>7, <1>8

(* What ViewStays says of one step. *)
StaysPut ==
    <<lo, hi, tall>>' # <<lo, hi, tall>> =>
        IF pinned THEN anchor' = -1 => top' = Bottom(ScrollHeight(lo, hi))'
        ELSE tall' = tall /\ ~raced' =>
                \A id \in Visible : Offset(lo', id) - top' = Offset(lo, id) - top

(* A taller list: whoever is pinned is at its bottom once no anchor is held, *)
(* and without anchor or pin the view is left alone.                         *)
LEMMA LayoutFollows ==
    ASSUME NEW a, NEW b, NEW still, LayoutEffect(a, b, still), ScrollHeight(a, b) # Height
    PROVE  /\ pinned /\ anchor' = -1 => top' = Bottom(ScrollHeight(a, b))
           /\ ~pinned /\ anchor = -1 /\ prevCount # 0 => top' = top
           /\ ~pinned /\ anchor # -1 /\ Count(a, b) > prevCount =>
                 top' = Clamp(top + ScrollHeight(a, b) - anchor, ScrollHeight(a, b))
  BY DEF LayoutEffect, Reassert, Height

LEMMA FirstPageStep ==
    ASSUME ListInv, FirstPage
    PROVE  ListInv' /\ StaysPut
  <1> DEFINE a == Newest - PageRows + 1
             b == Newest
             h == ScrollHeight(a, b)
  <1>1. PageRows \in Nat /\ PageRows > 0 /\ MaxPages \in Nat /\ ViewHeight \in Nat
    BY ScreenAssumption
  <1>2. a \in Int /\ b \in Int /\ b - a + 1 = PageRows /\ a <= b
    <2>1. Newest \in Int
      BY <1>1 DEF Newest
    <2>2. QED BY <1>1, <2>1
  <1>3. hi < lo /\ lo \in Int /\ hi \in Int /\ hi = lo - 1 /\ tall = {}
    BY DEF FirstPage, ListInv
  <1>4. h \in Int /\ h >= 0
    <2>1. b + 1 \in Int /\ a <= b + 1
      BY <1>2
    <2> HIDE DEF a, b
    <2>2. QED BY <1>2, <2>1, TallRows DEF ScrollHeight
  <1>4a. h > 0
    <2>1. b + 1 \in Int /\ a <= b + 1
      BY <1>2
    <2> DEFINE n == Cardinality({x \in tall : a <= x /\ x < b + 1})
    <2> HIDE DEF a, b
    <2>2. n \in Nat
      BY <1>2, <2>1, TallRows
    <2>3. h = ((b + 1) - a) + n
      BY Zenon DEF ScrollHeight, Offset
    <2> HIDE DEF n, h
    <2>4. QED BY <1>2, <2>2, <2>3
  <1>5. Height = 0
    BY EmptyHeight DEF FirstPage
  <1>6. Count(lo, hi) = 0 /\ Count(a, b) = PageRows /\ Count(lo, hi) <= Count(a, b)
    BY <1>1, <1>2, <1>3 DEF Count
  <1>7. lo' = a /\ hi' = b /\ LayoutEffect(a, b, FALSE) /\ UNCHANGED <<tall, fetching, raced>>
    BY DEF FirstPage
  <1>8. Height' = h
    BY <1>7 DEF Height, ScrollHeight, Offset
  <1>9. ~fetching /\ ~scrollDue
    BY <1>1, <1>5 DEF ListInv
  <1>10. anchor <= 0
    BY <1>5 DEF ListInv
  <1> HIDE DEF a, b, h
  <1>11. /\ prevCount' = Count(a, b) /\ anchor' \in {anchor, -1}
         /\ top' \in Int /\ 0 <= top' /\ top' <= Bottom(h)
         /\ top' # top => h > ViewHeight
         /\ scrollDue' => scrollDue \/ top' # top
    BY <1>2, <1>4, <1>5, <1>6, <1>7, LayoutKeeps DEF h
  <1>12. ListInv'
    <2>1. anchor' \in Int /\ anchor' <= h
      BY <1>4, <1>10, <1>11 DEF ListInv
    <2>2. /\ lo' \in Int /\ hi' \in Int /\ lo' <= hi' + 1 /\ tall' \subseteq lo'..hi'
      BY <1>2, <1>3, <1>7
    <2>3. prevCount' = Count(lo', hi') /\ top' <= Bottom(Height')
      BY <1>7, <1>8, <1>11
    <2>4. scrollDue' => Height' > ViewHeight
      BY <1>8, <1>9, <1>11
    <2>5. QED BY <1>7, <1>8, <1>9, <1>11, <2>1, <2>2, <2>3, <2>4 DEF ListInv, Height, Count, Bottom
  <1>13. StaysPut
    <2>1. Visible = {}
      BY <1>3 DEF Visible
    <2>2. pinned /\ anchor' = -1 => top' = Bottom(h)
      <3>1. h # Height
        BY <1>4, <1>4a, <1>5
      <3>2. QED BY <1>7, <3>1, LayoutFollows DEF h
    <2>3. ScrollHeight(lo, hi)' = h
      BY <1>8 DEF Height
    <2>4. QED BY <2>1, <2>2, <2>3 DEF StaysPut, Bottom
  <1>14. QED BY <1>12, <1>13


LEMMA NewMessageStep ==
    ASSUME ListInv, NewMessage
    PROVE  ListInv' /\ StaysPut
  <1> DEFINE h == ScrollHeight(lo, hi + 1)
  <1>1. /\ lo \in Int /\ hi \in Int /\ hi + 1 \in Int /\ lo <= hi /\ anchor \in Int
        /\ ViewHeight \in Nat /\ Height \in Int /\ Height >= 0
    BY HeightType, ScreenAssumption DEF NewMessage, ListInv
  <1>2. h = Height + 1 /\ h \in Int
    BY <1>1, HeightBelow
  <1>3. Count(lo, hi) <= Count(lo, hi + 1) /\ Count(lo, hi + 1) > prevCount /\ prevCount # 0
    BY <1>1 DEF Count, ListInv
  <1>4. /\ lo' = lo /\ hi' = hi + 1 /\ LayoutEffect(lo, hi + 1, fetching)
        /\ UNCHANGED <<tall, fetching>> /\ raced' = (raced \/ anchor # -1)
    BY DEF NewMessage
  <1>5. Height' = h /\ \A id : Offset(lo', id) = Offset(lo, id)
    BY <1>4 DEF Height, ScrollHeight, Offset
  <1> HIDE DEF h
  <1>6. /\ prevCount' = Count(lo, hi + 1) /\ anchor' \in {anchor, -1}
        /\ top' \in Int /\ 0 <= top' /\ top' <= Bottom(h)
        /\ top' # top => h > ViewHeight
        /\ scrollDue' => scrollDue \/ top' # top
    <2>1. Height <= h
      BY <1>1, <1>2
    <2>2. QED BY <1>1, <1>2, <1>3, <1>4, <2>1, LayoutKeeps DEF h
  <1>7. ListInv'
    <2>1. anchor' \in Int /\ anchor' <= h
      BY <1>1, <1>2, <1>6 DEF ListInv
    <2>2. lo' \in Int /\ hi' \in Int /\ lo' <= hi' + 1 /\ lo' <= hi' /\ tall' \subseteq lo'..hi'
      BY <1>1, <1>4 DEF ListInv
    <2>3. prevCount' = Count(lo', hi') /\ top' <= Bottom(Height')
      BY <1>4, <1>5, <1>6
    <2>4. scrollDue' \/ fetching' => Height' > ViewHeight
      BY <1>1, <1>2, <1>4, <1>5, <1>6 DEF ListInv
    <2>5. fetching' /\ ~raced' => FALSE
      <3>1. fetching /\ ~raced => anchor # -1
        BY <1>1 DEF ListInv
      <3>2. QED BY <1>4, <3>1, Zenon
    <2>6. fetching' => hasNextPage'
      BY <1>4 DEF ListInv, hasNextPage
    <2>7. QED BY <1>5, <1>6, <2>1, <2>2, <2>3, <2>4, <2>5, <2>6 DEF ListInv, Height, Count, Bottom
  <1>8. StaysPut
    <2>1. h # Height
      BY <1>1, <1>2
    <2>2. /\ pinned /\ anchor' = -1 => top' = Bottom(h)
          /\ ~pinned /\ anchor = -1 => top' = top
      BY <1>3, <1>4, <2>1, LayoutFollows DEF h
    <2>3. ScrollHeight(lo, hi)' = h
      BY <1>5 DEF Height
    <2>4. ~raced' => anchor = -1
      BY <1>4
    <2>5. QED BY <1>5, <2>2, <2>3, <2>4 DEF StaysPut, Bottom
  <1>9. QED BY <1>7, <1>8

(* A layout effect on the list as it is moves nothing. *)
LEMMA LayoutStill ==
    ASSUME ListInv, NEW still, LayoutEffect(lo, hi, still)
    PROVE  /\ prevCount' = prevCount /\ top' = top
           /\ anchor' = IF still THEN anchor ELSE -1
           /\ scrollDue' = (scrollDue \/ top' # top)
  <1>1. prevCount = Count(lo, hi) /\ Count(lo, hi) \in Int
    BY DEF ListInv, Count
  <1>2. ~(Count(lo, hi) > prevCount)
    BY <1>1
  <1>3. QED BY <1>1, <1>2 DEF LayoutEffect, Reassert

LEMMA StillStep ==
    ASSUME ListInv, MessagesChange \/ OlderPageFails
    PROVE  ListInv' /\ StaysPut
  <1>1. PICK still : LayoutEffect(lo, hi, still) /\ (fetching' => still)
    BY DEF MessagesChange, OlderPageFails
  <1>2. UNCHANGED <<lo, hi, tall, raced>> /\ (fetching' => fetching)
    <2>1. UNCHANGED <<lo, hi, tall, raced>>
      BY DEF MessagesChange, OlderPageFails
    <2>2. CASE MessagesChange
      BY <2>1, <2>2 DEF MessagesChange
    <2>3. CASE OlderPageFails
      BY <2>1, <2>3 DEF OlderPageFails
    <2>4. QED BY <2>2, <2>3
  <1>3. /\ prevCount' = prevCount /\ top' = top
        /\ anchor' = IF still THEN anchor ELSE -1
        /\ (scrollDue' => scrollDue)
    <2>1. /\ prevCount' = prevCount /\ top' = top
          /\ anchor' = IF still THEN anchor ELSE -1
          /\ scrollDue' = (scrollDue \/ top' # top)
      BY <1>1, LayoutStill
    <2>2. QED BY <2>1, Zenon
  <1>4. Height' = Height
    BY <1>2 DEF Height, ScrollHeight, Offset
  <1>5. Height \in Int /\ Height >= 0
    BY HeightType
  <1>6. ListInv'
    <2>1. anchor' \in Int /\ anchor' <= Height'
      BY <1>3, <1>4, <1>5 DEF ListInv
    <2>2. fetching' /\ ~raced' => anchor' = Height'
      BY <1>1, <1>2, <1>3, <1>4 DEF ListInv
    <2>3. /\ lo' \in Int /\ hi' \in Int /\ lo' <= hi' + 1 /\ top' \in Int
          /\ tall' \subseteq lo'..hi' /\ prevCount' = Count(lo', hi')
          /\ 0 <= top' /\ top' <= Bottom(Height')
      BY <1>2, <1>3, <1>4 DEF ListInv
    <2>4. /\ scrollDue' \/ fetching' => Height' > ViewHeight
          /\ fetching' => hasNextPage' /\ lo' <= hi'
      BY <1>2, <1>3, <1>4 DEF ListInv, hasNextPage
    <2>5. QED BY <2>1, <2>2, <2>3, <2>4 DEF ListInv, Height, Count, Bottom
  <1>7. StaysPut
    BY <1>2 DEF StaysPut
  <1>8. QED BY <1>6, <1>7

LEMMA OlderPageStep ==
    ASSUME ListInv, OlderPage
    PROVE  ListInv' /\ StaysPut
  <1> DEFINE a == lo - PageRows
             h == ScrollHeight(a, hi)
  <1>1. /\ lo \in Int /\ hi \in Int /\ hi + 1 \in Int /\ lo <= hi /\ anchor \in Int
        /\ ViewHeight \in Nat /\ Height \in Int /\ Height > ViewHeight /\ anchor <= Height
        /\ PageRows \in Nat /\ PageRows > 0 /\ top \in Int /\ 0 <= top /\ top <= Bottom(Height)
    BY HeightType, ScreenAssumption DEF OlderPage, ListInv
  <1>2. a \in Int /\ a <= lo /\ lo - a = PageRows /\ a <= hi
    BY <1>1
  <1>3. /\ lo' = a /\ hi' = hi /\ LayoutEffect(a, hi, FALSE)
        /\ UNCHANGED <<tall, raced>> /\ fetching /\ ~fetching'
    BY DEF OlderPage
  <1>4. Height' = h
    BY <1>3 DEF Height, ScrollHeight, Offset
  <1>5. \A id \in Int : Offset(lo', id) = Offset(a, id)
    BY <1>3 DEF Offset
  <1> HIDE DEF a
  <1>6. \A id \in Int : Offset(a, id) = Offset(lo, id) + PageRows
    BY <1>1, <1>2, OffsetShift
  <1>7. h = Height + PageRows
    BY <1>1, <1>6 DEF ScrollHeight, Height
  <1>8. /\ Count(lo, hi) <= Count(a, hi) /\ Count(a, hi) > prevCount
    BY <1>1, <1>2 DEF Count, ListInv
  <1> HIDE DEF h
  <1>9. h \in Int /\ Height <= h /\ h > ViewHeight
    BY <1>1, <1>7
  <1>10. /\ prevCount' = Count(a, hi) /\ anchor' \in {anchor, -1}
         /\ top' \in Int /\ 0 <= top' /\ top' <= Bottom(h)
    BY <1>1, <1>2, <1>3, <1>8, <1>9, LayoutKeeps DEF h
  <1>11. ListInv'
    <2>1. anchor' \in Int /\ anchor' <= h
      BY <1>1, <1>9, <1>10
    <2>2. lo' \in Int /\ hi' \in Int /\ lo' <= hi' + 1 /\ tall' \subseteq lo'..hi'
      BY <1>1, <1>2, <1>3 DEF ListInv
    <2>3. prevCount' = Count(lo', hi') /\ top' <= Bottom(Height')
      BY <1>3, <1>4, <1>10
    <2>4. QED BY <1>3, <1>4, <1>9, <1>10, <2>1, <2>2, <2>3 DEF ListInv, Height, Count, Bottom
  <1>12. StaysPut
    <2>0. h # Height
      BY <1>1, <1>7
    <2>1. CASE pinned
      <3>1. anchor' = -1 => top' = Bottom(h)
        BY <1>3, <2>0, <2>1, LayoutFollows DEF h
      <3>2. ScrollHeight(lo, hi)' = h
        BY <1>4 DEF Height
      <3>3. QED BY <2>1, <3>1, <3>2 DEF StaysPut, Bottom
    <2>2. CASE ~pinned /\ ~raced'
      <3>1. anchor = Height /\ anchor # -1
        BY <1>1, <1>3, <2>2 DEF ListInv
      <3>2. top' = Clamp(top + h - anchor, h)
        BY <1>3, <1>8, <2>0, <2>2, <3>1, LayoutFollows DEF h
      <3>3. top + h - anchor = top + PageRows
        BY <1>1, <1>7, <3>1
      <3>4. Bottom(Height) = Height - ViewHeight /\ Bottom(h) = h - ViewHeight
        BY <1>1, <1>9 DEF Bottom
      <3>5. top' = top + PageRows
        BY <1>1, <1>7, <3>2, <3>3, <3>4 DEF Clamp
      <3>6. ASSUME NEW id \in lo..hi
            PROVE  Offset(lo', id) - top' = Offset(lo, id) - top
        <4>1. id \in Int
          BY <1>1
        <4>2. Offset(lo, id) \in Int
          BY <1>1, <4>1, TallRows
        <4>3. Offset(lo', id) = Offset(lo, id) + PageRows
          BY <1>5, <1>6, <4>1
        <4>4. QED BY <1>1, <3>5, <4>2, <4>3
      <3>7. QED BY <2>2, <3>6 DEF StaysPut, Visible
    <2>3. CASE ~pinned /\ raced'
      BY <2>3 DEF StaysPut
    <2>4. QED BY <2>1, <2>2, <2>3
  <1>13. QED BY <1>11, <1>12

LEMMA MeasuredStep ==
    ASSUME ListInv, NEW row \in lo..hi, Measured(row)
    PROVE  ListInv' /\ StaysPut
  <1>1. /\ lo \in Int /\ hi \in Int /\ hi + 1 \in Int /\ row \in Int /\ lo <= row /\ row < hi + 1
        /\ ViewHeight \in Nat /\ Height \in Int /\ Height >= 0 /\ anchor \in Int
        /\ top \in Int /\ 0 <= top /\ top <= Bottom(Height) /\ anchor <= Height
    BY HeightType, ScreenAssumption DEF ListInv
  <1>2. /\ row \notin tall /\ tall' = tall \cup {row} /\ UNCHANGED <<lo, hi, anchor, prevCount, fetching>>
        /\ top' = IF pinned /\ anchor = -1 THEN Bottom(Height + 1) ELSE top
        /\ scrollDue' = (scrollDue \/ top' # top) /\ raced' = (raced \/ anchor # -1)
    <2>1. Height + 1 # Height
      BY <1>1
    <2>2. QED BY <2>1 DEF Measured, Reassert, Height
  <1> DEFINE T == {x \in tall : lo <= x /\ x < hi + 1}
             U == {x \in tall' : lo' <= x /\ x < hi' + 1}
  <1>3. Height' = Height + 1
    <2>1. IsFiniteSet(T) /\ Cardinality(T) \in Nat
      BY <1>1, TallRows
    <2>2. U = T \cup {row} /\ row \notin T
      BY <1>1, <1>2
    <2>3. Height = ((hi + 1) - lo) + Cardinality(T) /\ Height' = ((hi' + 1) - lo') + Cardinality(U)
      BY Zenon DEF Height, ScrollHeight, Offset
    <2> HIDE DEF T, U
    <2>4. Cardinality(U) = Cardinality(T) + 1
      BY <2>1, <2>2, FS_AddElement
    <2>5. QED BY <1>1, <1>2, <2>1, <2>3, <2>4
  <1>4. /\ Bottom(Height) \in Int /\ Bottom(Height + 1) \in Int /\ 0 <= Bottom(Height + 1)
        /\ Bottom(Height) <= Bottom(Height + 1)
        /\ Height + 1 <= ViewHeight => Bottom(Height + 1) = 0
    BY <1>1 DEF Bottom
  <1>5. top' \in Int /\ 0 <= top' /\ top' <= Bottom(Height')
    BY <1>1, <1>2, <1>3, <1>4
  <1>6. scrollDue' \/ fetching' => Height' > ViewHeight
    <2>1. CASE scrollDue \/ fetching
      BY <1>1, <1>3, <2>1 DEF ListInv
    <2>2. CASE ~(scrollDue \/ fetching)
      <3>1. scrollDue' \/ fetching' => top' # top
        BY <1>2, <2>2
      <3>2. top' # top => Height' > ViewHeight
        BY <1>1, <1>3, <1>4, <1>5
      <3>3. QED BY <3>1, <3>2
    <2>3. QED BY <2>1, <2>2
  <1>7. ListInv'
    <2>1. lo' \in Int /\ hi' \in Int /\ lo' <= hi' + 1 /\ tall' \subseteq lo'..hi'
      BY <1>1, <1>2 DEF ListInv
    <2>2. anchor' \in Int /\ anchor' <= Height' /\ prevCount' = Count(lo', hi')
      BY <1>1, <1>2, <1>3 DEF ListInv
    <2>3. fetching' => hasNextPage' /\ lo' <= hi'
      BY <1>2 DEF ListInv, hasNextPage
    <2>4. ~(fetching' /\ ~raced')
      <3>1. fetching /\ ~raced => anchor # -1
        BY <1>1 DEF ListInv
      <3>2. QED BY <1>2, <3>1, Zenon
    <2>5. QED BY <1>5, <1>6, <2>1, <2>2, <2>3, <2>4 DEF ListInv, Height, Count, Bottom
  <1>8. StaysPut
    <2>1. tall' # tall
      BY <1>2
    <2>2. pinned /\ anchor = -1 => top' = Bottom(ScrollHeight(lo, hi))'
      BY <1>2, <1>3 DEF Height, Bottom
    <2>3. anchor' = anchor
      BY <1>2
    <2>4. QED BY <2>1, <2>2, <2>3 DEF StaysPut
  <1>9. QED BY <1>7, <1>8

LEMMA ScrollStep ==
    ASSUME ListInv, handleScroll \/ \E x \in 0..Bottom(Height) : UserScrolls(x)
    PROVE  ListInv' /\ StaysPut
  <1>1. /\ Height \in Int /\ Height >= 0 /\ ViewHeight \in Nat
        /\ lo \in Int /\ hi \in Int /\ top \in Int /\ 0 <= top /\ top <= Bottom(Height)
    BY HeightType, ScreenAssumption DEF ListInv
  <1>2. UNCHANGED <<lo, hi, tall, prevCount>>
    BY DEF handleScroll, UserScrolls
  <1>3. Height' = Height
    BY <1>2 DEF Height, ScrollHeight, Offset
  <1>4. Bottom(Height) \in Int /\ (Bottom(Height) > 0 => Height > ViewHeight)
    BY <1>1 DEF Bottom
  <1>5. top' \in Int /\ 0 <= top' /\ top' <= Bottom(Height')
    <2>1. CASE handleScroll
      BY <1>1, <1>3, <2>1 DEF handleScroll
    <2>2. ASSUME NEW x \in 0..Bottom(Height), UserScrolls(x)
          PROVE  top' \in Int /\ 0 <= top' /\ top' <= Bottom(Height')
      BY <1>3, <1>4, <2>2 DEF UserScrolls
    <2>3. QED BY <2>1, <2>2
  <1>6. /\ scrollDue' \/ fetching' => Height' > ViewHeight
        /\ fetching' => hasNextPage' /\ lo' <= hi'
        /\ fetching' /\ ~raced' => anchor' = Height'
        /\ anchor' \in Int /\ anchor' <= Height'
    <2>1. CASE handleScroll
      <3>1. Height > ViewHeight /\ lo <= hi
        BY <1>1, <2>1, EmptyHeight DEF ListInv, handleScroll
      <3>2. CASE ~fetching /\ hasNextPage /\ top < LOAD_OLDER_THRESHOLD
        <4>1. anchor' = Height /\ hasNextPage'
          BY <1>2, <2>1, <3>2 DEF handleScroll, Height, hasNextPage
        <4>2. QED BY <1>1, <1>2, <1>3, <3>1, <4>1
      <3>3. CASE ~(~fetching /\ hasNextPage /\ top < LOAD_OLDER_THRESHOLD)
        <4>1. UNCHANGED <<anchor, fetching, raced>>
          BY <2>1, <3>3 DEF handleScroll
        <4>2. QED BY <1>1, <1>2, <1>3, <3>1, <4>1 DEF ListInv, hasNextPage
      <3>4. QED BY <3>2, <3>3
    <2>2. CASE \E x \in 0..Bottom(Height) : UserScrolls(x)
      <3>0. PICK x \in 0..Bottom(Height) : UserScrolls(x)
        BY <2>2
      <3>1. UNCHANGED <<anchor, fetching, raced>> /\ x # top
        BY <3>0 DEF UserScrolls
      <3>2. Height > ViewHeight
        BY <1>1, <1>4, <3>0, <3>1
      <3>3. QED BY <1>2, <1>3, <3>1, <3>2 DEF ListInv, hasNextPage
    <2>3. QED BY <2>1, <2>2
  <1>7. ListInv'
    <2>1. /\ lo' \in Int /\ hi' \in Int /\ lo' <= hi' + 1 /\ tall' \subseteq lo'..hi'
          /\ prevCount' = Count(lo', hi')
      BY <1>2 DEF ListInv
    <2>2. QED BY <1>5, <1>6, <2>1 DEF ListInv, Height, Count, Bottom
  <1>8. StaysPut
    BY <1>2 DEF StaysPut
  <1>9. QED BY <1>7, <1>8

LEMMA ListStart == ScreenInit => ListInv
  <1> SUFFICES ASSUME ScreenInit PROVE ListInv
    OBVIOUS
  <1>1. lo = 1 /\ hi = 0 /\ tall = {} /\ top = 0 /\ anchor = -1 /\ prevCount = 0 /\ ~fetching /\ ~scrollDue
    BY DEF ScreenInit
  <1>2. {x \in tall : lo <= x /\ x < hi + 1} = {} /\ Cardinality({}) = 0
    BY <1>1, FS_EmptySet
  <1>3. Height = 0
    BY <1>1, <1>2 DEF Height, ScrollHeight, Offset
  <1>4. ViewHeight \in Nat
    BY ScreenAssumption
  <1>5. QED BY <1>1, <1>3, <1>4 DEF ListInv, Bottom, Count

(* A step of the list keeps the invariant, and the view where it is. *)
LEMMA ListStep ==
    ASSUME ListInv, [ScreenNext]_screenVars
    PROVE  ListInv' /\ [StaysPut]_screenVars
  <1>1. CASE FirstPage
    BY <1>1, FirstPageStep
  <1>2. CASE NewMessage
    BY <1>2, NewMessageStep
  <1>3. CASE MessagesChange \/ OlderPageFails
    BY <1>3, StillStep
  <1>4. CASE OlderPage
    BY <1>4, OlderPageStep
  <1>5. CASE handleScroll
    BY <1>5, ScrollStep
  <1>6. ASSUME NEW id \in lo..hi, Measured(id) PROVE ListInv' /\ StaysPut
    BY <1>6, MeasuredStep
  <1>7. CASE \E x \in 0..Bottom(ScrollHeight(lo, hi)) : UserScrolls(x)
    BY <1>7, ScrollStep DEF Height
  <1>8. CASE UNCHANGED screenVars
    <2>1. UNCHANGED <<lo, hi, tall, top, anchor, prevCount, fetching, scrollDue, raced>>
      BY <1>8 DEF screenVars
    <2>2. QED BY <1>8, <2>1 DEF ListInv, Height, ScrollHeight, Offset, Bottom, Count, hasNextPage
  <1>9. QED BY <1>1, <1>2, <1>3, <1>4, <1>5, <1>6, <1>7, <1>8 DEF ScreenNext

(* The inductive invariant of the list (MessageList.tsx) always holds. *)
THEOREM ListInvariant == ScreenSpec => []ListInv
  <1>1. ListInv /\ [ScreenNext]_screenVars => ListInv'
    BY ListStep
  <1>2. QED BY <1>1, ListStart, PTL DEF ScreenSpec

(* The position is always inside the list, and a page is only awaited while *)
(* the server has one.                                                      *)
THEOREM ScreenTypes == ScreenSpec => []ScreenTypeOK
  <1>1. ListInv => ScreenTypeOK
    <2> SUFFICES ASSUME ListInv PROVE ScreenTypeOK
      OBVIOUS
    <2>1. Height \in Int /\ ViewHeight \in Nat
      BY HeightType, ScreenAssumption
    <2>2. Bottom(Height) \in Int /\ Count(lo, hi) \in Int /\ 0 <= Count(lo, hi)
      BY <2>1 DEF Bottom, Count, ListInv
    <2>3. QED BY <2>2 DEF ListInv, ScreenTypeOK, Height
  <1>2. QED BY <1>1, ListInvariant, PTL

(* The layout effects and handleScroll of MessageList.tsx keep the view      *)
(* where the reader is, for every page size, view height and thresholds: at  *)
(* the bottom while pinned to it, whatever arrives, else on the same         *)
(* messages, unless the list has grown while an older page was awaited.      *)
THEOREM ViewHolds == ScreenSpec => ViewStays
  <1>1. ListInv /\ [ScreenNext]_screenVars => [StaysPut]_screenVars
    BY ListStep
  <1>2. QED BY <1>1, ListInvariant, PTL DEF ScreenSpec, ViewStays, StaysPut
=============================================================================
