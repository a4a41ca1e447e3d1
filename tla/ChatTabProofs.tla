---------------------------- MODULE ChatTabProofs ----------------------------
(* Proofs about ChatTab, for any rooms, any number of tokens and any number *)
(* of operations.                                                           *)
(*                                                                          *)
(* OneSocket is not inductive: connect() replaces wsRef without looking at  *)
(* it.  It may, because a timer is armed and an attempt waits only when     *)
(* there is no socket (SocketInv), which rests on the banner's button being *)
(* hidden until the close event has come (a socket that is open or closing  *)
(* still shows as open).  StrandedOnlyOffline needs that a refused refresh  *)
(* has ended the session (SessionInv), and that a token is never handed out     *)
(* twice, so that the effect is due after every new one.                    *)
EXTENDS ChatTab, FiniteSetTheorems, TLAPS

Attempts == {"no", "awaiting", "granted", "denied", "unreachable"}

SocketInv ==
    /\ leaked = 0 /\ ws \in {"none", "connecting", "open", "closing"}
    /\ connecting # "no" => ws = "none" /\ ~timer
    /\ timer => ws = "none"
    /\ ws \in {"open", "closing"} => status = "open"

SessionInv ==
    /\ issued \in Nat /\ token \in 0..issued /\ ranFor \in 0..issued
    /\ connecting \in Attempts
    /\ connecting = "denied" => token = 0

(* StrandedOnlyOffline on every page: a provider that is about to unmount   *)
(* may be shown again before it does.                                       *)
Supplied ==
    mounted /\ token # 0 /\ ranFor = token =>
        ws # "none" \/ timer \/ connecting # "no" \/ stranded

-----------------------------------------------------------------------------
(* What connect does when it may be called: wsRef at null. *)
LEMMA ConnectOnce ==
    ASSUME SocketInv, SessionInv, connect("none")
    PROVE  /\ leaked' = 0
           /\ ws' \in {"none", "connecting"}
           /\ connecting' \in Attempts
           /\ connecting' # "no" => ws' = "none"
           /\ ws' # "none" \/ connecting' # "no"
           /\ connecting' = "denied" => token = 0
  BY DEF SocketInv, SessionInv, connect, NewSocket, Attempts

Core == SocketInv /\ SessionInv /\ Supplied

(* The variables Core reads. *)
coreVars == <<leaked, connecting, ws, timer, status, issued, token, ranFor, mounted, stranded>>

LEMMA CoreUnchanged ==
    ASSUME Core, UNCHANGED coreVars
    PROVE  Core'
  BY DEF Core, coreVars, SocketInv, SessionInv, Supplied

(* Navigation, the rooms and the server do not touch the connection. *)
LEMMA QuietSteps ==
    ASSUME \/ Hydrate \/ Unauthorized \/ Logout \/ Redirect \/ BackToChat
           \/ \E to \in {"chat", "admin"} \cup Rooms : Navigate(to)
           \/ RoomsRead \/ RoomsAnswered \/ HandleRoomFrame \/ RouteEvent \/ LeaveAnswered
           \/ \E r \in Rooms : \/ MembershipEnds(r) \/ MembershipBegins(r) \/ PeerWrites(r)
                               \/ AnnounceLeft(r) \/ handleLeave(r) \/ JoinOrCreate(r)
           \/ Reconcile \/ \E k \in DOMAIN strays : StrayResumes(k) \/ StrayOpens(k) \/ StrayRoutes(k) \/ StrayBreaks(k)
    PROVE  UNCHANGED coreVars
  BY DEF coreVars, session, socket, Hydrate, Unauthorized, Logout, Redirect, BackToChat, Navigate,
         RoomsRead, RoomsAnswered, HandleRoomFrame, RouteEvent, LeaveAnswered, MembershipEnds,
         MembershipBegins, PeerWrites, AnnounceLeft, handleLeave, JoinOrCreate, Reconcile,
         StrayResumes, StrayOpens, StrayRoutes, StrayBreaks

(* Every step preserves Core. *)
LEMMA CoreStep ==
    ASSUME Core, TabNext
    PROVE  Core'
  <1> USE DEF Core
  <1>1. CASE UNCHANGED coreVars
    BY <1>1, CoreUnchanged
  <1>2. CASE Login
    BY <1>2 DEF Login, setAuth, Settled, Answers, socket, SocketInv, SessionInv, Supplied, Attempts
  <1>3. CASE Expire
    BY <1>3 DEF Expire, Settled, socket, SocketInv, SessionInv, Supplied
  <1>4. ASSUME NEW outcome \in Answers, doRefresh(outcome)
        PROVE  Core'
    <2>1. connecting' \in Attempts /\ (connecting' # "no" <=> connecting # "no")
      <3>1. connecting \in Attempts /\ connecting' = IF connecting = "awaiting" THEN outcome ELSE connecting
        BY <1>4 DEF doRefresh, Settle, SessionInv
      <3>2. QED BY <1>4, <3>1 DEF Answers, Attempts
    <2>2. SocketInv'
      BY <1>4, <2>1 DEF doRefresh, SocketInv
    <2>3. SessionInv'
      BY <1>4, <2>1 DEF doRefresh, Settle, Settled, Answers, setAuth, clearAuth, SessionInv
    <2>4. Supplied'
      BY <1>4, <2>1 DEF doRefresh, setAuth, clearAuth, SessionInv, Supplied
    <2>5. QED BY <2>2, <2>3, <2>4
  <1>5. CASE LoggedOut
    BY <1>5 DEF LoggedOut, clearAuth, socket, SocketInv, SessionInv, Supplied
  <1>6. CASE ConnectionEffect
    <2>1. connect("none") /\ ~timer' /\ ranFor' = token
      BY <1>6 DEF ConnectionEffect
    <2>2. QED
      BY <1>6, <2>1, ConnectOnce DEF ConnectionEffect, SocketInv, SessionInv, Supplied
  <1>7. CASE Unmount
    BY <1>7 DEF Unmount, session, SocketInv, SessionInv, Supplied, Attempts
  <1>8. CASE ConnectResumes
    BY <1>8 DEF ConnectResumes, NewSocket, session, SocketInv, SessionInv, Supplied, Attempts
  <1>9. CASE OnOpen
    BY <1>9 DEF OnOpen, session, SocketInv, SessionInv, Supplied
  <1>10. CASE OnError
    BY <1>10 DEF OnError, Closed, session, SocketInv, SessionInv, Supplied
  <1>11. CASE SocketBreaks
    BY <1>11 DEF SocketBreaks, session, SocketInv, SessionInv, Supplied
  <1>12. CASE OnClose
    BY <1>12 DEF OnClose, Closed, session, SocketInv, SessionInv, Supplied
  <1>13. CASE scheduleReconnect
    <2>1. connect("none") /\ ~timer'
      BY <1>13 DEF scheduleReconnect, SocketInv
    <2>2. QED
      BY <1>13, <2>1, ConnectOnce DEF scheduleReconnect, SocketInv, SessionInv, Supplied
  <1>14. CASE reconnectNow
    <2>1. ws = "none"
      BY <1>14 DEF reconnectNow, SocketInv
    <2>2. QED
      BY <1>14, <2>1, ConnectOnce DEF reconnectNow, SocketInv, SessionInv, Supplied
  <1>15. QED
    BY <1>1, <1>2, <1>3, <1>4, <1>5, <1>6, <1>7, <1>8, <1>9, <1>10, <1>11, <1>12, <1>13, <1>14, QuietSteps
       DEF TabNext, Effects, Continuations, Tasks

(* Reconciled is inductive: whatever changes the list or the status makes   *)
(* the effect due, and a user.left takes out of joined what it records in   *)
(* dropped.                                                                 *)
LEMMA ReconciledStep ==
    ASSUME Reconciled, TabNext
    PROVE  Reconciled'
  <1>1. CASE UNCHANGED <<status, list, due, joined, dropped>>
    BY <1>1 DEF Reconciled
  <1>2. CASE due'
    BY <1>2 DEF Reconciled
  <1>3. CASE /\ ~due' /\ due' = (due \/ list' # list)
             /\ UNCHANGED <<status, joined, dropped>>
    BY <1>3 DEF Reconciled
  <1>4. CASE LoggedOut
    BY <1>4 DEF LoggedOut, Reconciled
  <1>5. CASE ~due' /\ ConnectionEffect
    BY <1>5 DEF ConnectionEffect, Reconciled
  <1>6. CASE Unmount
    BY <1>6 DEF Unmount, Reconciled
  <1>7. CASE ~due' /\ (ConnectResumes \/ scheduleReconnect \/ reconnectNow)
    BY <1>7 DEF ConnectResumes, scheduleReconnect, reconnectNow, Reconciled
  <1>8. CASE OnError \/ OnClose
    BY <1>8 DEF OnError, OnClose, Closed, Reconciled
  <1>9. CASE Reconcile
    BY <1>9 DEF Reconcile, Reconciled, socket
  <1>10. CASE ~due' /\ RouteEvent
    <2> DEFINE r == Head(down).room
    <2>1. CASE /\ leaveRoom(r) /\ ClearBadges({r} \cap {page})
               /\ dropped' = dropped \cup (IF list # Nobody /\ r \in DOMAIN list THEN {r} ELSE {})
      <3>1. list' = list /\ ~due /\ status' = status
        BY <1>10, <2>1 DEF ClearBadges, RouteEvent, socket
      <3>2. joined' = joined \ {r}
        BY <2>1 DEF leaveRoom
      <3>3. QED BY <2>1, <3>1, <3>2 DEF Reconciled
    <2>2. CASE UNCHANGED <<joined, dropped, list, due>>
      BY <1>10, <2>2, <1>1 DEF RouteEvent, socket
    <2>3. QED BY <1>10, <2>1, <2>2 DEF RouteEvent, BumpBadge
  <1>11. CASE \/ Redirect \/ LeaveAnswered \/ RoomsAnswered
              \/ \E to \in {"chat", "admin"} \cup Rooms : Navigate(to)
              \/ \E r \in Rooms : JoinOrCreate(r)
    <2>1. UNCHANGED <<status, joined, dropped>>
      BY <1>11 DEF Redirect, LeaveAnswered, RoomsAnswered, Navigate, JoinOrCreate, socket
    <2>2. due' = (due \/ list' # list) \/ UNCHANGED <<list, due>>
      BY <1>11 DEF Redirect, LeaveAnswered, RoomsAnswered, Navigate, JoinOrCreate, MarkRead, ClearBadges
    <2>3. QED BY <2>1, <2>2, <1>1, <1>2, <1>3
  <1>12. CASE OnOpen
    BY <1>12, <1>2 DEF OnOpen
  <1>13. ASSUME NEW k \in DOMAIN strays, StrayRoutes(k) PROVE Reconciled'
    <2>1. UNCHANGED <<status, joined, dropped>>
      BY <1>13 DEF StrayRoutes, socket
    <2>2. due' \/ UNCHANGED <<list, due>>
      BY <1>13 DEF StrayRoutes, BumpBadge
    <2>3. QED BY <2>1, <2>2, <1>1, <1>2
  <1>14. CASE \/ Hydrate \/ Login \/ Expire \/ Unauthorized \/ Logout \/ BackToChat
              \/ \E outcome \in Answers : doRefresh(outcome)
              \/ SocketBreaks \/ RoomsRead \/ HandleRoomFrame
              \/ \E k \in DOMAIN strays : StrayResumes(k) \/ StrayOpens(k) \/ StrayBreaks(k)
              \/ \E r \in Rooms : \/ MembershipEnds(r) \/ MembershipBegins(r) \/ PeerWrites(r)
                                  \/ AnnounceLeft(r) \/ handleLeave(r)
    <2>1. UNCHANGED <<status, list, due, joined, dropped>>
      BY <1>14 DEF Hydrate, Login, Expire, Unauthorized, Logout, BackToChat, doRefresh, SocketBreaks,
                   RoomsRead, HandleRoomFrame, StrayResumes, StrayOpens, StrayBreaks, MembershipEnds, MembershipBegins, PeerWrites,
                   AnnounceLeft, handleLeave, rooms, socket
    <2>2. QED BY <2>1, <1>1
  <1>15. QED
    BY <1>2, <1>4, <1>5, <1>6, <1>7, <1>8, <1>9, <1>10, <1>11, <1>12, <1>13, <1>14
       DEF TabNext, Effects, Continuations, Tasks

-----------------------------------------------------------------------------
(* The inductive invariant of the provider: a timer is armed and a refresh   *)
(* waited for only without a socket, a refused refresh has ended the        *)
(* session, and the effect is due after every new token.                    *)
THEOREM ConnectionInvariant == TabSpec => []Core
  <1>1. TabInit => Core
    BY DEF TabInit, Core, SocketInv, SessionInv, Supplied, Attempts
  <1>2. Core /\ [TabNext]_tabVars => Core'
    <2>1. Core /\ UNCHANGED tabVars => Core'
      BY CoreUnchanged DEF tabVars, session, socket, coreVars
    <2>2. QED BY <2>1, CoreStep
  <1>3. QED BY <1>1, <1>2, PTL DEF TabSpec

(* A mounted provider never replaces a socket of its own that is still       *)
(* alive: connect() is called by the effect, the timer and the banner, and   *)
(* goes on after its refresh, in whatever order.                             *)
THEOREM SingleSocket == TabSpec => []OneSocket
  <1>1. Core => OneSocket
    BY DEF Core, SocketInv, OneSocket
  <1>2. QED BY <1>1, ConnectionInvariant, PTL

(* A provider with a session and nothing to connect it - no socket, attempt  *)
(* or timer - has got there by a refresh that found no network, and by that  *)
(* alone: connect() returns without scheduling anything then.                *)
THEOREM AlwaysSupplied == TabSpec => []StrandedOnlyOffline
  <1>1. Core => StrandedOnlyOffline
    BY DEF Core, Supplied, StrandedOnlyOffline
  <1>2. QED BY <1>1, ConnectionInvariant, PTL

(* Once its effect has run on an open socket, the tab is in exactly the      *)
(* rooms of its list, but for those its own user.left took it out of.       *)
THEOREM RoomsFollowTheList == TabSpec => []Reconciled
  <1>1. TabInit => Reconciled
    BY DEF TabInit, Reconciled
  <1>2. Reconciled /\ [TabNext]_tabVars => Reconciled'
    <2>1. Reconciled /\ UNCHANGED tabVars => Reconciled'
      BY DEF Reconciled, tabVars, rooms, socket
    <2>2. QED BY <2>1, ReconciledStep
  <1>3. QED BY <1>1, <1>2, PTL DEF TabSpec

-----------------------------------------------------------------------------
(***************************************************************************)
(* SubscriptionsFollow: the joins and leaves in flight turn the rooms of   *)
(* the connection at the hub into the rooms the tab has joined.  Lemmas    *)
(* about sequences of frames first.                                        *)
(***************************************************************************)
Frames == [type : {"room.join", "room.leave"}, room : Rooms]

(* A finite set in some order: every element once. *)
LEMMA SetToSeqFacts ==
    ASSUME NEW S, IsFiniteSet(S), NEW s, s = SetToSeq(S)
    PROVE  /\ s \in Seq(S) /\ Len(s) \in Nat /\ DOMAIN s = 1..Len(s)
           /\ \A i \in 1..Len(s) : s[i] \in S
           /\ \A i, j \in 1..Len(s) : s[i] = s[j] => i = j
           /\ \A x \in S : \E i \in 1..Len(s) : s[i] = x
  <1> DEFINE n == Cardinality(S)
  <1>1. n \in Nat /\ ExistsBijection(1..n, S)
    BY FS_CardinalityType
  <1>2. PICK f : f \in Bijection(1..n, S)
    BY <1>1 DEF ExistsBijection
  <1>3. f \in [1..n -> S] /\ IsInjective(f)
    BY <1>2 DEF Bijection, Injection, IsInjective
  <1>4. s \in [1..n -> S] /\ IsInjective(s)
    BY <1>3 DEF SetToSeq
  <1>5. s \in Seq(S) /\ Len(s) = n /\ DOMAIN s = 1..n
    BY <1>1, <1>4
  <1>6. s \in Injection(1..n, S)
    BY <1>4 DEF Injection
  <1>7. IsFiniteSet(1..n) /\ Cardinality(1..n) = n
    BY <1>1, FS_Interval
  <1>8. s \in Surjection(1..n, S)
    BY <1>6, <1>7, FS_Injection
  <1>9. \A x \in S : \E i \in 1..n : s[i] = x
    BY <1>8 DEF Surjection
  <1>10. QED BY <1>1, <1>4, <1>5, <1>9 DEF IsInjective

(* The frames that name the rooms rs are finitely many. *)
LEMMA FramesFinite ==
    ASSUME NEW rs \in SUBSET Rooms, NEW ty
    PROVE  IsFiniteSet({[type |-> ty, room |-> r] : r \in rs})
  <1> DEFINE T == {[type |-> ty, room |-> r] : r \in rs}
             n == Cardinality(rs)
  <1>1. IsFiniteSet(rs)
    BY TabAssumption, FS_Subset
  <1>2. n \in Nat /\ ExistsBijection(1..n, rs)
    BY <1>1, FS_CardinalityType
  <1>3. PICK f : f \in Bijection(1..n, rs)
    BY <1>2 DEF ExistsBijection
  <1>4. f \in [1..n -> rs] /\ \A x \in rs : \E i \in 1..n : f[i] = x
    BY <1>3 DEF Bijection, Surjection
  <1> DEFINE g == [i \in 1..n |-> [type |-> ty, room |-> f[i]]]
  <1>5. g \in [1..n -> T]
    BY <1>4
  <1>6. \A t \in T : \E i \in 1..n : g[i] = t
    BY <1>4
  <1>7. g \in Surjection(1..n, T)
    <2> HIDE DEF g, T
    <2>1. QED BY <1>5, <1>6 DEF Surjection
  <1>8. QED BY <1>2, <1>7, FS_NatSurjection DEF ExistsSurjection

LEMMA HeadingConcat ==
    ASSUME NEW s \in Seq(Frames), NEW t \in Seq(Frames), NEW rs
    PROVE  Heading(s \o t, rs) = Heading(t, Heading(s, rs))
  <1>1. /\ s \o t \in Seq(Frames) /\ Len(s \o t) = Len(s) + Len(t)
        /\ Len(s) \in Nat /\ Len(t) \in Nat
        /\ \A i \in 1..Len(s) : (s \o t)[i] = s[i]
        /\ \A i \in 1..Len(t) : (s \o t)[Len(s) + i] = t[i]
        /\ \A k \in 1..Len(s \o t) : k \in 1..Len(s) \/ \E i \in 1..Len(t) : k = Len(s) + i
    <2>1. Len(s) \in Nat /\ Len(t) \in Nat /\ s \o t \in Seq(Frames) /\ Len(s \o t) = Len(s) + Len(t)
      OBVIOUS
    <2>2. /\ \A i \in 1..Len(s) : (s \o t)[i] = s[i]
          /\ \A i \in 1..Len(t) : (s \o t)[Len(s) + i] = t[i]
      OBVIOUS
    <2>3. ASSUME NEW k \in 1..Len(s \o t), k \notin 1..Len(s)
          PROVE  \E i \in 1..Len(t) : k = Len(s) + i
      <3>1. k - Len(s) \in 1..Len(t) /\ k = Len(s) + (k - Len(s))
        BY <2>1, <2>3
      <3>2. QED BY <3>1
    <2>4. QED BY <2>1, <2>2, <2>3
  <1> DEFINE u == s \o t
  <1> HIDE DEF u
  <1>2. /\ u \in Seq(Frames) /\ Len(u) = Len(s) + Len(t)
        /\ Len(s) \in Nat /\ Len(t) \in Nat
        /\ \A i \in 1..Len(s) : u[i] = s[i]
        /\ \A i \in 1..Len(t) : u[Len(s) + i] = t[i]
        /\ \A k \in 1..Len(u) : k \in 1..Len(s) \/ \E i \in 1..Len(t) : k = Len(s) + i
    BY <1>1 DEF u
  <1>3. DOMAIN u = 1..Len(u) /\ DOMAIN s = 1..Len(s) /\ DOMAIN t = 1..Len(t)
    BY <1>2
  <1>4. SUFFICES ASSUME NEW r \in Rooms
                 PROVE  r \in Heading(u, rs) <=> r \in Heading(t, Heading(s, rs))
    BY DEF Heading, u
  <1>5. CASE \A k \in 1..Len(t) : t[k].room # r
    <2>1. r \in Heading(t, Heading(s, rs)) <=> r \in Heading(s, rs)
      BY <1>3, <1>5 DEF Heading
    <2>2. (\A k \in 1..Len(u) : u[k].room # r) <=> (\A k \in 1..Len(s) : s[k].room # r)
      <3>1. \A k \in 1..Len(s) : k \in 1..Len(u) /\ u[k].room = s[k].room
        BY <1>2
      <3>2. ASSUME \A k \in 1..Len(s) : s[k].room # r, NEW k \in 1..Len(u)
            PROVE  u[k].room # r
        <4>1. CASE k \in 1..Len(s)
          BY <3>1, <3>2, <4>1
        <4>2. ASSUME NEW i \in 1..Len(t), k = Len(s) + i PROVE u[k].room # r
          BY <1>2, <1>5, <4>2
        <4>3. QED BY <1>2, <4>1, <4>2
      <3>3. QED BY <3>1, <3>2
    <2>3. ASSUME r \in Heading(s, rs) PROVE r \in Heading(u, rs)
      <3>1. CASE r \in rs /\ \A k \in 1..Len(s) : s[k].room # r
        BY <1>3, <2>2, <3>1 DEF Heading
      <3>2. ASSUME NEW k \in 1..Len(s), s[k] = [type |-> "room.join", room |-> r],
                   \A j \in 1..Len(s) : j > k => s[j].room # r
            PROVE  r \in Heading(u, rs)
        <4>1. k \in 1..Len(u) /\ u[k] = [type |-> "room.join", room |-> r]
          BY <1>2, <3>2
        <4>2. \A j \in 1..Len(u) : j > k => u[j].room # r
          BY <1>2, <1>5, <3>2
        <4>3. QED BY <1>3, <4>1, <4>2 DEF Heading
      <3>3. QED BY <1>3, <2>3, <3>1, <3>2 DEF Heading
    <2>4. ASSUME r \in Heading(u, rs) PROVE r \in Heading(s, rs)
      <3>1. CASE r \in rs /\ \A k \in 1..Len(u) : u[k].room # r
        BY <1>3, <2>2, <3>1 DEF Heading
      <3>2. ASSUME NEW k \in 1..Len(u), u[k] = [type |-> "room.join", room |-> r],
                   \A j \in 1..Len(u) : j > k => u[j].room # r
            PROVE  r \in Heading(s, rs)
        <4>1. k \in 1..Len(s) /\ s[k] = [type |-> "room.join", room |-> r]
          <5>1. u[k].room = r
            BY <3>2
          <5>2. ASSUME NEW i \in 1..Len(t), k = Len(s) + i PROVE FALSE
            BY <1>2, <1>5, <5>1, <5>2
          <5>3. k \in 1..Len(s)
            BY <1>2, <5>2
          <5>4. QED BY <1>2, <3>2, <5>3
        <4>2. \A j \in 1..Len(s) : j > k => s[j].room # r
          BY <1>2, <3>2
        <4>3. QED BY <1>3, <4>1, <4>2 DEF Heading
      <3>3. QED BY <1>3, <2>4, <3>1, <3>2 DEF Heading
    <2>5. QED BY <2>1, <2>3, <2>4
  <1>6. CASE \E k \in 1..Len(t) : t[k].room = r
    <2>1. PICK m \in 1..Len(t) : t[m].room = r
      BY <1>6
    <2>2. Len(s) + m \in 1..Len(u) /\ u[Len(s) + m].room = r
      BY <1>2, <2>1
    <2>3. ASSUME r \in Heading(u, rs) PROVE r \in Heading(t, Heading(s, rs))
      <3>1. PICK k \in 1..Len(u) : /\ u[k] = [type |-> "room.join", room |-> r]
                                   /\ \A j \in 1..Len(u) : j > k => u[j].room # r
        BY <1>3, <2>2, <2>3 DEF Heading
      <3>2. ~(Len(s) + m > k)
        BY <2>2, <3>1
      <3>3. PICK i \in 1..Len(t) : k = Len(s) + i
        BY <1>2, <2>1, <3>1, <3>2
      <3>4. t[i] = [type |-> "room.join", room |-> r]
        BY <1>2, <3>1, <3>3
      <3>5. ASSUME NEW j \in 1..Len(t), j > i PROVE t[j].room # r
        <4>1. Len(s) + j \in 1..Len(u) /\ Len(s) + j > k
          BY <1>2, <3>3, <3>5
        <4>2. QED BY <1>2, <3>1, <4>1
      <3>6. QED BY <1>3, <3>4, <3>5 DEF Heading
    <2>4. ASSUME r \in Heading(t, Heading(s, rs)) PROVE r \in Heading(u, rs)
      <3>1. PICK i \in 1..Len(t) : /\ t[i] = [type |-> "room.join", room |-> r]
                                   /\ \A j \in 1..Len(t) : j > i => t[j].room # r
        BY <1>3, <2>1, <2>4 DEF Heading
      <3>2. Len(s) + i \in 1..Len(u) /\ u[Len(s) + i] = [type |-> "room.join", room |-> r]
        BY <1>2, <3>1
      <3>3. \A j \in 1..Len(u) : j > Len(s) + i => u[j].room # r
        <4>1. SUFFICES ASSUME NEW j \in 1..Len(u), j > Len(s) + i PROVE u[j].room # r
          OBVIOUS
        <4>2. j \notin 1..Len(s)
          BY <1>2, <4>1
        <4>3. PICK l \in 1..Len(t) : j = Len(s) + l
          BY <1>2, <4>2
        <4>4. l > i
          BY <1>2, <4>1, <4>3
        <4>5. QED BY <1>2, <3>1, <4>3, <4>4
      <3>4. QED BY <1>3, <3>2, <3>3 DEF Heading
    <2>5. QED BY <2>3, <2>4
  <1>7. QED BY <1>5, <1>6

(* One frame, the frames onOpen and the reconcile effect send, and none. *)
LEMMA HeadingOne ==
    ASSUME NEW f \in Frames, NEW rs \in SUBSET Rooms
    PROVE  /\ f.type = "room.join" => Heading(<<f>>, rs) = rs \cup {f.room}
           /\ f.type = "room.leave" => Heading(<<f>>, rs) = rs \ {f.room}
  <1> DEFINE g == <<f>>
  <1>1. DOMAIN g = {1} /\ g[1] = f
    OBVIOUS
  <1> HIDE DEF g
  <1>2. /\ f.type \in {"room.join", "room.leave"} /\ f.room \in Rooms
        /\ \A r \in Rooms : f = [type |-> "room.join", room |-> r] <=> f.type = "room.join" /\ f.room = r
    BY DEF Frames
  <1>3. \A r \in Rooms :
          r \in Heading(g, rs) <=> (r \in rs /\ f.room # r) \/ (f.type = "room.join" /\ f.room = r)
    <2>1. SUFFICES ASSUME NEW r \in Rooms
                   PROVE  r \in Heading(g, rs) <=> (r \in rs /\ f.room # r) \/ (f.type = "room.join" /\ f.room = r)
      OBVIOUS
    <2>2. (\A k \in DOMAIN g : g[k].room # r) <=> f.room # r
      BY <1>1
    <2>3. (\E k \in DOMAIN g : /\ g[k] = [type |-> "room.join", room |-> r]
                               /\ \A j \in DOMAIN g : j > k => g[j].room # r)
            <=> f = [type |-> "room.join", room |-> r]
      BY <1>1
    <2>4. r \in Heading(g, rs) <=>
             \/ r \in rs /\ \A k \in DOMAIN g : g[k].room # r
             \/ \E k \in DOMAIN g : /\ g[k] = [type |-> "room.join", room |-> r]
                                    /\ \A j \in DOMAIN g : j > k => g[j].room # r
      BY Zenon DEF Heading
    <2>5. f = [type |-> "room.join", room |-> r] <=> f.type = "room.join" /\ f.room = r
      BY <1>2
    <2>6. QED BY <2>2, <2>3, <2>4, <2>5, Zenon
  <1>4. Heading(g, rs) \subseteq Rooms
    BY DEF Heading
  <1>5. ASSUME NEW h, h \subseteq Rooms, NEW x \in Rooms,
               \A r \in Rooms : r \in h <=> (r \in rs /\ x # r) \/ (f.type = "room.join" /\ x = r)
        PROVE  (f.type = "room.join" => h = rs \cup {x}) /\ (f.type = "room.leave" => h = rs \ {x})
    BY <1>5
  <1>6. QED BY <1>2, <1>3, <1>4, <1>5, Zenon DEF g

LEMMA HeadingNone ==
    ASSUME NEW rs \in SUBSET Rooms
    PROVE  Heading(<<>>, rs) = rs
  BY DEF Heading

LEMMA HeadingMonotone ==
    ASSUME NEW s \in Seq(Frames), NEW A, NEW B, A \subseteq B
    PROVE  Heading(s, A) \subseteq Heading(s, B) /\ Heading(s, A) \subseteq Rooms
  BY DEF Heading

LEMMA JoinsTake ==
    ASSUME NEW new \in SUBSET Rooms, NEW rs \in SUBSET Rooms
    PROVE  Joins(new) \in Seq(Frames) /\ Heading(Joins(new), rs) = rs \cup new
  <1> DEFINE S == {[type |-> "room.join", room |-> r] : r \in new}
             s == SetToSeq(S)
  <1>1. /\ s \in Seq(S) /\ Len(s) \in Nat /\ DOMAIN s = 1..Len(s)
        /\ \A i \in 1..Len(s) : s[i] \in S
        /\ \A i, j \in 1..Len(s) : s[i] = s[j] => i = j
        /\ \A x \in S : \E i \in 1..Len(s) : s[i] = x
    <2>1. IsFiniteSet(S)
      BY FramesFinite
    <2> HIDE DEF S
    <2>2. QED BY <2>1, SetToSeqFacts
  <1>2. Joins(new) = s
    BY DEF Joins
  <1>3. S \subseteq Frames /\ \A x \in S : x = [type |-> "room.join", room |-> x.room] /\ x.room \in new
    BY DEF Frames
  <1>4. \A r \in new : [type |-> "room.join", room |-> r] \in S
    OBVIOUS
  <1> HIDE DEF S, s
  <1>5. s \in Seq(Frames)
    BY <1>1, <1>3
  <1>6. \A r \in Rooms : r \notin new => (r \in Heading(s, rs) <=> r \in rs)
    BY <1>1, <1>3 DEF Heading
  <1>7. ASSUME NEW r \in new PROVE r \in Heading(s, rs)
    <2>1. PICK k \in 1..Len(s) : s[k] = [type |-> "room.join", room |-> r]
      BY <1>1, <1>4
    <2>2. \A j \in 1..Len(s) : s[j].room = r => s[j] = s[k]
      BY <1>1, <1>3, <2>1
    <2>3. \A j \in 1..Len(s) : j > k => s[j].room # r
      BY <1>1, <2>2
    <2>4. QED BY <1>1, <2>1, <2>3 DEF Heading
  <1>8. Heading(s, rs) \subseteq Rooms
    BY DEF Heading
  <1>9. QED BY <1>2, <1>5, <1>6, <1>7, <1>8

LEMMA LeavesTake ==
    ASSUME NEW old \in SUBSET Rooms, NEW rs \in SUBSET Rooms
    PROVE  Leaves(old) \in Seq(Frames) /\ Heading(Leaves(old), rs) = rs \ old
  <1> DEFINE S == {[type |-> "room.leave", room |-> r] : r \in old}
             s == SetToSeq(S)
  <1>1. /\ s \in Seq(S) /\ Len(s) \in Nat /\ DOMAIN s = 1..Len(s)
        /\ \A i \in 1..Len(s) : s[i] \in S
        /\ \A x \in S : \E i \in 1..Len(s) : s[i] = x
    <2>1. IsFiniteSet(S)
      BY FramesFinite
    <2> HIDE DEF S
    <2>2. QED BY <2>1, SetToSeqFacts
  <1>2. Leaves(old) = s
    BY DEF Leaves
  <1>3. S \subseteq Frames /\ \A x \in S : x.type = "room.leave" /\ x.room \in old
    BY DEF Frames
  <1>4. \A r \in old : [type |-> "room.leave", room |-> r] \in S
    OBVIOUS
  <1> HIDE DEF S, s
  <1>5. s \in Seq(Frames)
    BY <1>1, <1>3
  <1>6. \A r : \A k \in 1..Len(s) : s[k] # [type |-> "room.join", room |-> r]
    BY <1>1, <1>3
  <1>7. \A r \in Rooms : r \in Heading(s, rs) <=> r \in rs /\ \A k \in 1..Len(s) : s[k].room # r
    BY <1>1, <1>6 DEF Heading
  <1>8. \A r \in old : \E k \in 1..Len(s) : s[k].room = r
    <2>1. SUFFICES ASSUME NEW r \in old PROVE \E k \in 1..Len(s) : s[k].room = r
      OBVIOUS
    <2>2. PICK k \in 1..Len(s) : s[k] = [type |-> "room.leave", room |-> r]
      BY <1>1, <1>4
    <2>3. QED BY <2>2
  <1>9. \A k \in 1..Len(s) : s[k].room \in old
    BY <1>1, <1>3
  <1>10. Heading(s, rs) \subseteq Rooms
    BY DEF Heading
  <1>11. QED BY <1>2, <1>5, <1>7, <1>8, <1>9, <1>10

-----------------------------------------------------------------------------
(* The list of rooms, or an answer to its query, names rooms. *)
ListsRooms(l) == l # Nobody => DOMAIN l \subseteq Rooms

RoomsTyped ==
    /\ joined \subseteq Rooms /\ subs \subseteq Rooms /\ refused \subseteq Rooms /\ member \subseteq Rooms
    /\ ListsRooms(list) /\ ListsRooms(answer)
    /\ up \in Seq(Frames) /\ down \in Seq(Events)

(* Without an open socket nothing is in flight and the hub has no connection. *)
NoLink == ws # "open" => up = <<>> /\ subs = {} /\ refused = {}

LinkInv == RoomsTyped /\ NoLink /\ SubscriptionsFollow

linkVars == <<ws, joined, subs, refused, up>>

(* Where the socket is not touched, the lists and the events keep their types. *)
LEMMA LinkKept ==
    ASSUME LinkInv, UNCHANGED linkVars, member' \subseteq Rooms,
           ListsRooms(list'), ListsRooms(answer'), down' \in Seq(Events)
    PROVE  LinkInv'
  BY DEF LinkInv, linkVars, RoomsTyped, NoLink, SubscriptionsFollow, Heading, ListsRooms

(* A socket that is not open after the step has nothing in flight. *)
LEMMA LinkDown ==
    ASSUME LinkInv, ws' # "open", joined' \in {joined, {}},
           \/ up' = <<>> /\ subs' = {} /\ refused' = {} /\ down' = <<>>
           \/ ws # "open" /\ UNCHANGED <<up, subs, refused, down>>,
           UNCHANGED <<member, list, answer>>
    PROVE  LinkInv'
  <1>1. up' = <<>> /\ subs' = {} /\ refused' = {} /\ down' \in Seq(Events)
    <2>1. <<>> \in Seq(Events)
      OBVIOUS
    <2>2. up' = <<>> /\ subs' = {} /\ refused' = {} /\ (down' = <<>> \/ down' = down)
      BY DEF LinkInv, NoLink
    <2>3. QED BY <2>1, <2>2 DEF LinkInv, RoomsTyped
  <1>2. QED BY <1>1 DEF LinkInv, RoomsTyped, NoLink, SubscriptionsFollow, ListsRooms

(* Events published to the tab's rooms, and changes of its memberships. *)
LEMMA LinkEvents ==
    ASSUME LinkInv, NEW r \in Rooms,
           \/ MembershipEnds(r) \/ MembershipBegins(r) \/ PeerWrites(r)
           \/ AnnounceLeft(r) \/ handleLeave(r)
    PROVE  LinkInv'
  <1>1. UNCHANGED linkVars /\ UNCHANGED <<list, answer>> /\ member' \subseteq Rooms
    BY DEF MembershipEnds, MembershipBegins, PeerWrites, AnnounceLeft, handleLeave, linkVars,
           socket, rooms, LinkInv, RoomsTyped
  <1>2. \A ty \in {"user.left", "room.invited", "message.new"}, e \in BOOLEAN :
          [type |-> ty, room |-> r, ended |-> e] \in Events
    BY DEF Events
  <1>3. \A ty \in {"user.left", "room.invited", "message.new"}, e \in BOOLEAN :
          Append(down, [type |-> ty, room |-> r, ended |-> e]) \in Seq(Events)
    BY <1>2 DEF LinkInv, RoomsTyped
  <1>4. down' \in Seq(Events)
    <2>1. CASE down' = down
      BY <2>1 DEF LinkInv, RoomsTyped
    <2>2. CASE down' = Append(down, [type |-> "user.left", room |-> r, ended |-> TRUE])
      BY <1>3, <2>2
    <2>3. CASE down' = Append(down, [type |-> "room.invited", room |-> r, ended |-> FALSE])
      BY <1>3, <2>3
    <2>4. CASE down' = Append(down, [type |-> "message.new", room |-> r, ended |-> FALSE])
      BY <1>3, <2>4
    <2>5. CASE down' = Append(down, [type |-> "user.left", room |-> r, ended |-> r \notin member])
      BY <1>3, <2>5
    <2>6. QED BY <2>1, <2>2, <2>3, <2>4, <2>5
                 DEF MembershipEnds, MembershipBegins, PeerWrites, AnnounceLeft, handleLeave, ToRoom, ToUser, Tell
  <1>5. ListsRooms(list') /\ ListsRooms(answer')
    BY <1>1 DEF LinkInv, RoomsTyped
  <1>6. QED BY <1>1, <1>4, <1>5, LinkKept

(* Pages, the session and the query of the list. *)
LEMMA BadgesList ==
    ASSUME NEW rs, ListsRooms(list), ClearBadges(rs)
    PROVE  ListsRooms(list')
  BY DEF ListsRooms, ClearBadges

LEMMA BumpList ==
    ASSUME NEW r, ListsRooms(list), BumpBadge(r)
    PROVE  ListsRooms(list')
  BY DEF ListsRooms, BumpBadge

LEMMA LinkLists ==
    ASSUME LinkInv,
           \/ Hydrate \/ Login \/ Expire \/ Unauthorized \/ Logout \/ BackToChat
           \/ \E k \in DOMAIN strays : StrayResumes(k) \/ StrayOpens(k) \/ StrayRoutes(k) \/ StrayBreaks(k)
           \/ \E outcome \in Answers : doRefresh(outcome)
           \/ \E to \in {"chat", "admin"} \cup Rooms : Navigate(to)
           \/ LoggedOut \/ Redirect \/ RoomsRead \/ RoomsAnswered \/ LeaveAnswered
           \/ \E r \in Rooms : JoinOrCreate(r)
    PROVE  LinkInv'
  <1>1. UNCHANGED linkVars /\ down' = down
    BY DEF linkVars, socket, rooms, hub, Hydrate, Login, Expire, Unauthorized, Logout, BackToChat,
           StrayResumes, StrayOpens, StrayRoutes, StrayBreaks, doRefresh, Navigate, LoggedOut, Redirect, RoomsRead, RoomsAnswered,
           LeaveAnswered, JoinOrCreate
  <1>2. member' \subseteq Rooms
    BY DEF hub, Hydrate, Login, Expire, Unauthorized, Logout, BackToChat,
           StrayResumes, StrayOpens, StrayRoutes, StrayBreaks, doRefresh, Navigate, LoggedOut, Redirect, RoomsRead, RoomsAnswered,
           LeaveAnswered, JoinOrCreate, LinkInv, RoomsTyped
  <1>3. ListsRooms(answer')
    <2>1. CASE answer' = [r \in member |-> unread[r]]
      BY <2>1 DEF ListsRooms, LinkInv, RoomsTyped
    <2>2. CASE answer' = answer \/ answer' = Nobody
      BY <2>2 DEF ListsRooms, LinkInv, RoomsTyped
    <2>3. QED
      BY <2>1, <2>2
         DEF rooms, Hydrate, Login, Expire, Unauthorized, Logout, BackToChat,
             StrayResumes, StrayOpens, StrayRoutes, StrayBreaks, doRefresh, Navigate, LoggedOut, Redirect, RoomsRead, RoomsAnswered,
             LeaveAnswered, JoinOrCreate
  <1>4. ListsRooms(list')
    <2>1. CASE list' = list \/ list' = answer \/ list' = Nobody
      BY <2>1 DEF ListsRooms, LinkInv, RoomsTyped
    <2>2. CASE \E rs : ClearBadges(rs)
      BY <2>2, BadgesList DEF LinkInv, RoomsTyped
    <2>3. CASE \E r : BumpBadge(r)
      BY <2>3, BumpList DEF LinkInv, RoomsTyped
    <2>4. QED
      BY <2>1, <2>2, <2>3
         DEF rooms, Hydrate, Login, Expire, Unauthorized, Logout, BackToChat,
             StrayResumes, StrayOpens, StrayRoutes, StrayBreaks, doRefresh, Navigate, LoggedOut, Redirect, RoomsRead, RoomsAnswered,
             LeaveAnswered, JoinOrCreate, MarkRead
  <1>5. QED BY <1>1, <1>2, <1>3, <1>4, LinkKept DEF LinkInv, RoomsTyped

(* The socket comes and goes: what was in flight is lost with it. *)
LEMMA LinkSocket ==
    ASSUME LinkInv, Core,
           \/ ConnectionEffect \/ Unmount \/ SocketBreaks \/ ConnectResumes
           \/ scheduleReconnect \/ reconnectNow \/ OnError \/ OnClose
    PROVE  LinkInv'
  <1>1. CASE ConnectionEffect
    <2>1. ws' # "open"
      BY <1>1, ConnectOnce DEF ConnectionEffect, Core
    <2>2. QED BY <1>1, <2>1, LinkDown DEF ConnectionEffect, HangUp
  <1>2. CASE Unmount \/ SocketBreaks
    BY <1>2, LinkDown DEF Unmount, SocketBreaks, HangUp, rooms
  <1>3. CASE ConnectResumes
    <2>1. ws # "open" /\ ws' # "open"
      BY <1>3 DEF ConnectResumes, NewSocket, Core, SocketInv
    <2>2. QED BY <1>3, <2>1, LinkDown DEF ConnectResumes, hub
  <1>4. CASE scheduleReconnect \/ reconnectNow
    <2>1. ws = "none" /\ connect("none")
      BY <1>4 DEF scheduleReconnect, reconnectNow, Core, SocketInv
    <2>2. ws' # "open"
      BY <2>1, ConnectOnce DEF Core
    <2>3. QED BY <1>4, <2>1, <2>2, LinkDown DEF scheduleReconnect, reconnectNow, hub
  <1>5. CASE OnError \/ OnClose
    BY <1>5, LinkDown DEF OnError, OnClose, Closed, hub
  <1>6. QED BY <1>1, <1>2, <1>3, <1>4, <1>5

(* onopen joins again what was joined: the hub knows nothing of the socket. *)
LEMMA LinkOpens ==
    ASSUME LinkInv, OnOpen
    PROVE  LinkInv'
  <1>1. /\ subs = {} /\ refused = {} /\ ws' = "open" /\ up' = Joins(joined)
        /\ UNCHANGED <<joined, subs, refused, member, list, answer, down>>
    BY DEF OnOpen, LinkInv, NoLink, hub
  <1>2. joined \in SUBSET Rooms
    BY DEF LinkInv, RoomsTyped
  <1>3. up' \in Seq(Frames) /\ Heading(up', {}) = joined
    BY <1>1, <1>2, JoinsTake
  <1>4. RoomsTyped'
    BY <1>1, <1>3 DEF LinkInv, RoomsTyped, ListsRooms
  <1>5. SubscriptionsFollow'
    BY <1>1, <1>3 DEF SubscriptionsFollow, Heading
  <1>6. QED BY <1>1, <1>4, <1>5 DEF LinkInv, NoLink

(* Reconcile sends the difference between what was joined and the list. *)
LEMMA LinkReconciled ==
    ASSUME LinkInv, Core, Reconcile
    PROVE  LinkInv'
  <1> DEFINE D == DOMAIN list
             n == D \ joined
             o == joined \ D
  <1>1. UNCHANGED <<ws, subs, refused, member, list, answer, down>>
    BY DEF Reconcile, hub, socket
  <1>2. CASE UNCHANGED <<joined, up>>
    BY <1>1, <1>2, LinkKept DEF linkVars, LinkInv, RoomsTyped
  <1>3. CASE /\ list # Nobody /\ joined' = D
             /\ up' = IF ws = "open" THEN up \o (Joins(n) \o Leaves(o)) ELSE up
    <2>1. n \in SUBSET Rooms /\ o \in SUBSET Rooms /\ D \subseteq Rooms
      BY <1>3 DEF LinkInv, RoomsTyped, ListsRooms
    <2>2. CASE ws # "open"
      BY <1>1, <1>3, <2>1, <2>2
         DEF LinkInv, RoomsTyped, NoLink, SubscriptionsFollow, ListsRooms
    <2>3. CASE ws = "open"
      <3> DEFINE H == Heading(up, subs)
                 G == Heading(up, subs \cup refused)
      <3>1. /\ H \in SUBSET Rooms /\ G \in SUBSET Rooms
            /\ H \subseteq joined /\ joined \subseteq G
        BY <2>3 DEF Heading, LinkInv, SubscriptionsFollow
      <3>2. Joins(n) \in Seq(Frames) /\ Leaves(o) \in Seq(Frames) /\ up \in Seq(Frames)
        BY <2>1, JoinsTake, LeavesTake DEF LinkInv, RoomsTyped
      <3>3. Joins(n) \o Leaves(o) \in Seq(Frames) /\ up' \in Seq(Frames)
        <4> HIDE DEF n, o
        <4>1. Joins(n) \o Leaves(o) \in Seq(Frames)
          BY <3>2
        <4>2. up' = up \o (Joins(n) \o Leaves(o))
          BY <1>3, <2>3
        <4> DEFINE x == Joins(n) \o Leaves(o)
        <4> HIDE DEF x
        <4>3. up \o x \in Seq(Frames)
          BY <3>2, <4>1 DEF x
        <4>4. QED BY <4>1, <4>2, <4>3 DEF x
      <3> HIDE DEF n, o, D
      <3>4. ASSUME NEW rs \in SUBSET Rooms
            PROVE  Heading(Joins(n) \o Leaves(o), rs) = (rs \cup n) \ o
        <4>1. Heading(Joins(n) \o Leaves(o), rs) = Heading(Leaves(o), Heading(Joins(n), rs))
          BY <3>2, HeadingConcat
        <4>2. Heading(Joins(n), rs) = rs \cup n
          BY <2>1, JoinsTake
        <4>3. rs \cup n \in SUBSET Rooms
          BY <2>1
        <4>4. QED BY <2>1, <4>1, <4>2, <4>3, LeavesTake
      <3>5. ASSUME NEW rs
            PROVE  Heading(up', rs) = (Heading(up, rs) \cup n) \ o
        <4>1. Heading(up, rs) \in SUBSET Rooms
          BY DEF Heading
        <4>2. Heading(up', rs) = Heading(Joins(n) \o Leaves(o), Heading(up, rs))
          BY <1>3, <2>3, <3>2, <3>3, HeadingConcat
        <4>3. QED BY <3>4, <4>1, <4>2
      <3>6. Heading(up', subs) = (H \cup n) \ o /\ Heading(up', subs \cup refused) = (G \cup n) \ o
        BY <3>5
      <3> HIDE DEF H, G
      <3>7. (H \cup n) \ o \subseteq D /\ D \subseteq (G \cup n) \ o
        BY <3>1 DEF n, o
      <3>8. SubscriptionsFollow'
        <4>1. Heading(up', subs) \subseteq joined' /\ joined' \subseteq Heading(up', subs \cup refused)
          BY <1>3, <3>6, <3>7
        <4>2. QED BY <1>1, <4>1 DEF SubscriptionsFollow, Heading
      <3>9. RoomsTyped'
        BY <1>1, <1>3, <2>1, <3>3 DEF LinkInv, RoomsTyped, ListsRooms
      <3>10. QED BY <1>1, <2>3, <3>8, <3>9 DEF LinkInv, NoLink
    <2>4. QED BY <2>2, <2>3
  <1>4. QED BY <1>2, <1>3 DEF Reconcile, send

(* The server takes the frames in the order they were sent. *)
LEMMA LinkFrame ==
    ASSUME LinkInv, HandleRoomFrame
    PROVE  LinkInv'
  <1> DEFINE f == Head(up)
             t == Tail(up)
             r == f.room
  <1>1. /\ up # <<>> /\ ws = "open" /\ up' = t
        /\ UNCHANGED <<ws, joined, member, list, answer, down>>
    BY DEF HandleRoomFrame, socket, rooms
  <1>2. up \in Seq(Frames) /\ up # <<>>
    BY <1>1 DEF LinkInv, RoomsTyped
  <1>3. f \in Frames /\ t \in Seq(Frames) /\ <<f>> \in Seq(Frames) /\ up = <<f>> \o t
    BY <1>2
  <1>4. /\ r \in Rooms /\ f.type \in {"room.join", "room.leave"}
        /\ \/ /\ f.type = "room.join"
              /\ \/ subs' = subs \cup {r} /\ refused' = refused \ {r}
                 \/ subs' = subs /\ refused' = refused \cup {r}
           \/ f.type = "room.leave" /\ subs' = subs \ {r} /\ refused' = refused \ {r}
    BY <1>3 DEF HandleRoomFrame, Frames
  <1>5. subs \in SUBSET Rooms /\ refused \in SUBSET Rooms /\ subs \cup refused \in SUBSET Rooms
    BY DEF LinkInv, RoomsTyped
  <1> HIDE DEF f, t, r
  <1>6. ASSUME NEW rs \in SUBSET Rooms
        PROVE  Heading(up, rs) = Heading(t, IF f.type = "room.join" THEN rs \cup {r} ELSE rs \ {r})
    <2>1. Heading(up, rs) = Heading(t, Heading(<<f>>, rs))
      BY <1>3, HeadingConcat
    <2>2. Heading(<<f>>, rs) = IF f.type = "room.join" THEN rs \cup {r} ELSE rs \ {r}
      BY <1>3, <1>4, HeadingOne DEF r
    <2>3. QED BY <2>1, <2>2
  <1>7. /\ Heading(t, subs') \subseteq Heading(up, subs)
        /\ Heading(t, subs' \cup refused') = Heading(up, subs \cup refused)
    <2>1. CASE f.type = "room.join"
      <3>1. subs' \subseteq subs \cup {r} /\ subs' \cup refused' = (subs \cup refused) \cup {r}
        BY <1>4, <2>1
      <3>2. Heading(up, subs) = Heading(t, subs \cup {r})
        BY <1>5, <1>6, <2>1
      <3>3. Heading(up, subs \cup refused) = Heading(t, (subs \cup refused) \cup {r})
        BY <1>5, <1>6, <2>1
      <3>4. Heading(t, subs') \subseteq Heading(t, subs \cup {r})
        BY <1>3, <3>1, HeadingMonotone
      <3>5. QED BY <3>1, <3>2, <3>3, <3>4
    <2>2. CASE f.type = "room.leave"
      <3>1. subs' = subs \ {r} /\ subs' \cup refused' = (subs \cup refused) \ {r}
        BY <1>4, <2>2
      <3>2. Heading(up, subs) = Heading(t, subs \ {r})
        BY <1>5, <1>6, <2>2
      <3>3. Heading(up, subs \cup refused) = Heading(t, (subs \cup refused) \ {r})
        BY <1>5, <1>6, <2>2
      <3>4. QED BY <3>1, <3>2, <3>3
    <2>3. QED BY <1>4, <2>1, <2>2
  <1>8. SubscriptionsFollow'
    <2>1. Heading(t, subs') \subseteq joined /\ joined \subseteq Heading(t, subs' \cup refused')
      BY <1>1, <1>7 DEF LinkInv, SubscriptionsFollow
    <2>2. QED BY <1>1, <2>1 DEF SubscriptionsFollow, Heading
  <1>9. RoomsTyped'
    BY <1>1, <1>3, <1>4 DEF LinkInv, RoomsTyped, ListsRooms
  <1>10. QED BY <1>1, <1>8, <1>9 DEF LinkInv, NoLink

(* routeEvent: a user.left of our own takes the room out of both ends. *)
LEMMA LinkRouted ==
    ASSUME LinkInv, RouteEvent
    PROVE  LinkInv'
  <1> DEFINE r == Head(down).room
             f == [type |-> "room.leave", room |-> r]
  <1>1. /\ down # <<>> /\ down' = Tail(down)
        /\ UNCHANGED <<ws, subs, refused, member, answer>>
    BY DEF RouteEvent, socket, hub
  <1>2. down' \in Seq(Events) /\ Head(down) \in Events
    BY <1>1 DEF LinkInv, RoomsTyped
  <1>3. r \in Rooms /\ f \in Frames
    BY <1>2 DEF Events, Frames
  <1> HIDE DEF r, f
  <1>4. ListsRooms(list')
    <2>1. CASE list' = list
      BY <2>1 DEF LinkInv, RoomsTyped
    <2>2. CASE \E rs : ClearBadges(rs)
      BY <2>2, BadgesList DEF LinkInv, RoomsTyped
    <2>3. CASE BumpBadge(r)
      BY <2>3, BumpList DEF LinkInv, RoomsTyped
    <2>4. QED BY <2>1, <2>2, <2>3 DEF RouteEvent, r
  <1>5. CASE UNCHANGED <<joined, up>>
    BY <1>1, <1>2, <1>4, <1>5, LinkKept DEF linkVars, LinkInv, RoomsTyped
  <1>6. CASE joined' = joined \ {r} /\ up' = IF ws = "open" THEN up \o <<f>> ELSE up
    <2>1. CASE ws # "open"
      BY <1>1, <1>2, <1>4, <1>6, <2>1
         DEF LinkInv, RoomsTyped, NoLink, SubscriptionsFollow, ListsRooms
    <2>2. CASE ws = "open"
      <3>1. up \in Seq(Frames) /\ <<f>> \in Seq(Frames) /\ up' = up \o <<f>> /\ up' \in Seq(Frames)
        <4>1. up \in Seq(Frames) /\ <<f>> \in Seq(Frames)
          BY <1>3 DEF LinkInv, RoomsTyped
        <4>2. up \o <<f>> \in Seq(Frames)
          BY <4>1
        <4>3. QED BY <1>6, <2>2, <4>1, <4>2
      <3>2. f.type = "room.leave" /\ f.room = r
        BY DEF f
      <3>3. ASSUME NEW rs PROVE Heading(up', rs) = Heading(up, rs) \ {r}
        <4>1. Heading(up, rs) \in SUBSET Rooms
          BY DEF Heading
        <4>2. Heading(up', rs) = Heading(<<f>>, Heading(up, rs))
          <5> DEFINE g == <<f>>
          <5> HIDE DEF g
          <5>1. up \in Seq(Frames) /\ g \in Seq(Frames) /\ up' = up \o g
            BY <3>1 DEF g
          <5>2. Heading(up \o g, rs) = Heading(g, Heading(up, rs))
            BY <5>1, HeadingConcat
          <5>3. QED BY <5>1, <5>2 DEF g
        <4>3. QED BY <1>3, <3>2, <4>1, <4>2, HeadingOne
      <3>4. Heading(up, subs) \subseteq joined /\ joined \subseteq Heading(up, subs \cup refused)
        BY <2>2 DEF LinkInv, SubscriptionsFollow
      <3>5. Heading(up', subs) \subseteq joined' /\ joined' \subseteq Heading(up', subs \cup refused)
        BY <1>6, <3>3, <3>4
      <3>6. SubscriptionsFollow'
        BY <1>1, <3>5 DEF SubscriptionsFollow, Heading
      <3>7. RoomsTyped'
        BY <1>1, <1>2, <1>4, <1>6, <3>1 DEF LinkInv, RoomsTyped, ListsRooms
      <3>8. QED BY <1>1, <2>2, <3>6, <3>7 DEF LinkInv, NoLink
    <2>3. QED BY <2>1, <2>2
  <1>7. QED BY <1>5, <1>6 DEF RouteEvent, leaveRoom, send, r, f

LEMMA LinkStep ==
    ASSUME LinkInv, Core, TabNext
    PROVE  LinkInv'
  <1>1. CASE \E r \in Rooms : \/ MembershipEnds(r) \/ MembershipBegins(r) \/ PeerWrites(r)
                             \/ AnnounceLeft(r) \/ handleLeave(r)
    BY <1>1, LinkEvents
  <1>2. QED
    BY <1>1, LinkLists, LinkSocket, LinkOpens, LinkReconciled, LinkFrame, LinkRouted
       DEF TabNext, Effects, Continuations, Tasks

(* The inductive invariant of the rooms of the connection. *)
THEOREM LinkInvariant == TabSpec => []LinkInv
  <1>1. TabInit => LinkInv
    BY DEF TabInit, LinkInv, RoomsTyped, NoLink, SubscriptionsFollow, ListsRooms
  <1>2. LinkInv /\ UNCHANGED tabVars => LinkInv'
    <2>1. SUFFICES ASSUME LinkInv, UNCHANGED tabVars PROVE LinkInv'
      OBVIOUS
    <2>2. UNCHANGED linkVars /\ UNCHANGED <<member, list, answer, down>>
      BY <2>1 DEF tabVars, socket, rooms, hub, linkVars
    <2>3. QED BY <2>1, <2>2, LinkKept DEF LinkInv, RoomsTyped
  <1>3. LinkInv /\ Core /\ [TabNext]_tabVars => LinkInv'
    BY <1>2, LinkStep
  <1>4. QED BY <1>1, <1>3, ConnectionInvariant, PTL DEF TabSpec

(* While the socket is open, the hub sends the tab the events of exactly the *)
(* rooms it has joined once the frames in flight are taken, but for joins    *)
(* the server refused: across reconnects, the reconcile effect and kicks.    *)
THEOREM HubFollowsTheTab == TabSpec => []SubscriptionsFollow
  <1>1. LinkInv => SubscriptionsFollow
    BY DEF LinkInv
  <1>2. QED BY <1>1, LinkInvariant, PTL

-----------------------------------------------------------------------------
(* The rest of TabTypeOK: somebody waits for a refresh only while there is   *)
(* one, and an unmounted provider has no socket, timer or attempt.           *)
Waits == connecting = "awaiting" \/ listFetch = "refreshing" => refresh

Unmounted == ~mounted => ws = "none" /\ ~timer /\ connecting = "no"

Shown ==
    /\ page \in {"login", "admin"} \cup ChatPages
    /\ status \in {"connecting", "open", "closed"}
    /\ issued \in 1..MaxTokens /\ (fresh => token # 0)

PageInv == Waits /\ Unmounted /\ Shown

LEMMA PageStep ==
    ASSUME Core, PageInv, TabNext
    PROVE  PageInv'
  <1> USE DEF Core, PageInv
  <1>1. CASE ConnectionEffect
    <2>1. connect("none") /\ mounted' /\ UNCHANGED <<token, fresh, issued, page>>
      BY <1>1 DEF ConnectionEffect
    <2>2. Waits'
      BY <1>1, <2>1 DEF ConnectionEffect, connect, NewSocket, Waits, SessionInv, Attempts
    <2>3. Unmounted' /\ Shown'
      BY <2>1 DEF connect, NewSocket, Unmounted, Shown
    <2>4. QED BY <2>2, <2>3
  <1>2. CASE scheduleReconnect \/ reconnectNow
    <2>1. connect("none") /\ mounted /\ mounted' /\ UNCHANGED <<token, fresh, issued, page, listFetch>>
      BY <1>2 DEF scheduleReconnect, reconnectNow, SocketInv, Unmounted
    <2>2. Waits'
      BY <2>1 DEF connect, NewSocket, Waits
    <2>3. Unmounted' /\ Shown'
      BY <2>1 DEF connect, NewSocket, Unmounted, Shown
    <2>4. QED BY <2>2, <2>3
  <1>3. CASE Unmount \/ ConnectResumes
    BY <1>3 DEF Unmount, ConnectResumes, NewSocket, session, rooms, Waits, Unmounted, Shown,
                Attempts, SessionInv
  <1>4. CASE Reconcile
    BY <1>4 DEF Reconcile, session, socket, Waits, Unmounted, Shown
  <1>5. CASE Hydrate \/ Login \/ Expire \/ Unauthorized \/ Logout \/ LoggedOut \/ BackToChat
    <2>1. Shown'
      BY <1>5, TabAssumption
         DEF Hydrate, Login, Expire, Unauthorized, Logout, LoggedOut, BackToChat, setAuth, clearAuth,
             Shown, session, socket, ChatPages
    <2>2. Waits' /\ Unmounted'
      BY <1>5 DEF Hydrate, Login, Expire, Unauthorized, Logout, LoggedOut, BackToChat, session, socket,
                  rooms, Waits, Unmounted
    <2>3. QED BY <2>1, <2>2
  <1>6. ASSUME NEW outcome \in Answers, doRefresh(outcome)
        PROVE  PageInv'
    <2>1. Waits'
      BY <1>6 DEF doRefresh, Settle, Waits, Attempts
    <2>2. Unmounted' /\ Shown'
      BY <1>6, TabAssumption DEF doRefresh, Settle, setAuth, clearAuth, Unmounted, Shown
    <2>3. QED BY <2>1, <2>2
  <1>7. CASE \/ Redirect \/ LeaveAnswered \/ RouteEvent \/ \E to \in {"chat", "admin"} \cup Rooms : Navigate(to)
             \/ \E r \in Rooms : JoinOrCreate(r)
    <2>1. Shown'
      <3>1. UNCHANGED <<status, issued, fresh, token>>
        BY <1>7 DEF Redirect, LeaveAnswered, RouteEvent, Navigate, JoinOrCreate, session, socket
      <3>2. page' = page \/ page' \in {"login", "admin"} \cup ChatPages
        BY <1>7 DEF Redirect, LeaveAnswered, RouteEvent, Navigate, JoinOrCreate, ChatPages
      <3>3. QED BY <3>1, <3>2 DEF Shown
    <2>2. UNCHANGED <<connecting, refresh, mounted, ws, timer>>
      BY <1>7 DEF Redirect, LeaveAnswered, RouteEvent, Navigate, JoinOrCreate, session, socket
    <2>3. listFetch' = listFetch \/ listFetch' = "sent"
      BY <1>7 DEF Redirect, LeaveAnswered, RouteEvent, Navigate, JoinOrCreate, InvalidateRooms
    <2>4. QED BY <2>1, <2>2, <2>3 DEF Waits, Unmounted
  <1>8. CASE OnOpen \/ OnError \/ SocketBreaks \/ OnClose
    BY <1>8 DEF OnOpen, OnError, SocketBreaks, OnClose, Closed, session, rooms, Waits, Unmounted, Shown
  <1>9. CASE RoomsRead \/ RoomsAnswered \/ HandleRoomFrame
    BY <1>9 DEF RoomsRead, RoomsAnswered, HandleRoomFrame, session, socket, rooms, Waits, Unmounted, Shown
  <1>10. ASSUME NEW r \in Rooms,
                \/ MembershipEnds(r) \/ MembershipBegins(r) \/ PeerWrites(r)
                \/ AnnounceLeft(r) \/ handleLeave(r)
         PROVE  PageInv'
    <2>1. UNCHANGED <<session, socket, rooms, page>>
      BY <1>10 DEF MembershipEnds, MembershipBegins, PeerWrites, AnnounceLeft, handleLeave
    <2>2. QED BY <2>1 DEF session, socket, rooms, Waits, Unmounted, Shown
  <1>11. ASSUME NEW k \in DOMAIN strays,
                StrayResumes(k) \/ StrayOpens(k) \/ StrayRoutes(k) \/ StrayBreaks(k)
         PROVE  PageInv'
    <2>1. UNCHANGED <<session, socket, page>> /\ (listFetch' = listFetch \/ listFetch' = "sent")
      BY <1>11 DEF StrayResumes, StrayOpens, StrayRoutes, StrayBreaks, InvalidateRooms, rooms
    <2>2. QED BY <2>1 DEF session, socket, Waits, Unmounted, Shown
  <1>12. QED
    BY <1>1, <1>2, <1>3, <1>4, <1>5, <1>6, <1>7, <1>8, <1>9, <1>10, <1>11
       DEF TabNext, Effects, Continuations, Tasks

-----------------------------------------------------------------------------
(* What unmounted providers have left behind: an attempt that waits has a    *)
(* refresh to wait for, and only an open socket is in rooms or hears.        *)
FitStray(s) == s.hears \subseteq s.rooms /\ (s.st # "open" => s.hears = {} /\ s.inbox = <<>>)

StrayInv ==
    /\ strays \in Seq(Stray)
    /\ \A k \in DOMAIN strays : FitStray(strays[k]) /\ (strays[k].st = "awaiting" => refresh)

(* A step that changes each of them for itself. *)
LEMMA StraysEach ==
    ASSUME StrayInv, strays' = [k \in DOMAIN strays |-> strays'[k]],
           \A k \in DOMAIN strays : /\ strays'[k] \in Stray /\ FitStray(strays'[k])
                                    /\ strays'[k].st = "awaiting" => refresh'
    PROVE  StrayInv'
  <1>1. DOMAIN strays = 1..Len(strays) /\ Len(strays) \in Nat /\ DOMAIN strays' = DOMAIN strays
    BY DEF StrayInv
  <1>2. strays' \in [1..Len(strays) -> Stray]
    BY <1>1
  <1>3. strays' \in Seq(Stray)
    BY <1>1, <1>2
  <1>4. QED BY <1>1, <1>3 DEF StrayInv, FitStray

(* An event that only open sockets are told of. *)
LEMMA StraysTold ==
    ASSUME StrayInv, refresh' = refresh, NEW e \in Events, NEW heard, NEW K, Tell(e, heard, K),
           \A k \in DOMAIN strays : k \in K => strays[k].st = "open"
    PROVE  StrayInv'
  <1>1. ASSUME NEW k \in DOMAIN strays
        PROVE  /\ strays'[k] \in Stray /\ FitStray(strays'[k])
               /\ strays'[k].st = "awaiting" => refresh'
    <2>1. strays[k] \in Stray /\ FitStray(strays[k]) /\ (strays[k].st = "awaiting" => refresh)
      BY DEF StrayInv
    <2>2. PICK b : b = IF k \in K THEN Append(strays[k].inbox, e) ELSE strays[k].inbox
      OBVIOUS
    <2>3. b \in Seq(Events) /\ (b # <<>> => strays[k].st = "open" \/ strays[k].inbox # <<>>)
      BY <2>1, <2>2 DEF Stray
    <2>4. strays'[k] = [strays[k] EXCEPT !.inbox = b]
      BY <2>2 DEF Tell
    <2>5. /\ strays'[k] \in Stray /\ strays'[k].st = strays[k].st /\ strays'[k].rooms = strays[k].rooms
          /\ strays'[k].hears = strays[k].hears /\ strays'[k].inbox = b
      BY <2>1, <2>3, <2>4 DEF Stray
    <2>6. QED BY <2>1, <2>3, <2>5 DEF FitStray
  <1>2. QED BY <1>1, StraysEach DEF Tell

(* One of them goes on. *)
LEMMA StrayMoves ==
    ASSUME StrayInv, refresh' = refresh, member \subseteq Rooms, NEW k \in DOMAIN strays,
           StrayResumes(k) \/ StrayOpens(k) \/ StrayRoutes(k) \/ StrayBreaks(k)
    PROVE  StrayInv'
  <1>1. strays[k] \in Stray /\ FitStray(strays[k])
    BY DEF StrayInv
  <1>2. /\ strays'[k] \in Stray /\ FitStray(strays'[k]) /\ strays'[k].st # "awaiting"
        /\ strays' = [strays EXCEPT ![k] = strays'[k]]
    <2>1. CASE StrayResumes(k)
      BY <1>1, <2>1 DEF StrayResumes, Stray, FitStray, Answers, StrayInv
    <2>2. CASE StrayOpens(k)
      BY <1>1, <2>2 DEF StrayOpens, Stray, FitStray, Answers, StrayInv
    <2>3. CASE StrayRoutes(k)
      <3>1. strays[k].st = "open" /\ Tail(strays[k].inbox) \in Seq(Events)
        BY <1>1, <2>3 DEF StrayRoutes, Stray
      <3>2. PICK r : \/ strays' = [strays EXCEPT ![k].inbox = Tail(@)]
                     \/ strays' = [strays EXCEPT ![k].inbox = Tail(@), ![k].rooms = @ \ {r}, ![k].hears = @ \ {r}]
        BY <2>3 DEF StrayRoutes
      <3>3. /\ strays'[k] = [st |-> strays'[k].st, rooms |-> strays'[k].rooms,
                             hears |-> strays'[k].hears, inbox |-> strays'[k].inbox]
            /\ strays' = [strays EXCEPT ![k] = strays'[k]]
        BY <1>1, <3>2 DEF Stray, StrayInv
      <3>4. /\ strays'[k].st = "open" /\ strays'[k].inbox = Tail(strays[k].inbox)
            /\ \/ strays'[k].rooms = strays[k].rooms /\ strays'[k].hears = strays[k].hears
               \/ strays'[k].rooms = strays[k].rooms \ {r} /\ strays'[k].hears = strays[k].hears \ {r}
        BY <1>1, <3>1, <3>2 DEF Stray, StrayInv
      <3>5. strays'[k].rooms \in SUBSET Rooms /\ strays'[k].hears \in SUBSET Rooms
        BY <1>1, <3>4 DEF Stray
      <3>6. strays'[k] \in Stray
        BY <3>1, <3>3, <3>4, <3>5 DEF Stray
      <3>7. FitStray(strays'[k])
        BY <1>1, <3>4 DEF FitStray
      <3>8. QED BY <3>3, <3>4, <3>6, <3>7
    <2>4. CASE StrayBreaks(k)
      <3>1. strays' = [strays EXCEPT ![k].st = "gone", ![k].hears = {}, ![k].inbox = <<>>]
        BY <2>4 DEF StrayBreaks
      <3>2. /\ strays'[k] = [st |-> "gone", rooms |-> strays[k].rooms, hears |-> {}, inbox |-> <<>>]
            /\ strays' = [strays EXCEPT ![k] = strays'[k]]
        BY <1>1, <3>1 DEF Stray, StrayInv
      <3>3. strays[k].rooms \in SUBSET Rooms
        BY <1>1 DEF Stray
      <3>4. strays'[k] \in Stray /\ FitStray(strays'[k]) /\ strays'[k].st # "awaiting"
        BY <3>2, <3>3 DEF Stray, FitStray
      <3>5. QED BY <3>2, <3>4
    <2>5. QED BY <2>1, <2>2, <2>3, <2>4
  <1>3. \A j \in DOMAIN strays : j # k => strays'[j] = strays[j]
    BY <1>2 DEF StrayInv
  <1>4. QED BY <1>2, <1>3, StraysEach DEF StrayInv

LEMMA StrayStep ==
    ASSUME StrayInv, LinkInv, PageInv, TabNext
    PROVE  StrayInv'
  <1>1. CASE strays' = strays /\ (refresh => refresh')
    BY <1>1 DEF StrayInv, FitStray
  <1>2. ASSUME NEW r \in Rooms,
               \/ MembershipEnds(r) \/ MembershipBegins(r) \/ PeerWrites(r)
               \/ AnnounceLeft(r) \/ handleLeave(r)
        PROVE  StrayInv'
    <2>1. refresh' = refresh
      BY <1>2 DEF MembershipEnds, MembershipBegins, PeerWrites, AnnounceLeft, handleLeave, session
    <2>2. \A ty \in {"user.left", "room.invited", "message.new"}, b \in BOOLEAN :
             [type |-> ty, room |-> r, ended |-> b] \in Events
      BY DEF Events
    <2>3. ASSUME NEW ty \in {"user.left", "message.new"}, NEW b \in BOOLEAN, ToRoom(r, ty, b)
          PROVE  StrayInv'
      <3> DEFINE e == [type |-> ty, room |-> r, ended |-> b]
                 heard == r \in subs
                 K == {k \in DOMAIN strays : r \in strays[k].hears}
      <3>1. e \in Events /\ Tell(e, heard, K)
        BY <2>2, <2>3 DEF ToRoom
      <3>2. \A k \in DOMAIN strays : k \in K => strays[k].st = "open"
        BY DEF StrayInv, FitStray
      <3> HIDE DEF e, heard, K
      <3>3. QED BY <2>1, <3>1, <3>2, StraysTold
    <2>4. CASE ToUser(r, "room.invited")
      <3> DEFINE e == [type |-> "room.invited", room |-> r, ended |-> FALSE]
                 heard == TRUE
                 K == {k \in DOMAIN strays : strays[k].st = "open"}
      <3>1. e \in Events /\ Tell(e, heard, K)
        BY <2>2, <2>4 DEF ToUser
      <3>2. \A k \in DOMAIN strays : k \in K => strays[k].st = "open"
        OBVIOUS
      <3> HIDE DEF e, heard, K
      <3>3. QED BY <2>1, <3>1, <3>2, StraysTold
    <2>5. QED BY <1>2, <2>3, <2>4
                 DEF MembershipEnds, MembershipBegins, PeerWrites, AnnounceLeft, handleLeave
  <1>3. CASE \E k \in DOMAIN strays : StrayResumes(k) \/ StrayOpens(k) \/ StrayRoutes(k) \/ StrayBreaks(k)
    <2>1. refresh' = refresh /\ member \subseteq Rooms
      BY <1>3 DEF StrayResumes, StrayOpens, StrayRoutes, StrayBreaks, session, LinkInv, RoomsTyped
    <2>2. QED BY <1>3, <2>1, StrayMoves
  <1>4. ASSUME NEW outcome \in Answers, doRefresh(outcome) PROVE StrayInv'
    <2>1. strays' = [k \in DOMAIN strays |-> [strays[k] EXCEPT !.st = IF @ = "awaiting" THEN outcome ELSE @]]
      BY <1>4 DEF doRefresh, Settle
    <2>2. ASSUME NEW k \in DOMAIN strays
          PROVE  strays'[k] \in Stray /\ FitStray(strays'[k]) /\ strays'[k].st # "awaiting"
      <3>1. strays[k] \in Stray /\ FitStray(strays[k])
        BY DEF StrayInv
      <3>2. PICK st : st = IF strays[k].st = "awaiting" THEN outcome ELSE strays[k].st
        OBVIOUS
      <3>3. /\ strays'[k] = [strays[k] EXCEPT !.st = st]
            /\ st # "awaiting" /\ (st = "open" <=> strays[k].st = "open")
        BY <2>1, <3>2 DEF Answers
      <3>4. st \in {"awaiting", "connecting", "open", "gone"} \cup Answers
        BY <3>1, <3>2 DEF Stray
      <3>5. /\ strays'[k] \in Stray /\ strays'[k].st = st /\ strays'[k].rooms = strays[k].rooms
            /\ strays'[k].hears = strays[k].hears /\ strays'[k].inbox = strays[k].inbox
        BY <3>1, <3>3, <3>4 DEF Stray
      <3>6. QED BY <3>1, <3>3, <3>5 DEF FitStray
    <2>3. strays' = [k \in DOMAIN strays |-> strays'[k]]
      BY <2>1
    <2>4. QED BY <2>2, <2>3, StraysEach
  <1>5. CASE Unmount
    <2> DEFINE s == [st |-> connecting, rooms |-> joined, hears |-> {}, inbox |-> <<>>]
    <2>1. CASE connecting \notin {"awaiting", "granted"}
      BY <1>1, <1>5, <2>1 DEF Unmount, session
    <2>2. CASE connecting \in {"awaiting", "granted"}
      <3>1. strays' = Append(strays, s) /\ refresh' = refresh
        BY <1>5, <2>2 DEF Unmount, session
      <3>2. s \in Stray /\ FitStray(s) /\ (s.st = "awaiting" => refresh)
        BY <2>2 DEF Stray, FitStray, Answers, LinkInv, RoomsTyped, PageInv, Waits
      <3> HIDE DEF s
      <3>3. /\ strays' \in Seq(Stray) /\ DOMAIN strays' = DOMAIN strays \cup {Len(strays) + 1}
            /\ \A k \in DOMAIN strays : strays'[k] = strays[k]
            /\ strays'[Len(strays) + 1] = s
        BY <3>1, <3>2 DEF StrayInv
      <3>4. QED BY <3>1, <3>2, <3>3 DEF StrayInv, FitStray
    <2>3. QED BY <2>1, <2>2
  <1>6. CASE \/ ConnectionEffect \/ scheduleReconnect \/ reconnectNow
    <2>1. strays' = strays /\ (connect("none") \/ connect(ws))
      BY <1>6 DEF ConnectionEffect, scheduleReconnect, reconnectNow
    <2>2. refresh => refresh'
      BY <2>1 DEF connect
    <2>3. QED BY <1>1, <2>1, <2>2
  <1>7. CASE \/ Reconcile \/ ConnectResumes \/ Hydrate \/ Login \/ Expire \/ Unauthorized \/ Logout
             \/ LoggedOut \/ Redirect \/ BackToChat \/ OnOpen \/ OnError \/ SocketBreaks \/ OnClose
             \/ RoomsRead \/ RoomsAnswered \/ HandleRoomFrame \/ RouteEvent \/ LeaveAnswered
             \/ \E to \in {"chat", "admin"} \cup Rooms : Navigate(to)
             \/ \E r \in Rooms : JoinOrCreate(r)
    BY <1>1, <1>7
       DEF Reconcile, ConnectResumes, Hydrate, Login, Expire, Unauthorized, Logout, LoggedOut, Redirect,
           BackToChat, OnOpen, OnError, SocketBreaks, OnClose, RoomsRead, RoomsAnswered,
           HandleRoomFrame, RouteEvent, LeaveAnswered, Navigate, JoinOrCreate, session
  <1>8. QED
    BY <1>2, <1>3, <1>4, <1>5, <1>6, <1>7
       DEF TabNext, Effects, Continuations, Tasks

(* The session, the page, the provider and the rooms of the tab keep their   *)
(* types; a waiting attempt or query has a refresh to wait for, and the      *)
(* cleanup of the effect leaves no socket or timer behind.                   *)
THEOREM TabTypes == TabSpec => []TabTypeOK
  <1>1. TabInit => PageInv
    <2>1. SUFFICES ASSUME TabInit PROVE PageInv
      OBVIOUS
    <2>2. Waits /\ Unmounted
      BY <2>1 DEF TabInit, Waits, Unmounted, Attempts
    <2>3. issued \in 1..MaxTokens
      BY <2>1, TabAssumption DEF TabInit
    <2>4. fresh => token # 0
      <3>1. fresh = (token = 1)
        BY <2>1 DEF TabInit
      <3>2. 1 # 0
        OBVIOUS
      <3>3. QED BY <3>1, <3>2, Zenon
    <2>5. Shown
      BY <2>1, <2>3, <2>4 DEF TabInit, Shown, ChatPages
    <2>6. QED BY <2>2, <2>5 DEF PageInv
  <1>2. PageInv /\ Core /\ [TabNext]_tabVars => PageInv'
    <2>1. PageInv /\ UNCHANGED tabVars => PageInv'
      BY DEF tabVars, session, socket, rooms, PageInv, Waits, Unmounted, Shown
    <2>2. QED BY <2>1, PageStep
  <1>3. TabInit => StrayInv
    BY DEF TabInit, StrayInv
  <1>4. StrayInv /\ PageInv /\ LinkInv /\ [TabNext]_tabVars => StrayInv'
    <2>1. StrayInv /\ UNCHANGED tabVars => StrayInv'
      BY DEF tabVars, session, StrayInv, FitStray
    <2>2. QED BY <2>1, StrayStep
  <1>5. PageInv /\ Core /\ LinkInv /\ StrayInv => TabTypeOK
    BY DEF PageInv, Waits, Unmounted, Shown, Core, SocketInv, SessionInv, LinkInv, RoomsTyped,
           ListsRooms, StrayInv, FitStray, TabTypeOK, Attempts
  <1>6. QED BY <1>1, <1>2, <1>3, <1>4, <1>5, ConnectionInvariant, LinkInvariant, PTL DEF TabSpec
=============================================================================
