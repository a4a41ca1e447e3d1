--------------------------- MODULE SessionsProofs ---------------------------
(***************************************************************************)
(* Proofs about Sessions, for any number of tokens, tabs and requests.     *)
(*                                                                         *)
(* OneActiveToken is not inductive: a rotation inserts a token without     *)
(* looking at the rest of its family.  It may, because it still holds the  *)
(* row it read (LockInv), nobody else has revoked that row meanwhile       *)
(* (ReqInv), and the row was the only active one.  RotatedOnce needs that  *)
(* a token with a successor is revoked (TableInv).                         *)
(***************************************************************************)
EXTENDS Sessions, TLAPS

RefreshSteps == {"refresh", "rotate", "reuse", "revoke", "granted", "rejected"}
LogoutSteps == {"logout", "revoke", "loggedout"}

(* What is known of the request r, given the rows of the table. *)
RequestOK(r, is, rev) ==
    r # NoRequest =>
        /\ r.token \in is
        /\ r.new \in is \cup {NoToken}
        /\ r.targets \subseteq is
        /\ r.op = "logout" => r.tab \in Tabs /\ r.at \in LogoutSteps
        /\ r.op = "refresh" => r.at \in RefreshSteps
        /\ r.at = "rotate" => r.token \notin rev

ReqInv == \A q \in Handlers : RequestOK(serving[q], issued, revoked)

(* The request is a rotation that has selected its row and not committed. *)
HoldsLock(r) == r.op = "refresh" /\ r.at \in {"rotate", "reuse", "revoke"}

LockInv ==
    \A p, q \in Handlers :
        p # q /\ HoldsLock(serving[p]) /\ HoldsLock(serving[q]) => serving[p].token # serving[q].token

TableInv ==
    /\ \A t \in issued : /\ family[t] \in issued
                         /\ parent[t] # NoToken => parent[t] \in revoked
    /\ \A t \in Tokens \ issued : parent[t] = NoToken

IInv == SessionTypeOK /\ ReqInv /\ LockInv /\ TableInv /\ OneActiveToken /\ RotatedOnce

-----------------------------------------------------------------------------
(* A request is idle or in flight, and which of the two its step tells. *)
LEMMA RequestKinds ==
    ASSUME SessionTypeOK, NEW q \in Handlers
    PROVE  /\ serving[q] = NoRequest \/ serving[q] \in AuthRequest
           /\ NoRequest.at = "idle" /\ NoRequest.op = "none"
           /\ serving[q] # NoRequest => serving[q].at \in Stages /\ serving[q].at # "idle"
           /\ serving[q].op # "none" => serving[q] \in AuthRequest
  <1>1. serving[q] \in AuthRequest \cup {NoRequest}
    BY DEF SessionTypeOK
  <1>2. \A r \in AuthRequest : r.at \in Stages /\ r.at # "idle"
    BY DEF AuthRequest, Stages
  <1>3. QED BY <1>1, <1>2 DEF NoRequest

(* What a step owes when it replaces one request by r. *)
LEMMA RequestReplaced ==
    ASSUME IInv, NEW q \in Handlers, NEW r \in AuthRequest \cup {NoRequest},
           serving' = [serving EXCEPT ![q] = r],
           issued \subseteq issued',
           RequestOK(r, issued', revoked'),
           \A p \in Handlers \ {q} : serving[p].at = "rotate" => serving[p].token \notin revoked',
           HoldsLock(r) =>
             \A p \in Handlers \ {q} : HoldsLock(serving[p]) => serving[p].token # r.token
    PROVE  /\ serving' \in [Handlers -> AuthRequest \cup {NoRequest}]
           /\ ReqInv'
           /\ LockInv'
  <1>1. /\ serving' \in [Handlers -> AuthRequest \cup {NoRequest}]
        /\ serving'[q] = r
        /\ \A p \in Handlers \ {q} : serving'[p] = serving[p]
    BY DEF IInv, SessionTypeOK
  <1>2. \A p \in Handlers : RequestOK(serving'[p], issued', revoked')
    <2>1. SUFFICES ASSUME NEW p \in Handlers, p # q
                   PROVE  RequestOK(serving[p], issued', revoked')
      BY <1>1
    <2>2. RequestOK(serving[p], issued, revoked)
      BY DEF IInv, ReqInv
    <2>3. serving[p].at = "rotate" => serving[p].token \notin revoked'
      BY <2>1
    <2>4. QED BY <2>2, <2>3 DEF RequestOK
  <1>3. LockInv'
    BY <1>1 DEF IInv, LockInv, HoldsLock
  <1>4. QED BY <1>1, <1>2, <1>3 DEF ReqInv

(* A step that leaves issued, family, parent and revoked alone keeps what is  *)
(* known of them.                                                             *)
LEMMA TableKept ==
    ASSUME IInv, UNCHANGED <<issued, family, parent, revoked>>
    PROVE  TableInv' /\ OneActiveToken' /\ RotatedOnce'
  BY DEF IInv, TableInv, OneActiveToken, RotatedOnce, ActiveTokens

(* GenerateRefreshToken yields a token that is not in the table. *)
LEMMA FreshToken ==
    ASSUME SessionTypeOK, issued # Tokens
    PROVE  NewToken \in Tokens /\ NewToken \notin issued
  <1>1. \E t \in Tokens : t \notin issued
    BY DEF SessionTypeOK
  <1>2. QED BY <1>1 DEF NewToken

(* The steps that only move one request and leave the table alone: what is    *)
(* left to show is that the new record of the request is in order.            *)
LEMMA RequestStep ==
    ASSUME IInv, NEW q \in Handlers, NEW r \in AuthRequest \cup {NoRequest},
           serving' = [serving EXCEPT ![q] = r], UNCHANGED table,
           held' \in [Tabs -> issued \cup {NoToken}],
           stored' \in issued \cup {NoToken},
           ended' = ended, disturbed' \in SUBSET issued,
           RequestOK(r, issued, revoked),
           HoldsLock(r) =>
             \A p \in Handlers \ {q} : HoldsLock(serving[p]) => serving[p].token # r.token
    PROVE  IInv'
  <1>1. issued' = issued /\ revoked' = revoked /\ family' = family
        /\ parent' = parent /\ expired' = expired
    BY DEF table
  <1>2. \A p \in Handlers \ {q} : serving[p].at = "rotate" => serving[p].token \notin revoked'
    <2>1. SUFFICES ASSUME NEW p \in Handlers, serving[p].at = "rotate"
                   PROVE  serving[p].token \notin revoked
      BY <1>1
    <2>2. serving[p] # NoRequest
      BY <2>1 DEF NoRequest
    <2>3. QED BY <2>1, <2>2 DEF IInv, ReqInv, RequestOK
  <1>3. /\ serving' \in [Handlers -> AuthRequest \cup {NoRequest}]
        /\ ReqInv' /\ LockInv'
    <2>1. RequestOK(r, issued', revoked') /\ issued \subseteq issued'
      BY <1>1
    <2>2. QED BY <1>2, <2>1, RequestReplaced
  <1>4. SessionTypeOK'
    BY <1>1, <1>3 DEF IInv, SessionTypeOK
  <1>5. TableInv' /\ OneActiveToken' /\ RotatedOnce'
    BY <1>1, TableKept
  <1>6. QED BY <1>3, <1>4, <1>5 DEF IInv

(* A tab presents a token, or somebody else does. *)
LEMMA BeginStep ==
    ASSUME IInv, NEW q \in Handlers, NEW b \in Tabs \cup {NoTab}, NEW t \in issued,
           NEW s, NEW op,
           \/ s = "refresh" /\ op = "refresh"
           \/ s = "logout" /\ op = "logout" /\ b \in Tabs,
           Accept(q, s, op, b, t), UNCHANGED <<table, browser, ended>>,
           disturbed' \in SUBSET issued
    PROVE  IInv'
  <1> DEFINE r == [at |-> s, op |-> op, tab |-> b, token |-> t,
                   new |-> NoToken, targets |-> {}]
  <1>1. t \in Tokens
    BY DEF IInv, SessionTypeOK
  <1>2. r \in AuthRequest
    BY <1>1 DEF AuthRequest, Stages
  <1>3. RequestOK(r, issued, revoked)
    BY DEF RequestOK, RefreshSteps, LogoutSteps
  <1>4. ~HoldsLock(r)
    BY DEF HoldsLock
  <1>5. serving' = [serving EXCEPT ![q] = r]
    BY DEF Accept
  <1>6. /\ held' \in [Tabs -> issued \cup {NoToken}]
        /\ stored' \in issued \cup {NoToken}
        /\ ended' = ended /\ UNCHANGED table
    BY DEF IInv, SessionTypeOK, browser
  <1> HIDE DEF r
  <1>7. QED BY <1>2, <1>3, <1>4, <1>5, <1>6, RequestStep

(* The family of a token in the table is the token of a session. *)
LEMMA FamilyIssued ==
    ASSUME IInv, NEW t \in issued
    PROVE  family[t] \in issued /\ t \in Tokens
  BY DEF IInv, TableInv, SessionTypeOK

LEMMA InFlightFacts ==
    ASSUME IInv, NEW q \in Handlers, serving[q] # NoRequest
    PROVE  /\ serving[q] \in AuthRequest
           /\ RequestOK(serving[q], issued, revoked)
           /\ serving[q].op \in {"refresh", "logout"}
           /\ serving[q].token \in issued /\ serving[q].new \in issued \cup {NoToken}
           /\ serving[q].targets \subseteq issued
           /\ serving[q].tab \in Tabs \cup {NoTab}
  <1>1. serving[q] \in AuthRequest
    BY DEF IInv, SessionTypeOK
  <1>2. RequestOK(serving[q], issued, revoked)
    BY DEF IInv, ReqInv
  <1>3. serving[q].op \in {"refresh", "logout"} /\ serving[q].tab \in Tabs \cup {NoTab}
    BY <1>1 DEF AuthRequest
  <1>4. QED BY <1>1, <1>2, <1>3 DEF RequestOK

(* The browser's actions that send nothing. *)
LEMMA LoginStep ==
    ASSUME IInv, NEW b \in Tabs, Login(b)
    PROVE  IInv'
  <1> DEFINE n == NewToken
  <1>1. n \in Tokens /\ n \notin issued
    BY FreshToken DEF IInv, Login
  <1>2. /\ issued' = issued \cup {n}
        /\ family' = [family EXCEPT ![n] = n]
        /\ held' = [held EXCEPT ![b] = n] /\ stored' = n
        /\ UNCHANGED <<parent, revoked, expired, serving, ended, disturbed>>
    BY DEF Login, SetAuth
  <1> HIDE DEF n
  <1>3. SessionTypeOK'
    BY <1>1, <1>2 DEF IInv, SessionTypeOK
  <1>4. ReqInv'
    <2>1. SUFFICES ASSUME NEW p \in Handlers PROVE RequestOK(serving[p], issued', revoked')
      BY <1>2 DEF ReqInv
    <2>2. RequestOK(serving[p], issued, revoked)
      BY DEF IInv, ReqInv
    <2>3. QED BY <1>2, <2>2 DEF RequestOK
  <1>5. LockInv'
    BY <1>2 DEF IInv, LockInv, HoldsLock
  <1>6. /\ family'[n] = n
        /\ \A t \in issued : family'[t] = family[t] /\ family[t] \in issued
    BY <1>1, <1>2 DEF IInv, SessionTypeOK, TableInv
  <1>7. parent[n] = NoToken
    BY <1>1 DEF IInv, TableInv
  <1>8. TableInv'
    BY <1>1, <1>2, <1>6, <1>7 DEF IInv, SessionTypeOK, TableInv
  <1>9. OneActiveToken'
    <2>1. SUFFICES ASSUME NEW x \in issued', NEW y \in issued', x \notin revoked,
                          y \notin revoked, family'[x] = family'[y]
                   PROVE  x = y
      BY <1>2 DEF OneActiveToken, ActiveTokens
    <2>2. CASE x = n \/ y = n
      BY <1>1, <1>2, <1>6, <2>1, <2>2
    <2>3. CASE x # n /\ y # n
      <3>1. x \in ActiveTokens(family[x]) /\ y \in ActiveTokens(family[x]) /\ family[x] \in Tokens
        BY <1>2, <1>6, <2>1, <2>3 DEF ActiveTokens, IInv, SessionTypeOK
      <3>2. QED BY <3>1 DEF IInv, OneActiveToken
    <2>4. QED BY <2>2, <2>3
  <1>10. RotatedOnce'
    BY <1>2, <1>7 DEF IInv, RotatedOnce
  <1>11. QED BY <1>3, <1>4, <1>5, <1>8, <1>9, <1>10 DEF IInv

(* Rotate inserts the successor of a row that is locked and active, and so    *)
(* the only active one of its family: the same commit revokes it.             *)
LEMMA RotateStep ==
    ASSUME IInv, NEW q \in Handlers, Rotate(q)
    PROVE  IInv'
  <1> DEFINE n == NewToken
             o == serving[q].token
             r == [serving[q] EXCEPT !.at = "granted", !.new = n]
  <1>1. n \in Tokens /\ n \notin issued
    BY FreshToken DEF IInv, Rotate
  <1>2. serving[q] # NoRequest /\ serving[q].at = "rotate"
    BY DEF Rotate, Stage, NoRequest
  <1>3. /\ serving[q] \in AuthRequest /\ RequestOK(serving[q], issued, revoked)
        /\ o \in issued /\ o \notin revoked
    BY <1>2, InFlightFacts DEF RequestOK
  <1>4. serving[q].op = "refresh"
    BY <1>2, InFlightFacts DEF RequestOK, LogoutSteps
  <1>5. /\ r \in AuthRequest /\ r.at = "granted" /\ r.op = "refresh" /\ r.token = o
        /\ r.new = n /\ r.targets = serving[q].targets
    BY <1>1, <1>3, <1>4 DEF AuthRequest, Stages
  <1>6. /\ issued' = issued \cup {n}
        /\ family' = [family EXCEPT ![n] = family[o]]
        /\ parent' = [parent EXCEPT ![n] = o]
        /\ revoked' = revoked \cup {o}
        /\ serving' = [serving EXCEPT ![q] = r]
        /\ UNCHANGED <<expired, held, stored, ended, disturbed>>
    BY DEF Rotate, browser
  <1>7. \A p \in Handlers \ {q} : serving[p].at = "rotate" => serving[p].token \notin revoked'
    <2>1. SUFFICES ASSUME NEW p \in Handlers, p # q, serving[p].at = "rotate"
                   PROVE  serving[p].token \notin revoked /\ serving[p].token # o
      BY <1>6
    <2>2. serving[p] # NoRequest
      BY <2>1 DEF NoRequest
    <2>3. /\ serving[p].token \notin revoked
          /\ serving[p].op = "refresh"
      BY <2>1, <2>2, InFlightFacts DEF RequestOK, LogoutSteps
    <2>4. HoldsLock(serving[p]) /\ HoldsLock(serving[q])
      BY <1>2, <1>4, <2>1, <2>3 DEF HoldsLock
    <2>5. QED BY <2>1, <2>3, <2>4 DEF IInv, LockInv
  <1>8. RequestOK(r, issued', revoked')
    <2> HIDE DEF r
    <2>1. QED BY <1>2, <1>3, <1>5, <1>6 DEF RequestOK, RefreshSteps
  <1>9. /\ family'[n] = family[o] /\ family[o] \in issued
        /\ \A t \in issued : family'[t] = family[t] /\ family[t] \in issued
        /\ parent'[n] = o
        /\ \A t \in Tokens : t # n => parent'[t] = parent[t]
    BY <1>1, <1>3, <1>6 DEF IInv, SessionTypeOK, TableInv
  <1>10. /\ serving' \in [Handlers -> AuthRequest \cup {NoRequest}] /\ ReqInv' /\ LockInv'
    <2>1. ~HoldsLock(r) /\ issued \subseteq issued'
      BY <1>5, <1>6 DEF HoldsLock
    <2> HIDE DEF r
    <2>2. QED BY <1>5, <1>6, <1>7, <1>8, <2>1, RequestReplaced
  <1> HIDE DEF n, o, r
  <1>11. SessionTypeOK'
    BY <1>1, <1>3, <1>6, <1>9, <1>10 DEF IInv, SessionTypeOK
  <1>12. TableInv'
    BY <1>1, <1>3, <1>6, <1>9 DEF IInv, SessionTypeOK, TableInv
  <1>13. OneActiveToken'
    <2>1. SUFFICES ASSUME NEW x \in issued', NEW y \in issued', x \notin revoked',
                          y \notin revoked', family'[x] = family'[y]
                   PROVE  x = y
      BY DEF OneActiveToken, ActiveTokens
    <2>2. \A t \in issued : t \notin revoked /\ family[t] = family[o] => t = o
      <3>1. SUFFICES ASSUME NEW t \in issued, t \notin revoked, family[t] = family[o]
                     PROVE  t = o
        OBVIOUS
      <3>2. t \in ActiveTokens(family[o]) /\ o \in ActiveTokens(family[o]) /\ family[o] \in Tokens
        BY <1>3, <1>9, <3>1 DEF ActiveTokens, IInv, SessionTypeOK
      <3>3. QED BY <3>2 DEF IInv, OneActiveToken
    <2>3. CASE x = n \/ y = n
      BY <1>6, <1>9, <2>1, <2>2, <2>3
    <2>4. CASE x # n /\ y # n
      <3>1. x \in ActiveTokens(family[x]) /\ y \in ActiveTokens(family[x]) /\ family[x] \in Tokens
        BY <1>6, <1>9, <2>1, <2>4 DEF ActiveTokens, IInv, SessionTypeOK
      <3>2. QED BY <3>1 DEF IInv, OneActiveToken
    <2>5. QED BY <2>3, <2>4
  <1>14. RotatedOnce'
    <2>1. \A t \in issued : t \in Tokens /\ t # n /\ parent[t] # o
      BY <1>1, <1>3, SessionsAssumption DEF IInv, SessionTypeOK, TableInv
    <2>2. QED BY <1>6, <1>9, <2>1 DEF IInv, RotatedOnce
  <1>15. QED BY <1>10, <1>11, <1>12, <1>13, <1>14 DEF IInv

(* RevokeFamily revokes rows that no rotation in progress holds. *)
LEMMA RevokeStep ==
    ASSUME IInv, NEW q \in Handlers, RevokeFamily(q)
    PROVE  IInv'
  <1> DEFINE r == [serving[q] EXCEPT
                     !.at = IF serving[q].op = "logout" THEN "loggedout" ELSE "rejected",
                     !.targets = {}]
             T == serving[q].targets
  <1>1. serving[q] # NoRequest /\ serving[q].at = "revoke"
    BY DEF RevokeFamily, Stage, NoRequest
  <1>2. /\ serving[q] \in AuthRequest /\ RequestOK(serving[q], issued, revoked)
        /\ serving[q].op \in {"refresh", "logout"}
        /\ T \subseteq issued /\ family[serving[q].token] \in issued
    BY <1>1, InFlightFacts, FamilyIssued
  <1>3. /\ r \in AuthRequest /\ r.op = serving[q].op /\ r.token = serving[q].token
        /\ r.new = serving[q].new /\ r.tab = serving[q].tab /\ r.targets = {}
        /\ r.op = "logout" => r.at = "loggedout"
        /\ r.op = "refresh" => r.at = "rejected"
        /\ r.at \in {"loggedout", "rejected"}
    BY <1>2 DEF AuthRequest, Stages
  <1>4. /\ revoked' = revoked \cup T
        /\ ended' = ended \cup {family[serving[q].token]}
        /\ serving' = [serving EXCEPT ![q] = r]
        /\ \A t \in T : ~RowLocked(q, t)
        /\ UNCHANGED <<issued, family, parent, expired, held, stored, disturbed>>
    BY DEF RevokeFamily, Reply, browser
  <1> HIDE DEF r, T
  <1>5. \A p \in Handlers \ {q} : serving[p].at = "rotate" => serving[p].token \notin revoked'
    <2>1. SUFFICES ASSUME NEW p \in Handlers, p # q, serving[p].at = "rotate"
                   PROVE  serving[p].token \notin revoked /\ serving[p].token \notin T
      BY <1>4
    <2>2. serving[p] # NoRequest
      BY <2>1 DEF NoRequest
    <2>3. serving[p].token \notin revoked /\ serving[p].op = "refresh"
      BY <2>1, <2>2, InFlightFacts DEF RequestOK, LogoutSteps
    <2>4. RowLocked(q, serving[p].token)
      BY <2>1, <2>3 DEF RowLocked
    <2>5. QED BY <1>4, <2>3, <2>4
  <1>6. RequestOK(r, issued', revoked')
    BY <1>1, <1>2, <1>3, <1>4 DEF RequestOK, RefreshSteps, LogoutSteps
  <1>7. serving' \in [Handlers -> AuthRequest \cup {NoRequest}] /\ ReqInv' /\ LockInv'
    <2>1. ~HoldsLock(r) /\ issued \subseteq issued'
      BY <1>3, <1>4 DEF HoldsLock
    <2>2. QED BY <1>3, <1>4, <1>5, <1>6, <2>1, RequestReplaced
  <1>8. SessionTypeOK'
    BY <1>2, <1>4, <1>7 DEF IInv, SessionTypeOK
  <1>9. TableInv'
    BY <1>4 DEF IInv, TableInv
  <1>10. OneActiveToken' /\ RotatedOnce'
    BY <1>4 DEF IInv, OneActiveToken, RotatedOnce, ActiveTokens
  <1>11. QED BY <1>7, <1>8, <1>9, <1>10 DEF IInv

(* SelectForUpdate takes the lock only when no other rotation has it, and     *)
(* goes on to rotate only a row that is not revoked.                          *)
LEMMA SelectStep ==
    ASSUME IInv, NEW q \in Handlers, SelectForUpdate(q)
    PROVE  IInv'
  <1> DEFINE s == IF serving[q].token \in revoked THEN "reuse"
                  ELSE IF serving[q].token \in expired THEN "rejected" ELSE "rotate"
             r == [serving[q] EXCEPT !.at = s]
  <1>1. serving[q] # NoRequest /\ serving[q].at = "refresh"
    BY DEF SelectForUpdate, Stage, NoRequest
  <1>2. /\ serving[q] \in AuthRequest /\ RequestOK(serving[q], issued, revoked)
        /\ serving[q].op = "refresh"
    BY <1>1, InFlightFacts DEF RequestOK, LogoutSteps
  <1>3. /\ s \in {"reuse", "rejected", "rotate"}
        /\ s = "rotate" => serving[q].token \notin revoked
    OBVIOUS
  <1> HIDE DEF s
  <1>4. /\ r \in AuthRequest /\ r.at = s /\ r.op = "refresh" /\ r.token = serving[q].token
        /\ r.new = serving[q].new /\ r.targets = serving[q].targets
    BY <1>2, <1>3 DEF AuthRequest, Stages
  <1>5. serving' = [serving EXCEPT ![q] = r] /\ ~RowLocked(q, serving[q].token)
    BY DEF SelectForUpdate, GoTo, s
  <1> HIDE DEF r
  <1>6. RequestOK(r, issued, revoked)
    BY <1>1, <1>2, <1>3, <1>4 DEF RequestOK, RefreshSteps
  <1>7. \A p \in Handlers \ {q} : HoldsLock(serving[p]) => serving[p].token # r.token
    BY <1>4, <1>5 DEF RowLocked, HoldsLock
  <1>8. /\ held' \in [Tabs -> issued \cup {NoToken}]
        /\ stored' \in issued \cup {NoToken}
        /\ ended' = ended /\ disturbed' \in SUBSET issued /\ UNCHANGED table
    BY DEF SelectForUpdate, IInv, SessionTypeOK, browser
  <1>9. QED BY <1>4, <1>5, <1>6, <1>7, <1>8, RequestStep

(* FindFamily keeps the lock of a rotation that found its token revoked. *)
LEMMA FindStep ==
    ASSUME IInv, NEW q \in Handlers, FindFamily(q)
    PROVE  IInv'
  <1> DEFINE T == ActiveTokens(family[serving[q].token])
             r == [serving[q] EXCEPT !.at = "revoke", !.targets = T]
  <1>1. serving[q] # NoRequest /\ serving[q].at \in {"reuse", "logout"}
    BY DEF FindFamily, NoRequest
  <1>2. /\ serving[q] \in AuthRequest /\ RequestOK(serving[q], issued, revoked)
        /\ serving[q].op \in {"refresh", "logout"}
    BY <1>1, InFlightFacts
  <1>3. T \subseteq issued /\ T \in SUBSET Tokens
    BY DEF ActiveTokens, IInv, SessionTypeOK
  <1> HIDE DEF T
  <1>4. /\ r \in AuthRequest /\ r.at = "revoke" /\ r.op = serving[q].op
        /\ r.token = serving[q].token /\ r.tab = serving[q].tab
        /\ r.new = serving[q].new /\ r.targets = T
    BY <1>2, <1>3 DEF AuthRequest, Stages
  <1>5. serving' = [serving EXCEPT ![q] = r]
    BY DEF FindFamily, T
  <1> HIDE DEF r
  <1>6. RequestOK(r, issued, revoked)
    BY <1>1, <1>2, <1>3, <1>4 DEF RequestOK, RefreshSteps, LogoutSteps
  <1>7. ASSUME HoldsLock(r)
        PROVE  \A p \in Handlers \ {q} : HoldsLock(serving[p]) => serving[p].token # r.token
    <2>1. HoldsLock(serving[q])
      BY <1>1, <1>2, <1>4, <1>7 DEF HoldsLock, RequestOK, RefreshSteps
    <2>2. QED BY <1>4, <2>1 DEF IInv, LockInv
  <1>8. /\ held' \in [Tabs -> issued \cup {NoToken}]
        /\ stored' \in issued \cup {NoToken}
        /\ ended' = ended /\ disturbed' \in SUBSET issued /\ UNCHANGED table
    BY DEF FindFamily, IInv, SessionTypeOK, browser
  <1>9. QED BY <1>4, <1>5, <1>6, <1>7, <1>8, RequestStep

(* A request that fails before its commit answers, and gives up its lock. *)
LEMMA AbortStep ==
    ASSUME IInv, NEW q \in Handlers, Abort(q)
    PROVE  IInv'
  <1> DEFINE r == [serving[q] EXCEPT
                     !.at = IF serving[q].op = "logout" THEN "loggedout" ELSE "rejected",
                     !.targets = {}]
  <1>1. serving[q] # NoRequest
    BY DEF Abort, NoRequest
  <1>2. /\ serving[q] \in AuthRequest /\ RequestOK(serving[q], issued, revoked)
        /\ serving[q].op \in {"refresh", "logout"}
    BY <1>1, InFlightFacts
  <1>3. /\ r \in AuthRequest /\ r.op = serving[q].op /\ r.token = serving[q].token
        /\ r.new = serving[q].new /\ r.tab = serving[q].tab /\ r.targets = {}
        /\ r.op = "logout" => r.at = "loggedout"
        /\ r.op = "refresh" => r.at = "rejected"
        /\ r.at \in {"loggedout", "rejected"}
    BY <1>2 DEF AuthRequest, Stages
  <1>4. serving' = [serving EXCEPT ![q] = r]
    BY DEF Abort, Reply
  <1> HIDE DEF r
  <1>5. RequestOK(r, issued, revoked) /\ ~HoldsLock(r)
    BY <1>1, <1>2, <1>3 DEF RequestOK, RefreshSteps, LogoutSteps, HoldsLock
  <1>6. /\ held' \in [Tabs -> issued \cup {NoToken}]
        /\ stored' \in issued \cup {NoToken}
        /\ ended' = ended /\ disturbed' \in SUBSET issued /\ UNCHANGED table
    BY DEF Abort, IInv, SessionTypeOK, browser
  <1>7. QED BY <1>3, <1>4, <1>5, <1>6, RequestStep

(* The answers: the store takes a token of the table, or none. *)
LEMMA FinishStep ==
    ASSUME IInv, NEW q \in Handlers, Answered(q) \/ AnswerLost(q) \/ LoggedOut(q)
    PROVE  IInv'
  <1>1. serving[q] # NoRequest
    BY DEF Answered, AnswerLost, LoggedOut, Stage, NoRequest
  <1>2. /\ serving[q].token \in issued /\ serving[q].new \in issued \cup {NoToken}
        /\ serving[q].tab \in Tabs \cup {NoTab} /\ family[serving[q].token] \in issued
    BY <1>1, InFlightFacts, FamilyIssued
  <1>3. NoRequest \in AuthRequest \cup {NoRequest} /\ RequestOK(NoRequest, issued, revoked)
        /\ ~HoldsLock(NoRequest)
    BY DEF RequestOK, HoldsLock, NoRequest
  <1>4. serving' = [serving EXCEPT ![q] = NoRequest] /\ UNCHANGED table /\ ended' = ended
    BY DEF Answered, AnswerLost, LoggedOut, Done
  <1>5. disturbed' \in SUBSET issued
    BY <1>2 DEF Answered, AnswerLost, LoggedOut, IInv, SessionTypeOK
  <1>6. /\ held' \in [Tabs -> issued \cup {NoToken}]
        /\ stored' \in issued \cup {NoToken}
    BY <1>2 DEF Answered, AnswerLost, LoggedOut, ClearAuth, SetAuth, browser, IInv, SessionTypeOK
  <1>7. QED BY <1>3, <1>4, <1>5, <1>6, RequestStep

(* Every step keeps the inductive invariant, one case per action. *)
LEMMA InductiveStep ==
    ASSUME IInv, [SessionNext]_sessionVars
    PROVE  IInv'
  <1>1. ASSUME NEW b \in Tabs, OpenTab(b) PROVE IInv'
    <2>1. stored \in issued /\ family[stored] \in issued
      BY <1>1, FamilyIssued DEF OpenTab, IInv, SessionTypeOK
    <2>2. SessionTypeOK'
      BY <1>1, <2>1 DEF OpenTab, table, IInv, SessionTypeOK
    <2>3. ReqInv' /\ LockInv'
      BY <1>1 DEF OpenTab, table, IInv, ReqInv, LockInv, RequestOK, HoldsLock
    <2>4. TableInv' /\ OneActiveToken' /\ RotatedOnce'
      BY <1>1, TableKept DEF OpenTab, table
    <2>5. QED BY <2>2, <2>3, <2>4 DEF IInv
  <1>2. ASSUME NEW b \in Tabs, Login(b) PROVE IInv'
    BY <1>2, LoginStep
  <1>3. ASSUME NEW t \in Tokens, Expire(t) PROVE IInv'
    <2>1. SessionTypeOK'
      BY <1>3 DEF Expire, browser, IInv, SessionTypeOK
    <2>2. ReqInv' /\ LockInv'
      BY <1>3 DEF Expire, IInv, ReqInv, LockInv, RequestOK, HoldsLock
    <2>3. TableInv' /\ OneActiveToken' /\ RotatedOnce'
      BY <1>3, TableKept DEF Expire
    <2>4. QED BY <2>1, <2>2, <2>3 DEF IInv
  <1>4. ASSUME NEW q \in Handlers, NEW b \in Tabs, refreshAccessToken(q, b) PROVE IInv'
    <2>1. held[b] \in issued /\ disturbed' \in SUBSET issued
      BY <1>4 DEF refreshAccessToken, IInv, SessionTypeOK
    <2>2. /\ Accept(q, "refresh", "refresh", b, held[b])
          /\ UNCHANGED <<table, browser, ended>>
      BY <1>4 DEF refreshAccessToken
    <2>3. QED BY <2>1, <2>2, BeginStep
  <1>5. ASSUME NEW q \in Handlers, NEW b \in Tabs, logout(q, b) PROVE IInv'
    <2>1. held[b] \in issued /\ disturbed' \in SUBSET issued
      BY <1>5 DEF logout, IInv, SessionTypeOK
    <2>2. /\ Accept(q, "logout", "logout", b, held[b])
          /\ UNCHANGED <<table, browser, ended>>
      BY <1>5 DEF logout
    <2>3. QED BY <2>1, <2>2, BeginStep
  <1>6. ASSUME NEW q \in Handlers, NEW t \in Tokens, PresentedElsewhere(q, t) PROVE IInv'
    <2>1. t \in issued /\ disturbed' \in SUBSET issued
      BY <1>6, FamilyIssued DEF PresentedElsewhere, IInv, SessionTypeOK
    <2>2. /\ Accept(q, "refresh", "refresh", NoTab, t)
          /\ UNCHANGED <<table, browser, ended>>
      BY <1>6 DEF PresentedElsewhere
    <2>3. QED BY <2>1, <2>2, BeginStep
  <1>7. ASSUME NEW q \in Handlers,
               \/ SelectForUpdate(q) \/ Rotate(q) \/ FindFamily(q) \/ RevokeFamily(q)
               \/ Abort(q) \/ Answered(q) \/ AnswerLost(q) \/ LoggedOut(q)
        PROVE  IInv'
    BY <1>7, SelectStep, RotateStep, FindStep, RevokeStep, AbortStep, FinishStep
  <1>8. CASE UNCHANGED sessionVars
    <2>1. SessionTypeOK' /\ ReqInv' /\ LockInv'
      BY <1>8 DEF sessionVars, table, browser, IInv, SessionTypeOK, ReqInv, LockInv, RequestOK, HoldsLock
    <2>2. TableInv' /\ OneActiveToken' /\ RotatedOnce'
      BY <1>8, TableKept DEF sessionVars, table
    <2>3. QED BY <2>1, <2>2 DEF IInv
  <1>9. QED BY <1>1, <1>2, <1>3, <1>4, <1>5, <1>6, <1>7, <1>8 DEF SessionNext

LEMMA InitEstablishes == SessionInit => IInv
  <1>1. SessionInit => SessionTypeOK
    BY DEF SessionInit, SessionTypeOK
  <1>2. SessionInit => ReqInv /\ LockInv
    BY DEF SessionInit, ReqInv, LockInv, RequestOK, HoldsLock, NoRequest
  <1>3. SessionInit => TableInv /\ OneActiveToken /\ RotatedOnce
    BY DEF SessionInit, TableInv, OneActiveToken, RotatedOnce, ActiveTokens
  <1>4. QED BY <1>1, <1>2, <1>3 DEF IInv

-----------------------------------------------------------------------------
(* The inductive invariant of the refresh-token table and its requests. *)
THEOREM SessionInvariant == SessionSpec => []IInv
  BY InitEstablishes, InductiveStep, PTL DEF SessionSpec

(* The table, the requests and the browser's stores keep their types. *)
THEOREM TypeCorrect == SessionSpec => []SessionTypeOK
  <1>1. IInv => SessionTypeOK
    BY DEF IInv
  <1>2. QED BY <1>1, SessionInvariant, PTL

(* A session has at most one usable token, however many tabs, replays and     *)
(* logouts run RotateRefreshToken and RevokeRefreshTokenFamily at once.       *)
THEOREM OneActive == SessionSpec => []OneActiveToken
  <1>1. IInv => OneActiveToken
    BY DEF IInv
  <1>2. QED BY <1>1, SessionInvariant, PTL

(* RotateRefreshToken exchanges no token twice. *)
THEOREM NoDoubleRotation == SessionSpec => []RotatedOnce
  <1>1. IInv => RotatedOnce
    BY DEF IInv
  <1>2. QED BY <1>1, SessionInvariant, PTL

(* What DeadFamilyStaysDead says of one step. *)
StaysDead ==
    \A f \in issued :
        ActiveTokens(f) = {} => {t \in issued' \ revoked' : family'[t] = f} = {}

LEMMA StaysDeadStep ==
    ASSUME IInv, SessionNext
    PROVE  StaysDead
  <1> SUFFICES ASSUME NEW f \in issued, ActiveTokens(f) = {},
                      NEW t \in issued', t \notin revoked', family'[t] = f
               PROVE  FALSE
    BY DEF StaysDead
  <1>1. CASE UNCHANGED <<issued, family, revoked>>
    BY <1>1 DEF ActiveTokens
  <1>2. ASSUME NEW b \in Tabs, Login(b) PROVE FALSE
    <2>1. NewToken \in Tokens /\ NewToken \notin issued
      BY <1>2, FreshToken DEF IInv, Login
    <2>2. CASE t = NewToken
      BY <1>2, <2>1, <2>2 DEF Login, IInv, SessionTypeOK
    <2>3. CASE t # NewToken
      BY <1>2, <2>1, <2>3 DEF Login, ActiveTokens, IInv, SessionTypeOK
    <2>4. QED BY <2>2, <2>3
  <1>3. ASSUME NEW q \in Handlers, Rotate(q) PROVE FALSE
    <2>1. NewToken \in Tokens /\ NewToken \notin issued
      BY <1>3, FreshToken DEF IInv, Rotate
    <2>2. serving[q] # NoRequest /\ serving[q].at = "rotate"
      BY <1>3 DEF Rotate, Stage, NoRequest
    <2>3. serving[q].token \in issued /\ serving[q].token \notin revoked
      BY <2>2, InFlightFacts DEF RequestOK
    <2>4. family[serving[q].token] # f
      BY <2>3 DEF ActiveTokens
    <2>5. CASE t = NewToken
      BY <1>3, <2>1, <2>4, <2>5 DEF Rotate, IInv, SessionTypeOK
    <2>6. CASE t # NewToken
      BY <1>3, <2>1, <2>6 DEF Rotate, ActiveTokens, IInv, SessionTypeOK
    <2>7. QED BY <2>5, <2>6
  <1>4. ASSUME NEW q \in Handlers, RevokeFamily(q) PROVE FALSE
    BY <1>4 DEF RevokeFamily, ActiveTokens
  <1>5. QED
    BY <1>1, <1>2, <1>3, <1>4
       DEF SessionNext, OpenTab, Expire, refreshAccessToken, logout, PresentedElsewhere,
           SelectForUpdate, FindFamily, Abort, Answered, AnswerLost, LoggedOut, table

(* A session whose tokens are all revoked is over: no rotation in progress    *)
(* inserts another token into its family.                                     *)
THEOREM DeadStaysDead == SessionSpec => DeadFamilyStaysDead
  <1>1. IInv /\ [SessionNext]_sessionVars => [StaysDead]_sessionVars
    BY StaysDeadStep
  <1>2. QED
    BY <1>1, SessionInvariant, PTL DEF SessionSpec, DeadFamilyStaysDead, StaysDead

-----------------------------------------------------------------------------
(***************************************************************************)
(* DedupAvoidsReuse.  A session that nothing has disturbed and nobody has  *)
(* ended is in one tab, and the tab has at most one refresh in flight      *)
(* (ShareInv).  Its token can be revoked under the tab's feet only by that *)
(* refresh (HeldInv), so the next one presents a token that is good        *)
(* (QuietInv).  RecordInv keeps the statements of other sessions off it.   *)
(***************************************************************************)
(* Nothing has happened to the session f that its tab does not know of. *)
Calm(f) == f \notin disturbed \cup ended

Refreshes(r) == r.op = "refresh"

(* A statement that revokes a family finds its rows, and the token granted is *)
(* of the family of the token presented.                                      *)
RecordInv ==
    \A q \in Handlers :
        serving[q] # NoRequest =>
            /\ \A t \in serving[q].targets : family[t] = family[serving[q].token]
            /\ serving[q].new # NoToken =>
                 serving[q].at = "granted" /\ family[serving[q].new] = family[serving[q].token]

(* What a refresh of a calm session presents or is granted is not revoked. *)
QuietInv ==
    \A q \in Handlers :
        Refreshes(serving[q]) /\ Calm(family[serving[q].token]) =>
            /\ serving[q].tab \in Tabs
            /\ serving[q].at \notin {"reuse", "revoke"}
            /\ serving[q].at = "refresh" => serving[q].token \notin revoked
            /\ serving[q].new \notin revoked

(* A calm session is in one tab, with at most one refresh in flight. *)
ShareInv ==
    /\ \A p, q \in Handlers :
         /\ Refreshes(serving[p]) /\ Refreshes(serving[q]) /\ Calm(family[serving[p].token])
         /\ family[serving[p].token] = family[serving[q].token]
         => p = q
    /\ \A q \in Handlers, b \in Tabs :
         /\ Refreshes(serving[q]) /\ held[b] # NoToken /\ Calm(family[held[b]])
         /\ family[serving[q].token] = family[held[b]]
         => serving[q].tab = b
    /\ \A a, b \in Tabs :
         /\ held[a] # NoToken /\ held[b] # NoToken /\ Calm(family[held[a]])
         /\ family[held[a]] = family[held[b]]
         => a = b

(* The token a tab holds of a calm session is revoked only while the answer   *)
(* that brings its successor is on its way to the tab.                        *)
HeldInv ==
    \A b \in Tabs :
        held[b] \in revoked /\ Calm(family[held[b]]) =>
            \E q \in Handlers :
                /\ Refreshes(serving[q]) /\ serving[q].at = "granted" /\ serving[q].tab = b
                /\ family[serving[q].token] = family[held[b]]

QInv == RecordInv /\ QuietInv /\ ShareInv /\ HeldInv

(* A request replaced by r, with the table and the stores as they were, owes  *)
(* this: r is in order, it is in the family of a calm session only if its     *)
(* predecessor was or the tab had no other, and it does not drop an answer.   *)
LEMMA QuietReplaced ==
    ASSUME IInv, QInv, NEW q \in Handlers, NEW r \in AuthRequest \cup {NoRequest},
           serving' = [serving EXCEPT ![q] = r],
           UNCHANGED <<issued, family, revoked, held>>,
           disturbed \subseteq disturbed', ended \subseteq ended',
           r # NoRequest => /\ \A t \in r.targets : family[t] = family[r.token]
                            /\ r.new # NoToken => r.at = "granted" /\ family[r.new] = family[r.token],
           Refreshes(r) /\ family[r.token] \notin disturbed' \cup ended' =>
               /\ r.tab \in Tabs
               /\ r.at \notin {"reuse", "revoke"}
               /\ r.at = "refresh" => r.token \notin revoked
               /\ r.new \notin revoked
               /\ \A p \in Handlers : Refreshes(serving[p]) /\ family[serving[p].token] = family[r.token] => p = q
               /\ \A b \in Tabs : held[b] # NoToken /\ family[held[b]] = family[r.token] => r.tab = b,
           Refreshes(serving[q]) /\ serving[q].at = "granted" /\ family[serving[q].token] \notin disturbed' \cup ended' => r = serving[q]
    PROVE  QInv'
  <1>1. /\ serving'[q] = r
        /\ \A p \in Handlers \ {q} : serving'[p] = serving[p]
        /\ issued' = issued /\ family' = family /\ revoked' = revoked /\ held' = held
    BY DEF IInv, SessionTypeOK
  <1>2. \A f : f \notin disturbed' \cup ended' => Calm(f)
    BY DEF Calm
  <1>3. RecordInv'
    BY <1>1 DEF QInv, RecordInv
  <1>4. QuietInv'
    <2>1. SUFFICES ASSUME NEW p \in Handlers, Refreshes(serving'[p]), family[serving'[p].token] \notin disturbed' \cup ended'
                   PROVE  /\ serving'[p].tab \in Tabs
                          /\ serving'[p].at \notin {"reuse", "revoke"}
                          /\ serving'[p].at = "refresh" => serving'[p].token \notin revoked
                          /\ serving'[p].new \notin revoked
      BY <1>1 DEF QuietInv, Calm
    <2>2. CASE p = q
      BY <1>1, <2>1, <2>2
    <2>3. CASE p # q
      BY <1>1, <1>2, <2>1, <2>3 DEF QInv, QuietInv
    <2>4. QED BY <2>2, <2>3
  <1>5. ShareInv'
    BY <1>1 DEF QInv, ShareInv, Calm
  <1>6. HeldInv'
    <2>1. SUFFICES ASSUME NEW b \in Tabs, held[b] \in revoked,
                          family[held[b]] \notin disturbed' \cup ended'
                   PROVE  \E p \in Handlers :
                            /\ Refreshes(serving'[p]) /\ serving'[p].at = "granted" /\ serving'[p].tab = b
                            /\ family[serving'[p].token] = family[held[b]]
      BY <1>1 DEF HeldInv, Calm
    <2>2. PICK p \in Handlers :
            /\ Refreshes(serving[p]) /\ serving[p].at = "granted" /\ serving[p].tab = b
            /\ family[serving[p].token] = family[held[b]]
      BY <1>2, <2>1 DEF QInv, HeldInv
    <2>3. serving'[p] = serving[p]
      BY <1>1, <2>1, <2>2
    <2>4. QED BY <2>2, <2>3
  <1>7. QED BY <1>3, <1>4, <1>5, <1>6 DEF QInv

(* A tab presents the token it holds, or somebody presents one from elsewhere. *)
LEMMA QuietBegin ==
    ASSUME IInv, QInv, NEW q \in Handlers, NEW b \in Tabs,
           refreshAccessToken(q, b) \/ logout(q, b)
    PROVE  QInv'
  <1> DEFINE op == IF logout(q, b) THEN "logout" ELSE "refresh"
             r == [at |-> op, op |-> op, tab |-> b, token |-> held[b],
                   new |-> NoToken, targets |-> {}]
  <1>1. /\ serving' = [serving EXCEPT ![q] = r] /\ serving[q].at = "idle"
        /\ UNCHANGED <<issued, family, revoked, held, disturbed, ended>>
    BY DEF refreshAccessToken, logout, Accept, Stage, table, browser
  <1>2. held[b] \in issued /\ held[b] \in Tokens /\ held[b] # NoToken
    BY DEF refreshAccessToken, logout, IInv, SessionTypeOK
  <1>3. /\ op \in {"logout", "refresh"}
        /\ op = "refresh" => \A p \in Handlers : Refreshes(serving[p]) => serving[p].tab # b
    BY DEF refreshAccessToken, Refreshing, Refreshes
  <1> HIDE DEF op
  <1>4. /\ r \in AuthRequest /\ r.at = op /\ r.op = op /\ r.tab = b /\ r.token = held[b]
        /\ r.new = NoToken /\ r.targets = {}
    BY <1>2, <1>3 DEF AuthRequest, Stages
  <1> HIDE DEF r
  <1>5. NoToken \notin revoked
    BY SessionsAssumption DEF IInv, SessionTypeOK
  <1>6. ASSUME Refreshes(r), family[r.token] \notin disturbed' \cup ended'
        PROVE  /\ r.token \notin revoked
               /\ \A p \in Handlers : Refreshes(serving[p]) => family[serving[p].token] # family[r.token]
               /\ \A a \in Tabs : held[a] # NoToken /\ family[held[a]] = family[r.token] => r.tab = a
    <2>1. Calm(family[held[b]])
      BY <1>1, <1>4, <1>6 DEF Calm
    <2>2. \A p \in Handlers : Refreshes(serving[p]) => serving[p].tab # b
      BY <1>3, <1>4, <1>6 DEF Refreshes
    <2>3. held[b] \notin revoked
      BY <2>1, <2>2 DEF QInv, HeldInv
    <2>4. QED BY <1>2, <1>4, <2>1, <2>2, <2>3 DEF QInv, ShareInv
  <1>7. ~(Refreshes(serving[q]) /\ serving[q].at = "granted")
    BY <1>1
  <1>8. QED BY <1>1, <1>3, <1>4, <1>5, <1>6, <1>7, QuietReplaced

LEMMA QuietElsewhere ==
    ASSUME IInv, QInv, NEW q \in Handlers, NEW t \in Tokens, PresentedElsewhere(q, t)
    PROVE  QInv'
  <1> DEFINE r == [at |-> "refresh", op |-> "refresh", tab |-> NoTab, token |-> t,
                   new |-> NoToken, targets |-> {}]
  <1>1. /\ serving' = [serving EXCEPT ![q] = r] /\ serving[q].at = "idle"
        /\ disturbed' = disturbed \cup {family[t]}
        /\ UNCHANGED <<issued, family, revoked, held, ended>>
    BY DEF PresentedElsewhere, Accept, Stage, table, browser
  <1>2. /\ r \in AuthRequest /\ r.token = t /\ r.new = NoToken /\ r.targets = {}
    BY DEF AuthRequest, Stages
  <1> HIDE DEF r
  <1>3. QED BY <1>1, <1>2, QuietReplaced

(* A request moves on with the token and the tab it came with. *)
LEMMA QuietMoves ==
    ASSUME IInv, QInv, NEW q \in Handlers, NEW r \in AuthRequest,
           serving' = [serving EXCEPT ![q] = r], serving[q] # NoRequest, serving[q].at # "granted",
           UNCHANGED <<issued, family, revoked, held, disturbed, ended>>,
           r.op = serving[q].op, r.tab = serving[q].tab, r.token = serving[q].token,
           r.new = serving[q].new,
           \A t \in r.targets : family[t] = family[r.token],
           Refreshes(serving[q]) /\ Calm(family[serving[q].token]) => r.at \in {"rotate", "rejected"}
    PROVE  QInv'
  <1>1. r.new = NoToken
    BY DEF QInv, RecordInv
  <1>2. NoToken \notin revoked
    BY SessionsAssumption DEF IInv, SessionTypeOK
  <1>3. ASSUME Refreshes(r), family[r.token] \notin disturbed' \cup ended'
        PROVE  /\ r.tab \in Tabs
               /\ r.at \in {"rotate", "rejected"}
               /\ \A p \in Handlers : Refreshes(serving[p]) /\ family[serving[p].token] = family[r.token] => p = q
               /\ \A b \in Tabs : held[b] # NoToken /\ family[held[b]] = family[r.token] => r.tab = b
    <2>1. Refreshes(serving[q]) /\ Calm(family[serving[q].token])
      BY <1>3 DEF Refreshes, Calm
    <2>2. QED BY <2>1 DEF QInv, QuietInv, ShareInv
  <1>4. QED BY <1>1, <1>2, <1>3, QuietReplaced

LEMMA QuietSelect ==
    ASSUME IInv, QInv, NEW q \in Handlers, SelectForUpdate(q)
    PROVE  QInv'
  <1> DEFINE s == IF serving[q].token \in revoked THEN "reuse"
                  ELSE IF serving[q].token \in expired THEN "rejected" ELSE "rotate"
             r == [serving[q] EXCEPT !.at = s]
  <1>1. serving[q] # NoRequest /\ serving[q].at = "refresh" /\ serving[q] \in AuthRequest
    BY InFlightFacts DEF SelectForUpdate, Stage, NoRequest
  <1>2. /\ s \in {"reuse", "rejected", "rotate"}
        /\ s = "reuse" => serving[q].token \in revoked
    OBVIOUS
  <1> HIDE DEF s
  <1>3. /\ r \in AuthRequest /\ r.at = s /\ r.op = serving[q].op /\ r.token = serving[q].token
        /\ r.tab = serving[q].tab /\ r.new = serving[q].new /\ r.targets = serving[q].targets
    BY <1>1, <1>2 DEF AuthRequest, Stages
  <1>4. /\ serving' = [serving EXCEPT ![q] = r]
        /\ UNCHANGED <<issued, family, revoked, held, disturbed, ended>>
    BY DEF SelectForUpdate, GoTo, s, table, browser
  <1> HIDE DEF r
  <1>5. Refreshes(serving[q]) /\ Calm(family[serving[q].token]) => r.at \in {"rotate", "rejected"}
    BY <1>1, <1>2, <1>3 DEF QInv, QuietInv
  <1>6. \A t \in r.targets : family[t] = family[r.token]
    BY <1>1, <1>3 DEF QInv, RecordInv
  <1>7. QED BY <1>1, <1>3, <1>4, <1>5, <1>6, QuietMoves

LEMMA QuietFind ==
    ASSUME IInv, QInv, NEW q \in Handlers, FindFamily(q)
    PROVE  QInv'
  <1> DEFINE T == ActiveTokens(family[serving[q].token])
             r == [serving[q] EXCEPT !.at = "revoke", !.targets = T]
  <1>1. serving[q] # NoRequest /\ serving[q].at \in {"reuse", "logout"} /\ serving[q] \in AuthRequest
    BY InFlightFacts DEF FindFamily, NoRequest
  <1>2. T \in SUBSET Tokens /\ \A t \in T : family[t] = family[serving[q].token]
    BY DEF ActiveTokens, IInv, SessionTypeOK
  <1> HIDE DEF T
  <1>3. /\ r \in AuthRequest /\ r.at = "revoke" /\ r.op = serving[q].op /\ r.token = serving[q].token
        /\ r.tab = serving[q].tab /\ r.new = serving[q].new /\ r.targets = T
    BY <1>1, <1>2 DEF AuthRequest, Stages
  <1>4. /\ serving' = [serving EXCEPT ![q] = r]
        /\ UNCHANGED <<issued, family, revoked, held, disturbed, ended>>
    BY DEF FindFamily, T, table, browser
  <1> HIDE DEF r
  <1>5. ~(Refreshes(serving[q]) /\ Calm(family[serving[q].token]))
    <2>1. serving[q].at = "logout" => serving[q].op # "refresh"
      BY <1>1, InFlightFacts DEF RequestOK, RefreshSteps
    <2>2. QED BY <1>1, <2>1 DEF QInv, QuietInv, Refreshes
  <1>6. QED BY <1>1, <1>2, <1>3, <1>4, <1>5, QuietMoves

LEMMA QuietAbort ==
    ASSUME IInv, QInv, NEW q \in Handlers, Abort(q)
    PROVE  QInv'
  <1> DEFINE r == [serving[q] EXCEPT
                     !.at = IF serving[q].op = "logout" THEN "loggedout" ELSE "rejected",
                     !.targets = {}]
  <1>1. serving[q] # NoRequest /\ serving[q].at # "granted" /\ serving[q] \in AuthRequest
    BY InFlightFacts DEF Abort, NoRequest
  <1>2. /\ r \in AuthRequest /\ r.op = serving[q].op /\ r.token = serving[q].token
        /\ r.tab = serving[q].tab /\ r.new = serving[q].new /\ r.targets = {}
        /\ serving[q].op = "refresh" => r.at = "rejected"
    BY <1>1 DEF AuthRequest, Stages
  <1>3. /\ serving' = [serving EXCEPT ![q] = r]
        /\ UNCHANGED <<issued, family, revoked, held, disturbed, ended>>
    BY DEF Abort, Reply, table, browser
  <1> HIDE DEF r
  <1>4. QED BY <1>1, <1>2, <1>3, QuietMoves DEF Refreshes

(* A lost answer disturbs its session. *)
LEMMA QuietLost ==
    ASSUME IInv, QInv, NEW q \in Handlers, AnswerLost(q)
    PROVE  QInv'
  <1>1. /\ serving' = [serving EXCEPT ![q] = NoRequest] /\ ~Refreshes(NoRequest)
        /\ disturbed' = disturbed \cup {family[serving[q].token]}
        /\ UNCHANGED <<issued, family, revoked, held, ended>>
    BY DEF AnswerLost, Done, table, browser, Refreshes, NoRequest
  <1>2. QED BY <1>1, QuietReplaced

(* The commit of a rotation revokes the token that its tab holds, and no tab  *)
(* of another calm session holds it.                                          *)
LEMMA QuietRotate ==
    ASSUME IInv, QInv, NEW q \in Handlers, Rotate(q)
    PROVE  QInv'
  <1> DEFINE n == NewToken
             o == serving[q].token
             r == [serving[q] EXCEPT !.at = "granted", !.new = n]
  <1>1. n \in Tokens /\ n \notin issued
    BY FreshToken DEF IInv, Rotate
  <1>2. serving[q] # NoRequest /\ serving[q].at = "rotate"
    BY DEF Rotate, Stage, NoRequest
  <1>3. /\ serving[q] \in AuthRequest /\ o \in issued
        /\ serving[q].op = "refresh"
    BY <1>2, InFlightFacts DEF RequestOK, LogoutSteps
  <1>4. /\ r \in AuthRequest /\ r.at = "granted" /\ r.op = "refresh" /\ r.token = o
        /\ r.tab = serving[q].tab /\ r.new = n /\ r.targets = serving[q].targets
    BY <1>1, <1>3 DEF AuthRequest, Stages
  <1>5. /\ family' = [family EXCEPT ![n] = family[o]]
        /\ revoked' = revoked \cup {o}
        /\ serving' = [serving EXCEPT ![q] = r]
        /\ held' = held /\ disturbed' = disturbed /\ ended' = ended
    BY DEF Rotate, browser
  <1> HIDE DEF n, o, r
  <1>6. /\ family'[n] = family[o]
        /\ \A t \in issued : family'[t] = family[t]
        /\ serving'[q] = r
        /\ \A p \in Handlers \ {q} : serving'[p] = serving[p]
    BY <1>1, <1>5 DEF IInv, SessionTypeOK
  <1>7. /\ \A p \in Handlers : serving[p] # NoRequest =>
             serving[p].token \in issued /\ serving[p].targets \subseteq issued
             /\ serving[p].new \in issued \cup {NoToken}
        /\ \A p \in Handlers : Refreshes(serving[p]) => serving[p] # NoRequest
        /\ \A b \in Tabs : held[b] # NoToken => held[b] \in issued
        /\ revoked \subseteq issued /\ NoToken \notin issued
    BY InFlightFacts, SessionsAssumption DEF IInv, SessionTypeOK, Refreshes, NoRequest
  <1>8. \A p \in Handlers : Refreshes(serving'[p]) =>
          Refreshes(serving[p]) /\ serving'[p].token = serving[p].token /\ serving'[p].tab = serving[p].tab
          /\ family'[serving'[p].token] = family[serving[p].token]
    BY <1>3, <1>4, <1>6, <1>7 DEF Refreshes, o
  <1>9. RecordInv'
    <2>1. SUFFICES ASSUME NEW p \in Handlers, serving'[p] # NoRequest
                   PROVE  /\ \A t \in serving'[p].targets : family'[t] = family'[serving'[p].token]
                          /\ serving'[p].new # NoToken =>
                               /\ serving'[p].at = "granted"
                               /\ family'[serving'[p].new] = family'[serving'[p].token]
      BY DEF RecordInv
    <2>2. CASE p = q
      <3>1. \A t \in serving[q].targets : family[t] = family[o] /\ t \in issued
        BY <1>2, <1>7 DEF QInv, RecordInv, o
      <3>2. QED BY <1>3, <1>4, <1>6, <2>2, <3>1
    <2>3. CASE p # q
      <3>1. serving'[p] = serving[p] /\ serving[p] # NoRequest
        BY <1>6, <2>1, <2>3
      <3>2. /\ \A t \in serving[p].targets : family[t] = family[serving[p].token]
            /\ serving[p].new # NoToken =>
                 serving[p].at = "granted" /\ family[serving[p].new] = family[serving[p].token]
        BY <3>1 DEF QInv, RecordInv
      <3>3. /\ serving[p].token \in issued /\ serving[p].targets \subseteq issued
            /\ serving[p].new \in issued \cup {NoToken}
        BY <1>7, <3>1
      <3>4. QED BY <1>6, <3>1, <3>2, <3>3
    <2>4. QED BY <2>2, <2>3
  <1>10. QuietInv'
    <2>1. SUFFICES ASSUME NEW p \in Handlers, Refreshes(serving'[p]),
                          family'[serving'[p].token] \notin disturbed \cup ended
                   PROVE  /\ serving'[p].tab \in Tabs
                          /\ serving'[p].at \notin {"reuse", "revoke"}
                          /\ serving'[p].at = "refresh" => serving'[p].token \notin revoked'
                          /\ serving'[p].new \notin revoked'
      BY <1>5 DEF QuietInv, Calm
    <2>2. Refreshes(serving[p]) /\ Calm(family[serving[p].token])
      BY <1>8, <2>1 DEF Calm
    <2>3. /\ serving[p].tab \in Tabs
          /\ serving[p].at \notin {"reuse", "revoke"}
          /\ serving[p].at = "refresh" => serving[p].token \notin revoked
          /\ serving[p].new \notin revoked
      BY <2>2 DEF QInv, QuietInv
    <2>4. CASE p = q
      BY <1>1, <1>3, <1>4, <1>5, <1>6, <1>7, <2>3, <2>4
    <2>5. CASE p # q
      <3>1. family[serving[p].token] # family[o]
        BY <1>3, <2>2, <2>5 DEF QInv, ShareInv, Refreshes, o
      <3>2. serving[p].new # NoToken => family[serving[p].new] = family[serving[p].token]
        BY <1>7, <2>2 DEF QInv, RecordInv
      <3>3. serving[p].token # o /\ serving[p].new # o
        BY <1>3, <1>7, <3>1, <3>2
      <3>4. QED BY <1>5, <1>6, <2>3, <2>5, <3>3
    <2>6. QED BY <2>4, <2>5
  <1>11. ShareInv'
    BY <1>5, <1>6, <1>7, <1>8 DEF QInv, ShareInv, Calm
  <1>12. HeldInv'
    <2>1. SUFFICES ASSUME NEW b \in Tabs, held[b] \in revoked',
                          family'[held[b]] \notin disturbed \cup ended
                   PROVE  \E p \in Handlers :
                            /\ Refreshes(serving'[p]) /\ serving'[p].at = "granted" /\ serving'[p].tab = b
                            /\ family'[serving'[p].token] = family'[held[b]]
      BY <1>5 DEF HeldInv, Calm
    <2>2. held[b] \in issued /\ held[b] # NoToken /\ family'[held[b]] = family[held[b]]
          /\ Calm(family[held[b]])
      BY <1>3, <1>5, <1>6, <1>7, <2>1 DEF Calm
    <2>3. CASE held[b] = o
      <3>1. serving[q].tab = b
        BY <1>3, <2>2, <2>3 DEF QInv, ShareInv, Refreshes, o
      <3>2. QED BY <1>4, <1>6, <2>3, <3>1 DEF Refreshes
    <2>4. CASE held[b] \in revoked
      <3>1. PICK p \in Handlers :
              /\ Refreshes(serving[p]) /\ serving[p].at = "granted" /\ serving[p].tab = b
              /\ family[serving[p].token] = family[held[b]]
        BY <2>2, <2>4 DEF QInv, HeldInv
      <3>2. p # q
        BY <1>2, <3>1
      <3>3. serving'[p] = serving[p] /\ serving[p].token \in issued
        BY <1>6, <1>7, <3>1, <3>2
      <3>4. QED BY <1>6, <2>2, <3>1, <3>3
    <2>5. QED BY <1>5, <2>1, <2>3, <2>4
  <1>13. QED BY <1>9, <1>10, <1>11, <1>12 DEF QInv

(* What RevokeFamily revokes is of the family it ends. *)
LEMMA QuietRevoke ==
    ASSUME IInv, QInv, NEW q \in Handlers, RevokeFamily(q)
    PROVE  QInv'
  <1> DEFINE r == [serving[q] EXCEPT
                     !.at = IF serving[q].op = "logout" THEN "loggedout" ELSE "rejected",
                     !.targets = {}]
             T == serving[q].targets
             f == family[serving[q].token]
  <1>1. serving[q] # NoRequest /\ serving[q].at = "revoke" /\ serving[q] \in AuthRequest
    BY InFlightFacts DEF RevokeFamily, Stage, NoRequest
  <1>2. /\ r \in AuthRequest /\ r.op = serving[q].op /\ r.token = serving[q].token
        /\ r.new = serving[q].new /\ r.targets = {}
    BY <1>1 DEF AuthRequest, Stages
  <1>3. \A t \in T : family[t] = f /\ t # NoToken
    BY <1>1, InFlightFacts, SessionsAssumption DEF QInv, RecordInv, IInv, SessionTypeOK
  <1>4. /\ revoked' = revoked \cup T /\ ended' = ended \cup {f}
        /\ serving' = [serving EXCEPT ![q] = r]
        /\ family' = family /\ held' = held /\ disturbed' = disturbed
    BY DEF RevokeFamily, Reply, browser
  <1>5. serving[q].new = NoToken
    BY <1>1 DEF QInv, RecordInv
  <1>6. r.token = serving[q].token /\ family[r.token] = f
    BY <1>2
  <1> HIDE DEF r, T
  <1>7. serving'[q] = r /\ \A p \in Handlers \ {q} : serving'[p] = serving[p]
    BY <1>4 DEF IInv, SessionTypeOK
  <1>8. \A p \in Handlers : Refreshes(serving'[p]) /\ family[serving'[p].token] \notin disturbed' \cup ended'
          => p # q /\ serving'[p] = serving[p] /\ Calm(family[serving[p].token]) /\ family[serving[p].token] # f
    BY <1>4, <1>6, <1>7 DEF Calm
  <1>9. RecordInv'
    BY <1>2, <1>4, <1>5, <1>7 DEF QInv, RecordInv
  <1>10. QuietInv'
    <2>1. SUFFICES ASSUME NEW p \in Handlers, Refreshes(serving'[p]),
                          family[serving'[p].token] \notin disturbed' \cup ended'
                   PROVE  /\ serving'[p].tab \in Tabs
                          /\ serving'[p].at \notin {"reuse", "revoke"}
                          /\ serving'[p].at = "refresh" => serving'[p].token \notin revoked'
                          /\ serving'[p].new \notin revoked'
      BY <1>4 DEF QuietInv, Calm
    <2>2. /\ serving'[p] = serving[p] /\ Refreshes(serving[p]) /\ serving[p] # NoRequest
          /\ Calm(family[serving[p].token]) /\ family[serving[p].token] # f
      BY <1>8, <2>1 DEF Refreshes, NoRequest
    <2>3. /\ serving[p].tab \in Tabs
          /\ serving[p].at \notin {"reuse", "revoke"}
          /\ serving[p].at = "refresh" => serving[p].token \notin revoked
          /\ serving[p].new \notin revoked
      BY <2>2 DEF QInv, QuietInv
    <2>4. serving[p].new # NoToken => family[serving[p].new] = family[serving[p].token]
      BY <2>2 DEF QInv, RecordInv
    <2>5. serving[p].token \notin T /\ serving[p].new \notin T
      BY <1>3, <2>2, <2>4
    <2>6. QED BY <1>4, <2>2, <2>3, <2>5
  <1>11. ShareInv'
    BY <1>4, <1>6, <1>7 DEF QInv, ShareInv, Calm
  <1>12. HeldInv'
    <2>1. SUFFICES ASSUME NEW b \in Tabs, held[b] \in revoked',
                          family[held[b]] \notin disturbed' \cup ended'
                   PROVE  \E p \in Handlers :
                            /\ Refreshes(serving'[p]) /\ serving'[p].at = "granted" /\ serving'[p].tab = b
                            /\ family[serving'[p].token] = family[held[b]]
      BY <1>4 DEF HeldInv, Calm
    <2>2. held[b] \in revoked /\ Calm(family[held[b]])
      BY <1>3, <1>4, <2>1 DEF Calm
    <2>3. PICK p \in Handlers :
            /\ Refreshes(serving[p]) /\ serving[p].at = "granted" /\ serving[p].tab = b
            /\ family[serving[p].token] = family[held[b]]
      BY <2>2 DEF QInv, HeldInv
    <2>4. serving'[p] = serving[p]
      BY <1>1, <1>7, <2>3
    <2>5. QED BY <2>3, <2>4
  <1>13. QED BY <1>9, <1>10, <1>11, <1>12 DEF QInv

(* A request ends and its tab's store takes the token t of the same session,  *)
(* or none.                                                                   *)
LEMMA QuietStore ==
    ASSUME IInv, QInv, NEW q \in Handlers, NEW b \in Tabs, NEW t \in issued \cup {NoToken},
           serving' = [serving EXCEPT ![q] = NoRequest], serving[q] # NoRequest, serving[q].tab = b,
           held' = [held EXCEPT ![b] = t],
           UNCHANGED <<issued, family, revoked, disturbed, ended>>,
           t # NoToken => /\ Refreshes(serving[q])
                          /\ family[t] = family[serving[q].token]
                          /\ Calm(family[t]) => t \notin revoked
    PROVE  QInv'
  <1>1. /\ serving'[q] = NoRequest /\ ~Refreshes(NoRequest)
        /\ \A p \in Handlers \ {q} : serving'[p] = serving[p]
        /\ held'[b] = t /\ \A a \in Tabs \ {b} : held'[a] = held[a]
        /\ NoToken \notin revoked
    BY SessionsAssumption DEF IInv, SessionTypeOK, Refreshes, NoRequest
  <1>2. RecordInv'
    BY <1>1 DEF QInv, RecordInv
  <1>3. QuietInv'
    BY <1>1 DEF QInv, QuietInv, Calm
  <1>4. ShareInv'
    BY <1>1 DEF QInv, ShareInv, Calm
  <1>5. HeldInv'
    <2>1. SUFFICES ASSUME NEW a \in Tabs, held'[a] \in revoked, Calm(family[held'[a]])
                   PROVE  \E p \in Handlers :
                            /\ Refreshes(serving'[p]) /\ serving'[p].at = "granted" /\ serving'[p].tab = a
                            /\ family[serving'[p].token] = family[held'[a]]
      BY DEF HeldInv, Calm
    <2>2. a # b /\ held'[a] = held[a]
      BY <1>1, <2>1
    <2>3. PICK p \in Handlers :
            /\ Refreshes(serving[p]) /\ serving[p].at = "granted" /\ serving[p].tab = a
            /\ family[serving[p].token] = family[held[a]]
      BY <2>1, <2>2 DEF QInv, HeldInv
    <2>4. QED BY <1>1, <2>2, <2>3
  <1>6. QED BY <1>2, <1>3, <1>4, <1>5 DEF QInv

LEMMA QuietAnswered ==
    ASSUME IInv, QInv, NEW q \in Handlers, Answered(q) \/ LoggedOut(q)
    PROVE  QInv'
  <1>1. /\ serving[q] # NoRequest /\ serving' = [serving EXCEPT ![q] = NoRequest]
        /\ UNCHANGED <<issued, family, revoked, disturbed, ended>>
    BY DEF Answered, LoggedOut, Stage, NoRequest, Done, table
  <1>2. /\ serving[q].op \in {"refresh", "logout"} /\ serving[q].tab \in Tabs \cup {NoTab}
        /\ RequestOK(serving[q], issued, revoked)
        /\ serving[q].new \in issued \cup {NoToken}
    BY <1>1, InFlightFacts
  <1>3. CASE Answered(q)
    <2>1. Refreshes(serving[q])
      BY <1>1, <1>2, <1>3 DEF Answered, RequestOK, LogoutSteps, Refreshes
    <2>2. CASE serving[q].tab = NoTab
      <3>1. held' = held /\ ~Refreshes(NoRequest)
        BY <1>3, <2>2 DEF Answered, browser, Refreshes, NoRequest
      <3>2. ~Calm(family[serving[q].token])
        BY <2>1, <2>2, SessionsAssumption DEF QInv, QuietInv
      <3>3. QED BY <1>1, <3>1, <3>2, QuietReplaced DEF Calm
    <2>3. CASE serving[q].tab # NoTab
      <3>1. serving[q].tab \in Tabs /\ held' = [held EXCEPT ![serving[q].tab] = serving[q].new]
        BY <1>2, <1>3, <2>3 DEF Answered, SetAuth
      <3>2. serving[q].new # NoToken => family[serving[q].new] = family[serving[q].token]
        BY <1>1 DEF QInv, RecordInv
      <3>3. Calm(family[serving[q].token]) => serving[q].new \notin revoked
        BY <2>1 DEF QInv, QuietInv
      <3>4. QED BY <1>1, <1>2, <2>1, <3>1, <3>2, <3>3, QuietStore
    <2>4. QED BY <2>2, <2>3
  <1>4. CASE LoggedOut(q)
    <2>1. serving[q].tab \in Tabs
      BY <1>1, <1>2, <1>4 DEF LoggedOut, Stage, RequestOK, RefreshSteps
    <2>2. held' = [held EXCEPT ![serving[q].tab] = NoToken]
      BY <1>4 DEF LoggedOut, ClearAuth, SetAuth
    <2>3. QED BY <1>1, <2>1, <2>2, QuietStore
  <1>5. QED BY <1>3, <1>4

(* A second tab disturbs the session it opens; a new session is of a token    *)
(* that no tab and no request knows.                                          *)
LEMMA QuietOpen ==
    ASSUME IInv, QInv, NEW b \in Tabs, OpenTab(b)
    PROVE  QInv'
  <1>1. /\ held'[b] = stored /\ \A a \in Tabs \ {b} : held'[a] = held[a]
        /\ disturbed' = disturbed \cup {family[stored]}
        /\ UNCHANGED <<issued, family, revoked, serving, ended>>
    BY DEF OpenTab, table, IInv, SessionTypeOK
  <1>2. RecordInv' /\ QuietInv'
    BY <1>1 DEF QInv, RecordInv, QuietInv, Calm
  <1>3. ShareInv'
    BY <1>1 DEF QInv, ShareInv, Calm
  <1>4. HeldInv'
    BY <1>1 DEF QInv, HeldInv, Calm
  <1>5. QED BY <1>2, <1>3, <1>4 DEF QInv

LEMMA QuietLogin ==
    ASSUME IInv, QInv, NEW b \in Tabs, Login(b)
    PROVE  QInv'
  <1> DEFINE n == NewToken
  <1>1. n \in Tokens /\ n \notin issued
    BY FreshToken DEF IInv, Login
  <1>2. /\ family' = [family EXCEPT ![n] = n] /\ held' = [held EXCEPT ![b] = n]
        /\ UNCHANGED <<revoked, serving, ended, disturbed>>
    BY DEF Login, SetAuth
  <1> HIDE DEF n
  <1>3. /\ family'[n] = n
        /\ \A t \in issued : family'[t] = family[t] /\ family[t] # n
        /\ held'[b] = n /\ \A a \in Tabs \ {b} : held'[a] = held[a]
    BY <1>1, <1>2 DEF IInv, SessionTypeOK, TableInv
  <1>4. /\ \A p \in Handlers : serving[p] # NoRequest =>
             serving[p].token \in issued /\ serving[p].targets \subseteq issued
             /\ serving[p].new \in issued \cup {NoToken}
        /\ \A p \in Handlers : Refreshes(serving[p]) => serving[p] # NoRequest
        /\ \A a \in Tabs : held[a] # NoToken => held[a] \in issued
        /\ revoked \subseteq issued /\ NoToken \notin issued
    BY InFlightFacts, SessionsAssumption DEF IInv, SessionTypeOK, Refreshes, NoRequest
  <1>5. \A p \in Handlers : Refreshes(serving[p]) =>
          family'[serving[p].token] = family[serving[p].token] /\ family[serving[p].token] # n
    BY <1>3, <1>4
  <1>6. RecordInv'
    <2>1. SUFFICES ASSUME NEW p \in Handlers, serving[p] # NoRequest
                   PROVE  /\ \A t \in serving[p].targets : family'[t] = family'[serving[p].token]
                          /\ serving[p].new # NoToken =>
                               /\ serving[p].at = "granted"
                               /\ family'[serving[p].new] = family'[serving[p].token]
      BY <1>2 DEF RecordInv
    <2>2. QED BY <1>3, <1>4, <2>1 DEF QInv, RecordInv
  <1>7. QuietInv'
    BY <1>2, <1>5 DEF QInv, QuietInv, Calm
  <1>8. ShareInv'
    BY <1>2, <1>3, <1>4, <1>5 DEF QInv, ShareInv, Calm
  <1>9. HeldInv'
    <2>1. SUFFICES ASSUME NEW a \in Tabs, held'[a] \in revoked,
                          family'[held'[a]] \notin disturbed \cup ended
                   PROVE  \E p \in Handlers :
                            /\ Refreshes(serving[p]) /\ serving[p].at = "granted" /\ serving[p].tab = a
                            /\ family'[serving[p].token] = family'[held'[a]]
      BY <1>2 DEF HeldInv, Calm
    <2>2. a # b /\ held'[a] = held[a] /\ family'[held[a]] = family[held[a]]
      BY <1>1, <1>3, <1>4, <2>1
    <2>3. QED BY <1>5, <2>1, <2>2 DEF QInv, HeldInv, Calm
  <1>10. QED BY <1>6, <1>7, <1>8, <1>9 DEF QInv

LEMMA QuietStep ==
    ASSUME IInv, QInv, [SessionNext]_sessionVars
    PROVE  QInv'
  <1>1. ASSUME UNCHANGED <<family, revoked, serving, held, ended, disturbed>>
        PROVE  QInv'
    BY <1>1 DEF QInv, RecordInv, QuietInv, ShareInv, HeldInv, Calm
  <1>2. CASE \E t \in Tokens : Expire(t)
    BY <1>1, <1>2 DEF Expire, browser
  <1>3. CASE UNCHANGED sessionVars
    BY <1>1, <1>3 DEF sessionVars, table, browser
  <1>4. ASSUME NEW q \in Handlers,
               \/ \E b \in Tabs : refreshAccessToken(q, b) \/ logout(q, b)
               \/ \E t \in Tokens : PresentedElsewhere(q, t)
               \/ SelectForUpdate(q) \/ Rotate(q) \/ FindFamily(q) \/ RevokeFamily(q)
               \/ Abort(q) \/ Answered(q) \/ AnswerLost(q) \/ LoggedOut(q)
        PROVE  QInv'
    BY <1>4, QuietBegin, QuietElsewhere, QuietSelect, QuietRotate, QuietFind, QuietRevoke,
       QuietAbort, QuietAnswered, QuietLost
  <1>5. QED BY <1>2, <1>3, <1>4, QuietOpen, QuietLogin DEF SessionNext

(* The inductive invariant of the sessions nothing has disturbed. *)
THEOREM CalmSessions == SessionSpec => []QInv
  <1>1. SessionInit => QInv
    BY DEF SessionInit, QInv, RecordInv, QuietInv, ShareInv, HeldInv, Refreshes, NoRequest
  <1>2. QED BY <1>1, QuietStep, SessionInvariant, PTL DEF SessionSpec

(* frontend/lib/api.ts: the shared refresh promise keeps a tab from replaying *)
(* its own token, so that the server's reuse detection never ends a session   *)
(* that is in one tab and whose replies all arrived.                          *)
THEOREM NoReuseOfOwnToken == SessionSpec => []DedupAvoidsReuse
  <1>1. IInv /\ QInv => DedupAvoidsReuse
    <2>1. SUFFICES ASSUME IInv, QInv, NEW q \in Handlers, serving[q].at = "reuse"
                   PROVE  ~Calm(family[serving[q].token])
      BY DEF DedupAvoidsReuse, Stage, Calm
    <2>2. serving[q] # NoRequest
      BY <2>1 DEF NoRequest
    <2>3. Refreshes(serving[q])
      BY <2>1, <2>2, InFlightFacts DEF RequestOK, LogoutSteps, Refreshes
    <2>4. QED BY <2>1, <2>3 DEF QInv, QuietInv
  <1>2. QED BY <1>1, SessionInvariant, CalmSessions, PTL
=============================================================================
