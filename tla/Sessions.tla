------------------------------ MODULE Sessions ------------------------------
(***************************************************************************)
(* Login sessions: the refresh_tokens table and its rotation               *)
(* (internal/store/refresh_tokens.go), the auth handlers                   *)
(* (internal/handlers/auth.go), and the browser that holds the tokens      *)
(* (frontend/lib/api.ts, auth-store.ts, hooks/useAuth.ts).                 *)
(*                                                                         *)
(* A token is identified with its hash, and a rotation family with the     *)
(* token that started it.  All tabs belong to one user: the check that a   *)
(* logout names the caller's own token always succeeds.  Access tokens are *)
(* left out; one may expire at any time, so a tab may refresh at any time. *)
(***************************************************************************)
EXTENDS Naturals, FiniteSets

CONSTANTS
    Tokens,      \* bound: the tokens that can be issued
    Tabs,
    Handlers,    \* requests the server may be handling at once
    NoToken, NoTab

ASSUME SessionsAssumption == NoToken \notin Tokens /\ NoTab \notin Tabs

VARIABLES
    issued, family, parent, revoked, expired,   \* the refresh_tokens table
    serving,         \* per request: where it stands
    held,        \* per tab: refreshToken in the tab's auth store
    stored,      \* refreshToken in localStorage, which the tabs share
    ended,       \* ghost: families a committed statement was to revoke
    disturbed    \* ghost: families presented from elsewhere, opened in a second
                 \* tab, or with a reply that did not reach its tab

table == <<issued, family, parent, revoked, expired>>
browser == <<held, stored>>
sessionVars == <<table, serving, browser, ended, disturbed>>

Stages == {"refresh", "rotate", "reuse", "revoke", "granted", "rejected", "logout", "loggedout"}
AuthRequest == [at : Stages, op : {"refresh", "logout"}, tab : Tabs \cup {NoTab},
             token : Tokens, new : Tokens \cup {NoToken}, targets : SUBSET Tokens]
NoRequest == [at |-> "idle", op |-> "none"]

SessionTypeOK ==
    /\ issued \in SUBSET Tokens
    /\ family \in [Tokens -> Tokens \cup {NoToken}]
    /\ parent \in [Tokens -> Tokens \cup {NoToken}]
    /\ revoked \in SUBSET issued
    /\ expired \in SUBSET issued
    /\ serving \in [Handlers -> AuthRequest \cup {NoRequest}]
    /\ held \in [Tabs -> issued \cup {NoToken}]
    /\ stored \in issued \cup {NoToken}
    /\ ended \in SUBSET issued
    /\ disturbed \in SUBSET issued

SessionInit ==
    /\ issued = {} /\ revoked = {} /\ expired = {}
    /\ family = [t \in Tokens |-> NoToken]
    /\ parent = [t \in Tokens |-> NoToken]
    /\ serving = [q \in Handlers |-> NoRequest]
    /\ held = [b \in Tabs |-> NoToken]
    /\ stored = NoToken
    /\ ended = {} /\ disturbed = {}

-----------------------------------------------------------------------------
Stage(q, step) == serving[q].at = step
GoTo(q, step) == serving' = [serving EXCEPT ![q].at = step]
Done(q) == serving' = [serving EXCEPT ![q] = NoRequest]
Accept(q, step, op, b, t) ==
    /\ Stage(q, "idle")
    /\ serving' = [serving EXCEPT ![q] = [at |-> step, op |-> op, tab |-> b, token |-> t,
                                  new |-> NoToken, targets |-> {}]]

(* The bound: no refresh starts that might find no token left to issue. *)
Spare == Cardinality(issued) + Cardinality({q \in Handlers : serving[q].op = "refresh"})
           < Cardinality(Tokens)

(* GenerateRefreshToken: a token never seen before. *)
NewToken == CHOOSE t \in Tokens : t \notin issued

SetAuth(b, t) == held' = [held EXCEPT ![b] = t] /\ stored' = t
ClearAuth(b) == SetAuth(b, NoToken)

Unlocked(q, t) == FALSE

(* A row selected FOR UPDATE by a RotateRefreshToken that is not committed. *)
RowLocked(q, t) ==
    \E p \in Handlers \ {q} :
        /\ serving[p].op = "refresh" /\ serving[p].at \in {"rotate", "reuse", "revoke"}
        /\ serving[p].token = t

ActiveTokens(f) == {t \in issued \ revoked : family[t] = f}

-----------------------------------------------------------------------------
(* Signup and Login: issueRefreshToken starts a family. *)
Login(b) ==
    /\ held[b] = NoToken
    /\ Spare /\ issued # Tokens
    /\ issued' = issued \cup {NewToken}
    /\ family' = [family EXCEPT ![NewToken] = NewToken]
    /\ SetAuth(b, NewToken)
    /\ UNCHANGED <<parent, revoked, expired, serving, ended, disturbed>>

(* A tab rehydrates its store from localStorage. *)
OpenTab(b) ==
    /\ held[b] = NoToken /\ stored # NoToken
    /\ held' = [held EXCEPT ![b] = stored]
    /\ disturbed' = disturbed \cup {family[stored]}
    /\ UNCHANGED <<table, serving, stored, ended>>

(* Expiry, which matters to a token that is not revoked. *)
Expire(t) ==
    /\ t \in issued \ revoked
    /\ expired' = expired \cup {t}
    /\ UNCHANGED <<issued, family, parent, revoked, serving, browser, ended, disturbed>>

(* refreshAccessToken: callers of one tab share the request in flight. *)
Refreshing(b) == \E q \in Handlers : serving[q].op = "refresh" /\ serving[q].tab = b

RefreshUnshared(q, b) ==
    /\ held[b] # NoToken /\ Spare
    /\ Accept(q, "refresh", "refresh", b, held[b])
    /\ UNCHANGED <<table, browser, ended, disturbed>>

refreshAccessToken(q, b) ==
    /\ held[b] # NoToken /\ Spare
    /\ ~Refreshing(b)
    /\ Accept(q, "refresh", "refresh", b, held[b])
    /\ UNCHANGED <<table, browser, ended, disturbed>>

(* The same token presented from elsewhere. *)
PresentedElsewhere(q, t) ==
    /\ t \in issued /\ Spare
    /\ Accept(q, "refresh", "refresh", NoTab, t)
    /\ disturbed' = disturbed \cup {family[t]}
    /\ UNCHANGED <<table, browser, ended>>

(* logout of useAuth: present the token the tab holds. *)
logout(q, b) ==
    /\ held[b] # NoToken
    /\ Accept(q, "logout", "logout", b, held[b])
    /\ UNCHANGED <<table, browser, ended, disturbed>>

-----------------------------------------------------------------------------
(* RotateRefreshToken.  SELECT ... FOR UPDATE waits for a rotation of the     *)
(* same row and then reads what it committed.                                 *)
SelectUnchecked(q) ==
    /\ Stage(q, "refresh")
    /\ ~RowLocked(q, serving[q].token)
    /\ GoTo(q, IF serving[q].token \in expired THEN "rejected" ELSE "rotate")
    /\ UNCHANGED <<table, browser, ended, disturbed>>

SelectForUpdate(q) ==
    /\ Stage(q, "refresh")
    /\ ~RowLocked(q, serving[q].token)
    /\ GoTo(q, IF serving[q].token \in revoked THEN "reuse"
               ELSE IF serving[q].token \in expired THEN "rejected" ELSE "rotate")
    /\ UNCHANGED <<table, browser, ended, disturbed>>

GrantUninserted(q) ==
    /\ Stage(q, "rotate")
    /\ issued # Tokens
    /\ revoked' = revoked \cup {serving[q].token}
    /\ serving' = [serving EXCEPT ![q].at = "granted", ![q].new = NewToken]
    /\ UNCHANGED <<issued, family, parent, expired, browser, ended, disturbed>>

(* The update, the insert and the commit. *)
Rotate(q) ==
    /\ Stage(q, "rotate")
    /\ issued # Tokens
    /\ issued' = issued \cup {NewToken}
    /\ family' = [family EXCEPT ![NewToken] = family[serving[q].token]]
    /\ parent' = [parent EXCEPT ![NewToken] = serving[q].token]
    /\ revoked' = revoked \cup {serving[q].token}
    /\ serving' = [serving EXCEPT ![q].at = "granted", ![q].new = NewToken]
    /\ UNCHANGED <<expired, browser, ended, disturbed>>

(* The UPDATE that revokes a family, for a reused token and for a logout.     *)
(* It finds the active rows in its snapshot, waits for the rotation that      *)
(* holds one of them, and skips a row that is revoked by then.                *)
FindFamily(q) ==
    /\ serving[q].at \in {"reuse", "logout"}
    /\ serving' = [serving EXCEPT ![q].at = "revoke",
                          ![q].targets = ActiveTokens(family[serving[q].token])]
    /\ UNCHANGED <<table, browser, ended, disturbed>>

Reply(q) ==
    serving' = [serving EXCEPT ![q].at = IF serving[q].op = "logout" THEN "loggedout" ELSE "rejected",
                          ![q].targets = {}]

RevokeFamily(q) ==
    /\ Stage(q, "revoke")
    /\ \A t \in serving[q].targets : ~RowLocked(q, t)
    /\ revoked' = revoked \cup serving[q].targets
    /\ ended' = ended \cup {family[serving[q].token]}
    /\ Reply(q)
    /\ UNCHANGED <<issued, family, parent, expired, browser, disturbed>>

(* The database or the server fails before the commit. *)
Abort(q) ==
    /\ serving[q].at \in {"refresh", "rotate", "reuse", "revoke", "logout"}
    /\ Reply(q)
    /\ UNCHANGED <<table, browser, ended, disturbed>>

-----------------------------------------------------------------------------
(* doRefresh gets its answer: setAuth, or clearAuth on any refusal. *)
Answered(q) ==
    /\ serving[q].at \in {"granted", "rejected"}
    /\ IF serving[q].tab = NoTab THEN UNCHANGED browser
       ELSE SetAuth(serving[q].tab, serving[q].new)
    /\ Done(q)
    /\ UNCHANGED <<table, ended, disturbed>>

(* The answer is lost: doRefresh throws and the store keeps what it had. *)
AnswerLost(q) ==
    /\ serving[q].at \in {"granted", "rejected"}
    /\ disturbed' = disturbed \cup {family[serving[q].token]}
    /\ Done(q)
    /\ UNCHANGED <<table, browser, ended>>

(* logout clears the store whatever came of its request. *)
LoggedOut(q) ==
    /\ Stage(q, "loggedout")
    /\ ClearAuth(serving[q].tab)
    /\ Done(q)
    /\ UNCHANGED <<table, ended, disturbed>>

-----------------------------------------------------------------------------
SessionNext ==
    \/ \E b \in Tabs : OpenTab(b) \/ Login(b)
    \/ \E t \in Tokens : Expire(t)
    \/ \E q \in Handlers :
         \/ \E b \in Tabs : refreshAccessToken(q, b) \/ logout(q, b)
         \/ \E t \in Tokens : PresentedElsewhere(q, t)
         \/ SelectForUpdate(q) \/ Rotate(q) \/ FindFamily(q) \/ RevokeFamily(q)
         \/ Abort(q) \/ Answered(q) \/ AnswerLost(q) \/ LoggedOut(q)

SessionSpec == SessionInit /\ [][SessionNext]_sessionVars

-----------------------------------------------------------------------------
(* A family has at most one token that can still be used, whatever rotations, *)
(* replays and logouts run at once: the row lock of RotateRefreshToken makes  *)
(* the second of two rotations see the first.                                 *)
OneActiveToken == \A f \in Tokens : \A s, t \in ActiveTokens(f) : s = t

(* No token is exchanged twice: the tokens of a family form a line. *)
RotatedOnce ==
    \A s, t \in issued : parent[s] = parent[t] /\ parent[s] # NoToken => s = t

(* A family without a usable token never has one again: a rotation under way  *)
(* keeps its token usable until it commits, so a revocation that waits for it *)
(* cannot be overtaken by an insert.                                          *)
DeadFamilyStaysDead ==
    [][\A f \in issued :
         ActiveTokens(f) = {} => {t \in issued' \ revoked' : family'[t] = f} = {}]_sessionVars

(* Reuse detection never fires on an undisturbed session (one tab, every      *)
(* reply received, not logged out): callers share one rotation, "exactly the  *)
(* failure mode this dedup exists to avoid" (frontend/lib/api.ts).            *)
DedupAvoidsReuse ==
    \A q \in Handlers :
        Stage(q, "reuse") => family[serving[q].token] \in disturbed \cup ended

(* Once a replay or a logout has revoked a family, no token of it works.      *)
(* README.md: replaying "also revokes every other token in its family", and   *)
(* logout "revokes the presented token's whole session family".               *)
FamilyEnds == \A t \in issued : family[t] \in ended => t \in revoked
=============================================================================
