------------------------------ MODULE Messages ------------------------------
(* One room as one browser tab shows it: the rows and idempotency keys of   *)
(* the server, the socket that carries frames up and events down, and the   *)
(* tab's React Query cache with everything that writes it: the history      *)
(* query, the reconnect resync, optimistic sends over the socket or REST,   *)
(* retries, optimistic edits and deletes with their rollback, reactions and *)
(* read receipts (useMessages.tsx, useWebSocket.tsx, useReadReceipts.ts,    *)
(* with internal/handlers/messages.go and internal/websocket/handlers.go).  *)
(*                                                                          *)
(* A request is three steps: the tab issues it, the server handles it (or   *)
(* it never arrives), and the tab takes the answer (or loses it), so any    *)
(* live event can fall in between.                                          *)
EXTENDS MessageCache

CONSTANTS Me, Peer,          \* the tab's user and the other member
          Nonces,            \* the client_ids the tab may draw, one per send
          TextOf,            \* the text of the send with this nonce: two may be equal
          Edited,            \* the text an edit writes
          InitRows,          \* rows there are when the tab opens the room
          MaxRows,           \* bound: rows of the room
          MaxOps,            \* bound: what users and the network start
          MaxRetries,        \* bound: clicks on Retry
          MAX_RESYNC_PAGES   \* pages one resync may read

ASSUME MessagesAssumption ==
    /\ Me # Peer /\ {Me, Peer, Edited, Masked} \cap Nonces = {}
    /\ DOMAIN TextOf = Nonces /\ \A c \in Nonces : TextOf[c] \notin {Me, Peer, Edited, Masked}
    /\ MaxRows \in Nat /\ InitRows \in 0..MaxRows /\ MaxOps \in Nat /\ MaxRetries \in Nat
    /\ MAX_RESYNC_PAGES \in Nat \ {0}

\* What the tab sends; an edit writes none of these, nor does the other member.
Texts == {TextOf[c] : c \in Nonces}

Message == [id : Nonces \cup 1..MaxRows, user : {Me, Peer},
            content : Texts \cup {Edited, Masked, Peer, Me},
            status : {"none", "sending", "failed"},
            read_by : SUBSET {Me, Peer}, reactions : SUBSET {Me, Peer}]

\* A client_id is no row's id, and undefined is none of the values it stands
\* beside.
ASSUME NamesAssumption ==
    /\ Nonces \cap Nat = {}
    /\ Nil \notin Nonces \cup Nat \cup {"none", "sending", "failed"}
    /\ Nil \notin Seq(Message) /\ Nil \notin Seq(Seq(Message))

VARIABLES
    rows,      \* messages: Seq of rows, ids are positions
    keys,      \* reserved Idempotency-Keys
    outgoing,  \* events handlers have yet to publish
    up,        \* frames on their way to the server
    subscribed,\* our connection is in the room's set in the hub
    wire,      \* events on their way to the tab
    sock,      \* the tab's WebSocket: "open" or "down"
    data,      \* the cache of ["messages", room]
    fetch,     \* the history query in flight, or Nil
    resyncs,   \* resyncRoom calls in flight
    posts,     \* REST sends in flight
    timers,    \* armed ack timers, per nonce
    mutation,  \* the edit or delete in flight, or Nil
    sent,      \* the nonces drawn so far
    sentReads, \* sentRef of useReadReceipts
    ops, retries,  \* budgets used
    excused,   \* history: ids not held that nothing under way will bring
    revived,   \* history: nonces whose bubble a whole-cache write put back
    overlaid,  \* history: texts of bubbles held when an older page with a send of that text came
    lapses     \* history: how often the key of each nonce has expired

server == <<rows, keys, outgoing, subscribed>>
net    == <<up, wire, sock>>
tab    == <<data, fetch, resyncs, posts, timers, mutation, sent, sentReads>>
ghosts == <<excused, revived, overlaid, lapses>>
vars   == <<server, net, tab, ops, retries, ghosts>>

\* The budget one started operation takes.
Spend == ops < MaxOps /\ ops' = ops + 1

-----------------------------------------------------------------------------
(* The server.                                                              *)

\* Row i is one the tab sent with this text.
SentAs(i, t) == rows[i].nonce # Nil /\ TextOf[rows[i].nonce] = t

\* How history serves row i.
Row(i) == [id |-> i, user |-> rows[i].user, content |-> rows[i].content,
           status |-> "none", read_by |-> rows[i].read_by, reactions |-> rows[i].reactions]

\* At most PageSize rows older than the cursor, newest first.
ListRoomMessages(before) ==
    LET newest == IF before \in DOMAIN rows THEN before - 1 ELSE Len(rows)
    IN  [k \in 1..Min({PageSize, newest}) |-> Row(newest - k + 1)]

\* The pages a fetch of n pages reads, each from the cursor of the one before.
ListPages(n) ==
    LET from(k) == Len(rows) - (k - 1) * PageSize + 1
    IN  [k \in 1..Min({n, Len(rows) \div PageSize + 1}) |-> ListRoomMessages(from(k))]

InsertMessage(user, nonce, via, text) ==
    /\ Len(rows) < MaxRows
    /\ rows' = Append(rows, [user |-> user, nonce |-> nonce, via |-> via, content |-> text,
                             read_by |-> {}, reactions |-> {}])

NewEvent(i, user, nonce, text) ==
    [type |-> "message.new", id |-> i, user |-> user, nonce |-> nonce, content |-> text]
PatchEvent(type, i, user, text) ==
    [type |-> type, id |-> i, user |-> user, nonce |-> Nil, content |-> text]

\* An id that is in no cache and that nothing in flight will bring: older
\* history, or one that has fallen through one of the holes the code leaves.
Excuse(ids) == excused' = excused \cup ids

\* The rows the cache lacks.
Missing(d) == DOMAIN rows \ ConfirmedIds(d)

\* A message.new on its way to the tab.
Coming(i) == \E e \in outgoing \cup ToSet(wire) : e.type = "message.new" /\ e.id = i

\* A resync that has yet to read its first page.
ResyncToCome == sock = "down" \/ \E r \in resyncs : r.page = Nil /\ r.got = <<>>

\* PublishRoomEvent: the event reaches the tab if its connection is in the
\* room.  Handlers of different connections publish in any order.
Publish(e) ==
    /\ e \in outgoing
    /\ outgoing' = outgoing \ {e}
    /\ wire' = IF subscribed THEN Append(wire, e) ELSE wire
    /\ Excuse(IF e.type = "message.new" /\ ~subscribed /\ ~ResyncToCome THEN {e.id} ELSE {})
    /\ UNCHANGED <<rows, keys, subscribed, up, sock, tab, ops, retries, revived, overlaid, lapses>>

\* The publish fails: that is logged, the change stays committed, and nobody is
\* told.
PublishFails(e) ==
    /\ e \in outgoing
    /\ Spend
    /\ outgoing' = outgoing \ {e}
    /\ Excuse(IF e.type = "message.new" /\ ~ResyncToCome THEN {e.id} ELSE {})
    /\ UNCHANGED <<rows, keys, subscribed, net, tab, retries, revived, overlaid, lapses>>

\* The hub takes one frame of our connection at a time: the next one waits for
\* the publish of the one before.
HandleFrame ==
    /\ up # <<>>
    /\ ~\E e \in outgoing : e.user = Me /\ e.type \in {"message.new", "message.read_by"}
    /\ up' = Tail(up)
    /\ LET f == Head(up) IN
        \/ /\ f.type = "room.join"
           /\ subscribed' = TRUE
           /\ UNCHANGED <<rows, outgoing>>
        \/ /\ f.type = "message.send"
           /\ InsertMessage(Me, f.nonce, "ws", TextOf[f.nonce])
           /\ outgoing' = outgoing \cup {NewEvent(Len(rows'), Me, f.nonce, TextOf[f.nonce])}
           /\ UNCHANGED subscribed
        \/ /\ f.type = "message.read"
           /\ IF rows[f.id].content = Masked \/ Me \in rows[f.id].read_by
              THEN UNCHANGED <<rows, outgoing>>
              ELSE /\ rows' = [rows EXCEPT ![f.id].read_by = @ \cup {Me}]
                   /\ outgoing' = outgoing \cup {PatchEvent("message.read_by", f.id, Me, Nil)}
           /\ UNCHANGED subscribed
    /\ UNCHANGED <<keys, wire, sock, tab, ops, retries, ghosts>>

\* A handler that cannot do its work answers with an error, which the tab ignores.
FrameFails ==
    /\ up # <<>>
    /\ Spend
    /\ up' = Tail(up)
    /\ UNCHANGED <<server, wire, sock, tab, retries, ghosts>>

\* The other member's client, over its own connection and REST calls.
PeerSends ==
    /\ Spend
    /\ InsertMessage(Peer, Nil, "ws", Peer)
    /\ outgoing' = outgoing \cup {NewEvent(Len(rows'), Peer, Nil, Peer)}
    /\ UNCHANGED <<keys, subscribed, net, tab, retries, ghosts>>

\* EditMessage and SoftDeleteMessage refuse a deleted row; the update commits
\* before its event is published.  Both members are room admins: either may
\* delete what the other wrote, and edits only their own.
PeerChanges(i, type) ==
    /\ i \in DOMAIN rows /\ rows[i].content # Masked
    /\ Spend
    /\ \/ /\ type = "message.edited" /\ rows[i].user = Peer /\ rows[i].content # Edited
          /\ rows' = [rows EXCEPT ![i].content = Edited]
          /\ outgoing' = outgoing \cup {PatchEvent(type, i, Peer, Edited)}
       \/ /\ type = "message.deleted"
          /\ rows' = [rows EXCEPT ![i].content = Masked]
          /\ outgoing' = outgoing \cup {PatchEvent(type, i, Peer, Nil)}
    /\ UNCHANGED <<keys, subscribed, net, tab, retries, ghosts>>

\* A read receipt of the other member on row i.
PeerReads(i) ==
    /\ i \in DOMAIN rows /\ rows[i].user = Me /\ rows[i].content # Masked
    /\ Peer \notin rows[i].read_by
    /\ Spend
    /\ rows' = [rows EXCEPT ![i].read_by = @ \cup {Peer}]
    /\ outgoing' = outgoing \cup {PatchEvent("message.read_by", i, Peer, Nil)}
    /\ UNCHANGED <<keys, subscribed, net, tab, retries, ghosts>>

\* MessageBubble offers its controls on confirmed messages that are not deleted:
\* an admin may delete any, an author edits their own.  An editor stays open
\* when the message it is on is deleted under it.
canReact(m) == m.content # Masked /\ Confirmed(m)
canDelete(m) == canReact(m)
inEditor(m) == Confirmed(m) /\ m.user = Me

\* Either member toggles a reaction: the REST call leaves the tab's own cache
\* alone, which learns of it from the event.  (A call that fails shows a toast.)
ToggleReaction(i, user) ==
    /\ i \in DOMAIN rows /\ rows[i].content # Masked
    /\ user = Me => \E m \in Held(data) : m.id = i /\ canReact(m)
    /\ Spend
    /\ LET added == user \notin rows[i].reactions IN
        /\ rows' = [rows EXCEPT ![i].reactions = IF added THEN @ \cup {user} ELSE @ \ {user}]
        /\ outgoing' = outgoing \cup {PatchEvent("message.reaction", i, user, added)}
    /\ UNCHANGED <<keys, subscribed, net, tab, retries, ghosts>>

-----------------------------------------------------------------------------
(* The socket of the tab.                                                   *)

\* Both ends lose what is in flight, and the hub forgets the connection.
Drop ==
    /\ sock = "open"
    /\ Spend
    /\ sock' = "down" /\ up' = <<>> /\ wire' = <<>> /\ subscribed' = FALSE
    /\ UNCHANGED <<rows, keys, outgoing, tab, retries, ghosts>>

\* onopen: join the room again and, when something is cached, resync from the
\* newest confirmed message.  Join and resync race on different connections.
Open ==
    /\ sock = "down"
    /\ sock' = "open"
    /\ up' = <<[type |-> "room.join"]>>
    /\ LET lastSeen == newestConfirmedCreatedAt(data) IN
        /\ resyncs' = IF lastSeen = Nil THEN resyncs
                      ELSE resyncs \cup {[seen |-> lastSeen, cursor |-> Nil, n |-> 1,
                                          page |-> Nil, got |-> <<>>]}
        /\ Excuse(IF lastSeen = Nil THEN DOMAIN rows ELSE {})
    /\ UNCHANGED <<server, wire, data, fetch, posts, timers, mutation, sent, sentReads, ops, retries, revived, overlaid, lapses>>

\* routeEvent on the oldest event.  A message.new for a room whose history is
\* not loaded yet is not merged.
Receive ==
    /\ wire # <<>>
    /\ wire' = Tail(wire)
    /\ LET e == Head(wire) IN
        /\ data' = CASE e.type = "message.new" ->
                            IF data = Nil THEN Nil
                            ELSE upsertMessages(data, <<[message |-> wsMessageToChat(e), nonce |-> e.nonce]>>, Me)
                     [] e.type = "message.read_by"  -> addReadReceipt(data, e.id, e.user)
                     [] e.type = "message.reaction" -> applyReaction(data, e.id, e.user, e.content)
                     [] e.type = "message.edited"   -> applyEdit(data, e.id, e.content)
                     [] e.type = "message.deleted"  -> markDeleted(data, e.id)
        /\ Excuse(IF e.type = "message.new" /\ data = Nil THEN {e.id} ELSE {})
    /\ UNCHANGED <<server, up, sock, fetch, resyncs, posts, timers, mutation, sent, sentReads, ops, retries, revived, overlaid, lapses>>

-----------------------------------------------------------------------------
(* The history query (useMessages) and resyncRoom.                          *)

\* A fetch of n pages from the newest row on.
FetchOf(n) == [old |-> <<>>, n |-> n, cursor |-> Nil, pages |-> Nil]

\* A write of the whole cache: what it lacks is gone until something reads it
\* again, and a bubble it holds may be one that had been settled.
WholeWrite(new) ==
    /\ data' = new
    /\ excused' = {i \in Missing(new) : ~Coming(i)}
    /\ UNCHANGED <<overlaid, lapses>>
    /\ revived' = revived \cup {c \in Nonces : /\ findMessage(new, c) # Nil
                                               /\ findMessage(new, c) # findMessage(data, c)}

\* A refetch of every page held: a remount of a stale room, or invalidateQueries.
FetchAll ==
    /\ fetch = Nil /\ data # Nil
    /\ Spend
    /\ fetch' = FetchOf(Len(data))
    /\ UNCHANGED <<server, net, data, resyncs, posts, timers, mutation, sent, sentReads, retries, ghosts>>

\* fetchNextPage: the library keeps the pages of this moment to append to.  The
\* page asked for is appended as it is, without the merge that pairs rows with
\* bubbles: it may hold a row that was sent with the text of a bubble.
FetchNext ==
    /\ fetch = Nil /\ data # Nil
    /\ nextCursor(Last(data)) # Nil
    /\ Spend
    /\ LET cursor == nextCursor(Last(data)) IN
        /\ fetch' = [old |-> data, n |-> 1, cursor |-> cursor, pages |-> Nil]
        /\ overlaid' = overlaid \cup
               {t \in Texts : /\ \E c \in Nonces : TextOf[c] = t /\ findMessage(data, c) # Nil
                              /\ cursor \in DOMAIN rows => \E i \in 1..(cursor - 1) : SentAs(i, t)}
    /\ UNCHANGED <<server, net, data, resyncs, posts, timers, mutation, sent, sentReads, retries, excused, revived, lapses>>

\* ListMessages reads the rows.
FetchRead ==
    /\ fetch # Nil /\ fetch.pages = Nil
    /\ fetch' = [fetch EXCEPT !.pages = IF fetch.old = <<>> THEN ListPages(fetch.n)
                                        ELSE <<ListRoomMessages(fetch.cursor)>>]
    /\ UNCHANGED <<server, net, data, resyncs, posts, timers, mutation, sent, sentReads, ops, retries, ghosts>>

FetchDone ==
    /\ fetch # Nil /\ fetch.pages # Nil
    /\ fetch' = Nil
    /\ WholeWrite(fetch.old \o fetch.pages)
    /\ UNCHANGED <<server, net, resyncs, posts, timers, mutation, sent, sentReads, ops, retries>>

\* Everything read so far; the mutant forgets the pages before the last.
LastPageOnly(r) == r.page
Collected(r) == r.got \o r.page

ResyncRead(r) ==
    /\ r \in resyncs /\ r.page = Nil
    /\ resyncs' = (resyncs \ {r}) \cup {[r EXCEPT !.page = ListRoomMessages(r.cursor)]}
    /\ UNCHANGED <<server, net, data, fetch, posts, timers, mutation, sent, sentReads, ops, retries, ghosts>>

\* A page arrives: read on until it is short or reaches the anchor, then merge
\* everything collected into the cache of that moment.
ResyncPage(r) ==
    /\ r \in resyncs /\ r.page # Nil
    /\ LET got     == Collected(r)
           reached == Len(r.page) < PageSize \/ r.page[Len(r.page)].id <= r.seen
           merged  == upsertMessages(data, [k \in DOMAIN got |-> [message |-> got[k], nonce |-> Nil]], Me)
       IN  IF reached \/ r.n = MAX_RESYNC_PAGES
           THEN /\ resyncs' = resyncs \ {r}
                /\ data' = IF got = <<>> THEN data ELSE merged
                /\ Excuse({i \in Missing(data') : i < r.seen \/ ~reached})
           ELSE /\ resyncs' = (resyncs \ {r}) \cup
                       {[r EXCEPT !.got = got, !.cursor = r.page[Len(r.page)].id, !.n = @ + 1, !.page = Nil]}
                /\ UNCHANGED <<data, excused>>
    /\ UNCHANGED <<server, net, fetch, posts, timers, mutation, sent, sentReads, ops, retries, revived, overlaid, lapses>>

\* A page that cannot be read ends the resync, and nobody starts it again.
ResyncFails(r) ==
    /\ r \in resyncs
    /\ Spend
    /\ resyncs' = resyncs \ {r}
    /\ Excuse(Missing(data))
    /\ UNCHANGED <<server, net, data, fetch, posts, timers, mutation, sent, sentReads, retries, revived, overlaid, lapses>>

-----------------------------------------------------------------------------
(* Sending (useSendMessage).                                                *)

\* Sent over the socket with nothing to say that it failed.
SendUnwatched(c) ==
    IF sock = "open"
    THEN up' = Append(up, [type |-> "message.send", nonce |-> c]) /\ UNCHANGED <<posts, timers>>
    ELSE /\ posts' = posts \cup {[nonce |-> c, st |-> "sent", row |-> Nil]}
         /\ UNCHANGED <<up, timers>>

\* Over the socket with an ack timer when it is open, else by REST.
performSend(c) ==
    IF sock = "open"
    THEN /\ up' = Append(up, [type |-> "message.send", nonce |-> c])
         /\ timers' = [timers EXCEPT ![c] = @ + 1]
         /\ UNCHANGED posts
    ELSE /\ posts' = posts \cup {[nonce |-> c, st |-> "sent", row |-> Nil]}
         /\ UNCHANGED <<up, timers>>

Send(c) ==
    /\ c \notin sent
    /\ Spend
    /\ sent' = sent \cup {c}
    /\ data' = upsertMessages(data, <<[message |-> Optimistic(c, Me, TextOf[c]), nonce |-> Nil]>>, Me)
    /\ performSend(c)
    /\ UNCHANGED <<server, wire, sock, fetch, resyncs, mutation, sentReads, retries, ghosts>>

\* The ack timer fires: only a bubble that is still sending fails.
AckTimeout(c) ==
    /\ timers[c] > 0
    /\ timers' = [timers EXCEPT ![c] = @ - 1]
    /\ data' = markFailed(data, c)
    /\ UNCHANGED <<server, net, fetch, resyncs, posts, mutation, sent, sentReads, ops, retries, ghosts>>

\* Retry, from the toast or the bubble: the same nonce, sent again.
Retry(c) ==
    /\ findMessage(data, c) = "failed"
    /\ retries < MaxRetries /\ retries' = retries + 1
    /\ data' = markSending(data, c)
    /\ performSend(c)
    /\ UNCHANGED <<server, wire, sock, fetch, resyncs, mutation, sent, sentReads, ops, ghosts>>

\* ReserveMessageIdempotencyKey: SETNX, with a TTL.
ReserveAlways(c) == TRUE
Reserve(c) == c \notin keys

\* messageIdempotencyTTL has passed: the key is free again, whatever became of
\* the send that took it.
KeyExpires(c) ==
    /\ c \in keys
    /\ keys' = keys \ {c}
    /\ lapses' = [lapses EXCEPT ![c] = @ + 1]
    /\ UNCHANGED <<rows, outgoing, subscribed, net, tab, ops, retries, excused, revived, overlaid>>

\* SendMessage of the REST API: an Idempotency-Key is taken once.  A request that
\* fails leaves no key behind, unless its context ended before the release.
PostHandled(p) ==
    /\ p \in posts /\ p.st = "sent"
    /\ \/ /\ Reserve(p.nonce)
          /\ InsertMessage(Me, p.nonce, "rest", TextOf[p.nonce])
          /\ keys' = keys \cup {p.nonce}
          /\ posts' = (posts \ {p}) \cup {[p EXCEPT !.st = "created", !.row = Len(rows')]}
       \/ /\ posts' = (posts \ {p}) \cup {[p EXCEPT !.st = "refused"]}
          /\ keys' \in {keys} \cup (IF Reserve(p.nonce) THEN {keys \cup {p.nonce}} ELSE {})
          /\ UNCHANGED rows
    /\ UNCHANGED <<outgoing, subscribed, net, data, fetch, resyncs, timers, mutation, sent, sentReads,
                   ops, retries, ghosts>>

\* The answer swaps the bubble for the message; no answer, or an error, fails it.
PostAnswered(p) ==
    /\ p \in posts /\ p.st # "sent"
    /\ posts' = posts \ {p}
    /\ \/ /\ p.st = "created"
          /\ data' = upsertMessages(data,
                        <<[message |-> [Optimistic(p.row, Me, TextOf[p.nonce]) EXCEPT !.status = "none"],
                           nonce |-> p.nonce]>>, Me)
       \/ data' = markFailed(data, p.nonce)
    /\ UNCHANGED <<server, net, fetch, resyncs, timers, mutation, sent, sentReads, ops, retries, ghosts>>

-----------------------------------------------------------------------------
(* Editing and deleting (useEditMessage, useDeleteMessage).                 *)

\* onMutate: stop a fetch in flight, keep the cache, and patch it.  The controls
\* are those of the bubble; saveEdit only asks that the text differ.  (Bound: one
\* edit or delete is in flight at a time.)
Mutate(kind, i) ==
    /\ mutation = Nil
    /\ \E m \in Held(data) : /\ m.id = i
                             /\ IF kind = "edit" THEN inEditor(m) /\ m.content # Edited ELSE canDelete(m)
    /\ Spend
    /\ fetch' = Nil
    /\ mutation' = [kind |-> kind, id |-> i, prev |-> data, st |-> "sent"]
    /\ data' = IF kind = "edit" THEN applyEdit(data, i, Edited) ELSE markDeleted(data, i)
    /\ UNCHANGED <<server, net, resyncs, posts, timers, sent, sentReads, retries, ghosts>>

\* The handler refuses a deleted row; otherwise it commits and then publishes.
MutationHandled ==
    /\ mutation # Nil /\ mutation.st = "sent"
    /\ LET i == mutation.id IN
        \/ /\ rows[i].content # Masked
           /\ rows' = [rows EXCEPT ![i].content = IF mutation.kind = "edit" THEN Edited ELSE Masked]
           /\ outgoing' = outgoing \cup
                  {PatchEvent(IF mutation.kind = "edit" THEN "message.edited" ELSE "message.deleted",
                              i, Me, IF mutation.kind = "edit" THEN Edited ELSE Nil)}
           /\ mutation' = [mutation EXCEPT !.st = "ok"]
        \/ /\ mutation' = [mutation EXCEPT !.st = "refused"]
           /\ UNCHANGED <<rows, outgoing>>
    /\ UNCHANGED <<keys, subscribed, net, data, fetch, resyncs, posts, timers, sent, sentReads, ops, retries, ghosts>>

\* onSuccess applies the server's text; onError puts the whole cache back.
MutationAnswered ==
    /\ mutation # Nil /\ mutation.st # "sent"
    /\ mutation' = Nil
    /\ \/ /\ mutation.st = "ok"
          /\ data' = IF mutation.kind = "edit" THEN applyEdit(data, mutation.id, Edited) ELSE data
          /\ UNCHANGED ghosts
       \/ WholeWrite(mutation.prev)
    /\ UNCHANGED <<server, net, fetch, resyncs, posts, timers, sent, sentReads, ops, retries>>

eligible(m) == m.user # Me /\ m.content # Masked /\ Confirmed(m) /\ Me \notin m.read_by

\* A bubble of the other member scrolls into view: one receipt per mount, and
\* the frame is lost when the socket is down.  (A row is checked when it mounts:
\* one deleted before it is seen is reported too, and the server ignores it.)
ReadReceipt(i) ==
    /\ \E m \in Held(data) : m.id = i /\ eligible(m)
    /\ i \notin sentReads
    /\ Spend
    /\ sentReads' = sentReads \cup {i}
    /\ up' = IF sock = "open" THEN Append(up, [type |-> "message.read", id |-> i]) ELSE up
    /\ UNCHANGED <<server, wire, sock, data, fetch, resyncs, posts, timers, mutation, sent, retries, ghosts>>

-----------------------------------------------------------------------------
\* Messages from before: the last is ours.
InitialRows ==
    [i \in 1..InitRows |->
        LET author == IF i = InitRows THEN Me ELSE Peer
        IN  [user |-> author, nonce |-> Nil, via |-> "ws", content |-> author,
             read_by |-> {}, reactions |-> {}]]

\* The room's window has just mounted: its history query is in flight.
Mounted ==
    /\ rows = InitialRows
    /\ keys = {} /\ outgoing = {} /\ subscribed = FALSE
    /\ up = <<>> /\ wire = <<>> /\ sock = "down"
    /\ data = Nil /\ fetch = FetchOf(1) /\ resyncs = {} /\ posts = {}
    /\ timers = [c \in Nonces |-> 0] /\ mutation = Nil /\ sent = {} /\ sentReads = {}
    /\ retries = 0 /\ excused = DOMAIN rows /\ revived = {} /\ overlaid = {}
    /\ lapses = [c \in Nonces |-> 0]

Init == Mounted /\ ops = 0

ServerNext ==
    \/ \E e \in outgoing : Publish(e) \/ PublishFails(e)
    \/ HandleFrame \/ FrameFails
    \/ \E p \in posts : PostHandled(p)
    \/ \E c \in Nonces : KeyExpires(c)
    \/ MutationHandled
    \/ FetchRead
    \/ \E r \in resyncs : ResyncRead(r)

PeerNext ==
    \/ PeerSends
    \/ \E i \in 1..MaxRows, type \in {"message.edited", "message.deleted"} : PeerChanges(i, type)
    \/ \E i \in 1..MaxRows : PeerReads(i) \/ ToggleReaction(i, Peer)

TabNext ==
    \/ Drop \/ Open \/ Receive
    \/ FetchAll \/ FetchNext \/ FetchDone
    \/ \E r \in resyncs : ResyncPage(r) \/ ResyncFails(r)
    \/ \E c \in Nonces : Send(c) \/ AckTimeout(c) \/ Retry(c)
    \/ \E p \in posts : PostAnswered(p)
    \/ \E i \in 1..MaxRows, kind \in {"edit", "delete"} : Mutate(kind, i)
    \/ \E i \in 1..MaxRows : ToggleReaction(i, Me) \/ ReadReceipt(i)
    \/ MutationAnswered

Next == ServerNext \/ PeerNext \/ TabNext

Spec == Init /\ [][Next]_vars

-----------------------------------------------------------------------------
(* Properties.                                                              *)

\* Type correctness: rows, cache and requests in flight have the shapes the
\* code gives them, and only a bubble goes by a nonce.
TypeOK ==
    /\ \A i \in DOMAIN rows : Row(i) \in Message
    /\ \A m \in Held(data) : m \in Message /\ (m.id \in Nonces) = ~Confirmed(m)
    /\ keys \subseteq Nonces /\ timers \in [Nonces -> Nat]
    /\ \A m \in Held(data) : Confirmed(m) => m.id \in DOMAIN rows
    /\ sock \in {"open", "down"} /\ (subscribed => sock = "open")
    /\ sentReads \subseteq DOMAIN rows /\ excused \subseteq DOMAIN rows

\* Once the tab is back in the room and its resync is over, every row is held
\* or on its way, but for those sent by REST, which no event announces, and the
\* excused ones: older history that is not loaded; a row whose publish failed,
\* or fell between the read of the resync and the room.join of the same
\* reconnect, or came before any history was loaded; what a resync leaves out
\* that fails, reaches its page limit, or stops at its anchor with older rows
\* unannounced; and what a write of the whole cache discards.  Merging, paging,
\* resync and events out of order lose nothing else.
NoGap ==
    subscribed /\ resyncs = {} =>
        \A i \in Missing(data) : Coming(i) \/ rows[i].via = "rest" \/ i \in excused

\* Steps that end a fetch or a mutation write the whole cache.
WholeCacheStep == (fetch # Nil /\ fetch' = Nil) \/ (mutation # Nil /\ mutation' = Nil)

\* A confirmed message leaves the cache only by a write of the whole cache:
\* no live event, merge, send, retry or resync drops one.
ConfirmedStays ==
    [][ConfirmedIds(data) \subseteq ConfirmedIds(data') \/ WholeCacheStep]_vars

\* The sends of a text are never shown more often than they were made, as
\* bubbles and as messages taken together, although an echo without its nonce is
\* paired with whichever bubble has its text; but for a text an older page has
\* repeated behind its bubble.  (A send retried over the socket may be stored
\* twice, and then counts once.)
NoTwin ==
    LET shown == flattenSortedDedup(data) IN
    \A t \in Texts \ overlaid :
        Cardinality({m.id : m \in {x \in shown : ~Confirmed(x) /\ x.content = t}})
          + Cardinality({rows[m.id].nonce : m \in {x \in shown : Confirmed(x) /\ x.content = t}})
        <= Cardinality({c \in sent : TextOf[c] = t})

\* A bubble that says "sending" has an ack timer or a request that will settle
\* it, unless a write of the whole cache brought it back.
SendingIsWatched ==
    \A c \in Nonces : findMessage(data, c) = "sending" =>
        \/ timers[c] > 0
        \/ \E p \in posts : p.nonce = c
        \/ c \in revived

\* However often a send is retried and its answer lost, the REST path inserts
\* it once for each time its Idempotency-Key was free: at first, and again when
\* its five minutes had passed.
RestInsertsOnce ==
    \A c \in Nonces :
        Cardinality({i \in DOMAIN rows : rows[i].nonce = c /\ rows[i].via = "rest"}) <= 1 + lapses[c]
=============================================================================
