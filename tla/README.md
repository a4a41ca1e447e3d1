# Convoy chat: a TLA+ model of the server's concurrent core and the browser client

Convoy is a chat application: a Go API server (REST and WebSocket) over
PostgreSQL and Redis, and a Next.js browser client. Several API servers run at
once, and every one of them is a bundle of goroutines; a browser tab runs one
callback at a time, but sockets, requests, timers and React effects finish in any
order. This directory models
the parts whose correctness depends on how concurrent steps interleave,
model-checks them with TLC on small instances, and proves the central
invariants with TLAPS for instances of any size.

## 1. Inventory

| Part | State it keeps | Operations | What makes it correct | Module |
|---|---|---|---|---|
| Hub and pumps (`internal/websocket/hub.go`, `client.go`) | maps of clients, rooms and users owned by one goroutine, six bounded command channels, a send queue and two goroutines per connection | register, unregister, join, leave, broadcast to a room or a user, removal of slow consumers, shutdown | the maps agree with each other; no send on, or second close of, a closed channel; no goroutine is left blocked | `Hub` |
| Broker (`broker.go`, `internal/store/pubsub.go`) | two request queues, two sets of subscribed topics, two Pub/Sub connections | ensure a subscription, unsubscribe, publish, forward events to the Hub | events arrive once and in order; the set reflects Redis; the relay never wedges | `Broker`, `Realtime` |
| WebSocket server and handlers (`server.go`, `handlers.go`, `events.go`) | what each connection's handler is doing | upgrade, `room.join`, `room.leave`, `message.send`, error replies; typing, presence, `message.read` | a room someone watches is subscribed | `Realtime` |
| Rooms and members (`store/rooms.go`, `handlers/rooms.go`, `middleware.go`) | tables `rooms`, `room_members` | create, invite, self-join, leave with succession, role change, kick, direct rooms | rooms keep an admin; bans hold; direct rooms are pairs and unique | `Membership` |
| Login sessions (`store/refresh_tokens.go`, `handlers/auth.go`, `frontend/lib/api.ts`, `auth-store.ts`, `hooks/useAuth.ts`) | table `refresh_tokens`, each tab's store, `localStorage` | login, rotate, detect reuse, revoke a family, log out | one usable token per session; reuse detection never fires on an honest session; a revoked session is over | `Sessions` |
| Presence (`presence.go`, `store/presence.go`; `usePresence.ts`, `useAutoAway.ts`, `SelfPresenceControl.tsx`) | a Redis counter and a status key with TTLs, a bounded queue of disconnects; each tab's own status and inactivity timer | connect, disconnect, heartbeat, set status, expire; toggle, go away, come back | what Redis says of a user comes to agree with whether they are connected | `Presence` |
| Typing (`typing.go`, typing frames of `handlers.go`, `useTyping.ts`) | a map of timers; each composer's timer; the list another member sees | start, stop, expire; keystroke, idle, listen | nobody is shown typing for ever | `Typing` |
| Messages, reactions, read receipts (`store/messages.go`, `reactions.go`, `read_receipts.go` and handlers) | message rows, idempotency keys, events not yet published | send over the socket or REST, edit, delete, react, mark read, page | a retried REST send is stored once in the life of its key | `Messages` |
| Message cache (`lib/messagesCache.ts`, `hooks/useMessages.tsx`, `useReadReceipts.ts`, the resync of `useWebSocket.tsx`) | pages of messages and optimistic bubbles, ack timers, requests in flight | load, page back, merge a live event, resync, send, retry, edit, delete, roll back | nothing is lost, shown twice or left "sending" | `MessageCache`, `Messages` |
| The tab (`hooks/useWebSocket.tsx`, `useAuth.ts`, `useRooms.ts`, `lib/api.ts`, `auth-store.ts`, `ChatWindow.tsx`, `RoomsList.tsx`) | session, socket, reconnect timer, joined rooms, rooms list and badges, route | hydrate, log in and out, refresh, connect, reconnect, join, leave, reconcile, route events, navigate | a mounted provider has one socket and gives up only offline; subscriptions follow the list | `ChatTab` |
| Message list (`MessageList.tsx`) | scroll position, anchor, pin to the bottom | load older, add, measure, scroll | the view stays where the reader is | `Screen` |
| Members sheet (`MembersList.tsx`, `InviteMemberDialog.tsx`, `useRooms.ts`) | the room's detail and its fetch, search, requests | invite, promote, demote, kick, hear of others' changes | it shows the members there are | `RoomPanel` |
| Create-room dialog (`CreateRoomDialog.tsx`) | kind, name, staged members, peer, search, request | open, switch, stage, remove, search, submit | what it posts names whom the server's rules ask for, under a name its own rule passes | `CreateRoom` |
| Users, search, administration; passwords and JWTs; configuration; markup | - | single statements, library calls, rendering | nothing interleaves | not modelled |

How they interact. A browser opens a WebSocket; the upgrade handler registers a
`Client` with the Hub and has the Broker subscribe the user's own Redis channel;
the read pump then dispatches frames. A join asks the Broker for the room's
channel and waits, then hands the Hub a join command, then publishes
`user.joined` to Redis. Every event, also the server's own, comes back through
the Broker, which blocks until the Hub accepts it, and the Hub puts it on the
send queue of every connection in the room. When the last local connection of a
room or user goes, the Hub (without blocking) queues an unsubscribe at the
Broker. REST handlers change tables in several statements, without a
transaction around the whole request, and publish afterwards. In the tab, one
provider owns the socket and re-joins its rooms after every reconnect; live
events either patch the message cache or invalidate a query; each message page,
mutation and resync is a request whose answer is merged into whatever the cache
has become meanwhile.

Hard behaviours: commands on different channels overtake each other; the Hub
closes a channel another goroutine sends on; bounded channels in a cycle (Hub
to Broker without blocking, Broker to Hub with blocking); timeouts leave
requests behind; checks and updates of one request are separate statements at
READ COMMITTED; row locks that cover less than the check they protect; a token
rotation that runs while its family is revoked; replies that are lost; Redis
updates of several commands with crashes between them; timers that fire while they
are being replaced; a token refresh awaited by a connection attempt whose provider
is gone; the echo of a send, its REST answer, its retry and a resync page that
bring the same message in any order; a scroll anchor used by a later layout.
`PROJECT.json` lists these as hazards, each at its line.

## 2. Modules and their correspondence to the code

**`Hub`** - one action per select case of `Run` (`HubRegister`, `HubUnregister`,
`HubJoin`, `HubLeave`, `HubBroadcast`, `HubUserBroadcast`), per caller of a
command channel (`Connect`, `Join`, `Leave`, `Unregister`, `Broadcast`,
`BroadcastToUser`) and per move of a pump. `deliver` and `deliverToUser` range
over a set while the pumps run, so each client served is a step (`DeliverOne`).
Map entries are created with their first client and deleted with their last, so
an absent entry is the empty set. `Client.rooms` keeps its value when a client
is removed, as in the code. A Go panic sets `panicked` and ends the behaviour.
Pings and deadlines appear as reads and writes that may fail at any time. `TypeOK` says
what the maps and channels hold (`ValuesOK`) and that no channel holds more than its
capacity (`WithinCapacity`).

**`Broker`** - the room half and the user half of `Broker` are the same code
twice; a topic is a room or a user and `KindOf` says which half serves it.
`applySubRequest`, `TakeMessage` and `HandOver` are the iterations of `Run`;
between the last two it is blocked on the Hub. Redis is modelled from its use:
SUBSCRIBE is in effect when the call returns (the client library does not wait
for Redis's confirmation; that gap is not modelled), a publication reaches a
server that is subscribed at that moment and no other, and a live subscription
loses nothing.

**`Realtime`** - composes `Hub` and `Broker` (by `INSTANCE`) with the handlers of
one server. `HubMoves` is a Hub step together with the unsubscribe calls that
`detach` (`VacatedRooms`) and `detachUser` (`VacatedUsers`) make inside it, in any order. Other servers, REST handlers and
presence announcements are `Remote` publications.

**`Membership`** - a request is a slot that says which database call comes next
and what the earlier ones established; any other request may run between two
calls. `Locked` is `SELECT ... FOR UPDATE` in `ChangeMemberRole`, `PairLocked`
the advisory lock of `GetOrCreateDirectRoom`. The succession UPDATE is two steps,
its snapshot and its write, because its subquery does not lock. `Abandon` ends a
request between two calls (client gone, database error). The least number of others in a
group is the constant `minGroupMembers`. The ghost `unsettled` holds the rooms in which
the checks of leave, kick and demotion no longer protect the last admin: rooms that
have been empty, whose succession check was lost with its request, or in which two of
these requests overlapped.

**`Sessions`** - a token is identified with its hash and a family with its first
token. `SelectForUpdate` and `Rotate` are the transaction of
`RotateRefreshToken`; `FindFamily` and `RevokeFamily` are the UPDATE that revokes
a family, which in PostgreSQL takes its rows from a snapshot, waits for locked
ones and re-checks them. The tabs of one browser hold a token each and share
`localStorage`.

**`MessageCache`** - the functions of `lib/messagesCache.ts` as pure operators over a
sequence of pages; row ids are numbered in `created_at` order, so an id is also the
timestamp that cursors and the resync anchor compare. "First match" and "first in
page order" are kept, because `NoTwin` depends on them. The loop of `upsertMessages` is the
recursive function `mergeFrom`, one `applyOne` per incoming message.

**`Messages`** - one room, the server's rows and one tab's cache of it. A request is
issued, handled (or never arrives) and answered (or the answer is lost), in three
actions. Handlers commit and publish in two steps, so events can be published in
another order than their rows were committed, or not at all (`PublishFails`); a frame's
handler may fail as a whole (`FrameFails`). The text of a send is `TextOf` of its nonce, and
two sends may have the same text, since an echo is paired with a bubble by text when the
nonce does not decide. An Idempotency-Key expires (`KeyExpires`, counted in `lapses`).
`ResyncRead` and `ResyncPage` are the loop of `resyncRoom`. The history variables `excused`,
`revived` and `overlaid` record the known holes listed in 6; the properties exempt those
and nothing else. `excused` is set by the step that opens a hole (an event that is not
published or not merged, a resync that gives up) to the rows that are then neither held nor
on their way, and a write of the whole cache, which replaces what is held, replaces it too
(`WholeWrite`).

**`ChatTab`** - one action per callback or per stretch of an async function between two
awaits; `Settled` says that a continuation runs before the next task, and React's
effects (`ConnectionEffect`, `Unmount`, `Reconcile`) are not `Settled`, since they may run
before or after it. `connect(w)` takes what `wsRef` holds, so that a replaced live socket
shows in `leaked`. An attempt whose provider unmounts lives on in `strays`: `StrayResumes`,
`StrayOpens`, `StrayRoutes` and `StrayBreaks` are its continuation, the socket it opens, that
socket's events and its end. `InvalidateRooms` is React Query's refetch, from its use.

**`Presence`** - one user, whose tabs reach different server processes. Every Redis command
is a step and may fail; a process may crash and lose its jobs. **`Typing`** - the timers
of `typing.go` with firing, deleting and publishing apart. A timer may fire at any time
except while a publication of "typing" that began before it is pending, which gives up
after the same five seconds. A handler whose start was crossed by another tab's stop
carries that (`crossed`), so that the hole it may leave shows in `missed` whichever of
several tabs it was. **`Screen`** - heights in units of one estimated row; the
thresholds of 80 and 120 pixels are rounded up to two. `LayoutEffect` is both layout effects
of a commit; the second (`Reassert`) runs whenever the total height has changed, also after
a page was put in front. **`RoomPanel`** - the members sheet of an admin with the requests it
sends; after a reconnect the tab's own re-join may be announced to it, which reads the members
again (`LinkReturns`). **`CreateRoom`** - the dialog. A name is one of five kinds, told apart by
the dialog's rule (`validateRoomName`: not empty, counted untrimmed in UTF-16 units) and
the server's (`NameAccepted`: trimmed, counted in bytes).

**`MCHub`, `MCRealtime`, `MCMembership`, `MCSessions`, `MCServer`, `MCMessages`, `MCClient`**
instantiate these for TLC. `MCServer` puts `Membership` and `Sessions` into one run, of which a
behaviour moves one. `MCClient` moves one of its six components per behaviour: they share no
state, so its states are the sum of theirs. `MCMessages` starts with the room open or
with the tab just opening it.
**`HubProofs`, `RealtimeProofs`, `MembershipProofs`, `SessionsProofs`, `MessagesProofs`,
`ChatTabProofs`, `ViewProofs`** (for `RoomPanel` and `Screen`) and **`ClientProofs`** (for `Typing`,
`Presence`, `CreateRoom` and the client as a whole) hold the proofs. Definitions that precede an
operation and differ from it in one respect (`EnqueueOrBlock`, `RemoveUnguarded`,
`NeverLast`, `Unlocked`, ...) are faulty variants: substituted for the operation,
each makes TLC report the property that guards against that fault.

## 3. Runs

| Run | Instance and bounds | Shows |
|---|---|---|
| `hub` | 2 connections of one user, 1 room, every channel of capacity 1, 3 inputs (frames and events), stop at any time | the indexes agree, the Hub never panics, removed connections stay removed; read pumps are released and dropped connections end |
| `hub_reply_panics` | the same | **violated**: see 6 |
| `realtime` | 1 connection, 1 room, channels of capacity 1, 3 commands, 1 fault | delivery once and in order per Pub/Sub connection; the Broker's set is never stale; the relay drains |
| `realtime_subscription_race` | 2 connections, 3 commands, no fault | **violated**: see 6 |
| `server` | 2 users or tabs, 2 rooms, 2 requests at once; 3 creations and joins, 2 once there is a group, which one other member is enough for; 3 tokens | a ban ends a membership; direct rooms are pairs of plain members, one per pair; settled rooms keep an admin; one usable token per family, no token rotated twice, a dead family stays dead, no false reuse alarm |
| `last_admin` | 2 users, 1 room, 2 requests | **violated**: see 6 |
| `ban_lifted` | 2 users, 1 room, 2 requests | **violated**: see 6 |
| `family_survives` | 4 tokens, 1 tab, 2 requests | **violated**: see 6 |
| `messages` | pages of 2, 3 rows at first and 5 at most, 2 sends of one text, 3 operations (2 for a tab that is opening the room), 1 retry, resyncs of 2 pages | merging, paging and resync leave no gap and no unwatched bubble, show no text more often than it was sent and drop no confirmed message; REST inserts a retried send once per life of its key |
| `client` | 1 room, 2 tokens, 3 tab operations and a fourth beside a socket left behind; 2 tabs, 1 fault, 3 presence operations; 2 composers, 3 timers; 2 pages of 5 rows in a view of 3; 2 other members, 3 changes; 3 people, 12 steps of the dialog | a provider has one socket, subscriptions follow the list; presence heals; typing is backed by a timer; the view stays; members follow; requests are well formed |
| `client_left` | the same, without the fourth, and 1 presence operation | **violated**: see 6 |
| `second_socket` | the same | **violated**: see 6 |

Why the bounds suffice. The Hub's hazards involve one connection and two paths
to its removal, or a second connection of the same user; capacity 1 makes every
channel both full and empty, and three inputs fill a send queue, overflow it and
queue one command more. A second connection multiplies `realtime` beyond reach with faults,
but the fault-free race run has two. Two concurrent requests are the least for a race,
the code's locks are pairwise, and two users are the least for a kick, a succession, a
race for the last admin and a race for a direct room; `minGroupMembers` is scaled to one so that two
users make a group, and the proofs cover every value. Three tokens allow a rotation and a second
one of either generation. Three operations on messages let two sends of one text
and a lost connection, a failed publish or a peer's change meet; three rows in pages of two give a full page, a short one and
a cursor, and a resync of two pages can be cut off. One fault and two tabs are enough
for a counter that is too high or too low. Three timers are a running one, its
replacement and the replacement's. Two tokens are the session's and one refresh; three
operations of the tab leave the chat, come back to it and lose a connection in between, and the
fourth gives the socket of an unmounted provider something to hear. Twelve
steps of the dialog stage a group, switch kinds and reopen it. Deadlock checking is off: every system here may come
to rest when its bounded inputs are used up. Symmetry is used for users, rooms
and requests, for tabs and handlers, and for nonces, never where a property is a liveness property.

Fairness. `Hub` and `Realtime` assume that a goroutine that can move is scheduled
(the Hub, the Broker, `processDisconnects`, a handler under way, a pump), and in
`Hub` that a read or write on a connection the other pump has closed fails. They
assume no input, no timeout, no broken connection and no Redis failure. `Run`'s
select is random, but each liveness property needs only that the Hub makes some
step while it has one. `Presence` assumes that a job that has begun goes on (or fails),
that heartbeats tick while a connection lives, that frames are read, and that Redis
expires a key nobody refreshes; it assumes no connection and no disconnection.

## 4. What is proved

The proofs hold for every number of connections, rooms, users, tokens, tabs, messages and
requests, every bound, every page size and every channel capacity above zero. They assume
only the `ASSUME`s of the modules: the constants have their types, distinguished values
(`NoRoom`, `NoToken`, `NoData`, ...) are not members of the sets they are told apart from,
and sets that stand for a finite population are finite. TLC checked each inductive
invariant that was not obvious as an invariant of its instance before it was proved.

`HubProofs`: `TypeCorrect`, `RoomIndexCorrect`, `UserIndexCorrect`, `HubIsPanicFree` from the
inductive invariant `IndexInv`, and the action property `RemovedStayOut`. `TypeCorrect` includes
that no channel ever holds more than its capacity: a command blocks or is dropped when
its channel is full, and a full send queue ends its connection instead (`CapacityStep`). The indexes alone
are not inductive: the register case adds a connection without looking at its rooms, so
one that was registered a second time after its removal would be in `clients`, keep its
old `Client.rooms`, and be in no room. `IndexInv` adds that a queued registration belongs
to a connection the Hub has never seen and is queued once (`RegisteredOnce`), that a
closed connection is not in `clients`, and that whoever is still to be served in a
broadcast is. `RemovedStayOut` follows because a closed connection is neither queued for
registration nor in any set a later case reads.

`RealtimeProofs`: the composition implements the Hub (`ImplementsHub`): every step of the
server maps to a step of `Hub` or leaves its variables alone, so whatever `HubProofs` shows
holds in it (`HubIsSafeHere`). `SubscriptionsAreReal` is inductive as it stands, because the
set and Redis change in the same iteration of `Run`. `EventsOnce` and `EventsInOrder` rest
on `OrderInv`: an event passes through Redis's stream, the Broker's hand, the Hub's channel,
the broadcast being fanned out and a connection's deliveries, and for each kind of topic
the numbers grow along that path and within each stage; in a fan-out, a connection still
to be served has not yet been sent the event. Order across the two kinds is not claimed:
room and user events travel on two Pub/Sub connections.

`MembershipProofs`: with any number of concurrent requests, `BannedStayOut`,
`DirectRoomsArePairs`, `PairsShareOneRoom` and `BansLiftedOnEntry` (what concurrency leaves of
`BanHolds`: a ban ends only when its user enters) from `IInv`. They need each other: a direct
room stays a pair because every request that could change it must have found an admin in it and
it has none (`RequestInv`, `RowInv`); nobody is banned in one, so that reopening it lifts no
ban; and a request about to create one holds the pair's lock alone and has found none
(`LockInv`, `DirectInv`). `RoomsKeepAnAdmin` holds under the same concurrency, for rooms that
are not `unsettled`, from `GovInv` (`GovernedInvariant`): a settled room has a member, and
an admin or a succession on its way; at most one request that may take an admin is under way
in it (`Alone`); and what that request has checked stays true until it writes, whatever joins,
invites, promotions and direct rooms run meanwhile (`StillTrue`). A succession promotes
a member if there is one, since among join times there is a least. That overlapping removals
are excepted is no convenience: `last_admin` shows that the room is then lost.

`SessionsProofs`: `TypeCorrect`, `OneActive`, `NoDoubleRotation`, `DeadStaysDead`, from `IInv`. A
rotation inserts a token without looking at its family, so `OneActiveToken` needs that a
request about to rotate holds its row alone (`LockInv`) and that the row is still active
(`ReqInv`); it is then the only active one, and the commit revokes it. A revocation
preserves this because it waits for locked rows. `NoDoubleRotation` needs that a token with
a successor is revoked (`TableInv`). `DeadStaysDead` is an action property: the row a
rotation replaces is active until it commits, so its family is not dead.
`NoReuseOfOwnToken` needs a second invariant, `QInv`, about sessions that nothing has
disturbed (no replay, no lost answer, no second tab, no logout): such a session is in one
tab and has at most one refresh in flight (`ShareInv`, the shared promise of `lib/api.ts`);
the token it presents is not revoked (`QuietInv`); and the one the tab holds is revoked
only while the answer with its successor is on its way (`HeldInv`). A presented token that
is revoked therefore belongs to a disturbed session.

`MessagesProofs`: `RestSendsOnce` from `KeysHeld`: a nonce has at most as many rows by REST as
its key has expired, and one more only while the key is held, since the key is reserved
before the insert. `RowsAreKept` is an action property of every handler: rows are not
removed, keep their author and nonce, and a deleted one never regains its text.

The tab's half of `Messages` rests on `TabInv` (`TabInvariant`), from which `MessageTypes`,
`NothingIsLost`, `NoTwins`, `SendsAreWatched` and `ConfirmedAreKept` follow.
The properties speak of what is shown, and none is inductive, because each step merges
something that was read earlier: a page, an answer, the pages a query kept to append to, the
cache a mutation kept to roll back to. `TabInv` therefore says of each of these what it says
of the cache:

* `GoodCache`: a held message is a bubble with the text of its send or a row there is
  (`Fits`), a send has one bubble (`OneBubble`), and for every text the bubbles and the sends
  shown by a row are together no more than the sends made of it (`Counted`). The count is
  what survives when two sends have one text: an echo may take the other send's bubble
  away, but it takes one away for every row it adds. `applyOne` keeps this: a row that brings a
  sent text replaces a bubble by nonce or by text, and only when there is none goes to the
  front. `NoTwins` is read off it. An "older" page is the exception: it goes behind the
  bubble (`overlaid`).
* `EventsOK`, `PostOK`, `MutationOK`, `FetchOK`, `ResyncOK`: what is in flight names rows there
  are, under the nonce those rows have; the pages a `fetchNextPage` will append to are a good
  cache, and the page it asked for holds no row of one of their bubbles; a resync holds the
  newest rows there were, without a gap, down to `Low`.
* `Accounted`: a row that is not held is on its way, came by REST, is excused, or will be
  brought by a resync, which brings what it has read and whatever lies below `Low`. A failed
  publish leaves its row excused unless a resync is still to come. `NoGap`
  is this with no resync left.
* `Watched`: every bubble that says "sending" has a timer or a request.

The lemmas follow the code: what `replaceFirst` and the insertion at the front do to a good
cache, then one `applyOne`, then `mergeFrom` for any number of messages, then each patch. The
induction over the incoming messages is an induction over a set of numbers
(`SetInduction`, from the well-foundedness of `<`). Server steps are treated at once
(`TableStep`): rows only grow, so whatever named a row still does.

`ClientProofs`: `TypingEnds` from `TypingInv`. `TypingBacked` alone is not inductive: a handler
about to publish "typing" must have its own timer or a later one armed, unless a stop has
crossed it (`StartsAreTimed`); that needs timers to be created in order, since `Start`
replaces a timer only by a younger one and none that young fires before the publish ends.
`RequestsWellFormed` from `DialogInv`: the pickers stage only others, each once, so that a group
with enough entries has enough members, and closing the dialog leaves nobody staged; the
name has passed the dialog's rule, which is not the server's.
`PresenceTypes` bounds the jobs and the disconnect queue. `ClientRefinesComponents` shows that
the composed client implements the specification of each of its six parts, and with the
parts' theorems gives `ClientTypes`.

`ChatTabProofs`: `SingleSocket` (of the mounted provider; the sockets of unmounted ones are
`second_socket`'s) and `AlwaysSupplied` from the inductive invariant `Core`, and
`RoomsFollowTheList`, whose property is inductive itself. `OneSocket` needs that a timer is
armed, or an attempt awaits its refresh, only when there is no socket; that in turn rests
on the banner being hidden while a broken socket's close event is still to come, since
`reconnectNow` would otherwise start an attempt that the close event then duplicates.
`StrandedOnlyOffline` is proved on every page, because a provider about to unmount may be shown
again, and needs that a refused refresh has ended the session and that no token is issued
twice. `HubFollowsTheTab` relates the joined rooms to what the hub will have once the
frames in flight are taken (`Heading`: the last frame about a room decides); lemmas say how
`Heading` changes when a frame is appended or taken, and `LinkInv` adds that nothing is in
flight without an open socket. `TabTypes` covers the tab's part of `ClientTypeOK`.

`ViewProofs`: `MembersShown` from `PanelInv`: what the sheet shows, and what a fetch in flight
has read, is current, or an event, an answer or a recorded loss is coming (`NewsComing`).
`ViewHolds` from `ListInv`: an anchor nothing has overtaken is the height of the list, so that
the restored position moves by exactly the rows that were added in front; a pinned view is at
the bottom after every change, because the second effect puts it back there; and only a list
taller than the view can scroll or ask for a page, so that the new position is never
clamped. Measured rows make this a statement about cardinalities (`OffsetShift`,
`HeightBelow`).

## 5. What is only model-checked

* Liveness (`ReadPumpReleased`, `DroppedConnectionEnds`, `RelayDrains`, `PresenceHeals`): the
  proof system does not reason about fairness.

The safety invariants and action properties of the passing runs are all theorems as well.
`MCMessages` starts some behaviours with
the room open (`InRoom`), a state the proved specification reaches from `Mounted` by opening
the socket, joining and loading the first page.

## 6. Where the code and its documentation disagree

Each is a run that ends with a counterexample.

* `hub_reply_panics`: the Hub drops a slow consumer and closes its send channel
  while the read loop is answering a bad frame; a Go send on a closed channel
  panics even in a select with a default, and no goroutine of the pump recovers.
  `client.go:131` says the notice "is simply discarded".
* `realtime_subscription_race`: a connection leaves a room and another joins. The
  join's `EnsureSubscribed` is answered at once from the subscribed set, then the Hub
  processes the leave, queues the unsubscribe, then processes the join. The room
  has a watcher and no subscription. README.md:83-85 says a late unsubscribe "never
  loses anything".
* `last_admin`: two demotions of two admins lock one row each, and each counts two
  admins. `store/rooms.go:150-152` calls this race-safe.
* `family_survives`: the revoking UPDATE waits for a rotation in progress, skips the
  row it waited for as revoked, and never sees the row the rotation inserted.
  README.md:261-262 says the whole family is revoked.
* `client_left`: a tab reconnects and re-joins its rooms before the server has processed
  the end of its old connection; `presenceOffline` then announces `user.left` for each of
  that connection's rooms, whatever other connections the user has
  (`internal/websocket/presence.go:88-91`). The tab takes it for its own departure, leaves
  the room and closes it; the refetched list is equal, so nothing joins it again.
  `useWebSocket.tsx:268-269` says it means "either we left ... or we were just kicked".

* `ban_lifted`: `JoinChannel` reads the ban and then calls `AddMember`, which clears it; a kick
  that commits in between is undone by the join it should have stopped.
  `internal/handlers/rooms.go:516-518` says "only an admin re-invite ... can let them back in".
* `second_socket`: `connect()` does not ask after its await whether its provider is still
  there. When it has unmounted, a granted refresh opens a socket nobody closes, which joins
  the old rooms and routes events into the same caches; the provider mounted next opens its
  own. `useWebSocket.tsx:62` says "One WebSocket for the whole authenticated chat session".

Other disagreements met while modelling, variants of the above or outside what a property
states:

* Two admins who kick each other leave none; `handlers/rooms.go:744-746` says the acting admin
  always remains, so that no last-admin check is needed.
* A rollback of a failed edit or delete restores the whole cache and can show a deleted message
  again; `messagesCache.ts:209-211` says content "can't un-delete via an edit that raced a
  delete".
* A connection attempt whose refresh finds no network schedules nothing;
  `useWebSocket.tsx:426-428` takes a failed refresh for a store that was already cleared.
* A live message that arrives while an older page is awaited uses the scroll anchor, and an
  older page prepended to a pinned view leaves it at the bottom; `MessageList.tsx:182-187`
  and `:224-227` say neither happens.
* A room name of blanks passes the dialog and is refused by the server, and so is one that is
  short in UTF-16 units and long in bytes; `validation.ts:1-5` says the rules mirror the
  server's exactly.

Stated nowhere otherwise: a public channel that everyone left and someone joins again has no
admin; a refresh in flight during a logout signs the tab in again.

Holes of the client that the properties exempt by name:

* Messages (`excused`, `revived`, `overlaid`): a live event during the first load or a page fetch is
  overwritten by the answer; an event whose publish failed, or that falls between the resync's
  read and the re-join, reaches nobody; a REST send is announced to nobody live; a failed
  resync is not tried again, and an empty room is never resynced; resync skips ids already
  held, so edits and deletes missed offline are not repaired; events published out of
  commit order move the anchor past a row; a rollback restores the whole cache; when
  sends and events have filled a page that began empty or short, its oldest entry, the
  cursor of the next page, can be a bubble or newer than a bubble's row, and the older page
  then repeats that row behind the bubble. A socket send retried after a lost echo inserts
  twice, and a REST send retried after its key's five minutes does. The echoes of two sends
  of one text may be paired with each other's bubbles, which `messagesCache.ts:112-117` accepts.
* Connection (`stranded`): the attempt without a network above; every token refresh replaces
  the open socket.
* Presence: a miscounted user is deleted while connected until the next heartbeat, which
  sets "online" whatever it was and tells nobody; a click on the status control always
  ends in "away", and the next movement undoes it.
* Typing (`missed`): a lost "stopped typing", or a stop and a start of two tabs that
  cross, leave the indicator on until the viewer remounts.
* Message list (`raced`): a message or a late measurement while an older page is awaited
  makes the view jump.
* Members sheet (`unheard`): a change missed offline stays unseen until the tab's own re-join is
  announced, or for good when that is refused or lost; nothing announces the invitation of a
  user who is not connected; an invalidation during the first fetch is ignored.
* Dialog: a late answer closes and resets a dialog that was opened again.

## 7. Not modelled

Access tokens, password hashing, HTTP parsing and formatting, listings and
search, metrics, logging, and the markup of the user interface. Message contents are
tokens told apart only as own, peer's, edited and deleted. Reactions have one emoji.
Time is abstracted: a timeout may happen whenever it could. One edit or delete is in
flight at a time. Admin pages and the read-only
panels (search, profile, channel browser but for its join) render a query's answer.

## 8. Plan

1. Done: the server's core (`Hub`, `Broker`, `Realtime`), `Membership`, `Sessions`, `Presence`,
   `Typing`, `Messages` with the cache, and the browser (`ChatTab`, `Screen`, `RoomPanel`,
   `CreateRoom`), and the proofs of section 4.
2. Next: a proof that a connected user's heartbeat is never lost, the safety half of
   `PresenceHeals`; `RoomsKeepAnAdmin` without `unsettled`, once the code locks the room for a
   removal; several edits in flight in one tab.
