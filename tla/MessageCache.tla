---------------------------- MODULE MessageCache ----------------------------
(* The merge rules of one room's message cache in the browser               *)
(* (src/frontend/lib/messagesCache.ts): pure operators, no state.           *)
(*                                                                          *)
(* A cache is Nil (the query holds no data yet) or the sequence of pages    *)
(* of the infinite query, each newest first.  A message is a record:        *)
(*   id         the row's id, or the nonce of an optimistic bubble          *)
(*   user       its author                                                  *)
(*   content    its text, or Masked: content null and deleted_at set always *)
(*              come together, so one value stands for both                 *)
(*   status     "none" for a confirmed message, else "sending" or "failed"  *)
(*   read_by    the users who have read it                                  *)
(*   reactions  the users who have reacted (one emoji is told apart)        *)
(* Row ids are numbered in created_at order, so an id is also the timestamp *)
(* the keyset cursor and the resync anchor compare.                         *)
EXTENDS Naturals, Sequences, FiniteSets, SequencesExt, FiniteSetsExt

CONSTANTS Nil,        \* undefined / null
          Masked,     \* the content of a deleted message
          PageSize    \* PAGE_SIZE, the messages asked for in one page

ASSUME PageSizeAssumption == PageSize \in Nat \ {0}

Confirmed(m) == m.status = "none"

\* Every message the pages hold (pages.flat()).
Held(data) == IF data = Nil THEN {} ELSE UNION {ToSet(data[p]) : p \in DOMAIN data}

\* The ids of the confirmed messages held.
ConfirmedIds(data) == {m.id : m \in {x \in Held(data) : Confirmed(x)}}

\* A short page is the last one; otherwise the cursor is its oldest message.
nextCursor(page) == IF Len(page) < PageSize THEN Nil ELSE page[Len(page)].id

\* The row takes the client_id for its id.
NonceAsId(ev) ==
    [id |-> IF ev.nonce = Nil THEN ev.id ELSE ev.nonce, user |-> ev.user, content |-> ev.content,
     status |-> "none", read_by |-> {}, reactions |-> {}]

\* A live message.new payload has no reactions: the gaps take defaults.
wsMessageToChat(ev) ==
    [id |-> ev.id, user |-> ev.user, content |-> ev.content,
     status |-> "none", read_by |-> {}, reactions |-> {}]

\* The bubble a send shows before anything is confirmed.
Optimistic(nonce, user, text) ==
    [id |-> nonce, user |-> user, content |-> text,
     status |-> "sending", read_by |-> {}, reactions |-> {}]

\* The status of the message with this id, Nil when none is held.
findMessage(data, id) ==
    LET found == {m \in Held(data) : m.id = id}
    IN  IF found = {} THEN Nil ELSE (CHOOSE m \in found : TRUE).status

-----------------------------------------------------------------------------
(* Merging.  A place is a pair <<page, index>>.                             *)

Places(pages) ==
    UNION {{<<p, k>> : k \in DOMAIN pages[p]} : p \in DOMAIN pages}

Matching(pages, Pred(_)) == {h \in Places(pages) : Pred(pages[h[1]][h[2]])}

\* Only the first match, in page order, is replaced.
replaceFirst(pages, places, message) ==
    LET first == CHOOSE h \in places :
                    \A g \in places : h[1] < g[1] \/ (h[1] = g[1] /\ h[2] <= g[2])
    IN  [pages EXCEPT ![first[1]][first[2]] = message]

\* No match by content: a send that comes back without its nonce is new.
ApplyWithoutContent(pages, inc, me) ==
    LET byNonce == Matching(pages, LAMBDA m : m.id = inc.nonce)
        byId    == Matching(pages, LAMBDA m : m.id = inc.message.id)
    IN  IF byNonce # {} THEN replaceFirst(pages, byNonce, inc.message)
        ELSE IF byId # {} THEN pages
        ELSE IF pages = <<>> THEN << <<inc.message>> >>
        ELSE [pages EXCEPT ![1] = <<inc.message>> \o @]

\* A match by content that takes confirmed messages for bubbles.
ApplyOverConfirmed(pages, inc, me) ==
    LET byNonce   == Matching(pages, LAMBDA m : m.id = inc.nonce)
        byId      == Matching(pages, LAMBDA m : m.id = inc.message.id)
        byContent == Matching(pages, LAMBDA m : m.user = me /\ m.content = inc.message.content)
    IN  IF byNonce # {} THEN replaceFirst(pages, byNonce, inc.message)
        ELSE IF byId # {} THEN pages
        ELSE IF byContent # {} THEN replaceFirst(pages, byContent, inc.message)
        ELSE IF pages = <<>> THEN << <<inc.message>> >>
        ELSE [pages EXCEPT ![1] = <<inc.message>> \o @]

\* (a) the bubble with the nonce, (b) a message already held, (c) an own
\* confirmed message against a bubble with the same text, (d) the front.
applyOne(pages, inc, me) ==
    LET message   == inc.message
        byNonce   == Matching(pages, LAMBDA m : m.id = inc.nonce)
        byId      == Matching(pages, LAMBDA m : m.id = message.id)
        byContent == Matching(pages, LAMBDA m : /\ Confirmed(message)
                                                /\ message.user = me
                                                /\ ~Confirmed(m)
                                                /\ m.content = message.content)
    IN  IF byNonce # {} THEN replaceFirst(pages, byNonce, message)
        ELSE IF byId # {} THEN pages
        ELSE IF byContent # {} THEN replaceFirst(pages, byContent, message)
        ELSE IF pages = <<>> THEN << <<message>> >>
        ELSE [pages EXCEPT ![1] = <<message>> \o @]

\* The pages after the first k of the incoming messages.
mergeFrom(before, incoming, me) ==
    LET merged[k \in 0..Len(incoming)] ==
            IF k = 0 THEN before ELSE applyOne(merged[k - 1], incoming[k], me)
    IN  merged

upsertMessages(data, incoming, me) ==
    LET before == IF data = Nil THEN <<>> ELSE data
        pages  == mergeFrom(before, incoming, me)[Len(incoming)]
    IN  IF pages = <<>> THEN << <<>> >> ELSE pages

-----------------------------------------------------------------------------
(* Patching in place: every copy of the message that satisfies the guard.   *)

Patch(data, Guard(_), New(_)) ==
    IF data = Nil THEN Nil
    ELSE [p \in DOMAIN data |->
            [k \in DOMAIN data[p] |->
                IF Guard(data[p][k]) THEN New(data[p][k]) ELSE data[p][k]]]

markFailed(data, nonce) ==
    Patch(data, LAMBDA m : m.id = nonce /\ m.status = "sending",
                LAMBDA m : [m EXCEPT !.status = "failed"])

markSending(data, nonce) ==
    Patch(data, LAMBDA m : m.id = nonce /\ m.status = "failed",
                LAMBDA m : [m EXCEPT !.status = "sending"])

markDeleted(data, id) ==
    Patch(data, LAMBDA m : m.id = id,
                LAMBDA m : [m EXCEPT !.content = Masked])

\* An edit never brings back the text of a deleted message.
applyEdit(data, id, text) ==
    Patch(data, LAMBDA m : m.id = id /\ m.content # Masked,
                LAMBDA m : [m EXCEPT !.content = text])

addReadReceipt(data, id, user) ==
    Patch(data, LAMBDA m : m.id = id,
                LAMBDA m : [m EXCEPT !.read_by = @ \cup {user}])

\* The grouped counts of the code are the sizes of these sets.
applyReaction(data, id, user, added) ==
    Patch(data, LAMBDA m : m.id = id,
                LAMBDA m : [m EXCEPT !.reactions =
                                IF added THEN @ \cup {user} ELSE @ \ {user}])

-----------------------------------------------------------------------------
\* The resync anchor: bubbles carry a guess of the client's clock and do not
\* count.
newestConfirmedCreatedAt(data) ==
    IF ConfirmedIds(data) = {} THEN Nil ELSE Max(ConfirmedIds(data))

\* What the list renders: one message per id, a confirmed one before a bubble
\* and otherwise the first in page order.  (The rows are then sorted by id,
\* the bubbles placed by the client's clock: no property reads that order.)
flattenSortedDedup(data) ==
    IF data = Nil THEN {}
    ELSE LET at(h) == data[h[1]][h[2]]
             earlier(g, h) == g[1] < h[1] \/ (g[1] = h[1] /\ g[2] < h[2])
             beats(g, h) == /\ at(g).id = at(h).id
                            /\ \/ Confirmed(at(g)) /\ ~Confirmed(at(h))
                               \/ Confirmed(at(g)) = Confirmed(at(h)) /\ earlier(g, h)
         IN  {at(h) : h \in {x \in Places(data) : ~\E g \in Places(data) : beats(g, x)}}
=============================================================================
