--------------------------- MODULE MessagesProofs ---------------------------
(***************************************************************************)
(* Proofs about Messages, for any number of sends, retries, rows, pages and *)
(* lost answers.  First the server's side: a send that goes by REST is      *)
(* inserted once in the life of its key, and a row never changes its author *)
(* or comes back from deletion.  Then the tab's cache: what merging a page, *)
(* an event or an answer does to the pages, the inductive invariant of the  *)
(* tab (TabInv), and with it every invariant and action property of         *)
(* Messages.                                                                *)
(***************************************************************************)
EXTENDS Messages, FiniteSetTheorems, TLAPS

AllTexts == Texts \cup {Edited, Masked, Peer, Me}
RowRecord == [user : {Me, Peer}, nonce : Nonces \cup {Nil}, via : {"ws", "rest"}, content : AllTexts,
              read_by : SUBSET {Me, Peer}, reactions : SUBSET {Me, Peer}]
FrameRecord == [type : {"room.join"}] \cup [type : {"message.send"}, nonce : Nonces]
                 \cup [type : {"message.read"}, id : 1..MaxRows]

PostRecord == [nonce : Nonces, st : {"sent", "created", "refused"}, row : Nat \cup {Nil}]

ServerTypes ==
    /\ rows \in Seq(RowRecord)
    /\ up \in Seq(FrameRecord)
    /\ posts \in SUBSET PostRecord

(* A nonce has as many rows by REST as its key has expired, and one more     *)
(* while the key is held.                                                    *)
RestRows(c) == {i \in DOMAIN rows : rows[i].nonce = c /\ rows[i].via = "rest"}

KeysHeld ==
    /\ keys \subseteq Nonces /\ lapses \in [Nonces -> Nat]
    /\ \A c \in Nonces : /\ Cardinality(RestRows(c)) <= lapses[c] + 1
                         /\ c \notin keys => Cardinality(RestRows(c)) <= lapses[c]

KeysKept == keys \subseteq keys' /\ keys' \subseteq Nonces /\ UNCHANGED lapses

(* Frames are under way, and our connection is in the room, only while the   *)
(* socket is open.                                                           *)
OnlineOnly == sock \in {"open", "down"} /\ (subscribed \/ up # <<>> => sock = "open")

ServerInv == ServerTypes /\ KeysHeld /\ OnlineOnly

(* Rows only grow in number; a row keeps its author and the send it came     *)
(* from, and stays deleted.                                                  *)
RowsEndure ==
    /\ Len(rows) <= Len(rows')
    /\ \A i \in DOMAIN rows :
          /\ rows'[i].user = rows[i].user /\ rows'[i].nonce = rows[i].nonce /\ rows'[i].via = rows[i].via
          /\ rows[i].content = Masked => rows'[i].content = Masked

-----------------------------------------------------------------------------
(* The ways a step changes the table. *)

(* The key of a nonce is as before, or has been taken, and its rows stay. *)
LEMMA KeysCounted ==
    ASSUME ServerInv, KeysKept, \A c \in Nonces : RestRows(c)' = RestRows(c)
    PROVE  KeysHeld'
  BY DEF ServerInv, KeysHeld, KeysKept

(* One field of a row that is not deleted, or is not a text. *)
LEMMA RowPatched ==
    ASSUME ServerInv, NEW i \in DOMAIN rows, NEW r \in RowRecord, rows' = [rows EXCEPT ![i] = r],
           r.user = rows[i].user, r.nonce = rows[i].nonce, r.via = rows[i].via,
           rows[i].content = Masked => r.content = Masked,
           KeysKept
    PROVE  rows' \in Seq(RowRecord) /\ KeysHeld' /\ RowsEndure
  <1>1. rows \in Seq(RowRecord)
    BY DEF ServerInv, ServerTypes
  <1>2. rows' \in Seq(RowRecord) /\ Len(rows') = Len(rows) /\ DOMAIN rows' = DOMAIN rows /\ Len(rows) \in Nat
    <2>1. Len(rows) \in Nat /\ DOMAIN rows = 1..Len(rows) /\ \A j \in 1..Len(rows) : rows[j] \in RowRecord
      BY <1>1
    <2>2. rows' \in [1..Len(rows) -> RowRecord]
      BY <1>1, <2>1
    <2>3. QED BY <2>1, <2>2
  <1>3. \A j \in DOMAIN rows : rows'[j] = IF j = i THEN r ELSE rows[j]
    BY <1>1
  <1>4. \A j \in DOMAIN rows :
           /\ rows'[j].user = rows[j].user /\ rows'[j].nonce = rows[j].nonce /\ rows'[j].via = rows[j].via
           /\ rows[j].content = Masked => rows'[j].content = Masked
    BY <1>3
  <1>5. RowsEndure
    BY <1>2, <1>4 DEF RowsEndure
  <1>6. KeysHeld'
    <2>1. \A c \in Nonces : RestRows(c)' = RestRows(c)
      BY <1>2, <1>4 DEF RestRows
    <2>2. QED BY <2>1, KeysCounted
  <1>7. QED BY <1>2, <1>5, <1>6

LEMMA RowsUnchanged ==
    ASSUME ServerInv, UNCHANGED rows, KeysKept
    PROVE  rows' \in Seq(RowRecord) /\ KeysHeld' /\ RowsEndure
  <1>1. rows \in Seq(RowRecord) /\ Len(rows) \in Nat
    BY DEF ServerInv, ServerTypes
  <1>2. \A c \in Nonces : RestRows(c)' = RestRows(c)
    BY DEF RestRows
  <1>3. QED BY <1>1, <1>2, KeysCounted DEF RowsEndure

(* A new row: one that went by REST has just taken its key. *)
LEMMA RowInserted ==
    ASSUME ServerInv, NEW user \in {Me, Peer}, NEW nonce \in Nonces \cup {Nil}, NEW via \in {"ws", "rest"},
           NEW text \in AllTexts, InsertMessage(user, nonce, via, text), KeysKept,
           via = "rest" => nonce \in Nonces /\ nonce \notin keys /\ nonce \in keys'
    PROVE  rows' \in Seq(RowRecord) /\ KeysHeld' /\ RowsEndure
  <1>1. rows \in Seq(RowRecord)
    BY DEF ServerInv, ServerTypes
  <1>2. PICK r \in RowRecord : r.user = user /\ r.nonce = nonce /\ r.via = via /\ rows' = Append(rows, r)
    <2>1. [user |-> user, nonce |-> nonce, via |-> via, content |-> text, read_by |-> {}, reactions |-> {}] \in RowRecord
      BY DEF RowRecord
    <2>2. QED BY <2>1 DEF InsertMessage
  <1>3. /\ rows' \in Seq(RowRecord) /\ Len(rows) \in Nat /\ Len(rows') = Len(rows) + 1
        /\ DOMAIN rows = 1..Len(rows) /\ DOMAIN rows' = 1..(Len(rows) + 1)
        /\ \A i \in 1..Len(rows) : rows'[i] = rows[i]
        /\ rows'[Len(rows) + 1] = r
    BY <1>1, <1>2
  <1>4. RowsEndure
    BY <1>3 DEF RowsEndure
  <1>5. \A i \in DOMAIN rows' : (i \in DOMAIN rows /\ rows'[i] = rows[i]) \/ (i = Len(rows) + 1 /\ rows'[i] = r)
    BY <1>3
  <1>6. ASSUME NEW c \in Nonces
        PROVE  /\ Cardinality(RestRows(c)') <= lapses'[c] + 1
               /\ c \notin keys' => Cardinality(RestRows(c)') <= lapses'[c]
    <2>1. /\ Cardinality(RestRows(c)) <= lapses[c] + 1 /\ lapses[c] \in Nat /\ lapses' = lapses
          /\ c \notin keys => Cardinality(RestRows(c)) <= lapses[c]
      BY <1>6 DEF ServerInv, KeysHeld, KeysKept
    <2>2. CASE via = "rest" /\ nonce = c
      <3>1. RestRows(c)' = RestRows(c) \cup {Len(rows) + 1} /\ Len(rows) + 1 \notin RestRows(c)
        BY <1>2, <1>3, <1>5, <2>2 DEF RestRows
      <3>2. IsFiniteSet(RestRows(c))
        <4>1. IsFiniteSet(1..Len(rows))
          BY <1>3, FS_Interval
        <4>2. RestRows(c) \subseteq 1..Len(rows)
          BY <1>3 DEF RestRows
        <4>3. QED BY <4>1, <4>2, FS_Subset
      <3>3. Cardinality(RestRows(c)') = Cardinality(RestRows(c)) + 1 /\ Cardinality(RestRows(c)) \in Nat
        BY <3>1, <3>2, FS_AddElement, FS_CardinalityType
      <3>4. c \in keys' /\ Cardinality(RestRows(c)) <= lapses[c]
        BY <2>1, <2>2
      <3>5. QED BY <2>1, <3>3, <3>4
    <2>3. CASE ~(via = "rest" /\ nonce = c)
      <3>1. RestRows(c)' = RestRows(c)
        BY <1>2, <1>3, <1>5, <2>3 DEF RestRows
      <3>2. c \notin keys' => c \notin keys
        BY DEF KeysKept
      <3>3. QED BY <2>1, <3>1, <3>2
    <2>4. QED BY <2>2, <2>3
  <1>7. KeysHeld'
    BY <1>6 DEF KeysHeld, KeysKept, ServerInv
  <1>8. QED BY <1>3, <1>4, <1>7

(* A change of the text of a row that is not deleted, or of its readers or   *)
(* its reactions.                                                            *)
LEMMA FieldPatched ==
    ASSUME ServerInv, NEW i, KeysKept,
           \/ /\ rows[i].content # Masked
              /\ rows' = [rows EXCEPT ![i].content = Edited] \/ rows' = [rows EXCEPT ![i].content = Masked]
           \/ \E u \in {Me, Peer} : \/ rows' = [rows EXCEPT ![i].read_by = @ \cup {u}]
                                    \/ rows' = [rows EXCEPT ![i].reactions = @ \cup {u}]
                                    \/ rows' = [rows EXCEPT ![i].reactions = @ \ {u}]
    PROVE  rows' \in Seq(RowRecord) /\ KeysHeld' /\ RowsEndure
  <1>1. rows \in Seq(RowRecord)
    BY DEF ServerInv, ServerTypes
  <1>2. CASE i \notin DOMAIN rows
    <2>1. \A r : [rows EXCEPT ![i] = r] = rows
      BY <1>1, <1>2
    <2>2. QED BY <2>1, RowsUnchanged
  <1>3. CASE i \in DOMAIN rows
    <2>1. rows[i] \in RowRecord
      BY <1>1, <1>3
    <2>2. ASSUME rows[i].content # Masked, NEW x \in {Edited, Masked}, rows' = [rows EXCEPT ![i].content = x]
          PROVE  rows' \in Seq(RowRecord) /\ KeysHeld' /\ RowsEndure
      <3>1. PICK r \in RowRecord : /\ r = [rows[i] EXCEPT !.content = x] /\ r.user = rows[i].user
                                   /\ r.nonce = rows[i].nonce /\ r.via = rows[i].via
        <4>1. x \in AllTexts
          BY DEF AllTexts
        <4>2. /\ [rows[i] EXCEPT !.content = x] \in RowRecord
              /\ [rows[i] EXCEPT !.content = x].user = rows[i].user
              /\ [rows[i] EXCEPT !.content = x].nonce = rows[i].nonce
              /\ [rows[i] EXCEPT !.content = x].via = rows[i].via
          BY <2>1, <4>1 DEF RowRecord
        <4>3. QED BY <4>2
      <3>2. QED BY <1>3, <2>2, <3>1, RowPatched
    <2>3. ASSUME NEW u \in {Me, Peer}, rows' = [rows EXCEPT ![i].read_by = @ \cup {u}]
          PROVE  rows' \in Seq(RowRecord) /\ KeysHeld' /\ RowsEndure
      <3>1. PICK r \in RowRecord : /\ r = [rows[i] EXCEPT !.read_by = @ \cup {u}] /\ r.user = rows[i].user
                                   /\ r.nonce = rows[i].nonce /\ r.via = rows[i].via
                                   /\ r.content = rows[i].content
        <4>1. /\ [rows[i] EXCEPT !.read_by = @ \cup {u}] \in RowRecord
              /\ [rows[i] EXCEPT !.read_by = @ \cup {u}].user = rows[i].user
              /\ [rows[i] EXCEPT !.read_by = @ \cup {u}].nonce = rows[i].nonce
              /\ [rows[i] EXCEPT !.read_by = @ \cup {u}].via = rows[i].via
              /\ [rows[i] EXCEPT !.read_by = @ \cup {u}].content = rows[i].content
          BY <2>1 DEF RowRecord
        <4>2. QED BY <4>1
      <3>2. QED BY <1>3, <2>3, <3>1, RowPatched
    <2>4. ASSUME NEW u \in {Me, Peer},
                 \/ rows' = [rows EXCEPT ![i].reactions = @ \cup {u}]
                 \/ rows' = [rows EXCEPT ![i].reactions = @ \ {u}]
          PROVE  rows' \in Seq(RowRecord) /\ KeysHeld' /\ RowsEndure
      <3>1. PICK s \in SUBSET {Me, Peer} : rows' = [rows EXCEPT ![i].reactions = s]
        BY <2>1, <2>4 DEF RowRecord
      <3>2. PICK r \in RowRecord : /\ r = [rows[i] EXCEPT !.reactions = s] /\ r.user = rows[i].user
                                   /\ r.nonce = rows[i].nonce /\ r.via = rows[i].via
                                   /\ r.content = rows[i].content
        <4>1. /\ [rows[i] EXCEPT !.reactions = s] \in RowRecord
              /\ [rows[i] EXCEPT !.reactions = s].user = rows[i].user
              /\ [rows[i] EXCEPT !.reactions = s].nonce = rows[i].nonce
              /\ [rows[i] EXCEPT !.reactions = s].via = rows[i].via
              /\ [rows[i] EXCEPT !.reactions = s].content = rows[i].content
          BY <2>1 DEF RowRecord
        <4>2. QED BY <4>1
      <3>3. QED BY <1>3, <3>1, <3>2, RowPatched
    <2>5. QED BY <2>2, <2>3, <2>4
  <1>4. QED BY <1>2, <1>3

-----------------------------------------------------------------------------
(* The rest of the invariant: frames, requests and the socket. *)
NetKept == up' \in Seq(FrameRecord) /\ posts' \in SUBSET PostRecord /\ OnlineOnly'

LEMMA NetUntouched ==
    ASSUME ServerInv, UNCHANGED <<up, posts, sock, subscribed>>
    PROVE  NetKept
  BY DEF ServerInv, ServerTypes, OnlineOnly, NetKept

LEMMA Together ==
    ASSUME rows' \in Seq(RowRecord), KeysHeld', NetKept
    PROVE  ServerInv'
  BY DEF NetKept, ServerInv, ServerTypes

LEMMA FrameHandled ==
    ASSUME ServerInv, HandleFrame
    PROVE  ServerInv' /\ RowsEndure
  <1>1. /\ up \in Seq(FrameRecord) /\ up # <<>> /\ sock = "open" /\ up' = Tail(up)
        /\ UNCHANGED <<keys, sock, posts>> /\ KeysKept
    BY DEF ServerInv, ServerTypes, OnlineOnly, HandleFrame, tab, ghosts, KeysKept, KeysHeld
  <1>2. PICK f \in FrameRecord : f = Head(up)
    BY <1>1
  <1>3. NetKept
    BY <1>1 DEF ServerInv, ServerTypes, OnlineOnly, NetKept
  <1>4. CASE UNCHANGED rows
    BY <1>1, <1>3, <1>4, RowsUnchanged, Together
  <1>5. CASE f.type = "message.send" /\ InsertMessage(Me, f.nonce, "ws", TextOf[f.nonce])
    <2>1. f.nonce \in Nonces
      BY <1>5 DEF FrameRecord
    <2>2. f.nonce \in Nonces \cup {Nil} /\ TextOf[f.nonce] \in AllTexts
      BY <2>1 DEF AllTexts, Texts
    <2>3. rows' \in Seq(RowRecord) /\ KeysHeld' /\ RowsEndure
      BY <1>1, <1>5, <2>2, RowInserted
    <2>4. QED BY <1>3, <2>3, Together
  <1>6. CASE rows' = [rows EXCEPT ![f.id].read_by = @ \cup {Me}]
    <2>1. rows' \in Seq(RowRecord) /\ KeysHeld' /\ RowsEndure
      BY <1>1, <1>6, FieldPatched
    <2>2. QED BY <1>3, <2>1, Together
  <1>7. QED BY <1>2, <1>4, <1>5, <1>6 DEF HandleFrame

LEMMA PostIsHandled ==
    ASSUME ServerInv, NEW p \in posts, PostHandled(p)
    PROVE  ServerInv' /\ RowsEndure
  <1>1. p.nonce \in Nonces /\ p \in PostRecord /\ UNCHANGED <<up, sock, subscribed, lapses>>
    BY DEF ServerInv, ServerTypes, PostHandled, PostRecord, net, ghosts
  <1>2. posts' \in SUBSET PostRecord
    <2>1. CASE InsertMessage(Me, p.nonce, "rest", TextOf[p.nonce])
               /\ posts' = (posts \ {p}) \cup {[p EXCEPT !.st = "created", !.row = Len(rows')]}
      <3>1. rows \in Seq(RowRecord)
        BY DEF ServerInv, ServerTypes
      <3>2. [user |-> Me, nonce |-> p.nonce, via |-> "rest", content |-> TextOf[p.nonce], read_by |-> {}, reactions |-> {}]
              \in RowRecord
        BY <1>1 DEF RowRecord, AllTexts, Texts
      <3>3. Len(rows') \in Nat
        BY <2>1, <3>1, <3>2 DEF InsertMessage
      <3>4. [p EXCEPT !.st = "created", !.row = Len(rows')] \in PostRecord
        BY <1>1, <3>3 DEF PostRecord
      <3>5. QED BY <2>1, <3>4 DEF ServerInv, ServerTypes
    <2>2. CASE posts' = (posts \ {p}) \cup {[p EXCEPT !.st = "refused"]}
      <3>1. [p EXCEPT !.st = "refused"] \in PostRecord
        BY <1>1 DEF PostRecord
      <3>2. QED BY <2>2, <3>1 DEF ServerInv, ServerTypes
    <2>3. QED BY <2>1, <2>2 DEF PostHandled
  <1>3. NetKept
    BY <1>1, <1>2 DEF ServerInv, ServerTypes, OnlineOnly, NetKept
  <1>4. CASE /\ Reserve(p.nonce) /\ InsertMessage(Me, p.nonce, "rest", TextOf[p.nonce])
             /\ keys' = keys \cup {p.nonce}
    <2>1. p.nonce \in Nonces \cup {Nil} /\ TextOf[p.nonce] \in AllTexts /\ p.nonce \notin keys /\ p.nonce \in keys'
          /\ KeysKept
      BY <1>1, <1>4 DEF AllTexts, Texts, Reserve, KeysKept, KeysHeld, ServerInv
    <2>2. rows' \in Seq(RowRecord) /\ KeysHeld' /\ RowsEndure
      BY <1>1, <1>4, <2>1, RowInserted
    <2>3. QED BY <1>3, <2>2, Together
  <1>5. CASE /\ UNCHANGED rows
             /\ keys' \in {keys} \cup (IF Reserve(p.nonce) THEN {keys \cup {p.nonce}} ELSE {})
    <2>1. KeysKept
      BY <1>1, <1>5 DEF KeysKept, KeysHeld, ServerInv
    <2>2. QED BY <1>3, <1>5, <2>1, RowsUnchanged, Together
  <1>6. QED BY <1>4, <1>5 DEF PostHandled

LEMMA PeerKeeps ==
    ASSUME ServerInv, PeerNext \/ \E i \in 1..MaxRows : ToggleReaction(i, Me)
    PROVE  ServerInv' /\ RowsEndure
  <1>1. UNCHANGED <<keys, up, posts, sock, subscribed>> /\ KeysKept
    BY DEF PeerNext, PeerSends, PeerChanges, PeerReads, ToggleReaction, net, tab, ghosts, KeysKept, KeysHeld, ServerInv
  <1>2. NetKept
    BY <1>1, NetUntouched
  <1>3. CASE PeerSends
    <2>1. InsertMessage(Peer, Nil, "ws", Peer) /\ Peer \in AllTexts
      BY <1>3 DEF PeerSends, AllTexts
    <2>2. rows' \in Seq(RowRecord) /\ KeysHeld' /\ RowsEndure
      BY <1>1, <2>1, RowInserted
    <2>3. QED BY <1>2, <2>2, Together
  <1>4. ASSUME NEW i \in 1..MaxRows, NEW type \in {"message.edited", "message.deleted"}, PeerChanges(i, type)
        PROVE  ServerInv' /\ RowsEndure
    <2>1. rows[i].content # Masked
          /\ (rows' = [rows EXCEPT ![i].content = Edited] \/ rows' = [rows EXCEPT ![i].content = Masked])
      BY <1>4 DEF PeerChanges
    <2>2. rows' \in Seq(RowRecord) /\ KeysHeld' /\ RowsEndure
      BY <1>1, <2>1, FieldPatched
    <2>3. QED BY <1>2, <2>2, Together
  <1>5. ASSUME NEW i \in 1..MaxRows, PeerReads(i) PROVE ServerInv' /\ RowsEndure
    <2>1. rows' = [rows EXCEPT ![i].read_by = @ \cup {Peer}]
      BY <1>5 DEF PeerReads
    <2>2. rows' \in Seq(RowRecord) /\ KeysHeld' /\ RowsEndure
      BY <1>1, <2>1, FieldPatched
    <2>3. QED BY <1>2, <2>2, Together
  <1>6. ASSUME NEW i \in 1..MaxRows, NEW u \in {Me, Peer}, ToggleReaction(i, u) PROVE ServerInv' /\ RowsEndure
    <2>1. \/ rows' = [rows EXCEPT ![i].reactions = @ \cup {u}]
          \/ rows' = [rows EXCEPT ![i].reactions = @ \ {u}]
      BY <1>6 DEF ToggleReaction
    <2>2. rows' \in Seq(RowRecord) /\ KeysHeld' /\ RowsEndure
      BY <1>1, <2>1, FieldPatched
    <2>3. QED BY <1>2, <2>2, Together
  <1>7. QED BY <1>3, <1>4, <1>5, <1>6 DEF PeerNext

LEMMA MutationIsHandled ==
    ASSUME ServerInv, MutationHandled
    PROVE  ServerInv' /\ RowsEndure
  <1>1. NetKept /\ KeysKept
    BY NetUntouched DEF MutationHandled, net, ghosts, KeysKept, KeysHeld, ServerInv
  <1>2. CASE UNCHANGED rows
    BY <1>1, <1>2, RowsUnchanged, Together
  <1>3. CASE /\ rows[mutation.id].content # Masked
             /\ \/ rows' = [rows EXCEPT ![mutation.id].content = Edited]
                \/ rows' = [rows EXCEPT ![mutation.id].content = Masked]
    <2>1. rows' \in Seq(RowRecord) /\ KeysHeld' /\ RowsEndure
      BY <1>1, <1>3, FieldPatched
    <2>2. QED BY <1>1, <2>1, Together
  <1>4. QED BY <1>2, <1>3 DEF MutationHandled

(* A send or a retry takes the socket or REST. *)
LEMMA SendKeeps ==
    ASSUME ServerInv, NEW c \in Nonces, performSend(c), UNCHANGED <<rows, keys, lapses, sock, subscribed>>
    PROVE  ServerInv' /\ RowsEndure
  <1>1. posts' \in SUBSET PostRecord
    <2>1. [nonce |-> c, st |-> "sent", row |-> Nil] \in PostRecord
      BY DEF PostRecord
    <2>2. QED BY <2>1 DEF performSend, ServerInv, ServerTypes
  <1>2. up' \in Seq(FrameRecord) /\ OnlineOnly'
    <2>1. up \in Seq(FrameRecord) /\ OnlineOnly
      BY DEF ServerInv, ServerTypes
    <2>2. CASE up' = up
      BY <2>1, <2>2 DEF OnlineOnly
    <2>3. CASE sock = "open" /\ up' = Append(up, [type |-> "message.send", nonce |-> c])
      <3>1. [type |-> "message.send", nonce |-> c] \in FrameRecord
        BY DEF FrameRecord
      <3>2. up' \in Seq(FrameRecord)
        BY <2>1, <2>3, <3>1
      <3>3. QED BY <2>3, <3>2 DEF OnlineOnly
    <2>4. QED BY <2>2, <2>3 DEF performSend
  <1>3. NetKept
    BY <1>1, <1>2 DEF NetKept
  <1>4. KeysKept
    BY DEF KeysKept, KeysHeld, ServerInv
  <1>5. QED BY <1>3, <1>4, RowsUnchanged, Together

LEMMA ReadReceiptKeeps ==
    ASSUME ServerInv, NEW i \in 1..MaxRows, ReadReceipt(i)
    PROVE  ServerInv' /\ RowsEndure
  <1>1. UNCHANGED <<rows, keys, sock, subscribed, posts>> /\ KeysKept
    BY DEF ReadReceipt, server, ghosts, KeysKept, KeysHeld, ServerInv
  <1>2. up \in Seq(FrameRecord) /\ OnlineOnly
    BY DEF ServerInv, ServerTypes
  <1>3. up' \in Seq(FrameRecord) /\ OnlineOnly'
    <2>1. CASE sock = "open"
      <3>1. [type |-> "message.read", id |-> i] \in FrameRecord
        BY DEF FrameRecord
      <3>2. up' = Append(up, [type |-> "message.read", id |-> i])
        BY <2>1 DEF ReadReceipt
      <3>3. up' \in Seq(FrameRecord)
        BY <1>2, <3>1, <3>2
      <3>4. QED BY <1>1, <2>1, <3>3 DEF OnlineOnly
    <2>2. CASE sock # "open"
      BY <1>1, <1>2, <2>2 DEF ReadReceipt, OnlineOnly
    <2>3. QED BY <2>1, <2>2
  <1>4. NetKept
    BY <1>1, <1>3 DEF NetKept, ServerInv, ServerTypes
  <1>5. QED BY <1>1, <1>4, RowsUnchanged, Together

LEMMA SocketKeeps ==
    ASSUME ServerInv, Drop \/ Open
    PROVE  ServerInv' /\ RowsEndure
  <1>1. UNCHANGED <<rows, keys, posts>> /\ KeysKept
    BY DEF Drop, Open, server, tab, ghosts, KeysKept, KeysHeld, ServerInv
  <1>2. CASE Drop
    <2>1. <<>> \in Seq(FrameRecord)
      OBVIOUS
    <2>2. NetKept
      BY <1>1, <1>2, <2>1 DEF Drop, NetKept, OnlineOnly, ServerInv, ServerTypes
    <2>3. QED BY <1>1, <2>2, RowsUnchanged, Together
  <1>3. CASE Open
    <2>1. <<[type |-> "room.join"]>> \in Seq(FrameRecord)
      <3>1. [type |-> "room.join"] \in FrameRecord
        BY DEF FrameRecord
      <3>2. QED BY <3>1
    <2>2. NetKept
      BY <1>1, <1>3, <2>1 DEF Open, NetKept, OnlineOnly, ServerInv, ServerTypes
    <2>3. QED BY <1>1, <2>2, RowsUnchanged, Together
  <1>4. QED BY <1>2, <1>3

(* The steps of the tab that write only its cache and its queries. *)
LEMMA CacheOnly ==
    ASSUME ServerInv, UNCHANGED <<rows, keys, lapses, up, sock, subscribed>>, \A p \in posts' : p \in posts
    PROVE  ServerInv' /\ RowsEndure
  <1>1. NetKept /\ KeysKept
    BY DEF NetKept, ServerInv, ServerTypes, OnlineOnly, KeysKept, KeysHeld
  <1>2. QED BY <1>1, RowsUnchanged, Together

(* A key expires: the row that may be one too many no longer is. *)
LEMMA KeyGone ==
    ASSUME ServerInv, NEW c \in Nonces, KeyExpires(c)
    PROVE  ServerInv' /\ RowsEndure
  <1>1. UNCHANGED <<rows, up, posts, sock, subscribed>>
    BY DEF KeyExpires, net, tab
  <1>2. NetKept
    BY <1>1, NetUntouched
  <1>3. rows \in Seq(RowRecord) /\ Len(rows) \in Nat
    BY DEF ServerInv, ServerTypes
  <1>4. RowsEndure
    BY <1>1, <1>3 DEF RowsEndure
  <1>5. /\ keys' \subseteq Nonces /\ lapses' \in [Nonces -> Nat] /\ lapses'[c] = lapses[c] + 1
        /\ \A d \in Nonces : d # c => lapses'[d] = lapses[d] /\ (d \notin keys' => d \notin keys)
    BY DEF KeyExpires, ServerInv, KeysHeld
  <1>6. ASSUME NEW d \in Nonces
        PROVE  /\ Cardinality(RestRows(d)') <= lapses'[d] + 1
               /\ d \notin keys' => Cardinality(RestRows(d)') <= lapses'[d]
    <2>1. RestRows(d)' = RestRows(d) /\ IsFiniteSet(RestRows(d))
      <3>1. IsFiniteSet(1..Len(rows))
        BY <1>3, FS_Interval
      <3>2. RestRows(d) \subseteq 1..Len(rows)
        BY <1>3 DEF RestRows
      <3>3. QED BY <1>1, <3>1, <3>2, FS_Subset DEF RestRows
    <2>2. Cardinality(RestRows(d)) \in Nat /\ lapses[d] \in Nat
      BY <2>1, FS_CardinalityType DEF ServerInv, KeysHeld
    <2>3. /\ Cardinality(RestRows(d)) <= lapses[d] + 1
          /\ d \notin keys => Cardinality(RestRows(d)) <= lapses[d]
      BY DEF ServerInv, KeysHeld
    <2>4. QED BY <1>5, <2>1, <2>2, <2>3
  <1>7. KeysHeld'
    BY <1>5, <1>6 DEF KeysHeld
  <1>8. QED BY <1>1, <1>2, <1>3, <1>4, <1>7, Together

(* A frame that fails. *)
LEMMA FrameDropped ==
    ASSUME ServerInv, FrameFails
    PROVE  ServerInv' /\ RowsEndure
  <1>1. UNCHANGED <<rows, keys, lapses, sock, subscribed, posts>> /\ up # <<>> /\ up' = Tail(up)
    BY DEF FrameFails, server, tab, ghosts
  <1>2. NetKept /\ KeysKept
    BY <1>1 DEF NetKept, ServerInv, ServerTypes, OnlineOnly, KeysKept, KeysHeld
  <1>3. QED BY <1>1, <1>2, RowsUnchanged, Together

LEMMA ServerStep ==
    ASSUME ServerInv, [Next]_vars
    PROVE  ServerInv' /\ RowsEndure
  <1>1. CASE UNCHANGED vars
    BY <1>1, CacheOnly DEF vars, server, net, tab, ghosts
  <1>2. CASE \/ \E e \in outgoing : Publish(e) \/ PublishFails(e)
             \/ FetchRead \/ \E r \in resyncs : ResyncRead(r)
    BY <1>2, CacheOnly DEF Publish, PublishFails, FetchRead, ResyncRead, server, net, tab, ghosts
  <1>3. CASE \/ Receive \/ FetchAll \/ FetchNext \/ FetchDone \/ MutationAnswered
             \/ \E r \in resyncs : ResyncPage(r) \/ ResyncFails(r)
    BY <1>3, CacheOnly DEF Receive, FetchAll, FetchNext, FetchDone, MutationAnswered, ResyncPage, ResyncFails,
         WholeWrite, server, net, ghosts
  <1>4. CASE \/ \E c \in Nonces : AckTimeout(c)
             \/ \E p \in posts : PostAnswered(p)
             \/ \E i \in 1..MaxRows, kind \in {"edit", "delete"} : Mutate(kind, i)
    BY <1>4, CacheOnly DEF AckTimeout, PostAnswered, Mutate, server, net, ghosts
  <1>5. ASSUME NEW c \in Nonces, Send(c) \/ Retry(c) PROVE ServerInv' /\ RowsEndure
    BY <1>5, SendKeeps DEF Send, Retry, server, ghosts
  <1>6. QED BY <1>1, <1>2, <1>3, <1>4, <1>5, FrameHandled, FrameDropped, KeyGone, PostIsHandled, PeerKeeps, MutationIsHandled,
               ReadReceiptKeeps, SocketKeeps DEF Next, ServerNext, TabNext

LEMMA ServerStarts == Init => ServerInv
  <1> SUFFICES ASSUME Init PROVE ServerInv
    OBVIOUS
  <1>1. \A S : <<>> \in Seq(S)
    OBVIOUS
  <1>2. rows \in [1..InitRows -> RowRecord] /\ \A i \in DOMAIN rows : rows[i].via = "ws"
    BY DEF Init, Mounted, InitialRows, RowRecord, AllTexts
  <1>3. rows \in Seq(RowRecord)
    BY <1>2, MessagesAssumption
  <1>4. ServerTypes
    BY <1>1, <1>3 DEF Init, Mounted, ServerTypes
  <1>5. KeysHeld
    <2>1. \A c \in Nonces : RestRows(c) = {} /\ lapses[c] = 0
      BY <1>2 DEF RestRows, Init, Mounted
    <2>2. \A c \in Nonces : Cardinality(RestRows(c)) = 0
      BY <2>1, FS_EmptySet
    <2>3. keys = {} /\ lapses \in [Nonces -> Nat]
      BY DEF Init, Mounted
    <2>4. QED BY <2>1, <2>2, <2>3 DEF KeysHeld
  <1>6. OnlineOnly
    BY DEF Init, Mounted, OnlineOnly
  <1>7. QED BY <1>4, <1>5, <1>6 DEF ServerInv

-----------------------------------------------------------------------------
(* The inductive invariant of the server: the table and the frames keep      *)
(* their types, a send has no more rows by REST than its key allowed, and    *)
(* the connection is in the room only while the socket is open.              *)
THEOREM ServerInvariant == Spec => []ServerInv
  BY ServerStarts, ServerStep, PTL DEF Spec

(* However often a send is retried and its answer lost, SendMessage inserts  *)
(* it once for each time its Idempotency-Key was free: the key is reserved   *)
(* before the row is written, and is free again only when it expires.        *)
THEOREM RestSendsOnce == Spec => []RestInsertsOnce
  <1>1. ServerInv => RestInsertsOnce
    <2> SUFFICES ASSUME ServerInv, NEW c \in Nonces
                 PROVE  Cardinality(RestRows(c)) <= 1 + lapses[c]
      BY DEF RestInsertsOnce, RestRows
    <2>1. Cardinality(RestRows(c)) <= lapses[c] + 1 /\ lapses[c] \in Nat
      BY DEF ServerInv, KeysHeld
    <2>2. QED BY <2>1
  <1>2. QED BY <1>1, ServerInvariant, PTL

(* The table only grows; no handler changes the author of a row or the send  *)
(* it came from, and none gives a deleted row its text back (the WHERE       *)
(* clauses of EditMessage and SoftDeleteMessage).                            *)
THEOREM RowsAreKept == Spec => [][RowsEndure]_vars
  <1>1. ServerInv /\ [Next]_vars => [RowsEndure]_vars
    BY ServerStep
  <1>2. QED BY <1>1, ServerInvariant, PTL DEF Spec

-----------------------------------------------------------------------------
(* The tab's side.  What a cache and what is in flight may hold.             *)

Pages(d) == IF d = Nil THEN <<>> ELSE d
HeldId(D, i) == \E p \in DOMAIN D : \E k \in DOMAIN D[p] : D[p][k].id = i
Sending(D, c) == \E p \in DOMAIN D : \E k \in DOMAIN D[p] : D[p][k].id = c /\ D[p][k].status = "sending"
BubbleOf(D, m) == \E p \in DOMAIN D : \E k \in DOMAIN D[p] : D[p][k] = m

(* The messages of E are m and some of D's. *)
MadeOf(E, D, m) == \A p \in DOMAIN E : \A k \in DOMAIN E[p] : E[p][k] = m \/ BubbleOf(D, E[p][k])

(* A text that was sent is that of the nonce it stands beside. *)
TextFits(text, nonce) == text \in Texts => nonce \in Nonces /\ TextOf[nonce] = text

(* A message that may be held: a bubble of ours that says what was sent, or  *)
(* a row of the table R.                                                     *)
Fits(m, R) ==
    /\ m \in Message
    /\ m.id \in Nonces => ~Confirmed(m) /\ m.content = TextOf[m.id]
    /\ m.id \notin Nonces => Confirmed(m) /\ m.id \in DOMAIN R /\ TextFits(m.content, R[m.id].nonce)

(* A send has one bubble. *)
OneBubble(D) ==
    \A p, q \in DOMAIN D : \A k \in DOMAIN D[p], l \in DOMAIN D[q] :
        D[p][k].id \in Nonces /\ D[q][l].id = D[p][k].id => p = q /\ k = l

Shape(D, R) ==
    /\ D \in Seq(Seq(Message))
    /\ \A p \in DOMAIN D : \A k \in DOMAIN D[p] : Fits(D[p][k], R)
    /\ OneBubble(D)

(* The past of a cache is a pair: the texts an older page has repeated, and  *)
(* the sends made.  Every row that has a nonce is one of them.               *)
Past == <<overlaid, sent>>
Ledger(R, w) ==
    /\ IsFiniteSet(w[2]) /\ w[2] \subseteq Nonces
    /\ \A i \in DOMAIN R : R[i].nonce \in w[2] \cup {Nil}
PastGrows(w, x) == w[1] \subseteq x[1] /\ w[2] \subseteq x[2]

(* The sends of a text: those made, those shown as bubbles, and those shown  *)
(* by a row.                                                                 *)
SentOf(w, t) == {c \in w[2] : TextOf[c] = t}
BubblesOf(D, t) == {c \in Nonces : TextOf[c] = t /\ HeldId(D, c)}
RowOf(m, R, t, c) == m.id \in DOMAIN R /\ m.content = t /\ R[m.id].nonce = c
ShownOf(D, R, t) == {c \in Nonces : \E p \in DOMAIN D : \E k \in DOMAIN D[p] : RowOf(D[p][k], R, t, c)}

(* Bubbles and rows of one text together are no more than its sends, but for *)
(* the repeated ones, O.                                                     *)
Tally(B, S, T, t, O) ==
    /\ IsFiniteSet(T) /\ B \subseteq T /\ S \subseteq T
    /\ t \notin O => Cardinality(B) + Cardinality(S) <= Cardinality(T)
Counted(D, R, w) ==
    /\ Ledger(R, w)
    /\ \A t \in Texts : Tally(BubblesOf(D, t), ShownOf(D, R, t), SentOf(w, t), t, w[1])

GoodCache(D, R, w) == Shape(D, R) /\ Counted(D, R, w)

(* A page of the server: rows, with the text of the send they came from or   *)
(* one that is nobody's.                                                     *)
Served(m, R) ==
    /\ Fits(m, R) /\ m.id \notin Nonces
    /\ R[m.id].nonce \in Nonces => m.user = Me
ServedPage(s, R) == s \in Seq(Message) /\ \A k \in DOMAIN s : Served(s[k], R)

(* What is in flight. *)
EventRecord == [type : {"message.new", "message.edited", "message.deleted", "message.read_by", "message.reaction"},
                id : 1..MaxRows, user : {Me, Peer}, nonce : Nonces \cup {Nil},
                content : Texts \cup {Edited, Peer, Me, Nil} \cup BOOLEAN]

EventOK(e, R) ==
    /\ e \in EventRecord /\ e.id \in DOMAIN R
    /\ e.type = "message.new" =>
          /\ e.nonce = R[e.id].nonce /\ e.user = R[e.id].user
          /\ e.content \in {Me, Peer} \cup Texts /\ TextFits(e.content, e.nonce)
    /\ e.type = "message.edited" => e.content = Edited

RowsOK(R) ==
    /\ R \in Seq(RowRecord) /\ Len(R) <= MaxRows
    /\ \A i \in DOMAIN R : /\ R[i].nonce \in Nonces => R[i].user = Me
                           /\ TextFits(R[i].content, R[i].nonce)

EventsOK == wire \in Seq(EventRecord) /\ \A e \in outgoing \cup ToSet(wire) : EventOK(e, rows)

(* What is on its way up names rows there are and sends that were made. *)
FramesOK ==
    /\ \A k \in DOMAIN up : /\ up[k].type = "message.read" => up[k].id \in DOMAIN rows
                            /\ up[k].type = "message.send" => up[k].nonce \in sent
    /\ \A p \in posts : p.nonce \in sent

PostOK(p, R) ==
    p.st = "created" => p.row \in DOMAIN R /\ R[p.row].nonce = p.nonce /\ R[p.row].user = Me

(* No row below n was sent with this text. *)
NoneBelow(R, n, t) == n \in DOMAIN R /\ \A i \in 1..(n - 1) : R[i].nonce \in Nonces => TextOf[R[i].nonce] # t

(* A page asked for behind a cache repeats the text of no bubble in it. *)
FetchOK(f, R, w) ==
    f # Nil =>
        /\ f = [old |-> f.old, n |-> f.n, cursor |-> f.cursor, pages |-> f.pages]
        /\ f.n \in Nat
        /\ f.old # <<>> => /\ GoodCache(f.old, R, w)
                           /\ \A t \in Texts \ w[1] : BubblesOf(f.old, t) # {} => NoneBelow(R, f.cursor, t)
        /\ f.pages # Nil =>
              /\ f.pages \in Seq(Seq(Message))
              /\ \A p \in DOMAIN f.pages : ServedPage(f.pages[p], R)
              /\ f.old # <<>> /\ f.cursor \in DOMAIN R =>
                    \A p \in DOMAIN f.pages : \A k \in DOMAIN f.pages[p] : f.pages[p][k].id < f.cursor

MutationOK(mu, R, w) ==
    mu # Nil => /\ mu = [kind |-> mu.kind, id |-> mu.id, prev |-> mu.prev, st |-> mu.st]
                /\ mu.id \in DOMAIN R /\ GoodCache(Pages(mu.prev), R, w)

(* A resync has read the newest rows there were down to Low(r): it brings    *)
(* those, and the ones it has yet to reach.                                  *)
LastRead(r) == IF r.page = Nil \/ r.page = <<>> THEN r.got ELSE r.page
Low(r) == IF LastRead(r) = <<>> THEN 0 ELSE LastRead(r)[Len(LastRead(r))].id
InPage(s, i) == \E k \in DOMAIN s : s[k].id = i
Brings(r, i) ==
    \/ r.page = Nil /\ r.got = <<>>
    \/ InPage(r.got, i) \/ (r.page # Nil /\ InPage(r.page, i))
    \/ i < Low(r)

ResyncOK(r, R) ==
    /\ r = [seen |-> r.seen, cursor |-> r.cursor, n |-> r.n, page |-> r.page, got |-> r.got]
    /\ r.seen \in Nat /\ ServedPage(r.got, R)
    /\ r.page # Nil => ServedPage(r.page, R)
    /\ r.page = Nil => r.cursor = IF r.got = <<>> THEN Nil ELSE Low(r)
    /\ r.page # Nil /\ Len(r.page) < PageSize => Low(r) <= 1

(* Every row the cache lacks is accounted for. *)
Covered(i) ==
    \/ Coming(i) \/ rows[i].via = "rest" \/ i \in excused \/ sock = "down"
    \/ \E r \in resyncs : Brings(r, i)
Accounted == \A i \in DOMAIN rows : HeldId(Pages(data), i) \/ Covered(i)

(* A bubble that says "sending" will be told otherwise. *)
Watched ==
    \A c \in Nonces : Sending(Pages(data), c) =>
        timers[c] > 0 \/ (\E p \in posts : p.nonce = c) \/ c \in revived

TabTypes ==
    /\ keys \subseteq Nonces /\ timers \in [Nonces -> Nat]
    /\ sentReads \subseteq DOMAIN rows /\ excused \subseteq DOMAIN rows

TabInv ==
    /\ RowsOK(rows) /\ GoodCache(Pages(data), rows, Past)
    /\ EventsOK /\ FramesOK
    /\ \A p \in posts : PostOK(p, rows)
    /\ FetchOK(fetch, rows, Past) /\ MutationOK(mutation, rows, Past)
    /\ \A r \in resyncs : ResyncOK(r, rows)
    /\ TabTypes /\ Accounted /\ Watched

-----------------------------------------------------------------------------
(* Counting the sends of one text. *)

LEMMA Sizes ==
    ASSUME NEW T, IsFiniteSet(T), NEW S, S \subseteq T
    PROVE  /\ IsFiniteSet(S) /\ Cardinality(S) \in Nat /\ Cardinality(T) \in Nat
           /\ Cardinality(S) <= Cardinality(T)
  <1>1. IsFiniteSet(S) /\ Cardinality(S) <= Cardinality(T)
    BY FS_Subset
  <1>2. Cardinality(S) \in Nat /\ Cardinality(T) \in Nat
    BY <1>1, FS_CardinalityType
  <1>3. QED BY <1>1, <1>2

(* No bubble is left: rows alone are no more than the sends. *)
LEMMA TallyNone ==
    ASSUME NEW T, IsFiniteSet(T), NEW S, S \subseteq T, NEW t, NEW O
    PROVE  Tally({}, S, T, t, O)
  <1>1. Cardinality(S) \in Nat /\ Cardinality(T) \in Nat /\ Cardinality(S) <= Cardinality(T)
    BY Sizes
  <1>2. Cardinality({}) = 0
    BY FS_EmptySet
  <1>3. QED BY <1>1, <1>2 DEF Tally

LEMMA TallyLess ==
    ASSUME NEW B, NEW S, NEW T, NEW t, NEW O, Tally(B, S, T, t, O), NEW B2, B2 \subseteq B, NEW S2, S2 \subseteq S,
           NEW T2, T \subseteq T2, IsFiniteSet(T2), NEW O2, O \subseteq O2
    PROVE  Tally(B2, S2, T2, t, O2)
  <1>1. IsFiniteSet(T) /\ B \subseteq T /\ S \subseteq T /\ (t \notin O => Cardinality(B) + Cardinality(S) <= Cardinality(T))
    BY DEF Tally
  <1>2. IsFiniteSet(B) /\ IsFiniteSet(S)
    BY <1>1, Sizes
  <1>3. Cardinality(B2) \in Nat /\ Cardinality(B) \in Nat /\ Cardinality(B2) <= Cardinality(B)
    BY <1>2, Sizes
  <1>4. Cardinality(S2) \in Nat /\ Cardinality(S) \in Nat /\ Cardinality(S2) <= Cardinality(S)
    BY <1>2, Sizes
  <1>5. Cardinality(T) \in Nat /\ Cardinality(T2) \in Nat /\ Cardinality(T) <= Cardinality(T2)
    BY Sizes
  <1>6. t \notin O2 => Cardinality(B2) + Cardinality(S2) <= Cardinality(T2)
    BY <1>1, <1>3, <1>4, <1>5
  <1>7. B2 \subseteq T2 /\ S2 \subseteq T2
    BY <1>1
  <1>8. QED BY <1>6, <1>7 DEF Tally

(* A row takes the place of a bubble. *)
LEMMA TallySwap ==
    ASSUME NEW B, NEW S, NEW T, NEW t, NEW O, Tally(B, S, T, t, O), NEW b \in B, NEW c \in T,
           NEW B2, B2 \subseteq B \ {b}, NEW S2, S2 \subseteq S \cup {c}
    PROVE  Tally(B2, S2, T, t, O)
  <1>1. IsFiniteSet(T) /\ B \subseteq T /\ S \subseteq T /\ (t \notin O => Cardinality(B) + Cardinality(S) <= Cardinality(T))
    BY DEF Tally
  <1>2. IsFiniteSet(B) /\ IsFiniteSet(S) /\ Cardinality(B) \in Nat /\ Cardinality(S) \in Nat /\ Cardinality(T) \in Nat
    BY <1>1, Sizes
  <1>3. IsFiniteSet(B \ {b}) /\ Cardinality(B \ {b}) = Cardinality(B) - 1
    BY <1>2, FS_RemoveElement
  <1>4. Cardinality(B \ {b}) \in Nat
    BY <1>3, FS_CardinalityType
  <1>5. Cardinality(B2) \in Nat /\ Cardinality(B2) <= Cardinality(B \ {b})
    BY <1>3, Sizes
  <1>6. IsFiniteSet(S \cup {c}) /\ Cardinality(S \cup {c}) <= Cardinality(S) + 1 /\ Cardinality(S \cup {c}) \in Nat
    <2>1. CASE c \in S
      <3>1. S \cup {c} = S
        BY <2>1
      <3>2. IsFiniteSet(S \cup {c}) /\ Cardinality(S \cup {c}) = Cardinality(S)
        BY <1>2, <3>1
      <3>3. QED BY <1>2, <3>2
    <2>2. CASE c \notin S
      <3>1. IsFiniteSet(S \cup {c}) /\ Cardinality(S \cup {c}) = Cardinality(S) + 1
        BY <1>2, <2>2, FS_AddElement
      <3>2. QED BY <1>2, <3>1
    <2>3. QED BY <2>1, <2>2
  <1>7. Cardinality(S2) \in Nat /\ Cardinality(S2) <= Cardinality(S \cup {c})
    BY <1>6, Sizes
  <1>8. t \notin O => Cardinality(B2) + Cardinality(S2) <= Cardinality(T)
    BY <1>1, <1>2, <1>3, <1>4, <1>5, <1>6, <1>7
  <1>9. B2 \subseteq T /\ S2 \subseteq T
    BY <1>1
  <1>10. QED BY <1>1, <1>8, <1>9 DEF Tally

(* A new send has a new bubble. *)
LEMMA TallyBubble ==
    ASSUME NEW B, NEW S, NEW T, NEW t, NEW O, Tally(B, S, T, t, O), NEW c, c \notin T
    PROVE  Tally(B \cup {c}, S, T \cup {c}, t, O)
  <1>1. IsFiniteSet(T) /\ B \subseteq T /\ S \subseteq T /\ (t \notin O => Cardinality(B) + Cardinality(S) <= Cardinality(T))
    BY DEF Tally
  <1>2. IsFiniteSet(B) /\ IsFiniteSet(S) /\ Cardinality(B) \in Nat /\ Cardinality(S) \in Nat /\ Cardinality(T) \in Nat
    BY <1>1, Sizes
  <1>3. c \notin B
    BY <1>1
  <1>4. Cardinality(B \cup {c}) = Cardinality(B) + 1
    BY <1>2, <1>3, FS_AddElement
  <1>5. IsFiniteSet(T \cup {c}) /\ Cardinality(T \cup {c}) = Cardinality(T) + 1
    BY <1>1, FS_AddElement
  <1>6. t \notin O => Cardinality(B \cup {c}) + Cardinality(S) <= Cardinality(T \cup {c})
    BY <1>1, <1>2, <1>4, <1>5
  <1>7. B \cup {c} \subseteq T \cup {c} /\ S \subseteq T \cup {c}
    BY <1>1
  <1>8. QED BY <1>5, <1>6, <1>7 DEF Tally

LEMMA SentIsFinite ==
    ASSUME NEW R, NEW w, Ledger(R, w), NEW t
    PROVE  IsFiniteSet(SentOf(w, t))
  <1>1. SentOf(w, t) \subseteq w[2] /\ IsFiniteSet(w[2])
    BY DEF SentOf, Ledger
  <1>2. QED BY <1>1, Sizes

(* The rows a cache shows of a text are sends of that text. *)
LEMMA ShownAreSent ==
    ASSUME NEW R, NEW w, Ledger(R, w), NEW D, \A p \in DOMAIN D : \A k \in DOMAIN D[p] : Fits(D[p][k], R),
           \A i \in DOMAIN R : i \notin Nonces, NEW t \in Texts
    PROVE  ShownOf(D, R, t) \subseteq SentOf(w, t)
  <1> SUFFICES ASSUME NEW c \in ShownOf(D, R, t) PROVE c \in SentOf(w, t)
    OBVIOUS
  <1>1. PICK p \in DOMAIN D : \E k \in DOMAIN D[p] : RowOf(D[p][k], R, t, c)
    BY DEF ShownOf
  <1>2. PICK k \in DOMAIN D[p] : RowOf(D[p][k], R, t, c)
    BY <1>1
  <1>3. D[p][k].id \in DOMAIN R /\ D[p][k].content = t /\ R[D[p][k].id].nonce = c
    BY <1>2 DEF RowOf
  <1>4. TextFits(t, c) /\ c \in w[2] \cup {Nil}
    BY <1>3 DEF Fits, Ledger
  <1>5. c \in Nonces /\ TextOf[c] = t
    BY <1>4 DEF TextFits
  <1>6. QED BY <1>4, <1>5, NamesAssumption DEF SentOf

LEMMA FewerIsCounted ==
    ASSUME NEW D, NEW E, NEW R, NEW S, NEW w, NEW x, Counted(D, R, w), Ledger(S, x), PastGrows(w, x),
           \A t \in Texts : BubblesOf(E, t) \subseteq BubblesOf(D, t) /\ ShownOf(E, S, t) \subseteq ShownOf(D, R, t)
    PROVE  Counted(E, S, x)
  <1> SUFFICES ASSUME NEW t \in Texts
               PROVE  Tally(BubblesOf(E, t), ShownOf(E, S, t), SentOf(x, t), t, x[1])
    BY DEF Counted
  <1>1. Tally(BubblesOf(D, t), ShownOf(D, R, t), SentOf(w, t), t, w[1])
    BY DEF Counted
  <1>2. SentOf(w, t) \subseteq SentOf(x, t) /\ w[1] \subseteq x[1]
    BY DEF SentOf, PastGrows
  <1>3. IsFiniteSet(SentOf(x, t))
    BY SentIsFinite
  <1>4. QED BY <1>1, <1>2, <1>3, TallyLess
-----------------------------------------------------------------------------
(* Merging one message into the cache. *)

LEMMA PlacesOf ==
    ASSUME NEW D, NEW h
    PROVE  h \in Places(D) <=> \E p \in DOMAIN D : \E k \in DOMAIN D[p] : h = <<p, k>>
  BY DEF Places

LEMMA IsSeq ==
    ASSUME NEW S, NEW n \in Nat, NEW f \in [1..n -> S]
    PROVE  f \in Seq(S) /\ Len(f) = n
  OBVIOUS

PutAt(D, p, k, m) == [D EXCEPT ![p][k] = m]

LEMMA Least ==
    ASSUME NEW S, S \subseteq Nat, S # {}
    PROVE  \E n \in S : \A m \in S : n <= m
  <1> DEFINE R == OpToRel(<, Nat)
  <1>1. \A i, j \in Nat : i < j => <<i, j>> \in R
    BY DEF OpToRel
  <1>2. IsWellFoundedOn(R, Nat)
    BY NatLessThanWellFounded
  <1> HIDE DEF R
  <1>3. PICK n \in S : \A m \in S : ~(<<m, n>> \in R)
    BY <1>2, WFMin
  <1>4. \A m \in S : ~(m < n)
    BY <1>1, <1>3
  <1>5. QED BY <1>4

(* Of some places, one is the first. *)
LEMMA FirstPlace ==
    ASSUME NEW D, NEW m, NEW S, S \subseteq Nat \X Nat, S # {}
    PROVE  \E h \in S : replaceFirst(D, S, m) = PutAt(D, h[1], h[2], m)
  <1> DEFINE F(h) == \A g \in S : h[1] < g[1] \/ (h[1] = g[1] /\ h[2] <= g[2])
  <1>1. \A g \in S : g = <<g[1], g[2]>> /\ g[1] \in Nat /\ g[2] \in Nat
    OBVIOUS
  <1>2. PICK p \in {g[1] : g \in S} : \A q \in {g[1] : g \in S} : p <= q
    <2>1. {g[1] : g \in S} \subseteq Nat /\ {g[1] : g \in S} # {}
      BY <1>1
    <2>2. QED BY <2>1, Least
  <1> DEFINE T == {g[2] : g \in {x \in S : x[1] = p}}
  <1>3. PICK k \in T : \A l \in T : k <= l
    <2>1. T \subseteq Nat /\ T # {}
      BY <1>1, <1>2
    <2> HIDE DEF T
    <2>2. QED BY <2>1, Least
  <1>4. PICK h \in S : h[1] = p /\ h[2] = k
    BY <1>3
  <1>5. ASSUME NEW g \in S PROVE h[1] < g[1] \/ (h[1] = g[1] /\ h[2] <= g[2])
    <2>1. p <= g[1] /\ p \in Nat /\ g[1] \in Nat
      BY <1>1, <1>2
    <2>2. CASE p = g[1]
      BY <1>3, <1>4, <2>2
    <2>3. CASE p # g[1]
      BY <1>4, <2>1, <2>3
    <2>4. QED BY <2>2, <2>3
  <1>6. F(h)
    BY <1>5
  <1> DEFINE c == CHOOSE x \in S : F(x)
  <1>7. c \in S
    BY <1>4, <1>6
  <1>8. replaceFirst(D, S, m) = [D EXCEPT ![c[1]][c[2]] = m]
    BY DEF replaceFirst
  <1> HIDE DEF c
  <1>9. QED BY <1>7, <1>8 DEF PutAt

LEMMA ReplacedAt ==
    ASSUME NEW D \in Seq(Seq(Message)), NEW p \in DOMAIN D, NEW k \in DOMAIN D[p], NEW m \in Message,
           NEW E, E = PutAt(D, p, k, m)
    PROVE  /\ E \in Seq(Seq(Message)) /\ DOMAIN E = DOMAIN D
           /\ \A q \in DOMAIN D : DOMAIN E[q] = DOMAIN D[q]
           /\ E[p][k] = m
           /\ \A q \in DOMAIN D : \A l \in DOMAIN D[q] : q # p \/ l # k => E[q][l] = D[q][l]
  <1>1. D[p] \in Seq(Message) /\ [D[p] EXCEPT ![k] = m] \in Seq(Message)
    <2>1. D[p] \in Seq(Message)
      OBVIOUS
    <2>2. [D[p] EXCEPT ![k] = m] \in [1..Len(D[p]) -> Message] /\ Len(D[p]) \in Nat
      BY <2>1
    <2>3. QED BY <2>1, <2>2
  <1>2. E = [D EXCEPT ![p] = [D[p] EXCEPT ![k] = m]]
    BY DEF PutAt
  <1>3. E \in Seq(Seq(Message))
    <2>1. E \in [1..Len(D) -> Seq(Message)] /\ Len(D) \in Nat
      BY <1>1, <1>2
    <2>2. QED BY <2>1, IsSeq
  <1>4. QED BY <1>1, <1>2, <1>3

AtFront(D, m) == IF D = <<>> THEN << <<m>> >> ELSE [D EXCEPT ![1] = <<m>> \o @]

LEMMA FrontOfNone ==
    ASSUME NEW m \in Message, NEW E, E = AtFront(<<>>, m)
    PROVE  /\ E \in Seq(Seq(Message)) /\ DOMAIN E = {1} /\ DOMAIN E[1] = {1} /\ E[1][1] = m
  BY DEF AtFront

(* The three ways a merge goes: the message is held, it takes the place of a *)
(* bubble, the one of its nonce or one with its text, or it goes to the      *)
(* front.                                                                    *)
ApplyResult(D, inc, E) ==
    \/ E = D /\ HeldId(D, inc.message.id) /\ ~HeldId(D, inc.nonce)
    \/ \E p \in DOMAIN D : \E k \in DOMAIN D[p] :
          /\ E = PutAt(D, p, k, inc.message) /\ D[p][k].id \in Nonces
          /\ \/ D[p][k].id = inc.nonce
             \/ /\ ~HeldId(D, inc.nonce) /\ ~HeldId(D, inc.message.id) /\ Confirmed(inc.message)
                /\ TextOf[D[p][k].id] = inc.message.content
    \/ /\ ~HeldId(D, inc.nonce) /\ ~HeldId(D, inc.message.id) /\ E = AtFront(D, inc.message)
       /\ Confirmed(inc.message) /\ inc.message.user = Me =>
             \A p \in DOMAIN D : \A k \in DOMAIN D[p] : D[p][k].id \in Nonces => TextOf[D[p][k].id] # inc.message.content

LEMMA ApplyCases ==
    ASSUME NEW D, NEW R, Shape(D, R), NEW inc, NEW E, E = applyOne(D, inc, Me),
           inc.nonce \in Nonces \cup {Nil}, inc.message \in Message
    PROVE  ApplyResult(D, inc, E)
  <1> DEFINE m == inc.message
             byNonce == Matching(D, LAMBDA x : x.id = inc.nonce)
             byId == Matching(D, LAMBDA x : x.id = m.id)
             byContent == Matching(D, LAMBDA x : Confirmed(m) /\ m.user = Me /\ ~Confirmed(x) /\ x.content = m.content)
  <1>1. E = IF byNonce # {} THEN replaceFirst(D, byNonce, m)
            ELSE IF byId # {} THEN D
            ELSE IF byContent # {} THEN replaceFirst(D, byContent, m)
            ELSE AtFront(D, m)
    BY DEF applyOne, AtFront
  <1>2. \A h : h \in byNonce <=> \E p \in DOMAIN D : \E k \in DOMAIN D[p] : h = <<p, k>> /\ D[p][k].id = inc.nonce
    BY PlacesOf DEF Matching
  <1>3. \A h : h \in byId <=> \E p \in DOMAIN D : \E k \in DOMAIN D[p] : h = <<p, k>> /\ D[p][k].id = m.id
    BY PlacesOf DEF Matching
  <1>4. \A h : h \in byContent <=> \E p \in DOMAIN D : \E k \in DOMAIN D[p] :
                  h = <<p, k>> /\ Confirmed(m) /\ m.user = Me /\ ~Confirmed(D[p][k]) /\ D[p][k].content = m.content
    BY PlacesOf DEF Matching
  <1> HIDE DEF byNonce, byId, byContent, m
  <1>5. /\ D \in Seq(Seq(Message)) /\ DOMAIN D \subseteq Nat
        /\ \A p \in DOMAIN D : D[p] \in Seq(Message) /\ DOMAIN D[p] \subseteq Nat
    BY DEF Shape
  <1>6. \A p \in DOMAIN D : \A k \in DOMAIN D[p] :
            /\ D[p][k].id # Nil
            /\ ~Confirmed(D[p][k]) <=> D[p][k].id \in Nonces
            /\ D[p][k].id \in Nonces => D[p][k].content = TextOf[D[p][k].id]
    BY NamesAssumption DEF Shape, Fits, Message
  <1>7. CASE byNonce # {}
    <2>1. byNonce \subseteq Nat \X Nat
      BY <1>2, <1>5
    <2>2. PICK h \in byNonce : E = PutAt(D, h[1], h[2], m)
      BY <1>1, <1>7, <2>1, FirstPlace
    <2>3. PICK p \in DOMAIN D : \E k \in DOMAIN D[p] : h = <<p, k>> /\ D[p][k].id = inc.nonce
      BY <1>2
    <2>4. PICK k \in DOMAIN D[p] : h = <<p, k>> /\ D[p][k].id = inc.nonce
      BY <2>3
    <2>5. D[p][k].id \in Nonces /\ E = PutAt(D, p, k, m)
      BY <1>6, <2>2, <2>4
    <2>6. QED BY <2>4, <2>5 DEF m, ApplyResult
  <1>8. CASE byNonce = {} /\ byId # {}
    BY <1>1, <1>2, <1>3, <1>8 DEF HeldId, m, ApplyResult
  <1>9. CASE byNonce = {} /\ byId = {} /\ byContent # {}
    <2>1. byContent \subseteq Nat \X Nat
      BY <1>4, <1>5
    <2>2. PICK h \in byContent : E = PutAt(D, h[1], h[2], m)
      BY <1>1, <1>9, <2>1, FirstPlace
    <2>3. PICK p \in DOMAIN D : \E k \in DOMAIN D[p] :
             h = <<p, k>> /\ Confirmed(m) /\ ~Confirmed(D[p][k]) /\ D[p][k].content = m.content
      BY <1>4
    <2>4. PICK k \in DOMAIN D[p] :
             h = <<p, k>> /\ Confirmed(m) /\ ~Confirmed(D[p][k]) /\ D[p][k].content = m.content
      BY <2>3
    <2>5. D[p][k].id \in Nonces /\ TextOf[D[p][k].id] = m.content /\ E = PutAt(D, p, k, m) /\ Confirmed(m)
      BY <1>6, <2>2, <2>4
    <2>6. ~HeldId(D, inc.nonce) /\ ~HeldId(D, m.id)
      BY <1>2, <1>3, <1>9 DEF HeldId
    <2>7. QED BY <2>5, <2>6 DEF m, ApplyResult
  <1>10. CASE byNonce = {} /\ byId = {} /\ byContent = {}
    <2>1. E = AtFront(D, m)
      BY <1>1, <1>10
    <2>2. ~HeldId(D, inc.nonce) /\ ~HeldId(D, m.id)
      BY <1>2, <1>3, <1>10 DEF HeldId
    <2>3. Confirmed(m) /\ m.user = Me =>
              \A p \in DOMAIN D : \A k \in DOMAIN D[p] : D[p][k].id \in Nonces => TextOf[D[p][k].id] # m.content
      BY <1>4, <1>6, <1>10
    <2>4. QED BY <2>1, <2>2, <2>3 DEF m, ApplyResult
  <1>11. QED BY <1>7, <1>8, <1>9, <1>10

(* Where the places of D are once a message stands in front of them. *)
Shift(q, l) == IF q = 1 THEN l + 1 ELSE l

InFront(D, m, E) ==
    /\ E \in Seq(Seq(Message)) /\ 1 \in DOMAIN E /\ 1 \in DOMAIN E[1] /\ E[1][1] = m
    /\ \A q \in DOMAIN D : \A l \in DOMAIN D[q] :
          /\ q \in Nat /\ l \in Nat /\ q >= 1 /\ l >= 1
          /\ q \in DOMAIN E /\ Shift(q, l) \in DOMAIN E[q] /\ E[q][Shift(q, l)] = D[q][l]
    /\ \A q \in DOMAIN E : \A l \in DOMAIN E[q] :
          \/ q = 1 /\ l = 1
          \/ q \in DOMAIN D /\ \E j \in DOMAIN D[q] : l = Shift(q, j) /\ E[q][l] = D[q][j]

LEMMA FrontPlaces ==
    ASSUME NEW D \in Seq(Seq(Message)), NEW m \in Message, NEW E, E = AtFront(D, m)
    PROVE  InFront(D, m, E)
  <1>1. CASE D = <<>>
    BY <1>1, FrontOfNone DEF InFront
  <1>2. CASE D # <<>>
    <2>1. /\ E \in Seq(Seq(Message)) /\ DOMAIN E = DOMAIN D /\ 1 \in DOMAIN D
          /\ DOMAIN D[1] = 1..Len(D[1]) /\ DOMAIN E[1] = 1..(Len(D[1]) + 1) /\ Len(D[1]) \in Nat
          /\ E[1][1] = m /\ \A l \in DOMAIN D[1] : E[1][l + 1] = D[1][l]
          /\ \A q \in DOMAIN D : q # 1 => E[q] = D[q]
      <3>1. 1 \in DOMAIN D /\ D[1] \in Seq(Message)
        BY <1>2
      <3>2. PICK s : s = <<m>> \o D[1]
        OBVIOUS
      <3>3. s \in Seq(Message) /\ Len(s) = Len(D[1]) + 1 /\ s[1] = m /\ \A l \in DOMAIN D[1] : s[l + 1] = D[1][l]
        BY <3>1, <3>2
      <3>4. E = [D EXCEPT ![1] = s]
        BY <1>2, <3>2 DEF AtFront
      <3>5. E \in Seq(Seq(Message))
        <4>1. E \in [1..Len(D) -> Seq(Message)] /\ Len(D) \in Nat
          BY <3>1, <3>3, <3>4
        <4>2. QED BY <4>1, IsSeq
      <3>6. QED BY <3>1, <3>3, <3>4, <3>5
    <2>2. \A q \in DOMAIN D : q \in Nat /\ q >= 1 /\ \A l \in DOMAIN D[q] : l \in Nat /\ l >= 1
      OBVIOUS
    <2>3. \A q \in DOMAIN D : \A l \in DOMAIN D[q] : Shift(q, l) \in DOMAIN E[q] /\ E[q][Shift(q, l)] = D[q][l]
      <3>1. \A l \in DOMAIN D[1] : l + 1 \in DOMAIN E[1] /\ Shift(1, l) = l + 1
        BY <2>1, <2>2 DEF Shift
      <3>2. \A q \in DOMAIN D : q # 1 => \A l : Shift(q, l) = l
        BY DEF Shift
      <3>3. ASSUME NEW q \in DOMAIN D, NEW l \in DOMAIN D[q]
            PROVE  Shift(q, l) \in DOMAIN E[q] /\ E[q][Shift(q, l)] = D[q][l]
        <4>1. CASE q = 1
          BY <2>1, <3>1, <4>1
        <4>2. CASE q # 1
          BY <2>1, <3>2, <4>2
        <4>3. QED BY <4>1, <4>2
      <3>4. QED BY <3>3
    <2>4. ASSUME NEW q \in DOMAIN E, NEW l \in DOMAIN E[q], ~(q = 1 /\ l = 1)
          PROVE  q \in DOMAIN D /\ \E j \in DOMAIN D[q] : l = Shift(q, j) /\ E[q][l] = D[q][j]
      <3>1. CASE q = 1
        <4>1. l - 1 \in DOMAIN D[1] /\ (l - 1) + 1 = l
          BY <2>1, <2>4, <3>1
        <4>2. l = Shift(q, l - 1) /\ E[q][l] = D[q][l - 1]
          BY <2>1, <3>1, <4>1 DEF Shift
        <4>3. QED BY <2>1, <3>1, <4>1, <4>2
      <3>2. CASE q # 1
        BY <2>1, <2>4, <3>2 DEF Shift
      <3>3. QED BY <3>1, <3>2
    <2>5. QED BY <2>1, <2>2, <2>3, <2>4 DEF InFront
  <1>3. QED BY <1>1, <1>2

(* Rows that are held stay, and no bubble comes. *)
Merges(D, E, R) ==
    /\ \A i \in DOMAIN R : HeldId(D, i) => HeldId(E, i)
    /\ \A p \in DOMAIN E : \A k \in DOMAIN E[p] : E[p][k].id \in Nonces => BubbleOf(D, E[p][k])

LEMMA RowIdsAreNot ==
    ASSUME NEW R \in Seq(RowRecord)
    PROVE  \A i \in DOMAIN R : i \notin Nonces /\ i \in Nat /\ R[i].nonce \in Nonces \cup {Nil}
  <1>1. \A i \in DOMAIN R : i \in Nat /\ R[i] \in RowRecord
    OBVIOUS
  <1>2. \A i \in Nat : i \notin Nonces
    BY NamesAssumption
  <1>3. QED BY <1>1, <1>2 DEF RowRecord

LEMMA FrontShape ==
    ASSUME NEW R \in Seq(RowRecord), NEW D, Shape(D, R), NEW m, Fits(m, R), ~HeldId(D, m.id), NEW E, E = AtFront(D, m)
    PROVE  /\ Shape(E, R) /\ HeldId(E, m.id)
           /\ \A i : HeldId(D, i) => HeldId(E, i)
           /\ MadeOf(E, D, m)
  <1>1. D \in Seq(Seq(Message)) /\ m \in Message
    BY DEF Shape, Fits
  <1>2. /\ E \in Seq(Seq(Message)) /\ 1 \in DOMAIN E /\ 1 \in DOMAIN E[1] /\ E[1][1] = m
        /\ \A q \in DOMAIN D : \A l \in DOMAIN D[q] :
              /\ q \in Nat /\ l \in Nat /\ q >= 1 /\ l >= 1
              /\ q \in DOMAIN E /\ Shift(q, l) \in DOMAIN E[q] /\ E[q][Shift(q, l)] = D[q][l]
        /\ \A q \in DOMAIN E : \A l \in DOMAIN E[q] :
              \/ q = 1 /\ l = 1
              \/ q \in DOMAIN D /\ \E j \in DOMAIN D[q] : l = Shift(q, j) /\ E[q][l] = D[q][j]
    <2>1. InFront(D, m, E)
      BY <1>1, FrontPlaces
    <2>2. QED BY <2>1 DEF InFront
  <1>3. \A q \in DOMAIN D : \A l \in DOMAIN D[q] : Fits(D[q][l], R) /\ D[q][l].id # m.id
    BY DEF Shape, HeldId
  <1>4. ASSUME NEW q \in DOMAIN E, NEW l \in DOMAIN E[q] PROVE Fits(E[q][l], R)
    <2>1. CASE q = 1 /\ l = 1
      BY <1>2, <2>1
    <2>2. CASE ~(q = 1 /\ l = 1)
      <3>1. PICK j \in DOMAIN D[q] : q \in DOMAIN D /\ E[q][l] = D[q][j]
        BY <1>2, <2>2
      <3>2. QED BY <1>3, <3>1
    <2>3. QED BY <2>1, <2>2
  <1>5. OneBubble(E)
    <2> SUFFICES ASSUME NEW q \in DOMAIN E, NEW l \in DOMAIN E[q], NEW q2 \in DOMAIN E, NEW l2 \in DOMAIN E[q2],
                        E[q][l].id \in Nonces, E[q2][l2].id = E[q][l].id
                 PROVE  q = q2 /\ l = l2
      BY DEF OneBubble
    <2>1. CASE q = 1 /\ l = 1
      BY <1>2, <1>3, <2>1
    <2>2. CASE ~(q = 1 /\ l = 1) /\ q2 = 1 /\ l2 = 1
      BY <1>2, <1>3, <2>2
    <2>3. CASE ~(q = 1 /\ l = 1) /\ ~(q2 = 1 /\ l2 = 1)
      <3>1. PICK j \in DOMAIN D[q] : q \in DOMAIN D /\ l = Shift(q, j) /\ E[q][l] = D[q][j]
        BY <1>2, <2>3
      <3>2. PICK j2 \in DOMAIN D[q2] : q2 \in DOMAIN D /\ l2 = Shift(q2, j2) /\ E[q2][l2] = D[q2][j2]
        BY <1>2, <2>3
      <3>3. q = q2 /\ j = j2
        BY <3>1, <3>2 DEF Shape, OneBubble
      <3>4. QED BY <3>1, <3>2, <3>3
    <2>4. QED BY <2>1, <2>2, <2>3
  <1>6. Shape(E, R)
    BY <1>2, <1>4, <1>5 DEF Shape
  <1>7. HeldId(E, m.id) /\ \A i : HeldId(D, i) => HeldId(E, i)
    BY <1>2 DEF HeldId
  <1>8. MadeOf(E, D, m)
    BY <1>2 DEF BubbleOf, MadeOf
  <1>9. QED BY <1>6, <1>7, <1>8

(* What a cache shows of a text when its messages are m and some of D's. *)
LEMMA ShownAfter ==
    ASSUME NEW D, NEW E, NEW R, NEW m, NEW t,
           MadeOf(E, D, m)
    PROVE  /\ ShownOf(E, R, t) \subseteq ShownOf(D, R, t) \cup {R[m.id].nonce}
           /\ m.content # t \/ m.id \notin DOMAIN R => ShownOf(E, R, t) \subseteq ShownOf(D, R, t)
  <1> SUFFICES ASSUME NEW c \in ShownOf(E, R, t)
               PROVE  c \in ShownOf(D, R, t) \/ (c = R[m.id].nonce /\ m.content = t /\ m.id \in DOMAIN R)
    OBVIOUS
  <1>1. c \in Nonces
    BY DEF ShownOf
  <1>2. PICK p \in DOMAIN E : \E k \in DOMAIN E[p] : RowOf(E[p][k], R, t, c)
    BY DEF ShownOf
  <1>3. PICK k \in DOMAIN E[p] : RowOf(E[p][k], R, t, c)
    BY <1>2
  <1>4. CASE E[p][k] = m
    BY <1>3, <1>4 DEF RowOf
  <1>5. CASE BubbleOf(D, E[p][k])
    <2>1. PICK q \in DOMAIN D : \E l \in DOMAIN D[q] : D[q][l] = E[p][k]
      BY <1>5 DEF BubbleOf
    <2>2. PICK l \in DOMAIN D[q] : D[q][l] = E[p][k]
      BY <2>1
    <2>3. RowOf(D[q][l], R, t, c)
      BY <1>3, <2>2
    <2>4. QED BY <1>1, <2>3 DEF ShownOf
  <1>6. QED BY <1>4, <1>5 DEF MadeOf

LEMMA BubblesAfter ==
    ASSUME NEW D, NEW E, NEW m, NEW t,
           MadeOf(E, D, m)
    PROVE  BubblesOf(E, t) \subseteq BubblesOf(D, t) \cup ({m.id} \cap Nonces)
  <1> SUFFICES ASSUME NEW c \in BubblesOf(E, t), c # m.id PROVE c \in BubblesOf(D, t)
    BY DEF BubblesOf
  <1>1. c \in Nonces /\ TextOf[c] = t /\ HeldId(E, c)
    BY DEF BubblesOf
  <1>2. PICK p \in DOMAIN E : \E k \in DOMAIN E[p] : E[p][k].id = c
    BY <1>1 DEF HeldId
  <1>3. PICK k \in DOMAIN E[p] : E[p][k].id = c
    BY <1>2
  <1>4. BubbleOf(D, E[p][k])
    BY <1>3 DEF MadeOf
  <1>5. HeldId(D, c)
    BY <1>3, <1>4 DEF BubbleOf, HeldId
  <1>6. QED BY <1>1, <1>5 DEF BubblesOf

(* A row takes the place of a bubble: that of its send, or one of its text.  *)
LEMMA ReplaceKeeps ==
    ASSUME NEW R \in Seq(RowRecord), NEW w, NEW D, GoodCache(D, R, w), NEW m, Served(m, R),
           NEW p \in DOMAIN D, NEW k \in DOMAIN D[p], D[p][k].id \in Nonces,
           m.content \in Texts => TextOf[D[p][k].id] = m.content,
           NEW E, E = PutAt(D, p, k, m)
    PROVE  GoodCache(E, R, w) /\ Merges(D, E, R) /\ HeldId(E, m.id) /\ ~HeldId(E, D[p][k].id)
  <1>1. /\ D \in Seq(Seq(Message)) /\ m \in Message /\ m.id \in DOMAIN R /\ m.id \notin Nonces /\ Fits(m, R)
        /\ OneBubble(D) /\ Counted(D, R, w)
    BY DEF GoodCache, Shape, Served, Fits
  <1>2. /\ E \in Seq(Seq(Message)) /\ DOMAIN E = DOMAIN D
        /\ \A q \in DOMAIN D : DOMAIN E[q] = DOMAIN D[q]
        /\ E[p][k] = m
        /\ \A q \in DOMAIN D : \A l \in DOMAIN D[q] : q # p \/ l # k => E[q][l] = D[q][l]
    BY <1>1, ReplacedAt
  <1>4. \A q \in DOMAIN D : \A l \in DOMAIN D[q] : Fits(D[q][l], R)
    BY DEF GoodCache, Shape
  <1>5. ASSUME NEW q \in DOMAIN E, NEW l \in DOMAIN E[q] PROVE Fits(E[q][l], R)
    <2>1. CASE q = p /\ l = k
      BY <1>1, <1>2, <2>1
    <2>2. CASE q # p \/ l # k
      BY <1>2, <1>4, <2>2
    <2>3. QED BY <2>1, <2>2
  <1>6. \A q \in DOMAIN E : \A l \in DOMAIN E[q] :
           E[q][l].id \in Nonces => (q # p \/ l # k) /\ E[q][l] = D[q][l]
    BY <1>1, <1>2
  <1>7. OneBubble(E)
    <2> SUFFICES ASSUME NEW q \in DOMAIN E, NEW l \in DOMAIN E[q], NEW q2 \in DOMAIN E, NEW l2 \in DOMAIN E[q2],
                        E[q][l].id \in Nonces, E[q2][l2].id = E[q][l].id
                 PROVE  q = q2 /\ l = l2
      BY DEF OneBubble
    <2>1. E[q][l] = D[q][l] /\ E[q2][l2] = D[q2][l2]
      BY <1>6
    <2>2. QED BY <1>1, <1>2, <2>1 DEF OneBubble
  <1>8. Shape(E, R)
    BY <1>2, <1>5, <1>7 DEF Shape
  <1>10. \A i \in DOMAIN R : HeldId(D, i) => HeldId(E, i)
    <2> SUFFICES ASSUME NEW i \in DOMAIN R, NEW q \in DOMAIN D, NEW l \in DOMAIN D[q], D[q][l].id = i
                 PROVE  HeldId(E, i)
      BY DEF HeldId
    <2>1. i \notin Nonces
      BY RowIdsAreNot
    <2>2. E[q][l] = D[q][l]
      BY <1>2, <2>1
    <2>3. QED BY <1>2, <2>2 DEF HeldId
  <1>11. \A q \in DOMAIN E : \A l \in DOMAIN E[q] : E[q][l].id \in Nonces => BubbleOf(D, E[q][l])
    BY <1>2, <1>6 DEF BubbleOf
  <1>12. MadeOf(E, D, m)
    BY <1>2 DEF BubbleOf, MadeOf
  <1>13. HeldId(E, m.id)
    BY <1>2 DEF HeldId
  <1> DEFINE b == D[p][k].id
  <1>14. ~HeldId(E, b)
    <2> SUFFICES ASSUME NEW q \in DOMAIN E, NEW l \in DOMAIN E[q], E[q][l].id = b PROVE FALSE
      BY DEF HeldId
    <2>1. (q # p \/ l # k) /\ D[q][l].id = D[p][k].id
      BY <1>6
    <2>2. q \in DOMAIN D /\ l \in DOMAIN D[q]
      BY <1>2
    <2>3. QED BY <1>1, <2>1, <2>2 DEF OneBubble
  <1>15. HeldId(D, b) /\ b \in Nonces
    BY DEF HeldId
  <1> HIDE DEF b
  <1>16. ASSUME NEW t \in Texts
         PROVE  Tally(BubblesOf(E, t), ShownOf(E, R, t), SentOf(w, t), t, w[1])
    <2>1. Tally(BubblesOf(D, t), ShownOf(D, R, t), SentOf(w, t), t, w[1])
      BY <1>1 DEF Counted
    <2>2. BubblesOf(E, t) \subseteq BubblesOf(D, t) \ {b}
      <3>1. BubblesOf(E, t) \subseteq BubblesOf(D, t) \cup ({m.id} \cap Nonces)
        BY <1>12, BubblesAfter
      <3>2. b \notin BubblesOf(E, t)
        BY <1>14 DEF BubblesOf
      <3>3. QED BY <1>1, <3>1, <3>2
    <2>3. /\ ShownOf(E, R, t) \subseteq ShownOf(D, R, t) \cup {R[m.id].nonce}
          /\ m.content # t => ShownOf(E, R, t) \subseteq ShownOf(D, R, t)
      BY <1>12, ShownAfter
    <2>4. CASE m.content = t
      <3>1. b \in BubblesOf(D, t)
        BY <1>15, <2>4 DEF BubblesOf, b
      <3>2. R[m.id].nonce \in SentOf(w, t)
        <4>1. R[m.id].nonce \in Nonces /\ TextOf[R[m.id].nonce] = t
          BY <1>1, <2>4 DEF Fits, TextFits
        <4>2. R[m.id].nonce \in w[2] \cup {Nil}
          BY <1>1 DEF Counted, Ledger
        <4>3. QED BY <4>1, <4>2, NamesAssumption DEF SentOf
      <3>3. QED BY <2>1, <2>2, <2>3, <3>1, <3>2, TallySwap
    <2>5. CASE m.content # t
      <3>1. IsFiniteSet(SentOf(w, t))
        BY <2>1 DEF Tally
      <3>2. QED BY <2>1, <2>2, <2>3, <2>5, <3>1, TallyLess
    <2>6. QED BY <2>4, <2>5
  <1>17. GoodCache(E, R, w)
    BY <1>1, <1>8, <1>16 DEF GoodCache, Counted
  <1>18. QED BY <1>10, <1>11, <1>13, <1>14, <1>17 DEF Merges, b

(* A row whose text no bubble has goes to the front. *)
LEMMA FrontKeeps ==
    ASSUME NEW R \in Seq(RowRecord), NEW w, NEW D, GoodCache(D, R, w), NEW m, Served(m, R), ~HeldId(D, m.id),
           m.user = Me => \A p \in DOMAIN D : \A k \in DOMAIN D[p] :
                             D[p][k].id \in Nonces => TextOf[D[p][k].id] # m.content,
           NEW E, E = AtFront(D, m)
    PROVE  /\ GoodCache(E, R, w) /\ HeldId(E, m.id) /\ Merges(D, E, R)
  <1>1. /\ Fits(m, R) /\ m.id \in DOMAIN R /\ m.id \notin Nonces /\ (R[m.id].nonce \in Nonces => m.user = Me)
        /\ Shape(D, R) /\ Counted(D, R, w)
    BY DEF GoodCache, Served, Fits
  <1>2. /\ Shape(E, R) /\ HeldId(E, m.id)
        /\ \A i : HeldId(D, i) => HeldId(E, i)
        /\ MadeOf(E, D, m)
    BY <1>1, FrontShape
  <1>3. Merges(D, E, R)
    BY <1>1, <1>2 DEF Merges, MadeOf
  <1>4. ASSUME NEW t \in Texts
        PROVE  Tally(BubblesOf(E, t), ShownOf(E, R, t), SentOf(w, t), t, w[1])
    <2>1. Tally(BubblesOf(D, t), ShownOf(D, R, t), SentOf(w, t), t, w[1])
      BY <1>1 DEF Counted
    <2>2. IsFiniteSet(SentOf(w, t))
      BY <2>1 DEF Tally
    <2>3. BubblesOf(E, t) \subseteq BubblesOf(D, t)
      <3>1. BubblesOf(E, t) \subseteq BubblesOf(D, t) \cup ({m.id} \cap Nonces)
        BY <1>2, BubblesAfter
      <3>2. QED BY <1>1, <3>1
    <2>4. CASE m.content # t
      <3>1. ShownOf(E, R, t) \subseteq ShownOf(D, R, t)
        BY <1>2, <2>4, ShownAfter
      <3>2. QED BY <2>1, <2>2, <2>3, <3>1, TallyLess
    <2>5. CASE m.content = t
      <3>1. R[m.id].nonce \in Nonces
        BY <1>1, <2>5 DEF Fits, TextFits
      <3>2. BubblesOf(D, t) = {}
        BY <1>1, <2>5, <3>1 DEF BubblesOf, HeldId
      <3>3. BubblesOf(E, t) = {}
        BY <2>3, <3>2
      <3>4. ShownOf(E, R, t) \subseteq SentOf(w, t)
        BY <1>1, <1>2, RowIdsAreNot, ShownAreSent DEF Shape, Counted
      <3>5. QED BY <2>2, <3>3, <3>4, TallyNone
    <2>6. QED BY <2>4, <2>5
  <1>5. QED BY <1>1, <1>2, <1>3, <1>4 DEF GoodCache, Counted

(* One row of the server merged into a cache, by event, answer or resync. *)
RowInc(inc, R) == Served(inc.message, R) /\ inc.nonce \in {Nil, R[inc.message.id].nonce}

LEMMA MergesSame ==
    ASSUME NEW D, NEW R
    PROVE  Merges(D, D, R)
  BY DEF Merges, BubbleOf

LEMMA MergesNoBubble ==
    ASSUME NEW D, NEW E, NEW R, Merges(D, E, R), NEW c \in Nonces, ~HeldId(D, c)
    PROVE  ~HeldId(E, c)
  <1> SUFFICES ASSUME NEW p \in DOMAIN E, NEW k \in DOMAIN E[p], E[p][k].id = c PROVE FALSE
    BY DEF HeldId
  <1>1. BubbleOf(D, E[p][k])
    BY DEF Merges
  <1>2. QED BY <1>1 DEF BubbleOf, HeldId

LEMMA ApplyRow ==
    ASSUME NEW R \in Seq(RowRecord), NEW w, NEW D, GoodCache(D, R, w), NEW inc, RowInc(inc, R),
           NEW E, E = applyOne(D, inc, Me)
    PROVE  GoodCache(E, R, w) /\ Merges(D, E, R) /\ HeldId(E, inc.message.id)
           /\ (inc.nonce \in Nonces => ~HeldId(E, inc.nonce))
  <1> DEFINE m == inc.message
  <1>1. /\ m \in Message /\ m.id \in DOMAIN R /\ m.id \notin Nonces /\ Served(m, R)
        /\ R[m.id].nonce \in Nonces \cup {Nil} /\ Confirmed(m) /\ TextFits(m.content, R[m.id].nonce)
    BY RowIdsAreNot DEF RowInc, Served, Fits
  <1>2. inc.nonce \in Nonces \cup {Nil} /\ (inc.nonce \in Nonces => inc.nonce = R[m.id].nonce)
    BY <1>1, NamesAssumption DEF RowInc
  <1>3. Shape(D, R)
    BY DEF GoodCache
  <1> HIDE DEF m
  <1>5. CASE E = D /\ HeldId(D, m.id) /\ ~HeldId(D, inc.nonce)
    BY <1>5, MergesSame DEF m
  <1>6. ASSUME NEW p \in DOMAIN D, NEW k \in DOMAIN D[p], E = PutAt(D, p, k, m), D[p][k].id \in Nonces,
               \/ D[p][k].id = inc.nonce
               \/ ~HeldId(D, inc.nonce) /\ TextOf[D[p][k].id] = m.content
        PROVE  GoodCache(E, R, w) /\ Merges(D, E, R) /\ HeldId(E, m.id)
               /\ (inc.nonce \in Nonces => ~HeldId(E, inc.nonce))
    <2>1. m.content \in Texts => TextOf[D[p][k].id] = m.content
      BY <1>1, <1>2, <1>6 DEF TextFits
    <2>2. GoodCache(E, R, w) /\ Merges(D, E, R) /\ HeldId(E, m.id) /\ ~HeldId(E, D[p][k].id)
      BY <1>1, <1>6, <2>1, ReplaceKeeps
    <2>3. QED BY <1>6, <2>2, MergesNoBubble
  <1>7. CASE /\ ~HeldId(D, inc.nonce) /\ ~HeldId(D, m.id) /\ E = AtFront(D, m)
             /\ Confirmed(m) /\ m.user = Me =>
                    \A p \in DOMAIN D : \A k \in DOMAIN D[p] : D[p][k].id \in Nonces => TextOf[D[p][k].id] # m.content
    <2>1. GoodCache(E, R, w) /\ HeldId(E, m.id) /\ Merges(D, E, R)
      BY <1>1, <1>7, FrontKeeps
    <2>2. QED BY <1>7, <2>1, MergesNoBubble DEF m
  <1>8. ApplyResult(D, inc, E)
    BY <1>1, <1>2, <1>3, ApplyCases DEF m
  <1>9. QED BY <1>5, <1>6, <1>7, <1>8 DEF m, ApplyResult

-----------------------------------------------------------------------------
(* Merging many, one after the other. *)

LEMMA SetInduction ==
    ASSUME NEW S, 0 \in S, \A n \in Nat : n \in S => n + 1 \in S
    PROVE  \A n \in Nat : n \in S
  <1> DEFINE T == Nat \ S
             R == OpToRel(<, Nat)
  <1> SUFFICES ASSUME T # {} PROVE FALSE
    OBVIOUS
  <1>1. \A i, j \in Nat : i < j => <<i, j>> \in R
    BY DEF OpToRel
  <1>2. IsWellFoundedOn(R, Nat)
    BY NatLessThanWellFounded
  <1>3. T \subseteq Nat /\ \A n : n \in T <=> n \in Nat /\ n \notin S
    OBVIOUS
  <1> HIDE DEF T, R
  <1>4. PICK n \in T : \A m \in T : ~(<<m, n>> \in R)
    BY <1>2, <1>3, WFMin
  <1>5. n \in Nat /\ n \notin S /\ n # 0
    BY <1>3
  <1>6. n - 1 \in Nat /\ (n - 1) + 1 = n /\ n - 1 < n
    BY <1>5
  <1>7. n - 1 \notin T
    BY <1>1, <1>4, <1>5, <1>6, Zenon
  <1>8. n - 1 \in S
    BY <1>3, <1>6, <1>7
  <1>9. QED BY <1>5, <1>6, <1>8

Chain(f, n, before, incoming) ==
    f = [k \in 0..n |-> IF k = 0 THEN before ELSE applyOne(f[k - 1], incoming[k], Me)]

(* The recursive function of upsertMessages is what its definition says. *)
LEMMA ChainExists ==
    ASSUME NEW before, NEW incoming
    PROVE  \A n \in Nat : \E f : Chain(f, n, before, incoming)
  <1> DEFINE S == {n \in Nat : \E f : Chain(f, n, before, incoming)}
  <1>1. 0 \in S
    <2>1. Chain([k \in 0..0 |-> before], 0, before, incoming)
      BY DEF Chain
    <2>2. QED BY <2>1
  <1>2. ASSUME NEW n \in Nat, n \in S PROVE n + 1 \in S
    <2>1. PICK f : Chain(f, n, before, incoming)
      BY <1>2
    <2> DEFINE g == [k \in 0..(n + 1) |-> IF k = n + 1 THEN applyOne(f[n], incoming[n + 1], Me) ELSE f[k]]
               h == [k \in 0..(n + 1) |-> IF k = 0 THEN before ELSE applyOne(g[k - 1], incoming[k], Me)]
    <2>2. ASSUME NEW k \in 0..(n + 1) PROVE g[k] = h[k]
      <3>1. CASE k = n + 1
        <4>1. g[k - 1] = f[n] /\ k # 0 /\ incoming[k] = incoming[n + 1]
          BY <3>1
        <4>2. QED BY <3>1, <4>1
      <3>2. CASE k = 0
        <4>1. g[0] = f[0] /\ f[0] = before
          BY <2>1 DEF Chain
        <4>2. QED BY <3>2, <4>1
      <3>3. CASE k # 0 /\ k # n + 1
        <4>1. k \in 1..n /\ k - 1 \in 0..n /\ k - 1 # n + 1 /\ k \in 0..n
          BY <3>3
        <4>2. g[k] = f[k] /\ g[k - 1] = f[k - 1]
          BY <3>3, <4>1
        <4>3. f[k] = applyOne(f[k - 1], incoming[k], Me)
          BY <2>1, <3>3, <4>1 DEF Chain
        <4>4. QED BY <3>3, <4>2, <4>3
      <3>4. QED BY <3>1, <3>2, <3>3
    <2>3. g = h
      BY <2>2
    <2>4. Chain(g, n + 1, before, incoming)
      BY <2>3 DEF Chain
    <2>5. QED BY <2>4
  <1> HIDE DEF S
  <1>3. \A n \in Nat : n \in S
    BY <1>1, <1>2, SetInduction
  <1>4. QED BY <1>3 DEF S

LEMMA MergeStep ==
    ASSUME NEW before, NEW incoming, Len(incoming) \in Nat, NEW f, f = mergeFrom(before, incoming, Me)
    PROVE  /\ f[0] = before
           /\ \A k \in 1..Len(incoming) : f[k] = applyOne(f[k - 1], incoming[k], Me)
  <1>1. PICK g : Chain(g, Len(incoming), before, incoming)
    BY ChainExists
  <1>2. Chain(f, Len(incoming), before, incoming)
    BY <1>1 DEF mergeFrom, Chain
  <1>3. QED BY <1>2 DEF Chain

LEMMA MergesCompose ==
    ASSUME NEW D, NEW E, NEW F, NEW R, Merges(D, E, R), Merges(E, F, R)
    PROVE  Merges(D, F, R)
  <1>1. \A i \in DOMAIN R : HeldId(D, i) => HeldId(F, i)
    BY DEF Merges
  <1>2. ASSUME NEW p \in DOMAIN F, NEW k \in DOMAIN F[p], F[p][k].id \in Nonces PROVE BubbleOf(D, F[p][k])
    <2>1. BubbleOf(E, F[p][k])
      BY <1>2 DEF Merges
    <2>2. PICK q \in DOMAIN E : \E l \in DOMAIN E[q] : E[q][l] = F[p][k]
      BY <2>1 DEF BubbleOf
    <2>3. PICK l \in DOMAIN E[q] : E[q][l] = F[p][k]
      BY <2>2
    <2>4. BubbleOf(D, E[q][l])
      BY <1>2, <2>3 DEF Merges
    <2>5. QED BY <2>3, <2>4
  <1>3. QED BY <1>1, <1>2 DEF Merges

(* Merging rows of the server, as many as there are: every one of them is    *)
(* held in the end, and nothing else is lost.                                *)
LEMMA MergeRows ==
    ASSUME NEW R \in Seq(RowRecord), NEW w, NEW D, GoodCache(D, R, w), NEW incoming, Len(incoming) \in Nat,
           \A k \in 1..Len(incoming) : RowInc(incoming[k], R),
           NEW E, E = mergeFrom(D, incoming, Me)[Len(incoming)]
    PROVE  /\ GoodCache(E, R, w) /\ Merges(D, E, R)
           /\ \A k \in 1..Len(incoming) : HeldId(E, incoming[k].message.id)
  <1> DEFINE f == mergeFrom(D, incoming, Me)
             Done(n) == /\ GoodCache(f[n], R, w) /\ Merges(D, f[n], R)
                        /\ \A k \in 1..n : HeldId(f[n], incoming[k].message.id)
             S == {n \in Nat : n <= Len(incoming) => Done(n)}
  <1>1. /\ f[0] = D
        /\ \A k \in 1..Len(incoming) : f[k] = applyOne(f[k - 1], incoming[k], Me)
    BY MergeStep
  <1> HIDE DEF f
  <1>2. 0 \in S
    BY <1>1, MergesSame
  <1>3. ASSUME NEW n \in Nat, n \in S PROVE n + 1 \in S
    <2> SUFFICES ASSUME n + 1 <= Len(incoming) PROVE Done(n + 1)
      OBVIOUS
    <2>1. Done(n) /\ n + 1 \in 1..Len(incoming) /\ (n + 1) - 1 = n
      BY <1>3
    <2>2. f[n + 1] = applyOne(f[n], incoming[n + 1], Me)
      BY <1>1, <2>1
    <2>3. /\ GoodCache(f[n + 1], R, w) /\ Merges(f[n], f[n + 1], R)
          /\ HeldId(f[n + 1], incoming[n + 1].message.id)
      BY <2>1, <2>2, ApplyRow
    <2>4. Merges(D, f[n + 1], R)
      BY <2>1, <2>3, MergesCompose
    <2>5. ASSUME NEW k \in 1..(n + 1) PROVE HeldId(f[n + 1], incoming[k].message.id)
      <3>1. CASE k = n + 1
        BY <2>3, <3>1
      <3>2. CASE k # n + 1
        <4>1. k \in 1..n /\ k \in 1..Len(incoming)
          BY <2>1, <3>2
        <4>2. incoming[k].message.id \in DOMAIN R
          BY <4>1 DEF RowInc, Served, Fits
        <4>3. HeldId(f[n], incoming[k].message.id)
          BY <2>1, <4>1
        <4>4. QED BY <2>3, <4>2, <4>3 DEF Merges
      <3>3. QED BY <3>1, <3>2
    <2>6. QED BY <2>3, <2>4, <2>5
  <1> HIDE DEF S
  <1>4. \A n \in Nat : n \in S
    BY <1>2, <1>3, SetInduction
  <1>5. Done(Len(incoming))
    BY <1>4 DEF S
  <1>6. QED BY <1>5 DEF f

-----------------------------------------------------------------------------
(* upsertMessages on a cache that may hold no data yet. *)

LEMMA NoPages ==
    ASSUME NEW R, NEW w, Ledger(R, w)
    PROVE  GoodCache(<<>>, R, w)
  <1>1. Shape(<<>>, R)
    BY DEF Shape, OneBubble
  <1>2. ASSUME NEW t \in Texts
        PROVE  Tally(BubblesOf(<<>>, t), ShownOf(<<>>, R, t), SentOf(w, t), t, w[1])
    <2>1. BubblesOf(<<>>, t) = {} /\ ShownOf(<<>>, R, t) = {}
      BY DEF BubblesOf, ShownOf, HeldId
    <2>2. IsFiniteSet(SentOf(w, t))
      BY SentIsFinite
    <2>3. {} \subseteq SentOf(w, t)
      OBVIOUS
    <2>4. Tally({}, {}, SentOf(w, t), t, w[1])
      BY <2>2, <2>3, TallyNone
    <2>5. QED BY <2>1, <2>4
  <1>3. QED BY <1>1, <1>2 DEF GoodCache, Counted

LEMMA PagesOfCache ==
    ASSUME NEW E \in Seq(Seq(Message))
    PROVE  Pages(E) = E /\ E # Nil
  BY NamesAssumption DEF Pages

LEMMA UpsertIs ==
    ASSUME NEW d, NEW incoming, NEW E, E = mergeFrom(Pages(d), incoming, Me)[Len(incoming)],
           NEW i, HeldId(E, i)
    PROVE  upsertMessages(d, incoming, Me) = E
  <1>1. E # <<>>
    BY DEF HeldId
  <1>2. QED BY <1>1 DEF upsertMessages, Pages

LEMMA UpsertRows ==
    ASSUME NEW R \in Seq(RowRecord), NEW w, NEW d, GoodCache(Pages(d), R, w),
           NEW incoming, Len(incoming) \in Nat \ {0},
           \A k \in 1..Len(incoming) : RowInc(incoming[k], R),
           NEW E, E = upsertMessages(d, incoming, Me)
    PROVE  /\ Pages(E) = E /\ E # Nil /\ GoodCache(E, R, w) /\ Merges(Pages(d), E, R)
           /\ \A k \in 1..Len(incoming) : HeldId(E, incoming[k].message.id)
  <1> DEFINE F == mergeFrom(Pages(d), incoming, Me)[Len(incoming)]
  <1>1. /\ GoodCache(F, R, w) /\ Merges(Pages(d), F, R)
        /\ \A k \in 1..Len(incoming) : HeldId(F, incoming[k].message.id)
    BY MergeRows
  <1> HIDE DEF F
  <1>2. HeldId(F, incoming[1].message.id)
    BY <1>1
  <1>3. E = F
    BY <1>2, UpsertIs DEF F
  <1>4. Pages(E) = E /\ E # Nil
    BY <1>1, <1>3, PagesOfCache DEF GoodCache, Shape
  <1>5. QED BY <1>1, <1>3, <1>4

LEMMA OneMerged ==
    ASSUME NEW D, NEW inc
    PROVE  Len(<<inc>>) = 1 /\ mergeFrom(D, <<inc>>, Me)[1] = applyOne(D, inc, Me)
  <1> DEFINE s == <<inc>>
             f == mergeFrom(D, s, Me)
  <1>1. Len(s) = 1 /\ Len(s) \in Nat /\ s[1] = inc
    OBVIOUS
  <1> HIDE DEF s
  <1>2. f[0] = D /\ \A k \in 1..Len(s) : f[k] = applyOne(f[k - 1], s[k], Me)
    BY <1>1, MergeStep
  <1> HIDE DEF f
  <1>3. 1 \in 1..Len(s) /\ 1 - 1 = 0
    BY <1>1
  <1>4. f[1] = applyOne(f[0], inc, Me)
    BY <1>1, <1>2, <1>3
  <1>5. QED BY <1>1, <1>2, <1>4 DEF f, s

(* One row: the bubble of its nonce is gone. *)
LEMMA UpsertRow ==
    ASSUME NEW R \in Seq(RowRecord), NEW w, NEW d, GoodCache(Pages(d), R, w), NEW inc, RowInc(inc, R),
           NEW E, E = upsertMessages(d, <<inc>>, Me)
    PROVE  /\ Pages(E) = E /\ E # Nil /\ GoodCache(E, R, w) /\ Merges(Pages(d), E, R)
           /\ HeldId(E, inc.message.id)
           /\ inc.nonce \in Nonces => ~HeldId(E, inc.nonce)
  <1> DEFINE F == applyOne(Pages(d), inc, Me)
  <1>1. GoodCache(F, R, w) /\ Merges(Pages(d), F, R) /\ HeldId(F, inc.message.id)
        /\ (inc.nonce \in Nonces => ~HeldId(F, inc.nonce))
    BY ApplyRow
  <1>2. F = mergeFrom(Pages(d), <<inc>>, Me)[Len(<<inc>>)]
    BY OneMerged
  <1> HIDE DEF F
  <1>3. E = F
    BY <1>1, <1>2, UpsertIs
  <1>4. Pages(E) = E /\ E # Nil
    BY <1>1, <1>3, PagesOfCache DEF GoodCache, Shape
  <1>5. QED BY <1>1, <1>3, <1>4

(* A send has a bubble, and one more send has been made. *)
LEMMA UpsertBubble ==
    ASSUME NEW R \in Seq(RowRecord), NEW w, NEW d, GoodCache(Pages(d), R, w), NEW c \in Nonces, c \notin w[2],
           NEW x, x[1] = w[1], x[2] = w[2] \cup {c},
           NEW E, E = upsertMessages(d, <<[message |-> Optimistic(c, Me, TextOf[c]), nonce |-> Nil]>>, Me)
    PROVE  /\ Pages(E) = E /\ E # Nil /\ GoodCache(E, R, x)
           /\ \A i : HeldId(Pages(d), i) => HeldId(E, i)
           /\ \A p \in DOMAIN E : \A k \in DOMAIN E[p] : E[p][k].id = c \/ BubbleOf(Pages(d), E[p][k])
  <1> DEFINE inc == [message |-> Optimistic(c, Me, TextOf[c]), nonce |-> Nil]
             m == Optimistic(c, Me, TextOf[c])
             D == Pages(d)
             F == applyOne(Pages(d), inc, Me)
  <1>1. m \in Message /\ m.id = c /\ ~Confirmed(m) /\ m.content = TextOf[c] /\ m.user = Me
    BY DEF Optimistic, Message, Confirmed, Texts
  <1>2. inc.message = m /\ inc.nonce = Nil
    OBVIOUS
  <1>3. Fits(m, R)
    BY <1>1 DEF Fits
  <1> HIDE DEF m
  <1>4. F = mergeFrom(Pages(d), <<inc>>, Me)[Len(<<inc>>)]
    BY OneMerged
  <1> HIDE DEF inc
  <1>5. Shape(D, R) /\ Counted(D, R, w) /\ Ledger(R, w)
    BY DEF GoodCache, Counted
  <1>6. ApplyResult(D, inc, F)
    BY <1>1, <1>2, <1>5, ApplyCases
  <1> HIDE DEF F, D
  <1>7. ~HeldId(D, c)
    <2> SUFFICES ASSUME HeldId(D, c) PROVE FALSE
      OBVIOUS
    <2>1. TextOf[c] \in Texts /\ c \in BubblesOf(D, TextOf[c])
      BY DEF BubblesOf, Texts
    <2>2. Tally(BubblesOf(D, TextOf[c]), ShownOf(D, R, TextOf[c]), SentOf(w, TextOf[c]), TextOf[c], w[1])
      BY <1>5, <2>1 DEF Counted
    <2>3. c \in SentOf(w, TextOf[c])
      BY <2>1, <2>2 DEF Tally
    <2>4. QED BY <2>3 DEF SentOf
  <1>8. F = AtFront(D, m)
    BY <1>1, <1>2, <1>6, <1>7, NamesAssumption DEF ApplyResult, HeldId, Shape, Fits
  <1>9. /\ Shape(F, R) /\ HeldId(F, m.id)
        /\ \A i : HeldId(D, i) => HeldId(F, i)
        /\ MadeOf(F, D, m)
    BY <1>1, <1>3, <1>5, <1>7, <1>8, FrontShape
  <1>10. Ledger(R, x)
    <2>1. IsFiniteSet(w[2] \cup {c})
      <3>1. IsFiniteSet(w[2])
        BY <1>5 DEF Ledger
      <3>2. QED BY <3>1, FS_AddElement
    <2>2. QED BY <1>5, <2>1 DEF Ledger
  <1>11. ASSUME NEW t \in Texts
         PROVE  Tally(BubblesOf(F, t), ShownOf(F, R, t), SentOf(x, t), t, x[1])
    <2>1. Tally(BubblesOf(D, t), ShownOf(D, R, t), SentOf(w, t), t, w[1])
      BY <1>5 DEF Counted
    <2>2. m.id \notin DOMAIN R
      BY <1>1, RowIdsAreNot
    <2>3. ShownOf(F, R, t) \subseteq ShownOf(D, R, t)
      BY <1>9, <2>2, ShownAfter
    <2>4. BubblesOf(F, t) \subseteq BubblesOf(D, t) \cup {c}
      <3>1. BubblesOf(F, t) \subseteq BubblesOf(D, t) \cup ({m.id} \cap Nonces)
        BY <1>9, BubblesAfter
      <3>2. QED BY <1>1, <3>1
    <2>5. IsFiniteSet(SentOf(x, t))
      BY <1>10, SentIsFinite
    <2>6. CASE TextOf[c] = t
      <3>1. SentOf(x, t) = SentOf(w, t) \cup {c} /\ c \notin SentOf(w, t)
        BY <2>6 DEF SentOf
      <3>2. Tally(BubblesOf(D, t) \cup {c}, ShownOf(D, R, t), SentOf(w, t) \cup {c}, t, w[1])
        BY <2>1, <3>1, TallyBubble
      <3>3. Tally(BubblesOf(D, t) \cup {c}, ShownOf(D, R, t), SentOf(x, t), t, w[1])
        BY <3>1, <3>2
      <3>4. w[1] \subseteq x[1]
        OBVIOUS
      <3>5. QED BY <2>3, <2>4, <2>5, <3>3, <3>4, TallyLess
    <2>7. CASE TextOf[c] # t
      <3>1. SentOf(w, t) \subseteq SentOf(x, t) /\ w[1] \subseteq x[1]
        BY DEF SentOf
      <3>2. BubblesOf(F, t) \subseteq BubblesOf(D, t)
        BY <2>4, <2>7 DEF BubblesOf
      <3>3. QED BY <2>1, <2>3, <2>5, <3>1, <3>2, TallyLess
    <2>8. QED BY <2>6, <2>7
  <1>12. GoodCache(F, R, x)
    BY <1>9, <1>10, <1>11 DEF GoodCache, Counted
  <1>13. E = F
    BY <1>4, <1>9, UpsertIs DEF inc
  <1>14. Pages(E) = E /\ E # Nil
    BY <1>12, <1>13, PagesOfCache DEF GoodCache, Shape
  <1>15. QED BY <1>1, <1>9, <1>12, <1>13, <1>14 DEF D, MadeOf

-----------------------------------------------------------------------------
(* Patching in place. *)

(* What a patch may do to a message: it keeps its id and whether it is a     *)
(* bubble, and changes the text of rows only.                                *)
PatchOf(m, n) ==
    /\ n \in Message /\ n.id = m.id
    /\ Confirmed(n) <=> Confirmed(m)
    /\ n.content = m.content \/ (m.id \notin Nonces /\ n.content \in {Edited, Masked})

(* The patch of the messages that go by one id. *)
PatchedAt(D, E, i) ==
    /\ E \in Seq(Seq(Message)) /\ DOMAIN E = DOMAIN D
    /\ \A p \in DOMAIN D :
          /\ DOMAIN E[p] = DOMAIN D[p]
          /\ \A k \in DOMAIN D[p] : PatchOf(D[p][k], E[p][k]) /\ (D[p][k].id # i => E[p][k] = D[p][k])

LEMMA PatchSame ==
    ASSUME NEW m \in Message
    PROVE  PatchOf(m, m)
  BY DEF PatchOf

LEMMA PatchShape ==
    ASSUME NEW D \in Seq(Seq(Message)), NEW i, NEW E, E = [p \in DOMAIN D |-> E[p]],
           \A p \in DOMAIN D : E[p] = [k \in DOMAIN D[p] |-> E[p][k]],
           \A p \in DOMAIN D : \A k \in DOMAIN D[p] :
               PatchOf(D[p][k], E[p][k]) /\ (D[p][k].id # i => E[p][k] = D[p][k])
    PROVE  PatchedAt(D, E, i)
  <1>1. ASSUME NEW p \in DOMAIN D PROVE E[p] \in Seq(Message) /\ DOMAIN E[p] = DOMAIN D[p]
    <2>1. D[p] \in Seq(Message)
      OBVIOUS
    <2>2. Len(D[p]) \in Nat /\ DOMAIN D[p] = 1..Len(D[p])
      BY <2>1
    <2>3. E[p] \in [1..Len(D[p]) -> Message]
      BY <2>2 DEF PatchOf
    <2>4. QED BY <2>2, <2>3, IsSeq
  <1>2. Len(D) \in Nat /\ DOMAIN D = 1..Len(D)
    OBVIOUS
  <1>3. E \in [1..Len(D) -> Seq(Message)]
    BY <1>1, <1>2
  <1>4. E \in Seq(Seq(Message)) /\ DOMAIN E = DOMAIN D
    BY <1>2, <1>3, IsSeq
  <1>5. QED BY <1>1, <1>4 DEF PatchedAt

LEMMA PatchOfNone ==
    ASSUME NEW i
    PROVE  PatchedAt(<<>>, <<>>, i)
  BY DEF PatchedAt

LEMMA PatchKeeps ==
    ASSUME NEW R \in Seq(RowRecord), NEW w, NEW D, GoodCache(D, R, w), NEW E, NEW j, PatchedAt(D, E, j)
    PROVE  GoodCache(E, R, w) /\ \A i \in DOMAIN R : HeldId(D, i) => HeldId(E, i)
  <1>1. /\ E \in Seq(Seq(Message)) /\ DOMAIN E = DOMAIN D
        /\ \A p \in DOMAIN D : DOMAIN E[p] = DOMAIN D[p]
        /\ \A p \in DOMAIN D : \A k \in DOMAIN D[p] : PatchOf(D[p][k], E[p][k])
    BY DEF PatchedAt
  <1>2. Edited \notin Texts /\ Masked \notin Texts
    BY MessagesAssumption DEF Texts
  <1>3. \A p \in DOMAIN D : \A k \in DOMAIN D[p] :
           /\ E[p][k].id = D[p][k].id
           /\ E[p][k].content = D[p][k].content \/ (D[p][k].id \notin Nonces /\ E[p][k].content \notin Texts)
    BY <1>1, <1>2 DEF PatchOf
  <1>4. Shape(D, R) /\ Counted(D, R, w) /\ Ledger(R, w)
    BY DEF GoodCache, Counted
  <1>5. ASSUME NEW p \in DOMAIN E, NEW k \in DOMAIN E[p] PROVE Fits(E[p][k], R)
    <2>1. Fits(D[p][k], R) /\ PatchOf(D[p][k], E[p][k])
      BY <1>1, <1>4 DEF Shape
    <2>2. QED BY <1>1, <1>3, <2>1 DEF Fits, PatchOf, TextFits
  <1>6. OneBubble(E)
    <2> SUFFICES ASSUME NEW q \in DOMAIN E, NEW l \in DOMAIN E[q], NEW q2 \in DOMAIN E, NEW l2 \in DOMAIN E[q2],
                        E[q][l].id \in Nonces, E[q2][l2].id = E[q][l].id
                 PROVE  q = q2 /\ l = l2
      BY DEF OneBubble
    <2>1. q \in DOMAIN D /\ l \in DOMAIN D[q] /\ q2 \in DOMAIN D /\ l2 \in DOMAIN D[q2]
      BY <1>1
    <2>2. D[q][l].id \in Nonces /\ D[q2][l2].id = D[q][l].id
      BY <1>3, <2>1
    <2>3. QED BY <1>4, <2>1, <2>2 DEF Shape, OneBubble
  <1>7. Shape(E, R)
    BY <1>1, <1>5, <1>6 DEF Shape
  <1>8. ASSUME NEW t \in Texts
        PROVE  BubblesOf(E, t) \subseteq BubblesOf(D, t) /\ ShownOf(E, R, t) \subseteq ShownOf(D, R, t)
    <2>1. \A c : HeldId(E, c) => HeldId(D, c)
      BY <1>1, <1>3 DEF HeldId
    <2>2. ASSUME NEW c \in Nonces, NEW p \in DOMAIN E, NEW k \in DOMAIN E[p], RowOf(E[p][k], R, t, c)
          PROVE  RowOf(D[p][k], R, t, c)
      BY <1>1, <1>3, <2>2 DEF RowOf
    <2>3. ShownOf(E, R, t) \subseteq ShownOf(D, R, t)
      BY <1>1, <2>2 DEF ShownOf
    <2>4. QED BY <2>1, <2>3 DEF BubblesOf
  <1>9. Counted(E, R, w)
    <2>1. PastGrows(w, w)
      BY DEF PastGrows
    <2>2. QED BY <1>4, <1>8, <2>1, FewerIsCounted
  <1>10. \A i \in DOMAIN R : HeldId(D, i) => HeldId(E, i)
    BY <1>1, <1>3 DEF HeldId
  <1>11. QED BY <1>7, <1>9, <1>10 DEF GoodCache

(* Each patch of messagesCache.ts is one. *)
LEMMA PatchNil ==
    ASSUME NEW i, NEW text
    PROVE  /\ markFailed(Nil, i) = Nil /\ markSending(Nil, i) = Nil /\ markDeleted(Nil, i) = Nil
           /\ applyEdit(Nil, i, text) = Nil /\ addReadReceipt(Nil, i, text) = Nil
           /\ \A added : applyReaction(Nil, i, text, added) = Nil
  BY DEF Patch, markFailed, markSending, markDeleted, applyEdit, addReadReceipt, applyReaction

LEMMA PatchPages ==
    ASSUME NEW d, NEW i, NEW E, d = Nil => E = Nil, d # Nil => PatchedAt(d, E, i)
    PROVE  PatchedAt(Pages(d), Pages(E), i)
  <1>1. CASE d = Nil
    BY <1>1, PatchOfNone DEF Pages
  <1>2. CASE d # Nil
    <2>1. Pages(E) = E
      BY <1>2, PagesOfCache DEF PatchedAt
    <2>2. QED BY <1>2, <2>1 DEF Pages
  <1>3. QED BY <1>1, <1>2

LEMMA FailedIs ==
    ASSUME NEW d, Pages(d) \in Seq(Seq(Message)), NEW c \in Nonces, NEW E, E = markFailed(d, c)
    PROVE  /\ PatchedAt(Pages(d), Pages(E), c)
           /\ \A p \in DOMAIN Pages(E) : \A k \in DOMAIN Pages(E)[p] :
                 Pages(E)[p][k].id = c => Pages(E)[p][k].status # "sending"
  <1>1. CASE d = Nil
    <2>1. E = Nil /\ Pages(E) = <<>>
      BY <1>1, PatchNil DEF Pages
    <2>2. QED BY <1>1, <2>1, PatchPages
  <1>2. CASE d # Nil
    <2>1. d \in Seq(Seq(Message)) /\ Pages(d) = d
      BY <1>2 DEF Pages
    <2>2. E = [p \in DOMAIN d |-> [k \in DOMAIN d[p] |->
                  IF d[p][k].id = c /\ d[p][k].status = "sending" THEN [d[p][k] EXCEPT !.status = "failed"] ELSE d[p][k]]]
      BY <1>2 DEF markFailed, Patch
    <2>3. ASSUME NEW p \in DOMAIN d, NEW k \in DOMAIN d[p]
          PROVE  /\ PatchOf(d[p][k], E[p][k]) /\ (d[p][k].id # c => E[p][k] = d[p][k])
                 /\ E[p][k].id = c => E[p][k].status # "sending"
      <3>1. d[p][k] \in Message
        BY <2>1
      <3>2. CASE d[p][k].id = c /\ d[p][k].status = "sending"
        <4>1. E[p][k] = [d[p][k] EXCEPT !.status = "failed"]
          BY <2>2, <3>2
        <4>2. QED BY <3>1, <3>2, <4>1 DEF PatchOf, Confirmed, Message
      <3>3. CASE ~(d[p][k].id = c /\ d[p][k].status = "sending")
        <4>1. E[p][k] = d[p][k]
          BY <2>2, <3>3
        <4>2. QED BY <3>1, <3>3, <4>1, PatchSame
      <3>4. QED BY <3>2, <3>3
    <2>4. PatchedAt(d, E, c)
      <3>1. E = [p \in DOMAIN d |-> E[p]] /\ \A p \in DOMAIN d : E[p] = [k \in DOMAIN d[p] |-> E[p][k]]
        BY <2>2
      <3>2. QED BY <2>1, <2>3, <3>1, PatchShape
    <2>5. Pages(E) = E /\ DOMAIN E = DOMAIN d /\ \A p \in DOMAIN E : DOMAIN E[p] = DOMAIN d[p]
      BY <2>4, PagesOfCache DEF PatchedAt
    <2>6. QED BY <2>1, <2>3, <2>4, <2>5
  <1>3. QED BY <1>1, <1>2

LEMMA SendingIs ==
    ASSUME NEW d, Pages(d) \in Seq(Seq(Message)), NEW c \in Nonces, NEW E, E = markSending(d, c)
    PROVE  PatchedAt(Pages(d), Pages(E), c)
  <1>1. CASE d = Nil
    BY <1>1, PatchNil, PatchPages
  <1>2. CASE d # Nil
    <2>1. d \in Seq(Seq(Message))
      BY <1>2 DEF Pages
    <2>2. E = [p \in DOMAIN d |-> [k \in DOMAIN d[p] |->
                  IF d[p][k].id = c /\ d[p][k].status = "failed" THEN [d[p][k] EXCEPT !.status = "sending"] ELSE d[p][k]]]
      BY <1>2 DEF markSending, Patch
    <2>3. ASSUME NEW p \in DOMAIN d, NEW k \in DOMAIN d[p]
          PROVE  PatchOf(d[p][k], E[p][k]) /\ (d[p][k].id # c => E[p][k] = d[p][k])
      <3>1. d[p][k] \in Message
        BY <2>1
      <3>2. CASE d[p][k].id = c /\ d[p][k].status = "failed"
        <4>1. E[p][k] = [d[p][k] EXCEPT !.status = "sending"]
          BY <2>2, <3>2
        <4>2. QED BY <3>1, <3>2, <4>1 DEF PatchOf, Confirmed, Message
      <3>3. CASE ~(d[p][k].id = c /\ d[p][k].status = "failed")
        BY <2>2, <3>1, <3>3, PatchSame
      <3>4. QED BY <3>2, <3>3
    <2>4. E = [p \in DOMAIN d |-> E[p]] /\ \A p \in DOMAIN d : E[p] = [k \in DOMAIN d[p] |-> E[p][k]]
      BY <2>2
    <2>5. QED BY <1>2, <2>1, <2>3, <2>4, PatchShape, PatchPages
  <1>3. QED BY <1>1, <1>2

LEMMA DeletedIs ==
    ASSUME NEW d, Pages(d) \in Seq(Seq(Message)), NEW i, i \notin Nonces, NEW E, E = markDeleted(d, i)
    PROVE  PatchedAt(Pages(d), Pages(E), i)
  <1>1. CASE d = Nil
    BY <1>1, PatchNil, PatchPages
  <1>2. CASE d # Nil
    <2>1. d \in Seq(Seq(Message))
      BY <1>2 DEF Pages
    <2>2. E = [p \in DOMAIN d |-> [k \in DOMAIN d[p] |->
                  IF d[p][k].id = i THEN [d[p][k] EXCEPT !.content = Masked] ELSE d[p][k]]]
      BY <1>2 DEF markDeleted, Patch
    <2>3. ASSUME NEW p \in DOMAIN d, NEW k \in DOMAIN d[p]
          PROVE  PatchOf(d[p][k], E[p][k]) /\ (d[p][k].id # i => E[p][k] = d[p][k])
      <3>1. d[p][k] \in Message
        BY <2>1
      <3>2. CASE d[p][k].id = i
        <4>1. E[p][k] = [d[p][k] EXCEPT !.content = Masked]
          BY <2>2, <3>2
        <4>2. QED BY <3>1, <3>2, <4>1 DEF PatchOf, Confirmed, Message
      <3>3. CASE d[p][k].id # i
        BY <2>2, <3>1, <3>3, PatchSame
      <3>4. QED BY <3>2, <3>3
    <2>4. E = [p \in DOMAIN d |-> E[p]] /\ \A p \in DOMAIN d : E[p] = [k \in DOMAIN d[p] |-> E[p][k]]
      BY <2>2
    <2>5. QED BY <1>2, <2>1, <2>3, <2>4, PatchShape, PatchPages
  <1>3. QED BY <1>1, <1>2

LEMMA EditIs ==
    ASSUME NEW d, Pages(d) \in Seq(Seq(Message)), NEW i, i \notin Nonces, NEW E, E = applyEdit(d, i, Edited)
    PROVE  PatchedAt(Pages(d), Pages(E), i)
  <1>1. CASE d = Nil
    BY <1>1, PatchNil, PatchPages
  <1>2. CASE d # Nil
    <2>1. d \in Seq(Seq(Message))
      BY <1>2 DEF Pages
    <2>2. E = [p \in DOMAIN d |-> [k \in DOMAIN d[p] |->
                  IF d[p][k].id = i /\ d[p][k].content # Masked THEN [d[p][k] EXCEPT !.content = Edited] ELSE d[p][k]]]
      BY <1>2 DEF applyEdit, Patch
    <2>3. ASSUME NEW p \in DOMAIN d, NEW k \in DOMAIN d[p]
          PROVE  PatchOf(d[p][k], E[p][k]) /\ (d[p][k].id # i => E[p][k] = d[p][k])
      <3>1. d[p][k] \in Message
        BY <2>1
      <3>2. CASE d[p][k].id = i /\ d[p][k].content # Masked
        <4>1. E[p][k] = [d[p][k] EXCEPT !.content = Edited]
          BY <2>2, <3>2
        <4>2. QED BY <3>1, <3>2, <4>1 DEF PatchOf, Confirmed, Message
      <3>3. CASE ~(d[p][k].id = i /\ d[p][k].content # Masked)
        BY <2>2, <3>1, <3>3, PatchSame
      <3>4. QED BY <3>2, <3>3
    <2>4. E = [p \in DOMAIN d |-> E[p]] /\ \A p \in DOMAIN d : E[p] = [k \in DOMAIN d[p] |-> E[p][k]]
      BY <2>2
    <2>5. QED BY <1>2, <2>1, <2>3, <2>4, PatchShape, PatchPages
  <1>3. QED BY <1>1, <1>2

LEMMA ReadIs ==
    ASSUME NEW d, Pages(d) \in Seq(Seq(Message)), NEW i, NEW u \in {Me, Peer}, NEW E, E = addReadReceipt(d, i, u)
    PROVE  PatchedAt(Pages(d), Pages(E), i)
  <1>1. CASE d = Nil
    BY <1>1, PatchNil, PatchPages
  <1>2. CASE d # Nil
    <2>1. d \in Seq(Seq(Message))
      BY <1>2 DEF Pages
    <2>2. E = [p \in DOMAIN d |-> [k \in DOMAIN d[p] |->
                  IF d[p][k].id = i THEN [d[p][k] EXCEPT !.read_by = d[p][k].read_by \cup {u}] ELSE d[p][k]]]
      BY <1>2 DEF addReadReceipt, Patch
    <2>3. ASSUME NEW p \in DOMAIN d, NEW k \in DOMAIN d[p]
          PROVE  PatchOf(d[p][k], E[p][k]) /\ (d[p][k].id # i => E[p][k] = d[p][k])
      <3>1. d[p][k] \in Message
        BY <2>1
      <3>2. CASE d[p][k].id = i
        <4>1. E[p][k] = [d[p][k] EXCEPT !.read_by = d[p][k].read_by \cup {u}]
          BY <2>2, <3>2
        <4>2. QED BY <3>1, <3>2, <4>1 DEF PatchOf, Confirmed, Message
      <3>3. CASE d[p][k].id # i
        BY <2>2, <3>1, <3>3, PatchSame
      <3>4. QED BY <3>2, <3>3
    <2>4. E = [p \in DOMAIN d |-> E[p]] /\ \A p \in DOMAIN d : E[p] = [k \in DOMAIN d[p] |-> E[p][k]]
      BY <2>2
    <2>5. QED BY <1>2, <2>1, <2>3, <2>4, PatchShape, PatchPages
  <1>3. QED BY <1>1, <1>2

LEMMA ReactionIs ==
    ASSUME NEW d, Pages(d) \in Seq(Seq(Message)), NEW i, NEW u \in {Me, Peer}, NEW added,
           NEW E, E = applyReaction(d, i, u, added)
    PROVE  PatchedAt(Pages(d), Pages(E), i)
  <1>1. CASE d = Nil
    BY <1>1, PatchNil, PatchPages
  <1>2. CASE d # Nil
    <2>1. d \in Seq(Seq(Message))
      BY <1>2 DEF Pages
    <2>2. PICK G : G = [m \in Message |-> IF added THEN m.reactions \cup {u} ELSE m.reactions \ {u}]
      OBVIOUS
    <2>3. \A m \in Message : G[m] \in SUBSET {Me, Peer}
      BY <2>2 DEF Message
    <2>4. E = [p \in DOMAIN d |-> [k \in DOMAIN d[p] |->
                  IF d[p][k].id = i THEN [d[p][k] EXCEPT !.reactions = G[d[p][k]]] ELSE d[p][k]]]
      <3>1. \A p \in DOMAIN d : \A k \in DOMAIN d[p] : d[p][k] \in Message
        BY <2>1
      <3>2. E = [p \in DOMAIN d |-> [k \in DOMAIN d[p] |->
                  IF d[p][k].id = i
                  THEN [d[p][k] EXCEPT !.reactions = IF added THEN d[p][k].reactions \cup {u} ELSE d[p][k].reactions \ {u}]
                  ELSE d[p][k]]]
        BY <1>2 DEF applyReaction, Patch
      <3>3. QED BY <2>2, <3>1, <3>2
    <2>5. ASSUME NEW p \in DOMAIN d, NEW k \in DOMAIN d[p]
          PROVE  PatchOf(d[p][k], E[p][k]) /\ (d[p][k].id # i => E[p][k] = d[p][k])
      <3>1. d[p][k] \in Message
        BY <2>1
      <3>2. CASE d[p][k].id = i
        <4>1. E[p][k] = [d[p][k] EXCEPT !.reactions = G[d[p][k]]]
          BY <2>4, <3>2
        <4>2. G[d[p][k]] \in SUBSET {Me, Peer}
          BY <2>3, <3>1
        <4>3. QED BY <3>1, <3>2, <4>1, <4>2 DEF PatchOf, Confirmed, Message
      <3>3. CASE d[p][k].id # i
        BY <2>4, <3>1, <3>3, PatchSame
      <3>4. QED BY <3>2, <3>3
    <2>6. E = [p \in DOMAIN d |-> E[p]] /\ \A p \in DOMAIN d : E[p] = [k \in DOMAIN d[p] |-> E[p][k]]
      BY <2>4
    <2>7. QED BY <1>2, <2>1, <2>5, <2>6, PatchShape, PatchPages
  <1>3. QED BY <1>1, <1>2

-----------------------------------------------------------------------------
(* What the tab holds and what is in flight stay right while the table grows. *)

RowsGrow(R, S) ==
    /\ DOMAIN R \subseteq DOMAIN S
    /\ \A i \in DOMAIN R : S[i].user = R[i].user /\ S[i].nonce = R[i].nonce /\ S[i].via = R[i].via

LEMMA CacheEndures ==
    ASSUME NEW R \in Seq(RowRecord), NEW S \in Seq(RowRecord), RowsGrow(R, S), NEW w, NEW x, PastGrows(w, x),
           Ledger(S, x), NEW D, GoodCache(D, R, w)
    PROVE  GoodCache(D, S, x)
  <1>1. Shape(D, R) /\ Counted(D, R, w)
    BY DEF GoodCache
  <1>2. ASSUME NEW p \in DOMAIN D, NEW k \in DOMAIN D[p]
        PROVE  Fits(D[p][k], S) /\ (D[p][k].id \in DOMAIN S => D[p][k].id \in DOMAIN R)
    <2>1. Fits(D[p][k], R)
      BY <1>1 DEF Shape
    <2>2. QED BY <2>1, RowIdsAreNot DEF Fits, RowsGrow
  <1>3. Shape(D, S)
    BY <1>1, <1>2 DEF Shape
  <1>4. ASSUME NEW t \in Texts
        PROVE  BubblesOf(D, t) \subseteq BubblesOf(D, t) /\ ShownOf(D, S, t) \subseteq ShownOf(D, R, t)
    <2>1. ASSUME NEW c, NEW p \in DOMAIN D, NEW k \in DOMAIN D[p], RowOf(D[p][k], S, t, c)
          PROVE  RowOf(D[p][k], R, t, c)
      BY <1>2, <2>1 DEF RowOf, RowsGrow
    <2>2. QED BY <2>1 DEF ShownOf
  <1>5. Counted(D, S, x)
    BY <1>1, <1>4, FewerIsCounted
  <1>6. QED BY <1>3, <1>5 DEF GoodCache

LEMMA ServedEndures ==
    ASSUME NEW R, NEW S, RowsGrow(R, S), NEW m, Served(m, R)
    PROVE  Served(m, S)
  <1>1. m.id \in DOMAIN R /\ m.id \in DOMAIN S /\ S[m.id].nonce = R[m.id].nonce
    BY DEF Served, Fits, RowsGrow
  <1>2. QED BY <1>1 DEF Served, Fits

LEMMA PageEndures ==
    ASSUME NEW R, NEW S, RowsGrow(R, S), NEW s, ServedPage(s, R)
    PROVE  ServedPage(s, S)
  BY ServedEndures DEF ServedPage

LEMMA EventEndures ==
    ASSUME NEW R, NEW S, RowsGrow(R, S), NEW e, EventOK(e, R)
    PROVE  EventOK(e, S)
  <1>1. e.id \in DOMAIN S /\ S[e.id].nonce = R[e.id].nonce /\ S[e.id].user = R[e.id].user
    BY DEF EventOK, RowsGrow
  <1>2. QED BY <1>1 DEF EventOK

-----------------------------------------------------------------------------
(* The pages the server lists. *)

LEMMA MinOfTwo ==
    ASSUME NEW a \in Nat, NEW b \in Nat
    PROVE  Min({a, b}) = IF a <= b THEN a ELSE b
  BY DEF Min

NewestFor(before) == IF before \in DOMAIN rows THEN before - 1 ELSE Len(rows)

LEMMA PageBounds ==
    ASSUME NEW n \in Nat, NEW P \in Nat \ {0}, NEW newest \in 0..n, NEW size, size = Min({P, newest})
    PROVE  /\ size \in Nat /\ size <= P /\ size <= newest /\ (size < P => size = newest)
           /\ \A k \in 1..size : (newest - k) + 1 \in 1..n
  <1>1. newest \in Nat /\ newest <= n
    OBVIOUS
  <1>2. size = IF P <= newest THEN P ELSE newest
    BY <1>1, MinOfTwo
  <1>3. QED BY <1>1, <1>2

(* The rows from newest on, as many as a page takes. *)
Lists(page, newest) ==
    /\ newest \in 0..Len(rows) /\ Len(page) \in Nat
    /\ Len(page) <= PageSize /\ Len(page) <= newest
    /\ Len(page) < PageSize => Len(page) = newest
    /\ \A k \in 1..Len(page) : page[k].id = (newest - k) + 1

LEMMA Listed ==
    ASSUME RowsOK(rows), NEW before, NEW page, page = ListRoomMessages(before),
           NEW newest, newest = NewestFor(before)
    PROVE  ServedPage(page, rows) /\ Lists(page, newest)
  <1>1. /\ rows \in Seq(RowRecord) /\ Len(rows) \in Nat /\ DOMAIN rows = 1..Len(rows) /\ Len(rows) <= MaxRows
        /\ MaxRows \in Nat /\ PageSize \in Nat \ {0}
    BY MessagesAssumption, PageSizeAssumption DEF RowsOK
  <1>2. newest \in 0..Len(rows)
    <2>1. CASE before \in DOMAIN rows
      <3>1. before \in Nat /\ before >= 1 /\ before <= Len(rows) /\ newest = before - 1
        BY <1>1, <2>1 DEF NewestFor
      <3>2. QED BY <1>1, <3>1
    <2>2. CASE before \notin DOMAIN rows
      <3>1. newest = Len(rows)
        BY <2>2 DEF NewestFor
      <3>2. QED BY <1>1, <3>1
    <2>3. QED BY <2>1, <2>2
  <1> DEFINE size == Min({PageSize, newest})
  <1>4. page = [k \in 1..size |-> Row((newest - k) + 1)]
    BY DEF ListRoomMessages, NewestFor
  <1>5. /\ size \in Nat /\ size <= PageSize /\ size <= newest /\ (size < PageSize => size = newest)
        /\ \A k \in 1..size : (newest - k) + 1 \in 1..Len(rows)
    BY <1>1, <1>2, PageBounds
  <1> HIDE DEF size
  <1>6. \A k \in 1..size : (newest - k) + 1 \in DOMAIN rows
    BY <1>1, <1>5
  <1>7. ASSUME NEW i \in DOMAIN rows PROVE Served(Row(i), rows) /\ Row(i).id = i
    <2>1. rows[i] \in RowRecord /\ i \in 1..MaxRows /\ i \notin Nonces
      BY <1>1, RowIdsAreNot
    <2>2. Row(i) \in Message /\ Row(i).id = i /\ Row(i).status = "none" /\ Row(i).content = rows[i].content
          /\ Row(i).user = rows[i].user
      BY <2>1 DEF Row, Message, RowRecord, AllTexts
    <2>3. /\ rows[i].nonce \in Nonces => rows[i].user = Me
          /\ TextFits(rows[i].content, rows[i].nonce)
      BY DEF RowsOK
    <2>4. QED BY <2>1, <2>2, <2>3 DEF Served, Fits, Confirmed
  <1>8. page \in [1..size -> Message]
    BY <1>4, <1>6, <1>7 DEF Served, Fits
  <1>9. page \in Seq(Message) /\ Len(page) = size /\ DOMAIN page = 1..size
    BY <1>5, <1>8, IsSeq
  <1>10. \A k \in 1..size : Served(page[k], rows) /\ page[k].id = (newest - k) + 1
    BY <1>4, <1>6, <1>7
  <1>11. QED BY <1>2, <1>5, <1>9, <1>10 DEF ServedPage, Lists

LEMMA PagesListed ==
    ASSUME RowsOK(rows), NEW n \in Nat, NEW P, P = ListPages(n)
    PROVE  P \in Seq(Seq(Message)) /\ \A p \in DOMAIN P : ServedPage(P[p], rows)
  <1>1. Len(rows) \in Nat /\ PageSize \in Nat \ {0}
    BY PageSizeAssumption DEF RowsOK
  <1>2. Len(rows) \div PageSize + 1 \in Nat
    BY <1>1
  <1> DEFINE m == Min({n, Len(rows) \div PageSize + 1})
             from(k) == Len(rows) - (k - 1) * PageSize + 1
  <1>3. m \in Nat
    BY <1>2, MinOfTwo
  <1>4. P = [k \in 1..m |-> ListRoomMessages(from(k))]
    BY DEF ListPages
  <1> HIDE DEF m, from
  <1>5. \A k \in 1..m : ServedPage(P[k], rows)
    BY <1>4, Listed
  <1>6. P \in [1..m -> Seq(Message)]
    BY <1>4, <1>5 DEF ServedPage
  <1>7. QED BY <1>3, <1>5, <1>6, IsSeq

(* A cache whose bubbles all stand where they stood has one of each send.    *)
LEMMA BubblesStay ==
    ASSUME NEW D, NEW E, OneBubble(D),
           \A p \in DOMAIN E : \A k \in DOMAIN E[p] : E[p][k].id \in Nonces =>
              p \in DOMAIN D /\ k \in DOMAIN D[p] /\ E[p][k] = D[p][k]
    PROVE  OneBubble(E)
  <1>1. ASSUME NEW p \in DOMAIN E, NEW q \in DOMAIN E, NEW k \in DOMAIN E[p], NEW l \in DOMAIN E[q],
               E[p][k].id \in Nonces, E[q][l].id = E[p][k].id
        PROVE  p = q /\ k = l
    <2>1. p \in DOMAIN D /\ k \in DOMAIN D[p] /\ E[p][k] = D[p][k]
      BY <1>1
    <2>2. q \in DOMAIN D /\ l \in DOMAIN D[q] /\ E[q][l] = D[q][l]
      BY <1>1
    <2>3. D[p][k].id \in Nonces /\ D[q][l].id = D[p][k].id
      BY <1>1, <2>1, <2>2
    <2>4. QED BY <2>1, <2>2, <2>3 DEF OneBubble
  <1>2. QED BY <1>1 DEF OneBubble

(* Rows of the server behind a cache: none of them repeats the text of a     *)
(* bubble in it.                                                             *)
LEMMA Joined ==
    ASSUME NEW R \in Seq(RowRecord), NEW w, NEW D, GoodCache(D, R, w), NEW P \in Seq(Seq(Message)),
           \A p \in DOMAIN P : ServedPage(P[p], R),
           \A t \in Texts \ w[1] : BubblesOf(D, t) # {} =>
               \A p \in DOMAIN P : \A k \in DOMAIN P[p] :
                   R[P[p][k].id].nonce \in Nonces => TextOf[R[P[p][k].id].nonce] # t,
           NEW E, E = D \o P
    PROVE  GoodCache(E, R, w)
  <1>1. /\ D \in Seq(Seq(Message)) /\ E \in Seq(Seq(Message)) /\ Len(D) \in Nat /\ DOMAIN D = 1..Len(D)
        /\ DOMAIN P = 1..Len(P) /\ Len(P) \in Nat /\ DOMAIN E = 1..(Len(D) + Len(P))
    BY DEF GoodCache, Shape
  <1>2. \A p \in 1..Len(D) : E[p] = D[p]
    BY <1>1
  <1>3. \A p \in DOMAIN E : p \notin DOMAIN D => p > Len(D) /\ p - Len(D) \in DOMAIN P /\ E[p] = P[p - Len(D)]
    BY <1>1
  <1>4. Shape(D, R) /\ Counted(D, R, w) /\ Ledger(R, w)
    BY DEF GoodCache, Counted
  <1>5. ASSUME NEW p \in DOMAIN E, p \notin DOMAIN D, NEW k \in DOMAIN E[p]
        PROVE  /\ Served(E[p][k], R) /\ Fits(E[p][k], R) /\ E[p][k].id \notin Nonces
               /\ \A t \in Texts \ w[1] : BubblesOf(D, t) # {} =>
                     (R[E[p][k].id].nonce \in Nonces => TextOf[R[E[p][k].id].nonce] # t)
    <2>1. PICK q \in DOMAIN P : E[p] = P[q]
      BY <1>3, <1>5
    <2>2. k \in DOMAIN P[q] /\ E[p][k] = P[q][k] /\ ServedPage(P[q], R)
      BY <2>1
    <2>3. Served(E[p][k], R) /\ Fits(E[p][k], R) /\ E[p][k].id \notin Nonces
      BY <2>2 DEF ServedPage, Served
    <2>4. ASSUME NEW t \in Texts \ w[1], BubblesOf(D, t) # {}, R[P[q][k].id].nonce \in Nonces
          PROVE  TextOf[R[P[q][k].id].nonce] # t
      BY <2>2, <2>4
    <2>5. QED BY <2>2, <2>3, <2>4
  <1>6. ASSUME NEW p \in DOMAIN E, NEW k \in DOMAIN E[p] PROVE Fits(E[p][k], R)
    <2>1. CASE p \in DOMAIN D
      BY <1>1, <1>2, <1>4, <2>1 DEF Shape
    <2>2. CASE p \notin DOMAIN D
      BY <1>5, <2>2
    <2>3. QED BY <2>1, <2>2
  <1>7. \A p \in DOMAIN E : \A k \in DOMAIN E[p] : E[p][k].id \in Nonces =>
           p \in DOMAIN D /\ k \in DOMAIN D[p] /\ E[p][k] = D[p][k]
    BY <1>1, <1>2, <1>5
  <1>8. OneBubble(E)
    <2>1. OneBubble(D)
      BY <1>4 DEF Shape
    <2>2. QED BY ONLY <1>7, <2>1, BubblesStay
  <1>9. Shape(E, R)
    BY <1>1, <1>6, <1>8 DEF Shape
  <1>10. ASSUME NEW t \in Texts
         PROVE  Tally(BubblesOf(E, t), ShownOf(E, R, t), SentOf(w, t), t, w[1])
    <2>1. Tally(BubblesOf(D, t), ShownOf(D, R, t), SentOf(w, t), t, w[1])
      BY <1>4 DEF Counted
    <2>2. IsFiniteSet(SentOf(w, t)) /\ BubblesOf(D, t) \subseteq SentOf(w, t)
      BY <2>1 DEF Tally
    <2>3. BubblesOf(E, t) \subseteq BubblesOf(D, t)
      BY <1>7 DEF BubblesOf, HeldId
    <2>4. ShownOf(E, R, t) \subseteq SentOf(w, t)
      BY <1>4, <1>6, RowIdsAreNot, ShownAreSent
    <2>5. CASE t \in w[1]
      BY <2>2, <2>3, <2>4, <2>5 DEF Tally
    <2>6. CASE BubblesOf(D, t) = {}
      <3>1. BubblesOf(E, t) = {}
        BY <2>3, <2>6
      <3>2. QED BY <2>2, <2>4, <3>1, TallyNone
    <2>7. CASE t \notin w[1] /\ BubblesOf(D, t) # {}
      <3>1. ASSUME NEW c \in Nonces, NEW p \in DOMAIN E, NEW k \in DOMAIN E[p], RowOf(E[p][k], R, t, c)
            PROVE  p \in DOMAIN D /\ k \in DOMAIN D[p] /\ RowOf(D[p][k], R, t, c)
        <4>1. E[p][k].content = t /\ R[E[p][k].id].nonce = c /\ E[p][k].id \in DOMAIN R
          BY <3>1 DEF RowOf
        <4>2. TextOf[c] = t
          BY <1>6, <4>1, RowIdsAreNot DEF Fits, TextFits
        <4>3. p \in DOMAIN D
          BY <1>5, <2>7, <4>1, <4>2
        <4>4. E[p] = D[p]
          BY <1>1, <1>2, <4>3
        <4>5. QED BY <3>1, <4>3, <4>4
      <3>2. ShownOf(E, R, t) \subseteq ShownOf(D, R, t)
        BY <3>1 DEF ShownOf
      <3>3. QED BY <2>1, <2>2, <2>3, <3>2, TallyLess
    <2>8. QED BY <2>5, <2>6, <2>7
  <1>11. QED BY <1>4, <1>9, <1>10 DEF GoodCache, Counted

-----------------------------------------------------------------------------
(* What the readers of the cache see of it. *)

LEMMA HeldIs ==
    ASSUME NEW d, NEW m
    PROVE  m \in Held(d) <=> BubbleOf(Pages(d), m)
  <1>1. CASE d = Nil
    BY <1>1 DEF Held, BubbleOf, Pages
  <1>2. CASE d # Nil
    BY <1>2 DEF Held, BubbleOf, Pages, ToSet
  <1>3. QED BY <1>1, <1>2

LEMMA ConfirmedIs ==
    ASSUME NEW R \in Seq(RowRecord), NEW w, NEW d, GoodCache(Pages(d), R, w), NEW i
    PROVE  i \in ConfirmedIds(d) <=> i \in DOMAIN R /\ HeldId(Pages(d), i)
  <1> DEFINE D == Pages(d)
  <1>1. \A p \in DOMAIN D : \A k \in DOMAIN D[p] :
           /\ Confirmed(D[p][k]) <=> D[p][k].id \notin Nonces
           /\ D[p][k].id \notin Nonces => D[p][k].id \in DOMAIN R
    BY DEF GoodCache, Shape, Fits
  <1>2. \A j \in DOMAIN R : j \notin Nonces
    BY RowIdsAreNot
  <1>3. i \in ConfirmedIds(d) <=> \E m : BubbleOf(D, m) /\ Confirmed(m) /\ m.id = i
    BY HeldIs DEF ConfirmedIds
  <1> HIDE DEF D
  <1>4. (\E m : BubbleOf(D, m) /\ Confirmed(m) /\ m.id = i) <=>
            \E p \in DOMAIN D : \E k \in DOMAIN D[p] : Confirmed(D[p][k]) /\ D[p][k].id = i
    BY DEF BubbleOf
  <1>5. QED BY <1>1, <1>2, <1>3, <1>4 DEF HeldId, D

LEMMA StatusIs ==
    ASSUME NEW R, NEW w, NEW d, GoodCache(Pages(d), R, w), NEW c \in Nonces
    PROVE  /\ findMessage(d, c) = Nil <=> ~HeldId(Pages(d), c)
           /\ findMessage(d, c) = "sending" <=> Sending(Pages(d), c)
  <1> DEFINE D == Pages(d)
             found == {m \in Held(d) : m.id = c}
  <1>1. \A m : m \in found <=> \E p \in DOMAIN D : \E k \in DOMAIN D[p] : D[p][k] = m /\ m.id = c
    BY HeldIs DEF BubbleOf
  <1>2. findMessage(d, c) = IF found = {} THEN Nil ELSE (CHOOSE m \in found : TRUE).status
    BY DEF findMessage
  <1>3. D \in Seq(Seq(Message)) /\ OneBubble(D)
    BY DEF GoodCache, Shape
  <1> HIDE DEF D, found
  <1>4. CASE found = {}
    <2>1. ~HeldId(D, c) /\ ~Sending(D, c)
      BY <1>1, <1>4 DEF HeldId, Sending
    <2>2. QED BY <1>2, <1>4, <2>1, NamesAssumption DEF D
  <1>5. CASE found # {}
    <2>1. PICK m : m \in found /\ findMessage(d, c) = m.status
      BY <1>2, <1>5
    <2>2. PICK p \in DOMAIN D : \E k \in DOMAIN D[p] : D[p][k] = m /\ m.id = c
      BY <1>1, <2>1
    <2>3. PICK k \in DOMAIN D[p] : D[p][k] = m /\ m.id = c
      BY <2>2
    <2>4. HeldId(D, c)
      BY <2>3 DEF HeldId
    <2>5. m.status # Nil
      <3>1. D[p][k] \in Message
        BY <1>3
      <3>2. m.status \in {"none", "sending", "failed"}
        BY <2>3, <3>1 DEF Message
      <3>3. QED BY <3>2, NamesAssumption
    <2>6. Sending(D, c) <=> m.status = "sending"
      BY <1>3, <2>3 DEF Sending, OneBubble
    <2>7. QED BY <2>1, <2>4, <2>5, <2>6 DEF D
  <1>6. QED BY <1>4, <1>5

(* What is rendered is held. *)
LEMMA ShownIs ==
    ASSUME NEW d, NEW m, m \in flattenSortedDedup(d)
    PROVE  BubbleOf(Pages(d), m)
  <1>1. d # Nil /\ \E h \in Places(d) : m = d[h[1]][h[2]]
    BY DEF flattenSortedDedup
  <1>2. PICK h \in Places(d) : m = d[h[1]][h[2]]
    BY <1>1
  <1>3. PICK p \in DOMAIN d : \E k \in DOMAIN d[p] : h = <<p, k>>
    BY <1>2, PlacesOf
  <1>4. PICK k \in DOMAIN d[p] : h = <<p, k>>
    BY <1>3
  <1>5. QED BY <1>1, <1>2, <1>4 DEF BubbleOf, Pages

LEMMA MaxIsIn ==
    ASSUME NEW n \in Nat, NEW S, S \subseteq 1..n, S # {}
    PROVE  Max(S) \in S
  <1> DEFINE Top(T) == \E x \in T : \A y \in T : x >= y
             N == {k \in Nat : \A T \in SUBSET (1..k) : T # {} => Top(T)}
  <1>1. 0 \in N
    <2>1. \A T \in SUBSET (1..0) : T = {}
      OBVIOUS
    <2>2. QED BY <2>1
  <1>2. ASSUME NEW k \in Nat, k \in N PROVE k + 1 \in N
    <2> SUFFICES ASSUME NEW T \in SUBSET (1..(k + 1)), T # {} PROVE Top(T)
      OBVIOUS
    <2>1. CASE k + 1 \in T
      BY <2>1
    <2>2. CASE k + 1 \notin T
      <3>1. T \in SUBSET (1..k)
        BY <2>2
      <3>2. QED BY <1>2, <3>1
    <2>3. QED BY <2>1, <2>2
  <1> HIDE DEF N
  <1>3. \A k \in Nat : k \in N
    BY <1>1, <1>2, SetInduction
  <1>4. Top(S)
    BY <1>3 DEF N
  <1>5. QED BY <1>4 DEF Max

-----------------------------------------------------------------------------
(* The server's steps: a row comes, or is patched; an event is put out.      *)

LEMMA SetOfAppend ==
    ASSUME NEW S, NEW w \in Seq(S), NEW e \in S
    PROVE  Append(w, e) \in Seq(S) /\ ToSet(Append(w, e)) = ToSet(w) \cup {e}
  <1>1. /\ Append(w, e) \in Seq(S) /\ Len(w) \in Nat /\ DOMAIN w = 1..Len(w)
        /\ DOMAIN Append(w, e) = 1..(Len(w) + 1) /\ Append(w, e)[Len(w) + 1] = e
        /\ \A k \in 1..Len(w) : Append(w, e)[k] = w[k]
    OBVIOUS
  <1>2. ASSUME NEW x PROVE x \in ToSet(Append(w, e)) <=> x \in ToSet(w) \cup {e}
    <2>1. x \in ToSet(Append(w, e)) <=> \E k \in 1..(Len(w) + 1) : Append(w, e)[k] = x
      BY <1>1 DEF ToSet
    <2>2. x \in ToSet(w) <=> \E k \in 1..Len(w) : w[k] = x
      BY <1>1 DEF ToSet
    <2>3. QED BY <1>1, <2>1, <2>2
  <1>3. QED BY <1>1, <1>2

LEMMA SetOfTail ==
    ASSUME NEW S, NEW w \in Seq(S), w # <<>>
    PROVE  Tail(w) \in Seq(S) /\ ToSet(w) = ToSet(Tail(w)) \cup {Head(w)}
  <1>1. /\ Tail(w) \in Seq(S) /\ Len(w) \in Nat /\ Len(w) >= 1 /\ DOMAIN w = 1..Len(w)
        /\ DOMAIN Tail(w) = 1..(Len(w) - 1) /\ Head(w) = w[1]
        /\ \A k \in 1..(Len(w) - 1) : Tail(w)[k] = w[k + 1]
    OBVIOUS
  <1>2. ASSUME NEW x PROVE x \in ToSet(w) <=> x \in ToSet(Tail(w)) \cup {Head(w)}
    <2>1. x \in ToSet(Tail(w)) <=> \E k \in 1..(Len(w) - 1) : w[k + 1] = x
      BY <1>1 DEF ToSet
    <2>2. x \in ToSet(w) <=> \E k \in 1..Len(w) : w[k] = x
      BY <1>1 DEF ToSet
    <2>3. ASSUME NEW k \in 1..Len(w), k # 1 PROVE k - 1 \in 1..(Len(w) - 1) /\ (k - 1) + 1 = k
      BY <1>1, <2>3
    <2>4. \A k \in 1..(Len(w) - 1) : k + 1 \in 1..Len(w)
      BY <1>1
    <2>5. 1 \in 1..Len(w)
      BY <1>1
    <2>6. QED BY <1>1, <2>1, <2>2, <2>3, <2>4, <2>5
  <1>3. QED BY <1>1, <1>2

(* The frame of the server's steps, for the tab. *)
TableStep ==
    /\ UNCHANGED <<data, fetch, resyncs, overlaid, sent, excused, revived, sock, wire, timers, sentReads>>
    /\ RowsOK(rows')
    /\ \A i \in DOMAIN rows' : i \in DOMAIN rows \/ rows'[i].nonce \in sent \cup {Nil}
    /\ outgoing \subseteq outgoing' /\ \A e \in outgoing' : e \in outgoing \/ EventOK(e, rows')
    /\ \A i \in DOMAIN rows' : i \in DOMAIN rows \/ rows'[i].via = "rest"
                               \/ \E e \in outgoing' : e.type = "message.new" /\ e.id = i
    /\ keys' \subseteq Nonces
    /\ up' = up \/ (up # <<>> /\ up' = Tail(up))
    /\ \A p \in posts' : p \in posts \/ PostOK(p, rows')
    /\ \A p \in posts : \E q \in posts' : q.nonce = p.nonce
    /\ \A p \in posts' : \E q \in posts : q.nonce = p.nonce
    /\ mutation' = mutation \/ (mutation # Nil /\ \E s : mutation' = [mutation EXCEPT !.st = s])

LEMMA RowsEndureGrow ==
    ASSUME ServerInv, ServerInv', RowsEndure
    PROVE  RowsGrow(rows, rows')
  <1>1. rows \in Seq(RowRecord) /\ rows' \in Seq(RowRecord)
    BY DEF ServerInv, ServerTypes
  <1>2. QED BY <1>1 DEF RowsEndure, RowsGrow

LEMMA NoneBelowEndures ==
    ASSUME NEW R \in Seq(RowRecord), NEW S \in Seq(RowRecord), RowsGrow(R, S), NEW n, NEW t, NoneBelow(R, n, t)
    PROVE  NoneBelow(S, n, t)
  <1>1. n \in DOMAIN R /\ n \in DOMAIN S
    BY DEF NoneBelow, RowsGrow
  <1>2. \A i \in 1..(n - 1) : i \in DOMAIN R
    BY <1>1
  <1>3. QED BY <1>1, <1>2 DEF NoneBelow, RowsGrow

LEMMA FetchEndures ==
    ASSUME NEW R \in Seq(RowRecord), NEW S \in Seq(RowRecord), RowsGrow(R, S), NEW w, NEW x, PastGrows(w, x),
           Ledger(S, x), NEW f, FetchOK(f, R, w)
    PROVE  FetchOK(f, S, x)
  <1> SUFFICES ASSUME f # Nil PROVE FetchOK(f, S, x)
    BY DEF FetchOK
  <1>1. f = [old |-> f.old, n |-> f.n, cursor |-> f.cursor, pages |-> f.pages] /\ f.n \in Nat
    BY DEF FetchOK
  <1>2. ASSUME f.old # <<>>
        PROVE  /\ GoodCache(f.old, S, x)
               /\ \A t \in Texts \ x[1] : BubblesOf(f.old, t) # {} => NoneBelow(S, f.cursor, t)
    <2>1. GoodCache(f.old, S, x)
      BY <1>2, CacheEndures DEF FetchOK
    <2>2. ASSUME NEW t \in Texts \ x[1], BubblesOf(f.old, t) # {} PROVE NoneBelow(S, f.cursor, t)
      <3>1. NoneBelow(R, f.cursor, t)
        BY <1>2, <2>2 DEF FetchOK, PastGrows
      <3>2. QED BY <3>1, NoneBelowEndures
    <2>3. QED BY <2>1, <2>2
  <1>3. ASSUME f.pages # Nil
        PROVE  /\ f.pages \in Seq(Seq(Message))
               /\ \A p \in DOMAIN f.pages : ServedPage(f.pages[p], S)
               /\ f.old # <<>> /\ f.cursor \in DOMAIN S =>
                    \A p \in DOMAIN f.pages : \A k \in DOMAIN f.pages[p] : f.pages[p][k].id < f.cursor
    <2>1. f.pages \in Seq(Seq(Message)) /\ \A p \in DOMAIN f.pages : ServedPage(f.pages[p], S)
      BY <1>3, PageEndures DEF FetchOK
    <2>2. ASSUME f.old # <<>>, f.cursor \in DOMAIN S, NEW p \in DOMAIN f.pages, NEW k \in DOMAIN f.pages[p]
          PROVE  f.pages[p][k].id < f.cursor
      <3>1. CASE f.cursor \in DOMAIN R
        BY <1>3, <2>2, <3>1 DEF FetchOK
      <3>2. CASE f.cursor \notin DOMAIN R
        <4>1. f.pages[p][k].id \in DOMAIN R
          BY <1>3 DEF FetchOK, ServedPage, Served, Fits
        <4>2. Len(R) \in Nat /\ DOMAIN R = 1..Len(R) /\ Len(S) \in Nat /\ DOMAIN S = 1..Len(S)
          OBVIOUS
        <4>3. QED BY <2>2, <3>2, <4>1, <4>2
      <3>3. QED BY <3>1, <3>2
    <2>3. QED BY <2>1, <2>2
  <1>4. QED BY <1>1, <1>2, <1>3 DEF FetchOK

LEMMA MutationEndures ==
    ASSUME NEW R \in Seq(RowRecord), NEW S \in Seq(RowRecord), RowsGrow(R, S), NEW w, NEW x, PastGrows(w, x),
           Ledger(S, x), NEW mu, MutationOK(mu, R, w)
    PROVE  MutationOK(mu, S, x)
  BY CacheEndures DEF MutationOK, RowsGrow

LEMMA ResyncEndures ==
    ASSUME NEW R, NEW S, RowsGrow(R, S), NEW r, ResyncOK(r, R)
    PROVE  ResyncOK(r, S)
  BY PageEndures DEF ResyncOK

LEMMA TableStepKeeps ==
    ASSUME TabInv, TableStep, RowsGrow(rows, rows'), ServerInv
    PROVE  TabInv'
  <1>1. rows \in Seq(RowRecord) /\ rows' \in Seq(RowRecord) /\ RowsOK(rows')
    BY DEF TabInv, TableStep, RowsOK
  <1>2. UNCHANGED <<data, fetch, resyncs, overlaid, sent, excused, revived, sock, wire, timers, sentReads>>
    BY DEF TableStep
  <1> DEFINE w == Past
  <1>3a. Past' = w /\ PastGrows(w, w)
    BY <1>2 DEF Past, PastGrows
  <1>3b. Ledger(rows', w)
    <2>1. Ledger(rows, w)
      BY DEF TabInv, GoodCache, Counted
    <2>2. w[2] = sent
      BY DEF Past
    <2>3. QED BY <2>1, <2>2 DEF Ledger, TableStep, RowsGrow
  <1>3c. GoodCache(Pages(data), rows, w) /\ FetchOK(fetch, rows, w) /\ MutationOK(mutation, rows, w)
    BY DEF TabInv
  <1> HIDE DEF w
  <1>3. GoodCache(Pages(data), rows', w) /\ FetchOK(fetch, rows', w)
    BY <1>1, <1>3a, <1>3b, <1>3c, CacheEndures, FetchEndures
  <1>4. \A r \in resyncs : ResyncOK(r, rows')
    BY ResyncEndures DEF TabInv
  <1>5. MutationOK(mutation', rows', w)
    <2>1. MutationOK(mutation, rows', w)
      BY <1>1, <1>3a, <1>3b, <1>3c, MutationEndures
    <2>2. CASE mutation' = mutation
      BY <2>1, <2>2
    <2>3. CASE mutation # Nil /\ \E s : mutation' = [mutation EXCEPT !.st = s]
      <3>1. PICK s : mutation' = [mutation EXCEPT !.st = s]
        BY <2>3
      <3>2. mutation = [kind |-> mutation.kind, id |-> mutation.id, prev |-> mutation.prev, st |-> mutation.st]
        BY <2>1, <2>3 DEF MutationOK
      <3>3. mutation' = [kind |-> mutation.kind, id |-> mutation.id, prev |-> mutation.prev, st |-> s]
        BY <3>1, <3>2
      <3>4. QED BY <2>1, <2>3, <3>3 DEF MutationOK
    <2>4. QED BY <2>2, <2>3 DEF TableStep
  <1>6. EventsOK'
    <2>1. \A e \in outgoing \cup ToSet(wire) : EventOK(e, rows')
      BY EventEndures DEF TabInv, EventsOK
    <2>2. QED BY <1>2, <2>1 DEF TabInv, EventsOK, TableStep
  <1>7. FramesOK'
    <2>1. /\ \A k \in DOMAIN up : /\ up[k].type = "message.read" => up[k].id \in DOMAIN rows'
                                  /\ up[k].type = "message.send" => up[k].nonce \in sent'
          /\ \A p \in posts' : p.nonce \in sent'
      BY <1>2 DEF TabInv, FramesOK, RowsGrow, TableStep
    <2>2. CASE up' = up
      BY <2>1, <2>2 DEF FramesOK
    <2>3. CASE up # <<>> /\ up' = Tail(up)
      <3>1. up \in Seq(FrameRecord)
        BY DEF ServerInv, ServerTypes
      <3>2. \A k \in DOMAIN up' : k + 1 \in DOMAIN up /\ up'[k] = up[k + 1]
        BY <2>3, <3>1
      <3>3. QED BY <2>1, <3>2 DEF FramesOK
    <2>4. QED BY <2>2, <2>3 DEF TableStep
  <1>8. \A p \in posts' : PostOK(p, rows')
    <2>1. ASSUME NEW p \in posts PROVE PostOK(p, rows')
      BY DEF TabInv, PostOK, RowsGrow
    <2>2. QED BY <2>1 DEF TableStep
  <1>9. TabTypes'
    BY <1>2 DEF TabInv, TabTypes, TableStep, RowsGrow
  <1>10. Accounted'
    <2> SUFFICES ASSUME NEW i \in DOMAIN rows' PROVE HeldId(Pages(data), i) \/ Covered(i)'
      BY <1>2 DEF Accounted
    <2>1. Coming(i) => Coming(i)'
      BY <1>2 DEF Coming, TableStep
    <2>2. CASE i \in DOMAIN rows
      <3>1. HeldId(Pages(data), i) \/ Covered(i)
        BY <2>2 DEF TabInv, Accounted
      <3>2. rows'[i].via = rows[i].via
        BY <2>2 DEF RowsGrow
      <3>3. QED BY <1>2, <2>1, <3>1, <3>2 DEF Covered
    <2>3. CASE i \notin DOMAIN rows
      <3>1. rows'[i].via = "rest" \/ \E e \in outgoing' : e.type = "message.new" /\ e.id = i
        BY <2>3 DEF TableStep
      <3>2. QED BY <3>1 DEF Covered, Coming
    <2>4. QED BY <2>2, <2>3
  <1>11. Watched'
    BY <1>2 DEF TabInv, Watched, TableStep
  <1>12. QED BY <1>1, <1>2, <1>3, <1>3a, <1>4, <1>5, <1>6, <1>7, <1>8, <1>9, <1>10, <1>11 DEF TabInv

LEMMA InsertOK ==
    ASSUME ServerInv, ServerInv', RowsOK(rows), NEW user, NEW nonce, NEW via, NEW text,
           InsertMessage(user, nonce, via, text), nonce \in Nonces => user = Me, TextFits(text, nonce)
    PROVE  /\ RowsOK(rows') /\ Len(rows') \in DOMAIN rows'
           /\ rows'[Len(rows')].user = user /\ rows'[Len(rows')].nonce = nonce /\ rows'[Len(rows')].via = via
           /\ \A i \in DOMAIN rows' : i \in DOMAIN rows \/ i = Len(rows')
  <1>1. rows \in Seq(RowRecord) /\ rows' \in Seq(RowRecord)
    BY DEF ServerInv, ServerTypes
  <1>2. PICK r : /\ r.user = user /\ r.nonce = nonce /\ r.via = via /\ r.content = text
                 /\ rows' = Append(rows, r) /\ Len(rows) < MaxRows
    BY DEF InsertMessage
  <1>3. /\ Len(rows) \in Nat /\ Len(rows') = Len(rows) + 1
        /\ DOMAIN rows = 1..Len(rows) /\ DOMAIN rows' = 1..(Len(rows) + 1)
        /\ \A i \in 1..Len(rows) : rows'[i] = rows[i]
        /\ rows'[Len(rows) + 1] = r
    BY <1>1, <1>2
  <1>4. \A i \in DOMAIN rows' : (i \in DOMAIN rows /\ rows'[i] = rows[i]) \/ (i = Len(rows') /\ rows'[i] = r)
    BY <1>3
  <1>5. Len(rows') <= MaxRows
    BY <1>2, <1>3, MessagesAssumption
  <1>6. RowsOK(rows')
    BY <1>1, <1>2, <1>4, <1>5 DEF RowsOK
  <1>7. QED BY <1>2, <1>3, <1>4, <1>6

LEMMA PatchRowsOK ==
    ASSUME ServerInv, ServerInv', RowsOK(rows), NEW i, 
           \/ /\ rows' = [rows EXCEPT ![i].content = Edited] \/ rows' = [rows EXCEPT ![i].content = Masked]
           \/ \E u \in {Me, Peer} : \/ rows' = [rows EXCEPT ![i].read_by = @ \cup {u}]
                                    \/ rows' = [rows EXCEPT ![i].reactions = @ \cup {u}]
                                    \/ rows' = [rows EXCEPT ![i].reactions = @ \ {u}]
    PROVE  RowsOK(rows') /\ DOMAIN rows' = DOMAIN rows
  <1>1. rows \in Seq(RowRecord) /\ rows' \in Seq(RowRecord) /\ DOMAIN rows' = DOMAIN rows
    BY DEF ServerInv, ServerTypes
  <1>2. \A j \in DOMAIN rows : rows[j] \in RowRecord
    BY <1>1
  <1>3. \A j \in DOMAIN rows :
           /\ rows'[j].user = rows[j].user /\ rows'[j].nonce = rows[j].nonce
           /\ rows'[j].content \in {rows[j].content, Edited, Masked}
    <2>1. CASE rows' = [rows EXCEPT ![i].content = Edited] \/ rows' = [rows EXCEPT ![i].content = Masked]
      BY <1>1, <1>2, <2>1 DEF RowRecord
    <2>2. ASSUME NEW u \in {Me, Peer}, \/ rows' = [rows EXCEPT ![i].read_by = @ \cup {u}]
                                       \/ rows' = [rows EXCEPT ![i].reactions = @ \cup {u}]
                                       \/ rows' = [rows EXCEPT ![i].reactions = @ \ {u}]
          PROVE  \A j \in DOMAIN rows : /\ rows'[j].user = rows[j].user /\ rows'[j].nonce = rows[j].nonce
                                        /\ rows'[j].content = rows[j].content
      BY <1>1, <1>2, <2>2 DEF RowRecord
    <2>3. QED BY <2>1, <2>2
  <1>4. Len(rows') = Len(rows)
    BY <1>1
  <1>5. Edited \notin Texts /\ Masked \notin Texts
    BY MessagesAssumption DEF Texts
  <1>6. QED BY <1>1, <1>3, <1>4, <1>5 DEF RowsOK, TextFits

LEMMA NewEventOK ==
    ASSUME NEW R, RowsOK(R), NEW i \in DOMAIN R, NEW user \in {Me, Peer}, NEW nonce \in Nonces \cup {Nil},
           NEW text \in {Me, Peer} \cup Texts, R[i].user = user, R[i].nonce = nonce, TextFits(text, nonce)
    PROVE  EventOK(NewEvent(i, user, nonce, text), R)
  <1>1. i \in 1..MaxRows
    BY MessagesAssumption DEF RowsOK
  <1>2. QED BY <1>1 DEF EventOK, NewEvent, EventRecord

LEMMA PatchEventOK ==
    ASSUME NEW R, RowsOK(R), NEW i \in DOMAIN R, NEW user \in {Me, Peer},
           NEW type \in {"message.edited", "message.deleted", "message.read_by", "message.reaction"},
           NEW text \in {Edited, Nil} \cup BOOLEAN, type = "message.edited" => text = Edited
    PROVE  EventOK(PatchEvent(type, i, user, text), R)
  <1>1. i \in 1..MaxRows
    BY MessagesAssumption DEF RowsOK
  <1>2. QED BY <1>1 DEF EventOK, PatchEvent, EventRecord

(* What each of the server's steps leaves alone. *)
TableFrame == UNCHANGED <<data, fetch, resyncs, overlaid, excused, revived, sock, wire, timers, sent, sentReads>>

LEMMA PeerTable ==
    ASSUME ServerInv, ServerInv', TabInv, PeerNext \/ \E i \in 1..MaxRows : ToggleReaction(i, Me)
    PROVE  TableStep
  <1>1. RowsOK(rows) /\ keys \subseteq Nonces
    BY DEF TabInv, TabTypes
  <1>2. TableFrame /\ UNCHANGED <<keys, up, posts, mutation>>
    BY DEF PeerNext, PeerSends, PeerChanges, PeerReads, ToggleReaction, TableFrame, net, tab, ghosts
  <1>3. CASE PeerSends
    <2>1. InsertMessage(Peer, Nil, "ws", Peer) /\ outgoing' = outgoing \cup {NewEvent(Len(rows'), Peer, Nil, Peer)}
      BY <1>3 DEF PeerSends
    <2>2. Nil \notin Nonces /\ TextFits(Peer, Nil)
      BY MessagesAssumption, NamesAssumption DEF TextFits, Texts
    <2>3. /\ RowsOK(rows') /\ Len(rows') \in DOMAIN rows'
          /\ rows'[Len(rows')].user = Peer /\ rows'[Len(rows')].nonce = Nil
          /\ \A i \in DOMAIN rows' : i \in DOMAIN rows \/ i = Len(rows')
      BY <1>1, <2>1, <2>2, InsertOK
    <2>4. EventOK(NewEvent(Len(rows'), Peer, Nil, Peer), rows')
      BY <2>2, <2>3, NewEventOK
    <2>5. NewEvent(Len(rows'), Peer, Nil, Peer).type = "message.new" /\ NewEvent(Len(rows'), Peer, Nil, Peer).id = Len(rows')
      BY DEF NewEvent
    <2>6. QED BY <1>1, <1>2, <2>1, <2>3, <2>4, <2>5 DEF TableStep, TableFrame
  <1>4. ASSUME NEW i \in DOMAIN rows, NEW type \in {"message.edited", "message.deleted", "message.read_by", "message.reaction"},
               NEW user \in {Me, Peer}, NEW text \in {Edited, Nil} \cup BOOLEAN, type = "message.edited" => text = Edited,
               outgoing' = outgoing \cup {PatchEvent(type, i, user, text)},
               RowsOK(rows') /\ DOMAIN rows' = DOMAIN rows
        PROVE  TableStep
    <2>1. EventOK(PatchEvent(type, i, user, text), rows')
      BY <1>4, PatchEventOK
    <2>2. QED BY <1>1, <1>2, <1>4, <2>1 DEF TableStep, TableFrame
  <1>5. ASSUME NEW i \in 1..MaxRows, NEW type \in {"message.edited", "message.deleted"}, PeerChanges(i, type)
        PROVE  TableStep
    <2>1. i \in DOMAIN rows
      BY <1>5 DEF PeerChanges
    <2>2. RowsOK(rows') /\ DOMAIN rows' = DOMAIN rows
      BY <1>1, <1>5, PatchRowsOK DEF PeerChanges
    <2>3. PICK text \in {Edited, Nil} : /\ type = "message.edited" => text = Edited
                                        /\ outgoing' = outgoing \cup {PatchEvent(type, i, Peer, text)}
      BY <1>5 DEF PeerChanges
    <2>4. QED BY <1>4, <2>1, <2>2, <2>3
  <1>6. ASSUME NEW i \in 1..MaxRows, PeerReads(i) PROVE TableStep
    <2>1. /\ i \in DOMAIN rows /\ rows' = [rows EXCEPT ![i].read_by = @ \cup {Peer}]
          /\ outgoing' = outgoing \cup {PatchEvent("message.read_by", i, Peer, Nil)}
      BY <1>6 DEF PeerReads
    <2>2. RowsOK(rows') /\ DOMAIN rows' = DOMAIN rows
      BY <1>1, <2>1, PatchRowsOK
    <2>3. QED BY <1>4, <2>1, <2>2
  <1>7. ASSUME NEW i \in 1..MaxRows, NEW user \in {Me, Peer}, ToggleReaction(i, user) PROVE TableStep
    <2>1. PICK added \in BOOLEAN :
             /\ i \in DOMAIN rows
             /\ rows' = [rows EXCEPT ![i].reactions = IF added THEN @ \cup {user} ELSE @ \ {user}]
             /\ outgoing' = outgoing \cup {PatchEvent("message.reaction", i, user, added)}
      <3>1. (user \notin rows[i].reactions) \in BOOLEAN
        OBVIOUS
      <3>2. QED BY <1>7, <3>1, Zenon DEF ToggleReaction
    <2>2. rows' = [rows EXCEPT ![i].reactions = @ \cup {user}] \/ rows' = [rows EXCEPT ![i].reactions = @ \ {user}]
      <3>1. CASE added
        BY <2>1, <3>1
      <3>2. CASE ~added
        BY <2>1, <3>2
      <3>3. QED BY <3>1, <3>2
    <2>3. RowsOK(rows') /\ DOMAIN rows' = DOMAIN rows
      BY <1>1, <2>2, PatchRowsOK
    <2>4. QED BY <1>4, <2>1, <2>3
  <1>8. QED BY <1>3, <1>5, <1>6, <1>7 DEF PeerNext

LEMMA FrameTable ==
    ASSUME ServerInv, ServerInv', TabInv, HandleFrame
    PROVE  TableStep
  <1>1. RowsOK(rows) /\ keys \subseteq Nonces /\ FramesOK /\ up \in Seq(FrameRecord)
    BY DEF TabInv, TabTypes, ServerInv, ServerTypes
  <1>2. TableFrame /\ UNCHANGED <<keys, posts, mutation>> /\ up # <<>> /\ up' = Tail(up)
    BY DEF HandleFrame, TableFrame, tab, ghosts
  <1> DEFINE f == Head(up)
  <1>3. f \in FrameRecord /\ 1 \in DOMAIN up /\ f = up[1]
    BY <1>1, <1>2
  <1>4. \/ f.type = "room.join" /\ UNCHANGED <<rows, outgoing>>
        \/ /\ f.type = "message.send" /\ InsertMessage(Me, f.nonce, "ws", TextOf[f.nonce])
           /\ outgoing' = outgoing \cup {NewEvent(Len(rows'), Me, f.nonce, TextOf[f.nonce])}
        \/ /\ f.type = "message.read"
           /\ \/ UNCHANGED <<rows, outgoing>>
              \/ /\ rows' = [rows EXCEPT ![f.id].read_by = @ \cup {Me}]
                 /\ outgoing' = outgoing \cup {PatchEvent("message.read_by", f.id, Me, Nil)}
    BY DEF HandleFrame
  <1> HIDE DEF f
  <1>5. CASE UNCHANGED <<rows, outgoing>>
    BY <1>1, <1>2, <1>5 DEF TableStep, TableFrame
  <1>6. CASE /\ f.type = "message.send" /\ InsertMessage(Me, f.nonce, "ws", TextOf[f.nonce])
             /\ outgoing' = outgoing \cup {NewEvent(Len(rows'), Me, f.nonce, TextOf[f.nonce])}
    <2>1. f.nonce \in Nonces /\ f.nonce \in sent /\ TextOf[f.nonce] \in Texts /\ TextFits(TextOf[f.nonce], f.nonce)
      <3>1. f.nonce \in Nonces
        BY <1>3, <1>6 DEF FrameRecord
      <3>2. f.nonce \in sent
        BY <1>1, <1>3, <1>6 DEF FramesOK
      <3>3. QED BY <3>1, <3>2 DEF Texts, TextFits
    <2>2. /\ RowsOK(rows') /\ Len(rows') \in DOMAIN rows'
          /\ rows'[Len(rows')].user = Me /\ rows'[Len(rows')].nonce = f.nonce
          /\ \A i \in DOMAIN rows' : i \in DOMAIN rows \/ i = Len(rows')
      BY <1>1, <1>6, <2>1, InsertOK
    <2>3. EventOK(NewEvent(Len(rows'), Me, f.nonce, TextOf[f.nonce]), rows')
      BY <2>1, <2>2, NewEventOK
    <2>4. /\ NewEvent(Len(rows'), Me, f.nonce, TextOf[f.nonce]).type = "message.new"
          /\ NewEvent(Len(rows'), Me, f.nonce, TextOf[f.nonce]).id = Len(rows')
      BY DEF NewEvent
    <2>5. QED BY <1>1, <1>2, <1>6, <2>1, <2>2, <2>3, <2>4 DEF TableStep, TableFrame
  <1>7. CASE /\ f.type = "message.read" /\ rows' = [rows EXCEPT ![f.id].read_by = @ \cup {Me}]
             /\ outgoing' = outgoing \cup {PatchEvent("message.read_by", f.id, Me, Nil)}
    <2>1. f.id \in DOMAIN rows
      BY <1>1, <1>3, <1>7 DEF FramesOK
    <2>2. RowsOK(rows') /\ DOMAIN rows' = DOMAIN rows
      BY <1>1, <1>7, PatchRowsOK
    <2>3. EventOK(PatchEvent("message.read_by", f.id, Me, Nil), rows')
      BY <2>1, <2>2, PatchEventOK
    <2>4. QED BY <1>1, <1>2, <1>7, <2>2, <2>3 DEF TableStep, TableFrame
  <1>8. QED BY <1>4, <1>5, <1>6, <1>7

LEMMA PostTable ==
    ASSUME ServerInv, ServerInv', TabInv, NEW p \in posts, PostHandled(p)
    PROVE  TableStep
  <1>1. RowsOK(rows) /\ keys \subseteq Nonces /\ p \in PostRecord /\ p.nonce \in Nonces /\ p.nonce \in sent
    BY DEF TabInv, TabTypes, ServerInv, ServerTypes, PostRecord, FramesOK
  <1>2. TableFrame /\ UNCHANGED <<outgoing, up, mutation>>
    BY DEF PostHandled, TableFrame, net, ghosts
  <1>3. keys' \subseteq Nonces
    BY <1>1 DEF PostHandled
  <1>4. ASSUME NEW q, posts' = (posts \ {p}) \cup {q}, q.nonce = p.nonce, PostOK(q, rows'), RowsOK(rows'),
               \A i \in DOMAIN rows' : i \in DOMAIN rows \/ (rows'[i].via = "rest" /\ rows'[i].nonce = p.nonce)
        PROVE  TableStep
    BY <1>1, <1>2, <1>3, <1>4 DEF TableStep, TableFrame
  <1>5. CASE /\ InsertMessage(Me, p.nonce, "rest", TextOf[p.nonce])
             /\ posts' = (posts \ {p}) \cup {[p EXCEPT !.st = "created", !.row = Len(rows')]}
    <2>1. /\ RowsOK(rows') /\ Len(rows') \in DOMAIN rows'
          /\ rows'[Len(rows')].user = Me /\ rows'[Len(rows')].nonce = p.nonce /\ rows'[Len(rows')].via = "rest"
          /\ \A i \in DOMAIN rows' : i \in DOMAIN rows \/ i = Len(rows')
      <3>1. TextFits(TextOf[p.nonce], p.nonce)
        BY <1>1 DEF TextFits
      <3>2. QED BY <1>1, <1>5, <3>1, InsertOK
    <2>2. PICK q : q = [p EXCEPT !.st = "created", !.row = Len(rows')]
      OBVIOUS
    <2>3. q.nonce = p.nonce /\ q.row = Len(rows')
      BY <1>1, <2>2 DEF PostRecord
    <2>4. PostOK(q, rows')
      BY <2>1, <2>3 DEF PostOK
    <2>5. QED BY <1>4, <1>5, <2>1, <2>2, <2>3, <2>4
  <1>6. CASE posts' = (posts \ {p}) \cup {[p EXCEPT !.st = "refused"]} /\ UNCHANGED rows
    <2>1. PICK q : q = [p EXCEPT !.st = "refused"]
      OBVIOUS
    <2>2. q.nonce = p.nonce /\ q.st = "refused"
      BY <1>1, <2>1 DEF PostRecord
    <2>3. PostOK(q, rows')
      BY <2>2 DEF PostOK
    <2>4. QED BY <1>1, <1>4, <1>6, <2>1, <2>2, <2>3
  <1>7. QED BY <1>5, <1>6 DEF PostHandled

LEMMA MutationTable ==
    ASSUME ServerInv, ServerInv', TabInv, MutationHandled
    PROVE  TableStep
  <1>1. RowsOK(rows) /\ keys \subseteq Nonces /\ MutationOK(mutation, rows, Past)
    BY DEF TabInv, TabTypes
  <1>2. TableFrame /\ UNCHANGED <<keys, up, posts>> /\ mutation # Nil
    BY DEF MutationHandled, TableFrame, net, ghosts
  <1>3. mutation.id \in DOMAIN rows
    BY <1>1, <1>2 DEF MutationOK
  <1>4. CASE mutation' = [mutation EXCEPT !.st = "refused"] /\ UNCHANGED <<rows, outgoing>>
    BY <1>1, <1>2, <1>4 DEF TableStep, TableFrame
  <1>5. CASE ~(mutation' = [mutation EXCEPT !.st = "refused"] /\ UNCHANGED <<rows, outgoing>>)
    <2>1. /\ rows' = [rows EXCEPT ![mutation.id].content = IF mutation.kind = "edit" THEN Edited ELSE Masked]
          /\ outgoing' = outgoing \cup
                 {PatchEvent(IF mutation.kind = "edit" THEN "message.edited" ELSE "message.deleted",
                             mutation.id, Me, IF mutation.kind = "edit" THEN Edited ELSE Nil)}
          /\ mutation' = [mutation EXCEPT !.st = "ok"]
      BY <1>5 DEF MutationHandled
    <2>2. PICK type \in {"message.edited", "message.deleted"}, text \in {Edited, Nil} :
             /\ type = "message.edited" => text = Edited
             /\ outgoing' = outgoing \cup {PatchEvent(type, mutation.id, Me, text)}
      BY <2>1
    <2>3. rows' = [rows EXCEPT ![mutation.id].content = Edited] \/ rows' = [rows EXCEPT ![mutation.id].content = Masked]
      BY <2>1
    <2>4. RowsOK(rows') /\ DOMAIN rows' = DOMAIN rows
      BY <1>1, <2>3, PatchRowsOK
    <2>5. EventOK(PatchEvent(type, mutation.id, Me, text), rows')
      BY <1>3, <2>2, <2>4, PatchEventOK
    <2>6. QED BY <1>1, <1>2, <2>1, <2>2, <2>4, <2>5 DEF TableStep, TableFrame
  <1>6. QED BY <1>4, <1>5

(* A frame that cannot be handled, and a key whose time is up. *)
LEMMA QuietTable ==
    ASSUME ServerInv, TabInv, FrameFails \/ \E c \in Nonces : KeyExpires(c)
    PROVE  TableStep
  <1>1. RowsOK(rows) /\ keys \subseteq Nonces
    BY DEF TabInv, TabTypes
  <1>2. TableFrame /\ UNCHANGED <<rows, outgoing, posts, mutation>> /\ keys' \subseteq keys
        /\ (up' = up \/ (up # <<>> /\ up' = Tail(up)))
    <2>1. CASE FrameFails
      BY <2>1 DEF FrameFails, TableFrame, server, tab, ghosts
    <2>2. ASSUME NEW c \in Nonces, KeyExpires(c)
          PROVE  TableFrame /\ UNCHANGED <<rows, outgoing, up, posts, mutation>> /\ keys' \subseteq keys
      BY <2>2 DEF KeyExpires, TableFrame, net, tab
    <2>3. QED BY <2>1, <2>2
  <1>3. QED BY <1>1, <1>2 DEF TableStep, TableFrame

-----------------------------------------------------------------------------
(* Steps that leave the table and the cache alone. *)

LEMMA RowsGrowSame ==
    ASSUME NEW R
    PROVE  RowsGrow(R, R)
  BY DEF RowsGrow

LEMMA PastSame ==
    ASSUME UNCHANGED <<overlaid, sent>>
    PROVE  Past' = Past
  BY DEF Past

LEMMA PastIs ==
    ASSUME TabInv
    PROVE  Past[1] = overlaid /\ Past[2] = sent /\ Ledger(rows, Past)
  <1>1. Past[1] = overlaid /\ Past[2] = sent
    BY DEF Past
  <1>2. QED BY <1>1 DEF TabInv, GoodCache, Counted

LEMMA QuietStepKeeps ==
    ASSUME TabInv, UNCHANGED <<rows, data, keys, posts, timers, mutation, sent, revived>>, overlaid \subseteq overlaid',
           EventsOK', FramesOK', FetchOK(fetch', rows, Past'), \A r \in resyncs' : ResyncOK(r, rows),
           sentReads' \subseteq DOMAIN rows, excused' \subseteq DOMAIN rows,
           \A i \in DOMAIN rows : HeldId(Pages(data), i) \/ Covered(i)'
    PROVE  TabInv'
  <1>1. rows \in Seq(RowRecord) /\ RowsGrow(rows, rows) /\ GoodCache(Pages(data), rows, Past)
        /\ MutationOK(mutation, rows, Past)
    BY RowsGrowSame DEF TabInv, RowsOK
  <1>2. PICK w, x : w = Past /\ x = Past'
    OBVIOUS
  <1>3. w[1] = overlaid /\ w[2] = sent /\ x[1] = overlaid' /\ x[2] = sent
    BY <1>2 DEF Past
  <1>4. PastGrows(w, x) /\ Ledger(rows, x)
    <2>1. Ledger(rows, w)
      BY <1>1, <1>2 DEF GoodCache, Counted
    <2>2. QED BY <1>3, <2>1 DEF PastGrows, Ledger
  <1>5. GoodCache(Pages(data), rows, x) /\ MutationOK(mutation, rows, x)
    BY <1>1, <1>2, <1>4, CacheEndures, MutationEndures
  <1>6. Accounted' /\ Watched'
    BY DEF TabInv, Accounted, Watched
  <1>7. TabTypes'
    BY DEF TabInv, TabTypes
  <1>8. QED BY <1>2, <1>5, <1>6, <1>7 DEF TabInv

LEMMA MissingIs ==
    ASSUME TabInv
    PROVE  /\ \A i \in DOMAIN rows : i \in Missing(data) <=> ~HeldId(Pages(data), i)
           /\ Missing(data) \subseteq DOMAIN rows
  <1>1. rows \in Seq(RowRecord) /\ GoodCache(Pages(data), rows, Past)
    BY DEF TabInv, RowsOK
  <1>2. QED BY <1>1, ConfirmedIs DEF Missing

LEMMA PublishKeeps ==
    ASSUME TabInv, NEW e \in outgoing, Publish(e)
    PROVE  TabInv'
  <1>1. /\ outgoing' = outgoing \ {e} /\ wire' = IF subscribed THEN Append(wire, e) ELSE wire
        /\ excused' = excused \cup (IF e.type = "message.new" /\ ~subscribed /\ ~ResyncToCome THEN {e.id} ELSE {})
        /\ UNCHANGED <<rows, keys, up, sock, data, fetch, resyncs, posts, timers, mutation, sent, sentReads, revived, overlaid>>
    BY DEF Publish, Excuse, tab
  <1>2. EventsOK /\ EventOK(e, rows) /\ e \in EventRecord /\ e.id \in DOMAIN rows
    BY DEF TabInv, EventsOK, EventOK
  <1>3. wire' \in Seq(EventRecord) /\ ToSet(wire') = IF subscribed THEN ToSet(wire) \cup {e} ELSE ToSet(wire)
    <2>1. CASE subscribed
      BY <1>1, <1>2, <2>1, SetOfAppend DEF EventsOK
    <2>2. CASE ~subscribed
      BY <1>1, <1>2, <2>2 DEF EventsOK
    <2>3. QED BY <2>1, <2>2
  <1>4. EventsOK'
    BY <1>1, <1>2, <1>3 DEF EventsOK
  <1>5. ASSUME NEW i \in DOMAIN rows, Covered(i) PROVE Covered(i)'
    <2>1. CASE ~Coming(i)
      BY <1>1, <1>5, <2>1 DEF Covered
    <2>2. CASE Coming(i)
      <3>1. PICK x \in outgoing \cup ToSet(wire) : x.type = "message.new" /\ x.id = i
        BY <2>2 DEF Coming
      <3>2. CASE x \in outgoing' \cup ToSet(wire')
        BY <3>1, <3>2 DEF Covered, Coming
      <3>3. CASE x \notin outgoing' \cup ToSet(wire')
        <4>1. x = e /\ ~subscribed
          BY <1>1, <1>3, <3>1, <3>3
        <4>2. CASE ResyncToCome
          BY <1>1, <4>2 DEF ResyncToCome, Covered, Brings
        <4>3. CASE ~ResyncToCome
          BY <1>1, <3>1, <4>1, <4>3 DEF Covered
        <4>4. QED BY <4>2, <4>3
      <3>4. QED BY <3>2, <3>3
    <2>3. QED BY <2>1, <2>2
  <1>6. excused' \subseteq DOMAIN rows /\ sentReads' \subseteq DOMAIN rows
    BY <1>1, <1>2 DEF TabInv, TabTypes
  <1>7. FramesOK'
    BY <1>1 DEF TabInv, FramesOK
  <1>8. \A i \in DOMAIN rows : HeldId(Pages(data), i) \/ Covered(i)'
    BY <1>5 DEF TabInv, Accounted
  <1>9. QED BY <1>1, <1>4, <1>6, <1>7, <1>8, PastSame, QuietStepKeeps DEF TabInv

LEMMA PublishFailsKeeps ==
    ASSUME TabInv, NEW e \in outgoing, PublishFails(e)
    PROVE  TabInv'
  <1>1. /\ outgoing' = outgoing \ {e}
        /\ excused' = excused \cup (IF e.type = "message.new" /\ ~ResyncToCome THEN {e.id} ELSE {})
        /\ UNCHANGED <<rows, keys, up, wire, sock, data, fetch, resyncs, posts, timers, mutation, sent, sentReads,
                       revived, overlaid>>
    BY DEF PublishFails, Excuse, net, tab
  <1>2. EventsOK /\ EventOK(e, rows) /\ e.id \in DOMAIN rows
    BY DEF TabInv, EventsOK, EventOK
  <1>3. EventsOK'
    BY <1>1, <1>2 DEF EventsOK
  <1>4. ASSUME NEW i \in DOMAIN rows, Covered(i) PROVE Covered(i)'
    <2>1. CASE ~Coming(i)
      BY <1>1, <1>4, <2>1 DEF Covered
    <2>2. CASE Coming(i)
      <3>1. PICK x \in outgoing \cup ToSet(wire) : x.type = "message.new" /\ x.id = i
        BY <2>2 DEF Coming
      <3>2. CASE x # e
        BY <1>1, <3>1, <3>2 DEF Covered, Coming
      <3>3. CASE x = e /\ ResyncToCome
        BY <1>1, <3>3 DEF ResyncToCome, Covered, Brings
      <3>4. CASE x = e /\ ~ResyncToCome
        BY <1>1, <3>1, <3>4 DEF Covered
      <3>5. QED BY <3>2, <3>3, <3>4
    <2>3. QED BY <2>1, <2>2
  <1>5. excused' \subseteq DOMAIN rows /\ sentReads' \subseteq DOMAIN rows
    BY <1>1, <1>2 DEF TabInv, TabTypes
  <1>6. FramesOK'
    BY <1>1 DEF TabInv, FramesOK
  <1>7. \A i \in DOMAIN rows : HeldId(Pages(data), i) \/ Covered(i)'
    BY <1>4 DEF TabInv, Accounted
  <1>8. QED BY <1>1, <1>3, <1>5, <1>6, <1>7, PastSame, QuietStepKeeps DEF TabInv

LEMMA DropKeeps ==
    ASSUME TabInv, Drop
    PROVE  TabInv'
  <1>1. /\ sock' = "down" /\ up' = <<>> /\ wire' = <<>>
        /\ UNCHANGED <<rows, keys, outgoing, data, fetch, resyncs, posts, timers, mutation, sent, sentReads,
                       excused, revived, overlaid>>
    BY DEF Drop, tab, ghosts
  <1>2. EventsOK'
    BY <1>1 DEF TabInv, EventsOK, ToSet
  <1>3. FramesOK'
    BY <1>1 DEF TabInv, FramesOK
  <1>4. \A i \in DOMAIN rows : Covered(i)'
    BY <1>1 DEF Covered
  <1>5. QED BY <1>1, <1>2, <1>3, <1>4, PastSame, QuietStepKeeps DEF TabInv, TabTypes

LEMMA OpenKeeps ==
    ASSUME TabInv, Open
    PROVE  TabInv'
  <1> DEFINE seen == newestConfirmedCreatedAt(data)
             r == [seen |-> seen, cursor |-> Nil, n |-> 1, page |-> Nil, got |-> <<>>]
  <1>1. /\ up' = <<[type |-> "room.join"]>>
        /\ resyncs' = IF seen = Nil THEN resyncs ELSE resyncs \cup {r}
        /\ excused' = excused \cup (IF seen = Nil THEN DOMAIN rows ELSE {})
        /\ UNCHANGED <<rows, keys, outgoing, wire, data, fetch, posts, timers, mutation, sent, sentReads, revived, overlaid>>
    BY DEF Open, server, Excuse
  <1>2. seen # Nil => seen \in Nat
    <2>1. rows \in Seq(RowRecord) /\ GoodCache(Pages(data), rows, Past) /\ Len(rows) \in Nat /\ DOMAIN rows = 1..Len(rows)
      BY DEF TabInv, RowsOK
    <2>2. ConfirmedIds(data) \subseteq 1..Len(rows)
      BY <2>1, ConfirmedIs
    <2>3. CASE ConfirmedIds(data) = {}
      BY <2>3 DEF newestConfirmedCreatedAt
    <2>4. CASE ConfirmedIds(data) # {}
      <3>1. Max(ConfirmedIds(data)) \in ConfirmedIds(data)
        BY <2>1, <2>2, <2>4, MaxIsIn
      <3>2. seen = Max(ConfirmedIds(data))
        BY <2>4 DEF newestConfirmedCreatedAt
      <3>3. QED BY <2>2, <3>1, <3>2
    <2>5. QED BY <2>3, <2>4
  <1> HIDE DEF seen
  <1>3. ServedPage(<<>>, rows)
    BY DEF ServedPage
  <1>4. seen # Nil => ResyncOK(r, rows)
    BY <1>2, <1>3 DEF ResyncOK
  <1>5. \A i \in DOMAIN rows : Covered(i)'
    <2>1. CASE seen = Nil
      BY <1>1, <2>1 DEF Covered
    <2>2. CASE seen # Nil
      <3>1. r \in resyncs' /\ \A i : Brings(r, i)
        BY <1>1, <2>2 DEF Brings
      <3>2. QED BY <3>1 DEF Covered
    <2>3. QED BY <2>1, <2>2
  <1>6. \A q \in resyncs' : ResyncOK(q, rows)
    <2>1. CASE seen = Nil
      BY <1>1, <2>1 DEF TabInv
    <2>2. CASE seen # Nil
      BY <1>1, <1>4, <2>2 DEF TabInv
    <2>3. QED BY <2>1, <2>2
  <1> HIDE DEF r
  <1>7. FramesOK'
    BY <1>1 DEF TabInv, FramesOK
  <1>8. EventsOK'
    BY <1>1 DEF TabInv, EventsOK
  <1>9. excused' \subseteq DOMAIN rows
    BY <1>1 DEF TabInv, TabTypes
  <1>10. QED BY <1>1, <1>5, <1>6, <1>7, <1>8, <1>9, PastSame, QuietStepKeeps DEF TabInv, TabTypes

LEMMA ReadReceiptTab ==
    ASSUME TabInv, ServerInv, NEW i, ReadReceipt(i)
    PROVE  TabInv'
  <1>1. /\ sentReads' = sentReads \cup {i}
        /\ up' = IF sock = "open" THEN Append(up, [type |-> "message.read", id |-> i]) ELSE up
        /\ UNCHANGED <<rows, keys, outgoing, wire, sock, data, fetch, resyncs, posts, timers, mutation,
                       sent, excused, revived, overlaid>>
    BY DEF ReadReceipt, server, ghosts
  <1>2. i \in DOMAIN rows
    <2>1. PICK m \in Held(data) : m.id = i /\ Confirmed(m)
      BY DEF ReadReceipt, eligible
    <2>2. i \in ConfirmedIds(data)
      BY <2>1 DEF ConfirmedIds
    <2>3. QED BY <2>2, ConfirmedIs DEF TabInv, RowsOK
  <1>3. FramesOK'
    <2>1. up \in Seq(FrameRecord) /\ FramesOK
      BY DEF ServerInv, ServerTypes, TabInv
    <2>2. CASE sock = "open"
      <3>1. \A k \in DOMAIN up' : (k \in DOMAIN up /\ up'[k] = up[k]) \/ up'[k] = [type |-> "message.read", id |-> i]
        BY <1>1, <2>1, <2>2
      <3>2. QED BY <1>1, <1>2, <2>1, <3>1 DEF FramesOK
    <2>3. CASE sock # "open"
      BY <1>1, <2>1, <2>3 DEF FramesOK
    <2>4. QED BY <2>2, <2>3
  <1>4. EventsOK'
    BY <1>1 DEF TabInv, EventsOK
  <1>5. \A j \in DOMAIN rows : HeldId(Pages(data), j) \/ Covered(j)'
    BY <1>1 DEF TabInv, Accounted, Covered, Coming
  <1>6. sentReads' \subseteq DOMAIN rows
    BY <1>1, <1>2 DEF TabInv, TabTypes
  <1>7. QED BY <1>1, <1>3, <1>4, <1>5, <1>6, PastSame, QuietStepKeeps DEF TabInv, TabTypes

(* Steps of the query and of a resync, before they write the cache. *)
LEMMA QueryStepKeeps ==
    ASSUME TabInv, UNCHANGED <<rows, keys, outgoing, up, wire, sock, data, posts, timers, mutation, sent, sentReads, revived>>,
           overlaid \subseteq overlaid', FetchOK(fetch', rows, Past'),
           \A r \in resyncs' : ResyncOK(r, rows), excused' \subseteq DOMAIN rows,
           \A i \in DOMAIN rows : HeldId(Pages(data), i) \/ Covered(i)'
    PROVE  TabInv'
  <1>1. EventsOK' /\ FramesOK'
    BY DEF TabInv, EventsOK, FramesOK
  <1>2. QED BY <1>1, QuietStepKeeps DEF TabInv, TabTypes

LEMMA CoveredStays ==
    ASSUME TabInv, UNCHANGED <<rows, outgoing, wire, sock>>, excused \subseteq excused', resyncs' = resyncs
    PROVE  \A i \in DOMAIN rows : HeldId(Pages(data), i) \/ Covered(i)'
  BY DEF TabInv, Accounted, Covered, Coming

LEMMA FetchAllKeeps ==
    ASSUME TabInv, FetchAll
    PROVE  TabInv'
  <1>1. /\ data # Nil /\ fetch' = FetchOf(Len(data))
        /\ UNCHANGED <<rows, keys, outgoing, up, wire, sock, data, resyncs, posts, timers, mutation, sent, sentReads,
                       excused, revived, overlaid>>
    BY DEF FetchAll, server, net, ghosts
  <1>2. Len(data) \in Nat
    BY <1>1 DEF TabInv, GoodCache, Pages
  <1>3. FetchOK(FetchOf(Len(data)), rows, Past)
    BY <1>2 DEF FetchOK, FetchOf
  <1>4. QED BY <1>1, <1>3, CoveredStays, PastSame, QueryStepKeeps DEF TabInv, TabTypes

LEMMA FetchNextKeeps ==
    ASSUME TabInv, FetchNext
    PROVE  TabInv'
  <1> DEFINE cursor == nextCursor(Last(data))
  <1>1. /\ data # Nil /\ fetch' = [old |-> data, n |-> 1, cursor |-> cursor, pages |-> Nil]
        /\ overlaid' = overlaid \cup
               {t \in Texts : /\ \E c \in Nonces : TextOf[c] = t /\ findMessage(data, c) # Nil
                              /\ cursor \in DOMAIN rows => \E i \in 1..(cursor - 1) : SentAs(i, t)}
        /\ UNCHANGED <<rows, keys, outgoing, up, wire, sock, data, resyncs, posts, timers, mutation, sent, sentReads,
                       excused, revived>>
    BY DEF FetchNext, server, net
  <1> HIDE DEF cursor
  <1>2. Pages(data) = data /\ GoodCache(data, rows, Past) /\ rows \in Seq(RowRecord)
    BY <1>1 DEF TabInv, Pages, RowsOK
  <1>3. overlaid \subseteq overlaid'
    BY <1>1
  <1>4. PICK x : x = Past'
    OBVIOUS
  <1>5. x[1] = overlaid' /\ x[2] = sent
    BY <1>1, <1>4 DEF Past
  <1>6. PastGrows(Past, x) /\ Ledger(rows, x)
    BY <1>3, <1>5, PastIs DEF PastGrows, Ledger
  <1>7. GoodCache(data, rows, x)
    BY <1>2, <1>6, CacheEndures, RowsGrowSame
  <1>8. ASSUME NEW t \in Texts \ x[1], BubblesOf(data, t) # {} PROVE NoneBelow(rows, cursor, t)
    <2>1. PICK c \in Nonces : TextOf[c] = t /\ HeldId(data, c)
      BY <1>8 DEF BubblesOf
    <2>2. findMessage(data, c) # Nil
      BY <1>2, <2>1, StatusIs
    <2>3. cursor \in DOMAIN rows /\ \A i \in 1..(cursor - 1) : ~SentAs(i, t)
      BY <1>1, <1>5, <1>8, <2>1, <2>2
    <2>4. QED BY <2>3, NamesAssumption DEF NoneBelow, SentAs
  <1>9. FetchOK(fetch', rows, x)
    BY <1>1, <1>7, <1>8 DEF FetchOK
  <1>10. QED BY <1>1, <1>3, <1>4, <1>9, CoveredStays, QueryStepKeeps DEF TabInv, TabTypes

LEMMA FetchReadKeeps ==
    ASSUME TabInv, FetchRead
    PROVE  TabInv'
  <1> DEFINE got == IF fetch.old = <<>> THEN ListPages(fetch.n) ELSE <<ListRoomMessages(fetch.cursor)>>
  <1>1. /\ fetch # Nil /\ fetch' = [fetch EXCEPT !.pages = got]
        /\ UNCHANGED <<rows, keys, outgoing, up, wire, sock, data, resyncs, posts, timers, mutation, sent, sentReads,
                       excused, revived, overlaid>>
    BY DEF FetchRead, server, net, ghosts
  <1>2. FetchOK(fetch, rows, Past) /\ RowsOK(rows)
    BY DEF TabInv
  <1>3. fetch' = [old |-> fetch.old, n |-> fetch.n, cursor |-> fetch.cursor, pages |-> got]
    <2>1. fetch = [old |-> fetch.old, n |-> fetch.n, cursor |-> fetch.cursor, pages |-> fetch.pages]
      BY <1>1, <1>2 DEF FetchOK
    <2>2. QED BY <1>1, <2>1
  <1>4. /\ got \in Seq(Seq(Message)) /\ \A p \in DOMAIN got : ServedPage(got[p], rows)
        /\ fetch.old # <<>> /\ fetch.cursor \in DOMAIN rows =>
              \A p \in DOMAIN got : \A k \in DOMAIN got[p] : got[p][k].id < fetch.cursor
    <2>1. CASE fetch.old = <<>>
      <3>1. fetch.n \in Nat
        BY <1>1, <1>2 DEF FetchOK
      <3>2. QED BY <1>2, <2>1, <3>1, PagesListed
    <2>2. CASE fetch.old # <<>>
      <3> DEFINE page == ListRoomMessages(fetch.cursor)
      <3>1. ServedPage(page, rows) /\ Lists(page, NewestFor(fetch.cursor))
        BY <1>2, Listed
      <3>2. got = <<page>>
        BY <2>2
      <3> HIDE DEF page, got
      <3>3. page \in Seq(Message)
        BY <3>1 DEF ServedPage
      <3>4. got \in Seq(Seq(Message)) /\ DOMAIN got = {1} /\ got[1] = page
        BY <3>2, <3>3
      <3>5. ASSUME fetch.cursor \in DOMAIN rows, NEW k \in DOMAIN page PROVE page[k].id < fetch.cursor
        <4>1. fetch.cursor \in Nat /\ fetch.cursor >= 1 /\ NewestFor(fetch.cursor) = fetch.cursor - 1
          BY <1>2, <3>5 DEF RowsOK, NewestFor
        <4>2. k \in Nat /\ k >= 1 /\ k \in 1..Len(page)
          BY <3>3
        <4>3. page[k].id = (NewestFor(fetch.cursor) - k) + 1
          BY <3>1, <4>2 DEF Lists
        <4>4. QED BY <4>1, <4>2, <4>3
      <3>6. QED BY <3>1, <3>4, <3>5
    <2>3. QED BY <2>1, <2>2
  <1> HIDE DEF got
  <1>5. FetchOK(fetch', rows, Past)
    BY <1>1, <1>2, <1>3, <1>4 DEF FetchOK
  <1>6. QED BY <1>1, <1>5, CoveredStays, PastSame, QueryStepKeeps DEF TabInv, TabTypes

LEMMA PageArithmetic ==
    ASSUME NEW n \in Nat, NEW newest \in Nat, NEW i \in Nat, NEW size \in Nat \ {0}, i >= 1, i <= newest,
           n <= newest, n < size => n = newest
    PROVE  /\ n >= 1 /\ n \in 1..n
           /\ i >= (newest - n) + 1 => (newest - i) + 1 \in 1..n /\ (newest - ((newest - i) + 1)) + 1 = i
  OBVIOUS

LEMMA PageCovers ==
    ASSUME NEW page, NEW newest \in Nat, Lists(page, newest), page \in Seq(Message),
           NEW i \in Nat, i >= 1, i <= newest
    PROVE  InPage(page, i) \/ (page # <<>> /\ i < page[Len(page)].id)
  <1> DEFINE n == Len(page)
             k == (newest - i) + 1
  <1>1. n \in Nat /\ DOMAIN page = 1..n /\ (n # 0 => page # <<>>)
    OBVIOUS
  <1>2. n <= newest /\ (n < PageSize => n = newest) /\ \A l \in 1..n : page[l].id = (newest - l) + 1
    BY DEF Lists
  <1> HIDE DEF n
  <1>3. n >= 1 /\ n \in 1..n /\ (i >= (newest - n) + 1 => k \in 1..n /\ (newest - k) + 1 = i)
    BY <1>1, <1>2, PageArithmetic, PageSizeAssumption
  <1>4. page # <<>> /\ page[n].id = (newest - n) + 1
    BY <1>1, <1>2, <1>3
  <1>5. CASE i >= (newest - n) + 1
    <2>1. k \in DOMAIN page /\ page[k].id = i
      BY <1>1, <1>2, <1>3, <1>5
    <2>2. QED BY <2>1 DEF InPage
  <1>6. CASE ~(i >= (newest - n) + 1)
    <2>1. i < page[n].id
      BY <1>1, <1>4, <1>6
    <2>2. QED BY <1>4, <2>1 DEF n
  <1>7. QED BY <1>5, <1>6

LEMMA PageEnds ==
    ASSUME NEW page, NEW newest, Lists(page, newest), page \in Seq(Message), rows \in Seq(RowRecord),
           Len(page) < PageSize
    PROVE  (page = <<>> /\ newest = 0) \/ (page # <<>> /\ page[Len(page)].id = 1)
  <1>1. /\ newest \in Nat /\ Len(page) \in Nat /\ Len(page) = newest
        /\ \A k \in 1..Len(page) : page[k].id = (newest - k) + 1
    BY DEF Lists
  <1>2. CASE newest = 0
    <2>1. Len(page) = 0
      BY <1>1, <1>2
    <2>2. page = <<>>
      BY <2>1
    <2>3. QED BY <1>2, <2>2
  <1>3. CASE newest # 0
    <2>1. Len(page) \in 1..Len(page) /\ page # <<>>
      BY <1>1, <1>3
    <2>2. page[Len(page)].id = (newest - Len(page)) + 1
      BY <1>1, <2>1
    <2>3. QED BY <1>1, <2>1, <2>2
  <1>4. QED BY <1>2, <1>3

LEMMA ResyncReads ==
    ASSUME RowsOK(rows), NEW r, ResyncOK(r, rows), r.page = Nil,
           NEW q, q = [r EXCEPT !.page = ListRoomMessages(r.cursor)]
    PROVE  ResyncOK(q, rows) /\ \A i \in DOMAIN rows : Brings(r, i) => Brings(q, i)
  <1> DEFINE page == ListRoomMessages(r.cursor)
             newest == NewestFor(r.cursor)
  <1>1. ServedPage(page, rows) /\ Lists(page, newest)
    BY Listed
  <1>2. q = [seen |-> r.seen, cursor |-> r.cursor, n |-> r.n, page |-> page, got |-> r.got]
    <2>1. r = [seen |-> r.seen, cursor |-> r.cursor, n |-> r.n, page |-> r.page, got |-> r.got]
      BY DEF ResyncOK
    <2>2. QED BY <2>1
  <1> HIDE DEF page
  <1>3. page \in Seq(Message) /\ page # Nil /\ rows \in Seq(RowRecord)
    BY <1>1, NamesAssumption DEF ServedPage, RowsOK
  <1>4. r.seen \in Nat /\ ServedPage(r.got, rows) /\ r.cursor = IF r.got = <<>> THEN Nil ELSE Low(r)
    BY DEF ResyncOK
  <1>5. DOMAIN rows = 1..Len(rows) /\ Len(rows) \in Nat /\ Nil \notin Nat
    BY <1>3, NamesAssumption
  <1>6. /\ r.got = <<>> => newest = Len(rows) /\ Low(r) = 0
        /\ r.got # <<>> => Low(r) \in DOMAIN rows /\ newest = Low(r) - 1 /\ Low(r) = r.got[Len(r.got)].id
    <2>1. CASE r.got = <<>>
      <3>1. Nil \notin DOMAIN rows
        BY <1>5
      <3>2. QED BY <1>4, <2>1, <3>1 DEF NewestFor, Low, LastRead
    <2>2. CASE r.got # <<>>
      <3>1. Low(r) = r.got[Len(r.got)].id
        BY <2>2 DEF Low, LastRead
      <3>2. Len(r.got) \in DOMAIN r.got
        BY <1>4, <2>2 DEF ServedPage
      <3>3. Low(r) \in DOMAIN rows
        BY <1>4, <3>1, <3>2 DEF ServedPage, Served, Fits
      <3>4. QED BY <1>4, <2>2, <3>1, <3>3 DEF NewestFor
    <2>3. QED BY <2>1, <2>2
  <1>7. Low(q) = IF page = <<>> THEN Low(r) ELSE page[Len(page)].id
    <2>1. LastRead(q) = IF page = <<>> THEN r.got ELSE page
      BY <1>2, <1>3 DEF LastRead
    <2>2. LastRead(r) = r.got
      BY DEF LastRead
    <2>3. QED BY <2>1, <2>2 DEF Low
  <1> HIDE DEF newest
  <1>8. ASSUME Len(page) < PageSize PROVE Low(q) <= 1
    <2>1. (page = <<>> /\ newest = 0) \/ (page # <<>> /\ page[Len(page)].id = 1)
      BY <1>1, <1>3, <1>8, PageEnds
    <2>2. CASE page # <<>> /\ page[Len(page)].id = 1
      BY <1>7, <2>2
    <2>3. CASE page = <<>> /\ newest = 0
      BY <1>5, <1>6, <1>7, <2>3
    <2>4. QED BY <2>1, <2>2, <2>3
  <1>9. ResyncOK(q, rows)
    BY <1>1, <1>2, <1>3, <1>4, <1>8 DEF ResyncOK
  <1>10. ASSUME NEW i \in DOMAIN rows, Brings(r, i) PROVE Brings(q, i)
    <2>1. CASE InPage(r.got, i)
      BY <1>2, <2>1 DEF Brings
    <2>2. CASE i \in 1..newest
      <3>0. newest \in Nat /\ i \in Nat /\ i >= 1 /\ i <= newest
        BY <1>1, <1>5, <2>2 DEF Lists
      <3>1. InPage(page, i) \/ (page # <<>> /\ i < page[Len(page)].id)
        BY <1>1, <1>3, <3>0, PageCovers
      <3>2. QED BY <1>2, <1>3, <1>7, <3>1 DEF Brings
    <2>3. CASE ~InPage(r.got, i)
      <3>1. r.got = <<>> \/ i < Low(r)
        BY <1>10, <2>3 DEF Brings
      <3>2. i \in 1..newest
        <4>1. CASE r.got = <<>>
          BY <1>5, <1>6, <4>1
        <4>2. CASE r.got # <<>>
          <5>1. i < Low(r) /\ newest = Low(r) - 1 /\ Low(r) \in Nat /\ i \in Nat /\ i >= 1
            BY <1>5, <1>6, <3>1, <4>2
          <5>2. QED BY <5>1
        <4>3. QED BY <4>1, <4>2
      <3>3. QED BY <2>2, <3>2
    <2>4. QED BY <2>1, <2>3
  <1>11. QED BY <1>9, <1>10

LEMMA ResyncReadKeeps ==
    ASSUME TabInv, NEW r \in resyncs, ResyncRead(r)
    PROVE  TabInv'
  <1>1. PICK q : /\ q = [r EXCEPT !.page = ListRoomMessages(r.cursor)] /\ r.page = Nil
                 /\ resyncs' = (resyncs \ {r}) \cup {q}
    BY DEF ResyncRead
  <1>2. UNCHANGED <<rows, keys, outgoing, up, wire, sock, data, fetch, posts, timers, mutation, sent, sentReads,
                    excused, revived, overlaid>>
    BY DEF ResyncRead, server, net, ghosts
  <1>3. ResyncOK(q, rows) /\ \A i \in DOMAIN rows : Brings(r, i) => Brings(q, i)
    BY <1>1, ResyncReads DEF TabInv
  <1>4. \A s \in resyncs' : ResyncOK(s, rows)
    BY <1>1, <1>3 DEF TabInv
  <1>5. ASSUME NEW i \in DOMAIN rows, Covered(i) PROVE Covered(i)'
    <2>1. CASE \E s \in resyncs : Brings(s, i)
      <3>1. \E s \in resyncs' : Brings(s, i)
        BY <1>1, <1>3, <2>1
      <3>2. QED BY <3>1 DEF Covered
    <2>2. CASE ~\E s \in resyncs : Brings(s, i)
      BY <1>2, <1>5, <2>2 DEF Covered, Coming
    <2>3. QED BY <2>1, <2>2
  <1>6. \A i \in DOMAIN rows : HeldId(Pages(data), i) \/ Covered(i)'
    BY <1>5 DEF TabInv, Accounted
  <1>7. QED BY <1>2, <1>4, <1>6, PastSame, QueryStepKeeps DEF TabInv, TabTypes

LEMMA ResyncFailsKeeps ==
    ASSUME TabInv, NEW r \in resyncs, ResyncFails(r)
    PROVE  TabInv'
  <1>1. /\ resyncs' = resyncs \ {r} /\ excused' = excused \cup Missing(data)
        /\ UNCHANGED <<rows, keys, outgoing, up, wire, sock, data, fetch, posts, timers, mutation, sent, sentReads,
                       revived, overlaid>>
    BY DEF ResyncFails, server, net, Excuse
  <1>2. \A i \in DOMAIN rows : HeldId(Pages(data), i) \/ i \in excused'
    BY <1>1, MissingIs
  <1>3. \A i \in DOMAIN rows : HeldId(Pages(data), i) \/ Covered(i)'
    BY <1>2 DEF Covered
  <1>4. excused' \subseteq DOMAIN rows
    BY <1>1, MissingIs DEF TabInv, TabTypes
  <1>5. QED BY <1>1, <1>3, <1>4, PastSame, QueryStepKeeps DEF TabInv

-----------------------------------------------------------------------------
(* Steps that write the cache. *)

DataKept ==
    \A i \in DOMAIN rows : HeldId(Pages(data), i) => HeldId(Pages(data'), i)

LEMMA CacheStepKeeps ==
    ASSUME TabInv, UNCHANGED <<rows, keys, outgoing, sent, sentReads, overlaid>>, GoodCache(Pages(data'), rows, Past),
           EventsOK', FramesOK', \A p \in posts' : PostOK(p, rows),
           FetchOK(fetch', rows, Past), MutationOK(mutation', rows, Past),
           \A r \in resyncs' : ResyncOK(r, rows), timers' \in [Nonces -> Nat], excused' \subseteq DOMAIN rows,
           \A i \in DOMAIN rows : HeldId(Pages(data'), i) \/ Covered(i)', Watched'
    PROVE  TabInv'
  <1>1. TabTypes' /\ Accounted'
    BY DEF TabInv, TabTypes, Accounted
  <1>2. QED BY <1>1, PastSame DEF TabInv

LEMMA MergeGives ==
    ASSUME Merges(Pages(data), Pages(data'), rows)
    PROVE  DataKept /\ \A c \in Nonces : Sending(Pages(data'), c) => Sending(Pages(data), c)
  <1>1. DataKept
    BY DEF Merges, DataKept
  <1>2. ASSUME NEW c \in Nonces, NEW D, NEW E, Merges(D, E, rows), Sending(E, c) PROVE Sending(D, c)
    <2>1. PICK p \in DOMAIN E : \E k \in DOMAIN E[p] : E[p][k].id = c /\ E[p][k].status = "sending"
      BY <1>2 DEF Sending
    <2>2. PICK k \in DOMAIN E[p] : E[p][k].id = c /\ E[p][k].status = "sending"
      BY <2>1
    <2>3. BubbleOf(D, E[p][k])
      BY <1>2, <2>2 DEF Merges
    <2>4. QED BY <2>2, <2>3 DEF BubbleOf, Sending
  <1>3. QED BY <1>1, <1>2

LEMMA PatchGives ==
    ASSUME TabInv, NEW j, PatchedAt(Pages(data), Pages(data'), j)
    PROVE  /\ GoodCache(Pages(data'), rows, Past) /\ DataKept
           /\ \A c \in Nonces : c # j /\ Sending(Pages(data'), c) => Sending(Pages(data), c)
  <1>1. GoodCache(Pages(data), rows, Past) /\ rows \in Seq(RowRecord)
    BY DEF TabInv, RowsOK
  <1>2. /\ GoodCache(Pages(data'), rows, Past)
        /\ \A i \in DOMAIN rows : HeldId(Pages(data), i) => HeldId(Pages(data'), i)
    BY <1>1, PatchKeeps
  <1>3. ASSUME NEW c \in Nonces, c # j, NEW D, NEW E, PatchedAt(D, E, j), Sending(E, c) PROVE Sending(D, c)
    <2>1. \A p \in DOMAIN E : \A k \in DOMAIN E[p] :
             p \in DOMAIN D /\ k \in DOMAIN D[p] /\ E[p][k].id = D[p][k].id /\ (D[p][k].id # j => E[p][k] = D[p][k])
      BY <1>3 DEF PatchedAt, PatchOf
    <2>2. QED BY <1>3, <2>1 DEF Sending
  <1>4. QED BY <1>2, <1>3 DEF DataKept

(* A cache that keeps its rows still accounts for all. *)
LEMMA KeptIsCovered ==
    ASSUME TabInv, DataKept, UNCHANGED <<rows, outgoing, wire, sock, resyncs>>, excused \subseteq excused'
    PROVE  \A i \in DOMAIN rows : HeldId(Pages(data'), i) \/ Covered(i)'
  <1>1. \A i \in DOMAIN rows : HeldId(Pages(data), i) \/ Covered(i)'
    BY CoveredStays
  <1>2. QED BY <1>1 DEF DataKept

LEMMA ReceiveKeeps ==
    ASSUME TabInv, Receive
    PROVE  TabInv' /\ DataKept
  <1> DEFINE e == Head(wire)
             inc == [message |-> wsMessageToChat(e), nonce |-> e.nonce]
  <1>1. /\ wire # <<>> /\ wire' = Tail(wire)
        /\ excused' = excused \cup (IF e.type = "message.new" /\ data = Nil THEN {e.id} ELSE {})
        /\ UNCHANGED <<rows, keys, outgoing, up, sock, fetch, resyncs, posts, timers, mutation, sent, sentReads, revived, overlaid>>
    BY DEF Receive, Excuse, server
  <1>2. /\ e.type = "message.new" /\ data = Nil => data' = Nil
        /\ e.type = "message.new" /\ data # Nil => data' = upsertMessages(data, <<inc>>, Me)
        /\ e.type = "message.read_by" => data' = addReadReceipt(data, e.id, e.user)
        /\ e.type = "message.reaction" => data' = applyReaction(data, e.id, e.user, e.content)
        /\ e.type = "message.edited" => data' = applyEdit(data, e.id, e.content)
        /\ e.type = "message.deleted" => data' = markDeleted(data, e.id)
    BY DEF Receive
  <1>3. RowsOK(rows) /\ rows \in Seq(RowRecord) /\ GoodCache(Pages(data), rows, Past) /\ EventsOK
    BY DEF TabInv, RowsOK
  <1>4. wire' \in Seq(EventRecord) /\ ToSet(wire) = ToSet(wire') \cup {e}
    BY <1>1, <1>3, SetOfTail DEF EventsOK
  <1>5. EventOK(e, rows) /\ e \in EventRecord /\ e.id \in DOMAIN rows /\ e.id \in 1..MaxRows /\ e.user \in {Me, Peer}
    <2>1. EventOK(e, rows)
      BY <1>3, <1>4 DEF EventsOK
    <2>2. e \in EventRecord /\ e.id \in DOMAIN rows
      BY <2>1 DEF EventOK
    <2>3. QED BY <2>1, <2>2 DEF EventRecord
  <1>6. EventsOK'
    BY <1>1, <1>3, <1>4 DEF EventsOK
  <1> HIDE DEF e
  <1>7. e.id \notin Nonces /\ Pages(data) \in Seq(Seq(Message))
    BY <1>3, <1>5, RowIdsAreNot DEF GoodCache, Shape
  <1>8. /\ GoodCache(Pages(data'), rows, Past) /\ DataKept
        /\ \A c \in Nonces : Sending(Pages(data'), c) => Sending(Pages(data), c)
        /\ e.type = "message.new" => HeldId(Pages(data'), e.id) \/ e.id \in excused'
    <2>1. CASE e.type = "message.new" /\ data = Nil
      <3>1. Pages(data') = Pages(data) /\ e.id \in excused'
        BY <1>1, <1>2, <2>1
      <3>2. QED BY <1>3, <3>1 DEF DataKept
    <2>2. CASE e.type = "message.new" /\ data # Nil
      <3>1. /\ inc.nonce = e.nonce /\ inc.message.id = e.id /\ inc.message.user = e.user
            /\ inc.message.content = e.content /\ inc.message.status = "none"
            /\ inc.message = [id |-> e.id, user |-> e.user, content |-> e.content,
                              status |-> "none", read_by |-> {}, reactions |-> {}]
        BY DEF wsMessageToChat
      <3>2. /\ e.nonce = rows[e.id].nonce /\ e.user = rows[e.id].user
            /\ e.content \in {Me, Peer} \cup Texts /\ TextFits(e.content, e.nonce)
        BY <1>5, <2>2 DEF EventOK
      <3>3. inc.message \in Message
        BY <1>5, <3>1, <3>2 DEF Message
      <3>4. data' = upsertMessages(data, <<inc>>, Me)
        BY <1>2, <2>2
      <3> HIDE DEF inc
      <3>5. RowInc(inc, rows)
        BY <1>3, <1>5, <1>7, <3>1, <3>2, <3>3 DEF RowInc, Served, Fits, Confirmed, RowsOK
      <3>6. /\ Pages(data') = data' /\ GoodCache(data', rows, Past)
            /\ Merges(Pages(data), data', rows) /\ HeldId(data', inc.message.id)
        BY <1>3, <3>4, <3>5, UpsertRow
      <3>7. QED BY <3>1, <3>6, MergeGives
    <2>3. CASE e.type # "message.new"
      <3>1. e.type \in {"message.read_by", "message.reaction", "message.edited", "message.deleted"}
        BY <1>5, <2>3 DEF EventRecord
      <3>2. PatchedAt(Pages(data), Pages(data'), e.id)
        <4>1. CASE e.type = "message.read_by"
          BY <1>2, <1>5, <1>7, <4>1, ReadIs
        <4>2. CASE e.type = "message.reaction"
          BY <1>2, <1>5, <1>7, <4>2, ReactionIs
        <4>3. CASE e.type = "message.edited"
          <5>1. e.content = Edited
            BY <1>5, <4>3 DEF EventOK
          <5>2. QED BY <1>2, <1>7, <4>3, <5>1, EditIs
        <4>4. CASE e.type = "message.deleted"
          BY <1>2, <1>7, <4>4, DeletedIs
        <4>5. QED BY <3>1, <4>1, <4>2, <4>3, <4>4
      <3>3. /\ GoodCache(Pages(data'), rows, Past) /\ DataKept
            /\ \A c \in Nonces : c # e.id /\ Sending(Pages(data'), c) => Sending(Pages(data), c)
        BY <3>2, PatchGives
      <3>4. QED BY <1>7, <2>3, <3>3
    <2>4. QED BY <2>1, <2>2, <2>3
  <1>9. ASSUME NEW i \in DOMAIN rows, Covered(i) PROVE HeldId(Pages(data'), i) \/ Covered(i)'
    <2>1. CASE ~Coming(i)
      BY <1>1, <1>9, <2>1 DEF Covered
    <2>2. CASE Coming(i)
      <3>1. PICK x \in outgoing \cup ToSet(wire) : x.type = "message.new" /\ x.id = i
        BY <2>2 DEF Coming
      <3>2. CASE x = e
        BY <1>8, <3>1, <3>2 DEF Covered
      <3>3. CASE x # e
        BY <1>1, <1>4, <3>1, <3>3 DEF Covered, Coming
      <3>4. QED BY <3>2, <3>3
    <2>3. QED BY <2>1, <2>2
  <1>10. \A i \in DOMAIN rows : HeldId(Pages(data'), i) \/ Covered(i)'
    BY <1>8, <1>9 DEF TabInv, Accounted, DataKept
  <1>11. Watched'
    BY <1>1, <1>8 DEF TabInv, Watched
  <1>12. FramesOK'
    BY <1>1 DEF TabInv, FramesOK
  <1>13. excused' \subseteq DOMAIN rows
    BY <1>1, <1>5 DEF TabInv, TabTypes
  <1>14. TabInv'
    BY <1>1, <1>6, <1>8, <1>10, <1>11, <1>12, <1>13, CacheStepKeeps DEF TabInv, TabTypes
  <1>15. QED BY <1>8, <1>14

(* A write of the whole cache. *)
LEMMA WholeWriteGives ==
    ASSUME TabInv, NEW new, WholeWrite(new), GoodCache(Pages(new), rows, Past),
           UNCHANGED <<rows, outgoing, wire, posts, timers>>
    PROVE  /\ data' = new /\ overlaid' = overlaid /\ excused' \subseteq DOMAIN rows /\ Watched'
           /\ \A i \in DOMAIN rows : HeldId(Pages(data'), i) \/ Covered(i)'
  <1>1. /\ data' = new /\ overlaid' = overlaid /\ excused' = {i \in Missing(new) : ~Coming(i)}
        /\ revived' = revived \cup {c \in Nonces : /\ findMessage(new, c) # Nil
                                                   /\ findMessage(new, c) # findMessage(data, c)}
    BY DEF WholeWrite
  <1>2. rows \in Seq(RowRecord) /\ GoodCache(Pages(data), rows, Past)
    BY DEF TabInv, RowsOK
  <1>3. \A i \in DOMAIN rows : i \in Missing(new) <=> ~HeldId(Pages(new), i)
    BY <1>2, ConfirmedIs DEF Missing
  <1>4. Missing(new) \subseteq DOMAIN rows
    BY DEF Missing
  <1>5. \A i \in DOMAIN rows : Coming(i) => Coming(i)'
    BY DEF Coming
  <1>6. \A i \in DOMAIN rows : HeldId(Pages(data'), i) \/ Covered(i)'
    BY <1>1, <1>3, <1>5 DEF Covered
  <1>7. ASSUME NEW c \in Nonces, Sending(Pages(new), c)
        PROVE  timers[c] > 0 \/ (\E p \in posts : p.nonce = c) \/ c \in revived'
    <2>1. findMessage(new, c) = "sending" /\ findMessage(new, c) # Nil
      BY <1>7, StatusIs, NamesAssumption
    <2>2. CASE findMessage(data, c) = "sending"
      <3>1. Sending(Pages(data), c)
        BY <1>2, <2>2, StatusIs
      <3>2. QED BY <1>1, <3>1 DEF TabInv, Watched
    <2>3. CASE findMessage(data, c) # "sending"
      BY <1>1, <2>1, <2>3
    <2>4. QED BY <2>2, <2>3
  <1>8. Watched'
    BY <1>1, <1>7 DEF Watched
  <1>9. QED BY <1>1, <1>4, <1>6, <1>8

LEMMA FetchDoneKeeps ==
    ASSUME TabInv, FetchDone
    PROVE  TabInv' /\ WholeCacheStep
  <1> DEFINE new == fetch.old \o fetch.pages
  <1>1. /\ fetch # Nil /\ fetch.pages # Nil /\ fetch' = Nil /\ WholeWrite(new)
        /\ UNCHANGED <<rows, keys, outgoing, up, wire, sock, resyncs, posts, timers, mutation, sent, sentReads>>
    BY DEF FetchDone, server, net
  <1>2. rows \in Seq(RowRecord) /\ FetchOK(fetch, rows, Past)
    BY DEF TabInv, RowsOK
  <1>3. fetch.pages \in Seq(Seq(Message)) /\ \A p \in DOMAIN fetch.pages : ServedPage(fetch.pages[p], rows)
    BY <1>1, <1>2 DEF FetchOK
  <1>4. GoodCache(new, rows, Past)
    <2>1. GoodCache(fetch.old, rows, Past)
      <3>1. CASE fetch.old = <<>>
        BY <3>1, NoPages, PastIs
      <3>2. CASE fetch.old # <<>>
        BY <1>1, <1>2, <3>2 DEF FetchOK
      <3>3. QED BY <3>1, <3>2
    <2>2. ASSUME NEW t \in Texts \ Past[1], BubblesOf(fetch.old, t) # {},
                 NEW p \in DOMAIN fetch.pages, NEW k \in DOMAIN fetch.pages[p],
                 rows[fetch.pages[p][k].id].nonce \in Nonces
          PROVE  TextOf[rows[fetch.pages[p][k].id].nonce] # t
      <3>1. fetch.old # <<>>
        BY <2>2 DEF BubblesOf, HeldId
      <3>2. NoneBelow(rows, fetch.cursor, t)
        BY <1>1, <1>2, <2>2, <3>1 DEF FetchOK
      <3>3. fetch.cursor \in DOMAIN rows
        BY <3>2 DEF NoneBelow
      <3>4. fetch.pages[p][k].id < fetch.cursor
        BY <1>1, <1>2, <3>1, <3>3 DEF FetchOK
      <3>5. fetch.pages[p][k].id \in DOMAIN rows
        BY <1>3 DEF ServedPage, Served, Fits
      <3>6. fetch.pages[p][k].id \in 1..(fetch.cursor - 1)
        BY <1>2, <3>3, <3>4, <3>5
      <3>7. QED BY <2>2, <3>2, <3>6 DEF NoneBelow
    <2>3. QED BY <1>2, <1>3, <2>1, <2>2, Joined
  <1> HIDE DEF new
  <1>5. Pages(new) = new
    BY <1>4, PagesOfCache DEF GoodCache, Shape
  <1>6. /\ data' = new /\ overlaid' = overlaid /\ excused' \subseteq DOMAIN rows /\ Watched'
        /\ \A i \in DOMAIN rows : HeldId(Pages(data'), i) \/ Covered(i)'
    BY <1>1, <1>4, <1>5, WholeWriteGives
  <1>7. EventsOK' /\ FramesOK'
    BY <1>1 DEF TabInv, EventsOK, FramesOK
  <1>8. FetchOK(fetch', rows, Past)
    BY <1>1 DEF FetchOK
  <1>9. GoodCache(Pages(data'), rows, Past)
    BY <1>4, <1>5, <1>6
  <1>10. TabInv'
    BY <1>1, <1>6, <1>7, <1>8, <1>9, CacheStepKeeps DEF TabInv, TabTypes
  <1>11. QED BY <1>1, <1>10 DEF WholeCacheStep

LEMMA MutationAnsweredKeeps ==
    ASSUME TabInv, MutationAnswered
    PROVE  TabInv' /\ WholeCacheStep
  <1>1. /\ mutation # Nil /\ mutation' = Nil
        /\ UNCHANGED <<rows, keys, outgoing, up, wire, sock, fetch, resyncs, posts, timers, sent, sentReads>>
    BY DEF MutationAnswered, server, net
  <1>2. rows \in Seq(RowRecord) /\ MutationOK(mutation, rows, Past) /\ GoodCache(Pages(data), rows, Past)
    BY DEF TabInv, RowsOK
  <1>3. mutation.id \in DOMAIN rows /\ mutation.id \notin Nonces /\ GoodCache(Pages(mutation.prev), rows, Past)
    BY <1>1, <1>2, RowIdsAreNot DEF MutationOK
  <1>4. EventsOK' /\ FramesOK'
    BY <1>1 DEF TabInv, EventsOK, FramesOK
  <1>5. MutationOK(mutation', rows, Past)
    BY <1>1 DEF MutationOK
  <1>6. CASE WholeWrite(mutation.prev)
    <2>1. /\ data' = mutation.prev /\ overlaid' = overlaid /\ excused' \subseteq DOMAIN rows /\ Watched'
          /\ \A i \in DOMAIN rows : HeldId(Pages(data'), i) \/ Covered(i)'
      BY <1>1, <1>3, <1>6, WholeWriteGives
    <2>2. TabInv'
      BY <1>1, <1>3, <1>4, <1>5, <2>1, CacheStepKeeps DEF TabInv, TabTypes
    <2>3. QED BY <1>1, <2>2 DEF WholeCacheStep
  <1>7. CASE /\ data' = IF mutation.kind = "edit" THEN applyEdit(data, mutation.id, Edited) ELSE data
             /\ UNCHANGED ghosts
    <2>1. /\ GoodCache(Pages(data'), rows, Past) /\ DataKept
          /\ \A c \in Nonces : Sending(Pages(data'), c) => Sending(Pages(data), c)
      <3>1. CASE mutation.kind = "edit"
        <4>1. data' = applyEdit(data, mutation.id, Edited) /\ Pages(data) \in Seq(Seq(Message))
          BY <1>2, <1>7, <3>1 DEF GoodCache, Shape
        <4>2. PatchedAt(Pages(data), Pages(data'), mutation.id)
          BY <1>3, <4>1, EditIs
        <4>3. QED BY <1>3, <4>2, PatchGives
      <3>2. CASE mutation.kind # "edit"
        BY <1>2, <1>7, <3>2 DEF DataKept
      <3>3. QED BY <3>1, <3>2
    <2>2. UNCHANGED <<excused, revived, overlaid>>
      BY <1>7 DEF ghosts
    <2>3. Watched'
      BY <1>1, <2>1, <2>2 DEF TabInv, Watched
    <2>4. \A i \in DOMAIN rows : HeldId(Pages(data'), i) \/ Covered(i)'
      BY <1>1, <2>1, <2>2, KeptIsCovered
    <2>5. TabInv'
      BY <1>1, <1>4, <1>5, <2>1, <2>2, <2>3, <2>4, CacheStepKeeps DEF TabInv, TabTypes
    <2>6. QED BY <1>1, <2>5 DEF WholeCacheStep
  <1>8. QED BY <1>6, <1>7 DEF MutationAnswered

(* A bubble is that of a send that was made. *)
LEMMA BubbleWasSent ==
    ASSUME NEW R, NEW w, NEW D, GoodCache(D, R, w), NEW c \in Nonces, HeldId(D, c)
    PROVE  c \in w[2]
  <1>1. TextOf[c] \in Texts /\ c \in BubblesOf(D, TextOf[c])
    BY DEF BubblesOf, Texts
  <1>2. Tally(BubblesOf(D, TextOf[c]), ShownOf(D, R, TextOf[c]), SentOf(w, TextOf[c]), TextOf[c], w[1])
    BY <1>1 DEF GoodCache, Counted
  <1>3. QED BY <1>1, <1>2 DEF Tally, SentOf

LEMMA SendGives ==
    ASSUME TabInv, ServerInv, NEW c \in Nonces, performSend(c), UNCHANGED rows, c \in sent', sent \subseteq sent'
    PROVE  /\ FramesOK' /\ timers' \in [Nonces -> Nat] /\ \A p \in posts' : PostOK(p, rows)
           /\ \A b \in Nonces : timers[b] > 0 \/ (\E p \in posts : p.nonce = b)
                                => timers'[b] > 0 \/ (\E p \in posts' : p.nonce = b)
           /\ timers'[c] > 0 \/ (\E p \in posts' : p.nonce = c)
  <1>1. timers \in [Nonces -> Nat] /\ FramesOK /\ up \in Seq(FrameRecord) /\ \A p \in posts : PostOK(p, rows)
    BY DEF TabInv, TabTypes, ServerInv, ServerTypes
  <1>2. CASE sock = "open"
    <2>1. /\ up' = Append(up, [type |-> "message.send", nonce |-> c])
          /\ timers' = [timers EXCEPT ![c] = @ + 1] /\ posts' = posts
      BY <1>2 DEF performSend
    <2>2. timers' \in [Nonces -> Nat] /\ timers'[c] > 0 /\ \A b \in Nonces : timers[b] > 0 => timers'[b] > 0
      BY <1>1, <2>1
    <2>3. \A k \in DOMAIN up' : (k \in DOMAIN up /\ up'[k] = up[k]) \/ up'[k] = [type |-> "message.send", nonce |-> c]
      BY <1>1, <2>1
    <2>4. FramesOK'
      BY <1>1, <2>1, <2>3 DEF FramesOK
    <2>5. QED BY <1>1, <2>1, <2>2, <2>4
  <1>3. CASE sock # "open"
    <2>1. /\ posts' = posts \cup {[nonce |-> c, st |-> "sent", row |-> Nil]} /\ up' = up /\ timers' = timers
      BY <1>3 DEF performSend
    <2>2. PostOK([nonce |-> c, st |-> "sent", row |-> Nil], rows)
      BY DEF PostOK
    <2>3. FramesOK'
      BY <1>1, <2>1 DEF FramesOK
    <2>4. QED BY <1>1, <2>1, <2>2, <2>3
  <1>4. QED BY <1>2, <1>3

LEMMA SendTab ==
    ASSUME TabInv, ServerInv, NEW c \in Nonces, Send(c)
    PROVE  TabInv' /\ DataKept
  <1>1. /\ c \notin sent /\ sent' = sent \cup {c} /\ performSend(c)
        /\ data' = upsertMessages(data, <<[message |-> Optimistic(c, Me, TextOf[c]), nonce |-> Nil]>>, Me)
        /\ UNCHANGED <<rows, keys, outgoing, wire, sock, fetch, resyncs, mutation, sentReads, excused, revived, overlaid>>
    BY DEF Send, server, ghosts
  <1>2. /\ rows \in Seq(RowRecord) /\ GoodCache(Pages(data), rows, Past) /\ FetchOK(fetch, rows, Past)
        /\ MutationOK(mutation, rows, Past)
    BY DEF TabInv, RowsOK
  <1>3. PICK x : x = Past'
    OBVIOUS
  <1>3a. x[1] = Past[1] /\ x[2] = Past[2] \cup {c} /\ c \notin Past[2]
    BY <1>1, <1>3 DEF Past
  <1>4. /\ Pages(data') = data' /\ GoodCache(data', rows, x)
        /\ \A i : HeldId(Pages(data), i) => HeldId(data', i)
        /\ \A p \in DOMAIN data' : \A k \in DOMAIN data'[p] : data'[p][k].id = c \/ BubbleOf(Pages(data), data'[p][k])
    BY <1>1, <1>2, <1>3a, UpsertBubble
  <1>4a. FetchOK(fetch, rows, x) /\ MutationOK(mutation, rows, x)
    <2>1. PastGrows(Past, x) /\ Ledger(rows, x)
      BY <1>3a, <1>4 DEF PastGrows, GoodCache, Counted
    <2>2. QED BY <1>2, <2>1, RowsGrowSame, FetchEndures, MutationEndures
  <1>5. DataKept
    BY <1>4 DEF DataKept
  <1>7. /\ FramesOK' /\ timers' \in [Nonces -> Nat] /\ \A p \in posts' : PostOK(p, rows)
        /\ \A b \in Nonces : timers[b] > 0 \/ (\E p \in posts : p.nonce = b)
                             => timers'[b] > 0 \/ (\E p \in posts' : p.nonce = b)
        /\ timers'[c] > 0 \/ (\E p \in posts' : p.nonce = c)
    <2>1. c \in sent' /\ sent \subseteq sent'
      BY <1>1
    <2>2. QED BY <1>1, <2>1, SendGives
  <1>8. ASSUME NEW b \in Nonces, b # c, Sending(data', b) PROVE Sending(Pages(data), b)
    <2>1. PICK p \in DOMAIN data' : \E k \in DOMAIN data'[p] : data'[p][k].id = b /\ data'[p][k].status = "sending"
      BY <1>8 DEF Sending
    <2>2. PICK k \in DOMAIN data'[p] : data'[p][k].id = b /\ data'[p][k].status = "sending"
      BY <2>1
    <2>3. BubbleOf(Pages(data), data'[p][k])
      BY <1>4, <1>8, <2>2
    <2>4. QED BY <2>2, <2>3 DEF BubbleOf, Sending
  <1>9. Watched'
    <2> SUFFICES ASSUME NEW b \in Nonces, Sending(data', b)
                 PROVE  timers'[b] > 0 \/ (\E p \in posts' : p.nonce = b) \/ b \in revived'
      BY <1>4 DEF Watched
    <2>1. CASE b = c
      BY <1>7, <2>1
    <2>2. CASE b # c
      <3>1. Sending(Pages(data), b)
        BY <1>8, <2>2
      <3>2. timers[b] > 0 \/ (\E p \in posts : p.nonce = b) \/ b \in revived
        BY <3>1 DEF TabInv, Watched
      <3>3. QED BY <1>1, <1>7, <3>2
    <2>3. QED BY <2>1, <2>2
  <1>10. EventsOK'
    BY <1>1 DEF TabInv, EventsOK
  <1>11. \A i \in DOMAIN rows : HeldId(Pages(data'), i) \/ Covered(i)'
    BY <1>1, <1>5, KeptIsCovered
  <1>12. TabInv'
    <2>1. TabTypes' /\ Accounted'
      BY <1>1, <1>7, <1>11 DEF TabInv, TabTypes, Accounted
    <2>2. \A r \in resyncs' : ResyncOK(r, rows')
      BY <1>1 DEF TabInv
    <2>3. RowsOK(rows') /\ GoodCache(Pages(data'), rows', Past') /\ FetchOK(fetch', rows', Past')
          /\ MutationOK(mutation', rows', Past') /\ \A p \in posts' : PostOK(p, rows')
      BY <1>1, <1>3, <1>4, <1>4a, <1>7 DEF TabInv
    <2>4. QED BY <1>7, <1>9, <1>10, <2>1, <2>2, <2>3 DEF TabInv
  <1>13. QED BY <1>5, <1>12

LEMMA RetryTab ==
    ASSUME TabInv, ServerInv, NEW c \in Nonces, Retry(c)
    PROVE  TabInv' /\ DataKept
  <1>1. /\ performSend(c) /\ data' = markSending(data, c) /\ findMessage(data, c) = "failed"
        /\ UNCHANGED <<rows, keys, outgoing, wire, sock, fetch, resyncs, mutation, sent, sentReads, excused, revived, overlaid>>
    BY DEF Retry, server, ghosts
  <1>2. Pages(data) \in Seq(Seq(Message))
    BY DEF TabInv, GoodCache, Shape
  <1>3. PatchedAt(Pages(data), Pages(data'), c)
    BY <1>1, <1>2, SendingIs
  <1>4. /\ GoodCache(Pages(data'), rows, Past) /\ DataKept
        /\ \A b \in Nonces : b # c /\ Sending(Pages(data'), b) => Sending(Pages(data), b)
    BY <1>3, PatchGives
  <1>5. /\ FramesOK' /\ timers' \in [Nonces -> Nat] /\ \A p \in posts' : PostOK(p, rows)
        /\ \A b \in Nonces : timers[b] > 0 \/ (\E p \in posts : p.nonce = b)
                             => timers'[b] > 0 \/ (\E p \in posts' : p.nonce = b)
        /\ timers'[c] > 0 \/ (\E p \in posts' : p.nonce = c)
    <2>1. HeldId(Pages(data), c)
      BY <1>1, StatusIs, NamesAssumption DEF TabInv
    <2>2. c \in sent
      BY <2>1, BubbleWasSent, PastIs DEF TabInv
    <2>3. QED BY <1>1, <2>2, SendGives
  <1>6. Watched'
    <2> SUFFICES ASSUME NEW b \in Nonces, Sending(Pages(data'), b)
                 PROVE  timers'[b] > 0 \/ (\E p \in posts' : p.nonce = b) \/ b \in revived'
      BY DEF Watched
    <2>1. CASE b = c
      BY <1>5, <2>1
    <2>2. CASE b # c
      <3>1. timers[b] > 0 \/ (\E p \in posts : p.nonce = b) \/ b \in revived
        BY <1>4, <2>2 DEF TabInv, Watched
      <3>2. QED BY <1>1, <1>5, <3>1
    <2>3. QED BY <2>1, <2>2
  <1>7. EventsOK'
    BY <1>1 DEF TabInv, EventsOK
  <1>8. \A i \in DOMAIN rows : HeldId(Pages(data'), i) \/ Covered(i)'
    BY <1>1, <1>4, KeptIsCovered
  <1>9. TabInv'
    BY <1>1, <1>4, <1>5, <1>6, <1>7, <1>8, CacheStepKeeps DEF TabInv, TabTypes
  <1>10. QED BY <1>4, <1>9

LEMMA AckTimeoutTab ==
    ASSUME TabInv, NEW c \in Nonces, AckTimeout(c)
    PROVE  TabInv' /\ DataKept
  <1>1. /\ timers[c] > 0 /\ timers' = [timers EXCEPT ![c] = @ - 1] /\ data' = markFailed(data, c)
        /\ UNCHANGED <<rows, keys, outgoing, up, wire, sock, fetch, resyncs, posts, mutation, sent, sentReads,
                       excused, revived, overlaid>>
    BY DEF AckTimeout, server, net, ghosts
  <1>2. Pages(data) \in Seq(Seq(Message)) /\ timers \in [Nonces -> Nat]
    BY DEF TabInv, GoodCache, Shape, TabTypes
  <1>3. /\ PatchedAt(Pages(data), Pages(data'), c)
        /\ \A p \in DOMAIN Pages(data') : \A k \in DOMAIN Pages(data')[p] :
              Pages(data')[p][k].id = c => Pages(data')[p][k].status # "sending"
    BY <1>1, <1>2, FailedIs
  <1>4. /\ GoodCache(Pages(data'), rows, Past) /\ DataKept
        /\ \A b \in Nonces : b # c /\ Sending(Pages(data'), b) => Sending(Pages(data), b)
    BY <1>3, PatchGives
  <1>5. ~Sending(Pages(data'), c)
    BY <1>3 DEF Sending
  <1>6. timers' \in [Nonces -> Nat] /\ \A b \in Nonces : b # c => timers'[b] = timers[b]
    BY <1>1, <1>2
  <1>7. Watched'
    BY <1>1, <1>4, <1>5, <1>6 DEF TabInv, Watched
  <1>8. EventsOK' /\ FramesOK'
    BY <1>1 DEF TabInv, EventsOK, FramesOK
  <1>9. \A i \in DOMAIN rows : HeldId(Pages(data'), i) \/ Covered(i)'
    BY <1>1, <1>4, KeptIsCovered
  <1>10. TabInv'
    BY <1>1, <1>4, <1>6, <1>7, <1>8, <1>9, CacheStepKeeps DEF TabInv, TabTypes
  <1>11. QED BY <1>4, <1>10

LEMMA PostAnsweredTab ==
    ASSUME TabInv, ServerInv, NEW p \in posts, PostAnswered(p)
    PROVE  TabInv' /\ DataKept
  <1> DEFINE m == [Optimistic(p.row, Me, TextOf[p.nonce]) EXCEPT !.status = "none"]
             inc == [message |-> m, nonce |-> p.nonce]
  <1>1. /\ posts' = posts \ {p}
        /\ UNCHANGED <<rows, keys, outgoing, up, wire, sock, fetch, resyncs, timers, mutation, sent, sentReads,
                       excused, revived, overlaid>>
    BY DEF PostAnswered, server, net, ghosts
  <1>2. \/ p.st = "created" /\ data' = upsertMessages(data, <<inc>>, Me)
        \/ data' = markFailed(data, p.nonce)
    BY DEF PostAnswered
  <1>3. /\ RowsOK(rows) /\ rows \in Seq(RowRecord) /\ GoodCache(Pages(data), rows, Past) /\ PostOK(p, rows)
        /\ p.nonce \in Nonces
    BY DEF TabInv, RowsOK, ServerInv, ServerTypes, PostRecord
  <1>4. /\ GoodCache(Pages(data'), rows, Past) /\ DataKept
        /\ \A b \in Nonces : b # p.nonce /\ Sending(Pages(data'), b) => Sending(Pages(data), b)
        /\ ~Sending(Pages(data'), p.nonce)
    <2>1. CASE p.st = "created" /\ data' = upsertMessages(data, <<inc>>, Me)
      <3>1. p.row \in DOMAIN rows /\ rows[p.row].nonce = p.nonce /\ rows[p.row].user = Me
        BY <1>3, <2>1 DEF PostOK
      <3>2. m = [id |-> p.row, user |-> Me, content |-> TextOf[p.nonce], status |-> "none", read_by |-> {}, reactions |-> {}]
        BY DEF Optimistic
      <3>3. p.row \in 1..MaxRows /\ p.row \notin Nonces
        BY <1>3, <3>1, RowIdsAreNot, MessagesAssumption DEF RowsOK
      <3>4. m \in Message
        BY <1>3, <3>2, <3>3 DEF Message, Texts
      <3> HIDE DEF m
      <3>5. inc.message = m /\ inc.nonce = p.nonce
        OBVIOUS
      <3> HIDE DEF inc
      <3>6. RowInc(inc, rows)
        <4>1. m.id = p.row /\ m.user = Me /\ m.content = TextOf[p.nonce] /\ m.status = "none"
          BY <3>2
        <4>2. Confirmed(m) /\ TextFits(m.content, rows[m.id].nonce)
          BY <1>3, <3>1, <4>1 DEF Confirmed, TextFits
        <4>3. Fits(m, rows) /\ m.id \notin Nonces
          BY <3>1, <3>3, <3>4, <4>1, <4>2 DEF Fits
        <4>4. Served(m, rows)
          BY <4>1, <4>3 DEF Served
        <4>5. inc.nonce = rows[m.id].nonce
          BY <3>1, <3>5, <4>1
        <4>6. QED BY <3>5, <4>4, <4>5 DEF RowInc
      <3>7. /\ Pages(data') = data' /\ GoodCache(data', rows, Past) /\ Merges(Pages(data), data', rows)
            /\ ~HeldId(data', p.nonce)
        BY <1>3, <2>1, <3>5, <3>6, UpsertRow
      <3>8. ~Sending(data', p.nonce)
        BY <3>7 DEF Sending, HeldId
      <3>9. QED BY <3>7, <3>8, MergeGives
    <2>2. CASE data' = markFailed(data, p.nonce)
      <3>1. Pages(data) \in Seq(Seq(Message))
        BY <1>3 DEF GoodCache, Shape
      <3>2. /\ PatchedAt(Pages(data), Pages(data'), p.nonce)
            /\ \A q \in DOMAIN Pages(data') : \A k \in DOMAIN Pages(data')[q] :
                  Pages(data')[q][k].id = p.nonce => Pages(data')[q][k].status # "sending"
        BY <1>3, <2>2, <3>1, FailedIs
      <3>3. ~Sending(Pages(data'), p.nonce)
        BY <3>2 DEF Sending
      <3>4. QED BY <3>2, <3>3, PatchGives
    <2>3. QED BY <1>2, <2>1, <2>2
  <1>5. Watched'
    <2> SUFFICES ASSUME NEW b \in Nonces, Sending(Pages(data'), b)
                 PROVE  timers'[b] > 0 \/ (\E q \in posts' : q.nonce = b) \/ b \in revived'
      BY DEF Watched
    <2>1. b # p.nonce
      BY <1>4
    <2>2. timers[b] > 0 \/ (\E q \in posts : q.nonce = b) \/ b \in revived
      BY <1>4, <2>1 DEF TabInv, Watched
    <2>3. QED BY <1>1, <2>1, <2>2
  <1>6. EventsOK' /\ FramesOK' /\ \A q \in posts' : PostOK(q, rows)
    BY <1>1 DEF TabInv, EventsOK, FramesOK
  <1>7. \A i \in DOMAIN rows : HeldId(Pages(data'), i) \/ Covered(i)'
    BY <1>1, <1>4, KeptIsCovered
  <1>8. TabInv'
    BY <1>1, <1>4, <1>5, <1>6, <1>7, CacheStepKeeps DEF TabInv, TabTypes
  <1>9. QED BY <1>4, <1>8

LEMMA MutateTab ==
    ASSUME TabInv, NEW kind, NEW i, Mutate(kind, i)
    PROVE  TabInv' /\ DataKept
  <1>1. /\ fetch' = Nil /\ mutation' = [kind |-> kind, id |-> i, prev |-> data, st |-> "sent"]
        /\ data' = IF kind = "edit" THEN applyEdit(data, i, Edited) ELSE markDeleted(data, i)
        /\ UNCHANGED <<rows, keys, outgoing, up, wire, sock, resyncs, posts, timers, sent, sentReads,
                       excused, revived, overlaid>>
    BY DEF Mutate, server, net, ghosts
  <1>2. rows \in Seq(RowRecord) /\ GoodCache(Pages(data), rows, Past) /\ Pages(data) \in Seq(Seq(Message))
    BY DEF TabInv, RowsOK, GoodCache, Shape
  <1>3. i \in DOMAIN rows /\ i \notin Nonces
    <2>1. PICK m \in Held(data) : m.id = i /\ Confirmed(m)
      BY DEF Mutate, inEditor, canDelete, canReact
    <2>2. i \in ConfirmedIds(data)
      BY <2>1 DEF ConfirmedIds
    <2>3. QED BY <1>2, <2>2, ConfirmedIs, RowIdsAreNot
  <1>4. PatchedAt(Pages(data), Pages(data'), i)
    <2>1. CASE kind = "edit"
      BY <1>1, <1>2, <1>3, <2>1, EditIs
    <2>2. CASE kind # "edit"
      BY <1>1, <1>2, <1>3, <2>2, DeletedIs
    <2>3. QED BY <2>1, <2>2
  <1>5. /\ GoodCache(Pages(data'), rows, Past) /\ DataKept
        /\ \A c \in Nonces : c # i /\ Sending(Pages(data'), c) => Sending(Pages(data), c)
    BY <1>4, PatchGives
  <1>6. Watched'
    BY <1>1, <1>3, <1>5 DEF TabInv, Watched
  <1>7. EventsOK' /\ FramesOK'
    BY <1>1 DEF TabInv, EventsOK, FramesOK
  <1>8. FetchOK(fetch', rows, Past) /\ MutationOK(mutation', rows, Past)
    BY <1>1, <1>2, <1>3 DEF FetchOK, MutationOK
  <1>9. \A j \in DOMAIN rows : HeldId(Pages(data'), j) \/ Covered(j)'
    BY <1>1, <1>5, KeptIsCovered
  <1>10. TabInv'
    BY <1>1, <1>5, <1>6, <1>7, <1>8, <1>9, CacheStepKeeps DEF TabInv, TabTypes
  <1>11. QED BY <1>5, <1>10

(* What a concatenation holds. *)
ConcatOf(g, s, t, S) ==
    /\ g \in Seq(S) /\ Len(g) = Len(s) + Len(t)
    /\ Len(s) \in Nat /\ Len(t) \in Nat /\ Len(g) \in Nat
    /\ DOMAIN g = 1..Len(g) /\ DOMAIN s = 1..Len(s) /\ DOMAIN t = 1..Len(t)
    /\ \A k \in DOMAIN s : k \in DOMAIN g /\ g[k] = s[k]
    /\ \A k \in DOMAIN t : Len(s) + k \in DOMAIN g /\ g[Len(s) + k] = t[k]
    /\ \A k \in DOMAIN g : k \notin DOMAIN s => k - Len(s) \in DOMAIN t /\ g[k] = t[k - Len(s)]
    /\ g # <<>> => Len(g) # 0
    /\ t # <<>> => g # <<>> /\ g[Len(g)] = t[Len(t)]

LEMMA Concats ==
    ASSUME NEW S, NEW s \in Seq(S), NEW t \in Seq(S), NEW g, g = s \o t
    PROVE  ConcatOf(g, s, t, S)
  <1>1. g \in Seq(S) /\ Len(g) = Len(s) + Len(t)
    OBVIOUS
  <1>2. /\ Len(s) \in Nat /\ Len(t) \in Nat /\ Len(g) \in Nat
        /\ DOMAIN g = 1..Len(g) /\ DOMAIN s = 1..Len(s) /\ DOMAIN t = 1..Len(t)
    BY <1>1
  <1>3. \A k \in 1..(Len(s) + Len(t)) : g[k] = IF k <= Len(s) THEN s[k] ELSE t[k - Len(s)]
    OBVIOUS
  <1>4. ASSUME NEW k \in DOMAIN s PROVE k \in DOMAIN g /\ g[k] = s[k]
    <2>1. k \in 1..(Len(s) + Len(t)) /\ k <= Len(s)
      BY <1>2
    <2>2. QED BY <1>1, <1>2, <1>3, <2>1
  <1>5. ASSUME NEW k \in DOMAIN t PROVE Len(s) + k \in DOMAIN g /\ g[Len(s) + k] = t[k]
    <2>1. Len(s) + k \in 1..(Len(s) + Len(t)) /\ ~(Len(s) + k <= Len(s)) /\ (Len(s) + k) - Len(s) = k
      BY <1>2
    <2>2. QED BY <1>1, <1>2, <1>3, <2>1
  <1>6. ASSUME NEW k \in DOMAIN g, k \notin DOMAIN s
        PROVE  k - Len(s) \in DOMAIN t /\ g[k] = t[k - Len(s)]
    <2>1. k \in 1..(Len(s) + Len(t)) /\ ~(k <= Len(s)) /\ k - Len(s) \in 1..Len(t)
      BY <1>1, <1>2, <1>6
    <2>2. QED BY <1>2, <1>3, <2>1
  <1>7. ASSUME NEW u \in Seq(S), u # <<>> PROVE Len(u) # 0 /\ Len(u) \in DOMAIN u
    BY <1>7
  <1>8. t # <<>> => g # <<>> /\ g[Len(g)] = t[Len(t)]
    <2> SUFFICES ASSUME t # <<>> PROVE g # <<>> /\ g[Len(g)] = t[Len(t)]
      OBVIOUS
    <2>1. Len(t) \in DOMAIN t /\ Len(t) # 0
      BY <1>7
    <2>2. g[Len(s) + Len(t)] = t[Len(t)]
      BY <1>5, <2>1
    <2>3. Len(g) # 0
      BY <1>1, <1>2, <2>1
    <2>4. QED BY <1>1, <2>2, <2>3
  <1>9. QED BY <1>1, <1>2, <1>4, <1>5, <1>6, <1>7, <1>8 DEF ConcatOf

(* The resync reads on: the record it becomes. *)
LEMMA ReadOn ==
    ASSUME NEW r, NEW g, NEW c, r = [seen |-> r.seen, cursor |-> r.cursor, n |-> r.n, page |-> r.page, got |-> r.got]
    PROVE  [r EXCEPT !.got = g, !.cursor = c, !.n = @ + 1, !.page = Nil]
               = [seen |-> r.seen, cursor |-> c, n |-> r.n + 1, page |-> Nil, got |-> g]
  <1>1. PICK x : x = r.n + 1
    OBVIOUS
  <1>2. PICK q : q = [r EXCEPT !.got = g, !.cursor = c, !.n = x, !.page = Nil]
    OBVIOUS
  <1>3. DOMAIN r = {"seen", "cursor", "n", "page", "got"}
    OBVIOUS
  <1>4. /\ q.got = g /\ q.cursor = c /\ q.n = x /\ q.page = Nil /\ q.seen = r.seen
        /\ DOMAIN q = {"seen", "cursor", "n", "page", "got"} /\ q = [i \in DOMAIN q |-> q[i]]
    BY <1>2, <1>3
  <1>5. q = [seen |-> q.seen, cursor |-> q.cursor, n |-> q.n, page |-> q.page, got |-> q.got]
    BY <1>4
  <1>6. q = [seen |-> r.seen, cursor |-> c, n |-> x, page |-> Nil, got |-> g]
    BY <1>4, <1>5
  <1>7. q = [r EXCEPT !.got = g, !.cursor = c, !.n = @ + 1, !.page = Nil]
    BY <1>1, <1>2
  <1>8. QED BY <1>1, <1>6, <1>7

(* The end of a resync: what it has read is merged, and what it never        *)
(* reached lies below its anchor or past its last page.                      *)
LEMMA ResyncPageKeeps ==
    ASSUME TabInv, NEW r \in resyncs, ResyncPage(r)
    PROVE  TabInv' /\ DataKept
  <1> DEFINE got == r.got \o r.page
             reached == Len(r.page) < PageSize \/ r.page[Len(r.page)].id <= r.seen
             incoming == [k \in DOMAIN got |-> [message |-> got[k], nonce |-> Nil]]
  <1>1. /\ r.page # Nil
        /\ UNCHANGED <<rows, keys, outgoing, up, wire, sock, fetch, posts, timers, mutation, sent, sentReads, revived, overlaid>>
    BY DEF ResyncPage, server, net
  <1>2. \/ /\ reached \/ r.n = MAX_RESYNC_PAGES
           /\ resyncs' = resyncs \ {r}
           /\ data' = IF got = <<>> THEN data ELSE upsertMessages(data, incoming, Me)
           /\ excused' = excused \cup {i \in Missing(data') : i < r.seen \/ ~reached}
        \/ /\ ~reached
           /\ resyncs' = (resyncs \ {r}) \cup
                  {[r EXCEPT !.got = got, !.cursor = r.page[Len(r.page)].id, !.n = @ + 1, !.page = Nil]}
           /\ UNCHANGED <<data, excused>>
    BY DEF ResyncPage, Collected, Excuse
  <1>3. /\ RowsOK(rows) /\ rows \in Seq(RowRecord) /\ GoodCache(Pages(data), rows, Past) /\ ResyncOK(r, rows)
        /\ DOMAIN rows \subseteq Nat
    BY DEF TabInv, RowsOK
  <1>4. /\ r.seen \in Nat /\ ServedPage(r.got, rows) /\ ServedPage(r.page, rows)
        /\ Len(r.page) < PageSize => Low(r) <= 1
        /\ r = [seen |-> r.seen, cursor |-> r.cursor, n |-> r.n, page |-> r.page, got |-> r.got]
    BY <1>1, <1>3 DEF ResyncOK
  <1>5. /\ r.got \in Seq(Message) /\ r.page \in Seq(Message) /\ got \in Seq(Message)
        /\ Len(got) = Len(r.got) + Len(r.page) /\ Len(r.got) \in Nat /\ Len(r.page) \in Nat /\ Len(got) \in Nat
        /\ DOMAIN got = 1..Len(got) /\ DOMAIN r.got = 1..Len(r.got) /\ DOMAIN r.page = 1..Len(r.page)
        /\ \A k \in DOMAIN r.got : k \in DOMAIN got /\ got[k] = r.got[k]
        /\ \A k \in DOMAIN r.page : Len(r.got) + k \in DOMAIN got /\ got[Len(r.got) + k] = r.page[k]
        /\ \A k \in DOMAIN got : k \notin DOMAIN r.got => k - Len(r.got) \in DOMAIN r.page /\ got[k] = r.page[k - Len(r.got)]
        /\ got # <<>> => Len(got) # 0
        /\ r.page # <<>> => got # <<>> /\ got[Len(got)] = r.page[Len(r.page)]
    <2>1. r.got \in Seq(Message) /\ r.page \in Seq(Message)
      BY <1>4 DEF ServedPage
    <2>2. got = r.got \o r.page
      OBVIOUS
    <2> HIDE DEF got
    <2>3. ConcatOf(got, r.got, r.page, Message)
      BY <2>1, <2>2, Concats
    <2>4. QED BY <2>1, <2>3 DEF ConcatOf
  <1>6. ServedPage(got, rows)
    <2>1. ASSUME NEW k \in DOMAIN got PROVE Served(got[k], rows)
      <3>1. CASE k \in DOMAIN r.got
        BY <1>4, <1>5, <3>1 DEF ServedPage
      <3>2. CASE k \notin DOMAIN r.got
        BY <1>4, <1>5, <3>2 DEF ServedPage
      <3>3. QED BY <3>1, <3>2
    <2>2. QED BY <1>5, <2>1 DEF ServedPage
  <1>7. \A i : InPage(got, i) <=> InPage(r.got, i) \/ InPage(r.page, i)
    <2>1. ASSUME NEW i, InPage(got, i) PROVE InPage(r.got, i) \/ InPage(r.page, i)
      BY <1>5, <2>1 DEF InPage
    <2>2. ASSUME NEW i, InPage(r.got, i) \/ InPage(r.page, i) PROVE InPage(got, i)
      BY <1>5, <2>2 DEF InPage
    <2>3. QED BY <2>1, <2>2
  <1>8. Len(r.page) >= PageSize => r.page # <<>> /\ Low(r) = r.page[Len(r.page)].id /\ Low(r) \in DOMAIN rows
    <2> SUFFICES ASSUME Len(r.page) >= PageSize
                 PROVE  r.page # <<>> /\ Low(r) = r.page[Len(r.page)].id /\ Low(r) \in DOMAIN rows
      OBVIOUS
    <2>1. Len(r.page) \in 1..Len(r.page) /\ r.page # <<>>
      BY <1>5, PageSizeAssumption
    <2>2. Low(r) = r.page[Len(r.page)].id
      BY <1>1, <2>1 DEF Low, LastRead
    <2>3. QED BY <1>4, <1>5, <2>1, <2>2 DEF ServedPage, Served, Fits
  <1>9. \A i : Brings(r, i) <=> InPage(got, i) \/ i < Low(r)
    BY <1>1, <1>7 DEF Brings
  <1> DEFINE full == Len(r.page) >= PageSize
  <1>10. reached <=> ~full \/ Low(r) <= r.seen
    BY <1>5, <1>8, PageSizeAssumption
  <1>11. EventsOK' /\ FramesOK'
    BY <1>1 DEF TabInv, EventsOK, FramesOK
  <1>12. CASE /\ ~reached
              /\ resyncs' = (resyncs \ {r}) \cup
                     {[r EXCEPT !.got = got, !.cursor = r.page[Len(r.page)].id, !.n = @ + 1, !.page = Nil]}
              /\ UNCHANGED <<data, excused>>
    <2>1. full /\ r.page # <<>> /\ Low(r) = r.page[Len(r.page)].id
      BY <1>8, <1>10, <1>12
    <2>2. PICK q : /\ q = [seen |-> r.seen, cursor |-> r.page[Len(r.page)].id, n |-> r.n + 1, page |-> Nil, got |-> got]
                   /\ resyncs' = (resyncs \ {r}) \cup {q}
      <3> HIDE DEF got, reached, full
      <3>1. [r EXCEPT !.got = got, !.cursor = r.page[Len(r.page)].id, !.n = @ + 1, !.page = Nil]
              = [seen |-> r.seen, cursor |-> r.page[Len(r.page)].id, n |-> r.n + 1, page |-> Nil, got |-> got]
        BY <1>4, ReadOn
      <3>2. QED BY <1>12, <3>1
    <2>3. got # <<>> /\ got[Len(got)] = r.page[Len(r.page)]
      <3> HIDE DEF got, reached, full
      <3>1. QED BY <1>5, <2>1
    <2> HIDE DEF got, reached, full
    <2>4. Low(q) = Low(r)
      BY <2>1, <2>2, <2>3 DEF Low, LastRead
    <2>5. ResyncOK(q, rows)
      BY <1>4, <1>6, <2>1, <2>2, <2>3, <2>4 DEF ResyncOK
    <2>6. \A i : Brings(r, i) => Brings(q, i)
      BY <1>9, <2>2, <2>4 DEF Brings
    <2>7. ASSUME NEW i \in DOMAIN rows, Covered(i) PROVE Covered(i)'
      <3>1. CASE \E s \in resyncs : Brings(s, i)
        <4>1. \E s \in resyncs' : Brings(s, i)
          BY <2>2, <2>6, <3>1
        <4>2. QED BY <4>1 DEF Covered
      <3>2. CASE ~\E s \in resyncs : Brings(s, i)
        BY <1>1, <1>12, <2>7, <3>2 DEF Covered, Coming
      <3>3. QED BY <3>1, <3>2
    <2>8. \A i \in DOMAIN rows : HeldId(Pages(data), i) \/ Covered(i)'
      BY <2>7 DEF TabInv, Accounted
    <2>9. \A s \in resyncs' : ResyncOK(s, rows)
      BY <2>2, <2>5 DEF TabInv
    <2>10. TabInv'
      BY <1>1, <1>12, <2>8, <2>9, PastSame, QueryStepKeeps DEF TabInv, TabTypes
    <2>11. DataKept
      BY <1>12 DEF DataKept
    <2>12. QED BY <2>10, <2>11
  <1>13. CASE /\ resyncs' = resyncs \ {r}
              /\ data' = IF got = <<>> THEN data ELSE upsertMessages(data, incoming, Me)
              /\ excused' = excused \cup {i \in Missing(data') : i < r.seen \/ ~reached}
    <2>1. /\ GoodCache(Pages(data'), rows, Past) /\ Merges(Pages(data), Pages(data'), rows)
          /\ \A k \in DOMAIN got : HeldId(Pages(data'), got[k].id)
      <3>1. CASE got = <<>>
        <4>1. data' = data /\ DOMAIN got = {}
          BY <1>13, <3>1
        <4>2. QED BY <1>3, <4>1, MergesSame
      <3>2. CASE got # <<>>
        <4>1. data' = upsertMessages(data, incoming, Me)
          BY <1>13, <3>2
        <4>2. /\ Len(incoming) = Len(got) /\ Len(got) \in Nat \ {0}
              /\ \A k \in 1..Len(got) : incoming[k].message = got[k] /\ incoming[k].nonce = Nil
          <5> HIDE DEF got
          <5>1. Len(got) # 0
            BY <1>5, <3>2
          <5>2. incoming \in [1..Len(got) -> [message : Message, nonce : {Nil}]]
            <6>1. got \in Seq(Message) /\ DOMAIN got = 1..Len(got)
              BY <1>5
            <6>2. \A k \in DOMAIN got : got[k] \in Message
              BY <6>1
            <6>3. QED BY <6>1, <6>2
          <5>3. Len(incoming) = Len(got)
            BY <1>5, <5>2, IsSeq
          <5>4. QED BY <1>5, <5>1, <5>3
        <4> HIDE DEF incoming, got
        <4>3. \A k \in 1..Len(incoming) : RowInc(incoming[k], rows)
          BY <1>5, <1>6, <4>2 DEF RowInc, ServedPage
        <4>4. /\ Pages(data') = data' /\ GoodCache(data', rows, Past) /\ Merges(Pages(data), data', rows)
              /\ \A k \in 1..Len(incoming) : HeldId(data', incoming[k].message.id)
          BY <1>3, <4>1, <4>2, <4>3, UpsertRows
        <4>5. QED BY <1>5, <4>2, <4>4
      <3>3. QED BY <3>1, <3>2
    <2> HIDE DEF got, incoming, reached, full
    <2>2. DataKept /\ \A c \in Nonces : Sending(Pages(data'), c) => Sending(Pages(data), c)
      BY <2>1, MergeGives
    <2>3. \A i \in DOMAIN rows : i \in Missing(data') <=> ~HeldId(Pages(data'), i)
      BY <1>3, <2>1, ConfirmedIs DEF Missing
    <2>4. Missing(data') \subseteq DOMAIN rows
      BY DEF Missing
    <2>5. ASSUME NEW i \in DOMAIN rows, ~HeldId(Pages(data'), i), Covered(i) PROVE Covered(i)'
      <3>1. CASE Brings(r, i)
        <4>1. i < Low(r)
          BY <1>9, <2>1, <2>5, <3>1 DEF InPage
        <4>2. i < r.seen \/ ~reached
          <5>1. CASE ~full
            <6>1. Low(r) <= 1 /\ i >= 1 /\ i \in Nat /\ i < Low(r)
              BY <1>3, <1>4, <1>5, <4>1, <5>1, PageSizeAssumption DEF full
            <6>2. FALSE
              <7>1. CASE LastRead(r) = <<>>
                BY <6>1, <7>1 DEF Low
              <7>2. CASE LastRead(r) # <<>>
                <8>1. LastRead(r) \in Seq(Message) /\ ServedPage(LastRead(r), rows)
                  BY <1>4, <1>5 DEF LastRead
                <8>2. Len(LastRead(r)) \in DOMAIN LastRead(r)
                  BY <7>2, <8>1
                <8>3. Low(r) \in DOMAIN rows
                  BY <7>2, <8>1, <8>2 DEF Low, ServedPage, Served, Fits
                <8>4. Low(r) \in Nat
                  BY <1>3, <8>3
                <8>5. QED BY <6>1, <8>4
              <7>3. QED BY <7>1, <7>2
            <6>3. QED BY <6>2
          <5>2. CASE full
            <6>1. Low(r) \in Nat /\ i \in Nat
              BY <1>3, <1>8, <5>2 DEF full
            <6>2. CASE reached
              <7>1. Low(r) <= r.seen
                BY <1>10, <5>2, <6>2
              <7>2. QED BY <1>4, <4>1, <6>1, <7>1
            <6>3. QED BY <6>2
          <5>3. QED BY <5>1, <5>2
        <4>3. i \in excused'
          BY <1>13, <2>3, <2>5, <4>2
        <4>4. QED BY <4>3 DEF Covered
      <3>2. CASE ~Brings(r, i)
        BY <1>1, <1>13, <2>5, <3>2 DEF Covered, Coming
      <3>3. QED BY <3>1, <3>2
    <2>6. \A i \in DOMAIN rows : HeldId(Pages(data'), i) \/ Covered(i)'
      BY <2>2, <2>5 DEF TabInv, Accounted, DataKept
    <2>7. Watched'
      BY <1>1, <2>2 DEF TabInv, Watched
    <2>8. excused' \subseteq DOMAIN rows
      BY <1>13, <2>4 DEF TabInv, TabTypes
    <2>9. \A s \in resyncs' : ResyncOK(s, rows)
      BY <1>13 DEF TabInv
    <2>10. TabInv'
      BY <1>1, <1>11, <2>1, <2>6, <2>7, <2>8, <2>9, CacheStepKeeps DEF TabInv, TabTypes
    <2>11. QED BY <2>2, <2>10
  <1>14. QED BY <1>2, <1>12, <1>13

-----------------------------------------------------------------------------
(* Every step, and the first state. *)

LEMMA SameDataKept ==
    ASSUME UNCHANGED data
    PROVE  DataKept
  BY DEF DataKept

LEMMA StutterKeeps ==
    ASSUME TabInv, UNCHANGED vars
    PROVE  TabInv'
  <1>1. UNCHANGED <<rows, keys, outgoing, up, wire, sock, data, fetch, resyncs, posts, timers, mutation, sent, sentReads,
                    excused, revived, overlaid>>
    BY DEF vars, server, net, tab, ghosts
  <1>2. EventsOK' /\ FramesOK'
    BY <1>1 DEF TabInv, EventsOK, FramesOK
  <1>3. \A i \in DOMAIN rows : HeldId(Pages(data), i) \/ Covered(i)'
    BY <1>1 DEF TabInv, Accounted, Covered, Coming
  <1>4. Watched'
    BY <1>1 DEF TabInv, Watched
  <1>5. QED BY <1>1, <1>2, <1>3, <1>4, CacheStepKeeps DEF TabInv, TabTypes

TabKept == TabInv' /\ (DataKept \/ WholeCacheStep)

LEMMA TableTab ==
    ASSUME ServerInv, ServerInv', RowsEndure, TabInv, TableStep
    PROVE  TabKept
  <1>1. TabInv'
    BY RowsEndureGrow, TableStepKeeps
  <1>2. DataKept
    BY SameDataKept DEF TableStep
  <1>3. QED BY <1>1, <1>2 DEF TabKept

LEMMA ServerTab ==
    ASSUME ServerInv, ServerInv', RowsEndure, TabInv, ServerNext
    PROVE  TabKept
  <1>1. ASSUME NEW e \in outgoing, Publish(e) PROVE TabKept
    BY <1>1, PublishKeeps, SameDataKept DEF TabKept, Publish, tab
  <1>1a. ASSUME NEW e \in outgoing, PublishFails(e) PROVE TabKept
    BY <1>1a, PublishFailsKeeps, SameDataKept DEF TabKept, PublishFails, tab
  <1>1b. CASE FrameFails \/ \E c \in Nonces : KeyExpires(c)
    BY <1>1b, QuietTable, TableTab
  <1>2. CASE HandleFrame
    BY <1>2, FrameTable, TableTab
  <1>3. ASSUME NEW p \in posts, PostHandled(p) PROVE TabKept
    BY <1>3, PostTable, TableTab
  <1>4. CASE MutationHandled
    BY <1>4, MutationTable, TableTab
  <1>5. CASE FetchRead
    BY <1>5, FetchReadKeeps, SameDataKept DEF TabKept, FetchRead
  <1>6. ASSUME NEW r \in resyncs, ResyncRead(r) PROVE TabKept
    BY <1>6, ResyncReadKeeps, SameDataKept DEF TabKept, ResyncRead
  <1>7. QED BY <1>1, <1>1a, <1>1b, <1>2, <1>3, <1>4, <1>5, <1>6 DEF ServerNext

LEMMA TabTab ==
    ASSUME ServerInv, ServerInv', RowsEndure, TabInv, TabNext
    PROVE  TabKept
  <1>1. CASE Drop
    BY <1>1, DropKeeps, SameDataKept DEF TabKept, Drop, tab
  <1>2. CASE Open
    BY <1>2, OpenKeeps, SameDataKept DEF TabKept, Open
  <1>3. CASE Receive
    BY <1>3, ReceiveKeeps DEF TabKept
  <1>4. CASE FetchAll
    BY <1>4, FetchAllKeeps, SameDataKept DEF TabKept, FetchAll
  <1>5. CASE FetchNext
    BY <1>5, FetchNextKeeps, SameDataKept DEF TabKept, FetchNext
  <1>6. CASE FetchDone
    BY <1>6, FetchDoneKeeps DEF TabKept
  <1>7. ASSUME NEW r \in resyncs, ResyncPage(r) PROVE TabKept
    BY <1>7, ResyncPageKeeps DEF TabKept
  <1>8. ASSUME NEW r \in resyncs, ResyncFails(r) PROVE TabKept
    BY <1>8, ResyncFailsKeeps, SameDataKept DEF TabKept, ResyncFails
  <1>9. ASSUME NEW c \in Nonces, Send(c) PROVE TabKept
    BY <1>9, SendTab DEF TabKept
  <1>10. ASSUME NEW c \in Nonces, AckTimeout(c) PROVE TabKept
    BY <1>10, AckTimeoutTab DEF TabKept
  <1>11. ASSUME NEW c \in Nonces, Retry(c) PROVE TabKept
    BY <1>11, RetryTab DEF TabKept
  <1>12. ASSUME NEW p \in posts, PostAnswered(p) PROVE TabKept
    BY <1>12, PostAnsweredTab DEF TabKept
  <1>13. ASSUME NEW i \in 1..MaxRows, NEW kind \in {"edit", "delete"}, Mutate(kind, i) PROVE TabKept
    BY <1>13, MutateTab DEF TabKept
  <1>14. ASSUME NEW i \in 1..MaxRows, ToggleReaction(i, Me) PROVE TabKept
    BY <1>14, PeerTable, TableTab
  <1>15. ASSUME NEW i \in 1..MaxRows, ReadReceipt(i) PROVE TabKept
    BY <1>15, ReadReceiptTab, SameDataKept DEF TabKept, ReadReceipt
  <1>16. CASE MutationAnswered
    BY <1>16, MutationAnsweredKeeps DEF TabKept
  <1>17. QED BY <1>1, <1>2, <1>3, <1>4, <1>5, <1>6, <1>7, <1>8, <1>9, <1>10, <1>11, <1>12, <1>13, <1>14, <1>15,
                <1>16 DEF TabNext

LEMMA TabStep ==
    ASSUME ServerInv, TabInv, [Next]_vars
    PROVE  TabKept
  <1>1. ServerInv' /\ RowsEndure
    BY ServerStep
  <1>2. CASE UNCHANGED vars
    BY <1>2, StutterKeeps, SameDataKept DEF TabKept, vars, tab
  <1>3. CASE PeerNext
    BY <1>1, <1>3, PeerTable, TableTab
  <1>4. QED BY <1>1, <1>2, <1>3, ServerTab, TabTab DEF Next

LEMMA TabStarts == Init => TabInv
  <1> SUFFICES ASSUME Init PROVE TabInv
    OBVIOUS
  <1>1. /\ rows = InitialRows /\ keys = {} /\ outgoing = {} /\ up = <<>> /\ wire = <<>> /\ sock = "down"
        /\ data = Nil /\ fetch = FetchOf(1) /\ resyncs = {} /\ posts = {}
        /\ timers = [c \in Nonces |-> 0] /\ mutation = Nil /\ sent = {} /\ sentReads = {} /\ excused = DOMAIN rows
    BY DEF Init, Mounted
  <1>2. RowsOK(rows)
    <2>1. rows \in Seq(RowRecord) /\ DOMAIN rows = 1..InitRows
      BY <1>1, ServerStarts DEF ServerInv, ServerTypes, InitialRows
    <2>2. Len(rows) = InitRows /\ InitRows <= MaxRows
      BY <2>1, MessagesAssumption
    <2>3. ASSUME NEW i \in DOMAIN rows PROVE rows[i].nonce = Nil /\ rows[i].content \in {Me, Peer}
      BY <1>1, <2>1 DEF InitialRows
    <2>4. Me \notin Texts /\ Peer \notin Texts
      BY MessagesAssumption DEF Texts
    <2>5. QED BY <2>1, <2>2, <2>3, <2>4, NamesAssumption DEF RowsOK, TextFits
  <1>3. GoodCache(Pages(data), rows, Past)
    <2>1. Pages(data) = <<>>
      BY <1>1 DEF Pages
    <2>2. \A i \in DOMAIN rows : rows[i].nonce = Nil
      BY <1>1 DEF InitialRows
    <2>3. Past[2] = {} /\ IsFiniteSet({})
      BY <1>1, FS_EmptySet DEF Past
    <2>4. Ledger(rows, Past)
      BY <2>2, <2>3 DEF Ledger
    <2>5. QED BY <2>1, <2>4, NoPages
  <1>4. EventsOK /\ FramesOK
    <2>1. wire \in Seq(EventRecord) /\ ToSet(wire) = {} /\ DOMAIN up = {}
      BY <1>1 DEF ToSet
    <2>2. QED BY <1>1, <2>1 DEF EventsOK, FramesOK
  <1>5. FetchOK(fetch, rows, Past)
    <2>1. fetch = [old |-> <<>>, n |-> 1, cursor |-> Nil, pages |-> Nil]
      BY <1>1 DEF FetchOf
    <2>2. fetch.old = <<>> /\ fetch.n = 1 /\ fetch.cursor = Nil /\ fetch.pages = Nil
      BY <2>1
    <2>3. QED BY <2>1, <2>2 DEF FetchOK
  <1>6. TabTypes
    BY <1>1 DEF TabTypes
  <1>7. Accounted
    BY <1>1 DEF Accounted, Covered
  <1>8. Watched
    BY <1>1 DEF Watched, Sending, Pages
  <1>9. QED BY <1>1, <1>2, <1>3, <1>4, <1>5, <1>6, <1>7, <1>8 DEF TabInv, MutationOK

-----------------------------------------------------------------------------
(* What the tab's code does to its cache, whatever the bounds. *)

(* The inductive invariant of the tab: pages, bubbles and rows keep their    *)
(* shape, each bubble is one, the bubbles and rows of a text are no more     *)
(* than its sends, what is in flight (events, pages, answers) names rows     *)
(* there are, and every row the cache lacks is accounted for.                *)
THEOREM TabInvariant == Spec => [](ServerInv /\ TabInv)
  <1>1. Init => ServerInv /\ TabInv
    BY ServerStarts, TabStarts
  <1>2. (ServerInv /\ TabInv) /\ [Next]_vars => (ServerInv /\ TabInv)'
    BY ServerStep, TabStep DEF TabKept
  <1>3. QED BY <1>1, <1>2, PTL DEF Spec

(* Rows, cache and requests keep the types the code gives them, and only a   *)
(* bubble goes by a nonce.                                                   *)
THEOREM MessageTypes == Spec => []TypeOK
  <1>1. ASSUME ServerInv, TabInv PROVE TypeOK
    <2>1. /\ rows \in Seq(RowRecord) /\ Len(rows) <= MaxRows /\ GoodCache(Pages(data), rows, Past)
      BY <1>1 DEF TabInv, RowsOK
    <2>2. ASSUME NEW i \in DOMAIN rows PROVE Row(i) \in Message
      <3>1. i \in 1..MaxRows /\ rows[i] \in RowRecord
        BY <2>1, MessagesAssumption
      <3>2. QED BY <3>1 DEF Row, Message, RowRecord, AllTexts
    <2>3. ASSUME NEW m \in Held(data)
          PROVE  /\ m \in Message /\ (m.id \in Nonces) = ~Confirmed(m)
                 /\ Confirmed(m) => m.id \in DOMAIN rows
      <3>1. Fits(m, rows)
        BY <2>1, HeldIs DEF GoodCache, Shape, BubbleOf
      <3>2. QED BY <3>1 DEF Fits
    <2>4. QED BY <1>1, <2>2, <2>3 DEF TypeOK, TabInv, TabTypes, ServerInv, OnlineOnly
  <1>2. QED BY <1>1, TabInvariant, PTL

(* Once the tab is back in the room and no resync is under way, every row is *)
(* held or on its way, but for the ones the code is known to lose: merging,  *)
(* paging and resync (applyOne, resyncRoom) drop nothing else.               *)
THEOREM NothingIsLost == Spec => []NoGap
  <1>1. ASSUME ServerInv, TabInv PROVE NoGap
    <2> SUFFICES ASSUME subscribed, resyncs = {}, NEW i \in Missing(data)
                 PROVE  Coming(i) \/ rows[i].via = "rest" \/ i \in excused
      BY DEF NoGap
    <2>1. i \in DOMAIN rows /\ ~HeldId(Pages(data), i)
      BY <1>1, MissingIs
    <2>2. sock = "open"
      BY <1>1 DEF ServerInv, OnlineOnly
    <2>3. QED BY <1>1, <2>1, <2>2 DEF TabInv, Accounted, Covered
  <1>2. QED BY <1>1, TabInvariant, PTL

(* The list never shows more of a text than was sent, bubbles and messages   *)
(* taken together, in whatever order answers, events and pages arrive and    *)
(* whichever bubble an echo without its nonce is paired with, unless an      *)
(* older page has repeated a send of that text.                              *)
THEOREM NoTwins == Spec => []NoTwin
  <1>1. ASSUME ServerInv, TabInv PROVE NoTwin
    <2> DEFINE shown == flattenSortedDedup(data)
               D == Pages(data)
    <2> SUFFICES ASSUME NEW t \in Texts \ overlaid
                 PROVE  Cardinality({m.id : m \in {x \in shown : ~Confirmed(x) /\ x.content = t}})
                          + Cardinality({rows[m.id].nonce : m \in {x \in shown : Confirmed(x) /\ x.content = t}})
                        <= Cardinality({c \in sent : TextOf[c] = t})
      BY DEF NoTwin
    <2>1. GoodCache(D, rows, Past) /\ Past[1] = overlaid /\ Past[2] = sent
      BY <1>1, PastIs DEF TabInv
    <2>2. ASSUME NEW m \in shown
          PROVE  Fits(m, rows) /\ \E p \in DOMAIN D : \E k \in DOMAIN D[p] : D[p][k] = m
      <3>1. \E p \in DOMAIN D : \E k \in DOMAIN D[p] : D[p][k] = m
        BY ShownIs DEF BubbleOf
      <3>2. QED BY <2>1, <3>1 DEF GoodCache, Shape
    <2> HIDE DEF shown, D
    <2> DEFINE B == {m.id : m \in {x \in shown : ~Confirmed(x) /\ x.content = t}}
               S == {rows[m.id].nonce : m \in {x \in shown : Confirmed(x) /\ x.content = t}}
               T == {c \in sent : TextOf[c] = t}
    <2>3. B \subseteq BubblesOf(D, t)
      <3> SUFFICES ASSUME NEW m \in shown, ~Confirmed(m), m.content = t PROVE m.id \in BubblesOf(D, t)
        OBVIOUS
      <3>1. m.id \in Nonces /\ TextOf[m.id] = t
        BY <2>2 DEF Fits
      <3>2. HeldId(D, m.id)
        BY <2>2 DEF HeldId
      <3>3. QED BY <3>1, <3>2 DEF BubblesOf
    <2>4. S \subseteq ShownOf(D, rows, t)
      <3> SUFFICES ASSUME NEW m \in shown, Confirmed(m), m.content = t PROVE rows[m.id].nonce \in ShownOf(D, rows, t)
        OBVIOUS
      <3>1. m.id \in DOMAIN rows /\ TextFits(t, rows[m.id].nonce)
        BY <2>2 DEF Fits
      <3>2. rows[m.id].nonce \in Nonces /\ RowOf(m, rows, t, rows[m.id].nonce)
        BY <3>1 DEF TextFits, RowOf
      <3>3. QED BY <2>2, <3>2 DEF ShownOf
    <2>5. Tally(BubblesOf(D, t), ShownOf(D, rows, t), T, t, overlaid)
      <3>1. Tally(BubblesOf(D, t), ShownOf(D, rows, t), SentOf(Past, t), t, Past[1])
        BY <2>1 DEF GoodCache, Counted
      <3>2. SentOf(Past, t) = T
        BY <2>1 DEF SentOf
      <3>3. QED BY <2>1, <3>1, <3>2
    <2> HIDE DEF B, S, T
    <2>6. IsFiniteSet(T)
      BY <2>5 DEF Tally
    <2>7. Tally(B, S, T, t, overlaid)
      BY <2>3, <2>4, <2>5, <2>6, TallyLess
    <2>8. Cardinality(B) + Cardinality(S) <= Cardinality(T)
      BY <2>7 DEF Tally
    <2>9. QED BY <2>8 DEF B, S, T
  <1>2. QED BY <1>1, TabInvariant, PTL

(* A bubble that says "sending" has an ack timer or a request that will      *)
(* settle it: performSend, retry and the timeout never leave one behind.     *)
THEOREM SendsAreWatched == Spec => []SendingIsWatched
  <1>1. ASSUME ServerInv, TabInv PROVE SendingIsWatched
    <2>1. GoodCache(Pages(data), rows, Past) /\ Watched
      BY <1>1 DEF TabInv
    <2>2. QED BY <2>1, StatusIs DEF SendingIsWatched, Watched
  <1>2. QED BY <1>1, TabInvariant, PTL

(* One step of ConfirmedStays. *)
ConfirmedKeptBy == ConfirmedIds(data) \subseteq ConfirmedIds(data') \/ WholeCacheStep

(* No live event, merge, send, retry or resync drops a confirmed message.    *)
THEOREM ConfirmedAreKept == Spec => ConfirmedStays
  <1>1. ASSUME ServerInv, TabInv, [Next]_vars PROVE ConfirmedKeptBy
    <2> SUFFICES ASSUME ~WholeCacheStep PROVE ConfirmedIds(data) \subseteq ConfirmedIds(data')
      BY DEF ConfirmedKeptBy
    <2>1. TabInv' /\ DataKept /\ RowsGrow(rows, rows')
      BY <1>1, TabStep, ServerStep, RowsEndureGrow DEF TabKept
    <2>2. rows \in Seq(RowRecord) /\ GoodCache(Pages(data), rows, Past)
      BY <1>1 DEF TabInv, RowsOK
    <2>3. rows' \in Seq(RowRecord) /\ GoodCache(Pages(data'), rows', Past')
      BY <2>1 DEF TabInv, RowsOK
    <2>4. ASSUME NEW i \in ConfirmedIds(data) PROVE i \in ConfirmedIds(data')
      <3>1. i \in DOMAIN rows /\ HeldId(Pages(data), i)
        BY <2>2, ConfirmedIs
      <3>2. i \in DOMAIN rows' /\ HeldId(Pages(data'), i)
        BY <2>1, <3>1 DEF DataKept, RowsGrow
      <3>3. QED BY <2>3, <3>2, ConfirmedIs
    <2>5. QED BY <2>4
  <1>2. ServerInv /\ TabInv /\ [Next]_vars => [ConfirmedKeptBy]_vars
    BY <1>1
  <1>3. Spec => [][ConfirmedKeptBy]_vars
    BY <1>2, TabInvariant, PTL DEF Spec
  <1>4. QED BY <1>3 DEF ConfirmedStays, ConfirmedKeptBy
=============================================================================
