----------------------------- MODULE CreateRoom -----------------------------
(* The dialog that makes a room (CreateRoomDialog.tsx): its kind, the name, *)
(* the staged members of a group or the peer of a direct room, the          *)
(* debounced search that offers them, and the request, whose answer may     *)
(* come when the dialog has been closed and opened again.                   *)
EXTENDS Naturals, Sequences, FiniteSets, SequencesExt

CONSTANTS Self,           \* the tab's user
          People,         \* everyone, Self included
          NoOne,          \* null
          MIN_GROUP_MEMBERS,
          MaxDialogOps    \* bound: what the user does

ASSUME DialogAssumption ==
    /\ Self \in People /\ NoOne \notin People
    /\ MIN_GROUP_MEMBERS \in Nat /\ MaxDialogOps \in Nat

VARIABLES
    open, kind,    \* the dialog is open, and the kind chosen
    name,          \* what its name is, one of NameKinds
    groupMembers,  \* the staged members, in the order added
    directPeer,    \* the peer picked, or NoOne
    searchInput,   \* userSearchInput is not empty
    debounced,     \* debouncedUserSearch is not empty
    found,         \* userSearch.data for the debounced text
    creating,      \* createRoom.isPending
    posted,        \* the last request
    dialogOps      \* budget used

picks      == <<groupMembers, directPeer>>
search     == <<searchInput, debounced, found>>
dialogVars == <<open, kind, name, picks, search, creating, posted, dialogOps>>

\* The names the two rules tell apart: "blank" has nothing but blanks, "wide"
\* is short enough in UTF-16 units but not in bytes, "long" in neither.
NameKinds == {"empty", "blank", "good", "wide", "long"}

\* The dialog's rule takes the name as typed and counts its units.
validateRoomName(n) == n \notin {"empty", "long"}

\* The server's rule trims the name and counts its bytes.
NameAccepted(n) == n = "good"

SpendDialog == dialogOps < MaxDialogOps /\ dialogOps' = dialogOps + 1
NoRequest == [type |-> "none", name |-> "empty", members |-> <<>>, peer |-> NoOne]

-----------------------------------------------------------------------------
\* Only the caller is left out.
UnstagedIgnored == found \ {Self}

\* The results the pickers offer.
groupResults == found \ (ToSet(groupMembers) \cup {Self})
directResults == found \ {Self}

clearUserSearch == searchInput' = FALSE /\ debounced' = FALSE /\ found' = {}

\* The peer picked is left for the next time.
ResetKeepsPeer ==
    /\ kind' = "channel" /\ name' = "empty"
    /\ groupMembers' = <<>> /\ UNCHANGED directPeer
    /\ clearUserSearch

reset ==
    /\ kind' = "channel" /\ name' = "empty"
    /\ groupMembers' = <<>> /\ directPeer' = NoOne
    /\ clearUserSearch

\* Opening leaves the fields alone; closing, by whatever means, resets them.
handleOpenChangeTo(next) ==
    /\ open' = next
    /\ IF next THEN UNCHANGED <<kind, name, picks, search>> ELSE reset

OpenOrClose ==
    /\ SpendDialog
    /\ handleOpenChangeTo(~open)
    /\ UNCHANGED <<creating, posted>>

changeKind(next) ==
    /\ open /\ next # kind
    /\ SpendDialog
    /\ kind' = next /\ groupMembers' = <<>> /\ directPeer' = NoOne
    /\ clearUserSearch
    /\ UNCHANGED <<open, name, creating, posted>>

TypeName ==
    /\ open /\ kind # "direct"
    /\ SpendDialog
    /\ name' \in NameKinds \ {name}
    /\ UNCHANGED <<open, kind, picks, search, creating, posted>>

-----------------------------------------------------------------------------
(* The search and the pickers.                                              *)

\* A box is shown for a group, and for a direct room without a peer.
TypeSearch ==
    /\ open /\ ~searchInput
    /\ kind = "group" \/ (kind = "direct" /\ directPeer = NoOne)
    /\ SpendDialog
    /\ searchInput' = TRUE
    /\ UNCHANGED <<open, kind, name, picks, debounced, found, creating, posted>>

\* The debounce timer.
Debounce ==
    /\ searchInput /\ ~debounced
    /\ debounced' = TRUE
    /\ UNCHANGED <<open, kind, name, picks, searchInput, found, creating, posted, dialogOps>>

\* The answer of useSearchUsers, from the server or the cache.
SearchAnswered ==
    /\ debounced /\ found = {}
    /\ found' \in {People, People \ {Self}}
    /\ UNCHANGED <<open, kind, name, picks, searchInput, debounced, creating, posted, dialogOps>>

addGroupMember(u) ==
    /\ open /\ kind = "group" /\ debounced /\ u \in groupResults
    /\ groupMembers' = Append(groupMembers, u)
    /\ clearUserSearch
    /\ UNCHANGED <<open, kind, name, directPeer, creating, posted, dialogOps>>

\* The filter drops one entry: nobody is staged twice.
removeGroupMember(u) ==
    /\ open /\ kind = "group"
    /\ SpendDialog
    /\ \E i \in DOMAIN groupMembers : /\ groupMembers[i] = u
                                     /\ groupMembers' = RemoveAt(groupMembers, i)
    /\ UNCHANGED <<open, kind, name, directPeer, search, creating, posted>>

selectDirectPeer(u) ==
    /\ open /\ kind = "direct" /\ directPeer = NoOne /\ debounced /\ u \in directResults
    /\ directPeer' = u
    /\ clearUserSearch
    /\ UNCHANGED <<open, kind, name, groupMembers, creating, posted, dialogOps>>

ClearPeer ==
    /\ open /\ kind = "direct" /\ directPeer # NoOne
    /\ SpendDialog
    /\ directPeer' = NoOne
    /\ UNCHANGED <<open, kind, name, groupMembers, search, creating, posted>>

-----------------------------------------------------------------------------
(* The request.                                                             *)

canSubmitDirect == directPeer # NoOne
canSubmitGroup == Len(groupMembers) >= MIN_GROUP_MEMBERS

SubmitEnabled ==
    /\ open /\ ~creating
    /\ kind = "direct" => canSubmitDirect
    /\ kind = "group" => canSubmitGroup

\* A name that is not valid shows its error and sends nothing.
handleSubmit ==
    /\ SubmitEnabled
    /\ kind = "direct" \/ validateRoomName(name)
    /\ SpendDialog
    /\ creating' = TRUE
    /\ posted' = [type |-> kind, name |-> name,
                  members |-> IF kind = "group" THEN groupMembers ELSE <<>>,
                  peer |-> IF kind = "direct" THEN directPeer ELSE NoOne]
    /\ UNCHANGED <<open, kind, name, picks, search>>

\* The room is made: the dialog is closed, whatever it holds by now; or the
\* request failed, or its name was refused, and the dialog shows why.
CreateAnswered ==
    /\ creating
    /\ creating' = FALSE
    /\ \/ /\ posted.type = "direct" \/ NameAccepted(posted.name)
          /\ handleOpenChangeTo(FALSE)
       \/ UNCHANGED <<open, kind, name, picks, search>>
    /\ UNCHANGED <<posted, dialogOps>>

DialogInit ==
    /\ open = FALSE /\ kind = "channel" /\ name = "empty"
    /\ groupMembers = <<>> /\ directPeer = NoOne
    /\ searchInput = FALSE /\ debounced = FALSE /\ found = {}
    /\ creating = FALSE /\ posted = NoRequest /\ dialogOps = 0

DialogNext ==
    \/ OpenOrClose \/ TypeName \/ TypeSearch \/ Debounce \/ SearchAnswered \/ ClearPeer
    \/ \E next \in {"channel", "group", "direct"} : changeKind(next)
    \/ \E u \in People : addGroupMember(u) \/ removeGroupMember(u) \/ selectDirectPeer(u)
    \/ handleSubmit \/ CreateAnswered

DialogSpec == DialogInit /\ [][DialogNext]_dialogVars

-----------------------------------------------------------------------------
(* Properties.                                                              *)

DialogTypeOK ==
    /\ kind \in {"channel", "group", "direct"} /\ name \in NameKinds
    /\ groupMembers \in Seq(People) /\ directPeer \in People \cup {NoOne}
    /\ (~open => kind = "channel" /\ groupMembers = <<>> /\ directPeer = NoOne)

\* Whatever has been staged, removed, searched again and switched before, and
\* however late an earlier answer closed the dialog, a request names whom the
\* server's rules for its kind ask for: a group has enough distinct others and
\* not the caller, a direct room another user, and no other kind carries either
\* (CreateRoomDialog.tsx handleSubmit, rooms.go validateGroupMemberIDs and
\* validatePeerUserID).  Its name has passed the dialog's own rule, which is
\* not the server's: a name of blanks is sent and refused.
RequestWellFormed ==
    /\ posted.type = "group" => /\ Self \notin ToSet(posted.members)
                                /\ Cardinality(ToSet(posted.members)) >= MIN_GROUP_MEMBERS
    /\ posted.type # "group" => posted.members = <<>>
    /\ posted.type = "direct" => posted.peer \in People \ {Self}
    /\ posted.type # "direct" => posted.peer = NoOne
    /\ posted.type \in {"group", "channel"} => validateRoomName(posted.name)
=============================================================================
