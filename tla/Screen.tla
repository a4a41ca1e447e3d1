------------------------------- MODULE Screen -------------------------------
(* The scrolled message list of a room (MessageList.tsx): where the view is *)
(* while older pages are loaded in front of it, new messages are added      *)
(* behind it and rows turn out taller than estimated.                       *)
(*                                                                          *)
(* Messages are numbered; the list holds lo..hi (none when hi < lo).  A row *)
(* is one unit (ESTIMATED_ROW_HEIGHT) high until it is measured, and a tall *)
(* one two units after.                                                     *)
(* React commits a change of the list and runs its layout effects at once;  *)
(* the scroll event of a scroll comes later.                                *)
EXTENDS Integers, FiniteSets

CONSTANTS LOAD_OLDER_THRESHOLD, NEAR_BOTTOM_THRESHOLD,  \* in units, rounded up
          ViewHeight,     \* height of the container
          PageRows,       \* rows in a page
          MaxPages,       \* bound: pages of history
          MaxNew,         \* bound: messages that arrive
          MaxScrolls      \* bound: scrolls of the user

ASSUME ScreenAssumption ==
    /\ LOAD_OLDER_THRESHOLD \in Nat \ {0} /\ NEAR_BOTTOM_THRESHOLD \in Nat \ {0}
    /\ ViewHeight \in Nat \ {0} /\ PageRows \in Nat \ {0}
    /\ MaxPages \in Nat /\ MaxNew \in Nat /\ MaxScrolls \in Nat

VARIABLES
    lo, hi,     \* the messages held
    tall,       \* rows measured as tall
    top,        \* scrollTop
    pinned,     \* pinnedToBottomRef
    anchor,     \* prevScrollHeightRef, -1 for null
    prevCount,  \* prevMessageCountRef
    fetching,   \* isFetchingNextPage
    scrollDue,  \* a scroll event is to come
    raced,      \* history: the list grew between the anchor and its page
    scrolls     \* budget used

screenVars == <<lo, hi, tall, top, pinned, anchor, prevCount, fetching, scrollDue, raced, scrolls>>

\* The oldest page begins here, and the newest ends.
Oldest == 1
Newest == MaxPages * PageRows

Count(a, b) == b - a + 1

\* Where the row of a message begins, in a list that starts with a.
Offset(a, id) == (id - a) + Cardinality({x \in tall : a <= x /\ x < id})
ScrollHeight(a, b) == Offset(a, b + 1)
Bottom(height) == IF height > ViewHeight THEN height - ViewHeight ELSE 0
Clamp(x, height) == IF x > Bottom(height) THEN Bottom(height) ELSE x

isNearBottom == ScrollHeight(lo, hi) - top - ViewHeight < NEAR_BOTTOM_THRESHOLD
hasNextPage == lo > Oldest
Visible == {id \in lo..hi : Offset(lo, id + 1) > top /\ Offset(lo, id) < top + ViewHeight}

-----------------------------------------------------------------------------
\* The second layout effect, which a new total size runs after the first has
\* left the view at x: while pinned, and no anchor is held, back to the bottom.
Reassert(x, height) ==
    top' = IF height # ScrollHeight(lo, hi) /\ pinned' /\ anchor' = -1 THEN Bottom(height) ELSE x

\* The anchor is used at the first change, grown or not.
AnchorUsedAtOnce(a, b, still) ==
    LET count == Count(a, b)
        height == ScrollHeight(a, b)
        grew == count > prevCount
    IN  /\ prevCount' = count
        /\ IF anchor # -1
           THEN anchor' = -1 /\ UNCHANGED pinned /\ Reassert(Clamp(top + height - anchor, height), height)
           ELSE /\ UNCHANGED anchor
                /\ IF grew /\ (prevCount = 0 \/ pinned)
                   THEN pinned' = TRUE /\ Reassert(Bottom(height), height)
                   ELSE UNCHANGED pinned /\ Reassert(top, height)
        /\ scrollDue' = (scrollDue \/ top' # top)

\* Both layout effects on a list a..b, still fetching or not: give the anchor
\* to the page it was taken for, else follow the bottom when pinned to it.
LayoutEffect(a, b, still) ==
    LET count == Count(a, b)
        height == ScrollHeight(a, b)
        grew == count > prevCount
    IN  /\ IF anchor # -1
           THEN /\ UNCHANGED pinned
                /\ IF grew
                   THEN /\ anchor' = -1 /\ prevCount' = count
                        /\ Reassert(Clamp(top + height - anchor, height), height)
                   ELSE /\ anchor' = (IF still THEN anchor ELSE -1) /\ UNCHANGED prevCount
                        /\ Reassert(top, height)
           ELSE /\ prevCount' = count /\ UNCHANGED anchor
                /\ IF grew /\ (prevCount = 0 \/ pinned)
                   THEN pinned' = TRUE /\ Reassert(Bottom(height), height)
                   ELSE UNCHANGED pinned /\ Reassert(top, height)
        /\ scrollDue' = (scrollDue \/ top' # top)

\* The newest page arrives in an empty list.
FirstPage ==
    /\ hi < lo
    /\ lo' = Newest - PageRows + 1 /\ hi' = Newest
    /\ LayoutEffect(lo', hi', FALSE)
    /\ UNCHANGED <<tall, fetching, raced, scrolls>>

\* A live message or an optimistic bubble.
NewMessage ==
    /\ lo <= hi /\ hi < Newest + MaxNew
    /\ hi' = hi + 1
    /\ LayoutEffect(lo, hi', fetching)
    /\ raced' = (raced \/ anchor # -1)
    /\ UNCHANGED <<lo, tall, fetching, scrolls>>

\* A receipt, a reaction, an edit: the messages change, not their number.
MessagesChange ==
    /\ lo <= hi
    /\ LayoutEffect(lo, hi, fetching)
    /\ UNCHANGED <<lo, hi, tall, fetching, raced, scrolls>>

\* The older page lands, and isFetchingNextPage ends with it.
OlderPage ==
    /\ fetching
    /\ fetching' = FALSE
    /\ lo' = lo - PageRows
    /\ LayoutEffect(lo', hi, FALSE)
    /\ UNCHANGED <<hi, tall, raced, scrolls>>

\* Its fetch fails or is cancelled.
OlderPageFails ==
    /\ fetching
    /\ fetching' = FALSE
    /\ LayoutEffect(lo, hi, FALSE)
    /\ UNCHANGED <<lo, hi, tall, raced, scrolls>>

\* The virtualizer measures a row on screen: while pinned, back to the bottom.
Measured(id) ==
    /\ id \in Visible \ tall
    /\ tall' = tall \cup {id}
    /\ UNCHANGED <<lo, hi, pinned, anchor, prevCount, fetching, scrolls>>
    /\ Reassert(top, ScrollHeight(lo, hi) + 1)
    /\ scrollDue' = (scrollDue \/ top' # top)
    /\ raced' = (raced \/ anchor # -1)

\* handleScroll, on the scroll event: near the top it asks for older messages.
handleScroll ==
    /\ scrollDue
    /\ scrollDue' = FALSE
    /\ pinned' = isNearBottom
    /\ IF ~fetching /\ hasNextPage /\ top < LOAD_OLDER_THRESHOLD
       THEN anchor' = ScrollHeight(lo, hi) /\ fetching' = TRUE /\ raced' = FALSE
       ELSE UNCHANGED <<anchor, fetching, raced>>
    /\ UNCHANGED <<lo, hi, tall, top, prevCount, scrolls>>

\* The user scrolls.
UserScrolls(x) ==
    /\ lo <= hi /\ x # top
    /\ scrolls < MaxScrolls /\ scrolls' = scrolls + 1
    /\ top' = x /\ scrollDue' = TRUE
    /\ UNCHANGED <<lo, hi, tall, pinned, anchor, prevCount, fetching, raced>>

ScreenInit ==
    /\ lo = 1 /\ hi = 0 /\ tall = {} /\ top = 0 /\ pinned = TRUE /\ anchor = -1
    /\ prevCount = 0 /\ fetching = FALSE /\ scrollDue = FALSE /\ raced = FALSE /\ scrolls = 0

ScreenNext ==
    \/ FirstPage \/ NewMessage \/ MessagesChange \/ OlderPage \/ OlderPageFails \/ handleScroll
    \/ \E id \in lo..hi : Measured(id)
    \/ \E x \in 0..Bottom(ScrollHeight(lo, hi)) : UserScrolls(x)

ScreenSpec == ScreenInit /\ [][ScreenNext]_screenVars

-----------------------------------------------------------------------------
(* Properties.                                                              *)

ScreenTypeOK ==
    /\ top \in 0..Bottom(ScrollHeight(lo, hi))
    /\ anchor \in Int /\ (fetching => hasNextPage) /\ prevCount \in 0..Count(lo, hi)

\* The view stays where the reader is.  Whoever is pinned to the bottom is at the
\* bottom after every change, however tall the new rows turn out, and wherever
\* an older page would have left the view; anybody else keeps every message that
\* was on screen where it was when messages are added at either end.  The second
\* half is silent once the list has grown while an older page was awaited (a live
\* message, a row measured late): that growth uses up the anchor or makes it
\* wrong, and the view then does jump.
ViewStays ==
    [][<<lo, hi, tall>>' # <<lo, hi, tall>> =>
          IF pinned THEN anchor' = -1 => top' = Bottom(ScrollHeight(lo, hi))'
          ELSE tall' = tall /\ ~raced' =>
                  \A id \in Visible : Offset(lo', id) - top' = Offset(lo, id) - top]_screenVars
=============================================================================
