----------------------------- MODULE MCMessages -----------------------------
(* Messages for TLC.  A tab that is just opening the room has most of its   *)
(* interleavings in the opening itself, so it gets fewer operations than a  *)
(* tab that is in the room with its history loaded.                         *)
EXTENDS Messages, TLC

CONSTANTS
    t1,          \* the one text that is sent, with every nonce
    OpeningOps   \* bound: operations of a tab that is opening the room

\* The tab in the room: socket open, room joined, first page loaded.
InRoom ==
    /\ rows = InitialRows /\ keys = {} /\ outgoing = {} /\ subscribed = TRUE
    /\ up = <<>> /\ wire = <<>> /\ sock = "open"
    /\ data = << ListRoomMessages(Nil) >> /\ fetch = Nil
    /\ resyncs = {} /\ posts = {} /\ timers = [c \in Nonces |-> 0] /\ mutation = Nil
    /\ sent = {} /\ lapses = [c \in Nonces |-> 0]
    /\ sentReads = {} /\ retries = 0 /\ excused = Missing(data) /\ revived = {} /\ overlaid = {}

MCTextOf == [c \in Nonces |-> t1]
NonceSymmetry == Permutations(Nonces)

MCInit ==
    \/ Mounted /\ ops = MaxOps - OpeningOps
    \/ InRoom /\ ops = 0

MCSpec == MCInit /\ [][Next]_vars
=============================================================================
