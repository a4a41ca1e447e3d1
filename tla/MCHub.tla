-------------------------------- MODULE MCHub --------------------------------
(***************************************************************************)
(* Hub for TLC: two connections of one user.  The requests and events that *)
(* come from outside (frames, broadcasts) are limited to MaxInputs in all; *)
(* connecting, disconnecting, failing and stopping are not.                *)
(***************************************************************************)
EXTENDS Hub, TLC

CONSTANTS c1, c2, u1, MaxInputs

MCUserOf == (c1 :> u1) @@ (c2 :> u1)

VARIABLE inputs

Input ==
    \/ \E c \in Clients : \/ SendError(c)
                          \/ \E r \in Rooms : Join(c, r) \/ Leave(c, r)
    \/ \E p \in Payloads : \/ \E r \in Rooms : Broadcast(r, p)
                           \/ \E u \in Users : BroadcastToUser(u, p)

Other(c) ==
    \/ Connect(c) \/ StartReadPump(c) \/ ReadFails(c) \/ Unregister(c)
    \/ WriteNext(c) \/ WriteFails(c)

MCNext ==
    /\ panicked = "no"
    /\ \/ inputs < MaxInputs /\ inputs' = inputs + 1 /\ Input
       \/ /\ HubStep \/ (\E c \in Clients : Other(c)) \/ Stop \/ TakeDisconnect
          /\ UNCHANGED inputs

MCInit == Init /\ inputs = 0

MCSpec == MCInit /\ [][MCNext]_<<vars, inputs>> /\ Fairness
=============================================================================
