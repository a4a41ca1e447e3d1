----------------------------- MODULE MCRealtime -----------------------------
(* Realtime for TLC: two connections of one user, one room.                 *)
EXTENDS Realtime

CONSTANTS c1, c2, u1, r1

MCUserOf == [c \in Clients |-> u1]
MCMembers == {<<u1, r1>>}
=============================================================================
