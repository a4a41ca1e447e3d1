---------------------------- MODULE MCMembership ----------------------------
(* Membership for TLC: users and rooms are interchangeable, and so are the  *)
(* requests in flight.                                                      *)
EXTENDS Membership, TLC

RosterSymmetry == Permutations(Users) \cup Permutations(Rooms) \cup Permutations(Requests)
=============================================================================
