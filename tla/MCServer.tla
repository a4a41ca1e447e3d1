------------------------------ MODULE MCServer ------------------------------
(* The rooms' rosters and the sessions for TLC, in one run.  They share no  *)
(* state, so each behaviour moves one of them and leaves the other where it *)
(* began: the states of the run are the sum of theirs and not the product.  *)
(* Users and tabs, requests and handlers have the same names in the cfg, so *)
(* that one permutation serves both.                                        *)
EXTENDS MCMembership, MCSessions

CONSTANT GroupClock   \* bound: the clock once there is a group, which begins with its members

VARIABLE focus        \* the component that moves

Bounded == (\E r \in Rooms : kind'[r] = "group") => clock' <= GroupClock

MCInit == focus \in {"roster", "sessions"} /\ RosterInit /\ SessionInit

MCNext ==
    /\ UNCHANGED focus
    /\ \/ focus = "roster" /\ RosterNext /\ Bounded /\ UNCHANGED sessionVars
       \/ focus = "sessions" /\ SessionNext /\ UNCHANGED rosterVars

MCSpec == MCInit /\ [][MCNext]_<<rosterVars, sessionVars, focus>>
ServerSymmetry == RosterSymmetry \cup SessionSymmetry
=============================================================================
