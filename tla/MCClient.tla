------------------------------ MODULE MCClient ------------------------------
(* The browser's components for TLC, in one run.  They share no state, so   *)
(* each behaviour moves one of them and leaves the others where they began: *)
(* the states of the run are the sum of theirs and not the product.         *)
EXTENDS ChatTab, Presence, Typing, Screen, RoomPanel, CreateRoom, TLC

CONSTANT MaxCalmOps   \* bound: operations of a tab while it has no socket of an unmounted provider

VARIABLE focus   \* the component that moves

allVars == <<tabVars, presVars, typingVars, screenVars, panelVars, dialogVars, focus>>

\* One initial state of a component that does not move is enough.
MCInit ==
    /\ focus \in {"tab", "presence", "typing", "screen", "panel", "dialog"}
    /\ TabInit /\ (focus # "tab" => token = 0 /\ page = "login" /\ member = {})
    /\ PanelInit /\ (focus # "panel" => \A u \in Others : roles[u] = "none")
    /\ PresInit /\ TypingInit /\ ScreenInit /\ DialogInit

\* The operations beyond are for what the socket of an unmounted provider does.
Bounded == tabOps' # tabOps /\ tabOps' > MaxCalmOps => \E k \in DOMAIN strays : strays[k].st = "open"

Still(vs, c) == focus # c /\ UNCHANGED vs

MCNext ==
    /\ UNCHANGED focus
    /\ (focus = "tab" /\ TabNext /\ Bounded) \/ Still(tabVars, "tab")
    /\ (focus = "presence" /\ PresNext) \/ Still(presVars, "presence")
    /\ (focus = "typing" /\ TypingNext) \/ Still(typingVars, "typing")
    /\ (focus = "screen" /\ ScreenNext) \/ Still(screenVars, "screen")
    /\ (focus = "panel" /\ PanelNext) \/ Still(panelVars, "panel")
    /\ (focus = "dialog" /\ DialogNext) \/ Still(dialogVars, "dialog")

MCSpec == MCInit /\ [][MCNext]_allVars /\ PresFairness

-----------------------------------------------------------------------------
\* The types of all six components.
ClientTypeOK ==
    /\ TabTypeOK /\ PresTypeOK /\ TypingTypeOK /\ ScreenTypeOK /\ PanelTypeOK /\ DialogTypeOK
=============================================================================
