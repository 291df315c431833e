------------------------------- MODULE MCClient ------------------------------
(* Small instances of Walking and ClientNetwork, checked together: the      *)
(* initial state says which of the two it is, and the other stays as it is. *)
(* Two players walk about a corridor with a corner.  Of the buttons of the  *)
(* login screen, the join reply is only logged; two spawns follow.          *)
EXTENDS Walking, ClientNetwork

MCCells == {<<0, 0>>, <<1, 0>>, <<1, 1>>}
MCSpawn == <<0, 0>>

MCClicks == {"join", "login"}
MCNotices == {"spawn", "again"}
MCLogsOnly == {"join"}
MCFaulty == {"again"}

VARIABLE half

IsNetwork == half = "network"
IsWalking == half = "walking"

InitHalf ==
    /\ half \in {"network", "walking"}
    /\ InitNetwork
    /\ Init

Step ==
    /\ UNCHANGED half
    /\ \/ IsNetwork /\ NextNetwork /\ UNCHANGED vars
       \/ IsWalking /\ Next /\ UNCHANGED netVars

ClientSpec ==
    /\ InitHalf
    /\ [][Step]_<<half, netVars, vars>>
    /\ \/ IsNetwork /\ NetworkFairness
       \/ IsWalking /\ Fairness
=============================================================================
