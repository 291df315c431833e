----------------------------- MODULE ZoneMailbox -----------------------------
(***************************************************************************)
(* What a zone's message queue promises the handlers that push to it: one  *)
(* mailbox per zone; what is posted is taken exactly once, in the order it *)
(* was posted, and nothing is ever taken that was not posted.              *)
(***************************************************************************)
EXTENDS Sequences

CONSTANTS Zones, Messages

VARIABLE mail

Init == mail = [z \in Zones |-> <<>>]

Post(z, m) == mail' = [mail EXCEPT ![z] = Append(@, m)]

Take(z) ==
    /\ mail[z] # <<>>
    /\ mail' = [mail EXCEPT ![z] = Tail(@)]

Next ==
    \E z \in Zones :
        \/ \E m \in Messages : Post(z, m)
        \/ Take(z)

Spec == Init /\ [][Next]_mail
=============================================================================
