---------------------------- MODULE PacketChannel ----------------------------
(* What a session promises to its handlers: the packets the peer has sent,  *)
(* each once, as a whole, in order, and all of them in the end.             *)
EXTENDS Naturals, Sequences

CONSTANTS Sizes

VARIABLES
    sent,           \* the packets, as their sizes
    delivered       \* the number of each packet delivered

Init == sent = <<>> /\ delivered = <<>>

Send ==
    /\ \E size \in Sizes : sent' = Append(sent, size)
    /\ UNCHANGED delivered

Deliver ==
    /\ Len(delivered) < Len(sent)
    /\ delivered' = Append(delivered, Len(delivered) + 1)
    /\ UNCHANGED sent

Next == Send \/ Deliver

Spec == Init /\ [][Next]_<<sent, delivered>>

FairSpec == Spec /\ WF_<<sent, delivered>>(Deliver)
=============================================================================
