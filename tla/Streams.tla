------------------------------- MODULE Streams -------------------------------
(* ServerStream and ClientStream, checked together: the initial state says  *)
(* which of the two it is.  Capacity and Sizes are the server's.            *)
EXTENDS ReceiveBuffer

CONSTANTS
    ClientCapacity, \* of the client's buffer
    ClientSizes     \* the sizes of the packets it is sent

ASSUME ClientStreamAssumption ==
    /\ ClientCapacity \in Nat \ {0}
    /\ ClientSizes \subseteq HeaderSize..ClientCapacity

VARIABLE side

Server == INSTANCE ServerStream
Client == INSTANCE ClientStream
            WITH Capacity <- ClientCapacity, Sizes <- ClientSizes

IsServer == side = "server"
IsClient == side = "client"

InitSide == \/ IsServer /\ Server!Init
            \/ IsClient /\ Client!Init

Step ==
    /\ UNCHANGED side
    /\ \/ IsServer /\ Server!Next
       \/ IsClient /\ Client!Next

Spec == InitSide /\ [][Step]_<<vars, side>>

(* The bytes sent arrive, and the thread that receives runs on. *)
FairSpec ==
    /\ Spec
    /\ WF_<<vars, side>>(IsServer /\ Server!Worker /\ UNCHANGED side)
    /\ WF_<<vars, side>>(IsClient /\ Client!Worker /\ UNCHANGED side)
-----------------------------------------------------------------------------
(* Either buffer holds what has been received and not yet read, byte for    *)
(* byte, from where a packet begins, and is never written past its end      *)
(* (CircularBuffer.cpp:23-59, RecvBuffer.cs:33-62).                         *)
StaysFramed ==
    /\ IsServer => Server!Framed
    /\ IsClient => Client!Framed

(* The server calls a handler once for each packet, no sooner than it is   *)
(* there as a whole, and leaves none in the buffer; a handler that is      *)
(* given the bytes of one packet only is given the right one, and none is  *)
(* given a later one than its own (ClientSession.cpp:33, 43).              *)
ServerCountsPackets ==
    IsServer => Server!OncePerPacket /\ Server!LonePacketIntact

(* The server itself ends a connection only when its buffer is full to the *)
(* last byte with a part of a packet left (Session.cpp:221); the client,   *)
(* that moves what is left to the front, never does (RecvBuffer.cs:33).    *)
DropsOnlyWhenFull ==
    /\ IsServer => Server!DropsOnlyWhenFull
    /\ IsClient => isConnected \/ hangup

(* The server handles every packet sent, unless the connection ends. *)
EveryPacketHandled == IsServer => Server!EveryPacketHandled

(* The client delivers every packet, whole, once and in order, however the *)
(* stream is cut into receives, and never ends a connection itself         *)
(* (ServerSession.cs:40-59).                                               *)
Channel == INSTANCE PacketChannel
             WITH Sizes <- ClientSizes,
                  sent <- IF IsClient THEN sent ELSE <<>>,
                  delivered <- IF IsClient THEN handled ELSE <<>>
ReceivesPackets == Channel!FairSpec
=============================================================================
