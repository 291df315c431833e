---------------------------- MODULE ClientStream ----------------------------
(***************************************************************************)
(* How the Unity client receives: RecvBuffer.Clean and ServerSession.OnRecv*)
(* called by Session.OnRecvCompleted.  OnRecv hands each packet on by its  *)
(* own segment; handled is the numbers of the packets.                     *)
(***************************************************************************)
EXTENDS ReceiveBuffer

(* Fault: the segment does not move on, as in ClientSession::OnRecv. *)
OnRecvPacketFirst ==
    /\ busy
    /\ WholePacket
    /\ handled' = Append(handled, PacketAt(buffer[readPos]))
    /\ processLen' = processLen + SizeAt(buffer[readPos + processLen])
    /\ UNCHANGED <<peerVars, bufferVars, isConnected, busy>>

OnRecvPacket ==
    /\ busy
    /\ WholePacket
    /\ LET n == buffer[readPos + processLen] IN
        /\ handled' = Append(handled, PacketAt(n))
        /\ processLen' = processLen + SizeAt(n)
    /\ UNCHANGED <<peerVars, bufferVars, isConnected, busy>>

Clean(data) == MoveToFront(data)

(* OnRead, and the Clean of the next RegisterRecv. *)
EndRecv ==
    /\ busy
    /\ ~WholePacket
    /\ busy' = FALSE
    /\ Clean(DataSize - processLen)
    /\ UNCHANGED <<peerVars, received, isConnected, processLen, handled>>

Peer == Hangup \/ \E size \in Sizes : SendPacket(size)

Worker ==
    \/ \E n \in 1..Capacity : Receive(n)
    \/ ReceiveNothing
    \/ OnRecvPacket
    \/ EndRecv

Next == Peer \/ Worker

Spec == Init /\ [][Next]_vars

(* The bytes sent arrive, and the socket's thread runs on. *)
FairSpec == Spec /\ WF_vars(Worker)
=============================================================================
