---------------------------- MODULE ServerStream ----------------------------
(***************************************************************************)
(* How the game server receives: CircularBuffer::Clean and                 *)
(* ClientSession::OnRecv, called by Session::ProcessRecv.  The NPC server  *)
(* and the dummy client have copies of OnRecv.                             *)
(*                                                                         *)
(* OnRecv passes its buffer and len to HandlePacket for each packet it     *)
(* finds, not the place and size of that packet.  handled says for each    *)
(* call which packet's header stood first in what it was given, and how    *)
(* many bytes were there beyond that packet.                               *)
(***************************************************************************)
EXTENDS ReceiveBuffer

(* CircularBuffer::bufferSize, which no constructor sets. *)
bufferSize == 0

(* Fault: the buffer has moved on before the handler is called. *)
HandlePacketNext ==
    /\ busy
    /\ WholePacket
    /\ LET first == buffer[readPos + processLen] IN
        handled' = Append(handled, [packet |-> PacketAt(first) + 1,
                                    extra |-> DataSize - processLen - SizeAt(first)])
    /\ processLen' = processLen + SizeAt(buffer[readPos + processLen])
    /\ UNCHANGED <<peerVars, bufferVars, isConnected, busy>>

HandlePacket ==
    /\ busy
    /\ WholePacket
    /\ LET first == buffer[readPos] IN
        handled' = Append(handled, [packet |-> PacketAt(first),
                                    extra |-> DataSize - SizeAt(first)])
    /\ processLen' = processLen + SizeAt(buffer[readPos + processLen])
    /\ UNCHANGED <<peerVars, bufferVars, isConnected, busy>>

(* Fault: the positions are reset with a part of a packet still unread. *)
CleanAlways(data) ==
    /\ readPos' = 0
    /\ writePos' = 0
    /\ UNCHANGED buffer

(* Fault: the positions never go back. *)
CleanNever(data) ==
    /\ readPos' = readPos + processLen
    /\ UNCHANGED <<buffer, writePos>>

(* Clean, with data bytes unread: with bufferSize 0 it moves nothing. *)
Clean(data) ==
    IF data = 0 THEN readPos' = 0 /\ writePos' = 0 /\ UNCHANGED buffer
    ELSE IF FreeSize < bufferSize THEN MoveToFront(data)
    ELSE readPos' = readPos + processLen /\ UNCHANGED <<buffer, writePos>>

(* Fault: the loop may end after one packet. *)
EndRecvEarly ==
    /\ busy
    /\ processLen > 0 \/ ~WholePacket
    /\ busy' = FALSE
    /\ Clean(DataSize - processLen)
    /\ UNCHANGED <<peerVars, received, isConnected, processLen, handled>>

(* OnRecv returns processLen; ProcessRecv goes on with OnRead, Clean and   *)
(* PostRecv.                                                               *)
EndRecv ==
    /\ busy
    /\ ~WholePacket
    /\ busy' = FALSE
    /\ Clean(DataSize - processLen)
    /\ UNCHANGED <<peerVars, received, isConnected, processLen, handled>>

Peer == Hangup \/ \E size \in Sizes : SendPacket(size)

Worker ==
    \/ \E n \in 1..Capacity : Receive(n)
    \/ ReceiveNothing
    \/ HandlePacket
    \/ EndRecv

Next == Peer \/ Worker

Spec == Init /\ [][Next]_vars

(* The bytes sent arrive, and a worker runs on. *)
FairSpec == Spec /\ WF_vars(Worker)
-----------------------------------------------------------------------------
(* A handler that is given the bytes of one packet only is given the right *)
(* one, and no handler is given a packet that comes later than its own     *)
(* (ClientSession.cpp:43).                                                 *)
LonePacketIntact ==
    \A i \in 1..Len(handled) :
        /\ handled[i].packet <= i
        /\ handled[i].extra = 0 => handled[i].packet = i

(* The server itself ends a connection only when its buffer is full to the *)
(* last byte with a part of a packet left (Session.cpp:221).               *)
DropsOnlyWhenFull ==
    ~isConnected /\ ~hangup => FreeSize = 0 /\ DataSize > 0

(* Every packet sent is handled, unless the connection ends. *)
EveryPacketHandled ==
    \A k \in 1..MaxPackets : Len(sent) >= k ~> Len(handled) >= k \/ ~isConnected
=============================================================================
