---------------------------- MODULE ReceiveBuffer ----------------------------
(***************************************************************************)
(* A session's receive buffer and the stream of packets it receives:       *)
(* NetLib/CircularBuffer.cpp, and RecvBuffer.cs, which has the same        *)
(* positions and checks.  ServerStream and ClientStream add what differs,  *)
(* the compaction and the loop that cuts the bytes into packets.           *)
(*                                                                         *)
(* The stream is sent, the sizes of the packets in it.  A byte is          *)
(* represented by its place in the stream, so buffer says which byte of the*)
(* stream each place of the memory holds.                                  *)
(***************************************************************************)
EXTENDS Naturals, Sequences

CONSTANTS
    Capacity,       \* of the buffer, in bytes
    HeaderSize,     \* sizeof(PacketHeader)
    Sizes,          \* the sizes packets may have, the header included
    MaxPackets      \* bound: how many packets the peer sends

ASSUME BufferAssumption ==
    /\ Capacity \in Nat \ {0}
    /\ HeaderSize \in Nat \ {0}
    /\ Sizes \subseteq HeaderSize..Capacity
    /\ MaxPackets \in Nat

VARIABLES
    sent,           \* the peer's packets, as their sizes
    hangup,         \* the peer has closed the connection
    received,       \* bytes taken from the stream
    buffer,         \* the memory
    readPos,
    writePos,
    isConnected,
    busy,           \* the worker is in OnRecv; otherwise a receive is posted
    processLen,     \* of OnRecv: the bytes of the packets handled
    handled         \* history: what each call of a handler was given

peerVars == <<sent, hangup>>
bufferVars == <<received, buffer, readPos, writePos>>
vars == <<peerVars, bufferVars, isConnected, busy, processLen, handled>>

Init ==
    /\ sent = <<>> /\ hangup = FALSE
    /\ received = 0
    /\ buffer = [i \in 0..(Capacity - 1) |-> 0]
    /\ readPos = 0 /\ writePos = 0
    /\ isConnected = TRUE
    /\ busy = FALSE /\ processLen = 0
    /\ handled = <<>>

DataSize == writePos - readPos
FreeSize == Capacity - writePos
-----------------------------------------------------------------------------
(* The stream.  Offset[k] is where the packet after the k-th one starts.   *)
Offset ==
    LET end[k \in 0..Len(sent)] == IF k = 0 THEN 0 ELSE end[k - 1] + sent[k]
    IN end

Streamed == Offset[Len(sent)]
Starts == {Offset[k - 1] : k \in 1..Len(sent)}
PacketAt(n) == CHOOSE k \in 1..Len(sent) : Offset[k - 1] = n

(* The size a header names; taken for one, other bytes name any: here 1.   *)
SizeAt(n) == IF n \in Starts THEN sent[PacketAt(n)] ELSE 1

SendPacket(size) ==
    /\ ~hangup
    /\ Len(sent) < MaxPackets
    /\ sent' = Append(sent, size)
    /\ UNCHANGED <<hangup, bufferVars, isConnected, busy, processLen, handled>>

Hangup ==
    /\ ~hangup
    /\ hangup' = TRUE
    /\ UNCHANGED <<sent, bufferVars, isConnected, busy, processLen, handled>>
-----------------------------------------------------------------------------
(* A receive completes with n bytes, written where writePos stands. *)
Receive(n) ==
    /\ isConnected
    /\ ~busy
    /\ n <= FreeSize
    /\ received + n <= Streamed
    /\ buffer' = [i \in DOMAIN buffer |->
                    IF i \in writePos..(writePos + n - 1)
                    THEN received + (i - writePos) ELSE buffer[i]]
    /\ writePos' = writePos + n
    /\ received' = received + n
    /\ busy' = TRUE
    /\ processLen' = 0
    /\ UNCHANGED <<peerVars, readPos, isConnected, handled>>

(* A receive completes with no bytes: the peer has closed, or the receive  *)
(* was posted with no room left.                                           *)
ReceiveNothing ==
    /\ isConnected
    /\ ~busy
    /\ \/ hangup /\ received = Streamed
       \/ FreeSize = 0 /\ received < Streamed
    /\ isConnected' = FALSE
    /\ UNCHANGED <<peerVars, bufferVars, busy, processLen, handled>>

(* OnRecv finds a whole packet behind those it has handled. *)
WholePacket ==
    LET left == DataSize - processLen IN
    /\ left >= HeaderSize
    /\ left >= SizeAt(buffer[readPos + processLen])

(* The unread bytes are moved to the front. *)
MoveToFront(data) ==
    /\ buffer' = [i \in DOMAIN buffer |->
                    IF i < data THEN buffer[writePos - data + i] ELSE buffer[i]]
    /\ readPos' = 0
    /\ writePos' = data
-----------------------------------------------------------------------------
(* What the buffer holds is what has been received and not yet read, byte  *)
(* for byte, and it begins where a packet begins: neither the moves nor the*)
(* positions lose, repeat or overwrite a byte, however the stream is cut   *)
(* into receives (CircularBuffer.cpp:23-59).                               *)
Framed ==
    LET consumed == received - DataSize IN
    /\ writePos <= Capacity
    /\ \A i \in 0..(DataSize - 1) : buffer[readPos + i] = consumed + i
    /\ consumed + (IF busy THEN processLen ELSE 0) \in Starts \cup {Streamed}

(* A handler is called once for each packet, no sooner than it is there as *)
(* a whole, and none is left in the buffer when the next receive is posted *)
(* (ClientSession.cpp:33-45, ServerSession.cs:44-56).                      *)
OncePerPacket ==
    LET read == received - DataSize + (IF busy THEN processLen ELSE 0) IN
    /\ Len(handled) <= Len(sent) /\ Offset[Len(handled)] = read
    /\ ~busy => \A k \in 1..Len(sent) : Offset[k] <= received
                                            => k <= Len(handled)
=============================================================================
