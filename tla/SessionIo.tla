------------------------------ MODULE SessionIo ------------------------------
(***************************************************************************)
(* The life of one server session on the completion port: NetLib/Session   *)
(* with IocpManager's worker threads and SessionManager's active list.     *)
(*                                                                         *)
(* A session has one event object for its sends and one for its disconnect,*)
(* and every call that posts another one writes the same object.  Dispatch *)
(* returns false for an event without a sessionRef, and the worker thread  *)
(* that called it then ends (RETURN_ON_FAIL).                              *)
(*                                                                         *)
(* port counts the completions that wait for a worker, by kind: eof and    *)
(* sendFailed are those with no bytes.  A completion is handled by any     *)
(* worker, in any order.  The senders are the threads that call PostSend:  *)
(* the tick thread and workers busy with other sessions.                   *)
(***************************************************************************)
EXTENDS Naturals, FiniteSets

CONSTANTS
    Workers,        \* the threads of WorkerThreadFunc
    Senders,
    MaxSends,       \* bound: calls of WSASend
    MaxPackets      \* bound: receives that bring bytes

ASSUME SessionIoAssumption ==
    /\ Workers # {}
    /\ MaxSends \in Nat
    /\ MaxPackets \in Nat

Kinds == {"accept", "recv", "eof", "sent", "sendFailed", "disconnect"}
Sends == 1..MaxSends

VARIABLES
    link,           \* the connection: none, up, fin (closed by peer) or reset
    isConnected,
    active,         \* the session is in activeSessions
    port,
    receives,       \* WSARecvs under way
    packets,        \* receives completed with bytes
    sends,          \* WSASends called
    sending,        \* those under way
    sendRef,        \* sessionSendEvent.sessionRef is set
    sendBuffer,     \* the send whose buffer sessionSendEvent holds, 0 if none
    disconnectRef,  \* sessionDisconnectEvent.sessionRef is set
    disconnecting,  \* DisconnectExs under way
    shut,           \* one has succeeded: the socket is not connected
    sender,         \* where each sender is
    worker,         \* where each worker is
    disconnects,    \* how often OnDisconnected has run
    crashed,        \* a null sessionRef has been used, or an assertion failed
    overlapped,     \* history: a send was posted with one not yet dispatched
    raced           \* history: two PostDisconnects passed the check together

recvVars == <<receives, packets>>
sendVars == <<sends, sending, sendRef, sendBuffer, sender, overlapped>>
closeVars == <<disconnectRef, disconnecting, shut, disconnects, raced>>
vars == <<link, isConnected, active, port, recvVars, sendVars, closeVars, worker,
          crashed>>

TypeOK ==
    /\ link \in {"none", "up", "fin", "reset"}
    /\ port \in [Kinds -> Nat]
    /\ receives \in 0..1
    /\ packets \in 0..MaxPackets
    /\ sends \in 0..MaxSends
    /\ sending \subseteq Sends
    /\ sendBuffer \in 0..MaxSends
    /\ {disconnecting, disconnects} \subseteq Nat
    /\ sender \in [Senders -> {"idle", "checked"}]
    /\ worker \in [Workers -> {"waiting", "inOnRecv", "recvDisconnects",
                               "sendDisconnects", "closing", "lost"}]
    /\ {isConnected, active, sendRef, disconnectRef, shut, crashed, overlapped,
        raced} \subseteq BOOLEAN

Init ==
    /\ link = "none" /\ isConnected = FALSE /\ active = FALSE
    /\ port = [k \in Kinds |-> 0]
    /\ receives = 0 /\ packets = 0
    /\ sends = 0 /\ sending = {} /\ sendRef = FALSE /\ sendBuffer = 0
    /\ disconnectRef = FALSE /\ disconnecting = 0 /\ shut = FALSE
    /\ sender = [t \in Senders |-> "idle"]
    /\ worker = [w \in Workers |-> "waiting"]
    /\ disconnects = 0
    /\ crashed = FALSE /\ overlapped = FALSE /\ raced = FALSE

Down == link = "reset" \/ shut

Completed(kind) == port' = [port EXCEPT ![kind] = @ + 1]
-----------------------------------------------------------------------------
(* The peer, and the operations of the system completing. *)

Connects ==
    /\ link = "none"
    /\ link' = "up"
    /\ Completed("accept")
    /\ UNCHANGED <<isConnected, active, recvVars, sendVars, closeVars, worker,
                   crashed>>

PeerCloses ==
    /\ link = "up"
    /\ link' = "fin"
    /\ UNCHANGED <<isConnected, active, port, recvVars, sendVars, closeVars,
                   worker, crashed>>

LinkResets ==
    /\ link \in {"up", "fin"}
    /\ link' = "reset"
    /\ UNCHANGED <<isConnected, active, port, recvVars, sendVars, closeVars,
                   worker, crashed>>

RecvCompletes ==
    /\ receives > 0
    /\ receives' = receives - 1
    /\ \/ /\ ~Down
          /\ packets < MaxPackets
          /\ packets' = packets + 1
          /\ Completed("recv")
       \/ /\ link = "fin" \/ Down
          /\ Completed("eof")
          /\ UNCHANGED packets
    /\ UNCHANGED <<link, isConnected, active, sendVars, closeVars, worker,
                   crashed>>

SendCompletes(k) ==
    /\ k \in sending
    /\ sending' = sending \ {k}
    /\ \/ Completed("sent")
       \/ Down /\ Completed("sendFailed")
    /\ UNCHANGED <<link, isConnected, active, recvVars, sends, sendRef,
                   sendBuffer, sender, overlapped, closeVars, worker, crashed>>

DisconnectCompletes ==
    /\ disconnecting > 0
    /\ disconnecting' = disconnecting - 1
    /\ Completed("disconnect")
    /\ UNCHANGED <<link, isConnected, active, recvVars, sendVars, disconnectRef,
                   shut, disconnects, raced, worker, crashed>>
-----------------------------------------------------------------------------
(* PostSend: the check of isConnected, then the rest under sendLock. *)

SendLockFree == \A w \in Workers : worker[w] # "sendDisconnects"

PostSend(t) ==
    /\ sender[t] = "idle"
    /\ sends < MaxSends
    /\ active
    /\ isConnected
    /\ sender' = [sender EXCEPT ![t] = "checked"]
    /\ UNCHANGED <<link, isConnected, active, port, recvVars, sends, sending,
                   sendRef, sendBuffer, overlapped, closeVars, worker, crashed>>

Undispatched == sending # {} \/ port["sent"] + port["sendFailed"] > 0

(* Fault: WSA_IO_PENDING is taken for an error. *)
WSASendPendingFails(k) ==
    /\ sendRef' = FALSE
    /\ sending' = sending \cup {k}

WSASend(k) ==
    \/ /\ sendRef' = TRUE
       /\ sending' = sending \cup {k}
    \/ /\ Down
       /\ sendRef' = FALSE
       /\ UNCHANGED sending

SendLocked(t) ==
    /\ sender[t] = "checked"
    /\ sends < MaxSends
    /\ SendLockFree
    /\ sender' = [sender EXCEPT ![t] = "idle"]
    /\ sends' = sends + 1
    /\ sendBuffer' = sends + 1
    /\ WSASend(sends + 1)
    /\ overlapped' = (overlapped \/ Undispatched)
    /\ UNCHANGED <<link, isConnected, active, port, recvVars, closeVars, worker,
                   crashed>>
-----------------------------------------------------------------------------
(* The workers. *)

Dequeue(w, kind) ==
    /\ worker[w] = "waiting"
    /\ port[kind] > 0
    /\ port' = [port EXCEPT ![kind] = @ - 1]

Goes(w, to) == worker' = [worker EXCEPT ![w] = to]

(* PostRecv: it may fail at once when the socket is down. *)
PostRecv ==
    \/ isConnected' /\ receives' = receives + 1
    \/ ~isConnected' /\ UNCHANGED receives
    \/ Down /\ UNCHANGED receives

(* Fault: no receive is posted. *)
ProcessAcceptOnly(w) ==
    /\ Dequeue(w, "accept")
    /\ isConnected' = TRUE
    /\ active' = TRUE
    /\ UNCHANGED <<link, recvVars, sendVars, closeVars, worker, crashed>>

(* getpeername fails if the peer is gone, and the rest is left out. *)
ProcessAccept(w) ==
    /\ Dequeue(w, "accept")
    /\ isConnected' = TRUE
    /\ \/ active' = TRUE /\ PostRecv
       \/ Down /\ UNCHANGED <<active, receives>>
    /\ UNCHANGED <<link, packets, sendVars, closeVars, worker, crashed>>

(* Fault: the next receive is posted before the bytes are handled. *)
ProcessRecvPostsFirst(w) ==
    /\ Dequeue(w, "recv")
    /\ UNCHANGED isConnected
    /\ PostRecv
    /\ Goes(w, "inOnRecv")
    /\ UNCHANGED <<link, active, packets, sendVars, closeVars, crashed>>

ProcessRecv(w) ==
    /\ Dequeue(w, "recv")
    /\ Goes(w, "inOnRecv")
    /\ UNCHANGED <<link, isConnected, active, recvVars, sendVars, closeVars,
                   crashed>>

EndOnRecv(w) ==
    /\ worker[w] = "inOnRecv"
    /\ Goes(w, "waiting")
    /\ UNCHANGED isConnected
    /\ PostRecv
    /\ UNCHANGED <<link, active, port, packets, sendVars, closeVars, crashed>>

(* Fault: a receive with no bytes is passed over. *)
ProcessEofIgnored(w) ==
    /\ Dequeue(w, "eof")
    /\ UNCHANGED <<link, isConnected, active, recvVars, sendVars, closeVars,
                   worker, crashed>>

(* A receive with no bytes: PostDisconnect up to its check. *)
ProcessEof(w) ==
    /\ Dequeue(w, "eof")
    /\ Goes(w, IF isConnected THEN "recvDisconnects" ELSE "waiting")
    /\ UNCHANGED <<link, isConnected, active, recvVars, sendVars, closeVars,
                   crashed>>

(* A send completed, with bytes or without. *)
ProcessSend(w, kind) ==
    /\ kind \in {"sent", "sendFailed"}
    /\ Dequeue(w, kind)
    /\ SendLockFree
    /\ Goes(w, IF ~sendRef THEN "lost"
               ELSE IF kind = "sendFailed" /\ isConnected THEN "sendDisconnects"
               ELSE "waiting")
    /\ UNCHANGED <<link, isConnected, active, recvVars, sendVars, closeVars,
                   crashed>>

(* The rest of PostDisconnect.  DisconnectEx may fail on a socket that is  *)
(* down already.                                                           *)
PostDisconnect(w) ==
    /\ worker[w] \in {"recvDisconnects", "sendDisconnects"}
    /\ Goes(w, "waiting")
    /\ isConnected' = FALSE
    /\ raced' = (raced \/ ~isConnected)
    /\ \/ /\ disconnectRef' = TRUE
          /\ disconnecting' = disconnecting + 1
          /\ shut' = TRUE
       \/ /\ Down
          /\ disconnectRef' = FALSE
          /\ UNCHANGED <<disconnecting, shut>>
    /\ UNCHANGED <<link, active, port, recvVars, sendVars, disconnects, crashed>>

(* Dispatch takes the sessionRef of the event ... *)
DispatchDisconnect(w) ==
    /\ Dequeue(w, "disconnect")
    /\ Goes(w, IF disconnectRef THEN "closing" ELSE "lost")
    /\ UNCHANGED <<link, isConnected, active, recvVars, sendVars, closeVars,
                   crashed>>

(* ... and ProcessDisconnect uses it again before it clears it.            *)
(* OnDisconnected asserts that the session is in activeSessions.           *)
ProcessDisconnect(w) ==
    /\ worker[w] = "closing"
    /\ Goes(w, "waiting")
    /\ disconnectRef' = FALSE
    /\ IF disconnectRef /\ active
       THEN disconnects' = disconnects + 1 /\ UNCHANGED crashed
       ELSE crashed' = TRUE /\ UNCHANGED disconnects
    /\ UNCHANGED <<link, isConnected, active, port, recvVars, sendVars,
                   disconnecting, shut, raced>>
-----------------------------------------------------------------------------
System ==
    \/ RecvCompletes
    \/ \E k \in Sends : SendCompletes(k)
    \/ DisconnectCompletes

Worker(w) ==
    \/ ProcessAccept(w)
    \/ ProcessRecv(w) \/ EndOnRecv(w)
    \/ ProcessEof(w)
    \/ \E kind \in Kinds : ProcessSend(w, kind)
    \/ PostDisconnect(w)
    \/ DispatchDisconnect(w) \/ ProcessDisconnect(w)

Sender(t) == PostSend(t) \/ SendLocked(t)

Next ==
    /\ ~crashed
    /\ \/ Connects \/ PeerCloses \/ LinkResets
       \/ System
       \/ \E w \in Workers : Worker(w)
       \/ \E t \in Senders : Sender(t)

Spec == Init /\ [][Next]_vars

(* What has been posted completes, and the workers wait on the port.  No   *)
(* one has to send.                                                        *)
Fairness ==
    /\ WF_vars(~crashed /\ System)
    /\ \A w \in Workers : WF_vars(~crashed /\ Worker(w))

FairSpec == Spec /\ Fairness
-----------------------------------------------------------------------------
Receiving ==
    receives + port["recv"] + port["eof"]
        + Cardinality({w \in Workers :
                         worker[w] \in {"inOnRecv", "recvDisconnects"}})

(* A session has one receive under way or being handled at most, so that   *)
(* its packets are handled one at a time and in order, on whichever workers*)
(* (Session.cpp:218-244); recvLock has nothing to protect.                 *)
OneReceive == Receiving <= 1

(* An accepted session that is connected has a receive under way; it is    *)
(* left deaf, with nobody to disconnect it, only by a reset                *)
(* (Session.cpp:80-88: a failed PostRecv is passed over).                  *)
DeafNeedsReset == isConnected /\ Receiving = 0 /\ active => link = "reset"

(* Only two schedules lead to a worker thread that ends, a null sessionRef *)
(* that is used, a second OnDisconnected or a send under way whose buffer  *)
(* the event has let go: a PostSend before the completion of the last send *)
(* was dispatched, and two PostDisconnects that both found isConnected set *)
(* (Session.cpp:22-51, 152-172; IocpManager.cpp:168).                      *)
FaultsNeedOverlap ==
    \/ crashed
    \/ disconnects > 1
    \/ \E w \in Workers : worker[w] = "lost"
    \/ \E k \in sending : k # sendBuffer
    => overlapped \/ raced

(* When the client closes the connection, OnDisconnected is called, unless *)
(* the link is reset first or one of the two schedules above gets in the   *)
(* way (Session.cpp:221-225, 256-265).                                     *)
CloseIsSeen ==
    link = "fin" ~> disconnects > 0 \/ link = "reset" \/ overlapped \/ raced
=============================================================================
