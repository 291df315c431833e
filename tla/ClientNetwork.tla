---------------------------- MODULE ClientNetwork ----------------------------
(***************************************************************************)
(* The network layer of the Unity client: ServerCore/Session.cs with its   *)
(* send queue and pending list, Connector.cs, ServerSession.OnConnected,   *)
(* PacketManager, PacketQueue.cs and NetworkManager.Update.                *)
(*                                                                         *)
(* Three kinds of thread are at work.  Unity's main thread calls Send, pops*)
(* the packet queue once a frame and runs the handlers of what it popped.  *)
(* The threads of the socket complete connects, sends and receives.  Send  *)
(* and its completion hold Session._lock; registering is who is inside     *)
(* RegisterSend with it, past the draining of the queue and before         *)
(* SendAsync.  Disconnect sets _disconnected and closes the socket without *)
(* the lock and takes it only to clear the lists.                          *)
(*                                                                         *)
(* A packet is a model value; a request and the reply to it have the same  *)
(* name.  One receive brings one packet: were there more, an exception in  *)
(* a handler would lose those behind it, as does the receiving that stops. *)
(***************************************************************************)
EXTENDS Naturals, Sequences, SequencesExt

CONSTANTS
    Clicks,         \* what the user asks for, each once: buttons of UI_Login
    Login,          \* the one among them whose reply makes the client ask
    Enter,          \* to enter the game
    Notices,        \* what the server sends of its own, once in the game
    LogsOnly,       \* replies whose handler calls nothing of Unity but the log
    Faulty          \* packets whose handler throws (ObjectManager.Add does)

ASSUME ClientAssumption ==
    /\ Login \in Clicks
    /\ Enter \notin Clicks \cup Notices
    /\ Clicks \cap Notices = {}
    /\ LogsOnly \subseteq Clicks \ {Login}
    /\ Faulty \subseteq Notices

Requests == Clicks \cup {Enter}
Packets == Requests \cup Notices

VARIABLES
    phase,          \* of the connect: _socket is null, set, OnConnected called
    teardown,       \* of Disconnect: _disconnected set, socket closed, cleared
    sendQueue,      \* Session._sendQueue
    pendingList,    \* Session._pendingList
    registering,    \* who is about to call SendAsync
    flight,         \* the buffers of the SendAsync under way
    recv,           \* whether a ReceiveAsync is posted
    packetQueue,    \* PacketQueue._packetQueue
    frame,          \* what is left of the list of NetworkManager.Update
    up,             \* the link to the server
    wire,           \* what the server has received, in order
    answered,       \* what the server has sent
    inbox,          \* sent by the server and not yet received
    submitted,      \* history: what Send was called with
    received,       \* history: what was received
    handled,        \* history: what a handler was run for, to its end
    dropped,        \* history: what an exception has lost
    early           \* history: the user has clicked before OnConnected

sendVars == <<sendQueue, pendingList, registering, submitted>>
serverVars == <<up, wire, answered, inbox>>
mainVars == <<packetQueue, frame, handled, dropped>>
netVars == <<phase, teardown, sendVars, flight, recv, serverVars, mainVars,
          received, early>>

NetworkTypeOK ==
    /\ phase \in {"connecting", "started", "announced"}
    /\ teardown \in {"none", "flagged", "closed", "cleared"}
    /\ {sendQueue, pendingList, flight, wire, submitted} \subseteq Seq(Requests)
    /\ registering \in {"nobody", "main", "socket"}
    /\ recv \in {"none", "posted", "stopped"}
    /\ {packetQueue, frame, inbox, received, handled} \subseteq Seq(Packets)
    /\ {up, early} \subseteq BOOLEAN
    /\ answered \subseteq Packets
    /\ dropped \subseteq Packets

InitNetwork ==
    /\ phase = "connecting"
    /\ teardown = "none"
    /\ sendQueue = <<>> /\ pendingList = <<>> /\ flight = <<>>
    /\ registering = "nobody"
    /\ recv = "none"
    /\ packetQueue = <<>> /\ frame = <<>>
    /\ up = TRUE
    /\ wire = <<>> /\ inbox = <<>> /\ answered = {}
    /\ submitted = <<>> /\ received = <<>> /\ handled = <<>>
    /\ dropped = {}
    /\ early = FALSE
-----------------------------------------------------------------------------
(* Connector.OnConnectCompleted: Session.Start, which posts a receive, and *)
(* only then OnConnected, which directs packets to the packet queue.       *)

Start ==
    /\ phase = "connecting"
    /\ phase' = "started"
    /\ recv' = "posted"
    /\ UNCHANGED <<teardown, sendVars, flight, serverVars, mainVars, received,
                   early>>

OnConnected ==
    /\ phase = "started"
    /\ phase' = "announced"
    /\ UNCHANGED <<teardown, sendVars, flight, recv, serverVars, mainVars,
                   received, early>>
-----------------------------------------------------------------------------
(* Sending. *)

(* RegisterSend up to SendAsync, nothing being pending. *)
RegisterSend(queue, who) ==
    IF teardown = "none"
    THEN /\ sendQueue' = <<>>
         /\ pendingList' = queue
         /\ registering' = who
    ELSE /\ sendQueue' = queue
         /\ pendingList' = <<>>
         /\ registering' = "nobody"

Send(p) ==
    /\ registering = "nobody"
    /\ submitted' = Append(submitted, p)
    /\ IF pendingList = <<>>
       THEN RegisterSend(Append(sendQueue, p), "main")
       ELSE /\ sendQueue' = Append(sendQueue, p)
            /\ UNCHANGED <<pendingList, registering>>

CanSend ==
    /\ phase # "connecting"
    /\ teardown \in {"none", "flagged"}
    /\ flight = <<>>

(* SendAsync throws with no socket, with a closed one, and while the       *)
(* SocketAsyncEventArgs is in use.  The exception is logged; the pending   *)
(* list stays as it is.                                                    *)
SendAsync ==
    /\ registering # "nobody"
    /\ registering' = "nobody"
    /\ flight' = IF CanSend THEN pendingList ELSE flight
    /\ UNCHANGED <<phase, teardown, sendQueue, pendingList, submitted, recv,
                   serverVars, mainVars, received, early>>

(* Fault: what was queued meanwhile is left to the next Send. *)
SendNextLater ==
    /\ pendingList' = <<>>
    /\ UNCHANGED <<sendQueue, registering>>

(* Fault: the pending list is not cleared. *)
SendNextKeepsPending ==
    IF sendQueue # <<>>
    THEN RegisterSend(pendingList \o sendQueue, "socket")
    ELSE pendingList' = <<>> /\ UNCHANGED <<sendQueue, registering>>

SendNext ==
    IF sendQueue # <<>>
    THEN RegisterSend(sendQueue, "socket")
    ELSE pendingList' = <<>> /\ UNCHANGED <<sendQueue, registering>>

OnSendCompleted ==
    /\ flight # <<>>
    /\ registering = "nobody"
    /\ up
    /\ wire' = wire \o flight
    /\ flight' = <<>>
    /\ SendNext
    /\ UNCHANGED <<phase, teardown, submitted, recv, up, answered, inbox,
                   mainVars, received, early>>

(* The send fails.  Disconnect runs to its end under the lock, unless it   *)
(* has been called before.                                                 *)
OnSendFailed ==
    /\ flight # <<>>
    /\ registering = "nobody"
    /\ ~up \/ teardown \in {"closed", "cleared"}
    /\ flight' = <<>>
    /\ IF teardown = "none"
       THEN teardown' = "cleared" /\ sendQueue' = <<>> /\ pendingList' = <<>>
       ELSE UNCHANGED <<teardown, sendQueue, pendingList>>
    /\ UNCHANGED <<phase, registering, submitted, recv, serverVars, mainVars,
                   received, early>>
-----------------------------------------------------------------------------
(* Receiving. *)

Push(p) == packetQueue' = Append(packetQueue, p)

(* MakePacket: into the queue once OnConnected has set CustomHandler; until*)
(* then the handler is run here, off the main thread, where Unity refuses. *)
MakePacket(p) ==
    IF phase = "announced"
    THEN Push(p) /\ UNCHANGED <<handled, dropped>>
    ELSE /\ UNCHANGED packetQueue
         /\ IF p \in LogsOnly
            THEN handled' = Append(handled, p) /\ UNCHANGED dropped
            ELSE dropped' = dropped \cup {p} /\ UNCHANGED handled

(* An exception leaves OnRecvCompleted without a RegisterRecv. *)
OnRecvCompleted ==
    /\ recv = "posted"
    /\ inbox # <<>>
    /\ up
    /\ LET p == Head(inbox) IN
        /\ received' = Append(received, p)
        /\ MakePacket(p)
        /\ recv' = IF teardown = "none" /\ p \notin dropped'
                   THEN "posted" ELSE "stopped"
    /\ inbox' = Tail(inbox)
    /\ UNCHANGED <<phase, teardown, sendVars, flight, up, wire, answered, frame,
                   early>>

OnRecvFailed ==
    /\ recv = "posted"
    /\ ~up \/ teardown \in {"closed", "cleared"}
    /\ recv' = "stopped"
    /\ teardown' = IF teardown = "none" THEN "flagged" ELSE teardown
    /\ UNCHANGED <<phase, sendVars, flight, serverVars, mainVars, received,
                   early>>

(* The rest of the Disconnect that OnRecvFailed has called. *)
Close ==
    /\ teardown = "flagged"
    /\ teardown' = "closed"
    /\ UNCHANGED <<phase, sendVars, flight, recv, serverVars, mainVars, received,
                   early>>

Clear ==
    /\ teardown = "closed"
    /\ registering = "nobody"
    /\ teardown' = "cleared"
    /\ sendQueue' = <<>>
    /\ pendingList' = <<>>
    /\ UNCHANGED <<phase, registering, submitted, flight, recv, serverVars,
                   mainVars, received, early>>
-----------------------------------------------------------------------------
(* Unity's main thread. *)

MainFree == registering # "main"

Click(p) ==
    /\ MainFree
    /\ frame = <<>>
    /\ ~Contains(submitted, p)
    /\ Send(p)
    /\ early' = (early \/ phase # "announced")
    /\ UNCHANGED <<phase, teardown, flight, recv, serverVars, mainVars, received>>

(* Fault: one packet a frame, the rest is cleared. *)
PopAllFirstOnly ==
    /\ frame' = SubSeq(packetQueue, 1, 1)
    /\ packetQueue' = <<>>

(* Fault: the packets are read and not dequeued. *)
PopAllKeepsQueue ==
    /\ frame' = packetQueue
    /\ UNCHANGED packetQueue

PopAll ==
    /\ frame' = packetQueue
    /\ packetQueue' = <<>>

UpdateNetwork ==
    /\ MainFree
    /\ frame = <<>>
    /\ packetQueue # <<>>
    /\ PopAll
    /\ UNCHANGED <<phase, teardown, sendVars, flight, recv, serverVars, handled,
                   dropped, received, early>>

Handler(p) ==
    /\ frame' = Tail(frame)
    /\ handled' = Append(handled, p)
    /\ UNCHANGED dropped
    /\ IF p = Login THEN Send(Enter) ELSE UNCHANGED sendVars

(* An exception leaves Update, and the popped packets with it. *)
HandlerThrows ==
    /\ frame' = <<>>
    /\ dropped' = dropped \cup ToSet(frame)
    /\ UNCHANGED <<handled, sendVars>>

HandleNext ==
    /\ MainFree
    /\ frame # <<>>
    /\ IF Head(frame) \in Faulty THEN HandlerThrows ELSE Handler(Head(frame))
    /\ UNCHANGED <<phase, teardown, flight, recv, serverVars, packetQueue,
                   received, early>>
-----------------------------------------------------------------------------
(* The server and the link.  The server may leave a request unanswered:   *)
(* its handler is never given the second packet of a receive               *)
(* (ClientSession.cpp:43), and drops a long join (ClientPacketHandler.cpp: *)
(* 73).                                                                    *)

SendsToClient(p) ==
    /\ up
    /\ p \notin answered
    /\ answered' = answered \cup {p}
    /\ inbox' = Append(inbox, p)
    /\ UNCHANGED <<phase, teardown, sendVars, flight, recv, up, wire, mainVars,
                   received, early>>

Reply(p) == Contains(wire, p) /\ SendsToClient(p)
Notify(p) == Enter \in answered /\ SendsToClient(p)

LinkDrops ==
    /\ up
    /\ phase # "connecting"
    /\ up' = FALSE
    /\ UNCHANGED <<phase, teardown, sendVars, flight, recv, wire, answered,
                   inbox, mainVars, received, early>>
-----------------------------------------------------------------------------
SocketThreads ==
    \/ Start \/ OnConnected
    \/ SendAsync \/ OnSendCompleted \/ OnSendFailed
    \/ OnRecvCompleted \/ OnRecvFailed \/ Close \/ Clear

MainThread == UpdateNetwork \/ HandleNext

Server == \E p \in Requests : Reply(p)

NextNetwork ==
    \/ SocketThreads
    \/ MainThread
    \/ Server
    \/ \E p \in Clicks : Click(p)
    \/ \E p \in Notices : Notify(p)
    \/ LinkDrops

NetworkSpec == InitNetwork /\ [][NextNetwork]_netVars

(* A connect, a send and a receive complete, a thread inside a call runs   *)
(* on, and Unity calls Update every frame.  The server is free to be       *)
(* silent.                                                                 *)
NetworkFairness ==
    /\ WF_netVars(Start) /\ WF_netVars(OnConnected)
    /\ WF_netVars(SendAsync)
    /\ WF_netVars(OnSendCompleted \/ OnSendFailed)
    /\ WF_netVars(OnRecvCompleted \/ OnRecvFailed)
    /\ WF_netVars(Close) /\ WF_netVars(Clear)
    /\ WF_netVars(MainThread)
-----------------------------------------------------------------------------
(* What Send was given reaches the server once each and in order, however  *)
(* sends and completions interleave; as long as the session is not         *)
(* disconnected, what has not reached it is pending or queued; and nobody  *)
(* calls SendAsync while its one SocketAsyncEventArgs is in use, also not  *)
(* when a Disconnect has cleared the pending list under a send             *)
(* (Session.cs:54, 59-129).                                                *)
SentInOrder ==
    /\ registering # "nobody" => flight = <<>>
    /\ IsPrefix(wire, submitted)
    /\ teardown = "none" => submitted = wire \o pendingList \o sendQueue

(* What s has of t is in the order it has in t. *)
InOrderOf(s, t) ==
    \A i, j \in DOMAIN s : i < j =>
        \E k, l \in DOMAIN t : k < l /\ t[k] = s[i] /\ t[l] = s[j]

(* The packets received are handled once each and in the order received,   *)
(* but for those an exception has lost, although two threads handle them   *)
(* before and after OnConnected: the handled and the waiting ones together *)
(* are the received ones less the lost ones (PacketQueue.cs,               *)
(* PacketManager.MakePacket).                                              *)
HandledOnceInOrder ==
    LET all == handled \o frame \o packetQueue
    IN  /\ ToSet(all) = ToSet(received) \ dropped
        /\ IsInjective(all)
        /\ InOrderOf(all, received)

(* The connection goes dead without a disconnect -- packets left that no   *)
(* completion will send, or no receive posted -- only after a click that   *)
(* came before OnConnected: SendAsync on a null _socket, or a handler run  *)
(* on the socket's thread (Session.cs:99, 178).                            *)
HangNeedsEarlyClick ==
    /\ teardown = "none"
    /\ \/ /\ pendingList \o sendQueue # <<>>
          /\ flight = <<>> /\ registering = "nobody"
       \/ recv = "stopped"
    => early

(* Nothing is left in a queue by the hand-overs between the threads: every *)
(* request of a user who waits for the connection, and the                 *)
(* RequestEnterGame that follows a login, reaches the server, and all that *)
(* the server sends is handled, unless the link drops or the handler of    *)
(* another packet, popped before it in the same frame, has thrown.         *)
Delivered ==
    /\ \A p \in Requests :
           Contains(submitted, p) ~> Contains(wire, p) \/ ~up \/ early
    /\ \A p \in Packets :
           p \in answered ~>
               Contains(handled, p) \/ p \in dropped \/ ~up \/ early
=============================================================================
