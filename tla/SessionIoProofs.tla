--------------------------- MODULE SessionIoProofs ---------------------------
(***************************************************************************)
(* OneReceive, DeafNeedsReset and FaultsNeedOverlap, for any number of     *)
(* workers, senders, sends and packets.                                    *)
(*                                                                         *)
(* The receive of a session is passed on like a token: from the accept to  *)
(* the receive under way, to its completion, to the worker that handles    *)
(* it, and back.  As long as no two sends and no two disconnects overlap,  *)
(* the same is true of the one send and of the one disconnect.             *)
(***************************************************************************)
EXTENDS SessionIo, FiniteSetTheorems, TLAPS

(* The workers that have the receive, and those that have the disconnect.  *)
ReceiveHolders == {w \in Workers : worker[w] \in {"inOnRecv", "recvDisconnects"}}
DisconnectHolders == {w \in Workers : worker[w] = "closing"}

(* At most one worker is in the set, and none if n is not 0. *)
AtMostOne(holders, n) ==
    /\ n <= 1
    /\ \A w \in holders : n = 0 /\ holders = {w}

(* Until it is accepted a session has had no I/O at all. *)
NotAccepted == link = "none" \/ port["accept"] > 0
AcceptFirst ==
    /\ link = "none" => port["accept"] = 0
    /\ port["accept"] <= 1
    /\ NotAccepted =>
           /\ ~isConnected /\ ~active
           /\ receives + port["recv"] + port["eof"] = 0
    /\ ~active =>
           /\ receives + port["recv"] + port["eof"] = 0
           /\ port["sent"] + port["sendFailed"] = 0 /\ sending = {}
           /\ port["disconnect"] + disconnecting + disconnects = 0 /\ ~shut
           /\ \A t \in Senders : sender[t] = "idle"
           /\ \A w \in Workers : worker[w] = "waiting"
    /\ shut => ~isConnected

ReceivePassedOn ==
    AtMostOne(ReceiveHolders, receives + port["recv"] + port["eof"])

DeafAfterReset ==
    isConnected /\ active /\ ReceiveHolders = {}
        /\ receives + port["recv"] + port["eof"] = 0
    => link = "reset"

(* The one send: under way with its buffer, or waiting for its dispatch. *)
SendPassedOn ==
    ~overlapped =>
        /\ \A k \in sending :
               k = sendBuffer /\ port["sent"] + port["sendFailed"] = 0
        /\ port["sent"] + port["sendFailed"] <= 1
        /\ Undispatched => sendRef

(* The one disconnect: under way, waiting, being handled or done. *)
DisconnectPassedOn ==
    ~raced =>
        /\ AtMostOne(DisconnectHolders,
                     disconnecting + port["disconnect"] + disconnects)
        /\ disconnecting + port["disconnect"] > 0 \/ DisconnectHolders # {}
               => disconnectRef
        /\ disconnecting + port["disconnect"] + disconnects > 0
               \/ DisconnectHolders # {}
               => ~isConnected

NothingLost ==
    ~overlapped /\ ~raced => ~crashed /\ \A w \in Workers : worker[w] # "lost"

IoInv ==
    /\ TypeOK
    /\ AcceptFirst /\ ReceivePassedOn /\ DeafAfterReset
    /\ SendPassedOn /\ DisconnectPassedOn /\ NothingLost
-----------------------------------------------------------------------------
(* What TypeOK says of the variables one by one, before and after a step. *)
Types ==
    /\ link \in {"none", "up", "fin", "reset"}
    /\ port \in [Kinds -> Nat]
    /\ receives \in 0 .. 1 /\ packets \in 0 .. MaxPackets
    /\ sends \in 0 .. MaxSends /\ sending \subseteq Sends
    /\ sendBuffer \in 0 .. MaxSends
    /\ disconnecting \in Nat /\ disconnects \in Nat
    /\ sender \in [Senders -> {"idle", "checked"}]
    /\ worker \in [Workers -> {"waiting", "inOnRecv", "recvDisconnects",
                               "sendDisconnects", "closing", "lost"}]
    /\ isConnected \in BOOLEAN /\ active \in BOOLEAN /\ sendRef \in BOOLEAN
    /\ disconnectRef \in BOOLEAN /\ shut \in BOOLEAN /\ crashed \in BOOLEAN
    /\ overlapped \in BOOLEAN /\ raced \in BOOLEAN

(* What TypeOK says of the completions, one by one. *)
LEMMA PortTypes ==
  ASSUME TypeOK
  PROVE  /\ {"accept", "recv", "eof", "sent", "sendFailed", "disconnect"} \subseteq Kinds
         /\ \A k \in Kinds : port[k] \in Nat
         /\ port["accept"] \in Nat /\ port["recv"] \in Nat /\ port["eof"] \in Nat
         /\ port["sent"] \in Nat /\ port["sendFailed"] \in Nat
         /\ port["disconnect"] \in Nat
         /\ disconnecting \in Nat /\ disconnects \in Nat
         /\ receives \in Nat
  BY DEF TypeOK, Kinds

(* At most one worker has the receive, so the count of them is 0 or 1. *)
LEMMA ReceivingCount ==
  ASSUME TypeOK, ReceivePassedOn
  PROVE  /\ Receiving \in Nat /\ Receiving <= 1
         /\ Receiving = 0 => /\ ReceiveHolders = {}
                             /\ receives + port["recv"] + port["eof"] = 0
<1>1. receives + port["recv"] + port["eof"] \in Nat
  BY PortTypes
<1>2. Receiving = receives + port["recv"] + port["eof"] + Cardinality(ReceiveHolders)
  BY DEF Receiving, ReceiveHolders
<1>3. CASE ReceiveHolders = {}
  <2>1. Cardinality(ReceiveHolders) = 0
    BY <1>3, FS_EmptySet
  <2>2. QED BY <1>1, <1>2, <1>3, <2>1 DEF ReceivePassedOn, AtMostOne
<1>4. ASSUME NEW w \in ReceiveHolders
      PROVE  Receiving = 1
  <2>1. ReceiveHolders = {w} /\ receives + port["recv"] + port["eof"] = 0
    BY <1>4 DEF ReceivePassedOn, AtMostOne
  <2>2. Cardinality(ReceiveHolders) = 1
    BY <2>1, FS_Singleton
  <2>3. QED BY <1>2, <2>1, <2>2
<1>5. QED BY <1>3, <1>4

(* The receive, the send and the disconnect of a session are passed on, in *)
(* every schedule of the workers and the senders.                          *)
LEMMA IoInvariant == Spec => []IoInv
  (* The types variable by variable. *)
<1>types. (TypeOK <=> Types) /\ (TypeOK' <=> Types')
  BY DEF TypeOK, Types
  (* A completion posted or dequeued changes one count, a worker that goes *)
  (* on changes the holders it belongs to.                                 *)
<1>ports. ASSUME TypeOK, NEW kind \in Kinds
          PROVE  /\ Completed(kind) =>
                        /\ port' \in [Kinds -> Nat]
                        /\ \A k \in Kinds : port'[k] = IF k = kind THEN port[k] + 1
                                                       ELSE port[k]
                 /\ \A w : Dequeue(w, kind) =>
                        /\ port' \in [Kinds -> Nat]
                        /\ worker[w] = "waiting" /\ port[kind] > 0
                        /\ \A k \in Kinds : port'[k] = IF k = kind THEN port[k] - 1
                                                       ELSE port[k]
  BY <1>ports DEF TypeOK, Completed, Dequeue
<1>goes. ASSUME TypeOK, NEW w \in Workers,
                NEW to \in {"waiting", "inOnRecv", "recvDisconnects", "sendDisconnects",
                            "closing", "lost"},
                Goes(w, to)
         PROVE  /\ worker' \in [Workers -> {"waiting", "inOnRecv", "recvDisconnects",
                                            "sendDisconnects", "closing", "lost"}]
                /\ \A v \in Workers : worker'[v] = IF v = w THEN to ELSE worker[v]
                /\ ReceiveHolders' = IF to \in {"inOnRecv", "recvDisconnects"}
                                     THEN ReceiveHolders \cup {w} ELSE ReceiveHolders \ {w}
                /\ DisconnectHolders' = IF to = "closing"
                                        THEN DisconnectHolders \cup {w}
                                        ELSE DisconnectHolders \ {w}
  <2> USE <1>goes
  <2>1. /\ worker' \in [Workers -> {"waiting", "inOnRecv", "recvDisconnects",
                                    "sendDisconnects", "closing", "lost"}]
        /\ \A v \in Workers : worker'[v] = IF v = w THEN to ELSE worker[v]
    BY DEF TypeOK, Goes
  <2>2. QED BY <2>1 DEF ReceiveHolders, DisconnectHolders
  (* The peer, and the operations of the system that complete: a receive,  *)
  (* a send or a disconnect goes from under way to posted.                 *)
<1>system. ASSUME IoInv, Connects \/ PeerCloses \/ LinkResets \/ System
           PROVE  IoInv'
  <2> USE <1>system
  <2> USE DEF IoInv
  <2>0. /\ {"accept", "recv", "eof", "sent", "sendFailed", "disconnect"} \subseteq Kinds
        /\ \A k \in Kinds : port[k] \in Nat
        /\ port["accept"] \in Nat /\ port["recv"] \in Nat /\ port["eof"] \in Nat
        /\ port["sent"] \in Nat /\ port["sendFailed"] \in Nat
        /\ port["disconnect"] \in Nat
        /\ disconnecting \in Nat /\ disconnects \in Nat
        /\ receives \in Nat
    BY PortTypes
  <2>1. CASE Connects
    <3>1. /\ port' \in [Kinds -> Nat]
          /\ \A k \in Kinds : port'[k] = IF k = "accept" THEN port[k] + 1 ELSE port[k]
      BY <2>0, <2>1, <1>ports DEF Connects
    <3>2. /\ link = "none" /\ link' = "up"
          /\ UNCHANGED <<isConnected, active, receives, packets, sends, sending,
                         sendRef, sendBuffer, sender, overlapped, disconnectRef,
                         disconnecting, shut, disconnects, raced, worker, crashed>>
      BY <2>1 DEF Connects, recvVars, sendVars, closeVars
    <3>3. TypeOK'
      BY <3>1, <3>2, <1>types DEF Types
    <3>4. AcceptFirst'
      <4>1. /\ port["accept"] = 0 /\ port'["accept"] = 1
            /\ port'["recv"] = port["recv"] /\ port'["eof"] = port["eof"]
            /\ port'["sent"] = port["sent"] /\ port'["sendFailed"] = port["sendFailed"]
            /\ port'["disconnect"] = port["disconnect"]
        BY <2>0, <3>1, <3>2 DEF AcceptFirst
      <4>2. QED BY <3>2, <4>1 DEF AcceptFirst, NotAccepted
    <3>5. ReceivePassedOn' /\ DeafAfterReset'
      BY <2>0, <3>1, <3>2 DEF ReceivePassedOn, DeafAfterReset, AtMostOne, ReceiveHolders,
                              AcceptFirst, NotAccepted
    <3>6. SendPassedOn' /\ DisconnectPassedOn' /\ NothingLost'
      BY <2>0, <3>1, <3>2 DEF SendPassedOn, DisconnectPassedOn, NothingLost, Undispatched,
                              AtMostOne, DisconnectHolders
    <3>7. QED BY <3>3, <3>4, <3>5, <3>6
  <2>2. CASE PeerCloses \/ LinkResets
    <3>1. /\ link \in {"up", "fin"} /\ link' \in {"fin", "reset"}
          /\ link' = "fin" => link = "up"
          /\ UNCHANGED <<isConnected, active, port, receives, packets, sends, sending,
                         sendRef, sendBuffer, sender, overlapped, disconnectRef,
                         disconnecting, shut, disconnects, raced, worker, crashed>>
      BY <2>2 DEF PeerCloses, LinkResets, recvVars, sendVars, closeVars
    <3>2. TypeOK'
      BY <3>1, <1>types DEF Types
    <3>3. AcceptFirst' /\ ReceivePassedOn' /\ DeafAfterReset'
      BY <3>1 DEF AcceptFirst, NotAccepted, ReceivePassedOn, DeafAfterReset, AtMostOne,
                  ReceiveHolders
    <3>4. SendPassedOn' /\ DisconnectPassedOn' /\ NothingLost'
      BY <3>1 DEF SendPassedOn, DisconnectPassedOn, NothingLost, Undispatched, AtMostOne,
                  DisconnectHolders
    <3>5. QED BY <3>2, <3>3, <3>4
  <2>3. CASE RecvCompletes
    <3>1. PICK kind \in {"recv", "eof"} :
              /\ Completed(kind)
              /\ packets' \in 0 .. MaxPackets
      BY <2>3, SessionIoAssumption DEF RecvCompletes, TypeOK
    <3>2. /\ port' \in [Kinds -> Nat]
          /\ \A k \in Kinds : port'[k] = IF k = kind THEN port[k] + 1 ELSE port[k]
      BY <2>0, <3>1, <1>ports
    <3>3. /\ receives > 0 /\ receives' = receives - 1
          /\ UNCHANGED <<link, isConnected, active, sends, sending,
                         sendRef, sendBuffer, sender, overlapped, disconnectRef,
                         disconnecting, shut, disconnects, raced, worker, crashed>>
      BY <2>3 DEF RecvCompletes, sendVars, closeVars
    <3>4. /\ receives \in 0 .. 1
          /\ receives' + port'["recv"] + port'["eof"]
                 = receives + port["recv"] + port["eof"]
          /\ port'["accept"] = port["accept"]
          /\ port'["sent"] = port["sent"] /\ port'["sendFailed"] = port["sendFailed"]
          /\ port'["disconnect"] = port["disconnect"]
      BY <2>0, <3>1, <3>2, <3>3 DEF TypeOK
    <3>5. TypeOK'
      BY <3>1, <3>2, <3>3, <3>4, <1>types DEF Types
    <3>6. AcceptFirst' /\ ReceivePassedOn' /\ DeafAfterReset'
      BY <3>3, <3>4 DEF AcceptFirst, NotAccepted, ReceivePassedOn, DeafAfterReset,
                        AtMostOne, ReceiveHolders
    <3>7. SendPassedOn' /\ DisconnectPassedOn' /\ NothingLost'
      BY <3>3, <3>4 DEF SendPassedOn, DisconnectPassedOn, NothingLost, Undispatched,
                        AtMostOne, DisconnectHolders
    <3>8. QED BY <3>5, <3>6, <3>7
  <2>4. ASSUME NEW j \in Sends, SendCompletes(j)
        PROVE  IoInv'
    <3>1. PICK kind \in {"sent", "sendFailed"} : Completed(kind)
      BY <2>4 DEF SendCompletes
    <3>2. /\ port' \in [Kinds -> Nat]
          /\ \A k \in Kinds : port'[k] = IF k = kind THEN port[k] + 1 ELSE port[k]
      BY <2>0, <3>1, <1>ports
    <3>3. /\ j \in sending /\ sending' = sending \ {j}
          /\ UNCHANGED <<link, isConnected, active, receives, packets, sends,
                         sendRef, sendBuffer, sender, overlapped, disconnectRef,
                         disconnecting, shut, disconnects, raced, worker, crashed>>
      BY <2>4 DEF SendCompletes, recvVars, closeVars
    <3>4. /\ port'["sent"] + port'["sendFailed"] = port["sent"] + port["sendFailed"] + 1
          /\ port'["accept"] = port["accept"] /\ port'["recv"] = port["recv"]
          /\ port'["eof"] = port["eof"] /\ port'["disconnect"] = port["disconnect"]
      BY <2>0, <3>1, <3>2
    <3>5. TypeOK'
      BY <3>2, <3>3, <1>types DEF Types
    <3>6. AcceptFirst' /\ ReceivePassedOn' /\ DeafAfterReset'
      BY <3>3, <3>4 DEF AcceptFirst, NotAccepted, ReceivePassedOn, DeafAfterReset,
                        AtMostOne, ReceiveHolders
    <3>7. SendPassedOn'
      BY <2>0, <3>3, <3>4 DEF SendPassedOn, Undispatched
    <3>8. DisconnectPassedOn' /\ NothingLost'
      BY <3>3, <3>4 DEF DisconnectPassedOn, NothingLost, AtMostOne, DisconnectHolders
    <3>9. QED BY <3>5, <3>6, <3>7, <3>8
  <2>5. CASE DisconnectCompletes
    <3>1. /\ port' \in [Kinds -> Nat]
          /\ \A k \in Kinds : port'[k] = IF k = "disconnect" THEN port[k] + 1
                                         ELSE port[k]
      BY <2>0, <2>5, <1>ports DEF DisconnectCompletes
    <3>2. /\ disconnecting > 0 /\ disconnecting' = disconnecting - 1
          /\ UNCHANGED <<link, isConnected, active, receives, packets, sends, sending,
                         sendRef, sendBuffer, sender, overlapped, disconnectRef,
                         shut, disconnects, raced, worker, crashed>>
      BY <2>5 DEF DisconnectCompletes, recvVars, sendVars
    <3>3. /\ port'["disconnect"] = port["disconnect"] + 1
          /\ port'["accept"] = port["accept"] /\ port'["recv"] = port["recv"]
          /\ port'["eof"] = port["eof"]
          /\ port'["sent"] = port["sent"] /\ port'["sendFailed"] = port["sendFailed"]
          /\ disconnecting \in Nat \ {0} /\ disconnects \in Nat
      BY <2>0, <3>1, <3>2, <1>types
    <3>4. TypeOK'
      BY <3>1, <3>2, <1>types DEF Types
    <3>5. AcceptFirst' /\ ReceivePassedOn' /\ DeafAfterReset'
      BY <2>0, <3>2, <3>3 DEF AcceptFirst, NotAccepted, ReceivePassedOn, DeafAfterReset,
                              AtMostOne, ReceiveHolders
    <3>6. SendPassedOn' /\ NothingLost'
      BY <3>2, <3>3 DEF SendPassedOn, NothingLost, Undispatched
    <3>7. DisconnectPassedOn'
      BY <2>0, <3>2, <3>3 DEF DisconnectPassedOn, AtMostOne, DisconnectHolders
    <3>8. QED BY <3>4, <3>5, <3>6, <3>7
  <2> QED BY <2>1, <2>2, <2>3, <2>4, <2>5 DEF System
  (* A send posted with another one undispatched is an overlap; if there is*)
  (* none, it is the one send.                                             *)
<1>senders. ASSUME IoInv, NEW t \in Senders, Sender(t)
            PROVE  IoInv'
  <2> USE <1>senders
  <2> USE DEF IoInv
  <2>1. CASE PostSend(t)
    <3>1. /\ active /\ UNCHANGED <<link, isConnected, active, port, receives, packets,
                         sends, sending, sendRef, sendBuffer, overlapped, disconnectRef,
                         disconnecting, shut, disconnects, raced, worker, crashed>>
          /\ sender' \in [Senders -> {"idle", "checked"}]
      BY <2>1 DEF PostSend, recvVars, closeVars, TypeOK
    <3>2. TypeOK'
      BY <3>1, <1>types DEF Types
    <3>3. AcceptFirst' /\ ReceivePassedOn' /\ DeafAfterReset'
      BY <3>1 DEF AcceptFirst, NotAccepted, ReceivePassedOn, DeafAfterReset, AtMostOne,
         ReceiveHolders
    <3>4. SendPassedOn' /\ DisconnectPassedOn' /\ NothingLost'
      BY <3>1 DEF SendPassedOn, DisconnectPassedOn, NothingLost, Undispatched,
         AtMostOne, DisconnectHolders
    <3>5. QED BY <3>2, <3>3, <3>4
  <2>2. CASE SendLocked(t)
    <3>1. /\ active
          /\ UNCHANGED <<link, isConnected, active, port, receives, packets,
                         disconnectRef, disconnecting, shut, disconnects, raced,
                         worker, crashed>>
          /\ sender' \in [Senders -> {"idle", "checked"}]
          /\ sends' = sends + 1 /\ sendBuffer' = sends + 1 /\ sends + 1 \in Sends
          /\ overlapped' = (overlapped \/ Undispatched)
      BY <2>2, SessionIoAssumption
         DEF SendLocked, recvVars, closeVars, TypeOK, AcceptFirst, Sends
    <3>2. \/ sendRef' = TRUE /\ sending' = sending \cup {sends + 1}
          \/ sendRef' = FALSE /\ sending' = sending
      BY <2>2 DEF SendLocked, WSASend
    <3>3. TypeOK'
      <4>1. Types
        BY <1>types
      <4>2. /\ link' \in {"none", "up", "fin", "reset"}
            /\ port' \in [Kinds -> Nat]
            /\ receives' \in 0 .. 1 /\ packets' \in 0 .. MaxPackets
            /\ disconnecting' \in Nat /\ disconnects' \in Nat
        BY <3>1, <3>2, <4>1 DEF Types
      <4>3. /\ sends' \in 0 .. MaxSends /\ sendBuffer' \in 0 .. MaxSends
            /\ sender' \in [Senders -> {"idle", "checked"}]
        BY <3>1, SessionIoAssumption DEF Sends
      <4>4. sending' \subseteq Sends
        BY <3>1, <3>2, <4>1 DEF Types
      <4>5. worker' \in [Workers -> {"waiting", "inOnRecv", "recvDisconnects",
                                     "sendDisconnects", "closing", "lost"}]
        BY <3>1, <3>2, <4>1 DEF Types
      <4>6. /\ isConnected' \in BOOLEAN /\ active' \in BOOLEAN /\ sendRef' \in BOOLEAN
            /\ disconnectRef' \in BOOLEAN /\ shut' \in BOOLEAN
            /\ crashed' \in BOOLEAN
            /\ overlapped' \in BOOLEAN /\ raced' \in BOOLEAN
        BY <3>1, <3>2, <4>1 DEF Types
      <4>7. QED BY <4>2, <4>3, <4>4, <4>5, <4>6, <1>types DEF Types
    <3>4. AcceptFirst' /\ ReceivePassedOn' /\ DeafAfterReset'
      BY <3>1 DEF AcceptFirst, NotAccepted, ReceivePassedOn, DeafAfterReset, AtMostOne,
         ReceiveHolders
    <3>5. SendPassedOn'
      <4>1. SUFFICES ASSUME ~overlapped' PROVE SendPassedOn'
        BY DEF SendPassedOn
      <4>2. ~overlapped /\ ~Undispatched
        BY <3>1, <4>1
      <4>3. sending = {} /\ port["sent"] + port["sendFailed"] = 0
        BY <4>2, PortTypes DEF Undispatched
      <4>4. QED BY <3>1, <3>2, <4>3 DEF SendPassedOn, Undispatched
    <3>6. DisconnectPassedOn'
      BY <3>1 DEF DisconnectPassedOn, AtMostOne, DisconnectHolders
    <3>7. NothingLost'
      BY <3>1 DEF NothingLost
    <3>8. QED BY <3>3, <3>4, <3>5, <3>6, <3>7
  <2>3. QED BY <2>1, <2>2 DEF Sender
  (* A worker that dequeues a completion has the receive, or the disconnect,*)
  (* and nobody else does; it lets go of it by posting the next one.       *)
<1>workers. ASSUME IoInv, NEW w \in Workers, Worker(w), ~crashed
            PROVE  IoInv'
  <2> USE <1>workers
  <2> USE DEF IoInv
  <2>0. /\ {"accept", "recv", "eof", "sent", "sendFailed", "disconnect"} \subseteq Kinds
        /\ \A k \in Kinds : port[k] \in Nat
        /\ port["accept"] \in Nat /\ port["recv"] \in Nat /\ port["eof"] \in Nat
        /\ port["sent"] \in Nat /\ port["sendFailed"] \in Nat
        /\ port["disconnect"] \in Nat
        /\ disconnecting \in Nat /\ disconnects \in Nat
        /\ receives \in Nat
    BY PortTypes
  <2>1. CASE ProcessAccept(w)
    <3>1. /\ port' \in [Kinds -> Nat] /\ port["accept"] > 0
          /\ \A k \in Kinds : port'[k] = IF k = "accept" THEN port[k] - 1 ELSE port[k]
      BY <2>0, <2>1, <1>ports DEF ProcessAccept
    <3>2. /\ isConnected' = TRUE
          /\ UNCHANGED <<link, packets, sends, sending, sendRef, sendBuffer, sender,
                         overlapped, disconnectRef, disconnecting, shut, disconnects,
                         raced, worker, crashed>>
      BY <2>1 DEF ProcessAccept, sendVars, closeVars
    <3>3. /\ link # "none" /\ port["accept"] = 1
          /\ ~active /\ receives + port["recv"] + port["eof"] = 0
          /\ port["sent"] + port["sendFailed"] = 0 /\ sending = {}
          /\ port["disconnect"] + disconnecting + disconnects = 0 /\ ~shut
          /\ \A v \in Workers : worker[v] = "waiting"
          /\ \A t \in Senders : sender[t] = "idle"
      BY <2>0, <3>1 DEF AcceptFirst, NotAccepted
    <3>4. /\ receives = 0 /\ port["recv"] = 0 /\ port["eof"] = 0
          /\ port["sent"] = 0 /\ port["sendFailed"] = 0
          /\ port["disconnect"] = 0 /\ disconnecting = 0 /\ disconnects = 0
      <4>1. receives + port["recv"] + port["eof"] = 0
        BY <3>3
      <4>2. receives = 0 /\ port["recv"] = 0 /\ port["eof"] = 0
        BY <2>0, <4>1
      <4>3. port["sent"] + port["sendFailed"] = 0
        BY <3>3
      <4>4. port["sent"] = 0 /\ port["sendFailed"] = 0
        BY <2>0, <4>3
      <4>5. port["disconnect"] + disconnecting + disconnects = 0
        BY <3>3
      <4>6. port["disconnect"] = 0 /\ disconnecting = 0 /\ disconnects = 0
        BY <2>0, <4>5
      <4>7. QED BY <4>2, <4>4, <4>6
    <3>5. /\ \A k \in Kinds : port'[k] = 0
          /\ ReceiveHolders' = {} /\ DisconnectHolders' = {}
      BY <2>0, <3>1, <3>2, <3>3, <3>4 DEF Kinds, ReceiveHolders, DisconnectHolders
    <3>6. \/ active' = TRUE /\ receives' = 1
          \/ active' = TRUE /\ receives' = 0 /\ link = "reset"
          \/ active' = FALSE /\ receives' = 0
      BY <2>1, <3>2, <3>3, <3>4, <1>types DEF Types, ProcessAccept, PostRecv, Down
    <3>7. TypeOK'
      <4>1. Types
        BY <1>types
      <4>2. /\ link' \in {"none", "up", "fin", "reset"}
            /\ port' \in [Kinds -> Nat]
            /\ receives' \in 0 .. 1 /\ packets' \in 0 .. MaxPackets
            /\ disconnecting' \in Nat /\ disconnects' \in Nat
        BY <2>0, <3>1, <3>2, <3>6, <4>1 DEF Types
      <4>3. /\ sends' \in 0 .. MaxSends /\ sending' \subseteq Sends
            /\ sendBuffer' \in 0 .. MaxSends
            /\ sender' \in [Senders -> {"idle", "checked"}]
        BY <3>1, <3>2, <3>6, <4>1 DEF Types
      <4>4. worker' \in [Workers -> {"waiting", "inOnRecv", "recvDisconnects",
                                     "sendDisconnects", "closing", "lost"}]
        BY <3>1, <3>2, <3>6, <4>1 DEF Types
      <4>5. /\ isConnected' \in BOOLEAN /\ active' \in BOOLEAN /\ sendRef' \in BOOLEAN
            /\ disconnectRef' \in BOOLEAN /\ shut' \in BOOLEAN
            /\ crashed' \in BOOLEAN
            /\ overlapped' \in BOOLEAN /\ raced' \in BOOLEAN
        BY <3>1, <3>2, <3>6, <4>1 DEF Types
      <4>6. QED BY <4>2, <4>3, <4>4, <4>5, <1>types DEF Types
    <3>8. AcceptFirst'
      BY <2>0, <3>2, <3>3, <3>4, <3>5, <3>6 DEF AcceptFirst, NotAccepted
    <3>9. ReceivePassedOn' /\ DeafAfterReset'
      BY <2>0, <3>2, <3>5, <3>6 DEF ReceivePassedOn, DeafAfterReset, AtMostOne
    <3>10. SendPassedOn' /\ DisconnectPassedOn' /\ NothingLost'
      BY <2>0, <3>2, <3>3, <3>4, <3>5
         DEF SendPassedOn, DisconnectPassedOn, NothingLost, AtMostOne, Undispatched
    <3>11. QED BY <3>7, <3>8, <3>9, <3>10
  <2>2. CASE ProcessRecv(w)
    <3>1. /\ port' \in [Kinds -> Nat] /\ port["recv"] > 0 /\ worker[w] = "waiting"
          /\ \A k \in Kinds : port'[k] = IF k = "recv" THEN port[k] - 1 ELSE port[k]
      BY <2>0, <2>2, <1>ports DEF ProcessRecv
    <3>2. UNCHANGED <<link, isConnected, active, receives, packets, sends, sending,
                      sendRef, sendBuffer, sender, overlapped, disconnectRef,
                      disconnecting, shut, disconnects, raced, crashed>>
      BY <2>2 DEF ProcessRecv, recvVars, sendVars, closeVars
    <3>3. /\ worker' \in [Workers -> {"waiting", "inOnRecv", "recvDisconnects",
                                      "sendDisconnects", "closing", "lost"}]
          /\ \A v \in Workers : worker'[v] = IF v = w THEN "inOnRecv" ELSE worker[v]
          /\ ReceiveHolders' = ReceiveHolders \cup {w}
          /\ DisconnectHolders' = DisconnectHolders \ {w}
      BY <2>2, <1>goes DEF ProcessRecv
    <3>4. /\ receives = 0 /\ port["recv"] = 1 /\ port["eof"] = 0 /\ ReceiveHolders = {}
          /\ active
      <4>1. receives + port["recv"] + port["eof"] # 0
        BY <2>0, <3>1
      <4>2. ReceiveHolders = {} /\ receives + port["recv"] + port["eof"] <= 1
        BY <4>1 DEF ReceivePassedOn, AtMostOne
      <4>3. active
        BY <4>1 DEF AcceptFirst
      <4>4. receives = 0 /\ port["recv"] = 1 /\ port["eof"] = 0
        BY <2>0, <3>1, <4>2
      <4>5. QED BY <4>2, <4>3, <4>4
    <3>5. TypeOK'
      BY <3>1, <3>2, <3>3, <1>types DEF Types
    <3>6. AcceptFirst'
      BY <2>0, <3>1, <3>2, <3>4 DEF AcceptFirst, NotAccepted
    <3>7. ReceivePassedOn' /\ DeafAfterReset'
      BY <2>0, <3>1, <3>2, <3>3, <3>4 DEF ReceivePassedOn, DeafAfterReset, AtMostOne
    <3>8. SendPassedOn' /\ NothingLost'
      BY <2>0, <3>1, <3>2, <3>3 DEF SendPassedOn, NothingLost, Undispatched
    <3>9. DisconnectPassedOn'
      <4>1. DisconnectHolders' = DisconnectHolders
        BY <3>1, <3>3 DEF DisconnectHolders
      <4>2. QED BY <2>0, <3>1, <3>2, <4>1 DEF DisconnectPassedOn, AtMostOne
    <3>10. QED BY <3>5, <3>6, <3>7, <3>8, <3>9
  <2>3. CASE EndOnRecv(w)
    <3>1. /\ worker[w] = "inOnRecv"
          /\ UNCHANGED <<link, isConnected, active, port, packets, sends, sending,
                         sendRef, sendBuffer, sender, overlapped, disconnectRef,
                         disconnecting, shut, disconnects, raced, crashed>>
      BY <2>3 DEF EndOnRecv, sendVars, closeVars
    <3>2. /\ worker' \in [Workers -> {"waiting", "inOnRecv", "recvDisconnects",
                                      "sendDisconnects", "closing", "lost"}]
          /\ \A v \in Workers : worker'[v] = IF v = w THEN "waiting" ELSE worker[v]
          /\ ReceiveHolders' = ReceiveHolders \ {w}
          /\ DisconnectHolders' = DisconnectHolders \ {w}
      BY <2>3, <1>goes DEF EndOnRecv
    <3>3. /\ receives = 0 /\ port["recv"] = 0 /\ port["eof"] = 0
          /\ ReceiveHolders' = {} /\ DisconnectHolders' = DisconnectHolders
          /\ active
      <4>1. w \in ReceiveHolders /\ w \notin DisconnectHolders
        BY <3>1 DEF ReceiveHolders, DisconnectHolders
      <4>2. receives + port["recv"] + port["eof"] = 0 /\ ReceiveHolders = {w}
        BY <4>1 DEF ReceivePassedOn, AtMostOne
      <4>3. active
        BY <3>1 DEF AcceptFirst
      <4>4. receives = 0 /\ port["recv"] = 0 /\ port["eof"] = 0
        BY <2>0, <4>2
      <4>5. QED BY <3>2, <4>1, <4>2, <4>3, <4>4
    <3>4. \/ receives' = 1
          \/ receives' = 0 /\ (~isConnected \/ link = "reset")
      BY <2>3, <3>1, <3>3 DEF EndOnRecv, PostRecv, Down, AcceptFirst
    <3>5. TypeOK'
      BY <3>1, <3>2, <3>4, <1>types DEF Types
    <3>6. AcceptFirst'
      BY <2>0, <3>1, <3>3 DEF AcceptFirst, NotAccepted
    <3>7. ReceivePassedOn' /\ DeafAfterReset'
      BY <2>0, <3>1, <3>3, <3>4 DEF ReceivePassedOn, DeafAfterReset, AtMostOne
    <3>8. SendPassedOn' /\ NothingLost'
      BY <3>1, <3>2 DEF SendPassedOn, NothingLost, Undispatched
    <3>9. DisconnectPassedOn'
      BY <3>1, <3>3 DEF DisconnectPassedOn, AtMostOne
    <3>10. QED BY <3>5, <3>6, <3>7, <3>8, <3>9
  <2>4. CASE ProcessEof(w)
    <3> DEFINE to == IF isConnected THEN "recvDisconnects" ELSE "waiting"
    <3>1. /\ port' \in [Kinds -> Nat] /\ port["eof"] > 0 /\ worker[w] = "waiting"
          /\ \A k \in Kinds : port'[k] = IF k = "eof" THEN port[k] - 1 ELSE port[k]
      BY <2>0, <2>4, <1>ports DEF ProcessEof
    <3>2. UNCHANGED <<link, isConnected, active, receives, packets, sends, sending,
                      sendRef, sendBuffer, sender, overlapped, disconnectRef,
                      disconnecting, shut, disconnects, raced, crashed>>
      BY <2>4 DEF ProcessEof, recvVars, sendVars, closeVars
    <3>3. /\ worker' \in [Workers -> {"waiting", "inOnRecv", "recvDisconnects",
                                      "sendDisconnects", "closing", "lost"}]
          /\ \A v \in Workers : worker'[v] = IF v = w THEN to ELSE worker[v]
          /\ ReceiveHolders' = IF isConnected THEN ReceiveHolders \cup {w}
                               ELSE ReceiveHolders \ {w}
          /\ DisconnectHolders' = DisconnectHolders \ {w}
      BY <2>4, <1>goes DEF ProcessEof
    <3>4. /\ receives = 0 /\ port["recv"] = 0 /\ port["eof"] = 1 /\ ReceiveHolders = {}
          /\ active
      <4>1. receives + port["recv"] + port["eof"] # 0
        BY <2>0, <3>1
      <4>2. ReceiveHolders = {} /\ receives + port["recv"] + port["eof"] <= 1
        BY <4>1 DEF ReceivePassedOn, AtMostOne
      <4>3. active
        BY <4>1 DEF AcceptFirst
      <4>4. receives = 0 /\ port["recv"] = 0 /\ port["eof"] = 1
        BY <2>0, <3>1, <4>2
      <4>5. QED BY <4>2, <4>3, <4>4
    <3>5. TypeOK'
      BY <3>1, <3>2, <3>3, <1>types DEF Types
    <3>6. AcceptFirst'
      BY <2>0, <3>1, <3>2, <3>4 DEF AcceptFirst, NotAccepted
    <3>7. ReceivePassedOn' /\ DeafAfterReset'
      BY <2>0, <3>1, <3>2, <3>3, <3>4 DEF ReceivePassedOn, DeafAfterReset, AtMostOne
    <3>8. SendPassedOn' /\ NothingLost'
      BY <2>0, <3>1, <3>2, <3>3 DEF SendPassedOn, NothingLost, Undispatched
    <3>9. DisconnectPassedOn'
      <4>1. DisconnectHolders' = DisconnectHolders
        BY <3>1, <3>3 DEF DisconnectHolders
      <4>2. QED BY <2>0, <3>1, <3>2, <4>1 DEF DisconnectPassedOn, AtMostOne
    <3>10. QED BY <3>5, <3>6, <3>7, <3>8, <3>9
  <2>5. ASSUME NEW kind \in Kinds, ProcessSend(w, kind)
        PROVE  IoInv'
    <3>1. /\ port' \in [Kinds -> Nat] /\ port[kind] > 0 /\ worker[w] = "waiting"
          /\ \A k \in Kinds : port'[k] = IF k = kind THEN port[k] - 1 ELSE port[k]
          /\ kind \in {"sent", "sendFailed"}
      BY <2>0, <2>5, <1>ports DEF ProcessSend
    <3>2. UNCHANGED <<link, isConnected, active, receives, packets, sends, sending,
                      sendRef, sendBuffer, sender, overlapped, disconnectRef,
                      disconnecting, shut, disconnects, raced, crashed>>
      BY <2>5 DEF ProcessSend, recvVars, sendVars, closeVars
    <3>3. PICK to \in {"lost", "sendDisconnects", "waiting"} :
              Goes(w, to) /\ (to = "lost" => ~sendRef)
      BY <2>5 DEF ProcessSend
    <3>4. /\ worker' \in [Workers -> {"waiting", "inOnRecv", "recvDisconnects",
                                      "sendDisconnects", "closing", "lost"}]
          /\ \A v \in Workers : worker'[v] = IF v = w THEN to ELSE worker[v]
          /\ ReceiveHolders' = ReceiveHolders \ {w}
          /\ DisconnectHolders' = DisconnectHolders \ {w}
      BY <3>3, <1>goes
    <3>5. ReceiveHolders' = ReceiveHolders /\ DisconnectHolders' = DisconnectHolders
      BY <3>1, <3>4 DEF ReceiveHolders, DisconnectHolders
    <3>6. /\ port'["recv"] = port["recv"] /\ port'["eof"] = port["eof"]
          /\ port'["accept"] = port["accept"] /\ port'["disconnect"] = port["disconnect"]
          /\ port["sent"] + port["sendFailed"] > 0
          /\ port'["sent"] + port'["sendFailed"] = port["sent"] + port["sendFailed"] - 1
      BY <2>0, <3>1
    <3>7. TypeOK'
      BY <3>1, <3>2, <3>4, <1>types DEF Types
    <3>8. AcceptFirst'
      BY <2>0, <3>2, <3>6 DEF AcceptFirst, NotAccepted
    <3>9. ReceivePassedOn' /\ DeafAfterReset'
      BY <3>2, <3>5, <3>6 DEF ReceivePassedOn, DeafAfterReset, AtMostOne
    <3>10. SendPassedOn'
      BY <2>0, <3>1, <3>2, <3>6 DEF SendPassedOn, Undispatched
    <3>11. DisconnectPassedOn'
      BY <3>2, <3>5, <3>6 DEF DisconnectPassedOn, AtMostOne
    <3>12. NothingLost'
      BY <3>2, <3>3, <3>4, <3>6 DEF NothingLost, SendPassedOn, Undispatched
    <3>13. QED BY <3>7, <3>8, <3>9, <3>10, <3>11, <3>12
  <2>6. CASE PostDisconnect(w)
    <3>1. /\ worker[w] \in {"recvDisconnects", "sendDisconnects"}
          /\ isConnected' = FALSE /\ raced' = (raced \/ ~isConnected)
          /\ UNCHANGED <<link, active, port, receives, packets, sends, sending,
                         sendRef, sendBuffer, sender, overlapped, disconnects, crashed>>
      BY <2>6 DEF PostDisconnect, recvVars, sendVars
    <3>2. \/ disconnectRef' = TRUE /\ disconnecting' = disconnecting + 1 /\ shut' = TRUE
          \/ disconnectRef' = FALSE /\ UNCHANGED <<disconnecting, shut>>
      BY <2>6 DEF PostDisconnect
    <3>3. /\ worker' \in [Workers -> {"waiting", "inOnRecv", "recvDisconnects",
                                      "sendDisconnects", "closing", "lost"}]
          /\ \A v \in Workers : worker'[v] = IF v = w THEN "waiting" ELSE worker[v]
          /\ ReceiveHolders' = ReceiveHolders \ {w}
          /\ DisconnectHolders' = DisconnectHolders \ {w}
      BY <2>6, <1>goes DEF PostDisconnect
    <3>4. active /\ DisconnectHolders' = DisconnectHolders
      BY <3>1, <3>3 DEF AcceptFirst, DisconnectHolders
    <3>5. TypeOK'
      <4>1. Types
        BY <1>types
      <4>2. /\ link' \in {"none", "up", "fin", "reset"}
            /\ port' \in [Kinds -> Nat]
            /\ receives' \in 0 .. 1 /\ packets' \in 0 .. MaxPackets
            /\ disconnecting' \in Nat /\ disconnects' \in Nat
        BY <2>0, <3>1, <3>2, <3>3, <4>1 DEF Types
      <4>3. /\ sends' \in 0 .. MaxSends /\ sending' \subseteq Sends
            /\ sendBuffer' \in 0 .. MaxSends
            /\ sender' \in [Senders -> {"idle", "checked"}]
        BY <3>1, <3>2, <3>3, <4>1 DEF Types
      <4>4. worker' \in [Workers -> {"waiting", "inOnRecv", "recvDisconnects",
                                     "sendDisconnects", "closing", "lost"}]
        BY <3>1, <3>2, <3>3, <4>1 DEF Types
      <4>5. /\ isConnected' \in BOOLEAN /\ active' \in BOOLEAN /\ sendRef' \in BOOLEAN
            /\ disconnectRef' \in BOOLEAN /\ shut' \in BOOLEAN
            /\ crashed' \in BOOLEAN
            /\ overlapped' \in BOOLEAN /\ raced' \in BOOLEAN
        BY <3>1, <3>2, <3>3, <4>1 DEF Types
      <4>6. QED BY <4>2, <4>3, <4>4, <4>5, <1>types DEF Types
    <3>6. AcceptFirst'
      BY <2>0, <3>1, <3>4 DEF AcceptFirst, NotAccepted
    <3>7. ReceivePassedOn' /\ DeafAfterReset'
      <4>1. ReceiveHolders' = {} \/ ReceiveHolders' = ReceiveHolders
        BY <3>1, <3>3 DEF ReceivePassedOn, AtMostOne
      <4>2. QED BY <2>0, <3>1, <4>1 DEF ReceivePassedOn, DeafAfterReset, AtMostOne
    <3>8. SendPassedOn' /\ NothingLost'
      BY <3>1, <3>3 DEF SendPassedOn, NothingLost, Undispatched
    <3>9. DisconnectPassedOn'
      <4>1. SUFFICES ASSUME ~raced' PROVE DisconnectPassedOn'
        BY DEF DisconnectPassedOn
      <4>2. ~raced /\ isConnected
        BY <3>1, <4>1
      <4>3. /\ disconnecting = 0 /\ port["disconnect"] = 0 /\ disconnects = 0
            /\ DisconnectHolders = {}
        BY <2>0, <4>2 DEF DisconnectPassedOn
      <4>4. QED BY <2>0, <3>1, <3>2, <3>4, <4>3 DEF DisconnectPassedOn, AtMostOne
    <3>10. QED BY <3>5, <3>6, <3>7, <3>8, <3>9
  <2>7. CASE DispatchDisconnect(w)
    <3>1. /\ port' \in [Kinds -> Nat] /\ port["disconnect"] > 0 /\ worker[w] = "waiting"
          /\ \A k \in Kinds : port'[k] = IF k = "disconnect" THEN port[k] - 1
                                         ELSE port[k]
      BY <2>0, <2>7, <1>ports DEF DispatchDisconnect
    <3>2. UNCHANGED <<link, isConnected, active, receives, packets, sends, sending,
                      sendRef, sendBuffer, sender, overlapped, disconnectRef,
                      disconnecting, shut, disconnects, raced, crashed>>
      BY <2>7 DEF DispatchDisconnect, recvVars, sendVars, closeVars
    <3>3. /\ worker' \in [Workers -> {"waiting", "inOnRecv", "recvDisconnects",
                                      "sendDisconnects", "closing", "lost"}]
          /\ \A v \in Workers : worker'[v] = IF v # w THEN worker[v]
                                             ELSE IF disconnectRef THEN "closing"
                                             ELSE "lost"
          /\ ReceiveHolders' = ReceiveHolders \ {w}
          /\ DisconnectHolders' = IF disconnectRef THEN DisconnectHolders \cup {w}
                                  ELSE DisconnectHolders \ {w}
      BY <2>7, <1>goes DEF DispatchDisconnect
    <3>4. active /\ ReceiveHolders' = ReceiveHolders
      BY <2>0, <3>1, <3>3 DEF AcceptFirst, ReceiveHolders
    <3>5. ~raced => /\ disconnecting = 0 /\ port["disconnect"] = 1 /\ disconnects = 0
                    /\ DisconnectHolders = {} /\ disconnectRef /\ ~isConnected
      <4>1. disconnecting + port["disconnect"] + disconnects > 0
        BY <2>0, <3>1
      <4>2. SUFFICES ASSUME ~raced
                     PROVE  /\ disconnecting = 0 /\ port["disconnect"] = 1
                            /\ disconnects = 0 /\ DisconnectHolders = {}
                            /\ disconnectRef /\ ~isConnected
        OBVIOUS
      <4>3. /\ DisconnectHolders = {} /\ ~isConnected
            /\ disconnecting + port["disconnect"] + disconnects <= 1
        BY <2>0, <4>1, <4>2 DEF DisconnectPassedOn, AtMostOne
      <4>4. disconnecting = 0 /\ port["disconnect"] = 1 /\ disconnects = 0
        BY <2>0, <3>1, <4>3
      <4>5. disconnecting + port["disconnect"] > 0
        BY <4>4
      <4>6. disconnectRef
        BY <4>2, <4>5 DEF DisconnectPassedOn
      <4>7. QED BY <4>3, <4>4, <4>6
    <3>6. TypeOK'
      BY <3>1, <3>2, <3>3, <1>types DEF Types
    <3>7. AcceptFirst'
      BY <2>0, <3>1, <3>2, <3>4 DEF AcceptFirst, NotAccepted
    <3>8. ReceivePassedOn' /\ DeafAfterReset'
      BY <2>0, <3>1, <3>2, <3>4 DEF ReceivePassedOn, DeafAfterReset, AtMostOne
    <3>9. SendPassedOn'
      BY <2>0, <3>1, <3>2 DEF SendPassedOn, Undispatched
    <3>10. DisconnectPassedOn'
      BY <2>0, <3>1, <3>2, <3>3, <3>5 DEF DisconnectPassedOn, AtMostOne
    <3>11. NothingLost'
      BY <3>2, <3>3, <3>5 DEF NothingLost
    <3>12. QED BY <3>6, <3>7, <3>8, <3>9, <3>10, <3>11
  <2>8. CASE ProcessDisconnect(w)
    <3>1. /\ worker[w] = "closing" /\ disconnectRef' = FALSE
          /\ UNCHANGED <<link, isConnected, active, port, receives, packets, sends,
                         sending, sendRef, sendBuffer, sender, overlapped,
                         disconnecting, shut, raced>>
          /\ IF disconnectRef /\ active
             THEN disconnects' = disconnects + 1 /\ UNCHANGED crashed
             ELSE crashed' = TRUE /\ UNCHANGED disconnects
      BY <2>8 DEF ProcessDisconnect, recvVars, sendVars
    <3>2. /\ worker' \in [Workers -> {"waiting", "inOnRecv", "recvDisconnects",
                                      "sendDisconnects", "closing", "lost"}]
          /\ \A v \in Workers : worker'[v] = IF v = w THEN "waiting" ELSE worker[v]
          /\ ReceiveHolders' = ReceiveHolders \ {w}
          /\ DisconnectHolders' = DisconnectHolders \ {w}
      BY <2>8, <1>goes DEF ProcessDisconnect
    <3>3. active /\ ReceiveHolders' = ReceiveHolders /\ w \in DisconnectHolders
      BY <3>1, <3>2 DEF AcceptFirst, ReceiveHolders, DisconnectHolders
    <3>4. ~raced => /\ disconnecting = 0 /\ port["disconnect"] = 0 /\ disconnects = 0
                    /\ DisconnectHolders = {w} /\ disconnectRef /\ ~isConnected
      <4>1. SUFFICES ASSUME ~raced
                     PROVE  /\ disconnecting = 0 /\ port["disconnect"] = 0
                            /\ disconnects = 0 /\ DisconnectHolders = {w}
                            /\ disconnectRef /\ ~isConnected
        OBVIOUS
      <4>2. /\ DisconnectHolders = {w} /\ disconnectRef /\ ~isConnected
            /\ disconnecting + port["disconnect"] + disconnects = 0
        BY <3>3, <4>1 DEF DisconnectPassedOn, AtMostOne
      <4>3. disconnecting = 0 /\ port["disconnect"] = 0 /\ disconnects = 0
        BY <2>0, <4>2
      <4>4. QED BY <4>2, <4>3
    <3>5. TypeOK'
      <4>1. Types
        BY <1>types
      <4>2. /\ link' \in {"none", "up", "fin", "reset"}
            /\ port' \in [Kinds -> Nat]
            /\ receives' \in 0 .. 1 /\ packets' \in 0 .. MaxPackets
            /\ disconnecting' \in Nat /\ disconnects' \in Nat
        BY <2>0, <3>1, <3>2, <4>1 DEF Types
      <4>3. /\ sends' \in 0 .. MaxSends /\ sending' \subseteq Sends
            /\ sendBuffer' \in 0 .. MaxSends
            /\ sender' \in [Senders -> {"idle", "checked"}]
        BY <3>1, <3>2, <4>1 DEF Types
      <4>4. worker' \in [Workers -> {"waiting", "inOnRecv", "recvDisconnects",
                                     "sendDisconnects", "closing", "lost"}]
        BY <3>1, <3>2, <4>1 DEF Types
      <4>5. /\ isConnected' \in BOOLEAN /\ active' \in BOOLEAN /\ sendRef' \in BOOLEAN
            /\ disconnectRef' \in BOOLEAN /\ shut' \in BOOLEAN
            /\ crashed' \in BOOLEAN
            /\ overlapped' \in BOOLEAN /\ raced' \in BOOLEAN
        BY <3>1, <3>2, <4>1 DEF Types
      <4>6. QED BY <4>2, <4>3, <4>4, <4>5, <1>types DEF Types
    <3>6. AcceptFirst'
      BY <2>0, <3>1, <3>3 DEF AcceptFirst, NotAccepted
    <3>7. ReceivePassedOn' /\ DeafAfterReset'
      BY <3>1, <3>3 DEF ReceivePassedOn, DeafAfterReset, AtMostOne
    <3>8. SendPassedOn'
      BY <3>1 DEF SendPassedOn, Undispatched
    <3>9. DisconnectPassedOn'
      BY <2>0, <3>1, <3>2, <3>3, <3>4 DEF DisconnectPassedOn, AtMostOne
    <3>10. NothingLost'
      BY <3>1, <3>2, <3>3, <3>4 DEF NothingLost
    <3>11. QED BY <3>5, <3>6, <3>7, <3>8, <3>9, <3>10
  <2>9. QED BY <2>1, <2>2, <2>3, <2>4, <2>5, <2>6, <2>7, <2>8 DEF Worker
<1>1. Init => IoInv
  <2> SUFFICES ASSUME Init PROVE IoInv
    OBVIOUS
  <2>1. /\ \A k \in Kinds : port[k] = 0
        /\ port["accept"] = 0 /\ port["recv"] = 0 /\ port["eof"] = 0
        /\ port["sent"] = 0 /\ port["sendFailed"] = 0 /\ port["disconnect"] = 0
    BY DEF Init, Kinds
  <2>2. TypeOK
    <3>1. /\ port \in [Kinds -> Nat]
          /\ sender \in [Senders -> {"idle", "checked"}]
          /\ worker \in [Workers -> {"waiting", "inOnRecv", "recvDisconnects",
                                     "sendDisconnects", "closing", "lost"}]
      BY DEF Init
    <3>2. /\ receives \in 0 .. 1 /\ packets \in 0 .. MaxPackets
          /\ sends \in 0 .. MaxSends /\ sending \subseteq Sends
          /\ sendBuffer \in 0 .. MaxSends
          /\ disconnecting \in Nat /\ disconnects \in Nat
      BY SessionIoAssumption DEF Init
    <3>3. QED BY <3>1, <3>2, <1>types DEF Init, Types
  <2>3. ReceiveHolders = {} /\ DisconnectHolders = {}
    BY DEF Init, ReceiveHolders, DisconnectHolders
  <2>4. AcceptFirst
    BY <2>1 DEF Init, AcceptFirst, NotAccepted
  <2>5. ReceivePassedOn /\ DeafAfterReset
    BY <2>1, <2>3 DEF Init, ReceivePassedOn, DeafAfterReset, AtMostOne
  <2>6. SendPassedOn
    BY <2>1 DEF Init, SendPassedOn, Undispatched
  <2>7. DisconnectPassedOn /\ NothingLost
    BY <2>1, <2>3 DEF Init, DisconnectPassedOn, NothingLost, AtMostOne
  <2>8. QED BY <2>2, <2>4, <2>5, <2>6, <2>7 DEF IoInv
<1>2. ASSUME IoInv, [Next]_vars
      PROVE  IoInv'
  <2>1. CASE Connects \/ PeerCloses \/ LinkResets \/ System
    BY <1>2, <2>1, <1>system
  <2>2. ASSUME ~crashed, NEW w \in Workers, Worker(w)
        PROVE  IoInv'
    BY <1>2, <2>2, <1>workers
  <2>3. ASSUME NEW t \in Senders, Sender(t)
        PROVE  IoInv'
    BY <1>2, <2>3, <1>senders
  <2>4. CASE UNCHANGED vars
    <3> USE <1>2 DEF IoInv
    <3>1. UNCHANGED <<link, isConnected, active, port, receives, packets, sends,
                      sending, sendRef, sendBuffer, sender, overlapped,
                      disconnectRef, disconnecting, shut, disconnects, raced,
                      worker, crashed>>
      BY <2>4 DEF vars, recvVars, sendVars, closeVars
    <3>2. TypeOK'
      BY <3>1, <1>types DEF Types
    <3>3. AcceptFirst' /\ ReceivePassedOn' /\ DeafAfterReset'
      BY <3>1 DEF AcceptFirst, NotAccepted, ReceivePassedOn, DeafAfterReset,
         AtMostOne, ReceiveHolders
    <3>4. SendPassedOn' /\ DisconnectPassedOn' /\ NothingLost'
      BY <3>1 DEF SendPassedOn, DisconnectPassedOn, NothingLost, Undispatched,
         AtMostOne, DisconnectHolders
    <3>5. QED BY <3>2, <3>3, <3>4
  <2>5. QED BY <1>2, <2>1, <2>2, <2>3, <2>4 DEF Next
<1>3. QED BY <1>1, <1>2, PTL DEF Spec
-----------------------------------------------------------------------------
(* A session has at most one receive under way or being handled, with any  *)
(* number of workers: nobody but the holder of the last one posts the next.*)
THEOREM OneReceiveOnly == Spec => []OneReceive
<1>1. IoInv => OneReceive
  BY ReceivingCount DEF IoInv, OneReceive
<1>2. QED BY <1>1, IoInvariant, PTL

(* A connected session without a receive has had its link reset: where a   *)
(* receive fails to be posted or is not posted at all.                     *)
THEOREM DeafOnlyAfterReset == Spec => []DeafNeedsReset
<1>1. IoInv => DeafNeedsReset
  BY ReceivingCount DEF IoInv, DeafAfterReset, DeafNeedsReset
<1>2. QED BY <1>1, IoInvariant, PTL

(* A worker lost, a null sessionRef, a second OnDisconnected and a buffer  *)
(* let go too early: each needs two sends or two disconnects at once.      *)
THEOREM OverlapsAreTheOnlyFaults == Spec => []FaultsNeedOverlap
<1>1. IoInv => FaultsNeedOverlap
  <2> SUFFICES ASSUME IoInv, ~overlapped, ~raced PROVE FaultsNeedOverlap
    BY DEF FaultsNeedOverlap
  <2>1. ~crashed /\ \A w \in Workers : worker[w] # "lost"
    BY DEF IoInv, NothingLost
  <2>2. \A k \in sending : k = sendBuffer
    BY DEF IoInv, SendPassedOn
  <2>3. ~(disconnects > 1)
    <3>1. disconnecting + port["disconnect"] + disconnects <= 1
      BY DEF IoInv, DisconnectPassedOn, AtMostOne
    <3>2. QED BY <3>1, PortTypes DEF IoInv
  <2>4. QED BY <2>1, <2>2, <2>3 DEF FaultsNeedOverlap
<1>2. QED BY <1>1, IoInvariant, PTL
=============================================================================
