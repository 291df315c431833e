----------------------------- MODULE ClientProofs -----------------------------
(***************************************************************************)
(* The two halves of the client.                                           *)
(*                                                                         *)
(* Its world: what the server has and what the clients show of each other, *)
(* for any players, map and number of messages under way.  That a cell is  *)
(* not shared rests on the grid: whoever has left the spawn has its cell   *)
(* there.                                                                  *)
(*                                                                         *)
(* Its network layer: SentInOrder, HandledOnceInOrder and                  *)
(* HangNeedsEarlyClick, for any set of packets and however the main        *)
(* thread, the threads of the socket, the server and the link take turns.  *)
(* Until the lists are cleared, what Send was called with is what has been *)
(* sent, what is pending and what is queued, in this order; and what is in *)
(* flight is what is pending.                                              *)
(***************************************************************************)
EXTENDS Walking, ClientNetwork, SequenceTheorems, TLAPS

Held == \A p \in Players : pos[p] # Spawn => ObjectBuf[pos[p]] = p

WalkInv == TypeOK /\ OthersShownRight /\ Held /\ OnlySpawnShared
-----------------------------------------------------------------------------
(* Whatever is refused, lost in a receive or not yet handled, no client    *)
(* will have shown another player, when it has handled what it is sent,    *)
(* but where the server has it; and the server keeps the players apart     *)
(* once they have left the spawn (Zone.cpp 279-302, Map.cpp 94-139).       *)
THEOREM ShownWhereItIs == Spec => [](OthersShownRight /\ OnlySpawnShared)
  (* ApplyMove leaves every player on a cell, and on the grid where it was,*)
  (* but for the one it moves.                                             *)
<1>grid. ASSUME TypeOK, Held, OnlySpawnShared, NEW p \in Players, NEW c \in Cells,
                ApplyMove(p, c)
         PROVE  /\ pos' \in [Players -> Cells]
                /\ ObjectBuf' \in [Cells -> Players \cup {Nobody}]
                /\ Held' /\ OnlySpawnShared'
  <2> USE <1>grid
  <2> USE WalkingAssumption DEF TypeOK
  <2>1. CASE ~CanGo(c)
    BY <2>1 DEF ApplyMove, Held, OnlySpawnShared
  <2>2. CASE CanGo(c)
    <3>1. /\ pos' = [pos EXCEPT ![p] = c]
          /\ ObjectBuf' = [d \in Cells |->
                 IF d = c THEN p
                 ELSE IF d = pos[p] /\ ObjectBuf[d] = p THEN Nobody
                 ELSE ObjectBuf[d]]
      BY <2>2 DEF ApplyMove
    <3>2. ObjectBuf[c] = Nobody
      BY <2>2 DEF CanGo
    <3>3. /\ pos' \in [Players -> Cells]
          /\ ObjectBuf' \in [Cells -> Players \cup {Nobody}]
      BY <3>1
    <3>4. Held'
      <4> SUFFICES ASSUME NEW q \in Players, pos'[q] # Spawn
                   PROVE  ObjectBuf'[pos'[q]] = q
        BY DEF Held
      <4>1. CASE q = p
        BY <3>1, <4>1
      <4>2. CASE q # p
        <5>1. pos'[q] = pos[q] /\ ObjectBuf[pos[q]] = q
          BY <3>1, <4>2 DEF Held
        <5> QED
          BY <3>1, <3>2, <4>2, <5>1
      <4> QED
        BY <4>1, <4>2
    <3>5. OnlySpawnShared'
      <4> SUFFICES ASSUME NEW q \in Players, NEW r \in Players,
                          q # r, pos'[q] = pos'[r], pos'[q] # Spawn
                   PROVE  FALSE
        BY DEF OnlySpawnShared
      <4> QED
        BY <3>4 DEF Held
    <3> QED
      BY <3>3, <3>4, <3>5
  <2> QED
    BY <2>1, <2>2
<1>init. Init => WalkInv
  <2> SUFFICES ASSUME Init PROVE WalkInv
    OBVIOUS
  <2> USE WalkingAssumption DEF Init
  <2>1. TypeOK
    <3>1. PICK first \in Players :
              ObjectBuf = [c \in Cells |-> IF c = Spawn THEN first ELSE Nobody]
      OBVIOUS
    <3> QED
      BY <3>1 DEF TypeOK
  <2>2. OthersShownRight
    BY DEF OthersShownRight, About
  <2>3. Held /\ OnlySpawnShared
    BY DEF Held, OnlySpawnShared
  <2> QED
    BY <2>1, <2>2, <2>3 DEF WalkInv
  (* One more notice, on the cell where the player now is, sets right      *)
  (* whatever was under way before it.                                     *)
<1>tells. ASSUME TypeOK, OthersShownRight, NEW p \in Players, NEW c \in Cells,
                 HandleMove(p, c), UNCHANGED shown
          PROVE  notices' \in [Players -> Seq(Moves)] /\ OthersShownRight'
  <2> USE <1>tells
  <2> USE DEF TypeOK
  <2>1. CASE ~(c = pos[p] \/ CanGo(c))
    BY <2>1 DEF HandleMove, OthersShownRight, About
  <2>2. CASE c = pos[p] \/ CanGo(c)
    <3>1. notices' = [q \in Players |->
              IF q = p THEN notices[q]
              ELSE Append(notices[q], [player |-> p, cell |-> c])]
      BY <2>2 DEF HandleMove, BroadCast
    <3>2. notices' \in [Players -> Seq(Moves)]
      <4>1. [player |-> p, cell |-> c] \in Moves
        BY DEF Moves
      <4>2. \A q \in Players :
                Append(notices[q], [player |-> p, cell |-> c]) \in Seq(Moves)
        BY <4>1, AppendProperties
      <4>3. \A q \in Players : notices[q] \in Seq(Moves)
        OBVIOUS
      <4> QED
        BY ONLY <3>1, <4>2, <4>3
    <3>3. pos' = [pos EXCEPT ![p] = c]
      BY <2>2 DEF HandleMove, ApplyMove
    <3>4. ASSUME NEW v \in Players, NEW q \in Players, v # q
          PROVE  /\ About(v, q)' = {} => shown'[v][q] = pos'[q]
                 /\ \A i \in About(v, q)' :
                        (\A j \in About(v, q)' : j <= i) =>
                            notices'[v][i].cell = pos'[q]
      <4> DEFINE n == Len(notices[v])
      <4>1. CASE q # p
        <5>1. /\ About(v, q)' = About(v, q)
              /\ \A i \in About(v, q) : notices'[v][i] = notices[v][i]
          <6>1. CASE v = p
            BY <3>1, <6>1 DEF About
          <6>2. CASE v # p
            <7>1. /\ notices[v] \in Seq(Moves)
                  /\ [player |-> p, cell |-> c] \in Moves
                  /\ notices'[v] = Append(notices[v], [player |-> p, cell |-> c])
              BY <3>1, <6>2 DEF Moves
            <7>2. /\ DOMAIN notices[v] = 1 .. n /\ n \in Nat
                  /\ DOMAIN notices'[v] = 1 .. n + 1
                  /\ \A i \in 1 .. n : notices'[v][i] = notices[v][i]
                  /\ notices'[v][n + 1].player = p
              BY <7>1, AppendProperties, LenProperties
            <7> HIDE DEF n
            <7> QED
              BY <4>1, <7>2 DEF About
          <6> QED
            BY <6>1, <6>2
        <5>2. shown'[v][q] = shown[v][q] /\ pos'[q] = pos[q]
          BY <3>3, <4>1
        <5>3. /\ About(v, q) = {} => shown[v][q] = pos[q]
              /\ \A i \in About(v, q) : (\A j \in About(v, q) : j <= i) =>
                     notices[v][i].cell = pos[q]
          BY <3>4 DEF OthersShownRight
        <5> QED
          BY ONLY <5>1, <5>2, <5>3
      <4>2. CASE q = p
        <5>1. notices'[v] = Append(notices[v], [player |-> p, cell |-> c])
          BY <3>1, <3>4, <4>2
        <5>0. notices[v] \in Seq(Moves) /\ [player |-> p, cell |-> c] \in Moves
          BY DEF Moves
        <5>a. /\ DOMAIN notices'[v] = 1 .. n + 1
              /\ notices'[v][n + 1] = [player |-> p, cell |-> c]
          BY <5>0, <5>1, AppendProperties, LenProperties
        <5>3. n \in Nat
          BY <5>0, LenProperties
        <5>2. /\ n + 1 \in About(v, q)' /\ About(v, q)' \subseteq 1 .. n + 1
              /\ notices'[v][n + 1].cell = c
          BY <4>2, <5>a, <5>3 DEF About
        <5> HIDE DEF n
        <5>4. \A i \in About(v, q)' : (\A j \in About(v, q)' : j <= i) => i = n + 1
          BY <5>2, <5>3
        <5> QED
          BY <3>3, <4>2, <5>2, <5>4
      <4> QED
        BY <4>1, <4>2
    <3> QED
      BY <3>2, <3>4 DEF OthersShownRight
  <2> QED
    BY <2>1, <2>2
  (* A client that handles its first notice shows what it says; the others *)
  (* move up.                                                              *)
<1>shows. ASSUME TypeOK, OthersShownRight, NEW p \in Players, HandleReturnMove(p)
          PROVE  /\ shown' \in [Players -> [Players -> Cells]]
                 /\ notices' \in [Players -> Seq(Moves)]
                 /\ OthersShownRight'
  <2> USE <1>shows
  <2> USE DEF TypeOK
  <2> DEFINE move == Head(notices[p])
             n == Len(notices[p])
  <2>1. /\ notices[p] \in Seq(Moves) /\ notices[p] # <<>>
        /\ notices' = [notices EXCEPT ![p] = Tail(notices[p])]
        /\ shown' = [shown EXCEPT ![p][move.player] = move.cell]
        /\ pos' = pos
    BY DEF HandleReturnMove
  <2>2. /\ move \in Moves /\ move = notices[p][1]
        /\ n \in Nat /\ n >= 1 /\ DOMAIN notices[p] = 1 .. n
    BY <2>1
  <2>3. /\ Tail(notices[p]) \in Seq(Moves) /\ DOMAIN Tail(notices[p]) = 1 .. n - 1
        /\ \A i \in 1 .. n - 1 : Tail(notices[p])[i] = notices[p][i + 1]
    BY <2>1
  <2>4. move.player \in Players /\ move.cell \in Cells
    BY <2>2 DEF Moves
  <2> HIDE DEF move, n
  <2>5. notices' \in [Players -> Seq(Moves)]
    BY <2>1, <2>3
  <2>6. shown' \in [Players -> [Players -> Cells]]
    BY <2>1, <2>4
  <2>7. ASSUME NEW v \in Players, NEW q \in Players, v # q
        PROVE  /\ About(v, q)' = {} => shown'[v][q] = pos'[q]
               /\ \A i \in About(v, q)' :
                      (\A j \in About(v, q)' : j <= i) =>
                          notices'[v][i].cell = pos'[q]
    <3>1. CASE v # p
      <4>1. notices'[v] = notices[v] /\ shown'[v] = shown[v]
        BY <2>1, <3>1
      <4>2. About(v, q)' = About(v, q)
        BY <4>1 DEF About
      <4> QED
        BY <2>1, <2>7, <4>1, <4>2 DEF OthersShownRight
    <3>2. CASE v = p
      <4>1. /\ notices'[v] = Tail(notices[p])
            /\ \A i \in 1 .. n - 1 : notices'[v][i] = notices[v][i + 1]
        BY <2>1, <2>3, <3>2
      <4>2. About(v, q)' = {i \in 1 .. n - 1 : i + 1 \in About(v, q)}
        BY <2>2, <2>3, <3>2, <4>1 DEF About
      <4>3. About(v, q) \subseteq 1 .. n
        BY <2>2, <3>2 DEF About
      <4>4. CASE About(v, q)' = {}
        <5>1. About(v, q) \subseteq {1}
          <6> SUFFICES ASSUME NEW j \in About(v, q), j # 1 PROVE FALSE
            OBVIOUS
          <6>1. j \in 1 .. n /\ j - 1 \in 1 .. n - 1 /\ (j - 1) + 1 = j
            BY <2>2, <4>3
          <6>2. j - 1 \in About(v, q)'
            BY <4>2, <6>1
          <6> QED
            BY <4>4, <6>2
        <5>2. CASE 1 \in About(v, q)
          <6>1. notices[v][1].player = q
            BY <5>2 DEF About
          <6>2. \A j \in About(v, q) : j <= 1
            BY <5>1
          <6>3. notices[v][1].cell = pos[q]
            BY <2>7, <5>2, <6>2 DEF OthersShownRight
          <6> QED
            BY <2>1, <2>2, <2>4, <3>2, <4>4, <6>1, <6>3
        <5>3. CASE 1 \notin About(v, q)
          <6>1. move.player # q /\ About(v, q) = {}
            BY <2>2, <3>2, <5>1, <5>3 DEF About
          <6>2. shown'[v][q] = shown[v][q]
            BY <2>1, <2>4, <3>2, <6>1
          <6> QED
            BY <2>1, <2>7, <4>4, <6>1, <6>2 DEF OthersShownRight
        <5> QED
          BY <5>2, <5>3
      <4>5. ASSUME NEW i \in About(v, q)', \A j \in About(v, q)' : j <= i
            PROVE  notices'[v][i].cell = pos'[q]
        <5>1. i \in 1 .. n - 1 /\ i + 1 \in About(v, q)
          BY <4>2, <4>5
        <5>2. \A j \in About(v, q) : j <= i + 1
          <6> SUFFICES ASSUME NEW j \in About(v, q), j > i + 1 PROVE FALSE
            BY <2>2, <4>3, <5>1
          <6>1. j - 1 \in About(v, q)'
            BY <2>2, <4>2, <4>3, <5>1
          <6> QED
            BY <2>2, <4>3, <4>5, <5>1, <6>1
        <5>3. notices[v][i + 1].cell = pos[q]
          BY <2>7, <5>1, <5>2 DEF OthersShownRight
        <5> QED
          BY <2>1, <4>1, <5>1, <5>3
      <4> QED
        BY <4>4, <4>5
    <3> QED
      BY <3>1, <3>2
  <2> QED
    BY <2>5, <2>6, <2>7 DEF OthersShownRight
<1>next. WalkInv /\ [Next]_vars => WalkInv'
  <2> SUFFICES ASSUME WalkInv, [Next]_vars PROVE WalkInv'
    OBVIOUS
  <2> USE DEF WalkInv
  <2>1. ASSUME NEW p \in Players, NEW dir \in Directions, MoveToNextPos(p, dir)
        PROVE  WalkInv'
    BY <2>1 DEF MoveToNextPos, NoWall, TypeOK, OthersShownRight, About, Held,
                OnlySpawnShared
  <2>2. ASSUME NEW p \in Players, Update(p) PROVE WalkInv'
    BY <2>2 DEF Update, TypeOK, OthersShownRight, About, Held, OnlySpawnShared
  <2>3. ASSUME NEW p \in Players, HandleReturnMove(p) PROVE WalkInv'
    <3>1. UNCHANGED <<CellPos, requests, pos, ObjectBuf>>
      BY <2>3 DEF HandleReturnMove
    <3>2. TypeOK' /\ OthersShownRight'
      BY <2>3, <3>1, <1>shows DEF TypeOK
    <3>3. Held' /\ OnlySpawnShared'
      BY <3>1 DEF Held, OnlySpawnShared
    <3> QED
      BY <3>2, <3>3
  <2>4. ASSUME NEW p \in Players, NEW n \in 1 .. Len(requests[p]), OnRecv(p, n)
        PROVE  WalkInv'
    <3> DEFINE moves == SubSeq(requests[p], 1, n)
    <3>1. requests[p] \in Seq(Cells)
      BY DEF TypeOK
    <3>2. /\ UNCHANGED <<CellPos, shown>>
          /\ requests' = [requests EXCEPT ![p] = SubSeq(@, n + 1, Len(@))]
      BY <2>4 DEF OnRecv
    <3>3. requests' \in [Players -> Seq(Cells)]
      <4>1. SubSeq(requests[p], n + 1, Len(requests[p])) \in Seq(Cells)
        BY <3>1
      <4> QED
        BY <3>2, <4>1 DEF TypeOK
    <3>4. CASE UNCHANGED <<pos, ObjectBuf, notices>>
      BY <3>2, <3>3, <3>4 DEF TypeOK, OthersShownRight, About, Held, OnlySpawnShared
      (* What the parser makes of them need be no cell of the map: then it *)
      (* is refused.                                                       *)
    <3>5. ASSUME NEW c \in Parsed(moves), HandleMove(p, c), c \in Cells
          PROVE  WalkInv'
      <4>1. notices' \in [Players -> Seq(Moves)] /\ OthersShownRight'
        BY <3>2, <3>5, <1>tells
      <4>2. /\ pos' \in [Players -> Cells]
            /\ ObjectBuf' \in [Cells -> Players \cup {Nobody}]
            /\ Held' /\ OnlySpawnShared'
        <5>1. CASE ApplyMove(p, c)
          BY <3>5, <5>1, <1>grid
        <5>2. CASE UNCHANGED <<pos, ObjectBuf>>
          BY <5>2 DEF TypeOK, Held, OnlySpawnShared
        <5> QED
          BY <3>5, <5>1, <5>2 DEF HandleMove
      <4> QED
        BY <3>2, <3>3, <4>1, <4>2 DEF TypeOK
    <3>6. ASSUME NEW c \in Parsed(moves), HandleMove(p, c), c \notin Cells
          PROVE  UNCHANGED <<pos, ObjectBuf, notices>>
      BY <3>6 DEF HandleMove, CanGo, TypeOK
    <3> QED
      BY <2>4, <3>4, <3>5, <3>6 DEF OnRecv
  <2>same. CASE UNCHANGED vars
    BY <2>same DEF OthersShownRight, About, Held, OnlySpawnShared, TypeOK, vars
  <2> QED
    BY <2>same, <2>1, <2>2, <2>3, <2>4 DEF Receive, Next
<1>1. Init => WalkInv
  BY <1>init
<1>2. WalkInv /\ [Next]_vars => WalkInv'
  BY <1>next
<1>3. WalkInv => OthersShownRight /\ OnlySpawnShared
  BY DEF WalkInv
<1> QED
  BY <1>1, <1>2, <1>3, PTL DEF Spec
-----------------------------------------------------------------------------
(* The network layer.                                                      *)

NetworkTypes ==
    /\ phase \in {"connecting", "started", "announced"}
    /\ teardown \in {"none", "flagged", "closed", "cleared"}
    /\ registering \in {"nobody", "main", "socket"}
    /\ sendQueue \in Seq(Requests) /\ pendingList \in Seq(Requests)
    /\ flight \in Seq(Requests) /\ wire \in Seq(Requests)
    /\ submitted \in Seq(Requests)
    /\ inbox \in Seq(Packets) /\ packetQueue \in Seq(Packets)
    /\ frame \in Seq(Packets)
    /\ early \in BOOLEAN

(* A Disconnect may clear the lists under a send, but not what is under    *)
(* way: it still is what came next.                                        *)
SendChain ==
    /\ teardown # "cleared" => submitted = wire \o (pendingList \o sendQueue)
    /\ flight # <<>> /\ teardown # "cleared" => pendingList = flight
    /\ registering # "nobody" =>
           flight = <<>> /\ teardown # "cleared" /\ pendingList # <<>>
    /\ \E rest \in Seq(Requests) : submitted = wire \o (flight \o rest)

NotStuck ==
    teardown = "none" /\ ~early =>
        /\ pendingList # <<>> => flight # <<>> \/ registering # "nobody"
        /\ sendQueue # <<>> => pendingList # <<>>
        /\ recv # "stopped"

(* Who waits for OnConnected has nothing to be answered before. *)
Announced ==
    /\ phase # "announced" => packetQueue = <<>> /\ frame = <<>>
    /\ phase # "announced" /\ ~early => submitted = <<>>
    /\ answered # {} => submitted # <<>>

(* What the client has yet to receive it has not received before. *)
SentOnce ==
    /\ \A i, j \in 1 .. Len(inbox) : inbox[i] = inbox[j] => i = j
    /\ \A i \in 1 .. Len(inbox) :
           /\ inbox[i] \in answered /\ inbox[i] \notin dropped
           /\ \A k \in 1 .. Len(frame) : frame[k] # inbox[i]
           /\ \A k \in 1 .. Len(packetQueue) : packetQueue[k] # inbox[i]
    /\ dropped \subseteq answered
    /\ \A k \in 1 .. Len(frame) : frame[k] \in answered
    /\ \A k \in 1 .. Len(packetQueue) : packetQueue[k] \in answered

NetworkInv == NetworkTypes /\ SendChain /\ NotStuck /\ Announced /\ SentOnce
-----------------------------------------------------------------------------
(* Every step of the three kinds of thread keeps the invariant. *)
LEMMA NetworkInvariant == NetworkSpec => []NetworkInv
<1>assoc. \A s, t, u \in Seq(Requests) : (s \o t) \o u = s \o (t \o u)
  BY ConcatAssociative
(* Send keeps the chain: the packet goes behind all the others. *)
<1>send. ASSUME NetworkInv, NEW p \in Requests, Send(p),
                UNCHANGED <<teardown, flight, wire>>
         PROVE  /\ sendQueue' \in Seq(Requests) /\ pendingList' \in Seq(Requests)
                /\ submitted' \in Seq(Requests) /\ submitted' # <<>>
                /\ registering' \in {"nobody", "main", "socket"}
                /\ SendChain'
                /\ teardown = "none" /\ ~early =>
                       /\ pendingList' # <<>> /\ (flight # <<>> \/ registering' # "nobody")
  <2> USE <1>send DEF NetworkInv
  <2>0. /\ sendQueue \in Seq(Requests) /\ pendingList \in Seq(Requests)
        /\ flight \in Seq(Requests) /\ wire \in Seq(Requests)
        /\ submitted \in Seq(Requests) /\ <<p>> \in Seq(Requests)
    BY EmptySeq, AppendProperties DEF NetworkTypes
  <2>1. /\ registering = "nobody" /\ submitted' = Append(submitted, p)
        /\ \/ /\ pendingList = <<>> /\ teardown = "none"
              /\ sendQueue' = <<>> /\ pendingList' = Append(sendQueue, p)
              /\ registering' = "main"
           \/ /\ pendingList = <<>> /\ teardown # "none"
              /\ sendQueue' = Append(sendQueue, p) /\ pendingList' = <<>>
              /\ registering' = "nobody"
           \/ /\ pendingList # <<>>
              /\ sendQueue' = Append(sendQueue, p)
              /\ pendingList' = pendingList /\ registering' = registering
    BY DEF Send, RegisterSend
  <2>2. /\ Append(sendQueue, p) \in Seq(Requests) /\ Append(sendQueue, p) # <<>>
        /\ Append(submitted, p) \in Seq(Requests) /\ Append(submitted, p) # <<>>
        /\ <<>> \in Seq(Requests) /\ <<p>> \in Seq(Requests)
        /\ Append(submitted, p) = submitted \o <<p>>
        /\ Append(sendQueue, p) = sendQueue \o <<p>>
    <3>1. sendQueue \in Seq(Requests) /\ submitted \in Seq(Requests) /\ p \in Requests
      BY DEF NetworkTypes
    <3>2. \A s \in Seq(Requests) :
              Append(s, p) = s \o <<p>> /\ Append(s, p) \in Seq(Requests) /\ Append(s, p) # <<>>
      BY ONLY <3>1, AppendIsConcat, AppendProperties
    <3>3. <<p>> \in Seq(Requests) /\ <<>> \in Seq(Requests)
      BY <3>1, EmptySeq
    <3>4. QED BY ONLY <3>1, <3>2, <3>3
  <2>3. /\ sendQueue' \in Seq(Requests) /\ pendingList' \in Seq(Requests)
        /\ submitted' \in Seq(Requests) /\ submitted' # <<>>
        /\ registering' \in {"nobody", "main", "socket"}
    BY <2>1, <2>2 DEF NetworkTypes
  <2>4. pendingList' \o sendQueue' = (pendingList \o sendQueue) \o <<p>>
    <3>1. (pendingList \o sendQueue) \o <<p>> = pendingList \o (sendQueue \o <<p>>)
      <4>1. PICK u \in Seq(Requests) : u = <<p>>
        BY <2>0
      <4>2. /\ pendingList \in Seq(Requests) /\ sendQueue \in Seq(Requests)
            /\ u \in Seq(Requests)
        BY <2>0
      <4>3. (pendingList \o sendQueue) \o u = pendingList \o (sendQueue \o u)
        BY ONLY <4>2, <1>assoc
      <4>4. QED BY ONLY <4>1, <4>3
    <3>2. /\ <<>> \o Append(sendQueue, p) = Append(sendQueue, p)
          /\ Append(sendQueue, p) \o <<>> = Append(sendQueue, p)
      BY <2>2, ConcatEmptySeq
    <3>3. pendingList \o Append(sendQueue, p) = (pendingList \o sendQueue) \o <<p>>
      BY <2>2, <3>1
    <3>4. CASE pendingList = <<>> /\ teardown = "none"
      BY <2>1, <3>2, <3>3, <3>4
    <3>5. CASE ~(pendingList = <<>> /\ teardown = "none")
      <4>1. sendQueue' = Append(sendQueue, p) /\ pendingList' = pendingList
        BY <2>1, <3>5
      <4>2. QED BY <3>3, <4>1
    <3>6. QED BY <3>4, <3>5
  <2>5. teardown # "cleared" => submitted' = wire \o (pendingList' \o sendQueue')
    <3>1. pendingList \o sendQueue \in Seq(Requests)
      BY ConcatProperties DEF NetworkTypes
    <3>2. PICK all \in Seq(Requests) : all = pendingList \o sendQueue
      BY <3>1
    <3>3. (wire \o all) \o <<p>> = wire \o (all \o <<p>>)
      <4>1. wire \in Seq(Requests) /\ all \in Seq(Requests) /\ <<p>> \in Seq(Requests)
        BY <2>0
      <4>2. QED BY ONLY <4>1, <1>assoc
    <3>4. QED BY <2>1, <2>2, <2>4, <3>2, <3>3 DEF SendChain
  <2>6. \E rest \in Seq(Requests) : submitted' = wire \o (flight \o rest)
    <3>1. PICK rest \in Seq(Requests) : submitted = wire \o (flight \o rest)
      BY DEF SendChain
    <3>2. flight \o rest \in Seq(Requests) /\ rest \o <<p>> \in Seq(Requests)
      BY <2>2, ConcatProperties DEF NetworkTypes
    <3>3. PICK tail \in Seq(Requests) : tail = flight \o rest
      BY <3>2
    <3>4. /\ (wire \o tail) \o <<p>> = wire \o (tail \o <<p>>)
          /\ (flight \o rest) \o <<p>> = flight \o (rest \o <<p>>)
      <4>1. PICK u \in Seq(Requests) : u = <<p>>
        BY <2>0
      <4>2. (wire \o tail) \o u = wire \o (tail \o u)
        <5>1. wire \in Seq(Requests) /\ tail \in Seq(Requests) /\ u \in Seq(Requests)
          BY <2>0
        <5>2. QED BY ONLY <5>1, <1>assoc, SMTT(60)
      <4>3. (flight \o rest) \o u = flight \o (rest \o u)
        <5>1. flight \in Seq(Requests) /\ rest \in Seq(Requests) /\ u \in Seq(Requests)
          BY <2>0
        <5>2. QED BY ONLY <5>1, <1>assoc, SMTT(60)
      <4>4. QED BY ONLY <4>1, <4>2, <4>3
    <3>5. QED BY <2>1, <2>2, <3>1, <3>2, <3>3, <3>4
  <2>7. SendChain'
    BY <2>1, <2>2, <2>5, <2>6 DEF SendChain
  <2>8. teardown = "none" /\ ~early =>
            /\ pendingList' # <<>> /\ (flight # <<>> \/ registering' # "nobody")
    BY <2>1, <2>2 DEF NotStuck
  <2>9. QED BY <2>3, <2>7, <2>8
(* SendAsync takes the pending list, or fails because the client has no   *)
(* socket yet, which needs a click before.                                *)
<1>async. ASSUME NetworkInv, SendAsync
          PROVE  NetworkInv'
  <2> USE <1>async DEF NetworkInv
  <2>1. /\ registering # "nobody" /\ registering' = "nobody"
        /\ flight' = IF CanSend THEN pendingList ELSE flight
        /\ UNCHANGED <<phase, teardown, sendQueue, pendingList, submitted, recv, wire,
                       answered, inbox, packetQueue, frame, dropped, early>>
    BY DEF SendAsync, serverVars, mainVars
  <2>2. NetworkTypes'
    BY <2>1 DEF NetworkTypes
  <2>3. SendChain'
    BY <2>1 DEF SendChain, NetworkTypes
  <2>4. NotStuck'
    <3>1. SUFFICES ASSUME teardown = "none", ~early PROVE NotStuck'
      BY <2>1 DEF NotStuck
    <3>2. phase = "announced"
      <4>1. submitted # <<>>
        <5>1. submitted = wire \o (pendingList \o sendQueue) /\ pendingList # <<>>
          BY <2>1 DEF SendChain
        <5>2. pendingList \o sendQueue \in Seq(Requests)
          BY ConcatProperties DEF NetworkTypes
        <5>3. QED BY <5>1, <5>2, ConcatSimplifications DEF NetworkTypes
      <4>2. QED BY <3>1, <4>1 DEF Announced
    <3>3. CanSend
      BY <2>1, <3>1, <3>2 DEF CanSend, SendChain
    <3>4. QED BY <2>1, <3>1, <3>3 DEF NotStuck
  <2>5. Announced' /\ SentOnce'
    BY <2>1 DEF Announced, SentOnce
  <2>6. QED BY <2>2, <2>3, <2>4, <2>5
(* What was in flight is on the wire; what was queued meanwhile is next. *)
<1>sent. ASSUME NetworkInv, OnSendCompleted
         PROVE  NetworkInv'
  <2> USE <1>sent DEF NetworkInv
  <2>1. /\ flight # <<>> /\ registering = "nobody"
        /\ wire' = wire \o flight /\ flight' = <<>>
        /\ UNCHANGED <<phase, teardown, submitted, recv, answered, inbox, packetQueue,
                       frame, dropped, early>>
    BY DEF OnSendCompleted, mainVars
  <2>2. \/ /\ sendQueue # <<>> /\ teardown = "none"
           /\ sendQueue' = <<>> /\ pendingList' = sendQueue /\ registering' = "socket"
        \/ /\ sendQueue # <<>> /\ teardown # "none"
           /\ sendQueue' = sendQueue /\ pendingList' = <<>> /\ registering' = "nobody"
        \/ /\ sendQueue = <<>>
           /\ pendingList' = <<>> /\ sendQueue' = sendQueue
           /\ registering' = registering
    BY DEF OnSendCompleted, SendNext, RegisterSend
  <2>3. NetworkTypes'
    <3>1. wire \o flight \in Seq(Requests) /\ <<>> \in Seq(Requests)
      BY ConcatProperties, EmptySeq DEF NetworkTypes
    <3>2. QED BY <2>1, <2>2, <3>1 DEF NetworkTypes
  <2>4. pendingList' \o sendQueue' = sendQueue
    BY <2>2, ConcatEmptySeq DEF NetworkTypes
  <2>5. teardown # "cleared" => submitted = wire' \o (pendingList' \o sendQueue')
    <3>1. (wire \o flight) \o sendQueue = wire \o (flight \o sendQueue)
      <4>1. /\ wire \in Seq(Requests) /\ flight \in Seq(Requests)
            /\ sendQueue \in Seq(Requests)
        BY DEF NetworkTypes
      <4>2. QED BY ONLY <4>1, <1>assoc, Zenon
    <3>2. QED BY <2>1, <2>4, <3>1 DEF SendChain
  <2>6. \E rest \in Seq(Requests) : submitted = wire' \o (flight' \o rest)
    <3>1. PICK rest \in Seq(Requests) : submitted = wire \o (flight \o rest)
      BY DEF SendChain
    <3>2. (wire \o flight) \o rest = wire \o (flight \o rest)
      <4>1. wire \in Seq(Requests) /\ flight \in Seq(Requests) /\ rest \in Seq(Requests)
        BY <3>1 DEF NetworkTypes
      <4>2. QED BY ONLY <4>1, <1>assoc, Zenon
    <3>3. <<>> \o rest = rest
      BY ConcatEmptySeq
    <3>4. QED BY <2>1, <3>1, <3>2, <3>3
  <2>7. SendChain'
    BY <2>1, <2>2, <2>5, <2>6 DEF SendChain
  <2>8. NotStuck'
    BY <2>1, <2>2 DEF NotStuck
  <2>9. Announced' /\ SentOnce'
    BY <2>1 DEF Announced, SentOnce
  <2>10. QED BY <2>3, <2>7, <2>8, <2>9
(* A send that fails is followed by the clearing of the lists, now or      *)
(* later: the buffers it was given stay the next ones, and stay lost.      *)
<1>lost. ASSUME NetworkInv, OnSendFailed
         PROVE  NetworkInv'
  <2> USE <1>lost DEF NetworkInv
  <2>1. /\ registering = "nobody" /\ flight' = <<>>
        /\ UNCHANGED <<phase, registering, submitted, recv, wire, answered, inbox,
                       packetQueue, frame, dropped, early>>
        /\ \/ /\ teardown = "none" /\ teardown' = "cleared"
              /\ sendQueue' = <<>> /\ pendingList' = <<>>
           \/ /\ teardown # "none"
              /\ UNCHANGED <<teardown, sendQueue, pendingList>>
    BY DEF OnSendFailed, serverVars, mainVars
  <2>2. NetworkTypes'
    BY <2>1, EmptySeq DEF NetworkTypes
  <2>3. \E rest \in Seq(Requests) : submitted = wire \o (<<>> \o rest)
    <3>1. PICK rest \in Seq(Requests) : submitted = wire \o (flight \o rest)
      BY DEF SendChain
    <3>2. /\ flight \o rest \in Seq(Requests)
          /\ <<>> \o (flight \o rest) = flight \o rest
      BY ConcatProperties, ConcatEmptySeq DEF NetworkTypes
    <3>3. QED BY <3>1, <3>2
  <2>4. SendChain'
    BY <2>1, <2>3 DEF SendChain
  <2>5. NotStuck' /\ Announced' /\ SentOnce'
    BY <2>1 DEF NotStuck, Announced, SentOnce, NetworkTypes
  <2>6. QED BY <2>2, <2>4, <2>5
<1>connect. ASSUME NetworkInv, Start \/ OnConnected
            PROVE  NetworkInv'
  <2> USE <1>connect DEF NetworkInv
  <2>1. /\ phase # "announced" /\ phase' \in {"started", "announced"}
        /\ recv' \in {recv, "posted"}
        /\ UNCHANGED <<teardown, sendQueue, pendingList, registering, flight, submitted,
                       wire, answered, inbox, packetQueue, frame, dropped, early>>
    BY DEF Start, OnConnected, serverVars, mainVars, sendVars
  <2>2. NetworkTypes' /\ SendChain'
    BY <2>1 DEF NetworkTypes, SendChain
  <2>3. NotStuck' /\ Announced' /\ SentOnce'
    BY <2>1 DEF NotStuck, Announced, SentOnce
  <2>4. QED BY <2>2, <2>3
(* Before OnConnected there is nothing to receive unless the user has      *)
(* clicked; after it the packet goes into the queue and no handler runs.   *)
<1>receive. ASSUME NetworkInv, OnRecvCompleted
            PROVE  NetworkInv'
  <2> USE <1>receive DEF NetworkInv
  <2> DEFINE p == Head(inbox)
  <2>1. /\ recv = "posted" /\ inbox # <<>> /\ inbox' = Tail(inbox)
        /\ \/ /\ phase = "announced"
              /\ packetQueue' = Append(packetQueue, p) /\ dropped' = dropped
           \/ /\ phase # "announced"
              /\ packetQueue' = packetQueue /\ dropped' \in {dropped, dropped \cup {p}}
        /\ recv' = IF teardown = "none" /\ p \notin dropped' THEN "posted" ELSE "stopped"
        /\ UNCHANGED <<phase, teardown, sendQueue, pendingList, registering, submitted,
                       flight, wire, answered, frame, early>>
    BY DEF OnRecvCompleted, MakePacket, Push, sendVars
  <2>2. /\ p = inbox[1] /\ p \in Packets /\ inbox' \in Seq(Packets)
        /\ Len(inbox) \in Nat /\ Len(inbox) >= 1 /\ Len(inbox') = Len(inbox) - 1
        /\ \A i \in 1 .. Len(inbox') : inbox'[i] = inbox[i + 1]
    BY <2>1, HeadTailProperties, LenProperties, EmptySeq DEF NetworkTypes
  <2> HIDE DEF p
  <2>queue. LET queue == Append(packetQueue, p)
            old == Len(packetQueue)
        IN  /\ queue \in Seq(Packets) /\ old \in Nat /\ Len(queue) = old + 1
            /\ queue[old + 1] = p
            /\ \A k \in 1 .. old : queue[k] = packetQueue[k]
    BY <2>2, AppendProperties, LenProperties DEF NetworkTypes
  <2>3. NetworkTypes'
    BY <2>1, <2>2, <2>queue DEF NetworkTypes
  <2>4. SendChain'
    BY <2>1 DEF SendChain
  <2>5. p \in answered /\ p \notin dropped
    BY <2>2 DEF SentOnce
  <2>6. NotStuck'
    BY <2>1, <2>5 DEF NotStuck, Announced
  <2>7. Announced'
    BY <2>1 DEF Announced
  <2>8. SentOnce'
    <3>1. \A i \in 1 .. Len(inbox') :
              i + 1 \in 1 .. Len(inbox) /\ inbox'[i] = inbox[i + 1] /\ inbox'[i] # p
      <4>1. \A i, j \in 1 .. Len(inbox) : inbox[i] = inbox[j] => i = j
        BY DEF SentOnce
      <4>2. \A i \in 1 .. Len(inbox') : i + 1 \in 1 .. Len(inbox) /\ inbox'[i] = inbox[i + 1]
        BY <2>2
      <4>3. \A i \in 1 .. Len(inbox') : i + 1 # 1 /\ 1 \in 1 .. Len(inbox) /\ p = inbox[1]
        BY <2>2
      <4>4. QED BY ONLY <4>1, <4>2, <4>3
    <3>2. \A i, j \in 1 .. Len(inbox') : inbox'[i] = inbox'[j] => i = j
      BY <2>2, <3>1 DEF SentOnce
    <3>3. \A k \in 1 .. Len(packetQueue') :
              \/ packetQueue'[k] = p
              \/ k \in 1 .. Len(packetQueue) /\ packetQueue'[k] = packetQueue[k]
      <4>1. CASE packetQueue' = packetQueue
        BY <4>1
      <4>2. CASE packetQueue' = Append(packetQueue, p)
        BY <2>queue, <4>2
      <4>3. QED BY <2>1, <4>1, <4>2
    <3>4. \A i \in 1 .. Len(inbox') :
              /\ inbox'[i] \in answered /\ inbox'[i] \notin dropped'
              /\ \A k \in 1 .. Len(frame) : frame[k] # inbox'[i]
              /\ \A k \in 1 .. Len(packetQueue') : packetQueue'[k] # inbox'[i]
      BY <2>1, <3>1, <3>3 DEF SentOnce
    <3>5. /\ dropped' \subseteq answered
          /\ \A k \in 1 .. Len(packetQueue') : packetQueue'[k] \in answered
      BY <2>1, <2>5, <3>3 DEF SentOnce
    <3>6. QED BY <2>1, <3>2, <3>4, <3>5 DEF SentOnce
  <2>9. QED BY <2>3, <2>4, <2>6, <2>7, <2>8
<1>closing. ASSUME NetworkInv, OnRecvFailed \/ Close \/ Clear
            PROVE  NetworkInv'
  <2> USE <1>closing DEF NetworkInv
  <2>1. /\ UNCHANGED <<phase, registering, flight, submitted, wire, answered, inbox,
                       packetQueue, frame, dropped, early>>
        /\ \/ /\ UNCHANGED <<sendQueue, pendingList>>
              /\ teardown' \in {"flagged", "closed", teardown} /\ teardown' # "none"
              /\ teardown' # "cleared" => teardown # "cleared"
              /\ teardown' = "cleared" => teardown = "cleared"
           \/ /\ sendQueue' = <<>> /\ pendingList' = <<>> /\ registering = "nobody"
              /\ teardown' = "cleared"
    BY DEF OnRecvFailed, Close, Clear, serverVars, mainVars, sendVars
  <2>2. NetworkTypes'
    BY <2>1, EmptySeq DEF NetworkTypes
  <2>3. SendChain'
    <3>1. \E rest \in Seq(Requests) : submitted' = wire' \o (flight' \o rest)
      BY <2>1 DEF SendChain
    <3>2. /\ teardown' # "cleared" =>
                 /\ submitted' = wire' \o (pendingList' \o sendQueue')
                 /\ flight' # <<>> => pendingList' = flight'
          /\ registering' # "nobody" =>
                 flight' = <<>> /\ teardown' # "cleared" /\ pendingList' # <<>>
      BY <2>1 DEF SendChain
    <3>3. QED BY <3>1, <3>2 DEF SendChain
  <2>4. NotStuck' /\ Announced' /\ SentOnce'
    BY <2>1 DEF NotStuck, Announced, SentOnce
  <2>5. QED BY <2>2, <2>3, <2>4
<1>update. ASSUME NetworkInv, UpdateNetwork
           PROVE  NetworkInv'
  <2> USE <1>update DEF NetworkInv
  <2>1. /\ frame = <<>> /\ packetQueue # <<>>
        /\ frame' = packetQueue /\ packetQueue' = <<>>
        /\ UNCHANGED <<phase, teardown, sendQueue, pendingList, registering, submitted,
                       flight, recv, wire, answered, inbox, dropped, early>>
    BY DEF UpdateNetwork, PopAll, sendVars, serverVars
  <2>2. NetworkTypes'
    BY <2>1, EmptySeq DEF NetworkTypes
  <2>3. SendChain' /\ NotStuck' /\ Announced'
    BY <2>1 DEF SendChain, NotStuck, Announced
  <2>4. SentOnce'
    BY <2>1, EmptySeq DEF SentOnce
  <2>5. QED BY <2>2, <2>3, <2>4
(* A click, and the handler of the login's reply, which calls Send too.    *)
<1>sends. ASSUME NetworkInv, NEW p \in Requests, Send(p),
                 UNCHANGED <<phase, teardown, flight, wire, recv, answered, inbox>>,
                 frame' = frame \/ (frame # <<>> /\ frame' = Tail(frame)),
                 UNCHANGED <<packetQueue, dropped>>,
                 early' = (early \/ phase # "announced")
          PROVE  NetworkInv'
  <2> USE <1>sends DEF NetworkInv
  <2>1. UNCHANGED <<teardown, flight, wire>>
    OBVIOUS
  <2>2. /\ sendQueue' \in Seq(Requests) /\ pendingList' \in Seq(Requests)
        /\ submitted' \in Seq(Requests) /\ submitted' # <<>>
        /\ registering' \in {"nobody", "main", "socket"}
        /\ SendChain'
        /\ teardown = "none" /\ ~early =>
               /\ pendingList' # <<>> /\ (flight # <<>> \/ registering' # "nobody")
    BY <2>1, <1>send
  <2>3. /\ frame' \in Seq(Packets)
        /\ \A k \in 1 .. Len(frame') : \E m \in 1 .. Len(frame) : frame'[k] = frame[m]
    <3>1. CASE frame # <<>> /\ frame' = Tail(frame)
      <4>1. /\ frame' \in Seq(Packets) /\ Len(frame) \in Nat /\ Len(frame') = Len(frame) - 1
            /\ \A k \in 1 .. Len(frame') : frame'[k] = frame[k + 1]
        BY <3>1, HeadTailProperties, LenProperties DEF NetworkTypes
      <4>2. \A k \in 1 .. Len(frame') : k + 1 \in 1 .. Len(frame)
        BY <4>1
      <4>3. QED BY <4>1, <4>2
    <3>2. CASE frame' = frame
      BY <3>2 DEF NetworkTypes
    <3>3. QED BY <3>1, <3>2
  <2>4. NetworkTypes'
    BY <2>2, <2>3 DEF NetworkTypes
  <2>5. NotStuck'
    BY <2>2 DEF NotStuck
  <2>6. Announced'
    BY <2>2 DEF Announced
  <2>7. SentOnce'
    <3>1. /\ \A i \in 1 .. Len(inbox) : \A k \in 1 .. Len(frame') : frame'[k] # inbox[i]
          /\ \A k \in 1 .. Len(frame') : frame'[k] \in answered
      <4>1. /\ \A i \in 1 .. Len(inbox) : \A k \in 1 .. Len(frame) : frame[k] # inbox[i]
            /\ \A k \in 1 .. Len(frame) : frame[k] \in answered
        BY DEF SentOnce
      <4>2. QED BY ONLY <2>3, <4>1
    <3>2. inbox' = inbox /\ packetQueue' = packetQueue /\ answered' = answered /\ dropped' = dropped
      OBVIOUS
    <3>3. SentOnce
      OBVIOUS
    <3>4. QED BY ONLY <3>1, <3>2, <3>3 DEF SentOnce
  <2>8. QED BY <2>2, <2>4, <2>5, <2>6, <2>7
<1>click. ASSUME NetworkInv, NEW p \in Clicks, Click(p)
          PROVE  NetworkInv'
  <2>1. /\ p \in Requests /\ Send(p)
        /\ UNCHANGED <<phase, teardown, flight, wire, recv, answered, inbox>>
        /\ frame' = frame
        /\ UNCHANGED <<packetQueue, dropped>>
        /\ early' = (early \/ phase # "announced")
    BY <1>click DEF Click, serverVars, mainVars, Requests
  <2>2. QED BY <2>1, <1>click, <1>sends
<1>handle. ASSUME NetworkInv, HandleNext
           PROVE  NetworkInv'
  <2> USE <1>handle DEF NetworkInv
  <2>1. /\ frame # <<>> /\ phase = "announced"
        /\ UNCHANGED <<phase, teardown, flight, recv, wire, answered, inbox, packetQueue,
                       early>>
    BY DEF HandleNext, serverVars, Announced
  <2>2. CASE Head(frame) \in Faulty
    <3>1. /\ frame' = <<>> /\ dropped' = dropped \cup ToSet(frame)
          /\ UNCHANGED <<sendQueue, pendingList, registering, submitted>>
      BY <2>2 DEF HandleNext, HandlerThrows, sendVars
    <3>2. ToSet(frame) = {frame[k] : k \in 1 .. Len(frame)}
      BY LenProperties DEF NetworkTypes, ToSet
    <3>3. NetworkTypes'
      BY <2>1, <3>1, EmptySeq DEF NetworkTypes
    <3>4. SendChain' /\ NotStuck' /\ Announced'
      BY <2>1, <3>1 DEF SendChain, NotStuck, Announced
    <3>5. SentOnce'
      BY <2>1, <3>1, <3>2, EmptySeq DEF SentOnce
    <3>6. QED BY <3>3, <3>4, <3>5
  <2>3. CASE Head(frame) \notin Faulty /\ Head(frame) = Login
    <3>1. /\ Enter \in Requests /\ Send(Enter)
          /\ frame' = Tail(frame) /\ dropped' = dropped
      BY <2>3 DEF HandleNext, Handler, Requests
    <3>2. early' = (early \/ phase # "announced")
      BY <2>1 DEF NetworkTypes
    <3>3. QED BY <2>1, <3>1, <3>2, <1>sends
  <2>4. CASE Head(frame) \notin Faulty /\ Head(frame) # Login
    <3>1. /\ frame' = Tail(frame) /\ dropped' = dropped
          /\ UNCHANGED <<sendQueue, pendingList, registering, submitted>>
      BY <2>4 DEF HandleNext, Handler, sendVars
    <3>2. /\ frame' \in Seq(Packets) /\ Len(frame) \in Nat /\ Len(frame') = Len(frame) - 1
          /\ \A k \in 1 .. Len(frame') : frame'[k] = frame[k + 1]
      BY <2>1, <3>1, HeadTailProperties, LenProperties DEF NetworkTypes
    <3>3. \A k \in 1 .. Len(frame') : k + 1 \in 1 .. Len(frame)
      BY <3>2
    <3>4. NetworkTypes'
      BY <2>1, <3>1, <3>2 DEF NetworkTypes
    <3>5. SendChain' /\ NotStuck' /\ Announced'
      BY <2>1, <3>1 DEF SendChain, NotStuck, Announced
    <3>6. SentOnce'
      BY <2>1, <3>1, <3>2, <3>3 DEF SentOnce
    <3>7. QED BY <3>4, <3>5, <3>6
  <2>5. QED BY <2>2, <2>3, <2>4
(* The server answers what has reached it, and each once. *)
<1>answer. ASSUME NetworkInv, NEW p \in Packets, SendsToClient(p), submitted # <<>>
           PROVE  NetworkInv'
  <2> USE <1>answer DEF NetworkInv
  <2>1. /\ p \notin answered /\ answered' = answered \cup {p} /\ inbox' = Append(inbox, p)
        /\ UNCHANGED <<phase, teardown, sendQueue, pendingList, registering, submitted,
                       flight, recv, wire, packetQueue, frame, dropped, early>>
    BY DEF SendsToClient, sendVars, mainVars
  <2>2. /\ inbox' \in Seq(Packets) /\ Len(inbox) \in Nat /\ Len(inbox') = Len(inbox) + 1
        /\ inbox'[Len(inbox) + 1] = p
        /\ \A i \in 1 .. Len(inbox) : inbox'[i] = inbox[i]
    BY <2>1, AppendProperties, LenProperties DEF NetworkTypes
  <2>3. NetworkTypes'
    BY <2>1, <2>2 DEF NetworkTypes
  <2>4. SendChain' /\ NotStuck' /\ Announced'
    BY <2>1 DEF SendChain, NotStuck, Announced
  <2>5. SentOnce'
    <3>1. \A i \in 1 .. Len(inbox') :
              \/ i = Len(inbox) + 1 /\ inbox'[i] = p
              \/ i \in 1 .. Len(inbox) /\ inbox'[i] = inbox[i] /\ inbox'[i] # p
      BY <2>1, <2>2 DEF SentOnce
    <3>2. \A i, j \in 1 .. Len(inbox') : inbox'[i] = inbox'[j] => i = j
      BY <3>1 DEF SentOnce
    <3>3. \A i \in 1 .. Len(inbox') :
              /\ inbox'[i] \in answered' /\ inbox'[i] \notin dropped
              /\ \A k \in 1 .. Len(frame) : frame[k] # inbox'[i]
              /\ \A k \in 1 .. Len(packetQueue) : packetQueue[k] # inbox'[i]
      BY <2>1, <3>1 DEF SentOnce
    <3>4. QED BY <2>1, <3>2, <3>3 DEF SentOnce
  <2>6. QED BY <2>3, <2>4, <2>5
<1>reply. ASSUME NetworkInv, NEW p \in Requests, Reply(p)
          PROVE  NetworkInv'
  <2> USE <1>reply DEF NetworkInv
  <2>1. p \in Packets /\ SendsToClient(p) /\ wire # <<>>
    BY EmptySeq DEF Reply, Contains, Packets
  <2>2. PICK rest \in Seq(Requests) : submitted = wire \o (flight \o rest)
    BY DEF SendChain
  <2>3. PICK tail \in Seq(Requests) : tail = flight \o rest
    BY <2>2, ConcatProperties DEF NetworkTypes
  <2>4. wire \o tail # <<>>
    BY <2>1, <2>3, ConcatSimplifications DEF NetworkTypes
  <2>5. QED BY <2>1, <2>2, <2>3, <2>4, <1>answer
<1>notify. ASSUME NetworkInv, NEW p \in Notices, Notify(p)
           PROVE  NetworkInv'
  <2>1. p \in Packets /\ SendsToClient(p) /\ submitted # <<>>
    BY <1>notify DEF Notify, Packets, NetworkInv, Announced
  <2>2. QED BY <2>1, <1>notify, <1>answer
<1>drop. ASSUME NetworkInv, LinkDrops \/ UNCHANGED netVars
         PROVE  NetworkInv'
  <2>1. UNCHANGED <<phase, teardown, sendQueue, pendingList, registering, submitted,
                    flight, recv, wire, answered, inbox, packetQueue, frame, dropped,
                    early>>
    BY <1>drop DEF LinkDrops, netVars, sendVars, serverVars, mainVars
  <2>2. NetworkTypes' /\ SendChain'
    BY <1>drop, <2>1 DEF NetworkInv, NetworkTypes, SendChain
  <2>3. NotStuck' /\ Announced' /\ SentOnce'
    BY <1>drop, <2>1 DEF NetworkInv, NotStuck, Announced, SentOnce
  <2>4. QED BY <2>2, <2>3 DEF NetworkInv
<1>init. InitNetwork => NetworkInv
  <2> SUFFICES ASSUME InitNetwork PROVE NetworkInv
    OBVIOUS
  <2>1. NetworkTypes
    BY EmptySeq DEF InitNetwork, NetworkTypes
  <2>2. SendChain
    <3>1. <<>> \in Seq(Requests) /\ <<>> \o <<>> = <<>>
      BY EmptySeq, ConcatEmptySeq
    <3>2. QED BY <3>1 DEF InitNetwork, SendChain
  <2>3. NotStuck /\ Announced /\ SentOnce
    BY EmptySeq DEF InitNetwork, NotStuck, Announced, SentOnce
  <2>4. QED BY <2>1, <2>2, <2>3 DEF NetworkInv
<1>next. NetworkInv /\ [NextNetwork]_netVars => NetworkInv'
  <2> SUFFICES ASSUME NetworkInv, [NextNetwork]_netVars PROVE NetworkInv'
    OBVIOUS
  <2>1. CASE SocketThreads
    BY <2>1, <1>connect, <1>async, <1>sent, <1>lost, <1>receive, <1>closing
       DEF SocketThreads
  <2>2. CASE MainThread
    BY <2>2, <1>update, <1>handle DEF MainThread
  <2>3. CASE Server
    BY <2>3, <1>reply DEF Server
  <2>4. QED BY <2>1, <2>2, <2>3, <1>click, <1>notify, <1>drop DEF NextNetwork
<1>q. QED BY <1>init, <1>next, PTL DEF NetworkSpec
-----------------------------------------------------------------------------
(* What Send was given reaches the server once each and in order, and      *)
(* nobody calls SendAsync while one is under way (Session.cs:54, 59-129),  *)
(* also not after a Disconnect has cleared the lists under a send.         *)
THEOREM SendsInOrder == NetworkSpec => []SentInOrder
  (* What is sent before the rest is a prefix. *)
<1>prefix. ASSUME NEW S, NEW s \in Seq(S), NEW t \in Seq(S)
           PROVE  IsPrefix(s, s \o t)
  <2> USE <1>prefix
  <2>1. Len(s) \in Nat /\ Len(t) \in Nat /\ Len(s \o t) = Len(s) + Len(t)
    BY ConcatProperties, LenProperties
  <2>2. SubSeq(s, 1, Len(s)) = s
    BY SubSeqFull
  <2>3. SubSeq(s \o t, 1, Len(s)) = s
    <3>1. CASE s = <<>>
      <4>1. Len(s) = 0
        BY <3>1, EmptySeq
      <4>2. QED BY <3>1, <4>1, SubSeqEmpty
    <3>2. CASE s # <<>>
      <4>1. Len(s) >= 1
        BY <2>1, <3>2, EmptySeq
      <4>2. QED BY <2>1, <2>2, <4>1, SubSeqOfConcat1
    <3>3. QED BY <3>1, <3>2
  <2>4. QED BY <2>1, <2>2, <2>3 DEF IsPrefix
<1>1. NetworkInv => SentInOrder
  <2> SUFFICES ASSUME NetworkInv PROVE SentInOrder
    OBVIOUS
  <2> USE DEF NetworkInv
  <2>1. registering # "nobody" => flight = <<>>
    BY DEF SendChain
  <2>2. IsPrefix(wire, submitted)
    <3>1. PICK rest \in Seq(Requests) : submitted = wire \o (flight \o rest)
      BY DEF SendChain
    <3>2. flight \o rest \in Seq(Requests)
      BY ConcatProperties DEF NetworkTypes
    <3>3. QED BY <3>1, <3>2, <1>prefix DEF NetworkTypes
  <2>3. (wire \o pendingList) \o sendQueue = wire \o (pendingList \o sendQueue)
    <3>1. \A s, t, u \in Seq(Requests) : (s \o t) \o u = s \o (t \o u)
      BY ConcatAssociative
    <3>2. /\ wire \in Seq(Requests) /\ pendingList \in Seq(Requests)
          /\ sendQueue \in Seq(Requests)
      BY DEF NetworkTypes
    <3>3. QED BY ONLY <3>1, <3>2, Zenon
  <2>4. teardown = "none" => submitted = wire \o pendingList \o sendQueue
    BY <2>3 DEF SendChain
  <2>5. QED BY <2>1, <2>2, <2>4 DEF SentInOrder
<1>2. QED BY <1>1, NetworkInvariant, PTL
(* Without a click before OnConnected, a connection that nobody has torn   *)
(* down has a completion to come for what is queued, and a receive posted  *)
(* or to be posted (Session.cs:99, 178).                                   *)
THEOREM OnlyEarlyClicksHang == NetworkSpec => []HangNeedsEarlyClick
<1>1. NetworkInv => HangNeedsEarlyClick
  <2> SUFFICES ASSUME NetworkInv, teardown = "none", ~early
               PROVE  /\ ~(/\ pendingList \o sendQueue # <<>>
                           /\ flight = <<>> /\ registering = "nobody")
                      /\ recv # "stopped"
    BY DEF HangNeedsEarlyClick
  <2>1. recv # "stopped"
    BY DEF NetworkInv, NotStuck
  <2>2. pendingList = <<>> /\ sendQueue = <<>> => pendingList \o sendQueue = <<>>
    BY ConcatEmptySeq DEF NetworkInv, NetworkTypes
  <2>3. QED BY <2>1, <2>2 DEF NetworkInv, NotStuck
<1>2. QED BY <1>1, NetworkInvariant, PTL

(* The packets that have been handled or wait for the main thread. *)
Taken == handled \o (frame \o packetQueue)

OrderKept ==
    \A i, j \in 1 .. Len(Taken) : i < j =>
        \E k, l \in 1 .. Len(received) :
            k < l /\ received[k] = Taken[i] /\ received[l] = Taken[j]

(* A packet received is not in the inbox any more, and was there once. *)
HandleInv ==
    /\ received \in Seq(Packets) /\ handled \in Seq(Packets)
    /\ \A i, j \in 1 .. Len(received) : received[i] = received[j] => i = j
    /\ \A i \in 1 .. Len(received) :
           /\ received[i] \in answered
           /\ \A k \in 1 .. Len(inbox) : inbox[k] # received[i]
    /\ \A i \in 1 .. Len(Taken) :
           /\ Taken[i] \notin dropped
           /\ \E k \in 1 .. Len(received) : Taken[i] = received[k]
    /\ \A k \in 1 .. Len(received) :
           received[k] \in dropped \/ \E i \in 1 .. Len(Taken) : Taken[i] = received[k]
    /\ OrderKept

(* Packets are handled once each and in the order received, but for those  *)
(* that an exception has lost: OnRecvCompleted puts a packet behind all    *)
(* that wait, Update moves them from one list to the other, and a handler  *)
(* that throws takes what was popped with it (PacketQueue.cs,              *)
(* PacketManager.MakePacket, NetworkManager.Update).                       *)
THEOREM HandlesInOrder == NetworkSpec => []HandledOnceInOrder
<1>assoc. \A s, t, u \in Seq(Packets) : (s \o t) \o u = s \o (t \o u)
  BY ConcatAssociative
<1>types. ASSUME NetworkInv, HandleInv
          PROVE  /\ handled \in Seq(Packets) /\ frame \in Seq(Packets)
                 /\ packetQueue \in Seq(Packets) /\ received \in Seq(Packets)
                 /\ Taken \in Seq(Packets) /\ Len(Taken) \in Nat /\ Len(received) \in Nat
                 /\ DOMAIN Taken = 1 .. Len(Taken)
                 /\ DOMAIN received = 1 .. Len(received)
  BY <1>types, ConcatProperties, LenProperties DEF NetworkInv, NetworkTypes, HandleInv, Taken
(* One more packet is received. *)
<1>more. ASSUME NetworkInv, HandleInv, NEW p \in Packets, p \in answered,
                \A i \in 1 .. Len(received) : received[i] # p,
                received' = Append(received, p),
                \/ Taken' = Append(Taken, p) /\ dropped' = dropped /\ p \notin dropped
                \/ Taken' = Taken /\ dropped' = dropped \cup {p},
                handled' \in Seq(Packets),
                answered' = answered,
                \A k \in 1 .. Len(inbox') : inbox'[k] # p
                       /\ \E m \in 1 .. Len(inbox) : inbox'[k] = inbox[m]
         PROVE  HandleInv'
  <2> DEFINE old == Len(received)
             was == Len(Taken)
  <2>0. old \in Nat /\ was \in Nat /\ DOMAIN Taken = 1 .. was /\ Taken \in Seq(Packets)
        /\ received \in Seq(Packets) /\ DOMAIN received = 1 .. old
    BY <1>more, <1>types
  <2>1. /\ received' \in Seq(Packets) /\ Len(received') = old + 1
        /\ received'[old + 1] = p
        /\ \A i \in 1 .. old : received'[i] = received[i]
        /\ DOMAIN received' = 1 .. Len(received')
    BY <1>more, <2>0, AppendProperties, LenProperties
  <2>2. LET more == Append(Taken, p)
        IN  /\ more \in Seq(Packets) /\ Len(more) = was + 1 /\ more[was + 1] = p
            /\ \A i \in 1 .. was : more[i] = Taken[i]
            /\ DOMAIN more = 1 .. was + 1
    BY <1>more, <2>0, AppendProperties, LenProperties
  <2> HIDE DEF old, was
  <2>3. \A i \in 1 .. old : i \in 1 .. old + 1 /\ received'[i] = received[i]
    BY <2>0, <2>1
  <2>4. \A i \in 1 .. was : \E k \in 1 .. old : Taken[i] = received[k]
    BY <1>more DEF HandleInv, old, was
  <2>5. \A i, j \in 1 .. old + 1 : received'[i] = received'[j] => i = j
    <3>1. \A i \in 1 .. old + 1 :
              i = old + 1 \/ (i \in 1 .. old /\ received'[i] = received[i] /\ received[i] # p)
      BY <1>more, <2>0, <2>1 DEF old
    <3>2. \A i, j \in 1 .. old : received[i] = received[j] => i = j
      BY <1>more DEF HandleInv, old
    <3>3. QED BY <2>1, <3>1, <3>2
  <2>6. \A i \in 1 .. old + 1 :
            /\ received'[i] \in answered'
            /\ \A k \in 1 .. Len(inbox') : inbox'[k] # received'[i]
    <3>1. \A i \in 1 .. old : received[i] \in answered
              /\ \A k \in 1 .. Len(inbox) : inbox[k] # received[i]
      BY <1>more DEF HandleInv, old
    <3>2. \A i \in 1 .. old + 1 : received'[i] = p \/ (i \in 1 .. old /\ received'[i] = received[i])
      BY <2>0, <2>1
    <3>3. \A k \in 1 .. Len(inbox') :
              inbox'[k] # p /\ \E m \in 1 .. Len(inbox) : inbox'[k] = inbox[m]
      BY <1>more
    <3>4. p \in answered /\ answered' = answered
      BY <1>more
    <3>5. QED BY ONLY <3>1, <3>2, <3>3, <3>4
  <2>7. CASE Taken' = Append(Taken, p) /\ dropped' = dropped /\ p \notin dropped
    <3>1. /\ Len(Taken') = was + 1 /\ DOMAIN Taken' = 1 .. was + 1 /\ Taken'[was + 1] = p
          /\ \A i \in 1 .. was : Taken'[i] = Taken[i]
      BY <2>2, <2>7
    <3>2. \A i \in 1 .. was + 1 : i = was + 1 \/ i \in 1 .. was
      BY <2>0
    <3>3. \A i \in 1 .. was + 1 :
              Taken'[i] \notin dropped' /\ \E k \in 1 .. old + 1 : Taken'[i] = received'[k]
      <4>1. old + 1 \in 1 .. old + 1
        BY <2>0
      <4>2. \A i \in 1 .. was : Taken[i] \notin dropped
        BY <1>more DEF HandleInv, was
      <4>3. \A i \in 1 .. was + 1 : Taken'[i] \notin dropped'
        BY <2>7, <3>1, <3>2, <4>2
      <4>4. \A i \in 1 .. was : \E k \in 1 .. old + 1 : Taken'[i] = received'[k]
        BY <2>3, <2>4, <3>1
      <4>5. Taken'[was + 1] = received'[old + 1]
        BY <2>1, <3>1
      <4>6. QED BY ONLY <3>2, <4>1, <4>3, <4>4, <4>5
    <3>4. \A k \in 1 .. old + 1 :
              received'[k] \in dropped' \/ \E i \in 1 .. was + 1 : Taken'[i] = received'[k]
      <4>1. was + 1 \in 1 .. was + 1 /\ \A i \in 1 .. was : i \in 1 .. was + 1
        BY <2>0
      <4>2. \A k \in 1 .. old : received[k] \in dropped \/ \E i \in 1 .. was : Taken[i] = received[k]
        BY <1>more DEF HandleInv, old, was
      <4>3. \A k \in 1 .. old + 1 : k = old + 1 \/ k \in 1 .. old
        BY <2>0
      <4>4. QED BY <2>1, <2>7, <3>1, <4>1, <4>2, <4>3
    <3>5. OrderKept'
      <4> SUFFICES ASSUME NEW i \in 1 .. Len(Taken'), NEW j \in 1 .. Len(Taken'), i < j
                   PROVE  \E k, l \in 1 .. Len(received') :
                              k < l /\ received'[k] = Taken'[i] /\ received'[l] = Taken'[j]
        BY DEF OrderKept
      <4>0. i \in 1 .. was + 1 /\ j \in 1 .. was + 1
        BY <3>1
      <4>1. i \in 1 .. was /\ Taken'[i] = Taken[i]
        BY <2>0, <3>1, <4>0
      <4>2. CASE j = was + 1
        <5>1. PICK k \in 1 .. old : Taken[i] = received[k]
          BY <2>4, <4>1
        <5>2. k \in 1 .. old + 1 /\ old + 1 \in 1 .. old + 1 /\ k < old + 1
          BY <2>0
        <5>3. /\ received'[k] = Taken'[i] /\ received'[old + 1] = Taken'[j]
              /\ k \in 1 .. Len(received') /\ old + 1 \in 1 .. Len(received')
          BY <2>1, <3>1, <4>1, <4>2, <5>1, <5>2
        <5>4. QED BY <5>2, <5>3
      <4>3. CASE j \in 1 .. was
        <5>1. PICK k \in 1 .. old, l \in 1 .. old :
                  k < l /\ received[k] = Taken[i] /\ received[l] = Taken[j]
          BY <1>more, <4>1, <4>3 DEF HandleInv, OrderKept, old, was
        <5>2. /\ received'[k] = Taken'[i] /\ received'[l] = Taken'[j]
              /\ k \in 1 .. Len(received') /\ l \in 1 .. Len(received')
          BY <2>1, <2>3, <3>1, <4>1, <4>3, <5>1
        <5>3. QED BY <5>1, <5>2
      <4>4. QED BY <3>2, <4>0, <4>2, <4>3
    <3>6. handled' \in Seq(Packets)
      BY <1>more
    <3>7. QED BY <2>1, <2>5, <2>6, <3>1, <3>3, <3>4, <3>5, <3>6 DEF HandleInv
  <2>8. CASE Taken' = Taken /\ dropped' = dropped \cup {p}
    <3>1. Len(Taken') = was /\ DOMAIN Taken' = 1 .. was
      BY <2>0, <2>8 DEF was
    <3>2. \A i \in 1 .. was :
              Taken'[i] \notin dropped' /\ \E k \in 1 .. old + 1 : Taken'[i] = received'[k]
      <4>1. \A i \in 1 .. was : Taken[i] \notin dropped
        BY <1>more DEF HandleInv, was
      <4>2. QED BY <1>more, <2>3, <2>4, <2>8, <4>1 DEF old
    <3>3. \A k \in 1 .. old + 1 :
              received'[k] \in dropped' \/ \E i \in 1 .. was : Taken'[i] = received'[k]
      <4>1. \A k \in 1 .. old : received[k] \in dropped \/ \E i \in 1 .. was : Taken[i] = received[k]
        BY <1>more DEF HandleInv, old, was
      <4>2. \A k \in 1 .. old + 1 : k = old + 1 \/ k \in 1 .. old
        BY <2>0
      <4>3. QED BY <2>1, <2>8, <4>1, <4>2
    <3>4. OrderKept'
      <4> SUFFICES ASSUME NEW i \in 1 .. Len(Taken'), NEW j \in 1 .. Len(Taken'), i < j
                   PROVE  \E k, l \in 1 .. Len(received') :
                              k < l /\ received'[k] = Taken'[i] /\ received'[l] = Taken'[j]
        BY DEF OrderKept
      <4>0. i \in 1 .. was /\ j \in 1 .. was /\ Taken' = Taken
        BY <2>8, <3>1
      <4>1. PICK k \in 1 .. old, l \in 1 .. old :
                k < l /\ received[k] = Taken[i] /\ received[l] = Taken[j]
        BY <1>more, <4>0 DEF HandleInv, OrderKept, old, was
      <4>2. /\ received'[k] = Taken'[i] /\ received'[l] = Taken'[j]
            /\ k \in 1 .. Len(received') /\ l \in 1 .. Len(received')
        BY <2>1, <2>3, <4>0, <4>1
      <4>3. QED BY <4>1, <4>2
    <3>5. handled' \in Seq(Packets)
      BY <1>more
    <3>6. QED BY <2>1, <2>5, <2>6, <3>1, <3>2, <3>3, <3>4, <3>5 DEF HandleInv
  <2>9. QED BY <1>more, <2>7, <2>8
(* Nothing is received, and the packets are where they were. *)
<1>same. ASSUME HandleInv, Taken' = Taken, handled' \in Seq(Packets),
                received' = received, dropped' = dropped, answered \subseteq answered',
                \A k \in 1 .. Len(inbox') :
                    \/ inbox'[k] \notin answered
                    \/ \E m \in 1 .. Len(inbox) : inbox'[k] = inbox[m]
         PROVE  HandleInv'
  <2>1. \A i \in 1 .. Len(received') :
            /\ received'[i] \in answered'
            /\ \A k \in 1 .. Len(inbox') : inbox'[k] # received'[i]
    <3>1. \A i \in 1 .. Len(received) :
              received[i] \in answered /\ \A m \in 1 .. Len(inbox) : inbox[m] # received[i]
      BY <1>same DEF HandleInv
    <3>2. ASSUME NEW i \in 1 .. Len(received), NEW k \in 1 .. Len(inbox')
          PROVE  inbox'[k] # received[i]
      <4>1. CASE inbox'[k] \notin answered
        BY <3>1, <4>1
      <4>2. CASE \E m \in 1 .. Len(inbox) : inbox'[k] = inbox[m]
        BY <3>1, <4>2
      <4>3. QED BY <1>same, <4>1, <4>2
    <3>3. \A i \in 1 .. Len(received) :
              received[i] \in answered' /\ \A k \in 1 .. Len(inbox') : inbox'[k] # received[i]
      <4>1. answered \subseteq answered'
        BY <1>same
      <4>2. QED BY <3>1, <3>2, <4>1
    <3>4. received' = received
      BY <1>same
    <3>5. QED BY ONLY <3>3, <3>4
  <2>2. /\ received' \in Seq(Packets) /\ handled' \in Seq(Packets)
        /\ \A i, j \in 1 .. Len(received') : received'[i] = received'[j] => i = j
    BY <1>same DEF HandleInv
  <2>3. \A i \in 1 .. Len(Taken') :
            Taken'[i] \notin dropped' /\ \E k \in 1 .. Len(received') : Taken'[i] = received'[k]
    BY <1>same DEF HandleInv
  <2>4. \A k \in 1 .. Len(received') :
            received'[k] \in dropped' \/ \E i \in 1 .. Len(Taken') : Taken'[i] = received'[k]
    BY <1>same DEF HandleInv
  <2>5. OrderKept'
    BY <1>same DEF HandleInv, OrderKept
  <2> QED BY <2>1, <2>2, <2>3, <2>4, <2>5 DEF HandleInv
<1>receive. ASSUME NetworkInv, HandleInv, OnRecvCompleted
            PROVE  HandleInv'
  <2> USE <1>receive
  <2> DEFINE p == Head(inbox)
  <2>1. /\ inbox # <<>> /\ inbox' = Tail(inbox) /\ received' = Append(received, p)
        /\ \/ /\ phase = "announced" /\ packetQueue' = Append(packetQueue, p)
              /\ handled' = handled /\ dropped' = dropped
           \/ /\ phase # "announced" /\ packetQueue' = packetQueue
              /\ \/ handled' = Append(handled, p) /\ dropped' = dropped
                 \/ handled' = handled /\ dropped' = dropped \cup {p}
        /\ UNCHANGED <<answered, frame>>
    BY DEF OnRecvCompleted, MakePacket, Push
  <2>2. /\ p = inbox[1] /\ p \in Packets /\ inbox' \in Seq(Packets)
        /\ Len(inbox) \in Nat /\ Len(inbox) >= 1 /\ Len(inbox') = Len(inbox) - 1
        /\ \A i \in 1 .. Len(inbox') : inbox'[i] = inbox[i + 1]
    BY <2>1, HeadTailProperties, LenProperties, EmptySeq DEF NetworkInv, NetworkTypes
  <2> HIDE DEF p
  <2>3. p \in answered /\ p \notin dropped /\ \A i \in 1 .. Len(received) : received[i] # p
    BY <2>2 DEF NetworkInv, SentOnce, HandleInv
  <2>4. \A k \in 1 .. Len(inbox') : inbox'[k] # p
            /\ \E m \in 1 .. Len(inbox) : inbox'[k] = inbox[m]
    <3>1. \A k \in 1 .. Len(inbox') :
              k + 1 \in 1 .. Len(inbox) /\ 1 \in 1 .. Len(inbox) /\ k + 1 # 1
      BY <2>2
    <3>2. \A i, j \in 1 .. Len(inbox) : inbox[i] = inbox[j] => i = j
      BY DEF NetworkInv, SentOnce
    <3>3. QED BY <2>2, <3>1, <3>2
  <2>5. /\ handled \in Seq(Packets) /\ frame \in Seq(Packets) /\ packetQueue \in Seq(Packets)
        /\ <<p>> \in Seq(Packets) /\ <<>> \in Seq(Packets)
        /\ Append(packetQueue, p) = packetQueue \o <<p>>
        /\ Append(handled, p) = handled \o <<p>> /\ Append(handled, p) \in Seq(Packets)
        /\ Taken \in Seq(Packets) /\ Append(Taken, p) = Taken \o <<p>>
    <3>1. /\ handled \in Seq(Packets) /\ frame \in Seq(Packets) /\ packetQueue \in Seq(Packets)
          /\ Taken \in Seq(Packets) /\ p \in Packets
      BY <1>types, <2>2
    <3>2. \A s \in Seq(Packets) : Append(s, p) = s \o <<p>> /\ Append(s, p) \in Seq(Packets)
      BY ONLY <3>1, AppendIsConcat, AppendProperties
    <3>3. <<p>> \in Seq(Packets) /\ <<>> \in Seq(Packets)
      BY <3>1, EmptySeq
    <3>4. QED BY ONLY <3>1, <3>2, <3>3
  <2>6. handled' \in Seq(Packets)
    BY <2>1, <2>5
  <2>7. CASE phase = "announced"
    <3>1. frame \o (packetQueue \o <<p>>) = (frame \o packetQueue) \o <<p>>
      BY <1>assoc, <2>5
    <3>2. PICK w \in Seq(Packets) : w = frame \o packetQueue
      BY <2>5, ConcatProperties
    <3>3. handled \o (w \o <<p>>) = (handled \o w) \o <<p>>
      <4>1. handled \in Seq(Packets) /\ w \in Seq(Packets) /\ <<p>> \in Seq(Packets)
        BY <2>5, <3>2
      <4>2. QED BY ONLY <4>1, <1>assoc
    <3>4. Taken' = Append(Taken, p)
      BY <2>1, <2>5, <2>7, <3>1, <3>2, <3>3 DEF Taken
    <3>5. dropped' = dropped /\ answered' = answered
      BY <2>1, <2>7
    <3>6. QED BY <1>more, <2>1, <2>2, <2>3, <2>4, <2>6, <3>4, <3>5
  <2>8. CASE phase # "announced"
    <3>1. packetQueue = <<>> /\ frame = <<>>
      BY <2>8 DEF NetworkInv, Announced
    <3>2. frame' = <<>> /\ packetQueue' = <<>> /\ answered' = answered
      BY <2>1, <2>8, <3>1
    <3>3. Taken = handled /\ Taken' = handled'
      <4>1. handled \o (<<>> \o <<>>) = handled /\ handled' \o (<<>> \o <<>>) = handled'
        BY <2>5, <2>6, ConcatEmptySeq
      <4>2. QED BY <3>1, <3>2, <4>1 DEF Taken
    <3>4. \/ Taken' = Append(Taken, p) /\ dropped' = dropped /\ p \notin dropped
          \/ Taken' = Taken /\ dropped' = dropped \cup {p}
      BY <2>1, <2>3, <2>8, <3>3
    <3>5. QED BY <1>more, <2>1, <2>2, <2>3, <2>4, <2>6, <3>2, <3>4
  <2>9. QED BY <2>7, <2>8
<1>update. ASSUME NetworkInv, HandleInv, UpdateNetwork
           PROVE  HandleInv'
  <2>1. /\ frame = <<>> /\ frame' = packetQueue /\ packetQueue' = <<>>
        /\ UNCHANGED <<handled, received, dropped, answered, inbox>>
    BY <1>update DEF UpdateNetwork, PopAll, serverVars
  <2>2. packetQueue \in Seq(Packets)
    BY <1>update, <1>types
  <2>3. Taken' = Taken
    <3>1. frame \o packetQueue = packetQueue /\ frame' \o packetQueue' = packetQueue
      BY <2>1, <2>2, ConcatEmptySeq
    <3>2. QED BY <2>1, <3>1 DEF Taken
  <2>4. handled' \in Seq(Packets)
    BY <1>update, <2>1 DEF HandleInv
  <2>5. QED BY <1>update, <1>same, <2>1, <2>3, <2>4
<1>handle. ASSUME NetworkInv, HandleInv, HandleNext, Head(frame) \notin Faulty
           PROVE  HandleInv'
  <2> USE <1>handle
  <2> DEFINE h == Head(frame)
             rest == Tail(frame)
  <2>1. /\ frame # <<>> /\ frame' = rest /\ handled' = Append(handled, h)
        /\ UNCHANGED <<packetQueue, received, dropped, answered, inbox>>
    BY DEF HandleNext, Handler, serverVars
  <2>2. handled \in Seq(Packets) /\ frame \in Seq(Packets) /\ packetQueue \in Seq(Packets)
    BY <1>types
  <2>3. h \in Packets /\ rest \in Seq(Packets) /\ frame = <<h>> \o rest
    BY <2>1, <2>2, HeadTailProperties, ConcatProperties, LenProperties, SeqEqual
  <2> HIDE DEF h, rest
  <2>4. /\ <<h>> \in Seq(Packets) /\ Append(handled, h) = handled \o <<h>>
        /\ Append(handled, h) \in Seq(Packets)
    BY <2>2, <2>3, AppendIsConcat, AppendProperties, EmptySeq
  <2>5. (<<h>> \o rest) \o packetQueue = <<h>> \o (rest \o packetQueue)
    <3>1. <<h>> \in Seq(Packets) /\ rest \in Seq(Packets) /\ packetQueue \in Seq(Packets)
      BY <2>2, <2>3, <2>4
    <3>2. QED BY ONLY <3>1, <1>assoc
  <2>6. PICK w \in Seq(Packets) : w = rest \o packetQueue
    BY <2>2, <2>3, ConcatProperties
  <2>7. (handled \o <<h>>) \o w = handled \o (<<h>> \o w)
    <3>1. handled \in Seq(Packets) /\ <<h>> \in Seq(Packets) /\ w \in Seq(Packets)
      BY <2>2, <2>4, <2>6
    <3>2. QED BY ONLY <3>1, <1>assoc
  <2>8. Taken' = Taken
    <3>1. /\ frame \o packetQueue = <<h>> \o w
          /\ frame' \o packetQueue' = w /\ handled' = handled \o <<h>>
      BY <2>1, <2>3, <2>4, <2>5, <2>6
    <3>2. QED BY ONLY <2>7, <3>1 DEF Taken
  <2>9. QED BY <1>same, <2>1, <2>4, <2>8
(* What is left behind has its place in what there was.                    *)
<1>throw. ASSUME NetworkInv, HandleInv, HandleNext, Head(frame) \in Faulty
          PROVE  HandleInv'
  <2> USE <1>throw
  <2>1. /\ frame' = <<>> /\ dropped' = dropped \cup ToSet(frame)
        /\ UNCHANGED <<handled, packetQueue, received, answered, inbox>>
    BY DEF HandleNext, HandlerThrows, serverVars
  <2> DEFINE a == Len(handled)
             f == Len(frame)
             q == Len(packetQueue)
             Place(i) == IF i <= a THEN i ELSE i + f
  <2>2. /\ handled \in Seq(Packets) /\ frame \in Seq(Packets) /\ packetQueue \in Seq(Packets)
        /\ received \in Seq(Packets)
        /\ a \in Nat /\ f \in Nat /\ q \in Nat
        /\ ToSet(frame) = {frame[k] : k \in 1 .. f}
    BY <1>types, LenProperties DEF ToSet
  <2>3. LET w == frame \o packetQueue
        IN  /\ w \in Seq(Packets) /\ Len(w) = f + q
            /\ \A i \in 1 .. f + q : w[i] = IF i <= f THEN frame[i] ELSE packetQueue[i - f]
    BY <2>2, ConcatProperties
  <2>4. PICK w \in Seq(Packets) : w = frame \o packetQueue
    BY <2>3
  <2>5. /\ Len(Taken) = a + (f + q)
        /\ \A i \in 1 .. a + (f + q) : Taken[i] = IF i <= a THEN handled[i] ELSE w[i - a]
        /\ DOMAIN Taken = 1 .. Len(Taken)
    BY <1>types, <2>2, <2>3, <2>4, ConcatProperties DEF Taken
  <2>6. Taken' = handled \o packetQueue
    BY <2>1, <2>2, ConcatEmptySeq DEF Taken
  <2>7. /\ Len(Taken') = a + q /\ DOMAIN Taken' = 1 .. a + q
        /\ \A i \in 1 .. a + q : Taken'[i] = IF i <= a THEN handled[i] ELSE packetQueue[i - a]
    BY <2>2, <2>6, ConcatProperties, LenProperties
  <2> HIDE DEF a, f, q
  <2>8. \A i \in 1 .. a + q :
            /\ Place(i) \in 1 .. a + (f + q)
            /\ Place(i) <= a \/ Place(i) > a + f
            /\ Taken'[i] = Taken[Place(i)]
    <3> SUFFICES ASSUME NEW i \in 1 .. a + q
                 PROVE  /\ Place(i) \in 1 .. a + (f + q)
                        /\ Place(i) <= a \/ Place(i) > a + f
                        /\ Taken'[i] = Taken[Place(i)]
      OBVIOUS
    <3>1. CASE i <= a
      BY <2>2, <2>5, <2>7, <3>1
    <3>2. CASE i > a
      <4>1. /\ i + f \in 1 .. a + (f + q) /\ ~(i + f <= a) /\ i + f > a + f
            /\ (i + f) - a \in 1 .. f + q /\ ~((i + f) - a <= f) /\ ((i + f) - a) - f = i - a
        BY <2>2, <3>2
      <4>2. Taken[i + f] = w[(i + f) - a]
        BY <2>5, <4>1
      <4>3. w[(i + f) - a] = packetQueue[i - a]
        BY <2>3, <2>4, <4>1 DEF f, q
      <4>4. Place(i) = i + f /\ Taken'[i] = packetQueue[i - a]
        BY <2>2, <2>7, <3>2
      <4>5. QED BY <4>1, <4>2, <4>3, <4>4
    <3>3. QED BY <2>2, <3>1, <3>2
  <2>9. \A k \in 1 .. f : a + k \in 1 .. a + (f + q) /\ Taken[a + k] = frame[k]
    <3> SUFFICES ASSUME NEW k \in 1 .. f
                 PROVE  a + k \in 1 .. a + (f + q) /\ Taken[a + k] = frame[k]
      OBVIOUS
    <3>1. a + k \in 1 .. a + (f + q) /\ ~(a + k <= a) /\ (a + k) - a = k /\ k \in 1 .. f + q
      BY <2>2
    <3>2. w[k] = frame[k]
      BY <2>3, <2>4, <3>1 DEF f, q
    <3>3. QED BY <2>5, <3>1, <3>2
  <2>10. \A i \in 1 .. a + (f + q) :
             \/ \E k \in 1 .. f : i = a + k
             \/ \E k \in 1 .. a + q : i = Place(k)
    <3> SUFFICES ASSUME NEW i \in 1 .. a + (f + q)
                 PROVE  \/ \E k \in 1 .. f : i = a + k
                        \/ \E k \in 1 .. a + q : i = Place(k)
      OBVIOUS
    <3>1. CASE i <= a
      <4>1. i \in 1 .. a + q
        BY <2>2, <3>1
      <4>2. QED BY <3>1, <4>1
    <3>2. CASE i > a /\ i <= a + f
      <4>1. i - a \in 1 .. f /\ i = a + (i - a)
        BY <2>2, <3>2
      <4>2. QED BY <4>1
    <3>3. CASE i > a + f
      <4>1. i - f \in 1 .. a + q /\ ~(i - f <= a) /\ i = (i - f) + f
        BY <2>2, <3>3
      <4>2. QED BY <4>1
    <3>4. QED BY <2>2, <3>1, <3>2, <3>3
  <2>11. \A i, j \in 1 .. a + q : i < j => Place(i) < Place(j)
    BY <2>2
  <2> HIDE DEF Place
  <2>12. \A i, j \in 1 .. a + (f + q) : i < j => Taken[i] # Taken[j]
    <3> SUFFICES ASSUME NEW i \in 1 .. a + (f + q), NEW j \in 1 .. a + (f + q), i < j
                 PROVE  Taken[i] # Taken[j]
      OBVIOUS
    <3>1. PICK k \in 1 .. Len(received), l \in 1 .. Len(received) :
              k < l /\ received[k] = Taken[i] /\ received[l] = Taken[j]
      BY <2>5 DEF HandleInv, OrderKept
    <3>2. k # l
      BY <1>types, <3>1
    <3>3. QED BY <3>1, <3>2 DEF HandleInv
  <2>13. \A i \in 1 .. a + q : \A k \in 1 .. f : Taken'[i] # frame[k]
    <3> SUFFICES ASSUME NEW i \in 1 .. a + q, NEW k \in 1 .. f PROVE Taken'[i] # frame[k]
      OBVIOUS
    <3>1. Place(i) \in 1 .. a + (f + q) /\ (Place(i) < a + k \/ a + k < Place(i))
      BY <2>2, <2>8
    <3>2. QED BY <2>8, <2>9, <2>12, <3>1
  <2>14. \A i \in 1 .. Len(Taken') :
             /\ Taken'[i] \notin dropped'
             /\ \E k \in 1 .. Len(received) : Taken'[i] = received[k]
    <3>1. \A i \in 1 .. a + (f + q) :
              Taken[i] \notin dropped /\ \E k \in 1 .. Len(received) : Taken[i] = received[k]
      BY <2>5 DEF HandleInv
    <3>2. \A i \in 1 .. a + q :
              /\ Taken'[i] \notin dropped'
              /\ \E k \in 1 .. Len(received) : Taken'[i] = received[k]
      <4> SUFFICES ASSUME NEW i \in 1 .. a + q
                   PROVE  /\ Taken'[i] \notin dropped'
                          /\ \E k \in 1 .. Len(received) : Taken'[i] = received[k]
        OBVIOUS
      <4>1. Place(i) \in 1 .. a + (f + q) /\ Taken'[i] = Taken[Place(i)]
        BY <2>8
      <4>2. Taken'[i] \notin ToSet(frame)
        BY <2>2, <2>13
      <4>3. QED BY <2>1, <3>1, <4>1, <4>2
    <3>3. QED BY <2>7, <3>2
  <2>15. \A k \in 1 .. Len(received) :
             received[k] \in dropped' \/ \E i \in 1 .. Len(Taken') : Taken'[i] = received[k]
    <3> SUFFICES ASSUME NEW k \in 1 .. Len(received), received[k] \notin dropped
                 PROVE  \/ received[k] \in dropped'
                        \/ \E i \in 1 .. Len(Taken') : Taken'[i] = received[k]
      BY <2>1
    <3>1. PICK i \in 1 .. a + (f + q) : Taken[i] = received[k]
      BY <2>5 DEF HandleInv
    <3>2. CASE \E n \in 1 .. f : i = a + n
      BY <2>1, <2>2, <2>9, <3>1, <3>2
    <3>3. CASE \E n \in 1 .. a + q : i = Place(n)
      BY <2>7, <2>8, <3>1, <3>3
    <3>4. QED BY <2>10, <3>2, <3>3
  <2>16. OrderKept'
    <3> SUFFICES ASSUME NEW i \in 1 .. Len(Taken'), NEW j \in 1 .. Len(Taken'), i < j
                 PROVE  \E k, l \in 1 .. Len(received') :
                            k < l /\ received'[k] = Taken'[i] /\ received'[l] = Taken'[j]
      BY DEF OrderKept
    <3>0. i \in 1 .. a + q /\ j \in 1 .. a + q
      <4>1. Len(Taken') = a + q /\ i \in 1 .. Len(Taken') /\ j \in 1 .. Len(Taken')
        BY <2>7
      <4>2. QED BY ONLY <4>1
    <3>1. /\ Place(i) \in 1 .. Len(Taken) /\ Place(j) \in 1 .. Len(Taken)
          /\ Place(i) < Place(j)
          /\ Taken'[i] = Taken[Place(i)] /\ Taken'[j] = Taken[Place(j)]
      BY <2>5, <2>8, <2>11, <3>0
    <3>2. OrderKept
      BY DEF HandleInv
    <3>3. PICK k \in 1 .. Len(received), l \in 1 .. Len(received) :
              k < l /\ received[k] = Taken[Place(i)] /\ received[l] = Taken[Place(j)]
      BY <3>1, <3>2 DEF OrderKept
    <3>4. QED BY <2>1, <3>1, <3>3
  <2>17. QED BY <2>1, <2>14, <2>15, <2>16 DEF HandleInv
<1>answer. ASSUME NetworkInv, HandleInv, NEW p \in Packets, SendsToClient(p)
           PROVE  HandleInv'
  <2>1. /\ p \notin answered /\ answered' = answered \cup {p} /\ inbox' = Append(inbox, p)
        /\ UNCHANGED <<packetQueue, frame, handled, dropped, received>>
    BY <1>answer DEF SendsToClient, mainVars
  <2>2. /\ Len(inbox) \in Nat /\ Len(inbox') = Len(inbox) + 1 /\ inbox'[Len(inbox) + 1] = p
        /\ \A i \in 1 .. Len(inbox) : inbox'[i] = inbox[i]
    BY <1>answer, <2>1, AppendProperties, LenProperties DEF NetworkInv, NetworkTypes
  <2>3. \A k \in 1 .. Len(inbox') :
            inbox'[k] \notin answered \/ \E m \in 1 .. Len(inbox) : inbox'[k] = inbox[m]
    BY <2>1, <2>2
  <2>4. Taken' = Taken /\ handled' \in Seq(Packets)
    BY <1>answer, <2>1 DEF Taken, HandleInv
  <2>5. QED BY <1>answer, <1>same, <2>1, <2>3, <2>4
<1>rest. ASSUME NetworkInv, HandleInv,
                UNCHANGED <<packetQueue, frame, handled, dropped, received, answered, inbox>>
         PROVE  HandleInv'
  <2>1. Taken' = Taken /\ handled' \in Seq(Packets)
    BY <1>rest DEF Taken, HandleInv
  <2>2. QED BY <1>rest, <1>same, <2>1
<1>init. InitNetwork => HandleInv
  <2> SUFFICES ASSUME InitNetwork PROVE HandleInv
    OBVIOUS
  <2>1. Taken = <<>> /\ <<>> \in Seq(Packets)
    BY EmptySeq, ConcatEmptySeq DEF InitNetwork, Taken
  <2>2. received = <<>> /\ handled = <<>> /\ DOMAIN Taken = {} /\ 1 .. Len(Taken) = {}
        /\ 1 .. Len(received) = {}
    BY <2>1, EmptySeq DEF InitNetwork
  <2>3. QED BY <2>1, <2>2 DEF HandleInv, OrderKept
<1>next. NetworkInv /\ HandleInv /\ [NextNetwork]_netVars => HandleInv'
  <2> SUFFICES ASSUME NetworkInv, HandleInv, [NextNetwork]_netVars PROVE HandleInv'
    OBVIOUS
  <2> DEFINE Still == UNCHANGED <<packetQueue, frame, handled, dropped, received, answered,
                                  inbox>>
  <2>1. CASE SocketThreads
    <3>1. CASE OnRecvCompleted
      BY <3>1, <1>receive
    <3>2. CASE Start \/ OnConnected \/ SendAsync \/ OnSendCompleted \/ OnSendFailed
      <4>1. Still
        BY <3>2 DEF Start, OnConnected, SendAsync, OnSendCompleted, OnSendFailed,
                    serverVars, mainVars
      <4>2. QED BY <4>1, <1>rest
    <3>3. CASE OnRecvFailed \/ Close \/ Clear
      <4>1. Still
        BY <3>3 DEF OnRecvFailed, Close, Clear, serverVars, mainVars
      <4>2. QED BY <4>1, <1>rest
    <3>4. QED BY <2>1, <3>1, <3>2, <3>3 DEF SocketThreads
  <2>2. CASE MainThread
    BY <2>2, <1>update, <1>handle, <1>throw DEF MainThread
  <2>3. CASE Server \/ \E p \in Notices : Notify(p)
    BY <2>3, <1>answer DEF Server, Reply, Notify, Packets
  <2>4. CASE (\E p \in Clicks : Click(p)) \/ LinkDrops \/ UNCHANGED netVars
    <3>1. Still
      BY <2>4 DEF Click, LinkDrops, netVars, serverVars, mainVars
    <3>2. QED BY <3>1, <1>rest
  <2>5. QED BY <2>1, <2>2, <2>3, <2>4 DEF NextNetwork
<1>last. NetworkInv /\ HandleInv => HandledOnceInOrder
  <2> SUFFICES ASSUME NetworkInv, HandleInv PROVE HandledOnceInOrder
    OBVIOUS
  <2>1. handled \o frame \o packetQueue = Taken
    <3>1. handled \in Seq(Packets) /\ frame \in Seq(Packets) /\ packetQueue \in Seq(Packets)
      BY <1>types
    <3>2. (handled \o frame) \o packetQueue = handled \o (frame \o packetQueue)
      BY ONLY <3>1, <1>assoc, Zenon
    <3>3. QED BY ONLY <3>2 DEF Taken
  <2>2. /\ DOMAIN Taken = 1 .. Len(Taken) /\ DOMAIN received = 1 .. Len(received)
        /\ Len(Taken) \in Nat /\ Len(received) \in Nat
    BY <1>types
  <2>3. ToSet(Taken) = ToSet(received) \ dropped
    <3>1. \A x : x \in ToSet(Taken) <=> \E i \in 1 .. Len(Taken) : x = Taken[i]
      BY <2>2 DEF ToSet
    <3>2. \A x : x \in ToSet(received) <=> \E k \in 1 .. Len(received) : x = received[k]
      BY <2>2 DEF ToSet
    <3>3. \A x \in ToSet(Taken) : x \in ToSet(received) /\ x \notin dropped
      BY <3>1, <3>2 DEF HandleInv
    <3>4. \A x \in ToSet(received) \ dropped : x \in ToSet(Taken)
      BY <3>1, <3>2 DEF HandleInv
    <3>5. QED BY <3>3, <3>4
  <2>4. IsInjective(Taken)
    <3> SUFFICES ASSUME NEW i \in 1 .. Len(Taken), NEW j \in 1 .. Len(Taken),
                        Taken[i] = Taken[j]
                 PROVE  i = j
      BY <2>2 DEF IsInjective
    <3>1. \A m, n \in 1 .. Len(Taken) : m < n => Taken[m] # Taken[n]
      <4> SUFFICES ASSUME NEW m \in 1 .. Len(Taken), NEW n \in 1 .. Len(Taken), m < n
                   PROVE  Taken[m] # Taken[n]
        OBVIOUS
      <4>1. PICK k \in 1 .. Len(received), l \in 1 .. Len(received) :
                k < l /\ received[k] = Taken[m] /\ received[l] = Taken[n]
        BY DEF HandleInv, OrderKept
      <4>2. k # l
        BY <2>2, <4>1
      <4>3. \A x, y \in 1 .. Len(received) : received[x] = received[y] => x = y
        BY DEF HandleInv
      <4>4. QED BY <4>1, <4>2, <4>3
    <3>2. i < j \/ j < i \/ i = j
      BY <2>2
    <3>3. QED BY <3>1, <3>2
  <2>5. InOrderOf(Taken, received)
    <3> SUFFICES ASSUME NEW i \in DOMAIN Taken, NEW j \in DOMAIN Taken, i < j
                 PROVE  \E k, l \in DOMAIN received :
                            k < l /\ received[k] = Taken[i] /\ received[l] = Taken[j]
      BY DEF InOrderOf
    <3>1. i \in 1 .. Len(Taken) /\ j \in 1 .. Len(Taken)
      BY <2>2
    <3>2. PICK k \in 1 .. Len(received), l \in 1 .. Len(received) :
              k < l /\ received[k] = Taken[i] /\ received[l] = Taken[j]
      BY <3>1 DEF HandleInv, OrderKept
    <3>3. k \in DOMAIN received /\ l \in DOMAIN received
      BY <2>2
    <3>4. QED BY <3>2, <3>3
  <2>6. QED BY <2>1, <2>3, <2>4, <2>5 DEF HandledOnceInOrder
<1>q. QED BY <1>init, <1>next, <1>last, NetworkInvariant, PTL DEF NetworkSpec
=============================================================================
