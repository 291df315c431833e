--------------------------- MODULE GameWorldProofs ---------------------------
(***************************************************************************)
(* GameWorld, for every number of players, zones, sessions and cells and   *)
(* every bound: its types, its message queues, the roster, the viewports,  *)
(* and where the players are.                                              *)
(***************************************************************************)
EXTENDS GameWorld, SequenceTheorems, FunctionTheorems, FiniteSetTheorems, TLAPS

-----------------------------------------------------------------------------
(* The queue operations.                                                   *)

(* m has been pushed to some zone and not been called yet. *)
Queued(m) ==
    \/ \E z \in Zones : \E i \in DOMAIN messageQueue[z] : messageQueue[z][i] = m
    \/ \E i \in DOMAIN messageVector : messageVector[i] = m

(* The zones are a finite ring: the successor of a zone is a zone.         *)
LEMMA NextZone == \A z \in Zones : (z + 1) % NumZones \in Zones
  BY NumZonesAssumption DEF Zones

(* Push adds its message, to the end of one queue, and nothing else.       *)
LEMMA PushQueues ==
  ASSUME QueueTypeOK, NEW z \in Zones, NEW m \in Messages, Push(z, m)
  PROVE  /\ QueueTypeOK'
         /\ \A n : Queued(n)' => Queued(n) \/ n = m
<1>1. /\ messageQueue' \in [Zones -> Seq(Messages)]
      /\ messageVector' = messageVector
      /\ tickZone' = tickZone
  BY AppendProperties DEF QueueTypeOK, Push
<1>2. ASSUME NEW n, Queued(n)'
      PROVE  Queued(n) \/ n = m
  <2>1. CASE \E i \in DOMAIN messageVector' : messageVector'[i] = n
    BY <1>1, <2>1 DEF Queued
  <2>2. CASE \E y \in Zones : \E i \in DOMAIN messageQueue'[y] :
                messageQueue'[y][i] = n
    <3>1. PICK y \in Zones : \E i \in DOMAIN messageQueue'[y] :
                messageQueue'[y][i] = n
      BY <2>2
    <3>2. PICK i \in DOMAIN messageQueue'[y] : messageQueue'[y][i] = n
      BY <3>1
    <3>3. CASE y # z
      <4>1. messageQueue'[y] = messageQueue[y]
        BY <3>3 DEF Push, QueueTypeOK
      <4>2. QED BY <3>2, <4>1 DEF Queued
    <3>4. CASE y = z
      <4>1. messageQueue'[z] = Append(messageQueue[z], m)
        BY DEF Push, QueueTypeOK
      <4>2. messageQueue[z] \in Seq(Messages)
        BY DEF QueueTypeOK
      <4>3. \/ i \in DOMAIN messageQueue[z] /\ messageQueue[z][i] = n
            \/ n = m
        <5>1. i \in 1 .. Len(messageQueue[z]) + 1
          BY <3>2, <3>4, <4>1, <4>2, AppendProperties, LenProperties
        <5>2. Len(messageQueue[z]) \in Nat /\
              DOMAIN messageQueue[z] = 1 .. Len(messageQueue[z])
          BY <4>2, LenProperties
        <5>3. CASE i = Len(messageQueue[z]) + 1
          BY <3>2, <3>4, <4>1, <4>2, <5>3, AppendProperties
        <5>4. CASE i # Len(messageQueue[z]) + 1
          <6>1. i \in 1 .. Len(messageQueue[z])
            BY <5>1, <5>2, <5>4
          <6>2. messageQueue'[z][i] = messageQueue[z][i]
            BY <4>1, <4>2, <6>1, AppendProperties
          <6>3. QED BY <3>2, <3>4, <5>2, <6>1, <6>2
        <5>5. QED BY <5>3, <5>4
      <4>4. QED BY <4>3 DEF Queued
    <3>5. QED BY <3>3, <3>4
  <2>3. QED BY <1>2, <2>1, <2>2 DEF Queued
<1>3. QED BY <1>1, <1>2 DEF QueueTypeOK

(* FlushNext moves messages from a queue to the vector and invents none.   *)
LEMMA FlushQueues ==
  ASSUME QueueTypeOK, FlushNext
  PROVE  /\ QueueTypeOK'
         /\ \A n : Queued(n)' => Queued(n)
<1> DEFINE next == (tickZone + 1) % NumZones
<1>1. next \in Zones
  BY NextZone DEF QueueTypeOK
<1>2. /\ messageVector' = messageQueue[next]
      /\ messageQueue' = [messageQueue EXCEPT ![next] = <<>>]
      /\ tickZone' = next
  BY DEF FlushNext
<1>3. QueueTypeOK'
  BY <1>1, <1>2, EmptySeq DEF QueueTypeOK
<1>4. ASSUME NEW n, Queued(n)'
      PROVE  Queued(n)
  <2>1. CASE \E i \in DOMAIN messageVector' : messageVector'[i] = n
    BY <1>1, <1>2, <2>1 DEF Queued
  <2>2. CASE \E y \in Zones : \E i \in DOMAIN messageQueue'[y] :
                messageQueue'[y][i] = n
    <3>1. PICK y \in Zones : \E i \in DOMAIN messageQueue'[y] :
                messageQueue'[y][i] = n
      BY <2>2
    <3>2. y # next
      BY <1>1, <1>2, <3>1 DEF QueueTypeOK
    <3>3. messageQueue'[y] = messageQueue[y]
      BY <1>2, <3>2 DEF QueueTypeOK
    <3>4. QED BY <3>1, <3>3 DEF Queued
  <2>3. QED BY <1>4, <2>1, <2>2 DEF Queued
<1>5. QED BY <1>3, <1>4

(* Call takes a message that was there.                                    *)
LEMMA CallQueues ==
  ASSUME QueueTypeOK, NEW m, Call(m)
  PROVE  /\ QueueTypeOK'
         /\ Queued(m)
         /\ \A n : Queued(n)' => Queued(n)
<1>1. /\ messageVector # <<>> /\ m = Head(messageVector)
      /\ messageVector' = Tail(messageVector)
      /\ messageQueue' = messageQueue /\ tickZone' = tickZone
  BY DEF Call
<1>2. /\ messageVector \in Seq(Messages)
      /\ Len(messageVector) \in Nat \ {0}
      /\ DOMAIN messageVector = 1 .. Len(messageVector)
  BY <1>1, EmptySeq, LenProperties DEF QueueTypeOK
<1>3. QueueTypeOK'
  BY <1>1, <1>2, HeadTailProperties DEF QueueTypeOK
<1>4. messageVector[1] = m
  BY <1>1, <1>2
<1>5. 1 \in DOMAIN messageVector
  BY <1>2
<1>6. Queued(m)
  BY <1>4, <1>5 DEF Queued
<1>7. ASSUME NEW n, Queued(n)'
      PROVE  Queued(n)
  <2>1. CASE \E i \in DOMAIN messageVector' : messageVector'[i] = n
    <3>1. PICK i \in DOMAIN messageVector' : messageVector'[i] = n
      BY <2>1
    <3>2. /\ DOMAIN messageVector' = 1 .. Len(messageVector')
          /\ Len(messageVector') = Len(messageVector) - 1
      BY <1>1, <1>2, HeadTailProperties, LenProperties
    <3>3. messageVector'[i] = messageVector[i + 1]
      BY <1>1, <1>2, <3>1, <3>2, HeadTailProperties
    <3>4. i + 1 \in DOMAIN messageVector
      BY <1>2, <3>1, <3>2
    <3>5. QED BY <3>1, <3>3, <3>4 DEF Queued
  <2>2. CASE \E y \in Zones : \E i \in DOMAIN messageQueue'[y] :
                messageQueue'[y][i] = n
    BY <1>1, <2>2 DEF Queued
  <2>3. QED BY <1>7, <2>1, <2>2 DEF Queued
<1>8. QED BY <1>3, <1>6, <1>7
-----------------------------------------------------------------------------
(* Types.                                                                  *)

(* A reply to a player's EnterGame goes to a session that has logged in:   *)
(* what TypeOK needs to be inductive, for it says that a session in the    *)
(* game has a player.                                                      *)
OwnersLoggedIn ==
    \A p \in Players, s \in Sessions :
        ownerSession[p] = s => currentPlayer[s] \in Players

(* What is pushed is a message. *)
LEMMA MessageTypes ==
  /\ \A p \in Players : EnterMsg(p) \in Messages
  /\ \A p \in Players, c \in Cells : MoveMsg(p, c) \in Messages
  /\ \A s \in Sessions : LeaveMsg(s) \in Messages
  BY DEF Messages

(* The kinds of message are told apart by their type.                      *)
LEMMA MessageKinds ==
  ASSUME NEW p \in Players
  PROVE  /\ \A q \in Players : EnterMsg(p) = EnterMsg(q) => p = q
         /\ \A q \in Players, c \in Cells : EnterMsg(p) # MoveMsg(q, c)
         /\ \A q \in Players, c, d \in Cells :
                MoveMsg(p, c) = MoveMsg(q, d) => p = q
         /\ \A s \in Sessions : EnterMsg(p) # LeaveMsg(s)
         /\ \A s \in Sessions, c \in Cells : MoveMsg(p, c) # LeaveMsg(s)
<1>1. \A q : EnterMsg(q).player = q /\ EnterMsg(q).type = "EnterGame"
  BY DEF EnterMsg
<1>2. \A q, c : MoveMsg(q, c).player = q /\ MoveMsg(q, c).type = "HandleMove"
  BY DEF MoveMsg
<1>3. \A s : LeaveMsg(s).type = "LeaveGame"
  BY DEF LeaveMsg
<1>4. QED BY <1>1, <1>2, <1>3

(* The count of a player in a section stays a number. *)
LEMMA ListedType ==
  ASSUME NEW sec \in [Sections -> [Players -> Nat]],
         NEW k \in Sections, NEW p \in Players
  PROVE  /\ Listed(sec, k, p) \in [Sections -> [Players -> Nat]]
         /\ Unlisted(sec, k, p) \in [Sections -> [Players -> Nat]]
  BY DEF Listed, Unlisted

(* Every variable of the server keeps its type, whatever the clients do.   *)
THEOREM TypeCorrect == Spec => [](TypeOK /\ OwnersLoggedIn)
  (* A player of NewPlayer or DeletePlayer keeps the manager well typed. *)
<1>newPlayer. ASSUME ManagerTypeOK, NEW p \in Players, NewPlayer(p)
              PROVE  ManagerTypeOK'
  <2> USE <1>newPlayer
  <2>1. playerPool' \in Seq(Players)
    BY HeadTailProperties DEF ManagerTypeOK, NewPlayer
  <2>2. AllPlayerInfo' \subseteq Nat \X Players
    <3>1. AllPlayerInfo' \subseteq AllPlayerInfo \cup {<<playerIdx, p>>}
      BY DEF NewPlayer, AddPlayer
    <3>2. <<playerIdx, p>> \in Nat \X Players
      BY DEF ManagerTypeOK
    <3>3. QED BY <3>1, <3>2 DEF ManagerTypeOK
  <2>3. playerIdx' \in Nat /\ numOfPlayers' \in Int
    BY DEF ManagerTypeOK, NewPlayer, AddPlayer
  <2>4. QED BY <2>1, <2>2, <2>3 DEF ManagerTypeOK
  (* A player given back goes behind the others in the pool. *)
<1>deletePlayer. ASSUME ManagerTypeOK, NEW p \in Players, DeletePlayer(p)
                 PROVE  ManagerTypeOK'
  <2> USE <1>deletePlayer
  <2>1. playerPool' \in Seq(Players)
    BY AppendProperties DEF ManagerTypeOK, DeletePlayer
  <2>2. QED BY <2>1 DEF ManagerTypeOK, DeletePlayer
<1>mapKept. ASSUME MapTypeOK, UNCHANGED mapVars
            PROVE  MapTypeOK'
  BY <1>mapKept DEF MapTypeOK, mapVars
<1>occupy. ASSUME MapTypeOK, NEW z \in Zones, NEW p \in Players, NEW dest \in Cells,
                  Occupy(z, p, dest)
           PROVE  ObjectBuf' \in [Zones -> [Cells -> Players \cup {NoPlayer}]]
  BY <1>occupy DEF MapTypeOK, Occupy
<1>move. ASSUME MapTypeOK, NEW z \in Zones, NEW p \in Players, NEW dest \in Cells,
                ApplyMove(z, p, dest)
         PROVE  MapTypeOK'
  <2> USE <1>move
  <2> DEFINE now == SectionOf[pos[p]]
             after == SectionOf[dest]
  <2>1. now \in Sections /\ after \in Sections /\ zoneID[p] \in Zones
    BY MapAssumption DEF MapTypeOK
  <2>2. ObjectBuf' \in [Zones -> [Cells -> Players \cup {NoPlayer}]]
    BY <1>occupy DEF ApplyMove
  <2>3. section[zoneID[p]] \in [Sections -> [Players -> Nat]]
    BY <2>1 DEF MapTypeOK
  <2>4. Listed(Unlisted(section[zoneID[p]], now, p), after, p)
            \in [Sections -> [Players -> Nat]]
    BY <2>1, <2>3, ListedType
  <2>5. section' \in [Zones -> [Sections -> [Players -> Nat]]]
    BY <2>4 DEF ApplyMove, MapTypeOK
  <2>6. QED BY <2>2, <2>5 DEF ApplyMove, MapTypeOK
<1>leave. ASSUME MapTypeOK, NEW z \in Zones, NEW p \in Players, ApplyLeave(z, p)
          PROVE  MapTypeOK'
  <2> USE <1>leave
  <2>1. SectionOf[pos[p]] \in Sections /\ zoneID[p] \in Zones
    BY MapAssumption DEF MapTypeOK
  <2>2. section[zoneID[p]] \in [Sections -> [Players -> Nat]]
    BY <2>1 DEF MapTypeOK
  <2>3. Unlisted(section[zoneID[p]], SectionOf[pos[p]], p)
            \in [Sections -> [Players -> Nat]]
    BY <2>1, <2>2, ListedType
  <2>4. section' \in [Zones -> [Sections -> [Players -> Nat]]]
    BY <2>3 DEF ApplyLeave, MapTypeOK
  <2>5. ObjectBuf' \in [Zones -> [Cells -> Players \cup {NoPlayer}]]
    <3>1. pos[p] \in Cells
      BY DEF MapTypeOK
    <3>2. QED BY <3>1 DEF ApplyLeave, MapTypeOK
  <2>6. QED BY <2>4, <2>5 DEF ApplyLeave, MapTypeOK
<1>place. ASSUME MapTypeOK, NEW z \in Zones, NEW p \in Players, PlaceInZone(z, p)
          PROVE  MapTypeOK'
  <2> USE <1>place
  <2>1. SectionOf[pos[p]] \in Sections /\ pos[p] \in Cells
    BY MapAssumption DEF MapTypeOK
  <2>2. section[z] \in [Sections -> [Players -> Nat]]
    BY DEF MapTypeOK
  <2>3. Listed(section[z], SectionOf[pos[p]], p)
            \in [Sections -> [Players -> Nat]]
    BY <2>1, <2>2, ListedType
  <2>4. section' \in [Zones -> [Sections -> [Players -> Nat]]]
    BY <2>3 DEF PlaceInZone, MapTypeOK
  <2>5. ObjectBuf' \in [Zones -> [Cells -> Players \cup {NoPlayer}]]
    BY <2>1, <1>occupy DEF PlaceInZone, MapTypeOK
  <2>6. QED BY <2>4, <2>5 DEF PlaceInZone, MapTypeOK
<1>init. Init => TypeOK /\ OwnersLoggedIn
  <2> SUFFICES ASSUME Init PROVE TypeOK /\ OwnersLoggedIn
    OBVIOUS
  <2> USE DEF Init
  <2>1. ManagerTypeOK
    <3>1. playerPool \in Seq(Players)
      <4>1. /\ MaxPlayers \in Nat
            /\ playerPool \in [1 .. MaxPlayers -> Players]
        BY MaxPlayersAssumption DEF ManagerInit, Players
      <4>2. QED BY <4>1, SeqDef
    <3>2. QED BY <3>1 DEF ManagerInit, ManagerTypeOK
  <2>2. QueueTypeOK
    BY NumZonesAssumption, EmptySeq DEF QueueInit, QueueTypeOK, Zones
  <2>3. MapTypeOK
    BY NumZonesAssumption, MapAssumption DEF MapInit, MapTypeOK, Zones
  <2>4. SessionTypeOK
    BY DEF SessionTypeOK
  <2>5. ThreadTypeOK
    <3>1. 0 \in Zones
      BY NumZonesAssumption DEF Zones
    <3>2. Idle \in Handlers /\ Idle.pc = "idle"
      BY <3>1 DEF Idle, Handlers
    <3>3. QED BY <3>2 DEF ThreadTypeOK
  <2>6. OwnersLoggedIn
    BY SessionAssumption DEF OwnersLoggedIn
  <2>7. QED BY <2>1, <2>2, <2>3, <2>4, <2>5, <2>6 DEF TypeOK
<1>client. ASSUME TypeOK, OwnersLoggedIn, NEW s \in Sessions, Client(s)
           PROVE  TypeOK' /\ OwnersLoggedIn'
  <2> USE <1>client
  <2> USE DEF TypeOK
  <2>1. CASE RequestLogin(s)
    <3> USE <2>1 DEF RequestLogin, managerVars, queueVars, mapVars
    <3>1. ManagerTypeOK' /\ QueueTypeOK' /\ MapTypeOK'
      BY DEF ManagerTypeOK, QueueTypeOK, MapTypeOK
    <3>2. SessionTypeOK'
      BY DEF SessionTypeOK
    <3>3. ThreadTypeOK' /\ OwnersLoggedIn'
      BY DEF ThreadTypeOK, OwnersLoggedIn
    <3>4. QED BY <3>1, <3>2, <3>3
  <2>2. ASSUME NEW p \in Players, NEW z \in Zones, RequestEnterGame(s, p, z)
        PROVE  TypeOK' /\ OwnersLoggedIn'
    <3> USE <2>2 DEF RequestEnterGame, managerVars, queueVars, mapVars
    <3>1. QueueTypeOK'
      <4>1. CASE Push(z, EnterMsg(p))
        BY <4>1, PushQueues, MessageTypes
      <4>2. CASE UNCHANGED queueVars
        BY <4>2 DEF QueueTypeOK
      <4>3. QED BY <4>1, <4>2
    <3>2. ManagerTypeOK' /\ MapTypeOK'
      BY DEF ManagerTypeOK, MapTypeOK
    <3>3. SessionTypeOK'
      BY DEF SessionTypeOK
    <3>4. ThreadTypeOK'
      BY DEF ThreadTypeOK, Handlers
    <3>5. OwnersLoggedIn'
      BY DEF OwnersLoggedIn
    <3>6. QED BY <3>1, <3>2, <3>3, <3>4, <3>5
  <2>3. ASSUME NEW c \in Cells, RequestMove(s, c)
        PROVE  TypeOK' /\ OwnersLoggedIn'
    <3> USE <2>3 DEF RequestMove, managerVars, mapVars, sessionVars
    <3>1. QueueTypeOK'
      <4>1. currentPlayer[s] \in Players
        BY DEF SessionTypeOK
      <4>2. zoneID[currentPlayer[s]] \in Zones
        BY <4>1 DEF MapTypeOK
      <4>3. QED BY <4>1, <4>2, PushQueues, MessageTypes
    <3>2. ManagerTypeOK' /\ MapTypeOK'
      BY DEF ManagerTypeOK, MapTypeOK
    <3>3. SessionTypeOK' /\ ThreadTypeOK' /\ OwnersLoggedIn'
      BY DEF SessionTypeOK, ThreadTypeOK, OwnersLoggedIn
    <3>4. QED BY <3>1, <3>2, <3>3
  <2>4. ASSUME NEW z \in Portals, RequestTeleport(s, z)
        PROVE  TypeOK' /\ OwnersLoggedIn'
    <3> USE <2>4 DEF RequestTeleport, managerVars, queueVars, placeVars
    <3>1. currentPlayer[s] \in Players /\ z \in Zones
      BY SessionAssumption DEF SessionTypeOK
    <3>2. ManagerTypeOK' /\ QueueTypeOK'
      BY DEF ManagerTypeOK, QueueTypeOK
    <3>3. MapTypeOK'
      BY <3>1 DEF MapTypeOK
    <3>4. SessionTypeOK' /\ OwnersLoggedIn'
      BY DEF SessionTypeOK, OwnersLoggedIn
    <3>5. ThreadTypeOK'
      BY <3>1 DEF ThreadTypeOK, Handlers, MapTypeOK
    <3>6. QED BY <3>2, <3>3, <3>4, <3>5
  <2>5. CASE Disconnect(s)
    <3> USE <2>5 DEF Disconnect, managerVars, queueVars, mapVars
    <3>1. QueueTypeOK'
      <4>1. CASE currentPlayer[s] = NoPlayer
        BY <4>1 DEF QueueTypeOK
      <4>2. CASE currentPlayer[s] # NoPlayer
        <5>1. zoneID[currentPlayer[s]] \in Zones
          BY <4>2 DEF SessionTypeOK, MapTypeOK
        <5>2. QED BY <4>2, <5>1, PushQueues, MessageTypes
      <4>3. QED BY <4>1, <4>2
    <3>2. ManagerTypeOK' /\ MapTypeOK'
      BY DEF ManagerTypeOK, MapTypeOK
    <3>3. SessionTypeOK' /\ ThreadTypeOK' /\ OwnersLoggedIn'
      BY DEF SessionTypeOK, ThreadTypeOK, OwnersLoggedIn
    <3>4. QED BY <3>1, <3>2, <3>3
  <2> QED BY <2>1, <2>2, <2>3, <2>4, <2>5 DEF Client
<1>handler. ASSUME TypeOK, OwnersLoggedIn, NEW s \in Sessions, Handler(s)
            PROVE  TypeOK' /\ OwnersLoggedIn'
  <2> USE <1>handler
  <2> USE DEF TypeOK
  <2>1. 0 \in Zones /\ Idle \in Handlers /\ Idle.pc = "idle"
    BY NumZonesAssumption DEF Zones, Idle, Handlers
  <2>2. worker[s].pc # "idle" =>
            /\ worker[s].player \in Players
            /\ worker[s].from \in Zones /\ worker[s].to \in Zones
    BY DEF ThreadTypeOK, Handlers
  <2>3. CASE EnterSetsViewport(s)
    <3> USE <2>3 DEF EnterSetsViewport, managerVars, queueVars, mapVars, sessionVars
    <3>1. ManagerTypeOK' /\ QueueTypeOK' /\ MapTypeOK'
      BY DEF ManagerTypeOK, QueueTypeOK, MapTypeOK
    <3>2. SessionTypeOK' /\ OwnersLoggedIn'
      BY DEF SessionTypeOK, OwnersLoggedIn
    <3>3. ThreadTypeOK'
      BY <2>2 DEF ThreadTypeOK, Handlers
    <3>4. QED BY <3>1, <3>2, <3>3
  <2>4. CASE EnterSetsZone(s)
    <3> USE <2>4 DEF EnterSetsZone, managerVars, queueVars, placeVars, sessionVars
    <3>1. ManagerTypeOK' /\ QueueTypeOK'
      BY DEF ManagerTypeOK, QueueTypeOK
    <3>2. MapTypeOK'
      BY <2>2 DEF MapTypeOK
    <3>3. SessionTypeOK' /\ OwnersLoggedIn'
      BY DEF SessionTypeOK, OwnersLoggedIn
    <3>4. ThreadTypeOK'
      BY <2>1 DEF ThreadTypeOK
    <3>5. QED BY <3>1, <3>2, <3>3, <3>4
  <2>5. CASE TeleportSetsPosition(s)
    <3> USE <2>5 DEF TeleportSetsPosition, managerVars, queueVars, placeVars, sessionVars
    <3>1. ManagerTypeOK' /\ QueueTypeOK'
      BY DEF ManagerTypeOK, QueueTypeOK
    <3>2. MapTypeOK'
      BY <2>2, MapAssumption DEF MapTypeOK
    <3>3. SessionTypeOK' /\ OwnersLoggedIn'
      BY DEF SessionTypeOK, OwnersLoggedIn
    <3>4. ThreadTypeOK'
      BY <2>2 DEF ThreadTypeOK, Handlers
    <3>5. QED BY <3>1, <3>2, <3>3, <3>4
  <2>6. CASE TeleportLeaves(s)
    <3> USE <2>6 DEF TeleportLeaves, queueVars, sessionVars
    <3>1. worker[s].player \in Players
      BY <2>2
    <3>2. ManagerTypeOK'
      <4>1. CASE Unregister(worker[s].from, worker[s].player)
        BY <3>1, <4>1, <1>deletePlayer DEF Unregister
      <4>2. CASE UNCHANGED managerVars
        BY <4>2 DEF ManagerTypeOK, managerVars
      <4>3. QED BY <4>1, <4>2
    <3>3. MapTypeOK'
      <4>1. \/ actorVector' = [actorVector EXCEPT ![worker[s].from] =
                                   @ \ {worker[s].player}]
            \/ actorVector' = actorVector
        BY DEF Unregister
      <4>2. actorVector \in [Zones -> SUBSET Players]
        BY DEF MapTypeOK
      <4>3. actorVector' \in [Zones -> SUBSET Players]
        BY ONLY <4>1, <4>2
      <4>4. QED BY <4>3 DEF MapTypeOK
    <3>4. QueueTypeOK' /\ SessionTypeOK' /\ OwnersLoggedIn'
      BY DEF QueueTypeOK, SessionTypeOK, OwnersLoggedIn
    <3>5. ThreadTypeOK'
      BY <2>2 DEF ThreadTypeOK, Handlers
    <3>6. QED BY <3>2, <3>3, <3>4, <3>5
  <2>7. CASE TeleportAppliesLeave(s)
    <3> USE <2>7 DEF TeleportAppliesLeave, managerVars, queueVars, sessionVars
    <3>1. MapTypeOK'
      BY <2>2, <1>leave
    <3>2. ManagerTypeOK' /\ QueueTypeOK'
      BY DEF ManagerTypeOK, QueueTypeOK
    <3>3. SessionTypeOK' /\ OwnersLoggedIn'
      BY DEF SessionTypeOK, OwnersLoggedIn
    <3>4. ThreadTypeOK'
      BY <2>2 DEF ThreadTypeOK, Handlers
    <3>5. QED BY <3>1, <3>2, <3>3, <3>4
  <2>8. CASE TeleportEnters(s)
    <3> USE <2>8 DEF TeleportEnters, managerVars, mapVars, sessionVars
    <3>1. QueueTypeOK'
      BY <2>2, PushQueues, MessageTypes
    <3>2. ManagerTypeOK' /\ MapTypeOK'
      BY DEF ManagerTypeOK, MapTypeOK
    <3>3. SessionTypeOK' /\ OwnersLoggedIn'
      BY DEF SessionTypeOK, OwnersLoggedIn
    <3>4. ThreadTypeOK'
      BY <2>1 DEF ThreadTypeOK
    <3>5. QED BY <3>1, <3>2, <3>3, <3>4
  <2>9. QED BY <2>3, <2>4, <2>5, <2>6, <2>7, <2>8 DEF Handler
<1>answer. ASSUME TypeOK, OwnersLoggedIn, NEW s \in Sessions, DBAnswer(s)
           PROVE  TypeOK' /\ OwnersLoggedIn'
  <2> USE <1>answer
  <2> USE DEF TypeOK
  <2>1. CASE LoginSuccess(s)
    <3> USE <2>1 DEF LoginSuccess, queueVars, placeVars
    <3>1. PICK p \in Players :
            /\ NewPlayer(p)
            /\ pos' = [pos EXCEPT ![p] = Spawn]
            /\ zoneID' = [zoneID EXCEPT ![p] = 0]
            /\ ownerSession' = [ownerSession EXCEPT ![p] = s]
            /\ currentPlayer' = [currentPlayer EXCEPT ![s] = p]
            /\ offered' = IF link[s] = "open"
                          THEN [offered EXCEPT ![s] = @ \cup {p}]
                          ELSE offered
      OBVIOUS
    <3>2. ManagerTypeOK'
      BY <3>1, <1>newPlayer
    <3>3. QueueTypeOK'
      BY DEF QueueTypeOK
    <3>4. MapTypeOK'
      <4>1. 0 \in Zones /\ Spawn \in Cells
        BY NumZonesAssumption, MapAssumption DEF Zones
      <4>2. pos' \in [Players -> Cells] /\ zoneID' \in [Players -> Zones]
        BY <3>1, <4>1 DEF MapTypeOK
      <4>3. QED BY <4>2 DEF MapTypeOK
    <3>5. SessionTypeOK'
      BY <3>1 DEF SessionTypeOK
    <3>6. ThreadTypeOK'
      BY DEF ThreadTypeOK
    <3>7. OwnersLoggedIn'
      BY <3>1 DEF OwnersLoggedIn, SessionTypeOK
    <3>8. QED BY <3>2, <3>3, <3>4, <3>5, <3>6, <3>7
  <2>2. CASE LoginExhausted(s)
    BY <2>2 DEF LoginExhausted, managerVars, queueVars, mapVars, sessionVars,
        ManagerTypeOK, QueueTypeOK, MapTypeOK, SessionTypeOK, ThreadTypeOK,
        OwnersLoggedIn
  <2>3. CASE LoginFail(s)
    <3> USE <2>3 DEF LoginFail, managerVars, queueVars, mapVars
    <3>1. ManagerTypeOK' /\ QueueTypeOK' /\ MapTypeOK'
      BY DEF ManagerTypeOK, QueueTypeOK, MapTypeOK
    <3>2. SessionTypeOK'
      BY DEF SessionTypeOK
    <3>3. ThreadTypeOK' /\ OwnersLoggedIn'
      BY DEF ThreadTypeOK, OwnersLoggedIn
    <3>4. QED BY <3>1, <3>2, <3>3
  <2>4. QED BY <2>1, <2>2, <2>3 DEF DBAnswer
<1>tick. ASSUME TypeOK, OwnersLoggedIn, Tick
         PROVE  TypeOK' /\ OwnersLoggedIn'
  <2> USE <1>tick
  <2> USE DEF TypeOK
  <2>1. tickZone \in Zones
    BY DEF QueueTypeOK
  <2>2. CASE UpdateZone
    <3> USE <2>2 DEF UpdateZone, managerVars, mapVars, sessionVars
    <3>1. QueueTypeOK'
      BY FlushQueues
    <3>2. ManagerTypeOK' /\ MapTypeOK'
      BY DEF ManagerTypeOK, MapTypeOK
    <3>3. SessionTypeOK' /\ ThreadTypeOK' /\ OwnersLoggedIn'
      BY DEF SessionTypeOK, ThreadTypeOK, OwnersLoggedIn
    <3>4. QED BY <3>1, <3>2, <3>3
  <2>3. ASSUME NEW p \in Players, RunEnterGame(p)
        PROVE  TypeOK' /\ OwnersLoggedIn'
    <3> USE <2>3 DEF RunEnterGame, managerVars
    <3>1. QueueTypeOK'
      BY CallQueues
    <3>2. ManagerTypeOK'
      BY DEF ManagerTypeOK
    <3>3. MapTypeOK'
      BY <2>1, <1>mapKept, <1>place
    <3>4. SessionTypeOK'
      BY DEF SessionTypeOK, EntersGame, OwnersLoggedIn
    <3>5. ThreadTypeOK'
      BY DEF ThreadTypeOK, ViewportUpdateCrashes
    <3>6. OwnersLoggedIn'
      BY DEF OwnersLoggedIn
    <3>7. QED BY <3>1, <3>2, <3>3, <3>4, <3>5, <3>6
  <2>4. ASSUME NEW p \in Players, NEW c \in Cells, RunHandleMove(p, c)
        PROVE  TypeOK' /\ OwnersLoggedIn'
    <3> USE <2>4 DEF RunHandleMove, managerVars, sessionVars
    <3>1. QueueTypeOK'
      BY CallQueues
    <3>2. ManagerTypeOK'
      BY DEF ManagerTypeOK
    <3>3. MapTypeOK'
      BY <2>1, <1>mapKept, <1>move
    <3>4. SessionTypeOK' /\ OwnersLoggedIn'
      BY DEF SessionTypeOK, OwnersLoggedIn
    <3>5. ThreadTypeOK'
      BY DEF ThreadTypeOK, ViewportUpdateCrashes
    <3>6. QED BY <3>1, <3>2, <3>3, <3>4, <3>5
  <2>5. ASSUME NEW s \in Sessions, RunLeaveGame(s)
        PROVE  TypeOK' /\ OwnersLoggedIn'
    <3> USE <2>5 DEF RunLeaveGame, sessionVars
    <3>1. QueueTypeOK'
      BY CallQueues
    <3>2. currentPlayer[s] \in actorVector[tickZone] => currentPlayer[s] \in Players
      BY <2>1 DEF MapTypeOK
    <3>3. ManagerTypeOK'
      <4>1. CASE Unregister(tickZone, currentPlayer[s]) /\
                 currentPlayer[s] \in actorVector[tickZone]
        BY <3>2, <4>1, <1>deletePlayer DEF Unregister
      <4>2. CASE UNCHANGED managerVars
        BY <4>2 DEF ManagerTypeOK, managerVars
      <4>3. QED BY <4>1, <4>2
    <3>4. MapTypeOK'
      <4>1. UNCHANGED <<zoneID, pos, ObjectBuf, section>>
        OBVIOUS
      <4>2. actorVector' \in [Zones -> SUBSET Players]
        <5>1. CASE Unregister(tickZone, currentPlayer[s])
          BY <5>1 DEF MapTypeOK, Unregister
        <5>2. CASE UNCHANGED actorVector
          BY <5>2 DEF MapTypeOK
        <5>3. QED BY <5>1, <5>2
      <4>3. QED BY <4>1, <4>2 DEF MapTypeOK
    <3>5. SessionTypeOK' /\ OwnersLoggedIn'
      BY DEF SessionTypeOK, OwnersLoggedIn
    <3>6. ThreadTypeOK'
      BY <3>2 DEF ThreadTypeOK
    <3>7. QED BY <3>1, <3>3, <3>4, <3>5, <3>6
  <2>6. CASE FinishLeaveGame
    <3> USE <2>6 DEF FinishLeaveGame, managerVars, queueVars, sessionVars
    <3>1. leaving \in Players
      BY DEF ThreadTypeOK
    <3>2. MapTypeOK'
      BY <2>1, <3>1, <1>leave
    <3>3. ManagerTypeOK' /\ QueueTypeOK'
      BY DEF ManagerTypeOK, QueueTypeOK
    <3>4. SessionTypeOK' /\ OwnersLoggedIn'
      BY DEF SessionTypeOK, OwnersLoggedIn
    <3>5. ThreadTypeOK'
      BY DEF ThreadTypeOK
    <3>6. QED BY <3>2, <3>3, <3>4, <3>5
  <2>7. QED BY <2>2, <2>3, <2>4, <2>5, <2>6 DEF Tick
<1>stutter. ASSUME TypeOK, OwnersLoggedIn, UNCHANGED vars
            PROVE  TypeOK' /\ OwnersLoggedIn'
  BY <1>stutter DEF vars, managerVars, queueVars, mapVars, sessionVars, TypeOK,
        ManagerTypeOK, QueueTypeOK, MapTypeOK, SessionTypeOK, ThreadTypeOK,
        OwnersLoggedIn
<1>1. TypeOK /\ OwnersLoggedIn /\ [Next]_vars => (TypeOK /\ OwnersLoggedIn)'
  BY <1>client, <1>handler, <1>answer, <1>tick, <1>stutter DEF Next
<1>2. QED BY <1>init, <1>1, PTL DEF Spec
-----------------------------------------------------------------------------
(* The message queues implement ZoneMailbox: between a Push on a worker    *)
(* and the Call on the tick thread no message is lost, repeated or         *)
(* overtaken.                                                              *)

(* A push is a Post of the mailbox. *)
LEMMA PushIsPost ==
  ASSUME QueueTypeOK, NEW z \in Zones, NEW m \in Messages, Push(z, m)
  PROVE  Mail' = [Mail EXCEPT ![z] = Append(@, m)]
<1>1. /\ messageQueue \in [Zones -> Seq(Messages)]
      /\ messageVector \in Seq(Messages)
      /\ tickZone' = tickZone /\ messageVector' = messageVector
      /\ messageQueue' = [messageQueue EXCEPT ![z] = Append(@, m)]
  BY DEF QueueTypeOK, Push
<1>2. messageVector \o Append(messageQueue[z], m)
          = Append(messageVector \o messageQueue[z], m)
  <2>1. /\ messageQueue[z] \in Seq(Messages) /\ <<m>> \in Seq(Messages)
        /\ messageVector \o messageQueue[z] \in Seq(Messages)
    BY <1>1, ConcatProperties
  <2>2. Append(messageQueue[z], m) = messageQueue[z] \o <<m>>
    BY <2>1, AppendIsConcat
  <2>3. Append(messageVector \o messageQueue[z], m)
            = (messageVector \o messageQueue[z]) \o <<m>>
    BY <2>1, AppendIsConcat
  <2>4. (messageVector \o messageQueue[z]) \o <<m>>
            = messageVector \o (messageQueue[z] \o <<m>>)
    BY <1>1, <2>1, ConcatAssociative
  <2>5. QED BY <2>2, <2>3, <2>4
<1>3. ASSUME NEW y \in Zones
      PROVE  Mail'[y] = [Mail EXCEPT ![z] = Append(@, m)][y]
  <2>1. CASE y # z
    BY <1>1, <2>1 DEF Mail
  <2>2. CASE y = z
    <3>1. messageQueue'[z] = Append(messageQueue[z], m)
      BY <1>1
    <3>2. Mail'[z] = Append(Mail[z], m)
      BY <1>1, <1>2, <3>1 DEF Mail
    <3>3. QED BY <2>2, <3>2 DEF Mail
  <2>3. QED BY <2>1, <2>2
<1>4. QED BY <1>3 DEF Mail

(* FlushAll moves messages from the queue to the empty local vector. *)
LEMMA FlushKeepsMail ==
  ASSUME QueueTypeOK, FlushNext
  PROVE  Mail' = Mail
<1> DEFINE next == (tickZone + 1) % NumZones
<1>1. /\ messageQueue \in [Zones -> Seq(Messages)]
      /\ tickZone \in Zones /\ next \in Zones
      /\ messageVector = <<>> /\ tickZone' = next
      /\ messageVector' = messageQueue[next]
      /\ messageQueue' = [messageQueue EXCEPT ![next] = <<>>]
  BY NextZone DEF QueueTypeOK, FlushNext
<1> HIDE DEF next
<1>2. ASSUME NEW z \in Zones
      PROVE  Mail[z] = messageQueue[z] /\ Mail'[z] = messageQueue[z]
  <2>1. /\ <<>> \o messageQueue[z] = messageQueue[z]
        /\ messageQueue[z] \o <<>> = messageQueue[z]
    BY <1>1, ConcatEmptySeq
  <2>2. Mail[z] = messageQueue[z]
    BY <1>1, <2>1 DEF Mail
  <2>3. CASE z = next
    BY <1>1, <2>1, <2>3 DEF Mail
  <2>4. CASE z # next
    BY <1>1, <2>4 DEF Mail
  <2>5. QED BY <2>2, <2>3, <2>4
<1>3. QED BY <1>2 DEF Mail

(* A call is a Take: the message called is the first of the mailbox. *)
LEMMA CallIsTake ==
  ASSUME QueueTypeOK, NEW m, Call(m)
  PROVE  /\ Mail[tickZone] # <<>>
         /\ Mail' = [Mail EXCEPT ![tickZone] = Tail(@)]
<1>1. /\ messageQueue \in [Zones -> Seq(Messages)]
      /\ messageVector \in Seq(Messages) /\ messageVector # <<>>
      /\ tickZone \in Zones /\ tickZone' = tickZone
      /\ messageVector' = Tail(messageVector) /\ messageQueue' = messageQueue
  BY DEF QueueTypeOK, Call
<1> DEFINE v == messageVector
           q == messageQueue[tickZone]
<1>2. /\ v \in Seq(Messages) /\ q \in Seq(Messages) /\ Tail(v) \in Seq(Messages)
      /\ Len(v) \in Nat \ {0} /\ Len(q) \in Nat
      /\ Len(Tail(v)) = Len(v) - 1
      /\ \A i \in 1 .. Len(v) - 1 : Tail(v)[i] = v[i + 1]
  BY <1>1, EmptySeq, LenProperties, HeadTailProperties
<1> HIDE DEF v, q
<1>3. /\ v \o q \in Seq(Messages) /\ Len(v \o q) = Len(v) + Len(q)
      /\ \A i \in 1 .. Len(v) + Len(q) :
             (v \o q)[i] = IF i <= Len(v) THEN v[i] ELSE q[i - Len(v)]
  BY <1>2, ConcatProperties
<1>4. /\ Tail(v) \o q \in Seq(Messages)
      /\ Len(Tail(v) \o q) = Len(v) - 1 + Len(q)
      /\ \A i \in 1 .. Len(v) - 1 + Len(q) :
             (Tail(v) \o q)[i] = IF i <= Len(v) - 1 THEN Tail(v)[i]
                                 ELSE q[i - (Len(v) - 1)]
  BY <1>2, ConcatProperties
<1>5. v \o q # <<>>
  BY <1>2, <1>3, EmptySeq
<1>6. /\ Tail(v \o q) \in Seq(Messages)
      /\ Len(Tail(v \o q)) = Len(v) + Len(q) - 1
      /\ \A i \in 1 .. Len(v) + Len(q) - 1 : Tail(v \o q)[i] = (v \o q)[i + 1]
  BY <1>3, <1>5, HeadTailProperties
<1>7. Tail(v \o q) = Tail(v) \o q
  <2>1. ASSUME NEW i \in 1 .. Len(v) + Len(q) - 1
        PROVE  Tail(v \o q)[i] = (Tail(v) \o q)[i]
    <3>1. i \in Int /\ i + 1 \in 1 .. Len(v) + Len(q)
          /\ i \in 1 .. Len(v) - 1 + Len(q)
      BY <1>2
    <3>2. CASE i <= Len(v) - 1
      BY <1>2, <1>3, <1>4, <1>6, <3>1, <3>2
    <3>3. CASE i > Len(v) - 1
      <4>1. i + 1 - Len(v) = i - (Len(v) - 1)
        BY <1>2, <3>1
      <4>2. (v \o q)[i + 1] = q[i + 1 - Len(v)]
        BY <1>2, <1>3, <3>1, <3>3
      <4>3. (Tail(v) \o q)[i] = q[i - (Len(v) - 1)]
        BY <1>2, <1>4, <3>1, <3>3
      <4>4. QED BY <1>6, <4>1, <4>2, <4>3
    <3>4. QED BY <1>2, <3>1, <3>2, <3>3
  <2>2. Len(Tail(v \o q)) = Len(Tail(v) \o q)
    BY <1>2, <1>4, <1>6
  <2>3. QED BY <1>2, <1>4, <1>6, <2>1, <2>2, SeqEqual
<1>8. Mail[tickZone] = v \o q /\ Mail'[tickZone] = Tail(v) \o q
  BY <1>1 DEF Mail, v, q
<1>9. ASSUME NEW z \in Zones
      PROVE  Mail'[z] = [Mail EXCEPT ![tickZone] = Tail(@)][z]
  <2>1. CASE z = tickZone
    <3>1. [Mail EXCEPT ![tickZone] = Tail(@)][tickZone] = Tail(Mail[tickZone])
      BY <1>1 DEF Mail
    <3>2. QED BY <1>7, <1>8, <2>1, <3>1
  <2>2. CASE z # tickZone
    BY <1>1, <2>2 DEF Mail
  <2>3. QED BY <2>1, <2>2
<1>10. Mail' = [Mail EXCEPT ![tickZone] = Tail(@)]
  BY <1>9 DEF Mail
<1>11. QED BY <1>5, <1>8, <1>10
-----------------------------------------------------------------------------
(* Whatever the handlers of the sessions push to the zones, the tick       *)
(* thread calls it zone by zone in the order pushed, each closure once.    *)
THEOREM QueuesImplementMailboxes == Spec => ZoneQueuesAreMailboxes
<1>init. Init => Mailbox!Init
  <2> SUFFICES ASSUME Init PROVE Mail = [z \in Zones |-> <<>>]
    BY DEF Mailbox!Init
  <2>1. <<>> \o <<>> = <<>>
    BY EmptySeq, ConcatEmptySeq
  <2>2. QED BY <2>1 DEF Init, QueueInit, Mail
<1>next. ASSUME TypeOK, [Next]_vars
         PROVE  [Mailbox!Next]_Mail
  <2> USE <1>next
  <2>1. QueueTypeOK
    BY DEF TypeOK
  <2>2. ASSUME NEW z \in Zones, NEW m \in Messages, Push(z, m)
        PROVE  Mailbox!Next
    BY <2>1, <2>2, PushIsPost DEF Mailbox!Next, Mailbox!Post
  <2>3. ASSUME NEW m, Call(m)
        PROVE  Mailbox!Next
    <3>1. tickZone \in Zones
      BY <2>1 DEF QueueTypeOK
    <3>2. Mailbox!Take(tickZone)
      BY <2>1, <2>3, CallIsTake DEF Mailbox!Take
    <3>3. QED BY <3>1, <3>2 DEF Mailbox!Next
  <2>4. CASE UNCHANGED queueVars
    BY <2>4 DEF queueVars, Mail
  <2>5. ASSUME NEW s \in Sessions, Client(s)
        PROVE  [Mailbox!Next]_Mail
    <3>1. ASSUME NEW p \in Players, NEW z \in Zones, RequestEnterGame(s, p, z)
          PROVE  [Mailbox!Next]_Mail
      BY <2>2, <2>4, <3>1, MessageTypes DEF RequestEnterGame
    <3>2. ASSUME NEW c \in Cells, RequestMove(s, c)
          PROVE  [Mailbox!Next]_Mail
      <4>1. currentPlayer[s] \in Players
        BY <3>2 DEF RequestMove, TypeOK, SessionTypeOK
      <4>2. zoneID[currentPlayer[s]] \in Zones
        BY <4>1 DEF TypeOK, MapTypeOK
      <4>3. QED BY <2>2, <3>2, <4>1, <4>2, MessageTypes DEF RequestMove
    <3>3. CASE Disconnect(s) /\ currentPlayer[s] # NoPlayer
      <4>1. zoneID[currentPlayer[s]] \in Zones
        BY <3>3 DEF TypeOK, SessionTypeOK, MapTypeOK
      <4>2. QED BY <2>2, <3>3, <4>1, MessageTypes DEF Disconnect
    <3>4. CASE UNCHANGED queueVars
      BY <2>4, <3>4
    <3>5. QED BY <2>5, <3>1, <3>2, <3>3, <3>4
              DEF Client, RequestLogin, RequestTeleport, Disconnect
  <2>6. ASSUME NEW s \in Sessions, Handler(s)
        PROVE  [Mailbox!Next]_Mail
    <3>1. CASE TeleportEnters(s)
      <4>1. worker[s].player \in Players /\ worker[s].to \in Zones
        BY <3>1 DEF TeleportEnters, TypeOK, ThreadTypeOK, Handlers
      <4>2. QED BY <2>2, <3>1, <4>1, MessageTypes DEF TeleportEnters
    <3>2. CASE UNCHANGED queueVars
      BY <2>4, <3>2
    <3>3. QED BY <2>6, <3>1, <3>2
              DEF Handler, EnterSetsViewport, EnterSetsZone, TeleportSetsPosition,
                  TeleportLeaves, TeleportAppliesLeave
  <2>7. ASSUME NEW s \in Sessions, DBAnswer(s)
        PROVE  [Mailbox!Next]_Mail
    BY <2>4, <2>7 DEF DBAnswer, LoginSuccess, LoginExhausted, LoginFail
  <2>8. CASE Tick
    <3>1. CASE UpdateZone
      BY <2>1, <3>1, FlushKeepsMail DEF UpdateZone
    <3>2. CASE FinishLeaveGame
      BY <2>4, <3>2 DEF FinishLeaveGame
    <3>3. CASE \E m : Call(m)
      BY <2>3, <3>3
    <3>4. QED BY <2>8, <3>1, <3>2, <3>3
              DEF Tick, RunEnterGame, RunHandleMove, RunLeaveGame
  <2>9. CASE UNCHANGED vars
    BY <2>4, <2>9 DEF vars
  <2>10. QED BY <2>5, <2>6, <2>7, <2>8, <2>9 DEF Next
<1>1. Init => Mailbox!Init
  BY <1>init
<1>2. TypeOK /\ [Next]_vars => [Mailbox!Next]_Mail
  BY <1>next
<1>3. QED BY <1>1, <1>2, TypeCorrect, PTL
          DEF Spec, ZoneQueuesAreMailboxes, Mailbox!Spec
-----------------------------------------------------------------------------
(* RosterComplementsPool.  It is not inductive: that AddPlayer files a     *)
(* player under its own id depends on the order of the pool, and the order *)
(* of the pool on which players can be given back to it.                   *)

(* Until every player has been handed out once, the pool begins with those *)
(* that have not, in the order of their ids; behind them are only players  *)
(* that have been.                                                         *)
FreshFirst ==
    playerIdx <= MaxPlayers =>
        /\ \A i \in 1 .. MaxPlayers - playerIdx :
               i \in DOMAIN playerPool /\ playerPool[i] = playerIdx + i - 1
        /\ \A i \in DOMAIN playerPool :
               i > MaxPlayers - playerIdx => playerPool[i] < playerIdx

(* Whoever is in the game, or on the way into it, has been handed out.     *)
ActorsHandedOut ==
    \A z \in Zones : \A p \in actorVector[z] : p < playerIdx
EnteringHandedOut ==
    \A p \in Players : Queued(EnterMsg(p)) => p < playerIdx
SessionsHandedOut ==
    /\ \A s \in Sessions : \A p \in offered[s] : p < playerIdx
    /\ \A s \in Sessions :
           currentPlayer[s] \in Players => currentPlayer[s] < playerIdx
    /\ \A s \in Sessions :
           worker[s].player \in Players => worker[s].player < playerIdx

UsedHandedOut == ActorsHandedOut /\ EnteringHandedOut /\ SessionsHandedOut

RosterInv == FreshFirst /\ UsedHandedOut /\ RosterComplementsPool
-----------------------------------------------------------------------------
(* The manager's two operations.                                           *)

(* NewPlayer takes the first of the pool; if fresh, under its own id. *)
LEMMA NewPlayerRoster ==
  ASSUME ManagerTypeOK, FreshFirst, RosterComplementsPool,
         NEW p \in Players, NewPlayer(p)
  PROVE  /\ FreshFirst' /\ RosterComplementsPool'
         /\ playerIdx' = playerIdx + 1
         /\ playerIdx < MaxPlayers => p = playerIdx /\ Pooled' = Pooled \ {p}
<1> USE DEF Players
<1>1. /\ playerPool \in Seq(Players) /\ playerPool # <<>>
      /\ p = Head(playerPool) /\ playerPool' = Tail(playerPool)
      /\ playerIdx \in Nat /\ playerIdx' = playerIdx + 1
  BY DEF ManagerTypeOK, NewPlayer
<1>2. MaxPlayers \in Nat
  BY MaxPlayersAssumption
<1>3. /\ Len(playerPool) \in Nat \ {0}
      /\ DOMAIN playerPool = 1 .. Len(playerPool)
      /\ playerPool[1] = p
  BY <1>1, EmptySeq, LenProperties
<1>a. \A i \in 1 .. Len(playerPool) : playerPool[i] \in Players
  BY <1>1, ElementOfSeq
<1>4. /\ DOMAIN playerPool' = 1 .. Len(playerPool) - 1
      /\ \A i \in 1 .. Len(playerPool) - 1 : playerPool'[i] = playerPool[i + 1]
  BY <1>1, <1>3, HeadTailProperties, LenProperties
<1>5. CASE playerIdx >= MaxPlayers
  BY <1>1, <1>2, <1>5 DEF FreshFirst, RosterComplementsPool
<1>6. CASE playerIdx < MaxPlayers
  <2>1. /\ \A i \in 1 .. MaxPlayers - playerIdx :
              i \in DOMAIN playerPool /\ playerPool[i] = playerIdx + i - 1
        /\ \A i \in DOMAIN playerPool :
              i > MaxPlayers - playerIdx => playerPool[i] < playerIdx
    BY <1>1, <1>2, <1>6 DEF FreshFirst
  <2>2. p = playerIdx
    BY <1>1, <1>2, <1>3, <1>6, <2>1
  <2>3. FreshFirst'
    <3>1. ASSUME NEW i \in 1 .. MaxPlayers - playerIdx'
          PROVE  i \in DOMAIN playerPool' /\ playerPool'[i] = playerIdx' + i - 1
      <4>1. i + 1 \in 1 .. MaxPlayers - playerIdx
        BY <1>1, <1>2
      <4>2. i + 1 \in 1 .. Len(playerPool) /\ playerPool[i + 1] = playerIdx + i
        BY <1>1, <1>3, <2>1, <4>1
      <4>3. QED BY <1>1, <1>3, <1>4, <4>2
    <3>2. ASSUME NEW i \in DOMAIN playerPool', i > MaxPlayers - playerIdx'
          PROVE  playerPool'[i] < playerIdx'
      <4>1. i + 1 \in DOMAIN playerPool /\ i + 1 > MaxPlayers - playerIdx
        BY <1>1, <1>2, <1>3, <1>4, <3>2
      <4>2. playerPool[i + 1] < playerIdx /\ playerPool[i + 1] \in Players
        BY <1>1, <1>3, <1>a, <2>1, <4>1
      <4>3. playerPool'[i] = playerPool[i + 1]
        BY <1>4
      <4>4. QED BY <1>1, <1>2, <4>2, <4>3
    <3>3. QED BY <3>1, <3>2 DEF FreshFirst
  <2>4. Pooled' = Pooled \ {p}
    <3>1. ASSUME NEW i \in 1 .. Len(playerPool), i # 1
          PROVE  playerPool[i] # p
      <4>1. CASE i \in 1 .. MaxPlayers - playerIdx
        BY <1>1, <1>2, <2>1, <2>2, <3>1, <4>1
      <4>2. CASE i > MaxPlayers - playerIdx
        <5>1. playerPool[i] < playerIdx
          BY <1>3, <2>1, <4>2
        <5>2. playerPool[i] \in Int
          BY <1>2, <1>a
        <5>3. QED BY <1>1, <2>2, <5>1, <5>2
      <4>3. QED BY <1>1, <1>2, <1>3, <4>1, <4>2
    <3>2. ASSUME NEW i \in DOMAIN playerPool'
          PROVE  playerPool'[i] \in Pooled \ {p}
      <4>1. i + 1 \in 1 .. Len(playerPool) /\ i + 1 # 1
        BY <1>3, <1>4
      <4>2. QED BY <1>3, <1>4, <3>1, <4>1 DEF Pooled
    <3>3. ASSUME NEW i \in DOMAIN playerPool, playerPool[i] # p
          PROVE  playerPool[i] \in Pooled'
      <4>1. i - 1 \in DOMAIN playerPool' /\ playerPool'[i - 1] = playerPool[i]
        BY <1>3, <1>4, <3>3
      <4>2. QED BY <4>1 DEF Pooled
    <3>4. QED BY <3>2, <3>3 DEF Pooled
  <2>5. p \in Pooled
    BY <1>3 DEF Pooled
  <2>6. AllPlayerInfo = {<<q, q>> : q \in Players \ Pooled}
    BY <1>1, <1>2, <1>6 DEF RosterComplementsPool
  <2>7. AllPlayerInfo' = AllPlayerInfo \cup {<<p, p>>}
    <3>1. ~ \E q \in Players : <<playerIdx, q>> \in AllPlayerInfo
      BY <2>2, <2>5, <2>6
    <3>2. QED BY <2>2, <3>1 DEF NewPlayer, AddPlayer
  <2>8. Players \ Pooled' = (Players \ Pooled) \cup {p}
    BY <2>4, <2>5
  <2>9. AllPlayerInfo' = {<<q, q>> : q \in Players \ Pooled'}
    BY <2>6, <2>7, <2>8
  <2>10. QED BY <1>1, <2>2, <2>3, <2>4, <2>9 DEF RosterComplementsPool
<1>7. QED BY <1>1, <1>2, <1>5, <1>6

(* DeletePlayer puts a player that was handed out behind the fresh ones. *)
LEMMA DeletePlayerRoster ==
  ASSUME ManagerTypeOK, FreshFirst, RosterComplementsPool,
         NEW p \in Players, p < playerIdx, DeletePlayer(p)
  PROVE  /\ FreshFirst' /\ RosterComplementsPool' /\ playerIdx' = playerIdx
         /\ Pooled' = Pooled \cup {p}
<1>1. /\ playerPool \in Seq(Players) /\ playerPool' = Append(playerPool, p)
      /\ playerIdx \in Nat /\ playerIdx' = playerIdx
      /\ MaxPlayers \in Nat
  BY MaxPlayersAssumption DEF ManagerTypeOK, DeletePlayer
<1>2. /\ Len(playerPool) \in Nat
      /\ DOMAIN playerPool = 1 .. Len(playerPool)
      /\ DOMAIN playerPool' = 1 .. Len(playerPool) + 1
      /\ \A i \in 1 .. Len(playerPool) : playerPool'[i] = playerPool[i]
      /\ playerPool'[Len(playerPool) + 1] = p
  BY <1>1, AppendProperties, LenProperties
<1>3. Pooled' = Pooled \cup {p}
  <2>1. ASSUME NEW i \in DOMAIN playerPool'
        PROVE  playerPool'[i] \in Pooled \cup {p}
    BY <1>2 DEF Pooled
  <2>2. ASSUME NEW i \in DOMAIN playerPool
        PROVE  playerPool[i] \in Pooled'
    BY <1>2 DEF Pooled
  <2>3. p \in Pooled'
    BY <1>2 DEF Pooled
  <2>4. QED BY <2>1, <2>2, <2>3 DEF Pooled
<1>4. RosterComplementsPool'
  BY <1>1, <1>3 DEF RosterComplementsPool, DeletePlayer
<1>5. FreshFirst'
  BY <1>1, <1>2 DEF FreshFirst
<1>6. QED BY <1>1, <1>3, <1>4, <1>5
-----------------------------------------------------------------------------
(* The steps.                                                              *)

(* Until the pool has been gone through once, the roster holds the players *)
(* that are not in the pool, each under its own id, and nothing else:      *)
(* whatever the clients do, and whichever threads give players back.       *)
THEOREM RosterCorrect == Spec => [](RosterInv /\ RosterComplementsPool)
  (* A step that leaves the manager alone changes none of this. *)
<1>managerSame. ASSUME FreshFirst, RosterComplementsPool, UNCHANGED managerVars
                PROVE  /\ FreshFirst' /\ RosterComplementsPool' /\ playerIdx' = playerIdx
                       /\ Pooled' = Pooled
  BY <1>managerSame DEF FreshFirst, RosterComplementsPool, Pooled, managerVars
<1>init. Init => RosterInv
  <2> SUFFICES ASSUME Init PROVE RosterInv
    OBVIOUS
  <2> USE DEF Init
  <2>1. /\ playerPool = [i \in 1 .. MaxPlayers |-> i - 1] /\ AllPlayerInfo = {}
        /\ playerIdx = 0 /\ MaxPlayers \in Nat
    BY MaxPlayersAssumption DEF ManagerInit
  <2>2. FreshFirst
    BY <2>1 DEF FreshFirst
  <2>3. RosterComplementsPool
    <3>1. ASSUME NEW p \in Players
          PROVE  p \in Pooled
      <4>1. p + 1 \in DOMAIN playerPool /\ playerPool[p + 1] = p
        BY <2>1 DEF Players
      <4>2. QED BY <4>1 DEF Pooled
    <3>2. QED BY <2>1, <3>1 DEF RosterComplementsPool
  <2>4. ActorsHandedOut
    BY DEF MapInit, ActorsHandedOut
  <2>5. EnteringHandedOut
    <3>1. \A n : ~Queued(n)
      BY DEF QueueInit, Queued
    <3>2. QED BY <3>1 DEF EnteringHandedOut
  <2>6. SessionsHandedOut
    BY NoPlayerAssumption DEF SessionsHandedOut, Idle
  <2>7. QED BY <2>2, <2>3, <2>4, <2>5, <2>6 DEF RosterInv, UsedHandedOut
<1>client. ASSUME TypeOK, RosterInv, NEW s \in Sessions, Client(s)
           PROVE  RosterInv'
  <2> USE <1>client
  <2> USE DEF RosterInv, UsedHandedOut
  <2>1. UNCHANGED <<managerVars, actorVector>>
    BY DEF Client, RequestLogin, RequestEnterGame, RequestMove, RequestTeleport,
           Disconnect, mapVars, placeVars
  <2>2. /\ FreshFirst' /\ RosterComplementsPool' /\ ActorsHandedOut'
        /\ playerIdx' = playerIdx
    BY <2>1, <1>managerSame DEF ActorsHandedOut
  <2>3. QueueTypeOK
    BY DEF TypeOK
  <2>4. CASE RequestLogin(s)
    BY <2>2, <2>4 DEF RequestLogin, queueVars, EnteringHandedOut, Queued,
           SessionsHandedOut
  <2>5. ASSUME NEW p \in Players, NEW z \in Zones, RequestEnterGame(s, p, z)
        PROVE  EnteringHandedOut' /\ SessionsHandedOut'
    <3> USE <2>5 DEF RequestEnterGame
    <3>1. p < playerIdx
      BY DEF SessionsHandedOut
    <3>2. EnteringHandedOut'
      <4>1. CASE Push(z, EnterMsg(p))
        BY <2>2, <2>3, <3>1, <4>1, PushQueues, MessageTypes, MessageKinds
           DEF EnteringHandedOut
      <4>2. CASE UNCHANGED queueVars
        BY <2>2, <4>2 DEF EnteringHandedOut, Queued, queueVars
      <4>3. QED BY <4>1, <4>2
    <3>3. SessionsHandedOut'
      BY <2>2, <3>1 DEF SessionsHandedOut, TypeOK, SessionTypeOK, ThreadTypeOK
    <3>4. QED BY <3>2, <3>3
  <2>6. ASSUME NEW c \in Cells, RequestMove(s, c)
        PROVE  EnteringHandedOut' /\ SessionsHandedOut'
    <3> USE <2>6 DEF RequestMove
    <3>1. /\ currentPlayer[s] \in Players
          /\ zoneID[currentPlayer[s]] \in Zones
      BY DEF TypeOK, SessionTypeOK, MapTypeOK
    <3>2. EnteringHandedOut'
      BY <2>2, <2>3, <3>1, PushQueues, MessageTypes, MessageKinds
         DEF EnteringHandedOut
    <3>3. QED BY <2>2, <3>2 DEF SessionsHandedOut, sessionVars
  <2>7. ASSUME NEW z \in Portals, RequestTeleport(s, z)
        PROVE  EnteringHandedOut' /\ SessionsHandedOut'
    <3> USE <2>7 DEF RequestTeleport
    <3>1. EnteringHandedOut'
      BY <2>2 DEF EnteringHandedOut, Queued, queueVars
    <3>2. SessionsHandedOut'
      BY <2>2 DEF SessionsHandedOut, TypeOK, ThreadTypeOK
    <3>3. QED BY <3>1, <3>2
  <2>8. CASE Disconnect(s)
    <3> USE <2>8 DEF Disconnect
    <3>1. EnteringHandedOut'
      <4>1. CASE currentPlayer[s] = NoPlayer
        BY <2>2, <4>1 DEF EnteringHandedOut, Queued, queueVars
      <4>2. CASE currentPlayer[s] # NoPlayer
        <5>1. zoneID[currentPlayer[s]] \in Zones
          BY <4>2 DEF TypeOK, SessionTypeOK, MapTypeOK
        <5>2. QED BY <2>2, <2>3, <4>2, <5>1, PushQueues, MessageTypes, MessageKinds
                  DEF EnteringHandedOut
      <4>3. QED BY <4>1, <4>2
    <3>2. QED BY <2>2, <3>1 DEF SessionsHandedOut
  <2>9. QED BY <2>2, <2>4, <2>5, <2>6, <2>7, <2>8 DEF Client
<1>handler. ASSUME TypeOK, RosterInv, NEW s \in Sessions, Handler(s)
            PROVE  RosterInv'
  <2> USE <1>handler
  <2> USE DEF RosterInv, UsedHandedOut
  <2>1. worker[s].pc # "idle" =>
            /\ worker[s].player \in Players
            /\ worker[s].from \in Zones /\ worker[s].to \in Zones
            /\ worker[s].player < playerIdx
    BY DEF TypeOK, ThreadTypeOK, Handlers, SessionsHandedOut
  <2>2. SessionsHandedOut'
    <3>1. /\ UNCHANGED <<offered, currentPlayer, playerIdx>>
          /\ \/ worker' = [worker EXCEPT ![s] = Idle]
             \/ \E x : worker' = [worker EXCEPT ![s].pc = x]
      BY DEF Handler, EnterSetsViewport, EnterSetsZone, TeleportSetsPosition,
             TeleportLeaves, TeleportAppliesLeave, TeleportEnters, Unregister,
             DeletePlayer, sessionVars, managerVars
    <3>2. worker \in [Sessions -> Handlers] /\ Idle.player \notin Players
      BY NoPlayerAssumption DEF TypeOK, ThreadTypeOK, Idle
    <3>3. \A t \in Sessions : worker'[t].player \in {worker[t].player, Idle.player}
      <4>1. CASE worker' = [worker EXCEPT ![s] = Idle]
        BY <3>2, <4>1
      <4>2. ASSUME NEW x, worker' = [worker EXCEPT ![s].pc = x]
            PROVE  \A t \in Sessions : worker'[t].player = worker[t].player
        BY <3>2, <4>2 DEF Handlers
      <4>3. QED BY <3>1, <4>1, <4>2
    <3>4. QED BY <3>1, <3>2, <3>3 DEF SessionsHandedOut
  <2>3. CASE TeleportLeaves(s)
    <3> USE <2>3 DEF TeleportLeaves
    <3>1. FreshFirst' /\ RosterComplementsPool' /\ playerIdx' = playerIdx
      <4>1. CASE Unregister(worker[s].from, worker[s].player)
        BY <2>1, <4>1, DeletePlayerRoster DEF Unregister, TypeOK
      <4>2. CASE UNCHANGED managerVars
        BY <4>2, <1>managerSame
      <4>3. QED BY <4>1, <4>2
    <3>2. ActorsHandedOut'
      <4>1. \/ actorVector' = [actorVector EXCEPT ![worker[s].from] =
                                   @ \ {worker[s].player}]
            \/ actorVector' = actorVector
        BY DEF Unregister
      <4>2. actorVector \in [Zones -> SUBSET Players]
        BY DEF TypeOK, MapTypeOK
      <4>3. \A z \in Zones : actorVector'[z] \subseteq actorVector[z]
        BY ONLY <4>1, <4>2
      <4>4. QED BY <3>1, <4>3 DEF ActorsHandedOut
    <3>3. EnteringHandedOut'
      BY <3>1 DEF EnteringHandedOut, Queued, queueVars
    <3>4. QED BY <2>2, <3>1, <3>2, <3>3
  <2>4. CASE TeleportEnters(s)
    <3> USE <2>4 DEF TeleportEnters
    <3>1. /\ FreshFirst' /\ RosterComplementsPool' /\ ActorsHandedOut'
          /\ playerIdx' = playerIdx
      BY <1>managerSame DEF ActorsHandedOut, mapVars
    <3>2. EnteringHandedOut'
      BY <2>1, <3>1, PushQueues, MessageTypes, MessageKinds
         DEF EnteringHandedOut, TypeOK
    <3>3. QED BY <2>2, <3>1, <3>2
  <2>5. CASE UNCHANGED <<managerVars, queueVars, actorVector>>
    BY <2>2, <2>5, <1>managerSame
       DEF ActorsHandedOut, EnteringHandedOut, Queued, queueVars
  <2>6. QED
    BY <2>3, <2>4, <2>5 DEF Handler, EnterSetsViewport, EnterSetsZone,
       TeleportSetsPosition, TeleportAppliesLeave, ApplyLeave, mapVars, placeVars
<1>answer. ASSUME TypeOK, RosterInv, NEW s \in Sessions, DBAnswer(s)
           PROVE  RosterInv'
  <2> USE <1>answer
  <2> USE DEF RosterInv, UsedHandedOut
  <2>1. CASE LoginSuccess(s)
    <3> USE <2>1 DEF LoginSuccess
    <3>1. PICK p \in Players :
            /\ NewPlayer(p)
            /\ currentPlayer' = [currentPlayer EXCEPT ![s] = p]
            /\ offered' = IF link[s] = "open"
                          THEN [offered EXCEPT ![s] = @ \cup {p}]
                          ELSE offered
      OBVIOUS
    <3>2. FreshFirst' /\ RosterComplementsPool' /\ playerIdx' = playerIdx + 1
      BY <3>1, NewPlayerRoster DEF TypeOK
    <3>3. playerIdx \in Nat /\ (\A q \in Players : q \in Int)
      BY DEF TypeOK, ManagerTypeOK, Players
    <3>4. p < playerIdx'
      <4>1. CASE playerIdx < MaxPlayers
        <5>1. p = playerIdx
          BY <3>1, <4>1, NewPlayerRoster DEF TypeOK
        <5>2. QED BY <3>2, <3>3, <5>1
      <4>2. CASE playerIdx >= MaxPlayers
        BY <3>2, <3>3, <4>2, MaxPlayersAssumption DEF Players
      <4>3. QED BY <3>3, <4>1, <4>2, MaxPlayersAssumption
    <3>5. \A q \in Players : q < playerIdx => q < playerIdx'
      BY <3>2, <3>3
    <3>6. ActorsHandedOut'
      BY <3>5 DEF ActorsHandedOut, placeVars, TypeOK, MapTypeOK
    <3>7. EnteringHandedOut'
      BY <3>5 DEF EnteringHandedOut, Queued, queueVars
    <3>8. SessionsHandedOut'
      <4>1. \A t \in Sessions : offered'[t] \subseteq offered[t] \cup {p}
        BY <3>1 DEF TypeOK, SessionTypeOK
      <4>2. \A t \in Sessions : currentPlayer'[t] \in {currentPlayer[t], p}
        BY <3>1 DEF TypeOK, SessionTypeOK
      <4>3. \A t \in Sessions : offered[t] \subseteq Players
        BY DEF TypeOK, SessionTypeOK
      <4>4. QED BY <3>4, <3>5, <4>1, <4>2, <4>3 DEF SessionsHandedOut
    <3>9. QED BY <3>2, <3>6, <3>7, <3>8
  <2>2. CASE LoginExhausted(s) \/ LoginFail(s)
    <3>1. UNCHANGED <<managerVars, queueVars, actorVector, offered, currentPlayer,
                      worker>>
      BY <2>2 DEF LoginExhausted, LoginFail, mapVars, sessionVars
    <3>2. QED BY <3>1, <1>managerSame
              DEF ActorsHandedOut, EnteringHandedOut, SessionsHandedOut, Queued,
                  queueVars
  <2>3. QED BY <2>1, <2>2 DEF DBAnswer
<1>tick. ASSUME TypeOK, RosterInv, Tick
         PROVE  RosterInv'
  <2> USE <1>tick
  <2> USE DEF RosterInv, UsedHandedOut
  <2>1. tickZone \in Zones /\ QueueTypeOK
    BY DEF TypeOK, QueueTypeOK
  <2>2. actorVector \in [Zones -> SUBSET Players]
    BY DEF TypeOK, MapTypeOK
  <2>3. UNCHANGED <<offered, currentPlayer, worker>>
    BY DEF Tick, UpdateZone, RunEnterGame, RunHandleMove, RunLeaveGame,
           FinishLeaveGame, sessionVars
  <2>4. \A p \in Players : Queued(EnterMsg(p))' => Queued(EnterMsg(p))
    <3>1. CASE FlushNext
      BY <2>1, <3>1, FlushQueues
    <3>2. ASSUME NEW m, Call(m)
          PROVE  \A n : Queued(n)' => Queued(n)
      BY <2>1, <3>2, CallQueues
    <3>3. CASE UNCHANGED queueVars
      BY <3>3 DEF Queued, queueVars
    <3>4. QED BY <3>1, <3>2, <3>3 DEF Tick, UpdateZone, RunEnterGame,
                 RunHandleMove, RunLeaveGame, FinishLeaveGame
  <2>5. ASSUME playerIdx' = playerIdx
        PROVE  EnteringHandedOut' /\ SessionsHandedOut'
    BY <2>3, <2>4, <2>5 DEF EnteringHandedOut, SessionsHandedOut
  <2>6. ASSUME UNCHANGED managerVars
        PROVE  FreshFirst' /\ RosterComplementsPool' /\ playerIdx' = playerIdx
    BY <2>6, <1>managerSame
  <2>7. CASE UpdateZone \/ FinishLeaveGame
    <3>1. UNCHANGED <<managerVars, actorVector>>
      BY <2>7 DEF UpdateZone, FinishLeaveGame, ApplyLeave, mapVars
    <3>2. QED BY <2>5, <2>6, <3>1 DEF ActorsHandedOut
  <2>8. ASSUME NEW p \in Players, RunEnterGame(p)
        PROVE  RosterInv'
    <3> USE <2>8 DEF RunEnterGame
    <3>1. p < playerIdx
      BY <2>1, CallQueues DEF EnteringHandedOut
    <3>2. \A z \in Zones : actorVector'[z] \subseteq actorVector[z] \cup {p}
      BY <2>2 DEF mapVars, PlaceInZone
    <3>3. ActorsHandedOut'
      BY <2>6, <3>1, <3>2 DEF ActorsHandedOut
    <3>4. QED BY <2>5, <2>6, <3>3
  <2>9. ASSUME NEW p \in Players, NEW c \in Cells, RunHandleMove(p, c)
        PROVE  RosterInv'
    <3>1. UNCHANGED <<managerVars, actorVector>>
      BY <2>9 DEF RunHandleMove, ApplyMove, mapVars
    <3>2. QED BY <2>5, <2>6, <3>1 DEF ActorsHandedOut
  <2>10. ASSUME NEW s \in Sessions, RunLeaveGame(s)
         PROVE  RosterInv'
    <3> USE <2>10 DEF RunLeaveGame
    <3>1. CASE UNCHANGED <<managerVars, actorVector>>
      BY <2>5, <2>6, <3>1 DEF ActorsHandedOut
    <3>2. CASE /\ currentPlayer[s] \in actorVector[tickZone]
               /\ Unregister(tickZone, currentPlayer[s])
      <4>1. currentPlayer[s] \in Players /\ currentPlayer[s] < playerIdx
        BY <2>1, <2>2, <3>2 DEF ActorsHandedOut
      <4>2. FreshFirst' /\ RosterComplementsPool' /\ playerIdx' = playerIdx
        BY <3>2, <4>1, DeletePlayerRoster DEF Unregister, TypeOK
      <4>3. actorVector' = [actorVector EXCEPT ![tickZone] = @ \ {currentPlayer[s]}]
        BY <3>2 DEF Unregister
      <4>4. \A z \in Zones : actorVector'[z] \subseteq actorVector[z]
        BY ONLY <2>2, <4>3
      <4>5. ActorsHandedOut'
        BY <4>2, <4>4 DEF ActorsHandedOut
      <4>6. QED BY <2>5, <4>2, <4>5
    <3>3. QED BY <3>1, <3>2
  <2>11. QED BY <2>7, <2>8, <2>9, <2>10 DEF Tick
<1>stutter. ASSUME RosterInv, UNCHANGED vars
            PROVE  RosterInv'
  BY <1>stutter, <1>managerSame
       DEF vars, mapVars, sessionVars, queueVars, RosterInv, UsedHandedOut,
           ActorsHandedOut, EnteringHandedOut, SessionsHandedOut, Queued
<1>1. TypeOK /\ RosterInv /\ [Next]_vars => RosterInv'
  BY <1>client, <1>handler, <1>answer, <1>tick, <1>stutter
     DEF Next
<1>2. RosterInv => RosterComplementsPool
  BY DEF RosterInv
<1>3. QED BY <1>init, TypeCorrect, <1>1, <1>2, PTL DEF Spec
-----------------------------------------------------------------------------
(* CrashNeedsEnterWindow.  Every player that a closure of the tick thread  *)
(* could find in a section has been the subject of a                       *)
(* Handle_PKT_CS_ENTER_GAME, which has given it a viewport or is just      *)
(* about to.                                                               *)

(* p has a viewport, or the handler that will set it has pushed EnterGame  *)
(* and comes to that next.                                                 *)
ViewportComing(p) ==
    \/ viewport[p]
    \/ \E s \in Sessions : worker[s].pc = "viewport" /\ worker[s].player = p

QueuedHaveViewport ==
    \A p \in Players :
        /\ Queued(EnterMsg(p)) => ViewportComing(p)
        /\ \A c \in Cells : Queued(MoveMsg(p, c)) => ViewportComing(p)
ListedHaveViewport ==
    \A z \in Zones, k \in Sections, p \in Players :
        section[z][k][p] > 0 => ViewportComing(p)
HandledHaveViewport ==
    \A s \in Sessions :
        worker[s].pc # "idle" => ViewportComing(worker[s].player)
PlayingHaveViewport ==
    \A s \in Sessions : inGame[s] => ViewportComing(currentPlayer[s])

(* A session that logs in once keeps the player of that login, and stays   *)
(* the owner of that player until the player is handed out again.          *)
OwnersKept ==
    \A p \in Players, s \in Sessions :
        ownerSession[p] = s => currentPlayer[s] = p
OneLogin ==
    \A s \in Sessions :
        /\ logins[s] <= 1
        /\ pendingLogins[s] <= logins[s]
        /\ currentPlayer[s] # NoPlayer => pendingLogins[s] = 0 /\ logins[s] = 1

ViewportInv ==
    MaxLogins = 1 =>
        /\ QueuedHaveViewport /\ ListedHaveViewport
        /\ HandledHaveViewport /\ PlayingHaveViewport
        /\ OwnersKept /\ OneLogin
-----------------------------------------------------------------------------
(* A viewport that is coming stays so: no step takes one away, and the     *)
(* handler leaves its window by setting it.                                *)
LEMMA ViewportStays ==
  ASSUME TypeOK, Next, NEW p \in Players, ViewportComing(p)
  PROVE  ViewportComing(p)'
<1> USE DEF ViewportComing
<1>1. /\ viewport \in [Players -> BOOLEAN]
      /\ worker \in [Sessions -> Handlers]
  BY DEF TypeOK, ThreadTypeOK
<1>2. CASE \E s \in Sessions : EnterSetsViewport(s)
  <2>1. PICK s \in Sessions : EnterSetsViewport(s)
    BY <1>2
  <2>2. worker[s].pc = "viewport" /\ worker[s].player \in Players
    BY <2>1 DEF EnterSetsViewport, TypeOK, ThreadTypeOK
  <2>3. viewport' = [viewport EXCEPT ![worker[s].player] = TRUE]
    BY <2>1 DEF EnterSetsViewport
  <2>4. \A t \in Sessions : t # s => worker'[t] = worker[t]
    BY <1>1, <2>1 DEF EnterSetsViewport
  <2>5. CASE viewport'[p]
    BY <2>5
  <2>6. CASE ~viewport'[p]
    <3>1. p # worker[s].player /\ ~viewport[p]
      BY <1>1, <2>2, <2>3, <2>6
    <3>2. PICK t \in Sessions : worker[t].pc = "viewport" /\ worker[t].player = p
      BY <3>1
    <3>3. QED BY <2>4, <3>1, <3>2
  <2>7. QED BY <2>5, <2>6
<1>3. CASE ~\E s \in Sessions : EnterSetsViewport(s)
  <2>1. viewport' = viewport
    BY <1>3 DEF Next, Client, Handler, DBAnswer, Tick, RequestLogin,
       RequestEnterGame, RequestMove, RequestTeleport, Disconnect,
       EnterSetsZone, TeleportSetsPosition, TeleportLeaves,
       TeleportAppliesLeave, TeleportEnters, LoginSuccess, LoginExhausted,
       LoginFail, UpdateZone, RunEnterGame, RunHandleMove, RunLeaveGame,
       FinishLeaveGame
  <2>2. \A t \in Sessions : worker[t].pc = "viewport" => worker'[t] = worker[t]
    <3>1. ASSUME NEW s \in Sessions, Client(s) \/ Handler(s) \/ DBAnswer(s)
          PROVE  \A t \in Sessions :
                     worker[t].pc = "viewport" => worker'[t] = worker[t]
      <4>1. \/ UNCHANGED worker
            \/ /\ worker[s].pc # "viewport"
               /\ \E w : worker' = [worker EXCEPT ![s] = w]
        <5>1. CASE Client(s)
          BY <5>1 DEF Client, CanHandle, RequestLogin, RequestEnterGame,
             RequestMove, RequestTeleport, Disconnect
        <5>2. CASE Handler(s)
          <6>1. worker[s].pc # "viewport"
            BY <1>3, <5>2 DEF Handler, EnterSetsZone, TeleportSetsPosition,
               TeleportLeaves, TeleportAppliesLeave, TeleportEnters
          <6>2. \E w : worker' = [worker EXCEPT ![s] = w]
            BY <1>3, <5>2 DEF Handler, EnterSetsZone, TeleportSetsPosition,
               TeleportLeaves, TeleportAppliesLeave, TeleportEnters
          <6>3. QED BY <6>1, <6>2
        <5>3. CASE DBAnswer(s)
          BY <5>3 DEF DBAnswer, LoginSuccess, LoginExhausted, LoginFail
        <5>4. QED BY <3>1, <5>1, <5>2, <5>3
      <4>2. QED BY <1>1, <4>1
    <3>2. CASE Tick
      BY <3>2 DEF Tick, UpdateZone, RunEnterGame, RunHandleMove, RunLeaveGame,
         FinishLeaveGame
    <3>3. QED BY <3>1, <3>2 DEF Next
  <2>3. QED BY <2>1, <2>2
<1>4. QED BY <1>2, <1>3

ViewportsStay == \A p \in Players : ViewportComing(p) => ViewportComing(p)'

-----------------------------------------------------------------------------
(* Clients that log in once bring the tick thread down only while a        *)
(* Handle_PKT_CS_ENTER_GAME stands between its push and the viewport.      *)
THEOREM CrashWindow == Spec => []ViewportInv /\ CrashNeedsEnterWindow
  (* What is pushed for a player whose viewport is coming does no harm. *)
<1>push. ASSUME QueueTypeOK, QueuedHaveViewport, ViewportsStay,
                NEW z \in Zones, NEW m \in Messages, Push(z, m),
                \A p \in Players : m = EnterMsg(p) => ViewportComing(p)',
                \A p \in Players, c \in Cells : m = MoveMsg(p, c) => ViewportComing(p)'
         PROVE  QueuedHaveViewport'
  <2> USE <1>push
  <2>1. \A n : Queued(n)' => Queued(n) \/ n = m
    BY PushQueues
  <2>2. QED BY <2>1 DEF QueuedHaveViewport, ViewportsStay
  (* A section lists a player after an operation only if it did before, or *)
  (* the operation was on that player.                                     *)
<1>who. ASSUME NEW sec \in [Sections -> [Players -> Nat]],
               NEW k \in Sections, NEW p \in Players
        PROVE  \A j \in Sections, q \in Players :
                   /\ Listed(sec, k, p)[j][q] > 0 => sec[j][q] > 0 \/ q = p
                   /\ Unlisted(sec, k, p)[j][q] > 0 => sec[j][q] > 0
  BY <1>who DEF Listed, Unlisted
  (* A move lists nobody but the one that moves. *)
<1>moved. ASSUME MapTypeOK, NEW z \in Zones, NEW p \in Players, NEW dest \in Cells,
                 ApplyMove(z, p, dest)
          PROVE  \A y \in Zones, j \in Sections, q \in Players :
                     section'[y][j][q] > 0 => section[y][j][q] > 0 \/ q = p
  <2> USE <1>moved
  <2> DEFINE now == SectionOf[pos[p]]
             after == SectionOf[dest]
             sec == section[zoneID[p]]
  <2>1. now \in Sections /\ after \in Sections /\ zoneID[p] \in Zones
    BY MapAssumption DEF MapTypeOK
  <2>2. sec \in [Sections -> [Players -> Nat]]
    BY <2>1 DEF MapTypeOK
  <2>3. Unlisted(sec, now, p) \in [Sections -> [Players -> Nat]]
    BY <2>1, <2>2, ListedType
  <2>4. \A j \in Sections, q \in Players :
            Listed(Unlisted(sec, now, p), after, p)[j][q] > 0
                => sec[j][q] > 0 \/ q = p
    <3>1. \A j \in Sections, q \in Players :
              Unlisted(sec, now, p)[j][q] > 0 => sec[j][q] > 0
      BY <2>1, <2>2, <1>who
    <3>2. \A j \in Sections, q \in Players :
              Listed(Unlisted(sec, now, p), after, p)[j][q] > 0
                  => Unlisted(sec, now, p)[j][q] > 0 \/ q = p
      BY <2>1, <2>3, <1>who
    <3>3. QED BY <3>1, <3>2
  <2>5. \A y \in Zones : \/ section'[y] = section[y]
                         \/ /\ y = zoneID[p]
                            /\ section'[y] = Listed(Unlisted(sec, now, p), after, p)
    <3>1. section \in [Zones -> [Sections -> [Players -> Nat]]]
      BY DEF MapTypeOK
    <3>2. CASE now = after
      BY <3>2 DEF ApplyMove
    <3>3. CASE now # after
      <4>1. section' = [section EXCEPT ![zoneID[p]] =
                            Listed(Unlisted(sec, now, p), after, p)]
        BY <3>3 DEF ApplyMove
      <4>2. QED BY ONLY <2>1, <3>1, <4>1
    <3>4. QED BY <3>2, <3>3
  <2>6. QED BY <2>4, <2>5
  (* A leave lists nobody. *)
<1>left. ASSUME MapTypeOK, NEW z \in Zones, NEW p \in Players, ApplyLeave(z, p)
         PROVE  \A y \in Zones, j \in Sections, q \in Players :
                    section'[y][j][q] > 0 => section[y][j][q] > 0
  <2> USE <1>left
  <2>1. SectionOf[pos[p]] \in Sections /\ zoneID[p] \in Zones
    BY MapAssumption DEF MapTypeOK
  <2>2. section[zoneID[p]] \in [Sections -> [Players -> Nat]]
    BY <2>1 DEF MapTypeOK
  <2>3. \A y \in Zones :
            \/ section'[y] = section[y]
            \/ /\ y = zoneID[p]
               /\ section'[y] = Unlisted(section[zoneID[p]], SectionOf[pos[p]], p)
    BY <2>1 DEF ApplyLeave, MapTypeOK
  <2>4. \A j \in Sections, q \in Players :
            Unlisted(section[zoneID[p]], SectionOf[pos[p]], p)[j][q] > 0
                => section[zoneID[p]][j][q] > 0
    BY <2>1, <2>2, <1>who
  <2>5. QED BY <2>3, <2>4
  (* EnterGame lists nobody but the one that enters. *)
<1>placed. ASSUME MapTypeOK, NEW z \in Zones, NEW p \in Players, PlaceInZone(z, p)
           PROVE  \A y \in Zones, j \in Sections, q \in Players :
                      section'[y][j][q] > 0 => section[y][j][q] > 0 \/ q = p
  <2> USE <1>placed
  <2>1. SectionOf[pos[p]] \in Sections
    BY MapAssumption DEF MapTypeOK
  <2>2. section[z] \in [Sections -> [Players -> Nat]]
    BY DEF MapTypeOK
  <2>3. \A y \in Zones :
            \/ section'[y] = section[y]
            \/ /\ y = z
               /\ section'[y] = Listed(section[z], SectionOf[pos[p]], p)
    BY DEF PlaceInZone, MapTypeOK
  <2>4. QED BY <2>1, <2>2, <2>3, <1>who
  (* No step takes a viewport away. *)
<1>stay. ASSUME TypeOK, Next
         PROVE  ViewportsStay
  BY <1>stay, ViewportStays DEF ViewportsStay
  (* Where nothing is pushed, what is queued had its viewport coming. *)
<1>fewer. ASSUME QueuedHaveViewport, ViewportsStay, \A n : Queued(n)' => Queued(n)
          PROVE  QueuedHaveViewport'
  BY <1>fewer DEF QueuedHaveViewport, ViewportsStay
<1>init. Init => ViewportInv
  <2> SUFFICES ASSUME Init, MaxLogins = 1 PROVE ViewportInv
    BY DEF ViewportInv
  <2> USE DEF Init
  <2>1. \A n : ~Queued(n)
    BY DEF QueueInit, Queued
  <2>2. QueuedHaveViewport
    BY <2>1 DEF QueuedHaveViewport
  <2>3. ListedHaveViewport
    BY DEF MapInit, ListedHaveViewport
  <2>4. HandledHaveViewport /\ PlayingHaveViewport /\ OneLogin
    BY DEF HandledHaveViewport, PlayingHaveViewport, OneLogin, Idle
  <2>5. OwnersKept
    BY SessionAssumption DEF OwnersKept
  <2>6. QED BY <2>2, <2>3, <2>4, <2>5 DEF ViewportInv
<1>client. ASSUME TypeOK, ViewportInv, MaxLogins = 1, ViewportsStay,
                  NEW s \in Sessions, Client(s)
           PROVE  ViewportInv'
  <2> USE <1>client
  <2> USE DEF ViewportInv
  <2>1. UNCHANGED <<section, inGame, currentPlayer, ownerSession>>
    BY DEF Client, RequestLogin, RequestEnterGame, RequestMove, RequestTeleport,
           Disconnect, mapVars, placeVars, sessionVars
  <2>2. ListedHaveViewport' /\ PlayingHaveViewport' /\ OwnersKept'
    <3>1. \A t \in Sessions : inGame[t] => currentPlayer[t] \in Players
      BY DEF TypeOK, SessionTypeOK
    <3>2. ListedHaveViewport'
      BY <2>1 DEF ListedHaveViewport, ViewportsStay
    <3>3. PlayingHaveViewport'
      BY <2>1, <3>1 DEF PlayingHaveViewport, ViewportsStay
    <3>4. QED BY <2>1, <3>2, <3>3 DEF OwnersKept
  <2>3. \A t \in Sessions :
            worker[t].pc # "idle" =>
                \E p \in Players : p = worker[t].player /\ ViewportComing(p)'
    BY DEF HandledHaveViewport, ViewportsStay, TypeOK, ThreadTypeOK
  <2>4. QueueTypeOK
    BY DEF TypeOK
  <2>5. CASE RequestLogin(s)
    <3> USE <2>5 DEF RequestLogin
    <3>1. QueuedHaveViewport'
      BY <1>fewer DEF Queued, queueVars
    <3>2. HandledHaveViewport'
      BY <2>3 DEF HandledHaveViewport
    <3>3. OneLogin'
      BY DEF OneLogin, TypeOK, SessionTypeOK
    <3>4. QED BY <2>2, <3>1, <3>2, <3>3
  <2>6. ASSUME NEW p \in Players, NEW z \in Zones, RequestEnterGame(s, p, z)
        PROVE  ViewportInv'
    <3> USE <2>6 DEF RequestEnterGame
    <3>1. CASE UNCHANGED <<queueVars, worker>>
      <4>1. QueuedHaveViewport'
        BY <3>1, <1>fewer DEF Queued, queueVars
      <4>2. QED BY <2>2, <2>3, <3>1, <4>1 DEF HandledHaveViewport, OneLogin
    <3>2. CASE /\ Push(z, EnterMsg(p))
               /\ worker' = [worker EXCEPT ![s] =
                      [pc |-> "viewport", player |-> p, from |-> z, to |-> z]]
      <4>1. /\ worker'[s].pc = "viewport" /\ worker'[s].player = p
            /\ \A t \in Sessions : t # s => worker'[t] = worker[t]
        BY <3>2 DEF TypeOK, ThreadTypeOK
      <4>2. ViewportComing(p)'
        BY <4>1 DEF ViewportComing
      <4>3. QueuedHaveViewport'
        BY <2>4, <3>2, <4>2, <1>push, MessageTypes, MessageKinds
      <4>4. HandledHaveViewport'
        BY <2>3, <4>1, <4>2 DEF HandledHaveViewport
      <4>5. QED BY <2>2, <4>3, <4>4 DEF OneLogin
    <3>3. QED BY <3>1, <3>2
  <2>7. ASSUME NEW c \in Cells, RequestMove(s, c)
        PROVE  ViewportInv'
    <3> USE <2>7 DEF RequestMove
    <3>1. PICK p \in Players : p = currentPlayer[s] /\ ViewportComing(p)'
      BY DEF TypeOK, SessionTypeOK, PlayingHaveViewport, ViewportsStay
    <3>2. QueuedHaveViewport'
      <4>1. MoveMsg(p, c) \in Messages /\ zoneID[p] \in Zones
        BY MessageTypes DEF TypeOK, MapTypeOK
      <4>2. \A q \in Players : MoveMsg(p, c) # EnterMsg(q)
        BY MessageKinds
      <4>3. \A q \in Players, d \in Cells :
                MoveMsg(p, c) = MoveMsg(q, d) => ViewportComing(q)'
        BY <3>1, MessageKinds
      <4>4. QED BY <2>4, <3>1, <4>1, <4>2, <4>3, <1>push
    <3>3. QED BY <2>2, <2>3, <3>2 DEF HandledHaveViewport, OneLogin, sessionVars
  <2>8. ASSUME NEW z \in Portals, RequestTeleport(s, z)
        PROVE  ViewportInv'
    <3> USE <2>8 DEF RequestTeleport
    <3>1. QueuedHaveViewport'
      BY <1>fewer DEF Queued, queueVars
    <3>2. PICK p \in Players : p = currentPlayer[s] /\ ViewportComing(p)'
      BY DEF TypeOK, SessionTypeOK, PlayingHaveViewport, ViewportsStay
    <3>3. HandledHaveViewport'
      <4>1. worker'[s].player = p /\ \A t \in Sessions : t # s => worker'[t] = worker[t]
        BY <3>2 DEF TypeOK, ThreadTypeOK
      <4>2. QED BY <2>3, <3>2, <4>1 DEF HandledHaveViewport, ViewportComing
    <3>4. QED BY <2>2, <3>1, <3>3 DEF OneLogin
  <2>9. CASE Disconnect(s)
    <3> USE <2>9 DEF Disconnect
    <3>1. QueuedHaveViewport'
      <4>1. CASE currentPlayer[s] = NoPlayer
        BY <4>1, <1>fewer DEF Queued, queueVars
      <4>2. CASE currentPlayer[s] # NoPlayer
        <5>1. zoneID[currentPlayer[s]] \in Zones
          BY <4>2 DEF TypeOK, SessionTypeOK, MapTypeOK
        <5>2. QED BY <2>4, <4>2, <5>1, <1>push, MessageTypes, MessageKinds
      <4>3. QED BY <4>1, <4>2
    <3>2. QED BY <2>2, <2>3, <3>1 DEF HandledHaveViewport, OneLogin
  <2>10. QED BY <2>5, <2>6, <2>7, <2>8, <2>9 DEF Client
<1>handler. ASSUME TypeOK, ViewportInv, MaxLogins = 1, ViewportsStay,
                   NEW s \in Sessions, Handler(s)
            PROVE  ViewportInv'
  <2> USE <1>handler
  <2> USE DEF ViewportInv
  <2>1. UNCHANGED sessionVars
    BY DEF Handler, EnterSetsViewport, EnterSetsZone, TeleportSetsPosition,
           TeleportLeaves, TeleportAppliesLeave, TeleportEnters
  <2>2. PICK p \in Players :
            p = worker[s].player /\ worker[s].pc # "idle" /\ ViewportComing(p)'
    BY DEF Handler, EnterSetsViewport, EnterSetsZone, TeleportSetsPosition,
           TeleportLeaves, TeleportAppliesLeave, TeleportEnters, TypeOK,
           ThreadTypeOK, HandledHaveViewport, ViewportsStay
  <2>3. PlayingHaveViewport' /\ OwnersKept' /\ OneLogin'
    <3>1. \A t \in Sessions : inGame[t] => currentPlayer[t] \in Players
      BY DEF TypeOK, SessionTypeOK
    <3>2. PlayingHaveViewport'
      BY <2>1, <3>1 DEF PlayingHaveViewport, ViewportsStay, sessionVars
    <3>3. QED BY <2>1, <3>2 DEF OwnersKept, OneLogin, sessionVars
  <2>4. HandledHaveViewport'
    <3>1. \A t \in Sessions :
              worker[t].pc # "idle" =>
                  \E q \in Players : q = worker[t].player /\ ViewportComing(q)'
      BY DEF HandledHaveViewport, ViewportsStay, TypeOK, ThreadTypeOK
    <3>2. /\ \A t \in Sessions : t # s => worker'[t] = worker[t]
          /\ worker'[s].pc # "idle" => worker'[s].player = p
      <4>1. \/ worker' = [worker EXCEPT ![s] = Idle]
            \/ \E x : worker' = [worker EXCEPT ![s].pc = x]
        BY DEF Handler, EnterSetsViewport, EnterSetsZone, TeleportSetsPosition,
               TeleportLeaves, TeleportAppliesLeave, TeleportEnters
      <4>2. worker \in [Sessions -> Handlers]
        BY DEF TypeOK, ThreadTypeOK
      <4>3. CASE worker' = [worker EXCEPT ![s] = Idle]
        BY <4>2, <4>3 DEF Idle
      <4>4. ASSUME NEW x, worker' = [worker EXCEPT ![s].pc = x]
            PROVE  /\ \A t \in Sessions : t # s => worker'[t] = worker[t]
                   /\ worker'[s].player = p
        BY <2>2, <4>2, <4>4 DEF Handlers
      <4>5. QED BY <4>1, <4>3, <4>4
    <3>3. QED BY <2>2, <3>1, <3>2 DEF HandledHaveViewport, ViewportComing
  <2>5. ListedHaveViewport'
    <3>1. CASE UNCHANGED section
      BY <3>1 DEF ListedHaveViewport, ViewportsStay
    <3>2. CASE TeleportAppliesLeave(s)
      <4>1. worker[s].from \in Zones
        BY DEF TypeOK, ThreadTypeOK, Handlers
      <4>2. \A y \in Zones, j \in Sections, q \in Players :
                section'[y][j][q] > 0 => section[y][j][q] > 0
        BY <2>2, <3>2, <4>1, <1>left DEF TeleportAppliesLeave, TypeOK
      <4>3. QED BY <4>2 DEF ListedHaveViewport, ViewportsStay
    <3>3. QED BY <3>1, <3>2 DEF Handler, EnterSetsViewport, EnterSetsZone,
                 TeleportSetsPosition, TeleportLeaves, TeleportEnters, mapVars,
                 placeVars
  <2>6. QueuedHaveViewport'
    <3>1. CASE UNCHANGED queueVars
      BY <3>1, <1>fewer DEF Queued, queueVars
    <3>2. CASE TeleportEnters(s)
      <4>1. worker[s].to \in Zones /\ QueueTypeOK /\ EnterMsg(p) \in Messages
        BY MessageTypes DEF TypeOK, ThreadTypeOK, Handlers
      <4>2. Push(worker[s].to, EnterMsg(p))
        BY <2>2, <3>2 DEF TeleportEnters
      <4>3. \A q \in Players : EnterMsg(p) = EnterMsg(q) => ViewportComing(q)'
        BY <2>2, MessageKinds
      <4>4. \A q \in Players, d \in Cells : EnterMsg(p) # MoveMsg(q, d)
        BY MessageKinds
      <4>5. QED BY <4>1, <4>2, <4>3, <4>4, <1>push
    <3>3. QED BY <3>1, <3>2 DEF Handler, EnterSetsViewport, EnterSetsZone,
                 TeleportSetsPosition, TeleportLeaves, TeleportAppliesLeave
  <2>7. QED BY <2>3, <2>4, <2>5, <2>6
<1>answer. ASSUME TypeOK, OwnersLoggedIn, ViewportInv, MaxLogins = 1, ViewportsStay,
                  NEW s \in Sessions, DBAnswer(s)
           PROVE  ViewportInv'
  <2> USE <1>answer
  <2> USE DEF ViewportInv
  <2>1. UNCHANGED <<queueVars, section, worker, inGame, logins>>
    BY DEF DBAnswer, LoginSuccess, LoginExhausted, LoginFail, mapVars, placeVars,
           sessionVars
  <2>2. QueuedHaveViewport'
    BY <2>1, <1>fewer DEF Queued, queueVars
  <2>3. ListedHaveViewport' /\ HandledHaveViewport'
    <3>1. \A t \in Sessions : worker[t].pc # "idle" => worker[t].player \in Players
      BY DEF TypeOK, ThreadTypeOK
    <3>2. ListedHaveViewport'
      BY <2>1 DEF ListedHaveViewport, ViewportsStay
    <3>3. HandledHaveViewport'
      BY <2>1, <3>1 DEF HandledHaveViewport, ViewportsStay
    <3>4. QED BY <3>2, <3>3
  <2>4. /\ pendingLogins \in [Sessions -> Nat] /\ logins \in [Sessions -> Nat]
        /\ currentPlayer \in [Sessions -> Players \cup {NoPlayer}]
        /\ ownerSession \in [Players -> Sessions \cup {NoSession}]
        /\ \A t \in Sessions : inGame[t] => currentPlayer[t] \in Players
    BY DEF TypeOK, SessionTypeOK
  <2>5. CASE LoginSuccess(s)
    <3>1. PICK p \in Players :
            /\ ownerSession' = [ownerSession EXCEPT ![p] = s]
            /\ currentPlayer' = [currentPlayer EXCEPT ![s] = p]
      BY <2>5 DEF LoginSuccess
    <3>2. /\ pendingLogins[s] > 0
          /\ pendingLogins' = [pendingLogins EXCEPT ![s] = @ - 1]
      BY <2>5 DEF LoginSuccess
    <3>3. currentPlayer[s] = NoPlayer /\ pendingLogins[s] = 1 /\ logins[s] = 1
      BY <2>4, <3>2 DEF OneLogin
    <3>4. OneLogin'
      BY <2>1, <2>4, <3>1, <3>2, <3>3 DEF OneLogin
    <3>5. OwnersKept'
      BY <2>4, <3>1, <3>3, NoPlayerAssumption DEF OwnersKept, OwnersLoggedIn
    <3>6. PlayingHaveViewport'
      <4>1. \A t \in Sessions : inGame[t] => currentPlayer'[t] = currentPlayer[t]
        BY <2>4, <3>1, <3>3, NoPlayerAssumption
      <4>2. \A t \in Sessions :
                inGame[t] =>
                    \E q \in Players : q = currentPlayer[t] /\ ViewportComing(q)'
        BY <2>4 DEF PlayingHaveViewport, ViewportsStay
      <4>3. QED BY <2>1, <4>1, <4>2 DEF PlayingHaveViewport, ViewportComing
    <3>7. QED BY <2>2, <2>3, <3>4, <3>5, <3>6
  <2>6. CASE LoginExhausted(s) \/ LoginFail(s)
    <3>1. /\ UNCHANGED <<currentPlayer, ownerSession>>
          /\ \/ UNCHANGED pendingLogins
             \/ /\ pendingLogins[s] > 0
                /\ pendingLogins' = [pendingLogins EXCEPT ![s] = @ - 1]
      BY <2>6 DEF LoginExhausted, LoginFail, sessionVars
    <3>2. OneLogin'
      BY <2>1, <2>4, <3>1 DEF OneLogin
    <3>3. PlayingHaveViewport'
      BY <2>1, <2>4, <3>1 DEF PlayingHaveViewport, ViewportsStay
    <3>4. QED BY <2>2, <2>3, <3>1, <3>2, <3>3 DEF OwnersKept
  <2>7. QED BY <2>5, <2>6 DEF DBAnswer
<1>tick. ASSUME TypeOK, OwnersLoggedIn, ViewportInv, MaxLogins = 1, ViewportsStay, Tick
         PROVE  ViewportInv'
  <2> USE <1>tick
  <2> USE DEF ViewportInv
  <2>1. UNCHANGED <<currentPlayer, ownerSession, logins, pendingLogins, worker>>
    BY DEF Tick, UpdateZone, RunEnterGame, RunHandleMove, RunLeaveGame,
           FinishLeaveGame, sessionVars
  <2>2. tickZone \in Zones /\ QueueTypeOK /\ MapTypeOK
    BY DEF TypeOK, QueueTypeOK
  <2>3. OwnersKept' /\ OneLogin'
    BY <2>1 DEF OwnersKept, OneLogin
  <2>4. HandledHaveViewport'
    <3>1. \A t \in Sessions : worker[t].pc # "idle" => worker[t].player \in Players
      BY DEF TypeOK, ThreadTypeOK
    <3>2. QED BY <2>1, <3>1 DEF HandledHaveViewport, ViewportsStay
  <2>5. QueuedHaveViewport'
    <3>1. CASE FlushNext
      BY <2>2, <3>1, FlushQueues, <1>fewer
    <3>2. ASSUME NEW m, Call(m)
          PROVE  QueuedHaveViewport'
      BY <2>2, <3>2, CallQueues, <1>fewer
    <3>3. CASE UNCHANGED queueVars
      BY <3>3, <1>fewer DEF Queued, queueVars
    <3>4. QED BY <3>1, <3>2, <3>3 DEF Tick, UpdateZone, RunEnterGame,
                 RunHandleMove, RunLeaveGame, FinishLeaveGame
  <2>6. \A t \in Sessions :
            inGame[t] => \E q \in Players : q = currentPlayer[t] /\ ViewportComing(q)'
    BY DEF PlayingHaveViewport, ViewportsStay, TypeOK, SessionTypeOK
  <2>7. ASSUME UNCHANGED inGame
        PROVE  PlayingHaveViewport'
    BY <2>1, <2>6, <2>7 DEF PlayingHaveViewport, ViewportComing
  <2>8. ASSUME NEW p \in Players, ViewportComing(p),
               \A y \in Zones, j \in Sections, q \in Players :
                   section'[y][j][q] > 0 => section[y][j][q] > 0 \/ q = p
        PROVE  ListedHaveViewport'
    BY <2>8 DEF ListedHaveViewport, ViewportsStay
  <2>9. ASSUME \A y \in Zones, j \in Sections, q \in Players :
                   section'[y][j][q] > 0 => section[y][j][q] > 0
        PROVE  ListedHaveViewport'
    BY <2>9 DEF ListedHaveViewport, ViewportsStay
  <2>10. CASE UpdateZone
    BY <2>3, <2>4, <2>5, <2>7, <2>9, <2>10 DEF UpdateZone, mapVars, sessionVars
  <2>11. ASSUME NEW p \in Players, RunEnterGame(p)
         PROVE  ViewportInv'
    <3> USE <2>11 DEF RunEnterGame
    <3>1. ViewportComing(p)
      BY <2>2, CallQueues DEF QueuedHaveViewport
    <3>2. ListedHaveViewport'
      BY <2>2, <2>8, <2>9, <3>1, <1>placed DEF mapVars
    <3>3. PlayingHaveViewport'
      <4>1. \A t \in Sessions :
                inGame'[t] => inGame[t] \/ currentPlayer[t] = p
        BY DEF EntersGame, OwnersKept
      <4>2. ViewportComing(p)'
        BY <3>1 DEF ViewportsStay
      <4>3. QED BY <2>1, <2>6, <4>1, <4>2 DEF PlayingHaveViewport, ViewportComing
    <3>4. QED BY <2>3, <2>4, <2>5, <3>2, <3>3
  <2>12. ASSUME NEW p \in Players, NEW c \in Cells, RunHandleMove(p, c)
         PROVE  ViewportInv'
    <3> USE <2>12 DEF RunHandleMove
    <3>1. ViewportComing(p)
      BY <2>2, CallQueues DEF QueuedHaveViewport
    <3>2. ListedHaveViewport'
      BY <2>2, <2>8, <2>9, <3>1, <1>moved DEF mapVars
    <3>3. QED BY <2>3, <2>4, <2>5, <2>7, <3>2 DEF sessionVars
  <2>13. ASSUME NEW s \in Sessions, RunLeaveGame(s)
         PROVE  ViewportInv'
    BY <2>3, <2>4, <2>5, <2>7, <2>9, <2>13 DEF RunLeaveGame, sessionVars
  <2>14. CASE FinishLeaveGame
    <3>1. leaving \in Players
      BY <2>14 DEF FinishLeaveGame, TypeOK, ThreadTypeOK
    <3>2. ListedHaveViewport'
      BY <2>2, <2>9, <2>14, <3>1, <1>left DEF FinishLeaveGame
    <3>3. QED BY <2>3, <2>4, <2>5, <2>7, <2>14, <3>2
              DEF FinishLeaveGame, sessionVars
  <2>15. QED BY <2>10, <2>11, <2>12, <2>13, <2>14 DEF Tick
<1>stutter. ASSUME ViewportInv, UNCHANGED vars
            PROVE  ViewportInv'
  BY <1>stutter DEF vars, queueVars, mapVars, sessionVars, ViewportInv, QueuedHaveViewport,
       ListedHaveViewport, HandledHaveViewport, PlayingHaveViewport, OwnersKept,
       OneLogin, Queued, ViewportComing
<1>next. ASSUME TypeOK, OwnersLoggedIn, ViewportInv, Next
         PROVE  ViewportInv'
  <2> USE <1>next
  <2>1. CASE MaxLogins = 1
    BY <2>1, <1>stay, <1>client, <1>handler,
       <1>answer, <1>tick DEF Next
  <2>2. CASE MaxLogins # 1
    BY <2>2 DEF ViewportInv
  <2>3. QED BY <2>1, <2>2
  (* A call that brings the process down comes upon a player whose handler *)
  (* is about to set its viewport.                                         *)
<1>crash. ASSUME TypeOK, ViewportInv, Next, MaxLogins = 1, ~crashed, crashed',
                 messageVector' # messageVector
          PROVE  \E s \in Sessions : worker[s].pc = "viewport"
  <2> USE <1>crash
  <2> USE DEF ViewportInv
  <2>1. tickZone \in Zones /\ QueueTypeOK /\ MapTypeOK
    BY DEF TypeOK, QueueTypeOK
  <2>2. \/ \E p \in Players : RunEnterGame(p)
        \/ \E p \in Players, c \in Cells : RunHandleMove(p, c)
    BY ZenonT(60)
       DEF Next, Client, Handler, DBAnswer, Tick, RequestLogin, RequestEnterGame,
       RequestMove, RequestTeleport, Disconnect, EnterSetsViewport, EnterSetsZone,
       TeleportSetsPosition, TeleportLeaves, TeleportAppliesLeave, TeleportEnters,
       LoginSuccess, LoginExhausted, LoginFail, UpdateZone, RunLeaveGame,
       FinishLeaveGame, queueVars
  <2>3. ASSUME NEW p \in Players, ViewportComing(p), NEW k \in Sections,
               \A y \in Zones, j \in Sections, q \in Players :
                   section'[y][j][q] > 0 => section[y][j][q] > 0 \/ q = p,
               ViewportUpdateCrashes(tickZone, k)
        PROVE  \E s \in Sessions : worker[s].pc = "viewport"
    <3>1. PICK q \in Players : section'[tickZone][k][q] > 0 /\ ~viewport[q]
      BY <2>3 DEF ViewportUpdateCrashes
    <3>2. section[tickZone][k][q] > 0 \/ q = p
      BY <2>1, <2>3, <3>1
    <3>3. ViewportComing(q)
      BY <2>1, <2>3, <3>2 DEF ListedHaveViewport
    <3>4. QED BY <3>1, <3>3 DEF ViewportComing
  <2>4. ASSUME NEW p \in Players, RunEnterGame(p)
        PROVE  \E s \in Sessions : worker[s].pc = "viewport"
    <3>1. ViewportComing(p)
      BY <2>1, <2>4, CallQueues DEF RunEnterGame, QueuedHaveViewport
    <3>2. PlaceInZone(tickZone, p) /\ ViewportUpdateCrashes(tickZone, SectionOf[pos[p]])
      BY <2>4 DEF RunEnterGame
    <3>3. SectionOf[pos[p]] \in Sections
      BY <2>1, MapAssumption DEF MapTypeOK
    <3>4. QED BY <2>1, <2>3, <3>1, <3>2, <3>3, <1>placed
  <2>5. ASSUME NEW p \in Players, NEW c \in Cells, RunHandleMove(p, c)
        PROVE  \E s \in Sessions : worker[s].pc = "viewport"
    <3>1. ViewportComing(p)
      BY <2>1, <2>5, CallQueues DEF RunHandleMove, QueuedHaveViewport
    <3>2. /\ ApplyMove(tickZone, p, c) \/ UNCHANGED section
          /\ ViewportUpdateCrashes(tickZone, SectionOf[c])
      BY <2>5 DEF RunHandleMove, mapVars
    <3>3. SectionOf[c] \in Sections
      BY MapAssumption
    <3>4. \A y \in Zones, j \in Sections, q \in Players :
              section'[y][j][q] > 0 => section[y][j][q] > 0 \/ q = p
      BY <2>1, <3>2, <1>moved
    <3>5. QED BY <2>3, <3>1, <3>2, <3>3, <3>4
  <2>6. QED BY <2>2, <2>4, <2>5
<1>1. Init => ViewportInv
  BY <1>init
<1>2. TypeOK /\ OwnersLoggedIn /\ ViewportInv /\ [Next]_vars => ViewportInv'
  BY <1>next, <1>stutter
<1>3. TypeOK /\ ViewportInv /\ [Next]_vars =>
          [MaxLogins = 1 /\ ~crashed /\ crashed' /\ messageVector' # messageVector
              => \E s \in Sessions : worker[s].pc = "viewport"]_vars
  BY <1>crash
<1>4. QED BY <1>1, <1>2, <1>3, TypeCorrect, PTL DEF Spec, CrashNeedsEnterWindow
-----------------------------------------------------------------------------
(* Where the players are.                                                  *)
(*                                                                         *)
(* GridMatchesPosition, ListedOnce and PooledUnused, for every instance    *)
(* that is Orderly.  None of the three is inductive, nor are the three     *)
(* together.  What ties the copies of a player's place to each other is    *)
(* the life of a session: it enters once, all it sends goes to one zone,   *)
(* its LeaveGame is the last of it, and no Player object is handed out a   *)
(* second time.  PlacementInv says that of the sessions, of the messages   *)
(* in the mailboxes and of the players.                                    *)
(* Messages in the mailboxes.                                              *)

(* m is in the mailbox of z; m is there with n somewhere behind it.        *)
Sent(z, m) == \E i \in DOMAIN Mail[z] : Mail[z][i] = m
Before(z, m, n) ==
    \E i, j \in DOMAIN Mail[z] : i < j /\ Mail[z][i] = m /\ Mail[z][j] = n

NoNewMail ==
    \A z \in Zones :
        /\ \A m : Sent(z, m)' => Sent(z, m)
        /\ \A m, n : Before(z, m, n)' => Before(z, m, n)

(* A push puts its message behind all others of one mailbox.               *)
LEMMA PushSends ==
  ASSUME QueueTypeOK, NEW z \in Zones, NEW m \in Messages, Push(z, m)
  PROVE  /\ \A y \in Zones : \A n : Sent(y, n)' => Sent(y, n) \/ (y = z /\ n = m)
         /\ \A y \in Zones : \A l, n :
                Before(y, l, n)' => Before(y, l, n) \/ (y = z /\ n = m /\ Sent(z, l))
<1>1. Mail' = [Mail EXCEPT ![z] = Append(@, m)]
  BY PushIsPost
<1>2. \A y \in Zones : Mail[y] \in Seq(Messages)
  BY ConcatProperties DEF Mail, QueueTypeOK
<1>3. \A y \in Zones : y # z => Mail'[y] = Mail[y]
  BY <1>1 DEF Mail
<1>4. Mail'[z] = Append(Mail[z], m)
  BY <1>1 DEF Mail
<1>5. /\ Len(Mail[z]) \in Nat /\ DOMAIN Mail[z] = 1 .. Len(Mail[z])
      /\ DOMAIN Mail'[z] = 1 .. Len(Mail[z]) + 1
      /\ \A i \in 1 .. Len(Mail[z]) : Mail'[z][i] = Mail[z][i]
      /\ Mail'[z][Len(Mail[z]) + 1] = m
  BY <1>2, <1>4, AppendProperties, LenProperties
<1>6. \A n : Sent(z, n)' => Sent(z, n) \/ n = m
  BY <1>5 DEF Sent
<1>7. \A l, n : Before(z, l, n)' => Before(z, l, n) \/ (n = m /\ Sent(z, l))
  <2>1. ASSUME NEW l, NEW n, NEW i \in DOMAIN Mail'[z], NEW j \in DOMAIN Mail'[z],
               i < j, Mail'[z][i] = l, Mail'[z][j] = n
        PROVE  Before(z, l, n) \/ (n = m /\ Sent(z, l))
    <3>1. i \in DOMAIN Mail[z] /\ Mail[z][i] = l
      BY <1>5, <2>1
    <3>2. CASE j = Len(Mail[z]) + 1
      BY <1>5, <2>1, <3>1, <3>2 DEF Sent
    <3>3. CASE j # Len(Mail[z]) + 1
      <4>1. j \in DOMAIN Mail[z] /\ Mail[z][j] = n
        BY <1>5, <2>1, <3>3
      <4>2. QED BY <2>1, <3>1, <4>1 DEF Before
    <3>4. QED BY <3>2, <3>3
  <2>2. QED BY <2>1 DEF Before
<1>8. QED BY <1>3, <1>6, <1>7 DEF Sent, Before

(* The other operations put nothing into a mailbox, and a call takes what  *)
(* is before everything else in the mailbox of the tick thread's zone.     *)
LEMMA CallTakesFirst ==
  ASSUME QueueTypeOK
  PROVE  /\ UNCHANGED queueVars => NoNewMail
         /\ FlushNext => NoNewMail
         /\ \A m : Call(m) =>
                /\ NoNewMail /\ Sent(tickZone, m)
                /\ \A n : Sent(tickZone, n)' => Before(tickZone, m, n)
<1>1. ASSUME Mail' = Mail PROVE NoNewMail
  BY <1>1 DEF NoNewMail, Sent, Before
<1>2. UNCHANGED queueVars => Mail' = Mail
  BY DEF queueVars, Mail
<1>3. FlushNext => Mail' = Mail
  BY FlushKeepsMail
<1>4. ASSUME NEW m, Call(m)
      PROVE  /\ NoNewMail /\ Sent(tickZone, m)
             /\ \A n : Sent(tickZone, n)' => Before(tickZone, m, n)
  <2> DEFINE z == tickZone
  <2>1. z \in Zones /\ z' = z
    BY <1>4 DEF QueueTypeOK, Call
  <2>2. Mail[z] # <<>> /\ Mail' = [Mail EXCEPT ![z] = Tail(@)]
    BY <1>4, CallIsTake
  <2>3. Mail[z] \in Seq(Messages) /\ Mail[z][1] = m
    <3>1. /\ messageVector \in Seq(Messages) /\ messageVector # <<>>
          /\ messageQueue[z] \in Seq(Messages) /\ m = Head(messageVector)
      BY <1>4, <2>1 DEF QueueTypeOK, Call
    <3>2. Len(messageVector) \in Nat \ {0} /\ messageVector[1] = m
      BY <3>1, EmptySeq, LenProperties
    <3>3. Mail[z] = messageVector \o messageQueue[z]
      BY <2>1 DEF Mail
    <3>4. QED BY <3>1, <3>2, <3>3, ConcatProperties, LenProperties
  <2>4. \A y \in Zones : y # z => Mail'[y] = Mail[y]
    BY <2>2 DEF Mail
  <2>5. Mail'[z] = Tail(Mail[z])
    BY <2>1, <2>2 DEF Mail
  <2> HIDE DEF z
  <2>6. /\ Len(Mail[z]) \in Nat \ {0} /\ DOMAIN Mail[z] = 1 .. Len(Mail[z])
        /\ DOMAIN Mail'[z] = 1 .. Len(Mail[z]) - 1
        /\ \A i \in 1 .. Len(Mail[z]) - 1 : Mail'[z][i] = Mail[z][i + 1]
    BY <2>2, <2>3, <2>5, EmptySeq, LenProperties, HeadTailProperties
  <2>7. \A i \in DOMAIN Mail'[z] :
            1 \in DOMAIN Mail[z] /\ i + 1 \in DOMAIN Mail[z] /\ 1 < i + 1
    BY <2>6
  <2>8. \A n : Sent(z, n)' => Before(z, m, n)
    BY <2>1, <2>3, <2>6, <2>7 DEF Sent, Before
  <2>9. \A n : Sent(z, n)' => Sent(z, n)
    BY <2>1, <2>6, <2>7 DEF Sent
  <2>10. \A l, n : Before(z, l, n)' => Before(z, l, n)
    <3>1. ASSUME NEW i \in DOMAIN Mail'[z], NEW j \in DOMAIN Mail'[z], i < j
          PROVE  /\ i + 1 \in DOMAIN Mail[z] /\ j + 1 \in DOMAIN Mail[z]
                 /\ i + 1 < j + 1
                 /\ Mail'[z][i] = Mail[z][i + 1] /\ Mail'[z][j] = Mail[z][j + 1]
      BY <2>6, <3>1
    <3>2. QED BY <2>1, <3>1 DEF Before
  <2>11. Sent(z, m)
    BY <2>3, <2>6 DEF Sent
  <2>12. NoNewMail
    <3>1. ASSUME NEW y \in Zones, y = z
          PROVE  /\ \A n : Sent(y, n)' => Sent(y, n)
                 /\ \A l, n : Before(y, l, n)' => Before(y, l, n)
      BY <2>1, <2>9, <2>10, <3>1 DEF Sent, Before
    <3>2. ASSUME NEW y \in Zones, y # z
          PROVE  /\ \A n : Sent(y, n)' => Sent(y, n)
                 /\ \A l, n : Before(y, l, n)' => Before(y, l, n)
      BY <2>4, <3>2 DEF Sent, Before
    <3>3. QED BY <3>1, <3>2 DEF NoNewMail
  <2>13. QED BY <2>8, <2>11, <2>12 DEF z
<1>5. QED BY <1>1, <1>2, <1>3, <1>4
-----------------------------------------------------------------------------
(* The invariant.                                                          *)

(* p is in zone z or on its way there, and nowhere else.                   *)
BoundFor(p, z) ==
    /\ zoneID[p] = z \/ ZoneUnset(p, z)
    /\ \A y \in Zones : ZoneUnset(p, y) => y = z

(* Sessions: every player handed out has a session, and only one; a        *)
(* handler is about its session's player; a player still offered has not   *)
(* been anywhere.                                                          *)
SessionsApart ==
    \A s, t \in Sessions :
        currentPlayer[s] \in Players /\ currentPlayer[s] = currentPlayer[t]
            => s = t
HandedOutKept ==
    \A p \in Players :
        p < playerIdx => \E s \in Sessions : currentPlayer[s] = p
HandlersEnter ==
    \A s \in Sessions :
        worker[s].pc # "idle" =>
            /\ worker[s].pc \in {"viewport", "zone"} /\ link[s] = "open"
            /\ worker[s].player = currentPlayer[s]
            /\ worker[s].player \notin offered[s]
NeverReset == \A s \in Sessions : link[s] # "reset"
OfferedNotIn ==
    \A s \in Sessions : \A p \in offered[s] :
        /\ currentPlayer[s] = p
        /\ \A z \in Zones : p \notin actorVector[z] /\ ~Sent(z, EnterMsg(p))
SessionsInv ==
    /\ SessionsApart /\ HandedOutKept /\ HandlersEnter
    /\ NeverReset /\ OfferedNotIn

(* Messages: an EnterGame is for a player in use and in the zone the       *)
(* player is bound for, a move for a player in that zone, and a LeaveGame  *)
(* is the last message of a session that has ended.                        *)
EnterBound ==
    \A z \in Zones, p \in Players :
        Sent(z, EnterMsg(p)) => BoundFor(p, z) /\ p \notin Pooled
MoveBound ==
    \A z \in Zones, p \in Players, c \in Cells :
        Sent(z, MoveMsg(p, c)) =>
            p \in actorVector[z] /\ \A y \in Zones : ~ZoneUnset(p, y)
LeaveLast ==
    \A z \in Zones, s \in Sessions :
        /\ Sent(z, LeaveMsg(s)) => link[s] = "closed"
        /\ \A p \in Players :
               currentPlayer[s] = p =>
                   /\ ~Before(z, LeaveMsg(s), EnterMsg(p))
                   /\ \A c \in Cells : ~Before(z, LeaveMsg(s), MoveMsg(p, c))
MailInv == EnterBound /\ MoveBound /\ LeaveLast

(* Players: where they are.                                                *)
ActorsBound ==
    \A z \in Zones : \A p \in actorVector[z] : BoundFor(p, z)
AwayAtSpawn ==
    \A p \in Players \ Pooled :
        (\A z \in Zones : p \notin actorVector[z]) => pos[p] = Spawn
PlayingIn ==
    \A s \in Sessions :
        inGame[s] /\ link[s] = "open" =>
            \E z \in Zones : currentPlayer[s] \in actorVector[z]
LeavingPooled ==
    leaving # NoPlayer =>
        leaving \in Pooled /\ leaving < playerIdx /\ zoneID[leaving] = tickZone
PlacesInv == ActorsBound /\ AwayAtSpawn /\ PlayingIn /\ LeavingPooled

PlacementInv ==
    Orderly => /\ SessionsInv /\ MailInv /\ PlacesInv
               /\ GridMatchesPosition /\ ListedOnce /\ PooledUnused

-----------------------------------------------------------------------------
(* The steps.                                                              *)

(* What is known before a step of an orderly instance. *)
Known ==
    /\ TypeOK /\ RosterInv /\ OwnersKept /\ OneLogin /\ Orderly
    /\ SessionsInv /\ MailInv /\ PlacesInv
    /\ GridMatchesPosition /\ ListedOnce /\ PooledUnused

(* The invariant: one step for each action that does more than consume     *)
(* mail and offers, and then the initial states and the other actions.     *)
LEMMA PlacementInvariant == Spec => []PlacementInv
  (* What PlaceInZone does to the three copies, one entry at a time.       *)
  (* The grid and the sections stay right when nobody comes, moves or is   *)
  (* taken off a map.                                                      *)
<1>kept. ASSUME Known, ActorsBound', UNCHANGED <<pos, ObjectBuf, section>>,
                \A z \in Zones : actorVector'[z] \subseteq actorVector[z],
                \A p \in Players, z \in Zones : OnMap(p, z)' <=> OnMap(p, z)
         PROVE  GridMatchesPosition' /\ ListedOnce'
  <2> USE <1>kept
  <2>1. MapTypeOK
    BY DEF Known, TypeOK
  <2>2. GridMatchesPosition'
    BY <2>1 DEF Known, MapTypeOK, GridMatchesPosition
  <2>3. ListedOnce'
    <3>1. ASSUME NEW z \in Zones, NEW p \in Players
          PROVE  p \in actorVector'[z] => (zoneID[p] = z \/ ZoneUnset(p, z))'
      BY DEF ActorsBound, BoundFor
    <3>2. ASSUME NEW z \in Zones, NEW p \in Players, NEW k \in Sections
          PROVE  section'[z][k][p] =
                     IF OnMap(p, z)' /\ k = SectionOf[pos'[p]] THEN 1 ELSE 0
      BY DEF Known, ListedOnce
    <3>3. QED BY <3>1, <3>2 DEF ListedOnce
  <2>4. QED BY <2>2, <2>3
  (* A player is bound for one zone only; while the handler of its session *)
  (* is idle that is the one its zoneID names.                             *)
<1>onezone. ASSUME Known, NEW p \in Players
            PROVE  /\ \A y, z \in Zones : BoundFor(p, y) /\ BoundFor(p, z) => y = z
                   /\ \A y \in Zones, s \in Sessions :
                          currentPlayer[s] = p /\ worker[s].pc = "idle" => ~ZoneUnset(p, y)
                   /\ p \in Pooled => \A z \in Zones : p \notin actorVector[z]
  <2> USE <1>onezone
  <2>1. HandlersEnter /\ SessionsApart
    BY DEF Known, SessionsInv
  <2>2. \A y \in Zones, s \in Sessions :
            currentPlayer[s] = p /\ worker[s].pc = "idle" => ~ZoneUnset(p, y)
    BY <2>1 DEF HandlersEnter, SessionsApart, ZoneUnset
  <2>3. QED BY <2>2 DEF BoundFor, Known, PooledUnused
  (* A step that only consumes mail and offers changes nothing here. *)
<1>nothing. ASSUME Known, NoNewMail,
                   UNCHANGED <<playerPool, playerIdx, mapVars, link, currentPlayer, inGame,
                               worker, leaving>>,
                   \A s \in Sessions : offered'[s] \subseteq offered[s],
                   leaving = NoPlayer \/ UNCHANGED tickZone
            PROVE  PlacementInv'
  <2> USE <1>nothing
  <2>1. /\ SessionsInv /\ MailInv /\ PlacesInv /\ PooledUnused /\ Orderly
        /\ UNCHANGED <<zoneID, pos, actorVector, ObjectBuf, section>>
    BY DEF Known, mapVars
  <2>2. \A p \in Players, z \in Zones : ZoneUnset(p, z)' <=> ZoneUnset(p, z)
    BY DEF ZoneUnset
  <2>3. \A p \in Players, z \in Zones : BoundFor(p, z)' <=> BoundFor(p, z)
    BY <2>1, <2>2 DEF BoundFor
  <2>4. Pooled' = Pooled
    BY DEF Pooled
  <2>5. SessionsInv'
    <3>1. SessionsApart' /\ HandedOutKept' /\ HandlersEnter' /\ NeverReset'
      BY <2>1 DEF SessionsInv, SessionsApart, HandedOutKept, HandlersEnter,
         NeverReset
    <3>2. OfferedNotIn'
      BY <2>1 DEF SessionsInv, OfferedNotIn, NoNewMail
    <3>3. QED BY <3>1, <3>2 DEF SessionsInv
  <2>6. MailInv'
    <3>1. EnterBound'
      BY <2>1, <2>3, <2>4 DEF MailInv, EnterBound, NoNewMail
    <3>2. MoveBound'
      BY <2>1, <2>2 DEF MailInv, MoveBound, NoNewMail
    <3>3. LeaveLast'
      BY <2>1 DEF MailInv, LeaveLast, NoNewMail
    <3>4. QED BY <3>1, <3>2, <3>3 DEF MailInv
  <2>7. PlacesInv'
    <3>1. ActorsBound'
      BY <2>1, <2>3 DEF PlacesInv, ActorsBound, Known, TypeOK, MapTypeOK
    <3>2. AwayAtSpawn' /\ PlayingIn'
      BY <2>1, <2>4 DEF PlacesInv, AwayAtSpawn, PlayingIn
    <3>3. LeavingPooled'
      BY <2>1, <2>4 DEF PlacesInv, LeavingPooled
    <3>4. QED BY <3>1, <3>2, <3>3 DEF PlacesInv
  <2>8. PooledUnused'
    BY <2>1, <2>4 DEF PooledUnused
  <2>9. \A p \in Players, z \in Zones : OnMap(p, z)' <=> OnMap(p, z)
    BY <2>1, NoPlayerAssumption DEF OnMap
  <2>10. GridMatchesPosition' /\ ListedOnce'
    BY <2>1, <2>7, <2>9, <1>kept DEF PlacesInv
  <2>11. QED BY <2>5, <2>6, <2>7, <2>8, <2>10 DEF PlacementInv
<1>placeEffect. ASSUME MapTypeOK, NEW z \in Zones, NEW p \in Players, PlaceInZone(z, p)
                PROVE  /\ actorVector' = [actorVector EXCEPT ![z] = @ \cup {p}]
                       /\ \A y \in Zones, c \in Cells :
                              ObjectBuf'[y][c] = IF y = z /\ c = pos[p] /\ CanGo(z, c) THEN p
                                                 ELSE ObjectBuf[y][c]
                       /\ \A y \in Zones, k \in Sections, q \in Players :
                              section'[y][k][q] = IF y = z /\ k = SectionOf[pos[p]] /\ q = p
                                                  THEN section[y][k][q] + 1
                                                  ELSE section[y][k][q]
  <2> USE <1>placeEffect
  <2>1. /\ SectionOf[pos[p]] \in Sections /\ pos[p] \in Cells
        /\ section[z] \in [Sections -> [Players -> Nat]]
        /\ section \in [Zones -> [Sections -> [Players -> Nat]]]
        /\ ObjectBuf \in [Zones -> [Cells -> Players \cup {NoPlayer}]]
    BY MapAssumption DEF MapTypeOK
  <2>2. ASSUME NEW y \in Zones, NEW k \in Sections, NEW q \in Players
        PROVE  section'[y][k][q] = IF y = z /\ k = SectionOf[pos[p]] /\ q = p
                                   THEN section[y][k][q] + 1 ELSE section[y][k][q]
    BY <2>1 DEF PlaceInZone, Listed
  <2>3. ASSUME NEW y \in Zones, NEW c \in Cells
        PROVE  ObjectBuf'[y][c] = IF y = z /\ c = pos[p] /\ CanGo(z, c) THEN p
                                  ELSE ObjectBuf[y][c]
    BY <2>1 DEF PlaceInZone, Occupy
  <2>4. QED BY <2>2, <2>3 DEF PlaceInZone
  (* And ApplyMove. *)
<1>moveEffect. ASSUME MapTypeOK, NEW z \in Zones, NEW p \in Players, NEW dest \in Cells,
                      zoneID[p] = z, ApplyMove(z, p, dest)
               PROVE  /\ \A y \in Zones, c \in Cells :
                             ObjectBuf'[y][c] = IF y # z THEN ObjectBuf[y][c]
                                                ELSE IF c = dest THEN p
                                                ELSE IF c = pos[p] /\ ObjectBuf[y][c] = p
                                                     THEN NoPlayer
                                                ELSE ObjectBuf[y][c]
                      /\ \A y \in Zones, k \in Sections, q \in Players :
                             section'[y][k][q] =
                                 IF y # z \/ q # p \/ SectionOf[pos[p]] = SectionOf[dest]
                                 THEN section[y][k][q]
                                 ELSE IF k = SectionOf[dest] THEN section[y][k][q] + 1
                                 ELSE IF k = SectionOf[pos[p]] THEN 0
                                 ELSE section[y][k][q]
  <2> USE <1>moveEffect
  <2>1. /\ SectionOf[pos[p]] \in Sections /\ pos[p] \in Cells
        /\ SectionOf[dest] \in Sections
        /\ section[z] \in [Sections -> [Players -> Nat]]
        /\ section \in [Zones -> [Sections -> [Players -> Nat]]]
        /\ ObjectBuf \in [Zones -> [Cells -> Players \cup {NoPlayer}]]
    BY MapAssumption DEF MapTypeOK
  <2>2. ASSUME NEW y \in Zones, NEW k \in Sections, NEW q \in Players
        PROVE  section'[y][k][q] =
                   IF y # z \/ q # p \/ SectionOf[pos[p]] = SectionOf[dest]
                   THEN section[y][k][q]
                   ELSE IF k = SectionOf[dest] THEN section[y][k][q] + 1
                   ELSE IF k = SectionOf[pos[p]] THEN 0
                   ELSE section[y][k][q]
    BY <2>1 DEF ApplyMove, Listed, Unlisted
  <2>3. ASSUME NEW y \in Zones, NEW c \in Cells
        PROVE  ObjectBuf'[y][c] = IF y # z THEN ObjectBuf[y][c]
                                  ELSE IF c = dest THEN p
                                  ELSE IF c = pos[p] /\ ObjectBuf[y][c] = p
                                       THEN NoPlayer
                                  ELSE ObjectBuf[y][c]
    BY <2>1 DEF ApplyMove, Occupy
  <2>4. QED BY <2>2, <2>3
  (* And ApplyLeave. *)
<1>leaveEffect. ASSUME MapTypeOK, NEW z \in Zones, NEW p \in Players,
                       zoneID[p] = z, ApplyLeave(z, p)
                PROVE  /\ \A y \in Zones, c \in Cells :
                              ObjectBuf'[y][c] = IF y = z /\ c = pos[p] /\ ObjectBuf[y][c] = p
                                                 THEN NoPlayer ELSE ObjectBuf[y][c]
                       /\ \A y \in Zones, k \in Sections, q \in Players :
                              section'[y][k][q] = IF y = z /\ k = SectionOf[pos[p]] /\ q = p
                                                  THEN 0 ELSE section[y][k][q]
  <2> USE <1>leaveEffect
  <2>1. /\ SectionOf[pos[p]] \in Sections /\ pos[p] \in Cells
        /\ section[z] \in [Sections -> [Players -> Nat]]
        /\ section \in [Zones -> [Sections -> [Players -> Nat]]]
        /\ ObjectBuf \in [Zones -> [Cells -> Players \cup {NoPlayer}]]
    BY MapAssumption DEF MapTypeOK
  <2>2. ASSUME NEW y \in Zones, NEW k \in Sections, NEW q \in Players
        PROVE  section'[y][k][q] = IF y = z /\ k = SectionOf[pos[p]] /\ q = p
                                   THEN 0 ELSE section[y][k][q]
    BY <2>1 DEF ApplyLeave, Unlisted
  <2>3. ASSUME NEW y \in Zones, NEW c \in Cells
        PROVE  ObjectBuf'[y][c] = IF y = z /\ c = pos[p] /\ ObjectBuf[y][c] = p
                                  THEN NoPlayer ELSE ObjectBuf[y][c]
    BY <2>1 DEF ApplyLeave
  <2>4. QED BY <2>2, <2>3
  (* As long as some session has no player, some player has not been handed*)
  (* out: there are no more sessions than players.                         *)
<1>freshLeft. ASSUME TypeOK, Orderly, HandedOutKept,
                     NEW s \in Sessions, currentPlayer[s] = NoPlayer
              PROVE  playerIdx < MaxPlayers
  <2> USE <1>freshLeft
  <2>1. PICK f \in [Sessions -> Players] :
            \A t, u \in Sessions : f[t] = f[u] => t = u
    BY DEF Orderly
  <2>2. playerIdx \in Nat /\ MaxPlayers \in Nat
    BY MaxPlayersAssumption DEF TypeOK, ManagerTypeOK
  <2>3. SUFFICES ASSUME playerIdx >= MaxPlayers PROVE FALSE
    BY <2>2
  <2>4. \A p \in Players : \E t \in Sessions : currentPlayer[t] = p
    BY <2>2, <2>3 DEF HandedOutKept, Players
  <2> DEFINE holder == [p \in Players |-> CHOOSE t \in Sessions : currentPlayer[t] = p]
             g == [p \in Players |-> f[holder[p]]]
  <2>5. \A p \in Players : holder[p] \in Sessions /\ currentPlayer[holder[p]] = p
    BY <2>4
  <2> HIDE DEF holder
  <2>6. g \in Injection(Players, Players)
    BY <2>1, <2>5 DEF Injection, IsInjective
  <2>7. IsFiniteSet(Players)
    BY <2>2, FS_Interval DEF Players
  <2>8. g \in Surjection(Players, Players)
    BY <2>6, <2>7, FS_Injection
  <2>9. PICK p \in Players : g[p] = f[s]
    BY <2>1, <2>8 DEF Surjection
  <2>10. holder[p] = s
    BY <2>1, <2>5, <2>9
  <2>11. QED BY <2>5, <2>10, NoPlayerAssumption
  (* The EnterGame pushed is for a player that is in no zone and bound for *)
  (* none.                                                                 *)
<1>enterRequested. ASSUME Known, NEW s \in Sessions, NEW p \in Players, NEW z \in Zones,
                          RequestEnterGame(s, p, z)
                   PROVE  PlacementInv'
  <2> USE <1>enterRequested
  <2>1. /\ SessionsApart /\ HandedOutKept /\ HandlersEnter /\ NeverReset
        /\ OfferedNotIn /\ EnterBound /\ MoveBound /\ LeaveLast
        /\ ActorsBound /\ AwayAtSpawn /\ PlayingIn /\ LeavingPooled
        /\ PooledUnused /\ Orderly
        /\ QueueTypeOK /\ MapTypeOK /\ SessionTypeOK /\ ThreadTypeOK
    BY DEF Known, SessionsInv, MailInv, PlacesInv, TypeOK
  <2>2. /\ UNCHANGED <<playerPool, playerIdx, mapVars, zoneID, pos, actorVector,
                       ObjectBuf, section, link, currentPlayer, inGame, leaving>>
        /\ offered' = [offered EXCEPT ![s] = @ \ {p}]
        /\ link[s] = "open" /\ worker[s].pc = "idle" /\ p \in offered[s]
    BY <2>1 DEF RequestEnterGame, CanHandle, NeverReset, managerVars, mapVars
  <2>3. CASE UNCHANGED <<queueVars, worker>>
    <3>1. NoNewMail /\ UNCHANGED tickZone
      BY <2>1, <2>3, CallTakesFirst DEF queueVars
    <3>2. \A t \in Sessions : offered'[t] \subseteq offered[t]
      BY <2>1, <2>2 DEF SessionTypeOK
    <3>3. QED BY <2>2, <2>3, <3>1, <3>2, <1>nothing
  <2>4. CASE /\ currentPlayer[s] = p /\ Push(z, EnterMsg(p))
             /\ worker' = [worker EXCEPT ![s] =
                    [pc |-> "viewport", player |-> p, from |-> z, to |-> z]]
    <3>1. /\ \A y \in Zones : \A n : Sent(y, n)' => Sent(y, n) \/ (y = z /\ n = EnterMsg(p))
          /\ \A y \in Zones : \A l, n :
                 Before(y, l, n)' =>
                     Before(y, l, n) \/ (y = z /\ n = EnterMsg(p) /\ Sent(z, l))
          /\ UNCHANGED tickZone
      BY <2>1, <2>4, PushSends, MessageTypes DEF Push
    <3>2. /\ \A y \in Zones : p \notin actorVector[y] /\ ~Sent(y, EnterMsg(p))
          /\ \A y \in Zones : ~ZoneUnset(p, y)
          /\ p \notin Pooled
      BY <2>1, <2>2, <2>4, <1>onezone DEF OfferedNotIn, PooledUnused
    <3>3. /\ worker'[s] = [pc |-> "viewport", player |-> p, from |-> z, to |-> z]
          /\ \A t \in Sessions : t # s => worker'[t] = worker[t]
      BY <2>1, <2>4 DEF ThreadTypeOK
    <3>4. \A q \in Players, y \in Zones :
              ZoneUnset(q, y)' <=> ZoneUnset(q, y) \/ (q = p /\ y = z)
      BY <2>2, <3>3 DEF ZoneUnset
    <3>5. BoundFor(p, z)'
      BY <3>2, <3>4 DEF BoundFor
    <3>6. \A q \in Players, y \in Zones : q # p /\ BoundFor(q, y) => BoundFor(q, y)'
      BY <2>2, <3>4 DEF BoundFor
    <3>7. Pooled' = Pooled
      BY <2>2 DEF Pooled
    <3>8. /\ \A t \in Sessions : offered'[t] \subseteq offered[t]
          /\ p \notin offered'[s]
      BY <2>1, <2>2 DEF SessionTypeOK
    <3>9. SessionsInv'
      <4>1. SessionsApart' /\ HandedOutKept' /\ NeverReset'
        BY <2>1, <2>2 DEF SessionsApart, HandedOutKept, NeverReset
      <4>2. HandlersEnter'
        BY <2>1, <2>2, <2>4, <3>3, <3>8 DEF HandlersEnter
      <4>3. OfferedNotIn'
        <5>1. ASSUME NEW t \in Sessions, NEW q \in offered'[t]
              PROVE  q \in Players /\ q \in offered[t] /\ q # p
          BY <2>1, <2>2, <2>4, <3>8 DEF OfferedNotIn, SessionsApart, SessionTypeOK
        <5>2. QED BY <2>1, <2>2, <3>1, <5>1, MessageKinds DEF OfferedNotIn
      <4>4. QED BY <4>1, <4>2, <4>3 DEF SessionsInv
    <3>10. MailInv'
      <4>1. EnterBound'
        <5>1. ASSUME NEW y \in Zones, NEW q \in Players, Sent(y, EnterMsg(q))'
              PROVE  BoundFor(q, y)' /\ q \notin Pooled'
          <6>1. CASE Sent(y, EnterMsg(q))
            <7>1. q # p
              BY <3>2, <6>1
            <7>2. QED BY <2>1, <3>6, <3>7, <6>1, <7>1 DEF EnterBound
          <6>2. CASE y = z /\ EnterMsg(q) = EnterMsg(p)
            <7>1. q = p
              BY <6>2, MessageKinds
            <7>2. QED BY <3>2, <3>5, <3>7, <6>2, <7>1
          <6>3. QED BY <3>1, <5>1, <6>1, <6>2
        <5>2. QED BY <5>1 DEF EnterBound
      <4>2. MoveBound'
        <5>1. ASSUME NEW y \in Zones, NEW q \in Players, NEW c \in Cells,
                     Sent(y, MoveMsg(q, c))'
              PROVE  Sent(y, MoveMsg(q, c)) /\ q # p
          <6>1. Sent(y, MoveMsg(q, c))
            BY <3>1, <5>1, MessageKinds
          <6>2. QED BY <2>1, <3>2, <6>1 DEF MoveBound
        <5>2. QED BY <2>1, <2>2, <3>4, <5>1 DEF MoveBound
      <4>3. LeaveLast'
        <5>1. ASSUME NEW y \in Zones, NEW t \in Sessions
              PROVE  (Sent(y, LeaveMsg(t)) => link[t] = "closed")'
          BY <2>1, <2>2, <3>1, MessageKinds DEF LeaveLast
        <5>2. ASSUME NEW y \in Zones, NEW t \in Sessions, NEW q \in Players,
                     currentPlayer[t] = q
              PROVE  ~Before(y, LeaveMsg(t), EnterMsg(q))'
          <6>1. CASE EnterMsg(q) = EnterMsg(p)
            <7>1. q = p /\ t = s
              BY <2>1, <2>4, <5>2, <6>1, MessageKinds DEF SessionsApart
            <7>2. QED BY <2>1, <2>2, <3>1, <5>2, <7>1 DEF LeaveLast
          <6>2. CASE EnterMsg(q) # EnterMsg(p)
            BY <2>1, <3>1, <5>2, <6>2 DEF LeaveLast
          <6>3. QED BY <6>1, <6>2
        <5>3. ASSUME NEW y \in Zones, NEW t \in Sessions, NEW q \in Players,
                     currentPlayer[t] = q, NEW c \in Cells
              PROVE  ~Before(y, LeaveMsg(t), MoveMsg(q, c))'
          BY <2>1, <3>1, <5>3, MessageKinds DEF LeaveLast
        <5>4. QED BY <2>2, <5>1, <5>2, <5>3 DEF LeaveLast
      <4>4. QED BY <4>1, <4>2, <4>3 DEF MailInv
    <3>11. PlacesInv'
      <4>1. ActorsBound'
        BY <2>1, <2>2, <3>2, <3>6 DEF ActorsBound, MapTypeOK
      <4>2. AwayAtSpawn' /\ PlayingIn' /\ LeavingPooled'
        BY <2>1, <2>2, <3>1, <3>7 DEF AwayAtSpawn, PlayingIn, LeavingPooled
      <4>3. QED BY <4>1, <4>2 DEF PlacesInv
    <3>12. PooledUnused'
      BY <2>1, <2>2, <3>7 DEF PooledUnused
    <3>13. \A q \in Players, y \in Zones : OnMap(q, y)' <=> OnMap(q, y)
      BY <2>2, <3>1 DEF OnMap
    <3>14. GridMatchesPosition' /\ ListedOnce'
      BY <2>2, <3>11, <3>13, <1>kept DEF PlacesInv
    <3>15. QED BY <3>9, <3>10, <3>11, <3>12, <3>14 DEF PlacementInv
  <2>5. QED BY <2>3, <2>4 DEF RequestEnterGame
  (* Whoever moves is in the zone its zoneID names. *)
<1>moveRequested. ASSUME Known, NEW s \in Sessions, NEW c \in Cells, RequestMove(s, c)
                  PROVE  PlacementInv'
  <2> USE <1>moveRequested
  <2>1. /\ SessionsApart /\ HandedOutKept /\ HandlersEnter /\ NeverReset
        /\ OfferedNotIn /\ EnterBound /\ MoveBound /\ LeaveLast
        /\ ActorsBound /\ AwayAtSpawn /\ PlayingIn /\ LeavingPooled
        /\ PooledUnused /\ Orderly
        /\ QueueTypeOK /\ MapTypeOK /\ SessionTypeOK /\ ThreadTypeOK
    BY DEF Known, SessionsInv, MailInv, PlacesInv, TypeOK
  <2>2. /\ UNCHANGED <<playerPool, playerIdx, mapVars, zoneID, pos, actorVector,
                       ObjectBuf, section, link, currentPlayer, offered, inGame,
                       worker, leaving>>
        /\ link[s] = "open" /\ worker[s].pc = "idle" /\ inGame[s]
    BY <2>1 DEF RequestMove, CanHandle, NeverReset, managerVars, mapVars,
       sessionVars
  <2>3. PICK p \in Players : p = currentPlayer[s]
    BY <2>1, <2>2 DEF SessionTypeOK
  <2>4. PICK z \in Zones : z = zoneID[p]
    BY <2>1 DEF MapTypeOK
  <2>5. /\ \A y \in Zones : \A n : Sent(y, n)' => Sent(y, n) \/ (y = z /\ n = MoveMsg(p, c))
        /\ \A y \in Zones : \A l, n :
               Before(y, l, n)' =>
                   Before(y, l, n) \/ (y = z /\ n = MoveMsg(p, c) /\ Sent(z, l))
        /\ UNCHANGED tickZone
    BY <2>1, <2>3, <2>4, PushSends, MessageTypes DEF Push, RequestMove
  <2>6. p \in actorVector[z] /\ \A y \in Zones : ~ZoneUnset(p, y)
    <3>1. \A y \in Zones : ~ZoneUnset(p, y)
      BY <2>2, <2>3, <1>onezone
    <3>2. PICK y \in Zones : p \in actorVector[y]
      BY <2>1, <2>2, <2>3 DEF PlayingIn
    <3>3. y = z
      BY <2>1, <2>4, <3>1, <3>2 DEF ActorsBound, BoundFor
    <3>4. QED BY <3>1, <3>2, <3>3
  <2>7. \A q \in Players, y \in Zones :
            /\ ZoneUnset(q, y)' <=> ZoneUnset(q, y)
            /\ BoundFor(q, y)' <=> BoundFor(q, y)
            /\ OnMap(q, y)' <=> OnMap(q, y)
    BY <2>2, <2>5 DEF ZoneUnset, BoundFor, OnMap
  <2>8. Pooled' = Pooled
    BY <2>2 DEF Pooled
  <2>9. SessionsInv'
    <3>1. SessionsApart' /\ HandedOutKept' /\ NeverReset' /\ HandlersEnter'
      BY <2>1, <2>2 DEF SessionsApart, HandedOutKept, NeverReset, HandlersEnter
    <3>2. OfferedNotIn'
      <4>1. \A t \in Sessions : \A q \in offered[t] : q \in Players
        BY <2>1 DEF SessionTypeOK
      <4>2. QED BY <2>1, <2>2, <2>5, <4>1, MessageKinds DEF OfferedNotIn
    <3>3. QED BY <3>1, <3>2 DEF SessionsInv
  <2>10. MailInv'
    <3>1. EnterBound'
      BY <2>1, <2>5, <2>7, <2>8, MessageKinds DEF EnterBound
    <3>2. MoveBound'
      <4>1. ASSUME NEW y \in Zones, NEW q \in Players, NEW d \in Cells,
                   Sent(y, MoveMsg(q, d))'
            PROVE  q \in actorVector[y] /\ \A x \in Zones : ~ZoneUnset(q, x)
        <5>1. CASE Sent(y, MoveMsg(q, d))
          BY <2>1, <5>1 DEF MoveBound
        <5>2. CASE y = z /\ MoveMsg(q, d) = MoveMsg(p, c)
          BY <2>6, <5>2, MessageKinds
        <5>3. QED BY <2>5, <4>1, <5>1, <5>2
      <4>2. QED BY <2>2, <2>7, <4>1 DEF MoveBound
    <3>3. LeaveLast'
      <4>1. ASSUME NEW y \in Zones, NEW t \in Sessions
            PROVE  (Sent(y, LeaveMsg(t)) => link[t] = "closed")'
        BY <2>1, <2>2, <2>5, MessageKinds DEF LeaveLast
      <4>2. ASSUME NEW y \in Zones, NEW t \in Sessions, NEW q \in Players,
                   currentPlayer[t] = q
            PROVE  ~Before(y, LeaveMsg(t), EnterMsg(q))'
        BY <2>1, <2>5, <4>2, MessageKinds DEF LeaveLast
      <4>3. ASSUME NEW y \in Zones, NEW t \in Sessions, NEW q \in Players,
                   currentPlayer[t] = q, NEW d \in Cells
            PROVE  ~Before(y, LeaveMsg(t), MoveMsg(q, d))'
        <5>1. CASE MoveMsg(q, d) = MoveMsg(p, c)
          <6>1. q = p /\ t = s
            BY <2>1, <2>3, <4>3, <5>1, MessageKinds DEF SessionsApart
          <6>2. QED BY <2>1, <2>2, <2>5, <4>3, <6>1 DEF LeaveLast
        <5>2. CASE MoveMsg(q, d) # MoveMsg(p, c)
          BY <2>1, <2>5, <4>3, <5>2 DEF LeaveLast
        <5>3. QED BY <5>1, <5>2
      <4>4. QED BY <2>2, <4>1, <4>2, <4>3 DEF LeaveLast
    <3>4. QED BY <3>1, <3>2, <3>3 DEF MailInv
  <2>11. PlacesInv'
    <3>1. ActorsBound'
      BY <2>1, <2>2, <2>7 DEF ActorsBound, MapTypeOK
    <3>2. AwayAtSpawn' /\ PlayingIn' /\ LeavingPooled'
      BY <2>1, <2>2, <2>5, <2>8 DEF AwayAtSpawn, PlayingIn, LeavingPooled
    <3>3. QED BY <3>1, <3>2 DEF PlacesInv
  <2>12. PooledUnused'
    BY <2>1, <2>2, <2>8 DEF PooledUnused
  <2>13. GridMatchesPosition' /\ ListedOnce'
    BY <2>2, <2>7, <2>11, <1>kept DEF PlacesInv
  <2>14. QED BY <2>9, <2>10, <2>11, <2>12, <2>13 DEF PlacementInv
  (* What this session sends after its LeaveGame is nothing. *)
<1>disconnected. ASSUME Known, NEW s \in Sessions, Disconnect(s)
                 PROVE  PlacementInv'
  <2> USE <1>disconnected
  <2>1. /\ SessionsApart /\ HandedOutKept /\ HandlersEnter /\ NeverReset
        /\ OfferedNotIn /\ EnterBound /\ MoveBound /\ LeaveLast
        /\ ActorsBound /\ AwayAtSpawn /\ PlayingIn /\ LeavingPooled
        /\ PooledUnused /\ Orderly
        /\ QueueTypeOK /\ MapTypeOK /\ SessionTypeOK /\ ThreadTypeOK
    BY DEF Known, SessionsInv, MailInv, PlacesInv, TypeOK
  <2>2. /\ UNCHANGED <<playerPool, playerIdx, mapVars, zoneID, pos, actorVector,
                       ObjectBuf, section, currentPlayer, offered, inGame,
                       worker, leaving>>
        /\ link' = [link EXCEPT ![s] = "closed"] /\ worker[s].pc = "idle"
    BY <2>1 DEF Disconnect, Orderly, managerVars, mapVars
  <2>3. \A t \in Sessions : link'[t] = IF t = s THEN "closed" ELSE link[t]
    BY <2>1, <2>2 DEF SessionTypeOK
  <2>4. PICK z \in Zones :
            /\ \A y \in Zones : \A n : Sent(y, n)' => Sent(y, n) \/ n = LeaveMsg(s)
            /\ \A y \in Zones : \A l, n :
                   Before(y, l, n)' => Before(y, l, n) \/ n = LeaveMsg(s)
            /\ UNCHANGED tickZone
    <3>1. CASE currentPlayer[s] = NoPlayer
      BY <2>1, <3>1, CallTakesFirst DEF Disconnect, queueVars, NoNewMail, QueueTypeOK
    <3>2. CASE currentPlayer[s] # NoPlayer
      <4>1. zoneID[currentPlayer[s]] \in Zones
        BY <2>1, <3>2 DEF SessionTypeOK, MapTypeOK
      <4>2. QED BY <2>1, <3>2, <4>1, PushSends, MessageTypes DEF Disconnect, Push
    <3>3. QED BY <3>1, <3>2
  <2>5. \A q \in Players, y \in Zones :
            /\ ZoneUnset(q, y)' <=> ZoneUnset(q, y)
            /\ BoundFor(q, y)' <=> BoundFor(q, y)
            /\ OnMap(q, y)' <=> OnMap(q, y)
    BY <2>2, <2>4 DEF ZoneUnset, BoundFor, OnMap
  <2>6. Pooled' = Pooled
    BY <2>2 DEF Pooled
  <2>7. SessionsInv'
    <3>1. SessionsApart' /\ HandedOutKept' /\ NeverReset' /\ HandlersEnter'
      BY <2>1, <2>2, <2>3 DEF SessionsApart, HandedOutKept, NeverReset, HandlersEnter
    <3>2. OfferedNotIn'
      <4>1. \A t \in Sessions : \A q \in offered[t] : q \in Players
        BY <2>1 DEF SessionTypeOK
      <4>2. QED BY <2>1, <2>2, <2>4, <4>1, MessageKinds DEF OfferedNotIn
    <3>3. QED BY <3>1, <3>2 DEF SessionsInv
  <2>8. MailInv'
    <3>1. EnterBound'
      BY <2>1, <2>4, <2>5, <2>6, MessageKinds DEF EnterBound
    <3>2. MoveBound'
      <4>1. \A y \in Zones, q \in Players, d \in Cells :
                Sent(y, MoveMsg(q, d))' => Sent(y, MoveMsg(q, d))
        BY <2>4, MessageKinds
      <4>2. QED BY <2>1, <2>2, <2>5, <4>1 DEF MoveBound
    <3>3. LeaveLast'
      <4>1. ASSUME NEW y \in Zones, NEW t \in Sessions
            PROVE  (Sent(y, LeaveMsg(t)) => link[t] = "closed")'
        <5>1. LeaveMsg(t) = LeaveMsg(s) => t = s
          BY DEF LeaveMsg
        <5>2. QED BY <2>1, <2>3, <2>4, <5>1 DEF LeaveLast
      <4>2. ASSUME NEW y \in Zones, NEW t \in Sessions, NEW q \in Players,
                   currentPlayer[t] = q
            PROVE  /\ ~Before(y, LeaveMsg(t), EnterMsg(q))'
                   /\ \A d \in Cells : ~Before(y, LeaveMsg(t), MoveMsg(q, d))'
        BY <2>1, <2>4, <4>2, MessageKinds DEF LeaveLast
      <4>3. QED BY <2>2, <4>1, <4>2 DEF LeaveLast
    <3>4. QED BY <3>1, <3>2, <3>3 DEF MailInv
  <2>9. PlacesInv'
    <3>1. ActorsBound'
      BY <2>1, <2>2, <2>5 DEF ActorsBound, MapTypeOK
    <3>2. AwayAtSpawn' /\ PlayingIn' /\ LeavingPooled'
      BY <2>1, <2>2, <2>3, <2>4, <2>6 DEF AwayAtSpawn, PlayingIn, LeavingPooled
    <3>3. QED BY <3>1, <3>2 DEF PlacesInv
  <2>10. PooledUnused'
    BY <2>1, <2>2, <2>3, <2>6 DEF PooledUnused
  <2>11. GridMatchesPosition' /\ ListedOnce'
    BY <2>2, <2>5, <2>9, <1>kept DEF PlacesInv
  <2>12. QED BY <2>7, <2>8, <2>9, <2>10, <2>11 DEF PlacementInv
  (* The handler under way is about its session's player; none is a teleport's. *)
<1>handler. ASSUME Known, NEW s \in Sessions, Handler(s)
            PROVE  PlacementInv'
  <2> USE <1>handler
  <2>1. /\ SessionsApart /\ HandedOutKept /\ HandlersEnter /\ NeverReset
        /\ OfferedNotIn /\ EnterBound /\ MoveBound /\ LeaveLast
        /\ ActorsBound /\ AwayAtSpawn /\ PlayingIn /\ LeavingPooled
        /\ PooledUnused /\ Orderly
        /\ QueueTypeOK /\ MapTypeOK /\ SessionTypeOK /\ ThreadTypeOK
    BY DEF Known, SessionsInv, MailInv, PlacesInv, TypeOK
  <2>2. EnterSetsViewport(s) \/ EnterSetsZone(s)
    BY <2>1 DEF Handler, TeleportSetsPosition, TeleportLeaves,
       TeleportAppliesLeave, TeleportEnters, HandlersEnter
  <2>3. PICK p \in Players, z \in Zones :
            /\ p = worker[s].player /\ z = worker[s].to
            /\ p = currentPlayer[s] /\ link[s] = "open"
            /\ worker[s].pc \in {"viewport", "zone"}
    BY <2>1, <2>2 DEF EnterSetsViewport, EnterSetsZone, HandlersEnter,
       ThreadTypeOK, Handlers
  <2>4. /\ UNCHANGED <<playerPool, playerIdx, tickZone, pos, actorVector,
                       ObjectBuf, section, link, currentPlayer, offered, inGame,
                       leaving>>
        /\ UNCHANGED queueVars
    BY <2>2 DEF EnterSetsViewport, EnterSetsZone, managerVars, mapVars, placeVars,
       sessionVars, queueVars
  <2>5. /\ \/ worker' = [worker EXCEPT ![s].pc = "zone"] /\ UNCHANGED zoneID
           \/ /\ worker' = [worker EXCEPT ![s] = Idle]
              /\ zoneID' = [zoneID EXCEPT ![p] = z]
    BY <2>2, <2>3 DEF EnterSetsViewport, EnterSetsZone, mapVars
  <2>6. ZoneUnset(p, z) /\ \A y \in Zones : ZoneUnset(p, y) => y = z
    BY <2>1, <2>3 DEF ZoneUnset, HandlersEnter, SessionsApart
  <2>7. /\ \A q \in Players, y \in Zones : ZoneUnset(q, y)' => ZoneUnset(q, y)
        /\ \A q \in Players, y \in Zones : BoundFor(q, y) => BoundFor(q, y)'
        /\ \A q \in Players : q # p => zoneID'[q] = zoneID[q]
    <3>1. CASE worker' = [worker EXCEPT ![s].pc = "zone"] /\ UNCHANGED zoneID
      <4>1. /\ worker'[s] = [worker[s] EXCEPT !.pc = "zone"]
            /\ \A t \in Sessions : t # s => worker'[t] = worker[t]
        BY <2>1, <3>1 DEF ThreadTypeOK
      <4>2. /\ worker'[s].pc = "zone" /\ worker'[s].player = worker[s].player
            /\ worker'[s].to = worker[s].to
        BY <2>1, <4>1 DEF ThreadTypeOK, Handlers
      <4>3. \A t \in Sessions :
                /\ worker'[t].pc \in {"viewport", "zone"}
                       <=> worker[t].pc \in {"viewport", "zone"}
                /\ worker'[t].player = worker[t].player
                /\ worker'[t].to = worker[t].to
        BY <2>3, <4>1, <4>2
      <4>4. \A q \in Players, y \in Zones : ZoneUnset(q, y)' <=> ZoneUnset(q, y)
        BY <4>3 DEF ZoneUnset
      <4>5. QED BY <3>1, <4>4 DEF BoundFor
    <3>2. CASE /\ worker' = [worker EXCEPT ![s] = Idle]
               /\ zoneID' = [zoneID EXCEPT ![p] = z]
      <4>1. /\ worker'[s].pc = "idle"
            /\ \A t \in Sessions : t # s => worker'[t] = worker[t]
        BY <2>1, <3>2 DEF ThreadTypeOK, Idle
      <4>2. \A q \in Players : zoneID'[q] = IF q = p THEN z ELSE zoneID[q]
        BY <2>1, <3>2 DEF MapTypeOK
      <4>3. /\ \A q \in Players, y \in Zones : ZoneUnset(q, y)' => ZoneUnset(q, y)
            /\ \A q \in Players, y \in Zones :
                   q # p /\ ZoneUnset(q, y) => ZoneUnset(q, y)'
        BY <2>3, <4>1 DEF ZoneUnset
      <4>4. \A y \in Zones : ~ZoneUnset(p, y)'
        BY <2>1, <2>3, <4>1 DEF ZoneUnset, HandlersEnter, SessionsApart
      <4>5. \A q \in Players, y \in Zones : BoundFor(q, y) => BoundFor(q, y)'
        BY <2>6, <4>2, <4>3, <4>4 DEF BoundFor
      <4>6. QED BY <4>2, <4>3, <4>5
    <3>3. QED BY <2>5, <3>1, <3>2
  <2>8. NoNewMail /\ Pooled' = Pooled
    BY <2>1, <2>4, CallTakesFirst DEF Pooled
  <2>9. SessionsInv'
    <3>1. SessionsApart' /\ HandedOutKept' /\ NeverReset'
      BY <2>1, <2>4 DEF SessionsApart, HandedOutKept, NeverReset
    <3>2. HandlersEnter'
      <4>1. /\ \A t \in Sessions : t # s => worker'[t] = worker[t]
            /\ worker'[s].pc # "idle" =>
                   worker'[s].pc = "zone" /\ worker'[s].player = worker[s].player
        BY <2>1, <2>5 DEF ThreadTypeOK, Handlers, Idle
      <4>2. QED BY <2>1, <2>3, <2>4, <4>1 DEF HandlersEnter
    <3>3. OfferedNotIn'
      BY <2>1, <2>4, <2>8 DEF OfferedNotIn, NoNewMail
    <3>4. QED BY <3>1, <3>2, <3>3 DEF SessionsInv
  <2>10. MailInv'
    <3>1. EnterBound'
      BY <2>1, <2>7, <2>8 DEF EnterBound, NoNewMail
    <3>2. MoveBound'
      BY <2>1, <2>4, <2>7, <2>8 DEF MoveBound, NoNewMail
    <3>3. LeaveLast'
      BY <2>1, <2>4, <2>8 DEF LeaveLast, NoNewMail
    <3>4. QED BY <3>1, <3>2, <3>3 DEF MailInv
  <2>11. PlacesInv'
    <3>1. ActorsBound'
      BY <2>1, <2>4, <2>7 DEF ActorsBound, MapTypeOK
    <3>2. AwayAtSpawn' /\ PlayingIn'
      BY <2>1, <2>4, <2>8 DEF AwayAtSpawn, PlayingIn
    <3>3. LeavingPooled'
      <4>1. p \notin Pooled
        BY <2>1, <2>3 DEF PooledUnused
      <4>2. leaving # NoPlayer => leaving \in Players
        BY <2>1 DEF ThreadTypeOK
      <4>3. QED BY <2>1, <2>4, <2>7, <2>8, <4>1, <4>2 DEF LeavingPooled
    <3>4. QED BY <3>1, <3>2, <3>3 DEF PlacesInv
  <2>12. PooledUnused'
    BY <2>1, <2>4, <2>8 DEF PooledUnused
  <2>13. \A q \in Players, y \in Zones : OnMap(q, y)' <=> OnMap(q, y)
    BY <2>4 DEF OnMap
  <2>14. GridMatchesPosition' /\ ListedOnce'
    BY <2>4, <2>11, <2>13, <1>kept DEF PlacesInv
  <2>15. QED BY <2>9, <2>10, <2>11, <2>12, <2>14 DEF PlacementInv
  (* The player handed out has never been handed out before. *)
<1>loggedIn. ASSUME Known, NEW s \in Sessions, LoginSuccess(s)
             PROVE  PlacementInv'
  <2> USE <1>loggedIn
  <2>1. /\ SessionsApart /\ HandedOutKept /\ HandlersEnter /\ NeverReset
        /\ OfferedNotIn /\ EnterBound /\ MoveBound /\ LeaveLast
        /\ ActorsBound /\ AwayAtSpawn /\ PlayingIn /\ LeavingPooled
        /\ PooledUnused /\ GridMatchesPosition /\ ListedOnce /\ Orderly
        /\ QueueTypeOK /\ MapTypeOK /\ SessionTypeOK /\ ThreadTypeOK
        /\ ManagerTypeOK /\ TypeOK
    BY DEF Known, SessionsInv, MailInv, PlacesInv, TypeOK
  <2>2. PICK p \in Players :
            /\ NewPlayer(p)
            /\ pos' = [pos EXCEPT ![p] = Spawn]
            /\ zoneID' = [zoneID EXCEPT ![p] = 0]
            /\ currentPlayer' = [currentPlayer EXCEPT ![s] = p]
            /\ offered' = IF link[s] = "open"
                          THEN [offered EXCEPT ![s] = @ \cup {p}]
                          ELSE offered
    BY DEF LoginSuccess
  <2>3. UNCHANGED <<queueVars, tickZone, actorVector, ObjectBuf, section, link,
                    inGame, worker, leaving>>
    BY DEF LoginSuccess, queueVars, placeVars
  <2>4. currentPlayer[s] = NoPlayer
    BY <2>1 DEF LoginSuccess, Known, OneLogin, SessionTypeOK
  <2>5. playerIdx < MaxPlayers /\ playerIdx \in Nat
    BY <2>1, <2>4, <1>freshLeft DEF ManagerTypeOK
  <2>6. /\ p = playerIdx /\ playerIdx' = playerIdx + 1
        /\ Pooled' = Pooled \ {p} /\ p \in Pooled
    <3>1. FreshFirst /\ RosterComplementsPool
      BY DEF Known, RosterInv
    <3>2. 1 \in DOMAIN playerPool /\ playerPool[1] = p
      <4>1. playerPool \in Seq(Players) /\ playerPool # <<>> /\ p = Head(playerPool)
        BY <2>1, <2>2 DEF ManagerTypeOK, NewPlayer
      <4>2. QED BY <4>1, EmptySeq, LenProperties
    <3>3. QED BY <2>1, <2>2, <2>5, <3>1, <3>2, NewPlayerRoster DEF Pooled
  <2>7. /\ \A z \in Zones : p \notin actorVector[z]
        /\ \A t \in Sessions : currentPlayer[t] # p /\ worker[t].player # p
        /\ leaving # p
    <3>1. ActorsHandedOut /\ SessionsHandedOut /\ ~(p < playerIdx)
      BY <2>5, <2>6 DEF Known, RosterInv, UsedHandedOut
    <3>2. \A z \in Zones : p \notin actorVector[z]
      BY <3>1 DEF ActorsHandedOut
    <3>3. \A t \in Sessions : currentPlayer[t] # p /\ worker[t].player # p
      BY <3>1 DEF SessionsHandedOut
    <3>4. leaving # p
      BY <2>1, <3>1, NoPlayerAssumption DEF LeavingPooled
    <3>5. QED BY <3>2, <3>3, <3>4
  <2>8. \A z \in Zones :
            /\ ~Sent(z, EnterMsg(p)) /\ \A c \in Cells : ~Sent(z, MoveMsg(p, c))
    BY <2>1, <2>6, <2>7 DEF EnterBound, MoveBound
  <2>9. NoNewMail
    BY <2>1, <2>3, CallTakesFirst
  <2>10. /\ \A q \in Players :
                /\ pos'[q] = IF q = p THEN Spawn ELSE pos[q]
                /\ q # p => zoneID'[q] = zoneID[q]
         /\ \A t \in Sessions :
                /\ currentPlayer'[t] = IF t = s THEN p ELSE currentPlayer[t]
                /\ t # s => offered'[t] = offered[t]
         /\ offered'[s] \subseteq {p}
    <3>1. offered[s] = {}
      BY <2>1, <2>4, NoPlayerAssumption DEF OfferedNotIn, SessionTypeOK
    <3>2. QED BY <2>1, <2>2, <3>1 DEF MapTypeOK, SessionTypeOK
  <2>11. \A q \in Players, y \in Zones :
             /\ ZoneUnset(q, y)' <=> ZoneUnset(q, y)
             /\ q # p => (BoundFor(q, y)' <=> BoundFor(q, y))
             /\ OnMap(q, y)' <=> OnMap(q, y)
    BY <2>3, <2>10 DEF ZoneUnset, BoundFor, OnMap
  <2>12. \A z \in Zones : ~OnMap(p, z)
    BY <2>7 DEF OnMap
  <2>13. SessionsInv'
    <3>1. SessionsApart'
      BY <2>1, <2>7, <2>10 DEF SessionsApart
    <3>2. HandedOutKept'
      <4>1. ASSUME NEW q \in Players, q < playerIdx'
            PROVE  \E t \in Sessions : currentPlayer'[t] = q
        <5>1. q < playerIdx \/ q = p
          BY <2>5, <2>6, <4>1 DEF Players
        <5>2. CASE q = p
          BY <2>10, <5>2
        <5>3. CASE q < playerIdx
          <6>1. PICK t \in Sessions : currentPlayer[t] = q
            BY <2>1, <5>3 DEF HandedOutKept
          <6>2. t # s
            BY <2>4, <6>1, NoPlayerAssumption
          <6>3. QED BY <2>10, <6>1, <6>2
        <5>4. QED BY <5>1, <5>2, <5>3
      <4>2. QED BY <4>1 DEF HandedOutKept
    <3>3. HandlersEnter'
      <4>1. worker[s].pc = "idle"
        BY <2>1, <2>4, NoPlayerAssumption DEF HandlersEnter, ThreadTypeOK
      <4>2. QED BY <2>1, <2>3, <2>10, <4>1 DEF HandlersEnter
    <3>4. NeverReset'
      BY <2>1, <2>3 DEF NeverReset
    <3>5. OfferedNotIn'
      <4>1. ASSUME NEW t \in Sessions, NEW q \in offered'[t]
            PROVE  /\ currentPlayer'[t] = q
                   /\ \A z \in Zones : q \notin actorVector[z] /\ ~Sent(z, EnterMsg(q))
        <5>1. CASE t = s
          BY <2>7, <2>8, <2>10, <4>1, <5>1
        <5>2. CASE t # s
          BY <2>1, <2>10, <4>1, <5>2 DEF OfferedNotIn
        <5>3. QED BY <5>1, <5>2
      <4>2. QED BY <2>3, <2>9, <4>1 DEF OfferedNotIn, NoNewMail
    <3>6. QED BY <3>1, <3>2, <3>3, <3>4, <3>5 DEF SessionsInv
  <2>14. MailInv'
    <3>1. EnterBound'
      BY <2>1, <2>6, <2>8, <2>9, <2>11 DEF EnterBound, NoNewMail
    <3>2. MoveBound'
      BY <2>1, <2>3, <2>9, <2>11 DEF MoveBound, NoNewMail
    <3>3. LeaveLast'
      <4>1. \A z \in Zones, t \in Sessions : Sent(z, LeaveMsg(t))' => link'[t] = "closed"
        BY <2>1, <2>3, <2>9 DEF LeaveLast, NoNewMail
      <4>2. ASSUME NEW z \in Zones, NEW t \in Sessions, NEW q \in Players,
                   currentPlayer'[t] = q
            PROVE  /\ ~Before(z, LeaveMsg(t), EnterMsg(q))
                   /\ \A c \in Cells : ~Before(z, LeaveMsg(t), MoveMsg(q, c))
        <5>1. CASE t = s
          <6>1. q = p
            BY <2>10, <4>2, <5>1
          <6>2. QED BY <2>8, <6>1 DEF Sent, Before
        <5>2. CASE t # s
          BY <2>1, <2>10, <4>2, <5>2 DEF LeaveLast
        <5>3. QED BY <5>1, <5>2
      <4>3. QED BY <2>9, <4>1, <4>2 DEF LeaveLast, NoNewMail
    <3>4. QED BY <3>1, <3>2, <3>3 DEF MailInv
  <2>15. PlacesInv'
    <3>1. ActorsBound'
      BY <2>1, <2>3, <2>7, <2>11 DEF ActorsBound, MapTypeOK
    <3>2. AwayAtSpawn'
      BY <2>1, <2>3, <2>6, <2>10 DEF AwayAtSpawn
    <3>3. PlayingIn'
      <4>1. ~inGame[s]
        BY <2>1, <2>4, NoPlayerAssumption DEF SessionTypeOK
      <4>2. QED BY <2>1, <2>3, <2>10, <4>1 DEF PlayingIn
    <3>4. LeavingPooled'
      <4>1. leaving # NoPlayer =>
                /\ leaving \in Players /\ leaving \in Pooled
                /\ leaving < playerIdx /\ zoneID[leaving] = tickZone
        BY <2>1 DEF LeavingPooled, ThreadTypeOK
      <4>2. leaving # NoPlayer => leaving < playerIdx'
        BY <2>5, <2>6, <4>1 DEF Players
      <4>3. leaving # NoPlayer => leaving \in Pooled' /\ zoneID'[leaving] = tickZone
        BY <2>6, <2>7, <2>10, <4>1
      <4>4. QED BY <2>3, <4>2, <4>3 DEF LeavingPooled
    <3>5. QED BY <3>1, <3>2, <3>3, <3>4 DEF PlacesInv
  <2>16. PooledUnused'
    BY <2>1, <2>3, <2>6, <2>10 DEF PooledUnused
  <2>17. GridMatchesPosition'
    <3>1. ASSUME NEW z \in Zones, NEW c \in Cells, NEW q, ObjectBuf[z][c] = q,
                 q # NoPlayer
          PROVE  pos'[q] = c /\ OnMap(q, z)'
      <4>1. q \in Players /\ pos[q] = c /\ OnMap(q, z)
        BY <2>1, <3>1 DEF GridMatchesPosition, MapTypeOK
      <4>2. QED BY <2>10, <2>11, <2>12, <4>1
    <3>2. ASSUME NEW z \in Zones, NEW q \in actorVector[z], pos'[q] # Spawn
          PROVE  ObjectBuf[z][pos'[q]] = q
      BY <2>1, <2>7, <2>10, <3>2 DEF GridMatchesPosition, MapTypeOK
    <3>3. QED BY <2>3, <3>1, <3>2 DEF GridMatchesPosition
  <2>18. ListedOnce'
    <3>1. ASSUME NEW z \in Zones, NEW q \in Players
          PROVE  q \in actorVector'[z] => (zoneID[q] = z \/ ZoneUnset(q, z))'
      BY <2>15 DEF PlacesInv, ActorsBound, BoundFor
    <3>2. ASSUME NEW z \in Zones, NEW q \in Players, NEW k \in Sections
          PROVE  section'[z][k][q] =
                     IF OnMap(q, z)' /\ k = SectionOf[pos'[q]] THEN 1 ELSE 0
      BY <2>1, <2>3, <2>10, <2>11, <2>12 DEF ListedOnce
    <3>3. QED BY <3>1, <3>2 DEF ListedOnce
  <2>19. QED BY <2>13, <2>14, <2>15, <2>16, <2>17, <2>18 DEF PlacementInv
  (* A player enters at the spawn, alone in its entries if not in its cell. *)
<1>enters. ASSUME Known, NEW p \in Players, RunEnterGame(p)
           PROVE  PlacementInv'
  <2> USE <1>enters
  <2>1. /\ SessionsApart /\ HandedOutKept /\ HandlersEnter /\ NeverReset
        /\ OfferedNotIn /\ EnterBound /\ MoveBound /\ LeaveLast
        /\ ActorsBound /\ AwayAtSpawn /\ PlayingIn /\ LeavingPooled
        /\ PooledUnused /\ GridMatchesPosition /\ ListedOnce /\ Orderly
        /\ QueueTypeOK /\ MapTypeOK /\ SessionTypeOK /\ ThreadTypeOK
    BY DEF Known, SessionsInv, MailInv, PlacesInv, TypeOK
  <2>2. /\ UNCHANGED <<playerPool, playerIdx, link, currentPlayer, offered,
                       worker, leaving, tickZone>>
        /\ leaving = NoPlayer
    BY DEF RunEnterGame, managerVars, Call
  <2>3. PICK z \in Zones : z = tickZone
    BY <2>1 DEF QueueTypeOK
  <2>4. NoNewMail /\ Sent(z, EnterMsg(p))
    BY <2>1, <2>3, CallTakesFirst DEF RunEnterGame
  <2>5. BoundFor(p, z) /\ p \notin Pooled
    BY <2>1, <2>4 DEF EnterBound
  <2>6. CASE UNCHANGED <<mapVars, inGame>>
    BY <2>2, <2>4, <2>6, <1>nothing
  <2>7. CASE p \notin actorVector[z] /\ PlaceInZone(z, p) /\ EntersGame(p)
    <3>1. /\ \A y \in Zones, q \in Players :
                 q \in actorVector'[y] <=> q \in actorVector[y] \/ (q = p /\ y = z)
          /\ actorVector' \in [Zones -> SUBSET Players]
      <4>1. actorVector' = [actorVector EXCEPT ![z] = @ \cup {p}]
        BY <2>1, <2>3, <2>7, <1>placeEffect
      <4>2. actorVector \in [Zones -> SUBSET Players]
        BY <2>1 DEF MapTypeOK
      <4>3. QED BY <4>1, <4>2
    <3>2. /\ \A y \in Zones, c \in Cells :
                 ObjectBuf'[y][c] = IF y = z /\ c = pos[p] /\ CanGo(z, c) THEN p
                                    ELSE ObjectBuf[y][c]
          /\ \A y \in Zones, k \in Sections, q \in Players :
                 section'[y][k][q] = IF y = z /\ k = SectionOf[pos[p]] /\ q = p
                                     THEN section[y][k][q] + 1
                                     ELSE section[y][k][q]
          /\ UNCHANGED <<zoneID, pos>>
      BY <2>1, <2>7, <1>placeEffect DEF PlaceInZone
    <3>3. \A y \in Zones : p \notin actorVector[y]
      BY <2>1, <2>5, <2>7, <1>onezone DEF ActorsBound
    <3>4. pos[p] = Spawn
      BY <2>1, <2>5, <3>3 DEF AwayAtSpawn
    <3>5. \A q \in Players, y \in Zones :
              /\ ZoneUnset(q, y)' <=> ZoneUnset(q, y)
              /\ BoundFor(q, y)' <=> BoundFor(q, y)
              /\ OnMap(q, y) <=> q \in actorVector[y]
              /\ OnMap(q, y)' <=> q \in actorVector'[y]
      BY <2>2, <3>2, NoPlayerAssumption DEF ZoneUnset, BoundFor, OnMap
    <3>6. Pooled' = Pooled
      BY <2>2 DEF Pooled
    <3>7. SessionsInv'
      <4>1. SessionsApart' /\ HandedOutKept' /\ HandlersEnter' /\ NeverReset'
        BY <2>1, <2>2 DEF SessionsApart, HandedOutKept, HandlersEnter, NeverReset
      <4>2. OfferedNotIn'
        <5>1. ASSUME NEW t \in Sessions, NEW q \in offered[t]
              PROVE  q \in Players /\ q # p
          BY <2>1, <2>4 DEF OfferedNotIn, SessionTypeOK
        <5>2. QED BY <2>1, <2>2, <2>4, <3>1, <5>1 DEF OfferedNotIn, NoNewMail
      <4>3. QED BY <4>1, <4>2 DEF SessionsInv
    <3>8. MailInv'
      <4>1. EnterBound'
        BY <2>1, <2>4, <3>5, <3>6 DEF EnterBound, NoNewMail
      <4>2. MoveBound'
        BY <2>1, <2>4, <3>1, <3>5 DEF MoveBound, NoNewMail
      <4>3. LeaveLast'
        BY <2>1, <2>2, <2>4 DEF LeaveLast, NoNewMail
      <4>4. QED BY <4>1, <4>2, <4>3 DEF MailInv
    <3>9. PlacesInv'
      <4>1. ActorsBound'
        BY <2>1, <2>5, <3>1, <3>5 DEF ActorsBound
      <4>2. AwayAtSpawn'
        BY <2>1, <3>1, <3>2, <3>6 DEF AwayAtSpawn
      <4>3. PlayingIn'
        <5>1. ASSUME NEW t \in Sessions, inGame'[t], link[t] = "open"
              PROVE  \E y \in Zones : currentPlayer[t] \in actorVector'[y]
          <6>1. CASE inGame[t]
            <7>1. currentPlayer[t] \in Players
              BY <2>1, <6>1 DEF SessionTypeOK
            <7>2. QED BY <2>1, <3>1, <5>1, <6>1, <7>1 DEF PlayingIn
          <6>2. CASE ~inGame[t]
            <7>1. ownerSession[p] = t
              BY <2>7, <5>1, <6>2 DEF EntersGame
            <7>2. currentPlayer[t] = p
              BY <7>1 DEF Known, OwnersKept
            <7>3. QED BY <3>1, <7>2
          <6>3. QED BY <6>1, <6>2
        <5>2. QED BY <2>2, <5>1 DEF PlayingIn
      <4>4. LeavingPooled'
        BY <2>2 DEF LeavingPooled
      <4>5. QED BY <4>1, <4>2, <4>3, <4>4 DEF PlacesInv
    <3>10. PooledUnused'
      BY <2>1, <2>2, <2>5, <3>1, <3>6 DEF PooledUnused, Pooled, TypeOK, Known,
         ManagerTypeOK
    <3>11. GridMatchesPosition'
      <4>1. ASSUME NEW y \in Zones, NEW c \in Cells, NEW q, ObjectBuf'[y][c] = q,
                   q # NoPlayer
            PROVE  pos[q] = c /\ OnMap(q, y)'
        <5>1. CASE ObjectBuf[y][c] = q
          <6>1. q \in Players /\ pos[q] = c /\ OnMap(q, y)
            BY <2>1, <4>1, <5>1 DEF GridMatchesPosition, MapTypeOK
          <6>2. QED BY <3>1, <3>5, <6>1
        <5>2. CASE ObjectBuf[y][c] # q
          BY <3>1, <3>2, <3>5, <4>1, <5>2
        <5>3. QED BY <5>1, <5>2
      <4>2. ASSUME NEW y \in Zones, NEW q \in actorVector'[y], pos[q] # Spawn
            PROVE  ObjectBuf'[y][pos[q]] = q
        <5>1. q \in Players /\ q # p /\ q \in actorVector[y] /\ pos[q] \in Cells
          BY <2>1, <3>1, <3>4, <4>2 DEF MapTypeOK
        <5>2. ObjectBuf[y][pos[q]] = q
          BY <2>1, <4>2, <5>1 DEF GridMatchesPosition
        <5>3. ~(y = z /\ CanGo(z, pos[q]))
          BY <5>1, <5>2, NoPlayerAssumption DEF CanGo
        <5>4. QED BY <3>2, <5>1, <5>2, <5>3
      <4>3. QED BY <3>2, <4>1, <4>2 DEF GridMatchesPosition
    <3>12. ListedOnce'
      <4>1. ASSUME NEW y \in Zones, NEW q \in Players
            PROVE  q \in actorVector'[y] => (zoneID[q] = y \/ ZoneUnset(q, y))'
        BY <3>9 DEF PlacesInv, ActorsBound, BoundFor
      <4>2. ASSUME NEW y \in Zones, NEW q \in Players, NEW k \in Sections
            PROVE  section'[y][k][q] =
                       IF OnMap(q, y)' /\ k = SectionOf[pos[q]] THEN 1 ELSE 0
        <5>1. section[y][k][q] =
                  IF q \in actorVector[y] /\ k = SectionOf[pos[q]] THEN 1 ELSE 0
          BY <2>1, <3>5 DEF ListedOnce
        <5>2. QED BY <2>7, <3>1, <3>2, <3>5, <5>1
      <4>3. QED BY <3>2, <4>1, <4>2 DEF ListedOnce
    <3>13. QED BY <3>7, <3>8, <3>9, <3>10, <3>11, <3>12 DEF PlacementInv
  <2>8. QED BY <2>3, <2>6, <2>7 DEF RunEnterGame
  (* The cell moved to was free, the one left held nobody else. *)
<1>moves. ASSUME Known, NEW p \in Players, NEW c \in Cells, RunHandleMove(p, c)
          PROVE  PlacementInv'
  <2> USE <1>moves
  <2>1. /\ SessionsApart /\ HandedOutKept /\ HandlersEnter /\ NeverReset
        /\ OfferedNotIn /\ EnterBound /\ MoveBound /\ LeaveLast
        /\ ActorsBound /\ AwayAtSpawn /\ PlayingIn /\ LeavingPooled
        /\ PooledUnused /\ GridMatchesPosition /\ ListedOnce /\ Orderly
        /\ QueueTypeOK /\ MapTypeOK /\ SessionTypeOK /\ ThreadTypeOK
    BY DEF Known, SessionsInv, MailInv, PlacesInv, TypeOK
  <2>2. /\ UNCHANGED <<playerPool, playerIdx, link, currentPlayer, offered, inGame,
                       worker, leaving, tickZone>>
        /\ leaving = NoPlayer
    BY DEF RunHandleMove, managerVars, sessionVars, Call
  <2>3. PICK z \in Zones : z = tickZone
    BY <2>1 DEF QueueTypeOK
  <2>4. NoNewMail /\ Sent(z, MoveMsg(p, c))
    BY <2>1, <2>3, CallTakesFirst DEF RunHandleMove
  <2>5. p \in actorVector[z] /\ zoneID[p] = z
    BY <2>1, <2>4 DEF MoveBound, ActorsBound, BoundFor
  <2>6. CASE UNCHANGED mapVars
    BY <2>2, <2>4, <2>6, <1>nothing
  <2>7. CASE CanGo(z, c) /\ ApplyMove(z, p, c)
    <3>1. /\ \A y \in Zones, d \in Cells :
                 ObjectBuf'[y][d] = IF y # z THEN ObjectBuf[y][d]
                                    ELSE IF d = c THEN p
                                    ELSE IF d = pos[p] /\ ObjectBuf[y][d] = p
                                         THEN NoPlayer
                                    ELSE ObjectBuf[y][d]
          /\ \A y \in Zones, k \in Sections, q \in Players :
                 section'[y][k][q] =
                     IF y # z \/ q # p \/ SectionOf[pos[p]] = SectionOf[c]
                     THEN section[y][k][q]
                     ELSE IF k = SectionOf[c] THEN section[y][k][q] + 1
                     ELSE IF k = SectionOf[pos[p]] THEN 0
                     ELSE section[y][k][q]
      BY <2>1, <2>5, <2>7, <1>moveEffect
    <3>2. /\ UNCHANGED <<zoneID, actorVector>>
          /\ \A q \in Players : pos'[q] = IF q = p THEN c ELSE pos[q]
      BY <2>1, <2>7 DEF ApplyMove, MapTypeOK
    <3>3. \A y \in Zones : p \in actorVector[y] => y = z
      BY <2>1, <2>5, <1>onezone DEF ActorsBound
    <3>4. \A q \in Players, y \in Zones :
              /\ ZoneUnset(q, y)' <=> ZoneUnset(q, y)
              /\ BoundFor(q, y)' <=> BoundFor(q, y)
              /\ OnMap(q, y) <=> q \in actorVector[y]
              /\ OnMap(q, y)' <=> q \in actorVector[y]
      BY <2>2, <3>2, NoPlayerAssumption DEF ZoneUnset, BoundFor, OnMap
    <3>5. Pooled' = Pooled
      BY <2>2 DEF Pooled
    <3>6. SessionsInv'
      <4>1. SessionsApart' /\ HandedOutKept' /\ HandlersEnter' /\ NeverReset'
        BY <2>1, <2>2 DEF SessionsApart, HandedOutKept, HandlersEnter, NeverReset
      <4>2. OfferedNotIn'
        BY <2>1, <2>2, <2>4, <3>2 DEF OfferedNotIn, NoNewMail
      <4>3. QED BY <4>1, <4>2 DEF SessionsInv
    <3>7. MailInv'
      <4>1. EnterBound'
        BY <2>1, <2>4, <3>4, <3>5 DEF EnterBound, NoNewMail
      <4>2. MoveBound'
        BY <2>1, <2>4, <3>2, <3>4 DEF MoveBound, NoNewMail
      <4>3. LeaveLast'
        BY <2>1, <2>2, <2>4 DEF LeaveLast, NoNewMail
      <4>4. QED BY <4>1, <4>2, <4>3 DEF MailInv
    <3>8. PlacesInv'
      <4>1. ActorsBound'
        BY <2>1, <3>2, <3>4 DEF ActorsBound, MapTypeOK
      <4>2. AwayAtSpawn'
        BY <2>1, <2>5, <3>2, <3>5 DEF AwayAtSpawn
      <4>3. PlayingIn' /\ LeavingPooled'
        BY <2>1, <2>2, <3>2 DEF PlayingIn, LeavingPooled
      <4>4. QED BY <4>1, <4>2, <4>3 DEF PlacesInv
    <3>9. PooledUnused'
      BY <2>1, <2>2, <3>2, <3>5 DEF PooledUnused
    <3>10. GridMatchesPosition'
      <4>1. ASSUME NEW y \in Zones, NEW d \in Cells, NEW q, ObjectBuf'[y][d] = q,
                   q # NoPlayer
            PROVE  pos'[q] = d /\ OnMap(q, y)'
        <5>1. CASE y = z /\ d = c
          BY <2>5, <3>1, <3>2, <3>4, <4>1, <5>1
        <5>2. CASE ~(y = z /\ d = c)
          <6>1. ObjectBuf[y][d] = q
            BY <3>1, <4>1, <5>2
          <6>2. q \in Players /\ pos[q] = d /\ q \in actorVector[y]
            BY <2>1, <3>4, <4>1, <6>1 DEF GridMatchesPosition, MapTypeOK
          <6>3. q # p
            BY <3>1, <3>3, <4>1, <5>2, <6>1, <6>2
          <6>4. QED BY <3>2, <3>4, <6>2, <6>3
        <5>3. QED BY <5>1, <5>2
      <4>2. ASSUME NEW y \in Zones, NEW q \in actorVector[y], pos'[q] # Spawn
            PROVE  ObjectBuf'[y][pos'[q]] = q
        <5>1. q \in Players
          BY <2>1 DEF MapTypeOK
        <5>2. CASE q = p
          BY <3>1, <3>2, <3>3, <5>2
        <5>3. CASE q # p
          <6>1. pos'[q] = pos[q] /\ pos[q] \in Cells /\ ObjectBuf[y][pos[q]] = q
            BY <2>1, <3>2, <4>2, <5>1, <5>3 DEF GridMatchesPosition, MapTypeOK
          <6>2. ~(y = z /\ pos[q] = c)
            BY <2>7, <5>1, <6>1, NoPlayerAssumption DEF CanGo
          <6>3. QED BY <3>1, <5>3, <6>1, <6>2
        <5>4. QED BY <5>2, <5>3
      <4>3. QED BY <3>2, <4>1, <4>2 DEF GridMatchesPosition
    <3>11. ListedOnce'
      <4>1. ASSUME NEW y \in Zones, NEW q \in Players
            PROVE  q \in actorVector'[y] => (zoneID[q] = y \/ ZoneUnset(q, y))'
        BY <3>8 DEF PlacesInv, ActorsBound, BoundFor
      <4>2. ASSUME NEW y \in Zones, NEW q \in Players, NEW k \in Sections
            PROVE  section'[y][k][q] =
                       IF OnMap(q, y)' /\ k = SectionOf[pos'[q]] THEN 1 ELSE 0
        <5>1. section[y][k][q] =
                  IF q \in actorVector[y] /\ k = SectionOf[pos[q]] THEN 1 ELSE 0
          BY <2>1, <3>4 DEF ListedOnce
        <5>2. CASE q = p
          BY <2>5, <3>1, <3>2, <3>3, <3>4, <5>1, <5>2
        <5>3. CASE q # p
          BY <3>1, <3>2, <3>4, <5>1, <5>3
        <5>4. QED BY <5>2, <5>3
      <4>3. QED BY <4>1, <4>2 DEF ListedOnce
    <3>12. QED BY <3>6, <3>7, <3>8, <3>9, <3>10, <3>11 DEF PlacementInv
  <2>8. QED BY <2>3, <2>6, <2>7 DEF RunHandleMove
  (* The departing player is unregistered and pooled while its zone shows it. *)
<1>leaves. ASSUME Known, NEW s \in Sessions, RunLeaveGame(s)
           PROVE  PlacementInv'
  <2> USE <1>leaves
  <2>1. /\ SessionsApart /\ HandedOutKept /\ HandlersEnter /\ NeverReset
        /\ OfferedNotIn /\ EnterBound /\ MoveBound /\ LeaveLast
        /\ ActorsBound /\ AwayAtSpawn /\ PlayingIn /\ LeavingPooled
        /\ PooledUnused /\ Orderly
        /\ ManagerTypeOK /\ QueueTypeOK /\ MapTypeOK /\ SessionTypeOK
    BY DEF Known, SessionsInv, MailInv, PlacesInv, TypeOK
  <2>2. /\ UNCHANGED <<zoneID, pos, ObjectBuf, section, link, currentPlayer,
                       offered, inGame, worker, tickZone>>
        /\ leaving = NoPlayer
    BY DEF RunLeaveGame, sessionVars, Call
  <2>3. PICK z \in Zones : z = tickZone
    BY <2>1 DEF QueueTypeOK
  <2>4. /\ NoNewMail /\ Sent(z, LeaveMsg(s))
        /\ \A n : Sent(z, n)' => Before(z, LeaveMsg(s), n)
    BY <2>1, <2>2, <2>3, CallTakesFirst DEF RunLeaveGame
  <2>5. link[s] = "closed" /\ worker[s].pc = "idle"
    BY <2>1, <2>4 DEF LeaveLast, HandlersEnter
  <2>6. CASE UNCHANGED <<managerVars, actorVector, leaving>>
    BY <2>2, <2>4, <2>6, <1>nothing DEF mapVars, managerVars
  <2>7. ASSUME NEW p, p = currentPlayer[s], p \in actorVector[z],
               Unregister(z, p), leaving' = p
        PROVE  PlacementInv'
    <3>1. p \in Players /\ p \notin Pooled /\ p < playerIdx
      BY <2>1, <2>7 DEF MapTypeOK, PooledUnused, Known, RosterInv, UsedHandedOut,
         ActorsHandedOut
    <3>2. Pooled' = Pooled \cup {p} /\ playerIdx' = playerIdx
      BY <2>1, <2>7, <3>1, DeletePlayerRoster DEF Known, RosterInv, Unregister
    <3>3. \A y \in Zones : ~ZoneUnset(p, y) /\ (p \in actorVector[y] => y = z)
      BY <2>1, <2>5, <2>7, <3>1, <1>onezone DEF ActorsBound
    <3>4. zoneID[p] = z /\ BoundFor(p, z)
      BY <2>1, <2>7, <3>3 DEF ActorsBound, BoundFor
    <3>5. /\ actorVector' \in [Zones -> SUBSET Players]
          /\ \A y \in Zones, q \in Players :
                 q \in actorVector'[y] <=> q \in actorVector[y] /\ q # p
      <4>1. actorVector' = [actorVector EXCEPT ![z] = @ \ {p}]
        BY <2>7 DEF Unregister
      <4>2. actorVector \in [Zones -> SUBSET Players]
        BY <2>1 DEF MapTypeOK
      <4>3. QED BY <3>3, <4>1, <4>2
    <3>6. \A q \in Players, y \in Zones :
              /\ ZoneUnset(q, y)' <=> ZoneUnset(q, y)
              /\ BoundFor(q, y)' <=> BoundFor(q, y)
      BY <2>2 DEF ZoneUnset, BoundFor
    <3>7. \A q \in Players, y \in Zones : OnMap(q, y)' <=> OnMap(q, y)
      BY <2>2, <2>3, <2>7, <3>3, <3>5, NoPlayerAssumption DEF OnMap
    <3>8. SessionsInv'
      <4>1. SessionsApart' /\ HandedOutKept' /\ HandlersEnter' /\ NeverReset'
        BY <2>1, <2>2, <3>2 DEF SessionsApart, HandedOutKept, HandlersEnter, NeverReset
      <4>2. OfferedNotIn'
        <5>1. \A t \in Sessions : offered[t] \subseteq Players
          BY <2>1 DEF SessionTypeOK
        <5>2. QED BY <2>1, <2>2, <2>4, <3>5, <5>1 DEF OfferedNotIn, NoNewMail
      <4>3. QED BY <4>1, <4>2 DEF SessionsInv
    <3>9. MailInv'
      <4>1. EnterBound'
        <5>1. ASSUME NEW y \in Zones, NEW q \in Players, Sent(y, EnterMsg(q))'
              PROVE  BoundFor(q, y) /\ q \notin Pooled /\ q # p
          <6>1. BoundFor(q, y) /\ q \notin Pooled
            BY <2>1, <2>4, <5>1 DEF EnterBound, NoNewMail
          <6>2. ASSUME q = p PROVE FALSE
            <7>1. y = z
              BY <3>1, <3>4, <6>1, <6>2, <1>onezone
            <7>2. Before(z, LeaveMsg(s), EnterMsg(p))
              BY <2>4, <5>1, <6>2, <7>1
            <7>3. QED BY <2>1, <2>7, <3>1, <7>2 DEF LeaveLast
          <6>3. QED BY <6>1, <6>2
        <5>2. QED BY <3>2, <3>6, <5>1 DEF EnterBound
      <4>2. MoveBound'
        <5>1. ASSUME NEW y \in Zones, NEW q \in Players, NEW c \in Cells,
                     Sent(y, MoveMsg(q, c))'
              PROVE  q \in actorVector[y] /\ (\A x \in Zones : ~ZoneUnset(q, x)) /\ q # p
          <6>1. q \in actorVector[y] /\ \A x \in Zones : ~ZoneUnset(q, x)
            BY <2>1, <2>4, <5>1 DEF MoveBound, NoNewMail
          <6>2. ASSUME q = p PROVE FALSE
            <7>1. y = z
              BY <3>3, <6>1, <6>2
            <7>2. Before(z, LeaveMsg(s), MoveMsg(p, c))
              BY <2>4, <5>1, <6>2, <7>1
            <7>3. QED BY <2>1, <2>7, <3>1, <7>2 DEF LeaveLast
          <6>3. QED BY <6>1, <6>2
        <5>2. QED BY <3>5, <3>6, <5>1 DEF MoveBound
      <4>3. LeaveLast'
        BY <2>1, <2>2, <2>4 DEF LeaveLast, NoNewMail
      <4>4. QED BY <4>1, <4>2, <4>3 DEF MailInv
    <3>10. ActorsBound'
      BY <2>1, <3>5, <3>6 DEF ActorsBound
    <3>11. PlacesInv'
      <4>1. AwayAtSpawn'
        BY <2>1, <2>2, <3>2, <3>5 DEF AwayAtSpawn
      <4>2. PlayingIn'
        <5>1. ASSUME NEW t \in Sessions, inGame[t], link[t] = "open"
              PROVE  \E y \in Zones : currentPlayer[t] \in actorVector'[y]
          <6>1. currentPlayer[t] \in Players /\ t # s
            BY <2>1, <2>5, <5>1 DEF SessionTypeOK
          <6>2. currentPlayer[t] # p
            BY <2>1, <2>7, <6>1 DEF SessionsApart
          <6>3. QED BY <2>1, <3>5, <5>1, <6>1, <6>2 DEF PlayingIn
        <5>2. QED BY <2>2, <5>1 DEF PlayingIn
      <4>3. LeavingPooled'
        BY <2>2, <2>3, <2>7, <3>1, <3>2, <3>4 DEF LeavingPooled
      <4>4. QED BY <3>10, <4>1, <4>2, <4>3 DEF PlacesInv
    <3>12. PooledUnused'
      <4>1. ASSUME NEW q \in Pooled'
            PROVE  /\ \A y \in Zones : q \notin actorVector'[y]
                   /\ \A t \in Sessions : currentPlayer[t] = q => link[t] = "closed"
        <5>1. CASE q = p
          BY <2>1, <2>5, <2>7, <3>1, <3>5, <5>1 DEF SessionsApart
        <5>2. CASE q # p
          <6>1. q \in Pooled
            BY <3>2, <4>1, <5>2
          <6>2. \A y \in Zones : q \notin actorVector[y]
            BY <2>1, <6>1 DEF PooledUnused
          <6>3. \A y \in Zones : q \notin actorVector'[y]
            BY <3>5, <6>2
          <6>4. QED BY <2>1, <6>1, <6>3 DEF PooledUnused
        <5>3. QED BY <5>1, <5>2
      <4>2. QED BY <2>2, <4>1 DEF PooledUnused
    <3>13. GridMatchesPosition' /\ ListedOnce'
      <4>1. \A y \in Zones : actorVector'[y] \subseteq actorVector[y]
        BY <3>5
      <4>2. QED BY <2>2, <3>7, <3>10, <4>1, <1>kept
    <3>14. QED BY <3>8, <3>9, <3>11, <3>12, <3>13 DEF PlacementInv
  <2>8. QED BY <2>3, <2>6, <2>7 DEF RunLeaveGame
  (* The rest of LeaveGame finds it where it was. *)
<1>left. ASSUME Known, FinishLeaveGame
         PROVE  PlacementInv'
  <2> USE <1>left
  <2>1. /\ SessionsApart /\ HandedOutKept /\ HandlersEnter /\ NeverReset
        /\ OfferedNotIn /\ EnterBound /\ MoveBound /\ LeaveLast
        /\ ActorsBound /\ AwayAtSpawn /\ PlayingIn /\ LeavingPooled
        /\ PooledUnused /\ GridMatchesPosition /\ ListedOnce /\ Orderly
        /\ QueueTypeOK /\ MapTypeOK /\ SessionTypeOK /\ ThreadTypeOK
    BY DEF Known, SessionsInv, MailInv, PlacesInv, TypeOK
  <2>2. /\ UNCHANGED <<playerPool, playerIdx, zoneID, pos, actorVector, link,
                       currentPlayer, offered, inGame, worker, tickZone>>
        /\ leaving # NoPlayer /\ leaving' = NoPlayer /\ NoNewMail
    BY <2>1, CallTakesFirst DEF FinishLeaveGame, ApplyLeave, managerVars,
       sessionVars, queueVars
  <2>3. PICK z \in Zones, p \in Players :
            /\ z = tickZone /\ p = leaving /\ p \in Pooled /\ zoneID[p] = z
            /\ ApplyLeave(z, p)
    BY <2>1, <2>2 DEF QueueTypeOK, ThreadTypeOK, LeavingPooled, FinishLeaveGame
  <2>4. \A y \in Zones : p \notin actorVector[y]
    BY <2>1, <2>3 DEF PooledUnused
  <2>5. /\ \A y \in Zones, c \in Cells :
               ObjectBuf'[y][c] = IF y = z /\ c = pos[p] /\ ObjectBuf[y][c] = p
                                  THEN NoPlayer ELSE ObjectBuf[y][c]
        /\ \A y \in Zones, k \in Sections, q \in Players :
               section'[y][k][q] = IF y = z /\ k = SectionOf[pos[p]] /\ q = p
                                   THEN 0 ELSE section[y][k][q]
    BY <2>1, <2>3, <1>leaveEffect
  <2>6. \A q \in Players, y \in Zones :
            /\ ZoneUnset(q, y)' <=> ZoneUnset(q, y)
            /\ BoundFor(q, y)' <=> BoundFor(q, y)
            /\ OnMap(q, y) <=> q \in actorVector[y] \/ (q = p /\ y = z)
            /\ OnMap(q, y)' <=> q \in actorVector[y]
    BY <2>2, <2>3, NoPlayerAssumption DEF ZoneUnset, BoundFor, OnMap
  <2>7. Pooled' = Pooled
    BY <2>2 DEF Pooled
  <2>8. SessionsInv'
    <3>1. SessionsApart' /\ HandedOutKept' /\ HandlersEnter' /\ NeverReset'
      BY <2>1, <2>2 DEF SessionsApart, HandedOutKept, HandlersEnter, NeverReset
    <3>2. OfferedNotIn'
      BY <2>1, <2>2 DEF OfferedNotIn, NoNewMail
    <3>3. QED BY <3>1, <3>2 DEF SessionsInv
  <2>9. MailInv'
    <3>1. EnterBound'
      BY <2>1, <2>2, <2>6, <2>7 DEF EnterBound, NoNewMail
    <3>2. MoveBound'
      BY <2>1, <2>2, <2>6 DEF MoveBound, NoNewMail
    <3>3. LeaveLast'
      BY <2>1, <2>2 DEF LeaveLast, NoNewMail
    <3>4. QED BY <3>1, <3>2, <3>3 DEF MailInv
  <2>10. PlacesInv'
    <3>1. ActorsBound'
      BY <2>1, <2>2, <2>6 DEF ActorsBound, MapTypeOK
    <3>2. AwayAtSpawn' /\ PlayingIn' /\ LeavingPooled'
      BY <2>1, <2>2, <2>7 DEF AwayAtSpawn, PlayingIn, LeavingPooled
    <3>3. QED BY <3>1, <3>2 DEF PlacesInv
  <2>11. PooledUnused'
    BY <2>1, <2>2, <2>7 DEF PooledUnused
  <2>12. GridMatchesPosition'
    <3>1. ASSUME NEW y \in Zones, NEW c \in Cells, NEW q, ObjectBuf'[y][c] = q,
                 q # NoPlayer
          PROVE  pos[q] = c /\ OnMap(q, y)'
      <4>1. ObjectBuf[y][c] = q
        BY <2>5, <3>1
      <4>2. q \in Players /\ pos[q] = c /\ OnMap(q, y)
        BY <2>1, <3>1, <4>1 DEF GridMatchesPosition, MapTypeOK
      <4>3. ~(q = p /\ y = z)
        BY <2>5, <3>1, <4>1, <4>2
      <4>4. QED BY <2>6, <4>2, <4>3
    <3>2. ASSUME NEW y \in Zones, NEW q \in actorVector[y], pos[q] # Spawn
          PROVE  ObjectBuf'[y][pos[q]] = q
      <4>1. q # p /\ pos[q] \in Cells /\ ObjectBuf[y][pos[q]] = q
        BY <2>1, <2>4, <3>2 DEF GridMatchesPosition, MapTypeOK
      <4>2. QED BY <2>5, <4>1
    <3>3. QED BY <2>2, <3>1, <3>2 DEF GridMatchesPosition
  <2>13. ListedOnce'
    <3>1. ASSUME NEW y \in Zones, NEW q \in Players
          PROVE  q \in actorVector'[y] => (zoneID[q] = y \/ ZoneUnset(q, y))'
      BY <2>10 DEF PlacesInv, ActorsBound, BoundFor
    <3>2. ASSUME NEW y \in Zones, NEW q \in Players, NEW k \in Sections
          PROVE  section'[y][k][q] =
                     IF OnMap(q, y)' /\ k = SectionOf[pos[q]] THEN 1 ELSE 0
      <4>1. section[y][k][q] = IF OnMap(q, y) /\ k = SectionOf[pos[q]] THEN 1 ELSE 0
        BY <2>1 DEF ListedOnce
      <4>2. QED BY <2>4, <2>5, <2>6, <4>1
    <3>3. QED BY <2>2, <3>1, <3>2 DEF ListedOnce
  <2>14. QED BY <2>8, <2>9, <2>10, <2>11, <2>12, <2>13 DEF PlacementInv
<1>init. Init => PlacementInv
  <2> SUFFICES ASSUME Init PROVE PlacementInv
    OBVIOUS
  <2> USE DEF Init
  <2>1. \A z \in Zones : Mail[z] = <<>>
    BY EmptySeq, ConcatEmptySeq DEF QueueInit, Mail
  <2>2. /\ \A z \in Zones : \A m : ~Sent(z, m)
        /\ \A z \in Zones : \A m, n : ~Before(z, m, n)
    BY <2>1, EmptySeq DEF Sent, Before
  <2>3. /\ \A s \in Sessions : /\ worker[s].pc = "idle"
                               /\ currentPlayer[s] = NoPlayer
        /\ playerIdx = 0 /\ leaving = NoPlayer
    BY DEF Idle, ManagerInit
  <2>4. /\ \A z \in Zones : actorVector[z] = {}
        /\ \A p \in Players : zoneID[p] = 0 /\ pos[p] = Spawn
        /\ \A z \in Zones, c \in Cells : ObjectBuf[z][c] = NoPlayer
        /\ \A z \in Zones, k \in Sections, p \in Players : section[z][k][p] = 0
    BY DEF MapInit
  <2>5. SessionsInv
    <3>1. SessionsApart /\ HandlersEnter /\ NeverReset /\ OfferedNotIn
      BY <2>3, NoPlayerAssumption
         DEF SessionsApart, HandlersEnter, NeverReset, OfferedNotIn
    <3>2. HandedOutKept
      BY <2>3, MaxPlayersAssumption DEF HandedOutKept, Players
    <3>3. QED BY <3>1, <3>2 DEF SessionsInv
  <2>6. MailInv
    BY <2>2 DEF MailInv, EnterBound, MoveBound, LeaveLast
  <2>7. PlacesInv
    BY <2>3, <2>4 DEF PlacesInv, ActorsBound, AwayAtSpawn, PlayingIn, LeavingPooled
  <2>8. GridMatchesPosition
    BY <2>4 DEF GridMatchesPosition
  <2>9. ListedOnce
    <3>1. ASSUME NEW z \in Zones, NEW p \in Players PROVE ~OnMap(p, z)
      BY <2>3, <2>4, NoPlayerAssumption DEF OnMap
    <3>2. QED BY <2>4, <3>1 DEF ListedOnce
  <2>10. PooledUnused
    <3>1. Pooled \subseteq Players
      BY MaxPlayersAssumption DEF ManagerInit, Pooled, Players
    <3>2. QED BY <2>3, <2>4, <3>1, NoPlayerAssumption DEF PooledUnused
  <2>11. QED BY <2>5, <2>6, <2>7, <2>8, <2>9, <2>10 DEF PlacementInv
<1>next. ASSUME Known, Next PROVE PlacementInv'
  <2>1. QueueTypeOK /\ SessionTypeOK /\ Orderly
    BY <1>next DEF Known, TypeOK
  <2>2. ASSUME NEW s \in Sessions, RequestLogin(s) \/ LoginExhausted(s) \/ LoginFail(s)
        PROVE  PlacementInv'
    <3>1. UNCHANGED <<managerVars, queueVars, mapVars, link, currentPlayer,
                      offered, inGame, worker, leaving>>
      BY <2>2 DEF RequestLogin, LoginExhausted, LoginFail, sessionVars
    <3>2. NoNewMail
      BY <2>1, <3>1, CallTakesFirst
    <3>3. QED BY <1>next, <3>1, <3>2, <1>nothing DEF managerVars, queueVars
  <2>3. ASSUME NEW s \in Sessions, Client(s)
        PROVE  PlacementInv'
    BY <1>next, <2>1, <2>2, <2>3, <1>enterRequested, <1>moveRequested, <1>disconnected
       DEF Client, Orderly
  <2>4. ASSUME NEW s \in Sessions, DBAnswer(s)
        PROVE  PlacementInv'
    BY <1>next, <2>2, <2>4, <1>loggedIn DEF DBAnswer
  <2>5. CASE UpdateZone
    <3>1. /\ UNCHANGED <<managerVars, mapVars, sessionVars, worker, leaving>>
          /\ leaving = NoPlayer /\ NoNewMail
      BY <2>1, <2>5, CallTakesFirst DEF UpdateZone
    <3>2. QED BY <1>next, <3>1, <1>nothing DEF managerVars, sessionVars
  <2>6. CASE Tick
    BY <1>next, <2>5, <2>6, <1>enters, <1>moves, <1>leaves, <1>left
       DEF Tick
  <2>7. QED BY <1>next, <2>3, <2>4, <2>6, <1>handler DEF Next
<1>stutter. ASSUME Known, UNCHANGED vars PROVE PlacementInv'
  <2>1. UNCHANGED <<managerVars, queueVars, mapVars, sessionVars, worker, leaving>>
    BY <1>stutter DEF vars
  <2>2. NoNewMail
    BY <1>stutter, <2>1, CallTakesFirst DEF Known, TypeOK
  <2>3. QED BY <1>stutter, <2>1, <2>2, <1>nothing
            DEF managerVars, queueVars, sessionVars
<1>1. TypeOK /\ RosterInv /\ ViewportInv /\ PlacementInv /\ [Next]_vars
          => PlacementInv'
  <2> SUFFICES ASSUME TypeOK, RosterInv, ViewportInv, PlacementInv, [Next]_vars
               PROVE  PlacementInv'
    OBVIOUS
  <2>1. CASE Orderly
    <3>1. Known
      BY <2>1 DEF Known, PlacementInv, ViewportInv, Orderly
    <3>2. QED BY <1>next, <1>stutter, <3>1
  <2>2. CASE ~Orderly
    BY <2>2 DEF PlacementInv, Orderly
  <2>3. QED BY <2>1, <2>2
<1>2. QED BY <1>init, <1>1, TypeCorrect, RosterCorrect, CrashWindow, PTL DEF Spec
-----------------------------------------------------------------------------
(* The theorems.                                                           *)

(* Grid and positions agree, whatever the sizes: the map's cells hold      *)
(* players that stand there, and no two players share a cell they moved    *)
(* to (Map.cpp 68-139, Zone.cpp 223-327).                                  *)
THEOREM GridIsRight == Spec => []GridMatchesPosition
<1>1. PlacementInv => GridMatchesPosition
  BY DEF PlacementInv, GridMatchesPosition
<1>2. QED BY <1>1, PlacementInvariant, PTL

(* A player is in one zone at most, the one its zoneID names or will name, *)
(* and in the vector of one section of it, once (Section.cpp 8-34).        *)
THEOREM SectionsAreRight == Spec => []ListedOnce
<1>1. PlacementInv => ListedOnce
  BY DEF PlacementInv, ListedOnce
<1>2. QED BY <1>1, PlacementInvariant, PTL

(* No zone and no connected session uses a Player object that is back in   *)
(* the pool (PlayerManager.cpp 19-41).                                     *)
THEOREM PoolIsUnused == Spec => []PooledUnused
<1>1. PlacementInv => PooledUnused
  BY DEF PlacementInv, PooledUnused
<1>2. QED BY <1>1, PlacementInvariant, PTL
=============================================================================
