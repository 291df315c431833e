------------------------------ MODULE GameWorld ------------------------------
(***************************************************************************)
(* The game server: client sessions, the worker threads that handle their  *)
(* packets, the DB answers, and the tick thread that runs the zones.       *)
(*                                                                         *)
(* A session has one receive outstanding, so its packets are handled one   *)
(* at a time, each by some worker thread.  A handler's accesses to what    *)
(* other threads use are separate steps: worker[s] is where the handler of *)
(* session s stands.  The tick thread's steps are the closures it calls;   *)
(* Zone::LeaveGame is two steps wherever it runs, with the departing       *)
(* player back in the pool between them.                                   *)
(*                                                                         *)
(* Closures and statements that only send packets are left out, except     *)
(* for the replies that the client waits for before its next request.      *)
(***************************************************************************)
EXTENDS ZoneMap

CONSTANTS
    Sessions,       \* the accepted connections; a session is never reused
    MaxLogins,      \* bound: RequestLogins a client sends in a session
    MaxTeleports,   \* bound: RequestTeleports a client sends in a session
    MaxQueue,       \* bound: a client sends no move to a longer queue
    Portals,        \* the zones that the portals of the maps lead to
    Resets,         \* the sessions that a failed send may disconnect
    NoSession       \* the null ClientSessionPtr

ASSUME SessionAssumption ==
    /\ MaxLogins \in Nat /\ MaxTeleports \in Nat /\ MaxQueue \in Nat
    /\ Portals \subseteq Zones
    /\ Resets \subseteq Sessions
    /\ NoSession \notin Sessions

VARIABLES
    link,           \* is the session connected, and may data still arrive?
    currentPlayer,  \* ClientSession::currentPlayer
    ownerSession,   \* Player::ownerSession
    viewport,       \* is Player::viewport set?
    worker,         \* the packet handler under way in each session
    leaving,        \* the player the tick thread is half through removing
    logins,         \* RequestLogins sent
    pendingLogins,  \* of these, how many the DB has not answered
    teleports,      \* RequestTeleports sent
    offered,        \* players of ReturnLogins the client has not answered
    inGame,         \* has the client received a ReturnEnterGame?
    crashed         \* the process is gone

sessionVars == <<link, currentPlayer, ownerSession, logins, pendingLogins,
                 teleports, offered, inGame>>
vars == <<managerVars, queueVars, mapVars, sessionVars, viewport, worker,
          leaving, crashed>>

Idle == [pc |-> "idle", player |-> NoPlayer, from |-> 0, to |-> 0]

EnterMsg(p) == [type |-> "EnterGame", player |-> p]
MoveMsg(p, c) == [type |-> "HandleMove", player |-> p, cell |-> c]
LeaveMsg(s) == [type |-> "LeaveGame", session |-> s]

Messages ==
    {EnterMsg(p) : p \in Players}
      \cup {MoveMsg(p, c) : p \in Players, c \in Cells}
      \cup {LeaveMsg(s) : s \in Sessions}

Handlers == [pc : {"idle", "viewport", "zone", "position", "leave",
                   "applyLeave", "enter"},
             player : Players \cup {NoPlayer}, from : Zones, to : Zones]

QueueTypeOK ==
    /\ messageQueue \in [Zones -> Seq(Messages)]
    /\ messageVector \in Seq(Messages)
    /\ tickZone \in Zones

SessionTypeOK ==
    /\ link \in [Sessions -> {"open", "reset", "closed"}]
    /\ currentPlayer \in [Sessions -> Players \cup {NoPlayer}]
    /\ ownerSession \in [Players -> Sessions \cup {NoSession}]
    /\ logins \in [Sessions -> Nat]
    /\ pendingLogins \in [Sessions -> Nat]
    /\ teleports \in [Sessions -> Nat]
    /\ offered \in [Sessions -> SUBSET Players]
    /\ inGame \in [Sessions -> BOOLEAN]
    /\ \A s \in Sessions : inGame[s] => currentPlayer[s] \in Players

ThreadTypeOK ==
    /\ viewport \in [Players -> BOOLEAN]
    /\ worker \in [Sessions -> Handlers]
    /\ \A s \in Sessions :
           worker[s].pc # "idle" => worker[s].player \in Players
    /\ leaving \in Players \cup {NoPlayer}
    /\ crashed \in BOOLEAN

TypeOK ==
    ManagerTypeOK /\ QueueTypeOK /\ MapTypeOK /\ SessionTypeOK /\ ThreadTypeOK

Init ==
    /\ ManagerInit
    /\ QueueInit
    /\ MapInit
    /\ link = [s \in Sessions |-> "open"]
    /\ currentPlayer = [s \in Sessions |-> NoPlayer]
    /\ ownerSession = [p \in Players |-> NoSession]
    /\ viewport = [p \in Players |-> FALSE]
    /\ worker = [s \in Sessions |-> Idle]
    /\ leaving = NoPlayer
    /\ logins = [s \in Sessions |-> 0]
    /\ pendingLogins = [s \in Sessions |-> 0]
    /\ teleports = [s \in Sessions |-> 0]
    /\ offered = [s \in Sessions |-> {}]
    /\ inGame = [s \in Sessions |-> FALSE]
    /\ crashed = FALSE
-----------------------------------------------------------------------------
(* Logging in.                                                             *)

(* A recv completion hands the session's next packet to a worker.  After   *)
(* a reset, packets that had already arrived are still handled.            *)
CanHandle(s) == link[s] \in {"open", "reset"} /\ worker[s].pc = "idle"

RequestLogin(s) ==
    /\ link[s] = "open" /\ worker[s].pc = "idle"
    /\ logins[s] < MaxLogins
    /\ logins' = [logins EXCEPT ![s] = @ + 1]
    /\ pendingLogins' = [pendingLogins EXCEPT ![s] = @ + 1]
    /\ UNCHANGED <<managerVars, queueVars, mapVars, link, currentPlayer,
                   ownerSession, teleports, offered, inGame, viewport, worker, leaving,
                   crashed>>

(* LoginPlayerDBMessage::OnSuccess, on a worker, whatever has become of    *)
(* the session.  The reply reaches the client if it is still connected.    *)
LoginSuccess(s) ==
    /\ pendingLogins[s] > 0
    /\ pendingLogins' = [pendingLogins EXCEPT ![s] = @ - 1]
    /\ \E p \in Players :
           /\ NewPlayer(p)
           /\ pos' = [pos EXCEPT ![p] = Spawn]
           /\ zoneID' = [zoneID EXCEPT ![p] = 0]
           /\ ownerSession' = [ownerSession EXCEPT ![p] = s]
           /\ currentPlayer' = [currentPlayer EXCEPT ![s] = p]
           /\ offered' = IF link[s] = "open"
                         THEN [offered EXCEPT ![s] = @ \cup {p}]
                         ELSE offered
    /\ UNCHANGED <<queueVars, placeVars, link, logins, teleports, inGame,
                   viewport, worker, leaving, crashed>>

(* front() of an empty pool: the shared_ptr read is no pointer. *)
LoginExhausted(s) ==
    /\ pendingLogins[s] > 0
    /\ playerPool = <<>>
    /\ crashed' = TRUE
    /\ UNCHANGED <<managerVars, queueVars, mapVars, sessionVars, viewport,
                   worker, leaving>>

(* LoginPlayerDBMessage::OnFail: the client does not go on. *)
LoginFail(s) ==
    /\ pendingLogins[s] > 0
    /\ pendingLogins' = [pendingLogins EXCEPT ![s] = @ - 1]
    /\ UNCHANGED <<managerVars, queueVars, mapVars, link, currentPlayer,
                   ownerSession, logins, teleports, offered, inGame, viewport,
                   worker, leaving, crashed>>
-----------------------------------------------------------------------------
(* Packets of a player: Handle_PKT_CS_ENTER_GAME, _MOVE and _TELEPORT.     *)

(* The client answers a ReturnLogin with the id it carried and a zone.     *)
RequestEnterGame(s, p, z) ==
    /\ CanHandle(s)
    /\ p \in offered[s]
    /\ offered' = [offered EXCEPT ![s] = @ \ {p}]
    /\ \/ /\ currentPlayer[s] # p
          /\ UNCHANGED <<queueVars, worker>>
       \/ /\ currentPlayer[s] = p
          /\ Push(z, EnterMsg(p))
          /\ worker' = [worker EXCEPT ![s] =
                 [pc |-> "viewport", player |-> p, from |-> z, to |-> z]]
    /\ UNCHANGED <<managerVars, mapVars, link, currentPlayer, ownerSession,
                   logins, pendingLogins, teleports, inGame, viewport, leaving,
                   crashed>>

(* Faults: the handler forgets the viewport, or the zone. *)
EnterForgetsViewport(s) ==
    /\ worker[s].pc = "viewport"
    /\ worker' = [worker EXCEPT ![s].pc = "zone"]
    /\ UNCHANGED <<managerVars, queueVars, mapVars, sessionVars, viewport,
                   leaving, crashed>>

EnterForgetsZone(s) ==
    /\ worker[s].pc = "zone"
    /\ worker' = [worker EXCEPT ![s] = Idle]
    /\ UNCHANGED <<managerVars, queueVars, mapVars, sessionVars, viewport,
                   leaving, crashed>>

(* The rest of the handler, after the closure has been pushed. *)
EnterSetsViewport(s) ==
    /\ worker[s].pc = "viewport"
    /\ viewport' = [viewport EXCEPT ![worker[s].player] = TRUE]
    /\ worker' = [worker EXCEPT ![s].pc = "zone"]
    /\ UNCHANGED <<managerVars, queueVars, mapVars, sessionVars, leaving,
                   crashed>>

EnterSetsZone(s) ==
    /\ worker[s].pc = "zone"
    /\ zoneID' = [zoneID EXCEPT ![worker[s].player] = worker[s].to]
    /\ worker' = [worker EXCEPT ![s] = Idle]
    /\ UNCHANGED <<managerVars, queueVars, pos, placeVars, sessionVars,
                   viewport, leaving, crashed>>

(* The client moves to any cell: the server does not compare it with the   *)
(* player's position.                                                      *)
RequestMove(s, c) ==
    LET p == currentPlayer[s]
    IN  /\ CanHandle(s)
        /\ inGame[s]
        /\ Len(messageQueue[zoneID[p]]) < MaxQueue
        /\ Push(zoneID[p], MoveMsg(p, c))
        /\ UNCHANGED <<managerVars, mapVars, sessionVars, viewport, worker,
                       leaving, crashed>>

(* The portal's packet has no position, and the unset one reads as Spawn.  *)
RequestTeleport(s, z) ==
    LET p == currentPlayer[s]
    IN  /\ CanHandle(s)
        /\ inGame[s]
        /\ teleports[s] < MaxTeleports
        /\ teleports' = [teleports EXCEPT ![s] = @ + 1]
        /\ zoneID' = [zoneID EXCEPT ![p] = z]
        /\ worker' = [worker EXCEPT ![s] =
               [pc |-> "position", player |-> p, from |-> zoneID[p], to |-> z]]
        /\ UNCHANGED <<managerVars, queueVars, pos, placeVars, link,
                       currentPlayer, ownerSession, logins, pendingLogins,
                       offered, inGame, viewport, leaving, crashed>>

TeleportSetsPosition(s) ==
    /\ worker[s].pc = "position"
    /\ pos' = [pos EXCEPT ![worker[s].player] = Spawn]
    /\ worker' = [worker EXCEPT ![s].pc = "leave"]
    /\ UNCHANGED <<managerVars, queueVars, zoneID, placeVars, sessionVars,
                   viewport, leaving, crashed>>

TeleportEnters(s) ==
    /\ worker[s].pc = "enter"
    /\ Push(worker[s].to, EnterMsg(worker[s].player))
    /\ worker' = [worker EXCEPT ![s] = Idle]
    /\ UNCHANGED <<managerVars, mapVars, sessionVars, viewport, leaving,
                   crashed>>
-----------------------------------------------------------------------------
(* Zone::LeaveGame: find and unregister the actor and return it to the     *)
(* pool, then take it off the map.  An actor that is not found is left be. *)

Unregister(z, p) ==
    /\ actorVector' = [actorVector EXCEPT ![z] = @ \ {p}]
    /\ DeletePlayer(p)

TeleportLeaves(s) ==
    LET p == worker[s].player
        z == worker[s].from
    IN  /\ worker[s].pc = "leave"
        /\ \/ /\ p \in actorVector[z]
              /\ Unregister(z, p)
              /\ worker' = [worker EXCEPT ![s].pc = "applyLeave"]
           \/ /\ p \notin actorVector[z]
              /\ worker' = [worker EXCEPT ![s].pc = "enter"]
              /\ UNCHANGED <<managerVars, actorVector>>
        /\ UNCHANGED <<queueVars, zoneID, pos, ObjectBuf, section, sessionVars,
                       viewport, leaving, crashed>>

TeleportAppliesLeave(s) ==
    /\ worker[s].pc = "applyLeave"
    /\ ApplyLeave(worker[s].from, worker[s].player)
    /\ worker' = [worker EXCEPT ![s].pc = "enter"]
    /\ UNCHANGED <<managerVars, queueVars, sessionVars, viewport, leaving,
                   crashed>>
-----------------------------------------------------------------------------
(* ClientSession::OnDisconnected.  After an orderly close no data is left  *)
(* to receive and no handler is running; a send that fails disconnects the *)
(* session from another worker at any time.                                *)

Disconnect(s) ==
    /\ link[s] = "open"
    /\ \/ /\ worker[s].pc = "idle"
          /\ link' = [link EXCEPT ![s] = "closed"]
       \/ /\ s \in Resets
          /\ link' = [link EXCEPT ![s] = "reset"]
    /\ IF currentPlayer[s] = NoPlayer THEN UNCHANGED queueVars
       ELSE Push(zoneID[currentPlayer[s]], LeaveMsg(s))
    /\ UNCHANGED <<managerVars, mapVars, currentPlayer, ownerSession, logins,
                   pendingLogins, teleports, offered, inGame, viewport, worker,
                   leaving, crashed>>
-----------------------------------------------------------------------------
(* The tick thread.                                                        *)

UpdateZone ==
    /\ leaving = NoPlayer
    /\ FlushNext
    /\ UNCHANGED <<managerVars, mapVars, sessionVars, viewport, worker, leaving,
                   crashed>>

(* Section::PlayerViewportUpdate of section k of zone z, as the step       *)
(* leaves it, calls through the viewport of every player it lists; one     *)
(* that has none has never been updated, so the 100ms wait is over for it. *)
ViewportUpdateCrashes(z, k) ==
    \E p \in Players : section'[z][k][p] > 0 /\ ~viewport[p]

(* ReturnEnterGame goes to the session that logged the player in. *)
EntersGame(p) ==
    inGame' = [s \in Sessions |->
                  inGame[s] \/ (ownerSession[p] = s /\ link[s] = "open")]

RunEnterGame(p) ==
    /\ leaving = NoPlayer
    /\ Call(EnterMsg(p))
    /\ \/ /\ p \in actorVector[tickZone]
          /\ UNCHANGED <<mapVars, inGame, crashed>>
       \/ /\ p \notin actorVector[tickZone]
          /\ PlaceInZone(tickZone, p)
          /\ EntersGame(p)
          /\ crashed' = ViewportUpdateCrashes(tickZone, SectionOf[pos[p]])
    /\ UNCHANGED <<managerVars, link, currentPlayer, ownerSession, logins,
                   pendingLogins, teleports, offered, viewport, worker, leaving>>

(* Zone::HandleMove: a move to another cell needs CanGo, one onto the      *)
(* player's own cell does not but is then refused by ApplyMove instead.    *)
RunHandleMove(p, c) ==
    /\ leaving = NoPlayer
    /\ Call(MoveMsg(p, c))
    /\ \/ /\ CanGo(tickZone, c)
          /\ ApplyMove(tickZone, p, c)
          /\ crashed' = ViewportUpdateCrashes(tickZone, SectionOf[c])
       \/ /\ ~CanGo(tickZone, c)
          /\ UNCHANGED mapVars
          /\ crashed' = (c = pos[p] /\
                         ViewportUpdateCrashes(tickZone, SectionOf[c]))
    /\ UNCHANGED <<managerVars, sessionVars, viewport, worker, leaving>>

(* The closure of OnDisconnected reads currentPlayer when it is called. *)
RunLeaveGame(s) ==
    LET p == currentPlayer[s]
    IN  /\ leaving = NoPlayer
        /\ Call(LeaveMsg(s))
        /\ \/ /\ p \in actorVector[tickZone]
              /\ Unregister(tickZone, p)
              /\ leaving' = p
           \/ /\ p \notin actorVector[tickZone]
              /\ UNCHANGED <<managerVars, actorVector, leaving>>
        /\ UNCHANGED <<zoneID, pos, ObjectBuf, section, sessionVars, viewport,
                       worker, crashed>>

FinishLeaveGame ==
    /\ leaving # NoPlayer
    /\ ApplyLeave(tickZone, leaving)
    /\ leaving' = NoPlayer
    /\ UNCHANGED <<managerVars, queueVars, sessionVars, viewport, worker,
                   crashed>>

-----------------------------------------------------------------------------
Client(s) ==
    \/ RequestLogin(s)
    \/ \E p \in Players, z \in Zones : RequestEnterGame(s, p, z)
    \/ \E c \in Cells : RequestMove(s, c)
    \/ \E z \in Portals : RequestTeleport(s, z)
    \/ Disconnect(s)

Handler(s) ==
    \/ EnterSetsViewport(s)
    \/ EnterSetsZone(s)
    \/ TeleportSetsPosition(s)
    \/ TeleportLeaves(s)
    \/ TeleportAppliesLeave(s)
    \/ TeleportEnters(s)

DBAnswer(s) == LoginSuccess(s) \/ LoginExhausted(s) \/ LoginFail(s)

Tick ==
    \/ UpdateZone
    \/ \E p \in Players : RunEnterGame(p)
    \/ \E p \in Players, c \in Cells : RunHandleMove(p, c)
    \/ \E s \in Sessions : RunLeaveGame(s)
    \/ FinishLeaveGame

Next ==
    /\ ~crashed
    /\ \/ \E s \in Sessions : Client(s) \/ Handler(s) \/ DBAnswer(s)
       \/ Tick

(* The tick thread loops for ever, a handler that has begun runs on, and   *)
(* the DB thread answers; nothing obliges a client to send anything.       *)
Fairness ==
    /\ WF_vars(~crashed /\ Tick)
    /\ \A s \in Sessions :
           /\ WF_vars(~crashed /\ Handler(s))
           /\ WF_vars(~crashed /\ DBAnswer(s))

Spec == Init /\ [][Next]_vars

FairSpec == Spec /\ Fairness
-----------------------------------------------------------------------------
(* Properties.                                                             *)

(* What the next properties take for granted: the client does not use      *)
(* portals, no send fails before the client closes, it logs in once, and   *)
(* there is a Player object for every login.                               *)
Orderly ==
    /\ Portals = {} /\ Resets = {} /\ MaxLogins = 1
    /\ \E f \in [Sessions -> Players] :
           \A s, t \in Sessions : f[s] = f[t] => s = t

(* p is in zone z, or the tick thread is about to take it off z's map. *)
OnMap(p, z) == p \in actorVector[z] \/ (leaving = p /\ tickZone = z)

(* The roster and the pool are complements of each other for as long as no *)
(* player is handed out twice: AddPlayer files a player under the key that *)
(* DeletePlayer erases (PlayerManager.cpp 19-41), whatever the clients do. *)
RosterComplementsPool ==
    playerIdx <= MaxPlayers =>
        AllPlayerInfo = {<<p, p>> : p \in Players \ Pooled}

(* Grid and positions agree: a cell of a zone's map that holds p is p's    *)
(* own position, and p is in that zone; and a player that has left the     *)
(* spawn holds its cell, so that no two players share one (Map.cpp 68-139  *)
(* with Zone.cpp 223-327).                                                 *)
GridMatchesPosition ==
    Orderly => \A z \in Zones :
        /\ \A c \in Cells :
               LET p == ObjectBuf[z][c]
               IN  p # NoPlayer => pos[p] = c /\ OnMap(p, z)
        /\ \A p \in actorVector[z] :
               pos[p] # Spawn => ObjectBuf[z][pos[p]] = p

(* The handler that sent p to zone z has still to set p's zoneID. *)
ZoneUnset(p, z) ==
    \E s \in Sessions :
        /\ worker[s].pc \in {"viewport", "zone"}
        /\ worker[s].player = p /\ worker[s].to = z

(* Broadcasts and viewports reach a player exactly once: it is in no zone  *)
(* but the one its zoneID names, or will name, and listed once in the      *)
(* section of its position there, and in no other section.                 *)
ListedOnce ==
    Orderly => \A z \in Zones, p \in Players :
        /\ p \in actorVector[z] => zoneID[p] = z \/ ZoneUnset(p, z)
        /\ \A k \in Sections :
               section[z][k][p] =
                   IF OnMap(p, z) /\ k = SectionOf[pos[p]] THEN 1 ELSE 0

(* A player that is back in the pool is used by nobody: it is in no zone,  *)
(* and the session that logged it in has ended.                            *)
PooledUnused ==
    Orderly => \A p \in Pooled :
        /\ \A z \in Zones : p \notin actorVector[z]
        /\ \A s \in Sessions : currentPlayer[s] = p => link[s] = "closed"

(* A closure the tick thread calls goes through a null viewport only in    *)
(* the window that Handle_PKT_CS_ENTER_GAME leaves between pushing         *)
(* EnterGame and setting the viewport (ClientPacketHandler.cpp 105-106):   *)
(* clients that log in once bring the tick thread down at no other time,   *)
(* with portals, failing sends and players used again too.                 *)
CrashNeedsEnterWindow ==
    [][MaxLogins = 1 /\ ~crashed /\ crashed' /\ messageVector' # messageVector
          => \E s \in Sessions : worker[s].pc = "viewport"]_vars

(* What handlers push to a zone is called in the order pushed, each once.  *)
Mailbox == INSTANCE ZoneMailbox WITH mail <- Mail
ZoneQueuesAreMailboxes == Mailbox!Spec

(* A client that disconnects is off its zone in the end, and stays off, and *)
(* its player, if it had entered, is back in the pool; unless the client   *)
(* has gone through a second portal, whose LeaveGame may have come before  *)
(* the EnterGame of the first: nothing recalls that one                    *)
(* (ClientSession.cpp:24, ClientPacketHandler.cpp:197).                    *)
DisconnectedLeaves ==
    \A s \in Sessions :
        link[s] = "closed" /\ teleports[s] <= 1 ~>
            [](\/ crashed
               \/ /\ \A z \in Zones : currentPlayer[s] \notin actorVector[z]
                  /\ inGame[s] => currentPlayer[s] \in Pooled)

(* A RequestEnterGame that the server accepts brings the player into the   *)
(* zone, and its client gets to know, unless it disconnects first.         *)
EnteredGetsIn ==
    \A s \in Sessions :
        worker[s].pc = "viewport" ~> crashed \/ inGame[s] \/ link[s] # "open"

(* A teleport brings the player into the zone it asked for, also when the  *)
(* next one is requested before this one has arrived, unless the client    *)
(* disconnects first.                                                      *)
TeleportArrives ==
    \A s \in Sessions, z \in Portals :
        worker[s].pc = "enter" /\ worker[s].to = z
            ~> crashed \/ currentPlayer[s] \in actorVector[z] \/ link[s] # "open"

(* "Despawn Old" (ClientPacketHandler.cpp:196): when the teleport has run  *)
(* LeaveGame on the zone it left, that zone's map shows the player nowhere.*)
TeleportDespawnsOld ==
    \A s \in Sessions :
        LET w == worker[s]
        IN  w.pc = "enter" /\ w.from # w.to =>
                /\ \A c \in Cells : ObjectBuf[w.from][c] # w.player
                /\ \A k \in Sections : section[w.from][k][w.player] = 0
=============================================================================
