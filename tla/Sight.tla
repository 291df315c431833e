-------------------------------- MODULE Sight --------------------------------
(***************************************************************************)
(* What the clients are shown: the viewports of the players (Viewport.cpp),*)
(* the notices that LeaveGame and OnDead broadcast, and the ObjectManager  *)
(* each client keeps from what it receives, also when it goes through a    *)
(* portal, and when its Player object has been another's, or still is.     *)
(*                                                                         *)
(* A step is a closure on the tick thread, a packet, a login, or a part of *)
(* the handler of RequestEnterGame or RequestTeleport; players do not die  *)
(* here.  A client gets its packets in order, so objects is what it will   *)
(* have when it has handled all that was sent.  Which moves CanGo lets     *)
(* through is GameWorld's subject: here an actor may move to any cell.     *)
(*                                                                         *)
(* Players are objects of a pool.  A login takes one, gives it a new       *)
(* actorid and makes its client the ownerSession; the viewport stays the   *)
(* one of the login before until RequestEnterGame is handled.  LeaveGame   *)
(* gives a player back, that of a portal too, while its client plays on,   *)
(* and leaves it listed where it stood: another client may be given a      *)
(* player that is listed, or in use.  Whatever is sent for the player then *)
(* goes to the new owner.                                                  *)
(*                                                                         *)
(* Each client logs in once; the actorid it is given stands for it, so the *)
(* id of a player is its owner, and that of a monster is the monster.      *)
(* Clients are taken to close, and to enter portals, when no EnterGame of  *)
(* their own waits.                                                        *)
(*                                                                         *)
(* A viewport is updated only when its client asks for it, which the Unity *)
(* client never does, or when somebody enters or moves to a section that   *)
(* lists its player, and its last update is 100 ms old.  A monster is      *)
(* registered without being put into a section; it gets into one with its  *)
(* first step across a border.                                             *)
(***************************************************************************)
EXTENDS Integers, FiniteSets

CONSTANTS
    Players, Monsters,
    Clients,        \* sessions, each with one login
    Nobody,         \* null: no player, no session, no viewport
    Zones,
    EntryZone,      \* where a login puts a player, and a client asks to enter: 0
    MonsterZone,    \* where the NPC server has its monsters: 1
    Portals,        \* the zones that portals lead to
    Cells, Sections,
    SectionOf,      \* Zone::GetSection, from Cells to Sections
    Adjacent,       \* Zone::GetAdjacentSections, from Cells to sets of Sections
    InView,         \* of each cell: the cells at most VIEWPORT_CELL away
    InReach,        \* of each cell: the cells no further than a blow goes, 3
    Spawn,          \* the cell (0,0)
    Address,        \* of every actor: std::set<ActorPtr> is ordered by it
    SpawnLimit,     \* how many actors Update looks at: 51
    MaxTeleports    \* bound: portals gone through

Actors == Players \union Monsters

ASSUME SightAssumption ==
    /\ {EntryZone, MonsterZone} \union Portals \subseteq Zones
    /\ Players \intersect Monsters = {} /\ Clients \intersect Monsters = {}
    /\ Nobody \notin Clients \union Actors
    /\ SectionOf \in [Cells -> Sections]
    /\ Adjacent \in [Cells -> SUBSET Sections]
    /\ InView \in [Cells -> SUBSET Cells] /\ InReach \in [Cells -> SUBSET Cells]
    /\ Spawn \in Cells
    /\ Address \in [Actors -> Nat]
    /\ \A a, b \in Actors : Address[a] = Address[b] => a = b

VARIABLES
    stage,          \* how far a client has come, see Stages
    player,         \* ClientSession::currentPlayer
    from,           \* the zone whose LeaveGame a client is about to cause
    to,             \* the zone a client has asked for
    stragglers,     \* pairs of a client and a zone that its player is not in
                    \* any more, or soon will not be: closures of requests of
                    \* the client may wait there
    teleports,      \* how often a client has gone through a portal
    raced,          \* history: an EnterGame was called before the viewport
                    \* was set
    owner,          \* Player::ownerSession, and so the actorid
    viewer,         \* the client whose RequestEnterGame made the viewport
    pool,           \* how often a player is in playerPool
    zoneID,
    pos,
    actorVector,    \* of each zone: the actors registered
    listed,         \* of each zone: the actors listed in each section
    dead,           \* the monsters whose state is DEAD
    prevActors,     \* of each player's viewport
    objects,        \* the actor ids each client has an object for
    duplicates,     \* the clients that were told to add an id they had: Add
                    \* has thrown, and what they have is not followed further
    misled,         \* history: clients that were sent what was another's:
                    \* actors added to the viewport of another, or the
                    \* ReturnEnterGame of another's EnterGame
    excused         \* history: of each viewport, the actors in it that the
                    \* client was not told of, or told have gone, or has
                    \* forgotten in a portal

wayVars == <<stage, player, from, to, stragglers, teleports, raced>>
playerVars == <<owner, viewer, pool>>
placeVars == <<zoneID, pos, actorVector, listed, dead>>
viewVars == <<prevActors, objects, duplicates, misled, excused>>
vars == <<wayVars, playerVars, placeVars, viewVars>>

(* Logged in; RequestEnterGame has pushed its closure, and then set the    *)
(* viewport, unless the closure was called between the two; in the game;   *)
(* RequestTeleport sent, and half handled, and EnterGame pushed; LeaveGame *)
(* pushed by the disconnect.                                               *)
Stages == {"new", "offered", "pushed", "raced", "waiting", "in",
           "asked", "leaving", "arriving", "closing", "gone"}

TypeOK ==
    /\ stage \in [Clients -> Stages]
    /\ player \in [Clients -> Players \union {Nobody}]
    /\ {from, to} \subseteq [Clients -> Zones]
    /\ stragglers \subseteq Clients \X Zones
    /\ teleports \in Nat /\ raced \in BOOLEAN
    /\ {owner, viewer} \subseteq [Players -> Clients \union {Nobody}]
    /\ pool \in [Players -> Nat]
    /\ zoneID \in [Actors -> Zones]
    /\ pos \in [Actors -> Cells]
    /\ actorVector \in [Zones -> SUBSET Actors]
    /\ listed \in [Zones -> [Sections -> SUBSET Actors]]
    /\ dead \subseteq Monsters
    /\ prevActors \in [Players -> SUBSET Actors]
    /\ objects \in [Clients -> SUBSET (Clients \union Monsters)]
    /\ duplicates \subseteq Clients /\ misled \subseteq Clients
    /\ excused \in [Players -> SUBSET Actors]

Init ==
    /\ stage = [c \in Clients |-> "new"]
    /\ player = [c \in Clients |-> Nobody]
    /\ from = [c \in Clients |-> EntryZone] /\ to = from
    /\ stragglers = {} /\ teleports = 0 /\ raced = FALSE
    /\ owner = [p \in Players |-> Nobody] /\ viewer = owner
    /\ pool = [p \in Players |-> 1]
    /\ zoneID = [a \in Actors |-> IF a \in Monsters THEN MonsterZone ELSE EntryZone]
    /\ pos = [a \in Actors |-> Spawn]
    /\ actorVector = [z \in Zones |-> {}]
    /\ listed = [z \in Zones |-> [k \in Sections |-> {}]]
    /\ dead = {}
    /\ prevActors = [p \in Players |-> {}]
    /\ objects = [c \in Clients |-> {}]
    /\ duplicates = {} /\ misled = {}
    /\ excused = [p \in Players |-> {}]

Id(a) == IF a \in Players THEN owner[a] ELSE a

Online == {c \in Clients : stage[c] \notin {"new", "closing", "gone"}}

(* The clients that are sent what is sent for their player, ...            *)
Owning == {c \in Online : player[c] \in Players /\ owner[player[c]] = c}

(* ... and those whose player has the viewport they have asked for.        *)
Served == {c \in Owning : viewer[player[c]] = c}

Registered == Monsters \intersect actorVector[MonsterZone]
-----------------------------------------------------------------------------
(* Viewport::GatherActors and BroadCast, for given values of pos, zoneID   *)
(* and listed.                                                             *)

SectionsAround(c, sections) == UNION {sections[k] : k \in Adjacent[c]}

(* Fault: only the section of the owner is looked at. *)
GatherFromOwnSection(v, place, sections) ==
    {a \in sections[SectionOf[place[v]]] : place[a] \in InView[place[v]]}

GatherActors(v, place, sections) ==
    {a \in SectionsAround(place[v], sections) : place[a] \in InView[place[v]]}

(* The actors that Update looks at before its count ends the loop. *)
Considered(actors) ==
    {a \in actors :
        Cardinality({b \in actors : Address[b] < Address[a]}) < SpawnLimit}

IdsOf(actors) == {Id(a) : a \in actors}

(* Faults: everybody in view is told of each time; the removed are the     *)
(* ones not considered.                                                    *)
AddedEachTime(v) == Considered(prevActors'[v]) \ ({v} \union dead')
RemovedIfNotConsidered(v) ==
    prevActors[v] \ (Considered(prevActors'[v]) \union {v})

(* Told of by Update, whose new prevActors is what it has gathered. *)
Added(v) == Considered(prevActors'[v]) \ (prevActors[v] \union {v} \union dead')
Removed(v) == prevActors[v] \ (prevActors'[v] \union {v})

PrevActors(due) ==
    prevActors' = [v \in Players |->
        IF v \in due THEN GatherActors(v, pos', listed'[zoneID'[v]])
        ELSE prevActors[v]]

(* What a client has after the actors added and removed in the viewport of *)
(* its player v.  Fault: nobody is told of the removed.                    *)
ShownWithoutRemoved(ids, v) == ids \union IdsOf(Added(v))
Shown(ids, v) == (ids \union IdsOf(Added(v))) \ IdsOf(Removed(v))

(* Viewport::Update of the players in due: a NotifySpawn of the added, the *)
(* dead left out, then a NotifyDespawn of those that are there no more,    *)
(* both to the owner.  Before that, the client in greeted was sent a       *)
(* ReturnEnterGame, which shows it its own player.                         *)
Update(due, greeted) ==
    LET updated == {c \in Owning : player[c] \in due}
    IN  /\ PrevActors(due)
        /\ duplicates' = duplicates
               \union {c \in greeted : c \in objects[c]}
               \union {c \in updated : IdsOf(Added(player[c])) \intersect objects[c] # {}}
        /\ objects' = [c \in Clients |->
               LET own == objects[c] \union (greeted \intersect {c})
               IN  IF c \in duplicates' THEN {}
                   ELSE IF c \in updated THEN Shown(own, player[c]) ELSE own]
        /\ excused' = [v \in Players |->
               IF v \in due
               THEN prevActors'[v] \ ((prevActors[v] \union Added(v)) \ excused[v])
               ELSE excused[v]]

(* Those in due that are sent what a viewport of another adds. *)
Misled(due) ==
    {c \in Owning \ Served : player[c] \in due /\ Added(player[c]) # {}}

(* Section::PlayerViewportUpdate: due are those last updated 100 ms ago.   *)
(* All that are listed are updated, whoever has them.                      *)
PlayerViewportUpdate(z, k) ==
    \E due \in SUBSET (Players \intersect listed'[z][k]) :
        Update(due, {}) /\ misled' = misled \union Misled(due)

(* Zone::BroadCast of a NotifyDespawn of a around its place, in zone z. *)
BroadCastDespawn(a, z) ==
    LET audience == {v \in Players \intersect SectionsAround(pos'[a], listed'[z]) :
                        pos'[v] \in InView[pos'[a]]}
    IN  /\ objects' = [c \in Clients |->
               IF c \in Owning /\ player[c] \in audience THEN objects[c] \ {Id(a)}
               ELSE objects[c]]
        /\ excused' = [v \in Players |->
               IF v \in audience THEN excused[v] \union (prevActors[v] \intersect {a})
               ELSE excused[v]]
        /\ UNCHANGED <<prevActors, duplicates, misled>>
-----------------------------------------------------------------------------
(* Logging in and entering.                                                *)

(* The player is in zone z from here on.  Requests its clients have made   *)
(* may still wait in the zone where it was.                                *)
MovesTo(p, z) ==
    /\ zoneID' = [zoneID EXCEPT ![p] = z]
    /\ stragglers' = IF z = zoneID[p] THEN stragglers
                     ELSE stragglers \union
                              {<<c, zoneID[p]>> : c \in {d \in Clients :
                                  player[d] = p /\ stage[d] \in {"in", "asked"}}}

(* LoginPlayerDBMessage::OnSuccess, with any player that is in the pool,   *)
(* though it be in use or listed in some section.                          *)
Login(c, p) ==
    /\ stage[c] = "new"
    /\ pool[p] > 0
    /\ pool' = [pool EXCEPT ![p] = @ - 1]
    /\ stage' = [stage EXCEPT ![c] = "offered"]
    /\ player' = [player EXCEPT ![c] = p]
    /\ owner' = [owner EXCEPT ![p] = c]
    /\ pos' = [pos EXCEPT ![p] = Spawn]
    /\ MovesTo(p, EntryZone)
    /\ excused' = [v \in Players |-> excused[v] \union (prevActors[v] \intersect {p})]
    /\ UNCHANGED <<from, to, teleports, raced, viewer, actorVector, listed, dead,
                   prevActors, objects, duplicates, misled>>

(* The handler of RequestEnterGame pushes the closure, ...                 *)
RequestEnterGame(c) ==
    /\ stage[c] = "offered"
    /\ stage' = [stage EXCEPT ![c] = "pushed"]
    /\ UNCHANGED <<player, from, to, stragglers, teleports, raced, playerVars,
                   placeVars, viewVars>>

(* ... then sets the viewport and the zone. *)
SetViewport(c) ==
    /\ stage[c] \in {"pushed", "raced"}
    /\ stage' = [stage EXCEPT ![c] = IF @ = "raced" THEN "in" ELSE "waiting"]
    /\ viewer' = [viewer EXCEPT ![player[c]] = c]
    /\ prevActors' = [prevActors EXCEPT ![player[c]] = {}]
    /\ excused' = [excused EXCEPT ![player[c]] = {}]
    /\ MovesTo(player[c], EntryZone)
    /\ UNCHANGED <<player, from, to, teleports, raced, owner, pool, pos,
                   actorVector, listed, dead, objects, duplicates, misled>>

(* Zone::EnterGame of p in zone z, for c: the player is put into the       *)
(* section of its cell, and its owner is shown its own player.  (Where the *)
(* viewport is null yet, the process ends: GameWorld has that.)            *)
EntersZone(c, p, z) ==
    LET k == SectionOf[pos[p]]
        greeted == Owning \intersect {owner[p]}
    IN  /\ viewer[p] # Nobody
        /\ actorVector' = [actorVector EXCEPT ![z] = @ \union {p}]
        /\ listed' = [listed EXCEPT ![z][k] = @ \union {p}]
        /\ \E due \in SUBSET (Players \intersect listed'[z][k]) :
               /\ Update(due, greeted)
               /\ misled' = misled \union Misled(due) \union (greeted \ {c})

(* The closure EnterGame, of a RequestEnterGame or a RequestTeleport.      *)
(* Nothing comes of it if the player is registered in the zone.            *)
EnterGame(c) ==
    /\ stage[c] \in {"pushed", "waiting", "arriving"}
    /\ stage' = [stage EXCEPT ![c] = IF @ = "pushed" THEN "raced" ELSE "in"]
    /\ raced' = (raced \/ stage[c] = "pushed")
    /\ to' = [to EXCEPT ![c] = EntryZone]
    /\ stragglers' = stragglers \ {<<c, to[c]>>}
    /\ UNCHANGED <<player, from, teleports, playerVars, zoneID, pos, dead>>
    /\ IF player[c] \in actorVector[to[c]]
       THEN UNCHANGED <<actorVector, listed, viewVars>>
       ELSE EntersZone(c, player[c], to[c])
-----------------------------------------------------------------------------
(* In the game.                                                            *)

(* Closures of requests of c may wait in the queue of zone z: it is where  *)
(* its player is, or was.                                                  *)
Queued(c, z) ==
    \/ <<c, z>> \in stragglers
    \/ stage[c] \in {"in", "asked"} /\ z = zoneID[player[c]]

(* HandleMove in zone z, whose state is never DEAD.  ApplyMove takes the   *)
(* sections of the zone the actor is in by then.                           *)
HandleMove(a, z, dest) ==
    LET k == SectionOf[dest]
    IN  /\ pos' = [pos EXCEPT ![a] = dest]
        /\ listed' = IF k = SectionOf[pos[a]] THEN listed
                     ELSE [listed EXCEPT ![zoneID[a]][SectionOf[pos[a]]] = @ \ {a},
                                         ![zoneID[a]][k] = @ \union {a}]
        /\ dead' = dead \ {a}
        /\ UNCHANGED <<wayVars, playerVars, zoneID, actorVector>>
        /\ PlayerViewportUpdate(z, k)

PlayerMove(c, z, dest) == Queued(c, z) /\ HandleMove(player[c], z, dest)
MonsterMove(m, dest) == m \in Registered /\ HandleMove(m, MonsterZone, dest)

(* RequestViewportUpdate, however old the viewport is. *)
ViewportUpdate(c) ==
    /\ \E z \in Zones : Queued(c, z)
    /\ UNCHANGED <<wayVars, playerVars, placeVars>>
    /\ Update({player[c]}, {})
    /\ misled' = misled \union Misled({player[c]})

(* RequestNpcSpawn: a monster is registered in its zone, at the cell where *)
(* players spawn.                                                          *)
NpcSpawn(m) ==
    /\ m \notin Registered
    /\ actorVector' = [actorVector EXCEPT ![MonsterZone] = @ \union {m}]
    /\ UNCHANGED <<wayVars, playerVars, zoneID, pos, listed, dead, viewVars>>

(* RequestMove of the NPC server: the handler sets the state of the        *)
(* monster at once, on a worker.                                           *)
NpcMove(m) ==
    /\ m \in Registered
    /\ dead' = dead \ {m}
    /\ UNCHANGED <<wayVars, playerVars, zoneID, pos, actorVector, listed, viewVars>>

(* Its second closure, after HandleMove: the section it asked for is       *)
(* updated once more, whether the monster got there or not.                *)
NpcMoveNotice(k) ==
    /\ Registered # {}
    /\ UNCHANGED <<wayVars, playerVars, placeVars>>
    /\ PlayerViewportUpdate(MonsterZone, k)

(* OnDead of a monster: LeaveGame broadcasts its despawn and leaves it     *)
(* where it is, with its hit points back.  It may be killed again.         *)
OnDead(m) ==
    /\ dead' = dead \union {m}
    /\ UNCHANGED <<wayVars, playerVars, zoneID, pos, actorVector, listed>>
    /\ BroadCastDespawn(m, MonsterZone)

(* HandleSkill of a player that is, by then, in reach of a monster of its  *)
(* zone.  A blow that does not kill tells only of hit points.  The skill   *)
(* of a monster does no damage.                                            *)
HandleSkill(c, m) ==
    /\ \E z \in Zones : Queued(c, z)
    /\ m \in Registered
    /\ zoneID[player[c]] = MonsterZone
    /\ pos[m] \in InReach[pos[player[c]]]
    /\ OnDead(m)
-----------------------------------------------------------------------------
(* Leaving, and going through a portal.                                    *)

(* ApplyLeave: out of the section that zoneID and pos name now.  Fault:    *)
(* it stays in it.                                                         *)
LeftListed(p) == listed
Unlisted(p) == [listed EXCEPT ![zoneID[p]][SectionOf[pos[p]]] = @ \ {p}]

(* Zone::LeaveGame of p in zone z, whatever id the player has by now: back *)
(* to the pool, if it is registered there.                                 *)
LeavesZone(p, z) ==
    IF p \in actorVector[z]
    THEN /\ actorVector' = [actorVector EXCEPT ![z] = @ \ {p}]
         /\ pool' = [pool EXCEPT ![p] = @ + 1]
         /\ listed' = Unlisted(p)
         /\ BroadCastDespawn(p, z)
    ELSE UNCHANGED <<actorVector, pool, listed, viewVars>>

(* OnDisconnected pushes LeaveGame to the zone the player is in.  Nothing  *)
(* is kept of the client itself.                                           *)
Disconnect(c) ==
    /\ stage[c] \in {"offered", "in", "asked"}
    /\ stage' = [stage EXCEPT ![c] = "closing"]
    /\ from' = [from EXCEPT ![c] = zoneID[player[c]]]
    /\ to' = [to EXCEPT ![c] = EntryZone]
    /\ stragglers' = IF stage[c] = "offered" THEN stragglers
                     ELSE stragglers \union {<<c, zoneID[player[c]]>>}
    /\ objects' = [objects EXCEPT ![c] = {}]
    /\ duplicates' = duplicates \ {c} /\ misled' = misled \ {c}
    /\ UNCHANGED <<player, teleports, raced, playerVars, placeVars, prevActors,
                   excused>>

LeaveGame(c) ==
    /\ stage[c] = "closing"
    /\ stage' = [stage EXCEPT ![c] = "gone"]
    /\ from' = [from EXCEPT ![c] = EntryZone]
    /\ stragglers' = stragglers \ {<<c, from[c]>>}
    /\ UNCHANGED <<player, to, teleports, raced, owner, viewer, zoneID, pos, dead>>
    /\ LeavesZone(player[c], from[c])

(* Portal.OnTriggerEnter2D: the client drops all its objects, its own      *)
(* player with them, and asks for the zone the portal leads to.  Packets   *)
(* under way to it might as well be sent afterwards.                       *)
EnterPortal(c, z) ==
    /\ stage[c] = "in"
    /\ teleports < MaxTeleports
    /\ teleports' = teleports + 1
    /\ stage' = [stage EXCEPT ![c] = "asked"]
    /\ to' = [to EXCEPT ![c] = z]
    /\ objects' = [objects EXCEPT ![c] = {}]
    /\ excused' = [v \in Players |->
           IF v = player[c] /\ c \in Owning THEN prevActors[v] ELSE excused[v]]
    /\ UNCHANGED <<player, from, stragglers, raced, playerVars, placeVars,
                   prevActors, duplicates, misled>>

(* The handler of RequestTeleport writes zone and position, ...            *)
RequestTeleport(c) ==
    LET p == player[c]
    IN  /\ stage[c] = "asked"
        /\ stage' = [stage EXCEPT ![c] = "leaving"]
        /\ from' = [from EXCEPT ![c] = zoneID[p]]
        /\ zoneID' = [zoneID EXCEPT ![p] = to[c]]
        /\ pos' = [pos EXCEPT ![p] = Spawn]
        /\ stragglers' = stragglers \union
               {<<d, zoneID[p]>> : d \in {e \in Clients :
                   player[e] = p /\ stage[e] \in {"in", "asked"}}}
        /\ UNCHANGED <<player, to, teleports, raced, playerVars, actorVector,
                       listed, dead, viewVars>>

(* ... runs LeaveGame of the old zone and pushes EnterGame to the new one. *)
TeleportLeaves(c) ==
    /\ stage[c] = "leaving"
    /\ stage' = [stage EXCEPT ![c] = "arriving"]
    /\ from' = [from EXCEPT ![c] = EntryZone]
    /\ UNCHANGED <<player, to, stragglers, teleports, raced, owner, viewer,
                   zoneID, pos, dead>>
    /\ LeavesZone(player[c], from[c])

Next ==
    \/ \E c \in Clients :
           \/ \E p \in Players : Login(c, p)
           \/ RequestEnterGame(c) \/ SetViewport(c) \/ EnterGame(c)
           \/ \E z \in Zones, dest \in Cells : PlayerMove(c, z, dest)
           \/ ViewportUpdate(c)
           \/ \E m \in Monsters : HandleSkill(c, m)
           \/ Disconnect(c) \/ LeaveGame(c)
           \/ \E z \in Portals : EnterPortal(c, z)
           \/ RequestTeleport(c) \/ TeleportLeaves(c)
    \/ \E m \in Monsters :
           \/ NpcSpawn(m) \/ NpcMove(m)
           \/ \E dest \in Cells : MonsterMove(m, dest)
    \/ \E k \in Sections : NpcMoveNotice(k)

Spec == Init /\ [][Next]_vars

(* A client that plays, with its player listed where it stands. *)
InPlace(a) == a \in listed[zoneID[a]][SectionOf[pos[a]]]
Playing == {c \in Served : stage[c] = "in" /\ InPlace(player[c])}

(* MyPlayerController sends a RequestMove every 0.2 s, whether its player  *)
(* moves or not: its viewport is 100 ms old by then, and updated.  (A move *)
(* that is refused updates nothing: Walking has when that ends.)           *)
Refreshed(p) == prevActors[p] = GatherActors(p, pos, listed[zoneID[p]])

Fairness == \A c \in Clients : []<>(c \in Playing => Refreshed(player[c]))

FairSpec == Spec /\ Fairness
-----------------------------------------------------------------------------
(* A client is told to add an object that it has, so that                  *)
(* ObjectManager.Add throws (ObjectManager.cs:18) and the rest of what it  *)
(* has received is lost, only if it was sent what was another's, ...       *)
OnlyMisledAddTwice == duplicates \subseteq misled

(* ... which happens only after a portal has left a player listed in its   *)
(* old zone and in the pool while in use (ClientPacketHandler.cpp:192-197),*)
(* or an EnterGame was called between the two statements that push it and  *)
(* make the viewport (ClientPacketHandler.cpp:105-106).                    *)
MisledNeedsGhost == misled # {} => teleports > 0 \/ raced

(* Both: Add throws at a client only by what was another's, and a client   *)
(* is sent that only after a portal or such an EnterGame.                  *)
OnlyGhostsMislead == OnlyMisledAddTwice /\ MisledNeedsGhost

(* A client that was sent only its own shows an actor that is not in its   *)
(* viewport, and of which it will therefore never be told that it has      *)
(* gone, only if the id is no actor's any more: the player left out of     *)
(* sight and its Player object was taken by another login, whose id the    *)
(* despawn then named.                                                     *)
ShowsOnlyTheViewport ==
    \A c \in Served \ misled :
        objects[c] \intersect IdsOf(Actors)
            \subseteq IdsOf(prevActors[player[c]] \union {player[c]})

(* A client lacks an actor of its viewport only if Update left it out,     *)
(* being dead or beyond the count, or if it has left or died since, or if  *)
(* its Player object is another login's now, or if the client has gone     *)
(* through a portal while it was in its viewport, which knows nothing of   *)
(* that.  For as long as it stays in view the client is not told of it.    *)
ShowsTheViewport ==
    \A c \in Served \ duplicates :
        \A a \in prevActors[player[c]] \ {player[c]} :
            a \in excused[player[c]] \/ Id(a) \in objects[c]

(* Two players, or a player and a monster, that stay in view of each other *)
(* in one zone, away from the edges of the map, both listed where they     *)
(* stand, come to be shown to the player, unless one of the excuses above  *)
(* keeps it from being so, or an Add has thrown.                           *)
Near(c, a) ==
    LET p == player[c]
    IN  /\ c \in Playing /\ a # p
        /\ InPlace(a)
        /\ zoneID[p] = zoneID[a]
        /\ SectionOf[pos[a]] \in Adjacent[pos[p]]
        /\ pos[a] \in InView[pos[p]]

SeenOrExcused(c, a) ==
    \/ Id(a) \in objects[c]
    \/ player[c] \in Players /\ a \in excused[player[c]]
    \/ c \in duplicates

NearbyIsSeen ==
    \A c \in Clients, a \in Actors : <>[]Near(c, a) => <>SeenOrExcused(c, a)
=============================================================================
