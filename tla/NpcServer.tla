------------------------------ MODULE NpcServer ------------------------------
(***************************************************************************)
(* The NPC server and the zone of the game server that has its monsters:   *)
(* a monster walks on the NPC server, which announces its moves, and the   *)
(* game server shows it where it has let it go; a player walks on the game *)
(* server, which notifies the NPC server of its moves.                     *)
(*                                                                         *)
(* On either side OnRecv gives the handler of the first packet of a        *)
(* receive all its bytes, once for each packet in it, to be parsed as one: *)
(* packets that do not come alone are lost, or their fields are mixed.  To *)
(* the NPC server there also goes a world tick every 100 ms, so that any   *)
(* packet to it may be lost behind one.  The packets of a kind stay in     *)
(* order.                                                                  *)
(*                                                                         *)
(* One monster and one player, as in Monster.  Handlers and closures of    *)
(* the game server are one step here.  A skill of the monster, with id 0,  *)
(* does no damage on the game server (the monster's own id, which is what  *)
(* a skill parsed with the move behind it has, is taken not to be that of  *)
(* a blow, 2), and the NPC server's copy of the player has no hit points   *)
(* that anything reads.                                                    *)
(***************************************************************************)
EXTENDS Monster, FiniteSets

CONSTANTS
    Spawn,          \* (0,0), where monsters are registered and portals lead
    MaxWaiting      \* bound: packets under way when the monster is updated

ASSUME NpcAssumption == Spawn \in Cells /\ MaxWaiting \in Nat

VARIABLES
    spawning,       \* how far RequestNpcSpawn has come, or "lost"
    whereabouts,    \* of the player: "elsewhere", "here", "gone" for good
    playerPos,      \* on the game server
    monsterPos,     \* on the game server
    ObjectBuf,      \* of the game server's map
    announced,      \* packets of the monster under way to the game server
    notices,        \* packets about the player under way to the NPC server
    crashed         \* the game server has called through a null section

gameVars == <<whereabouts, playerPos, monsterPos, ObjectBuf, crashed>>
linkVars == <<spawning, announced, notices>>
npcVars == <<gameVars, linkVars, vars>>

InitNpc ==
    /\ Init
    /\ cell = Spawn
    /\ spawning = "asked"
    /\ whereabouts = "elsewhere"
    /\ playerPos = Spawn /\ monsterPos = Spawn
    /\ ObjectBuf = [c \in Cells |-> "nobody"]
    /\ announced = <<>> /\ notices = <<>>
    /\ crashed = FALSE

(* WorldSession::OnConnected sends NotifyInitClient and RequestNpcSpawn:   *)
(* the latter is lost when both come at once.  RegisterActor does not put  *)
(* the monster on the map.                                                 *)
HandleNpcSpawn ==
    /\ spawning = "asked"
    /\ spawning' \in {"registered", "lost"}
    /\ UNCHANGED <<gameVars, announced, notices, vars>>

HandleReturnNpcSpawn ==
    /\ spawning = "registered"
    /\ spawning' \in {"alive", "lost"}
    /\ UNCHANGED <<gameVars, announced, notices, vars>>
-----------------------------------------------------------------------------
(* What the monster sends.                                                 *)

(* The game server's sections go one beyond the south and the east edge.   *)
HasSection(c) == c[1] >= 0 /\ c[2] >= 0

Refused == <<Height, Width>>
Outside == <<-1, -1>>

(* Of the cells that are refused, two stand for all.                       *)
BroadcastMove(c) ==
    [kind |-> "move", cell |-> IF CanGo(c) THEN c
                               ELSE IF HasSection(c) THEN Refused ELSE Outside]

RequestSkill == [kind |-> "skill", cell |-> Corner]

Sends(packets) == announced' = announced \o packets

(* Fault: a step of the chase is told, the place of the skill is not.      *)
SkillPacketsWithoutMove ==
    IF state' = "SKILL" THEN {<<RequestSkill>>} ELSE {<<BroadcastMove(cell)>>}

(* One that turns to the player tells of that, too.                        *)
SkillPackets ==
    LET here == BroadcastMove(cell)
    IN  IF state' = "SKILL"
        THEN {<<RequestSkill, here>>, <<here, RequestSkill, here>>}
        ELSE {<<here>>}

(* A step of the chase is announced as a move to the cell of the player.   *)
FollowPackets == IF state' = "CHASING" THEN <<BroadcastMove(seen)>> ELSE <<>>

UpdateMonster ==
    /\ spawning = "alive"
    /\ \/ /\ pc = "out" /\ Len(announced) <= MaxWaiting
          /\ \/ (UpdateIdle \/ SpotPlayer \/ UpdateChasing) /\ UNCHANGED announced
             \/ \E c \in RoamGoals : RoamTo(c) /\ Sends(<<BroadcastMove(c)>>)
             \/ UpdateSkill /\ \E packets \in SkillPackets : Sends(packets)
       \/ FindPath /\ UNCHANGED <<monsterVars, known, seen, announced>>
       \/ Follow /\ Sends(FollowPackets)
    /\ UNCHANGED <<gameVars, spawning, notices>>
-----------------------------------------------------------------------------
(* The zone of the game server.                                            *)

Free(c) == CanGo(c) /\ ObjectBuf[c] = "nobody"

(* The map after ApplyMove of who, at old, to new.                        *)
Moved(who, old, new) ==
    [c \in Cells |-> IF c = new THEN who
                     ELSE IF c = old /\ ObjectBuf[c] = who THEN "nobody"
                     ELSE ObjectBuf[c]]

(* HandleMove of the monster. *)
HandleMonsterMove(c) ==
    /\ IF Free(c)
       THEN monsterPos' = c /\ ObjectBuf' = Moved("monster", monsterPos, c)
       ELSE UNCHANGED <<monsterPos, ObjectBuf>>
    /\ UNCHANGED <<whereabouts, playerPos, crashed, notices>>

(* The closure behind it looks up the section of the cell, granted or not, *)
(* and calls through it: without one, the process ends with all it has.    *)
Crash ==
    /\ crashed' = TRUE
    /\ whereabouts' = "gone"
    /\ playerPos' = Spawn /\ monsterPos' = Spawn
    /\ ObjectBuf' = [c \in Cells |-> "nobody"]
    /\ notices' = <<>>

(* What the moves of a receive may be read as: the coordinates of later    *)
(* ones overwrite those of the first.  What a refused cell, which stands   *)
(* for others, is mixed with may become any.                               *)
Parsed(cells) ==
    IF Cardinality(cells) = 1 THEN cells
    ELSE IF cells \subseteq Cells THEN {<<c[1], d[2]>> : c \in cells, d \in cells}
    ELSE Cells \cup {Refused, Outside}

(* A receive of n packets, whose handler is called n times, to the effect  *)
(* of one call: that of the first packet, if it comes alone or nothing can *)
(* be read into it.                                                        *)
HandleAnnounced(packets) ==
    \/ packets[1].kind = "skill" /\ UNCHANGED <<gameVars, notices>>
    \/ /\ packets[1].kind = "move"
       /\ \E c \in Parsed({p.cell : p \in {q \in Range(packets) : q.kind = "move"}}) :
              IF HasSection(c) THEN HandleMonsterMove(c) ELSE Crash

(* Behind the first packet's header all bytes are parsed: it fails, and    *)
(* nothing is handled, or the coordinates of later moves overwrite those   *)
(* of the first.                                                           *)
ReceiveAnnounced(n) ==
    /\ n \in DOMAIN announced
    /\ \/ HandleAnnounced(SubSeq(announced, 1, n))
       \/ n > 1 /\ UNCHANGED <<gameVars, notices>>
    /\ announced' = IF crashed' THEN <<>>
                    ELSE SubSeq(announced, n + 1, Len(announced))
    /\ UNCHANGED <<spawning, vars>>

(* The NPC server takes a notice before the next one comes. *)
Notify(kind, c) ==
    /\ notices = <<>>
    /\ notices' = <<[kind |-> kind, cell |-> c]>>

(* EnterGame of a player that comes through a portal. *)
PlayerEnters ==
    /\ whereabouts = "elsewhere"
    /\ whereabouts' = "here"
    /\ playerPos' = Spawn
    /\ ObjectBuf' = IF Free(Spawn) THEN Moved("player", Spawn, Spawn) ELSE ObjectBuf
    /\ Notify("enter", Spawn)
    /\ UNCHANGED <<monsterPos, crashed, spawning, announced, vars>>

(* Fault: a player that stays where it is is passed over. *)
PlayerMovesOnly(c) ==
    /\ Free(c)
    /\ ObjectBuf' = Moved("player", playerPos, c)
    /\ playerPos' = c

(* HandleMove of a RequestMove to another cell that is free, or to the     *)
(* player's own, which ApplyMove gives it if nobody has it.                *)
PlayerMoves(c) ==
    /\ c = playerPos \/ Free(c)
    /\ ObjectBuf' = IF Free(c) THEN Moved("player", playerPos, c) ELSE ObjectBuf
    /\ playerPos' = c

HandlePlayerMove(c) ==
    /\ whereabouts = "here"
    /\ PlayerMoves(c)
    /\ Notify("move", c)
    /\ UNCHANGED <<whereabouts, monsterPos, crashed, spawning, announced, vars>>

(* ApplyLeave takes the player off the cell c.                             *)
PlayerLeaves(c, to) ==
    /\ whereabouts = "here"
    /\ whereabouts' = to
    /\ playerPos' = Spawn
    /\ ObjectBuf' = IF ObjectBuf[c] = "player"
                    THEN [ObjectBuf EXCEPT ![c] = "nobody"] ELSE ObjectBuf
    /\ UNCHANGED <<monsterPos, crashed, linkVars, vars>>

(* A disconnect, and a portal, which goes by the new position.  Neither is *)
(* made known to the NPC server.                                           *)
PlayerDisconnects == PlayerLeaves(playerPos, "gone")
PlayerTeleports == PlayerLeaves(Spawn, "elsewhere")
-----------------------------------------------------------------------------
(* The NPC server takes its packets.                                       *)

ReceiveNotice ==
    /\ notices # <<>>
    /\ notices' = <<>>
    /\ LET n == Head(notices)
       IN  \/ n.kind = "enter" /\ EnterGame(n.cell)
           \/ n.kind = "move" /\ Move(n.cell)
           \/ known = (n.kind = "enter") /\ UNCHANGED vars
    /\ UNCHANGED <<gameVars, spawning, announced>>

(* One that comes behind a world tick, or before INIT_CLIENT was handled.  *)
LoseNotice ==
    /\ notices # <<>>
    /\ notices' = <<>>
    /\ UNCHANGED <<gameVars, spawning, announced, vars>>
-----------------------------------------------------------------------------
Heartbeat == HandlePlayerMove(playerPos)

ReceiveLone(kind) ==
    /\ announced # <<>>
    /\ announced[1].kind = kind
    /\ ReceiveAnnounced(1)

(* FindPath shares nothing with the game server: what is done while it     *)
(* runs might as well be done before.                                      *)
Between == ~crashed /\ pc = "out"

NextNpc ==
    \/ ~crashed /\ UpdateMonster
    \/ /\ Between
       /\ \/ HandleNpcSpawn \/ HandleReturnNpcSpawn
          \/ \E n \in 1 .. Len(announced) : ReceiveAnnounced(n)
          \/ PlayerEnters \/ PlayerDisconnects \/ PlayerTeleports
          \/ \E c \in Cells : HandlePlayerMove(c)
          \/ ReceiveNotice \/ LoseNotice

(* The NPC server is ticked, a client sends a RequestMove every 0.2 s      *)
(* whether it moves or not, and of the packets of a kind that come again   *)
(* and again one comes, again and again, alone in its receive.             *)
NpcFairness ==
    /\ SF_npcVars(~crashed /\ UpdateMonster)
    /\ SF_npcVars(Between /\ Heartbeat)
    /\ SF_npcVars(Between /\ ReceiveLone("move"))
    /\ SF_npcVars(Between /\ ReceiveLone("skill"))
    /\ SF_npcVars(Between /\ ReceiveNotice)

NpcSpec == InitNpc /\ [][NextNpc]_npcVars /\ NpcFairness
-----------------------------------------------------------------------------
(* A player that stays in the zone, and that the NPC server knows, is in   *)
(* the end where the NPC server takes it to be, whatever moves were lost   *)
(* or refused before (Zone.cpp:287, 311; WorldSession.cpp:49): HandleMove  *)
(* lets a move to the player's own cell through, and tells of it.          *)
SeenWhereItIs ==
    /\ <>[](whereabouts = "here" /\ known /\ ~crashed)
    /\ <>[][UNCHANGED playerPos]_npcVars
    => <>[](seen = playerPos)

(* A monster that uses its skill for good is in the end shown where it     *)
(* stands, unless the game server has somebody else on that cell: though   *)
(* the steps of its chase were announced as moves to the player's cell,    *)
(* and packets lost (Monster.cpp:147, 198; ClientPacketHandler.cpp:134).   *)
ShownWhereItStands ==
    <>[](state = "SKILL" /\ ~crashed /\ ObjectBuf[cell] # "player")
        => <>[](monsterPos = cell)
=============================================================================
