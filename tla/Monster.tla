------------------------------- MODULE Monster -------------------------------
(***************************************************************************)
(* A monster of the NPC server: the states of Monster.cpp, what            *)
(* WorldPacketHandler.cpp makes of the packets of the game server, and     *)
(* Map::FindPath for its chase.  The NPC server has one session and one    *)
(* worker, so that a packet is handled to its end before the next one;     *)
(* FindPath takes several steps here only because PathFinding has them.    *)
(*                                                                         *)
(* Each tick of the world updates every monster; a time stamp of its state *)
(* may make it wait for a later one.  The monsters have nothing to do with *)
(* each other, and a chase has one target: one monster and one player.  A  *)
(* player is never removed from ActorIDToActorHashMap.                     *)
(***************************************************************************)
EXTENDS PathFinding

CONSTANTS
    SEARCH_CELL_DISTANCE, CHASE_CELL_DISTANCE, SKILL_DISTANCE

ASSUME DistanceAssumption ==
    {SEARCH_CELL_DISTANCE, CHASE_CELL_DISTANCE, SKILL_DISTANCE} \subseteq Nat

VARIABLES
    cell,       \* of the monster
    state,      \* its MoveState
    hasTarget,  \* targetActor is the player, not nullptr
    known,      \* the player is in ActorIDToActorHashMap
    seen        \* its cell there

monsterVars == <<cell, state, hasTarget>>
vars == <<walls, localVars, monsterVars, known, seen>>

(* A monster is registered at a free cell and waits. *)
Init ==
    /\ walls \in SUBSET Cells
    /\ Out
    /\ cell \in Cells \ walls
    /\ state = "IDLE" /\ hasTarget = FALSE
    /\ known = FALSE /\ seen = Corner

(* (int)sqrt(CellDistFromZero) <= distance *)
Within(c, d, distance) ==
    Square(c[1] - d[1]) + Square(c[2] - d[2]) < Square(distance + 1)

CanUseSkill ==
    /\ Within(cell, seen, SKILL_DISTANCE)
    /\ cell[1] = seen[1] \/ cell[2] = seen[2]
-----------------------------------------------------------------------------
(* The packets: ReturnEnterGame, which is ignored when the player is known,*)
(* and ReturnMove, which is when it is not.  EnterGame takes any cell, a   *)
(* move is to a free one.                                                  *)
EnterGame(c) ==
    /\ pc = "out"
    /\ ~known
    /\ known' = TRUE
    /\ seen' = c
    /\ UNCHANGED <<walls, localVars, monsterVars>>

Move(c) ==
    /\ pc = "out"
    /\ known
    /\ CanGo(c)
    /\ seen' = c
    /\ UNCHANGED <<walls, localVars, monsterVars, known>>
-----------------------------------------------------------------------------
UpdateIdle ==
    /\ state = "IDLE"
    /\ state' = "MOVING"
    /\ UNCHANGED <<walls, localVars, cell, hasTarget, known, seen>>

(* (int)(2 cos a), (int)(2 sin a): one cell away in any direction, or two. *)
Roam == {d \in (-2 .. 2) \X (-2 .. 2) : Square(d[1]) + Square(d[2]) \in {1, 2, 4}}

InSight == known /\ Within(cell, seen, SEARCH_CELL_DISTANCE)

SpotPlayer ==
    /\ state = "MOVING"
    /\ InSight
    /\ hasTarget' = TRUE
    /\ state' = "CHASING"
    /\ UNCHANGED <<walls, localVars, cell, known, seen>>

(* Where c is no cell to go to, the monster stays. *)
RoamTo(c) ==
    /\ state = "MOVING"
    /\ ~InSight
    /\ cell' = IF CanGo(c) THEN c ELSE cell
    /\ state' = "IDLE"
    /\ UNCHANGED <<walls, localVars, hasTarget, known, seen>>

RoamGoals == {<<cell[1] + d[1], cell[2] + d[2]>> : d \in Roam}

UpdateMoving == SpotPlayer \/ \E c \in RoamGoals : RoamTo(c)

LoseTarget == hasTarget' = FALSE /\ state' = "IDLE"

UpdateChasing ==
    /\ state = "CHASING"
    /\ IF ~hasTarget
       THEN state' = "IDLE" /\ UNCHANGED <<hasTarget, localVars>>
       ELSE IF cell = seen \/ ~Within(cell, seen, CHASE_CELL_DISTANCE)
       THEN LoseTarget /\ UNCHANGED localVars
       ELSE IF CanUseSkill
       THEN state' = "SKILL" /\ UNCHANGED <<hasTarget, localVars>>
       ELSE Call(cell, seen) /\ UNCHANGED <<state, hasTarget>>
    /\ UNCHANGED <<walls, cell, known, seen>>

(* Fault: the first cell of the path is taken, where the monster stands. *)
FollowFromFirst ==
    /\ pc = "done"
    /\ Return
    /\ IF Len(path) < 2 \/ Len(path) > CHASE_CELL_DISTANCE
       THEN LoseTarget /\ UNCHANGED cell
       ELSE IF CanGo(path[1])
       THEN cell' = path[1] /\ UNCHANGED <<state, hasTarget>>
       ELSE state' = "MOVING" /\ UNCHANGED <<cell, hasTarget>>
    /\ UNCHANGED <<walls, known, seen>>

(* FindPath has returned to UpdateChasing: with the cells from the first to  *)
(* the last, of which the first is the monster's own.                       *)
Follow ==
    /\ pc = "done"
    /\ Return
    /\ IF Len(path) < 2 \/ Len(path) > CHASE_CELL_DISTANCE
       THEN LoseTarget /\ UNCHANGED cell
       ELSE IF CanGo(path[2])
       THEN cell' = path[2] /\ UNCHANGED <<state, hasTarget>>
       ELSE state' = "MOVING" /\ UNCHANGED <<cell, hasTarget>>
    /\ UNCHANGED <<walls, known, seen>>

UpdateSkill ==
    /\ state = "SKILL"
    /\ state' = IF ~hasTarget THEN "IDLE"
                ELSE IF CanUseSkill THEN "SKILL" ELSE "MOVING"
    /\ UNCHANGED <<walls, localVars, cell, hasTarget, known, seen>>

Update ==
    \/ /\ pc = "out"
       /\ UpdateIdle \/ UpdateMoving \/ UpdateChasing \/ UpdateSkill
    \/ FindPath /\ UNCHANGED <<monsterVars, known, seen>>
    \/ Follow

Next == Update \/ \E c \in Cells : EnterGame(c) \/ Move(c)

Spec == Init /\ [][Next]_vars

(* The game server ticks every 100 ms. *)
FairSpec == Spec /\ WF_vars(Update)
-----------------------------------------------------------------------------
(* On open ground a player that stays where it is, and is chased again and  *)
(* again, is caught again and again: the monster uses its skill or stands   *)
(* on the player's cell.  It neither chases for ever, though FindPath is    *)
(* asked anew at each step and does not look for the shortest way, nor for  *)
(* ever loses and finds it (Monster.cpp:95-148).  Between walls it may.     *)
ChaseEnds ==
    /\ walls = {} /\ []<>(state = "CHASING")
    /\ <>[]known /\ <>[][UNCHANGED seen]_vars
    => []<>(state = "SKILL" \/ cell = seen)
=============================================================================
