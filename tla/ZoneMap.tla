------------------------------- MODULE ZoneMap -------------------------------
(***************************************************************************)
(* Where the players are: each zone's list of actors (Zone.cpp), its grid  *)
(* of cells with one occupant at most (Map.cpp), its sections, the buckets *)
(* broadcasts and viewports are computed from (Section.cpp), and the zone  *)
(* and position that every player carries itself (Actor.h).  The four are  *)
(* separate copies of one fact and are updated separately.                 *)
(*                                                                         *)
(* A cell stands for a pair of coordinates inside the map, and Blocked for *)
(* the cells that are solid or off the map.  The zones of the model have   *)
(* the same cells.  actorVector is a set: RegisterActor tests and inserts  *)
(* under zoneLock and nothing depends on the order.  A section is a        *)
(* function to how often the vector of the section lists a player.         *)
(***************************************************************************)
EXTENDS PlayerManager, MessageQueue

CONSTANTS
    Cells,
    Blocked,        \* CollisionBuf, and every cell out of bounds
    Sections,
    SectionOf,      \* Zone::GetSection, a function from Cells to Sections
    Spawn           \* the cell (0,0)

ASSUME MapAssumption ==
    /\ Blocked \subseteq Cells
    /\ Spawn \in Cells \ Blocked
    /\ SectionOf \in [Cells -> Sections]

VARIABLES
    zoneID,         \* Actor::zoneID
    pos,            \* the posinfo of Actor::ActorInfo
    actorVector,    \* Zone::actorVector
    ObjectBuf,      \* Map::ObjectBuf
    section         \* Section::actorVector of every section of every zone

mapVars == <<zoneID, pos, actorVector, ObjectBuf, section>>
placeVars == <<actorVector, ObjectBuf, section>>

MapTypeOK ==
    /\ zoneID \in [Players -> Zones]
    /\ pos \in [Players -> Cells]
    /\ actorVector \in [Zones -> SUBSET Players]
    /\ ObjectBuf \in [Zones -> [Cells -> Players \cup {NoPlayer}]]
    /\ section \in [Zones -> [Sections -> [Players -> Nat]]]

MapInit ==
    /\ zoneID = [p \in Players |-> 0]
    /\ pos = [p \in Players |-> Spawn]
    /\ actorVector = [z \in Zones |-> {}]
    /\ ObjectBuf = [z \in Zones |-> [c \in Cells |-> NoPlayer]]
    /\ section = [z \in Zones |-> [k \in Sections |-> [p \in Players |-> 0]]]

CanGo(z, dest) == dest \notin Blocked /\ ObjectBuf[z][dest] = NoPlayer

(* Fault: the cell left behind is not vacated. *)
OccupyWithoutVacating(z, p, dest) ==
    ObjectBuf' = [ObjectBuf EXCEPT ![z][dest] = p]

(* Map::ApplyMove on the grid of zone z: vacate the cell of p's position   *)
(* if the grid has p there, then take dest.                                *)
Occupy(z, p, dest) ==
    ObjectBuf' = [ObjectBuf EXCEPT ![z] =
        [c \in Cells |-> IF c = dest THEN p
                         ELSE IF c = pos[p] /\ @[c] = p THEN NoPlayer
                         ELSE @[c]]]

(* Section::Add pushes; Section::Remove erases every occurrence. *)
Listed(sec, k, p) == [sec EXCEPT ![k][p] = @ + 1]
Unlisted(sec, k, p) == [sec EXCEPT ![k][p] = 0]

(* Fault: the section left behind still lists the player. *)
ApplyMoveKeepsSection(z, p, dest) ==
    LET now   == SectionOf[pos[p]]
        after == SectionOf[dest]
    IN  /\ Occupy(z, p, dest)
        /\ section' = IF now = after THEN section
                      ELSE [section EXCEPT ![zoneID[p]] = Listed(@, after, p)]
        /\ pos' = [pos EXCEPT ![p] = dest]
        /\ UNCHANGED <<zoneID, actorVector>>

(* Map::ApplyMove of zone z.  The sections are those of the zone that the  *)
(* player says it is in, the grid is that of the zone running the move.    *)
ApplyMove(z, p, dest) ==
    LET now   == SectionOf[pos[p]]
        after == SectionOf[dest]
    IN  /\ Occupy(z, p, dest)
        /\ section' = IF now = after THEN section
                      ELSE [section EXCEPT ![zoneID[p]] =
                               Listed(Unlisted(@, now, p), after, p)]
        /\ pos' = [pos EXCEPT ![p] = dest]
        /\ UNCHANGED <<zoneID, actorVector>>

(* Map::ApplyLeave of zone z, with the same division. *)
ApplyLeave(z, p) ==
    /\ section' = [section EXCEPT ![zoneID[p]] =
                      Unlisted(@, SectionOf[pos[p]], p)]
    /\ ObjectBuf' = [ObjectBuf EXCEPT ![z][pos[p]] =
                         IF @ = p THEN NoPlayer ELSE @]
    /\ UNCHANGED <<zoneID, pos, actorVector>>

(* The body of Zone::EnterGame once RegisterActor has accepted p.  The     *)
(* ApplyMove is onto the player's own cell: it takes the cell if nobody    *)
(* has it and is ignored otherwise.                                        *)
PlaceInZone(z, p) ==
    /\ actorVector' = [actorVector EXCEPT ![z] = @ \cup {p}]
    /\ IF CanGo(z, pos[p]) THEN Occupy(z, p, pos[p]) ELSE UNCHANGED ObjectBuf
    /\ section' = [section EXCEPT ![z] = Listed(@, SectionOf[pos[p]], p)]
    /\ UNCHANGED <<zoneID, pos>>
=============================================================================
