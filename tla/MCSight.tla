------------------------------- MODULE MCSight -------------------------------
(* Small instances of Sight: a corridor along the middle of a map of three   *)
(* rows, with sections and view as SectionGrid computes them.  The actors    *)
(* are numbers, each its own address, and so are the cells: x for <<x, 0>>.  *)
EXTENDS Sight

CONSTANT Corridor   \* the cells in use

Grid == INSTANCE SectionGrid WITH Word <- 256, SECTION_SIZE <- 2

Range == 1
Map == [MinX |-> -2, MaxX |-> 5, MinY |-> -1, MaxY |-> 1]

(* On two sides of a border of sections: three cells, of which the outer     *)
(* ones do not see each other, and two that do.                              *)
ThreeCells == {-1, 0, 1}
TwoCells == {-1, 0}

CellSection == [x \in Corridor |-> Grid!GetSection(Map, <<x, 0>>)[1]]
CorridorSections == {CellSection[x] : x \in Corridor}

(* The sections next to a cell, but for those where nobody ever is. *)
AdjacentSections ==
    [x \in Corridor |->
        {k[1] : k \in Grid!GetAdjacentSections(Map, <<x, 0>>, Range)}
            \intersect CorridorSections]
CellsInView ==
    [x \in Corridor |->
        {y \in Corridor : Grid!Near(<<x, 0>>, <<y, 0>>, Range)}]

AddressOf == [a \in Actors |-> a]

(* The values of the constants.  (TLC evaluates a definition once, but one   *)
(* that a .cfg puts in a constant's place again and again.)                  *)
MCSections == CorridorSections
MCSectionOf == CellSection
MCAdjacent == AdjacentSections
MCInView == CellsInView
MCInReach == CellsInView
MCSpawn == 0
MCAddress == AddressOf

(* The clients are numbers, too, and log in in their order.  As they are     *)
(* alike, nothing is lost by that.                                           *)
InOrder == \A c, d \in Clients : c < d /\ stage[d] # "new" => stage[c] # "new"

(* Bound: besides two clients either a monster, or a portal gone through, or *)
(* a third client.  The last two together when one client has gone, and the  *)
(* others do not close any more; and with a third client the players stay in *)
(* two cells.                                                                *)
Bound ==
    LET monsters == Registered # {}
        portals == teleports > 0
        third == Cardinality({c \in Clients : stage[c] # "new"}) > 2
        At(s) == \E c \in Clients : stage[c] = s
    IN  /\ monsters => ~portals /\ ~third
        /\ portals /\ third => At("gone") /\ ~At("closing")
        /\ third => \A p \in Players : pos[p] \in TwoCells

BoundedSpec == Init /\ [][Next /\ InOrder' /\ Bound']_vars /\ Fairness
=============================================================================
