---------------------------- MODULE SectionLookups ---------------------------
(***************************************************************************)
(* What the lookups of SectionGrid answer for a cell of a map: the cell    *)
(* walks about one of Maps, and a range goes with it.                      *)
(***************************************************************************)
EXTENDS SectionGrid

CONSTANTS Maps, MaxRange

(* The sums and differences of the code are within an int32, as they are   *)
(* for all maps but those a billion cells wide.                            *)
Fits(n) == -(Word \div 2) <= n /\ n < Word \div 2

ASSUME MapsAssumption ==
    /\ MaxRange \in Nat
    /\ \A m \in Maps :
        /\ m \in [MinX : Int, MaxX : Int, MinY : Int, MaxY : Int]
        /\ m.MinX <= m.MaxX /\ m.MinY <= m.MaxY
        /\ Fits(m.MinX - MaxRange) /\ Fits(m.MaxX + MaxRange)
        /\ Fits(m.MinY - MaxRange) /\ Fits(m.MaxY + MaxRange)
        /\ Fits(m.MaxX - m.MinX + MaxRange + SECTION_SIZE)
        /\ Fits(m.MaxY - m.MinY + MaxRange + SECTION_SIZE)

VARIABLES map, cell, range

Init ==
    /\ map \in Maps
    /\ cell = <<map.MinX, map.MinY>>
    /\ range \in 1 .. MaxRange

Walk ==
    /\ \E d \in {<<0, 1>>, <<0, -1>>, <<1, 0>>, <<-1, 0>>} :
        /\ cell' = <<cell[1] + d[1], cell[2] + d[2]>>
        /\ cell' \in CellsOf(map)
    /\ UNCHANGED <<map, range>>

Spec == Init /\ [][Walk]_<<map, cell, range>>
-----------------------------------------------------------------------------
(* Every cell of a map has its section.  EnterGame, ApplyMove and HandleMove *)
(* use what GetSection returns without a check.  It rests on the map being   *)
(* wide, for GetSection compares the row with the number of columns.         *)
EveryCellHasSection ==
    Wide(map) => GetSection(map, cell) = Section(map, cell)

(* GetAdjacentSections never reads past the rows of sectionVector, although  *)
(* the row is compared with the number of columns: from a cell of the map,   *)
(* with a range up to SECTION_SIZE, it gets no further than the spare row.   *)
NoOverrun ==
    range <= SECTION_SIZE =>
        \A i \in AdjacentIndexes(map, cell, range) :
            InBounds(map, i[2], i[1]) => i[2] <= LastSection(map)[2]

(* A lookup finds the section of a cell, and reads no section there is not  *)
(* (Zone.cpp:82-97).                                                        *)
LookupsAreRight == EveryCellHasSection /\ NoOverrun

(* Away from the west and the north edge, the sections asked for hold every  *)
(* cell within range.  (Nearer than that a negative difference becomes a     *)
(* huge unsigned one, and there are none: see SeesEverywhere.)               *)
SeesInland ==
    (Wide(map) /\ Inland(map, cell, range)) =>
        SectionsInRange(map, cell, range) \subseteq
            GetAdjacentSections(map, cell, range)

(* The same for every cell of the map, as the loop of GetAdjacentSections    *)
(* means it: indexes outside are for GetSection to refuse, and are skipped.  *)
SeesEverywhere ==
    Wide(map) =>
        SectionsInRange(map, cell, range) \subseteq
            GetAdjacentSections(map, cell, range)
=============================================================================
