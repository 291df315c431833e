----------------------------- MODULE SectionGrid -----------------------------
(***************************************************************************)
(* From coordinates to sections (Zone.cpp): a zone is cut into squares of  *)
(* sectionCells cells, counted from the west and from the north, and a     *)
(* broadcast or a viewport asks for the sections within range of a cell.   *)
(*                                                                         *)
(* sectionCells and range are uint32 and everything else is int32, so the  *)
(* differences are converted to unsigned before they are divided.  Word is *)
(* 2^32 in the code.  A map is the record of its bounds, a cell a pair     *)
(* <<x, y>>, a section the pair <<indexX, indexY>>.                        *)
(***************************************************************************)
EXTENDS Integers

CONSTANTS
    Word,           \* how many values a uint32 has
    SECTION_SIZE

ASSUME SectionGridAssumption ==
    /\ SECTION_SIZE \in Nat /\ SECTION_SIZE > 1
    /\ Word \in Nat /\ Word % 2 = 0 /\ Word > 2 * SECTION_SIZE

Uint32(n) == n % Word
Int32(n) == IF Uint32(n) < Word \div 2 THEN Uint32(n) ELSE Uint32(n) - Word

NoSection == <<-1, -1>>

CellsOf(m) == (m.MinX .. m.MaxX) \X (m.MinY .. m.MaxY)

Count(size) == (size + SECTION_SIZE - 1) \div SECTION_SIZE
CountX(m) == Count(m.MaxX - m.MinX + 1)
CountY(m) == Count(m.MaxY - m.MinY + 1)

(* Fault: sectionVector has no row and no column to spare. *)
LastSectionExact(m) == <<CountX(m) - 1, CountY(m) - 1>>

(* Zone::Init makes one row and one column more than the map needs. *)
LastSection(m) == <<CountX(m), CountY(m)>>

(* An int32 divided by the uint32 sectionCells, as an int32 again. *)
Index(difference) == Int32(Uint32(difference) \div SECTION_SIZE)

(* The checks of GetSection(indexY, indexX): sectionVector[0] and [1] are  *)
(* rows, so both indexes are compared with the length of a row.            *)
InBounds(m, indexY, indexX) ==
    /\ Uint32(indexX) <= LastSection(m)[1]
    /\ indexY >= 0 /\ indexY <= LastSection(m)[1]

SectionAt(m, indexY, indexX) ==
    IF InBounds(m, indexY, indexX) THEN <<indexX, indexY>> ELSE NoSection

GetSection(m, cell) ==
    SectionAt(m, Index(m.MaxY - cell[2]), Index(cell[1] - m.MinX))

(* Fault: the loop over x stops before the last index. *)
AdjacentIndexesButLast(m, cell, range) ==
    LET minIndexY == Index(m.MaxY - Int32(cell[2] + range))
        maxIndexY == Index(m.MaxY - Int32(cell[2] - range))
        minIndexX == Index(Int32(cell[1] - range) - m.MinX)
        maxIndexX == Index(Int32(cell[1] + range) - m.MinX)
    IN  (minIndexX .. maxIndexX - 1) \X (minIndexY .. maxIndexY)

(* The index pairs that GetAdjacentSections asks GetSection for. *)
AdjacentIndexes(m, cell, range) ==
    LET minIndexY == Index(m.MaxY - Int32(cell[2] + range))
        maxIndexY == Index(m.MaxY - Int32(cell[2] - range))
        minIndexX == Index(Int32(cell[1] - range) - m.MinX)
        maxIndexX == Index(Int32(cell[1] + range) - m.MinX)
    IN  (minIndexX .. maxIndexX) \X (minIndexY .. maxIndexY)

GetAdjacentSections(m, cell, range) ==
    {SectionAt(m, i[2], i[1]) : i \in AdjacentIndexes(m, cell, range)}
        \ {NoSection}
-----------------------------------------------------------------------------
(* What they are for. *)

Section(m, cell) ==
    <<(cell[1] - m.MinX) \div SECTION_SIZE, (m.MaxY - cell[2]) \div SECTION_SIZE>>

Near(c, d, range) ==
    /\ d[1] - c[1] \in -range .. range
    /\ d[2] - c[2] \in -range .. range

SectionsInRange(m, cell, range) ==
    {Section(m, d) : d \in {d \in CellsOf(m) : Near(cell, d, range)}}

(* Both maps of Common/MapData are wider than they are high. *)
Wide(m) == CountX(m) >= CountY(m)

(* Neither the west nor the north edge is within range. *)
Inland(m, cell, range) ==
    cell[1] - range >= m.MinX /\ cell[2] + range <= m.MaxY
=============================================================================
