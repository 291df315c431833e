-------------------------- MODULE SectionGridProofs --------------------------
(***************************************************************************)
(* The lookups of SectionGrid, for every word, every size of the sections, *)
(* and every set of maps whose sums are within the word.                   *)
(***************************************************************************)
EXTENDS SectionLookups, TLAPS

(* The conversions between signed and unsigned do nothing to a difference  *)
(* that is not negative; a larger difference has no smaller an index; and  *)
(* the section that a cell is in passes the checks of GetSection.          *)
LEMMA CellsHaveSections ==
  /\ \A n \in Int : Fits(n) => Int32(n) = n
  /\ \A d \in Nat : Fits(d) => Index(d) = d \div SECTION_SIZE
  /\ \A a, b \in Int : a <= b => a \div SECTION_SIZE <= b \div SECTION_SIZE
  /\ \A m \in Maps : \A c \in CellsOf(m) :
         Wide(m) =>
             /\ SectionAt(m, Section(m, c)[2], Section(m, c)[1]) = Section(m, c)
             /\ GetSection(m, c) = Section(m, c)
<1> DEFINE S == SECTION_SIZE
<1>size. S \in Nat /\ S > 1
  BY SectionGridAssumption
<1>word. /\ Word \in Nat /\ Word > 0 /\ Word \div 2 \in Nat
         /\ Word = (Word \div 2) + (Word \div 2)
  BY SectionGridAssumption
<1> HIDE DEF S
<1>half. PICK half \in Nat : half = Word \div 2
  BY <1>word
<1>mod. \A n \in Int : -Word <= n /\ n < Word =>
            n % Word = IF n >= 0 THEN n ELSE n + Word
  BY <1>word
<1>int. \A n \in Int : Fits(n) => Int32(n) = n
  <2> SUFFICES ASSUME NEW n \in Int, -half <= n, n < half PROVE Int32(n) = n
    BY <1>half DEF Fits
  <2>1. n % Word = IF n >= 0 THEN n ELSE n + Word
    BY <1>mod, <1>half, <1>word
  <2>2. QED BY <1>half, <1>word, <2>1 DEF Int32, Uint32
<1>mono. \A a, b \in Int : a <= b => a \div S <= b \div S
  <2> SUFFICES ASSUME NEW a \in Int, NEW b \in Int, a <= b PROVE a \div S <= b \div S
    OBVIOUS
  <2>1. a \div S \in Int /\ b \div S \in Int
    BY <1>size
  <2>2. a = (S * (a \div S)) + (a % S) /\ b = (S * (b \div S)) + (b % S)
    BY <1>size
  <2>3. a % S \in 0 .. S - 1 /\ b % S \in 0 .. S - 1
    BY <1>size
  <2>4. PICK x \in Int, y \in Int : x = a \div S /\ y = b \div S
    BY <2>1
  <2>5. S * x <= b /\ S * y > b - S
    BY <1>size, <2>2, <2>3, <2>4
  <2>6. S * x < S * (y + 1)
    BY <1>size, <2>5
  <2>7. x < y + 1
    BY <1>size, <2>6
  <2>8. QED BY <2>1, <2>4, <2>7
<1>nat. \A d \in Nat : d \div S \in Nat /\ d \div S <= d
  BY <1>size
<1>index. \A d \in Nat : Fits(d) => Index(d) = d \div S
  <2> SUFFICES ASSUME NEW d \in Nat, d < half PROVE Index(d) = d \div S
    BY <1>half DEF Fits
  <2>1. d % Word = d
    BY <1>mod, <1>half, <1>word
  <2>2. PICK e \in Nat : e = d \div S /\ e <= d
    BY <1>nat
  <2>3. Int32(e) = e
    BY <1>half, <1>int, <2>2 DEF Fits
  <2>4. QED BY <2>1, <2>2, <2>3 DEF Index, Uint32, S
<1>found. ASSUME NEW m \in Maps, NEW c \in CellsOf(m), Wide(m)
          PROVE  /\ SectionAt(m, Section(m, c)[2], Section(m, c)[1]) = Section(m, c)
                 /\ GetSection(m, c) = Section(m, c)
  <2> USE <1>found
  <2>1. /\ m.MinX \in Int /\ m.MaxX \in Int /\ m.MinY \in Int /\ m.MaxY \in Int
        /\ m.MaxX - m.MinX + MaxRange + S < half
        /\ m.MaxY - m.MinY + MaxRange + S < half
        /\ MaxRange \in Nat
    BY MapsAssumption, <1>half, SectionGridAssumption DEF Fits, S
  <2>2. c[1] \in m.MinX .. m.MaxX /\ c[2] \in m.MinY .. m.MaxY
    BY DEF CellsOf
  <2> DEFINE dx == c[1] - m.MinX
             dy == m.MaxY - c[2]
             w == m.MaxX - m.MinX + 1
             h == m.MaxY - m.MinY + 1
  <2>3. /\ dx \in Nat /\ dx < half /\ dy \in Nat /\ dy < half
        /\ dx <= w + S - 1 /\ dy <= h + S - 1 /\ w + S - 1 \in Nat /\ h + S - 1 \in Nat
    BY <1>size, <2>1, <2>2
  <2>4. Section(m, c) = <<dx \div S, dy \div S>>
    BY DEF Section, S
  <2>5. CountX(m) = (w + S - 1) \div S /\ CountY(m) = (h + S - 1) \div S
    BY DEF CountX, CountY, Count, S
  <2> HIDE DEF dx, dy, w, h
  <2>6. /\ dx \div S \in Nat /\ dx \div S <= dx /\ dy \div S \in Nat
        /\ dx \div S <= CountX(m) /\ dy \div S <= CountY(m)
    <3>1. dx \div S <= (w + S - 1) \div S
      BY <1>mono, <2>3
    <3>2. dy \div S <= (h + S - 1) \div S
      BY <1>mono, <2>3
    <3>3. QED BY <1>nat, <2>3, <2>5, <3>1, <3>2
  <2>7. CountX(m) \in Int /\ CountY(m) \in Int /\ CountY(m) <= CountX(m)
    BY <1>nat, <2>3, <2>5 DEF Wide
  <2>8. Uint32(dx \div S) = dx \div S
    <3>1. PICK e \in Nat : e = dx \div S /\ e < half
      BY <1>half, <2>3, <2>6
    <3>2. e % Word = e
      BY <1>half, <1>mod, <1>word, <3>1
    <3>3. QED BY <3>1, <3>2 DEF Uint32
  <2>9. InBounds(m, dy \div S, dx \div S)
    BY <2>6, <2>7, <2>8 DEF InBounds, LastSection
  <2>10. SectionAt(m, dy \div S, dx \div S) = <<dx \div S, dy \div S>>
    BY <2>9 DEF SectionAt
  <2>11. Index(dx) = dx \div S /\ Index(dy) = dy \div S
    BY <1>half, <1>index, <2>3 DEF Fits
  <2>12. GetSection(m, c) = SectionAt(m, dy \div S, dx \div S)
    BY <2>11 DEF GetSection, dx, dy
  <2>13. QED BY <2>4, <2>10, <2>12
<1> QED BY <1>int, <1>index, <1>mono, <1>found DEF S

(* The cell stays on its map, and the range below its bound. *)
OnMap == map \in Maps /\ cell \in CellsOf(map) /\ range \in 1 .. MaxRange

(* A lookup finds the section of a cell, and no section beyond the last    *)
(* row is read although the row is compared with the number of columns     *)
(* (Zone.cpp:82-97), on every map.                                         *)
THEOREM LookupsFindSections == Spec => [](OnMap /\ LookupsAreRight)
<1>init. Init => OnMap
  BY MapsAssumption DEF Init, OnMap, CellsOf
<1>next. OnMap /\ [Walk]_<<map, cell, range>> => OnMap'
  BY DEF OnMap, Walk, CellsOf
<1>right. OnMap => LookupsAreRight
  <2> SUFFICES ASSUME OnMap PROVE LookupsAreRight
    OBVIOUS
  <2>1. EveryCellHasSection
    BY CellsHaveSections DEF EveryCellHasSection, OnMap
  <2>2. NoOverrun
    <3> SUFFICES ASSUME range <= SECTION_SIZE, NEW i \in AdjacentIndexes(map, cell, range)
                 PROVE  i[2] <= LastSection(map)[2]
      BY DEF NoOverrun
    <3> DEFINE S == SECTION_SIZE
               reach == map.MaxY - (cell[2] - range)
               rows == map.MaxY - map.MinY + 1 + S - 1
    <3>1. /\ map.MinY \in Int /\ map.MaxY \in Int /\ Fits(map.MinY - MaxRange)
          /\ Fits(map.MaxY + MaxRange) /\ Fits(map.MaxY - map.MinY + MaxRange + S)
          /\ cell[2] \in map.MinY .. map.MaxY /\ range \in Nat /\ range <= MaxRange
          /\ MaxRange \in Nat /\ S \in Nat /\ S > 1
          /\ Word \div 2 \in Nat
      BY MapsAssumption, SectionGridAssumption DEF OnMap, CellsOf
    <3>2. /\ reach \in Nat /\ reach <= rows /\ rows \in Nat /\ Fits(reach)
          /\ cell[2] - range \in Int /\ Fits(cell[2] - range)
      BY <3>1 DEF Fits
    <3>3. Index(map.MaxY - Int32(cell[2] - range)) = reach \div S
      BY <3>2, CellsHaveSections
    <3>4. i[2] <= reach \div S /\ i[2] \in Int
      BY <3>1, <3>3 DEF AdjacentIndexes
    <3>5. reach \div S <= rows \div S
      BY <3>2, CellsHaveSections
    <3>6. LastSection(map)[2] = rows \div S
      BY DEF LastSection, CountY, Count
    <3>7. reach \div S \in Int /\ rows \div S \in Int
      BY <3>1, <3>2
    <3>8. QED BY <3>4, <3>5, <3>6, <3>7
  <2>3. QED BY <2>1, <2>2 DEF LookupsAreRight
<1>q. QED BY <1>init, <1>next, <1>right, PTL DEF Spec

(* Away from the west and north edges, on a wide map, the sections that    *)
(* GetAdjacentSections returns hold every cell within range                *)
(* (Zone.cpp:108-141).                                                     *)
THEOREM InlandIsSeen == Spec => []SeesInland
<1>1. OnMap => SeesInland
  <2> SUFFICES ASSUME OnMap, Wide(map), Inland(map, cell, range),
                      NEW d \in CellsOf(map), Near(cell, d, range)
               PROVE  Section(map, d) \in GetAdjacentSections(map, cell, range)
    BY DEF SeesInland, SectionsInRange
  <2> DEFINE S == SECTION_SIZE
  <2>1. /\ map.MinX \in Int /\ map.MaxX \in Int /\ map.MinY \in Int /\ map.MaxY \in Int
        /\ Fits(map.MinX - MaxRange) /\ Fits(map.MaxX + MaxRange)
        /\ Fits(map.MinY - MaxRange) /\ Fits(map.MaxY + MaxRange)
        /\ Fits(map.MaxX - map.MinX + MaxRange + S)
        /\ Fits(map.MaxY - map.MinY + MaxRange + S)
        /\ MaxRange \in Nat /\ S \in Nat /\ S > 1 /\ Word \div 2 \in Nat
    BY MapsAssumption, SectionGridAssumption DEF OnMap
  <2>2. /\ cell[1] \in map.MinX .. map.MaxX /\ cell[2] \in map.MinY .. map.MaxY
        /\ d[1] \in map.MinX .. map.MaxX /\ d[2] \in map.MinY .. map.MaxY
        /\ range \in Nat /\ range <= MaxRange
    BY <2>1 DEF OnMap, CellsOf
  <2>3. /\ d[1] - cell[1] \in -range .. range /\ d[2] - cell[2] \in -range .. range
        /\ cell[1] - range >= map.MinX /\ cell[2] + range <= map.MaxY
    BY DEF Near, Inland
  <2> DEFINE top == map.MaxY - (cell[2] + range)
             bottom == map.MaxY - (cell[2] - range)
             left == (cell[1] - range) - map.MinX
             right == (cell[1] + range) - map.MinX
             dx == d[1] - map.MinX
             dy == map.MaxY - d[2]
  <2>4. /\ top \in Nat /\ Fits(top) /\ bottom \in Nat /\ Fits(bottom)
        /\ top <= dy /\ dy <= bottom /\ dy \in Nat
    BY <2>1, <2>2, <2>3 DEF Fits
  <2>5. /\ left \in Nat /\ Fits(left) /\ right \in Nat /\ Fits(right)
        /\ left <= dx /\ dx <= right /\ dx \in Nat
    BY <2>1, <2>2, <2>3 DEF Fits
  <2>6. /\ cell[2] + range \in Int /\ Fits(cell[2] + range)
        /\ cell[2] - range \in Int /\ Fits(cell[2] - range)
        /\ cell[1] + range \in Int /\ Fits(cell[1] + range)
        /\ cell[1] - range \in Int /\ Fits(cell[1] - range)
    BY <2>1, <2>2, <2>3 DEF Fits
  <2>7. /\ Index(map.MaxY - Int32(cell[2] + range)) = top \div S
        /\ Index(map.MaxY - Int32(cell[2] - range)) = bottom \div S
        /\ Index(Int32(cell[1] - range) - map.MinX) = left \div S
        /\ Index(Int32(cell[1] + range) - map.MinX) = right \div S
    <3>1. /\ Int32(cell[2] + range) = cell[2] + range
          /\ Int32(cell[2] - range) = cell[2] - range
          /\ Int32(cell[1] + range) = cell[1] + range
          /\ Int32(cell[1] - range) = cell[1] - range
      BY <2>6, CellsHaveSections
    <3>2. /\ Index(top) = top \div S /\ Index(bottom) = bottom \div S
          /\ Index(left) = left \div S /\ Index(right) = right \div S
      BY <2>4, <2>5, CellsHaveSections
    <3>3. /\ map.MaxY - Int32(cell[2] + range) = top
          /\ map.MaxY - Int32(cell[2] - range) = bottom
          /\ Int32(cell[1] - range) - map.MinX = left
          /\ Int32(cell[1] + range) - map.MinX = right
      BY <3>1, Zenon
    <3> HIDE DEF top, bottom, left, right
    <3>4. QED BY <3>2, <3>3
  <2>8. AdjacentIndexes(map, cell, range) =
            ((left \div S) .. (right \div S)) \X ((top \div S) .. (bottom \div S))
    BY <2>7 DEF AdjacentIndexes
  <2>9. Section(map, d) = <<dx \div S, dy \div S>>
    BY DEF Section
  <2>10. /\ dx \div S \in (left \div S) .. (right \div S)
         /\ dy \div S \in (top \div S) .. (bottom \div S)
         /\ dx \div S \in Nat /\ dy \div S \in Nat
    <3>1. /\ left \div S <= dx \div S /\ dx \div S <= right \div S
          /\ top \div S <= dy \div S /\ dy \div S <= bottom \div S
      BY <2>4, <2>5, CellsHaveSections
    <3>2. /\ left \div S \in Int /\ right \div S \in Int /\ top \div S \in Int
          /\ bottom \div S \in Int /\ dx \div S \in Nat /\ dy \div S \in Nat
      BY <2>1, <2>4, <2>5
    <3>3. QED BY <3>1, <3>2
  <2> HIDE DEF top, bottom, left, right, dx, dy
  <2>11. Section(map, d) \in AdjacentIndexes(map, cell, range)
    BY <2>8, <2>9, <2>10
  <2>12. SectionAt(map, Section(map, d)[2], Section(map, d)[1]) = Section(map, d)
    BY CellsHaveSections DEF OnMap
  <2>13. Section(map, d) # NoSection
    BY <2>9, <2>10 DEF NoSection
  <2>14. QED BY <2>11, <2>12, <2>13 DEF GetAdjacentSections
<1>2. QED BY <1>1, LookupsFindSections, PTL
=============================================================================
