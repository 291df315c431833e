---------------------------- MODULE MCSectionGrid ----------------------------
(* SectionLookups on every small map, from a cell west and south of the     *)
(* origin on.                                                               *)
EXTENDS SectionLookups

CONSTANT MaxSize

MCMaps == [MinX : {-1}, MaxX : 0 .. MaxSize, MinY : {-2}, MaxY : 0 .. MaxSize]
=============================================================================
