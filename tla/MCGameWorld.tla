----------------------------- MODULE MCGameWorld -----------------------------
(* Small instances of GameWorld. *)
EXTENDS GameWorld, TLC

CONSTANTS s1, s2, none

(* Three cells of one map: two share the section "a".                      *)
MCCells == {"spawn", "near", "far"}
MCSectionOf == [c \in MCCells |-> IF c = "far" THEN "b" ELSE "a"]
MCBlocked == {}

(* Two cells, each of a section of its own, and one of a wall.             *)
MCFewCells == {"spawn", "far"}
MCFewSectionOf == [c \in MCFewCells |-> IF c = "far" THEN "b" ELSE "a"]
MCWall == {"near"}

(* Two sessions that nothing tells apart. *)
Symmetry == Permutations({s1, s2})
=============================================================================
