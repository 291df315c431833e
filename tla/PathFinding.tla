----------------------------- MODULE PathFinding -----------------------------
(***************************************************************************)
(* Map::FindPath of the NPC server, with which its monsters go after a     *)
(* player (the game server has a copy).  It searches the nearest cells     *)
(* first, nearest by squared distance; what it has come from is in parent, *)
(* and CalcCellPathFromParent walks that back from dest.                   *)
(*                                                                         *)
(* A cell is a Pos, <<y, x>>, counted from the corner of the map; Cell2Pos *)
(* and Pos2Cell are each other's inverse.  parent is a std::map whose      *)
(* operator[] answers Pos(), the corner, for a cell that was never given   *)
(* one.  The priority queue may order equal nodes in any way.              *)
(***************************************************************************)
EXTENDS Integers, SequencesExt

CONSTANTS
    Height, Width,      \* of the map
    Infinity            \* INT32_MAX

ASSUME SizeAssumption ==
    /\ Height \in Nat \ {0} /\ Width \in Nat \ {0}
    /\ Infinity \in Nat /\ Infinity > 10 * (Height * Height + Width * Width)

Cells == (0 .. Height - 1) \X (0 .. Width - 1)
Corner == <<0, 0>>

VARIABLES
    walls,      \* of CollisionBuf, the cells that are TRUE
    start,
    dest,
    closed,
    opened,
    parent,
    queue,      \* how often each cell is in the priority queue
    pc,         \* "out" of FindPath, "search", "trace" in
                \* CalcCellPathFromParent, "done" when it has returned
    at,         \* of CalcCellPathFromParent: pos
    path        \* its cells, from the last one to the first pushed

localVars == <<start, dest, closed, opened, parent, queue, pc, at, path>>

Abs(n) == IF n < 0 THEN -n ELSE n

Call(from, to) ==
    /\ pc' = "search"
    /\ start' = from
    /\ dest' = to
    /\ closed' = {}
    /\ opened' = [c \in Cells |-> IF c # from THEN Infinity ELSE
                    10 * (Abs(to[1] - from[1]) + Abs(to[2] - from[2]))]
    /\ parent' = [[c \in Cells |-> Corner] EXCEPT ![from] = from]
    /\ queue' = [[c \in Cells |-> 0] EXCEPT ![from] = 1]
    /\ at' = to
    /\ path' = <<>>

(* Before and after, FindPath has no variables. *)
Out ==
    /\ pc = "out"
    /\ start = Corner /\ dest = Corner /\ at = Corner
    /\ closed = {} /\ opened = <<>> /\ parent = <<>> /\ queue = <<>>
    /\ path = <<>>

Return ==
    /\ pc' = "out"
    /\ start' = Corner /\ dest' = Corner /\ at' = Corner
    /\ closed' = {} /\ opened' = <<>> /\ parent' = <<>> /\ queue' = <<>>
    /\ path' = <<>>
-----------------------------------------------------------------------------
Square(n) == n * n

(* F of a node: g stays 0.  (The first node has another F and is alone.)   *)
F(c) == 10 * (Square(dest[1] - c[1]) + Square(dest[2] - c[2]))

CanGo(c) == c \in Cells \ walls

(* The cells around n in the order of _deltaY and _deltaX. *)
Around(n) == << <<n[1] + 1, n[2]>>, <<n[1] - 1, n[2]>>,
                <<n[1], n[2] - 1>>, <<n[1], n[2] + 1>> >>

(* Faults: dest is asked for a wall as any other cell is; a closed cell is  *)
(* pushed again.                                                           *)
AdmittedIfFree(c) ==
    /\ CanGo(c)
    /\ c \notin closed
    /\ opened[c] >= F(c)

AdmittedAgain(c) ==
    /\ c = dest \/ CanGo(c)
    /\ opened[c] >= F(c)

(* opened[dest], the only one the loop writes, is never below F(dest) = 0. *)
Admitted(c) ==
    /\ c = dest \/ CanGo(c)
    /\ c \notin closed
    /\ opened[c] >= F(c)

(* Each turn writes opened[dest] once more for each cell it pushes. *)
LastAround(n, cells) ==
    Around(n)[Max({i \in 1 .. 4 : Around(n)[i] \in cells})]

Push(n, cells) ==
    /\ queue' = [c \in Cells |-> queue[c] - (IF c = n THEN 1 ELSE 0)
                                          + (IF c \in cells THEN 1 ELSE 0)]
    /\ parent' = [c \in Cells |-> IF c \in cells THEN n ELSE parent[c]]
    /\ opened' = IF cells = {} THEN opened
                 ELSE [opened EXCEPT ![dest] = F(LastAround(n, cells))]

(* A turn of the loop: one node is popped. *)
Visit(n) ==
    /\ pc = "search"
    /\ queue[n] > 0
    /\ \A c \in Cells : queue[c] > 0 => F(n) <= F(c)
    /\ IF n \in closed
       THEN Push(n, {}) /\ UNCHANGED <<closed, pc>>
       ELSE /\ closed' = closed \union {n}
            /\ IF n = dest
               THEN Push(n, {}) /\ pc' = "trace"
               ELSE /\ Push(n, {c \in Range(Around(n)) : Admitted(c)})
                    /\ UNCHANGED pc
    /\ UNCHANGED <<walls, start, dest, at, path>>

(* The queue is empty: dest was not reached. *)
GiveUp ==
    /\ pc = "search"
    /\ \A c \in Cells : queue[c] = 0
    /\ pc' = "trace"
    /\ UNCHANGED <<walls, start, dest, closed, opened, parent, queue, at, path>>

(* A turn of the loop of CalcCellPathFromParent. *)
Trace ==
    /\ pc = "trace"
    /\ path' = <<at>> \o path
    /\ at' = parent[at]
    /\ pc' = IF at = parent[at] THEN "done" ELSE "trace"
    /\ UNCHANGED <<walls, start, dest, closed, opened, parent, queue>>

FindPath == (\E n \in Cells : Visit(n)) \/ GiveUp \/ Trace
-----------------------------------------------------------------------------
IsWalk(p) ==
    /\ p[1] = start /\ Last(p) = dest
    /\ \A i \in 1 .. Len(p) - 1 : p[i + 1] \in Range(Around(p[i]))
    /\ \A i \in 2 .. Len(p) - 1 : CanGo(p[i])

(* No walk leads from one cell to the other: some set of cells holds the    *)
(* first, not the second, and every free cell next to one of its own.      *)
CutOff(from, to) ==
    \E near \in SUBSET Cells :
        /\ from \in near /\ to \notin near
        /\ \A c \in near : \A d \in Range(Around(c)) :
               d = to \/ CanGo(d) => d \in near

(* What FindPath returns is a way from start to dest over free cells, step *)
(* by step, whenever there is one (Map.cpp:82-142, Monster.cpp:131-145).    *)
FindsTheWay == pc = "done" => IsWalk(path) \/ CutOff(start, dest)

(* CalcCellPathFromParent never comes to a cell twice, so it ends: a cell  *)
(* keeps the parent it was closed with (Map.cpp:126, 137, 148-156).        *)
TraceNeverCircles == IsInjective(path)
=============================================================================
