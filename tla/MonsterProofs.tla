---------------------------- MODULE MonsterProofs ----------------------------
(***************************************************************************)
(* FindsTheWay and TraceNeverCircles, for maps of any size with any walls, *)
(* and for every chase of a monster.                                       *)
(*                                                                         *)
(* The closed cells hang together by their parents: each but start was     *)
(* closed after its parent, which it keeps.  Instead of an order in which  *)
(* they were closed, Rooted says of every set of closed cells without      *)
(* start that one of them has its parent outside: the parents of a circle  *)
(* would all be inside.                                                    *)
(***************************************************************************)
EXTENDS NpcServer, SequenceTheorems, TLAPS

Neighbours(c) == Range(Around(c))
Passable(c) == c = dest \/ CanGo(c)

PlaceTypes ==
    /\ cell \in Cells /\ seen \in Cells
    /\ pc \in {"out", "search", "trace", "done"}

SearchTypes ==
    /\ start \in Cells /\ dest \in Cells /\ at \in Cells
    /\ closed \subseteq Cells
    /\ parent \in [Cells -> Cells]
    /\ queue \in [Cells -> Nat]
    /\ opened \in [Cells -> Int]
    /\ path \in Seq(Cells)

(* No set of closed cells has all its parents inside, but with start. *)
Rooted ==
    \A cells \in SUBSET closed :
        cells # {} /\ start \notin cells => \E c \in cells : parent[c] \notin cells

(* c was reached from its parent. *)
Reached(c) == parent[c] \in closed /\ c \in Neighbours(parent[c]) /\ Passable(c)

Parents ==
    /\ parent[start] = start
    /\ \A c \in closed \ {start} : Reached(c)
    /\ \A c \in Cells \ (closed \union {start}) :
           Reached(c) \/ (parent[c] = Corner /\ queue[c] = 0)

(* What the search has still to come to is in the queue. *)
Frontier ==
    /\ start \in closed \/ (pc = "search" /\ closed = {} /\ queue[start] > 0 /\
                               \A c \in Cells \ {start} : queue[c] = 0)
    /\ \A c \in closed \ {dest} : \A d \in Neighbours(c) :
           Passable(d) => d \in closed \/ queue[d] > 0
    /\ pc = "search" => dest \notin closed
    /\ pc # "search" => dest \in closed \/ \A c \in Cells : queue[c] = 0

(* All but start and dest are open to any node. *)
Opened ==
    /\ opened[dest] >= 0
    /\ \A c \in Cells \ {start, dest} : opened[c] = Infinity

SearchInv == SearchTypes /\ Rooted /\ Parents /\ Frontier /\ Opened

IsRoot(c) == parent[c] = c

(* The path so far, and where it goes on. *)
TraceInv ==
    /\ \A i \in 1 .. Len(path) - 1 : path[i] = parent[path[i + 1]]
    /\ \A i \in 2 .. Len(path) : ~IsRoot(path[i])
    /\ path # <<>> => path[Len(path)] = dest
    /\ pc = "search" => path = <<>> /\ at = dest
    /\ pc = "trace" /\ path = <<>> => at = dest
    /\ pc = "trace" /\ path # <<>> => at = parent[path[1]] /\ ~IsRoot(path[1])
    /\ pc = "done" => path # <<>> /\ IsRoot(path[1])
    /\ dest \in closed => at \in closed /\ \A i \in 1 .. Len(path) : path[i] \in closed
    /\ IsInjective(path)

PathInv ==
    /\ PlaceTypes
    /\ IF pc = "out" THEN path = <<>> ELSE SearchInv /\ TraceInv
-----------------------------------------------------------------------------
(* The cells around a cell, and what F is of a cell. *)
LEMMA CellsAround ==
  ASSUME NEW c \in Cells
  PROVE  /\ Neighbours(c) = {Around(c)[i] : i \in 1 .. 4}
         /\ c \notin Neighbours(c)
         /\ dest \in Cells => F(c) \in 0 .. Infinity
<1>1. PICK y \in 0 .. Height - 1, x \in 0 .. Width - 1 : c = <<y, x>>
  BY DEF Cells
<1>2. Around(c) = << <<y + 1, x>>, <<y - 1, x>>, <<y, x - 1>>, <<y, x + 1>> >>
  BY <1>1 DEF Around
<1>3. Neighbours(c) = {Around(c)[i] : i \in 1 .. 4}
  BY <1>2 DEF Neighbours, Range
<1>4. c \notin Neighbours(c)
  <2>1. y + 1 # y /\ y - 1 # y /\ x - 1 # x /\ x + 1 # x
    OBVIOUS
  <2>2. \A i \in 1 .. 4 : Around(c)[i] # c
    BY <1>1, <1>2, <2>1
  <2>3. QED BY <1>3, <2>2
<1>5. ASSUME dest \in Cells
      PROVE  F(c) \in 0 .. Infinity
  <2>1. PICK v \in 0 .. Height - 1, u \in 0 .. Width - 1 : dest = <<v, u>>
    BY <1>5 DEF Cells
  <2>2. ASSUME NEW n \in Nat, NEW i \in 0 .. n - 1, NEW j \in 0 .. n - 1
        PROVE  Square(i - j) \in 0 .. n * n
    <3>1. PICK k \in Nat : k < n /\ (i - j = k \/ i - j = -k)
      <4>1. CASE i >= j
        <5>1. i - j \in Nat /\ i - j < n
          BY <4>1
        <5>2. QED BY <5>1
      <4>2. CASE i < j
        <5>1. j - i \in Nat /\ j - i < n /\ i - j = -(j - i)
          BY <4>2
        <5>2. QED BY <5>1
      <4>3. QED BY <4>1, <4>2
    <3>2. Square(i - j) = k * k
      BY <3>1 DEF Square
    <3>3. k * k >= 0 /\ k * k <= k * n /\ k * n <= n * n
      BY <3>1
    <3>4. QED BY <3>2, <3>3
  <2>3. Square(v - y) \in 0 .. Height * Height /\ Square(u - x) \in 0 .. Width * Width
    BY <2>2, SizeAssumption
  <2>4. F(c) = 10 * (Square(v - y) + Square(u - x))
    BY <1>1, <2>1 DEF F
  <2> DEFINE a == Square(v - y)
             b == Square(u - x)
             hh == Height * Height
             ww == Width * Width
  <2>5. /\ a \in 0 .. hh /\ b \in 0 .. ww /\ F(c) = 10 * (a + b)
        /\ hh \in Nat /\ ww \in Nat /\ Infinity > 10 * (hh + ww)
        /\ Infinity \in Int
    BY <2>3, <2>4, SizeAssumption
  <2> HIDE DEF a, b, hh, ww
  <2>6. QED BY <2>5
<1>6. QED BY <1>3, <1>4, <1>5

(* A turn of the loop of FindPath. *)
LEMMA VisitKeeps ==
  ASSUME SearchInv, TraceInv, NEW n \in Cells, Visit(n)
  PROVE  SearchInv' /\ TraceInv'
<1> USE DEF SearchInv
<1>1. /\ pc = "search" /\ queue[n] > 0 /\ dest \notin closed
      /\ UNCHANGED <<walls, start, dest, at, path>>
      /\ path = <<>> /\ at = dest
  BY DEF Visit, Frontier, TraceInv
<1>2. CASE n \in closed
  <2>1. /\ queue' = [c \in Cells |-> queue[c] - (IF c = n THEN 1 ELSE 0)
                                             + (IF c \in {} THEN 1 ELSE 0)]
        /\ parent' = [c \in Cells |-> IF c \in {} THEN n ELSE parent[c]]
        /\ opened' = opened /\ closed' = closed /\ pc' = pc
    BY <1>2 DEF Visit, Push
  <2>2. /\ parent' = parent /\ queue' \in [Cells -> Nat]
        /\ \A c \in Cells \ {n} : queue'[c] = queue[c]
    <3>1. parent \in [Cells -> Cells] /\ queue \in [Cells -> Nat]
      BY DEF SearchTypes
    <3>2. parent' = [c \in Cells |-> parent[c]]
      BY <2>1
    <3>3. queue' = [c \in Cells |-> IF c = n THEN queue[c] - 1 ELSE queue[c]]
      BY <2>1, <3>1
    <3>4. queue[n] - 1 \in Nat
      BY <1>1, <3>1
    <3>5. QED BY <3>1, <3>2, <3>3, <3>4
  <2>3. SearchTypes'
    BY <1>1, <2>1, <2>2 DEF SearchTypes
  <2>4. Rooted' /\ Opened'
    BY <1>1, <2>1, <2>2 DEF Rooted, Opened
  <2>5. Parents'
    BY <1>1, <1>2, <2>1, <2>2 DEF Parents, Reached, Passable, CanGo
  <2>6. Frontier'
    <3>1. start \in closed
      BY <1>2 DEF Frontier
    <3>2. ASSUME NEW c \in closed \ {dest}, NEW d \in Neighbours(c), Passable(d),
                 d \notin closed
          PROVE  queue'[d] > 0
      <4>1. d \in Cells
        BY <3>2 DEF Passable, CanGo, SearchTypes
      <4>2. QED BY <1>2, <2>2, <3>2, <4>1 DEF Frontier
    <3>3. QED BY <1>1, <2>1, <3>1, <3>2 DEF Frontier, Passable, CanGo
  <2>7. TraceInv'
    BY <1>1, <2>1, <2>2 DEF TraceInv, IsRoot
  <2>8. QED BY <2>3, <2>4, <2>5, <2>6, <2>7
<1>3. CASE n \notin closed
  <2> DEFINE adm == IF n = dest THEN {} ELSE {c \in Neighbours(n) : Admitted(c)}
  <2>1. /\ closed' = closed \union {n}
        /\ pc' = IF n = dest THEN "trace" ELSE "search"
        /\ Push(n, adm)
    BY <1>1, <1>3 DEF Visit, Neighbours
  <2>2. start \in closed' /\ (n # start => start \in closed)
    BY <1>1, <2>1 DEF Frontier
  <2>3. ASSUME NEW c \in adm
        PROVE  /\ c \in Cells \ (closed' \union {start})
               /\ c \in Neighbours(n) /\ Passable(c) /\ n # dest
    <3>1. Admitted(c) /\ c \in Neighbours(n) /\ n # dest
      OBVIOUS
    <3>2. c \in Cells /\ c \notin closed /\ Passable(c)
      BY <3>1 DEF Admitted, CanGo, Passable, SearchTypes
    <3>3. c # n
      BY <3>1, CellsAround
    <3>4. QED BY <2>1, <2>2, <3>1, <3>2, <3>3
  <2>4. ASSUME NEW d \in Neighbours(n), Passable(d), d \notin closed', n # dest
        PROVE  d \in adm
    <3>1. d \in Cells /\ dest \in Cells
      BY <2>4 DEF Passable, CanGo, SearchTypes
    <3>2. d \notin closed /\ d # start
      BY <2>1, <2>2, <2>4
    <3>3. opened[d] >= F(d)
      <4>1. CASE d = dest
        <5>1. PICK y \in Int, x \in Int : dest = <<y, x>>
          BY <3>1 DEF Cells
        <5>2. y - y = 0 /\ x - x = 0
          OBVIOUS
        <5>3. F(dest) = 0
          BY <5>1, <5>2 DEF F, Square
        <5>4. QED BY <4>1, <5>3 DEF Opened
      <4>2. CASE d # dest
        <5>1. opened[d] = Infinity
          BY <3>1, <3>2, <4>2 DEF Opened
        <5>2. F(d) \in 0 .. Infinity
          BY <3>1, CellsAround
        <5>3. QED BY <5>1, <5>2, SizeAssumption
      <4>3. QED BY <4>1, <4>2
    <3>4. QED BY <2>4, <3>2, <3>3 DEF Admitted, Passable
  <2> HIDE DEF adm
  <2>5. /\ parent' \in [Cells -> Cells]
        /\ \A c \in Cells : parent'[c] = IF c \in adm THEN n ELSE parent[c]
        /\ queue' \in [Cells -> Nat]
        /\ \A c \in adm : queue'[c] > 0
        /\ \A c \in Cells \ {n} : queue'[c] = queue[c] \/ c \in adm
    <3>1. parent' = [c \in Cells |-> IF c \in adm THEN n ELSE parent[c]]
      BY <2>1 DEF Push
    <3>2. queue' = [c \in Cells |-> queue[c] - (IF c = n THEN 1 ELSE 0)
                                             + (IF c \in adm THEN 1 ELSE 0)]
      BY <2>1 DEF Push
    <3>3. parent \in [Cells -> Cells] /\ queue \in [Cells -> Nat]
      BY DEF SearchTypes
    <3>4. n \notin adm /\ adm \subseteq Cells
      BY <2>1, <2>3
    <3>5. ASSUME NEW c \in Cells
          PROVE  /\ queue'[c] \in Nat
                 /\ c \in adm => queue'[c] > 0
                 /\ c # n => queue'[c] = queue[c] \/ c \in adm
      BY <1>1, <3>2, <3>3, <3>4
    <3>6. queue' \in [Cells -> Nat]
      BY <3>2, <3>5
    <3>7. QED BY <3>1, <3>3, <3>4, <3>5, <3>6
  <2>6. /\ opened' \in [Cells -> Int] /\ opened'[dest] >= 0
        /\ \A c \in Cells \ {dest} : opened'[c] = opened[c]
    <3>1. opened \in [Cells -> Int] /\ dest \in Cells /\ opened[dest] >= 0
      BY DEF SearchTypes, Opened
    <3>2. CASE adm = {}
      BY <2>1, <3>1, <3>2 DEF Push
    <3>3. CASE adm # {}
      <4>1. opened' = [opened EXCEPT ![dest] = F(LastAround(n, adm))]
        BY <2>1, <3>3 DEF Push
      <4>2. LastAround(n, adm) \in adm
        <5> DEFINE ixs == {i \in 1 .. 4 : Around(n)[i] \in adm}
        <5>1. ixs # {} /\ ixs \subseteq 1 .. 4
          BY <2>3, <3>3, CellsAround
        <5>2. \E i \in ixs : \A j \in ixs : i >= j
          BY <5>1
        <5>3. Max(ixs) \in ixs
          BY <5>2 DEF Max
        <5>4. QED BY <5>3 DEF LastAround
      <4>3. F(LastAround(n, adm)) \in 0 .. Infinity
        BY <2>3, <3>1, <4>2, CellsAround
      <4>4. QED BY <3>1, <4>1, <4>3, SizeAssumption
    <3>4. QED BY <3>2, <3>3
  <2>7. SearchTypes'
    BY <1>1, <2>1, <2>5, <2>6 DEF SearchTypes
  <2>8. Opened'
    BY <1>1, <2>6 DEF Opened
  <2>9. n = start \/ Reached(n)
    BY <1>1, <1>3 DEF Parents
  <2>10. \A c \in closed' : parent'[c] = parent[c]
    BY <2>1, <2>3, <2>5 DEF SearchTypes
  <2>11. Rooted'
    <3> SUFFICES ASSUME NEW cells \in SUBSET closed', cells # {}, start \notin cells
                 PROVE  \E c \in cells : parent'[c] \notin cells
      BY <1>1 DEF Rooted
    <3>1. CASE cells = {n}
      <4>1. Reached(n)
        BY <2>9, <3>1
      <4>2. parent[n] \notin cells
        BY <1>3, <3>1, <4>1 DEF Reached
      <4>3. QED BY <2>10, <3>1, <4>2
    <3>2. CASE cells # {n}
      <4>1. /\ cells \ {n} \in SUBSET closed /\ cells \ {n} # {}
            /\ start \notin cells \ {n}
        BY <2>1, <3>2
      <4>2. PICK c \in cells \ {n} : parent[c] \notin cells \ {n}
        BY <4>1 DEF Rooted
      <4>3. c \in closed \ {start}
        BY <4>1
      <4>4. parent[c] # n
        BY <1>3, <4>3 DEF Parents, Reached
      <4>5. QED BY <2>1, <2>10, <4>2, <4>3, <4>4
    <3>3. QED BY <3>1, <3>2
  <2>12. Parents'
    <3>1. parent'[start'] = start'
      BY <1>1, <2>2, <2>10 DEF Parents
    <3>2. ASSUME NEW c \in Cells, Reached(c), c \notin adm
          PROVE  Reached(c)'
      BY <1>1, <2>1, <2>5, <3>2 DEF Reached, Passable, CanGo
    <3>3. ASSUME NEW c \in closed' \ {start}
          PROVE  Reached(c)'
      <4>1. Reached(c) /\ c \in Cells /\ c \notin adm
        BY <2>1, <2>3, <2>9 DEF Parents, SearchTypes
      <4>2. QED BY <3>2, <4>1
    <3>4. ASSUME NEW c \in Cells \ (closed' \union {start})
          PROVE  Reached(c)' \/ (parent'[c] = Corner /\ queue'[c] = 0)
      <4>1. CASE c \in adm
        BY <1>1, <2>1, <2>3, <2>5, <4>1 DEF Reached, Passable, CanGo
      <4>2. CASE c \notin adm
        <5>1. c \notin closed /\ c # n
          BY <2>1
        <5>2. parent'[c] = parent[c] /\ queue'[c] = queue[c]
          BY <2>5, <4>2, <5>1
        <5>3. QED BY <3>2, <4>2, <5>1, <5>2 DEF Parents
      <4>3. QED BY <4>1, <4>2
    <3>5. QED BY <1>1, <3>1, <3>3, <3>4 DEF Parents
  <2>13. Frontier'
    <3>1. ASSUME NEW c \in closed' \ {dest}, NEW d \in Neighbours(c), Passable(d)
          PROVE  d \in closed' \/ queue'[d] > 0
      <4>1. d \in Cells
        BY <3>1 DEF Passable, CanGo, SearchTypes
      <4>2. CASE c = n
        BY <2>4, <2>5, <3>1, <4>2
      <4>3. CASE c # n
        <5>1. d \in closed \/ queue[d] > 0
          BY <2>1, <3>1, <4>3 DEF Frontier
        <5>2. QED BY <2>1, <2>5, <4>1, <5>1
      <4>4. QED BY <4>2, <4>3
    <3>2. /\ pc' = "search" => dest \notin closed'
          /\ pc' # "search" => dest \in closed'
      BY <1>1, <2>1
    <3>3. QED BY <1>1, <2>2, <3>1, <3>2 DEF Frontier, Passable, CanGo
  <2>14. TraceInv'
    BY <1>1, <2>1 DEF TraceInv, IsRoot
  <2>15. QED BY <2>7, <2>8, <2>11, <2>12, <2>13, <2>14
<1>4. QED BY <1>2, <1>3

(* A turn of the loop of CalcCellPathFromParent. *)
LEMMA TraceKeeps ==
  ASSUME SearchInv, TraceInv, Trace
  PROVE  SearchInv' /\ TraceInv'
<1> USE DEF SearchInv
<1>1. /\ pc = "trace" /\ path' = <<at>> \o path
      /\ at' = parent[at]
      /\ pc' = IF at = parent[at] THEN "done" ELSE "trace"
      /\ UNCHANGED <<walls, start, dest, closed, opened, parent, queue>>
  BY DEF Trace
<1>2. /\ at \in Cells /\ dest \in Cells /\ parent \in [Cells -> Cells]
      /\ closed \subseteq Cells /\ path \in Seq(Cells) /\ at' \in Cells
  BY <1>1 DEF SearchTypes
<1>3. /\ path' \in Seq(Cells) /\ Len(path') = Len(path) + 1 /\ path'[1] = at
      /\ \A i \in 1 .. Len(path) : path'[i + 1] = path[i]
      /\ \A i \in 2 .. Len(path) + 1 : path'[i] = path[i - 1]
  <2>1. <<at>> \in Seq(Cells) /\ Len(<<at>>) = 1 /\ <<at>>[1] = at
    BY <1>2
  <2>2. /\ path' \in Seq(Cells) /\ Len(path') = Len(<<at>>) + Len(path)
        /\ \A i \in 1 .. Len(<<at>>) + Len(path) : path'[i] =
               IF i <= Len(<<at>>) THEN <<at>>[i] ELSE path[i - Len(<<at>>)]
    BY <1>1, <1>2, <2>1, ConcatProperties
  <2>3. Len(path) \in Nat
    BY <1>2
  <2>4. \A i \in 1 .. 1 + Len(path) : path'[i] = IF i <= 1 THEN at ELSE path[i - 1]
    BY <2>1, <2>2, <2>3
  <2>5. QED BY <2>1, <2>2, <2>3, <2>4
<1>4. SearchInv'
  <2>1. SearchTypes'
    BY <1>1, <1>2, <1>3 DEF SearchTypes
  <2>2. Rooted' /\ Opened'
    BY <1>1 DEF Rooted, Opened
  <2>3. Parents'
    BY <1>1 DEF Parents, Reached, Passable, CanGo
  <2>4. Frontier'
    BY <1>1 DEF Frontier, Passable, CanGo
  <2>5. QED BY <2>1, <2>2, <2>3, <2>4
(* A set of cells that has the parents of all its own has a root. *)
<1>5. ASSUME NEW cells \in SUBSET Cells, cells # {},
             \A c \in cells : parent[c] \in cells /\ ~IsRoot(c)
      PROVE  FALSE
  <2>1. start \notin cells
    BY <1>5 DEF Parents, IsRoot
  <2>2. CASE cells \intersect closed # {}
    <3>1. PICK c \in cells \intersect closed : parent[c] \notin cells \intersect closed
      BY <2>1, <2>2 DEF Rooted
    <3>2. parent[c] \in closed
      BY <2>1, <3>1 DEF Parents, Reached
    <3>3. QED BY <1>5, <3>1, <3>2
  <2>3. CASE cells \intersect closed = {}
    <3>1. \A c \in cells : parent[c] = Corner
      BY <1>5, <2>1, <2>3 DEF Parents, Reached
    <3>2. QED BY <1>5, <3>1 DEF IsRoot
  <2>4. QED BY <2>2, <2>3
<1>6. ASSUME NEW j \in 1 .. Len(path) PROVE at # path[j]
  <2>1. SUFFICES ASSUME at = path[j] PROVE FALSE
    OBVIOUS
  <2> DEFINE cells == {path[i] : i \in 1 .. j}
  <2>2. Len(path) \in Nat /\ \A i \in 1 .. j : i \in 1 .. Len(path) /\ path[i] \in Cells
    BY <1>2
  <2>3. path # <<>> /\ at = parent[path[1]] /\ ~IsRoot(path[1])
    BY <1>1, <1>2 DEF TraceInv
  <2>4. \A i \in 2 .. Len(path) : ~IsRoot(path[i]) /\ parent[path[i]] = path[i - 1]
    <3>1. ASSUME NEW i \in 2 .. Len(path)
          PROVE  parent[path[i]] = path[i - 1]
      <4>1. i - 1 \in 1 .. Len(path) - 1 /\ (i - 1) + 1 = i
        BY <2>2
      <4>2. QED BY <4>1 DEF TraceInv
    <3>2. QED BY <3>1 DEF TraceInv
  <2>5. ASSUME NEW i \in 1 .. j
        PROVE  parent[path[i]] \in cells /\ ~IsRoot(path[i])
    <3>1. CASE i = 1
      <4>1. path[j] \in cells
        BY <2>2
      <4>2. QED BY <2>1, <2>3, <3>1, <4>1
    <3>2. CASE i # 1
      <4>1. i \in 2 .. Len(path) /\ i - 1 \in 1 .. j
        BY <2>2, <3>2
      <4>2. QED BY <2>4, <4>1
    <3>3. QED BY <3>1, <3>2
  <2>6. cells # {} /\ cells \in SUBSET Cells
    BY <2>2
  <2>7. \A c \in cells : parent[c] \in cells /\ ~IsRoot(c)
    BY <2>5
  <2> HIDE DEF cells
  <2>8. QED BY <1>5, <2>6, <2>7
<1>7. TraceInv'
  <2> DEFINE n == Len(path)
  <2>1. n \in Nat /\ (path # <<>> <=> n > 0) /\ Len(path') = n + 1 /\ path' # <<>>
    BY <1>2, <1>3
  <2>2. \A i \in 1 .. n : path[i] \in Cells
    BY <1>2
  <2>3. \A i \in 1 .. n : path[i] = parent[path[i]] <=> IsRoot(path[i])
    BY DEF IsRoot
  <2>4. n > 0 => at = parent[path[1]] /\ path[n] = dest
    BY <1>1, <2>1 DEF TraceInv
  <2>5. n = 0 => at = dest
    BY <1>1, <2>1 DEF TraceInv
  <2>6. \A i \in 1 .. n : ~IsRoot(path[i])
    <3>1. n > 0 => ~IsRoot(path[1])
      BY <1>1, <2>1 DEF TraceInv
    <3>2. \A i \in 2 .. n : ~IsRoot(path[i])
      BY DEF TraceInv
    <3>3. QED BY <2>1, <3>1, <3>2
  <2>7. ASSUME NEW i \in 1 .. n
        PROVE  path'[i] = parent[path'[i + 1]]
    <3>1. CASE i = 1
      BY <1>3, <2>1, <2>4, <3>1
    <3>2. CASE i # 1
      <4>1. i - 1 \in 1 .. n - 1 /\ (i - 1) + 1 = i /\ i \in 2 .. n + 1
        BY <2>1, <3>2
      <4>2. path[i - 1] = parent[path[i]]
        BY <4>1 DEF TraceInv
      <4>3. QED BY <1>3, <4>1, <4>2
    <3>3. QED BY <3>1, <3>2
  <2>8. ASSUME NEW i \in 2 .. n + 1
        PROVE  ~IsRoot(path'[i])
    <3>1. i - 1 \in 1 .. n
      BY <2>1
    <3>2. QED BY <1>3, <2>6, <3>1
  <2>9. path'[n + 1] = dest
    <3>1. CASE n = 0
      BY <1>3, <2>5, <3>1
    <3>2. CASE n # 0
      <4>1. n \in 1 .. n
        BY <2>1, <3>2
      <4>2. QED BY <1>3, <2>1, <2>4, <3>2, <4>1
    <3>3. QED BY <3>1, <3>2
  <2>10. dest \in closed => at \in closed /\ at' \in closed /\
             \A i \in 1 .. n + 1 : path'[i] \in closed
    <3>1. SUFFICES ASSUME dest \in closed
                   PROVE  at \in closed /\ at' \in closed /\
                              \A i \in 1 .. n + 1 : path'[i] \in closed
      OBVIOUS
    <3>2. at \in closed /\ \A i \in 1 .. n : path[i] \in closed
      BY <3>1 DEF TraceInv
    <3>3. start \in closed
      BY <1>1 DEF Frontier
    <3>4. parent[at] \in closed
      BY <3>2, <3>3 DEF Parents, Reached
    <3>5. ASSUME NEW i \in 1 .. n + 1 PROVE path'[i] \in closed
      <4>1. CASE i = 1
        BY <1>3, <3>2, <4>1
      <4>2. CASE i # 1
        <5>1. i \in 2 .. n + 1 /\ i - 1 \in 1 .. n
          BY <2>1, <4>2
        <5>2. QED BY <1>3, <3>2, <5>1
      <4>3. QED BY <4>1, <4>2
    <3>6. QED BY <1>1, <3>2, <3>4, <3>5
  <2>11. IsInjective(path')
    <3>1. DOMAIN path' = 1 .. n + 1 /\ DOMAIN path = 1 .. n
      BY <1>2, <1>3, <2>1
    <3>2. ASSUME NEW i \in 1 .. n + 1, NEW j \in 1 .. n + 1, path'[i] = path'[j], i # j
          PROVE  FALSE
      <4>1. CASE i = 1
        <5>1. j \in 2 .. n + 1 /\ j - 1 \in 1 .. n
          BY <2>1, <3>2, <4>1
        <5>2. QED BY <1>3, <1>6, <3>2, <4>1, <5>1
      <4>2. CASE j = 1
        <5>1. i \in 2 .. n + 1 /\ i - 1 \in 1 .. n
          BY <2>1, <3>2, <4>2
        <5>2. QED BY <1>3, <1>6, <3>2, <4>2, <5>1
      <4>3. CASE i # 1 /\ j # 1
        <5>1. /\ i \in 2 .. n + 1 /\ i - 1 \in 1 .. n
              /\ j \in 2 .. n + 1 /\ j - 1 \in 1 .. n /\ i - 1 # j - 1
          BY <2>1, <3>2, <4>3
        <5>2. path[i - 1] = path[j - 1]
          BY <1>3, <3>2, <5>1
        <5>3. QED BY <3>1, <5>1, <5>2 DEF TraceInv, IsInjective
      <4>4. QED BY <4>1, <4>2, <4>3
    <3>3. QED BY <3>1, <3>2 DEF IsInjective
  <2>12. at' = parent[path'[1]] /\ (pc' = "trace" => ~IsRoot(path'[1]))
         /\ (pc' = "done" => IsRoot(path'[1])) /\ pc' \in {"trace", "done"}
    <3>1. path'[1] = at /\ at' = parent[at] /\ parent' = parent
      BY <1>1, <1>3
    <3>2. pc' = IF at = parent[at] THEN "done" ELSE "trace"
      BY <1>1
    <3>3. QED BY ONLY <3>1, <3>2 DEF IsRoot
  <2> HIDE DEF n
  <2>13. QED BY <1>1, <2>1, <2>7, <2>8, <2>9, <2>10, <2>11, <2>12 DEF TraceInv, IsRoot
<1>8. QED BY <1>4, <1>7

(* A monster calls FindPath and follows what it returns. *)
LEMMA MonsterInvariant == Spec => []PathInv
<1>init. Init => PathInv
  BY SizeAssumption DEF Init, Out, PathInv, PlaceTypes, Cells, Corner
(* FindPath is called from one cell of the map to another. *)
<1>call. ASSUME PlaceTypes, pc = "out", Call(cell, seen),
                UNCHANGED <<walls, cell, seen>>
         PROVE  PathInv'
  <2> USE <1>call DEF PlaceTypes
  <2>1. /\ pc' = "search" /\ start' = cell /\ dest' = seen /\ at' = seen
        /\ closed' = {} /\ path' = <<>>
        /\ opened' = [c \in Cells |-> IF c # cell THEN Infinity ELSE
                        10 * (Abs(seen[1] - cell[1]) + Abs(seen[2] - cell[2]))]
        /\ parent' = [[c \in Cells |-> Corner] EXCEPT ![cell] = cell]
        /\ queue' = [[c \in Cells |-> 0] EXCEPT ![cell] = 1]
    BY DEF Call
  <2>2. Corner \in Cells
    BY SizeAssumption DEF Corner, Cells
  <2>3. 10 * (Abs(seen[1] - cell[1]) + Abs(seen[2] - cell[2])) \in Nat
    <3>1. \A c \in Cells : c[1] \in Int /\ c[2] \in Int
      BY SizeAssumption DEF Cells
    <3>2. \A i \in Int : Abs(i) \in Nat
      BY DEF Abs
    <3>3. seen[1] - cell[1] \in Int /\ seen[2] - cell[2] \in Int
      BY <3>1
    <3>4. Abs(seen[1] - cell[1]) \in Nat /\ Abs(seen[2] - cell[2]) \in Nat
      BY <3>2, <3>3
    <3>5. QED BY <3>4
  <2>4. SearchTypes'
    BY <2>1, <2>2, <2>3, SizeAssumption DEF SearchTypes
  <2>5. Rooted' /\ Parents' /\ Frontier'
    BY <2>1, <2>2 DEF Rooted, Parents, Reached, Frontier
  <2>6. Opened'
    BY <2>1, <2>3, SizeAssumption DEF Opened
  <2>7. TraceInv'
    BY <2>1 DEF TraceInv, IsInjective
  <2>8. PlaceTypes'
    BY <2>1
  <2>9. QED BY <2>1, <2>4, <2>5, <2>6, <2>7, <2>8 DEF PathInv, SearchInv
(* What is done between calls. *)
<1>between. ASSUME PathInv, pc = "out", UNCHANGED localVars,
                   seen' \in Cells, cell' \in Cells
            PROVE  PathInv'
  BY <1>between DEF PathInv, PlaceTypes, localVars
<1>next. PathInv /\ [Next]_vars => PathInv'
  <2> SUFFICES ASSUME PathInv, [Next]_vars PROVE PathInv'
    OBVIOUS
  <2>1. cell \in Cells /\ seen \in Cells /\ pc \in {"out", "search", "trace", "done"}
    BY DEF PathInv, PlaceTypes
  <2>2. \A c : CanGo(c) => c \in Cells
    BY DEF CanGo
  <2>3. ASSUME NEW c \in Cells, EnterGame(c) PROVE PathInv'
    BY <1>between, <2>1, <2>3 DEF EnterGame, monsterVars
  <2>4. ASSUME NEW c \in Cells, Move(c) PROVE PathInv'
    BY <1>between, <2>1, <2>4 DEF Move, monsterVars
  <2>5. CASE pc = "out" /\ (UpdateIdle \/ UpdateSkill)
    BY <1>between, <2>1, <2>5 DEF UpdateIdle, UpdateSkill
  <2>6. CASE pc = "out" /\ UpdateMoving
    <3>1. cell' \in Cells /\ UNCHANGED <<localVars, seen>>
      BY <2>1, <2>2, <2>6 DEF UpdateMoving, SpotPlayer, RoamTo
    <3>2. QED BY <1>between, <2>1, <2>6, <3>1
  <2>7. CASE pc = "out" /\ UpdateChasing
    <3>1. UNCHANGED <<walls, cell, seen>> /\ (UNCHANGED localVars \/ Call(cell, seen))
      BY <2>7 DEF UpdateChasing
    <3>2. QED BY <1>between, <1>call, <2>1, <2>7, <3>1 DEF PathInv
  <2>8. ASSUME NEW n \in Cells, Visit(n), UNCHANGED <<monsterVars, seen>>
        PROVE  PathInv'
    <3>1. pc = "search" /\ pc' \in {"search", "trace"}
      BY <2>8 DEF Visit
    <3>2. SearchInv' /\ TraceInv'
      BY <2>8, <3>1, VisitKeeps DEF PathInv
    <3>3. QED BY <2>1, <2>8, <3>1, <3>2 DEF PathInv, PlaceTypes, monsterVars
  <2>9. CASE GiveUp /\ UNCHANGED <<monsterVars, seen>>
    <3>1. /\ pc = "search" /\ pc' = "trace" /\ \A c \in Cells : queue[c] = 0
          /\ UNCHANGED <<walls, start, dest, closed, opened, parent, queue, at, path>>
      BY <2>9 DEF GiveUp
    <3>2. SearchInv /\ TraceInv
      BY <3>1 DEF PathInv
    <3>3. SearchTypes' /\ Rooted' /\ Opened'
      BY <3>1, <3>2 DEF SearchInv, SearchTypes, Rooted, Opened
    <3>4. Parents'
      BY <3>1, <3>2 DEF SearchInv, Parents, Reached, Passable, CanGo
    <3>5. start \in closed
      BY <3>1, <3>2 DEF SearchInv, SearchTypes, Frontier
    <3>6. Frontier'
      BY <3>1, <3>2, <3>5 DEF SearchInv, Frontier, Passable, CanGo
    <3>7. TraceInv'
      BY <3>1, <3>2 DEF TraceInv, IsRoot
    <3>8. QED BY <2>1, <2>9, <3>1, <3>3, <3>4, <3>6, <3>7
              DEF PathInv, PlaceTypes, SearchInv, monsterVars
  <2>10. CASE Trace /\ UNCHANGED <<monsterVars, seen>>
    <3>1. pc = "trace" /\ pc' \in {"trace", "done"}
      BY <2>10 DEF Trace
    <3>2. SearchInv' /\ TraceInv'
      BY <2>10, <3>1, TraceKeeps DEF PathInv
    <3>3. QED BY <2>1, <2>10, <3>1, <3>2 DEF PathInv, PlaceTypes, monsterVars
  <2>11. CASE Follow
    <3>1. pc' = "out" /\ path' = <<>> /\ cell' \in Cells /\ seen' = seen
      BY <2>1, <2>2, <2>11 DEF Follow, Return, LoseTarget
    <3>2. QED BY <2>1, <3>1 DEF PathInv, PlaceTypes
  <2>12. CASE UNCHANGED vars
    <3>1. UNCHANGED <<walls, start, dest, closed, opened, parent, queue, pc, at,
                      path, cell, seen>>
      BY <2>12 DEF vars, localVars, monsterVars
    <3>2. SearchInv <=> SearchInv'
      BY <3>1 DEF SearchInv, SearchTypes, Rooted, Parents, Reached, Passable, CanGo,
         Frontier, Opened
    <3>3. TraceInv <=> TraceInv'
      BY <3>1 DEF TraceInv, IsRoot
    <3>4. QED BY <3>1, <3>2, <3>3 DEF PathInv, PlaceTypes
  <2>13. QED BY <2>3, <2>4, <2>5, <2>6, <2>7, <2>8, <2>9, <2>10, <2>11, <2>12
             DEF Next, Update, FindPath
<1>q. QED BY <1>init, <1>next, PTL DEF Spec

(* TraceNeverCircles: CalcCellPathFromParent, whose loop has no other end, *)
(* comes to no cell twice, on any map, between any two cells.              *)
THEOREM TraceEnds == Spec => []TraceNeverCircles
<1>1. PathInv => TraceNeverCircles
  BY DEF PathInv, TraceInv, TraceNeverCircles, IsInjective
<1>2. QED BY <1>1, MonsterInvariant, PTL

(* FindsTheWay: what FindPath returns is a walk from start to dest over    *)
(* free cells, unless the walls cut dest off.                              *)
THEOREM WaysAreFound == Spec => []FindsTheWay
<1>1. ASSUME PathInv, pc = "done"
      PROVE  IsWalk(path) \/ CutOff(start, dest)
  <2>1. SearchInv /\ TraceInv /\ start \in closed /\ closed \in SUBSET Cells
    BY <1>1 DEF PathInv, SearchInv, SearchTypes, Frontier
  <2>2. CASE dest \notin closed
    <3>1. \A c \in Cells : queue[c] = 0
      BY <1>1, <2>1, <2>2 DEF SearchInv, Frontier
    <3>2. ASSUME NEW c \in closed, NEW d \in Range(Around(c)), d = dest \/ CanGo(d)
          PROVE  d \in closed
      <4>1. d \in Cells
        BY <2>1, <3>2 DEF CanGo, SearchInv, SearchTypes
      <4>2. d \in closed \/ queue[d] > 0
        BY <2>1, <2>2, <3>2 DEF SearchInv, Frontier, Neighbours, Passable
      <4>3. QED BY <3>1, <4>1, <4>2
    <3>3. QED BY <2>1, <2>2, <3>2 DEF CutOff
  <2>3. CASE dest \in closed
    <3> DEFINE n == Len(path)
    <3>1. /\ path \in Seq(Cells) /\ n \in Nat \ {0} /\ path[n] = dest /\ IsRoot(path[1])
          /\ \A i \in 1 .. n : path[i] \in closed
          /\ \A i \in 1 .. n - 1 : path[i] = parent[path[i + 1]]
          /\ \A i \in 2 .. n : ~IsRoot(path[i])
      BY <1>1, <2>1, <2>3 DEF TraceInv, SearchInv, SearchTypes
    <3>2. path[1] = start
      <4>1. CASE path[1] # start
        <5>1. {path[1]} \in SUBSET closed /\ start \notin {path[1]}
          BY <3>1, <4>1
        <5>2. \E c \in {path[1]} : parent[c] \notin {path[1]}
          BY <2>1, <5>1 DEF SearchInv, Rooted
        <5>3. QED BY <3>1, <5>2 DEF IsRoot
      <4>2. QED BY <4>1
    <3>3. \A i \in 2 .. n : Reached(path[i])
      BY <2>1, <3>1 DEF SearchInv, Parents, IsRoot
    <3>4. ASSUME NEW i \in 1 .. n - 1
          PROVE  path[i + 1] \in Range(Around(path[i]))
      <4>1. i + 1 \in 2 .. n
        BY <3>1
      <4>2. QED BY <3>1, <3>3, <4>1 DEF Reached, Neighbours
    <3>5. ASSUME NEW i \in 2 .. n - 1
          PROVE  CanGo(path[i])
      <4>1. i \in 2 .. n /\ i \in DOMAIN path /\ n \in DOMAIN path /\ i # n
        BY <3>1
      <4>2. path[i] # dest
        BY <2>1, <3>1, <4>1 DEF TraceInv, IsInjective
      <4>3. QED BY <3>3, <4>1, <4>2 DEF Reached, Passable
    <3>6. Last(path) = dest
      BY <3>1 DEF Last
    <3>7. QED BY <3>2, <3>4, <3>5, <3>6 DEF IsWalk
  <2>4. QED BY <2>2, <2>3
<1>2. PathInv => FindsTheWay
  BY <1>1 DEF FindsTheWay
<1>3. QED BY <1>2, MonsterInvariant, PTL
-----------------------------------------------------------------------------
(* What the NPC server is told of the player is a cell of the map.         *)
Notices == [kind : {"enter", "move"}, cell : Cells]
NoticesInv == notices \in Seq(Notices)

(* Among the packets of the two servers, lost or late or of one that has   *)
(* crashed, the monster does what Monster says, and nothing else, so that  *)
(* the theorems above hold of it there (Monster.cpp:62-198,                *)
(* WorldPacketHandler.cpp:54-99).                                          *)
THEOREM NpcServerIsAMonster == NpcSpec => Spec
<1>init. InitNpc => Init /\ NoticesInv
  BY EmptySeq DEF InitNpc, NoticesInv
<1>notices. NoticesInv /\ [NextNpc]_npcVars => NoticesInv'
  <2> SUFFICES ASSUME NoticesInv, [NextNpc]_npcVars PROVE NoticesInv'
    OBVIOUS
  <2>1. ASSUME notices' = notices \/ notices' = <<>> PROVE NoticesInv'
    BY <2>1, EmptySeq DEF NoticesInv
  <2>2. ASSUME NEW kind \in {"enter", "move"}, NEW c \in Cells, Notify(kind, c) PROVE NoticesInv'
    <3>1. [kind |-> kind, cell |-> c] \in Notices
      BY DEF Notices
    <3>2. QED BY <2>2, <3>1 DEF NoticesInv, Notify
  <2>3. CASE UNCHANGED npcVars
    BY <2>1, <2>3 DEF npcVars, linkVars
  <2>4. CASE UpdateMonster
    BY <2>1, <2>4 DEF UpdateMonster
  <2>5. CASE HandleNpcSpawn \/ HandleReturnNpcSpawn
    BY <2>1, <2>5 DEF HandleNpcSpawn, HandleReturnNpcSpawn
  <2>6. ASSUME NEW n \in 1 .. Len(announced), ReceiveAnnounced(n) PROVE NoticesInv'
    <3>1. ASSUME NEW c, HandleMonsterMove(c) \/ Crash PROVE NoticesInv'
      BY <2>1, <3>1 DEF HandleMonsterMove, Crash
    <3>2. HandleAnnounced(SubSeq(announced, 1, n)) => NoticesInv'
      BY <2>1, <3>1 DEF HandleAnnounced
    <3> QED
      BY <2>1, <2>6, <3>2 DEF ReceiveAnnounced
  <2>7. CASE PlayerEnters
    BY <2>2, <2>7, NpcAssumption DEF PlayerEnters
  <2>8. CASE PlayerDisconnects \/ PlayerTeleports
    BY <2>1, <2>8 DEF PlayerDisconnects, PlayerTeleports, PlayerLeaves, linkVars
  <2>9. ASSUME NEW c \in Cells, HandlePlayerMove(c) PROVE NoticesInv'
    BY <2>2, <2>9 DEF HandlePlayerMove
  <2>10. CASE ReceiveNotice \/ LoseNotice
    BY <2>1, <2>10 DEF ReceiveNotice, LoseNotice
  <2>11. QED BY <2>3, <2>4, <2>5, <2>6, <2>7, <2>8, <2>9, <2>10 DEF NextNpc
<1>step. NoticesInv /\ [NextNpc]_npcVars => [Next]_vars
  <2> SUFFICES ASSUME NoticesInv, [NextNpc]_npcVars PROVE [Next]_vars
    OBVIOUS
  <2>1. CASE UNCHANGED npcVars
    BY <2>1 DEF npcVars
  <2>2. CASE UpdateMonster
    <3>1. CASE pc = "out" /\ (UpdateIdle \/ SpotPlayer \/ UpdateChasing \/ UpdateSkill)
      BY <3>1 DEF Next, Update, UpdateMoving
    <3>2. ASSUME pc = "out", NEW c \in RoamGoals, RoamTo(c) PROVE Next
      BY <3>2 DEF Next, Update, UpdateMoving
    <3>3. CASE FindPath /\ UNCHANGED <<monsterVars, known, seen>>
      BY <3>3 DEF Next, Update
    <3>4. CASE Follow
      BY <3>4 DEF Next, Update
    <3>5. QED BY <2>2, <3>1, <3>2, <3>3, <3>4 DEF UpdateMonster
  <2>3. CASE ReceiveNotice
    <3>1. Head(notices).cell \in Cells
      <4>1. notices # <<>>
        BY <2>3 DEF ReceiveNotice
      <4>2. Head(notices) \in Notices
        BY <4>1, HeadTailProperties DEF NoticesInv
      <4>3. QED BY <4>2 DEF Notices
    <3>2. \/ EnterGame(Head(notices).cell)
          \/ Move(Head(notices).cell)
          \/ UNCHANGED vars
      BY <2>3 DEF ReceiveNotice
    <3>3. QED BY <3>1, <3>2 DEF Next
  <2>4. ASSUME NEW n \in 1 .. Len(announced), ReceiveAnnounced(n) PROVE UNCHANGED vars
    BY <2>4 DEF ReceiveAnnounced
  <2>5. ASSUME NEW c \in Cells, HandlePlayerMove(c) PROVE UNCHANGED vars
    BY <2>5 DEF HandlePlayerMove
  <2>6. HandleNpcSpawn \/ HandleReturnNpcSpawn \/ PlayerEnters \/ PlayerDisconnects
          \/ PlayerTeleports \/ LoseNotice => UNCHANGED vars
    BY DEF HandleNpcSpawn, HandleReturnNpcSpawn, PlayerEnters, PlayerDisconnects,
           PlayerTeleports, PlayerLeaves, LoseNotice
  <2>7. QED BY <2>1, <2>2, <2>3, <2>4, <2>5, <2>6 DEF NextNpc
<1>qed. QED BY <1>init, <1>notices, <1>step, PTL DEF NpcSpec, Spec
==============================================================================
