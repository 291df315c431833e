------------------------------- MODULE Walking -------------------------------
(***************************************************************************)
(* Players that walk about one zone, from the keys to the screens of the   *)
(* others.  A client moves its own player ahead of the server              *)
(* (MyPlayerController.cs) and tells it of its cell by RequestMove; the    *)
(* server grants a cell that is free and says nothing of one that is not   *)
(* (Zone::HandleMove, Map.cpp); it tells of a move the other clients, and  *)
(* these set the cell of the object they show (PacketHandler.cs).          *)
(*                                                                         *)
(* The players have entered and are in view of each other, which is what   *)
(* Sight is about.  In which frames a client steps to the next cell, for   *)
(* which it must have arrived at its own with a key down, and in which of  *)
(* them it sends a RequestMove early is left open; so are looks and skills.*)
(***************************************************************************)
EXTENDS Integers, Sequences, Functions

CONSTANTS
    Players,
    Nobody,             \* no actor
    Cells,              \* the cells without a wall, of the server and the clients
    Spawn,              \* where a login puts a player
    MaxRequests,        \* bound: moves of a client under way to the server
    MaxNotices          \* bound: notices under way to a client

ASSUME WalkingAssumption ==
    /\ Cells \subseteq Int \X Int
    /\ Spawn \in Cells
    /\ Nobody \notin Players
    /\ MaxRequests \in Nat \ {0}
    /\ MaxNotices \in Nat \ {0}

VARIABLES
    CellPos,            \* a client's own player: MyPlayer.CellPos
    shown,              \* CellPos of the others' objects at a client
    requests,           \* RequestMoves sent and not received
    pos,                \* a player's cell, on the server
    ObjectBuf,          \* of the zone's map
    notices             \* ReturnMoves to a client, not handled

vars == <<CellPos, shown, requests, pos, ObjectBuf, notices>>

Moves == [player : Players, cell : Cells]

TypeOK ==
    /\ CellPos \in [Players -> Cells]
    /\ shown \in [Players -> [Players -> Cells]]
    /\ requests \in [Players -> Seq(Cells)]
    /\ pos \in [Players -> Cells]
    /\ ObjectBuf \in [Cells -> Players \cup {Nobody}]
    /\ notices \in [Players -> Seq(Moves)]

(* All have entered: the first of them has got the cell, ApplyMove has     *)
(* refused it to the others.                                               *)
Init ==
    /\ CellPos = [p \in Players |-> Spawn]
    /\ shown = [p \in Players |-> [q \in Players |-> Spawn]]
    /\ requests = [p \in Players |-> <<>>]
    /\ pos = [p \in Players |-> Spawn]
    /\ \E first \in Players :
           ObjectBuf = [c \in Cells |-> IF c = Spawn THEN first ELSE Nobody]
    /\ notices = [p \in Players |-> <<>>]
-----------------------------------------------------------------------------
(* The client.                                                             *)

Directions == {<<0, 1>>, <<0, -1>>, <<-1, 0>>, <<1, 0>>}

(* ObjectManager.FindCreature, of the player's own object and the others'. *)
FindCreature(p, c) == CellPos[p] = c \/ \E q \in Players \ {p} : shown[p][q] = c

NoWall(c) == c \in Cells

(* The next cell, if there is no wall and nobody shown; else the player    *)
(* stays.                                                                  *)
MoveToNextPos(p, dir) ==
    LET destPos == <<CellPos[p][1] + dir[1], CellPos[p][2] + dir[2]>>
    IN  /\ NoWall(destPos) /\ ~FindCreature(p, destPos)
        /\ CellPos' = [CellPos EXCEPT ![p] = destPos]
        /\ UNCHANGED <<shown, requests, pos, ObjectBuf, notices>>

(* A RequestMove of the cell, whether it has changed or not: every 0.2 s,  *)
(* and when DesiredInput changes.                                          *)
Update(p) ==
    /\ Len(requests[p]) < MaxRequests
    /\ requests' = [requests EXCEPT ![p] = Append(@, CellPos[p])]
    /\ UNCHANGED <<CellPos, shown, pos, ObjectBuf, notices>>

(* PacketHandler.HandleReturnMove of another's move. *)
HandleReturnMove(p) ==
    /\ notices[p] # <<>>
    /\ LET move == Head(notices[p])
       IN  shown' = [shown EXCEPT ![p][move.player] = move.cell]
    /\ notices' = [notices EXCEPT ![p] = Tail(@)]
    /\ UNCHANGED <<CellPos, requests, pos, ObjectBuf>>
-----------------------------------------------------------------------------
(* The server.                                                             *)

CanGo(c) == c \in Cells /\ ObjectBuf[c] = Nobody

(* Fault: the cell that is left stays taken. *)
ApplyMoveKeepsOld(p, dest) ==
    IF CanGo(dest)
    THEN /\ ObjectBuf' = [ObjectBuf EXCEPT ![dest] = p]
         /\ pos' = [pos EXCEPT ![p] = dest]
    ELSE UNCHANGED <<pos, ObjectBuf>>

ApplyMove(p, dest) ==
    IF CanGo(dest)
    THEN /\ ObjectBuf' = [c \in Cells |->
                IF c = dest THEN p
                ELSE IF c = pos[p] /\ ObjectBuf[c] = p THEN Nobody
                ELSE ObjectBuf[c]]
         /\ pos' = [pos EXCEPT ![p] = dest]
    ELSE UNCHANGED <<pos, ObjectBuf>>

BroadCast(p, c) ==
    notices' = [q \in Players |->
        IF q = p THEN notices[q]
        ELSE Append(notices[q], [player |-> p, cell |-> c])]

(* Fault: the move is announced before it is verified. *)
AnnounceFirst(p, c) ==
    /\ BroadCast(p, c)
    /\ IF c = pos[p] \/ CanGo(c) THEN ApplyMove(p, c) ELSE UNCHANGED <<pos, ObjectBuf>>

(* Zone::HandleMove: neither the player that asks for a cell that is taken *)
(* nor anybody else is told.                                               *)
HandleMove(p, c) ==
    IF c = pos[p] \/ CanGo(c)
    THEN ApplyMove(p, c) /\ BroadCast(p, c)
    ELSE UNCHANGED <<pos, ObjectBuf, notices>>

(* What HandlePacket<T> may make of the moves in a receive, whose bytes it *)
(* parses as one: the fields of later ones overwrite those of the first,   *)
(* and a 0 is not sent and overwrites nothing.                             *)
Parsed(moves) ==
    {<<c[1], d[2]>> : c \in Range(moves), d \in Range(moves)}

(* ClientSession::OnRecv of n moves received at once.  A move that comes   *)
(* alone is handled.  Of several, each time all their bytes are given to   *)
(* the parser, which refuses them, when nothing is handled, or mixes them. *)
(* (What the zone's queue does to the closures is ZoneMailbox's matter:    *)
(* here the n closures of a receive are called at once, when the second    *)
(* finds the cell as taken as the first did, or the player on it.)         *)
OnRecv(p, n) ==
    LET moves == SubSeq(requests[p], 1, n)
    IN  /\ n \in 1 .. Len(requests[p])
        /\ \A q \in Players : Len(notices[q]) < MaxNotices
        /\ \/ \E c \in Parsed(moves) : HandleMove(p, c)
           \/ n > 1 /\ UNCHANGED <<pos, ObjectBuf, notices>>
        /\ requests' = [requests EXCEPT ![p] = SubSeq(@, n + 1, Len(@))]
        /\ UNCHANGED <<CellPos, shown>>

Receive(p) == \E n \in 1 .. Len(requests[p]) : OnRecv(p, n)
-----------------------------------------------------------------------------
Next ==
    \E p \in Players :
        \/ \E dir \in Directions : MoveToNextPos(p, dir)
        \/ Update(p) \/ HandleReturnMove(p)
        \/ Receive(p)

Spec == Init /\ [][Next]_vars

(* The timer of a client runs out again and again, the server's threads    *)
(* and the clients' handlers run on, and of the moves of a client, 0.2 s   *)
(* apart, again and again one is received alone.                           *)
Fairness ==
    \A p \in Players :
        WF_vars(Update(p)) /\ SF_vars(OnRecv(p, 1)) /\ WF_vars(HandleReturnMove(p))

FairSpec == Spec /\ Fairness
-----------------------------------------------------------------------------
(* The notices about q under way to the client of p. *)
About(p, q) == {i \in DOMAIN notices[p] : notices[p][i].player = q}

(* Where a client shows another player is where the server has it, once    *)
(* the notices under way to the client are handled: a refusal, of which    *)
(* nobody is told, leaves no client with a cell that was not granted       *)
(* (Zone.cpp:287, 297).                                                    *)
OthersShownRight ==
    \A p, q \in Players : p # q =>
        /\ About(p, q) = {} => shown[p][q] = pos[q]
        /\ \A i \in About(p, q) : (\A j \in About(p, q) : j <= i) =>
               notices[p][i].cell = pos[q]

(* Two players share no cell but the one on which both have entered.       *)
OnlySpawnShared ==
    \A p, q \in Players : p # q /\ pos[p] = pos[q] => pos[p] = Spawn

(* A client that has moved its player ahead of the server, to a cell it    *)
(* is then refused, is not told.  If it stays on the cell, and the server  *)
(* has nobody else there, the server comes to have its player there too,   *)
(* although a receive of several moves loses them all or mixes them        *)
(* (Zone.cpp:287, MyPlayerController.cs:44).  Two players of which each    *)
(* has, on the server, the cell the other is on wait for each other for    *)
(* ever.                                                                   *)
Reconciled ==
    \A p \in Players, c \in Cells :
        <>[](CellPos[p] = c /\ \A q \in Players \ {p} : pos[q] # c)
            => <>[](pos[p] = c)
=============================================================================
